----------------------------- MODULE MCCheckout -----------------------------
(* Instances of Checkout: an auction order with two rates to choose from   *)
(* and a crash beside an event-cart order with two sessions; one order     *)
(* that is paid after checkout.                                            *)
EXTENDS Checkout, TLC

CONSTANTS s1, s2, r1

PerKind(auction, cart) == "auction" :> auction @@ "event-cart" :> cart

OverlapSessions == PerKind({s1}, {s1, s2})
OverlapAmounts == PerKind({1, 2}, {1})
OverlapCrashes == PerKind(1, 0)

SettleSessions == PerKind({s1}, {s1})
SettleAmounts == PerKind({1}, {1})
SettleCrashes == PerKind(2, 2)
NoCrashes == PerKind(0, 0)
=============================================================================
