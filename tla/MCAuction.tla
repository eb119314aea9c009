----------------------------- MODULE MCAuction -----------------------------
(* Instances of Auction: two auctions of one event on one lineup item, and *)
(* one other source of the same variant.                                   *)
EXTENDS Auction, TLC

CONSTANTS a1, a2, cart, v1, i1, e1, ann, bob

AllKeys == {a1, a2, cart}
MCVariantOf == [k \in AllKeys |-> v1]
MCProductOf == [i \in {i1} |-> v1]
MCItemOf == [a \in {a1, a2} |-> i1]
MCEventOf == [i \in {i1} |-> e1]

FullRegistration == {[listed |-> 2, current |-> 2]}
UnitRegistration == {[listed |-> 1, current |-> 1]}

BidderSymmetry == Permutations({ann, bob})
=============================================================================
