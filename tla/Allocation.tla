----------------------------- MODULE Allocation -----------------------------
(***************************************************************************)
(* What the stock ledger promises its callers through reserve, release,    *)
(* commit and expire (interface AuctionInventory of                        *)
(* apps/api/src/auction/auction.service.ts): each source has a claim on    *)
(* units of one variant; a claim is raised only while the claims on the    *)
(* variant fit its stock; a firm claim neither lapses nor changes size;    *)
(* and a claim ends by release, at any time, or by lapse, while it is not  *)
(* firm.                                                                   *)
(*                                                                         *)
(* No counter, no row states, no clock and no locks: Stock implements      *)
(* this with all of them.                                                  *)
(***************************************************************************)
EXTENDS Integers, FiniteSets

CONSTANTS
    Variants,
    Keys,        \* sources, each after one variant
    VariantOf,
    MaxUnits     \* bound on a quantity

VARIABLES
    stock,       \* units the seller says there are
    claim        \* per source: the units it claims, and whether they are sold

allocationVars == <<stock, claim>>

NoClaim == [units |-> 0, firm |-> FALSE]

\* The units claimed of a variant, one by one.
Claimed(claims, v) ==
    Cardinality({u \in {k \in Keys : VariantOf[k] = v} \X (1..MaxUnits) : u[2] <= claims[u[1]].units})

AllocationInit ==
    /\ stock \in [Variants -> 0..MaxUnits]
    /\ claim = [k \in Keys |-> NoClaim]

\* A claim is placed or resized; only one that grows has to fit the stock.
Place(k, q) ==
    /\ ~ claim[k].firm
    /\ claim' = [claim EXCEPT ![k] = [units |-> q, firm |-> FALSE]]
    /\ q > claim[k].units => Claimed(claim', VariantOf[k]) <= stock[VariantOf[k]]
    /\ UNCHANGED stock

Settle(k) ==
    /\ claim[k].units > 0
    /\ claim' = [claim EXCEPT ![k].firm = TRUE]
    /\ UNCHANGED stock

Withdraw(k) ==
    /\ claim' = [claim EXCEPT ![k] = NoClaim]
    /\ UNCHANGED stock

\* Any claims that are not firm may lapse together.
LapseAll(ks) ==
    /\ \A k \in ks : ~ claim[k].firm
    /\ claim' = [k \in Keys |-> IF k \in ks THEN NoClaim ELSE claim[k]]
    /\ UNCHANGED stock

\* The seller corrects the stock; claims that exist stay, whatever the new figure.
Restate(v, n) ==
    /\ stock' = [stock EXCEPT ![v] = n]
    /\ UNCHANGED claim

AllocationNext ==
    \/ \E k \in Keys : Settle(k) \/ Withdraw(k) \/ \E q \in 1..MaxUnits : Place(k, q)
    \/ \E ks \in SUBSET Keys : LapseAll(ks)
    \/ \E v \in Variants, n \in 0..MaxUnits : Restate(v, n)

AllocationSpec == AllocationInit /\ [][AllocationNext]_allocationVars
=============================================================================
