---------------------------- MODULE MCEventCart ----------------------------
(* Instances of EventCart: two carts on one or two lineup items.           *)
EXTENDS EventCart

CONSTANTS c1, c2, i1, i2, v1, v2

AllKeys == Carts \X Items
EventKeys == (Carts \ Mixed) \X Items
MCProductOf == [i \in Items |-> IF i = i1 THEN v1 ELSE v2]
MCVariantOf == [k \in AllKeys |-> MCProductOf[k[2]]]

PairRegistration == {[listed |-> 2, current |-> 2]}
=============================================================================
