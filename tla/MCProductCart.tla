--------------------------- MODULE MCProductCart ---------------------------
(* An instance of ProductCart: one cart beside one other source.           *)
EXTENDS ProductCart

CONSTANTS c1, k1, v1, x1, x2

AllKeys == (Carts \X Variants) \cup Others
MCVariantOf == [k \in AllKeys |-> v1]
=============================================================================
