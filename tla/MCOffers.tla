------------------------------ MODULE MCOffers ------------------------------
(* Instances of Offers: one lineup of two products.                        *)
EXTENDS Offers, TLC

CONSTANTS p1, p2, o1, m1, m2, s2, k1, k2, b1, b2

OneUnit == [p \in Products |-> 1]

\* The price guardrail, and a published policy that names a floor of 6 for p1.
Guarded == [maxMarkdown |-> 30, floors |-> [p \in Products |-> NoFloor], blocked |-> {}]

Published ==
    [maxMarkdown |-> 50, floors |-> [p \in Products |-> IF p = p1 THEN 6 ELSE NoFloor],
     blocked |-> {"push"}]

TwoPolicies == {Guarded, Published}

GuardrailOn == {Guarded}

References == [p \in Products |-> 10]

Proposal(kind, p, price, quantity, to) ==
    [kind |-> kind, product |-> p, price |-> price, quantity |-> quantity, to |-> to]

\* An offer, a markdown to 8, a price-adjust to 6, and a stage handover.
AllProposals ==
    o1 :> Proposal("targeted-offer", p1, 8, 1, p1)
    @@ m1 :> Proposal("markdown", p1, 8, 0, p1)
    @@ m2 :> Proposal("price-adjust", p1, 6, 1, p1)
    @@ s2 :> Proposal("push", p2, 0, 0, p2)

Proposals == [c \in Commands |-> AllProposals[c]]

Symmetric == Permutations({k1, k2}) \cup Permutations({b1, b2})
=============================================================================
