----------------------------- MODULE MCFixtures -----------------------------
(* An instance of Fixtures: two runs, two overlapping cleanups.            *)
EXTENDS Fixtures, TLC

CONSTANTS r1, r2, c1, c2

Symmetric == Permutations({r1, r2}) \cup Permutations({c1, c2})
=============================================================================
