----------------------------- MODULE MCTestRuns -----------------------------
(* Instances of TestRuns; runs and workers are model values.               *)
EXTENDS TestRuns

CONSTANTS r1, r2, w1, w2

\* The second worker is of an older deployment that lacks the suite.
OneInstalled == [w \in Workers |-> IF w = w1 THEN Runs ELSE {}]
=============================================================================
