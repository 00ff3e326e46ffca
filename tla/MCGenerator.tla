----------------------------- MODULE MCGenerator -----------------------------
(* Two types with a template and one without; plans of one group, of two, of   *)
(* one that does not render, and of one that has no template; two runs.        *)
EXTENDS Generator

CONSTANTS b1, b2

MCPlans ==
  {[t \in {1, 2} |-> b1], [t \in {1, 2} |-> b2], [t \in {2} |-> b2],
   [t \in {1, 2} |-> IF t = 1 THEN b1 ELSE Unrenderable],
   [t \in {1, 2, 3} |-> b1]}
=============================================================================
