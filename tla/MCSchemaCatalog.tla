-------------------------- MODULE MCSchemaCatalog --------------------------
(* Two processes that run commands over two versions of one provider and   *)
(* one of another, and two tasks that read.                                *)
EXTENDS SchemaCatalog, TLC

CONSTANTS p1, p2, r1, r2, aws5, aws4, gcp4

MCSchemas == {aws5, aws4, gcp4}
MCWanted == {aws4}
MCProvider == [s \in MCSchemas |-> IF s = gcp4 THEN "google" ELSE "aws"]
MCPlace == [s \in MCSchemas |->
              CASE s = aws5 -> 1 [] s = aws4 -> 2 [] s = gcp4 -> 3]
MCSymmetry == Permutations(Processes) \cup Permutations(Readers)
=============================================================================
