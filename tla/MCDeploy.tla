------------------------------ MODULE MCDeploy ------------------------------
(* Deploy for TLC: contents that differ in the compose file or elsewhere.  *)
EXTENDS Deploy, TLC

CONSTANTS c1, c2, e1, e2
Content(c, e) == [compose |-> c, extra |-> e]
MCContents == {Content(c1, e1), Content(c1, e2), Content(c2, e1)}
Symmetry == Permutations(Deploys) \cup Permutations(Detections)
=============================================================================
