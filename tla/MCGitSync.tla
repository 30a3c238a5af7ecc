------------------------------ MODULE MCGitSync ------------------------------
(* GitSync for TLC: workers are model values, and interchangeable.         *)
EXTENDS GitSync, TLC

WorkerSymmetry == Permutations(Workers)
=============================================================================
