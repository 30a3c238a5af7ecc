---------------------------- MODULE MCContainers ----------------------------
(* Containers for TLC.                                                     *)
EXTENDS Containers
=============================================================================
