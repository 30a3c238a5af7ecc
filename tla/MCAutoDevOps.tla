---------------------------- MODULE MCAutoDevOps ----------------------------
(* One stack of a scope that may or may not be a host: two possible rows. *)
EXTENDS AutoDevOps
=============================================================================
