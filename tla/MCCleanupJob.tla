---------------------------- MODULE MCCleanupJob ----------------------------
(* CleanupJob for TLC.  A job shares nothing with another job, nor a       *)
(* stream with another stream: one of each is enough.                      *)
EXTENDS CleanupJob
=============================================================================
