-------------------------- MODULE MCGitSyncService --------------------------
(* GitSyncService for TLC: the configurations a user goes through, which   *)
(* switch the service off and on and name a branch that the remote may     *)
(* lack.  Updates may be permuted where only safety is checked.            *)
EXTENDS GitSyncService, TLC

Conf(on, mode, b) == [on |-> on, mode |-> mode, url |-> "A", branch |-> b]
MCConfigs == {Conf(TRUE, "push", "other"), Conf(FALSE, "push", "main")}
MCModes == {Conf(TRUE, "push", "other"), Conf(FALSE, "pull", "main")}
MCSymmetry == Permutations(Updates)
=============================================================================
