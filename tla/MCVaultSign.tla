---------------------------- MODULE MCVaultSign ----------------------------
(* An instance of VaultSign for TLC: see VaultSign.cfg. *)
EXTENDS VaultSign

\* none given or a negative one (-1), no retry, fewer and more than the default
MCGiven == {-1, 0, 1, 5}
=============================================================================
