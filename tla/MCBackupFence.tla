--------------------------- MODULE MCBackupFence ---------------------------
(* Model values for backup.sh against the gateway's quiesce. *)
EXTENDS BackupFence, TLC

ConnSymmetry == Permutations(Conns)
=============================================================================
