---------------------------- MODULE MCBackupRun ----------------------------
(* Instances of BackupRun for TLC. *)
EXTENDS BackupRun
=============================================================================
