---------------------------- MODULE MCConnection ----------------------------
(* Instance of Connection for TLC. *)
EXTENDS Connection

\* One id that names the first backup, one beyond a store of one backup.
MCBackupIds == {0, 1}
=============================================================================
