---------------------------- MODULE MCAnyServer ----------------------------
(* Instance of AnyServer for TLC. *)
EXTENDS AnyServer

MCBackupIds == {0, 1}

MCServerMessages ==
  [cmd : {"ansToClientLogin"}, issuccess : BOOLEAN]
    \cup [cmd : {"ansToLsSummary"}, backups : {1}]
    \cup [cmd : {"ansToRestore"}, archive : {"whole", "short"}]
    \cup [cmd : {"ansToBackup"}, backupid : {0}, issuccess : {TRUE}]
    \cup [cmd : {"serverExit", "serverError", "notFoundBackupByIdOnServer"}]

FewUnderWay == Len(toServer) <= 1 /\ Len(toClient) <= 2
=============================================================================
