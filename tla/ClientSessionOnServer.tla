----------------------- MODULE ClientSessionOnServer -----------------------
(***************************************************************************)
(* The server's side of one connection (clientsessiononserver.cpp).  A     *)
(* session lives in a thread of its own and its slots run one at a time,   *)
(* so a slot is an action.  What tryRegister and tryAuth decide is open    *)
(* here (module ServerClientManager is about it), and the user's stored    *)
(* backups are shared with the user's other sessions.                      *)
(***************************************************************************)
EXTENDS Protocol

CONSTANT MaxBackups   \* bound: the store's size up to which others add to it

ASSUME MaxBackupsAssumption == MaxBackups \in Nat

VARIABLES
  session,          \* "none", "alive", "deleted", or "crashed" with the server
  perClientState,   \* mPerClientState
  userDataHolder,   \* mUserDataHolder: "uninit", "null" or "set"
  restoreBackupId,  \* mRestoreBackupId
  archives,         \* the user's backups: archives[id + 1] is backup id
  offered,          \* history: the ids whose archive was sent
  counted           \* history: the restore results counted

serverVars == <<session, perClientState, userDataHolder, restoreBackupId,
                archives, offered, counted>>

SessionStates == {"none", "alive", "deleted", "crashed"}

CountedResult == [id : BackupIds \cup {NoBackupId}, ok : BOOLEAN]

ServerTypeOK ==
  /\ session \in SessionStates
  /\ perClientState \in {"NOT_AUTORIZATED", "NORMAL", "WAIT_RESTORE_RESULT",
                         "ABORTED"}
  /\ userDataHolder \in {"uninit", "null", "set"}
  /\ restoreBackupId \in BackupIds \cup {NoBackupId}
  /\ archives \in Seq(ArchiveStates)
  /\ offered \in Seq(BackupIds)
  /\ counted \in Seq(CountedResult)

ServerInit ==
  /\ session = "none"
  /\ perClientState = "NOT_AUTORIZATED"
  /\ userDataHolder = "uninit"
  /\ restoreBackupId = NoBackupId
  /\ archives = <<>>
  /\ offered = <<>>
  /\ counted = <<>>

isValidBackupId(id) == id < Len(archives)

-----------------------------------------------------------------------------
\* The manager accepts the connection and starts the session's thread.
onNewConnection ==
  /\ session = "none"
  /\ link # "connecting"
  /\ session' = "alive"
  /\ UNCHANGED <<channels, perClientState, userDataHolder, restoreBackupId,
                 archives, offered, counted>>

ServerReceives(cmds) ==
  /\ session = "alive"
  /\ toServer # <<>>
  /\ Head(toServer).cmd \in cmds

\* The start of every handler but one: a request in the wrong state.
RejectUnexpected(cmds, state) ==
  /\ ServerReceives(cmds)
  /\ perClientState # state
  /\ ServerRepliesAndCloses([cmd |-> "serverExit"], <<>>)
  /\ perClientState' = "ABORTED"
  /\ UNCHANGED <<session, userDataHolder, restoreBackupId, archives, offered,
                 counted>>

\* Mutant: a handler that does not look at the state.
AcceptInAnyState(cmds, state) == ServerReceives(cmds) /\ UNCHANGED session

Accept(cmds, state) ==
  /\ ServerReceives(cmds)
  /\ perClientState = state
  /\ UNCHANGED session

\* Mutant: the command of the request is sent back.
AuthEcho == [clientRegister |-> "clientRegister", clientLogin |-> "clientLogin"]

AuthAnswer == [clientRegister |-> "ansToClientRegister",
               clientLogin    |-> "ansToClientLogin"]

\* procRegistarionRequest and procLoginRequest; ok is the manager's decision.
procLoginRequest ==
  /\ Accept({"clientRegister", "clientLogin"}, "NOT_AUTORIZATED")
  /\ \E ok \in BOOLEAN :
       /\ userDataHolder' = IF ok THEN "set" ELSE "null"
       /\ perClientState' = IF ok THEN "NORMAL" ELSE "NOT_AUTORIZATED"
       /\ ServerReplies([cmd |-> AuthAnswer[Head(toServer).cmd],
                         issuccess |-> ok])
  /\ UNCHANGED <<restoreBackupId, archives, offered, counted>>

\* What is answered for a backup: the listing of an archive that lacks bytes
\* throws, and that of a whole one may (a file of the server it cannot use).
DetailedLsAnswers(id) ==
  IF archives[id + 1] = "whole"
  THEN {[cmd |-> "ansToLsDetailed", backupid |-> id], [cmd |-> "serverError"]}
  ELSE {[cmd |-> "serverError"]}

LsAnswers(id) ==
  IF id = NoBackupId THEN {[cmd |-> "ansToLsSummary", backups |-> Len(archives)]}
  ELSE IF ~isValidBackupId(id) THEN {[cmd |-> "notFoundBackupByIdOnServer"]}
  ELSE DetailedLsAnswers(id)

\* Mutant: a request for a backup that does not exist is not answered.
LsRequestUnanswered ==
  /\ Accept({"ls"}, "NORMAL")
  /\ LET id == Head(toServer).backupid
     IN  IF id = NoBackupId \/ isValidBackupId(id)
         THEN \E m \in LsAnswers(id) : ServerReplies(m) ELSE ServerConsumes
  /\ UNCHANGED <<perClientState, userDataHolder, restoreBackupId, archives,
                 offered, counted>>

procLsRequest ==
  /\ Accept({"ls"}, "NORMAL")
  /\ \E m \in LsAnswers(Head(toServer).backupid) : ServerReplies(m)
  /\ UNCHANGED <<perClientState, userDataHolder, restoreBackupId, archives,
                 offered, counted>>

\* Mutant: the id is not remembered for the report.
SendArchiveOnly(id) ==
  /\ perClientState' = "WAIT_RESTORE_RESULT"
  /\ offered' = Append(offered, id)
  /\ UNCHANGED restoreBackupId

\* procRestoreRequest from the validity check on.
SendArchive(id) ==
  /\ restoreBackupId' = id
  /\ perClientState' = "WAIT_RESTORE_RESULT"
  /\ offered' = Append(offered, id)

NotFound == [cmd |-> "notFoundBackupByIdOnServer"]

procRestoreRequest ==
  /\ Accept({"restore"}, "NORMAL")
  /\ LET id == Head(toServer).backupid
     IN  IF isValidBackupId(id)
         THEN /\ SendArchive(id)
              /\ ServerReplies([cmd |-> "ansToRestore",
                                archive |-> archives[id + 1]])
         ELSE /\ ServerReplies(NotFound)
              /\ UNCHANGED <<restoreBackupId, perClientState, offered>>
  /\ UNCHANGED <<userDataHolder, archives, counted>>

\* What the rest of procRestoreRequest sends: through a pointer that was never
\* written it may take any id for valid and read anything.
ArchivesRead(id) ==
  IF userDataHolder = "set" THEN {archives[id + 1]} ELSE ArchiveStates

\* In the wrong state procRestoreRequest hangs up like the other handlers,
\* but it does not return: it goes on with the request on a closed socket.
RejectRestore ==
  /\ ServerReceives({"restore"})
  /\ perClientState # "NORMAL"
  /\ userDataHolder # "null"
  /\ LET id == Head(toServer).backupid
         exit == [cmd |-> "serverExit"]
     IN  \/ /\ userDataHolder = "set" => isValidBackupId(id)
            /\ \E a \in ArchivesRead(id) :
                 ServerRepliesAndCloses(exit, <<[cmd |-> "ansToRestore", archive |-> a]>>)
            /\ SendArchive(id)
         \/ /\ userDataHolder = "set" => ~isValidBackupId(id)
            /\ ServerRepliesAndCloses(exit, <<NotFound>>)
            /\ perClientState' = "ABORTED"
            /\ UNCHANGED <<restoreBackupId, offered>>
  /\ UNCHANGED <<session, userDataHolder, archives, counted>>

\* The same with a holder pointer that is NULL or was never written: the
\* call through it ends the server's process.
RejectRestoreCrashes ==
  /\ ServerReceives({"restore"})
  /\ perClientState # "NORMAL"
  /\ userDataHolder # "set"
  /\ session' = "crashed"
  /\ link' = "down"
  /\ toServer' = <<>>
  /\ UNCHANGED <<toClient, perClientState, userDataHolder, restoreBackupId,
                 archives, offered, counted>>

\* Mutant: the session goes on waiting for a report.
ReplyAfterRestoreStays ==
  /\ Accept({"replyAfterRestore"}, "WAIT_RESTORE_RESULT")
  /\ counted' = Append(counted, [id |-> restoreBackupId,
                                 ok |-> Head(toServer).issuccess])
  /\ ServerConsumes
  /\ UNCHANGED <<perClientState, userDataHolder, restoreBackupId, archives, offered>>

procReplyAfterRestore ==
  /\ Accept({"replyAfterRestore"}, "WAIT_RESTORE_RESULT")
  /\ counted' = Append(counted, [id |-> restoreBackupId,
                                 ok |-> Head(toServer).issuccess])
  /\ perClientState' = "NORMAL"
  /\ ServerConsumes
  /\ UNCHANGED <<userDataHolder, restoreBackupId, archives, offered>>

\* addNewBackup takes the next id whether or not the file could be written;
\* isSuc is false only when it could not be created.
procBackupRequest ==
  /\ Accept({"backup"}, "NORMAL")
  /\ \E a \in ArchiveStates :
       /\ archives' = Append(archives, a)
       /\ ServerReplies([cmd |-> "ansToBackup", backupid |-> Len(archives),
                         issuccess |-> a # "missing"])
  /\ UNCHANGED <<perClientState, userDataHolder, restoreBackupId, offered,
                 counted>>

procClientExit ==
  /\ ServerReceives({"clientExit"})
  /\ ServerConsumes
  /\ UNCHANGED serverVars

\* The branches "Error with curstate" of the handlers.
ServerRejects ==
  \/ RejectUnexpected({"clientRegister", "clientLogin"}, "NOT_AUTORIZATED")
  \/ RejectUnexpected({"ls", "backup"}, "NORMAL")
  \/ RejectUnexpected({"replyAfterRestore"}, "WAIT_RESTORE_RESULT")
  \/ RejectRestore
  \/ RejectRestoreCrashes

ServerHandlesMessage ==
  \/ procLoginRequest
  \/ procLsRequest
  \/ procRestoreRequest
  \/ procReplyAfterRestore
  \/ procBackupRequest
  \/ procClientExit
  \/ ServerRejects

\* Mutant: a session that waits for a report is kept.
DisconnectUnlessRestoring ==
  /\ session = "alive"
  /\ link = "down"
  /\ toServer = <<>>
  /\ perClientState # "WAIT_RESTORE_RESULT"
  /\ session' = "deleted"
  /\ UNCHANGED <<channels, perClientState, userDataHolder, restoreBackupId,
                 archives, offered, counted>>

\* The socket's disconnected signal, after the last readyRead.
disconnectSocket ==
  /\ session = "alive"
  /\ link = "down"
  /\ toServer = <<>>
  /\ session' = "deleted"
  /\ UNCHANGED <<channels, perClientState, userDataHolder, restoreBackupId,
                 archives, offered, counted>>

\* The server's process ends under the session; its sockets close with it.
ServerCrashes ==
  /\ session \in {"none", "alive"}
  /\ session' = "crashed"
  /\ link' = "down"
  /\ toServer' = <<>>
  /\ \E n \in 0..Len(toClient) : toClient' = SubSeq(toClient, 1, n)
  /\ UNCHANGED <<perClientState, userDataHolder, restoreBackupId, archives,
                 offered, counted>>

\* Another session of the same user adds a backup.
OtherSessionBacksUp ==
  /\ session # "crashed"
  /\ Len(archives) < MaxBackups
  /\ \E a \in ArchiveStates : archives' = Append(archives, a)
  /\ UNCHANGED <<channels, session, perClientState, userDataHolder,
                 restoreBackupId, offered, counted>>
=============================================================================
