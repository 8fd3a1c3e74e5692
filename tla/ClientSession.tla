--------------------------- MODULE ClientSession ---------------------------
(***************************************************************************)
(* The console client (clientsession.cpp): one user, one session.  Every   *)
(* slot runs to its end in the one thread of the client, so a slot is an   *)
(* action.  Lines the client answers without a change of state ("Busy.     *)
(* Try later.", help, a malformed login) are not actions.                  *)
(***************************************************************************)
EXTENDS Protocol

CONSTANT MaxCommands   \* bound: the commands the user types

ASSUME MaxCommandsAssumption == MaxCommands \in Nat

VARIABLES
  clientState,  \* mClientState
  clientAlive,  \* the client process runs
  restoreId,    \* the id typed with the current restorePath
  curunpack,    \* what curunpack.pck holds: "whole" or "short" (or no file)
  reported,     \* history: what was told to the server of each restore
  uncopied,     \* history: the reports whose curunpack.pck was not opened
  typed         \* number of commands typed

unpackVars == <<curunpack, reported, uncopied>>

clientVars == <<clientState, clientAlive, restoreId, unpackVars, typed>>

ClientStates ==
  {"NOT_STARTED", "WAIT_LOGIN_INPUT", "WAIT_LOGIN_STATUS", "WAIT_USER_INPUT",
   "WAIT_LS_RESULT", "WAIT_RESTORE_RESULT", "WAIT_BACKUP_RESULT", "ABORTED"}

WaitsForServer ==
  clientState \in {"WAIT_LOGIN_STATUS", "WAIT_LS_RESULT",
                   "WAIT_RESTORE_RESULT", "WAIT_BACKUP_RESULT"}

\* An archive file as unpack sees it: one that lacks bytes is one like none.
FileStates == {"whole", "short"}

RestoreResult == [id : BackupIds \cup {NoBackupId}, ok : BOOLEAN]

ClientTypeOK ==
  /\ clientState \in ClientStates
  /\ clientAlive \in BOOLEAN
  /\ restoreId \in BackupIds \cup {NoBackupId}
  /\ curunpack \in FileStates
  /\ reported \in Seq(RestoreResult)
  /\ uncopied \subseteq 1..Len(reported)
  /\ typed \in 0..MaxCommands

ClientInit ==
  /\ clientState = "NOT_STARTED"
  /\ clientAlive = TRUE
  /\ restoreId = NoBackupId
  /\ curunpack \in FileStates   \* an earlier run may have left one
  /\ reported = <<>>
  /\ uncopied = {}
  /\ typed = 0

-----------------------------------------------------------------------------
(***************************************************************************)
(* Input from the console.                                                 *)
(***************************************************************************)
Type(inState) ==
  /\ clientAlive
  /\ clientState = inState
  /\ typed < MaxCommands
  /\ typed' = typed + 1
  /\ UNCHANGED <<clientAlive, unpackVars>>

\* Mutants: a request is sent and the state is left as it was.
SendLoginAndStay(cmd) ==
  /\ Type("WAIT_LOGIN_INPUT")
  /\ ClientSends([cmd |-> cmd])
  /\ UNCHANGED <<clientState, restoreId>>

SendRestoreAndStay(id) ==
  /\ Type("WAIT_USER_INPUT")
  /\ restoreId' = id
  /\ ClientSends([cmd |-> "restore", backupid |-> id])
  /\ UNCHANGED clientState

sendLoginRequest(cmd) ==
  /\ Type("WAIT_LOGIN_INPUT")
  /\ ClientSends([cmd |-> cmd])
  /\ clientState' = "WAIT_LOGIN_STATUS"
  /\ UNCHANGED restoreId

askLs(id) ==
  /\ Type("WAIT_USER_INPUT")
  /\ ClientSends([cmd |-> "ls", backupid |-> id])
  /\ clientState' = "WAIT_LS_RESULT"
  /\ UNCHANGED restoreId

makeRestoreRequest(id) ==
  /\ Type("WAIT_USER_INPUT")
  /\ restoreId' = id
  /\ ClientSends([cmd |-> "restore", backupid |-> id])
  /\ clientState' = "WAIT_RESTORE_RESULT"

makeBackup ==
  /\ Type("WAIT_USER_INPUT")
  /\ ClientSends([cmd |-> "backup"])
  /\ clientState' = "WAIT_BACKUP_RESULT"
  /\ UNCHANGED restoreId

\* exit(0), a number that does not parse or an archive that pack or the
\* listing gives up (exceptions that leave the slot), a path fs_tree_collect
\* cannot walk (exit(1)), or a killed client.
ClientProcessEnds ==
  /\ clientAlive
  /\ clientAlive' = FALSE
  /\ link' = "down"
  /\ toClient' = <<>>
  /\ \E n \in 0..Len(toServer) : toServer' = SubSeq(toServer, 1, n)
  /\ UNCHANGED <<clientState, restoreId, unpackVars, typed>>

-----------------------------------------------------------------------------
(***************************************************************************)
(* Input from the network.                                                 *)
(***************************************************************************)
onStart ==
  /\ clientAlive
  /\ link = "connecting"
  /\ link' = "up"
  /\ clientState' = IF clientState = "NOT_STARTED"
                    THEN "WAIT_LOGIN_INPUT" ELSE "ABORTED"
  /\ UNCHANGED <<clientAlive, restoreId, unpackVars, typed, toServer, toClient>>

\* onNetworkInput is given the oldest message, one of those with cmd in cmds.
ClientReceives(cmds) ==
  /\ clientAlive
  /\ toClient # <<>>
  /\ Head(toClient).cmd \in cmds
  /\ UNCHANGED <<clientAlive, restoreId, typed>>

\* An answer in a state that does not wait for it aborts the client.
Expected(inState, nextState) ==
  clientState' = IF clientState = inState THEN nextState ELSE "ABORTED"

procLoginAns ==
  /\ ClientReceives({"ansToClientRegister", "ansToClientLogin"})
  /\ Expected("WAIT_LOGIN_STATUS", IF Head(toClient).issuccess
                                   THEN "WAIT_USER_INPUT"
                                   ELSE "WAIT_LOGIN_INPUT")
  /\ ClientConsumes
  /\ UNCHANGED unpackVars

\* procSummaryLs and procDetailedLs, which prints from another file.
procLsAnswer ==
  /\ ClientReceives({"ansToLsSummary", "ansToLsDetailed"})
  /\ Expected("WAIT_LS_RESULT", "WAIT_USER_INPUT")
  /\ ClientConsumes
  /\ UNCHANGED unpackVars

\* Mutant: the state of another answer is tested.
BackupResultsInWrongState ==
  /\ ClientReceives({"ansToBackup"})
  /\ Expected("WAIT_RESTORE_RESULT", "WAIT_USER_INPUT")
  /\ ClientConsumes
  /\ UNCHANGED unpackVars

procReceiveBackupResults ==
  /\ ClientReceives({"ansToBackup"})
  /\ Expected("WAIT_BACKUP_RESULT", "WAIT_USER_INPUT")
  /\ ClientConsumes
  /\ UNCHANGED unpackVars

\* Mutant: the sizes in the header are not compared with the file's size.
UnpackUnchecked(file) == BOOLEAN

\* unpack throws unless the sizes in the header add up to the file's size;
\* with a whole archive the outcome depends on the user's restorePath.
UnpackOutcomes(file) == IF file = "whole" THEN BOOLEAN ELSE {FALSE}

\* open truncates the file; how much write could write is not looked at.
CopiesOf(archive) == IF archive = "whole" THEN FileStates ELSE {"short"}

\* Nor is it looked at whether the file could be opened: if not, what the
\* restore before left in it is unpacked.
UnpackAndReport(archive) ==
  \E opened \in BOOLEAN, ok \in BOOLEAN :
    /\ curunpack' \in IF opened THEN CopiesOf(archive) ELSE {curunpack}
    /\ uncopied' = IF opened THEN uncopied ELSE uncopied \cup {Len(reported) + 1}
    /\ ok \in UnpackOutcomes(curunpack')
    /\ ClientReplies([cmd |-> "replyAfterRestore", issuccess |-> ok])
    /\ reported' = Append(reported, [id |-> restoreId, ok |-> ok])

\* Mutants: an archive is unpacked in any state; the reply lacks a field.
ReceiveArchiveAnytime ==
  /\ ClientReceives({"ansToRestore"})
  /\ UnpackAndReport(Head(toClient).archive)
  /\ clientState' = "WAIT_USER_INPUT"

ReceiveArchiveRepliesBare ==
  /\ ClientReceives({"ansToRestore"})
  /\ clientState = "WAIT_RESTORE_RESULT"
  /\ ClientReplies([cmd |-> "replyAfterRestore"])
  /\ clientState' = "WAIT_USER_INPUT"
  /\ UNCHANGED unpackVars

procReceiveArchiveToRestore ==
  /\ ClientReceives({"ansToRestore"})
  /\ IF clientState = "WAIT_RESTORE_RESULT"
     THEN /\ UnpackAndReport(Head(toClient).archive)
          /\ clientState' = "WAIT_USER_INPUT"
     ELSE /\ clientState' = "ABORTED"
          /\ ClientConsumes
          /\ UNCHANGED unpackVars

\* onNetworkInput hands serverExit to procServerError and serverError to
\* procServerExit; neither looks at the state, nor does procNotFoundBackupId.
procNotFoundBackupId ==
  /\ ClientReceives({"notFoundBackupByIdOnServer"})
  /\ clientState' = "WAIT_USER_INPUT"
  /\ ClientConsumes
  /\ UNCHANGED unpackVars

procServerError ==
  /\ ClientReceives({"serverExit"})
  /\ clientState' = "WAIT_USER_INPUT"
  /\ ClientConsumes
  /\ UNCHANGED unpackVars

procServerExit ==
  /\ ClientReceives({"serverError"})
  /\ clientState' = "ABORTED"
  /\ ClientConsumes
  /\ UNCHANGED unpackVars

ClientHandlesMessage ==
  \/ procLoginAns
  \/ procLsAnswer
  \/ procReceiveBackupResults
  \/ procReceiveArchiveToRestore
  \/ procNotFoundBackupId
  \/ procServerError
  \/ procServerExit

onConsoleInput ==
  \/ \E cmd \in {"clientRegister", "clientLogin"} : sendLoginRequest(cmd)
  \/ \E id \in BackupIds \cup {NoBackupId} : askLs(id)
  \/ \E id \in BackupIds : makeRestoreRequest(id)
  \/ makeBackup

ClientNext ==
  \/ onStart
  \/ onConsoleInput
  \/ ClientHandlesMessage
  \/ ClientProcessEnds
=============================================================================
