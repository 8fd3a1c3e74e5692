----------------------------- MODULE Connection -----------------------------
(***************************************************************************)
(* The client of this repository talking to its session on the server,     *)
(* over a connection that may break at any moment, with a client and a     *)
(* server that may end at any moment and other sessions of the same user   *)
(* that add backups meanwhile.                                             *)
(***************************************************************************)
EXTENDS ClientSession, ClientSessionOnServer

vars == <<channels, clientVars, serverVars>>

Init == ProtocolInit /\ ClientInit /\ ServerInit

LinkFails == link # "down" /\ LinkBreaks /\ UNCHANGED <<clientVars, serverVars>>

Next ==
  \/ ClientNext /\ UNCHANGED serverVars
  \/ onNewConnection /\ UNCHANGED clientVars
  \/ ServerHandlesMessage /\ UNCHANGED clientVars
  \/ disconnectSocket /\ UNCHANGED clientVars
  \/ ServerCrashes /\ UNCHANGED clientVars
  \/ OtherSessionBacksUp /\ UNCHANGED clientVars
  \/ LinkFails

Spec == Init /\ [][Next]_vars

\* The two event loops run: what is delivered is handled, a connection is
\* accepted and a disconnect is noticed.  Nothing makes a user type.
Fairness ==
  /\ WF_vars(ClientHandlesMessage /\ UNCHANGED serverVars)
  /\ WF_vars(onNewConnection /\ UNCHANGED clientVars)
  /\ WF_vars(ServerHandlesMessage /\ UNCHANGED clientVars)
  /\ WF_vars(disconnectSocket /\ UNCHANGED clientVars)

FairSpec == Spec /\ Fairness

-----------------------------------------------------------------------------
(***************************************************************************)
(* Type correctness, with the bound the alternation of the two sides puts  *)
(* on what is under way: a report of a restore and the request that        *)
(* follows it, and one answer.                                             *)
(***************************************************************************)
TypeOK ==
  /\ ProtocolTypeOK
  /\ ClientTypeOK
  /\ ServerTypeOK
  /\ Len(toServer) \in 0..2
  /\ Len(toClient) \in 0..1

(***************************************************************************)
(* An answer meets a client that waits for it, and nothing else is under   *)
(* way then: procNotFoundBackupId and the two error handlers set the state *)
(* without a look at it, so a late answer would free a waiting client.     *)
(***************************************************************************)
AnswersFor(state) ==
  CASE state = "WAIT_LOGIN_STATUS" -> {"ansToClientRegister", "ansToClientLogin"}
    [] state = "WAIT_LS_RESULT" ->
         {"ansToLsSummary", "ansToLsDetailed", "notFoundBackupByIdOnServer",
          "serverError"}
    [] state = "WAIT_RESTORE_RESULT" ->
         {"ansToRestore", "notFoundBackupByIdOnServer"}
    [] state = "WAIT_BACKUP_RESULT" -> {"ansToBackup"}
    [] OTHER -> {}

AnswersAreAwaited ==
  toClient # <<>> =>
    /\ clientAlive
    /\ toServer = <<>>
    /\ toClient[1].cmd \in AnswersFor(clientState)

(***************************************************************************)
(* The client's and the server's state machines never disagree: no step    *)
(* takes an "Error with curstate" branch, neither the ones that end the    *)
(* session nor procRestoreRequest's, which goes on with the request.       *)
(***************************************************************************)
ServerNeverRejects == [][~ServerRejects]_vars

(***************************************************************************)
(* The restore counters count what the users saw: each report is counted   *)
(* once, in order, for the backup whose restore the user asked for; only   *)
(* a report that was still under way when the connection broke is missed.  *)
(***************************************************************************)
RestoresCountedAsReported ==
  /\ Len(counted) <= Len(reported)
  /\ Len(reported) <= Len(counted) + 1
  /\ \A i \in 1..Len(counted) : counted[i] = reported[i]
  /\ Len(reported) > Len(counted) /\ link = "up" =>
       toServer # <<>> /\ toServer[1].cmd = "replyAfterRestore"

(***************************************************************************)
(* A restore reported as a success, whose archive the client could open    *)
(* curunpack.pck for, was of a backup whose archive is whole on the        *)
(* server: a short or missing archive, or one that was cut when it was     *)
(* written, is never taken for one.  Nothing holds of the others: an       *)
(* earlier restore's file is unpacked then, and that is reported.          *)
(***************************************************************************)
SuccessIsOfWholeArchive ==
  \A i \in 1..Len(reported) :
    reported[i].ok /\ i \notin uncopied =>
                      /\ reported[i].id \in 0..(Len(archives) - 1)
                      /\ archives[reported[i].id + 1] = "whole"

(***************************************************************************)
(* A client aborts only upon a serverError, never because the answer it    *)
(* got is not the one it waited for.                                       *)
(***************************************************************************)
AbortsOnServerErrorOnly ==
  [][clientState # "ABORTED" /\ clientState' = "ABORTED"
       => toClient # <<>> /\ Head(toClient).cmd = "serverError"]_vars

(***************************************************************************)
(* A request is answered, as long as the connection and both processes     *)
(* stay: no lost or unmatched answer leaves the client busy.  After a      *)
(* break it is busy for ever: nothing in the client notices the end.       *)
(***************************************************************************)
RequestsAnswered == WaitsForServer ~> (~WaitsForServer \/ link = "down")

(***************************************************************************)
(* A session is deleted after its connection is gone, whatever the session *)
(* was doing: none waits for a report of a restore that will not come.     *)
(***************************************************************************)
SessionsEnd == link = "down" ~> session \in {"deleted", "crashed"}

-----------------------------------------------------------------------------
(***************************************************************************)
(* The inductive invariant: where the two sides are, for each state of the *)
(* client.  Its consequences above are what one wants to know.             *)
(***************************************************************************)
Requests == {"ls", "restore", "backup"}

Logins == {"clientRegister", "clientLogin"}

\* What may wait to be handled, by the state the server will handle it in.
RequestsFitServer ==
  \/ toServer = <<>>
  \/ /\ Len(toServer) = 1
     /\ \/ perClientState = "NOT_AUTORIZATED" /\ toServer[1].cmd \in Logins
        \/ perClientState = "NORMAL" /\ toServer[1].cmd \in Requests
        \/ /\ perClientState = "WAIT_RESTORE_RESULT"
           /\ toServer[1].cmd = "replyAfterRestore"
  \/ /\ Len(toServer) = 2
     /\ perClientState = "WAIT_RESTORE_RESULT"
     /\ toServer[1].cmd = "replyAfterRestore"
     /\ toServer[2].cmd \in Requests

ReportUnderWay == toServer # <<>> /\ toServer[1].cmd = "replyAfterRestore"

RequestUnderWay(cmds) ==
  /\ toClient = <<>>
  /\ toServer # <<>>
  /\ toServer[Len(toServer)].cmd \in cmds

AnswerUnderWay == toServer = <<>> /\ toClient # <<>>

NothingUnderWay == toServer = <<>> /\ toClient = <<>>

SynchronisedWhileUp ==
  /\ clientAlive
  /\ clientState # "NOT_STARTED"
  /\ clientState = "WAIT_LOGIN_INPUT" =>
       NothingUnderWay /\ perClientState = "NOT_AUTORIZATED"
  /\ clientState = "WAIT_LOGIN_STATUS" =>
       \/ RequestUnderWay(Logins)
       \/ /\ AnswerUnderWay
          /\ perClientState = IF toClient[1].issuccess
                              THEN "NORMAL" ELSE "NOT_AUTORIZATED"
  /\ clientState = "WAIT_USER_INPUT" =>
       /\ toClient = <<>>
       /\ \/ toServer = <<>> /\ perClientState = "NORMAL"
          \/ Len(toServer) = 1 /\ ReportUnderWay
  /\ clientState = "WAIT_LS_RESULT" =>
       \/ RequestUnderWay({"ls"})
       \/ AnswerUnderWay /\ perClientState = "NORMAL"
  /\ clientState = "WAIT_BACKUP_RESULT" =>
       \/ RequestUnderWay({"backup"})
       \/ AnswerUnderWay /\ perClientState = "NORMAL"
  /\ clientState = "WAIT_RESTORE_RESULT" =>
       \/ /\ RequestUnderWay({"restore"})
          /\ toServer[Len(toServer)].backupid = restoreId
       \/ /\ AnswerUnderWay
          /\ IF toClient[1].cmd = "ansToRestore"
             THEN /\ perClientState = "WAIT_RESTORE_RESULT"
                  /\ restoreBackupId = restoreId
             ELSE perClientState = "NORMAL"
  /\ clientState = "ABORTED" => NothingUnderWay /\ perClientState = "NORMAL"

UntouchedWhileConnecting ==
  /\ clientAlive
  /\ clientState = "NOT_STARTED"
  /\ NothingUnderWay
  /\ perClientState = "NOT_AUTORIZATED"

\* An archive under way is the one of the backup the user asked for.
ArchiveUnderWay ==
  toClient # <<>> /\ toClient[1].cmd = "ansToRestore" =>
    /\ restoreId \in 0..(Len(archives) - 1)
    /\ archives[restoreId + 1] = toClient[1].archive

\* How far the server's count is behind what the client reported.
Tally ==
  /\ \A i \in 1..Len(counted) : counted[i] = reported[i]
  /\ Len(reported) \in {Len(counted), Len(counted) + 1}
  /\ toClient # <<>> => Len(reported) = Len(counted)
  /\ IF ReportUnderWay
     THEN /\ Len(reported) = Len(counted) + 1
          /\ reported[Len(reported)] = [id |-> restoreBackupId,
                                        ok |-> toServer[1].issuccess]
     ELSE link # "down" => Len(reported) = Len(counted)

\* The states of the session that the handlers of the client's requests leave.
ServerInOrder ==
  /\ perClientState # "ABORTED"
  /\ perClientState \in {"NORMAL", "WAIT_RESTORE_RESULT"} => userDataHolder = "set"

Synchronised ==
  /\ RequestsFitServer
  /\ link = "up" => SynchronisedWhileUp
  /\ link = "connecting" => UntouchedWhileConnecting

-----------------------------------------------------------------------------
(***************************************************************************)
(* "State is aborted." (clientsession.cpp:412), what procServerExit tells  *)
(* the user: the client is aborted when the server gave the session up.    *)
(* The swapped cases of onNetworkInput refute it.                          *)
(***************************************************************************)
AbortedWithTheServer ==
  clientState = "ABORTED" => session # "alive" \/ perClientState = "ABORTED"
=============================================================================
