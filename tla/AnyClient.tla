----------------------------- MODULE AnyClient -----------------------------
(***************************************************************************)
(* A session of the server with a client about which nothing is assumed:   *)
(* it may send any command of the protocol at any time and need not wait   *)
(* for an answer.  The project plans clients for every operating system    *)
(* (README.md), so the server cannot count on this repository's client.    *)
(***************************************************************************)
EXTENDS ClientSessionOnServer

CONSTANT MaxMessages   \* bound: messages the client sends

ASSUME MaxMessagesAssumption == MaxMessages \in Nat

VARIABLE sent

vars == <<channels, serverVars, sent>>

Init == link = "up" /\ toServer = <<>> /\ toClient = <<>> /\ ServerInit /\ sent = 0

ClientWrites ==
  /\ link = "up"
  /\ sent < MaxMessages
  /\ sent' = sent + 1
  /\ \E m \in ClientMessage : ClientSends(m)
  /\ UNCHANGED serverVars

ClientReads ==
  /\ toClient # <<>>
  /\ ClientConsumes
  /\ UNCHANGED <<serverVars, sent>>

LinkFails == link # "down" /\ LinkBreaks /\ UNCHANGED <<serverVars, sent>>

Next ==
  \/ ClientWrites
  \/ ClientReads
  \/ LinkFails
  \/ /\ \/ onNewConnection
        \/ ServerHandlesMessage
        \/ disconnectSocket
        \/ ServerCrashes
        \/ OtherSessionBacksUp
     /\ UNCHANGED sent

Spec == Init /\ [][Next]_vars

-----------------------------------------------------------------------------
TypeOK == ProtocolTypeOK /\ ServerTypeOK /\ sent \in 0..MaxMessages

(***************************************************************************)
(* serverExit is the last word of a session: nothing the client had sent   *)
(* before is handled after it and nothing is answered after it.            *)
(***************************************************************************)
ServerExitIsLast ==
  \A i \in 1..Len(toClient) :
    toClient[i].cmd = "serverExit" =>
      i = Len(toClient) /\ link = "down" /\ toServer = <<>>

(***************************************************************************)
(* Nothing about backups is sent before a login or a registration that     *)
(* succeeded, in whatever order the requests come.                         *)
(***************************************************************************)
NothingServedBeforeLogin ==
  \A i \in 1..Len(toClient) :
    toClient[i].cmd \in {"ansToLsSummary", "ansToLsDetailed", "ansToRestore",
                         "ansToBackup", "notFoundBackupByIdOnServer"}
      => userDataHolder = "set"

(***************************************************************************)
(* A restore is counted at most once for each archive sent, for the backup *)
(* that was sent, however often the client repeats its requests and        *)
(* reports.                                                                *)
(***************************************************************************)
CountsFollowOffers ==
  /\ Len(counted) <= Len(offered)
  /\ \A i \in 1..Len(counted) : counted[i].id = offered[i]

-----------------------------------------------------------------------------
\* "Server exit because of error with curstate" (clientsessiononserver.cpp:233):
\* a session that sent serverExit is over, its state is ABORTED.  Stated of
\* authorised sessions only, where no undefined behaviour is involved.
ServerExitAborts ==
  \A i \in 1..Len(toClient) :
    toClient[i].cmd = "serverExit" /\ userDataHolder = "set"
      => perClientState = "ABORTED"
=============================================================================
