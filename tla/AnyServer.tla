----------------------------- MODULE AnyServer -----------------------------
(***************************************************************************)
(* The client of this repository with a server about which nothing is      *)
(* assumed: it sends any answer at any time, twice, too late or unasked.   *)
(***************************************************************************)
EXTENDS ClientSession

CONSTANTS
  ServerMessages,   \* the messages the server may send
  MaxMessages       \* bound: how many it sends

ASSUME ServerMessagesAssumption == ServerMessages \subseteq ServerMessage
ASSUME MaxMessagesAssumption == MaxMessages \in Nat

VARIABLES
  sent,    \* messages sent by the server
  asked    \* history: the restores asked for

vars == <<channels, clientVars, sent, asked>>

Init == ProtocolInit /\ ClientInit /\ sent = 0 /\ asked = <<>>

ServerWrites ==
  /\ link = "up"
  /\ sent < MaxMessages
  /\ sent' = sent + 1
  /\ \E m \in ServerMessages : toClient' = Append(toClient, m)
  /\ UNCHANGED <<link, toServer, clientVars, asked>>

ServerReads ==
  /\ toServer # <<>>
  /\ ServerConsumes
  /\ UNCHANGED <<clientVars, sent, asked>>

LinkFails == link # "down" /\ LinkBreaks /\ UNCHANGED <<clientVars, sent, asked>>

ClientSteps ==
  /\ ClientNext
  /\ asked' = IF clientState' = "WAIT_RESTORE_RESULT" /\ typed' # typed
              THEN Append(asked, restoreId') ELSE asked
  /\ UNCHANGED sent

Next == ClientSteps \/ ServerWrites \/ ServerReads \/ LinkFails

Spec == Init /\ [][Next]_vars

-----------------------------------------------------------------------------
TypeOK ==
  /\ ProtocolTypeOK
  /\ ClientTypeOK
  /\ sent \in 0..MaxMessages
  /\ asked \in Seq(BackupIds)

(***************************************************************************)
(* The client reports a restore at most once, and with the id it last      *)
(* asked for, whatever the server sends or repeats: procReceiveArchive-    *)
(* ToRestore unpacks into restorePath only while it waits for an archive.  *)
(***************************************************************************)
OneReportPerRestore ==
  /\ Len(reported) <= Len(asked)
  /\ reported # <<>> => \E i \in 1..Len(asked) :
                          /\ i >= Len(reported)
                          /\ asked[i] = reported[Len(reported)].id
=============================================================================
