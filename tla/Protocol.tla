------------------------------ MODULE Protocol ------------------------------
(***************************************************************************)
(* The wire between one client and its session on the server: the          *)
(* commands of protocol.h with the fields of networkMsgStructs.proto that  *)
(* the two sides branch on, and the one TCP connection that carries them.  *)
(* NetworkStream delivers whole messages in order (module NetworkStream    *)
(* is about that), so a direction of the connection is a sequence.         *)
(***************************************************************************)
EXTENDS Integers, Sequences

CONSTANT BackupIds    \* the backup ids a user may type

ASSUME BackupIdsAssumption == BackupIds \subseteq Nat

VARIABLES
  link,      \* "connecting", "up", "down": the TCP connection
  toServer,  \* messages written by the client and not yet handled
  toClient   \* messages written by the server and not yet handled

channels == <<link, toServer, toClient>>

\* The optional field backupId of LsClientRequest, when it is not set.
NoBackupId == -1

\* What is on the server's disk for a backup: all its bytes, some, no file.
ArchiveStates == {"whole", "short", "missing"}

ClientMessage ==
  [cmd : {"clientRegister", "clientLogin", "backup", "clientExit"}]
    \cup [cmd : {"ls"}, backupid : BackupIds \cup {NoBackupId}]
    \cup [cmd : {"restore"}, backupid : BackupIds]
    \cup [cmd : {"replyAfterRestore"}, issuccess : BOOLEAN]

ServerMessage ==
  [cmd : {"ansToClientRegister", "ansToClientLogin"}, issuccess : BOOLEAN]
    \cup [cmd : {"ansToLsSummary"}, backups : Nat]
    \cup [cmd : {"ansToLsDetailed"}, backupid : Nat]
    \cup [cmd : {"ansToRestore"}, archive : ArchiveStates]
    \cup [cmd : {"ansToBackup"}, backupid : Nat, issuccess : BOOLEAN]
    \cup [cmd : {"serverExit", "serverError", "notFoundBackupByIdOnServer"}]

ProtocolTypeOK ==
  /\ link \in {"connecting", "up", "down"}
  /\ toServer \in Seq(ClientMessage)
  /\ toClient \in Seq(ServerMessage)

ProtocolInit == link = "connecting" /\ toServer = <<>> /\ toClient = <<>>

-----------------------------------------------------------------------------
\* A write to a socket that is not connected any more is dropped.
Written(channel, m) == IF link = "up" THEN Append(channel, m) ELSE channel

ClientSends(m) ==
  /\ toServer' = Written(toServer, m)
  /\ UNCHANGED <<link, toClient>>

\* The client's handler ends: the message it was given is gone.
ClientConsumes == toClient' = Tail(toClient) /\ UNCHANGED <<link, toServer>>

ClientReplies(m) ==
  /\ toClient' = Tail(toClient)
  /\ toServer' = Written(toServer, m)
  /\ UNCHANGED link

ServerReplies(m) ==
  /\ toServer' = Tail(toServer)
  /\ toClient' = Written(toClient, m)
  /\ UNCHANGED link

ServerConsumes == toServer' = Tail(toServer) /\ UNCHANGED <<link, toClient>>

\* Mutant: the connection is left open after the last message.
ServerRepliesOnly(m, later) ==
  /\ toServer' = Tail(toServer)
  /\ toClient' = IF link = "up" THEN Append(toClient, m) \o later ELSE toClient
  /\ UNCHANGED link

\* QTcpSocket::close: what is written goes out, what is unread is discarded,
\* and what the handler writes later is dropped like after a break.
ServerRepliesAndCloses(m, later) ==
  /\ link' = "down"
  /\ toServer' = <<>>
  /\ toClient' = IF link' = "up" THEN Written(toClient, m) \o later
                                 ELSE Written(toClient, m)

\* The connection breaks: each side still reads a prefix of what was sent.
LinkBreaks ==
  /\ link' = "down"
  /\ \E n \in 0..Len(toServer) : toServer' = SubSeq(toServer, 1, n)
  /\ \E n \in 0..Len(toClient) : toClient' = SubSeq(toClient, 1, n)
=============================================================================
