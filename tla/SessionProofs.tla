---------------------------- MODULE SessionProofs ----------------------------
(***************************************************************************)
(* Facts about the channels of Protocol, and type correctness of the two   *)
(* sides of a connection: each keeps its types whatever the other side of  *)
(* the connection sends.                                                   *)
(***************************************************************************)
EXTENDS ClientSession, ClientSessionOnServer, SequenceTheorems, TLAPS

(***************************************************************************)
(* What the operators of Protocol do to a channel.                         *)
(***************************************************************************)

\* A write keeps the type of a channel and adds at most its message.
LEMMA WrittenProperties ==
  ASSUME NEW S, NEW c \in Seq(S), NEW m \in S
  PROVE  /\ Written(c, m) \in Seq(S)
         /\ link = "up" => /\ Written(c, m) # <<>>
                           /\ Len(Written(c, m)) = Len(c) + 1
                           /\ Written(c, m)[Len(c) + 1] = m
                           /\ \A i \in 1..Len(c) : Written(c, m)[i] = c[i]
         /\ link # "up" => Written(c, m) = c
<1>1. CASE link = "up"
  <2>1. Written(c, m) = Append(c, m)
    BY <1>1 DEF Written
  <2> QED  BY <1>1, <2>1, AppendProperties
<1>2. CASE link # "up"
  BY <1>2 DEF Written
<1> QED  BY <1>1, <1>2

\* Handling a message removes the oldest one and keeps the others in order.
LEMMA TailFacts ==
  ASSUME NEW S, NEW c \in Seq(S), c # <<>>
  PROVE  /\ Tail(c) \in Seq(S)
         /\ Head(c) \in S
         /\ Head(c) = c[1]
         /\ Len(Tail(c)) = Len(c) - 1
         /\ \A i \in 1..(Len(c) - 1) : Tail(c)[i] = c[i + 1]
BY HeadTailProperties

\* What a broken connection leaves of a channel is a prefix of it.
LEMMA PrefixFacts ==
  ASSUME NEW S, NEW c \in Seq(S), NEW n \in 0..Len(c)
  PROVE  /\ SubSeq(c, 1, n) \in Seq(S)
         /\ Len(SubSeq(c, 1, n)) = n
         /\ \A i \in 1..n : SubSeq(c, 1, n)[i] = c[i]
         /\ SubSeq(c, 1, 0) = <<>>
BY SubSeqProperties

\* The fields a command carries.
LEMMA ClientMessageFields ==
  ASSUME NEW m \in ClientMessage
  PROVE  /\ m.cmd = "ls" => m.backupid \in BackupIds \cup {NoBackupId}
         /\ m.cmd = "restore" => m.backupid \in BackupIds
         /\ m.cmd = "replyAfterRestore" => m.issuccess \in BOOLEAN
BY DEF ClientMessage

\* The fields an answer carries.
LEMMA ServerMessageFields ==
  ASSUME NEW m \in ServerMessage
  PROVE  /\ m.cmd \in {"ansToClientRegister", "ansToClientLogin"} =>
              m.issuccess \in BOOLEAN
         /\ m.cmd = "ansToRestore" => m.archive \in ArchiveStates
BY DEF ServerMessage

\* What a broken connection leaves has its type.
LEMMA LinkTypes ==
  ASSUME ProtocolTypeOK, LinkBreaks
  PROVE  ProtocolTypeOK'
<1>1. PICK n \in 0..Len(toServer) : toServer' = SubSeq(toServer, 1, n)
  BY DEF LinkBreaks
<1>2. PICK k \in 0..Len(toClient) : toClient' = SubSeq(toClient, 1, k)
  BY DEF LinkBreaks
<1>3. toServer' \in Seq(ClientMessage) /\ toClient' \in Seq(ServerMessage)
  BY <1>1, <1>2, PrefixFacts DEF ProtocolTypeOK
<1> QED  BY <1>3 DEF LinkBreaks, ProtocolTypeOK

-----------------------------------------------------------------------------
(***************************************************************************)
(* Type correctness of each side.                                          *)
(***************************************************************************)
ClientTyped == ProtocolTypeOK /\ ClientTypeOK

SessionTyped == ProtocolTypeOK /\ ServerTypeOK

\* What happens on the side of the server.
SessionNext ==
  \/ onNewConnection
  \/ ServerHandlesMessage
  \/ disconnectSocket
  \/ ServerCrashes
  \/ OtherSessionBacksUp

USE DEF NoBackupId

\* Every step of the client keeps the types.
LEMMA ClientTypes ==
  ASSUME ClientTyped, ClientNext
  PROVE  ClientTyped'
<1> USE MaxCommandsAssumption DEF ClientTyped, ProtocolTypeOK, ClientTypeOK, unpackVars
<1>1. CASE onStart
  BY <1>1 DEF onStart, ClientStates
<1>2. CASE onConsoleInput
  <2>1. ASSUME NEW m \in ClientMessage, ClientSends(m)
        PROVE  ProtocolTypeOK'
    BY <2>1, WrittenProperties DEF ClientSends
  <2>2. ASSUME NEW state, Type(state)
        PROVE  typed' \in 0..MaxCommands /\ UNCHANGED <<clientAlive, unpackVars>>
    BY <2>2 DEF Type
  <2>3. ASSUME NEW cmd \in {"clientRegister", "clientLogin"}, sendLoginRequest(cmd)
        PROVE  ClientTyped'
    <3>1. [cmd |-> cmd] \in ClientMessage
      BY DEF ClientMessage
    <3> QED  BY <2>1, <2>2, <2>3, <3>1 DEF sendLoginRequest, ClientStates
  <2>4. ASSUME NEW id \in BackupIds \cup {NoBackupId}, askLs(id)
        PROVE  ClientTyped'
    <3>1. [cmd |-> "ls", backupid |-> id] \in ClientMessage
      BY DEF ClientMessage
    <3> QED  BY <2>1, <2>2, <2>4, <3>1 DEF askLs, ClientStates
  <2>5. ASSUME NEW id \in BackupIds, makeRestoreRequest(id)
        PROVE  ClientTyped'
    <3>1. [cmd |-> "restore", backupid |-> id] \in ClientMessage
      BY DEF ClientMessage
    <3> QED  BY <2>1, <2>2, <2>5, <3>1 DEF makeRestoreRequest, ClientStates
  <2>6. ASSUME makeBackup
        PROVE  ClientTyped'
    <3>1. [cmd |-> "backup"] \in ClientMessage
      BY DEF ClientMessage
    <3> QED  BY <2>1, <2>2, <2>6, <3>1 DEF makeBackup, ClientStates
  <2> QED  BY <1>2, <2>3, <2>4, <2>5, <2>6 DEF onConsoleInput
<1>3. CASE ClientHandlesMessage
  <2>1. ASSUME toClient # <<>>, ClientConsumes
        PROVE  ProtocolTypeOK'
    BY <2>1, TailFacts DEF ClientConsumes
  <2>2. ASSUME NEW cmds, ClientReceives(cmds)
        PROVE  /\ toClient # <<>>
               /\ Head(toClient).cmd \in cmds
               /\ Head(toClient) \in ServerMessage
               /\ UNCHANGED <<clientAlive, restoreId, typed>>
    BY <2>2, TailFacts DEF ClientReceives
  <2>3. CASE procLoginAns
    BY <2>1, <2>2, <2>3 DEF procLoginAns, Expected, ClientStates
  <2>4. CASE procLsAnswer
    BY <2>1, <2>2, <2>4 DEF procLsAnswer, Expected, ClientStates
  <2>5. CASE procReceiveBackupResults
    BY <2>1, <2>2, <2>5 DEF procReceiveBackupResults, Expected, ClientStates
  <2>6. CASE procReceiveArchiveToRestore
    <3>1. CASE clientState = "WAIT_RESTORE_RESULT"
      <4>1. PICK ok \in BOOLEAN :
              /\ ClientReplies([cmd |-> "replyAfterRestore", issuccess |-> ok])
              /\ reported' = Append(reported, [id |-> restoreId, ok |-> ok])
              /\ clientState' = "WAIT_USER_INPUT"
        BY <2>6, <3>1 DEF procReceiveArchiveToRestore, UnpackAndReport
      <4>0. /\ curunpack' \in FileStates
            /\ uncopied' \subseteq uncopied \cup {Len(reported) + 1}
        BY <2>6, <3>1 DEF procReceiveArchiveToRestore, UnpackAndReport, CopiesOf, FileStates
      <4>2. [cmd |-> "replyAfterRestore", issuccess |-> ok] \in ClientMessage
        BY DEF ClientMessage
      <4>3. [id |-> restoreId, ok |-> ok] \in RestoreResult
        BY DEF RestoreResult
      <4>4. toClient # <<>> /\ UNCHANGED <<clientAlive, restoreId, typed>>
        BY <2>2, <2>6 DEF procReceiveArchiveToRestore
      <4>5. ProtocolTypeOK'
        BY <4>1, <4>2, <4>4, WrittenProperties, TailFacts DEF ClientReplies
      <4>7. /\ reported' \in Seq(RestoreResult)
            /\ Len(reported') = Len(reported) + 1 /\ Len(reported) \in Nat
        BY <4>1, <4>3, AppendProperties, LenProperties
      <4>8. uncopied' \subseteq 1..Len(reported')
        BY <4>0, <4>7
      <4>6. ClientTypeOK'
        BY <4>0, <4>1, <4>4, <4>7, <4>8 DEF ClientStates
      <4> QED  BY <4>5, <4>6
    <3>2. CASE clientState # "WAIT_RESTORE_RESULT"
      BY <2>1, <2>2, <2>6, <3>2
         DEF procReceiveArchiveToRestore, ClientStates
    <3> QED  BY <3>1, <3>2
  <2>7. CASE procNotFoundBackupId
    BY <2>1, <2>2, <2>7 DEF procNotFoundBackupId, ClientStates
  <2>8. CASE procServerError
    BY <2>1, <2>2, <2>8 DEF procServerError, ClientStates
  <2>9. CASE procServerExit
    BY <2>1, <2>2, <2>9 DEF procServerExit, ClientStates
  <2> QED
    BY <1>3, <2>3, <2>4, <2>5, <2>6, <2>7, <2>8, <2>9
       DEF ClientHandlesMessage
<1>4. CASE ClientProcessEnds
  <2>1. PICK n \in 0..Len(toServer) : toServer' = SubSeq(toServer, 1, n)
    BY <1>4 DEF ClientProcessEnds
  <2>2. toServer' \in Seq(ClientMessage)
    BY <2>1, PrefixFacts
  <2>3. ProtocolTypeOK'
    BY <1>4, <2>2, EmptySeq DEF ClientProcessEnds
  <2>4. ClientTypeOK'
    BY <1>4 DEF ClientProcessEnds
  <2> QED  BY <2>3, <2>4
<1> QED  BY <1>1, <1>2, <1>3, <1>4 DEF ClientNext

\* What may be answered to a listing.
LEMMA LsAnswerFacts ==
  ASSUME archives \in Seq(ArchiveStates),
         NEW id \in BackupIds \cup {NoBackupId}, NEW m \in LsAnswers(id)
  PROVE  /\ m \in ServerMessage
         /\ m.cmd \in {"ansToLsSummary", "ansToLsDetailed",
                       "notFoundBackupByIdOnServer", "serverError"}
<1>1. CASE id = NoBackupId
  <2>1. m = [cmd |-> "ansToLsSummary", backups |-> Len(archives)]
    BY <1>1 DEF LsAnswers
  <2> QED  BY <2>1, LenProperties DEF ServerMessage
<1>2. CASE id # NoBackupId /\ ~isValidBackupId(id)
  <2>1. m = [cmd |-> "notFoundBackupByIdOnServer"]
    BY <1>2 DEF LsAnswers
  <2> QED  BY <2>1 DEF ServerMessage
<1>3. CASE id # NoBackupId /\ isValidBackupId(id)
  <2>1. id \in Nat
    BY <1>3, BackupIdsAssumption
  <2>2. m = [cmd |-> "ansToLsDetailed", backupid |-> id] \/ m = [cmd |-> "serverError"]
    BY <1>3 DEF LsAnswers, DetailedLsAnswers
  <2> QED  BY <2>1, <2>2 DEF ServerMessage
<1> QED  BY <1>1, <1>2, <1>3

\* Every step of the server keeps the types.
LEMMA SessionTypes ==
  ASSUME SessionTyped, SessionNext
  PROVE  SessionTyped'
<1> USE DEF SessionTyped, ProtocolTypeOK, ServerTypeOK
<1>1. CASE onNewConnection
  BY <1>1 DEF onNewConnection, channels, SessionStates
<1>2. CASE disconnectSocket
  BY <1>2 DEF disconnectSocket, channels, SessionStates
<1>3. CASE ServerCrashes
  <2>1. PICK n \in 0..Len(toClient) : toClient' = SubSeq(toClient, 1, n)
    BY <1>3 DEF ServerCrashes
  <2>2. toClient' \in Seq(ServerMessage)
    BY <2>1, PrefixFacts
  <2> QED  BY <1>3, <2>2 DEF ServerCrashes, SessionStates
<1>4. CASE OtherSessionBacksUp
  BY <1>4, AppendProperties DEF OtherSessionBacksUp, channels
<1>5. CASE ServerHandlesMessage
  <2>1. ASSUME NEW m \in ServerMessage, toServer # <<>>, ServerReplies(m)
        PROVE  ProtocolTypeOK'
    BY <2>1, WrittenProperties, TailFacts DEF ServerReplies
  <2>2. ASSUME NEW m \in ServerMessage, NEW later, ServerRepliesAndCloses(m, later)
        PROVE  ProtocolTypeOK'
    BY <2>2, WrittenProperties DEF ServerRepliesAndCloses
  <2>3. ASSUME toServer # <<>>, ServerConsumes
        PROVE  ProtocolTypeOK'
    BY <2>3, TailFacts DEF ServerConsumes
  <2>4. ASSUME NEW cmds, ServerReceives(cmds)
        PROVE  /\ toServer # <<>>
               /\ Head(toServer).cmd \in cmds
               /\ Head(toServer) \in ClientMessage
    BY <2>4, TailFacts DEF ServerReceives
  <2>5. [cmd |-> "serverExit"] \in ServerMessage
    BY DEF ServerMessage
  <2>6. NotFound \in ServerMessage
    BY DEF NotFound, ServerMessage
  <2>7. CASE procLoginRequest
    <3>1. PICK ok \in BOOLEAN :
            /\ userDataHolder' = IF ok THEN "set" ELSE "null"
            /\ perClientState' = IF ok THEN "NORMAL" ELSE "NOT_AUTORIZATED"
            /\ ServerReplies([cmd |-> AuthAnswer[Head(toServer).cmd],
                              issuccess |-> ok])
      BY <2>7 DEF procLoginRequest
    <3>2. /\ toServer # <<>>
          /\ Head(toServer).cmd \in {"clientRegister", "clientLogin"}
      BY <2>4, <2>7 DEF procLoginRequest, Accept
    <3>3. [cmd |-> AuthAnswer[Head(toServer).cmd], issuccess |-> ok]
            \in ServerMessage
      BY <3>2 DEF AuthAnswer, ServerMessage
    <3>4. ProtocolTypeOK'
      BY <2>1, <3>1, <3>2, <3>3
    <3> QED  BY <2>7, <3>1, <3>4 DEF procLoginRequest, Accept
  <2>8. CASE procLsRequest
    <3>1. LsAnswers(Head(toServer).backupid) \subseteq ServerMessage
      <4>0. ServerReceives({"ls"})
        BY <2>8 DEF procLsRequest, Accept
      <4>1. Head(toServer).backupid \in BackupIds \cup {NoBackupId}
        <5>1. Head(toServer) \in ClientMessage /\ Head(toServer).cmd = "ls"
          BY <4>0, <2>4
        <5> QED  BY <5>1, ClientMessageFields
      <4> QED  BY <4>1, LsAnswerFacts
    <3>2. ProtocolTypeOK'
      BY <2>1, <2>4, <2>8, <3>1 DEF procLsRequest, Accept
    <3> QED  BY <2>8, <3>2 DEF procLsRequest, Accept
  <2>9. CASE procRestoreRequest
    <3> DEFINE id == Head(toServer).backupid
    <3>0. ServerReceives({"restore"})
      BY <2>9 DEF procRestoreRequest, Accept
    <3>1. id \in BackupIds /\ toServer # <<>>
      <4>1. /\ toServer # <<>> /\ Head(toServer) \in ClientMessage
            /\ Head(toServer).cmd = "restore"
        BY <3>0, <2>4
      <4> QED  BY <4>1, ClientMessageFields
    <3>2. CASE isValidBackupId(id)
      <4>1. archives[id + 1] \in ArchiveStates
        <5>1. archives \in [1..Len(archives) -> ArchiveStates] /\ Len(archives) \in Nat
          BY LenProperties
        <5>2. id \in Nat
          BY <3>1, BackupIdsAssumption
        <5>3. id < Len(archives)
          BY <3>2 DEF isValidBackupId
        <5>4. id + 1 \in 1..Len(archives)
          BY <5>1, <5>2, <5>3
        <5> QED  BY <5>1, <5>4
      <4>2. [cmd |-> "ansToRestore", archive |-> archives[id + 1]] \in ServerMessage
        BY <4>1 DEF ServerMessage
      <4>3. ProtocolTypeOK'
        BY <2>1, <2>9, <3>1, <3>2, <4>2 DEF procRestoreRequest
      <4>4. SendArchive(id) /\ UNCHANGED <<session, userDataHolder, archives, counted>>
        BY <2>9, <3>2 DEF procRestoreRequest, Accept
      <4>5. ServerTypeOK'
        BY <3>1, <4>4, AppendProperties DEF SendArchive
      <4> QED  BY <4>3, <4>5
    <3>3. CASE ~isValidBackupId(id)
      <4>1. ProtocolTypeOK'
        BY <2>1, <2>6, <2>9, <3>1, <3>3 DEF procRestoreRequest
      <4> QED  BY <2>9, <3>3, <4>1 DEF procRestoreRequest, Accept
    <3> QED  BY <3>2, <3>3
  <2>10. CASE procReplyAfterRestore
    <3>0. ServerReceives({"replyAfterRestore"})
      BY <2>10 DEF procReplyAfterRestore, Accept
    <3>1. Head(toServer).issuccess \in BOOLEAN /\ toServer # <<>>
      <4>1. /\ toServer # <<>> /\ Head(toServer) \in ClientMessage
            /\ Head(toServer).cmd = "replyAfterRestore"
        BY <3>0, <2>4
      <4> QED  BY <4>1, ClientMessageFields
    <3>2. [id |-> restoreBackupId, ok |-> Head(toServer).issuccess]
            \in CountedResult
      BY <3>1 DEF CountedResult
    <3>3. ProtocolTypeOK'
      BY <2>3, <2>10, <3>1 DEF procReplyAfterRestore
    <3> QED  BY <2>10, <3>2, <3>3, AppendProperties
                DEF procReplyAfterRestore, Accept
  <2>11. CASE procBackupRequest
    <3>1. PICK a \in ArchiveStates :
            /\ archives' = Append(archives, a)
            /\ ServerReplies([cmd |-> "ansToBackup", backupid |-> Len(archives),
                              issuccess |-> a # "missing"])
      BY <2>11 DEF procBackupRequest
    <3>2. [cmd |-> "ansToBackup", backupid |-> Len(archives),
           issuccess |-> a # "missing"] \in ServerMessage
      BY LenProperties DEF ServerMessage
    <3>3. ProtocolTypeOK'
      BY <2>1, <2>4, <2>11, <3>1, <3>2 DEF procBackupRequest, Accept
    <3> QED  BY <2>11, <3>1, <3>3, AppendProperties
                DEF procBackupRequest, Accept
  <2>12. CASE procClientExit
    BY <2>3, <2>4, <2>12 DEF procClientExit, serverVars
  <2>13. ASSUME NEW cmds, NEW state, RejectUnexpected(cmds, state)
         PROVE  SessionTyped'
    BY <2>2, <2>5, <2>13 DEF RejectUnexpected
  <2>14. CASE RejectRestore
    <3>0. ServerReceives({"restore"})
      BY <2>14 DEF RejectRestore
    <3>1. Head(toServer).backupid \in BackupIds
      <4>1. Head(toServer) \in ClientMessage /\ Head(toServer).cmd = "restore"
        BY <3>0, <2>4
      <4> QED  BY <4>1, ClientMessageFields
    <3>2. ProtocolTypeOK'
      BY <2>2, <2>5, <2>14 DEF RejectRestore
    <3>3. CASE SendArchive(Head(toServer).backupid)
      <4>1. ServerTypeOK'
        BY <2>14, <3>1, <3>3, AppendProperties DEF RejectRestore, SendArchive
      <4> QED  BY <3>2, <4>1
    <3>4. CASE perClientState' = "ABORTED" /\ UNCHANGED <<restoreBackupId, offered>>
      BY <2>14, <3>2, <3>4 DEF RejectRestore
    <3> QED  BY <2>14, <3>3, <3>4 DEF RejectRestore
  <2>15. CASE RejectRestoreCrashes
    BY <2>15 DEF RejectRestoreCrashes, SessionStates
  <2> QED
    BY <1>5, <2>7, <2>8, <2>9, <2>10, <2>11, <2>12, <2>13, <2>14, <2>15
       DEF ServerHandlesMessage, ServerRejects
<1> QED  BY <1>1, <1>2, <1>3, <1>4, <1>5 DEF SessionNext
=============================================================================
