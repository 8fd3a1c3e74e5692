--------------------------- MODULE AnyClientProofs ---------------------------
(***************************************************************************)
(* Proofs of what a session of the server guarantees with any client, for  *)
(* every number of messages the client sends and in every order.           *)
(***************************************************************************)
EXTENDS AnyClient, SessionProofs

\* The connection is closed and nothing is left to handle.
Closed == link = "down" /\ toServer = <<>>

\* A session that still handles requests: the holder is set exactly after a
\* login that succeeded, and the restores counted are those offered, but for
\* the one whose report the session waits for.
Orderly ==
  /\ perClientState # "ABORTED"
  /\ perClientState = "NOT_AUTORIZATED" <=> userDataHolder # "set"
  /\ perClientState = "WAIT_RESTORE_RESULT" =>
       Len(offered) = Len(counted) + 1 /\ restoreBackupId = offered[Len(offered)]
  /\ perClientState # "WAIT_RESTORE_RESULT" => Len(offered) = Len(counted)

SessionInv ==
  /\ TypeOK
  /\ ~Closed => Orderly
  /\ ServerExitIsLast
  /\ NothingServedBeforeLogin
  /\ CountsFollowOffers

USE DEF NoBackupId

-----------------------------------------------------------------------------
\* Nothing is sent, offered or counted at first.
LEMMA SessionInit == Init => SessionInv
<1> SUFFICES ASSUME Init PROVE SessionInv
  OBVIOUS
<1>1. /\ <<>> \in Seq(ClientMessage) /\ <<>> \in Seq(ServerMessage)
      /\ <<>> \in Seq(ArchiveStates) /\ <<>> \in Seq(BackupIds)
      /\ <<>> \in Seq(CountedResult) /\ Len(<<>>) = 0
  BY EmptySeq
<1>2. TypeOK
  BY <1>1, BackupIdsAssumption, MaxMessagesAssumption
  DEF Init, ServerInit, TypeOK, ProtocolTypeOK, ServerTypeOK, SessionStates
<1>3. Orderly
  BY DEF Init, ServerInit, Orderly
<1>4. ServerExitIsLast /\ NothingServedBeforeLogin /\ CountsFollowOffers
  BY <1>1 DEF Init, ServerInit, ServerExitIsLast, NothingServedBeforeLogin, CountsFollowOffers
<1> QED  BY <1>2, <1>3, <1>4 DEF SessionInv

\* Every step keeps the types.
LEMMA AnyClientTypes == TypeOK /\ [Next]_vars => TypeOK'
<1> SUFFICES ASSUME TypeOK, [Next]_vars PROVE TypeOK'
  OBVIOUS
<1>1. CASE ClientWrites
  <2>1. PICK m \in ClientMessage : ClientSends(m)
    BY <1>1 DEF ClientWrites
  <2>2. ProtocolTypeOK'
    BY <2>1, WrittenProperties DEF ClientSends, TypeOK, ProtocolTypeOK
  <2>3. sent' \in 0..MaxMessages
    BY <1>1, MaxMessagesAssumption DEF ClientWrites, TypeOK
  <2> QED  BY <1>1, <2>2, <2>3 DEF ClientWrites, TypeOK, ServerTypeOK, serverVars
<1>2. CASE ClientReads
  BY <1>2, TailFacts
  DEF ClientReads, ClientConsumes, TypeOK, ProtocolTypeOK, ServerTypeOK, serverVars
<1>3. CASE LinkFails
  BY <1>3, LinkTypes DEF LinkFails, TypeOK, ServerTypeOK, serverVars
<1>4. CASE SessionNext /\ UNCHANGED sent
  BY <1>4, SessionTypes DEF SessionTyped, TypeOK
<1>5. CASE UNCHANGED vars
  BY <1>5 DEF vars, channels, serverVars, TypeOK, ProtocolTypeOK, ServerTypeOK
<1> QED  BY <1>1, <1>2, <1>3, <1>4, <1>5 DEF Next, SessionNext

(***************************************************************************)
(* Every variable of a session and of its connection has its type, whatever*)
(* the client sends (TypeOK).                                              *)
(***************************************************************************)
THEOREM TypeCorrect == Spec => []TypeOK
<1>1. Init => TypeOK
  BY SessionInit DEF SessionInv
<1> QED  BY <1>1, AnyClientTypes, PTL DEF Spec

-----------------------------------------------------------------------------
(***************************************************************************)
(* What the client and the session have to hear of.                        *)
(***************************************************************************)

\* What is left of the answers when some were read or lost at the end: the
\* guarantees about them stay as long as the session does not change.
LEMMA FewerAnswers ==
  ASSUME SessionInv, TypeOK',
         \/ toClient' = toClient
         \/ toClient # <<>> /\ toClient' = Tail(toClient)
         \/ \E n \in 0..Len(toClient) : toClient' = SubSeq(toClient, 1, n),
         userDataHolder' = userDataHolder,
         Closed => Closed'
  PROVE  ServerExitIsLast' /\ NothingServedBeforeLogin'
<1>1. toClient \in Seq(ServerMessage) /\ Len(toClient) \in Nat
  BY LenProperties DEF SessionInv, TypeOK, ProtocolTypeOK
<1>2. PICK k \in {0, 1} :
        /\ Len(toClient') \in Nat /\ Len(toClient') + k <= Len(toClient)
        /\ \A i \in 1..Len(toClient') : toClient'[i] = toClient[i + k]
  <2>1. CASE toClient' = toClient
    BY <1>1, <2>1
  <2>2. CASE toClient # <<>> /\ toClient' = Tail(toClient)
    BY <1>1, <2>2, TailFacts, EmptySeq
  <2>3. CASE \E n \in 0..Len(toClient) : toClient' = SubSeq(toClient, 1, n)
    BY <1>1, <2>3, PrefixFacts
  <2> QED  BY <2>1, <2>2, <2>3
<1>3. \A i \in 1..Len(toClient') : i + k \in 1..Len(toClient) /\ toClient'[i] = toClient[i + k]
  BY <1>1, <1>2
<1>4. ServerExitIsLast'
  <2> SUFFICES ASSUME NEW i \in 1..Len(toClient'), toClient'[i].cmd = "serverExit"
               PROVE  i = Len(toClient') /\ Closed'
    BY DEF ServerExitIsLast, Closed
  <2>1. i + k = Len(toClient) /\ Closed
    BY <1>3 DEF SessionInv, ServerExitIsLast, Closed
  <2> QED  BY <1>1, <1>2, <2>1
<1>5. NothingServedBeforeLogin'
  BY <1>3 DEF SessionInv, NothingServedBeforeLogin
<1> QED  BY <1>4, <1>5

\* An answer that is not serverExit is added while the session is open, and,
\* if it is about backups, after a login.
LEMMA MoreAnswers ==
  ASSUME SessionInv, TypeOK', ~Closed,
         NEW m \in ServerMessage, toClient' = Written(toClient, m),
         m.cmd = "serverExit" => Closed',
         m.cmd \in {"ansToLsSummary", "ansToLsDetailed", "ansToRestore",
                    "ansToBackup", "notFoundBackupByIdOnServer"} => userDataHolder' = "set",
         userDataHolder = "set" => userDataHolder' = "set"
  PROVE  ServerExitIsLast' /\ NothingServedBeforeLogin'
<1>1. toClient \in Seq(ServerMessage) /\ Len(toClient) \in Nat
  BY LenProperties DEF SessionInv, TypeOK, ProtocolTypeOK
<1>2. \A i \in 1..Len(toClient) : toClient[i].cmd # "serverExit"
  BY DEF SessionInv, ServerExitIsLast, Closed
<1>3. CASE link = "up"
  <2>1. /\ Len(toClient') = Len(toClient) + 1 /\ toClient'[Len(toClient) + 1] = m
        /\ \A i \in 1..Len(toClient) : toClient'[i] = toClient[i]
    <3>1. toClient' = Append(toClient, m)
      BY <1>3 DEF Written
    <3> QED  BY <1>1, <3>1, AppendProperties
  <2>2. \A i \in 1..Len(toClient') : i \in 1..Len(toClient) \/ i = Len(toClient) + 1
    BY <1>1, <2>1
  <2>3. ServerExitIsLast'
    BY <1>2, <2>1, <2>2 DEF ServerExitIsLast, Closed
  <2>4. NothingServedBeforeLogin'
    BY <2>1, <2>2 DEF SessionInv, NothingServedBeforeLogin
  <2> QED  BY <2>3, <2>4
<1>4. CASE link # "up"
  <2>1. toClient' = toClient
    BY <1>4 DEF Written
  <2> QED  BY <1>2, <2>1 DEF SessionInv, ServerExitIsLast, NothingServedBeforeLogin
<1> QED  BY <1>3, <1>4

-----------------------------------------------------------------------------
(***************************************************************************)
(* The steps.                                                              *)
(***************************************************************************)

\* The client, the network and the other sessions do not touch the session.
LEMMA OutsideStep ==
  ASSUME SessionInv, TypeOK',
         ClientWrites \/ ClientReads \/ LinkFails \/ OtherSessionBacksUp
  PROVE  SessionInv'
<1>1. UNCHANGED <<perClientState, userDataHolder, restoreBackupId, offered, counted>>
  BY DEF ClientWrites, ClientReads, LinkFails, OtherSessionBacksUp, serverVars
<1>2. \/ toClient' = toClient
      \/ toClient # <<>> /\ toClient' = Tail(toClient)
      \/ \E n \in 0..Len(toClient) : toClient' = SubSeq(toClient, 1, n)
  BY DEF ClientWrites, ClientSends, ClientReads, ClientConsumes, LinkFails, LinkBreaks,
         OtherSessionBacksUp, channels
<1>3. Closed => Closed'
  BY DEF Closed, ClientWrites, ClientSends, ClientReads, ClientConsumes, LinkFails,
         OtherSessionBacksUp, channels
<1>4. ServerExitIsLast' /\ NothingServedBeforeLogin'
  BY <1>1, <1>2, <1>3, FewerAnswers
<1> QED  BY <1>1, <1>3, <1>4 DEF SessionInv, Orderly, CountsFollowOffers

\* A session starts or ends: it says nothing more.
LEMMA SessionStartsOrEnds ==
  ASSUME SessionInv, TypeOK', onNewConnection \/ disconnectSocket \/ ServerCrashes
  PROVE  SessionInv'
<1>1. UNCHANGED <<perClientState, userDataHolder, restoreBackupId, offered, counted>>
  BY DEF onNewConnection, disconnectSocket, ServerCrashes
<1>2. \/ toClient' = toClient
      \/ \E n \in 0..Len(toClient) : toClient' = SubSeq(toClient, 1, n)
  BY DEF onNewConnection, disconnectSocket, ServerCrashes, channels
<1>3. Closed => Closed'
  BY DEF Closed, onNewConnection, disconnectSocket, ServerCrashes, channels
<1>4. ServerExitIsLast' /\ NothingServedBeforeLogin'
  BY <1>1, <1>2, <1>3, FewerAnswers
<1> QED  BY <1>1, <1>3, <1>4 DEF SessionInv, Orderly, CountsFollowOffers

\* A request in the right state.
LEMMA AcceptedStep ==
  ASSUME SessionInv, TypeOK',
         \/ procLoginRequest \/ procLsRequest \/ procRestoreRequest
         \/ procReplyAfterRestore \/ procBackupRequest \/ procClientExit
  PROVE  SessionInv'
<1>1. toServer # <<>> /\ ~Closed /\ Orderly
  BY DEF procLoginRequest, procLsRequest, procRestoreRequest, procReplyAfterRestore,
         procBackupRequest, procClientExit, Accept, ServerReceives, Closed, SessionInv
<1>2. /\ Head(toServer) \in ClientMessage
      /\ archives \in Seq(ArchiveStates) /\ Len(archives) \in Nat
      /\ offered \in Seq(BackupIds) /\ Len(offered) \in Nat
      /\ counted \in Seq(CountedResult) /\ Len(counted) \in Nat
      /\ userDataHolder \in {"uninit", "null", "set"}
  BY <1>1, TailFacts, LenProperties DEF SessionInv, TypeOK, ProtocolTypeOK, ServerTypeOK
<1>3. Len(counted) <= Len(offered) /\ \A i \in 1..Len(counted) : counted[i].id = offered[i]
  BY DEF SessionInv, CountsFollowOffers
<1>4. CASE procLoginRequest
  <2>1. PICK ok \in BOOLEAN :
          /\ userDataHolder' = IF ok THEN "set" ELSE "null"
          /\ perClientState' = IF ok THEN "NORMAL" ELSE "NOT_AUTORIZATED"
          /\ ServerReplies([cmd |-> AuthAnswer[Head(toServer).cmd], issuccess |-> ok])
    BY <1>4 DEF procLoginRequest
  <2>2. /\ perClientState = "NOT_AUTORIZATED"
        /\ Head(toServer).cmd \in {"clientRegister", "clientLogin"}
        /\ UNCHANGED <<offered, counted>>
    BY <1>4 DEF procLoginRequest, Accept, ServerReceives
  <2> DEFINE m == [cmd |-> AuthAnswer[Head(toServer).cmd], issuccess |-> ok]
  <2>3. m \in ServerMessage /\ m.cmd \in {"ansToClientRegister", "ansToClientLogin"}
    BY <2>2 DEF AuthAnswer, ServerMessage
  <2>4. toClient' = Written(toClient, m)
    BY <2>1 DEF ServerReplies
  <2> HIDE DEF m
  <2>5. ServerExitIsLast' /\ NothingServedBeforeLogin'
    BY <1>1, <2>1, <2>2, <2>3, <2>4, MoreAnswers DEF Orderly
  <2> QED  BY <1>1, <1>3, <2>1, <2>2, <2>5 DEF SessionInv, Orderly, CountsFollowOffers
<1>5. CASE procLsRequest
  <2>0. PICK m \in LsAnswers(Head(toServer).backupid) : ServerReplies(m)
    BY <1>5 DEF procLsRequest
  <2>1. /\ perClientState = "NORMAL" /\ Head(toServer).cmd = "ls"
        /\ UNCHANGED <<perClientState, userDataHolder, restoreBackupId, offered, counted>>
        /\ toClient' = Written(toClient, m)
    BY <1>5, <2>0 DEF procLsRequest, Accept, ServerReceives, ServerReplies
  <2>2. m \in ServerMessage /\ m.cmd # "serverExit"
    <3>1. Head(toServer).backupid \in BackupIds \cup {NoBackupId}
      BY <1>2, <2>1, ClientMessageFields
    <3> QED  BY <1>2, <2>0, <3>1, LsAnswerFacts
  <2>3. ServerExitIsLast' /\ NothingServedBeforeLogin'
    BY <1>1, <2>1, <2>2, MoreAnswers DEF Orderly
  <2> QED  BY <1>1, <2>1, <2>3 DEF SessionInv, Orderly, CountsFollowOffers
<1>6. CASE procRestoreRequest
  <2> DEFINE id == Head(toServer).backupid
             answer == [cmd |-> "ansToRestore", archive |-> archives[id + 1]]
  <2>1. /\ perClientState = "NORMAL" /\ Head(toServer).cmd = "restore"
        /\ UNCHANGED <<userDataHolder, counted>>
    BY <1>6 DEF procRestoreRequest, Accept, ServerReceives
  <2>2. id \in BackupIds
    BY <1>2, <2>1, ClientMessageFields
  <2>3. CASE isValidBackupId(id)
    <3>1. archives[id + 1] \in ArchiveStates
      <4>1. archives \in [1..Len(archives) -> ArchiveStates]
        BY <1>2, LenProperties
      <4>2. id \in Nat
        BY <2>2, BackupIdsAssumption
      <4>3. id < Len(archives)
        BY <2>3 DEF isValidBackupId
      <4>4. id + 1 \in 1..Len(archives)
        BY <1>2, <4>2, <4>3
      <4> QED  BY <4>1, <4>4
    <3>2. answer \in ServerMessage /\ answer.cmd = "ansToRestore"
      BY <3>1 DEF ServerMessage
    <3>3. /\ SendArchive(id) /\ toClient' = Written(toClient, answer)
      BY <1>6, <2>3 DEF procRestoreRequest, ServerReplies
    <3> HIDE DEF answer
    <3>4. ServerExitIsLast' /\ NothingServedBeforeLogin'
      BY <1>1, <2>1, <3>2, <3>3, MoreAnswers DEF Orderly
    <3>5. /\ Len(offered') = Len(offered) + 1 /\ offered'[Len(offered) + 1] = id
          /\ \A i \in 1..Len(offered) : offered'[i] = offered[i]
          /\ restoreBackupId' = id /\ perClientState' = "WAIT_RESTORE_RESULT"
      BY <1>2, <2>2, <3>3, AppendProperties DEF SendArchive
    <3>6. Orderly'
      BY <1>1, <1>2, <2>1, <3>5 DEF Orderly
    <3>7. CountsFollowOffers'
      BY <1>1, <1>2, <1>3, <2>1, <3>5 DEF Orderly, CountsFollowOffers
    <3> QED  BY <3>4, <3>6, <3>7 DEF SessionInv
  <2>4. CASE ~isValidBackupId(id)
    <3> DEFINE m == NotFound
    <3>1. m \in ServerMessage /\ m.cmd = "notFoundBackupByIdOnServer"
      BY DEF NotFound, ServerMessage
    <3>2. /\ toClient' = Written(toClient, m)
          /\ UNCHANGED <<restoreBackupId, perClientState, offered>>
      BY <1>6, <2>4 DEF procRestoreRequest, ServerReplies
    <3> HIDE DEF m
    <3>3. ServerExitIsLast' /\ NothingServedBeforeLogin'
      BY <1>1, <2>1, <3>1, <3>2, MoreAnswers DEF Orderly
    <3> QED  BY <1>1, <2>1, <3>2, <3>3 DEF SessionInv, Orderly, CountsFollowOffers
  <2> QED  BY <2>3, <2>4
<1>7. CASE procReplyAfterRestore
  <2> DEFINE r == [id |-> restoreBackupId, ok |-> Head(toServer).issuccess]
  <2>1. /\ perClientState = "WAIT_RESTORE_RESULT" /\ perClientState' = "NORMAL"
        /\ counted' = Append(counted, r)
        /\ UNCHANGED <<userDataHolder, restoreBackupId, offered, link, toClient>>
    BY <1>7 DEF procReplyAfterRestore, Accept, ServerConsumes
  <2>2. r \in CountedResult /\ r.id = restoreBackupId
    <3>1. Head(toServer).issuccess \in BOOLEAN
      BY <1>2, <1>7, ClientMessageFields DEF procReplyAfterRestore, Accept, ServerReceives
    <3> QED  BY <3>1 DEF CountedResult, SessionInv, TypeOK, ServerTypeOK
  <2> HIDE DEF r
  <2>3. /\ Len(counted') = Len(counted) + 1 /\ counted'[Len(counted) + 1] = r
        /\ \A i \in 1..Len(counted) : counted'[i] = counted[i]
    BY <1>2, <2>1, <2>2, AppendProperties
  <2>4. ServerExitIsLast' /\ NothingServedBeforeLogin'
    BY <1>1, <2>1, FewerAnswers
  <2>5. Orderly'
    BY <1>1, <1>2, <2>1, <2>3 DEF Orderly
  <2>6. CountsFollowOffers'
    BY <1>1, <1>2, <1>3, <2>1, <2>2, <2>3 DEF Orderly, CountsFollowOffers
  <2> QED  BY <2>4, <2>5, <2>6 DEF SessionInv
<1>8. CASE procBackupRequest
  <2>1. PICK a \in ArchiveStates :
          toClient' = Written(toClient, [cmd |-> "ansToBackup", backupid |-> Len(archives),
                                         issuccess |-> a # "missing"])
    BY <1>8 DEF procBackupRequest, ServerReplies
  <2> DEFINE m == [cmd |-> "ansToBackup", backupid |-> Len(archives), issuccess |-> a # "missing"]
  <2>2. m \in ServerMessage /\ m.cmd = "ansToBackup"
    BY <1>2 DEF ServerMessage
  <2>3. /\ perClientState = "NORMAL" /\ toClient' = Written(toClient, m)
        /\ UNCHANGED <<perClientState, userDataHolder, restoreBackupId, offered, counted>>
    BY <1>8, <2>1 DEF procBackupRequest, Accept
  <2> HIDE DEF m
  <2>4. ServerExitIsLast' /\ NothingServedBeforeLogin'
    BY <1>1, <2>2, <2>3, MoreAnswers DEF Orderly
  <2> QED  BY <1>1, <2>3, <2>4 DEF SessionInv, Orderly, CountsFollowOffers
<1>9. CASE procClientExit
  <2>1. /\ UNCHANGED <<perClientState, userDataHolder, restoreBackupId, offered, counted>>
        /\ toClient' = toClient
    BY <1>9 DEF procClientExit, ServerConsumes, serverVars
  <2>2. ServerExitIsLast' /\ NothingServedBeforeLogin'
    BY <1>1, <2>1, FewerAnswers
  <2> QED  BY <1>1, <2>1, <2>2 DEF SessionInv, Orderly, CountsFollowOffers
<1> QED  BY <1>4, <1>5, <1>6, <1>7, <1>8, <1>9

\* A request in the wrong state: the session hangs up, or the server crashes.
LEMMA RejectedStep ==
  ASSUME SessionInv, TypeOK',
         \/ \E cmds, state : RejectUnexpected(cmds, state)
         \/ RejectRestore
         \/ RejectRestoreCrashes
  PROVE  SessionInv'
<1>1. toServer # <<>> /\ ~Closed
  BY DEF RejectUnexpected, RejectRestore, RejectRestoreCrashes, ServerReceives, Closed
<1>2. Closed' /\ UNCHANGED <<userDataHolder, counted>>
  BY DEF RejectUnexpected, RejectRestore, RejectRestoreCrashes, ServerRepliesAndCloses, Closed
<1>3. ServerExitIsLast' /\ NothingServedBeforeLogin'
  <2>1. CASE RejectRestoreCrashes
    BY <1>1, <1>2, <2>1, FewerAnswers DEF RejectRestoreCrashes
  <2>2. CASE (\E cmds, state : RejectUnexpected(cmds, state)) \/ RejectRestore
    <3> DEFINE m == [cmd |-> "serverExit"]
    <3>1. m \in ServerMessage /\ m.cmd = "serverExit"
      BY DEF ServerMessage
    <3>2. toClient' = Written(toClient, m)
      BY <2>2 DEF RejectUnexpected, RejectRestore, ServerRepliesAndCloses
    <3> HIDE DEF m
    <3> QED  BY <1>1, <1>2, <3>1, <3>2, MoreAnswers
  <2> QED  BY <2>1, <2>2
<1>4. CountsFollowOffers'
  <2>1. CASE UNCHANGED offered
    BY <1>2, <2>1 DEF SessionInv, CountsFollowOffers
  <2>2. CASE SendArchive(Head(toServer).backupid)
    <3>1. /\ toServer \in Seq(ClientMessage) /\ offered \in Seq(BackupIds)
          /\ counted \in Seq(CountedResult)
      BY DEF SessionInv, TypeOK, ProtocolTypeOK, ServerTypeOK
    <3>2. PICK id : offered' = Append(offered, id)
      BY <2>2 DEF SendArchive
    <3>3. offered' \in Seq(BackupIds)
      BY DEF TypeOK, ServerTypeOK
    <3>4. /\ Len(offered') = Len(offered) + 1
          /\ \A i \in 1..Len(offered) : offered'[i] = offered[i]
      BY <3>1, <3>2
    <3>5. /\ Len(counted) \in Nat /\ Len(offered) \in Nat /\ Len(counted) <= Len(offered)
          /\ \A i \in 1..Len(counted) : counted[i].id = offered[i]
      BY <3>1, LenProperties DEF SessionInv, CountsFollowOffers
    <3> QED  BY <1>2, <3>4, <3>5 DEF CountsFollowOffers
  <2> QED  BY <2>1, <2>2 DEF RejectUnexpected, RejectRestore, RejectRestoreCrashes
<1> QED  BY <1>2, <1>3, <1>4 DEF SessionInv

\* Every step keeps the invariant.
LEMMA SessionInvNext == SessionInv /\ [Next]_vars => SessionInv'
<1> SUFFICES ASSUME SessionInv, [Next]_vars PROVE SessionInv'
  OBVIOUS
<1>1. TypeOK'
  BY AnyClientTypes DEF SessionInv
<1>2. CASE ClientWrites \/ ClientReads \/ LinkFails
  BY <1>1, <1>2, OutsideStep
<1>3. CASE SessionNext
  <2>1. CASE OtherSessionBacksUp
    BY <1>1, <2>1, OutsideStep
  <2>2. CASE onNewConnection \/ disconnectSocket \/ ServerCrashes
    BY <1>1, <2>2, SessionStartsOrEnds
  <2>3. CASE ServerHandlesMessage
    BY <1>1, <2>3, AcceptedStep, RejectedStep
       DEF ServerHandlesMessage, ServerRejects
  <2> QED  BY <1>3, <2>1, <2>2, <2>3 DEF SessionNext
<1>4. CASE UNCHANGED vars
  BY <1>1, <1>4
  DEF vars, channels, serverVars, SessionInv, Closed, Orderly, ServerExitIsLast,
      NothingServedBeforeLogin, CountsFollowOffers
<1> QED  BY <1>2, <1>3, <1>4 DEF Next, SessionNext

\* The invariant holds of every behaviour.
LEMMA SessionInvHolds == Spec => []SessionInv
BY SessionInit, SessionInvNext, PTL DEF Spec

(***************************************************************************)
(* After serverExit the server neither handles nor answers anything the    *)
(* client sent before (ServerExitIsLast): the handlers close the socket in *)
(* the slot that sends it, and procRestoreRequest, which goes on with the  *)
(* request, writes to a closed one.                                        *)
(***************************************************************************)
THEOREM ServerExitLast == Spec => []ServerExitIsLast
<1>1. SessionInv => ServerExitIsLast
  BY DEF SessionInv
<1> QED  BY <1>1, SessionInvHolds, PTL

(***************************************************************************)
(* No list, archive or backup is served to a client whose login or         *)
(* registration has not succeeded (NothingServedBeforeLogin): the state    *)
(* each handler looks at follows the holder tryAuth and tryRegister set.   *)
(***************************************************************************)
THEOREM ServedAfterLogin == Spec => []NothingServedBeforeLogin
<1>1. SessionInv => NothingServedBeforeLogin
  BY DEF SessionInv
<1> QED  BY <1>1, SessionInvHolds, PTL

(***************************************************************************)
(* However often a client asks and reports, each restore is counted at     *)
(* most once and for the backup that was sent (CountsFollowOffers): the    *)
(* session remembers the id until the report and takes no other request.   *)
(***************************************************************************)
THEOREM CountsFollow == Spec => []CountsFollowOffers
<1>1. SessionInv => CountsFollowOffers
  BY DEF SessionInv
<1> QED  BY <1>1, SessionInvHolds, PTL

=============================================================================
