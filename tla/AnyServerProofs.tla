--------------------------- MODULE AnyServerProofs ---------------------------
(***************************************************************************)
(* Proofs of what the client guarantees with any server, for every number  *)
(* of messages the server sends and in every order.                        *)
(***************************************************************************)
EXTENDS AnyServer, SessionProofs

\* While the client waits for an archive, the last restore asked for is the
\* one whose path it remembers, and it is not reported yet.
WaitsForLastAsked ==
  clientState = "WAIT_RESTORE_RESULT" =>
    /\ Len(reported) < Len(asked)
    /\ asked[Len(asked)] = restoreId

RestoreInv == TypeOK /\ OneReportPerRestore /\ WaitsForLastAsked

USE DEF NoBackupId

-----------------------------------------------------------------------------
\* Nothing is asked for or reported at first.
LEMMA RestoreInit == Init => RestoreInv
<1> SUFFICES ASSUME Init PROVE RestoreInv
  OBVIOUS
<1>1. /\ <<>> \in Seq(ClientMessage) /\ <<>> \in Seq(ServerMessage)
      /\ <<>> \in Seq(RestoreResult) /\ <<>> \in Seq(BackupIds) /\ Len(<<>>) = 0
  BY EmptySeq
<1>2. TypeOK
  BY <1>1, MaxCommandsAssumption, MaxMessagesAssumption
  DEF Init, ProtocolInit, ClientInit, TypeOK, ProtocolTypeOK, ClientTypeOK, ClientStates
<1>3. OneReportPerRestore /\ WaitsForLastAsked
  BY <1>1 DEF Init, ClientInit, OneReportPerRestore, WaitsForLastAsked
<1> QED  BY <1>2, <1>3 DEF RestoreInv

\* What a step of the client can do to the restores: it asks for one, it
\* reports the one it waits for, or neither; it then waits for no other.
LEMMA ClientRestores ==
  ASSUME TypeOK, ClientSteps
  PROVE  \/ /\ restoreId' \in BackupIds
            /\ asked' = Append(asked, restoreId') /\ reported' = reported
         \/ /\ clientState = "WAIT_RESTORE_RESULT" /\ clientState' # "WAIT_RESTORE_RESULT"
            /\ asked' = asked
            /\ \E ok \in BOOLEAN : reported' = Append(reported, [id |-> restoreId, ok |-> ok])
         \/ /\ UNCHANGED <<asked, reported>>
            /\ \/ clientState' # "WAIT_RESTORE_RESULT"
               \/ UNCHANGED <<clientState, restoreId>>
<1>0. typed \in Nat
  BY MaxCommandsAssumption DEF TypeOK, ClientTypeOK
<1>1. CASE onStart
  BY <1>1 DEF onStart, ClientSteps, unpackVars
<1>2. CASE ClientProcessEnds
  BY <1>2 DEF ClientProcessEnds, ClientSteps, unpackVars
<1>3. CASE onConsoleInput
  <2>1. reported' = reported
    BY <1>3 DEF onConsoleInput, sendLoginRequest, askLs, makeRestoreRequest, makeBackup, Type,
                unpackVars
  <2>2. CASE \E id \in BackupIds : makeRestoreRequest(id)
    <3>1. /\ restoreId' \in BackupIds
          /\ clientState' = "WAIT_RESTORE_RESULT" /\ typed' = typed + 1
      BY <2>2 DEF makeRestoreRequest, Type
    <3>2. asked' = Append(asked, restoreId')
      BY <1>0, <3>1 DEF ClientSteps
    <3> QED  BY <2>1, <3>1, <3>2
  <2>3. CASE ~\E id \in BackupIds : makeRestoreRequest(id)
    <3>1. clientState' # "WAIT_RESTORE_RESULT"
      BY <1>3, <2>3 DEF onConsoleInput, sendLoginRequest, askLs, makeBackup
    <3> QED  BY <2>1, <3>1 DEF ClientSteps
  <2> QED  BY <2>2, <2>3
<1>4. CASE ClientHandlesMessage
  <2>1. UNCHANGED typed
    BY <1>4 DEF ClientHandlesMessage, procLoginAns, procLsAnswer,
                procReceiveBackupResults, procReceiveArchiveToRestore,
                procNotFoundBackupId, procServerError, procServerExit, ClientReceives
  <2>2. asked' = asked
    BY <2>1 DEF ClientSteps
  <2>3. clientState' # "WAIT_RESTORE_RESULT"
    BY <1>4 DEF ClientHandlesMessage, procLoginAns, procLsAnswer,
                procReceiveBackupResults, procReceiveArchiveToRestore,
                procNotFoundBackupId, procServerError, procServerExit, Expected
  <2>4. CASE procReceiveArchiveToRestore /\ clientState = "WAIT_RESTORE_RESULT"
    <3>1. \E ok \in BOOLEAN : reported' = Append(reported, [id |-> restoreId, ok |-> ok])
      BY <2>4 DEF procReceiveArchiveToRestore, UnpackAndReport
    <3> QED  BY <2>2, <2>3, <2>4, <3>1
  <2>5. CASE ~(procReceiveArchiveToRestore /\ clientState = "WAIT_RESTORE_RESULT")
    <3>1. UNCHANGED reported
      BY <1>4, <2>5 DEF ClientHandlesMessage, procLoginAns, procLsAnswer,
                procReceiveBackupResults, procReceiveArchiveToRestore,
                procNotFoundBackupId, procServerError, procServerExit, unpackVars
    <3> QED  BY <2>2, <2>3, <3>1
  <2> QED  BY <2>4, <2>5
<1> QED  BY <1>1, <1>2, <1>3, <1>4 DEF ClientSteps, ClientNext

\* Every step keeps the types.
LEMMA AnyServerTypes == TypeOK /\ [Next]_vars => TypeOK'
<1> SUFFICES ASSUME TypeOK, [Next]_vars PROVE TypeOK'
  OBVIOUS
<1>1. CASE ClientSteps
  <2>1. ProtocolTypeOK' /\ ClientTypeOK'
    BY <1>1, ClientTypes DEF ClientSteps, ClientTyped, TypeOK
  <2>2. asked' \in Seq(BackupIds)
    <3>1. asked \in Seq(BackupIds)
      BY DEF TypeOK
    <3> QED  BY <1>1, <3>1, ClientRestores, AppendProperties
  <2> QED  BY <1>1, <2>1, <2>2 DEF ClientSteps, TypeOK
<1>2. CASE ServerWrites
  <2>1. toClient' \in Seq(ServerMessage)
    BY <1>2, ServerMessagesAssumption, AppendProperties
    DEF ServerWrites, TypeOK, ProtocolTypeOK
  <2>2. sent' \in 0..MaxMessages
    BY <1>2, MaxMessagesAssumption DEF ServerWrites, TypeOK
  <2> QED
    BY <1>2, <2>1, <2>2 DEF ServerWrites, TypeOK, ProtocolTypeOK, ClientTypeOK, clientVars, unpackVars
<1>3. CASE ServerReads
  BY <1>3, TailFacts
  DEF ServerReads, ServerConsumes, TypeOK, ProtocolTypeOK, ClientTypeOK, clientVars, unpackVars
<1>4. CASE LinkFails
  BY <1>4, LinkTypes DEF LinkFails, TypeOK, ClientTypeOK, clientVars, unpackVars
<1>5. CASE UNCHANGED vars
  BY <1>5 DEF vars, channels, clientVars, unpackVars, TypeOK, ProtocolTypeOK, ClientTypeOK
<1> QED  BY <1>1, <1>2, <1>3, <1>4, <1>5 DEF Next

(***************************************************************************)
(* Every variable of the client and of its connection has its type,        *)
(* whatever the server sends (TypeOK).                                     *)
(***************************************************************************)
THEOREM TypeCorrect == Spec => []TypeOK
<1>1. Init => TypeOK
  BY RestoreInit DEF RestoreInv
<1> QED  BY <1>1, AnyServerTypes, PTL DEF Spec

-----------------------------------------------------------------------------
\* Every step keeps the invariant.
LEMMA RestoreInvNext == RestoreInv /\ [Next]_vars => RestoreInv'
<1> SUFFICES ASSUME RestoreInv, [Next]_vars PROVE RestoreInv'
  OBVIOUS
<1>1. TypeOK'
  BY AnyServerTypes DEF RestoreInv
<1>2. /\ asked \in Seq(BackupIds) /\ Len(asked) \in Nat
      /\ reported \in Seq(RestoreResult) /\ Len(reported) \in Nat
  BY LenProperties DEF RestoreInv, TypeOK, ClientTypeOK
<1>3. Len(reported) <= Len(asked)
  BY DEF RestoreInv, OneReportPerRestore
<1>4. CASE UNCHANGED <<asked, reported>>
  <2>1. OneReportPerRestore'
    BY <1>4 DEF RestoreInv, OneReportPerRestore
  <2>2. ASSUME clientState' # "WAIT_RESTORE_RESULT" \/ UNCHANGED <<clientState, restoreId>>
        PROVE  RestoreInv'
    BY <1>1, <1>4, <2>1, <2>2 DEF RestoreInv, WaitsForLastAsked
  <2>3. CASE ClientSteps
    <3>1. ~(asked' = Append(asked, restoreId'))
      BY <1>2, <1>4
    <3>2. TypeOK
      BY DEF RestoreInv
    <3>3. clientState' # "WAIT_RESTORE_RESULT" \/ UNCHANGED <<clientState, restoreId>>
      BY <2>3, <3>1, <3>2, ClientRestores
    <3> QED  BY <2>2, <3>3
  <2>4. CASE ~ClientSteps
    <3>1. UNCHANGED <<clientState, restoreId>>
      BY <2>4 DEF Next, ServerWrites, ServerReads, LinkFails, clientVars, unpackVars, vars
    <3> QED  BY <2>2, <3>1
  <2> QED  BY <2>3, <2>4
<1>5. CASE /\ restoreId' \in BackupIds
           /\ asked' = Append(asked, restoreId') /\ reported' = reported
  <2>1. /\ Len(asked') = Len(asked) + 1 /\ asked'[Len(asked) + 1] = restoreId'
        /\ \A i \in 1..Len(asked) : asked'[i] = asked[i]
    BY <1>2, <1>5, AppendProperties
  <2>2. OneReportPerRestore'
    <3>1. ASSUME reported # <<>>
          PROVE  \E i \in 1..Len(asked') : /\ i >= Len(reported)
                                           /\ asked'[i] = reported[Len(reported)].id
      <4>1. PICK i \in 1..Len(asked) : i >= Len(reported)
                                       /\ asked[i] = reported[Len(reported)].id
        BY <3>1 DEF RestoreInv, OneReportPerRestore
      <4> QED  BY <1>2, <2>1, <4>1
    <3> QED  BY <1>2, <1>3, <1>5, <2>1, <3>1 DEF OneReportPerRestore
  <2>3. WaitsForLastAsked'
    BY <1>2, <1>3, <1>5, <2>1 DEF WaitsForLastAsked
  <2> QED  BY <1>1, <2>2, <2>3 DEF RestoreInv
<1>6. CASE /\ clientState = "WAIT_RESTORE_RESULT" /\ clientState' # "WAIT_RESTORE_RESULT"
           /\ asked' = asked
           /\ \E ok \in BOOLEAN : reported' = Append(reported, [id |-> restoreId, ok |-> ok])
  <2>1. PICK ok \in BOOLEAN : reported' = Append(reported, [id |-> restoreId, ok |-> ok])
    BY <1>6
  <2> DEFINE r == [id |-> restoreId, ok |-> ok]
  <2>2. r \in RestoreResult /\ r.id = restoreId
    BY DEF RestoreInv, TypeOK, ClientTypeOK, RestoreResult
  <2>3. reported' = Append(reported, r)
    BY <2>1
  <2> HIDE DEF r
  <2>4. Len(reported') = Len(reported) + 1 /\ reported'[Len(reported) + 1] = r
    BY <1>2, <2>2, <2>3, AppendProperties
  <2>5. Len(reported) < Len(asked) /\ asked[Len(asked)] = restoreId
    BY <1>6 DEF RestoreInv, WaitsForLastAsked
  <2>6. OneReportPerRestore'
    BY <1>2, <1>6, <2>2, <2>4, <2>5 DEF OneReportPerRestore
  <2> QED  BY <1>1, <1>6, <2>6 DEF RestoreInv, WaitsForLastAsked
<1>7. CASE ClientSteps
  <2>1. TypeOK
    BY DEF RestoreInv
  <2> QED  BY <1>4, <1>5, <1>6, <1>7, <2>1, ClientRestores
<1>8. CASE ~ClientSteps
  <2>1. UNCHANGED <<asked, reported>>
    BY <1>8 DEF Next, ServerWrites, ServerReads, LinkFails, clientVars, unpackVars, vars
  <2> QED  BY <1>4, <2>1
<1> QED  BY <1>7, <1>8

(***************************************************************************)
(* Whatever a server sends, repeats or sends unasked, the client unpacks   *)
(* and reports at most one archive for each restore it asked for, into the *)
(* path typed last (OneReportPerRestore): procReceiveArchiveToRestore only *)
(* unpacks in WAIT_RESTORE_RESULT and leaves it.                           *)
(***************************************************************************)
THEOREM OneReport == Spec => []OneReportPerRestore
<1>1. RestoreInv => OneReportPerRestore
  BY DEF RestoreInv
<1> QED  BY <1>1, RestoreInit, RestoreInvNext, PTL DEF Spec
=============================================================================
