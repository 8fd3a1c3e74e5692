-------------------------- MODULE ConnectionProofs --------------------------
(***************************************************************************)
(* Proofs of the safety properties of Connection, for every set of backup  *)
(* ids, every number of commands and every size of the store.              *)
(***************************************************************************)
EXTENDS Connection, SessionProofs

-----------------------------------------------------------------------------
(***************************************************************************)
(* Type correctness, without the bounds on the channels, which need the    *)
(* alternation of the two sides.                                           *)
(***************************************************************************)
Types == ProtocolTypeOK /\ ClientTypeOK /\ ServerTypeOK

USE DEF NoBackupId, unpackVars

\* The initial values have their types.
LEMMA TypesInit == Init => Types
BY MaxCommandsAssumption, BackupIdsAssumption
   DEF Init, ProtocolInit, ClientInit, ServerInit, Types, ProtocolTypeOK,
       ClientTypeOK, ServerTypeOK, ClientStates, SessionStates

\* Every step of the client keeps the types.
LEMMA TypesClient == Types /\ ClientNext /\ UNCHANGED serverVars => Types'
BY ClientTypes DEF Types, ClientTyped, ServerTypeOK, serverVars

\* Every step of the server keeps the types.
LEMMA TypesServer == Types /\ SessionNext /\ UNCHANGED clientVars => Types'
BY SessionTypes DEF Types, SessionTyped, ClientTypeOK, clientVars

\* A broken connection keeps the types.
LEMMA TypesLink == Types /\ LinkFails => Types'
BY LinkTypes DEF Types, LinkFails, ClientTypeOK, ServerTypeOK, clientVars, serverVars

\* The three cases of a step, and a stuttering one.
LEMMA TypesNext == Types /\ [Next]_vars => Types'
<1>1. Types /\ UNCHANGED vars => Types'
  BY DEF Types, ProtocolTypeOK, ClientTypeOK, ServerTypeOK, vars, channels,
         clientVars, serverVars
<1> QED
  BY <1>1, TypesClient, TypesServer, TypesLink DEF Next, SessionNext

-----------------------------------------------------------------------------
(***************************************************************************)
(* The two state machines stay in step.                                    *)
(***************************************************************************)
InStep ==
  /\ TypeOK
  /\ AnswersAreAwaited
  /\ ServerInOrder
  /\ Synchronised

\* A channel is empty exactly if its length is 0.
LEMMA EmptyChannels ==
  ASSUME Types
  PROVE  /\ Len(toServer) \in Nat /\ (toServer = <<>> <=> Len(toServer) = 0)
         /\ Len(toClient) \in Nat /\ (toClient = <<>> <=> Len(toClient) = 0)
BY EmptySeq, LenProperties DEF Types, ProtocolTypeOK

\* The same after a step.
LEMMA EmptyChannelsNext ==
  ASSUME Types'
  PROVE  /\ Len(toServer') \in Nat /\ (toServer' = <<>> <=> Len(toServer') = 0)
         /\ Len(toClient') \in Nat /\ (toClient' = <<>> <=> Len(toClient') = 0)
BY EmptySeq, LenProperties DEF Types, ProtocolTypeOK

\* What a request of the client does to the connection.
LEMMA SendFacts ==
  ASSUME Types, NEW m \in ClientMessage, ClientSends(m)
  PROVE  /\ UNCHANGED <<link, toClient>>
         /\ link # "up" => toServer' = toServer
         /\ link = "up" =>
              /\ Len(toServer') = Len(toServer) + 1
              /\ toServer'[Len(toServer) + 1] = m
              /\ toServer # <<>> => toServer'[1] = toServer[1]
<1> USE DEF Types, ProtocolTypeOK
<1>1. toServer' = Written(toServer, m)
  BY DEF ClientSends
<1>2. toServer # <<>> => 1 \in 1..Len(toServer)
  BY EmptyChannels
<1>3. CASE link = "up"
  <2>1. /\ Len(toServer') = Len(toServer) + 1
        /\ toServer'[Len(toServer) + 1] = m
        /\ \A i \in 1..Len(toServer) : toServer'[i] = toServer[i]
    BY <1>1, <1>3, WrittenProperties
  <2> QED  BY <1>2, <1>3, <2>1 DEF ClientSends
<1>4. CASE link # "up"
  BY <1>1, <1>4 DEF ClientSends, Written
<1> QED  BY <1>3, <1>4

\* The client has at most one answer to handle: it leaves none.
LEMMA ConsumeFacts ==
  ASSUME TypeOK, NEW cmds, ClientReceives(cmds), toClient' = Tail(toClient)
  PROVE  /\ toClient # <<>> /\ toClient' = <<>>
         /\ toClient[1] = Head(toClient)
         /\ toClient[1] \in ServerMessage
         /\ toClient[1].cmd \in cmds
         /\ clientAlive /\ UNCHANGED <<clientAlive, restoreId, typed>>
<1> USE DEF TypeOK, Types, ProtocolTypeOK
<1>1. toClient # <<>> /\ Head(toClient).cmd \in cmds
  BY DEF ClientReceives
<1>2. Tail(toClient) \in Seq(ServerMessage) /\ Len(Tail(toClient)) = 0
  BY <1>1, TailFacts, EmptyChannels
<1>3. toClient' = <<>>
  BY <1>2, EmptySeq
<1> QED  BY <1>1, <1>3, TailFacts DEF ClientReceives

\* Before the connection is made nothing is under way.
LEMMA InStepInit == Init => InStep
<1> SUFFICES ASSUME Init PROVE InStep
  OBVIOUS
<1>1. Types
  BY TypesInit
<1>2. Len(toServer) = 0 /\ Len(toClient) = 0
  BY <1>1, EmptyChannels DEF Init, ProtocolInit
<1> QED
  BY <1>1, <1>2
     DEF Init, ProtocolInit, ClientInit, ServerInit, InStep, TypeOK, Types,
         AnswersAreAwaited, ServerInOrder, Synchronised,
         RequestsFitServer, UntouchedWhileConnecting, NothingUnderWay

\* A request leaves when nothing is under way or a report at most.
LEMMA InStepRequest ==
  ASSUME InStep, Types',
         NEW m \in ClientMessage, ClientSends(m),
         clientState = "WAIT_USER_INPUT",
         \/ m.cmd = "ls" /\ clientState' = "WAIT_LS_RESULT"
         \/ m.cmd = "backup" /\ clientState' = "WAIT_BACKUP_RESULT"
         \/ /\ m.cmd = "restore" /\ clientState' = "WAIT_RESTORE_RESULT"
            /\ m.backupid = restoreId',
         UNCHANGED <<clientAlive, serverVars>>
  PROVE  InStep'
<1> USE DEF InStep, Synchronised
<1>1. Types
  BY DEF TypeOK, Types
<1>2. toClient = <<>> /\ toClient' = <<>> /\ link' = link /\ Len(toClient') = 0
  BY <1>1, SendFacts, EmptyChannels, EmptySeq
     DEF AnswersAreAwaited, AnswersFor
<1>3. AnswersAreAwaited'
  BY <1>2 DEF AnswersAreAwaited
<1>4. ServerInOrder'
  BY DEF ServerInOrder, serverVars
<1>5. (link = "connecting" => UntouchedWhileConnecting)'
  BY <1>2 DEF UntouchedWhileConnecting
<1>6. CASE link # "up"
  <2>1. toServer' = toServer
    BY <1>1, <1>6, SendFacts
  <2>2. TypeOK' /\ RequestsFitServer'
    BY <1>2, <2>1, Zenon DEF TypeOK, Types, RequestsFitServer, serverVars
  <2> QED  BY <1>2, <1>3, <1>4, <1>5, <1>6, <2>2
<1>7. CASE link = "up"
  <2>1. /\ Len(toServer') = Len(toServer) + 1
        /\ toServer'[Len(toServer) + 1] = m
        /\ toServer # <<>> => toServer'[1] = toServer[1]
    BY <1>1, <1>7, SendFacts
  <2>2. \/ Len(toServer) = 0 /\ perClientState = "NORMAL"
        \/ /\ Len(toServer) = 1 /\ perClientState = "WAIT_RESTORE_RESULT"
           /\ toServer[1].cmd = "replyAfterRestore"
    BY <1>1, <1>7, EmptyChannels
       DEF SynchronisedWhileUp, RequestsFitServer, ReportUnderWay, Logins,
           Requests
  <2>3. Len(toServer') \in 1..2 /\ toServer' # <<>>
    <3>1. Len(toServer') \in 1..2
      <4>1. CASE Len(toServer) = 0
        BY <2>1, <4>1
      <4>2. CASE Len(toServer) = 1
        BY <2>1, <4>2
      <4> QED  BY <2>2, <4>1, <4>2
    <3>2. toServer' # <<>>
      BY <3>1, EmptySeq
    <3> QED  BY <3>1, <3>2
  <2>4. RequestsFitServer'
    <3>1. UNCHANGED perClientState
      BY DEF serverVars
    <3>2. m.cmd \in Requests
      BY DEF Requests
    <3>3. CASE Len(toServer) = 0
      BY <2>1, <2>2, <3>1, <3>2, <3>3 DEF RequestsFitServer
    <3>4. CASE Len(toServer) = 1
      BY <1>1, <2>1, <2>2, <3>1, <3>2, <3>4, EmptyChannels DEF RequestsFitServer
    <3> QED  BY <2>2, <3>3, <3>4
  <2>5. SynchronisedWhileUp'
    BY <1>2, <1>7, <2>1, <2>3 DEF SynchronisedWhileUp, RequestUnderWay
  <2>6. TypeOK'
    BY <1>2, <2>3 DEF TypeOK, Types
  <2> QED  BY <1>2, <1>3, <1>4, <1>5, <1>7, <2>4, <2>5, <2>6
<1> QED  BY <1>6, <1>7

\* A command of the user keeps the two sides in step.
LEMMA InStepConsole ==
  InStep /\ onConsoleInput /\ UNCHANGED serverVars => InStep'
<1> SUFFICES ASSUME InStep, onConsoleInput, UNCHANGED serverVars
             PROVE  InStep'
  OBVIOUS
<1>1. Types /\ Types'
  BY TypesClient DEF InStep, TypeOK, Types, ClientNext
<1>2. ASSUME NEW cmd \in {"clientRegister", "clientLogin"}, sendLoginRequest(cmd)
      PROVE  InStep'
  <2>1. [cmd |-> cmd] \in ClientMessage
    BY DEF ClientMessage
  <2>2. /\ ClientSends([cmd |-> cmd]) /\ clientState = "WAIT_LOGIN_INPUT"
        /\ clientState' = "WAIT_LOGIN_STATUS"
        /\ UNCHANGED <<clientAlive, restoreId, perClientState, userDataHolder>>
    BY <1>2 DEF sendLoginRequest, Type, serverVars
  <2>3. /\ toClient = <<>> /\ toClient' = <<>> /\ Len(toClient') = 0
        /\ link' = link /\ link # "connecting"
    <3>1. toClient = <<>>
      BY <2>2 DEF InStep, AnswersAreAwaited, AnswersFor
    <3> QED  BY <2>2, <3>1, EmptySeq
                DEF ClientSends, InStep, Synchronised, UntouchedWhileConnecting
  <2>4. AnswersAreAwaited' /\ ServerInOrder'
    BY <2>2, <2>3 DEF InStep, AnswersAreAwaited, ServerInOrder
  <2>5. CASE link # "up"
    <3>1. toServer' = toServer
      BY <1>1, <2>1, <2>2, <2>5, SendFacts
    <3>2. TypeOK' /\ RequestsFitServer'
      BY <1>1, <2>2, <2>3, <3>1 DEF InStep, TypeOK, Types, Synchronised, RequestsFitServer
    <3> QED  BY <2>3, <2>4, <2>5, <3>2 DEF InStep, Synchronised
  <2>6. CASE link = "up"
    <3>1. Len(toServer) = 0 /\ perClientState = "NOT_AUTORIZATED"
      BY <1>1, <2>2, <2>6, EmptyChannels
         DEF InStep, Synchronised, SynchronisedWhileUp, NothingUnderWay
    <3>2. Len(toServer') = 1 /\ toServer'[1] = [cmd |-> cmd]
      BY <1>1, <2>1, <2>2, <2>6, <3>1, SendFacts
    <3>3. toServer' # <<>>
      BY <3>2, EmptySeq
    <3>4. TypeOK'
      BY <1>1, <2>3, <3>2 DEF TypeOK, Types
    <3>5. RequestsFitServer'
      BY <2>2, <3>1, <3>2 DEF RequestsFitServer, Logins
    <3>6. SynchronisedWhileUp'
      BY <2>2, <2>3, <2>6, <3>2, <3>3
         DEF InStep, Synchronised, SynchronisedWhileUp, RequestUnderWay, Logins
    <3> QED  BY <2>3, <2>4, <2>6, <3>4, <3>5, <3>6 DEF InStep, Synchronised
  <2> QED  BY <2>5, <2>6
<1>3. ASSUME NEW id \in BackupIds \cup {NoBackupId}, askLs(id)
      PROVE  InStep'
  <2>1. [cmd |-> "ls", backupid |-> id] \in ClientMessage
    BY DEF ClientMessage
  <2> QED  BY <1>1, <1>3, <2>1, InStepRequest DEF askLs, Type
<1>4. ASSUME NEW id \in BackupIds, makeRestoreRequest(id)
      PROVE  InStep'
  <2>1. [cmd |-> "restore", backupid |-> id] \in ClientMessage
    BY DEF ClientMessage
  <2> QED  BY <1>1, <1>4, <2>1, InStepRequest DEF makeRestoreRequest, Type
<1>5. ASSUME makeBackup
      PROVE  InStep'
  <2>1. [cmd |-> "backup"] \in ClientMessage
    BY DEF ClientMessage
  <2> QED  BY <1>1, <1>5, <2>1, InStepRequest DEF makeBackup, Type
<1> QED  BY <1>2, <1>3, <1>4, <1>5 DEF onConsoleInput

\* When an answer is handled nothing else is under way, and the client waits
\* for it: it never takes the branch of an unexpected answer.
LEMMA AnswerFacts ==
  ASSUME InStep, NEW cmds, ClientReceives(cmds), toClient' = Tail(toClient)
  PROVE  /\ toServer = <<>> /\ Len(toServer) = 0
         /\ toClient' = <<>> /\ Len(toClient') = 0
         /\ toClient # <<>> /\ toClient[1] = Head(toClient)
         /\ toClient[1] \in ServerMessage
         /\ toClient[1].cmd \in cmds
         /\ toClient[1].cmd \in AnswersFor(clientState)
         /\ link # "connecting"
         /\ clientAlive /\ UNCHANGED <<clientAlive, restoreId, typed>>
<1>1. TypeOK /\ Types
  BY DEF InStep, TypeOK, Types
<1>2. toServer = <<>> /\ toClient[1].cmd \in AnswersFor(clientState)
  BY <1>1, ConsumeFacts DEF InStep, AnswersAreAwaited
<1>3. link # "connecting"
  BY <1>1, ConsumeFacts
     DEF InStep, Synchronised, UntouchedWhileConnecting, NothingUnderWay
<1> QED  BY <1>1, <1>2, <1>3, ConsumeFacts, EmptySeq

\* A handler that only takes its message leaves nothing under way.
LEMMA InStepConsumed ==
  ASSUME InStep, Types',
         NEW cmds, ClientReceives(cmds), ClientConsumes, UNCHANGED serverVars,
         link = "up" =>
           \/ clientState' \in {"WAIT_USER_INPUT", "ABORTED"} /\ perClientState = "NORMAL"
           \/ clientState' = "WAIT_LOGIN_INPUT" /\ perClientState = "NOT_AUTORIZATED"
  PROVE  InStep'
<1>1. /\ toServer' = <<>> /\ Len(toServer') = 0
      /\ toClient' = <<>> /\ Len(toClient') = 0
      /\ link' = link /\ link # "connecting" /\ clientAlive'
      /\ perClientState' = perClientState /\ userDataHolder' = userDataHolder
  BY AnswerFacts DEF ClientConsumes, serverVars
<1>2. TypeOK'
  BY <1>1 DEF TypeOK, Types
<1>3. AnswersAreAwaited' /\ ServerInOrder'
  BY <1>1 DEF InStep, AnswersAreAwaited, ServerInOrder
<1>4. (link = "up" => SynchronisedWhileUp)'
  BY <1>1 DEF SynchronisedWhileUp, NothingUnderWay
<1>5. Synchronised'
  BY <1>1, <1>4 DEF Synchronised, RequestsFitServer
<1> QED  BY <1>2, <1>3, <1>5 DEF InStep

\* An answer that the client handles keeps the two sides in step.
LEMMA InStepNetwork ==
  InStep /\ ClientHandlesMessage /\ UNCHANGED serverVars => InStep'
<1> SUFFICES ASSUME InStep, ClientHandlesMessage, UNCHANGED serverVars
             PROVE  InStep'
  OBVIOUS
<1>1. Types /\ Types'
  BY TypesClient DEF InStep, TypeOK, Types, ClientNext
<1>2. link = "up" => SynchronisedWhileUp
  BY DEF InStep, Synchronised
<1>3. CASE procLoginAns
  <2>1. ClientReceives({"ansToClientRegister", "ansToClientLogin"}) /\ ClientConsumes
    BY <1>3 DEF procLoginAns
  <2>2. clientState = "WAIT_LOGIN_STATUS"
    BY <2>1, AnswerFacts DEF ClientConsumes, AnswersFor
  <2>3. toClient[1].issuccess \in BOOLEAN
    BY <2>1, AnswerFacts, ServerMessageFields DEF ClientConsumes
  <2>4. clientState' = IF toClient[1].issuccess
                       THEN "WAIT_USER_INPUT" ELSE "WAIT_LOGIN_INPUT"
    BY <1>3, <2>1, <2>2, AnswerFacts DEF procLoginAns, Expected, ClientConsumes
  <2>5. link = "up" => perClientState = IF toClient[1].issuccess
                                        THEN "NORMAL" ELSE "NOT_AUTORIZATED"
    BY <1>2, <2>1, <2>2, AnswerFacts
       DEF SynchronisedWhileUp, RequestUnderWay, ClientConsumes
  <2> QED  BY <1>1, <2>1, <2>3, <2>4, <2>5, InStepConsumed
<1>4. CASE procLsAnswer
  <2>1. ClientReceives({"ansToLsSummary", "ansToLsDetailed"}) /\ ClientConsumes
    BY <1>4 DEF procLsAnswer
  <2>2. clientState = "WAIT_LS_RESULT"
    BY <2>1, AnswerFacts DEF ClientConsumes, AnswersFor
  <2>3. link = "up" => perClientState = "NORMAL"
    BY <1>2, <2>1, <2>2, AnswerFacts
       DEF SynchronisedWhileUp, RequestUnderWay, ClientConsumes
  <2> QED  BY <1>1, <1>4, <2>1, <2>2, <2>3, InStepConsumed
              DEF procLsAnswer, Expected
<1>5. CASE procReceiveBackupResults
  <2>1. ClientReceives({"ansToBackup"}) /\ ClientConsumes
    BY <1>5 DEF procReceiveBackupResults
  <2>2. clientState = "WAIT_BACKUP_RESULT"
    BY <2>1, AnswerFacts DEF ClientConsumes, AnswersFor
  <2>3. link = "up" => perClientState = "NORMAL"
    BY <1>2, <2>1, <2>2, AnswerFacts
       DEF SynchronisedWhileUp, RequestUnderWay, ClientConsumes
  <2> QED  BY <1>1, <1>5, <2>1, <2>2, <2>3, InStepConsumed
              DEF procReceiveBackupResults, Expected
<1>6. CASE procNotFoundBackupId
  <2>1. ClientReceives({"notFoundBackupByIdOnServer"}) /\ ClientConsumes
    BY <1>6 DEF procNotFoundBackupId
  <2>2. clientState \in {"WAIT_LS_RESULT", "WAIT_RESTORE_RESULT"}
    BY <2>1, AnswerFacts DEF ClientConsumes, AnswersFor
  <2>3. toClient[1].cmd = "notFoundBackupByIdOnServer" /\ toServer = <<>>
    BY <2>1, AnswerFacts DEF ClientConsumes
  <2>4. link = "up" => perClientState = "NORMAL"
    BY <1>2, <2>2, <2>3 DEF SynchronisedWhileUp, RequestUnderWay
  <2> QED  BY <1>1, <1>6, <2>1, <2>4, InStepConsumed DEF procNotFoundBackupId
<1>7. CASE procServerError
  <2>1. ClientReceives({"serverExit"}) /\ ClientConsumes
    BY <1>7 DEF procServerError
  <2>2. FALSE
    BY <2>1, AnswerFacts DEF ClientConsumes, AnswersFor
  <2> QED  BY <2>2
<1>8. CASE procServerExit
  <2>1. ClientReceives({"serverError"}) /\ ClientConsumes
    BY <1>8 DEF procServerExit
  <2>2. clientState = "WAIT_LS_RESULT"
    BY <2>1, AnswerFacts DEF ClientConsumes, AnswersFor
  <2>3. link = "up" => perClientState = "NORMAL"
    BY <1>2, <2>1, <2>2, AnswerFacts
       DEF SynchronisedWhileUp, RequestUnderWay, ClientConsumes
  <2> QED  BY <1>1, <1>8, <2>1, <2>3, InStepConsumed DEF procServerExit
<1>9. CASE procReceiveArchiveToRestore
  <2>1. ClientReceives({"ansToRestore"}) /\ toClient' = Tail(toClient)
    BY <1>9 DEF procReceiveArchiveToRestore, UnpackAndReport, ClientConsumes, ClientReplies
  <2>2. clientState = "WAIT_RESTORE_RESULT"
    BY <2>1, AnswerFacts DEF AnswersFor
  <2>3. PICK ok \in BOOLEAN :
          /\ ClientReplies([cmd |-> "replyAfterRestore", issuccess |-> ok])
          /\ clientState' = "WAIT_USER_INPUT"
    BY <1>9, <2>2 DEF procReceiveArchiveToRestore, UnpackAndReport
  <2> DEFINE reply == [cmd |-> "replyAfterRestore", issuccess |-> ok]
  <2>4. /\ toServer = <<>> /\ Len(toServer) = 0 /\ link # "connecting"
        /\ toClient' = <<>> /\ Len(toClient') = 0 /\ link' = link /\ clientAlive'
    BY <2>1, <2>3, AnswerFacts DEF ClientReplies
  <2>5. UNCHANGED <<perClientState, userDataHolder>>
    BY DEF serverVars
  <2>6. AnswersAreAwaited' /\ ServerInOrder'
    BY <2>4, <2>5 DEF InStep, AnswersAreAwaited, ServerInOrder
  <2>7. CASE link # "up"
    <3>1. toServer' = <<>> /\ Len(toServer') = 0
      BY <2>3, <2>4, <2>7 DEF ClientReplies, Written
    <3> QED  BY <1>1, <2>4, <2>6, <2>7, <3>1
                DEF InStep, TypeOK, Types, Synchronised, RequestsFitServer
  <2>8. CASE link = "up"
    <3>1. reply \in ClientMessage
      BY DEF ClientMessage
    <3>2. Len(toServer') = 1 /\ toServer'[1] = reply /\ toServer' # <<>>
      <4>1. toServer' = Append(toServer, reply) /\ toServer \in Seq(ClientMessage)
        BY <1>1, <2>3, <2>8 DEF ClientReplies, Written, Types, ProtocolTypeOK
      <4> QED  BY <2>4, <3>1, <4>1, AppendProperties
    <3>3. perClientState = "WAIT_RESTORE_RESULT"
      <4>1. toClient[1].cmd = "ansToRestore"
        BY <2>1, AnswerFacts
      <4> QED
        BY <1>2, <2>2, <2>4, <2>8, <4>1 DEF SynchronisedWhileUp, RequestUnderWay
    <3>4. SynchronisedWhileUp' /\ RequestsFitServer'
      BY <2>3, <2>4, <2>5, <3>2, <3>3
         DEF SynchronisedWhileUp, RequestsFitServer, ReportUnderWay
    <3> QED  BY <1>1, <2>4, <2>6, <2>8, <3>2, <3>4
                DEF InStep, TypeOK, Types, Synchronised
  <2> QED  BY <2>7, <2>8
<1> QED
  BY <1>3, <1>4, <1>5, <1>6, <1>7, <1>8, <1>9 DEF ClientHandlesMessage

\* Every step of the client keeps the two sides in step.
LEMMA InStepClient == InStep /\ ClientNext /\ UNCHANGED serverVars => InStep'
<1> SUFFICES ASSUME InStep, ClientNext, UNCHANGED serverVars
             PROVE  InStep'
  OBVIOUS
<1>1. Types /\ Types'
  BY TypesClient DEF InStep, TypeOK, Types
<1>2. UNCHANGED <<perClientState, userDataHolder>>
  BY DEF serverVars
<1>3. CASE onStart
  <2>1. UntouchedWhileConnecting
    BY <1>3 DEF onStart, InStep, Synchronised
  <2> QED
    BY <1>1, <1>2, <1>3, <2>1
       DEF onStart, InStep, TypeOK, Types, AnswersAreAwaited,
           ServerInOrder, Synchronised, RequestsFitServer,
           SynchronisedWhileUp, UntouchedWhileConnecting, NothingUnderWay
<1>4. CASE ClientProcessEnds
  <2>1. PICK n \in 0..Len(toServer) : toServer' = SubSeq(toServer, 1, n)
    BY <1>4 DEF ClientProcessEnds
  <2>2. /\ Len(toServer') = n /\ \A i \in 1..n : toServer'[i] = toServer[i]
        /\ Len(toServer) \in 0..2 /\ n = 0 => toServer' = <<>>
    BY <1>1, <2>1, PrefixFacts DEF InStep, TypeOK, Types, ProtocolTypeOK
  <2>3. RequestsFitServer'
    BY <1>1, <1>2, <2>2, EmptyChannels DEF InStep, Synchronised, RequestsFitServer
  <2>4. toClient' = <<>> /\ Len(toClient') = 0 /\ link' = "down"
    BY <1>4, EmptySeq DEF ClientProcessEnds
  <2> QED
    BY <1>1, <1>2, <2>2, <2>3, <2>4
       DEF InStep, TypeOK, Types, AnswersAreAwaited, ServerInOrder,
           Synchronised
<1> QED
  BY <1>3, <1>4, InStepConsole, InStepNetwork DEF ClientNext

\* When the server handles a message no answer is under way, and the message
\* is one that the session's state expects.
LEMMA RequestFacts ==
  ASSUME InStep, NEW cmds, ServerReceives(cmds)
  PROVE  /\ toServer # <<>> /\ toServer[1] = Head(toServer)
         /\ toServer[1] \in ClientMessage
         /\ toServer[1].cmd \in cmds
         /\ toClient = <<>> /\ Len(toClient) = 0
         /\ link # "connecting"
         /\ toServer[1].cmd \in Logins \cup Requests =>
              /\ Len(toServer) = 1
              /\ toServer' = Tail(toServer) => toServer' = <<>> /\ Len(toServer') = 0
         /\ toServer[1].cmd \in Logins => perClientState = "NOT_AUTORIZATED"
         /\ toServer[1].cmd \in Requests => perClientState = "NORMAL"
         /\ toServer[1].cmd \notin Logins \cup Requests =>
              /\ perClientState = "WAIT_RESTORE_RESULT"
              /\ toServer[1].cmd = "replyAfterRestore"
<1>1. TypeOK /\ Types
  BY DEF InStep, TypeOK, Types
<1>2. /\ toServer # <<>> /\ toServer[1] = Head(toServer)
      /\ toServer[1] \in ClientMessage /\ toServer[1].cmd \in cmds
  BY <1>1, TailFacts DEF ServerReceives, Types, ProtocolTypeOK
<1>3. toClient = <<>> /\ Len(toClient) = 0 /\ link # "connecting"
  BY <1>1, <1>2, EmptyChannels
     DEF InStep, AnswersAreAwaited, Synchronised, UntouchedWhileConnecting,
         NothingUnderWay
<1>4. RequestsFitServer
  BY DEF InStep, Synchronised
<1>5. ASSUME Len(toServer) = 1, toServer' = Tail(toServer)
      PROVE  toServer' = <<>> /\ Len(toServer') = 0
  <2>1. toServer' \in Seq(ClientMessage) /\ Len(toServer') = 0
    BY <1>1, <1>2, <1>5, TailFacts DEF Types, ProtocolTypeOK
  <2> QED  BY <2>1, EmptySeq
<1> QED
  BY <1>2, <1>3, <1>4, <1>5 DEF RequestsFitServer, Logins, Requests

\* What RequestsFitServer says of the oldest request is what every handler
\* tests: none of their error branches is enabled.
LEMMA NoneRejects == InStep => ~ServerRejects
<1> SUFFICES ASSUME InStep PROVE ~ServerRejects
  OBVIOUS
<1>1. ~RejectUnexpected({"clientRegister", "clientLogin"}, "NOT_AUTORIZATED")
  BY RequestFacts DEF RejectUnexpected, Logins
<1>2. ~RejectUnexpected({"ls", "backup"}, "NORMAL")
  BY RequestFacts DEF RejectUnexpected, Requests
<1>3. ~RejectUnexpected({"replyAfterRestore"}, "WAIT_RESTORE_RESULT")
  BY RequestFacts DEF RejectUnexpected, Logins, Requests
<1>4. ~RejectRestore /\ ~RejectRestoreCrashes
  BY RequestFacts DEF RejectRestore, RejectRestoreCrashes, Requests
<1> QED  BY <1>1, <1>2, <1>3, <1>4 DEF ServerRejects

\* A request that is answered frees the way for the answer.
LEMMA InStepAnswered ==
  ASSUME InStep, Types',
         NEW cmds, ServerReceives(cmds), cmds \subseteq Logins \cup Requests,
         NEW m \in ServerMessage, ServerReplies(m), UNCHANGED clientVars,
         ServerInOrder',
         link = "up" =>
           /\ m.cmd \in AnswersFor(clientState)
           /\ \/ /\ clientState = "WAIT_LOGIN_STATUS"
                 /\ perClientState' = IF m.issuccess
                                      THEN "NORMAL" ELSE "NOT_AUTORIZATED"
              \/ /\ clientState \in {"WAIT_LS_RESULT", "WAIT_BACKUP_RESULT"}
                 /\ perClientState' = "NORMAL"
              \/ /\ clientState = "WAIT_RESTORE_RESULT"
                 /\ IF m.cmd = "ansToRestore"
                    THEN /\ perClientState' = "WAIT_RESTORE_RESULT"
                         /\ restoreBackupId' = restoreId
                    ELSE perClientState' = "NORMAL"
  PROVE  InStep'
<1>1. /\ toServer' = <<>> /\ Len(toServer') = 0
      /\ toClient = <<>> /\ Len(toClient) = 0
      /\ link # "connecting" /\ link' = link
      /\ UNCHANGED <<clientState, clientAlive, restoreId>>
  BY RequestFacts DEF ServerReplies, clientVars
<1>2. RequestsFitServer'
  BY <1>1 DEF RequestsFitServer
<1>3. CASE link # "up"
  <2>1. toClient' = <<>> /\ Len(toClient') = 0
    BY <1>1, <1>3 DEF ServerReplies, Written
  <2> QED  BY <1>1, <1>2, <1>3, <2>1
              DEF InStep, TypeOK, Types, AnswersAreAwaited, Synchronised
<1>4. CASE link = "up"
  <2>1. toClient' = Append(toClient, m) /\ toClient \in Seq(ServerMessage)
    BY <1>4 DEF ServerReplies, Written, InStep, TypeOK, ProtocolTypeOK
  <2>2. Len(toClient') = 1 /\ toClient' # <<>> /\ toClient'[1] = m
    BY <1>1, <2>1, AppendProperties
  <2>3. clientAlive
    BY <1>4 DEF InStep, Synchronised, SynchronisedWhileUp
  <2>4. AnswersAreAwaited'
    BY <1>1, <1>4, <2>2, <2>3 DEF AnswersAreAwaited, AnswersFor
  <2>5. SynchronisedWhileUp'
    BY <1>1, <1>4, <2>2, <2>3 DEF SynchronisedWhileUp, AnswerUnderWay
  <2> QED  BY <1>1, <1>2, <1>4, <2>2, <2>4, <2>5
              DEF InStep, TypeOK, Types, Synchronised
<1> QED  BY <1>3, <1>4

\* While the connection is up a request is from a client that waits for it.
LEMMA WaitingClient ==
  ASSUME InStep, NEW cmds, ServerReceives(cmds), link = "up",
         toServer[1].cmd \in Logins \cup Requests
  PROVE  /\ toServer[1].cmd \in Logins => clientState = "WAIT_LOGIN_STATUS"
         /\ toServer[1].cmd = "ls" => clientState = "WAIT_LS_RESULT"
         /\ toServer[1].cmd = "backup" => clientState = "WAIT_BACKUP_RESULT"
         /\ toServer[1].cmd = "restore" => /\ clientState = "WAIT_RESTORE_RESULT"
                                           /\ toServer[1].backupid = restoreId
<1>1. SynchronisedWhileUp /\ clientState \in ClientStates
  BY DEF InStep, TypeOK, ClientTypeOK, Synchronised
<1>2. Len(toServer) = 1
  BY RequestFacts
<1>3. \A c : RequestUnderWay(c) => toServer[1].cmd \in c
  BY <1>2 DEF RequestUnderWay
<1>4. ~AnswerUnderWay /\ ~NothingUnderWay /\ toServer # <<>> /\ ~ReportUnderWay
  BY RequestFacts
     DEF AnswerUnderWay, NothingUnderWay, ReportUnderWay, Logins, Requests
<1> QED
  BY <1>1, <1>2, <1>3, <1>4 DEF SynchronisedWhileUp, Logins, Requests, ClientStates

\* A request that the server handles keeps the two sides in step.
LEMMA InStepRequests ==
  InStep /\ ServerHandlesMessage /\ UNCHANGED clientVars => InStep'
<1> SUFFICES ASSUME InStep, ServerHandlesMessage, UNCHANGED clientVars
             PROVE  InStep'
  OBVIOUS
<1>1. Types /\ Types'
  BY TypesServer DEF InStep, TypeOK, Types, SessionNext
<1>2. ServerInOrder
  BY DEF InStep
<1>3. CASE procLoginRequest
  <2>1. PICK ok \in BOOLEAN :
          /\ userDataHolder' = IF ok THEN "set" ELSE "null"
          /\ perClientState' = IF ok THEN "NORMAL" ELSE "NOT_AUTORIZATED"
          /\ ServerReplies([cmd |-> AuthAnswer[Head(toServer).cmd], issuccess |-> ok])
    BY <1>3 DEF procLoginRequest
  <2>2. ServerReceives(Logins)
    BY <1>3 DEF procLoginRequest, Accept, Logins
  <2>3. toServer[1].cmd \in Logins /\ Head(toServer) = toServer[1]
    BY <2>2, RequestFacts
  <2> DEFINE m == [cmd |-> AuthAnswer[Head(toServer).cmd], issuccess |-> ok]
  <2>4. /\ m \in ServerMessage /\ m.issuccess = ok
        /\ m.cmd \in {"ansToClientRegister", "ansToClientLogin"}
    BY <2>3 DEF AuthAnswer, ServerMessage, Logins
  <2>5. link = "up" => clientState = "WAIT_LOGIN_STATUS"
    BY <2>2, <2>3, WaitingClient
  <2>6. ServerInOrder'
    BY <2>1 DEF ServerInOrder
  <2> HIDE DEF m
  <2> QED
    BY <1>1, <2>1, <2>2, <2>4, <2>5, <2>6, InStepAnswered DEF m, AnswersFor
<1>4. CASE procLsRequest
  <2>0. PICK m \in LsAnswers(Head(toServer).backupid) : ServerReplies(m)
    BY <1>4 DEF procLsRequest
  <2>1. ServerReceives({"ls"})
    BY <1>4 DEF procLsRequest, Accept
  <2>2. toServer[1] = Head(toServer) /\ toServer[1] \in ClientMessage
        /\ toServer[1].cmd = "ls" /\ perClientState = "NORMAL"
    BY <2>1, RequestFacts DEF Requests
  <2>3. /\ m \in ServerMessage
        /\ m.cmd \in {"ansToLsSummary", "ansToLsDetailed",
                      "notFoundBackupByIdOnServer", "serverError"}
    <3>1. Head(toServer).backupid \in BackupIds \cup {NoBackupId}
      BY <2>2, ClientMessageFields
    <3>2. archives \in Seq(ArchiveStates)
      BY <1>1 DEF Types, ServerTypeOK
    <3> QED  BY <2>0, <3>1, <3>2, LsAnswerFacts
  <2>4. link = "up" => clientState = "WAIT_LS_RESULT"
    BY <2>1, <2>2, WaitingClient DEF Requests
  <2>5. perClientState' = "NORMAL" /\ ServerInOrder'
    BY <1>2, <1>4, <2>2 DEF procLsRequest, ServerInOrder
  <2> QED
    BY <1>1, <2>0, <2>1, <2>3, <2>4, <2>5, InStepAnswered DEF AnswersFor, Requests
<1>5. CASE procBackupRequest
  <2>1. PICK a \in ArchiveStates :
          ServerReplies([cmd |-> "ansToBackup", backupid |-> Len(archives),
                         issuccess |-> a # "missing"])
    BY <1>5 DEF procBackupRequest
  <2>2. ServerReceives({"backup"})
    BY <1>5 DEF procBackupRequest, Accept
  <2>3. toServer[1].cmd = "backup" /\ perClientState = "NORMAL"
    BY <2>2, RequestFacts DEF Requests
  <2> DEFINE m == [cmd |-> "ansToBackup", backupid |-> Len(archives),
                   issuccess |-> a # "missing"]
  <2>4. m \in ServerMessage /\ m.cmd = "ansToBackup"
    BY <1>1, LenProperties DEF Types, ServerTypeOK, ServerMessage
  <2>5. link = "up" => clientState = "WAIT_BACKUP_RESULT"
    BY <2>2, <2>3, WaitingClient DEF Requests
  <2>6. perClientState' = "NORMAL" /\ ServerInOrder'
    BY <1>2, <1>5, <2>3 DEF procBackupRequest, ServerInOrder
  <2> HIDE DEF m
  <2> QED
    BY <1>1, <2>1, <2>2, <2>4, <2>5, <2>6, InStepAnswered DEF m, AnswersFor, Requests
<1>6. CASE procRestoreRequest
  <2> DEFINE id == Head(toServer).backupid
  <2>1. ServerReceives({"restore"})
    BY <1>6 DEF procRestoreRequest, Accept
  <2>2. /\ toServer[1] = Head(toServer) /\ toServer[1] \in ClientMessage
        /\ toServer[1].cmd = "restore" /\ perClientState = "NORMAL"
    BY <2>1, RequestFacts DEF Requests
  <2>3. link = "up" => clientState = "WAIT_RESTORE_RESULT" /\ id = restoreId
    BY <2>1, <2>2, WaitingClient DEF Requests
  <2>4. CASE isValidBackupId(id)
    <3> DEFINE m == [cmd |-> "ansToRestore", archive |-> archives[id + 1]]
    <3>1. SendArchive(id) /\ ServerReplies(m) /\ UNCHANGED userDataHolder
      BY <1>6, <2>4 DEF procRestoreRequest
    <3>2. m \in ServerMessage /\ m.cmd = "ansToRestore"
      <4>1. id \in Nat /\ id < Len(archives) /\ Len(archives) \in Nat
        <5>1. id \in Nat
          BY <2>2, ClientMessageFields, BackupIdsAssumption
        <5>2. id < Len(archives)
          BY <2>4 DEF isValidBackupId
        <5> QED  BY <1>1, <5>1, <5>2, LenProperties DEF Types, ServerTypeOK
      <4>2. id + 1 \in 1..Len(archives)
        BY <4>1
      <4>3. archives[id + 1] \in ArchiveStates
        BY <1>1, <4>2, LenProperties DEF Types, ServerTypeOK
      <4> QED  BY <4>3 DEF ServerMessage
    <3>3. /\ perClientState' = "WAIT_RESTORE_RESULT" /\ restoreBackupId' = id
          /\ ServerInOrder'
      BY <1>2, <2>2, <3>1 DEF SendArchive, ServerInOrder
    <3> HIDE DEF m, id
    <3> QED
      BY <1>1, <2>1, <2>3, <3>1, <3>2, <3>3, InStepAnswered DEF AnswersFor, Requests
  <2>5. CASE ~isValidBackupId(id)
    <3> DEFINE m == NotFound
    <3>1. ServerReplies(m) /\ UNCHANGED <<perClientState, userDataHolder>>
      BY <1>6, <2>5 DEF procRestoreRequest
    <3>2. m \in ServerMessage /\ m.cmd = "notFoundBackupByIdOnServer"
      BY DEF NotFound, ServerMessage
    <3>3. perClientState' = "NORMAL" /\ ServerInOrder'
      BY <1>2, <2>2, <3>1 DEF ServerInOrder
    <3> HIDE DEF m, id
    <3> QED
      BY <1>1, <2>1, <2>3, <3>1, <3>2, <3>3, InStepAnswered DEF AnswersFor, Requests
  <2> QED  BY <2>4, <2>5
<1>7. CASE procReplyAfterRestore
  <2>1. /\ ServerReceives({"replyAfterRestore"}) /\ ServerConsumes
        /\ perClientState = "WAIT_RESTORE_RESULT" /\ perClientState' = "NORMAL"
        /\ UNCHANGED userDataHolder
    BY <1>7 DEF procReplyAfterRestore, Accept
  <2>2. /\ toServer # <<>> /\ toServer[1].cmd = "replyAfterRestore"
        /\ toClient = <<>> /\ Len(toClient) = 0 /\ link # "connecting"
    BY <2>1, RequestFacts
  <2>3. /\ toServer' \in Seq(ClientMessage) /\ Len(toServer') = Len(toServer) - 1
        /\ \A i \in 1..(Len(toServer) - 1) : toServer'[i] = toServer[i + 1]
    BY <1>1, <2>1, <2>2, TailFacts DEF ServerConsumes, Types, ProtocolTypeOK
  <2>4. \/ Len(toServer) = 1 /\ toServer' = <<>>
        \/ /\ Len(toServer) = 2 /\ Len(toServer') = 1
           /\ toServer'[1] = toServer[2] /\ toServer[2].cmd \in Requests
    <3>1. CASE Len(toServer) = 1
      BY <1>1, <2>3, <3>1, EmptyChannelsNext
    <3>2. CASE Len(toServer) = 2
      BY <2>1, <2>3, <3>2 DEF InStep, Synchronised, RequestsFitServer
    <3> QED  BY <2>2, <3>1, <3>2, EmptyChannels, <1>1
                DEF InStep, Synchronised, RequestsFitServer
  <2>5. /\ toClient' = <<>> /\ Len(toClient') = 0 /\ link' = link
        /\ UNCHANGED <<clientState, clientAlive, restoreId>>
    BY <2>1, <2>2 DEF ServerConsumes, clientVars
  <2>6. RequestsFitServer'
    BY <2>1, <2>4, EmptySeq DEF RequestsFitServer
  <2>7. AnswersAreAwaited' /\ ServerInOrder'
    BY <1>2, <2>1, <2>5 DEF AnswersAreAwaited, ServerInOrder
  <2>8. TypeOK'
    <3>1. Len(toServer') \in 0..2
      BY <2>4, EmptySeq
    <3> QED  BY <1>1, <2>5, <3>1 DEF TypeOK, Types
  <2>9. CASE link = "up"
    <3>1. SynchronisedWhileUp
      BY <2>9 DEF InStep, Synchronised
    <3>2. CASE Len(toServer) = 1
      <4>1. \A c : RequestUnderWay(c) => "replyAfterRestore" \in c
        BY <2>2, <3>2 DEF RequestUnderWay
      <4>2. ~AnswerUnderWay /\ ~NothingUnderWay
        BY <2>2 DEF AnswerUnderWay, NothingUnderWay
      <4>3. clientState = "WAIT_USER_INPUT"
        BY <1>1, <3>1, <4>1, <4>2
           DEF SynchronisedWhileUp, Logins, Types, ClientTypeOK, ClientStates
      <4> QED  BY <2>1, <2>4, <2>5, <2>6, <2>7, <2>8, <2>9, <3>1, <3>2, <4>3
                  DEF InStep, Synchronised, SynchronisedWhileUp
    <3>3. CASE Len(toServer) = 2
      <4>1. /\ Len(toServer') = 1 /\ toServer'[1] = toServer[2] /\ toServer' # <<>>
            /\ toServer[2].cmd \in Requests
        BY <2>4, <3>3, EmptySeq
      <4>2. \A c : RequestUnderWay(c) => RequestUnderWay(c)' /\ toServer[2].cmd \in c
        BY <2>5, <3>3, <4>1 DEF RequestUnderWay
      <4>3. ~AnswerUnderWay /\ ~NothingUnderWay
        BY <2>2 DEF AnswerUnderWay, NothingUnderWay
      <4>4. SynchronisedWhileUp'
        BY <2>5, <3>1, <3>3, <4>1, <4>2, <4>3 DEF SynchronisedWhileUp, Logins, Requests
      <4> QED  BY <2>5, <2>6, <2>7, <2>8, <2>9, <4>4 DEF InStep, Synchronised
    <3> QED  BY <2>4, <3>2, <3>3
  <2> QED  BY <2>2, <2>5, <2>6, <2>7, <2>8, <2>9 DEF InStep, Synchronised
<1>8. CASE procClientExit
  <2>1. ServerReceives({"clientExit"})
    BY <1>8 DEF procClientExit
  <2>2. FALSE
    BY <2>1, RequestFacts DEF Logins, Requests
  <2> QED  BY <2>2
<1>9. ~ServerRejects
  BY NoneRejects
<1> QED
  BY <1>3, <1>4, <1>5, <1>6, <1>7, <1>8, <1>9
     DEF ServerHandlesMessage

\* The steps in which the server's side handles no message.
LEMMA InStepServer ==
  /\ InStep
  /\ \/ onNewConnection
     \/ ServerHandlesMessage
     \/ disconnectSocket
     \/ ServerCrashes
     \/ OtherSessionBacksUp
  /\ UNCHANGED clientVars
  => InStep'
<1> SUFFICES ASSUME InStep,
                    \/ onNewConnection
                    \/ ServerHandlesMessage
                    \/ disconnectSocket
                    \/ ServerCrashes
                    \/ OtherSessionBacksUp,
                    UNCHANGED clientVars
             PROVE  InStep'
  OBVIOUS
<1>1. Types /\ Types'
  BY TypesServer DEF InStep, TypeOK, Types, SessionNext
<1>2. UNCHANGED <<clientState, clientAlive, restoreId>>
  BY DEF clientVars
<1>3. CASE onNewConnection \/ disconnectSocket \/ OtherSessionBacksUp
  <2>1. UNCHANGED <<channels, perClientState, userDataHolder, restoreBackupId>>
    BY <1>3 DEF onNewConnection, disconnectSocket, OtherSessionBacksUp
  <2>2. TypeOK'
    BY <1>1, <2>1 DEF InStep, TypeOK, Types, channels
  <2>3. AnswersAreAwaited' /\ ServerInOrder'
    BY <1>2, <2>1 DEF InStep, AnswersAreAwaited, ServerInOrder, channels
  <2>4. RequestsFitServer'
    BY <2>1 DEF InStep, Synchronised, RequestsFitServer, channels
  <2>5. (link = "up" => SynchronisedWhileUp)'
    BY <1>2, <2>1
       DEF InStep, Synchronised, SynchronisedWhileUp, channels, RequestUnderWay,
           AnswerUnderWay, NothingUnderWay, ReportUnderWay
  <2>6. (link = "connecting" => UntouchedWhileConnecting)'
    BY <1>2, <2>1
       DEF InStep, Synchronised, UntouchedWhileConnecting, channels, NothingUnderWay
  <2> QED  BY <2>2, <2>3, <2>4, <2>5, <2>6 DEF InStep, Synchronised
<1>4. CASE ServerCrashes
  <2>1. PICK n \in 0..Len(toClient) : toClient' = SubSeq(toClient, 1, n)
    BY <1>4 DEF ServerCrashes
  <2>2. /\ Len(toClient) \in 0..1 /\ Len(toClient') = n
        /\ n = 0 => toClient' = <<>>
        /\ \A i \in 1..n : toClient'[i] = toClient[i]
    BY <1>1, <2>1, PrefixFacts DEF InStep, TypeOK, Types, ProtocolTypeOK
  <2>3. /\ toServer' = <<>> /\ Len(toServer') = 0 /\ link' = "down"
        /\ UNCHANGED <<perClientState, userDataHolder>>
    BY <1>4, EmptySeq DEF ServerCrashes
  <2>4. AnswersAreAwaited'
    BY <1>1, <1>2, <2>2, <2>3, EmptyChannels DEF InStep, AnswersAreAwaited
  <2> QED
    BY <1>1, <2>2, <2>3, <2>4
       DEF InStep, TypeOK, Types, ServerInOrder, Synchronised, RequestsFitServer
<1> QED  BY <1>3, <1>4, InStepRequests

\* A broken connection keeps what is left in step.
LEMMA InStepLink == InStep /\ LinkFails => InStep'
<1> SUFFICES ASSUME InStep, LinkFails PROVE InStep'
  OBVIOUS
<1>1. Types /\ Types'
  BY TypesLink DEF InStep, TypeOK, Types
<1>2. /\ link' = "down"
      /\ UNCHANGED <<clientState, clientAlive, restoreId, perClientState,
                     userDataHolder>>
  BY DEF LinkFails, LinkBreaks, clientVars, serverVars
<1>3. PICK n \in 0..Len(toServer) : toServer' = SubSeq(toServer, 1, n)
  BY DEF LinkFails, LinkBreaks
<1>4. PICK k \in 0..Len(toClient) : toClient' = SubSeq(toClient, 1, k)
  BY DEF LinkFails, LinkBreaks
<1>5. /\ Len(toServer) \in 0..2 /\ Len(toServer') = n
      /\ n = 0 => toServer' = <<>>
      /\ \A i \in 1..n : toServer'[i] = toServer[i]
  BY <1>1, <1>3, PrefixFacts DEF InStep, TypeOK, Types, ProtocolTypeOK
<1>6. /\ Len(toClient) \in 0..1 /\ Len(toClient') = k
      /\ k = 0 => toClient' = <<>>
      /\ \A i \in 1..k : toClient'[i] = toClient[i]
  BY <1>1, <1>4, PrefixFacts DEF InStep, TypeOK, Types, ProtocolTypeOK
<1>7. RequestsFitServer'
  BY <1>1, <1>2, <1>5, EmptyChannels DEF InStep, Synchronised, RequestsFitServer
<1>8. AnswersAreAwaited'
  <2>1. CASE k = 0
    BY <1>6, <2>1 DEF AnswersAreAwaited
  <2>2. CASE k # 0
    <3>1. toClient # <<>> /\ toClient'[1] = toClient[1]
      BY <1>1, <1>6, <2>2, EmptyChannels
    <3>2. n = 0
      BY <1>1, <1>5, <3>1, EmptyChannels DEF InStep, AnswersAreAwaited
    <3> QED  BY <1>2, <1>5, <3>1, <3>2 DEF InStep, AnswersAreAwaited
  <2> QED  BY <2>1, <2>2
<1> QED
  BY <1>1, <1>2, <1>5, <1>6, <1>7, <1>8
     DEF InStep, TypeOK, Types, ServerInOrder, Synchronised

\* InStep is inductive.
LEMMA InStepNext == InStep /\ [Next]_vars => InStep'
<1>1. InStep /\ UNCHANGED vars => InStep'
  BY DEF InStep, TypeOK, ProtocolTypeOK, ClientTypeOK, ServerTypeOK,
         AnswersAreAwaited, ServerInOrder, Synchronised,
         RequestsFitServer, SynchronisedWhileUp, UntouchedWhileConnecting,
         RequestUnderWay, AnswerUnderWay, NothingUnderWay, ReportUnderWay,
         vars, channels, clientVars, serverVars
<1> QED
  BY <1>1, InStepClient, InStepServer, InStepLink DEF Next

(***************************************************************************)
(* The client and the server stay in step for every number of commands:    *)
(* every value has its type and at most three messages are under way.      *)
(***************************************************************************)
THEOREM TypeCorrect == Spec => []TypeOK
<1>1. InStep => TypeOK
  BY DEF InStep
<1> QED  BY <1>1, InStepInit, InStepNext, PTL DEF Spec

(***************************************************************************)
(* procNotFoundBackupId, procServerError and procServerExit, which do not  *)
(* check the client's state, are only called when the client waits.        *)
(***************************************************************************)
THEOREM AnswersAwaited == Spec => []AnswersAreAwaited
<1>1. InStep => AnswersAreAwaited
  BY DEF InStep
<1> QED  BY <1>1, InStepInit, InStepNext, PTL DEF Spec

(***************************************************************************)
(* With a client of this repository no step of the session is one of the   *)
(* "Error with curstate" branches (ServerNeverRejects): no handler meets a *)
(* request in the wrong state, and procRestoreRequest does not go on after *)
(* an error, neither with a holder nor without one.                        *)
(***************************************************************************)
THEOREM NeverRejects == Spec => ServerNeverRejects
<1>1. InStep /\ [Next]_vars => [~ServerRejects]_vars
  BY NoneRejects
<1> QED
  BY <1>1, InStepInit, InStepNext, PTL DEF Spec, ServerNeverRejects

(***************************************************************************)
(* A client aborts only when it handles a serverError.                     *)
(***************************************************************************)
THEOREM AbortsOnServerError == Spec => AbortsOnServerErrorOnly
<1> DEFINE Cause == clientState # "ABORTED" /\ clientState' = "ABORTED"
                      => toClient # <<>> /\ Head(toClient).cmd = "serverError"
<1>1. InStep /\ [Next]_vars => [Cause]_vars
  <2> SUFFICES ASSUME InStep, Next, clientState # "ABORTED", clientState' = "ABORTED"
               PROVE  toClient # <<>> /\ Head(toClient).cmd = "serverError"
    OBVIOUS
  <2>1. ClientNext
    BY DEF Next, LinkFails, clientVars
  <2>2. ~onStart
    BY DEF onStart, InStep, Synchronised, UntouchedWhileConnecting
  <2>3. ~onConsoleInput /\ ~ClientProcessEnds
    BY DEF onConsoleInput, ClientProcessEnds, sendLoginRequest, askLs,
           makeRestoreRequest, makeBackup
  <2>4. ~procLoginAns
    <3> SUFFICES ASSUME procLoginAns PROVE FALSE
      OBVIOUS
    <3>1. ClientReceives({"ansToClientRegister", "ansToClientLogin"}) /\ ClientConsumes
      BY DEF procLoginAns
    <3>2. clientState = "WAIT_LOGIN_STATUS"
      BY <3>1, AnswerFacts DEF ClientConsumes, AnswersFor
    <3> QED  BY <3>2 DEF procLoginAns, Expected
  <2>5. ~procLsAnswer
    <3> SUFFICES ASSUME procLsAnswer PROVE FALSE
      OBVIOUS
    <3>1. ClientReceives({"ansToLsSummary", "ansToLsDetailed"}) /\ ClientConsumes
      BY DEF procLsAnswer
    <3>2. clientState = "WAIT_LS_RESULT"
      BY <3>1, AnswerFacts DEF ClientConsumes, AnswersFor
    <3> QED  BY <3>2 DEF procLsAnswer, Expected
  <2>6. ~procReceiveBackupResults
    <3> SUFFICES ASSUME procReceiveBackupResults PROVE FALSE
      OBVIOUS
    <3>1. ClientReceives({"ansToBackup"}) /\ ClientConsumes
      BY DEF procReceiveBackupResults
    <3>2. clientState = "WAIT_BACKUP_RESULT"
      BY <3>1, AnswerFacts DEF ClientConsumes, AnswersFor
    <3> QED  BY <3>2 DEF procReceiveBackupResults, Expected
  <2>7. ~procReceiveArchiveToRestore
    <3> SUFFICES ASSUME procReceiveArchiveToRestore PROVE FALSE
      OBVIOUS
    <3>1. ClientReceives({"ansToRestore"}) /\ toClient' = Tail(toClient)
      BY DEF procReceiveArchiveToRestore, UnpackAndReport, ClientConsumes, ClientReplies
    <3>2. clientState = "WAIT_RESTORE_RESULT"
      BY <3>1, AnswerFacts DEF AnswersFor
    <3> QED  BY <3>2 DEF procReceiveArchiveToRestore
  <2>8. ~procNotFoundBackupId /\ ~procServerError
    BY DEF procNotFoundBackupId, procServerError
  <2>9. procServerExit
    BY <2>1, <2>2, <2>3, <2>4, <2>5, <2>6, <2>7, <2>8
       DEF ClientNext, ClientHandlesMessage
  <2> QED  BY <2>9 DEF procServerExit, ClientReceives
<1> QED
  BY <1>1, InStepInit, InStepNext, PTL DEF Spec, AbortsOnServerErrorOnly

-----------------------------------------------------------------------------
(***************************************************************************)
(* Restores: the server counts what the user saw, and a success is of a    *)
(* whole archive.  Both rest on InStep.                                    *)
(***************************************************************************)

\* What the client reported, what the session counted and what is stored.
Books == Tally /\ ArchiveUnderWay /\ SuccessIsOfWholeArchive

-----------------------------------------------------------------------------
\* Backups are only added: an id goes on naming the archive it names.
LEMMA ArchivesOnlyGrow ==
  ASSUME archives \in Seq(ArchiveStates),
         \/ archives' = archives
         \/ \E a \in ArchiveStates : archives' = Append(archives, a)
  PROVE  \A id \in 0..(Len(archives) - 1) :
           /\ id \in 0..(Len(archives') - 1)
           /\ archives'[id + 1] = archives[id + 1]
<1>1. Len(archives) \in Nat
  BY LenProperties
<1>2. CASE archives' = archives
  BY <1>2
<1>3. ASSUME NEW a \in ArchiveStates, archives' = Append(archives, a)
      PROVE  /\ Len(archives') = Len(archives) + 1
             /\ \A i \in 1..Len(archives) : archives'[i] = archives[i]
  BY <1>3, AppendProperties
<1>4. CASE \E a \in ArchiveStates : archives' = Append(archives, a)
  <2>1. /\ Len(archives') = Len(archives) + 1
        /\ \A i \in 1..Len(archives) : archives'[i] = archives[i]
    BY <1>3, <1>4
  <2>2. \A id \in 0..(Len(archives) - 1) : id + 1 \in 1..Len(archives)
    BY <1>1
  <2> QED  BY <1>1, <2>1, <2>2
<1> QED  BY <1>2, <1>4

\* The tally is kept by a step that reports and counts nothing, takes no
\* report from the channel unless the connection ends, and lets an answer go
\* only when no report is on its way.
LEMMA TallyKept ==
  ASSUME Tally,
         UNCHANGED <<reported, counted>>,
         toClient' # <<>> => toClient # <<>> \/ (link # "down" /\ ~ReportUnderWay),
         ReportUnderWay' => /\ ReportUnderWay
                            /\ toServer'[1] = toServer[1]
                            /\ restoreBackupId' = restoreBackupId,
         ~ReportUnderWay' => link' = "down" \/ (link # "down" /\ ~ReportUnderWay)
  PROVE  Tally'
<1>1. toClient' # <<>> => Len(reported) = Len(counted)
  BY DEF Tally
<1>2. CASE ReportUnderWay'
  BY <1>1, <1>2 DEF Tally
<1>3. CASE ~ReportUnderWay'
  BY <1>1, <1>3 DEF Tally
<1> QED  BY <1>2, <1>3

\* What is known of archives is kept by a step that reports nothing and lets
\* no archive go; restoreId may change when no answer is under way.
LEMMA ArchivesKept ==
  ASSUME ArchiveUnderWay, SuccessIsOfWholeArchive,
         archives \in Seq(ArchiveStates),
         \/ archives' = archives
         \/ \E a \in ArchiveStates : archives' = Append(archives, a),
         UNCHANGED <<reported, uncopied>>,
         \/ toClient' = <<>>
         \/ /\ toClient # <<>> /\ toClient'[1] = toClient[1]
            /\ UNCHANGED restoreId
         \/ toClient'[1].cmd # "ansToRestore"
  PROVE  ArchiveUnderWay' /\ SuccessIsOfWholeArchive'
<1>1. \A id \in 0..(Len(archives) - 1) :
        id \in 0..(Len(archives') - 1) /\ archives'[id + 1] = archives[id + 1]
  BY ArchivesOnlyGrow
<1>2. SuccessIsOfWholeArchive'
  BY <1>1 DEF SuccessIsOfWholeArchive
<1>3. ArchiveUnderWay'
  BY <1>1 DEF ArchiveUnderWay
<1> QED  BY <1>2, <1>3

\* Nothing is reported and nothing counted before the connection is made.
LEMMA BooksInit == Init => Books
<1> SUFFICES ASSUME Init PROVE Books
  OBVIOUS
<1>1. Len(<<>>) = 0
  BY EmptySeq
<1> QED
  BY <1>1 DEF Init, ProtocolInit, ClientInit, ServerInit, Books, Tally,
              ArchiveUnderWay, SuccessIsOfWholeArchive, ReportUnderWay

-----------------------------------------------------------------------------
\* Commands of the user and the start and end of the client.
LEMMA BooksConsole ==
  ASSUME InStep, Books, UNCHANGED serverVars,
         onStart \/ onConsoleInput \/ ClientProcessEnds
  PROVE  Books'
<1>1. Types /\ TypeOK /\ archives \in Seq(ArchiveStates)
  BY DEF InStep, TypeOK, Types, ServerTypeOK
<1>2. UNCHANGED <<restoreBackupId, archives, counted>>
  BY DEF serverVars
<1>3. CASE onStart
  <2>1. /\ UNCHANGED <<reported, uncopied, restoreId, toServer, toClient>>
        /\ link = "connecting" /\ link' = "up"
    BY <1>3 DEF onStart
  <2>2. Tally'
    BY <1>2, <2>1, TallyKept DEF Books, ReportUnderWay
  <2>3. ArchiveUnderWay' /\ SuccessIsOfWholeArchive'
    BY <1>1, <1>2, <2>1, ArchivesKept DEF Books
  <2> QED  BY <2>2, <2>3 DEF Books
<1>4. CASE ClientProcessEnds
  <2>1. toClient' = <<>> /\ link' = "down" /\ UNCHANGED <<reported, uncopied>>
    BY <1>4 DEF ClientProcessEnds
  <2>2. PICK n \in 0..Len(toServer) : toServer' = SubSeq(toServer, 1, n)
    BY <1>4 DEF ClientProcessEnds
  <2>3. toServer' # <<>> => toServer # <<>> /\ toServer'[1] = toServer[1]
    <3>1. /\ \A i \in 1..n : toServer'[i] = toServer[i]
          /\ n = 0 => toServer' = <<>>
      BY <1>1, <2>2, PrefixFacts DEF Types, ProtocolTypeOK
    <3> QED  BY <1>1, <3>1, EmptyChannels
  <2>4. Tally'
    BY <1>2, <2>1, <2>3, TallyKept DEF Books, ReportUnderWay
  <2>5. ArchiveUnderWay' /\ SuccessIsOfWholeArchive'
    BY <1>1, <1>2, <2>1, ArchivesKept DEF Books
  <2> QED  BY <2>4, <2>5 DEF Books
<1>5. ASSUME NEW m \in ClientMessage, ClientSends(m),
             m.cmd # "replyAfterRestore",
             clientState \in {"WAIT_LOGIN_INPUT", "WAIT_USER_INPUT"},
             UNCHANGED <<reported, uncopied>>
      PROVE  Books'
  <2>1. toClient = <<>> /\ toClient' = <<>> /\ link' = link
    BY <1>5 DEF InStep, AnswersAreAwaited, AnswersFor, ClientSends
  <2>2. /\ ReportUnderWay' => ReportUnderWay /\ toServer'[1] = toServer[1]
        /\ ReportUnderWay => ReportUnderWay'
    <3>1. CASE link # "up"
      BY <1>1, <1>5, <3>1, SendFacts DEF ReportUnderWay
    <3>2. CASE link = "up"
      <4>1. /\ toServer = <<>> => toServer'[1] = m
            /\ toServer # <<>> => toServer'[1] = toServer[1]
            /\ toServer' # <<>>
        <5>1. /\ Len(toServer') = Len(toServer) + 1
              /\ toServer'[Len(toServer) + 1] = m
              /\ toServer # <<>> => toServer'[1] = toServer[1]
          BY <1>1, <1>5, <3>2, SendFacts
        <5>2. Len(toServer) \in Nat /\ (toServer = <<>> => Len(toServer) = 0)
          BY <1>1, EmptyChannels
        <5>3. toServer' # <<>>
          BY <5>1, <5>2, EmptySeq
        <5> QED  BY <5>1, <5>2, <5>3
      <4> QED  BY <1>5, <4>1 DEF ReportUnderWay
    <3> QED  BY <3>1, <3>2
  <2>3. Tally'
    BY <1>2, <1>5, <2>1, <2>2, TallyKept DEF Books, Tally
  <2>4. ArchiveUnderWay' /\ SuccessIsOfWholeArchive'
    BY <1>1, <1>2, <1>5, <2>1, ArchivesKept DEF Books
  <2> QED  BY <2>3, <2>4 DEF Books
<1>6. CASE onConsoleInput
  <2>1. ASSUME NEW cmd \in {"clientRegister", "clientLogin"}, sendLoginRequest(cmd)
        PROVE  Books'
    <3>1. [cmd |-> cmd] \in ClientMessage
      BY DEF ClientMessage
    <3> QED  BY <1>5, <2>1, <3>1 DEF sendLoginRequest, Type
  <2>2. ASSUME NEW id \in BackupIds \cup {NoBackupId}, askLs(id)
        PROVE  Books'
    <3>1. [cmd |-> "ls", backupid |-> id] \in ClientMessage
      BY DEF ClientMessage
    <3> QED  BY <1>5, <2>2, <3>1 DEF askLs, Type
  <2>3. ASSUME NEW id \in BackupIds, makeRestoreRequest(id)
        PROVE  Books'
    <3>1. [cmd |-> "restore", backupid |-> id] \in ClientMessage
      BY DEF ClientMessage
    <3> QED  BY <1>5, <2>3, <3>1 DEF makeRestoreRequest, Type
  <2>4. ASSUME makeBackup
        PROVE  Books'
    <3>1. [cmd |-> "backup"] \in ClientMessage
      BY DEF ClientMessage
    <3> QED  BY <1>5, <2>4, <3>1 DEF makeBackup, Type
  <2> QED  BY <1>6, <2>1, <2>2, <2>3, <2>4 DEF onConsoleInput
<1> QED  BY <1>3, <1>4, <1>6

\* An answer: the client reports the outcome of a restore, or nothing.
LEMMA BooksNetwork ==
  ASSUME InStep, Books, ClientHandlesMessage, UNCHANGED serverVars
  PROVE  Books'
<1>1. Types /\ TypeOK /\ archives \in Seq(ArchiveStates)
  BY DEF InStep, TypeOK, Types, ServerTypeOK
<1>2. UNCHANGED <<restoreBackupId, archives, counted>>
  BY DEF serverVars
<1>3. ASSUME NEW cmds, ClientReceives(cmds), ClientConsumes,
             UNCHANGED <<reported, uncopied>>
      PROVE  Books'
  <2>1. toServer = <<>> /\ toServer' = <<>> /\ toClient' = <<>> /\ link' = link
    BY <1>3, AnswerFacts DEF ClientConsumes
  <2>2. Tally'
    BY <1>2, <1>3, <2>1, TallyKept DEF Books, ReportUnderWay
  <2>3. ArchiveUnderWay' /\ SuccessIsOfWholeArchive'
    BY <1>1, <1>2, <1>3, <2>1, ArchivesKept DEF Books
  <2> QED  BY <2>2, <2>3 DEF Books
<1>4. CASE procReceiveArchiveToRestore /\ clientState = "WAIT_RESTORE_RESULT"
  <2>1. PICK opened \in BOOLEAN, ok \in BOOLEAN :
          /\ curunpack' \in IF opened THEN CopiesOf(Head(toClient).archive)
                                      ELSE {curunpack}
          /\ uncopied' = IF opened THEN uncopied ELSE uncopied \cup {Len(reported) + 1}
          /\ ok \in UnpackOutcomes(curunpack')
          /\ ClientReplies([cmd |-> "replyAfterRestore", issuccess |-> ok])
          /\ reported' = Append(reported, [id |-> restoreId, ok |-> ok])
    BY <1>4 DEF procReceiveArchiveToRestore, UnpackAndReport
  <2> DEFINE reply == [cmd |-> "replyAfterRestore", issuccess |-> ok]
             entry == [id |-> restoreId, ok |-> ok]
  <2>2. ok \in BOOLEAN
    OBVIOUS
  <2>3. ClientReceives({"ansToRestore"}) /\ toClient' = Tail(toClient)
    BY <1>4, <2>1 DEF procReceiveArchiveToRestore, UnpackAndReport, ClientReplies
  <2>4. /\ toServer = <<>> /\ toClient' = <<>> /\ link # "connecting"
        /\ toClient # <<>> /\ toClient[1] = Head(toClient)
        /\ toClient[1].cmd = "ansToRestore" /\ UNCHANGED restoreId
    BY <2>3, AnswerFacts
  <2>5. /\ reported \in Seq(RestoreResult) /\ entry \in RestoreResult
        /\ counted \in Seq(CountedResult)
        /\ Len(reported) \in Nat /\ Len(counted) \in Nat
    BY <1>1, <2>2, LenProperties
       DEF Types, ClientTypeOK, ServerTypeOK, RestoreResult
  <2>6. /\ Len(reported') = Len(reported) + 1
        /\ reported'[Len(reported) + 1] = entry
        /\ \A i \in 1..Len(reported) : reported'[i] = reported[i]
    BY <2>1, <2>5, AppendProperties
  <2>7. Len(reported) = Len(counted)
    BY <2>4 DEF Books, Tally
  <2>8. ok /\ opened => /\ restoreId \in 0..(Len(archives) - 1)
                        /\ archives[restoreId + 1] = "whole"
    <3> SUFFICES ASSUME ok, opened
                 PROVE  /\ restoreId \in 0..(Len(archives) - 1)
                        /\ archives[restoreId + 1] = "whole"
      OBVIOUS
    <3>1. curunpack' = "whole" /\ curunpack' \in CopiesOf(toClient[1].archive)
      BY <2>1, <2>4 DEF UnpackOutcomes
    <3>2. toClient[1].archive = "whole"
      BY <3>1 DEF CopiesOf
    <3> QED  BY <2>4, <3>2 DEF Books, ArchiveUnderWay
  <2>9. SuccessIsOfWholeArchive'
    <3> SUFFICES ASSUME NEW i \in 1..Len(reported'), reported'[i].ok, i \notin uncopied'
                 PROVE  /\ reported'[i].id \in 0..(Len(archives) - 1)
                        /\ archives[reported'[i].id + 1] = "whole"
      BY <1>2 DEF SuccessIsOfWholeArchive
    <3>1. CASE i \in 1..Len(reported)
      BY <2>1, <2>6, <3>1 DEF Books, SuccessIsOfWholeArchive
    <3>2. CASE i = Len(reported) + 1
      BY <2>1, <2>6, <2>8, <3>2
    <3> QED  BY <2>5, <2>6, <3>1, <3>2
  <2>10. ArchiveUnderWay'
    BY <2>4 DEF ArchiveUnderWay
  <2>11. IF ReportUnderWay'
         THEN toServer'[1] = reply /\ restoreBackupId = restoreId
         ELSE link' = "down"
    <3>1. CASE link # "up"
      <4>1. link = "down"
        BY <1>1, <2>4, <3>1 DEF Types, ProtocolTypeOK
      <4>2. toServer' = <<>> /\ link' = "down"
        BY <2>1, <2>4, <4>1 DEF ClientReplies, Written
      <4> QED  BY <4>2 DEF ReportUnderWay
    <3>2. CASE link = "up"
      <4>1. toServer' = Append(toServer, reply) /\ toServer \in Seq(ClientMessage)
        BY <1>1, <2>1, <3>2 DEF ClientReplies, Written, Types, ProtocolTypeOK
      <4>2. reply \in ClientMessage
        BY <2>2 DEF ClientMessage
      <4>3. Len(toServer) = 0
        BY <2>4, EmptySeq
      <4>4. toServer' # <<>> /\ toServer'[1] = reply
        BY <4>1, <4>2, <4>3, AppendProperties
      <4>5. restoreBackupId = restoreId
        BY <1>4, <2>4, <3>2
           DEF InStep, Synchronised, SynchronisedWhileUp, RequestUnderWay
      <4> QED  BY <4>4, <4>5 DEF ReportUnderWay
    <3> QED  BY <3>1, <3>2
  <2>12. Tally'
    <3>1. \A i \in 1..Len(counted) : counted[i] = reported'[i]
      BY <2>6, <2>7 DEF Books, Tally
    <3> HIDE DEF entry, reply
    <3>2. Len(reported') = Len(counted) + 1 /\ reported'[Len(reported')] = entry
      BY <2>6, <2>7
    <3> QED  BY <1>2, <2>4, <2>11, <3>1, <3>2 DEF Tally, entry, reply
  <2> QED  BY <2>9, <2>10, <2>12 DEF Books
<1>5. CASE procReceiveArchiveToRestore /\ clientState # "WAIT_RESTORE_RESULT"
  BY <1>3, <1>5 DEF procReceiveArchiveToRestore
<1> QED
  BY <1>3, <1>4, <1>5
     DEF ClientHandlesMessage, procLoginAns, procLsAnswer,
         procReceiveBackupResults, procNotFoundBackupId, procServerError,
         procServerExit

-----------------------------------------------------------------------------
\* A request: the session answers it, or counts the report of a restore.
LEMMA BooksRequests ==
  ASSUME InStep, Books, ServerHandlesMessage, UNCHANGED clientVars
  PROVE  Books'
<1>1. Types /\ TypeOK /\ archives \in Seq(ArchiveStates)
  BY DEF InStep, TypeOK, Types, ServerTypeOK
<1>2. UNCHANGED <<reported, uncopied, restoreId>>
  BY DEF clientVars
<1>3. ASSUME NEW cmds, ServerReceives(cmds), cmds \subseteq Logins \cup Requests,
             NEW m \in ServerMessage, ServerReplies(m), UNCHANGED counted
      PROVE  /\ Tally'
             /\ toClient' = <<>> \/ (link = "up" /\ toClient'[1] = m)
  <2>1. /\ toServer' = <<>> /\ toClient = <<>> /\ link' = link
        /\ toServer[1].cmd \in Logins \cup Requests
    BY <1>3, RequestFacts DEF ServerReplies
  <2>2. ~ReportUnderWay /\ ~ReportUnderWay'
    BY <2>1 DEF ReportUnderWay, Logins, Requests
  <2>3. toClient' = <<>> \/ (link = "up" /\ toClient'[1] = m)
    <3>1. CASE link # "up"
      BY <1>3, <2>1, <3>1 DEF ServerReplies, Written
    <3>2. CASE link = "up"
      <4>1. toClient' = Append(toClient, m) /\ toClient \in Seq(ServerMessage)
        BY <1>1, <1>3, <3>2 DEF ServerReplies, Written, Types, ProtocolTypeOK
      <4> QED  BY <2>1, <3>2, <4>1, AppendProperties, EmptySeq
    <3> QED  BY <3>1, <3>2
  <2>4. Tally'
    BY <1>2, <1>3, <2>1, <2>2, <2>3, TallyKept DEF Books
  <2> QED  BY <2>3, <2>4
<1>4. ASSUME NEW cmds, ServerReceives(cmds), cmds \subseteq Logins \cup Requests,
             NEW m \in ServerMessage, ServerReplies(m), UNCHANGED counted,
             m.cmd # "ansToRestore",
             \/ archives' = archives
             \/ \E a \in ArchiveStates : archives' = Append(archives, a)
      PROVE  Books'
  <2>1. Tally' /\ (toClient' = <<>> \/ toClient'[1].cmd # "ansToRestore")
    BY <1>3, <1>4
  <2>2. ArchiveUnderWay' /\ SuccessIsOfWholeArchive'
    BY <1>1, <1>2, <1>4, <2>1, ArchivesKept DEF Books
  <2> QED  BY <2>1, <2>2 DEF Books
<1>5. CASE procLoginRequest
  <2>1. PICK ok \in BOOLEAN :
          ServerReplies([cmd |-> AuthAnswer[Head(toServer).cmd], issuccess |-> ok])
    BY <1>5 DEF procLoginRequest
  <2>2. ServerReceives(Logins) /\ UNCHANGED <<archives, counted>>
    BY <1>5 DEF procLoginRequest, Accept, Logins
  <2>3. Head(toServer).cmd \in Logins
    BY <2>2 DEF ServerReceives
  <2> DEFINE m == [cmd |-> AuthAnswer[Head(toServer).cmd], issuccess |-> ok]
  <2>4. m \in ServerMessage /\ m.cmd # "ansToRestore"
    BY <2>3 DEF AuthAnswer, ServerMessage, Logins
  <2> HIDE DEF m
  <2> QED  BY <1>4, <2>1, <2>2, <2>4 DEF m
<1>6. CASE procLsRequest
  <2>1. ServerReceives({"ls"}) /\ UNCHANGED <<archives, counted>>
    BY <1>6 DEF procLsRequest, Accept
  <2>3. PICK m \in LsAnswers(Head(toServer).backupid) : ServerReplies(m)
    BY <1>6 DEF procLsRequest
  <2>2. m \in ServerMessage /\ m.cmd # "ansToRestore"
    <3>1. Head(toServer).backupid \in BackupIds \cup {NoBackupId}
      BY <2>1, RequestFacts, ClientMessageFields
    <3> QED  BY <1>1, <2>3, <3>1, LsAnswerFacts
  <2> QED  BY <1>4, <2>1, <2>2, <2>3 DEF Requests
<1>7. CASE procBackupRequest
  <2>1. PICK a \in ArchiveStates :
          /\ archives' = Append(archives, a)
          /\ ServerReplies([cmd |-> "ansToBackup", backupid |-> Len(archives),
                            issuccess |-> a # "missing"])
    BY <1>7 DEF procBackupRequest
  <2>2. ServerReceives({"backup"}) /\ UNCHANGED counted
    BY <1>7 DEF procBackupRequest, Accept
  <2> DEFINE m == [cmd |-> "ansToBackup", backupid |-> Len(archives),
                   issuccess |-> a # "missing"]
  <2>3. m \in ServerMessage /\ m.cmd # "ansToRestore"
    BY <1>1, LenProperties DEF ServerMessage
  <2> HIDE DEF m
  <2> QED  BY <1>4, <2>1, <2>2, <2>3 DEF m, Requests
<1>8. CASE procRestoreRequest
  <2> DEFINE id == Head(toServer).backupid
  <2>1. ServerReceives({"restore"}) /\ UNCHANGED <<archives, counted>>
    BY <1>8 DEF procRestoreRequest, Accept
  <2>2. /\ toServer[1] = Head(toServer) /\ toServer[1] \in ClientMessage
        /\ toServer[1].cmd = "restore"
    BY <2>1, RequestFacts
  <2>3. CASE isValidBackupId(id)
    <3> DEFINE m == [cmd |-> "ansToRestore", archive |-> archives[id + 1]]
    <3>1. ServerReplies(m)
      BY <1>8, <2>3 DEF procRestoreRequest
    <3>2. id \in 0..(Len(archives) - 1)
      <4>1. id \in Nat
        BY <2>2, ClientMessageFields, BackupIdsAssumption
      <4>2. id < Len(archives) /\ Len(archives) \in Nat
        BY <1>1, <2>3, LenProperties DEF isValidBackupId
      <4> QED  BY <4>1, <4>2
    <3>3. m \in ServerMessage
      <4>1. id + 1 \in 1..Len(archives)
        BY <1>1, <3>2, LenProperties
      <4>2. archives[id + 1] \in ArchiveStates
        BY <1>1, <4>1, LenProperties
      <4> QED  BY <4>2 DEF ServerMessage
    <3>4. link = "up" => restoreId = id
      BY <2>1, <2>2, WaitingClient DEF Requests
    <3>5. m.archive = archives[id + 1]
      OBVIOUS
    <3> HIDE DEF m, id
    <3>6. Tally' /\ (toClient' = <<>> \/ (link = "up" /\ toClient'[1] = m))
      BY <1>3, <2>1, <3>1, <3>3 DEF Requests
    <3>7. ArchiveUnderWay'
      BY <1>2, <2>1, <3>2, <3>4, <3>5, <3>6 DEF ArchiveUnderWay
    <3>8. SuccessIsOfWholeArchive'
      BY <1>2, <2>1 DEF Books, SuccessIsOfWholeArchive
    <3> QED  BY <3>6, <3>7, <3>8 DEF Books
  <2>4. CASE ~isValidBackupId(id)
    <3> DEFINE m == NotFound
    <3>1. ServerReplies(m)
      BY <1>8, <2>4 DEF procRestoreRequest
    <3>2. m \in ServerMessage /\ m.cmd # "ansToRestore"
      BY DEF NotFound, ServerMessage
    <3> HIDE DEF m, id
    <3> QED  BY <1>4, <2>1, <3>1, <3>2 DEF Requests
  <2> QED  BY <2>3, <2>4
<1>9. CASE procReplyAfterRestore
  <2>1. /\ ServerReceives({"replyAfterRestore"}) /\ ServerConsumes
        /\ counted' = Append(counted, [id |-> restoreBackupId,
                                       ok |-> Head(toServer).issuccess])
        /\ UNCHANGED archives
    BY <1>9 DEF procReplyAfterRestore, Accept
  <2> DEFINE entry == [id |-> restoreBackupId, ok |-> toServer[1].issuccess]
  <2>2. /\ toServer # <<>> /\ toServer[1] = Head(toServer)
        /\ toServer[1] \in ClientMessage /\ toServer[1].cmd = "replyAfterRestore"
        /\ toClient = <<>> /\ toClient' = <<>>
    BY <2>1, RequestFacts DEF ServerConsumes
  <2>3. /\ Len(reported) = Len(counted) + 1
        /\ reported[Len(reported)] = entry
        /\ \A i \in 1..Len(counted) : counted[i] = reported[i]
    BY <2>2 DEF Books, Tally, ReportUnderWay
  <2>4. /\ counted \in Seq(CountedResult) /\ entry \in CountedResult
        /\ Len(counted) \in Nat
    BY <1>1, <2>2, ClientMessageFields, LenProperties
       DEF Types, ServerTypeOK, CountedResult
  <2>5. /\ Len(counted') = Len(counted) + 1
        /\ counted'[Len(counted) + 1] = entry
        /\ \A i \in 1..Len(counted) : counted'[i] = counted[i]
    BY <2>1, <2>2, <2>4, AppendProperties
  <2>6. ~ReportUnderWay'
    <3>1. /\ toServer' \in Seq(ClientMessage) /\ Len(toServer') = Len(toServer) - 1
          /\ \A i \in 1..(Len(toServer) - 1) : toServer'[i] = toServer[i + 1]
      BY <1>1, <2>1, <2>2, TailFacts DEF ServerConsumes, Types, ProtocolTypeOK
    <3>2. CASE Len(toServer) = 1
      BY <3>1, <3>2, EmptySeq DEF ReportUnderWay
    <3>3. CASE Len(toServer) = 2
      <4>1. toServer[2].cmd \in Requests
        BY <3>3 DEF InStep, Synchronised, RequestsFitServer
      <4>2. toServer'[1] = toServer[2]
        BY <3>1, <3>3
      <4> QED  BY <4>1, <4>2 DEF ReportUnderWay, Requests
    <3> QED  BY <2>2, <3>2, <3>3 DEF InStep, Synchronised, RequestsFitServer
  <2> HIDE DEF entry
  <2>7. Tally'
    <3>1. Len(counted') = Len(reported)
      BY <2>3, <2>5
    <3>2. ASSUME NEW i \in 1..Len(counted') PROVE counted'[i] = reported[i]
      <4>1. CASE i \in 1..Len(counted)
        BY <2>3, <2>5, <4>1
      <4>2. CASE i = Len(counted) + 1
        BY <2>3, <2>5, <4>2
      <4> QED  BY <2>4, <2>5, <4>1, <4>2
    <3> QED  BY <1>2, <2>6, <3>1, <3>2 DEF Tally
  <2>8. ArchiveUnderWay' /\ SuccessIsOfWholeArchive'
    BY <1>1, <1>2, <2>1, <2>2, ArchivesKept DEF Books
  <2> QED  BY <2>7, <2>8 DEF Books
<1>10. ~procClientExit
  BY RequestFacts DEF procClientExit, Logins, Requests
<1>11. ~ServerRejects
  BY NoneRejects
<1> QED
  BY <1>5, <1>6, <1>7, <1>8, <1>9, <1>10, <1>11
     DEF ServerHandlesMessage

\* The other steps of the server, and a broken connection: what is under way
\* stays or is lost, and nothing is reported or counted.
LEMMA BooksOthers ==
  ASSUME InStep, Books, UNCHANGED clientVars,
         \/ onNewConnection \/ disconnectSocket \/ OtherSessionBacksUp
         \/ ServerCrashes \/ LinkFails
  PROVE  Books'
<1>1. Types /\ archives \in Seq(ArchiveStates)
  BY DEF InStep, TypeOK, Types, ServerTypeOK
<1>2. UNCHANGED <<reported, uncopied, restoreId, counted, restoreBackupId>>
  BY DEF clientVars, serverVars, onNewConnection, disconnectSocket,
         OtherSessionBacksUp, ServerCrashes, LinkFails
<1>3. \/ archives' = archives
      \/ \E a \in ArchiveStates : archives' = Append(archives, a)
  BY DEF serverVars, onNewConnection, disconnectSocket, OtherSessionBacksUp,
         ServerCrashes, LinkFails
<1>4. CASE onNewConnection \/ disconnectSocket \/ OtherSessionBacksUp
  <2>1. UNCHANGED <<link, toServer, toClient>>
    BY <1>4 DEF onNewConnection, disconnectSocket, OtherSessionBacksUp, channels
  <2>2. Tally'
    BY <1>2, <2>1 DEF Books, Tally, ReportUnderWay
  <2>3. ArchiveUnderWay' /\ SuccessIsOfWholeArchive'
    BY <1>1, <1>2, <1>3, <2>1, ArchivesKept DEF Books
  <2> QED  BY <2>2, <2>3 DEF Books
<1>5. CASE ServerCrashes \/ LinkFails
  <2>1. link' = "down"
    BY <1>5 DEF ServerCrashes, LinkFails, LinkBreaks
  <2>2. toServer' # <<>> => toServer # <<>> /\ toServer'[1] = toServer[1]
    <3>1. CASE toServer' = <<>>
      BY <3>1
    <3>2. ASSUME NEW n \in 0..Len(toServer), toServer' = SubSeq(toServer, 1, n)
          PROVE  toServer' # <<>> => toServer # <<>> /\ toServer'[1] = toServer[1]
      <4>1. /\ \A i \in 1..n : toServer'[i] = toServer[i]
            /\ n = 0 => toServer' = <<>>
        BY <1>1, <3>2, PrefixFacts DEF Types, ProtocolTypeOK
      <4> QED  BY <1>1, <4>1, EmptyChannels
    <3> QED  BY <1>5, <3>1, <3>2 DEF ServerCrashes, LinkFails, LinkBreaks
  <2>3. toClient' # <<>> => toClient # <<>> /\ toClient'[1] = toClient[1]
    <3>1. PICK n \in 0..Len(toClient) : toClient' = SubSeq(toClient, 1, n)
      BY <1>5 DEF ServerCrashes, LinkFails, LinkBreaks
    <3>2. /\ \A i \in 1..n : toClient'[i] = toClient[i]
          /\ n = 0 => toClient' = <<>>
      BY <1>1, <3>1, PrefixFacts DEF Types, ProtocolTypeOK
    <3> QED  BY <1>1, <3>2, EmptyChannels
  <2>4. Tally'
    BY <1>2, <2>1, <2>2, <2>3, TallyKept DEF Books, ReportUnderWay
  <2>5. ArchiveUnderWay' /\ SuccessIsOfWholeArchive'
    BY <1>1, <1>2, <1>3, <2>3, ArchivesKept DEF Books
  <2> QED  BY <2>4, <2>5 DEF Books
<1> QED  BY <1>4, <1>5

\* With InStep, Books is inductive.
LEMMA BooksNext == InStep /\ Books /\ [Next]_vars => Books'
<1>1. Books /\ UNCHANGED vars => Books'
  BY DEF Books, Tally, ArchiveUnderWay, SuccessIsOfWholeArchive, ReportUnderWay,
         vars, channels, clientVars, serverVars
<1> QED
  BY <1>1, BooksConsole, BooksNetwork, BooksRequests, BooksOthers
     DEF Next, ClientNext, LinkFails

(***************************************************************************)
(* The session counts each report once, in order and for the backup whose  *)
(* restore was asked for; it misses only the last one, when the connection *)
(* broke under it.                                                         *)
(***************************************************************************)
THEOREM RestoresCounted == Spec => []RestoresCountedAsReported
<1>1. InStep /\ Books => RestoresCountedAsReported
  <2> SUFFICES ASSUME InStep, Books PROVE RestoresCountedAsReported
    OBVIOUS
  <2>1. Len(counted) \in Nat
    BY LenProperties DEF InStep, TypeOK, ServerTypeOK
  <2> QED
    BY <2>1 DEF Books, Tally, RestoresCountedAsReported, ReportUnderWay
<1> QED
  BY <1>1, InStepInit, InStepNext, BooksInit, BooksNext, PTL DEF Spec

(***************************************************************************)
(* A restore that the client reports as a success, and whose archive it    *)
(* could open curunpack.pck for, was of the backup that the user asked     *)
(* for, and its archive is whole on the server (SuccessIsOfWholeArchive):  *)
(* what a failed open leaves there is the one way to another success.      *)
(***************************************************************************)
THEOREM SuccessOfWholeArchive == Spec => []SuccessIsOfWholeArchive
<1>1. Books => SuccessIsOfWholeArchive
  BY DEF Books
<1> QED
  BY <1>1, InStepInit, InStepNext, BooksInit, BooksNext, PTL DEF Spec
=============================================================================
