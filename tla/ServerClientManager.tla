------------------------- MODULE ServerClientManager -------------------------
(***************************************************************************)
(* The server's manager (serverclientmanager.cpp): the places of the       *)
(* sessions, the accounts, and the threads of the sessions.  The manager's *)
(* slots run in the main thread; tryRegister and tryAuth are called in the *)
(* threads of the sessions, one at a time under mMutexOnAuth; a session    *)
(* tells the main thread that it ended through the queue of posted events. *)
(***************************************************************************)
EXTENDS Integers, Sequences, FiniteSets, Functions

CONSTANTS
  Sockets,     \* the connections that are ever made; one session for each
  Logins,      \* names of users
  Beginnings,  \* Beginnings[l]: the users' names that l begins with and is longer
  Passwords,
  MaxKills,    \* bound: "kill" commands of the operator
  MaxCrashes   \* bound: crashes of the server

ASSUME BoundsAssumption == MaxKills \in Nat /\ MaxCrashes \in Nat

ASSUME BeginningsAssumption == Beginnings \in [Logins -> SUBSET Logins]

VARIABLES
  mSessions,            \* mSessions[id + 1]: a Session, or Free
  mFreeSessionIdQueue,
  mUsersCredentials,    \* the accounts, [login, password] each
  credentialsFile,      \* disk: userCredentials.secure
  mUsers,               \* mUsers[l].sessionNumber for the users in the map
  mMutexOnAuth,         \* the sessions, at most one, that hold the mutex
  phase,                \* phase[c]: how far the session and its thread are
  sessionId,            \* sessionId[c]: mSessionId of the session
  socketUp,             \* the sockets that are connected
  disconnects,          \* disconnects[c]: calls of disconnectSocket to come
  auth,                 \* auth[c]: the login or registration c carries out
  holder,               \* holder[c]: the user whose UserDataHolder c uses
  mainQueue,            \* events posted to the main thread
  kills, crashes,       \* number of "kill" commands, of crashes
  raced,                \* history: sockets on which a kill met a disconnect
  serverUp

places == <<mSessions, mFreeSessionIdQueue>>
accounts == <<mUsersCredentials, credentialsFile, mUsers, mMutexOnAuth>>
histories == <<kills, crashes, raced>>
threads == <<phase, sessionId, socketUp, disconnects>>
logins == <<auth, holder>>
vars == <<places, accounts, threads, logins, histories, mainQueue, serverUp>>

Free == [socket |-> {}, login |-> {}]
NoAuth == [at |-> "none"]

\* "alive": the session handles messages; "deleting": disconnectSocket ran
\* and deleteLater is posted; "quitting": session and creator are deleted
\* and the thread was told to quit; "finished": its event loop has returned;
\* "ended": deleteThread is posted.
Phases == {"none", "alive", "deleting", "quitting", "finished", "ended", "deleted"}

Init ==
  /\ mSessions = <<>> /\ mFreeSessionIdQueue = <<>>
  /\ mUsersCredentials = <<>> /\ credentialsFile = <<>>
  /\ mUsers = [l \in {} |-> 0] /\ mMutexOnAuth = {}
  /\ phase = [c \in Sockets |-> "none"]
  /\ sessionId = [c \in Sockets |-> 0]
  /\ socketUp = {}
  /\ disconnects = [c \in Sockets |-> {}]
  /\ auth = [c \in Sockets |-> NoAuth]
  /\ holder = [c \in Sockets |-> {}]
  /\ mainQueue = <<>> /\ serverUp = TRUE
  /\ kills = 0 /\ crashes = 0 /\ raced = {}

-----------------------------------------------------------------------------
(***************************************************************************)
(* The main thread.                                                        *)
(***************************************************************************)
\* Mutants: an id one too small; a free id that is taken twice.
NewConnectionOffByOne(c) ==
  /\ serverUp
  /\ phase[c] = "none"
  /\ sessionId' = [sessionId EXCEPT ![c] = Len(mSessions) - 1]
  /\ mSessions' = Append(mSessions, [socket |-> {c}, login |-> {}])
  /\ phase' = [phase EXCEPT ![c] = "alive"]
  /\ socketUp' = socketUp \cup {c}
  /\ UNCHANGED <<mFreeSessionIdQueue, disconnects, accounts, logins, mainQueue, histories,
                 serverUp>>

NewConnectionKeepsId(c) ==
  /\ serverUp
  /\ phase[c] = "none"
  /\ LET new == [socket |-> {c}, login |-> {}]
         id == IF mFreeSessionIdQueue = <<>> THEN Len(mSessions) ELSE Head(mFreeSessionIdQueue)
     IN  /\ sessionId' = [sessionId EXCEPT ![c] = id]
         /\ mSessions' = [i \in 1..(IF id = Len(mSessions) THEN id + 1 ELSE Len(mSessions)) |->
                            IF i = id + 1 THEN new ELSE mSessions[i]]
  /\ phase' = [phase EXCEPT ![c] = "alive"]
  /\ socketUp' = socketUp \cup {c}
  /\ UNCHANGED <<mFreeSessionIdQueue, disconnects, accounts, logins, mainQueue, histories,
                 serverUp>>

onNewConnection(c) ==
  /\ serverUp
  /\ phase[c] = "none"
  /\ LET new == [socket |-> {c}, login |-> {}]
     IN  IF mFreeSessionIdQueue = <<>>
         THEN /\ sessionId' = [sessionId EXCEPT ![c] = Len(mSessions)]
              /\ mSessions' = Append(mSessions, new)
              /\ UNCHANGED mFreeSessionIdQueue
         ELSE LET id == Head(mFreeSessionIdQueue)
              IN  /\ sessionId' = [sessionId EXCEPT ![c] = id]
                  /\ mSessions' = [mSessions EXCEPT ![id + 1] = new]
                  /\ mFreeSessionIdQueue' = Tail(mFreeSessionIdQueue)
  /\ phase' = [phase EXCEPT ![c] = "alive"]
  /\ socketUp' = socketUp \cup {c}
  /\ UNCHANGED <<disconnects, accounts, logins, mainQueue, histories, serverUp>>

NextEvent(name) ==
  /\ serverUp
  /\ mainQueue # <<>>
  /\ Head(mainQueue).event = name
  /\ mainQueue' = Tail(mainQueue)

\* Mutant: the user leaves with the first of the user's sessions.
ReleaseErasesUser ==
  /\ NextEvent("release")
  /\ LET id == Head(mainQueue).id
     IN  /\ mSessions[id + 1] # Free
         /\ mUsers' = [l \in DOMAIN mUsers \ mSessions[id + 1].login |-> mUsers[l]]
         /\ mSessions' = [mSessions EXCEPT ![id + 1] = Free]
         /\ mFreeSessionIdQueue' = Append(mFreeSessionIdQueue, id)
  /\ UNCHANGED <<mUsersCredentials, credentialsFile, mMutexOnAuth, threads, logins, histories,
                 serverUp>>

\* A place that is free already: the call goes through a null auto_ptr and
\* ends the server.
releaseClientPlace ==
  /\ NextEvent("release")
  /\ LET id == Head(mainQueue).id
         user == mSessions[id + 1].login
     IN  IF mSessions[id + 1] = Free
         THEN /\ serverUp' = FALSE
              /\ UNCHANGED <<places, mUsers>>
         ELSE /\ mUsers' = [l \in {k \in DOMAIN mUsers :
                                     k \in user => mUsers[k] # 0} |-> mUsers[l]]
              /\ mSessions' = [mSessions EXCEPT ![id + 1] = Free]
              /\ mFreeSessionIdQueue' = Append(mFreeSessionIdQueue, id)
              /\ UNCHANGED serverUp
  /\ UNCHANGED <<mUsersCredentials, credentialsFile, mMutexOnAuth, threads, logins, histories>>

\* QThread::quit, posted when the creator was destroyed.
quitThread ==
  /\ NextEvent("quit")
  /\ phase' = [phase EXCEPT ![Head(mainQueue).of] = "finished"]
  /\ UNCHANGED <<places, accounts, sessionId, socketUp, disconnects, logins, histories,
                 serverUp>>

\* ThreadDeleter::deleteThread, posted when the thread had finished.
deleteThread ==
  /\ NextEvent("delete")
  /\ phase' = [phase EXCEPT ![Head(mainQueue).of] = "deleted"]
  /\ UNCHANGED <<places, accounts, sessionId, socketUp, disconnects, logins, histories,
                 serverUp>>

(***************************************************************************)
(* "kill <login>".  disconnectFromHost is called from the main thread: the *)
(* disconnected signal posts disconnectSocket to the thread of the session.*)
(* On a socket that is disconnected it does nothing, unless the thread is  *)
(* at it in the same moment: then both may emit the signal.                *)
(***************************************************************************)
killAllSessionByLogin(login) ==
  /\ serverUp
  /\ kills < MaxKills
  /\ kills' = kills + 1
  /\ LET hit == UNION {s.socket : s \in {s \in Range(mSessions) : s.login = {login}}}
     IN  \E race \in SUBSET {c \in hit : "own" \in disconnects[c]} :
           /\ socketUp' = socketUp \ hit
           /\ disconnects' = [c \in Sockets |->
                                disconnects[c] \cup IF c \in (hit \cap socketUp) \cup race
                                                    THEN {"posted"} ELSE {}]
           /\ raced' = raced \cup race
  /\ UNCHANGED <<places, accounts, phase, sessionId, logins, mainQueue, crashes, serverUp>>

-----------------------------------------------------------------------------
(***************************************************************************)
(* The threads of the sessions.                                            *)
(***************************************************************************)
\* The peer or a handler closes the connection; the thread notices it
\* between two handlers and its signal calls disconnectSocket directly.
SocketDisconnects(c) ==
  /\ serverUp
  /\ c \in socketUp
  /\ auth[c] = NoAuth
  /\ socketUp' = socketUp \ {c}
  /\ disconnects' = [disconnects EXCEPT ![c] = @ \cup {"own"}]
  /\ UNCHANGED <<places, accounts, phase, sessionId, logins, mainQueue, histories,
                 serverUp>>

Post(e) == mainQueue' = Append(mainQueue, e)

\* Mutant: the session is deleted without a word to the manager.
DisconnectSilently(c) ==
  /\ serverUp
  /\ phase[c] \in {"alive", "deleting"}
  /\ auth[c] = NoAuth
  /\ \E call \in disconnects[c] :
       disconnects' = [disconnects EXCEPT ![c] = @ \ {call}]
  /\ phase' = [phase EXCEPT ![c] = "deleting"]
  /\ UNCHANGED <<places, accounts, sessionId, socketUp, logins, mainQueue, histories,
                 serverUp>>

disconnectSocket(c) ==
  /\ serverUp
  /\ phase[c] \in {"alive", "deleting"}
  /\ auth[c] = NoAuth
  /\ \E call \in disconnects[c] :
       disconnects' = [disconnects EXCEPT ![c] = @ \ {call}]
  /\ Post([event |-> "release", id |-> sessionId[c]])
  /\ phase' = [phase EXCEPT ![c] = "deleting"]
  /\ UNCHANGED <<places, accounts, sessionId, socketUp, logins, histories, serverUp>>

\* The session is deleted, and with it the creator; calls that were posted
\* to the session later are dropped.
DeleteSession(c) ==
  /\ serverUp
  /\ phase[c] = "deleting"
  /\ phase' = [phase EXCEPT ![c] = "quitting"]
  /\ holder' = [holder EXCEPT ![c] = {}]
  /\ disconnects' = [disconnects EXCEPT ![c] = {}]
  /\ Post([event |-> "quit", of |-> c])
  /\ UNCHANGED <<places, accounts, sessionId, socketUp, auth, histories, serverUp>>

FinishThread(c) ==
  /\ serverUp
  /\ phase[c] = "finished"
  /\ phase' = [phase EXCEPT ![c] = "ended"]
  /\ Post([event |-> "delete", of |-> c])
  /\ UNCHANGED <<places, accounts, sessionId, socketUp, disconnects, logins, histories,
                 serverUp>>

-----------------------------------------------------------------------------
(***************************************************************************)
(* tryRegister and tryAuth, in the thread of the session: the mutex, the   *)
(* check, for a registration the account and its file, then the user.      *)
(***************************************************************************)
At(c, at) == serverUp /\ auth[c].at = at

Goes(c, at) == auth' = [auth EXCEPT ![c].at = at]

OnlyAuth == UNCHANGED <<places, threads, mainQueue, kills, crashes, raced>>

\* The handler of a login or a registration: the session has no user yet.
StartAuth(c) ==
  /\ At(c, "none")
  /\ phase[c] = "alive" /\ c \in socketUp
  /\ holder[c] = {}
  /\ \E l \in Logins, p \in Passwords, new \in BOOLEAN :
       auth' = [auth EXCEPT ![c] = [at |-> "lock", login |-> l, password |-> p, new |-> new]]
  /\ OnlyAuth
  /\ UNCHANGED <<accounts, holder, serverUp>>

\* Mutant: nobody waits for the mutex.
LockAuthNotAtAll(c) ==
  /\ At(c, "lock")
  /\ Goes(c, "check")
  /\ OnlyAuth
  /\ UNCHANGED <<mUsersCredentials, credentialsFile, mUsers, mMutexOnAuth, holder, serverUp>>

LockAuth(c) ==
  /\ At(c, "lock")
  /\ mMutexOnAuth = {}
  /\ mMutexOnAuth' = {c}
  /\ Goes(c, "check")
  /\ OnlyAuth
  /\ UNCHANGED <<mUsersCredentials, credentialsFile, mUsers, holder, serverUp>>

isUserRegister(login) == \E a \in Range(mUsersCredentials) : a.login = login

checkUserCredentials(login, password) ==
  [login |-> login, password |-> password] \in Range(mUsersCredentials)

\* NULL is returned where the check fails.
CheckAccount(c) ==
  /\ At(c, "check")
  /\ LET a == auth[c]
         ok == IF a.new THEN ~isUserRegister(a.login)
               ELSE checkUserCredentials(a.login, a.password)
     IN  IF ok
         THEN Goes(c, IF a.new THEN "register" ELSE "user") /\ UNCHANGED mMutexOnAuth
         ELSE auth' = [auth EXCEPT ![c] = NoAuth] /\ mMutexOnAuth' = {}
  /\ OnlyAuth
  /\ UNCHANGED <<mUsersCredentials, credentialsFile, mUsers, holder, serverUp>>

\* The account is added and its file opened, which empties it.  The accounts
\* are written into the stream's buffer; how much of it is on the disk before
\* the stream is closed is open (see Restart).
AddAccount(c) ==
  /\ At(c, "register")
  /\ mUsersCredentials' = Append(mUsersCredentials, [login    |-> auth[c].login,
                                                    password |-> auth[c].password])
  /\ credentialsFile' = <<>>
  /\ Goes(c, "user")
  /\ OnlyAuth
  /\ UNCHANGED <<mUsers, mMutexOnAuth, holder, serverUp>>

\* On return tryRegister closes the stream, and then unlocks the mutex.
CloseAccounts(c) ==
  credentialsFile' = IF auth[c].new THEN mUsersCredentials ELSE credentialsFile

\* Mutant: the login is not written into the session's place.
EnterUserOnly(c) ==
  /\ At(c, "user")
  /\ LET l == auth[c].login
     IN  /\ mUsers' = [k \in DOMAIN mUsers \cup {l} |->
                         (IF k \in DOMAIN mUsers THEN mUsers[k] ELSE 0)
                           + (IF k = l THEN 1 ELSE 0)]
         /\ holder' = [holder EXCEPT ![c] = {l}]
  /\ CloseAccounts(c)
  /\ auth' = [auth EXCEPT ![c] = NoAuth]
  /\ mMutexOnAuth' = {}
  /\ UNCHANGED <<places, mUsersCredentials, threads, mainQueue, kills,
                 crashes, raced, serverUp>>

\* emplace adds a user who is not in the map; the login is written into the
\* session's place, through a null auto_ptr if the place is free.
EnterUser(c) ==
  /\ At(c, "user")
  /\ LET l == auth[c].login
         i == sessionId[c] + 1
     IN  IF mSessions[i] = Free
         THEN serverUp' = FALSE /\ UNCHANGED <<mSessions, accounts, logins>>
         ELSE /\ mUsers' = [k \in DOMAIN mUsers \cup {l} |->
                              (IF k \in DOMAIN mUsers THEN mUsers[k] ELSE 0)
                                + (IF k = l THEN 1 ELSE 0)]
              /\ mSessions' = [mSessions EXCEPT ![i].login = {l}]
              /\ holder' = [holder EXCEPT ![c] = {l}]
              /\ CloseAccounts(c)
              /\ auth' = [auth EXCEPT ![c] = NoAuth]
              /\ mMutexOnAuth' = {}
              /\ UNCHANGED <<mUsersCredentials, serverUp>>
  /\ UNCHANGED <<mFreeSessionIdQueue, threads, mainQueue, kills, crashes, raced>>

-----------------------------------------------------------------------------
(***************************************************************************)
(* The process ends: it is killed, the operator types "exit", or the main  *)
(* thread and a session's are in mSessions or mUsers at the same time,     *)
(* which only the sessions lock.                                           *)
(***************************************************************************)
Crash ==
  /\ serverUp
  /\ crashes < MaxCrashes
  /\ crashes' = crashes + 1
  /\ serverUp' = FALSE
  /\ UNCHANGED <<places, accounts, threads, logins, mainQueue, kills, raced>>

\* What is left of a password, or none: no user types it.
CutPassword == "cut"

\* The entry at which a file ends: cut within its password, or within its
\* login so that another user's is left.  Every other beginning of a login is
\* as good as no entry: nobody asks for it.
LastEntry(entry) ==
  {entry} \cup [login : {entry.login} \cup Beginnings[entry.login], password : {CutPassword}]

\* What is parsed of a file that was cut short: ParseFromIstream keeps what it
\* read before it failed, and its failure is only logged.
CutShort(entries) ==
  {<<>>} \cup UNION {{[SubSeq(entries, 1, n) EXCEPT ![n] = last] :
                        last \in LastEntry(entries[n])} : n \in 1..Len(entries)}

\* tryRegister has opened the file and not closed it.
AccountsOpen == \E c \in Sockets : auth[c].at = "user" /\ auth[c].new

\* The server is started again and reads the accounts.
Restart ==
  /\ ~serverUp
  /\ serverUp' = TRUE
  /\ credentialsFile' \in IF AccountsOpen THEN CutShort(mUsersCredentials)
                                         ELSE {credentialsFile}
  /\ mUsersCredentials' = credentialsFile'
  /\ mUsers' = [l \in {} |-> 0] /\ mMutexOnAuth' = {}
  /\ mSessions' = <<>> /\ mFreeSessionIdQueue' = <<>> /\ mainQueue' = <<>>
  /\ phase' = [c \in Sockets |-> IF phase[c] = "none" THEN "none" ELSE "deleted"]
  /\ socketUp' = {}
  /\ disconnects' = [c \in Sockets |-> {}]
  /\ auth' = [c \in Sockets |-> NoAuth]
  /\ holder' = [c \in Sockets |-> {}]
  /\ UNCHANGED <<sessionId, histories>>

MainThread == releaseClientPlace \/ quitThread \/ deleteThread

SessionThread(c) ==
  \/ LockAuth(c)
  \/ CheckAccount(c)
  \/ AddAccount(c)
  \/ EnterUser(c)
  \/ disconnectSocket(c)
  \/ DeleteSession(c)
  \/ FinishThread(c)

Next ==
  \/ MainThread
  \/ \E c \in Sockets :
       onNewConnection(c) \/ SocketDisconnects(c) \/ StartAuth(c) \/ SessionThread(c)
  \/ \E l \in Logins : killAllSessionByLogin(l)
  \/ Crash
  \/ Restart

Spec == Init /\ [][Next]_vars

\* The event loops run, and QMutex passes over no thread for ever.
FairSpec ==
  /\ Spec
  /\ WF_vars(MainThread)
  /\ \A c \in Sockets : WF_vars(SessionThread(c)) /\ SF_vars(LockAuth(c))

-----------------------------------------------------------------------------
TypeOK ==
  /\ mSessions \in Seq([socket : SUBSET Sockets, login : SUBSET Logins])
  /\ mFreeSessionIdQueue \in Seq(Nat)
  /\ {mUsersCredentials, credentialsFile} \subseteq
       Seq([login : Logins, password : Passwords \cup {CutPassword}])
  /\ mUsers \in [DOMAIN mUsers -> Nat] /\ DOMAIN mUsers \subseteq Logins
  /\ mMutexOnAuth \subseteq Sockets
  /\ phase \in [Sockets -> Phases]
  /\ sessionId \in [Sockets -> Nat]
  /\ disconnects \in [Sockets -> SUBSET {"own", "posted"}]
  /\ socketUp \subseteq Sockets /\ raced \subseteq Sockets
  /\ holder \in [Sockets -> SUBSET Logins]
  /\ kills \in 0..MaxKills /\ crashes \in 0..MaxCrashes

(***************************************************************************)
(* Each session has a place of its own until it is released, and the queue *)
(* holds every free place once - as long as no kill met a disconnect.      *)
(***************************************************************************)
IsReleasing(id) == \E i \in 1..Len(mainQueue) : mainQueue[i] = [event |-> "release", id |-> id]

PlacesAreOwn ==
  raced = {} /\ serverUp =>
    /\ \A c \in Sockets :
         phase[c] = "alive" => /\ mSessions[sessionId[c] + 1].socket = {c}
                               /\ ~IsReleasing(sessionId[c])
    /\ \A i \in 1..Len(mSessions) :
         Cardinality({k \in 1..Len(mFreeSessionIdQueue) : mFreeSessionIdQueue[k] = i - 1})
           = IF mSessions[i] = Free THEN 1 ELSE 0

(***************************************************************************)
(* The operator's list and "kill" find a session under the user it serves. *)
(***************************************************************************)
PlaceCarriesLogin ==
  raced = {} /\ serverUp =>
    \A c \in Sockets :
      phase[c] = "alive" => mSessions[sessionId[c] + 1].login = holder[c]

(***************************************************************************)
(* The UserDataHolder a session points to is in the map as long as the     *)
(* session lives, whatever the other sessions of the user do.              *)
(***************************************************************************)
HolderStays ==
  serverUp =>
    \A l \in Logins :
      LET users == {c \in Sockets : holder[c] = {l}}
      IN  users # {} => l \in DOMAIN mUsers /\ mUsers[l] >= Cardinality(users)

(***************************************************************************)
(* Of two registrations of a login at the same time one is refused, and a  *)
(* user who is registered anew has no holder whose lock would be replaced. *)
(* A login has a second account only by a crash while the file of the      *)
(* accounts was open, which cut a longer login down to it, and no user's   *)
(* password is that account's.                                             *)
(***************************************************************************)
OneAccountPerLogin ==
  /\ \A i, j \in 1..Len(mUsersCredentials) :
       mUsersCredentials[i].login = mUsersCredentials[j].login /\ i # j
         => CutPassword \in {mUsersCredentials[i].password, mUsersCredentials[j].password}
  /\ \A c \in Sockets : auth[c].at = "user" /\ auth[c].new
                         => auth[c].login \notin DOMAIN mUsers

(***************************************************************************)
(* A session that ended gives back its place and its thread is deleted,    *)
(* also when it was in the middle of a login, as long as the server runs.  *)
(***************************************************************************)
HasPlace(c) == \E i \in 1..Len(mSessions) : mSessions[i].socket = {c}

EndedSessionsAreCleared ==
  \A c \in Sockets :
    disconnects[c] # {} ~> (phase[c] = "deleted" /\ ~HasPlace(c)) \/ ~serverUp
=============================================================================
