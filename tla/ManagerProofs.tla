---------------------------- MODULE ManagerProofs ----------------------------
(***************************************************************************)
(* Proofs of the safety properties of ServerClientManager, for every       *)
(* number of connections, users, kills and crashes.                        *)
(***************************************************************************)
EXTENDS ServerClientManager, FiniteSetTheorems, SequenceTheorems, TLAPS

\* A login or registration under way, and where it holds mMutexOnAuth.
Authenticating == {"lock", "check", "register", "user"}
Holding == {"check", "register", "user"}

Authentication == [at : Authenticating, login : Logins, password : Passwords, new : BOOLEAN]

Event == [event : {"release"}, id : Nat] \cup [event : {"quit", "delete"}, of : Sockets]

Account == [login : Logins, password : Passwords \cup {CutPassword}]

Typed ==
  /\ TypeOK
  /\ auth \in [Sockets -> {NoAuth} \cup Authentication]
  /\ mainQueue \in Seq(Event)

(***************************************************************************)
(* The accounts.  A login that is being registered is nobody's yet, the    *)
(* users in the map all have an account, and the file is the list unless   *)
(* a registration has it open.                                             *)
(***************************************************************************)
IsCut(account) == account.password = CutPassword

DistinctLogins(accountList) ==
  \A i, j \in 1..Len(accountList) :
    accountList[i].login = accountList[j].login
      => i = j \/ IsCut(accountList[i]) \/ IsCut(accountList[j])

MutexHeld == \A c \in Sockets : auth[c].at \in Holding => mMutexOnAuth = {c}

UsersRegistered == \A l \in DOMAIN mUsers : isUserRegister(l)

Checked ==
  \A c \in Sockets :
    /\ auth[c].at = "register" => auth[c].new /\ ~isUserRegister(auth[c].login)
    /\ auth[c].at = "user" => isUserRegister(auth[c].login)
    /\ auth[c].at = "user" /\ auth[c].new => auth[c].login \notin DOMAIN mUsers

FileWritten == AccountsOpen \/ credentialsFile = mUsersCredentials

AccountsInv ==
  /\ MutexHeld
  /\ DistinctLogins(mUsersCredentials)
  /\ UsersRegistered
  /\ Checked
  /\ FileWritten

(***************************************************************************)
(* The threads.  A session that logs in is alive and has no holder yet, a  *)
(* session that has one is not deleted, and the threads whose end the main *)
(* thread was told of have no session any more.                            *)
(***************************************************************************)
Gone == {"quitting", "finished", "ended", "deleted"}

LoginsAlive == \A c \in Sockets : auth[c] # NoAuth => phase[c] = "alive" /\ holder[c] = {}

HoldersAlive == \A c \in Sockets : holder[c] # {} => phase[c] \in {"alive", "deleting"}

EndsOfGone ==
  \A i \in 1..Len(mainQueue) :
    mainQueue[i].event # "release" => phase[mainQueue[i].of] \in Gone

ThreadsInv == LoginsAlive /\ HoldersAlive /\ EndsOfGone

(***************************************************************************)
(* The holders.  Only finitely many sessions have one at a time, whatever  *)
(* number of connections is made.                                          *)
(***************************************************************************)
Holders == {c \in Sockets : holder[c] # {}}

UsersOf(l) == {c \in Sockets : holder[c] = {l}}

HoldersInv == IsFiniteSet(Holders) /\ HolderStays

(***************************************************************************)
(* The places, as long as no kill met a disconnect: a place is free and    *)
(* queued once, or has an owner that is alive, or its release is posted.   *)
(***************************************************************************)
OneDisconnect ==
  \A c \in Sockets :
    /\ c \in socketUp => phase[c] = "alive" /\ disconnects[c] = {}
    /\ phase[c] # "alive" => disconnects[c] = {}
    /\ disconnects[c] # {"own", "posted"}

OwnPlaces ==
  \A c \in Sockets :
    phase[c] = "alive" => /\ sessionId[c] < Len(mSessions)
                          /\ mSessions[sessionId[c] + 1] = [socket |-> {c}, login |-> holder[c]]
                          /\ ~IsReleasing(sessionId[c])

ReleasedOnce ==
  /\ \A i \in 1..Len(mainQueue) :
       mainQueue[i].event = "release" => /\ mainQueue[i].id < Len(mSessions)
                                         /\ mSessions[mainQueue[i].id + 1] # Free
  /\ \A i, j \in 1..Len(mainQueue) :
       /\ mainQueue[i].event = "release" /\ mainQueue[j].event = "release"
       /\ mainQueue[i].id = mainQueue[j].id
       => i = j

FreePlaces ==
  /\ \A k \in 1..Len(mFreeSessionIdQueue) :
       /\ mFreeSessionIdQueue[k] < Len(mSessions)
       /\ mSessions[mFreeSessionIdQueue[k] + 1] = Free
  /\ \A j, k \in 1..Len(mFreeSessionIdQueue) :
       mFreeSessionIdQueue[j] = mFreeSessionIdQueue[k] => j = k
  /\ \A i \in 1..Len(mSessions) :
       mSessions[i] = Free => \E k \in 1..Len(mFreeSessionIdQueue) :
                                mFreeSessionIdQueue[k] = i - 1

InPlace == OneDisconnect /\ OwnPlaces /\ ReleasedOnce /\ FreePlaces

PlacesInv == raced = {} /\ serverUp => InPlace

ManagerInv == Typed /\ AccountsInv /\ ThreadsInv /\ HoldersInv /\ PlacesInv

-----------------------------------------------------------------------------
(***************************************************************************)
(* Facts about the parts of the state.                                     *)
(***************************************************************************)
Place == [socket : SUBSET Sockets, login : SUBSET Logins]

\* Writing a place, also one that does not exist, changes no other.
LEMMA PlaceWritten ==
  ASSUME NEW s \in Seq(Place), NEW i \in Nat, NEW e \in Place
  PROVE  /\ [s EXCEPT ![i] = e] \in Seq(Place)
         /\ Len([s EXCEPT ![i] = e]) = Len(s)
         /\ \A j \in 1..Len(s) : [s EXCEPT ![i] = e][j] = IF j = i THEN e ELSE s[j]
<1>1. CASE i \in 1..Len(s)
  BY <1>1, ExceptSeq
<1>2. CASE i \notin 1..Len(s)
  <2>1. s \in [1..Len(s) -> Place]
    BY LenProperties
  <2>2. [s EXCEPT ![i] = e] = s
    BY <1>2, <2>1
  <2> QED  BY <1>2, <2>2
<1> QED  BY <1>1, <1>2

\* Writing the login into a place.
LEMMA LoginWritten ==
  ASSUME NEW s \in Seq(Place), NEW i \in Nat, NEW l \in Logins
  PROVE  /\ [s EXCEPT ![i].login = {l}] \in Seq(Place)
         /\ Len([s EXCEPT ![i].login = {l}]) = Len(s)
         /\ \A j \in 1..Len(s) : [s EXCEPT ![i].login = {l}][j] =
                IF j = i THEN [s[i] EXCEPT !.login = {l}] ELSE s[j]
<1>1. CASE i \in 1..Len(s)
  <2>1. s[i] \in Place
    BY <1>1, ElementOfSeq
  <2>2. [s[i] EXCEPT !.login = {l}] \in Place
    BY <2>1 DEF Place
  <2>3. [s EXCEPT ![i].login = {l}] = [s EXCEPT ![i] = [s[i] EXCEPT !.login = {l}]]
    OBVIOUS
  <2> QED  BY <1>1, <2>2, <2>3, ExceptSeq
<1>2. CASE i \notin 1..Len(s)
  <2>1. s \in [1..Len(s) -> Place]
    BY LenProperties
  <2>2. [s EXCEPT ![i].login = {l}] = s
    BY <1>2, <2>1
  <2> QED  BY <1>2, <2>2
<1> QED  BY <1>1, <1>2

\* The elements of a list have its type,
LEMMA ListTypes ==
  ASSUME NEW S, NEW s \in Seq(S)
  PROVE  \A x \in Range(s) : x \in S
<1>1. DOMAIN s = 1..Len(s)
  BY LenProperties
<1>2. \A i \in 1..Len(s) : s[i] \in S
  BY ElementOfSeq
<1> QED  BY <1>1, <1>2 DEF Range

\* and each stands at a place of the list.
LEMMA InRange ==
  ASSUME NEW S, NEW s \in Seq(S)
  PROVE  \A x : x \in Range(s) <=> \E i \in 1..Len(s) : x = s[i]
<1>1. DOMAIN s = 1..Len(s)
  BY LenProperties
<1> QED  BY <1>1 DEF Range

\* A login or registration goes on with its next step.
LEMMA GoesFacts ==
  ASSUME Typed, NEW c \in Sockets, NEW at \in Authenticating, auth[c] # NoAuth, Goes(c, at)
  PROVE  /\ auth' \in [Sockets -> {NoAuth} \cup Authentication]
         /\ auth[c] \in Authentication /\ auth'[c] \in Authentication
         /\ auth'[c].at = at /\ auth'[c].login = auth[c].login /\ auth'[c].new = auth[c].new
         /\ \A d \in Sockets : d # c => auth'[d] = auth[d]
<1>1. auth[c] \in Authentication /\ auth \in [Sockets -> {NoAuth} \cup Authentication]
  BY DEF Typed
<1>2. auth' = [auth EXCEPT ![c] = [auth[c] EXCEPT !.at = at]]
  BY DEF Goes
<1>3. PICK a : a = [auth[c] EXCEPT !.at = at]
  OBVIOUS
<1>4. /\ a \in Authentication
      /\ a.at = at /\ a.login = auth[c].login /\ a.new = auth[c].new
  BY <1>1, <1>3 DEF Authentication
<1>5. auth' = [auth EXCEPT ![c] = a]
  BY <1>2, <1>3
<1> QED  BY <1>1, <1>4, <1>5

\* What a read of the main thread's queue leaves.
LEMMA EventFacts ==
  ASSUME Typed, NEW name, NextEvent(name)
  PROVE  /\ mainQueue' \in Seq(Event) /\ Head(mainQueue) = mainQueue[1]
         /\ 1 \in 1..Len(mainQueue) /\ Head(mainQueue) \in Event
         /\ Len(mainQueue') = Len(mainQueue) - 1 /\ Len(mainQueue) \in Nat
         /\ \A i \in 1..Len(mainQueue') : mainQueue'[i] = mainQueue[i + 1]
                                          /\ i + 1 \in 1..Len(mainQueue)
         /\ mainQueue[1].event = name /\ serverUp
         /\ name = "release" => Head(mainQueue).id \in Nat
         /\ name \in {"quit", "delete"} => Head(mainQueue).of \in Sockets
<1>1. mainQueue \in Seq(Event) /\ mainQueue # <<>> /\ mainQueue' = Tail(mainQueue)
  BY DEF Typed, NextEvent
<1>2. Len(mainQueue) \in Nat /\ Len(mainQueue) > 0
  BY <1>1, EmptySeq
<1>3. /\ Head(mainQueue) = mainQueue[1] /\ Head(mainQueue) \in Event
      /\ mainQueue' \in Seq(Event) /\ Len(mainQueue') = Len(mainQueue) - 1
      /\ \A i \in 1..Len(mainQueue') : mainQueue'[i] = mainQueue[i + 1]
  BY <1>1, HeadTailProperties
<1>4. Head(mainQueue).event = name /\ serverUp
  BY DEF NextEvent
<1>5. /\ name = "release" => Head(mainQueue).id \in Nat
      /\ name \in {"quit", "delete"} => Head(mainQueue).of \in Sockets
  BY <1>3, <1>4 DEF Event
<1> QED  BY <1>2, <1>3, <1>4, <1>5

\* What a post to the main thread adds.
LEMMA PostFacts ==
  ASSUME Typed, NEW e \in Event, Post(e)
  PROVE  /\ mainQueue' \in Seq(Event) /\ Len(mainQueue) \in Nat
         /\ Len(mainQueue') = Len(mainQueue) + 1 /\ mainQueue'[Len(mainQueue) + 1] = e
         /\ \A i \in 1..Len(mainQueue) : mainQueue'[i] = mainQueue[i]
BY AppendProperties, LenProperties DEF Typed, Post

\* The last of the accounts that are parsed keeps its login or is cut.
LEMMA LastEntryFacts ==
  ASSUME NEW entry \in Account, NEW last \in LastEntry(entry)
  PROVE  last \in Account /\ (last = entry \/ IsCut(last))
<1>1. CASE last = entry
  BY <1>1
<1>2. CASE last \in [login    : {entry.login} \cup Beginnings[entry.login],
                     password : {CutPassword}]
  <2>1. entry.login \in Logins /\ Beginnings[entry.login] \subseteq Logins
    BY BeginningsAssumption DEF Account
  <2> QED  BY <1>2, <2>1 DEF Account, IsCut
<1> QED  BY <1>1, <1>2 DEF LastEntry

\* What is parsed of a file that was cut short.
LEMMA CutShortFacts ==
  ASSUME NEW s \in Seq(Account), NEW e \in CutShort(s), DistinctLogins(s)
  PROVE  e \in Seq(Account) /\ DistinctLogins(e)
<1>1. CASE e = <<>>
  BY <1>1, EmptySeq DEF DistinctLogins
<1>2. ASSUME NEW n \in 1..Len(s), NEW last \in LastEntry(s[n]),
             e = [SubSeq(s, 1, n) EXCEPT ![n] = last]
      PROVE  e \in Seq(Account) /\ DistinctLogins(e)
  <2>1. Len(s) \in Nat /\ n \in Nat /\ n <= Len(s) /\ \A i \in 1..n : s[i] \in Account
    BY LenProperties, ElementOfSeq
  <2>2. PICK p : p = SubSeq(s, 1, n)
    OBVIOUS
  <2>3. p \in Seq(Account) /\ Len(p) = n /\ \A i \in 1..n : p[i] = s[i]
    BY <2>1, <2>2, SubSeqProperties
  <2>4. n \in 1..n /\ s[n] \in Account
    BY <2>1
  <2>5. last \in Account /\ (last = s[n] \/ IsCut(last))
    BY <1>2, <2>4, LastEntryFacts
  <2>6. /\ e \in Seq(Account) /\ Len(e) = n
        /\ \A i \in 1..n : e[i] = IF i = n THEN last ELSE p[i]
    <3>1. e = [p EXCEPT ![n] = last] /\ n \in 1..Len(p)
      BY <1>2, <2>2, <2>3, <2>4
    <3>2. /\ e \in Seq(Account) /\ Len(e) = Len(p)
          /\ \A i \in 1..Len(p) : e[i] = IF i = n THEN last ELSE p[i]
      BY <2>3, <2>5, <3>1, ExceptSeq
    <3> QED  BY <2>3, <3>2
  <2>7. \A i \in 1..n : e[i] = s[i] \/ IsCut(e[i])
    BY <2>3, <2>5, <2>6
  <2>8. \A i \in 1..n : i \in 1..Len(s)
    BY <2>1
  <2>9. DistinctLogins(e)
    BY <2>6, <2>7, <2>8 DEF DistinctLogins
  <2> QED  BY <2>6, <2>9
<1> QED  BY <1>1, <1>2 DEF CutShort

-----------------------------------------------------------------------------
(***************************************************************************)
(* Types.                                                                  *)
(***************************************************************************)

\* Every session is at a login or at none.
LEMMA TypedFacts ==
  ASSUME Typed
  PROVE  /\ mSessions \in Seq(Place) /\ Len(mSessions) \in Nat
         /\ mFreeSessionIdQueue \in Seq(Nat) /\ Len(mFreeSessionIdQueue) \in Nat
         /\ mUsersCredentials \in Seq(Account) /\ credentialsFile \in Seq(Account)
         /\ Len(mUsersCredentials) \in Nat
         /\ mainQueue \in Seq(Event) /\ Len(mainQueue) \in Nat
         /\ auth \in [Sockets -> {NoAuth} \cup Authentication]
         /\ phase \in [Sockets -> Phases] /\ sessionId \in [Sockets -> Nat]
         /\ holder \in [Sockets -> SUBSET Logins]
         /\ disconnects \in [Sockets -> SUBSET {"own", "posted"}]
         /\ mUsers \in [DOMAIN mUsers -> Nat] /\ DOMAIN mUsers \subseteq Logins
<1>1. /\ mSessions \in Seq(Place) /\ mFreeSessionIdQueue \in Seq(Nat)
      /\ mUsersCredentials \in Seq(Account) /\ credentialsFile \in Seq(Account)
      /\ mainQueue \in Seq(Event)
  BY DEF Typed, TypeOK, Place, Account
<1>2. /\ Len(mSessions) \in Nat /\ Len(mFreeSessionIdQueue) \in Nat
      /\ Len(mUsersCredentials) \in Nat /\ Len(mainQueue) \in Nat
  BY <1>1, LenProperties
<1> QED  BY <1>1, <1>2 DEF Typed, TypeOK

\* What makes the state typed again.
LEMMA TypedFrom ==
  ASSUME mSessions' \in Seq(Place), mFreeSessionIdQueue' \in Seq(Nat),
         mUsersCredentials' \in Seq(Account), credentialsFile' \in Seq(Account),
         mainQueue' \in Seq(Event), auth' \in [Sockets -> {NoAuth} \cup Authentication],
         phase' \in [Sockets -> Phases], sessionId' \in [Sockets -> Nat],
         holder' \in [Sockets -> SUBSET Logins],
         disconnects' \in [Sockets -> SUBSET {"own", "posted"}],
         mUsers' \in [DOMAIN mUsers' -> Nat], DOMAIN mUsers' \subseteq Logins,
         mMutexOnAuth' \subseteq Sockets, socketUp' \subseteq Sockets, raced' \subseteq Sockets,
         kills' \in 0..MaxKills, crashes' \in 0..MaxCrashes
  PROVE  Typed'
BY DEF Typed, TypeOK, Place, Account

\* The other variables of a typed state.
LEMMA TypedRest ==
  ASSUME Typed
  PROVE  /\ mMutexOnAuth \subseteq Sockets /\ socketUp \subseteq Sockets /\ raced \subseteq Sockets
         /\ kills \in 0..MaxKills /\ crashes \in 0..MaxCrashes
BY DEF Typed, TypeOK

\* Every step of the main thread keeps the types.
LEMMA MainThreadTypes ==
  ASSUME Typed,
         \/ \E c \in Sockets : onNewConnection(c)
         \/ releaseClientPlace \/ quitThread \/ deleteThread
         \/ \E l \in Logins : killAllSessionByLogin(l)
  PROVE  Typed'
<1> USE TypedFacts, TypedRest
<1>1. ASSUME NEW c \in Sockets, onNewConnection(c) PROVE Typed'
  <2>1. [socket |-> {c}, login |-> {}] \in Place
    BY DEF Place
  <2>2. mSessions' \in Seq(Place) /\ mFreeSessionIdQueue' \in Seq(Nat)
        /\ sessionId' \in [Sockets -> Nat]
    <3>1. CASE mFreeSessionIdQueue = <<>>
      <4>1. /\ mSessions' = Append(mSessions, [socket |-> {c}, login |-> {}])
            /\ sessionId' = [sessionId EXCEPT ![c] = Len(mSessions)]
            /\ UNCHANGED mFreeSessionIdQueue
        BY <1>1, <3>1 DEF onNewConnection
      <4>2. mSessions' \in Seq(Place)
        BY <2>1, <4>1, AppendProperties
      <4> QED  BY <4>1, <4>2
    <3>2. CASE mFreeSessionIdQueue # <<>>
      <4>1. Head(mFreeSessionIdQueue) \in Nat /\ Tail(mFreeSessionIdQueue) \in Seq(Nat)
        BY <3>2, HeadTailProperties
      <4>2. PICK id \in Nat : id = Head(mFreeSessionIdQueue)
        BY <4>1
      <4>3. /\ mSessions' = [mSessions EXCEPT ![id + 1] = [socket |-> {c}, login |-> {}]]
            /\ sessionId' = [sessionId EXCEPT ![c] = id]
            /\ mFreeSessionIdQueue' = Tail(mFreeSessionIdQueue)
        BY <1>1, <3>2, <4>2 DEF onNewConnection
      <4>4. mSessions' \in Seq(Place)
        <5>1. id + 1 \in Nat
          OBVIOUS
        <5> QED  BY <2>1, <4>3, <5>1, PlaceWritten
      <4> QED  BY <4>1, <4>3, <4>4
    <3> QED  BY <3>1, <3>2
  <2>3. phase' \in [Sockets -> Phases] /\ socketUp' \subseteq Sockets
    BY <1>1 DEF onNewConnection, Phases
  <2> QED
    BY <1>1, <2>2, <2>3, TypedFrom DEF onNewConnection, accounts, logins, histories
<1>2. CASE releaseClientPlace
  <2>1. mainQueue' \in Seq(Event) /\ Head(mainQueue).id \in Nat
    BY <1>2, EventFacts DEF releaseClientPlace
  <2>2. Free \in Place
    BY DEF Free, Place
  <2>3. mSessions' \in Seq(Place) /\ mFreeSessionIdQueue' \in Seq(Nat)
    <3>1. PICK id \in Nat : id = Head(mainQueue).id
      BY <2>1
    <3>2. CASE UNCHANGED places
      BY <3>2 DEF places
    <3>3. CASE /\ mSessions' = [mSessions EXCEPT ![id + 1] = Free]
               /\ mFreeSessionIdQueue' = Append(mFreeSessionIdQueue, id)
      <4>1. id + 1 \in Nat
        OBVIOUS
      <4> QED  BY <2>2, <3>3, <4>1, PlaceWritten, AppendProperties
    <3> QED  BY <1>2, <3>1, <3>2, <3>3 DEF releaseClientPlace
  <2>4. mUsers' \in [DOMAIN mUsers' -> Nat] /\ DOMAIN mUsers' \subseteq Logins
    BY <1>2 DEF releaseClientPlace
  <2> QED
    BY <1>2, <2>1, <2>3, <2>4, TypedFrom DEF releaseClientPlace, threads, logins, histories
<1>3. CASE quitThread
  <2>1. mainQueue' \in Seq(Event)
    BY <1>3, EventFacts DEF quitThread
  <2>2. phase' \in [Sockets -> Phases]
    BY <1>3 DEF quitThread, Phases
  <2> QED
    BY <1>3, <2>1, <2>2, TypedFrom DEF quitThread, places, accounts, logins, histories
<1>4. CASE deleteThread
  <2>1. mainQueue' \in Seq(Event)
    BY <1>4, EventFacts DEF deleteThread
  <2>2. phase' \in [Sockets -> Phases]
    BY <1>4 DEF deleteThread, Phases
  <2> QED
    BY <1>4, <2>1, <2>2, TypedFrom DEF deleteThread, places, accounts, logins, histories
<1>5. ASSUME NEW l \in Logins, killAllSessionByLogin(l) PROVE Typed'
  <2>1. disconnects' \in [Sockets -> SUBSET {"own", "posted"}]
    BY <1>5 DEF killAllSessionByLogin
  <2>2. /\ raced' \subseteq Sockets /\ socketUp' \subseteq Sockets
        /\ kills' \in 0..MaxKills /\ crashes' \in 0..MaxCrashes
    <3>1. UNION {s.socket : s \in {s \in Range(mSessions) : s.login = {l}}} \subseteq Sockets
      <4>1. \A s \in Range(mSessions) : s \in Place
        BY ListTypes
      <4> QED  BY <4>1 DEF Place
    <3>2. PICK hit : hit = UNION {s.socket : s \in {s \in Range(mSessions) : s.login = {l}}}
      OBVIOUS
    <3>3. PICK race \in SUBSET {c \in hit : "own" \in disconnects[c]} :
            socketUp' = socketUp \ hit /\ raced' = raced \cup race
      BY <1>5, <3>2 DEF killAllSessionByLogin
    <3>4. kills' \in 0..MaxKills /\ crashes' = crashes
      BY <1>5, BoundsAssumption DEF killAllSessionByLogin
    <3> QED  BY <3>1, <3>2, <3>3, <3>4
  <2> QED
    BY <1>5, <2>1, <2>2, TypedFrom DEF killAllSessionByLogin, places, accounts, logins
<1> QED  BY <1>1, <1>2, <1>3, <1>4, <1>5

\* Every step of a session's thread, and of the process, keeps the types.
LEMMA SessionThreadTypes ==
  ASSUME Typed, NEW c \in Sockets, SocketDisconnects(c) \/ StartAuth(c) \/ SessionThread(c)
  PROVE  Typed'
<1> USE TypedFacts, TypedRest
<1>1. CASE SocketDisconnects(c)
  <2>1. disconnects' \in [Sockets -> SUBSET {"own", "posted"}]
    BY <1>1 DEF SocketDisconnects
  <2>2. socketUp' \subseteq Sockets
    BY <1>1 DEF SocketDisconnects
  <2> QED
    BY <1>1, <2>1, <2>2, TypedFrom DEF SocketDisconnects, places, accounts, logins, histories
<1>2. CASE StartAuth(c)
  <2>1. auth' \in [Sockets -> {NoAuth} \cup Authentication]
    BY <1>2 DEF StartAuth, Authentication, Authenticating
  <2> QED
    BY <1>2, <2>1, TypedFrom DEF StartAuth, OnlyAuth, places, threads, accounts
<1>3. CASE LockAuth(c)
  <2>1. auth' \in [Sockets -> {NoAuth} \cup Authentication]
    BY <1>3, GoesFacts DEF LockAuth, At, Authenticating, NoAuth
  <2>2. mMutexOnAuth' \subseteq Sockets
    BY <1>3 DEF LockAuth
  <2> QED
    BY <1>3, <2>1, <2>2, TypedFrom DEF LockAuth, OnlyAuth, places, threads
<1>4. CASE CheckAccount(c)
  <2>1. CASE auth' = [auth EXCEPT ![c] = NoAuth] /\ mMutexOnAuth' = {}
    <3>1. auth' \in [Sockets -> {NoAuth} \cup Authentication]
      BY <2>1
    <3> QED
      BY <1>4, <2>1, <3>1, TypedFrom DEF CheckAccount, OnlyAuth, places, threads
  <2>2. ASSUME NEW at \in Authenticating, Goes(c, at), UNCHANGED mMutexOnAuth PROVE Typed'
    <3>1. auth' \in [Sockets -> {NoAuth} \cup Authentication]
      BY <1>4, <2>2, GoesFacts DEF CheckAccount, At, NoAuth
    <3> QED
      BY <1>4, <2>2, <3>1, TypedFrom DEF CheckAccount, OnlyAuth, places, threads
  <2>3. \/ auth' = [auth EXCEPT ![c] = NoAuth] /\ mMutexOnAuth' = {}
        \/ \E at \in Authenticating : Goes(c, at) /\ UNCHANGED mMutexOnAuth
    BY <1>4 DEF CheckAccount, Authenticating
  <2> QED  BY <2>1, <2>2, <2>3
<1>5. CASE AddAccount(c)
  <2>1. auth' \in [Sockets -> {NoAuth} \cup Authentication] /\ auth[c] \in Authentication
    BY <1>5, GoesFacts DEF AddAccount, At, Authenticating, NoAuth
  <2>2. [login |-> auth[c].login, password |-> auth[c].password] \in Account
    BY <2>1 DEF Authentication, Account
  <2>3. mUsersCredentials' \in Seq(Account) /\ credentialsFile' \in Seq(Account)
    BY <1>5, <2>2, AppendProperties, EmptySeq DEF AddAccount
  <2> QED
    BY <1>5, <2>1, <2>3, TypedFrom DEF AddAccount, OnlyAuth, places, threads
<1>6. CASE EnterUser(c)
  <2>1. PICK l : l = auth[c].login
    OBVIOUS
  <2>2. l \in Logins
    <3>1. auth[c] \in Authentication
      BY <1>6 DEF EnterUser, At, NoAuth
    <3> QED  BY <2>1, <3>1 DEF Authentication
  <2>3. PICK i \in Nat : i = sessionId[c] + 1
    OBVIOUS
  <2>4. CASE UNCHANGED <<mSessions, accounts, logins>>
    BY <1>6, <2>4, TypedFrom DEF EnterUser, threads, accounts, logins
  <2>5. CASE /\ mUsers' = [k \in DOMAIN mUsers \cup {l} |->
                             (IF k \in DOMAIN mUsers THEN mUsers[k] ELSE 0)
                               + (IF k = l THEN 1 ELSE 0)]
             /\ mSessions' = [mSessions EXCEPT ![i].login = {l}]
             /\ holder' = [holder EXCEPT ![c] = {l}]
             /\ CloseAccounts(c) /\ UNCHANGED mUsersCredentials
             /\ auth' = [auth EXCEPT ![c] = NoAuth] /\ mMutexOnAuth' = {}
    <3>1. mSessions' \in Seq(Place)
      BY <2>2, <2>5, LoginWritten
    <3>2. mUsers' \in [DOMAIN mUsers' -> Nat] /\ DOMAIN mUsers' \subseteq Logins
      <4>1. \A k \in DOMAIN mUsers : mUsers[k] \in Nat
        OBVIOUS
      <4> QED  BY <2>2, <2>5, <4>1
    <3>3. holder' \in [Sockets -> SUBSET Logins]
      BY <2>2, <2>5
    <3>4. auth' \in [Sockets -> {NoAuth} \cup Authentication] /\ mMutexOnAuth' \subseteq Sockets
      BY <2>5
    <3>5. mUsersCredentials' \in Seq(Account) /\ credentialsFile' \in Seq(Account)
      BY <2>5 DEF CloseAccounts
    <3> QED
      BY <1>6, <3>1, <3>2, <3>3, <3>4, <3>5, TypedFrom DEF EnterUser, threads
  <2> QED  BY <1>6, <2>1, <2>3, <2>4, <2>5 DEF EnterUser
<1>7. CASE disconnectSocket(c)
  <2>1. PICK call : disconnects' = [disconnects EXCEPT ![c] = @ \ {call}]
    BY <1>7 DEF disconnectSocket
  <2>2. disconnects' \in [Sockets -> SUBSET {"own", "posted"}]
    BY <2>1
  <2>3. [event |-> "release", id |-> sessionId[c]] \in Event
    BY DEF Event
  <2>4. mainQueue' \in Seq(Event)
    BY <1>7, <2>3, PostFacts DEF disconnectSocket
  <2>5. phase' \in [Sockets -> Phases]
    BY <1>7 DEF disconnectSocket, Phases
  <2> QED
    BY <1>7, <2>2, <2>4, <2>5, TypedFrom DEF disconnectSocket, places, accounts, logins, histories
<1>8. CASE DeleteSession(c)
  <2>1. [event |-> "quit", of |-> c] \in Event
    BY DEF Event
  <2>2. mainQueue' \in Seq(Event)
    BY <1>8, <2>1, PostFacts DEF DeleteSession
  <2>3. /\ phase' \in [Sockets -> Phases] /\ holder' \in [Sockets -> SUBSET Logins]
        /\ disconnects' \in [Sockets -> SUBSET {"own", "posted"}]
    BY <1>8 DEF DeleteSession, Phases
  <2> QED
    BY <1>8, <2>2, <2>3, TypedFrom DEF DeleteSession, places, accounts, histories
<1>9. CASE FinishThread(c)
  <2>1. [event |-> "delete", of |-> c] \in Event
    BY DEF Event
  <2>2. mainQueue' \in Seq(Event)
    BY <1>9, <2>1, PostFacts DEF FinishThread
  <2>3. phase' \in [Sockets -> Phases]
    BY <1>9 DEF FinishThread, Phases
  <2> QED
    BY <1>9, <2>2, <2>3, TypedFrom DEF FinishThread, places, accounts, logins, histories
<1> QED
  BY <1>1, <1>2, <1>3, <1>4, <1>5, <1>6, <1>7, <1>8, <1>9 DEF SessionThread

\* What is read of the accounts when the server starts again.
LEMMA RestartAccounts ==
  ASSUME Typed, AccountsInv, Restart
  PROVE  /\ credentialsFile' \in Seq(Account) /\ mUsersCredentials' = credentialsFile'
         /\ DistinctLogins(mUsersCredentials)'
<1>1. CASE AccountsOpen
  <2>1. PICK e \in CutShort(mUsersCredentials) : credentialsFile' = e /\ mUsersCredentials' = e
    BY <1>1 DEF Restart
  <2>2. mUsersCredentials \in Seq(Account) /\ DistinctLogins(mUsersCredentials)
    BY TypedFacts DEF AccountsInv
  <2>3. e \in Seq(Account) /\ DistinctLogins(e)
    BY <2>2, CutShortFacts
  <2> QED  BY <2>1, <2>3 DEF DistinctLogins
<1>2. CASE ~AccountsOpen
  <2>1. credentialsFile' = mUsersCredentials /\ mUsersCredentials' = mUsersCredentials
    BY <1>2 DEF Restart, AccountsInv, FileWritten
  <2> QED  BY <2>1, TypedFacts DEF AccountsInv, DistinctLogins
<1> QED  BY <1>1, <1>2

\* The end of the process and its next start keep the types.
LEMMA ProcessTypes ==
  ASSUME Typed, AccountsInv, Crash \/ Restart \/ UNCHANGED vars
  PROVE  Typed'
<1> USE TypedFacts, TypedRest
<1>1. CASE Crash
  <2>1. crashes' \in 0..MaxCrashes
    BY <1>1, BoundsAssumption DEF Crash
  <2> QED
    BY <1>1, <2>1, TypedFrom DEF Crash, places, accounts, threads, logins
<1>2. CASE Restart
  <2>1. /\ <<>> \in Seq(Place) /\ <<>> \in Seq(Nat) /\ <<>> \in Seq(Event)
    BY EmptySeq
  <2>2. /\ phase' \in [Sockets -> Phases] /\ holder' \in [Sockets -> SUBSET Logins]
        /\ disconnects' \in [Sockets -> SUBSET {"own", "posted"}]
        /\ auth' \in [Sockets -> {NoAuth} \cup Authentication]
        /\ mUsers' \in [DOMAIN mUsers' -> Nat] /\ DOMAIN mUsers' \subseteq Logins
    BY <1>2 DEF Restart, Phases
  <2>3. credentialsFile' \in Seq(Account) /\ mUsersCredentials' \in Seq(Account)
    BY <1>2, RestartAccounts
  <2> QED
    BY <1>2, <2>1, <2>2, <2>3, TypedFrom DEF Restart, histories
<1>3. CASE UNCHANGED vars
  BY <1>3, TypedFrom DEF vars, places, accounts, threads, logins, histories
<1> QED  BY <1>1, <1>2, <1>3

-----------------------------------------------------------------------------
(***************************************************************************)
(* The accounts.                                                           *)
(***************************************************************************)

\* A login is registered where an account of the list has it.
LEMMA LoginListed ==
  ASSUME NEW S, NEW s \in Seq(S), NEW l
  PROVE  (\E a \in Range(s) : a.login = l) <=> (\E i \in 1..Len(s) : s[i].login = l)
BY InRange

\* Nobody else is in the section that mMutexOnAuth protects.
LEMMA Alone ==
  ASSUME MutexHeld, NEW c \in Sockets, auth[c].at \in Holding, NEW d \in Sockets, d # c
  PROVE  auth[d].at \notin Holding
BY DEF MutexHeld

\* An account is added under a login that nobody has.
LEMMA AccountAdded ==
  ASSUME NEW s \in Seq(Account), NEW a \in Account, DistinctLogins(s),
         ~ \E b \in Range(s) : b.login = a.login
  PROVE  /\ DistinctLogins(Append(s, a))
         /\ \A l : (\E b \in Range(Append(s, a)) : b.login = l)
                     <=> (\E b \in Range(s) : b.login = l) \/ l = a.login
<1>1. PICK t : t = Append(s, a)
  OBVIOUS
<1>2. /\ t \in Seq(Account) /\ Len(t) = Len(s) + 1 /\ t[Len(s) + 1] = a /\ Len(s) \in Nat
      /\ \A i \in 1..Len(s) : t[i] = s[i]
  BY <1>1, AppendProperties, LenProperties
<1>3. \A i \in 1..Len(s) : s[i].login # a.login
  BY LoginListed
<1>4. DistinctLogins(t)
  <2>1. ASSUME NEW i \in 1..Len(t), NEW j \in 1..Len(t), t[i].login = t[j].login
        PROVE  i = j \/ IsCut(t[i]) \/ IsCut(t[j])
    <3>1. \A k \in 1..Len(t) : \/ k = Len(s) + 1 /\ t[k].login = a.login
                               \/ /\ k \in 1..Len(s) /\ t[k] = s[k]
                                  /\ s[k].login # a.login
      BY <1>2, <1>3
    <3>2. CASE i \in 1..Len(s) /\ j \in 1..Len(s)
      BY <1>2, <2>1, <3>2 DEF DistinctLogins
    <3>3. CASE i \notin 1..Len(s) \/ j \notin 1..Len(s)
      <4>1. i = j
        BY <2>1, <3>1, <3>3
      <4> QED  BY <4>1
    <3> QED  BY <3>2, <3>3
  <2> QED  BY <2>1 DEF DistinctLogins
<1>5. \A l : (\E i \in 1..Len(t) : t[i].login = l) <=> (\E i \in 1..Len(s) : s[i].login = l) \/ l = a.login
  <2>1. Len(s) + 1 \in 1..Len(t) /\ \A i \in 1..Len(t) : i = Len(s) + 1 \/ i \in 1..Len(s)
    BY <1>2
  <2>2. \A i \in 1..Len(s) : i \in 1..Len(t)
    BY <1>2
  <2> QED  BY <1>2, <2>1, <2>2
<1>6. \A l : (\E b \in Range(t) : b.login = l) <=> (\E b \in Range(s) : b.login = l) \/ l = a.login
  <2>1. ASSUME NEW l
        PROVE  /\ (\E b \in Range(t) : b.login = l) <=> (\E i \in 1..Len(t) : t[i].login = l)
               /\ (\E b \in Range(s) : b.login = l) <=> (\E i \in 1..Len(s) : s[i].login = l)
    BY <1>2, LoginListed
  <2> QED  BY <1>5, <2>1
<1> QED  BY <1>1, <1>4, <1>6

\* No other step than those of the logins adds a user or an account.
LEMMA AccountsKept ==
  ASSUME AccountsInv, UNCHANGED <<mUsersCredentials, credentialsFile, mMutexOnAuth, auth>>,
         DOMAIN mUsers' \subseteq DOMAIN mUsers
  PROVE  AccountsInv'
<1>1. \A l : isUserRegister(l)' <=> isUserRegister(l)
  BY DEF isUserRegister
<1>2. MutexHeld' /\ FileWritten' /\ DistinctLogins(mUsersCredentials)'
  BY DEF AccountsInv, MutexHeld, FileWritten, AccountsOpen, DistinctLogins
<1>3. UsersRegistered' /\ Checked'
  BY <1>1 DEF AccountsInv, UsersRegistered, Checked
<1> QED  BY <1>2, <1>3 DEF AccountsInv

\* The steps of a login or registration keep the accounts in order.
LEMMA LoginAccounts ==
  ASSUME Typed, AccountsInv, NEW c \in Sockets,
         StartAuth(c) \/ LockAuth(c) \/ CheckAccount(c)
  PROVE  AccountsInv'
<1> USE DEF Holding
<1>1. auth \in [Sockets -> {NoAuth} \cup Authentication]
  BY TypedFacts
<1>2. UNCHANGED <<mUsersCredentials, mUsers>>
  BY DEF StartAuth, LockAuth, CheckAccount, accounts
<1>3. \A l : isUserRegister(l)' <=> isUserRegister(l)
  BY <1>2 DEF isUserRegister
<1>4. DistinctLogins(mUsersCredentials)' /\ UsersRegistered'
  BY <1>2, <1>3 DEF AccountsInv, DistinctLogins, UsersRegistered
<1>5. CASE StartAuth(c)
  <2>1. auth[c].at = "none" /\ UNCHANGED <<credentialsFile, mMutexOnAuth>>
    BY <1>5 DEF StartAuth, At, accounts
  <2>2. PICK a : auth' = [auth EXCEPT ![c] = a] /\ a.at = "lock"
    <3>1. PICK l \in Logins, p \in Passwords, new \in BOOLEAN :
            auth' = [auth EXCEPT ![c] = [at |-> "lock", login |-> l, password |-> p, new |-> new]]
      BY <1>5 DEF StartAuth
    <3>2. PICK a : a = [at |-> "lock", login |-> l, password |-> p, new |-> new]
      OBVIOUS
    <3>3. a.at = "lock" /\ auth' = [auth EXCEPT ![c] = a]
      BY <3>1, <3>2
    <3> QED  BY <3>3
  <2>3. auth'[c].at = "lock" /\ \A d \in Sockets : d # c => auth'[d] = auth[d]
    BY <1>1, <2>2
  <2>4. MutexHeld' /\ Checked' /\ FileWritten'
    BY <1>2, <1>3, <2>1, <2>3 DEF AccountsInv, MutexHeld, Checked, FileWritten, AccountsOpen
  <2> QED  BY <1>4, <2>4 DEF AccountsInv
<1>6. CASE LockAuth(c)
  <2>1. /\ auth[c].at = "lock" /\ mMutexOnAuth = {} /\ mMutexOnAuth' = {c}
        /\ UNCHANGED credentialsFile /\ Goes(c, "check")
    BY <1>6 DEF LockAuth, At
  <2>2. auth'[c].at = "check" /\ \A d \in Sockets : d # c => auth'[d] = auth[d]
    BY <2>1, GoesFacts DEF NoAuth, Authenticating
  <2>3. \A d \in Sockets : auth[d].at \notin Holding
    BY <2>1 DEF AccountsInv, MutexHeld
  <2>4. MutexHeld'
    BY <2>1, <2>2, <2>3 DEF MutexHeld
  <2>5. Checked' /\ FileWritten'
    BY <1>2, <1>3, <2>1, <2>2 DEF AccountsInv, Checked, FileWritten, AccountsOpen
  <2> QED  BY <1>4, <2>4, <2>5 DEF AccountsInv
<1>7. CASE CheckAccount(c)
  <2>1. auth[c].at = "check" /\ UNCHANGED credentialsFile
    BY <1>7 DEF CheckAccount, At
  <2>2. \A d \in Sockets : d # c => auth[d].at \notin Holding
    BY <2>1, Alone DEF AccountsInv
  <2>3. CASE auth' = [auth EXCEPT ![c] = NoAuth] /\ mMutexOnAuth' = {}
    <3>1. auth'[c].at = "none" /\ \A d \in Sockets : d # c => auth'[d] = auth[d]
      BY <1>1, <2>3 DEF NoAuth
    <3>2. MutexHeld' /\ Checked' /\ FileWritten'
      BY <1>2, <1>3, <2>1, <2>2, <3>1 DEF AccountsInv, MutexHeld, Checked, FileWritten, AccountsOpen
    <3> QED  BY <1>4, <3>2 DEF AccountsInv
  <2>4. ASSUME NEW at \in {"register", "user"}, Goes(c, at), UNCHANGED mMutexOnAuth,
               at = "register" => auth[c].new /\ ~isUserRegister(auth[c].login),
               at = "user" => isUserRegister(auth[c].login) /\ ~auth[c].new
        PROVE  AccountsInv'
    <3>1. /\ auth'[c].at = at /\ auth'[c].login = auth[c].login /\ auth'[c].new = auth[c].new
          /\ \A d \in Sockets : d # c => auth'[d] = auth[d]
      BY <2>1, <2>4, GoesFacts DEF NoAuth, Authenticating
    <3>2. MutexHeld' /\ FileWritten'
      BY <1>2, <2>1, <2>2, <2>4, <3>1 DEF AccountsInv, MutexHeld, FileWritten, AccountsOpen
    <3>3. Checked'
      BY <1>2, <1>3, <2>2, <2>4, <3>1 DEF Checked
    <3> QED  BY <1>4, <3>2, <3>3 DEF AccountsInv
  <2>5. auth[c].new \in BOOLEAN
    BY <1>1, <2>1 DEF NoAuth, Authentication
  <2>6. CASE auth[c].new /\ ~isUserRegister(auth[c].login)
    BY <1>7, <2>4, <2>6 DEF CheckAccount
  <2>7. CASE ~auth[c].new /\ checkUserCredentials(auth[c].login, auth[c].password)
    <3>1. isUserRegister(auth[c].login)
      BY <2>7 DEF isUserRegister, checkUserCredentials
    <3> QED  BY <1>7, <2>4, <2>7, <3>1 DEF CheckAccount
  <2> QED  BY <1>7, <2>3, <2>5, <2>6, <2>7 DEF CheckAccount
<1> QED  BY <1>5, <1>6, <1>7

\* A registration adds an account; its login is of no user in the map.
LEMMA AddAccounts ==
  ASSUME Typed, AccountsInv, NEW c \in Sockets, AddAccount(c)
  PROVE  AccountsInv'
<1> USE DEF Holding
<1>1. /\ auth[c].at = "register" /\ auth[c].new /\ Goes(c, "user") /\ UNCHANGED <<mUsers, mMutexOnAuth>>
      /\ mUsersCredentials' = Append(mUsersCredentials, [login    |-> auth[c].login,
                                                        password |-> auth[c].password])
  BY DEF AddAccount, At, AccountsInv, Checked
<1>2. /\ auth[c] \in Authentication /\ auth'[c].at = "user" /\ auth'[c].new
      /\ auth'[c].login = auth[c].login /\ \A d \in Sockets : d # c => auth'[d] = auth[d]
  BY <1>1, GoesFacts DEF NoAuth, Authenticating
<1>3. PICK a : a = [login |-> auth[c].login, password |-> auth[c].password]
  OBVIOUS
<1>4. a \in Account /\ a.login = auth[c].login
  BY <1>2, <1>3 DEF Account, Authentication
<1>5. mUsersCredentials \in Seq(Account) /\ DistinctLogins(mUsersCredentials)
  BY TypedFacts DEF AccountsInv
<1>6. ~isUserRegister(auth[c].login)
  BY <1>1 DEF AccountsInv, Checked
<1>7. /\ DistinctLogins(Append(mUsersCredentials, a))
      /\ \A l : (\E b \in Range(Append(mUsersCredentials, a)) : b.login = l)
                  <=> (\E b \in Range(mUsersCredentials) : b.login = l) \/ l = a.login
  <2>1. ~ \E b \in Range(mUsersCredentials) : b.login = a.login
    BY <1>4, <1>6 DEF isUserRegister
  <2> QED  BY <1>4, <1>5, <2>1, AccountAdded
<1>8. mUsersCredentials' = Append(mUsersCredentials, a)
  BY <1>1, <1>3
<1>9. /\ DistinctLogins(mUsersCredentials)'
      /\ \A l : isUserRegister(l)' <=> isUserRegister(l) \/ l = auth[c].login
  BY <1>4, <1>7, <1>8 DEF isUserRegister, DistinctLogins
<1>10. \A d \in Sockets : d # c => auth[d].at \notin Holding
  BY <1>1, Alone DEF AccountsInv
<1>11. MutexHeld' /\ FileWritten'
  BY <1>1, <1>2, <1>10 DEF AccountsInv, MutexHeld, FileWritten, AccountsOpen
<1>12. UsersRegistered'
  BY <1>1, <1>9 DEF AccountsInv, UsersRegistered
<1>13. auth[c].login \notin DOMAIN mUsers
  BY <1>6 DEF AccountsInv, UsersRegistered
<1>14. Checked'
  BY <1>1, <1>2, <1>9, <1>10, <1>13 DEF Checked
<1> QED  BY <1>9, <1>11, <1>12, <1>14 DEF AccountsInv

\* The user who is added to the map has an account, and the file is closed.
LEMMA EnterAccounts ==
  ASSUME Typed, AccountsInv, NEW c \in Sockets, EnterUser(c)
  PROVE  AccountsInv'
<1> USE DEF Holding
<1> SUFFICES ASSUME ~UNCHANGED <<accounts, logins>> PROVE AccountsInv'
  <2>1. CASE UNCHANGED <<accounts, logins>>
    BY <2>1, AccountsKept DEF accounts, logins
  <2> QED  BY <2>1
<1>1. /\ auth[c].at = "user" /\ auth' = [auth EXCEPT ![c] = NoAuth] /\ mMutexOnAuth' = {}
      /\ CloseAccounts(c) /\ UNCHANGED mUsersCredentials
  BY DEF EnterUser, At
<1>2. auth'[c].at = "none" /\ \A d \in Sockets : d # c => auth'[d] = auth[d]
  BY <1>1, TypedFacts DEF NoAuth
<1>3. \A d \in Sockets : d # c => auth[d].at \notin Holding
  BY <1>1, Alone DEF AccountsInv
<1>4. \A l : isUserRegister(l)' <=> isUserRegister(l)
  BY <1>1 DEF isUserRegister
<1>5. DOMAIN mUsers' \subseteq DOMAIN mUsers \cup {auth[c].login}
  BY DEF EnterUser
<1>6. UsersRegistered'
  BY <1>1, <1>4, <1>5 DEF AccountsInv, Checked, UsersRegistered
<1>7. MutexHeld' /\ Checked'
  BY <1>2, <1>3 DEF MutexHeld, Checked
<1>8. DistinctLogins(mUsersCredentials)'
  BY <1>1 DEF AccountsInv, DistinctLogins
<1>9. FileWritten'
  <2>1. ~auth[c].new => ~AccountsOpen
    BY <1>3 DEF AccountsOpen
  <2> QED  BY <1>1, <2>1 DEF AccountsInv, FileWritten, CloseAccounts
<1> QED  BY <1>6, <1>7, <1>8, <1>9 DEF AccountsInv

\* The accounts that are read when the server starts again are in order.
LEMMA RestartKeepsAccounts ==
  ASSUME Typed, AccountsInv, Restart
  PROVE  AccountsInv'
<1>1. /\ mUsers' = [l \in {} |-> 0] /\ auth' = [d \in Sockets |-> NoAuth]
      /\ mUsersCredentials' = credentialsFile'
  BY DEF Restart
<1>2. \A d \in Sockets : auth'[d].at = "none"
  BY <1>1 DEF NoAuth
<1>3. MutexHeld' /\ Checked'
  BY <1>2 DEF MutexHeld, Checked, Holding
<1>4. UsersRegistered' /\ FileWritten'
  BY <1>1 DEF UsersRegistered, FileWritten
<1>5. DistinctLogins(mUsersCredentials)'
  BY RestartAccounts
<1> QED  BY <1>3, <1>4, <1>5 DEF AccountsInv

-----------------------------------------------------------------------------
(***************************************************************************)
(* The threads and the holders.                                            *)
(***************************************************************************)

\* Steps that move no thread, and give no session a holder or a login.
LEMMA ThreadsKept ==
  ASSUME ThreadsInv, UNCHANGED <<phase, holder, mainQueue>>,
         \A c \in Sockets : auth'[c] = NoAuth \/ auth[c] # NoAuth
  PROVE  ThreadsInv'
BY DEF ThreadsInv, LoginsAlive, HoldersAlive, EndsOfGone

\* The queue holds the ends of threads without sessions after a read,
LEMMA EndsAfterRead ==
  ASSUME Typed, ThreadsInv, NEW name, NextEvent(name), NEW i \in 1..Len(mainQueue'),
         mainQueue'[i].event # "release"
  PROVE  phase[mainQueue'[i].of] \in Gone
<1>1. mainQueue'[i] = mainQueue[i + 1] /\ i + 1 \in 1..Len(mainQueue)
  BY EventFacts
<1> QED  BY <1>1 DEF ThreadsInv, EndsOfGone

\* and after a post.
LEMMA EndsAfterPost ==
  ASSUME Typed, ThreadsInv, NEW e \in Event, Post(e), NEW i \in 1..Len(mainQueue'),
         mainQueue'[i].event # "release"
  PROVE  mainQueue'[i] = e \/ phase[mainQueue'[i].of] \in Gone
<1>1. CASE i = Len(mainQueue) + 1
  BY <1>1, PostFacts
<1>2. CASE i # Len(mainQueue) + 1
  <2>1. i \in 1..Len(mainQueue)
    BY <1>2, PostFacts
  <2>2. mainQueue'[i] = mainQueue[i]
    BY <2>1, PostFacts
  <2> QED  BY <2>1, <2>2 DEF ThreadsInv, EndsOfGone
<1> QED  BY <1>1, <1>2

\* A thread whose session is gone moves on; it has no login and no holder.
LEMMA GoneMoves ==
  ASSUME Typed, ThreadsInv, NEW c \in Sockets, phase[c] \in Gone, NEW p \in Gone,
         phase' = [phase EXCEPT ![c] = p], UNCHANGED <<auth, holder>>
  PROVE  LoginsAlive' /\ HoldersAlive' /\ \A d \in Sockets : phase[d] \in Gone => phase'[d] \in Gone
<1>1. phase'[c] = p /\ \A d \in Sockets : d # c => phase'[d] = phase[d]
  BY TypedFacts
<1>2. auth[c] = NoAuth /\ holder[c] = {}
  BY DEF ThreadsInv, LoginsAlive, HoldersAlive, Gone
<1> QED  BY <1>1, <1>2 DEF ThreadsInv, LoginsAlive, HoldersAlive

\* The steps of the main thread.
LEMMA MainThreadThreads ==
  ASSUME Typed, ThreadsInv,
         \/ \E c \in Sockets : onNewConnection(c)
         \/ releaseClientPlace \/ quitThread \/ deleteThread
         \/ \E l \in Logins : killAllSessionByLogin(l)
  PROVE  ThreadsInv'
<1>1. ASSUME NEW c \in Sockets, onNewConnection(c) PROVE ThreadsInv'
  <2>1. /\ phase[c] = "none" /\ phase' = [phase EXCEPT ![c] = "alive"]
        /\ UNCHANGED <<auth, holder, mainQueue>>
    BY <1>1 DEF onNewConnection, logins
  <2>2. phase'[c] = "alive" /\ \A d \in Sockets : d # c => phase'[d] = phase[d]
    BY <2>1, TypedFacts
  <2>3. LoginsAlive' /\ HoldersAlive'
    BY <2>1, <2>2 DEF ThreadsInv, LoginsAlive, HoldersAlive
  <2>4. ASSUME NEW i \in 1..Len(mainQueue), mainQueue[i].event # "release"
        PROVE  phase'[mainQueue[i].of] \in Gone
    <3>1. phase[mainQueue[i].of] \in Gone
      BY <2>4 DEF ThreadsInv, EndsOfGone
    <3>2. mainQueue[i].of \in Sockets
      <4>1. mainQueue[i] \in Event
        BY TypedFacts, ElementOfSeq
      <4> QED  BY <2>4, <4>1 DEF Event
    <3> QED  BY <2>1, <2>2, <3>1, <3>2 DEF Gone
  <2>5. EndsOfGone'
    BY <2>1, <2>4 DEF EndsOfGone
  <2> QED  BY <2>3, <2>5 DEF ThreadsInv
<1>2. CASE releaseClientPlace
  <2>1. NextEvent("release") /\ UNCHANGED <<phase, auth, holder>>
    BY <1>2 DEF releaseClientPlace, threads, logins
  <2>2. EndsOfGone'
    BY <2>1, EndsAfterRead DEF EndsOfGone
  <2> QED  BY <2>1, <2>2 DEF ThreadsInv, LoginsAlive, HoldersAlive
<1>3. ASSUME NEW name \in {"quit", "delete"}, NEW p \in Gone, NextEvent(name),
             phase' = [phase EXCEPT ![Head(mainQueue).of] = p], UNCHANGED <<auth, holder>>
      PROVE  ThreadsInv'
  <2>1. PICK c \in Sockets : c = Head(mainQueue).of
    BY <1>3, EventFacts
  <2>2. phase[c] \in Gone
    BY <1>3, <2>1, EventFacts DEF ThreadsInv, EndsOfGone
  <2>3. LoginsAlive' /\ HoldersAlive' /\ \A d \in Sockets : phase[d] \in Gone => phase'[d] \in Gone
    BY <1>3, <2>1, <2>2, GoneMoves
  <2>4. ASSUME NEW i \in 1..Len(mainQueue'), mainQueue'[i].event # "release"
        PROVE  phase'[mainQueue'[i].of] \in Gone
    <3>1. phase[mainQueue'[i].of] \in Gone
      BY <1>3, <2>4, EndsAfterRead
    <3>2. mainQueue'[i] \in Event
      BY <1>3, EventFacts, ElementOfSeq
    <3>3. mainQueue'[i].of \in Sockets
      BY <2>4, <3>2 DEF Event
    <3> QED  BY <2>3, <3>1, <3>3
  <2>5. EndsOfGone'
    BY <2>4 DEF EndsOfGone
  <2> QED  BY <2>3, <2>5 DEF ThreadsInv
<1>4. CASE quitThread
  BY <1>3, <1>4 DEF quitThread, logins, Gone
<1>5. CASE deleteThread
  BY <1>3, <1>5 DEF deleteThread, logins, Gone
<1>6. ASSUME NEW l \in Logins, killAllSessionByLogin(l) PROVE ThreadsInv'
  BY <1>6, ThreadsKept DEF killAllSessionByLogin, logins
<1> QED  BY <1>1, <1>2, <1>4, <1>5, <1>6

\* The steps of the sessions' threads.
LEMMA SessionThreads ==
  ASSUME Typed, ThreadsInv, NEW c \in Sockets,
         SocketDisconnects(c) \/ StartAuth(c) \/ SessionThread(c)
  PROVE  ThreadsInv'
<1> USE TypedFacts
<1>1. CASE SocketDisconnects(c)
  BY <1>1, ThreadsKept DEF SocketDisconnects, logins
<1>2. CASE StartAuth(c)
  <2>1. phase[c] = "alive" /\ holder[c] = {} /\ UNCHANGED <<phase, holder, mainQueue>>
    BY <1>2 DEF StartAuth, OnlyAuth, threads
  <2>2. \A d \in Sockets : d # c => auth'[d] = auth[d]
    BY <1>2 DEF StartAuth
  <2> QED  BY <2>1, <2>2 DEF ThreadsInv, LoginsAlive, HoldersAlive, EndsOfGone
<1>3. CASE LockAuth(c) \/ CheckAccount(c) \/ AddAccount(c)
  <2>1. /\ UNCHANGED <<phase, holder, mainQueue>> /\ auth[c] # NoAuth
        /\ \A d \in Sockets : d # c => auth'[d] = auth[d]
    BY <1>3 DEF LockAuth, CheckAccount, AddAccount, OnlyAuth, threads, Goes, At, NoAuth
  <2> QED  BY <2>1, ThreadsKept
<1>4. CASE EnterUser(c)
  <2>1. auth[c] # NoAuth /\ UNCHANGED <<phase, mainQueue>>
    BY <1>4 DEF EnterUser, At, NoAuth, threads
  <2>2. CASE UNCHANGED <<auth, holder>>
    BY <2>1, <2>2, ThreadsKept
  <2>3. CASE /\ auth' = [auth EXCEPT ![c] = NoAuth]
             /\ \E l : holder' = [holder EXCEPT ![c] = {l}]
    <3>1. phase[c] = "alive"
      BY <2>1 DEF ThreadsInv, LoginsAlive
    <3>2. /\ auth'[c] = NoAuth /\ \A d \in Sockets : d # c => auth'[d] = auth[d]
          /\ \A d \in Sockets : d # c => holder'[d] = holder[d]
      BY <2>3
    <3> QED  BY <2>1, <3>1, <3>2 DEF ThreadsInv, LoginsAlive, HoldersAlive, EndsOfGone
  <2> QED  BY <1>4, <2>2, <2>3 DEF EnterUser, logins
<1>5. CASE disconnectSocket(c)
  <2>1. /\ auth[c] = NoAuth /\ phase[c] \in {"alive", "deleting"}
        /\ phase' = [phase EXCEPT ![c] = "deleting"] /\ UNCHANGED <<auth, holder>>
        /\ Post([event |-> "release", id |-> sessionId[c]])
    BY <1>5 DEF disconnectSocket, logins
  <2>2. phase'[c] = "deleting" /\ \A d \in Sockets : d # c => phase'[d] = phase[d]
    BY <2>1
  <2>3. LoginsAlive' /\ HoldersAlive'
    BY <2>1, <2>2 DEF ThreadsInv, LoginsAlive, HoldersAlive
  <2>4. PICK e \in Event : Post(e) /\ e.event = "release"
    BY <2>1 DEF Event
  <2>5. ASSUME NEW i \in 1..Len(mainQueue'), mainQueue'[i].event # "release"
        PROVE  phase'[mainQueue'[i].of] \in Gone
    <3>1. phase[mainQueue'[i].of] \in Gone
      BY <2>4, <2>5, EndsAfterPost
    <3>2. mainQueue'[i] \in Event
      BY <2>4, PostFacts, ElementOfSeq
    <3>3. mainQueue'[i].of \in Sockets
      BY <2>5, <3>2 DEF Event
    <3> QED  BY <2>1, <2>2, <3>1, <3>3 DEF Gone
  <2>6. EndsOfGone'
    BY <2>5 DEF EndsOfGone
  <2> QED  BY <2>3, <2>6 DEF ThreadsInv
<1>6. ASSUME NEW e \in Event, Post(e), e.event # "release", e.of = c,
             LoginsAlive', HoldersAlive',
             \A d \in Sockets : phase[d] \in Gone => phase'[d] \in Gone, phase'[c] \in Gone
      PROVE  ThreadsInv'
  <2>1. ASSUME NEW i \in 1..Len(mainQueue'), mainQueue'[i].event # "release"
        PROVE  phase'[mainQueue'[i].of] \in Gone
    <3>1. mainQueue'[i] = e \/ phase[mainQueue'[i].of] \in Gone
      BY <1>6, <2>1, EndsAfterPost
    <3>2. mainQueue'[i] \in Event
      BY <1>6, PostFacts, ElementOfSeq
    <3>3. mainQueue'[i].of \in Sockets
      BY <2>1, <3>2 DEF Event
    <3> QED  BY <1>6, <3>1, <3>3
  <2>2. EndsOfGone'
    BY <2>1 DEF EndsOfGone
  <2> QED  BY <1>6, <2>2 DEF ThreadsInv
<1>7. CASE DeleteSession(c)
  <2>1. /\ phase[c] = "deleting" /\ phase' = [phase EXCEPT ![c] = "quitting"]
        /\ holder' = [holder EXCEPT ![c] = {}] /\ UNCHANGED auth
        /\ Post([event |-> "quit", of |-> c])
    BY <1>7 DEF DeleteSession
  <2>2. /\ phase'[c] = "quitting" /\ holder'[c] = {}
        /\ \A d \in Sockets : d # c => phase'[d] = phase[d] /\ holder'[d] = holder[d]
    BY <2>1
  <2>3. LoginsAlive' /\ HoldersAlive'
    BY <2>1, <2>2 DEF ThreadsInv, LoginsAlive, HoldersAlive
  <2>4. PICK e \in Event : Post(e) /\ e.event # "release" /\ e.of = c
    <3>1. PICK e : e = [event |-> "quit", of |-> c]
      OBVIOUS
    <3>2. e \in Event /\ e.event # "release" /\ e.of = c
      BY <3>1 DEF Event
    <3> QED  BY <2>1, <3>1, <3>2
  <2> QED  BY <1>6, <2>2, <2>3, <2>4 DEF Gone
<1>8. CASE FinishThread(c)
  <2>1. /\ phase[c] = "finished" /\ phase' = [phase EXCEPT ![c] = "ended"]
        /\ UNCHANGED <<auth, holder>> /\ Post([event |-> "delete", of |-> c])
    BY <1>8 DEF FinishThread, logins
  <2>2. LoginsAlive' /\ HoldersAlive' /\ \A d \in Sockets : phase[d] \in Gone => phase'[d] \in Gone
    BY <2>1, GoneMoves DEF Gone
  <2>3. phase'[c] = "ended"
    BY <2>1
  <2>4. PICK e \in Event : Post(e) /\ e.event # "release" /\ e.of = c
    <3>1. PICK e : e = [event |-> "delete", of |-> c]
      OBVIOUS
    <3>2. e \in Event /\ e.event # "release" /\ e.of = c
      BY <3>1 DEF Event
    <3> QED  BY <2>1, <3>1, <3>2
  <2> QED  BY <1>6, <2>2, <2>3, <2>4 DEF Gone
<1> QED  BY <1>1, <1>2, <1>3, <1>4, <1>5, <1>7, <1>8 DEF SessionThread

\* The steps of the process.
LEMMA ProcessThreads ==
  ASSUME ThreadsInv, Crash \/ Restart \/ UNCHANGED vars
  PROVE  ThreadsInv'
<1>1. CASE Crash \/ UNCHANGED vars
  BY <1>1, ThreadsKept DEF Crash, vars, threads, logins
<1>2. CASE Restart
  <2>1. /\ auth' = [d \in Sockets |-> NoAuth] /\ holder' = [d \in Sockets |-> {}]
        /\ mainQueue' = <<>>
    BY <1>2 DEF Restart
  <2>2. LoginsAlive' /\ HoldersAlive'
    BY <2>1 DEF LoginsAlive, HoldersAlive
  <2>3. EndsOfGone'
    BY <2>1, EmptySeq DEF EndsOfGone
  <2> QED  BY <2>2, <2>3 DEF ThreadsInv
<1> QED  BY <1>1, <1>2

-----------------------------------------------------------------------------
(***************************************************************************)
(* The users in the map.                                                   *)
(***************************************************************************)

\* A user with sessions is in the map, and counted at least once.
LEMMA UsersCounted ==
  ASSUME Typed, HoldersInv, serverUp, NEW l \in Logins, UsersOf(l) # {}
  PROVE  /\ IsFiniteSet(UsersOf(l)) /\ Cardinality(UsersOf(l)) \in Nat
         /\ Cardinality(UsersOf(l)) # 0
         /\ l \in DOMAIN mUsers /\ mUsers[l] \in Nat /\ mUsers[l] >= Cardinality(UsersOf(l))
<1>1. UsersOf(l) \subseteq Holders
  BY DEF UsersOf, Holders
<1>2. IsFiniteSet(UsersOf(l))
  BY <1>1, FS_Subset DEF HoldersInv
<1>3. Cardinality(UsersOf(l)) \in Nat /\ Cardinality(UsersOf(l)) # 0
  BY <1>2, FS_CardinalityType, FS_EmptySet
<1>4. l \in DOMAIN mUsers /\ mUsers[l] >= Cardinality(UsersOf(l))
  BY DEF HoldersInv, HolderStays, UsersOf
<1>5. mUsers[l] \in Nat
  BY <1>4, TypedFacts
<1> QED  BY <1>2, <1>3, <1>4, <1>5

\* Steps after which no session has a holder it had not.
LEMMA HoldersKept ==
  ASSUME Typed, HoldersInv, serverUp \/ ~serverUp',
         \A c \in Sockets : holder'[c] \in {holder[c], {}},
         \A l \in DOMAIN mUsers :
           serverUp /\ UsersOf(l) # {} => l \in DOMAIN mUsers' /\ mUsers'[l] = mUsers[l]
  PROVE  HoldersInv'
<1>1. Holders' \subseteq Holders
  BY DEF Holders
<1>2. IsFiniteSet(Holders)'
  BY <1>1, FS_Subset DEF HoldersInv
<1>3. ASSUME serverUp', NEW l \in Logins, UsersOf(l)' # {}
      PROVE  l \in DOMAIN mUsers' /\ mUsers'[l] >= Cardinality(UsersOf(l)')
  <2>1. UsersOf(l)' \subseteq UsersOf(l)
    BY DEF UsersOf
  <2>2. serverUp /\ UsersOf(l) # {}
    BY <1>3, <2>1
  <2>3. /\ IsFiniteSet(UsersOf(l)) /\ Cardinality(UsersOf(l)) \in Nat
        /\ l \in DOMAIN mUsers /\ mUsers[l] \in Nat /\ mUsers[l] >= Cardinality(UsersOf(l))
    BY <2>2, UsersCounted
  <2>4. Cardinality(UsersOf(l)') \in Nat /\ Cardinality(UsersOf(l)') <= Cardinality(UsersOf(l))
    BY <2>1, <2>3, FS_Subset, FS_CardinalityType
  <2> QED  BY <2>2, <2>3, <2>4
<1>4. HolderStays'
  BY <1>3 DEF HolderStays, UsersOf
<1> QED  BY <1>2, <1>4 DEF HoldersInv

\* The session that enters a user adds one to the number of its sessions.
LEMMA EnterHolders ==
  ASSUME Typed, HoldersInv, ThreadsInv, NEW c \in Sockets, EnterUser(c)
  PROVE  HoldersInv'
<1>1. auth[c] # NoAuth /\ auth[c].at = "user" /\ serverUp
  BY DEF EnterUser, At, NoAuth
<1>2. PICK l \in Logins : l = auth[c].login
  <2>1. auth[c] \in Authentication
    BY <1>1, TypedFacts
  <2> QED  BY <2>1 DEF Authentication
<1>3. holder[c] = {}
  BY <1>1 DEF ThreadsInv, LoginsAlive
<1>4. CASE serverUp' = FALSE /\ UNCHANGED <<mUsers, holder>>
  BY <1>4, HoldersKept
<1>5. CASE /\ mUsers' = [k \in DOMAIN mUsers \cup {l} |->
                            (IF k \in DOMAIN mUsers THEN mUsers[k] ELSE 0)
                              + (IF k = l THEN 1 ELSE 0)]
           /\ holder' = [holder EXCEPT ![c] = {l}]
  <2>1. holder'[c] = {l} /\ \A d \in Sockets : d # c => holder'[d] = holder[d]
    BY <1>5, TypedFacts
  <2>2. Holders' = Holders \cup {c}
    BY <2>1 DEF Holders
  <2>3. IsFiniteSet(Holders)'
    BY <2>2, FS_AddElement DEF HoldersInv
  <2>4. /\ \A k \in DOMAIN mUsers \cup {l} : k \in DOMAIN mUsers'
        /\ \A k \in DOMAIN mUsers : mUsers[k] \in Nat
    BY <1>5, TypedFacts
  <2>5. UsersOf(l)' = UsersOf(l) \cup {c} /\ c \notin UsersOf(l)
    BY <1>3, <2>1 DEF UsersOf
  <2>6. l \in DOMAIN mUsers' /\ mUsers'[l] >= Cardinality(UsersOf(l)')
    <3>1. CASE UsersOf(l) = {}
      <4>1. Cardinality(UsersOf(l)') = 1
        <5>1. UsersOf(l)' = {c}
          BY <2>5, <3>1
        <5> QED  BY <5>1, FS_Singleton
      <4>2. PICK n \in Nat : n = IF l \in DOMAIN mUsers THEN mUsers[l] ELSE 0
        BY <2>4
      <4>3. mUsers'[l] = n + 1
        BY <1>5, <4>2
      <4> QED  BY <2>4, <4>1, <4>3
    <3>2. CASE UsersOf(l) # {}
      <4>1. /\ IsFiniteSet(UsersOf(l)) /\ Cardinality(UsersOf(l)) \in Nat
            /\ l \in DOMAIN mUsers /\ mUsers[l] \in Nat
            /\ mUsers[l] >= Cardinality(UsersOf(l))
        BY <1>1, <3>2, UsersCounted
      <4>2. Cardinality(UsersOf(l)') = Cardinality(UsersOf(l)) + 1
        BY <2>5, <4>1, FS_AddElement
      <4>3. mUsers'[l] = mUsers[l] + 1
        BY <1>5, <4>1
      <4> QED  BY <2>4, <4>1, <4>2, <4>3
    <3> QED  BY <3>1, <3>2
  <2>7. ASSUME NEW k \in Logins, k # l, UsersOf(k)' # {}
        PROVE  k \in DOMAIN mUsers' /\ mUsers'[k] >= Cardinality(UsersOf(k)')
    <3>1. UsersOf(k)' = UsersOf(k)
      BY <1>3, <2>1, <2>7 DEF UsersOf
    <3>2. /\ k \in DOMAIN mUsers /\ mUsers[k] \in Nat /\ mUsers[k] >= Cardinality(UsersOf(k))
      BY <1>1, <2>7, <3>1, UsersCounted
    <3>3. mUsers'[k] = mUsers[k]
      BY <1>5, <2>7, <3>2
    <3> QED  BY <2>4, <3>1, <3>2, <3>3
  <2>8. HolderStays'
    BY <2>6, <2>7 DEF HolderStays, UsersOf
  <2> QED  BY <2>3, <2>8 DEF HoldersInv
<1> QED  BY <1>2, <1>4, <1>5 DEF EnterUser, accounts, logins

\* A place that is released takes no user with it who has a session.
LEMMA ReleaseHolders ==
  ASSUME Typed, HoldersInv, releaseClientPlace
  PROVE  HoldersInv'
<1>1. serverUp /\ UNCHANGED holder
  BY EventFacts DEF releaseClientPlace, NextEvent, logins
<1>2. PICK user : \/ serverUp' = FALSE /\ UNCHANGED mUsers
                  \/ mUsers' = [l \in {k \in DOMAIN mUsers : k \in user => mUsers[k] # 0}
                                  |-> mUsers[l]]
  BY DEF releaseClientPlace
<1>3. ASSUME NEW l \in DOMAIN mUsers, UsersOf(l) # {}
      PROVE  l \in DOMAIN mUsers' /\ mUsers'[l] = mUsers[l]
  <2>1. l \in Logins
    BY TypedFacts
  <2>2. mUsers[l] # 0
    BY <1>1, <1>3, <2>1, UsersCounted
  <2> QED  BY <1>2, <2>2
<1> QED  BY <1>1, <1>3, HoldersKept

\* Every step keeps the holders.
LEMMA HoldersNext ==
  ASSUME Typed, HoldersInv, ThreadsInv, [Next]_vars
  PROVE  HoldersInv'
<1>1. ASSUME UNCHANGED mUsers, serverUp \/ ~serverUp',
             \A c \in Sockets : holder'[c] \in {holder[c], {}}
      PROVE  HoldersInv'
  BY <1>1, HoldersKept
<1>2. CASE UNCHANGED vars
  BY <1>1, <1>2 DEF vars, accounts, logins
<1>3. CASE quitThread \/ deleteThread
  BY <1>1, <1>3 DEF quitThread, deleteThread, accounts, logins
<1>4. ASSUME NEW c \in Sockets, onNewConnection(c) \/ SocketDisconnects(c) \/ StartAuth(c)
      PROVE  HoldersInv'
  BY <1>1, <1>4 DEF onNewConnection, SocketDisconnects, StartAuth, accounts, logins
<1>5. ASSUME NEW c \in Sockets, SessionThread(c) PROVE HoldersInv'
  <2>1. CASE LockAuth(c) \/ CheckAccount(c) \/ AddAccount(c)
    BY <1>1, <2>1 DEF LockAuth, CheckAccount, AddAccount, At
  <2>2. CASE disconnectSocket(c) \/ FinishThread(c)
    BY <1>1, <2>2 DEF disconnectSocket, FinishThread, accounts, logins
  <2>3. CASE DeleteSession(c)
    <3>1. UNCHANGED <<mUsers, serverUp>> /\ holder' = [holder EXCEPT ![c] = {}]
      BY <2>3 DEF DeleteSession, accounts
    <3>2. serverUp
      BY <2>3 DEF DeleteSession
    <3>3. \A d \in Sockets : holder'[d] \in {holder[d], {}}
      BY <3>1, TypedFacts
    <3> QED  BY <1>1, <3>1, <3>2, <3>3
  <2> QED  BY <1>5, <2>1, <2>2, <2>3, EnterHolders DEF SessionThread
<1>6. ASSUME NEW l \in Logins, killAllSessionByLogin(l) PROVE HoldersInv'
  BY <1>1, <1>6 DEF killAllSessionByLogin, accounts, logins
<1>7. CASE Crash
  BY <1>1, <1>7 DEF Crash, accounts, logins
<1>8. CASE Restart
  <2>1. holder' = [c \in Sockets |-> {}]
    BY <1>8 DEF Restart
  <2>2. Holders' = {} /\ \A l \in Logins : UsersOf(l)' = {}
    BY <2>1 DEF Holders, UsersOf
  <2>3. IsFiniteSet(Holders)'
    BY <2>2, FS_EmptySet
  <2>4. HolderStays'
    BY <2>2 DEF HolderStays, UsersOf
  <2> QED  BY <2>3, <2>4 DEF HoldersInv
<1> QED
  BY <1>2, <1>3, <1>4, <1>5, <1>6, <1>7, <1>8, ReleaseHolders DEF Next, MainThread

-----------------------------------------------------------------------------
(***************************************************************************)
(* The places.                                                             *)
(***************************************************************************)

\* The types of the numbers of places.
LEMMA PlaceTypes ==
  ASSUME Typed
  PROVE  /\ \A c \in Sockets : sessionId[c] \in Nat
         /\ \A k \in 1..Len(mFreeSessionIdQueue) : mFreeSessionIdQueue[k] \in Nat
         /\ \A i \in 1..Len(mSessions) : mSessions[i] \in Place
         /\ \A i \in 1..Len(mainQueue) :
              mainQueue[i].event = "release" => mainQueue[i].id \in Nat
<1>1. \A i \in 1..Len(mainQueue) : mainQueue[i] \in Event
  BY TypedFacts, ElementOfSeq
<1>2. \A i \in 1..Len(mainQueue) : mainQueue[i].event = "release" => mainQueue[i].id \in Nat
  BY <1>1 DEF Event
<1>3. /\ \A k \in 1..Len(mFreeSessionIdQueue) : mFreeSessionIdQueue[k] \in Nat
      /\ \A i \in 1..Len(mSessions) : mSessions[i] \in Place
  BY TypedFacts, ElementOfSeq
<1> QED  BY <1>2, <1>3, TypedFacts

\* An event that releases a place is known by its kind and the place.
LEMMA Releasing ==
  ASSUME NEW q \in Seq(Event), NEW id
  PROVE  (\E i \in 1..Len(q) : q[i] = [event |-> "release", id |-> id])
            <=> (\E i \in 1..Len(q) : q[i].event = "release" /\ q[i].id = id)
<1>1. \A i \in 1..Len(q) : q[i] \in Event
  BY ElementOfSeq
<1>2. ASSUME NEW e \in Event, e.event = "release", e.id = id
      PROVE  e = [event |-> "release", id |-> id]
  BY <1>2 DEF Event
<1>3. ASSUME NEW e, e = [event |-> "release", id |-> id]
      PROVE  e.event = "release" /\ e.id = id
  BY <1>3
<1> QED  BY <1>1, <1>2, <1>3

\* A read of the queue releases no place anew,
LEMMA ReleasingAfterRead ==
  ASSUME Typed, NEW name, NextEvent(name), NEW id, IsReleasing(id)'
  PROVE  IsReleasing(id)
<1>1. PICK i \in 1..Len(mainQueue') : mainQueue'[i] = [event |-> "release", id |-> id]
  BY DEF IsReleasing
<1>2. mainQueue'[i] = mainQueue[i + 1] /\ i + 1 \in 1..Len(mainQueue)
  BY EventFacts
<1> QED  BY <1>1, <1>2 DEF IsReleasing

\* and a post only the place of the event.
LEMMA ReleasingAfterPost ==
  ASSUME Typed, NEW e \in Event, Post(e), NEW id, IsReleasing(id)'
  PROVE  IsReleasing(id) \/ (e.event = "release" /\ e.id = id)
<1>1. PICK i \in 1..Len(mainQueue') : mainQueue'[i] = [event |-> "release", id |-> id]
  BY DEF IsReleasing
<1>2. CASE i = Len(mainQueue) + 1
  BY <1>1, <1>2, PostFacts
<1>3. CASE i # Len(mainQueue) + 1
  <2>1. i \in 1..Len(mainQueue)
    BY <1>3, PostFacts
  <2>2. mainQueue'[i] = mainQueue[i]
    BY <2>1, PostFacts
  <2> QED  BY <1>1, <2>1, <2>2 DEF IsReleasing
<1> QED  BY <1>2, <1>3

\* A place of which the release is posted is not free.
LEMMA ReleasingTaken ==
  ASSUME Typed, ReleasedOnce, NEW id \in Nat, IsReleasing(id)
  PROVE  id < Len(mSessions) /\ mSessions[id + 1] # Free
<1>1. PICK i \in 1..Len(mainQueue) : mainQueue[i].event = "release" /\ mainQueue[i].id = id
  <2>1. mainQueue \in Seq(Event)
    BY TypedFacts
  <2>2. \E i \in 1..Len(mainQueue) : mainQueue[i] = [event |-> "release", id |-> id]
    BY DEF IsReleasing
  <2> QED  BY <2>1, <2>2, Releasing
<1> QED  BY <1>1 DEF ReleasedOnce

\* Two sessions that are alive do not have the same place.
LEMMA OwnPlace2 ==
  ASSUME OwnPlaces, NEW c \in Sockets, NEW d \in Sockets, d # c,
         phase[c] = "alive", phase[d] = "alive"
  PROVE  sessionId[c] # sessionId[d]
<1>1. /\ mSessions[sessionId[c] + 1] = [socket |-> {c}, login |-> holder[c]]
      /\ mSessions[sessionId[d] + 1] = [socket |-> {d}, login |-> holder[d]]
  BY DEF OwnPlaces
<1>2. mSessions[sessionId[c] + 1].socket = {c} /\ mSessions[sessionId[d] + 1].socket = {d}
  BY <1>1
<1> QED  BY <1>2

\* A place that is somebody's is not free.
LEMMA TakenPlace ==
  ASSUME NEW c \in Sockets, NEW l
  PROVE  [socket |-> {c}, login |-> l] # Free
<1>1. [socket |-> {c}, login |-> l].socket # Free.socket
  BY DEF Free
<1> QED  BY <1>1

\* Steps that move no place, and post no release.
LEMMA PlacesKept ==
  ASSUME InPlace, OneDisconnect', UNCHANGED <<mSessions, mFreeSessionIdQueue, sessionId>>,
         \A c \in Sockets : phase'[c] = "alive" => phase[c] = "alive" /\ holder'[c] = holder[c],
         \A id : IsReleasing(id)' => IsReleasing(id),
         ReleasedOnce'
  PROVE  InPlace'
<1>1. OwnPlaces'
  BY DEF InPlace, OwnPlaces
<1>2. FreePlaces'
  BY DEF InPlace, FreePlaces
<1> QED  BY <1>1, <1>2 DEF InPlace

\* The releases that a read leaves.
LEMMA ReleasesAfterRead ==
  ASSUME Typed, ReleasedOnce, NEW name, NextEvent(name), UNCHANGED mSessions
  PROVE  ReleasedOnce'
<1>1. \A i \in 1..Len(mainQueue') : mainQueue'[i] = mainQueue[i + 1] /\ i + 1 \in 1..Len(mainQueue)
  BY EventFacts
<1>2. \A i \in 1..Len(mainQueue') :
        mainQueue'[i].event = "release" => /\ mainQueue'[i].id < Len(mSessions)
                                           /\ mSessions[mainQueue'[i].id + 1] # Free
  BY <1>1 DEF ReleasedOnce
<1>3. \A i, j \in 1..Len(mainQueue') :
        /\ mainQueue'[i].event = "release" /\ mainQueue'[j].event = "release"
        /\ mainQueue'[i].id = mainQueue'[j].id
        => i = j
  <2>1. \A i, j \in 1..Len(mainQueue') : i + 1 = j + 1 => i = j
    OBVIOUS
  <2> QED  BY <1>1, <2>1 DEF ReleasedOnce
<1> QED  BY <1>2, <1>3 DEF ReleasedOnce

\* A post adds the release of a place that is taken and not released yet.
LEMMA ReleasesAfterPost ==
  ASSUME Typed, ReleasedOnce, NEW e \in Event, Post(e), UNCHANGED mSessions,
         e.event = "release" => /\ e.id < Len(mSessions) /\ mSessions[e.id + 1] # Free
                                /\ ~IsReleasing(e.id)
  PROVE  ReleasedOnce'
<1>1. PICK n \in Nat : n = Len(mainQueue)
  BY TypedFacts
<1>2. /\ Len(mainQueue') = n + 1 /\ mainQueue'[n + 1] = e
      /\ \A i \in 1..n : mainQueue'[i] = mainQueue[i]
  BY <1>1, PostFacts
<1>3. \A i \in 1..(n + 1) : i = n + 1 \/ i \in 1..n
  OBVIOUS
<1>4. e.event = "release" => \A i \in 1..n : mainQueue[i].event # "release" \/ mainQueue[i].id # e.id
  BY <1>1, Releasing, TypedFacts DEF IsReleasing
<1>5. \A i \in 1..n :
        mainQueue[i].event = "release" => /\ mainQueue[i].id < Len(mSessions)
                                          /\ mSessions[mainQueue[i].id + 1] # Free
  BY <1>1 DEF ReleasedOnce
<1>6. \A i, j \in 1..n :
        /\ mainQueue[i].event = "release" /\ mainQueue[j].event = "release"
        /\ mainQueue[i].id = mainQueue[j].id
        => i = j
  BY <1>1 DEF ReleasedOnce
<1>7. \A i \in 1..(n + 1) :
        mainQueue'[i].event = "release" => /\ mainQueue'[i].id < Len(mSessions)
                                           /\ mSessions[mainQueue'[i].id + 1] # Free
  BY <1>2, <1>3, <1>5
<1>8. \A i, j \in 1..(n + 1) :
        /\ mainQueue'[i].event = "release" /\ mainQueue'[j].event = "release"
        /\ mainQueue'[i].id = mainQueue'[j].id
        => i = j
  BY <1>2, <1>3, <1>4, <1>6
<1> QED  BY <1>2, <1>7, <1>8 DEF ReleasedOnce

\* A new session takes a place that nobody has and nobody releases.
LEMMA ConnectionPlace ==
  ASSUME Typed, ThreadsInv, InPlace, NEW c \in Sockets, onNewConnection(c)
  PROVE  InPlace'
<1>1. /\ phase[c] = "none" /\ phase' = [phase EXCEPT ![c] = "alive"]
      /\ socketUp' = socketUp \cup {c} /\ UNCHANGED <<disconnects, mainQueue, holder>>
  BY DEF onNewConnection, logins
<1>2. /\ phase'[c] = "alive" /\ \A d \in Sockets : d # c => phase'[d] = phase[d]
      /\ holder[c] = {}
  BY <1>1, TypedFacts DEF ThreadsInv, HoldersAlive
<1>3. OneDisconnect'
  BY <1>1, <1>2 DEF InPlace, OneDisconnect
<1>4. PICK new : new = [socket |-> {c}, login |-> {}]
  OBVIOUS
<1>5. new \in Place /\ new # Free /\ new = [socket |-> {c}, login |-> holder[c]]
  BY <1>2, <1>4, TakenPlace DEF Place
<1>6. /\ Len(mSessions) \in Nat /\ mSessions \in Seq(Place)
      /\ \A d \in Sockets : sessionId[d] \in Nat
      /\ sessionId \in [Sockets -> Nat]
  BY TypedFacts, PlaceTypes
<1>7. /\ \A d \in Sockets :
           phase[d] = "alive" => /\ sessionId[d] < Len(mSessions)
                                 /\ mSessions[sessionId[d] + 1] = [socket |-> {d}, login |-> holder[d]]
                                 /\ mSessions[sessionId[d] + 1] # Free
                                 /\ ~IsReleasing(sessionId[d])
      /\ \A id : IsReleasing(id)' <=> IsReleasing(id)
  BY <1>1, TakenPlace DEF InPlace, OwnPlaces, IsReleasing
<1>8. ASSUME NEW id \in Nat, sessionId' = [sessionId EXCEPT ![c] = id], ~IsReleasing(id),
             Len(mSessions') \in Nat, id < Len(mSessions'), Len(mSessions) <= Len(mSessions'),
             mSessions'[id + 1] = new,
             \A i \in 1..Len(mSessions) : i # id + 1 => mSessions'[i] = mSessions[i],
             id < Len(mSessions) => mSessions[id + 1] = Free
      PROVE  OwnPlaces' /\ ReleasedOnce'
  <2>1. sessionId'[c] = id /\ \A d \in Sockets : d # c => sessionId'[d] = sessionId[d]
    BY <1>6, <1>8
  <2>2. ASSUME NEW k \in Nat, k < Len(mSessions), mSessions[k + 1] # Free
        PROVE  k < Len(mSessions') /\ mSessions'[k + 1] = mSessions[k + 1]
    <3>1. k # id
      BY <1>8, <2>2
    <3>2. k + 1 \in 1..Len(mSessions) /\ k + 1 # id + 1
      BY <1>6, <2>2, <3>1
    <3>3. mSessions'[k + 1] = mSessions[k + 1]
      BY <1>8, <3>2
    <3> QED  BY <1>6, <1>8, <2>2, <3>3
  <2>3. ASSUME NEW d \in Sockets, phase'[d] = "alive"
        PROVE  /\ sessionId'[d] < Len(mSessions')
               /\ mSessions'[sessionId'[d] + 1] = [socket |-> {d}, login |-> holder[d]]
               /\ ~IsReleasing(sessionId'[d])
    <3>1. CASE d = c
      BY <1>5, <1>8, <2>1, <3>1
    <3>2. CASE d # c
      BY <1>2, <1>6, <1>7, <2>1, <2>2, <2>3, <3>2
    <3> QED  BY <3>1, <3>2
  <2>4. OwnPlaces'
    BY <1>1, <1>7, <2>3 DEF OwnPlaces
  <2>5. ASSUME NEW i \in 1..Len(mainQueue), mainQueue[i].event = "release"
        PROVE  mainQueue[i].id < Len(mSessions') /\ mSessions'[mainQueue[i].id + 1] # Free
    <3>1. PICK k \in Nat : k = mainQueue[i].id
      BY <2>5, PlaceTypes
    <3>2. k < Len(mSessions) /\ mSessions[k + 1] # Free
      BY <2>5, <3>1 DEF InPlace, ReleasedOnce
    <3> QED  BY <2>2, <3>1, <3>2
  <2>6. ReleasedOnce'
    BY <1>1, <2>5 DEF InPlace, ReleasedOnce
  <2> QED  BY <2>4, <2>6
<1>9. CASE mFreeSessionIdQueue = <<>>
  <2>1. PICK id \in Nat : id = Len(mSessions)
    BY <1>6
  <2>2. /\ sessionId' = [sessionId EXCEPT ![c] = id] /\ mSessions' = Append(mSessions, new)
        /\ UNCHANGED mFreeSessionIdQueue
    BY <1>4, <1>9, <2>1 DEF onNewConnection
  <2>3. /\ Len(mSessions') = id + 1 /\ mSessions'[id + 1] = new
        /\ \A i \in 1..id : mSessions'[i] = mSessions[i]
    BY <1>5, <1>6, <2>1, <2>2, AppendProperties
  <2>4. ~IsReleasing(id)
    BY <2>1, ReleasingTaken DEF InPlace
  <2>5. OwnPlaces' /\ ReleasedOnce'
    <3>1. /\ Len(mSessions') \in Nat /\ id < Len(mSessions')
          /\ Len(mSessions) <= Len(mSessions') /\ ~(id < Len(mSessions))
      BY <2>1, <2>3
    <3>2. \A i \in 1..Len(mSessions) : i # id + 1 => mSessions'[i] = mSessions[i]
      BY <2>1, <2>3
    <3> QED  BY <1>8, <2>2, <2>3, <2>4, <3>1, <3>2
  <2>6. Len(mFreeSessionIdQueue) = 0
    BY <1>9, EmptySeq
  <2>7. \A i \in 1..id : mSessions[i] # Free
    BY <2>1, <2>6 DEF InPlace, FreePlaces
  <2>8. \A i \in 1..(id + 1) : mSessions'[i] # Free
    <3>1. \A i \in 1..(id + 1) : i = id + 1 \/ i \in 1..id
      OBVIOUS
    <3> QED  BY <1>5, <2>3, <2>7, <3>1
  <2>9. FreePlaces'
    BY <2>2, <2>3, <2>6, <2>8 DEF FreePlaces
  <2> QED  BY <1>3, <2>5, <2>9 DEF InPlace
<1>10. CASE mFreeSessionIdQueue # <<>>
  <2> DEFINE q == mFreeSessionIdQueue
  <2>1. /\ Head(q) = q[1] /\ Len(q) \in Nat /\ 1 \in 1..Len(q) /\ Tail(q) \in Seq(Nat)
        /\ Len(Tail(q)) = Len(q) - 1 /\ \A k \in 1..Len(Tail(q)) : Tail(q)[k] = q[k + 1]
    <3>1. q \in Seq(Nat) /\ q # <<>>
      BY <1>10, TypedFacts
    <3>2. Len(q) \in Nat /\ Len(q) > 0
      BY <3>1, LenProperties, EmptySeq
    <3>3. /\ Head(q) = q[1] /\ Tail(q) \in Seq(Nat) /\ Len(Tail(q)) = Len(q) - 1
          /\ \A k \in 1..Len(Tail(q)) : Tail(q)[k] = q[k + 1]
      BY <3>1, HeadTailProperties
    <3> QED  BY <3>2, <3>3
  <2>2. PICK id \in Nat : id = q[1]
    BY <2>1, PlaceTypes
  <2>3. /\ sessionId' = [sessionId EXCEPT ![c] = id]
        /\ mSessions' = [mSessions EXCEPT ![id + 1] = new] /\ mFreeSessionIdQueue' = Tail(q)
    BY <1>4, <1>10, <2>1, <2>2 DEF onNewConnection
  <2>4. id < Len(mSessions) /\ mSessions[id + 1] = Free
    BY <2>1, <2>2 DEF InPlace, FreePlaces
  <2>5. /\ Len(mSessions') = Len(mSessions)
        /\ \A i \in 1..Len(mSessions) : mSessions'[i] = IF i = id + 1 THEN new ELSE mSessions[i]
    <3>1. id + 1 \in Nat
      OBVIOUS
    <3> QED  BY <1>5, <1>6, <2>3, <3>1, PlaceWritten
  <2>6. id + 1 \in 1..Len(mSessions) /\ mSessions'[id + 1] = new
    BY <1>6, <2>4, <2>5
  <2>7. ~IsReleasing(id)
    BY <2>4, ReleasingTaken DEF InPlace
  <2>8. OwnPlaces' /\ ReleasedOnce'
    <3>1. /\ Len(mSessions') \in Nat /\ id < Len(mSessions')
          /\ Len(mSessions) <= Len(mSessions')
      BY <1>6, <2>4, <2>5
    <3>2. \A i \in 1..Len(mSessions) : i # id + 1 => mSessions'[i] = mSessions[i]
      BY <2>5
    <3> QED  BY <1>8, <2>3, <2>4, <2>6, <2>7, <3>1, <3>2
  <2>9. \A k \in 1..Len(Tail(q)) : k + 1 \in 1..Len(q) /\ q[k + 1] # id /\ q[k + 1] \in Nat
    <3>1. ASSUME NEW k \in 1..Len(Tail(q)) PROVE k + 1 \in 1..Len(q) /\ k + 1 # 1
      BY <2>1
    <3>2. \A j, k \in 1..Len(q) : q[j] = q[k] => j = k
      BY DEF InPlace, FreePlaces
    <3> QED  BY <2>1, <2>2, <3>1, <3>2, PlaceTypes
  <2>10. ASSUME NEW k \in 1..Len(Tail(q))
         PROVE  Tail(q)[k] < Len(mSessions) /\ mSessions'[Tail(q)[k] + 1] = Free
    <3>1. PICK m \in Nat : m = Tail(q)[k] /\ m = q[k + 1] /\ m # id
      BY <2>1, <2>9
    <3>2. m < Len(mSessions) /\ mSessions[m + 1] = Free
      BY <2>9, <3>1 DEF InPlace, FreePlaces
    <3>3. m + 1 \in 1..Len(mSessions) /\ m + 1 # id + 1
      BY <1>6, <3>1, <3>2
    <3> QED  BY <2>5, <3>1, <3>2, <3>3
  <2>11. \A j, k \in 1..Len(Tail(q)) : Tail(q)[j] = Tail(q)[k] => j = k
    <3>1. \A j, k \in 1..Len(Tail(q)) : j + 1 = k + 1 => j = k
      OBVIOUS
    <3>2. \A j, k \in 1..Len(q) : q[j] = q[k] => j = k
      BY DEF InPlace, FreePlaces
    <3> QED  BY <2>1, <2>9, <3>1, <3>2
  <2>12. ASSUME NEW i \in 1..Len(mSessions), mSessions'[i] = Free
         PROVE  \E k \in 1..Len(Tail(q)) : Tail(q)[k] = i - 1
    <3>1. i # id + 1 /\ mSessions[i] = Free
      BY <1>5, <2>5, <2>12
    <3>2. PICK k \in 1..Len(q) : q[k] = i - 1
      BY <3>1 DEF InPlace, FreePlaces
    <3>3. k # 1
      BY <1>6, <2>2, <3>1, <3>2
    <3>4. k - 1 \in 1..Len(Tail(q)) /\ (k - 1) + 1 = k
      BY <2>1, <3>3
    <3>5. Tail(q)[k - 1] = i - 1
      BY <2>1, <3>2, <3>4
    <3> QED  BY <3>4, <3>5
  <2>13. FreePlaces'
    BY <2>3, <2>5, <2>10, <2>11, <2>12 DEF FreePlaces
  <2> QED  BY <1>3, <2>8, <2>13 DEF InPlace
<1> QED  BY <1>9, <1>10

\* A place that is released is nobody's any more, and is queued once.
LEMMA ReleasePlace ==
  ASSUME Typed, InPlace, releaseClientPlace, serverUp'
  PROVE  InPlace'
<1>1. /\ NextEvent("release") /\ Head(mainQueue) = mainQueue[1] /\ 1 \in 1..Len(mainQueue)
      /\ mainQueue[1].event = "release" /\ Head(mainQueue).id \in Nat
      /\ UNCHANGED <<phase, sessionId, socketUp, disconnects, holder>>
  BY EventFacts DEF releaseClientPlace, threads, logins
<1>2. PICK id \in Nat : id = Head(mainQueue).id
  BY <1>1
<1>3. id < Len(mSessions) /\ mSessions[id + 1] # Free
  BY <1>1, <1>2 DEF InPlace, ReleasedOnce
<1>4. /\ mSessions' = [mSessions EXCEPT ![id + 1] = Free]
      /\ mFreeSessionIdQueue' = Append(mFreeSessionIdQueue, id)
  BY <1>2, <1>3 DEF releaseClientPlace
<1>5. /\ Len(mSessions') = Len(mSessions) /\ Len(mSessions) \in Nat
      /\ \A i \in 1..Len(mSessions) : mSessions'[i] = IF i = id + 1 THEN Free ELSE mSessions[i]
  <2>1. id + 1 \in Nat /\ Free \in Place
    BY DEF Free, Place
  <2> QED  BY <1>4, <2>1, PlaceWritten, TypedFacts
<1>6. ASSUME NEW k \in Nat, k < Len(mSessions), k # id
      PROVE  mSessions'[k + 1] = mSessions[k + 1]
  <2>1. k + 1 \in 1..Len(mSessions) /\ k + 1 # id + 1
    BY <1>5, <1>6
  <2> QED  BY <1>5, <2>1
<1>7. OneDisconnect'
  BY <1>1 DEF InPlace, OneDisconnect
<1>8. IsReleasing(id)
  <2>1. mainQueue \in Seq(Event)
    BY TypedFacts
  <2>2. \E i \in 1..Len(mainQueue) : mainQueue[i].event = "release" /\ mainQueue[i].id = id
    BY <1>1, <1>2
  <2> QED  BY <2>1, <2>2, Releasing DEF IsReleasing
<1>9. ASSUME NEW d \in Sockets, phase[d] = "alive"
      PROVE  /\ sessionId[d] < Len(mSessions)
             /\ mSessions'[sessionId[d] + 1] = [socket |-> {d}, login |-> holder[d]]
             /\ ~IsReleasing(sessionId[d])'
  <2>1. PICK k \in Nat : k = sessionId[d]
    BY PlaceTypes
  <2>2. /\ k < Len(mSessions) /\ ~IsReleasing(k)
        /\ mSessions[k + 1] = [socket |-> {d}, login |-> holder[d]]
    BY <1>9, <2>1 DEF InPlace, OwnPlaces
  <2>3. k # id
    BY <1>8, <2>2
  <2>4. ~IsReleasing(k)'
    BY <1>1, <2>2, ReleasingAfterRead
  <2> QED  BY <1>1, <1>6, <2>1, <2>2, <2>3, <2>4 DEF IsReleasing
<1>10. OwnPlaces'
  BY <1>1, <1>5, <1>9 DEF OwnPlaces
<1>11. \A i \in 1..Len(mainQueue') : mainQueue'[i] = mainQueue[i + 1] /\ i + 1 \in 1..Len(mainQueue)
                                     /\ i + 1 # 1
  BY <1>1, EventFacts
<1>12. ASSUME NEW i \in 1..Len(mainQueue'), mainQueue'[i].event = "release"
       PROVE  /\ mainQueue'[i].id < Len(mSessions')
              /\ mSessions'[mainQueue'[i].id + 1] # Free
  <2>1. /\ mainQueue[i + 1].event = "release" /\ mainQueue'[i].id = mainQueue[i + 1].id
        /\ mainQueue[i + 1].id \in Nat
    BY <1>11, <1>12, PlaceTypes
  <2>2. PICK k \in Nat : k = mainQueue[i + 1].id
    BY <2>1
  <2>3. k # id
    BY <1>1, <1>2, <1>11, <2>1, <2>2 DEF InPlace, ReleasedOnce
  <2>4. k < Len(mSessions) /\ mSessions[k + 1] # Free
    BY <1>11, <2>1, <2>2 DEF InPlace, ReleasedOnce
  <2> QED  BY <1>5, <1>6, <2>1, <2>2, <2>3, <2>4
<1>13. \A i, j \in 1..Len(mainQueue') :
         /\ mainQueue'[i].event = "release" /\ mainQueue'[j].event = "release"
         /\ mainQueue'[i].id = mainQueue'[j].id
         => i = j
  <2>1. \A i, j \in 1..Len(mainQueue') : i + 1 = j + 1 => i = j
    OBVIOUS
  <2> QED  BY <1>11, <2>1 DEF InPlace, ReleasedOnce
<1>14. ReleasedOnce'
  BY <1>12, <1>13 DEF ReleasedOnce
<1>15. PICK n \in Nat : n = Len(mFreeSessionIdQueue)
  BY TypedFacts
<1>16. /\ Len(mFreeSessionIdQueue') = n + 1 /\ mFreeSessionIdQueue'[n + 1] = id
       /\ \A k \in 1..n : mFreeSessionIdQueue'[k] = mFreeSessionIdQueue[k]
  BY <1>4, <1>15, TypedFacts, AppendProperties
<1>17. ASSUME NEW k \in 1..n
       PROVE  /\ mFreeSessionIdQueue[k] < Len(mSessions) /\ mFreeSessionIdQueue[k] # id
              /\ mSessions'[mFreeSessionIdQueue[k] + 1] = Free
  <2>1. PICK m \in Nat : m = mFreeSessionIdQueue[k]
    BY <1>15, PlaceTypes
  <2>2. m < Len(mSessions) /\ mSessions[m + 1] = Free
    BY <1>15, <2>1 DEF InPlace, FreePlaces
  <2>3. m # id
    BY <1>3, <2>2
  <2> QED  BY <1>6, <2>1, <2>2, <2>3
<1>18. \A k \in 1..(n + 1) : k = n + 1 \/ k \in 1..n
  OBVIOUS
<1>19. id + 1 \in 1..Len(mSessions) /\ mSessions'[id + 1] = Free
  BY <1>3, <1>5
<1>20. \A k \in 1..(n + 1) : /\ mFreeSessionIdQueue'[k] < Len(mSessions')
                             /\ mSessions'[mFreeSessionIdQueue'[k] + 1] = Free
  BY <1>3, <1>5, <1>16, <1>17, <1>18, <1>19
<1>21. \A j, k \in 1..(n + 1) : mFreeSessionIdQueue'[j] = mFreeSessionIdQueue'[k] => j = k
  <2>1. \A j, k \in 1..n : mFreeSessionIdQueue[j] = mFreeSessionIdQueue[k] => j = k
    BY <1>15 DEF InPlace, FreePlaces
  <2> QED  BY <1>16, <1>17, <1>18, <2>1
<1>22. ASSUME NEW i \in 1..Len(mSessions), mSessions'[i] = Free
       PROVE  \E k \in 1..(n + 1) : mFreeSessionIdQueue'[k] = i - 1
  <2>1. CASE i = id + 1
    BY <1>16, <2>1
  <2>2. CASE i # id + 1
    <3>1. mSessions[i] = Free
      BY <1>5, <1>22, <2>2
    <3>2. PICK k \in 1..n : mFreeSessionIdQueue[k] = i - 1
      BY <1>15, <3>1 DEF InPlace, FreePlaces
    <3> QED  BY <1>16, <3>2
  <2> QED  BY <2>1, <2>2
<1>23. FreePlaces'
  BY <1>5, <1>16, <1>20, <1>21, <1>22 DEF FreePlaces
<1> QED  BY <1>7, <1>10, <1>14, <1>23 DEF InPlace

\* A "kill" that meets no disconnect calls disconnectSocket once, and only
\* for sockets that were connected.
LEMMA KillPlaces ==
  ASSUME Typed, InPlace, NEW l \in Logins, killAllSessionByLogin(l), raced' = {}
  PROVE  InPlace'
<1>1. PICK hit : hit = UNION {s.socket : s \in {s \in Range(mSessions) : s.login = {l}}}
  OBVIOUS
<1>2. PICK race \in SUBSET {c \in hit : "own" \in disconnects[c]} :
         /\ socketUp' = socketUp \ hit
         /\ disconnects' = [c \in Sockets |->
                              disconnects[c] \cup IF c \in (hit \cap socketUp) \cup race
                                                  THEN {"posted"} ELSE {}]
         /\ raced' = raced \cup race
  BY <1>1 DEF killAllSessionByLogin
<1>3. race = {}
  BY <1>2
<1>4. UNCHANGED <<mSessions, mFreeSessionIdQueue, phase, sessionId, holder, mainQueue>>
  BY DEF killAllSessionByLogin, places, logins
<1>5. ASSUME NEW c \in Sockets
      PROVE  /\ c \in socketUp' => phase'[c] = "alive" /\ disconnects'[c] = {}
             /\ phase'[c] # "alive" => disconnects'[c] = {}
             /\ disconnects'[c] # {"own", "posted"}
  <2>1. /\ c \in socketUp => phase[c] = "alive" /\ disconnects[c] = {}
        /\ phase[c] # "alive" => disconnects[c] = {}
        /\ disconnects[c] # {"own", "posted"}
    BY DEF InPlace, OneDisconnect
  <2>2. disconnects'[c] = disconnects[c] \cup IF c \in hit /\ c \in socketUp THEN {"posted"} ELSE {}
    BY <1>2, <1>3
  <2>3. CASE c \in hit /\ c \in socketUp
    BY <1>2, <1>4, <2>1, <2>2, <2>3
  <2>4. CASE ~(c \in hit /\ c \in socketUp)
    BY <1>2, <1>4, <2>1, <2>2, <2>4
  <2> QED  BY <2>3, <2>4
<1>6. OneDisconnect'
  BY <1>5 DEF OneDisconnect
<1>7. ReleasedOnce' /\ \A id : IsReleasing(id)' => IsReleasing(id)
  BY <1>4 DEF InPlace, ReleasedOnce, IsReleasing
<1> QED  BY <1>4, <1>6, <1>7, PlacesKept

\* The threads end without touching a place.
LEMMA EndPlaces ==
  ASSUME Typed, ThreadsInv, InPlace,
         \/ quitThread \/ deleteThread
         \/ \E c \in Sockets : DeleteSession(c) \/ FinishThread(c)
  PROVE  InPlace'
<1>1. ASSUME NEW c \in Sockets, NEW p \in Phases \ {"alive"}, phase[c] # "alive",
             phase' = [phase EXCEPT ![c] = p], UNCHANGED <<socketUp, mSessions, mFreeSessionIdQueue, sessionId>>,
             \A d \in Sockets : disconnects'[d] \in {disconnects[d], {}},
             \A d \in Sockets : d # c => holder'[d] = holder[d],
             \A id : IsReleasing(id)' => IsReleasing(id), ReleasedOnce'
      PROVE  InPlace'
  <2>1. phase'[c] # "alive" /\ \A d \in Sockets : d # c => phase'[d] = phase[d]
    BY <1>1, TypedFacts
  <2>2. OneDisconnect'
    <3>1. \A d \in Sockets : phase'[d] = "alive" <=> phase[d] = "alive"
      BY <1>1, <2>1
    <3> QED  BY <1>1, <3>1 DEF InPlace, OneDisconnect
  <2> QED  BY <1>1, <2>1, <2>2, PlacesKept
<1>2. ASSUME NEW name \in {"quit", "delete"}, NEW p \in Phases \ {"alive"}, NextEvent(name),
             phase' = [phase EXCEPT ![Head(mainQueue).of] = p],
             UNCHANGED <<socketUp, mSessions, mFreeSessionIdQueue, sessionId, disconnects, holder>>
      PROVE  InPlace'
  <2>1. PICK c \in Sockets : c = Head(mainQueue).of
    BY <1>2, EventFacts
  <2>2. phase[c] # "alive"
    BY <1>2, <2>1, EventFacts DEF ThreadsInv, EndsOfGone, Gone
  <2>3. ReleasedOnce'
    BY <1>2, ReleasesAfterRead DEF InPlace
  <2>4. \A id : IsReleasing(id)' => IsReleasing(id)
    BY <1>2, ReleasingAfterRead
  <2> QED  BY <1>1, <1>2, <2>1, <2>2, <2>3, <2>4
<1>3. CASE quitThread \/ deleteThread
  BY <1>2, <1>3 DEF quitThread, deleteThread, Phases, places, logins
<1>4. ASSUME NEW c \in Sockets, NEW p \in Phases \ {"alive"}, phase[c] # "alive",
             phase' = [phase EXCEPT ![c] = p], UNCHANGED <<socketUp, mSessions, mFreeSessionIdQueue, sessionId>>,
             \A d \in Sockets : disconnects'[d] \in {disconnects[d], {}},
             \A d \in Sockets : d # c => holder'[d] = holder[d],
             NEW e \in Event, Post(e), e.event # "release"
      PROVE  InPlace'
  <2>1. ReleasedOnce'
    BY <1>4, ReleasesAfterPost DEF InPlace
  <2>2. \A id : IsReleasing(id)' => IsReleasing(id)
    BY <1>4, ReleasingAfterPost
  <2> QED  BY <1>1, <1>4, <2>1, <2>2
<1>5. ASSUME NEW c \in Sockets, DeleteSession(c) PROVE InPlace'
  <2>1. /\ phase[c] = "deleting" /\ phase' = [phase EXCEPT ![c] = "quitting"]
        /\ UNCHANGED <<socketUp, mSessions, mFreeSessionIdQueue, sessionId>>
        /\ holder' = [holder EXCEPT ![c] = {}] /\ disconnects' = [disconnects EXCEPT ![c] = {}]
        /\ Post([event |-> "quit", of |-> c])
    BY <1>5 DEF DeleteSession, places
  <2>2. /\ \A d \in Sockets : disconnects'[d] \in {disconnects[d], {}}
        /\ \A d \in Sockets : d # c => holder'[d] = holder[d]
    BY <2>1, TypedFacts
  <2>3. PICK e : e = [event |-> "quit", of |-> c]
    OBVIOUS
  <2>4. e \in Event /\ e.event # "release"
    BY <2>3 DEF Event
  <2>5. "quitting" \in Phases \ {"alive"} /\ phase[c] # "alive"
    BY <2>1 DEF Phases
  <2> QED  BY <1>4, <2>1, <2>2, <2>3, <2>4, <2>5
<1>6. ASSUME NEW c \in Sockets, FinishThread(c) PROVE InPlace'
  <2>1. /\ phase[c] = "finished" /\ phase' = [phase EXCEPT ![c] = "ended"]
        /\ UNCHANGED <<socketUp, mSessions, mFreeSessionIdQueue, sessionId, holder, disconnects>>
        /\ Post([event |-> "delete", of |-> c])
    BY <1>6 DEF FinishThread, places, logins
  <2>2. PICK e : e = [event |-> "delete", of |-> c]
    OBVIOUS
  <2>3. e \in Event /\ e.event # "release"
    BY <2>2 DEF Event
  <2>4. "ended" \in Phases \ {"alive"} /\ phase[c] # "alive"
    BY <2>1 DEF Phases
  <2> QED  BY <1>4, <2>1, <2>2, <2>3, <2>4
<1> QED  BY <1>3, <1>5, <1>6

\* The session that is disconnected releases its place, which it has not
\* done before, and is called no second time.
LEMMA DisconnectPlace ==
  ASSUME Typed, InPlace, NEW c \in Sockets, disconnectSocket(c)
  PROVE  InPlace'
<1>1. PICK call \in disconnects[c] : disconnects' = [disconnects EXCEPT ![c] = @ \ {call}]
  BY DEF disconnectSocket
<1>2. /\ phase' = [phase EXCEPT ![c] = "deleting"]
      /\ UNCHANGED <<mSessions, mFreeSessionIdQueue, sessionId, socketUp, holder>>
      /\ Post([event |-> "release", id |-> sessionId[c]])
  BY DEF disconnectSocket, places, logins
<1>3. /\ phase[c] = "alive" /\ c \notin socketUp /\ disconnects[c] # {"own", "posted"}
  BY <1>1 DEF InPlace, OneDisconnect
<1>4. disconnects[c] \subseteq {"own", "posted"}
  BY TypedFacts
<1>5. /\ disconnects'[c] = {} /\ phase'[c] = "deleting"
      /\ \A d \in Sockets : d # c => disconnects'[d] = disconnects[d] /\ phase'[d] = phase[d]
  <2>1. disconnects[c] \ {call} = {}
    BY <1>1, <1>3, <1>4
  <2> QED  BY <1>1, <1>2, <2>1, TypedFacts
<1>6. OneDisconnect'
  BY <1>2, <1>3, <1>5 DEF InPlace, OneDisconnect
<1>7. PICK k \in Nat : k = sessionId[c]
  BY PlaceTypes
<1>8. k < Len(mSessions) /\ mSessions[k + 1] # Free /\ ~IsReleasing(k)
  BY <1>3, <1>7, TakenPlace DEF InPlace, OwnPlaces
<1>9. PICK e : e = [event |-> "release", id |-> k]
  OBVIOUS
<1>10. e \in Event /\ e.event = "release" /\ e.id = k /\ Post(e)
  BY <1>2, <1>7, <1>9 DEF Event
<1>11. ReleasedOnce'
  BY <1>2, <1>8, <1>10, ReleasesAfterPost DEF InPlace
<1>12. ASSUME NEW d \in Sockets, phase'[d] = "alive"
       PROVE  /\ sessionId[d] < Len(mSessions)
              /\ mSessions[sessionId[d] + 1] = [socket |-> {d}, login |-> holder[d]]
              /\ ~IsReleasing(sessionId[d])'
  <2>1. d # c /\ phase[d] = "alive"
    BY <1>5, <1>12
  <2>2. sessionId[d] # k
    BY <1>3, <1>7, <2>1, OwnPlace2 DEF InPlace
  <2>3. ~IsReleasing(sessionId[d])
    BY <2>1 DEF InPlace, OwnPlaces
  <2>4. ~IsReleasing(sessionId[d])'
    <3>1. PICK m : m = sessionId[d]
      OBVIOUS
    <3>2. ~IsReleasing(m)'
      BY <1>10, <2>2, <2>3, <3>1, ReleasingAfterPost
    <3> QED  BY <1>2, <3>1, <3>2 DEF IsReleasing
  <2> QED  BY <2>1, <2>4 DEF InPlace, OwnPlaces
<1>13. OwnPlaces'
  BY <1>2, <1>12 DEF OwnPlaces
<1>14. FreePlaces'
  BY <1>2 DEF InPlace, FreePlaces
<1> QED  BY <1>6, <1>11, <1>13, <1>14 DEF InPlace

\* The login is written into the place of the session that logged in.
LEMMA EnterPlace ==
  ASSUME Typed, ThreadsInv, InPlace, NEW c \in Sockets, EnterUser(c), serverUp'
  PROVE  InPlace'
<1>1. auth[c] # NoAuth
  BY DEF EnterUser, At, NoAuth
<1>2. phase[c] = "alive" /\ auth[c] \in Authentication
  BY <1>1, TypedFacts DEF ThreadsInv, LoginsAlive
<1>3. PICK l \in Logins : l = auth[c].login
  BY <1>2 DEF Authentication
<1>4. PICK k \in Nat : k = sessionId[c]
  BY PlaceTypes
<1>5. /\ k < Len(mSessions) /\ mSessions[k + 1] = [socket |-> {c}, login |-> holder[c]]
      /\ ~IsReleasing(k) /\ mSessions[k + 1] # Free
  BY <1>2, <1>4, TakenPlace DEF InPlace, OwnPlaces
<1>6. /\ mSessions' = [mSessions EXCEPT ![k + 1].login = {l}]
      /\ holder' = [holder EXCEPT ![c] = {l}]
  BY <1>3, <1>4, <1>5 DEF EnterUser
<1>7. UNCHANGED <<mFreeSessionIdQueue, phase, sessionId, socketUp, disconnects, mainQueue>>
  BY DEF EnterUser, threads
<1>8. /\ Len(mSessions') = Len(mSessions) /\ Len(mSessions) \in Nat
      /\ \A i \in 1..Len(mSessions) :
           mSessions'[i] = IF i = k + 1 THEN [mSessions[k + 1] EXCEPT !.login = {l}]
                                        ELSE mSessions[i]
  <2>1. k + 1 \in Nat
    OBVIOUS
  <2> QED  BY <1>6, <2>1, LoginWritten, TypedFacts
<1>9. k + 1 \in 1..Len(mSessions)
  BY <1>5, <1>8
<1>10. mSessions'[k + 1] = [socket |-> {c}, login |-> {l}] /\ mSessions'[k + 1] # Free
  <2>1. mSessions'[k + 1] = [socket |-> {c}, login |-> {l}]
    <3>1. PICK h : h = holder[c]
      OBVIOUS
    <3>2. [[socket |-> {c}, login |-> h] EXCEPT !.login = {l}] = [socket |-> {c}, login |-> {l}]
      OBVIOUS
    <3>3. mSessions'[k + 1] = [mSessions[k + 1] EXCEPT !.login = {l}]
      BY <1>8, <1>9
    <3>4. mSessions[k + 1] = [socket |-> {c}, login |-> h]
      BY <1>5, <3>1
    <3> QED  BY <3>2, <3>3, <3>4
  <2> QED  BY <2>1, TakenPlace
<1>11. ASSUME NEW m \in Nat, m < Len(mSessions), m # k
       PROVE  mSessions'[m + 1] = mSessions[m + 1]
  <2>1. m + 1 \in 1..Len(mSessions) /\ m + 1 # k + 1
    BY <1>8, <1>11
  <2> QED  BY <1>8, <2>1
<1>12. holder'[c] = {l} /\ \A d \in Sockets : d # c => holder'[d] = holder[d]
  BY <1>6, TypedFacts
<1>13. ASSUME NEW d \in Sockets, phase[d] = "alive"
       PROVE  /\ sessionId[d] < Len(mSessions)
              /\ mSessions'[sessionId[d] + 1] = [socket |-> {d}, login |-> holder'[d]]
              /\ ~IsReleasing(sessionId[d])
  <2>1. CASE d = c
    BY <1>4, <1>5, <1>10, <1>12, <2>1
  <2>2. CASE d # c
    <3>1. PICK m \in Nat : m = sessionId[d]
      BY PlaceTypes
    <3>2. /\ m < Len(mSessions) /\ mSessions[m + 1] = [socket |-> {d}, login |-> holder[d]]
          /\ ~IsReleasing(m)
      BY <1>13, <3>1 DEF InPlace, OwnPlaces
    <3>3. m # k
      BY <1>2, <1>4, <1>13, <2>2, <3>1, OwnPlace2 DEF InPlace
    <3> QED  BY <1>11, <1>12, <2>2, <3>1, <3>2, <3>3
  <2> QED  BY <2>1, <2>2
<1>14. OwnPlaces'
  BY <1>7, <1>8, <1>13 DEF OwnPlaces, IsReleasing
<1>15. OneDisconnect'
  BY <1>7 DEF InPlace, OneDisconnect
<1>16. ASSUME NEW i \in 1..Len(mainQueue), mainQueue[i].event = "release"
       PROVE  mainQueue[i].id < Len(mSessions) /\ mSessions'[mainQueue[i].id + 1] # Free
  <2>1. PICK m \in Nat : m = mainQueue[i].id
    BY <1>16, PlaceTypes
  <2>2. m < Len(mSessions) /\ mSessions[m + 1] # Free
    BY <1>16, <2>1 DEF InPlace, ReleasedOnce
  <2> QED  BY <1>10, <1>11, <2>1, <2>2
<1>17. ReleasedOnce'
  BY <1>7, <1>8, <1>16 DEF InPlace, ReleasedOnce
<1>18. ASSUME NEW j \in 1..Len(mFreeSessionIdQueue)
       PROVE  /\ mFreeSessionIdQueue[j] < Len(mSessions)
              /\ mSessions'[mFreeSessionIdQueue[j] + 1] = Free
  <2>1. PICK m \in Nat : m = mFreeSessionIdQueue[j]
    BY PlaceTypes
  <2>2. m < Len(mSessions) /\ mSessions[m + 1] = Free
    BY <2>1 DEF InPlace, FreePlaces
  <2>3. m # k
    BY <1>5, <2>2
  <2> QED  BY <1>11, <2>1, <2>2, <2>3
<1>19. \A i \in 1..Len(mSessions) : mSessions'[i] = Free => mSessions[i] = Free
  BY <1>8, <1>10
<1>20. FreePlaces'
  BY <1>7, <1>8, <1>18, <1>19 DEF InPlace, FreePlaces
<1> QED  BY <1>14, <1>15, <1>17, <1>20 DEF InPlace

\* Every step keeps the places.
LEMMA PlacesNext ==
  ASSUME Typed, ThreadsInv, PlacesInv, [Next]_vars
  PROVE  PlacesInv'
<1> SUFFICES ASSUME raced' = {}, serverUp' PROVE InPlace'
  BY DEF PlacesInv
<1>1. CASE Restart
  <2>1. /\ mSessions' = <<>> /\ mFreeSessionIdQueue' = <<>> /\ mainQueue' = <<>> /\ socketUp' = {}
        /\ phase' = [c \in Sockets |-> IF phase[c] = "none" THEN "none" ELSE "deleted"]
        /\ disconnects' = [c \in Sockets |-> {}]
    BY <1>1 DEF Restart
  <2>2. /\ Len(mSessions') = 0 /\ Len(mFreeSessionIdQueue') = 0 /\ Len(mainQueue') = 0
    BY <2>1, EmptySeq
  <2>3. \A c \in Sockets : phase'[c] # "alive" /\ disconnects'[c] = {} /\ c \notin socketUp'
    BY <2>1
  <2>4. OneDisconnect' /\ OwnPlaces'
    BY <2>3 DEF OneDisconnect, OwnPlaces
  <2>5. ReleasedOnce' /\ FreePlaces'
    BY <2>2 DEF ReleasedOnce, FreePlaces
  <2> QED  BY <2>4, <2>5 DEF InPlace
<1>2. ASSUME UNCHANGED <<places, threads, holder, mainQueue>>, InPlace PROVE InPlace'
  <2>1. UNCHANGED <<mSessions, mFreeSessionIdQueue, sessionId, phase, holder, mainQueue,
                    socketUp, disconnects>>
    BY <1>2 DEF places, threads
  <2>2. OneDisconnect' /\ ReleasedOnce' /\ \A id : IsReleasing(id)' => IsReleasing(id)
    BY <1>2, <2>1 DEF InPlace, OneDisconnect, ReleasedOnce, IsReleasing
  <2> QED  BY <1>2, <2>1, <2>2, PlacesKept
<1>3. CASE UNCHANGED vars
  <2>1. raced = {} /\ serverUp /\ UNCHANGED <<places, threads, holder, mainQueue>>
    BY <1>3 DEF vars, histories, logins
  <2> QED  BY <1>2, <2>1 DEF PlacesInv
<1>4. ASSUME NEW c \in Sockets, onNewConnection(c) PROVE InPlace'
  <2>1. raced = {} /\ serverUp
    BY <1>4 DEF onNewConnection, histories
  <2> QED  BY <1>4, <2>1, ConnectionPlace DEF PlacesInv
<1>5. CASE releaseClientPlace
  <2>1. raced = {} /\ serverUp
    BY <1>5 DEF releaseClientPlace, NextEvent, histories
  <2> QED  BY <1>5, <2>1, ReleasePlace DEF PlacesInv
<1>6. CASE quitThread \/ deleteThread
  <2>1. raced = {} /\ serverUp
    BY <1>6 DEF quitThread, deleteThread, NextEvent, histories
  <2> QED  BY <1>6, <2>1, EndPlaces DEF PlacesInv
<1>7. ASSUME NEW l \in Logins, killAllSessionByLogin(l) PROVE InPlace'
  <2>1. serverUp
    BY <1>7 DEF killAllSessionByLogin
  <2>2. raced = {}
    BY <1>7 DEF killAllSessionByLogin
  <2> QED  BY <1>7, <2>1, <2>2, KillPlaces DEF PlacesInv
<1>8. ASSUME NEW c \in Sockets, SocketDisconnects(c) PROVE InPlace'
  <2>1. /\ raced = {} /\ serverUp /\ c \in socketUp /\ socketUp' = socketUp \ {c}
        /\ UNCHANGED <<mSessions, mFreeSessionIdQueue, sessionId, phase, holder, mainQueue>>
        /\ disconnects' = [disconnects EXCEPT ![c] = @ \cup {"own"}]
    BY <1>8 DEF SocketDisconnects, histories, places, logins
  <2>2. InPlace
    BY <2>1 DEF PlacesInv
  <2>3. disconnects[c] = {} /\ phase[c] = "alive"
    BY <2>1, <2>2 DEF InPlace, OneDisconnect
  <2>4. disconnects'[c] = {"own"} /\ \A d \in Sockets : d # c => disconnects'[d] = disconnects[d]
    BY <2>1, <2>3, TypedFacts
  <2>5. OneDisconnect'
    BY <2>1, <2>2, <2>3, <2>4 DEF InPlace, OneDisconnect
  <2>6. ReleasedOnce' /\ \A id : IsReleasing(id)' => IsReleasing(id)
    BY <2>1, <2>2 DEF InPlace, ReleasedOnce, IsReleasing
  <2> QED  BY <2>1, <2>2, <2>5, <2>6, PlacesKept
<1>9. ASSUME NEW c \in Sockets,
             StartAuth(c) \/ LockAuth(c) \/ CheckAccount(c) \/ AddAccount(c)
      PROVE  InPlace'
  <2>1. raced = {} /\ serverUp /\ UNCHANGED <<places, threads, holder, mainQueue>>
    BY <1>9 DEF StartAuth, LockAuth, CheckAccount, AddAccount, OnlyAuth, At
  <2> QED  BY <1>2, <2>1 DEF PlacesInv
<1>10. ASSUME NEW c \in Sockets, EnterUser(c) PROVE InPlace'
  <2>1. raced = {} /\ serverUp
    BY <1>10 DEF EnterUser, At
  <2> QED  BY <1>10, <2>1, EnterPlace DEF PlacesInv
<1>11. ASSUME NEW c \in Sockets, disconnectSocket(c) PROVE InPlace'
  <2>1. raced = {} /\ serverUp
    BY <1>11 DEF disconnectSocket, histories
  <2> QED  BY <1>11, <2>1, DisconnectPlace DEF PlacesInv
<1>12. ASSUME NEW c \in Sockets, DeleteSession(c) \/ FinishThread(c) PROVE InPlace'
  <2>1. raced = {} /\ serverUp
    BY <1>12 DEF DeleteSession, FinishThread, histories
  <2> QED  BY <1>12, <2>1, EndPlaces DEF PlacesInv
<1>13. CASE Crash
  BY <1>13 DEF Crash
<1> QED
  BY <1>1, <1>3, <1>4, <1>5, <1>6, <1>7, <1>8, <1>9, <1>10, <1>11, <1>12, <1>13
  DEF Next, MainThread, SessionThread

-----------------------------------------------------------------------------
(***************************************************************************)
(* The invariant, and what follows from it.                                *)
(***************************************************************************)

\* At the start there is no session, no account and no user.
LEMMA ManagerInvInit == Init => ManagerInv
<1> SUFFICES ASSUME Init PROVE ManagerInv
  OBVIOUS
<1>1. Typed
  <2>1. /\ <<>> \in Seq([socket : SUBSET Sockets, login : SUBSET Logins]) /\ <<>> \in Seq(Nat)
        /\ <<>> \in Seq([login : Logins, password : Passwords \cup {CutPassword}])
        /\ <<>> \in Seq(Event)
    BY EmptySeq
  <2>2. /\ phase \in [Sockets -> Phases] /\ sessionId \in [Sockets -> Nat]
        /\ disconnects \in [Sockets -> SUBSET {"own", "posted"}]
        /\ holder \in [Sockets -> SUBSET Logins]
        /\ auth \in [Sockets -> {NoAuth} \cup Authentication]
        /\ mUsers \in [DOMAIN mUsers -> Nat] /\ DOMAIN mUsers \subseteq Logins
    BY DEF Init, Phases
  <2>3. kills \in 0..MaxKills /\ crashes \in 0..MaxCrashes
    BY BoundsAssumption DEF Init
  <2> QED  BY <2>1, <2>2, <2>3 DEF Init, Typed, TypeOK
<1>2. \A c \in Sockets : auth[c].at = "none" /\ auth[c] = NoAuth /\ holder[c] = {}
  BY DEF Init, NoAuth
<1>3. AccountsInv
  <2>1. MutexHeld /\ Checked
    BY <1>2 DEF MutexHeld, Checked, Holding
  <2>2. DistinctLogins(mUsersCredentials) /\ UsersRegistered /\ FileWritten
    BY EmptySeq DEF Init, DistinctLogins, UsersRegistered, FileWritten
  <2> QED  BY <2>1, <2>2 DEF AccountsInv
<1>4. ThreadsInv
  BY <1>2, EmptySeq DEF Init, ThreadsInv, LoginsAlive, HoldersAlive, EndsOfGone
<1>5. HoldersInv
  <2>1. Holders = {} /\ \A l \in Logins : {c \in Sockets : holder[c] = {l}} = {}
    BY <1>2 DEF Holders
  <2> QED  BY <2>1, FS_EmptySet DEF HoldersInv, HolderStays
<1>6. PlacesInv
  <2>1. \A c \in Sockets : phase[c] = "none" /\ disconnects[c] = {} /\ c \notin socketUp
    BY DEF Init
  <2>2. OneDisconnect /\ OwnPlaces
    BY <2>1 DEF OneDisconnect, OwnPlaces
  <2>3. ReleasedOnce /\ FreePlaces
    BY EmptySeq DEF Init, ReleasedOnce, FreePlaces
  <2> QED  BY <2>2, <2>3 DEF PlacesInv, InPlace
<1> QED  BY <1>1, <1>3, <1>4, <1>5, <1>6 DEF ManagerInv

\* Every step of the main thread, a session's thread or the process keeps it.
LEMMA ManagerInvNext == ManagerInv /\ [Next]_vars => ManagerInv'
<1> SUFFICES ASSUME ManagerInv, [Next]_vars PROVE ManagerInv'
  OBVIOUS
<1>1. HoldersInv' /\ PlacesInv'
  BY HoldersNext, PlacesNext DEF ManagerInv
<1>2. CASE \/ \E c \in Sockets : onNewConnection(c)
           \/ releaseClientPlace \/ quitThread \/ deleteThread
           \/ \E l \in Logins : killAllSessionByLogin(l)
  <2>1. Typed' /\ ThreadsInv'
    BY <1>2, MainThreadTypes, MainThreadThreads DEF ManagerInv
  <2>2. UNCHANGED <<mUsersCredentials, credentialsFile, mMutexOnAuth, auth>>
        /\ DOMAIN mUsers' \subseteq DOMAIN mUsers
    <3>1. CASE releaseClientPlace
      BY <3>1 DEF releaseClientPlace, logins
    <3>2. CASE \E c \in Sockets : onNewConnection(c)
      BY <3>2 DEF onNewConnection, accounts, logins
    <3>3. CASE quitThread \/ deleteThread
      BY <3>3 DEF quitThread, deleteThread, accounts, logins
    <3>4. CASE \E l \in Logins : killAllSessionByLogin(l)
      BY <3>4 DEF killAllSessionByLogin, accounts, logins
    <3> QED  BY <1>2, <3>1, <3>2, <3>3, <3>4
  <2>3. AccountsInv'
    BY <2>2, AccountsKept DEF ManagerInv
  <2> QED  BY <1>1, <2>1, <2>3 DEF ManagerInv
<1>3. ASSUME NEW c \in Sockets, SocketDisconnects(c) \/ StartAuth(c) \/ SessionThread(c)
      PROVE  ManagerInv'
  <2>1. Typed' /\ ThreadsInv'
    BY <1>3, SessionThreadTypes, SessionThreads DEF ManagerInv
  <2>2. AccountsInv'
    <3>1. CASE StartAuth(c) \/ LockAuth(c) \/ CheckAccount(c)
      BY <3>1, LoginAccounts DEF ManagerInv
    <3>2. CASE AddAccount(c)
      BY <3>2, AddAccounts DEF ManagerInv
    <3>3. CASE EnterUser(c)
      BY <3>3, EnterAccounts DEF ManagerInv
    <3>4. CASE SocketDisconnects(c) \/ disconnectSocket(c) \/ DeleteSession(c) \/ FinishThread(c)
      <4>1. UNCHANGED <<mUsersCredentials, credentialsFile, mMutexOnAuth, auth, mUsers>>
        BY <3>4 DEF SocketDisconnects, disconnectSocket, DeleteSession, FinishThread, accounts,
                    logins
      <4> QED  BY <4>1, AccountsKept DEF ManagerInv
    <3> QED  BY <1>3, <3>1, <3>2, <3>3, <3>4 DEF SessionThread
  <2> QED  BY <1>1, <2>1, <2>2 DEF ManagerInv
<1>4. CASE Crash \/ Restart \/ UNCHANGED vars
  <2>1. Typed' /\ ThreadsInv'
    BY <1>4, ProcessTypes, ProcessThreads DEF ManagerInv
  <2>2. AccountsInv'
    <3>1. CASE Restart
      BY <3>1, RestartKeepsAccounts DEF ManagerInv
    <3>2. CASE Crash \/ UNCHANGED vars
      <4>1. UNCHANGED <<mUsersCredentials, credentialsFile, mMutexOnAuth, auth, mUsers>>
        BY <3>2 DEF Crash, vars, accounts, logins
      <4> QED  BY <4>1, AccountsKept DEF ManagerInv
    <3> QED  BY <1>4, <3>1, <3>2
  <2> QED  BY <1>1, <2>1, <2>2 DEF ManagerInv
<1> QED  BY <1>2, <1>3, <1>4 DEF Next, MainThread

\* In every state the manager can be in.
LEMMA ManagerInvHolds == Spec => []ManagerInv
BY ManagerInvInit, ManagerInvNext, PTL DEF Spec

\* The state of the manager keeps its types, whatever sessions come, end,
\* log in and are killed.
THEOREM TypeCorrect == Spec => []TypeOK
<1>1. ManagerInv => TypeOK
  BY DEF ManagerInv, Typed
<1> QED  BY <1>1, ManagerInvHolds, PTL

\* mMutexOnAuth makes the check of tryRegister and the account it adds one
\* step: no login is registered twice, a second account of a login is one
\* that a crash cut out of the file, whatever part of it is read again, and
\* a user registered anew is not in mUsers.
THEOREM OneAccount == Spec => []OneAccountPerLogin
<1>1. ManagerInv => OneAccountPerLogin
  BY DEF ManagerInv, AccountsInv, DistinctLogins, IsCut, Checked, OneAccountPerLogin
<1> QED  BY <1>1, ManagerInvHolds, PTL

\* releaseClientPlace erases no user whose UserDataHolder a session points
\* to: the sessions of a user never outnumber sessionNumber.
THEOREM HoldersStay == Spec => []HolderStays
<1>1. ManagerInv => HolderStays
  BY DEF ManagerInv, HoldersInv
<1> QED  BY <1>1, ManagerInvHolds, PTL

\* onNewConnection gives no id away twice, and releaseClientPlace takes back
\* every place once: mFreeSessionIdQueue holds exactly the free places.
THEOREM OwnPlace == Spec => []PlacesAreOwn
<1>1. ASSUME ManagerInv, raced = {}, serverUp PROVE InPlace
  BY <1>1 DEF ManagerInv, PlacesInv
<1>2. ASSUME InPlace, NEW c \in Sockets, phase[c] = "alive"
      PROVE  mSessions[sessionId[c] + 1].socket = {c} /\ ~IsReleasing(sessionId[c])
  <2>1. /\ mSessions[sessionId[c] + 1] = [socket |-> {c}, login |-> holder[c]]
        /\ ~IsReleasing(sessionId[c])
    BY <1>2 DEF InPlace, OwnPlaces
  <2> QED  BY <2>1
<1>3. ASSUME ManagerInv, InPlace, NEW i \in 1..Len(mSessions)
      PROVE  Cardinality({k \in 1..Len(mFreeSessionIdQueue) : mFreeSessionIdQueue[k] = i - 1})
               = IF mSessions[i] = Free THEN 1 ELSE 0
  <2> DEFINE queued == {k \in 1..Len(mFreeSessionIdQueue) : mFreeSessionIdQueue[k] = i - 1}
  <2>1. CASE mSessions[i] = Free
    <3>1. PICK k \in 1..Len(mFreeSessionIdQueue) : mFreeSessionIdQueue[k] = i - 1
      BY <1>3, <2>1 DEF InPlace, FreePlaces
    <3>2. queued = {k}
      BY <1>3, <3>1 DEF InPlace, FreePlaces
    <3> QED  BY <2>1, <3>2, FS_Singleton
  <2>2. CASE mSessions[i] # Free
    <3>1. i \in Nat /\ (i - 1) + 1 = i
      BY <1>3, TypedFacts DEF ManagerInv
    <3>2. queued = {}
      BY <1>3, <2>2, <3>1 DEF InPlace, FreePlaces
    <3> QED  BY <2>2, <3>2, FS_EmptySet
  <2> QED  BY <2>1, <2>2
<1>4. ManagerInv => PlacesAreOwn
  BY <1>1, <1>2, <1>3 DEF PlacesAreOwn
<1> QED  BY <1>4, ManagerInvHolds, PTL

\* The place of a session names the user it serves, from the login to the
\* release: the operator's list and "kill" find it there.
THEOREM CarriesLogin == Spec => []PlaceCarriesLogin
<1>1. ASSUME ManagerInv, raced = {}, serverUp, NEW c \in Sockets, phase[c] = "alive"
      PROVE  mSessions[sessionId[c] + 1].login = holder[c]
  <2>1. mSessions[sessionId[c] + 1] = [socket |-> {c}, login |-> holder[c]]
    BY <1>1 DEF ManagerInv, PlacesInv, InPlace, OwnPlaces
  <2> QED  BY <2>1
<1>2. ManagerInv => PlaceCarriesLogin
  BY <1>1 DEF PlaceCarriesLogin
<1> QED  BY <1>2, ManagerInvHolds, PTL
=============================================================================
