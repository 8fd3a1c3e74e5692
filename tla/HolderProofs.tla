---------------------------- MODULE HolderProofs ----------------------------
(***************************************************************************)
(* Proofs of the safety properties of UserDataHolder, and that it          *)
(* implements BackupStore, for every number of sessions, archives,         *)
(* backups, restores and crashes.                                          *)
(***************************************************************************)
EXTENDS UserDataHolder, SequenceTheorems, TLAPS

\* How far addNewBackup is when it has taken its id.
Adding == {"open", "save", "saving", "leave"}

\* What a session's call relies on: a writer that is past the lock has it
\* alone, and the id of a method is in range.
Fits(s) ==
  /\ call[s].method = "add" => call[s].archive \in Archives
  /\ call[s].method \in WriteMethods /\ call[s].at # "lock" => writer = {s}
  /\ call[s].method = "add" /\ call[s].at \in Adding => call[s].id < newBackupId
  /\ call[s].method \in {"lookup", "fetch", "count"} => call[s].id < Len(metadatas)
  /\ known[s] <= newBackupId

\* Before the first login nothing is known, and nobody has called anything.
NothingCalled ==
  /\ newBackupId = 0
  /\ acknowledged = <<>>
  /\ \A s \in Sessions : call[s].method = "none" /\ known[s] = 0

HolderInv ==
  /\ TypeOK
  /\ newBackupId = Len(metadatas)
  /\ ~loaded => NothingCalled
  /\ \A s \in Sessions : Fits(s)

-----------------------------------------------------------------------------
(***************************************************************************)
(* What the operators on lists and files do.                               *)
(***************************************************************************)

\* Counting a restore keeps the list's type and length.
LEMMA CountedProperties ==
  ASSUME NEW m \in Seq(Entry), NEW i \in 1..Len(m)
  PROVE  /\ [m EXCEPT ![i].succ = @ + 1] \in Seq(Entry)
         /\ Len([m EXCEPT ![i].succ = @ + 1]) = Len(m)
         /\ [m EXCEPT ![i].fail = @ + 1] \in Seq(Entry)
         /\ Len([m EXCEPT ![i].fail = @ + 1]) = Len(m)
<1>1. m[i] \in Entry
  BY ElementOfSeq
<1>2. ASSUME NEW e \in Entry
      PROVE  /\ [e EXCEPT !.succ = @ + 1] \in Entry
             /\ [e EXCEPT !.fail = @ + 1] \in Entry
  <2>1. e.succ + 1 \in Nat /\ e.fail + 1 \in Nat
    BY DEF Entry
  <2> QED  BY <2>1 DEF Entry
<1>3. /\ [m EXCEPT ![i].succ = @ + 1] = [m EXCEPT ![i] = [m[i] EXCEPT !.succ = @ + 1]]
      /\ [m EXCEPT ![i].fail = @ + 1] = [m EXCEPT ![i] = [m[i] EXCEPT !.fail = @ + 1]]
  OBVIOUS
<1> QED  BY <1>1, <1>2, <1>3, ExceptSeq

\* A file that was cut short parses to a list that is no longer.
LEMMA CutShortProperties ==
  ASSUME NEW m \in Seq(Entry), NEW e \in CutShort(m)
  PROVE  e \in Seq(Entry) /\ Len(e) <= Len(m)
<1>1. Len(m) \in Nat
  BY LenProperties
<1>2. CASE e = <<>>
  BY <1>1, <1>2, EmptySeq
<1>3. ASSUME NEW n \in 1..Len(m)
      PROVE  /\ SubSeq(m, 1, n) \in Seq(Entry)
             /\ Len(SubSeq(m, 1, n)) = n
  <2>1. \A i \in 1..n : m[i] \in Entry
    BY <1>1, ElementOfSeq
  <2> QED  BY <1>1, <2>1, SubSeqProperties
<1>4. ASSUME NEW n \in 1..Len(m), e = SubSeq(m, 1, n)
      PROVE  e \in Seq(Entry) /\ Len(e) <= Len(m)
  BY <1>1, <1>3, <1>4
<1>5. ASSUME NEW n \in 1..Len(m), NEW k \in {0, m[n].succ},
             e = [SubSeq(m, 1, n) EXCEPT ![n] = [succ |-> k, fail |-> 0]]
      PROVE  e \in Seq(Entry) /\ Len(e) <= Len(m)
  <2>1. m[n] \in Entry
    BY ElementOfSeq
  <2>2. [succ |-> k, fail |-> 0] \in Entry
    BY <2>1 DEF Entry
  <2>3. n \in 1..Len(SubSeq(m, 1, n))
    BY <1>1, <1>3
  <2>4. e \in Seq(Entry) /\ Len(e) = Len(SubSeq(m, 1, n))
    BY <1>3, <1>5, <2>2, <2>3, ExceptSeq
  <2> QED  BY <1>1, <1>3, <2>4
<1>6. \/ e = <<>>
      \/ \E n \in 1..Len(m) :
           \/ e = SubSeq(m, 1, n)
           \/ \E k \in {0, m[n].succ} :
                e = [SubSeq(m, 1, n) EXCEPT ![n] = [succ |-> k, fail |-> 0]]
  BY Zenon DEF CutShort
<1> QED  BY <1>2, <1>4, <1>5, <1>6

\* Putting a value in adds that value at most.
LEMMA PutRange ==
  ASSUME NEW f, NEW x, NEW v, NEW S, Range(f) \subseteq S, v \in S
  PROVE  Range(Put(f, x, v)) \subseteq S
<1>1. \A y \in DOMAIN f : f[y] \in S
  BY DEF Range
<1>2. \A y \in DOMAIN f \cup {x} : (IF y = x THEN v ELSE f[y]) \in S
  BY <1>1
<1> QED  BY <1>2 DEF Put, Range

\* Changing a value adds the new one at most.
LEMMA ExceptRange ==
  ASSUME NEW f, NEW x, NEW v, NEW S, Range(f) \subseteq S, v \in S
  PROVE  Range([f EXCEPT ![x] = v]) \subseteq S
  BY DEF Range

-----------------------------------------------------------------------------
(***************************************************************************)
(* The invariant.                                                          *)
(***************************************************************************)

\* Nothing is loaded and nobody has called anything at first.
LEMMA HolderInit == Init => HolderInv
<1> SUFFICES ASSUME Init PROVE HolderInv
  OBVIOUS
<1>1. <<>> \in Seq(Entry) /\ Len(<<>>) = 0
  BY EmptySeq
<1>2. DOMAIN <<>> = {}
  BY <1>1, LenProperties
<1>3. /\ Range(archiveFiles) \subseteq Archives \cup {"short"}
      /\ Range(acknowledged) \subseteq Archives
  BY <1>2 DEF Init, Range
<1>4. NoCall \in Call
  BY DEF NoCall, Call
<1>5. TypeOK
  <2>1. /\ loaded \in BOOLEAN
        /\ metadatas \in Seq(Entry) /\ usermetas \in Seq(Entry)
        /\ newBackupId \in Nat
        /\ readers \subseteq Sessions /\ writer \subseteq Sessions
    BY <1>1 DEF Init
  <2>2. known \in [Sessions -> Nat] /\ call \in [Sessions -> Call]
    BY <1>4 DEF Init
  <2>3. crashes \in 0..MaxCrashes
    BY ConstantsAssumption DEF Init
  <2> QED  BY <1>3, <2>1, <2>2, <2>3 DEF TypeOK
<1>6. NothingCalled /\ newBackupId = Len(metadatas)
  BY <1>1 DEF Init, NothingCalled, NoCall
<1>7. \A s \in Sessions : Fits(s)
  BY DEF Init, Fits, NoCall, WriteMethods
<1> QED  BY <1>5, <1>6, <1>7 DEF HolderInv

\* A session's step leaves alone what the calls of the others rely on: it
\* adds to the list at most, and it has the lock, takes it when it is free or
\* does not touch it.
LEMMA OthersFit ==
  ASSUME HolderInv, NEW s \in Sessions,
         \A t \in Sessions \ {s} : call'[t] = call[t] /\ known'[t] = known[t],
         newBackupId' \in Nat, newBackupId <= newBackupId',
         newBackupId' = Len(metadatas'),
         writer' = writer \/ writer = {} \/ writer = {s}
  PROVE  \A t \in Sessions \ {s} : Fits(t)'
<1> SUFFICES ASSUME NEW t \in Sessions \ {s} PROVE Fits(t)'
  OBVIOUS
<1>1. Fits(t) /\ newBackupId = Len(metadatas)
  BY DEF HolderInv
<1>2. newBackupId \in Nat /\ known[t] \in Nat /\ call[t].id \in Nat
  BY DEF HolderInv, TypeOK, Call
<1>3. call[t].method \in WriteMethods /\ call[t].at # "lock" => writer' = {t}
  BY <1>1 DEF Fits
<1> QED  BY <1>1, <1>2, <1>3 DEF Fits

\* What a session that goes on in its method, or returns from it, changes.
LEMMA CallChanges ==
  ASSUME HolderInv, NEW s \in Sessions, NEW c \in Call,
         call' = [call EXCEPT ![s] = c]
  PROVE  /\ call' \in [Sessions -> Call]
         /\ call'[s] = c
         /\ \A t \in Sessions \ {s} : call'[t] = call[t]
  BY DEF HolderInv, TypeOK

\* A session that is in no method has a well-typed call.
LEMMA NoCallIsCall == NoCall \in Call
  BY DEF NoCall, Call

\* A session that goes on keeps the method, the arguments and the result.
LEMMA GoesChanges ==
  ASSUME HolderInv, NEW s \in Sessions,
         NEW at \in {"locked", "save", "saving", "leave"}, Goes(s, at)
  PROVE  /\ call' \in [Sessions -> Call]
         /\ call'[s].at = at
         /\ call'[s].method = call[s].method /\ call'[s].id = call[s].id
         /\ call'[s].archive = call[s].archive /\ call'[s].ok = call[s].ok
         /\ \A t \in Sessions \ {s} : call'[t] = call[t]
<1> DEFINE c == [call[s] EXCEPT !.at = at]
<1>1. call \in [Sessions -> Call] /\ call[s] \in Call
  BY DEF HolderInv, TypeOK
<1>2. c \in Call
  BY <1>1 DEF Call
<1>3. c.at = at /\ c.method = call[s].method /\ c.id = call[s].id
      /\ c.archive = call[s].archive /\ c.ok = call[s].ok
  BY <1>1 DEF Call
<1>4. call' = [call EXCEPT ![s] = c]
  BY <1>1 DEF Goes
<1> HIDE DEF c
<1> QED  BY <1>2, <1>3, <1>4, CallChanges

\* The step of a session keeps the invariant if it keeps its types and fits.
LEMMA SessionStep ==
  ASSUME HolderInv, NEW s \in Sessions, loaded', TypeOK', Fits(s)',
         \A t \in Sessions \ {s} : call'[t] = call[t] /\ known'[t] = known[t],
         newBackupId <= newBackupId', newBackupId' = Len(metadatas'),
         writer' = writer \/ writer = {} \/ writer = {s}
  PROVE  HolderInv'
<1>1. newBackupId' \in Nat
  BY DEF TypeOK
<1>2. \A t \in Sessions \ {s} : Fits(t)'
  BY <1>1, OthersFit
<1> QED  BY <1>2 DEF HolderInv

\* A method is called with an archive to store, or with an id of the list.
LEMMA BeginStep ==
  ASSUME HolderInv, NEW s \in Sessions, NEW c \in Call, Begin(s, c),
         c.method = "add" => c.archive \in Archives,
         c.method \in {"lookup", "fetch", "count"} => c.id < newBackupId
  PROVE  /\ HolderInv' /\ call'[s].at = "lock"
         /\ \A t \in Sessions \ {s} : call'[t] = call[t]
<1> DEFINE d == [c EXCEPT !.at = "lock"]
<1>1. d \in Call /\ d.at = "lock" /\ d.method = c.method /\ d.id = c.id /\ d.archive = c.archive
  BY DEF Call
<1>2. call' = [call EXCEPT ![s] = d]
  BY DEF Begin
<1> HIDE DEF d
<1>3. /\ call' \in [Sessions -> Call] /\ call'[s] = d
      /\ \A t \in Sessions \ {s} : call'[t] = call[t]
  BY <1>1, <1>2, CallChanges
<1>4. UNCHANGED <<memory, disk, histories>> /\ loaded
  BY DEF Begin
<1>5. TypeOK'
  BY <1>3, <1>4 DEF HolderInv, TypeOK, memory, disk, histories
<1>6. Fits(s)'
  BY <1>1, <1>3, <1>4 DEF HolderInv, Fits, Adding, memory
<1>7. /\ loaded' /\ newBackupId <= newBackupId' /\ newBackupId' = Len(metadatas')
      /\ writer' = writer /\ known' = known
  BY <1>4 DEF HolderInv, TypeOK, memory
<1>8. HolderInv'
  BY <1>3, <1>5, <1>6, <1>7, SessionStep
<1> QED  BY <1>1, <1>3, <1>8

\* Every call a handler makes is such a call: the id was seen in the list.
LEMMA CallMethodStep ==
  ASSUME HolderInv, NEW s \in Sessions, CallMethod(s)
  PROVE  /\ HolderInv' /\ call'[s].at = "lock"
         /\ \A t \in Sessions \ {s} : call'[t] = call[t]
<1> DEFINE Began == /\ HolderInv' /\ call'[s].at = "lock"
                    /\ \A t \in Sessions \ {s} : call'[t] = call[t]
<1>1. newBackupId \in Nat /\ known[s] \in Nat /\ known[s] <= newBackupId /\ BackupIds \subseteq Nat
  BY ConstantsAssumption DEF HolderInv, TypeOK, Fits
<1>2. CASE Begin(s, [NoCall EXCEPT !.method = "size"])
  <2> DEFINE c == [NoCall EXCEPT !.method = "size"]
  <2>1. c \in Call /\ c.method = "size"
    BY DEF NoCall, Call, ReadMethods, WriteMethods
  <2>2. Begin(s, c)
    BY <1>2
  <2> HIDE DEF c
  <2> QED  BY <2>1, <2>2, BeginStep
<1>3. ASSUME NEW id \in BackupIds, Begin(s, [NoCall EXCEPT !.method = "valid", !.id = id])
      PROVE  Began
  <2> DEFINE c == [NoCall EXCEPT !.method = "valid", !.id = id]
  <2>1. c \in Call /\ c.method = "valid" /\ c.id = id
    BY <1>1 DEF NoCall, Call, ReadMethods, WriteMethods
  <2>2. Begin(s, c)
    BY <1>3
  <2> HIDE DEF c
  <2> QED  BY <2>1, <2>2, BeginStep
<1>4. ASSUME NEW m \in {"lookup", "fetch"}, NEW id \in BackupIds, id < known[s],
             Begin(s, [NoCall EXCEPT !.method = m, !.id = id])
      PROVE  Began
  <2> DEFINE c == [NoCall EXCEPT !.method = m, !.id = id]
  <2>1. c \in Call /\ c.method = m /\ c.id = id
    BY <1>1 DEF NoCall, Call, ReadMethods, WriteMethods
  <2>2. Begin(s, c) /\ id < newBackupId
    BY <1>1, <1>4
  <2> HIDE DEF c
  <2> QED  BY <2>1, <2>2, BeginStep
<1>5. ASSUME NEW id \in BackupIds, NEW ok \in BOOLEAN, BeginCount(s, id, ok)
      PROVE  Began
  <2> DEFINE c == [NoCall EXCEPT !.method = "count", !.id = id, !.ok = ok]
  <2>1. c \in Call /\ c.method = "count" /\ c.id = id
    BY <1>1 DEF NoCall, Call, ReadMethods, WriteMethods
  <2>2. Begin(s, c) /\ id < newBackupId
    BY <1>1, <1>5 DEF BeginCount
  <2> HIDE DEF c
  <2> QED  BY <2>1, <2>2, BeginStep
<1>6. ASSUME NEW a \in Archives, BeginAdd(s, a)
      PROVE  Began
  <2> DEFINE c == [NoCall EXCEPT !.method = "add", !.archive = a]
  <2>1. c \in Call /\ c.method = "add" /\ c.archive = a
    BY DEF NoCall, Call, ReadMethods, WriteMethods
  <2>2. Begin(s, c)
    BY <1>6 DEF BeginAdd
  <2> HIDE DEF c
  <2> QED  BY <2>1, <2>2, BeginStep
<1> QED  BY <1>2, <1>3, <1>4, <1>5, <1>6 DEF CallMethod

\* The lock is taken, by a reader or, when nobody has it, by a writer.
LEMMA LockStep ==
  ASSUME HolderInv, NEW s \in Sessions, LockForRead(s) \/ LockForWrite(s)
  PROVE  HolderInv'
<1>1. /\ loaded /\ Goes(s, "locked")
      /\ UNCHANGED <<loaded, metadatas, newBackupId, known, disk, histories>>
  BY DEF LockForRead, LockForWrite, In
<1>2. /\ call' \in [Sessions -> Call]
      /\ call'[s].at = "locked" /\ call'[s].method = call[s].method
      /\ call'[s].id = call[s].id /\ call'[s].archive = call[s].archive
      /\ \A t \in Sessions \ {s} : call'[t] = call[t]
  BY <1>1, GoesChanges
<1>3. \/ writer' = writer /\ call[s].method \in ReadMethods
      \/ writer' = {s} /\ writer = {}
  BY DEF LockForRead, LockForWrite
<1>4. readers' \subseteq Sessions /\ writer' \subseteq Sessions
  BY DEF LockForRead, LockForWrite, HolderInv, TypeOK
<1>5. TypeOK'
  BY <1>1, <1>2, <1>4 DEF HolderInv, TypeOK, disk, histories
<1>6. Fits(s)'
  BY <1>1, <1>2, <1>3 DEF HolderInv, Fits, Adding, ReadMethods, WriteMethods
<1>7. loaded' /\ newBackupId <= newBackupId' /\ newBackupId' = Len(metadatas') /\ known' = known
  BY <1>1 DEF HolderInv, TypeOK
<1> QED  BY <1>2, <1>3, <1>5, <1>6, <1>7, SessionStep

\* A method that reads ends its call; what it has seen is in range.
LEMMA ReadStep ==
  ASSUME HolderInv, NEW s \in Sessions,
         \/ getBackupsNumber(s) \/ isValidBackupId(s) \/ getMetadata(s) \/ fillArchive(s)
  PROVE  HolderInv'
<1>1. /\ loaded /\ readers' = readers \ {s}
      /\ UNCHANGED <<loaded, metadatas, newBackupId, writer, disk, histories>>
      /\ call' = [call EXCEPT ![s] = NoCall]
  BY DEF getBackupsNumber, isValidBackupId, getMetadata, fillArchive, Reads, In, Returns
<1>2. /\ call' \in [Sessions -> Call] /\ call'[s] = NoCall
      /\ \A t \in Sessions \ {s} : call'[t] = call[t]
  BY <1>1, NoCallIsCall, CallChanges
<1>3. newBackupId \in Nat /\ known \in [Sessions -> Nat] /\ known[s] <= newBackupId
      /\ call[s].id \in Nat
  BY DEF HolderInv, TypeOK, Fits, Call
<1>4. /\ known' \in [Sessions -> Nat] /\ known'[s] <= newBackupId
      /\ \A t \in Sessions \ {s} : known'[t] = known[t]
  BY <1>3 DEF getBackupsNumber, isValidBackupId, getMetadata, fillArchive
<1>5. TypeOK'
  BY <1>1, <1>2, <1>4 DEF HolderInv, TypeOK, disk, histories
<1>6. Fits(s)'
  BY <1>1, <1>2, <1>4 DEF Fits, NoCall, WriteMethods
<1>7. loaded' /\ newBackupId <= newBackupId' /\ newBackupId' = Len(metadatas')
  BY <1>1, <1>3 DEF HolderInv
<1> QED  BY <1>1, <1>2, <1>4, <1>5, <1>6, <1>7, SessionStep

\* A counted restore is an entry of the list.
LEMMA CountStep ==
  ASSUME HolderInv, NEW s \in Sessions, incRestoreCount(s)
  PROVE  HolderInv'
<1>1. /\ loaded /\ call[s].method = "count" /\ Goes(s, "save") /\ call[s].at = "locked"
      /\ UNCHANGED <<loaded, readers, known, histories, newBackupId, writer, disk>>
  BY DEF incRestoreCount, Writes, In
<1>2. /\ call' \in [Sessions -> Call]
      /\ call'[s].at = "save" /\ call'[s].method = "count" /\ call'[s].id = call[s].id
      /\ \A t \in Sessions \ {s} : call'[t] = call[t]
  BY <1>1, GoesChanges
<1>3. /\ metadatas \in Seq(Entry) /\ newBackupId = Len(metadatas) /\ newBackupId \in Nat
      /\ call[s].id \in Nat /\ call[s].id < Len(metadatas) /\ known[s] <= newBackupId
      /\ writer = {s}
  BY <1>1 DEF HolderInv, TypeOK, Fits, Call, WriteMethods
<1>4. metadatas' \in Seq(Entry) /\ Len(metadatas') = Len(metadatas)
  <2> DEFINE i == call[s].id + 1
  <2>1. i \in 1..Len(metadatas)
    BY <1>3
  <2>2. \/ metadatas' = [metadatas EXCEPT ![i].succ = @ + 1]
        \/ metadatas' = [metadatas EXCEPT ![i].fail = @ + 1]
    BY DEF incRestoreCount
  <2> HIDE DEF i
  <2>3. /\ [metadatas EXCEPT ![i].succ = @ + 1] \in Seq(Entry)
        /\ Len([metadatas EXCEPT ![i].succ = @ + 1]) = Len(metadatas)
        /\ [metadatas EXCEPT ![i].fail = @ + 1] \in Seq(Entry)
        /\ Len([metadatas EXCEPT ![i].fail = @ + 1]) = Len(metadatas)
    BY <1>3, <2>1, CountedProperties
  <2> QED  BY <2>2, <2>3
<1>5. TypeOK'
  BY <1>1, <1>2, <1>4 DEF HolderInv, TypeOK, disk, histories
<1>6. Fits(s)'
  BY <1>1, <1>2, <1>3, <1>4 DEF Fits, WriteMethods
<1>7. /\ loaded' /\ newBackupId <= newBackupId' /\ newBackupId' = Len(metadatas')
      /\ writer' = writer /\ known' = known
  BY <1>1, <1>3, <1>4
<1> QED  BY <1>2, <1>5, <1>6, <1>7, SessionStep

\* The id addNewBackup takes is that of the entry it appends.
LEMMA TakeIdStep ==
  ASSUME HolderInv, NEW s \in Sessions, TakeId(s)
  PROVE  /\ HolderInv'
         /\ newBackupId' = newBackupId + 1
         /\ call'[s].method = "add" /\ call'[s].at = "open" /\ call'[s].id = newBackupId
         /\ \A t \in Sessions \ {s} : call'[t] = call[t]
<1> DEFINE e == [succ |-> 0, fail |-> 0]
           c == [call[s] EXCEPT !.id = newBackupId, !.at = "open"]
<1>1. /\ loaded /\ call[s].method = "add" /\ call[s].at = "locked"
      /\ metadatas' = Append(metadatas, e) /\ newBackupId' = newBackupId + 1
      /\ UNCHANGED <<loaded, readers, known, histories, writer, disk>>
  BY DEF TakeId, Writes, In
<1>2. /\ call \in [Sessions -> Call] /\ call[s] \in Call
      /\ metadatas \in Seq(Entry) /\ newBackupId = Len(metadatas) /\ newBackupId \in Nat
      /\ known[s] \in Nat /\ known[s] <= newBackupId /\ writer = {s}
      /\ call[s].archive \in Archives
  BY <1>1 DEF HolderInv, TypeOK, Fits, WriteMethods
<1>3. /\ c \in Call /\ c.method = "add" /\ c.at = "open" /\ c.id = newBackupId
      /\ c.archive = call[s].archive
  BY <1>1, <1>2 DEF Call
<1>4. call' = [call EXCEPT ![s] = c]
  BY <1>2 DEF TakeId
<1> HIDE DEF c
<1>5. /\ call' \in [Sessions -> Call] /\ call'[s] = c
      /\ \A t \in Sessions \ {s} : call'[t] = call[t]
  BY <1>3, <1>4, CallChanges
<1>6. metadatas' \in Seq(Entry) /\ Len(metadatas') = newBackupId'
  <2>1. e \in Entry
    BY DEF Entry
  <2> HIDE DEF e
  <2> QED  BY <1>1, <1>2, <2>1, AppendProperties
<1>7. TypeOK'
  BY <1>1, <1>2, <1>5, <1>6 DEF HolderInv, TypeOK, disk, histories
<1>8. Fits(s)'
  BY <1>1, <1>2, <1>3, <1>5 DEF Fits, WriteMethods
<1>9. HolderInv'
  BY <1>1, <1>2, <1>5, <1>6, <1>7, <1>8, SessionStep
<1> QED  BY <1>1, <1>3, <1>5, <1>9

\* Opening the archive changes no file but the one of the id.
LEMMA OpenStep ==
  ASSUME HolderInv, NEW s \in Sessions, OpenArchive(s)
  PROVE  /\ HolderInv'
         /\ call'[s].method = "add" /\ call'[s].at = "save" /\ call'[s].id = call[s].id
         /\ \A t \in Sessions \ {s} : call'[t] = call[t]
<1>1. /\ loaded /\ call[s].method = "add" /\ call[s].at = "open"
      /\ UNCHANGED <<loaded, readers, known, histories, metadatas, newBackupId, writer, usermetas>>
  BY DEF OpenArchive, Writes, In
<1>2. /\ call \in [Sessions -> Call] /\ call[s] \in Call
      /\ newBackupId = Len(metadatas) /\ newBackupId \in Nat
      /\ known[s] <= newBackupId /\ writer = {s} /\ call[s].id < newBackupId
      /\ call[s].archive \in Archives
  BY <1>1 DEF HolderInv, TypeOK, Fits, Adding, WriteMethods
<1>3. PICK isSuc \in BOOLEAN :
        /\ archiveFiles' = IF isSuc THEN Put(archiveFiles, call[s].id, "short") ELSE archiveFiles
        /\ call' = [call EXCEPT ![s] = [@ EXCEPT !.ok = isSuc, !.at = "save"]]
  BY DEF OpenArchive
<1> DEFINE c == [call[s] EXCEPT !.ok = isSuc, !.at = "save"]
<1>4. /\ c \in Call /\ c.method = "add" /\ c.at = "save" /\ c.id = call[s].id
      /\ c.archive = call[s].archive
  BY <1>1, <1>2 DEF Call
<1>5. call' = [call EXCEPT ![s] = c]
  BY <1>2, <1>3
<1> HIDE DEF c
<1>6. /\ call' \in [Sessions -> Call] /\ call'[s] = c
      /\ \A t \in Sessions \ {s} : call'[t] = call[t]
  BY <1>4, <1>5, CallChanges
<1>7. Range(archiveFiles') \subseteq Archives \cup {"short"}
  <2>1. Range(archiveFiles) \subseteq Archives \cup {"short"}
    BY DEF HolderInv, TypeOK
  <2>2. Range(Put(archiveFiles, call[s].id, "short")) \subseteq Archives \cup {"short"}
    BY <2>1, PutRange
  <2> QED  BY <1>3, <2>1, <2>2
<1>8. TypeOK'
  BY <1>1, <1>6, <1>7 DEF HolderInv, TypeOK, histories
<1>9. Fits(s)'
  BY <1>1, <1>2, <1>4, <1>6 DEF Fits, WriteMethods
<1>10. HolderInv'
  BY <1>1, <1>2, <1>6, <1>8, <1>9, SessionStep
<1> QED  BY <1>4, <1>6, <1>10

\* The file of the metadata is emptied, or written: only the disk changes.
LEMMA SaveStep ==
  ASSUME HolderInv, NEW s \in Sessions, SaveOpens(s) \/ SaveWrites(s)
  PROVE  /\ HolderInv'
         /\ call[s].at \in {"save", "saving"} /\ call'[s].at \in {"saving", "leave"}
         /\ call'[s].method = call[s].method /\ call'[s].id = call[s].id
         /\ \A t \in Sessions \ {s} : call'[t] = call[t]
         /\ Len(usermetas') <= Len(usermetas) \/ Len(usermetas') <= newBackupId
<1>1. /\ loaded /\ call[s].at \in {"save", "saving"}
      /\ UNCHANGED <<memory, archiveFiles, histories>>
  BY DEF SaveOpens, SaveWrites, In
<1>2. PICK at \in {"saving", "leave"} : Goes(s, at)
  BY DEF SaveOpens, SaveWrites
<1>3. /\ call' \in [Sessions -> Call]
      /\ call'[s].at = at /\ call'[s].method = call[s].method /\ call'[s].id = call[s].id
      /\ call'[s].archive = call[s].archive
      /\ \A t \in Sessions \ {s} : call'[t] = call[t]
  BY <1>2, GoesChanges
<1>4. /\ metadatas \in Seq(Entry) /\ usermetas \in Seq(Entry) /\ newBackupId = Len(metadatas)
      /\ newBackupId \in Nat /\ Len(usermetas) \in Nat
  BY LenProperties DEF HolderInv, TypeOK
<1>5. /\ usermetas' \in Seq(Entry)
      /\ Len(usermetas') <= Len(usermetas) \/ Len(usermetas') <= newBackupId
  <2>1. usermetas' = <<>> \/ usermetas' = usermetas \/ usermetas' = metadatas
          \/ usermetas' \in CutShort(metadatas)
    BY DEF SaveOpens, SaveWrites
  <2>2. CASE usermetas' = <<>>
    BY <1>4, <2>2, EmptySeq
  <2>3. CASE usermetas' \in CutShort(metadatas)
    BY <1>4, <2>3, CutShortProperties
  <2> QED  BY <1>4, <2>1, <2>2, <2>3
<1>6. TypeOK'
  BY <1>1, <1>3, <1>5 DEF HolderInv, TypeOK, memory, histories
<1>7. Fits(s)'
  BY <1>1, <1>3 DEF HolderInv, Fits, Adding, memory
<1>8. /\ loaded' /\ newBackupId <= newBackupId' /\ newBackupId' = Len(metadatas')
      /\ writer' = writer /\ known' = known
  BY <1>1, <1>4 DEF memory
<1>9. HolderInv'
  BY <1>3, <1>6, <1>7, <1>8, SessionStep
<1> QED  BY <1>1, <1>3, <1>5, <1>9

\* A method that wrote unlocks and ends its call.
LEMMA WriteReturns ==
  ASSUME HolderInv, NEW s \in Sessions, AddReturns(s) \/ CountReturns(s)
  PROVE  /\ HolderInv'
         /\ call'[s] = NoCall
         /\ \A t \in Sessions \ {s} : call'[t] = call[t]
<1>1. /\ loaded /\ call[s].at = "leave" /\ call[s].method \in {"add", "count"}
      /\ writer' = {} /\ call' = [call EXCEPT ![s] = NoCall]
      /\ UNCHANGED <<loaded, metadatas, newBackupId, readers, known, usermetas, crashes>>
  BY DEF AddReturns, CountReturns, In, Unlocks, Returns, disk, histories
<1>2. /\ call' \in [Sessions -> Call] /\ call'[s] = NoCall
      /\ \A t \in Sessions \ {s} : call'[t] = call[t]
  BY <1>1, NoCallIsCall, CallChanges
<1>3. /\ newBackupId = Len(metadatas) /\ newBackupId \in Nat /\ known[s] <= newBackupId
      /\ writer = {s} /\ (call[s].method = "add" => call[s].archive \in Archives)
      /\ Range(archiveFiles) \subseteq Archives \cup {"short"}
      /\ Range(acknowledged) \subseteq Archives
  BY <1>1 DEF HolderInv, TypeOK, Fits, WriteMethods
<1>4. Range(archiveFiles') \subseteq Archives \cup {"short"}
  <2>1. CASE AddReturns(s)
    <3>1. call[s].archive \in Archives
      BY <1>3, <2>1 DEF AddReturns
    <3>2. Range([archiveFiles EXCEPT ![call[s].id] = call[s].archive])
            \subseteq Archives \cup {"short"}
      BY <1>3, <3>1, ExceptRange
    <3> QED  BY <1>3, <2>1, <3>2 DEF AddReturns
  <2>2. CASE CountReturns(s)
    BY <1>3, <2>2 DEF CountReturns, disk
  <2> QED  BY <2>1, <2>2
<1>5. Range(acknowledged') \subseteq Archives
  <2>1. CASE AddReturns(s)
    <3>1. call[s].archive \in Archives
      BY <1>3, <2>1 DEF AddReturns
    <3>2. Range(Put(acknowledged, call[s].id, call[s].archive)) \subseteq Archives
      BY <1>3, <3>1, PutRange
    <3> QED  BY <1>3, <2>1, <3>2 DEF AddReturns
  <2>2. CASE CountReturns(s)
    BY <1>3, <2>2 DEF CountReturns, histories
  <2> QED  BY <2>1, <2>2
<1>6. TypeOK'
  BY <1>1, <1>2, <1>4, <1>5 DEF HolderInv, TypeOK
<1>7. Fits(s)'
  BY <1>1, <1>2, <1>3 DEF Fits, NoCall, WriteMethods
<1>8. HolderInv'
  BY <1>1, <1>2, <1>3, <1>6, <1>7, SessionStep
<1> QED  BY <1>2, <1>8

\* The list that is read from the file is the one the ids go on from.
LEMMA LoadStep == ASSUME HolderInv, loadMetadatasFromFile PROVE HolderInv'
<1>1. /\ loaded' = TRUE /\ newBackupId' = Len(metadatas')
      /\ UNCHANGED <<readers, writer, known, call, answer, archiveFiles, histories>>
  BY DEF loadMetadatasFromFile
<1>2. \A s \in Sessions : call[s].method = "none" /\ known[s] = 0
  BY DEF loadMetadatasFromFile, HolderInv, NothingCalled
<1>3. metadatas' \in Seq(Entry) /\ usermetas' \in Seq(Entry)
  BY EmptySeq DEF loadMetadatasFromFile, HolderInv, TypeOK
<1>4. newBackupId' \in Nat
  BY <1>1, <1>3, LenProperties
<1>5. TypeOK'
  BY <1>1, <1>3, <1>4 DEF HolderInv, TypeOK, histories
<1>6. \A s \in Sessions : Fits(s)'
  BY <1>1, <1>2, <1>4 DEF Fits, WriteMethods
<1> QED  BY <1>1, <1>5, <1>6 DEF HolderInv

\* A crash leaves well-typed files and forgets the rest.
LEMMA CrashStep == ASSUME HolderInv, Crash PROVE HolderInv'
<1>1. /\ loaded' = FALSE /\ metadatas' = <<>> /\ newBackupId' = 0
      /\ readers' = {} /\ writer' = {} /\ acknowledged' = <<>>
      /\ call' = [s \in Sessions |-> NoCall] /\ known' = [s \in Sessions |-> 0]
      /\ crashes' = crashes + 1 /\ crashes < MaxCrashes
  BY DEF Crash
<1>2. <<>> \in Seq(Entry) /\ Len(<<>>) = 0 /\ Range(<<>>) = {}
  <2>1. <<>> \in Seq(Entry) /\ Len(<<>>) = 0
    BY EmptySeq
  <2>2. DOMAIN <<>> = {}
    BY <2>1, LenProperties
  <2> QED  BY <2>1, <2>2 DEF Range
<1>3. usermetas' \in Seq(Entry)
  BY CutShortProperties DEF Crash, HolderInv, TypeOK
<1>4. Range(archiveFiles') \subseteq Archives \cup {"short"}
  <2>1. Range(archiveFiles) \subseteq Archives \cup {"short"}
    BY DEF HolderInv, TypeOK
  <2>2. ASSUME NEW s \in Sessions, call[s].method = "add",
               archiveFiles' = [archiveFiles EXCEPT ![call[s].id] = call[s].archive]
        PROVE  Range(archiveFiles') \subseteq Archives \cup {"short"}
    <3>1. call[s].archive \in Archives
      BY <2>2 DEF HolderInv, Fits
    <3>2. Range([archiveFiles EXCEPT ![call[s].id] = call[s].archive])
            \subseteq Archives \cup {"short"}
      BY <2>1, <3>1, ExceptRange
    <3> QED  BY <2>2, <3>2
  <2> QED  BY <2>1, <2>2 DEF Crash
<1>5. crashes' \in 0..MaxCrashes
  BY <1>1, ConstantsAssumption DEF HolderInv, TypeOK
<1>6. call' \in [Sessions -> Call] /\ \A s \in Sessions : call'[s] = NoCall /\ known'[s] = 0
  BY <1>1, NoCallIsCall
<1>7. TypeOK'
  BY <1>1, <1>2, <1>3, <1>4, <1>5, <1>6 DEF TypeOK
<1>8. NothingCalled' /\ \A s \in Sessions : Fits(s)'
  BY <1>1, <1>6 DEF NothingCalled, Fits, NoCall, WriteMethods
<1> QED  BY <1>1, <1>2, <1>7, <1>8 DEF HolderInv

\* Every step keeps the invariant, one lemma for each action.
LEMMA HolderNext == HolderInv /\ [Next]_vars => HolderInv'
<1> SUFFICES ASSUME HolderInv, [Next]_vars PROVE HolderInv'
  OBVIOUS
<1>1. CASE loadMetadatasFromFile
  BY <1>1, LoadStep
<1>2. ASSUME NEW s \in Sessions, CallMethod(s) \/ Method(s) PROVE HolderInv'
  BY <1>2, CallMethodStep, LockStep, ReadStep, CountStep, TakeIdStep, OpenStep, SaveStep,
     WriteReturns DEF Method
<1>3. CASE Crash
  BY <1>3, CrashStep
<1>4. CASE UNCHANGED vars
  BY <1>4 DEF HolderInv, TypeOK, NothingCalled, Fits, vars, memory, disk, histories
<1> QED  BY <1>1, <1>2, <1>3, <1>4 DEF Next

\* The invariant holds in every behavior, with every fault and crash.
LEMMA HolderInvariant == Spec => []HolderInv
  BY HolderInit, HolderNext, PTL DEF Spec

(***************************************************************************)
(* Every variable of the holder has its type (TypeOK), whatever fails and  *)
(* however often the server crashes.                                       *)
(***************************************************************************)
THEOREM TypeCorrect == Spec => []TypeOK
<1>1. HolderInv => TypeOK
  BY DEF HolderInv
<1> QED  BY <1>1, HolderInvariant, PTL

(***************************************************************************)
(* A method that is given an id finds its entry (AccessesInRange): the id  *)
(* was seen below newBackupId in an earlier critical section, and that     *)
(* only grows while the server runs.                                       *)
(***************************************************************************)
THEOREM InRange == Spec => []AccessesInRange
<1>1. HolderInv => AccessesInRange
  BY DEF HolderInv, Fits, AccessesInRange
<1> QED  BY <1>1, HolderInvariant, PTL

-----------------------------------------------------------------------------
(***************************************************************************)
(* The file of the metadata.                                               *)
(***************************************************************************)
BehindInv == HolderInv /\ (loaded => Len(usermetas) <= newBackupId)

\* The list in memory grows before it is saved, and is read as it was saved.
LEMMA BehindNext ==
  ASSUME "load" \notin DiskFaults, BehindInv, [Next]_vars
  PROVE  BehindInv'
<1>1. HolderInv /\ HolderInv'
  BY HolderNext DEF BehindInv
<1>2. newBackupId \in Nat /\ newBackupId' \in Nat /\ Len(usermetas) \in Nat
  BY <1>1, LenProperties DEF HolderInv, TypeOK
<1>3. loaded' => Len(usermetas') <= newBackupId'
  <2>1. CASE loadMetadatasFromFile
    BY <1>2, <2>1 DEF loadMetadatasFromFile, Fails
  <2>2. ASSUME NEW s \in Sessions, CallMethod(s) \/ Method(s)
        PROVE  Len(usermetas') <= newBackupId'
    <3>1. CASE SaveOpens(s) \/ SaveWrites(s)
      <4>1. loaded /\ newBackupId' = newBackupId
        BY <3>1 DEF SaveOpens, SaveWrites, In, memory
      <4>2. Len(usermetas') <= Len(usermetas) \/ Len(usermetas') <= newBackupId
        BY <1>1, <3>1, SaveStep
      <4>3. usermetas' \in Seq(Entry)
        BY <1>1 DEF HolderInv, TypeOK
      <4> QED  BY <1>2, <4>1, <4>2, <4>3, LenProperties DEF BehindInv
    <3>2. CASE ~(SaveOpens(s) \/ SaveWrites(s))
      <4> SUFFICES loaded /\ usermetas' = usermetas /\ newBackupId <= newBackupId'
        BY <1>2 DEF BehindInv
      <4>1. CASE CallMethod(s)
        <5>1. \E c : Begin(s, c)
          BY <4>1 DEF CallMethod, BeginCount, BeginAdd
        <5> QED  BY <1>2, <5>1 DEF Begin, memory, disk
      <4>2. CASE LockForRead(s) \/ LockForWrite(s)
        BY <1>2, <4>2 DEF LockForRead, LockForWrite, In, disk
      <4>3. CASE \/ getBackupsNumber(s) \/ isValidBackupId(s)
                 \/ getMetadata(s) \/ fillArchive(s)
        BY <1>2, <4>3
        DEF getBackupsNumber, isValidBackupId, getMetadata, fillArchive, Reads, In, disk
      <4>4. CASE incRestoreCount(s) \/ TakeId(s) \/ OpenArchive(s)
        <5>1. /\ loaded /\ usermetas' = usermetas
              /\ newBackupId' = newBackupId \/ newBackupId' = newBackupId + 1
          BY <4>4, Zenon DEF incRestoreCount, TakeId, OpenArchive, Writes, In, disk
        <5> QED  BY <1>2, <5>1
      <4>5. CASE AddReturns(s) \/ CountReturns(s)
        BY <1>2, <4>5 DEF AddReturns, CountReturns, Unlocks, In, disk
      <4> QED  BY <2>2, <3>2, <4>1, <4>2, <4>3, <4>4, <4>5 DEF Method
    <3> QED  BY <3>1, <3>2
  <2>3. CASE Crash
    BY <2>3 DEF Crash
  <2>4. CASE UNCHANGED vars
    BY <2>4 DEF BehindInv, vars, memory, disk
  <2> QED  BY <2>1, <2>2, <2>3, <2>4 DEF Next
<1> QED  BY <1>1, <1>3 DEF BehindInv

(***************************************************************************)
(* Unless reading it fails, the file of the metadata never names a backup  *)
(* that is not in memory (FileIsBehind), so that no id is given out twice. *)
(***************************************************************************)
THEOREM Behind == ASSUME "load" \notin DiskFaults PROVE Spec => []FileIsBehind
<1>1. Init => BehindInv
  BY HolderInit DEF BehindInv, Init
<1>2. BehindInv /\ [Next]_vars => BehindInv'
  BY BehindNext
<1>3. BehindInv => FileIsBehind
  BY DEF BehindInv, HolderInv, FileIsBehind
<1> QED  BY <1>1, <1>2, <1>3, PTL DEF Spec

-----------------------------------------------------------------------------
(***************************************************************************)
(* The stored archives.                                                    *)
(***************************************************************************)

\* The archive of an acknowledged backup is in its file.
Kept(id) ==
  id \in 0..(newBackupId - 1) /\ id \in DOMAIN archiveFiles /\ archiveFiles[id] = acknowledged[id]

\* The id addNewBackup works on is not acknowledged yet, and its file exists
\* from the moment it was opened.
IsNew(s) ==
  call[s].method = "add" /\ call[s].at \in Adding =>
    /\ call[s].id \notin DOMAIN acknowledged
    /\ call[s].at # "open" => call[s].id \in DOMAIN archiveFiles

StoredInv ==
  /\ HolderInv
  /\ \A id \in DOMAIN acknowledged : Kept(id)
  /\ \A s \in Sessions : IsNew(s)

\* A step that changes neither the files nor what is acknowledged.
LEMMA FilesUnchanged ==
  ASSUME StoredInv, HolderInv', NEW s \in Sessions, IsNew(s)',
         \A t \in Sessions \ {s} : call'[t] = call[t],
         newBackupId <= newBackupId', UNCHANGED <<archiveFiles, acknowledged>>
  PROVE  StoredInv'
<1>1. newBackupId \in Nat /\ newBackupId' \in Nat
  BY DEF StoredInv, HolderInv, TypeOK
<1>2. \A id \in DOMAIN acknowledged : Kept(id)'
  BY <1>1 DEF StoredInv, Kept
<1>3. \A t \in Sessions : IsNew(t)'
  BY DEF StoredInv, IsNew
<1> QED  BY <1>2, <1>3 DEF StoredInv

\* The file that is opened is the one of a new id.
LEMMA OpenKeeps ==
  ASSUME "archive" \notin DiskFaults, StoredInv, NEW s \in Sessions, OpenArchive(s)
  PROVE  StoredInv'
<1> DEFINE n == call[s].id
<1>1. /\ HolderInv' /\ call'[s].method = "add" /\ call'[s].at = "save" /\ call'[s].id = n
      /\ \A t \in Sessions \ {s} : call'[t] = call[t]
  BY OpenStep DEF StoredInv
<1>2. /\ archiveFiles' = Put(archiveFiles, n, "short")
      /\ UNCHANGED <<acknowledged, newBackupId>>
  BY DEF OpenArchive, Fails, Writes, histories
<1>3. n \notin DOMAIN acknowledged
  BY DEF OpenArchive, Writes, In, StoredInv, IsNew, Adding
<1> HIDE DEF n
<1>4. /\ DOMAIN archiveFiles' = DOMAIN archiveFiles \cup {n}
      /\ \A id \in DOMAIN archiveFiles \ {n} : archiveFiles'[id] = archiveFiles[id]
  BY <1>2 DEF Put
<1>5. \A id \in DOMAIN acknowledged' : Kept(id)'
  BY <1>2, <1>3, <1>4 DEF StoredInv, Kept
<1>6. \A t \in Sessions : IsNew(t)'
  BY <1>1, <1>2, <1>3, <1>4 DEF StoredInv, IsNew, Adding
<1> QED  BY <1>1, <1>5, <1>6 DEF StoredInv

\* When addNewBackup returns, the file is closed and has the whole archive; no
\* other session is in addNewBackup past the lock.
LEMMA AddKeeps ==
  ASSUME "archive" \notin DiskFaults, StoredInv, NEW s \in Sessions, AddReturns(s)
  PROVE  StoredInv'
<1>0. PICK n, a : n = call[s].id /\ a = call[s].archive
  OBVIOUS
<1>1. /\ HolderInv /\ HolderInv' /\ call'[s] = NoCall
      /\ \A t \in Sessions \ {s} : call'[t] = call[t]
  BY WriteReturns DEF StoredInv
<1>2. /\ call[s].method = "add" /\ call[s].at = "leave" /\ call[s] \in Call
      /\ newBackupId' = newBackupId /\ newBackupId \in Nat
  BY <1>1 DEF AddReturns, In, Unlocks, HolderInv, TypeOK
<1>3. n \in Nat /\ n < newBackupId /\ writer = {s}
      /\ n \notin DOMAIN acknowledged /\ n \in DOMAIN archiveFiles
  BY <1>0, <1>1, <1>2 DEF Call, HolderInv, Fits, Adding, WriteMethods, StoredInv, IsNew
<1>4. ASSUME NEW t \in Sessions
      PROVE  ~(call'[t].method = "add" /\ call'[t].at \in Adding)
  <2>1. CASE t = s
    BY <1>1, <2>1 DEF NoCall
  <2>2. CASE t # s
    BY <1>1, <1>3, <2>2 DEF HolderInv, Fits, Adding, WriteMethods
  <2> QED  BY <2>1, <2>2
<1>5. \/ UNCHANGED <<archiveFiles, acknowledged>>
      \/ /\ archiveFiles' = [archiveFiles EXCEPT ![n] = a]
         /\ acknowledged' = Put(acknowledged, n, a)
  BY <1>0 DEF AddReturns, Fails
<1>6. CASE UNCHANGED <<archiveFiles, acknowledged>>
  BY <1>1, <1>2, <1>4, <1>6, FilesUnchanged DEF IsNew
<1>7. CASE /\ archiveFiles' = [archiveFiles EXCEPT ![n] = a]
           /\ acknowledged' = Put(acknowledged, n, a)
  <2>1. /\ DOMAIN acknowledged' = DOMAIN acknowledged \cup {n} /\ acknowledged'[n] = a
        /\ \A id \in DOMAIN acknowledged \ {n} : acknowledged'[id] = acknowledged[id]
    BY <1>7 DEF Put
  <2>2. /\ DOMAIN archiveFiles' = DOMAIN archiveFiles /\ archiveFiles'[n] = a
        /\ \A id \in DOMAIN archiveFiles \ {n} : archiveFiles'[id] = archiveFiles[id]
    BY <1>3, <1>7
  <2>3. Kept(n)'
    BY <1>2, <1>3, <2>1, <2>2 DEF Kept
  <2>4. \A id \in DOMAIN acknowledged \ {n} : Kept(id)'
    BY <1>2, <2>1, <2>2 DEF StoredInv, Kept
  <2>5. \A t \in Sessions : IsNew(t)'
    BY <1>4 DEF IsNew
  <2> QED  BY <1>1, <2>1, <2>3, <2>4, <2>5 DEF StoredInv
<1> QED  BY <1>5, <1>6, <1>7

\* Every step keeps the acknowledged archives in their files.
LEMMA StoredNext ==
  ASSUME "archive" \notin DiskFaults, StoredInv, [Next]_vars
  PROVE  StoredInv'
<1>1. /\ HolderInv /\ HolderInv' /\ newBackupId \in Nat
  BY HolderNext DEF StoredInv, HolderInv, TypeOK
<1>2. CASE loadMetadatasFromFile
  <2>1. acknowledged' = <<>> /\ call' = call /\ acknowledged = <<>>
    BY <1>1, <1>2 DEF loadMetadatasFromFile, HolderInv, NothingCalled, histories
  <2>2. \A s \in Sessions : call[s].method = "none"
    BY <1>1, <1>2 DEF loadMetadatasFromFile, HolderInv, NothingCalled
  <2> QED  BY <1>1, <2>1, <2>2, EmptySeq DEF StoredInv, IsNew
<1>3. ASSUME NEW s \in Sessions, CallMethod(s) PROVE StoredInv'
  <2>1. call'[s].at = "lock" /\ \A t \in Sessions \ {s} : call'[t] = call[t]
    BY <1>1, <1>3, CallMethodStep
  <2>2. UNCHANGED <<memory, disk, histories>>
    BY <1>3 DEF CallMethod, BeginCount, BeginAdd, Begin
  <2> QED  BY <1>1, <2>1, <2>2, FilesUnchanged DEF IsNew, Adding, memory, disk, histories
<1>4. ASSUME NEW s \in Sessions, Method(s) PROVE StoredInv'
  <2>1. CASE LockForRead(s) \/ LockForWrite(s)
    <3>1. Goes(s, "locked") /\ UNCHANGED <<newBackupId, disk, histories>>
      BY <2>1 DEF LockForRead, LockForWrite
    <3>2. call'[s].at = "locked" /\ \A t \in Sessions \ {s} : call'[t] = call[t]
      BY <1>1, <3>1, GoesChanges
    <3> QED  BY <1>1, <3>1, <3>2, FilesUnchanged DEF IsNew, Adding, disk, histories
  <2>2. CASE \/ getBackupsNumber(s) \/ isValidBackupId(s) \/ getMetadata(s) \/ fillArchive(s)
    <3>1. call' = [call EXCEPT ![s] = NoCall] /\ UNCHANGED <<newBackupId, disk, histories>>
      BY <2>2 DEF getBackupsNumber, isValidBackupId, getMetadata, fillArchive, Reads, Returns
    <3>2. call'[s] = NoCall /\ \A t \in Sessions \ {s} : call'[t] = call[t]
      BY <1>1, <3>1, NoCallIsCall, CallChanges
    <3> QED  BY <1>1, <3>1, <3>2, FilesUnchanged DEF IsNew, NoCall, disk, histories
  <2>3. CASE incRestoreCount(s)
    <3>1. /\ call[s].method = "count" /\ Goes(s, "save")
          /\ UNCHANGED <<newBackupId, disk, histories>>
      BY <2>3 DEF incRestoreCount, Writes
    <3>2. call'[s].method = "count" /\ \A t \in Sessions \ {s} : call'[t] = call[t]
      BY <1>1, <3>1, GoesChanges
    <3> QED  BY <1>1, <3>1, <3>2, FilesUnchanged DEF IsNew, disk, histories
  <2>4. CASE TakeId(s)
    <3>1. /\ call'[s].at = "open" /\ call'[s].id = newBackupId /\ newBackupId' = newBackupId + 1
          /\ \A t \in Sessions \ {s} : call'[t] = call[t]
      BY <1>1, <2>4, TakeIdStep
    <3>2. UNCHANGED <<archiveFiles, acknowledged>>
      BY <2>4 DEF TakeId, Writes, disk, histories
    <3>3. newBackupId \notin DOMAIN acknowledged
      BY <1>1 DEF StoredInv, Kept
    <3>4. IsNew(s)'
      BY <3>1, <3>2, <3>3 DEF IsNew
    <3> QED  BY <1>1, <3>1, <3>2, <3>4, FilesUnchanged
  <2>5. CASE OpenArchive(s)
    BY <2>5, OpenKeeps
  <2>6. CASE SaveOpens(s) \/ SaveWrites(s)
    <3>1. /\ call[s].at \in {"save", "saving"} /\ call'[s].at \in {"saving", "leave"}
          /\ call'[s].method = call[s].method /\ call'[s].id = call[s].id
          /\ \A t \in Sessions \ {s} : call'[t] = call[t]
      BY <1>1, <2>6, SaveStep
    <3>2. UNCHANGED <<newBackupId, archiveFiles, acknowledged>>
      BY <2>6 DEF SaveOpens, SaveWrites, memory, histories
    <3>3. IsNew(s)'
      BY <3>1, <3>2 DEF StoredInv, IsNew, Adding
    <3> QED  BY <1>1, <3>1, <3>2, <3>3, FilesUnchanged
  <2>7. CASE AddReturns(s)
    BY <2>7, AddKeeps
  <2>8. CASE CountReturns(s)
    <3>1. call'[s] = NoCall /\ \A t \in Sessions \ {s} : call'[t] = call[t]
      BY <1>1, <2>8, WriteReturns
    <3>2. UNCHANGED <<newBackupId, archiveFiles, acknowledged>>
      BY <2>8 DEF CountReturns, Unlocks, disk, histories
    <3> QED  BY <1>1, <3>1, <3>2, FilesUnchanged DEF IsNew, NoCall
  <2> QED  BY <1>4, <2>1, <2>2, <2>3, <2>4, <2>5, <2>6, <2>7, <2>8 DEF Method
<1>5. CASE Crash
  <2>1. acknowledged' = <<>> /\ call' = [s \in Sessions |-> NoCall]
    BY <1>5 DEF Crash
  <2> QED  BY <1>1, <2>1, EmptySeq DEF StoredInv, IsNew, NoCall
<1>6. CASE UNCHANGED vars
  BY <1>1, <1>6 DEF StoredInv, IsNew, Kept, vars, memory, disk, histories
<1> QED  BY <1>2, <1>3, <1>4, <1>5, <1>6 DEF Next

(***************************************************************************)
(* Unless writing an archive fails, an id that was returned with isSuc     *)
(* names a backup whose archive is stored whole (SuccessIsStored).         *)
(***************************************************************************)
THEOREM Stored == ASSUME "archive" \notin DiskFaults PROVE Spec => []SuccessIsStored
<1>1. Init => StoredInv
  <2>1. ASSUME Init PROVE acknowledged = <<>> /\ \A s \in Sessions : call[s] = NoCall
    BY <2>1 DEF Init
  <2>2. DOMAIN <<>> = {}
    BY EmptySeq
  <2> QED  BY <2>1, <2>2, HolderInit DEF StoredInv, IsNew, NoCall
<1>2. StoredInv /\ [Next]_vars => StoredInv'
  BY StoredNext
<1>3. StoredInv => SuccessIsStored
  BY DEF StoredInv, HolderInv, TypeOK, Kept, SuccessIsStored, FileContent
<1> QED  BY <1>1, <1>2, <1>3, PTL DEF Spec

-----------------------------------------------------------------------------
(***************************************************************************)
(* The holder implements BackupStore.                                      *)
(***************************************************************************)

\* A metadata file with the entries e knows of no more than the list m does.
NoMore(e, m) ==
  /\ Len(e) <= Len(m)
  /\ \A i \in 1..Len(e) : e[i].succ <= m[i].succ /\ e[i].fail <= m[i].fail

\* A method that reads has the lock for reading once it is past it, and asks
\* about an id a client may ask for.
Asks(s) ==
  /\ call[s].method \in ReadMethods /\ call[s].at # "lock" => s \in readers
  /\ call[s].method = "valid" => call[s].id \in BackupIds

\* addNewBackup works on the last entry, which nobody has counted a restore
\* of, and says it succeeded only of a file that is there.
AddsTheLast(s) ==
  HasId(s) =>
    /\ call[s].id = newBackupId - 1
    /\ metadatas[newBackupId] = [succ |-> 0, fail |-> 0]
    /\ call[s].at # "open" /\ call[s].ok => call[s].id \in DOMAIN archiveFiles

StoreInv ==
  /\ HolderInv
  /\ writer = {} \/ readers = {}
  /\ loaded => NoMore(usermetas, metadatas)
  /\ \A s \in Sessions : Asks(s) /\ AddsTheLast(s)

\* The counts of an entry are numbers.
LEMMA CountsAreNumbers ==
  ASSUME NEW m \in Seq(Entry), NEW i \in 1..Len(m)
  PROVE  m[i] \in Entry /\ m[i].succ \in Nat /\ m[i].fail \in Nat
<1>1. m[i] \in Entry
  BY ElementOfSeq
<1> QED  BY <1>1 DEF Entry

\* Two lists of entries are in this relation when the longer one has only
\* grown and counted.
LEMMA NoMoreTransitive ==
  ASSUME NEW e \in Seq(Entry), NEW m \in Seq(Entry), NEW n \in Seq(Entry),
         NoMore(e, m), NoMore(m, n)
  PROVE  NoMore(e, n)
<1>1. Len(e) \in Nat /\ Len(m) \in Nat /\ Len(n) \in Nat
  BY LenProperties
<1>2. ASSUME NEW i \in 1..Len(e) PROVE e[i].succ <= n[i].succ /\ e[i].fail <= n[i].fail
  <2>1. i \in 1..Len(m) /\ i \in 1..Len(n)
    BY <1>1 DEF NoMore
  <2>2. e[i] \in Entry /\ m[i] \in Entry /\ n[i] \in Entry
    BY <2>1, ElementOfSeq
  <2>3. /\ e[i].succ \in Nat /\ m[i].succ \in Nat /\ n[i].succ \in Nat
        /\ e[i].fail \in Nat /\ m[i].fail \in Nat /\ n[i].fail \in Nat
    BY <2>2 DEF Entry
  <2>4. e[i].succ <= m[i].succ /\ e[i].fail <= m[i].fail
    BY DEF NoMore
  <2>5. m[i].succ <= n[i].succ /\ m[i].fail <= n[i].fail
    BY <2>1 DEF NoMore
  <2> QED  BY <2>3, <2>4, <2>5
<1> QED  BY <1>1, <1>2 DEF NoMore

\* A list knows no more than itself.
LEMMA NoMoreReflexive ==
  ASSUME NEW m \in Seq(Entry) PROVE NoMore(m, m)
<1>1. Len(m) \in Nat
  BY LenProperties
<1>2. ASSUME NEW i \in 1..Len(m) PROVE m[i].succ \in Nat /\ m[i].fail \in Nat
  BY CountsAreNumbers
<1> QED  BY <1>1, <1>2 DEF NoMore

\* The empty file knows nothing.
LEMMA NothingKnown ==
  ASSUME NEW m \in Seq(Entry) PROVE NoMore(<<>>, m)
<1>1. Len(m) \in Nat /\ Len(<<>>) = 0
  BY LenProperties, EmptySeq
<1> QED  BY <1>1 DEF NoMore

\* A file that was cut short knows no more than the list it was written from.
LEMMA CutShortCounts ==
  ASSUME NEW m \in Seq(Entry), NEW e \in CutShort(m)
  PROVE  NoMore(e, m)
<1>1. Len(m) \in Nat
  BY LenProperties
<1>2. ASSUME NEW i \in 1..Len(m) PROVE m[i].succ \in Nat /\ m[i].fail \in Nat
  BY CountsAreNumbers
<1>3. ASSUME NEW n \in 1..Len(m)
      PROVE  /\ SubSeq(m, 1, n) \in Seq(Entry)
             /\ Len(SubSeq(m, 1, n)) = n
             /\ \A i \in 1..n : SubSeq(m, 1, n)[i] = m[i]
  <2>1. \A i \in 1..n : m[i] \in Entry
    BY <1>1, ElementOfSeq
  <2> QED  BY <1>1, <2>1, SubSeqProperties
<1>4. CASE e = <<>>
  BY <1>4, NothingKnown
<1>5. ASSUME NEW n \in 1..Len(m), e = SubSeq(m, 1, n) PROVE NoMore(e, m)
  <2>1. Len(e) = n /\ n <= Len(m) /\ \A i \in 1..n : e[i] = m[i] /\ i \in 1..Len(m)
    BY <1>1, <1>3, <1>5
  <2>2. \A i \in 1..n : e[i].succ <= m[i].succ /\ e[i].fail <= m[i].fail
    BY <1>2, <2>1
  <2> QED  BY <2>1, <2>2 DEF NoMore
<1>6. ASSUME NEW n \in 1..Len(m), NEW k \in {0, m[n].succ},
             e = [SubSeq(m, 1, n) EXCEPT ![n] = [succ |-> k, fail |-> 0]]
      PROVE  NoMore(e, m)
  <2>1. PICK p \in Seq(Entry) : p = SubSeq(m, 1, n)
    BY <1>3
  <2>2. PICK c : c = [succ |-> k, fail |-> 0]
    OBVIOUS
  <2>3. c \in Entry /\ c.succ = k /\ c.fail = 0
    BY <1>2, <2>2 DEF Entry
  <2>4. Len(p) = n /\ \A i \in 1..n : p[i] = m[i]
    BY <1>3, <2>1
  <2>5. e = [p EXCEPT ![n] = c] /\ n \in 1..Len(p)
    BY <1>1, <1>6, <2>1, <2>2, <2>4
  <2>6. Len(e) = n /\ \A i \in 1..n : e[i] = IF i = n THEN c ELSE p[i]
    BY <2>3, <2>4, <2>5, ExceptSeq
  <2>7. ASSUME NEW i \in 1..n PROVE e[i].succ <= m[i].succ /\ e[i].fail <= m[i].fail
    <3>1. i \in 1..Len(m) /\ m[i].succ \in Nat /\ m[i].fail \in Nat
      BY <1>1, <1>2
    <3>2. CASE i = n
      BY <2>3, <2>6, <3>1, <3>2
    <3>3. CASE i # n
      BY <2>4, <2>6, <3>1, <3>3
    <3> QED  BY <3>2, <3>3
  <2> QED  BY <1>1, <2>6, <2>7 DEF NoMore
<1>7. \/ e = <<>>
      \/ \E n \in 1..Len(m) :
           \/ e = SubSeq(m, 1, n)
           \/ \E k \in {0, m[n].succ} :
                e = [SubSeq(m, 1, n) EXCEPT ![n] = [succ |-> k, fail |-> 0]]
  BY Zenon DEF CutShort
<1> QED  BY <1>4, <1>5, <1>6, <1>7

\* Nothing is stored and nobody has called anything at first.
LEMMA StoreInitially == Init => StoreInv
<1> SUFFICES ASSUME Init PROVE StoreInv
  OBVIOUS
<1>1. HolderInv /\ ~loaded /\ writer = {} /\ \A s \in Sessions : call[s] = NoCall
  BY HolderInit DEF Init
<1>2. \A s \in Sessions : Asks(s) /\ AddsTheLast(s)
  BY <1>1 DEF Asks, AddsTheLast, HasId, NoCall, ReadMethods
<1> QED  BY <1>1, <1>2 DEF StoreInv

\* A session's step leaves alone what the others rely on: only one that has
\* the lock for writing changes the list.
LEMMA OthersStore ==
  ASSUME StoreInv, NEW s \in Sessions,
         \A t \in Sessions \ {s} : call'[t] = call[t],
         readers \subseteq readers' \cup {s},
         \/ writer = {s}
         \/ /\ UNCHANGED <<metadatas, newBackupId>>
            /\ DOMAIN archiveFiles \subseteq DOMAIN archiveFiles',
         Asks(s)', AddsTheLast(s)'
  PROVE  \A t \in Sessions : Asks(t)' /\ AddsTheLast(t)'
<1> SUFFICES ASSUME NEW t \in Sessions \ {s} PROVE Asks(t)' /\ AddsTheLast(t)'
  OBVIOUS
<1>1. call'[t] = call[t] /\ Asks(t) /\ AddsTheLast(t) /\ Fits(t)
  BY DEF StoreInv, HolderInv
<1>2. Asks(t)'
  BY <1>1 DEF Asks
<1>3. ASSUME writer = {s} PROVE AddsTheLast(t)'
  BY <1>1, <1>3 DEF AddsTheLast, HasId, Fits, WriteMethods
<1>4. ASSUME UNCHANGED <<metadatas, newBackupId>>,
             DOMAIN archiveFiles \subseteq DOMAIN archiveFiles'
      PROVE  AddsTheLast(t)'
  BY <1>1, <1>4 DEF AddsTheLast, HasId
<1> QED  BY <1>2, <1>3, <1>4

\* A handler asks about an id a client may ask for.
LEMMA AsksWhenCalled ==
  ASSUME StoreInv, NEW s \in Sessions, CallMethod(s)
  PROVE  call'[s].method = "valid" => call'[s].id \in BackupIds
<1>1. ASSUME NEW c \in Call, Begin(s, c)
      PROVE  call'[s].method = c.method /\ call'[s].id = c.id
  <2>1. call' = [call EXCEPT ![s] = [c EXCEPT !.at = "lock"]] /\ call \in [Sessions -> Call]
    BY <1>1 DEF Begin, StoreInv, HolderInv, TypeOK
  <2>2. call'[s] = [c EXCEPT !.at = "lock"]
    BY <2>1
  <2> QED  BY <2>2 DEF Call
<1>2. ASSUME NEW m \in {"size", "lookup", "fetch"}, NEW id \in Nat,
             Begin(s, [NoCall EXCEPT !.method = m, !.id = id])
      PROVE  call'[s].method # "valid"
  <2> DEFINE c == [NoCall EXCEPT !.method = m, !.id = id]
  <2>1. c \in Call /\ c.method = m
    BY DEF NoCall, Call, ReadMethods
  <2>2. Begin(s, c)
    BY <1>2
  <2> HIDE DEF c
  <2> QED  BY <1>1, <2>1, <2>2
<1>3. ASSUME NEW id \in BackupIds, Begin(s, [NoCall EXCEPT !.method = "valid", !.id = id])
      PROVE  call'[s].id \in BackupIds
  <2> DEFINE c == [NoCall EXCEPT !.method = "valid", !.id = id]
  <2>1. c \in Call /\ c.id = id
    BY ConstantsAssumption DEF NoCall, Call, ReadMethods
  <2>2. Begin(s, c)
    BY <1>3
  <2> HIDE DEF c
  <2> QED  BY <1>1, <2>1, <2>2
<1>4. CASE Begin(s, [NoCall EXCEPT !.method = "size"])
  <2> DEFINE c == [NoCall EXCEPT !.method = "size"]
  <2>1. c \in Call /\ c.method = "size"
    BY DEF NoCall, Call, ReadMethods
  <2>2. Begin(s, c)
    BY <1>4
  <2> HIDE DEF c
  <2>3. call'[s].method = "size"
    BY <1>1, <2>1, <2>2
  <2> QED  BY <2>3
<1>5. ASSUME NEW id \in BackupIds, NEW ok \in BOOLEAN, BeginCount(s, id, ok)
      PROVE  call'[s].method = "count"
  <2> DEFINE c == [NoCall EXCEPT !.method = "count", !.id = id, !.ok = ok]
  <2>1. c \in Call /\ c.method = "count"
    BY ConstantsAssumption DEF NoCall, Call, WriteMethods
  <2>2. Begin(s, c)
    BY <1>5 DEF BeginCount
  <2> HIDE DEF c
  <2> QED  BY <1>1, <2>1, <2>2
<1>6. ASSUME NEW a \in Archives, BeginAdd(s, a)
      PROVE  call'[s].method = "add"
  <2> DEFINE c == [NoCall EXCEPT !.method = "add", !.archive = a]
  <2>1. c \in Call /\ c.method = "add"
    BY DEF NoCall, Call, WriteMethods
  <2>2. Begin(s, c)
    BY <1>6 DEF BeginAdd
  <2> HIDE DEF c
  <2> QED  BY <1>1, <2>1, <2>2
<1>7. \A id \in BackupIds : id \in Nat
  BY ConstantsAssumption
<1> QED  BY <1>2, <1>3, <1>4, <1>5, <1>6, <1>7 DEF CallMethod

\* A handler's call keeps the invariant.
LEMMA CallStore ==
  ASSUME StoreInv, NEW s \in Sessions, CallMethod(s)
  PROVE  StoreInv'
<1>1. HolderInv' /\ call'[s].at = "lock" /\ \A t \in Sessions \ {s} : call'[t] = call[t]
  BY CallMethodStep DEF StoreInv
<1>2. UNCHANGED <<memory, disk>>
  BY DEF CallMethod, Begin, BeginCount, BeginAdd
<1>3. Asks(s)' /\ AddsTheLast(s)'
  BY <1>1, AsksWhenCalled DEF Asks, AddsTheLast, HasId
<1>4. \A t \in Sessions : Asks(t)' /\ AddsTheLast(t)'
  BY <1>1, <1>2, <1>3, OthersStore DEF memory, disk
<1> QED  BY <1>1, <1>2, <1>4 DEF StoreInv, memory, disk

\* The lock is free for writing only when nobody reads, and for reading only
\* when nobody writes.
LEMMA LockStore ==
  ASSUME StoreInv, NEW s \in Sessions, LockForRead(s) \/ LockForWrite(s)
  PROVE  StoreInv'
<1>1. HolderInv /\ HolderInv'
  BY LockStep DEF StoreInv
<1>2. Goes(s, "locked") /\ UNCHANGED <<loaded, metadatas, newBackupId, disk>>
  BY DEF LockForRead, LockForWrite
<1>3. /\ call'[s].at = "locked" /\ call'[s].method = call[s].method /\ call'[s].id = call[s].id
      /\ \A t \in Sessions \ {s} : call'[t] = call[t]
  BY <1>1, <1>2, GoesChanges
<1>4. /\ writer' = {} \/ readers' = {}
      /\ readers \subseteq readers' \cup {s}
      /\ call[s].method \in ReadMethods => s \in readers'
  BY DEF LockForRead, LockForWrite, ReadMethods, WriteMethods
<1>5. Asks(s)' /\ AddsTheLast(s)'
  BY <1>3, <1>4 DEF StoreInv, Asks, AddsTheLast, HasId
<1>6. \A t \in Sessions : Asks(t)' /\ AddsTheLast(t)'
  BY <1>2, <1>3, <1>4, <1>5, OthersStore DEF disk
<1> QED  BY <1>1, <1>2, <1>4, <1>6 DEF StoreInv, disk

\* A method that has read unlocks.
LEMMA ReadStore ==
  ASSUME StoreInv, NEW s \in Sessions,
         getBackupsNumber(s) \/ isValidBackupId(s) \/ getMetadata(s) \/ fillArchive(s)
  PROVE  StoreInv'
<1>1. HolderInv /\ HolderInv'
  BY ReadStep DEF StoreInv
<1>2. /\ readers' = readers \ {s} /\ call' = [call EXCEPT ![s] = NoCall]
      /\ UNCHANGED <<loaded, metadatas, newBackupId, writer, disk>>
  BY DEF getBackupsNumber, isValidBackupId, getMetadata, fillArchive, Reads, Returns
<1>3. call'[s] = NoCall /\ \A t \in Sessions \ {s} : call'[t] = call[t]
  BY <1>1, <1>2, CallChanges, NoCallIsCall
<1>4. Asks(s)' /\ AddsTheLast(s)'
  BY <1>3 DEF Asks, AddsTheLast, HasId, NoCall, ReadMethods
<1>5. readers \subseteq readers' \cup {s} /\ (writer' = {} \/ readers' = {})
  BY <1>2 DEF StoreInv
<1>6. \A t \in Sessions : Asks(t)' /\ AddsTheLast(t)'
  BY <1>2, <1>3, <1>4, <1>5, OthersStore DEF disk
<1> QED  BY <1>1, <1>2, <1>5, <1>6 DEF StoreInv, disk

\* A restore is counted: the file knows of no more than before.
LEMMA CountStore ==
  ASSUME StoreInv, NEW s \in Sessions, incRestoreCount(s)
  PROVE  StoreInv' /\ NoMore(metadatas, metadatas')
<1>1. HolderInv /\ HolderInv'
  BY CountStep DEF StoreInv
<1>2. /\ loaded /\ call[s].method = "count" /\ call[s].at = "locked" /\ Goes(s, "save")
      /\ UNCHANGED <<loaded, readers, newBackupId, writer, disk>>
  BY DEF incRestoreCount, Writes, In
<1>3. /\ call'[s].method = "count" /\ \A t \in Sessions \ {s} : call'[t] = call[t]
  BY <1>1, <1>2, GoesChanges
<1>4. writer = {s} /\ call[s].id \in Nat /\ call[s].id < Len(metadatas)
  BY <1>1, <1>2 DEF HolderInv, Fits, TypeOK, Call, WriteMethods
<1>5. Asks(s)' /\ AddsTheLast(s)'
  BY <1>3 DEF Asks, AddsTheLast, HasId, ReadMethods
<1>6. \A t \in Sessions : Asks(t)' /\ AddsTheLast(t)'
  BY <1>2, <1>3, <1>4, <1>5, OthersStore
<1>7. PICK i \in Nat : i = call[s].id + 1
  BY <1>4
<1>8. PICK m \in Seq(Entry) : m = metadatas
  BY <1>1 DEF HolderInv, TypeOK
<1>9. i \in 1..Len(m) /\ Len(m) \in Nat
  BY <1>4, <1>7, <1>8, LenProperties
<1>10. PICK e : e = m[i]
  OBVIOUS
<1>11. e \in Entry /\ e.succ \in Nat /\ e.fail \in Nat
  BY <1>9, <1>10, CountsAreNumbers
<1>12. PICK c \in Entry : /\ metadatas' = [m EXCEPT ![i] = c]
                          /\ e.succ <= c.succ /\ e.fail <= c.fail
  <2>1. ASSUME metadatas' = [metadatas EXCEPT ![i].succ = @ + 1]
        PROVE  metadatas' = [m EXCEPT ![i] = [e EXCEPT !.succ = @ + 1]]
    BY <1>8, <1>10, <2>1
  <2>2. ASSUME metadatas' = [metadatas EXCEPT ![i].fail = @ + 1]
        PROVE  metadatas' = [m EXCEPT ![i] = [e EXCEPT !.fail = @ + 1]]
    BY <1>8, <1>10, <2>2
  <2>3. PICK f : f = [e EXCEPT !.succ = @ + 1]
    OBVIOUS
  <2>4. PICK g : g = [e EXCEPT !.fail = @ + 1]
    OBVIOUS
  <2>5. f \in Entry /\ f.succ = e.succ + 1 /\ f.fail = e.fail
    <3>1. e.succ + 1 \in Nat
      BY <1>11
    <3>2. f.succ = e.succ + 1 /\ f.fail = e.fail
      BY <1>11, <2>3 DEF Entry
    <3>3. f \in Entry
      BY <1>11, <2>3, <3>1 DEF Entry
    <3> QED  BY <3>2, <3>3
  <2>6. g \in Entry /\ g.succ = e.succ /\ g.fail = e.fail + 1
    <3>1. e.fail + 1 \in Nat
      BY <1>11
    <3>2. g.succ = e.succ /\ g.fail = e.fail + 1
      BY <1>11, <2>4 DEF Entry
    <3>3. g \in Entry
      BY <1>11, <2>4, <3>1 DEF Entry
    <3> QED  BY <3>2, <3>3
  <2>7. /\ e.succ <= f.succ /\ e.fail <= f.fail
        /\ e.succ <= g.succ /\ e.fail <= g.fail
    BY <1>11, <2>5, <2>6
  <2>8. \/ metadatas' = [metadatas EXCEPT ![i].succ = @ + 1]
        \/ metadatas' = [metadatas EXCEPT ![i].fail = @ + 1]
    BY <1>7 DEF incRestoreCount
  <2>9. metadatas' = [m EXCEPT ![i] = f] \/ metadatas' = [m EXCEPT ![i] = g]
    BY <2>1, <2>2, <2>3, <2>4, <2>8
  <2> QED  BY <2>5, <2>6, <2>7, <2>9
<1>13. /\ Len(metadatas') = Len(m)
       /\ \A j \in 1..Len(m) : metadatas'[j] = IF j = i THEN c ELSE m[j]
  BY <1>9, <1>12, ExceptSeq
<1>14. ASSUME NEW j \in 1..Len(m)
       PROVE  m[j].succ <= metadatas'[j].succ /\ m[j].fail <= metadatas'[j].fail
  <2>1. m[j].succ \in Nat /\ m[j].fail \in Nat
    BY CountsAreNumbers
  <2>2. CASE j = i
    BY <1>10, <1>12, <1>13, <2>2
  <2>3. CASE j # i
    BY <1>13, <2>1, <2>3
  <2> QED  BY <2>2, <2>3
<1>15. NoMore(metadatas, metadatas')
  BY <1>8, <1>9, <1>13, <1>14 DEF NoMore
<1>16. NoMore(usermetas', metadatas')
  <2>1. NoMore(usermetas, metadatas) /\ usermetas' = usermetas
    BY <1>2 DEF StoreInv, disk
  <2>2. usermetas \in Seq(Entry) /\ metadatas \in Seq(Entry) /\ metadatas' \in Seq(Entry)
    BY <1>1 DEF HolderInv, TypeOK
  <2> QED  BY <1>15, <2>1, <2>2, NoMoreTransitive
<1> QED  BY <1>1, <1>2, <1>6, <1>15, <1>16 DEF StoreInv

\* The last entry of the list is the new one.
LEMMA TakeIdStore ==
  ASSUME StoreInv, NEW s \in Sessions, TakeId(s)
  PROVE  StoreInv'
<1>1. /\ HolderInv /\ HolderInv' /\ newBackupId' = newBackupId + 1
      /\ call'[s].method = "add" /\ call'[s].at = "open" /\ call'[s].id = newBackupId
      /\ \A t \in Sessions \ {s} : call'[t] = call[t]
  BY TakeIdStep DEF StoreInv
<1>2. /\ loaded /\ call[s].method = "add" /\ call[s].at = "locked"
      /\ metadatas' = Append(metadatas, [succ |-> 0, fail |-> 0])
      /\ UNCHANGED <<loaded, readers, writer, disk>>
  BY DEF TakeId, Writes, In
<1>3. writer = {s}
  BY <1>1, <1>2 DEF HolderInv, Fits, WriteMethods
<1>4. PICK m \in Seq(Entry) : m = metadatas
  BY <1>1 DEF HolderInv, TypeOK
<1>5. PICK e \in Entry : e = [succ |-> 0, fail |-> 0]
  BY DEF Entry
<1>6. newBackupId = Len(m) /\ Len(m) \in Nat
  BY <1>1, <1>4, LenProperties DEF HolderInv
<1>7. /\ Len(metadatas') = Len(m) + 1 /\ metadatas'[Len(m) + 1] = e
      /\ \A i \in 1..Len(m) : metadatas'[i] = m[i]
  BY <1>2, <1>4, <1>5, AppendProperties
<1>8. Asks(s)'
  BY <1>1 DEF Asks, ReadMethods
<1>9. AddsTheLast(s)'
  BY <1>1, <1>5, <1>6, <1>7 DEF AddsTheLast, HasId
<1>10. \A t \in Sessions : Asks(t)' /\ AddsTheLast(t)'
  BY <1>1, <1>2, <1>3, <1>8, <1>9, OthersStore
<1>11. NoMore(m, metadatas')
  <2>1. \A i \in 1..Len(m) : m[i].succ <= m[i].succ /\ m[i].fail <= m[i].fail
    BY NoMoreReflexive DEF NoMore
  <2> QED  BY <1>6, <1>7, <2>1 DEF NoMore
<1>12. NoMore(usermetas', metadatas')
  <2>1. NoMore(usermetas, m) /\ usermetas' = usermetas
    BY <1>2, <1>4 DEF StoreInv, disk
  <2>2. usermetas \in Seq(Entry) /\ metadatas' \in Seq(Entry)
    BY <1>1 DEF HolderInv, TypeOK
  <2> QED  BY <1>11, <2>1, <2>2, NoMoreTransitive
<1> QED  BY <1>1, <1>2, <1>10, <1>12 DEF StoreInv

\* The archive's file is there when it could be opened.
LEMMA OpenStore ==
  ASSUME StoreInv, NEW s \in Sessions, OpenArchive(s)
  PROVE  StoreInv'
<1>1. /\ HolderInv /\ HolderInv'
      /\ call'[s].method = "add" /\ call'[s].at = "save" /\ call'[s].id = call[s].id
      /\ \A t \in Sessions \ {s} : call'[t] = call[t]
  BY OpenStep DEF StoreInv
<1>2. /\ call[s].method = "add" /\ call[s].at = "open"
      /\ UNCHANGED <<loaded, readers, metadatas, newBackupId, writer, usermetas>>
  BY DEF OpenArchive, Writes, In
<1>3. PICK isSuc \in BOOLEAN :
        /\ archiveFiles' = IF isSuc THEN Put(archiveFiles, call[s].id, "short")
                           ELSE archiveFiles
        /\ call' = [call EXCEPT ![s] = [@ EXCEPT !.ok = isSuc, !.at = "save"]]
  BY DEF OpenArchive
<1>4. call'[s].ok = isSuc
  <2>1. call \in [Sessions -> Call] /\ call[s] \in Call
    BY <1>1 DEF HolderInv, TypeOK
  <2>2. call'[s] = [call[s] EXCEPT !.ok = isSuc, !.at = "save"]
    BY <1>3, <2>1
  <2> QED  BY <2>1, <2>2 DEF Call
<1>5. /\ DOMAIN archiveFiles \subseteq DOMAIN archiveFiles'
      /\ isSuc => call[s].id \in DOMAIN archiveFiles'
  BY <1>3 DEF Put
<1>6. Asks(s)'
  BY <1>1 DEF Asks, ReadMethods
<1>7. AddsTheLast(s)'
  BY <1>1, <1>2, <1>4, <1>5 DEF StoreInv, AddsTheLast, HasId
<1>8. \A t \in Sessions : Asks(t)' /\ AddsTheLast(t)'
  BY <1>1, <1>2, <1>5, <1>6, <1>7, OthersStore
<1> QED  BY <1>1, <1>2, <1>8 DEF StoreInv

\* The file of the metadata knows of no more than the list it is saved from.
LEMMA SaveStore ==
  ASSUME StoreInv, NEW s \in Sessions, SaveOpens(s) \/ SaveWrites(s)
  PROVE  StoreInv'
<1>1. /\ HolderInv /\ HolderInv'
      /\ call[s].at \in {"save", "saving"} /\ call'[s].at \in {"saving", "leave"}
      /\ call'[s].method = call[s].method /\ call'[s].id = call[s].id
      /\ \A t \in Sessions \ {s} : call'[t] = call[t]
  BY SaveStep DEF StoreInv
<1>2. UNCHANGED <<memory, archiveFiles>> /\ (Goes(s, "saving") \/ Goes(s, "leave"))
  BY DEF SaveOpens, SaveWrites
<1>3. call'[s].ok = call[s].ok
  BY <1>1, <1>2, GoesChanges
<1>4. Asks(s)' /\ AddsTheLast(s)'
  BY <1>1, <1>2, <1>3 DEF StoreInv, Asks, AddsTheLast, HasId, memory
<1>5. \A t \in Sessions : Asks(t)' /\ AddsTheLast(t)'
  BY <1>1, <1>2, <1>4, OthersStore DEF memory
<1>6. metadatas \in Seq(Entry) /\ metadatas' = metadatas
  BY <1>1, <1>2 DEF HolderInv, TypeOK, memory
<1>7. loaded /\ NoMore(usermetas, metadatas)
  BY DEF StoreInv, SaveOpens, SaveWrites, In
<1>8. \/ usermetas' = <<>> \/ usermetas' = usermetas
      \/ usermetas' = metadatas \/ usermetas' \in CutShort(metadatas)
  BY DEF SaveOpens, SaveWrites
<1>9. NoMore(usermetas', metadatas)
  BY <1>6, <1>7, <1>8, NothingKnown, NoMoreReflexive, CutShortCounts
<1> QED  BY <1>1, <1>2, <1>5, <1>6, <1>9 DEF StoreInv, memory

\* A method that has written unlocks.
LEMMA ReturnStore ==
  ASSUME StoreInv, NEW s \in Sessions, AddReturns(s) \/ CountReturns(s)
  PROVE  StoreInv'
<1>1. /\ HolderInv /\ HolderInv' /\ call'[s] = NoCall
      /\ \A t \in Sessions \ {s} : call'[t] = call[t]
  BY WriteReturns DEF StoreInv
<1>2. writer' = {} /\ UNCHANGED <<loaded, metadatas, newBackupId, readers, usermetas>>
  BY DEF AddReturns, CountReturns, Unlocks, disk
<1>3. DOMAIN archiveFiles' = DOMAIN archiveFiles
  BY DEF AddReturns, CountReturns, disk
<1>4. Asks(s)' /\ AddsTheLast(s)'
  BY <1>1 DEF Asks, AddsTheLast, HasId, NoCall, ReadMethods
<1>5. \A t \in Sessions : Asks(t)' /\ AddsTheLast(t)'
  BY <1>1, <1>2, <1>3, <1>4, OthersStore
<1> QED  BY <1>1, <1>2, <1>5 DEF StoreInv

\* The list that was read is the one that was in the file.
LEMMA LoadStore ==
  ASSUME "load" \notin DiskFaults, StoreInv, loadMetadatasFromFile
  PROVE  StoreInv' /\ metadatas' = usermetas /\ usermetas' = usermetas
<1>1. HolderInv /\ HolderInv'
  BY LoadStep DEF StoreInv
<1>2. /\ metadatas' = usermetas /\ usermetas' = usermetas
      /\ UNCHANGED <<readers, writer, call>> /\ ~loaded
  BY DEF loadMetadatasFromFile, Fails
<1>3. \A s \in Sessions : call[s].method = "none"
  BY <1>1, <1>2 DEF HolderInv, NothingCalled
<1>4. \A s \in Sessions : Asks(s)' /\ AddsTheLast(s)'
  BY <1>2, <1>3 DEF Asks, AddsTheLast, HasId, ReadMethods
<1>5. NoMore(usermetas', metadatas')
  BY <1>1, <1>2, NoMoreReflexive DEF HolderInv, TypeOK
<1> QED  BY <1>1, <1>2, <1>4, <1>5 DEF StoreInv

\* The invariant is kept, when the file of the metadata can be read.
LEMMA StoreNextKeeps ==
  ASSUME "load" \notin DiskFaults, StoreInv, [Next]_vars
  PROVE  StoreInv'
<1>1. CASE loadMetadatasFromFile
  BY <1>1, LoadStore
<1>2. ASSUME NEW s \in Sessions, CallMethod(s) \/ Method(s) PROVE StoreInv'
  BY <1>2, CallStore, LockStore, ReadStore, CountStore, TakeIdStore, OpenStore, SaveStore,
     ReturnStore DEF Method
<1>3. CASE Crash
  <2>1. /\ HolderInv' /\ ~loaded' /\ writer' = {} /\ \A s \in Sessions : call'[s] = NoCall
    BY <1>3, CrashStep DEF Crash, StoreInv
  <2>2. \A s \in Sessions : Asks(s)' /\ AddsTheLast(s)'
    BY <2>1 DEF Asks, AddsTheLast, HasId, NoCall, ReadMethods
  <2> QED  BY <2>1, <2>2 DEF StoreInv
<1>4. CASE UNCHANGED vars
  <2>1. HolderInv'
    BY <1>4, HolderNext DEF StoreInv
  <2>2. UNCHANGED <<loaded, metadatas, newBackupId, readers, writer, call, usermetas, archiveFiles>>
    BY <1>4 DEF vars, memory, disk
  <2>3. \A s \in Sessions : Asks(s)' /\ AddsTheLast(s)'
    BY <2>2 DEF StoreInv, Asks, AddsTheLast, HasId
  <2> QED  BY <2>1, <2>2, <2>3 DEF StoreInv
<1> QED  BY <1>1, <1>2, <1>3, <1>4 DEF Next

-----------------------------------------------------------------------------
(***************************************************************************)
(* The list the sessions see.                                              *)
(***************************************************************************)

\* How many backups are listed, and what is listed of each.
Listed == Len(Entries) - IF AddUnderWay THEN 1 ELSE 0

ListedBackup(i) ==
  [archive |-> FileContent(i - 1), succ |-> Entries[i].succ, fail |-> Entries[i].fail]

Backup == [archive : Archives \cup {"short", "missing"}, succ : Nat, fail : Nat]

\* The list has its entries and all of them but the one addNewBackup works on.
ListIs ==
  /\ Listed \in Nat
  /\ ListedBackups \in Seq(Backup)
  /\ Len(ListedBackups) = Listed
  /\ \A i \in 1..Listed : ListedBackups[i] = ListedBackup(i)
  /\ Entries \in Seq(Entry)
  /\ \A i \in 1..Listed : i \in 1..Len(Entries)

\* While addNewBackup is under way the server runs.
LEMMA RunsWhenAdding ==
  ASSUME StoreInv, NEW s \in Sessions, HasId(s)
  PROVE  /\ loaded /\ AddUnderWay /\ writer = {s}
         /\ call[s].id \in Nat /\ newBackupId = call[s].id + 1
<1>1. HolderInv /\ AddsTheLast(s)
  BY DEF StoreInv
<1>2. loaded
  BY <1>1 DEF HolderInv, NothingCalled, HasId
<1>3. writer = {s}
  BY <1>1 DEF HolderInv, Fits, HasId, WriteMethods
<1>4. call[s].id \in Nat /\ newBackupId \in Nat /\ call[s].id = newBackupId - 1
  BY <1>1 DEF HolderInv, TypeOK, Call, AddsTheLast
<1> QED  BY <1>2, <1>3, <1>4 DEF AddUnderWay

\* What is in a file.
LEMMA ContentType ==
  ASSUME StoreInv, NEW id
  PROVE  FileContent(id) \in Archives \cup {"short", "missing"}
<1>1. Range(archiveFiles) \subseteq Archives \cup {"short"}
  BY DEF StoreInv, HolderInv, TypeOK
<1>2. ASSUME id \in DOMAIN archiveFiles PROVE archiveFiles[id] \in Archives \cup {"short"}
  BY <1>1, <1>2 DEF Range
<1> QED  BY <1>2 DEF FileContent

\* The list in a state in which the invariant holds.
LEMMA ListIsList == StoreInv => ListIs
<1> SUFFICES ASSUME StoreInv PROVE ListIs
  OBVIOUS
<1>1. metadatas \in Seq(Entry) /\ usermetas \in Seq(Entry) /\ newBackupId = Len(metadatas)
  BY DEF StoreInv, HolderInv, TypeOK
<1>2. PICK e \in Seq(Entry) : e = Entries
  BY <1>1 DEF Entries
<1>3. Len(e) \in Nat
  BY LenProperties
<1>4. AddUnderWay => Len(e) >= 1
  <2>1. ASSUME NEW s \in Sessions, HasId(s) PROVE Len(e) >= 1
    <3>1. loaded /\ call[s].id \in Nat /\ newBackupId = call[s].id + 1
      BY <2>1, RunsWhenAdding
    <3>2. Len(e) = newBackupId
      BY <1>1, <1>2, <3>1 DEF Entries
    <3> QED  BY <3>1, <3>2
  <2> QED  BY <2>1 DEF AddUnderWay
<1>5. PICK n \in Nat : n = Listed /\ n <= Len(e)
  <2>1. Len(e) - 0 \in Nat /\ Len(e) - 0 <= Len(e)
    BY <1>3
  <2>2. AddUnderWay => Len(e) - 1 \in Nat /\ Len(e) - 1 <= Len(e)
    BY <1>3, <1>4
  <2> QED  BY <1>2, <2>1, <2>2 DEF Listed
<1>6. ASSUME NEW i \in 1..n PROVE i \in 1..Len(e) /\ ListedBackup(i) \in Backup
  <2>1. i \in 1..Len(e)
    BY <1>3, <1>5
  <2>2. e[i].succ \in Nat /\ e[i].fail \in Nat
    BY <2>1, CountsAreNumbers
  <2>3. FileContent(i - 1) \in Archives \cup {"short", "missing"}
    BY ContentType
  <2> QED  BY <1>2, <2>1, <2>2, <2>3 DEF ListedBackup, Backup
<1>7. ListedBackups = [i \in 1..n |-> ListedBackup(i)]
  BY <1>5 DEF ListedBackups, Listed, ListedBackup
<1>8. ListedBackups \in Seq(Backup) /\ Len(ListedBackups) = n
  BY <1>6, <1>7
<1>9. \A i \in 1..n : ListedBackups[i] = ListedBackup(i)
  BY <1>7
<1> QED  BY <1>2, <1>5, <1>6, <1>8, <1>9 DEF ListIs

\* The same after a step.
LEMMA ListIsListNext == StoreInv' => ListIs'
  BY ListIsList, PTL

\* The list is the same when it is as long as before and each backup is.
LEMMA ListStays ==
  ASSUME Listed' = Listed, \A i \in 1..Listed : ListedBackup(i)' = ListedBackup(i)
  PROVE  ListedBackups' = ListedBackups
  BY DEF ListedBackups, Listed, ListedBackup

\* A session that neither takes an id nor returns with one leaves the backup
\* that is under way, if any, under way.
LEMMA UnderWayStays ==
  ASSUME NEW s \in Sessions, HasId(s)' <=> HasId(s),
         \A t \in Sessions \ {s} : call'[t] = call[t]
  PROVE  AddUnderWay' = AddUnderWay
<1>1. \A t \in Sessions : HasId(t)' <=> HasId(t)
  BY DEF HasId
<1> QED  BY <1>1 DEF AddUnderWay

\* No backup is under way while a session reads or counts a restore.
LEMMA NoneUnderWay ==
  ASSUME StoreInv, NEW s \in Sessions, ~HasId(s), s \in readers \/ writer = {s}
  PROVE  ~AddUnderWay
<1>1. ASSUME NEW t \in Sessions, HasId(t) PROVE FALSE
  <2>1. writer = {t}
    BY <1>1, RunsWhenAdding
  <2> QED  BY <1>1, <2>1 DEF StoreInv
<1> QED  BY <1>1 DEF AddUnderWay

\* A step that leaves the list, the files of its backups and what is under way.
LEMMA Stutter ==
  ASSUME UNCHANGED <<loaded, metadatas>>, loaded, AddUnderWay' = AddUnderWay,
         \A i \in 1..Listed : FileContent(i - 1)' = FileContent(i - 1)
  PROVE  ListedBackups' = ListedBackups
<1>1. Entries' = Entries
  BY DEF Entries
<1>2. Listed' = Listed
  BY <1>1 DEF Listed
<1>3. \A i \in 1..Listed : ListedBackup(i)' = ListedBackup(i)
  BY <1>1 DEF ListedBackup
<1> QED  BY <1>2, <1>3, ListStays

-----------------------------------------------------------------------------
(***************************************************************************)
(* Every step of the holder is a step of BackupStore or a stutter.         *)
(***************************************************************************)

StoreStep == Store!StoreNext \/ UNCHANGED Store!storeVars

\* Reading the file leaves the list that was in it.
LEMMA LoadMaps ==
  ASSUME "load" \notin DiskFaults, StoreInv, loadMetadatasFromFile
  PROVE  StoreStep
<1>1. /\ metadatas' = usermetas /\ usermetas' = usermetas
  BY LoadStore
<1>2. ~loaded /\ loaded' /\ UNCHANGED <<call, answer, archiveFiles>>
  BY DEF loadMetadatasFromFile
<1>3. Entries' = Entries /\ AddUnderWay' = AddUnderWay
  BY <1>1, <1>2 DEF Entries, AddUnderWay, HasId
<1>4. ListedBackups' = ListedBackups
  <2>1. Listed' = Listed
    BY <1>3 DEF Listed
  <2>2. \A i \in 1..Listed : ListedBackup(i)' = ListedBackup(i)
    BY <1>2, <1>3 DEF ListedBackup, FileContent
  <2> QED  BY <2>1, <2>2, ListStays
<1> QED  BY <1>2, <1>4 DEF StoreStep, Store!storeVars

\* A call, and a lock, are not seen.
LEMMA CallAndLockMap ==
  ASSUME StoreInv, NEW s \in Sessions, CallMethod(s) \/ LockForRead(s) \/ LockForWrite(s)
  PROVE  StoreStep
<1>1. HolderInv
  BY DEF StoreInv
<1>2. loaded /\ UNCHANGED <<loaded, metadatas, answer, disk>>
  BY DEF CallMethod, Begin, BeginCount, BeginAdd, LockForRead, LockForWrite, In, memory
<1>3. ~HasId(s)
  <2>1. CASE CallMethod(s)
    <3>1. call[s] = NoCall
      BY <2>1 DEF CallMethod, Begin, BeginCount, BeginAdd
    <3> QED  BY <3>1 DEF HasId, NoCall
  <2>2. CASE LockForRead(s) \/ LockForWrite(s)
    BY <2>2 DEF LockForRead, LockForWrite, In, HasId
  <2> QED  BY <2>1, <2>2
<1>4. ~HasId(s)' /\ \A t \in Sessions \ {s} : call'[t] = call[t]
  <2>1. CASE CallMethod(s)
    BY <1>1, <2>1, CallMethodStep DEF HasId
  <2>2. CASE LockForRead(s) \/ LockForWrite(s)
    <3>1. Goes(s, "locked")
      BY <2>2 DEF LockForRead, LockForWrite
    <3> QED  BY <1>1, <3>1, GoesChanges DEF HasId
  <2> QED  BY <2>1, <2>2
<1>5. AddUnderWay' = AddUnderWay
  BY <1>3, <1>4, UnderWayStays
<1>6. ListedBackups' = ListedBackups
  BY <1>2, <1>5, Stutter DEF disk, FileContent
<1> QED  BY <1>2, <1>6 DEF StoreStep, Store!storeVars

\* A method that reads does so while no backup is under way, and answers from
\* the list.
LEMMA ReadsMap ==
  ASSUME StoreInv, NEW s \in Sessions,
         getBackupsNumber(s) \/ isValidBackupId(s) \/ getMetadata(s) \/ fillArchive(s)
  PROVE  StoreStep
<1>1. /\ HolderInv /\ Asks(s) /\ ListIs
  BY ListIsList DEF StoreInv
<1>2. /\ loaded /\ call[s].at = "locked" /\ call[s].method \in ReadMethods
      /\ call' = [call EXCEPT ![s] = NoCall]
      /\ UNCHANGED <<loaded, metadatas, disk>>
  BY DEF getBackupsNumber, isValidBackupId, getMetadata, fillArchive, Reads, In, Returns,
         ReadMethods
<1>3. call'[s] = NoCall /\ \A t \in Sessions \ {s} : call'[t] = call[t]
  BY <1>1, <1>2, CallChanges, NoCallIsCall
<1>4. ~HasId(s) /\ ~HasId(s)'
  BY <1>2, <1>3 DEF HasId, ReadMethods, NoCall
<1>5. ~AddUnderWay
  BY <1>1, <1>2, <1>4, NoneUnderWay DEF Asks
<1>6. Len(ListedBackups) = newBackupId /\ Listed = newBackupId /\ newBackupId \in Nat
  BY <1>1, <1>2, <1>5 DEF HolderInv, TypeOK, ListIs, Listed, Entries
<1>7. ListedBackups' = ListedBackups
  <2>1. AddUnderWay' = AddUnderWay
    BY <1>3, <1>4, UnderWayStays
  <2> QED  BY <1>2, <2>1, Stutter DEF disk, FileContent
<1>8. CASE getBackupsNumber(s)
  <2>1. answer' = [to |-> {s}, size |-> Len(ListedBackups)]
    BY <1>6, <1>8 DEF getBackupsNumber, Returns
  <2> QED  BY <1>7, <2>1 DEF StoreStep, Store!StoreNext, Store!Size
<1>9. CASE isValidBackupId(s)
  <2>1. PICK id \in BackupIds : id = call[s].id
    BY <1>1, <1>9 DEF Asks, isValidBackupId, Reads
  <2>2. answer' = [to |-> {s}, id |-> id, valid |-> id < Len(ListedBackups)]
    BY <1>6, <1>9, <2>1 DEF isValidBackupId, Returns
  <2> QED  BY <1>7, <2>2 DEF StoreStep, Store!StoreNext, Store!IsValid
<1>10. CASE getMetadata(s)
  BY <1>7, <1>10 DEF getMetadata, StoreStep, Store!storeVars
<1>11. CASE fillArchive(s)
  <2>1. call[s].id \in Nat /\ call[s].id < newBackupId
    BY <1>1, <1>11 DEF HolderInv, TypeOK, Call, Fits, fillArchive, Reads
  <2>2. PICK id \in 0..(Len(ListedBackups) - 1) : id = call[s].id
    BY <1>6, <2>1
  <2>3. ListedBackups[id + 1].archive = FileContent(id)
    <3>1. id + 1 \in 1..Listed /\ (id + 1) - 1 = id
      BY <1>6
    <3> QED  BY <1>1, <3>1 DEF ListIs, ListedBackup
  <2>4. answer' = [to |-> {s}, id |-> id, archive |-> ListedBackups[id + 1].archive]
    BY <1>11, <2>2, <2>3 DEF fillArchive, Returns
  <2> QED  BY <1>7, <2>4 DEF StoreStep, Store!StoreNext, Store!Fetch
<1> QED  BY <1>8, <1>9, <1>10, <1>11

\* A restore is counted at once.
LEMMA CountMaps ==
  ASSUME StoreInv, NEW s \in Sessions, incRestoreCount(s)
  PROVE  StoreStep
<1>1. /\ HolderInv /\ ListIs /\ StoreInv' /\ ListIs'
  BY ListIsList, ListIsListNext, CountStore DEF StoreInv
<1>2. /\ loaded /\ call[s].method = "count" /\ call[s].at = "locked" /\ Goes(s, "save")
      /\ UNCHANGED <<loaded, newBackupId, answer, disk>>
  BY DEF incRestoreCount, Writes, In
<1>3. /\ call'[s].method = "count" /\ \A t \in Sessions \ {s} : call'[t] = call[t]
  BY <1>1, <1>2, GoesChanges
<1>4. writer = {s} /\ call[s].id \in Nat /\ call[s].id < newBackupId
  BY <1>1, <1>2 DEF HolderInv, Fits, TypeOK, Call, WriteMethods
<1>5. ~HasId(s) /\ ~HasId(s)'
  BY <1>2, <1>3 DEF HasId
<1>6. ~AddUnderWay /\ ~AddUnderWay'
  <2>1. ~AddUnderWay
    BY <1>4, <1>5, NoneUnderWay
  <2>2. AddUnderWay' = AddUnderWay
    BY <1>3, <1>5, UnderWayStays
  <2> QED  BY <2>1, <2>2
<1>7. PICK n \in Nat : n = Listed /\ n = Listed' /\ n = newBackupId
  <2>1. Len(metadatas) = newBackupId /\ Len(metadatas') = newBackupId /\ newBackupId \in Nat
    BY <1>1, <1>2 DEF StoreInv, HolderInv, TypeOK
  <2>2. Listed = Len(metadatas) - 0 /\ Listed' = Len(metadatas') - 0
    BY <1>2, <1>6 DEF Listed, Entries
  <2> QED  BY <2>1, <2>2
<1>8. PICK i \in 1..n : i = call[s].id + 1
  BY <1>4, <1>7
<1>9. PICK l \in Seq(Backup) : l = ListedBackups
  BY <1>1 DEF ListIs
<1>10. PICK m \in Seq(Entry) : m = metadatas /\ m = Entries
  BY <1>1, <1>2 DEF HolderInv, TypeOK, Entries
<1>11. /\ Len(l) = n /\ \A j \in 1..n : l[j] = ListedBackup(j) /\ j \in 1..Len(m)
  BY <1>1, <1>7, <1>9, <1>10 DEF ListIs
<1>12. /\ ListedBackups' \in Seq(Backup) /\ Len(ListedBackups') = n
       /\ \A j \in 1..n : ListedBackups'[j] = ListedBackup(j)'
  BY <1>1, <1>7 DEF ListIs
<1>13. ASSUME NEW j \in 1..n
       PROVE  /\ ListedBackups'[j] = [archive |-> FileContent(j - 1),
                                      succ |-> metadatas'[j].succ, fail |-> metadatas'[j].fail]
              /\ l[j] = [archive |-> FileContent(j - 1), succ |-> m[j].succ, fail |-> m[j].fail]
  <2>1. Entries' = metadatas' /\ FileContent(j - 1)' = FileContent(j - 1)
    BY <1>2 DEF Entries, FileContent, disk
  <2> QED  BY <1>10, <1>11, <1>12, <2>1 DEF ListedBackup
<1>14. PICK b : b = l[i]
  OBVIOUS
<1>15. b \in Backup /\ b.succ = m[i].succ /\ b.fail = m[i].fail
  <2>1. b = [archive |-> FileContent(i - 1), succ |-> m[i].succ, fail |-> m[i].fail]
    BY <1>13, <1>14
  <2>2. b \in Backup
    BY <1>9, <1>11, <1>14, ElementOfSeq
  <2> QED  BY <2>1, <2>2
<1>16. ASSUME metadatas' = [m EXCEPT ![i].succ = @ + 1]
       PROVE  ListedBackups' = [l EXCEPT ![i].succ = @ + 1]
  <2>1. PICK c : c = [b EXCEPT !.succ = @ + 1]
    OBVIOUS
  <2>2. c \in Backup
    <3>1. b.succ + 1 \in Nat
      BY <1>15 DEF Backup
    <3> QED  BY <1>15, <2>1, <3>1 DEF Backup
  <2>3. [l EXCEPT ![i].succ = @ + 1] = [l EXCEPT ![i] = c]
    BY <1>14, <2>1
  <2>4. ASSUME NEW j \in 1..n PROVE ListedBackups'[j] = IF j = i THEN c ELSE l[j]
    <3>1. CASE j # i
      <4>1. metadatas'[j] = m[j]
        BY <1>11, <1>16, <3>1
      <4> QED  BY <1>13, <3>1, <4>1
    <3>2. CASE j = i
      <4>1. m[i] \in Entry
        BY <1>11, CountsAreNumbers
      <4>2. metadatas'[i].succ = m[i].succ + 1 /\ metadatas'[i].fail = m[i].fail
        BY <1>11, <1>16, <4>1 DEF Entry
      <4>3. b = [archive |-> FileContent(i - 1), succ |-> m[i].succ, fail |-> m[i].fail]
        BY <1>13, <1>14
      <4>4. c = [archive |-> FileContent(i - 1), succ |-> m[i].succ + 1, fail |-> m[i].fail]
        BY <2>1, <4>3
      <4> QED  BY <1>13, <3>2, <4>2, <4>4
    <3> QED  BY <3>1, <3>2
  <2>5. /\ [l EXCEPT ![i] = c] \in Seq(Backup) /\ Len([l EXCEPT ![i] = c]) = n
        /\ \A j \in 1..n : [l EXCEPT ![i] = c][j] = IF j = i THEN c ELSE l[j]
    BY <1>11, <2>2, ExceptSeq
  <2> QED  BY <1>12, <2>3, <2>4, <2>5, SeqEqual
<1>17. ASSUME metadatas' = [m EXCEPT ![i].fail = @ + 1]
       PROVE  ListedBackups' = [l EXCEPT ![i].fail = @ + 1]
  <2>1. PICK c : c = [b EXCEPT !.fail = @ + 1]
    OBVIOUS
  <2>2. c \in Backup
    <3>1. b.fail + 1 \in Nat
      BY <1>15 DEF Backup
    <3> QED  BY <1>15, <2>1, <3>1 DEF Backup
  <2>3. [l EXCEPT ![i].fail = @ + 1] = [l EXCEPT ![i] = c]
    BY <1>14, <2>1
  <2>4. ASSUME NEW j \in 1..n PROVE ListedBackups'[j] = IF j = i THEN c ELSE l[j]
    <3>1. CASE j # i
      <4>1. metadatas'[j] = m[j]
        BY <1>11, <1>17, <3>1
      <4> QED  BY <1>13, <3>1, <4>1
    <3>2. CASE j = i
      <4>1. m[i] \in Entry
        BY <1>11, CountsAreNumbers
      <4>2. metadatas'[i].succ = m[i].succ /\ metadatas'[i].fail = m[i].fail + 1
        BY <1>11, <1>17, <4>1 DEF Entry
      <4>3. b = [archive |-> FileContent(i - 1), succ |-> m[i].succ, fail |-> m[i].fail]
        BY <1>13, <1>14
      <4>4. c = [archive |-> FileContent(i - 1), succ |-> m[i].succ, fail |-> m[i].fail + 1]
        BY <2>1, <4>3
      <4> QED  BY <1>13, <3>2, <4>2, <4>4
    <3> QED  BY <3>1, <3>2
  <2>5. /\ [l EXCEPT ![i] = c] \in Seq(Backup) /\ Len([l EXCEPT ![i] = c]) = n
        /\ \A j \in 1..n : [l EXCEPT ![i] = c][j] = IF j = i THEN c ELSE l[j]
    BY <1>11, <2>2, ExceptSeq
  <2> QED  BY <1>12, <2>3, <2>4, <2>5, SeqEqual
<1>18. \/ metadatas' = [m EXCEPT ![i].succ = @ + 1]
       \/ metadatas' = [m EXCEPT ![i].fail = @ + 1]
  BY <1>8, <1>10 DEF incRestoreCount
<1>19. Store!CountRestore(s)
  <2>1. i \in 1..Len(ListedBackups)
    BY <1>9, <1>11
  <2>2. \/ ListedBackups' = [ListedBackups EXCEPT ![i].succ = @ + 1]
        \/ ListedBackups' = [ListedBackups EXCEPT ![i].fail = @ + 1]
    BY <1>9, <1>16, <1>17, <1>18
  <2> QED  BY <1>2, <2>1, <2>2 DEF Store!CountRestore
<1> QED  BY <1>19 DEF StoreStep, Store!StoreNext

\* The id that is taken is not seen before addNewBackup returns.
LEMMA TakeIdMaps ==
  ASSUME StoreInv, NEW s \in Sessions, TakeId(s)
  PROVE  StoreStep
<1>1. /\ HolderInv /\ ListIs /\ StoreInv'
      /\ call'[s].method = "add" /\ call'[s].at = "open"
  BY ListIsList, TakeIdStore, TakeIdStep DEF StoreInv
<1>2. /\ loaded /\ call[s].method = "add" /\ call[s].at = "locked"
      /\ metadatas' = Append(metadatas, [succ |-> 0, fail |-> 0])
      /\ UNCHANGED <<loaded, answer, disk>>
  BY DEF TakeId, Writes, In
<1>3. ~HasId(s) /\ HasId(s)' /\ AddUnderWay'
  BY <1>1, <1>2 DEF HasId, AddUnderWay
<1>4. ~AddUnderWay
  <2>1. writer = {s}
    BY <1>1, <1>2 DEF HolderInv, Fits, WriteMethods
  <2> QED  BY <1>3, <2>1, NoneUnderWay
<1>5. PICK m \in Seq(Entry) : m = metadatas /\ m = Entries
  BY <1>1, <1>2 DEF HolderInv, TypeOK, Entries
<1>6. PICK e \in Entry : e = [succ |-> 0, fail |-> 0]
  BY DEF Entry
<1>7. /\ Len(metadatas') = Len(m) + 1 /\ Len(m) \in Nat
      /\ \A i \in 1..Len(m) : metadatas'[i] = m[i]
  BY <1>2, <1>5, <1>6, AppendProperties, LenProperties
<1>8. Entries' = metadatas'
  BY <1>2 DEF Entries
<1>9. PICK n \in Nat : n = Listed /\ n = Listed' /\ n = Len(m)
  <2>1. Listed = Len(m) - 0
    BY <1>4, <1>5 DEF Listed
  <2>2. Listed' = Len(metadatas') - 1
    BY <1>3, <1>8 DEF Listed
  <2> QED  BY <1>7, <2>1, <2>2
<1>10. ASSUME NEW i \in 1..Listed PROVE ListedBackup(i)' = ListedBackup(i)
  <2>1. Entries'[i] = Entries[i]
    BY <1>5, <1>7, <1>8, <1>9
  <2>2. FileContent(i - 1)' = FileContent(i - 1)
    BY <1>2 DEF disk, FileContent
  <2> QED  BY <2>1, <2>2 DEF ListedBackup
<1>11. ListedBackups' = ListedBackups
  BY <1>9, <1>10, ListStays
<1> QED  BY <1>2, <1>11 DEF StoreStep, Store!storeVars

\* The file of the backup that is under way is not seen either.
LEMMA OpenMaps ==
  ASSUME StoreInv, NEW s \in Sessions, OpenArchive(s)
  PROVE  StoreStep
<1>1. /\ HolderInv
      /\ call'[s].method = "add" /\ call'[s].at = "save" /\ call'[s].id = call[s].id
      /\ \A t \in Sessions \ {s} : call'[t] = call[t]
  BY OpenStep DEF StoreInv
<1>2. /\ loaded /\ call[s].method = "add" /\ call[s].at = "open"
      /\ UNCHANGED <<loaded, metadatas, answer>>
  BY DEF OpenArchive, Writes, In
<1>3. HasId(s) /\ HasId(s)'
  BY <1>1, <1>2 DEF HasId
<1>4. AddUnderWay' = AddUnderWay
  BY <1>1, <1>3, UnderWayStays
<1>5. PICK id \in Nat : id = call[s].id /\ newBackupId = id + 1 /\ AddUnderWay
  BY <1>3, RunsWhenAdding
<1>6. Listed = id
  <2>1. Len(Entries) = id + 1
    BY <1>1, <1>2, <1>5 DEF HolderInv, Entries
  <2>2. Listed = Len(Entries) - 1
    BY <1>5 DEF Listed
  <2> QED  BY <2>1, <2>2
<1>7. archiveFiles' = archiveFiles \/ archiveFiles' = Put(archiveFiles, id, "short")
  BY <1>5 DEF OpenArchive
<1>8. ASSUME NEW i \in 1..Listed PROVE FileContent(i - 1)' = FileContent(i - 1)
  <2>1. i - 1 # id
    BY <1>6
  <2> QED  BY <1>7, <2>1 DEF FileContent, Put
<1>9. ListedBackups' = ListedBackups
  BY <1>2, <1>4, <1>8, Stutter
<1> QED  BY <1>2, <1>9 DEF StoreStep, Store!storeVars

\* What is saved is seen after a crash only.
LEMMA SaveMaps ==
  ASSUME StoreInv, NEW s \in Sessions, SaveOpens(s) \/ SaveWrites(s)
  PROVE  StoreStep
<1>1. /\ call[s].at \in {"save", "saving"} /\ call'[s].at \in {"saving", "leave"}
      /\ call'[s].method = call[s].method
      /\ \A t \in Sessions \ {s} : call'[t] = call[t]
  BY SaveStep DEF StoreInv
<1>2. loaded /\ UNCHANGED <<memory, answer, archiveFiles>>
  BY DEF SaveOpens, SaveWrites, In
<1>3. AddUnderWay' = AddUnderWay
  <2>1. HasId(s)' <=> HasId(s)
    BY <1>1 DEF HasId
  <2> QED  BY <1>1, <2>1, UnderWayStays
<1>4. ListedBackups' = ListedBackups
  BY <1>2, <1>3, Stutter DEF memory, FileContent
<1> QED  BY <1>2, <1>4 DEF StoreStep, Store!storeVars

\* A method that has counted returns nothing.
LEMMA CountReturnMaps ==
  ASSUME StoreInv, NEW s \in Sessions, CountReturns(s)
  PROVE  StoreStep
<1>1. /\ call'[s] = NoCall /\ \A t \in Sessions \ {s} : call'[t] = call[t]
  BY WriteReturns DEF StoreInv
<1>2. /\ loaded /\ call[s].method = "count"
      /\ UNCHANGED <<loaded, metadatas, answer, archiveFiles>>
  BY DEF CountReturns, In, Unlocks, disk
<1>3. AddUnderWay' = AddUnderWay
  <2>1. ~HasId(s)' /\ ~HasId(s)
    BY <1>1, <1>2 DEF HasId, NoCall
  <2> QED  BY <1>1, <2>1, UnderWayStays
<1>4. ListedBackups' = ListedBackups
  BY <1>2, <1>3, Stutter DEF FileContent
<1> QED  BY <1>2, <1>4 DEF StoreStep, Store!storeVars

\* addNewBackup stores its backup when it returns.
LEMMA AddMaps ==
  ASSUME StoreInv, NEW s \in Sessions, AddReturns(s)
  PROVE  StoreStep
<1>1. /\ HolderInv /\ AddsTheLast(s) /\ ListIs /\ StoreInv' /\ ListIs'
  BY ListIsList, ListIsListNext, ReturnStore DEF StoreInv
<1>2. /\ call'[s] = NoCall /\ \A t \in Sessions \ {s} : call'[t] = call[t]
  BY WriteReturns DEF StoreInv
<1>3. /\ loaded /\ call[s].method = "add" /\ call[s].at = "leave"
      /\ UNCHANGED <<loaded, metadatas, newBackupId>>
  BY DEF AddReturns, In, Unlocks
<1>4. HasId(s) /\ ~HasId(s)'
  BY <1>2, <1>3 DEF HasId, NoCall
<1>5. PICK id \in Nat : id = call[s].id /\ newBackupId = id + 1 /\ AddUnderWay /\ writer = {s}
  BY <1>4, RunsWhenAdding
<1>6. ~AddUnderWay'
  <2>1. ASSUME NEW t \in Sessions \ {s}, HasId(t) PROVE FALSE
    <3>1. writer = {t}
      BY <2>1, RunsWhenAdding
    <3> QED  BY <1>5, <3>1
  <2>2. \A t \in Sessions \ {s} : ~HasId(t)'
    BY <1>2, <2>1 DEF HasId
  <2> QED  BY <1>4, <2>2 DEF AddUnderWay
<1>7. /\ Entries = metadatas /\ Entries' = metadatas /\ Len(metadatas) = id + 1
  BY <1>1, <1>3, <1>5 DEF HolderInv, Entries
<1>8. Listed = id /\ Listed' = id + 1
  <2>1. Listed = Len(metadatas) - 1 /\ Listed' = Len(metadatas) - 0
    BY <1>5, <1>6, <1>7 DEF Listed
  <2> QED  BY <1>7, <2>1
<1>9. PICK a \in Archives : a = call[s].archive
  BY <1>1, <1>3 DEF HolderInv, Fits
<1>10. PICK ok \in BOOLEAN : ok = call[s].ok
  BY <1>1 DEF HolderInv, TypeOK, Call
<1>11. archiveFiles' = archiveFiles \/ (ok /\ archiveFiles' = [archiveFiles EXCEPT ![id] = a])
  BY <1>5, <1>9, <1>10 DEF AddReturns
<1>12. answer' = [to |-> {s}, id |-> id, ok |-> ok]
  BY <1>5, <1>10 DEF AddReturns, Returns
<1>13. ok => id \in DOMAIN archiveFiles
  BY <1>1, <1>3, <1>4, <1>5, <1>10 DEF AddsTheLast
<1>14. PICK stored \in Archives \cup {"short", "missing"} : stored = FileContent(id)'
  <2>1. FileContent(id) \in Archives \cup {"short", "missing"}
    BY ContentType
  <2> QED  BY <1>11, <2>1 DEF FileContent
<1>15. ok => stored # "missing"
  <2>1. ASSUME ok PROVE archiveFiles'[id] # "missing" /\ id \in DOMAIN archiveFiles'
    <3>1. "missing" \notin Archives /\ "missing" # "short"
      BY ConstantsAssumption
    <3>2. id \in DOMAIN archiveFiles /\ id \in DOMAIN archiveFiles'
      BY <1>11, <1>13, <2>1
    <3>3. archiveFiles[id] \in Archives \cup {"short"}
      BY <1>1, <3>2 DEF HolderInv, TypeOK, Range
    <3>4. archiveFiles'[id] = archiveFiles[id] \/ archiveFiles'[id] = a
      BY <1>11, <3>2
    <3> QED  BY <3>1, <3>2, <3>3, <3>4
  <2> QED  BY <1>14, <2>1 DEF FileContent
<1>16. PICK l \in Seq(Backup) : l = ListedBackups
  BY <1>1 DEF ListIs
<1>17. PICK b : b = [archive |-> stored, succ |-> 0, fail |-> 0]
  OBVIOUS
<1>18. b \in Backup
  BY <1>17 DEF Backup
<1>19. /\ Append(l, b) \in Seq(Backup)
       /\ Len(Append(l, b)) = id + 1 /\ Len(l) = id
       /\ \A i \in 1..id : Append(l, b)[i] = l[i]
       /\ Append(l, b)[id + 1] = b
  <2>1. Len(l) = id
    BY <1>1, <1>8, <1>16 DEF ListIs
  <2> QED  BY <1>18, <2>1, AppendProperties
<1>20. /\ ListedBackups' \in Seq(Backup) /\ Len(ListedBackups') = id + 1
       /\ \A i \in 1..(id + 1) : ListedBackups'[i] = ListedBackup(i)'
  BY <1>1, <1>8 DEF ListIs
<1>21. ASSUME NEW i \in 1..id PROVE ListedBackups'[i] = l[i]
  <2>1. i \in 1..(id + 1) /\ i - 1 # id
    OBVIOUS
  <2>2. FileContent(i - 1)' = FileContent(i - 1)
    BY <1>11, <2>1 DEF FileContent
  <2>3. ListedBackup(i)' = ListedBackup(i)
    BY <1>7, <2>2 DEF ListedBackup
  <2>4. l[i] = ListedBackup(i)
    BY <1>1, <1>8, <1>16 DEF ListIs
  <2> QED  BY <1>20, <2>1, <2>3, <2>4
<1>22. ListedBackups'[id + 1] = b
  <2>1. metadatas[id + 1] = [succ |-> 0, fail |-> 0]
    BY <1>1, <1>4, <1>5 DEF AddsTheLast
  <2>2. Entries'[id + 1].succ = 0 /\ Entries'[id + 1].fail = 0
    BY <1>7, <2>1
  <2>3. FileContent((id + 1) - 1)' = stored
    <3>1. (id + 1) - 1 = id
      OBVIOUS
    <3> QED  BY <1>14, <3>1
  <2>4. ListedBackup(id + 1)' = b
    BY <1>17, <2>2, <2>3 DEF ListedBackup
  <2>5. id + 1 \in 1..(id + 1)
    OBVIOUS
  <2> QED  BY <1>20, <2>4, <2>5
<1>23. ListedBackups' = Append(l, b)
  <2>1. \A i \in 1..(id + 1) : ListedBackups'[i] = Append(l, b)[i]
    <3>1. ASSUME NEW i \in 1..(id + 1) PROVE ListedBackups'[i] = Append(l, b)[i]
      <4>1. i \in 1..id \/ i = id + 1
        OBVIOUS
      <4> QED  BY <1>19, <1>21, <1>22, <4>1
    <3> QED  BY <3>1
  <2> QED  BY <1>19, <1>20, <2>1, SeqEqual
<1>24. Store!Store(s)
  BY <1>12, <1>14, <1>15, <1>16, <1>17, <1>19, <1>23 DEF Store!Store, Store!Stored
<1> QED  BY <1>24 DEF StoreStep, Store!StoreNext

\* A crash leaves a beginning of the list, or all of it and the backup that
\* was under way.
LEMMA CrashMaps ==
  ASSUME StoreInv, Crash
  PROVE  StoreStep
<1>1. /\ HolderInv /\ ListIs /\ HolderInv'
  BY ListIsList, CrashStep DEF StoreInv
<1>2. /\ loaded /\ loaded' = FALSE /\ answer' = NoAnswer
      /\ \A s \in Sessions : call'[s] = NoCall
  BY DEF Crash
<1>3. ~AddUnderWay'
  BY <1>2 DEF AddUnderWay, HasId, NoCall
<1>4. PICK m \in Seq(Entry) : m = metadatas /\ m = Entries /\ Len(m) = newBackupId
  BY <1>1, <1>2 DEF HolderInv, TypeOK, Entries
<1>5. PICK e \in Seq(Entry) : e = usermetas' /\ e = Entries'
  BY <1>1, <1>2 DEF HolderInv, TypeOK, Entries
<1>6. NoMore(e, m)
  <2>1. usermetas' \in CutShort(metadatas) \/ usermetas' = usermetas
    BY DEF Crash
  <2>2. NoMore(usermetas, m)
    BY <1>2, <1>4 DEF StoreInv
  <2> QED  BY <1>4, <1>5, <2>1, <2>2, CutShortCounts
<1>7. Len(m) \in Nat /\ Len(e) \in Nat
  BY LenProperties
<1>8. PICK n \in Nat : /\ n = Listed /\ Len(ListedBackups) = n
                       /\ n <= Len(m) /\ Len(m) <= n + 1
  <2>1. Listed = Len(m) - 0 \/ Listed = Len(m) - 1
    BY <1>4 DEF Listed
  <2> QED  BY <1>1, <1>7, <2>1 DEF ListIs
<1>9. Listed' = Len(e)
  <2>1. Listed' = Len(e) - 0
    BY <1>3, <1>5 DEF Listed
  <2> QED  BY <1>7, <2>1
<1>10. ListedBackups' = [i \in 1..Len(e) |-> ListedBackup(i)']
  BY <1>9 DEF ListedBackups, Listed, ListedBackup
<1>11. Len(ListedBackups') = Len(e)
  BY <1>7, <1>10
<1>12. ASSUME NEW i \in 1..n PROVE FileContent(i - 1)' = FileContent(i - 1)
  <2>1. CASE archiveFiles' = archiveFiles
    BY <2>1 DEF FileContent
  <2>2. ASSUME NEW s \in Sessions, call[s].method = "add",
               call[s].at \in {"save", "saving", "leave"},
               archiveFiles' = [archiveFiles EXCEPT ![call[s].id] = call[s].archive]
        PROVE  FileContent(i - 1)' = FileContent(i - 1)
    <3>1. HasId(s)
      BY <2>2 DEF HasId
    <3>2. PICK id \in Nat : id = call[s].id /\ newBackupId = id + 1 /\ AddUnderWay
      BY <3>1, RunsWhenAdding
    <3>3. n = id
      <4>1. Listed = Len(m) - 1
        BY <1>4, <3>2 DEF Listed
      <4> QED  BY <1>4, <1>8, <3>2, <4>1
    <3>4. i - 1 # id
      BY <3>3
    <3> QED  BY <2>2, <3>2, <3>4 DEF FileContent
  <2> QED  BY <2>1, <2>2 DEF Crash
<1>13. ASSUME NEW i \in 1..n, i <= Len(e)
       PROVE  /\ ListedBackups'[i].archive = ListedBackups[i].archive
              /\ ListedBackups'[i].succ <= ListedBackups[i].succ
              /\ ListedBackups'[i].fail <= ListedBackups[i].fail
  <2>1. i \in 1..Len(e)
    BY <1>7, <1>13
  <2>2. ListedBackups'[i] = [archive |-> FileContent(i - 1)', succ |-> e[i].succ,
                             fail |-> e[i].fail]
    BY <1>5, <1>10, <2>1 DEF ListedBackup
  <2>3. ListedBackups[i] = [archive |-> FileContent(i - 1), succ |-> m[i].succ,
                            fail |-> m[i].fail]
    BY <1>1, <1>4, <1>8 DEF ListIs, ListedBackup
  <2>4. e[i].succ <= m[i].succ /\ e[i].fail <= m[i].fail
    BY <1>6, <2>1 DEF NoMore
  <2>5. ListedBackups'[i].archive = ListedBackups[i].archive
    BY <1>12, <2>2, <2>3
  <2>6. ListedBackups'[i].succ <= ListedBackups[i].succ
    BY <2>2, <2>3, <2>4
  <2>7. ListedBackups'[i].fail <= ListedBackups[i].fail
    BY <2>2, <2>3, <2>4
  <2> QED  BY <2>5, <2>6, <2>7
<1>14. Len(ListedBackups') <= Len(ListedBackups) + 1
  BY <1>6, <1>7, <1>8, <1>11 DEF NoMore
<1>15. Store!Crash
  BY <1>2, <1>8, <1>11, <1>13, <1>14 DEF Store!Crash, Store!NoAnswer, NoAnswer
<1> QED  BY <1>15 DEF StoreStep, Store!StoreNext

\* The list is empty before the first login.
LEMMA StartsEmpty == Init => Store!StoreInit
<1> SUFFICES ASSUME Init PROVE Store!StoreInit
  OBVIOUS
<1>1. ~AddUnderWay /\ Entries = <<>> /\ answer = NoAnswer
  BY DEF Init, AddUnderWay, HasId, NoCall, Entries
<1>2. Listed = 0
  BY <1>1, EmptySeq DEF Listed
<1>3. ListedBackups = <<>>
  <2>1. ListIs
    BY StoreInitially, ListIsList
  <2> QED  BY <1>2, <2>1, EmptySeq DEF ListIs
<1> QED  BY <1>1, <1>3 DEF Store!StoreInit, Store!NoAnswer, NoAnswer

\* Every step maps.
LEMMA StoreNextMaps ==
  ASSUME "load" \notin DiskFaults, StoreInv, [Next]_vars
  PROVE  StoreStep
<1>1. CASE loadMetadatasFromFile
  BY <1>1, LoadMaps
<1>2. ASSUME NEW s \in Sessions, CallMethod(s) \/ Method(s) PROVE StoreStep
  BY <1>2, CallAndLockMap, ReadsMap, CountMaps, TakeIdMaps, OpenMaps, SaveMaps, AddMaps,
     CountReturnMaps DEF Method
<1>3. CASE Crash
  BY <1>3, CrashMaps
<1>4. CASE UNCHANGED vars
  <2>1. UNCHANGED <<loaded, metadatas, call, answer, usermetas, archiveFiles>>
    BY <1>4 DEF vars, memory, disk
  <2>2. Entries' = Entries /\ AddUnderWay' = AddUnderWay
    BY <2>1 DEF Entries, AddUnderWay, HasId
  <2>3. Listed' = Listed /\ \A i \in 1..Listed : ListedBackup(i)' = ListedBackup(i)
    BY <2>1, <2>2 DEF Listed, ListedBackup, FileContent
  <2>4. ListedBackups' = ListedBackups
    BY <2>3, ListStays
  <2> QED  BY <2>1, <2>4 DEF StoreStep, Store!storeVars
<1> QED  BY <1>1, <1>2, <1>3, <1>4 DEF Next

(***************************************************************************)
(* The holder implements BackupStore (ImplementsStore): every method takes *)
(* effect at one instant, and a crash, at any step of a save or of         *)
(* addNewBackup, leaves a beginning of the list with its archives; as long *)
(* as a file of metadata that is there can be read when the user logs in.  *)
(***************************************************************************)
THEOREM HolderIsStore == ASSUME "load" \notin DiskFaults PROVE Spec => ImplementsStore
<1>1. Init => StoreInv /\ Store!StoreInit
  BY StoreInitially, StartsEmpty
<1>2. StoreInv /\ [Next]_vars => StoreInv'
  BY StoreNextKeeps
<1>3. StoreInv /\ [Next]_vars => Store!StoreNext \/ UNCHANGED Store!storeVars
  BY StoreNextMaps DEF StoreStep
<1> QED  BY <1>1, <1>2, <1>3, PTL DEF Spec, ImplementsStore, Store!StoreSpec
=============================================================================
