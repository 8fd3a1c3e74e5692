--------------------------- MODULE UserDataHolder ---------------------------
(***************************************************************************)
(* The backups of one user (userdataholder.cpp), shared by the threads of  *)
(* the user's sessions and guarded by one QReadWriteLock.  A method is     *)
(* split where another thread or a crash can come between: at its lock, at *)
(* the memory it shares and at each write to a file.                       *)
(***************************************************************************)
EXTENDS Integers, Sequences, FiniteSets, Functions

CONSTANTS
  Sessions,     \* the sessions of the user
  Archives,     \* contents of archives
  BackupIds,    \* ids a client may ask for
  DiskFaults,   \* what may fail: any of "load", "archive", "metadata"
  MaxBackups,   \* bound: ids handed out
  MaxReports,   \* bound: restores counted for a backup
  MaxCrashes    \* bound: crashes of the server

ASSUME ConstantsAssumption ==
  /\ BackupIds \subseteq Nat
  /\ DiskFaults \subseteq {"load", "archive", "metadata"}
  /\ {MaxBackups, MaxReports, MaxCrashes} \subseteq Nat
  /\ {"short", "missing"} \cap Archives = {}

VARIABLES
  loaded,        \* the holder exists and has read its file
  metadatas,     \* mMetadatas: metadatas[id + 1] counts the restores of id
  newBackupId,   \* mNewBackupId
  readers,       \* sessions that hold mReadWriteLock for reading
  writer,        \* the sessions, at most one, that hold it for writing
  call,          \* the method each session is in, how far it is, and its arguments
  known,         \* known[s]: the request s is in has seen the ids below it
  answer,        \* what the last method that returned told which session
  usermetas,     \* disk: the file users/<login>.usermetas
  archiveFiles,  \* disk: the files backups/<login>_<id>
  acknowledged,  \* history: what was stored since the start, by id, when isSuc was returned
  crashes        \* number of crashes

memory == <<loaded, metadatas, newBackupId, readers, writer, known>>
disk == <<usermetas, archiveFiles>>
histories == <<acknowledged, crashes>>
vars == <<memory, call, answer, disk, histories>>

Fails(what) == what \in DiskFaults

ReadMethods == {"size", "valid", "lookup", "fetch"}
WriteMethods == {"count", "add"}

NoCall ==
  [method |-> "none", at |-> "start", id |-> 0, archive |-> "missing", ok |-> FALSE]
NoAnswer == [to |-> {}]

\* An entry of mMetadatas, as far as it is read or changed later.
Entry == [succ : Nat, fail : Nat]

\* f, with v at x.
Put(f, x, v) == [y \in DOMAIN f \cup {x} |-> IF y = x THEN v ELSE f[y]]

Call ==
  [method : {"none"} \cup ReadMethods \cup WriteMethods,
   at : {"start", "lock", "locked", "open", "save", "saving", "leave"},
   id : Nat, archive : Archives \cup {"missing"}, ok : BOOLEAN]

FileContent(id) ==
  IF id \in DOMAIN archiveFiles THEN archiveFiles[id] ELSE "missing"

In(s, at) == loaded /\ call[s].at = at

Goes(s, at) == call' = [call EXCEPT ![s].at = at]

Returns(s, a) ==
  /\ call' = [call EXCEPT ![s] = NoCall]
  /\ answer' = a

Init ==
  /\ loaded = FALSE
  /\ metadatas = <<>> /\ newBackupId = 0
  /\ readers = {} /\ writer = {}
  /\ call = [s \in Sessions |-> NoCall]
  /\ known = [s \in Sessions |-> 0]
  /\ answer = NoAnswer
  /\ usermetas = <<>> /\ archiveFiles = <<>>
  /\ acknowledged = <<>> /\ crashes = 0

-----------------------------------------------------------------------------
\* Mutant: the ids start again at 0 after a restart.
LoadMetadatasOnly ==
  /\ ~loaded
  /\ loaded' = TRUE
  /\ metadatas' = usermetas
  /\ UNCHANGED <<newBackupId, readers, writer, known, call, answer, disk, histories>>

(***************************************************************************)
(* The first login of the user since the server started.  mMutexOnAuth     *)
(* keeps the others out until the holder is ready.                         *)
(***************************************************************************)
loadMetadatasFromFile ==
  /\ ~loaded
  /\ loaded' = TRUE
  /\ \/ metadatas' = usermetas /\ UNCHANGED usermetas
     \/ /\ Fails("load")
        /\ metadatas' = <<>>
        /\ usermetas' \in {usermetas, <<>>}
  /\ newBackupId' = Len(metadatas')
  /\ UNCHANGED <<readers, writer, known, call, answer, archiveFiles, histories>>

(***************************************************************************)
(* A handler of the session calls a method: the methods with an id of an   *)
(* existing backup only after one that told it which ids exist.            *)
(***************************************************************************)
Begin(s, c) ==
  /\ loaded
  /\ call[s] = NoCall
  /\ call' = [call EXCEPT ![s] = [c EXCEPT !.at = "lock"]]
  /\ UNCHANGED <<memory, answer, disk, histories>>

\* The sessions in a method that will still count a restore or take an id.
Upcoming(method) ==
  {s \in Sessions : call[s].method = method /\ call[s].at \in {"lock", "locked"}}

BeginCount(s, id, ok) ==
  /\ id < known[s]
  /\ LET e == metadatas[id + 1]
     IN  e.succ + e.fail + Cardinality(Upcoming("count")) < MaxReports
  /\ Begin(s, [NoCall EXCEPT !.method = "count", !.id = id, !.ok = ok])

BeginAdd(s, a) ==
  /\ newBackupId + Cardinality(Upcoming("add")) < MaxBackups
  /\ Begin(s, [NoCall EXCEPT !.method = "add", !.archive = a])

CallMethod(s) ==
  \/ Begin(s, [NoCall EXCEPT !.method = "size"])
  \/ \E id \in BackupIds : Begin(s, [NoCall EXCEPT !.method = "valid", !.id = id])
  \/ \E m \in {"lookup", "fetch"}, id \in BackupIds :
       id < known[s] /\ Begin(s, [NoCall EXCEPT !.method = m, !.id = id])
  \/ \E id \in BackupIds, ok \in BOOLEAN : BeginCount(s, id, ok)
  \/ \E a \in Archives : BeginAdd(s, a)

WaitingWriters == {s \in Sessions : In(s, "lock") /\ call[s].method \in WriteMethods}

\* Mutant: readers overtake a waiting writer.
LockForReadFirst(s) ==
  /\ In(s, "lock")
  /\ call[s].method \in ReadMethods
  /\ writer = {}
  /\ readers' = readers \cup {s}
  /\ Goes(s, "locked")
  /\ UNCHANGED <<loaded, metadatas, newBackupId, writer, known, answer, disk, histories>>

\* QReadWriteLock lets a waiting writer go first.
LockForRead(s) ==
  /\ In(s, "lock")
  /\ call[s].method \in ReadMethods
  /\ writer = {} /\ WaitingWriters = {}
  /\ readers' = readers \cup {s}
  /\ Goes(s, "locked")
  /\ UNCHANGED <<loaded, metadatas, newBackupId, writer, known, answer, disk, histories>>

LockForWrite(s) ==
  /\ In(s, "lock")
  /\ call[s].method \in WriteMethods
  /\ writer = {} /\ readers = {}
  /\ writer' = {s}
  /\ Goes(s, "locked")
  /\ UNCHANGED <<loaded, metadatas, newBackupId, readers, known, answer, disk, histories>>

-----------------------------------------------------------------------------
(***************************************************************************)
(* The methods that read: one access, then the QReadLocker unlocks.        *)
(***************************************************************************)
Reads(s, method) ==
  /\ In(s, "locked")
  /\ call[s].method = method
  /\ readers' = readers \ {s}
  /\ UNCHANGED <<loaded, metadatas, newBackupId, writer, disk, histories>>

getBackupsNumber(s) ==
  /\ Reads(s, "size")
  /\ known' = [known EXCEPT ![s] = newBackupId]
  /\ Returns(s, [to |-> {s}, size |-> newBackupId])

\* Mutants: the list is read without the lock; the next id is taken for valid.
IsValidUnlocked(s) ==
  /\ In(s, "lock")
  /\ call[s].method = "valid"
  /\ LET id == call[s].id
         valid == id < newBackupId
     IN  /\ known' = [known EXCEPT ![s] = IF valid THEN id + 1 ELSE 0]
         /\ Returns(s, [to |-> {s}, id |-> id, valid |-> valid])
  /\ UNCHANGED <<loaded, metadatas, newBackupId, readers, writer, disk, histories>>

IsValidOffByOne(s) ==
  /\ Reads(s, "valid")
  /\ LET id == call[s].id
         valid == id <= newBackupId
     IN  /\ known' = [known EXCEPT ![s] = IF valid THEN id + 1 ELSE 0]
         /\ Returns(s, [to |-> {s}, id |-> id, valid |-> valid])

isValidBackupId(s) ==
  /\ Reads(s, "valid")
  /\ LET id == call[s].id
         valid == id < newBackupId
     IN  /\ known' = [known EXCEPT ![s] = IF valid THEN id + 1 ELSE 0]
         /\ Returns(s, [to |-> {s}, id |-> id, valid |-> valid])

\* getOriginalPath and getCreationTime: what they return never changes.
getMetadata(s) ==
  /\ Reads(s, "lookup")
  /\ call' = [call EXCEPT ![s] = NoCall]
  /\ UNCHANGED <<known, answer>>

\* fillArchive; fillArchiveWithoutContent reads the same file.
fillArchive(s) ==
  /\ Reads(s, "fetch")
  /\ Returns(s, [to |-> {s}, id |-> call[s].id, archive |-> FileContent(call[s].id)])
  /\ UNCHANGED known

-----------------------------------------------------------------------------
(***************************************************************************)
(* The methods that write.                                                 *)
(***************************************************************************)
Writes(s, method, at) ==
  /\ In(s, at)
  /\ call[s].method = method
  /\ UNCHANGED <<loaded, readers, known, histories>>

\* Mutant: a failure takes back a success.
IncRestoreCountDown(s) ==
  /\ Writes(s, "count", "locked")
  /\ LET i == call[s].id + 1
     IN  metadatas' = [metadatas EXCEPT ![i].succ = IF call[s].ok THEN @ + 1 ELSE @ - 1]
  /\ Goes(s, "save")
  /\ UNCHANGED <<newBackupId, writer, answer, disk>>

\* incSuccRestoreCount and incFailRestoreCount, up to the save.
incRestoreCount(s) ==
  /\ Writes(s, "count", "locked")
  /\ LET i == call[s].id + 1
     IN  IF call[s].ok
         THEN metadatas' = [metadatas EXCEPT ![i].succ = @ + 1]
         ELSE metadatas' = [metadatas EXCEPT ![i].fail = @ + 1]
  /\ Goes(s, "save")
  /\ UNCHANGED <<newBackupId, writer, answer, disk>>

\* addNewBackup, step by step.
TakeId(s) ==
  /\ Writes(s, "add", "locked")
  /\ metadatas' = Append(metadatas, [succ |-> 0, fail |-> 0])
  /\ newBackupId' = newBackupId + 1
  /\ call' = [call EXCEPT ![s] = [@ EXCEPT !.id = newBackupId, !.at = "open"]]
  /\ UNCHANGED <<writer, answer, disk>>

\* Mutant: the file of the next id is opened; a failure to open is ignored.
OpenNextArchive(s) ==
  /\ Writes(s, "add", "open")
  /\ archiveFiles' = Put(archiveFiles, newBackupId, "short")
  /\ call' = [call EXCEPT ![s] = [@ EXCEPT !.ok = TRUE, !.id = newBackupId, !.at = "save"]]
  /\ UNCHANGED <<metadatas, newBackupId, writer, answer, usermetas>>

\* The stream buffers: the file is sure to be whole when it is closed only.
OpenArchive(s) ==
  /\ Writes(s, "add", "open")
  /\ \E isSuc \in IF Fails("archive") THEN BOOLEAN ELSE {TRUE} :
       /\ archiveFiles' = IF isSuc THEN Put(archiveFiles, call[s].id, "short")
                          ELSE archiveFiles
       /\ call' = [call EXCEPT ![s] = [@ EXCEPT !.ok = isSuc, !.at = "save"]]
  /\ UNCHANGED <<metadatas, newBackupId, writer, answer, usermetas>>

\* saveStateMetadatas: the file is emptied first and then written.
SaveOpens(s) ==
  /\ In(s, "save")
  /\ \/ usermetas' = <<>> /\ Goes(s, "saving")
     \/ Fails("metadata") /\ Goes(s, "leave") /\ UNCHANGED usermetas
  /\ UNCHANGED <<memory, answer, archiveFiles, histories>>

\* What a file that was cut short parses to: some entries, of which the last
\* may have been cut inside its counters.
CutShort(entries) ==
  {<<>>} \cup
    UNION {{SubSeq(entries, 1, n)}
             \cup {[SubSeq(entries, 1, n) EXCEPT ![n] = [succ |-> k, fail |-> 0]] :
                     k \in {0, entries[n].succ}} : n \in 1..Len(entries)}

SaveWrites(s) ==
  /\ In(s, "saving")
  /\ \/ usermetas' = metadatas
     \/ Fails("metadata") /\ usermetas' \in CutShort(metadatas)
  /\ Goes(s, "leave")
  /\ UNCHANGED <<memory, answer, archiveFiles, histories>>

Unlocks == writer' = {} /\ UNCHANGED <<loaded, metadatas, newBackupId, readers, known>>

\* addNewBackup returns: the archive is closed before the lock is released.
AddReturns(s) ==
  /\ In(s, "leave")
  /\ call[s].method = "add"
  /\ LET id == call[s].id
         ok == call[s].ok
     IN  /\ \/ ok /\ archiveFiles' = [archiveFiles EXCEPT ![id] = call[s].archive]
            \/ (ok => Fails("archive")) /\ UNCHANGED archiveFiles
         /\ acknowledged' = IF ok THEN Put(acknowledged, id, call[s].archive)
                            ELSE acknowledged
         /\ Returns(s, [to |-> {s}, id |-> id, ok |-> ok])
  /\ Unlocks
  /\ UNCHANGED <<usermetas, crashes>>

CountReturns(s) ==
  /\ In(s, "leave")
  /\ call[s].method = "count"
  /\ call' = [call EXCEPT ![s] = NoCall]
  /\ Unlocks
  /\ UNCHANGED <<answer, disk, histories>>

-----------------------------------------------------------------------------
(***************************************************************************)
(* The server's process ends.  Of an open file some part is on the disk.   *)
(***************************************************************************)
Crash ==
  /\ loaded
  /\ crashes < MaxCrashes
  /\ crashes' = crashes + 1
  /\ loaded' = FALSE
  /\ metadatas' = <<>> /\ newBackupId' = 0
  /\ readers' = {} /\ writer' = {}
  /\ call' = [s \in Sessions |-> NoCall]
  /\ known' = [s \in Sessions |-> 0]
  /\ answer' = NoAnswer
  /\ IF \E s \in Sessions : In(s, "saving")
     THEN usermetas' \in CutShort(metadatas)
     ELSE UNCHANGED usermetas
  /\ \/ UNCHANGED archiveFiles
     \/ \E s \in Sessions :
          /\ call[s].method = "add"
          /\ call[s].at \in {"save", "saving", "leave"}
          /\ call[s].ok
          /\ archiveFiles' = [archiveFiles EXCEPT ![call[s].id] = call[s].archive]
  /\ acknowledged' = <<>>

Method(s) ==
  \/ LockForRead(s)
  \/ LockForWrite(s)
  \/ getBackupsNumber(s)
  \/ isValidBackupId(s)
  \/ getMetadata(s)
  \/ fillArchive(s)
  \/ incRestoreCount(s)
  \/ TakeId(s)
  \/ OpenArchive(s)
  \/ SaveOpens(s)
  \/ SaveWrites(s)
  \/ AddReturns(s)
  \/ CountReturns(s)

Next ==
  \/ loadMetadatasFromFile
  \/ \E s \in Sessions : CallMethod(s) \/ Method(s)
  \/ Crash

Spec == Init /\ [][Next]_vars

\* Every thread runs on; a client need not ask for anything.
FairSpec == Spec /\ \A s \in Sessions : WF_vars(Method(s))

-----------------------------------------------------------------------------
TypeOK ==
  /\ loaded \in BOOLEAN
  /\ metadatas \in Seq(Entry) /\ usermetas \in Seq(Entry)
  /\ newBackupId \in Nat
  /\ readers \subseteq Sessions /\ writer \subseteq Sessions
  /\ known \in [Sessions -> Nat]
  /\ call \in [Sessions -> Call]
  /\ Range(archiveFiles) \subseteq Archives \cup {"short"}
  /\ Range(acknowledged) \subseteq Archives
  /\ crashes \in 0..MaxCrashes

(***************************************************************************)
(* A method that is given an id finds the entry of that backup: between    *)
(* the method that said the id is valid and the one that uses it, in       *)
(* another critical section, the list never gets shorter.                  *)
(***************************************************************************)
AccessesInRange ==
  \A s \in Sessions :
    call[s].method \in {"lookup", "fetch", "count"} => call[s].id < Len(metadatas)

(***************************************************************************)
(* The file of the metadata never names a backup that is not in memory,    *)
(* so the id of the next backup is beyond all the file knows of.           *)
(***************************************************************************)
FileIsBehind ==
  loaded => newBackupId = Len(metadatas) /\ Len(usermetas) <= newBackupId

(***************************************************************************)
(* "Backup was succed. BackupId = " (clientsession.cpp:395): an id that    *)
(* was returned with isSuc names a backup whose archive is stored whole,   *)
(* as long as the server runs.                                             *)
(***************************************************************************)
SuccessIsStored ==
  loaded => \A id \in DOMAIN acknowledged :
              id < newBackupId /\ FileContent(id) = acknowledged[id]

\* addNewBackup has taken an id and not returned yet.
HasId(s) == call[s].method = "add" /\ call[s].at \notin {"lock", "locked"}

AddUnderWay == \E s \in Sessions : HasId(s)

Entries == IF loaded THEN metadatas ELSE usermetas

\* The backups that are there for the sessions: that of addNewBackup is not
\* before it returns.
ListedBackups ==
  [i \in 1..(Len(Entries) - IF AddUnderWay THEN 1 ELSE 0) |->
     [archive |-> FileContent(i - 1), succ |-> Entries[i].succ, fail |-> Entries[i].fail]]

(***************************************************************************)
(* The sessions see every method take effect at one instant, and what a    *)
(* crash leaves behind is a beginning of the list: module BackupStore.     *)
(***************************************************************************)
Store == INSTANCE BackupStore WITH backups <- ListedBackups

ImplementsStore == Store!StoreSpec

(***************************************************************************)
(* A method that changes the holder returns, however often other sessions  *)
(* read: the lock lets a waiting writer go before new readers.             *)
(***************************************************************************)
WritersReturn ==
  \A s \in Sessions :
    call[s].method \in WriteMethods ~> call[s].method = "none"
=============================================================================
