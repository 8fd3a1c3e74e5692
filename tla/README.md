# Formal models of spbau-data-backup

TLA+ modules that model the backup client, the backup server, the connection
between them and the archiver, configurations with which TLC checks small
instances, and proofs checked by TLAPS. Paths are relative to the root of the repository.

## 1. The system

A user runs a console client that talks to a server over one TCP connection:
register or log in, list backups, back a directory up, restore a backup. The
server keeps the archives and, for each backup, how often a restore of it
succeeded or failed.

| Component | Source | State | Operations |
|---|---|---|---|
| Client session | `net/client/src/clientsession.cpp` | `mClientState`, `restorePath` | a slot for a console line, one for a message, one for "connected"; one thread |
| Session on the server | `net/server/src/clientsessiononserver.cpp` | `mPerClientState`, `mUserDataHolder`, `mRestoreBackupId` | one handler for each command, `disconnectSocket`; a thread for each session |
| Protocol | `net/protocol/` | - | command ids, protobuf messages |
| Framing | `lib/networking/src/networkstream.cpp` | `mNextBlockSize`, the socket's buffers | `sendMessage`, `receiveMessage` |
| Holder of a user's backups | `net/server/src/userdataholder.cpp` | `mMetadatas`, `mNewBackupId`, `mReadWriteLock`; files `users/<login>.usermetas`, `backups/<login>_<id>` | store, fetch, validate an id, count a restore |
| Manager | `net/server/src/serverclientmanager.cpp`, `clientsessiononservercreator.cpp`, `threaddeleter.cpp` | `mSessions`, `mFreeSessionIdQueue`, `mUsers`, `mUsersCredentials`, `mMutexOnAuth`; file `userCredentials.secure` | accept, register, authenticate, release a place, the operator's `ls`, `kill`, `exit` |
| Archiver | `lib/archiver/src/archiver.cpp` | archive files; during a call the list of entries, the free position, the descriptors of directories | pack, unpack, list |
| fs_tree | `lib/fs_tree/src/*.c` | a tree of inodes | collect a directory, walk the tree breadth first and depth first |
| Console stream, command line archiver | `lib/consoleRW`, `cmd_archiver` | - | lines in and out; one call of the archiver |

How they interact:

- `NetworkStream` turns bytes into messages and calls the session's
  `onNetworkInput` directly, in the loop that reads.
- A session calls the manager's `tryRegister` and `tryAuth` in its own thread
  under `mMutexOnAuth`, and gets a pointer to the `UserDataHolder` that all
  sessions of the user share; the holder guards itself with one read-write lock.
- A session that ends posts `releaseClientPlace` to the main thread; its
  deletion deletes its creator, which makes the main thread end the thread,
  which makes it delete the thread.
- The archiver's pack has fs_tree collect the tree, walks it twice to lay the
  archive out, and then opens the files by their paths again. Unpack builds such
  a tree from the archive and walks it to make directories and files. The client
  calls both, in one process for all its backups; so does the command line
  archiver, once.
- The operator's `kill` disconnects sockets of other threads from the main
  thread.

What is hard in it:

- *Two state machines over a channel.* The client has a state for each answer,
  the session has states of its own; a restore takes a third message which is
  not answered, so the next request may follow it at once. Some handlers
  check the state, some do not, one checks it and goes on.
- *Failures.* The connection breaks, either process ends, a write is cut short,
  the server crashes between two writes.
- *Threads.* Sessions of one user on one holder; logins at the same time; ids
  of places that are used again; posted events that come late.
- *Framing.* Bytes in any pieces, several messages for one signal, a handler
  that closes the socket under the loop.
- *A disk that others use.* A directory is listed twice while it changes, sizes
  are taken long before contents, paths are looked up again; unpack may lack
  descriptors or the right to write, half way.

What makes each component correct:

| Component | Correctness |
|---|---|
| Client and session | never out of step; every request answered; restores counted as reported; a session ends with its connection |
| Session alone | nothing served before a login; nothing after an exit; one count for one archive sent |
| Client alone | one report for one restore asked for |
| Framing | a FIFO channel of whole messages; nothing left behind |
| Holder | every call atomic; ids not given twice; what was acknowledged is stored; writers are not starved |
| Manager | a place for each session; a place names its user; one account for a login; a holder in use stays; ended sessions are cleared away |
| fs_tree | every entry once, although the directory is listed twice; a walk that visits every inode |
| Archiver | unpack of pack is the tree that was packed, or the failure is reported; each file has its own bytes |

Everything that is hard to test is listed in `PROJECT.json` under `hazards`, at
the line where it bites, with the properties that are about it.

## 2. Modules

| Module | Models | Uses |
|---|---|---|
| `Protocol` | commands, and one connection as a queue in each direction | |
| `ClientSession` | the client | `Protocol` |
| `ClientSessionOnServer` | a session of the server | `Protocol` |
| `Connection` | client and session together, with breaks, ends and other sessions | both |
| `AnyClient` | a session with an arbitrary client | `ClientSessionOnServer` |
| `AnyServer` | a client with an arbitrary server | `ClientSession` |
| `SessionProofs` | lemmas about messages and about the state of each side alone | `ClientSession`, `ClientSessionOnServer` |
| `ConnectionProofs` | proofs about `Connection`: the two sides stay in step, restores and their counters | `Connection`, `SessionProofs` |
| `AnyClientProofs` | proofs about `AnyClient` | `AnyClient`, `SessionProofs` |
| `AnyServerProofs` | proofs about `AnyServer` | `AnyServer`, `SessionProofs` |
| `FifoChannel` | what framing promises (abstract) | |
| `NetworkStream` | framing, byte by byte; implements `FifoChannel` | |
| `StreamProofs` | proofs about `NetworkStream`, with the refinement | `NetworkStream` |
| `BackupStore` | what a holder promises (abstract) | |
| `UserDataHolder` | the holder, step by step; implements `BackupStore` | |
| `HolderProofs` | proofs about `UserDataHolder`: the lock, the ids, the stored archives, the refinement | `UserDataHolder` |
| `ServerClientManager` | places, accounts and threads | |
| `ManagerProofs` | proofs about `ServerClientManager` | `ServerClientManager` |
| `FsTree` | collecting a tree while other processes change it; the two walks | |
| `ArchiveFile` | an archive and the check of its sizes | |
| `ArchivePack` | `Archiver::pack` | `FsTree`, `ArchiveFile` |
| `ArchiveUnpack` | `Archiver::unpack`, `Archiver::printArchiveFsTree` | `FsTree`, `ArchiveFile` |
| `Archiver` | pack, the archive kept in part or whole, list and unpack | both |
| `ArchiverInvariants` | the inductive invariants of the archiver, and the notions of trees, walks and entries its lemmas use | `Archiver` |
| `ArchiverProofs` | proofs about collecting a tree, packing it, unpacking and listing it | `ArchiverInvariants` |
| `MC...` | instances for TLC | |

Definitions have the names of the functions they model. A definition marked
*Mutant* in a comment is a faulty variant of the one after it, which the
properties of the project reveal; no specification uses it.

### Protocol, ClientSession, ClientSessionOnServer, Connection

A slot of the client or of the session runs to its end in its thread and talks
to nobody on the way, so each is one action: taking the oldest message,
the change of state, and the reply. `toServer` and `toClient` hold what was
written and not handled yet. A write to a connection that is down is dropped;
`close` discards what is unread; a break leaves a prefix of each direction.
A backup is `"whole"`, `"short"` or `"missing"` on the server's disk; unpack
refuses all but the first (`checkArchiveSizes`). The client unpacks a copy,
`curunpack.pck`, and looks neither at the result of `open` nor at that of `write`
(`UnpackAndReport`): the copy may be short, and if it was not opened, what an
earlier restore left in it is unpacked and reported (`uncopied` records those
reports). A backup whose archive is short or missing is listed with
`serverError`, one that is whole may be. The client's process ends on `exit`, when
a number does not parse, when an exception leaves a slot, or at any time. What
`tryRegister` and `tryAuth` decide is open here.

`RejectUnexpected` is the start of a handler in the wrong state, `RejectRestore` and
`RejectRestoreCrashes` are `procRestoreRequest` in a wrong state: it hangs up and
goes on. What it writes then goes to a connection that is down, and is dropped as every
such write is (`ServerRepliesAndCloses`). With a holder pointer that is not
set, it crashes or, when the memory of the pointer happens to hold something
else, does what either branch does. `ServerRejects` is any of these, and
`ServerNeverRejects` says that no step of the composed system is one: it
is an action property, since the state that a rejection leaves need not show
it.

`AnyClient` and `AnyServer` replace one side by one that sends anything at any
time. They show what a side guarantees alone - other clients are
planned (`README.md:8`) - and that the properties of `Connection` do rest on
both sides.

### NetworkStream

A byte is represented by the message it belongs to and whether it is of the
size or of the content. `receiveMessage` is one step for each read; arrivals
come between two runs of the loop, since the loop does not return to the event
loop. The handler called in `ReadBlock` may close the socket.

### UserDataHolder

A method is split at its lock, at its access to memory and at each write to a
file, so that other threads and crashes come between. The stream of an archive
is closed only after the metadata was saved: until then the file is `"short"`,
and a crash may leave it either way. Saving empties the file first; of a file
that was being written a crash leaves a prefix of its entries, the last of
which may have lost counters (`CutShort`). `DiskFaults` says which operations
may fail. Sessions use the ids that a method told them are valid (`known`), as
the handlers do.

`ListedBackups` maps this state to the list of `BackupStore`: an entry counts
from the moment its method returns. The lock around the reading of an archive
(`userdataholder.cpp:61` asks whether it is needed) turned out not to be what
the refinement rests on: leaving it out changes nothing that a session can see,
because an id is known only after its archive is closed. The lock of
`isValidBackupId` is needed.

### ServerClientManager

The main thread takes posted events one by one. A login is a chain of steps
under `mMutexOnAuth`: check, add the account and open the file, enter the user and
the place and, on return, close the file. A crash before that leaves any part of
it: no entry, or entries of which the last is cut within its password or within its
login (`CutShort`). Of a login that is cut what matters is whether it is another user's:
`Beginnings` says which logins begin with which, and all other beginnings are as
good as no entry. `kill` meets a socket that is disconnecting in its own thread:
then both may emit `disconnected` and the place is released twice (`raced`
records it). The main thread uses `mSessions` and `mUsers` without the
mutex; this data race is taken as a possible end of the process (`Crash`).

### FsTree, ArchivePack, ArchiveUnpack, Archiver

A disk is a function from relative paths to entries. Collecting is split where
another process can come between: a directory is opened, listed to count its
entries, listed again, entry by entry, with each subdirectory read in the midst
of it (`dirs` is the stack of the recursion). `readdir` returns what was in the
directory when the pass began and still is; of what came or went since it may
return either (`must`, `may`). An entry is known by its name and by the change that
made it: of a name that was removed and made again `readdir` may return both, and
the code adds both. An entry that is gone when `stat` asks for it ends
the process; a child beyond the counted slots is written beyond the array,
which may end it. Other processes make, remove and resize entries while a tree
is collected and while its files are copied; not while the archive is laid out,
which does not look at the disk.

An inode names its parent by position. `getPathInArchive` of an entry and
`get_name` of an inode are the same recursion without the name of the head,
which is put in front where the code does (`TargetPath`) or cancels out
(`SoughtPath`). `getDirAbsPath` of a path with a slash at its end is the
directory itself: pack then looks for the files in the wrong place, which is a
choice in the model (`base`), since it gets what the user typed. Unpack without
a slash writes beside its destination; `target` is the place it writes to.

Data are names: byte *k* of the file at *p* is `Byte(p, k)`, and the time
of an entry is its path, so that a byte or a time in the wrong place is seen.
`Stale` is what was in the archive's file before: pack does not empty it. The
lengths of an archive are counted in units, one for each size and each entry.
Unpack makes files with the mode of new files (`open` gets the mode when the
file is there already) and directories with the mode packed; `ReadOnly` modes
admit no new entries. A directory holds a descriptor until its time is set; what
a failed unpack leaves open (`leaked`) the next one of the process lacks.
`NoFile` is an archive that did not open, which pack does not notice at once.

## 3. Runs

| Run | Instance | Shows |
|---|---|---|
| `connection` | ids 0 and 1, 4 commands, other sessions store up to 1 backup | the properties of the pair, `RequestsAnswered`, `SessionsEnd` |
| `any_client` | 4 messages, 2 under way in each direction | guarantees of the session alone |
| `any_server` | 4 commands, 4 messages | guarantee of the client alone |
| `holder` | 2 sessions, 2 archives, 2 backups, 1 restore of id 1, 1 crash, failing load and writes of the metadata | `SuccessIsStored`, `AccessesInRange`, `WritersReturn` |
| `holder_crashes` | 2 sessions, 2 archives, 2 backups, 1 restore of id 1, 1 crash, failing writes of archives and metadata | `ImplementsStore`, `FileIsBehind` |
| `network_stream` | 4 messages of content 1 or 3, sizes of 2 bytes | `ImplementsChannel`, `AllReceived`, `AtBoundary` |
| `manager` | 3 connections, 2 users, 1 kill | `PlacesAreOwn`, `PlaceCarriesLogin`, `HolderStays` |
| `sessions` | 2 connections, 2 logins, one the beginning of the other, 2 kills, 1 crash | `OneAccountPerLogin`, `EndedSessionsAreCleared` |
| `archiver` | 7 trees of up to 5 entries, 3 names, depth 2, 1 change by others (3 to the empty directory), 3 descriptors, 2 calls of unpack | `OverrunTakesThree`, `CollectedOnce`, `LaidOut`, `OwnBytes`, `FilesRestored`, `RestoredAsPacked`, `ListsTheTree` |

Why the bounds suffice: 4 commands are a login, a restore and two requests
after it, so that a request overtakes no report and meets a second restore.
One backup makes id 0 valid and id 1 not. Two sessions are all that can be
at the lock in different roles; two backups make a list whose
prefix is not trivial. Three connections are needed for a place that is free
while another is used. Two logins of which one begins with the other are what it
takes to make a second account of a login by cutting the file. Contents of 1 and 3 bytes are below and
above the 2 bytes of a size. The trees have files before and behind
directories, so that breadth-first and depth-first order differ, an empty file, a
file alone, a directory without the right to write, and something that is neither
file nor directory. Three changes are what it takes to write beyond the array of
an empty directory. Three descriptors are enough for the smaller trees and
too few for a tree with three directories, or for a second unpack after a failed
one. Where a run counts events in an instance
(`MaxCommands`, `MaxBackups`, `MaxReports`, `MaxCrashes`, `MaxKills`, `MaxSent`,
`MaxMessages`, `MaxChanges`, `MaxDepth`, `MaxUnpacks`), the guard that uses the bound names it. The deadlock check is
off everywhere: a user who types nothing more and a connection that is gone
leave nothing to do.

Runs that show that the program does not do what one of its messages says
(`PROJECT.json` has the details under `findings`):

| Run | The message | What happens |
|---|---|---|
| `error_swap` | "State is aborted." | the handlers of `serverError` and `serverExit` are swapped: the client aborts, the session goes on |
| `restore_falls_through` | "Server exit because of error with curstate." | the request is served all the same |
| `success_of_short_archive` | "Backup was succed." | the write of the archive is not checked |

The models show more that no text of the repository speaks against, so that no
run counts it as a failure:

- No slot of the client is connected to the end of the connection. A client
  that waits when the connection breaks answers "Busy. Try later." for ever.
  `RequestsAnswered` is therefore about connections that stay up.
- The metadata and the accounts are emptied and written anew at each change. A
  crash in between loses backups or accounts that were acknowledged.
  `BackupStore` promises only that a restart finds a prefix of the list, and
  `SuccessIsStored` is about what was acknowledged since the server started.
  A file of accounts that is cut within a login may give another user's login a second
  account; `OneAccountPerLogin` says that it has none of the users' passwords.
- After a failed `open` of `curunpack.pck` the client unpacks the archive of an earlier
  restore and reports that. `SuccessIsOfWholeArchive` is about the restores
  whose copy was opened.
- A `kill` that meets a disconnect may release a place twice, also one that another
  session has by then. `PlacesAreOwn` and `PlaceCarriesLogin` are about runs in
  which none does (`raced = {}`); the session that ended is cleared away all the same
  (`EndedSessionsAreCleared`).
- `sessionNumber` is counted up by each login and never down, so the erasing
  of a user in `releaseClientPlace` is not reached and no user is ever freed.
- When the metadata cannot be loaded the list starts shorter, and a later crash
  may bring the lost entries back. `ImplementsStore` is checked without
  failing loads; `AccessesInRange` is checked with them.
- Three entries that appear in an empty directory between the two passes are
  written beyond the array (`OverrunTakesThree`). An entry that goes between
  `readdir` and `stat` ends the client with `exit(1)`; a tree whose path is
  neither a file nor a directory leaves `head` unset.
- A name that is removed and made again while its directory is listed may be
  collected twice (`CollectedOnce` says that no other is). The archive then has two
  entries of one path. What unpack makes of them is open: if one is a directory it
  fails or leaves out the other. `FilesRestored` is about files that are the only
  entry of their path, `RestoredAsPacked` about archives without such paths.
- An archive that pack gave up half way has the right length, and unpack takes it;
  in the place of contents it has whatever was there. `OwnBytes` and
  `FilesRestored` are about archives that pack has finished.
- The mode of a file is not restored: `open` is given it when the file exists
  already (`archiver.cpp:268`). `lib/archiver/test/src/main.cpp:73` compares
  modes, in trees whose files have the mode of new files. `RestoredAsPacked`
  is about the modes of directories.
- A directory that admits no entries, or too few descriptors, makes unpack fail
  half way; directories keep the time of their making, and the descriptors stay
  open. Too few descriptors for directories alone go unnoticed but for a message.

### Fairness

- `Connection`: weak fairness of handling a delivered message on each side, of
  accepting the connection and of noticing its end: the event loops of the client
  and of the session's thread run. Nothing makes a user type, the connection
  break or a process end.
- `NetworkStream`: weak fairness of the arrival of bytes while the connection is
  up (TCP) and of the read loop.
- `UserDataHolder`: weak fairness of each session's steps in a method: the
  threads are scheduled. `QReadWriteLock` prefers a waiting writer, which is in
  the guard of `LockForRead`. No session has to call anything.
- `ServerClientManager`: weak fairness of the main thread and of each
  session's thread; strong fairness of getting `mMutexOnAuth`, that is, `QMutex`
  does not pass over one thread for ever while others take it again and again.

## 4. Proofs

`ConnectionProofs` proves, for every set of backup ids, every number of
commands and every size of the store:

- `TypeCorrect`: `Spec => []TypeOK`; at most two messages to the server and one
  to the client are under way;
- `AnswersAwaited`: `Spec => []AnswersAreAwaited`;
- `NeverRejects`: `Spec => ServerNeverRejects`, no step rejects a message;
- `AbortsOnServerError`: `Spec => AbortsOnServerErrorOnly`;
- `RestoresCounted`: `Spec => []RestoresCountedAsReported`;
- `SuccessOfWholeArchive`: `Spec => []SuccessIsOfWholeArchive`.

None of these is inductive. The invariant behind the first four is `InStep`: the types,
`AnswersAreAwaited`, `ServerInOrder` and `Synchronised`, which says for
each state of the client what is under way and which state the session will
handle it in (`RequestsFitServer`, `SynchronisedWhileUp`,
`UntouchedWhileConnecting`). A waiting client has either its request under way,
possibly behind the report of a restore, or its answer; after a break only what
was under way remains, still in order. `TypesNext` proves the types kept
without the bounds on the queues; `InStepNext` has a lemma for the console, the
handlers of the client, the handlers of the session, the other steps of the
server and the break.

The two theorems about restores need more: `Tally` says how far the session's
count is behind the client's reports and that the report under way is for the
backup the session remembers; `ArchiveUnderWay` says that an archive under way is
the one of the id the user typed. Together with `SuccessIsOfWholeArchive` they
are `Books`, which is inductive once `InStep` is known: a report is for the right
backup because the session waits in `WAIT_RESTORE_RESULT` with the id of the
client (`Synchronised`), and archives are only added (`ArchivesOnlyGrow`).
`TallyKept` and `ArchivesKept` cover the steps that neither report nor count.

`HolderProofs` proves about `UserDataHolder`, for every number of sessions,
archives, backups, restores and crashes:

- `TypeCorrect`: `Spec => []TypeOK`;
- `InRange`: `Spec => []AccessesInRange`;
- `Stored`: `Spec => []SuccessIsStored`, when writing an archive does not fail
  (`success_of_short_archive` shows that it is false otherwise);
- `Behind`: `Spec => []FileIsBehind`, when reading the file of the metadata does
  not fail (a list that was not read is empty, its file need not be).

The invariant is `HolderInv`. Its part `Fits` says of each session what its call
relies on: a writer past the lock is the only one in `writer`; the id it took is
below `newBackupId`; the id of a method that reads or counts, and all the session
knows of, is in the list. Without it no step could be proved to keep the types,
because the entry that `incRestoreCount` changes must exist. `OthersFit` is the
argument about the other sessions: a step only adds to the list, and takes the lock
when it is free. `Stored` adds that the id of a running `addNewBackup` is not
acknowledged and, after the file was opened, has a file (`IsNew`), and that
what is acknowledged is in its file (`Kept`); `AddKeeps` is where the exclusion
of the lock is needed. There is a lemma for each method or step of one.

`HolderIsStore` proves `Spec => ImplementsStore`, the refinement of `BackupStore`,
when the file of the metadata can be read. `StoreInv` adds to `HolderInv` what the
mapping needs: readers and a writer exclude each other; the file knows of no more
entries, and of no more restores of each, than the list does (`NoMore`), so that what a
restart reads is a beginning of what was there; the entry that `addNewBackup`
works on is the last one, has no counts, and is a success only with its
archive's file (`AddsTheLast`). Each step of a method then maps to a stutter or to the
one step of the store that the method is; a crash maps to the store's crash.

`AnyClientProofs` and `AnyServerProofs` prove the guarantees of one side with
an arbitrary other one, for every number of messages: `TypeCorrect`,
`ServerExitLast`, `ServedAfterLogin` and `CountsFollow` of the session, `TypeCorrect` and
`OneReport` of the client. `SessionInv` adds `Orderly`, that a session which still
handles requests has a holder exactly when it has left `NOT_AUTORIZATED`, and
that the restores it counted are those it offered but for the one it waits for;
a session that hung up may be in any state, since `RejectRestore` goes on
after it hung up, but then the connection is closed and empty (`Closed`). `RestoreInv`
adds that a waiting client waits for the last restore the user asked for.
`SessionProofs` has the lemmas these share with `ConnectionProofs`.

`StreamProofs` proves about the framing, for every set of messages and every
size of a block and of the size field: `TypeCorrect`, `StaysAtBoundary` and
`StreamIsChannel`, the refinement of `FifoChannel`. None of them follows from
the buffer alone. `StreamInv` numbers the bytes of the connection: there is a
place where each message's block starts (`BlocksInARow`), what is buffered or in
flight is the stream from some byte on (`UnreadAt`), and that byte is where the
next block begins or is behind its size (`Aligned`). The places are quantified
in the invariant, not computed by a recursion, so that a message that is sent only has
to extend them.

`ManagerProofs` proves about the manager, for every number of connections, users,
passwords, kills and crashes: `TypeCorrect`, `OneAccount` (`OneAccountPerLogin`),
`HoldersStay` (`HolderStays`), `OwnPlace` (`PlacesAreOwn`) and `CarriesLogin`
(`PlaceCarriesLogin`). The last two hold as long as no kill meets a disconnect, as
the properties themselves say (`raced = {}`). `ManagerInv` has a part for each
argument: `AccountsInv`, the check for a login is still true when the account
is added, since the mutex is held, and of two accounts of a login one has a password
that a crash cut (`DistinctLogins`); `ThreadsInv`, a session that logs in or has a
holder is alive, and the events that end a thread are about sessions that are gone;
`HoldersInv`, only finitely many sessions have a holder, so that a user can be counted
at all; `PlacesInv`, a place is free and queued once, or its owner is alive, or
its release is posted once, and only one of these.

`ArchiverProofs`, whose invariants are in `ArchiverInvariants`, proves about
collecting, for every tree of whatever depth and
every number of changes by other processes: `OverrunNeedsThree`
(`OverrunTakesThree`) and `CollectsOnce` (`CollectedOnce`). The invariant has four parts.
`Shape`: an inode's `mtime` is the path of its parent's and its name
(`Located`), and an inode below an open directory is one of those the directory has seen (`Passes`). `Counted`: what was counted, what is seen
and what was created since relate by `RoomFor` in each pass; it keeps two slots for `.`
and `..`. `Complete`: an entry nobody touched is still to be read, is
skipped, or has its inode (`Listed` for an open directory, `Finished`
for one that was closed); `Rooted` and `Known` tie the tree to the disk.
`Unrepeated`: two inodes have the same path only if it is touched (`Twice`), which
follows because what an open directory still offers is touched or was there when the pass
began (`Offered`), and what is below a touched path is touched if it
is there (`Inherited`); and who exits found something gone that was touched (`Exits`). That
`get_name`, a recursion over the parents, finds `mtime` is an induction over the
inodes (`NameIsPath`), and that all is collected one over the length of a path
(`AllCollected`); the library's induction theorems take an operator, so both argue
from a least counterexample (`LeastNumber`).

`ArchiverProofs` goes on with packing: `LaysOutTree` (`LaidOut`) and
`PacksOwnBytes` (`OwnBytes`). The invariant is `PackInv`. To what was shown of
collecting it adds `Related`, that an inode is among the children of its parent
exactly once; `Sized`, that a file nobody touched still has the size that was
read; and `Parented`, that what has children is a directory. From `Related`
follows what the walks do, in two lemmas about trees of which nothing else is
known (`Family`): the queue of the breadth-first walk ends as an enumeration of all inodes
(`BfsWalk`, `WalkOrder`), and the depth-first walk meets every inode but the head
(`DfsLength`), so that the array that is sized by it is long enough. `Layout` then
says how far `addInodeToArchive` has come: the entries are the queue of the walk so far, those of visited
inodes are complete, each begins where the content of the one before ends
(`Offsets`), and every inode that has an entry knows its index (`Indexed`).
`Contents` says that the first `written` files are in their places (`Intact`). It
cannot be stated of every archive: one that did not open or lost its end is
refused by `checkArchiveSizes`. A byte that is zero needs `Sized`: the file was
shorter than its entry says, so somebody touched it.

The two sums of `LaidOut`, over the walk and over the entries, are folds; both are
shown to be the sequence of partial sums (`SumExists`, `SumSteps`).

Last, `ArchiverProofs` is about what becomes of the archive, for every number of
calls of unpack and of descriptors: `TypeCorrect` (`TypeOK`), `RestoresFiles`
(`FilesRestored`), `RestoresTree` (`RestoredAsPacked`) and `ListsTree`
(`ListsTheTree`). An archive that is laid out is a `Catalog`: every entry is behind
its parent, which is a directory, and its path is its parent's and its name (`LaidCatalog`).
The tree that `buildFsTree` makes of it is a `Family` again (`BuiltFamily`), so that
the breadth-first walk over it, which is another walk than the one that packed,
comes by every entry once and by a directory before what is in it (`Rewalks`).
`RestoreInv` adds to `PackInv` that nothing was unpacked yet (`Idle`), or that the
archive is whole and stays as it is (`Busy`), what is on the disk was made for an entry, in a
directory that is there (`Disk`), the directories that are held open are some of those
the walk has come by (`Held`), and every file it has come by that is the only entry of
its path (`Sole`) is there with its time and content (`FilesKept`): no other entry is
written to its place. A later file changes only the time of its directory (`Put`), and `restoreDirsTime` only the times of directories, so
`FilesKept` needs nothing about descriptors. `RestoresTree` does: `Steady` says that,
with enough of them (`Unobstructed`), no call has failed and every directory the walk has
come by is held open, or has its time in the end; that the descriptors suffice
follows because directories are held once each, if no path is there twice, and there are
no more of them than entries of directories (`Opened`, `Held`).

`ListsTree` compares the depth-first walk over the tree that was collected with the
one over the tree that is rebuilt, whose inodes are in another order. The two are
`Twins`: the children of an entry are those of its inode, in the same order
(`SameChildren`, since the children of one directory lie one behind the other in the
queue of the walk), and of twins the walks are the same up to that order
(`TwinWalks`, an induction from the last inode to the head).

The assumptions are those of the modules. Backup ids, sizes and
bounds are naturals; `DiskFaults` without `"load"` for `Behind` and
`HolderIsStore`, without `"archive"` for `Stored`; finitely many names of files, and trees
on the disk in which every entry is in a directory (`TreesAssumption`).

Only model-checked: the liveness properties `RequestsAnswered`, `SessionsEnd`,
`WritersReturn`, `AllReceived` and `EndedSessionsAreCleared` (fairness and `ENABLED` are
out of the prover's reach). Every invariant and every action property that a
passing run checks is proved. The three runs that show disagreements are TLC's alone.

## 5. Plan

1. *Done, models:* protocol, client, session, their composition; framing; holder and
   abstract store; manager; fs_tree and the archiver with the disk they share
   with others.
2. *Done, proofs:* every safety property of the connection, of each side alone, of the
   framing, of the holder, of the manager and of the archiver; both refinements.
3. *Next, models:* the holder shared by sessions of `ClientSessionOnServer`, so
   that what `OtherSessionBacksUp` abstracts is checked as a refinement.

## 6. Not modelled

- Memory in fs_tree: freeing a tree, `malloc` that fails. Links, devices and
  the rest are skipped in the code as in the model (`"other"`). What `readdir` says
  an entry is, `stat` finds: an entry replaced by one of the other kind between
  the two is left out. Where a file system leaves the kind open (`DT_UNKNOWN`),
  the code skips everything in a directory; such entries are `"other"`, too, so that
  there `CollectedOnce` promises nothing of what they are.
- Failures of `readdir` for an entry that stays: libc returns it once in a pass.
- Owners and access times; the umask; other processes that write to the
  destination of an unpack; a disk that fills up while pack or unpack write.
- Console stream, the arguments of the command line archiver, tests and examples:
  no state or no part of the system.
- Generated protobuf code: messages are records; a message that does not parse
  is not sent by either side, and `AnyClient` and `AnyServer` send well-formed
  messages only.
- Texts; in `Connection`, the contents of archives.
- Failures to open `userCredentials.secure`, running out of memory or of
  threads, two servers on one directory.
- Backup ids as 64-bit numbers: no instance comes near their limit, and they
  are compared and counted up only.
