---------------------------- MODULE ArchiveUnpack ----------------------------
(***************************************************************************)
(* Archiver::unpack and Archiver::printArchiveFsTree (archiver.cpp,        *)
(* meta_pack.h): the tree is rebuilt from the entries' parents, and walked *)
(* breadth first to make the directories and files.  One process may       *)
(* unpack several times, as a client does; what one call left of           *)
(* descriptors and of files, the next one finds.  The disk is the client's *)
(* alone.                                                                  *)
(***************************************************************************)
EXTENDS FsTree, ArchiveFile

CONSTANTS
  ReadOnly,      \* the modes of directories that admit no new entries
  Descriptors,   \* descriptors the process may open for entries
  MaxUnpacks     \* bound: calls of unpack

ASSUME UnpackAssumption ==
  /\ {Descriptors, MaxUnpacks} \subseteq Nat
  /\ "755" \notin ReadOnly

VARIABLES
  up,          \* what became of the call of unpack
  unpacks,     \* number of calls
  rebuilt,     \* the tree made by buildFsTree
  visited,     \* inodes the walk has visited
  dirsQueue,   \* aus.dirsQueue: directories held open until their time is set
  leaked,      \* descriptors that earlier calls have left open
  target,      \* disk: aus.dirAbsPath, and what is below
  listing      \* what was printed last: depth and name in each line

unpackVars ==
  <<up, unpacks, rebuilt, visited, dirsQueue, leaked, target, listing>>

DefaultMode == "644"   \* of a file that QFile creates
Now == <<"now">>       \* a time that is not one of the archive's

(***************************************************************************)
(* buildFsTree: the children of an entry are the entries that name it as   *)
(* their parent, in their order.  calcNumberDirChildren counts the same    *)
(* entries for the size of the array.                                      *)
(***************************************************************************)
IsChildOf(entries, j, i) == entries[j].parent = i /\ j # i

\* Mutant: the array is filled from its end.
ChildrenFromTheEnd(entries, i) ==
  FoldLeft(LAMBDA children, j : IF IsChildOf(entries, j, i) THEN <<j>> \o children ELSE children,
           <<>>, [j \in DOMAIN entries |-> j])

ChildrenOf(entries, i) ==
  FoldLeft(LAMBDA children, j : IF IsChildOf(entries, j, i) THEN Append(children, j) ELSE children,
           <<>>, [j \in DOMAIN entries |-> j])

buildFsTree(entries) ==
  [i \in DOMAIN entries |->
     [name |-> entries[i].name, parent |-> entries[i].parent, type |-> entries[i].type,
      children |-> ChildrenOf(entries, i)]]

-----------------------------------------------------------------------------
(***************************************************************************)
(* A call that is refused has thrown an ArchiverException before it wrote. *)
(***************************************************************************)
Refuses ==
  /\ ~checkArchiveSizes(archive)
  /\ up' = "refused"
  /\ UNCHANGED <<rebuilt, visited, dirsQueue, leaked>>

\* getDirAbsPath names the directory around the path, or the path itself when
\* it ends with a slash; every call gets the same.  The vector of an earlier
\* call is gone; the descriptors that were in it are not closed.
Starts ==
  /\ checkArchiveSizes(archive)
  /\ up' = "unpacking"
  /\ rebuilt' = buildFsTree(archive.metas)
  /\ visited' = 0
  /\ dirsQueue' = <<>>
  /\ leaked' = leaked + Len(dirsQueue)

unpack ==
  /\ up # "unpacking"
  /\ unpacks < MaxUnpacks
  /\ unpacks' = unpacks + 1
  /\ Refuses \/ Starts
  /\ UNCHANGED <<target, listing>>

-----------------------------------------------------------------------------
Visited == fs_tree_bfs(rebuilt)[visited + 1]
Meta == archive.metas[Visited]
TargetPath == <<rebuilt[1].name>> \o get_name(rebuilt, Visited)

HasDescriptor == leaked + Len(dirsQueue) < Descriptors

CanCreate(p) == IsDir(target, Front(p)) /\ target[Front(p)].mode \notin ReadOnly

\* A new entry sets the time of its directory.
With(p, entry) ==
  IF p \in DOMAIN target THEN [target EXCEPT ![p] = entry]
  ELSE [q \in DOMAIN target \cup {p} |->
          IF q = p THEN entry
          ELSE IF q = Front(p) THEN [target[q] EXCEPT !.mtime = Now] ELSE target[q]]

FileOpens ==
  /\ HasDescriptor
  /\ IF TargetPath \in DOMAIN target THEN target[TargetPath].type = "reg"
     ELSE CanCreate(TargetPath)

\* The mode in the call of open after it is of no effect: the file is there.
unpackRegfileFromArchive ==
  /\ FileOpens
  /\ target' = With(TargetPath,
       [type |-> "reg", mtime |-> Meta.mtime,
        data |-> SubSeq(archive.content, Meta.contentOffset + 1,
                        Meta.contentOffset + Meta.contentSize),
        mode |-> IF TargetPath \in DOMAIN target THEN target[TargetPath].mode
                 ELSE DefaultMode])
  /\ visited' = visited + 1
  /\ UNCHANGED <<up, dirsQueue>>

\* Mutant: it is reported, like a directory that does not open.
FileIsSkipped ==
  /\ ~FileOpens
  /\ visited' = visited + 1
  /\ UNCHANGED <<up, target, dirsQueue>>

\* readOneFileFromArcive throws; no directory gets its time, none is closed.
FileFails ==
  /\ ~FileOpens
  /\ up' = "failed"
  /\ UNCHANGED <<target, visited, dirsQueue>>

\* mkdir, of which nobody asks whether it succeeded.
AfterMkdir ==
  IF TargetPath \notin DOMAIN target /\ CanCreate(TargetPath)
  THEN With(TargetPath, [type |-> "dir", mtime |-> Now, data |-> <<>>, mode |-> Meta.mode])
  ELSE target

HoldsDir == Append(dirsQueue, [path |-> TargetPath, mtime |-> Meta.mtime])

\* Mutants: the time of the directory is set at once; nobody asks whether the
\* directory was opened.
UnpackDirAtOnce ==
  /\ target' = IF IsDir(AfterMkdir, TargetPath) /\ HasDescriptor
               THEN [AfterMkdir EXCEPT ![TargetPath].mtime = Meta.mtime]
               ELSE AfterMkdir
  /\ visited' = visited + 1
  /\ UNCHANGED <<up, dirsQueue>>
UnpackDirUnchecked ==
  /\ target' = AfterMkdir
  /\ dirsQueue' = HoldsDir
  /\ visited' = visited + 1
  /\ UNCHANGED up

unpackDirFromArchive ==
  /\ target' = AfterMkdir
  /\ dirsQueue' = IF IsDir(AfterMkdir, TargetPath) /\ HasDescriptor
                  THEN HoldsDir
                  ELSE dirsQueue
  /\ visited' = visited + 1
  /\ UNCHANGED up

unpackInodeFromArchive ==
  /\ up = "unpacking" /\ visited < Len(fs_tree_bfs(rebuilt))
  /\ \/ Meta.type = "reg" /\ (unpackRegfileFromArchive \/ FileFails)
     \/ Meta.type = "dir" /\ unpackDirFromArchive
  /\ UNCHANGED <<unpacks, rebuilt, leaked, listing>>

\* unpack returns, and the client reports a success.
restoreDirsTime ==
  /\ up = "unpacking" /\ visited = Len(fs_tree_bfs(rebuilt))
  /\ target' = FoldLeft(LAMBDA disk, task : [disk EXCEPT ![task.path].mtime = task.mtime],
                        target, Reverse(dirsQueue))
  /\ dirsQueue' = <<>>
  /\ up' = "unpacked"
  /\ UNCHANGED <<unpacks, rebuilt, visited, leaked, listing>>

-----------------------------------------------------------------------------
Lines(nodes) ==
  [i \in 1..Len(nodes) |->
     LET n == (<<1>> \o dir_dfs(nodes, 1))[i]
     IN  [depth |-> Len(get_name(nodes, n)), name |-> nodes[n].name]]

\* ls: of an archive, or of what the server sends in its place.
printArchiveFsTree ==
  /\ up # "unpacking"
  /\ checkArchiveSizes(archive)
  /\ \E file \in {archive, getArchiveWithoutContent(archive)} :
       /\ checkArchiveSizes(file)
       /\ listing' = Lines(buildFsTree(file.metas))
  /\ UNCHANGED <<up, unpacks, rebuilt, visited, dirsQueue, leaked, target>>

UnpackInit ==
  /\ up = "none" /\ unpacks = 0
  /\ rebuilt = <<>> /\ visited = 0
  /\ dirsQueue = <<>> /\ leaked = 0
  /\ target = [p \in {<<>>} |-> [type |-> "dir", mtime |-> Now, data |-> <<>>, mode |-> "755"]]
  /\ listing = <<>>

Restore ==
  \/ unpack
  \/ unpackInodeFromArchive
  \/ restoreDirsTime
  \/ printArchiveFsTree

UnpackTypeOK ==
  /\ up \in {"none", "refused", "unpacking", "failed", "unpacked"}
  /\ unpacks \in 0..MaxUnpacks
  /\ visited \in 0..Len(rebuilt)
  /\ leaked \in Nat /\ leaked + Len(dirsQueue) <= Descriptors
  /\ \A p \in DOMAIN target : p = <<>> \/ IsDir(target, Front(p))
  /\ \A i \in DOMAIN dirsQueue : IsDir(target, dirsQueue[i].path)
=============================================================================
