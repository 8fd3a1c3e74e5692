----------------------------- MODULE ArchivePack -----------------------------
(***************************************************************************)
(* Archiver::pack (archiver.cpp, meta_pack.h): the tree is collected, the  *)
(* archive is laid out from it, and then the files are opened by their     *)
(* paths and copied, one by one, as they are by then.                      *)
(***************************************************************************)
EXTENDS FsTree, ArchiveFile

VARIABLES
  base,                 \* aps.dirAbsPath, relative to the directory of the head
  contentSize,          \* archiveInfo.contentSize
  metas,                \* aps.metaArchive
  userData,             \* the user_data of the inodes that have one
  contentFreePosition,
  walked,               \* inodes the breadth-first walk has visited
  written               \* entries whose content is in the archive

layoutVars == <<base, contentSize, metas, userData, contentFreePosition, walked>>
packVars == <<layoutVars, written>>

\* A byte of a file is known by its path and position.
Byte(p, k) == [of |-> p, k |-> k]
Zero == [of |-> <<>>, k |-> 0]
Stale == [of |-> <<>>, k |-> -1]      \* whatever the file held before

\* getPathInArchive, without the name of the head: parentix is the parent.
getPathInArchive(i) == get_name(metas, i)

-----------------------------------------------------------------------------
ContentOf(n) == IF tree[n].type = "reg" THEN tree[n].size ELSE 0

\* A path that ends with a slash makes getDirAbsPath name the head itself.
computeArchiveSize ==
  /\ at = "collected"
  /\ at' = "layout"
  /\ contentSize' = FoldLeft(LAMBDA sum, n : sum + ContentOf(n), 0, fs_tree_bfs(tree))
  /\ base' \in {<<>>, <<HeadName>>}
  /\ UNCHANGED <<source, tree, dirs, histories, metas, userData,
                 contentFreePosition, walked, written, archive>>

Packed(n, parentix, offset) ==
  [name |-> tree[n].name, parent |-> parentix, type |-> tree[n].type,
   mode |-> tree[n].mode, mtime |-> tree[n].mtime,
   contentOffset |-> offset, contentSize |-> ContentOf(n)]

(***************************************************************************)
(* Visiting an inode fills in its entry, which its parent made before, and *)
(* makes an empty one with a parentix for each child.  user_data is the    *)
(* index of the entry; the head has none yet.                              *)
(***************************************************************************)
\* Mutant: the parent is the entry before.
AddInodeAfterLast ==
  /\ at = "layout" /\ walked < Len(fs_tree_bfs(tree))
  /\ LET n == fs_tree_bfs(tree)[walked + 1]
         index == IF n \in DOMAIN userData THEN userData[n] ELSE Len(metas) + 1
         made == IF index > Len(metas) THEN Append(metas, [parent |-> index]) ELSE metas
         child(k) == Len(made) + k
         count == Len(tree[n].children)
     IN  /\ metas' = [made EXCEPT ![index] = Packed(n, made[index].parent, contentFreePosition)]
                       \o [k \in 1..count |-> [parent |-> child(k) - 1]]
         /\ userData' = [c \in DOMAIN userData \cup Range(tree[n].children) |->
                           IF c \notin Range(tree[n].children) THEN userData[c]
                           ELSE child(CHOOSE k \in 1..count : tree[n].children[k] = c)]
         /\ contentFreePosition' = contentFreePosition + ContentOf(n)
  /\ walked' = walked + 1
  /\ UNCHANGED <<fsVars, archive, base, contentSize, written>>

addInodeToArchive ==
  /\ at = "layout" /\ walked < Len(fs_tree_bfs(tree))
  /\ LET n == fs_tree_bfs(tree)[walked + 1]
         index == IF n \in DOMAIN userData THEN userData[n] ELSE Len(metas) + 1
         made == IF index > Len(metas) THEN Append(metas, [parent |-> index]) ELSE metas
         child(k) == Len(made) + k
         count == Len(tree[n].children)
     IN  /\ metas' = [made EXCEPT ![index] = Packed(n, made[index].parent, contentFreePosition)]
                       \o [k \in 1..count |-> [parent |-> index]]
         /\ userData' = [c \in DOMAIN userData \cup Range(tree[n].children) |->
                           IF c \notin Range(tree[n].children) THEN userData[c]
                           ELSE child(CHOOSE k \in 1..count : tree[n].children[k] = c)]
         /\ contentFreePosition' = contentFreePosition + ContentOf(n)
  /\ walked' = walked + 1
  /\ UNCHANGED <<fsVars, archive, base, contentSize, written>>

(***************************************************************************)
(* Sizes and metadata are written and the file is made as long as it will  *)
(* be; it is not emptied before.  A file that does not open goes unnoticed *)
(* here: write returns -1, which is compared as an unsigned number.        *)
(***************************************************************************)
WriteHeader ==
  /\ at = "layout" /\ walked = Len(fs_tree_bfs(tree))
  /\ at' = "writing"
  /\ archive' \in {File(metas, contentSize, [k \in 1..contentSize |-> Stale]), NoFile}
  /\ UNCHANGED <<source, tree, dirs, histories, packVars>>

-----------------------------------------------------------------------------
\* Where the next entry's file is looked for.
SoughtPath == base \o getPathInArchive(written + 1)

Opens == SoughtPath \in DOMAIN source /\ source[SoughtPath].type = "reg"

\* A directory has no content, an empty file is only opened.
NothingToCopy(m) == m.type = "dir" \/ (Opens /\ m.contentSize = 0)

\* An ArchiverException: the file does not open, or the archive cannot be mapped.
CopyFails(m) ==
  /\ m.type = "reg"
  /\ ~Opens \/ (m.contentSize > 0 /\ archive = NoFile)

\* Mutant: the file is copied to where the one before it was.
CopiedToStart(m) ==
  [k \in DOMAIN archive.content |->
     IF k \in 1..m.contentSize THEN Byte(SoughtPath, k) ELSE archive.content[k]]

\* A file that has become shorter is mapped beyond its end: zeros follow.
Copied(m) ==
  [k \in DOMAIN archive.content |->
     LET pos == k - m.contentOffset
     IN  IF pos \notin 1..m.contentSize THEN archive.content[k]
         ELSE IF pos <= source[SoughtPath].size THEN Byte(SoughtPath, pos) ELSE Zero]

\* Beyond the last page of the file the access ends the process instead.
writeOneFileToArcive(m) ==
  /\ m.type = "reg" /\ Opens /\ m.contentSize > 0
  /\ archive # NoFile
  /\ \/ archive' = [archive EXCEPT !.content = Copied(m)]
        /\ written' = written + 1
        /\ UNCHANGED at
     \/ source[SoughtPath].size < m.contentSize
        /\ at' = "crashed"
        /\ UNCHANGED <<archive, written>>

writeContentToArchive ==
  /\ at = "writing" /\ written < Len(metas)
  /\ LET m == metas[written + 1]
     IN  \/ NothingToCopy(m) /\ written' = written + 1 /\ UNCHANGED <<at, archive>>
         \/ CopyFails(m) /\ at' = "failed" /\ UNCHANGED <<archive, written>>
         \/ writeOneFileToArcive(m)
  /\ UNCHANGED <<source, tree, dirs, histories, layoutVars>>

PackReturns ==
  /\ at = "writing" /\ written = Len(metas)
  /\ at' = "packed"
  /\ UNCHANGED <<source, tree, dirs, histories, packVars, archive>>

PackInit ==
  /\ FsInit
  /\ archive = NoFile
  /\ base = <<>> /\ contentSize = 0
  /\ metas = <<>> /\ userData = <<>>
  /\ contentFreePosition = 0 /\ walked = 0 /\ written = 0

pack ==
  \/ (Collect \/ OtherProcesses) /\ UNCHANGED <<packVars, archive>>
  \/ computeArchiveSize
  \/ addInodeToArchive
  \/ WriteHeader
  \/ writeContentToArchive
  \/ PackReturns

-----------------------------------------------------------------------------
PackTypeOK ==
  /\ contentSize \in Nat /\ contentFreePosition \in Nat
  /\ walked \in 0..Len(tree) /\ written \in 0..Len(metas)
  /\ DOMAIN userData \subseteq DOMAIN tree
  /\ Range(userData) \subseteq DOMAIN metas
  /\ \A i \in DOMAIN metas : metas[i].parent \in 1..i

(***************************************************************************)
(* When the archive is laid out, its entries are the tree in breadth-first *)
(* order, found by their paths, and the contents of the files lie one      *)
(* behind the other in exactly the space that was computed separately for  *)
(* all of them.  The array of the walk's queue, which is sized by a        *)
(* depth-first count without the head, was long enough.                    *)
(***************************************************************************)
LaidOut ==
  at = "writing" =>
    /\ LET order == fs_tree_bfs(tree)
       IN  /\ Len(order) <= get_tree_size(tree) + 1
           /\ [i \in DOMAIN metas |-> getPathInArchive(i)]
                = [i \in DOMAIN tree |-> get_name(tree, order[i])]
    /\ \A k \in 1..contentSize :
         Cardinality({i \in DOMAIN metas :
                        k - metas[i].contentOffset \in 1..metas[i].contentSize}) = 1
    /\ contentSize = FoldLeft(LAMBDA sum, m : sum + m.contentSize, 0, metas)

(***************************************************************************)
(* An archive that pack has written holds for each file the file's own     *)
(* bytes, as many as it had when the tree was collected; zeros only for a  *)
(* file that changed meanwhile, and nothing that was in the archive's file *)
(* before.  (Of paths without a slash at their end.)                       *)
(***************************************************************************)
OwnBytes ==
  (at = "packed" /\ checkArchiveSizes(archive) /\ base = <<>>) =>
    \A i \in DOMAIN metas : \A k \in 1..metas[i].contentSize :
      LET p == getPathInArchive(i)
          byte == archive.content[metas[i].contentOffset + k]
      IN  byte = Byte(p, k) \/ (byte = Zero /\ p \in touched)
=============================================================================
