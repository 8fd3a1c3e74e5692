------------------------------ MODULE Archiver ------------------------------
(***************************************************************************)
(* A tree is packed while other processes change it, the archive may lose  *)
(* its end where it is kept, and it is listed and unpacked.                *)
(***************************************************************************)
EXTENDS ArchivePack, ArchiveUnpack

vars == <<fsVars, packVars, archive, unpackVars>>

\* An archive of which the disk of the server has kept a part.
ArchiveIsCut ==
  /\ at = "packed" /\ up = "none"
  /\ \E n \in 0..(archive.length - 1) : archive' = CutAt(archive, n)
  /\ UNCHANGED <<fsVars, packVars, unpackVars>>

\* A pack that failed leaves its file, too.
UsesArchive ==
  /\ at \in {"packed", "failed"}
  /\ Restore
  /\ UNCHANGED <<fsVars, packVars, archive>>

Init == PackInit /\ UnpackInit

Next ==
  \/ pack /\ UNCHANGED unpackVars
  \/ ArchiveIsCut
  \/ UsesArchive

Spec == Init /\ [][Next]_vars

-----------------------------------------------------------------------------
TypeOK ==
  /\ FsTypeOK
  /\ PackTypeOK
  /\ UnpackTypeOK

Restored(i) == <<HeadName>> \o getPathInArchive(i)

\* Of a name that was removed and made again there may be two entries.
IsOnlyEntry(i) ==
  \A j \in DOMAIN metas : getPathInArchive(j) = getPathInArchive(i) => j = i

(***************************************************************************)
(* When unpack returns, every file that is the only entry of its path is   *)
(* there with its time and all its bytes, whatever directories could not   *)
(* be made or opened: an archive that is cut is refused, a file that       *)
(* cannot be written is reported.  (Of an archive that pack has finished.) *)
(***************************************************************************)
FilesRestored ==
  (at = "packed" /\ up = "unpacked" /\ base = <<>>) =>
    \A i \in DOMAIN metas : metas[i].type = "reg" /\ IsOnlyEntry(i) =>
      /\ Restored(i) \in DOMAIN target
      /\ LET file == target[Restored(i)]
         IN  /\ file.type = "reg" /\ file.mtime = metas[i].mtime
             /\ Len(file.data) = metas[i].contentSize
             /\ \A k \in DOMAIN file.data :
                  \/ file.data[k] = Byte(getPathInArchive(i), k)
                  \/ file.data[k] = Zero /\ getPathInArchive(i) \in touched

(***************************************************************************)
(* With a descriptor for every directory and one more, no directory that   *)
(* admits no entries, and no path twice, unpack does not fail, and it      *)
(* leaves the tree that was packed: every directory has its mode and its   *)
(* time, although entries were made in it after it was made itself.        *)
(***************************************************************************)
Unobstructed ==
  /\ leaked + Cardinality({i \in DOMAIN metas : metas[i].type = "dir"}) < Descriptors
  /\ \A i \in DOMAIN metas : metas[i].type = "dir" => metas[i].mode \notin ReadOnly
  /\ \A i \in DOMAIN metas : IsOnlyEntry(i)

RestoredAsPacked ==
  (at = "packed" /\ Unobstructed) =>
    /\ up # "failed"
    /\ up = "unpacked" =>
         \A i \in DOMAIN metas :
           /\ Restored(i) \in DOMAIN target
           /\ target[Restored(i)].type = metas[i].type
           /\ target[Restored(i)].mtime = metas[i].mtime
           /\ metas[i].type = "dir" => target[Restored(i)].mode = metas[i].mode

(***************************************************************************)
(* What ls prints is the tree that was collected, line for line, also when *)
(* it was sent without its content.                                        *)
(***************************************************************************)
ListsTheTree ==
  listing # <<>> => listing = Lines(tree)
=============================================================================
