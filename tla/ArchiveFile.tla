----------------------------- MODULE ArchiveFile -----------------------------
(***************************************************************************)
(* An archive (archiver.cpp, struct_serialization.proto): two sizes, the   *)
(* metadata of each entry, and the contents of the files one after         *)
(* another.  Lengths are in units: each size, each entry's metadata and    *)
(* each byte of content is one.                                            *)
(***************************************************************************)
EXTENDS Integers, Sequences

VARIABLE archive   \* the archive's file

\* A file of which the last units may be missing.
File(metas, contentSize, content) ==
  [metas |-> metas, contentSize |-> contentSize, content |-> content,
   length |-> 2 + Len(metas) + Len(content)]

\* What is left of a file when only its first n units are.
CutAt(file, n) ==
  [file EXCEPT !.length = n,
               !.content = SubSeq(@, 1, n - 2 - Len(file.metas))]

NoFile == [metas |-> <<>>, contentSize |-> 0, content |-> <<>>, length |-> 0]

\* getSize reads both sizes, checkArchiveSizes compares, the metadata parses.
checkArchiveSizes(file) ==
  /\ file.length >= 2
  /\ 2 + Len(file.metas) + file.contentSize = file.length

\* What the server sends of an archive for a detailed ls.
getArchiveWithoutContent(file) == File(file.metas, 0, <<>>)
=============================================================================
