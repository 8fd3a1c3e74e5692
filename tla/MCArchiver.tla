----------------------------- MODULE MCArchiver -----------------------------
(* Instance of Archiver for TLC. *)
EXTENDS Archiver

CONSTANTS a, b, c

Reg(size, mode) == [type |-> "reg", size |-> size, mode |-> mode]
Dir(mode) == [type |-> "dir", size |-> 1, mode |-> mode]
Other == [type |-> "other", size |-> 0, mode |-> "777"]

Nothing == <<>>
Special == <<>> :> Other
OneFile == <<>> :> Reg(2, "644")
EmptyDir == <<>> :> Dir("755")
\* Files before and behind directories, one of them empty, one executable.
Nested == <<>> :> Dir("755") @@ <<a>> :> Dir("755") @@ <<b>> :> Reg(1, "755")
            @@ <<a, a>> :> Reg(2, "644") @@ <<a, b>> :> Reg(0, "644")
\* A directory that admits no new entries.
Protected == <<>> :> Dir("755") @@ <<b>> :> Dir("555") @@ <<b, a>> :> Reg(1, "644")
Mixed == <<>> :> Dir("755") @@ <<a>> :> Other @@ <<b>> :> Dir("755") @@ <<c>> :> Dir("755")

MCTrees == {Nothing, Special, OneFile, EmptyDir, Nested, Protected, Mixed}

\* Three new entries overrun the array of an empty directory.
MCMaxChanges(t) == IF t = EmptyDir THEN 3 ELSE 1
=============================================================================
