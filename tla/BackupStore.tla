----------------------------- MODULE BackupStore -----------------------------
(***************************************************************************)
(* What a UserDataHolder promises to the sessions of its user: a list of   *)
(* backups with one identity each, on which every call takes effect at one *)
(* instant.  A crash of the server keeps the order of the list and the     *)
(* archive of every backup that is still in it.                            *)
(***************************************************************************)
EXTENDS Integers, Sequences

CONSTANTS
  Sessions,   \* the sessions of one user
  Archives,   \* contents of archives
  BackupIds   \* the ids a session may ask for

VARIABLES
  backups,   \* backups[id + 1] is backup id
  answer     \* the answer given last, and to whom

storeVars == <<backups, answer>>

\* What is in the file of a backup: an archive, a part of one, or no file.
Stored == Archives \cup {"short", "missing"}

NoAnswer == [to |-> {}]

StoreInit == backups = <<>> /\ answer = NoAnswer

\* A new backup takes the next id, also when not all of it could be stored.
Store(s) ==
  /\ \E stored \in Stored, ok \in BOOLEAN :
       /\ ok => stored # "missing"
       /\ backups' = Append(backups, [archive |-> stored, succ |-> 0, fail |-> 0])
       /\ answer' = [to |-> {s}, id |-> Len(backups), ok |-> ok]

Fetch(s) ==
  /\ \E id \in 0..(Len(backups) - 1) :
       answer' = [to |-> {s}, id |-> id, archive |-> backups[id + 1].archive]
  /\ UNCHANGED backups

Size(s) == answer' = [to |-> {s}, size |-> Len(backups)] /\ UNCHANGED backups

IsValid(s) ==
  /\ \E id \in BackupIds :
       answer' = [to |-> {s}, id |-> id, valid |-> id < Len(backups)]
  /\ UNCHANGED backups

CountRestore(s) ==
  /\ \E i \in 1..Len(backups) :
       \/ backups' = [backups EXCEPT ![i].succ = @ + 1]
       \/ backups' = [backups EXCEPT ![i].fail = @ + 1]
  /\ UNCHANGED answer

\* A suffix of the list and some counts may be lost, and the backup that was
\* being stored may be kept.
Crash ==
  /\ Len(backups') <= Len(backups) + 1
  /\ \A i \in 1..Len(backups) :
       i <= Len(backups') => /\ backups'[i].archive = backups[i].archive
                             /\ backups'[i].succ <= backups[i].succ
                             /\ backups'[i].fail <= backups[i].fail
  /\ answer' = NoAnswer

StoreNext ==
  \/ \E s \in Sessions :
       Store(s) \/ Fetch(s) \/ Size(s) \/ IsValid(s) \/ CountRestore(s)
  \/ Crash

StoreSpec == StoreInit /\ [][StoreNext]_storeVars
=============================================================================
