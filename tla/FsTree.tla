------------------------------- MODULE FsTree -------------------------------
(***************************************************************************)
(* The tree that fs_tree_collect reads from a disk (fs_tree.c, inodes.c)   *)
(* while other processes change what it reads, and the two walks over it   *)
(* (bfs.c, dfs.c).  A step ends where another process can come between:    *)
(* a directory is opened, listed once to count its entries, and listed     *)
(* again to read them, with every directory below in the midst of that.    *)
(* What readdir says an entry is, stat finds right after: "reg", "dir", or *)
(* "other", which is what d_type says neither of (a link, a device, and    *)
(* everything where the file system leaves it at DT_UNKNOWN).              *)
(***************************************************************************)
EXTENDS Integers, Sequences, FiniteSets, TLC, Functions, SequencesExt

CONSTANTS
  Names,        \* names of files and directories
  Modes,        \* modes of files and directories
  HeadName,     \* the name of the directory or file that is collected
  Trees,        \* what may be on the disk at first
  MaxDepth,     \* bound: names in a path
  MaxChanges(_) \* bound: changes by other processes to each of the trees

Paths == UNION {[1..k -> Names] : k \in 0..MaxDepth}

ASSUME TreesAssumption ==
  /\ HeadName \in Names /\ IsFiniteSet(Names)
  /\ {"644", "755"} \subseteq Modes
  /\ MaxDepth \in Nat
  /\ \A t \in Trees :
       /\ MaxChanges(t) \in Nat
       /\ DOMAIN t \subseteq Paths
       /\ t \in [DOMAIN t -> [type : {"reg", "dir", "other"}, size : Nat, mode : Modes]]
       /\ \A p \in DOMAIN t :
            p = <<>> \/ (Front(p) \in DOMAIN t /\ t[Front(p)].type = "dir")

VARIABLES
  source,    \* disk: the entries at and below the path, by their relative path
  at,        \* where the process is
  tree,      \* the inodes, in the order of their creation; the first is the head
  dirs,      \* the directories that are open, the innermost last
  changesLeft,  \* bound: changes by other processes still to come
  created,      \* history: new entries they made
  touched       \* history: the paths they changed

histories == <<changesLeft, created, touched>>
fsVars == <<source, at, tree, dirs, histories>>

\* What other processes create.
NewEntries == {[type |-> "reg", size |-> 1, mode |-> "644"],
               [type |-> "dir", size |-> 1, mode |-> "755"]}

IsDir(disk, p) == p \in DOMAIN disk /\ disk[p].type = "dir"

Entries(disk, p) == {n \in Names : Append(p, n) \in DOMAIN disk}

(***************************************************************************)
(* An inode names its parent by position; the head is its own parent,      *)
(* which stands for NULL.  mtime is the path of the entry it was read of:  *)
(* entries of different paths have different times.                        *)
(***************************************************************************)
Inode(disk, p, name, parent) ==
  [name |-> name, parent |-> parent, type |-> disk[p].type, size |-> disk[p].size,
   mode |-> disk[p].mode, mtime |-> p, children |-> <<>>, slots |-> 0]

\* The path of an inode relative to the head.
get_name(nodes, n) ==
  LET path[i \in DOMAIN nodes] ==
        IF nodes[i].parent = i THEN <<>> ELSE Append(path[nodes[i].parent], nodes[i].name)
  IN  path[n]

-----------------------------------------------------------------------------
(***************************************************************************)
(* The walks.  Every visitor in the repository goes on to the end.         *)
(***************************************************************************)
\* The queue of the breadth-first walk after all inodes were visited.
fs_tree_bfs(nodes) ==
  LET queue[visited \in 0..Len(nodes)] ==
        IF visited = 0 THEN <<1>>
        ELSE queue[visited - 1] \o nodes[queue[visited - 1][visited]].children
  IN  queue[Len(nodes)]

\* The depth-first order below a directory, which print_tree shares.
dir_dfs(nodes, dir) ==
  LET below[n \in DOMAIN nodes] ==
        FoldLeft(LAMBDA order, c : order \o <<c>> \o below[c], <<>>, nodes[n].children)
  IN  below[dir]

get_tree_size(nodes) ==
  IF nodes[1].type = "dir" THEN Len(dir_dfs(nodes, 1)) ELSE 1

-----------------------------------------------------------------------------
(***************************************************************************)
(* Collecting.  "exited" is exit(1); "crashed" the end of the process by   *)
(* an access to memory that is not its own.                                *)
(***************************************************************************)
\* must and may: the entries that readdir is sure to return and those it may
\* return, since libc reads ahead and the directory changes meanwhile.  An
\* entry is known by its name and by the change that made it, 0 for one that
\* was there when the directory was opened or rewound: a name that is removed
\* and made again may be returned for both.
Listing(names) == [name : names, birth : {0}]

OpenDir(n) == [dir |-> n, pass |-> "open", must |-> {}, may |-> {}, seen |-> {}]

CollectNothing ==
  /\ <<>> \notin DOMAIN source
  /\ at' = "exited"
  /\ UNCHANGED <<tree, dirs>>

\* tree->head is not set, and the first walk reads through it.
CollectOther ==
  /\ <<>> \in DOMAIN source
  /\ source[<<>>].type = "other"
  /\ at' = "crashed"
  /\ UNCHANGED <<tree, dirs>>

CollectHead ==
  /\ <<>> \in DOMAIN source
  /\ source[<<>>].type \in {"reg", "dir"}
  /\ tree' = <<Inode(source, <<>>, HeadName, 1)>>
  /\ IF source[<<>>].type = "dir"
     THEN at' = "collecting" /\ dirs' = <<OpenDir(1)>>
     ELSE at' = "collected" /\ UNCHANGED dirs

fs_tree_collect ==
  /\ at = "start"
  /\ CollectNothing \/ CollectOther \/ CollectHead
  /\ UNCHANGED <<source, histories>>

Inner == Last(dirs)
InnerPath == get_name(tree, Inner.dir)
InnerBecomes(d) == dirs' = Append(Front(dirs), d)

InPass(pass) ==
  /\ at = "collecting"
  /\ Inner.pass = pass
  /\ UNCHANGED <<source, histories>>

open_dir ==
  /\ InPass("open")
  /\ IF IsDir(source, InnerPath)
     THEN /\ LET now == Listing(Entries(source, InnerPath))
             IN  InnerBecomes([Inner EXCEPT !.pass = "count", !.must = now, !.may = now])
          /\ UNCHANGED at
     ELSE at' = "exited" /\ UNCHANGED dirs
  /\ UNCHANGED tree

\* Mutants: the count leaves out "." and ".."; the directory is not rewound.
CountEntriesOnly ==
  /\ InPass("count")
  /\ \E counted \in SUBSET Inner.may :
       /\ Inner.must \subseteq counted
       /\ tree' = [tree EXCEPT ![Inner.dir].slots = Cardinality(counted)]
  /\ LET now == Listing(Entries(source, InnerPath))
     IN  InnerBecomes([Inner EXCEPT !.pass = "read", !.must = now, !.may = now])
  /\ UNCHANGED at
CountWithoutRewind ==
  /\ InPass("count")
  /\ tree' = [tree EXCEPT ![Inner.dir].slots = Cardinality(Inner.may) + 2]
  /\ InnerBecomes([Inner EXCEPT !.pass = "read", !.must = {}, !.may = {}])
  /\ UNCHANGED at

\* The count includes "." and "..", which get no inode.
count_files_in_the_directory ==
  /\ InPass("count")
  /\ \E counted \in SUBSET Inner.may :
       /\ Inner.must \subseteq counted
       /\ tree' = [tree EXCEPT ![Inner.dir].slots = Cardinality(counted) + 2]
  /\ LET now == Listing(Entries(source, InnerPath))
     IN  InnerBecomes([Inner EXCEPT !.pass = "read", !.must = now, !.may = now])
  /\ UNCHANGED at

(***************************************************************************)
(* process_dir_child: an entry that is gone when stat asks for it ends     *)
(* the process; a child beyond the slots is written beyond the array.      *)
(***************************************************************************)
ChildIsGone(p) ==
  /\ p \notin DOMAIN source
  /\ at' = "exited"
  /\ UNCHANGED <<tree, dirs>>

ChildIsSkipped(p, d) ==
  /\ p \in DOMAIN source
  /\ source[p].type = "other"
  /\ InnerBecomes(d)
  /\ UNCHANGED <<at, tree>>

ChildIsAdded(p, d) ==
  /\ p \in DOMAIN source
  /\ source[p].type \in {"reg", "dir"}
  /\ LET parent == Inner.dir
         child == Len(tree) + 1
     IN  /\ tree' = Append([tree EXCEPT ![parent].children = Append(@, child)],
                           Inode(source, p, Last(p), parent))
         /\ dirs' = Append(Front(dirs), d)
                      \o (IF source[p].type = "dir" THEN <<OpenDir(child)>> ELSE <<>>)
         /\ \/ UNCHANGED at
            \/ Len(tree[parent].children) >= tree[parent].slots /\ at' = "crashed"

process_dir_child(entry) ==
  /\ InPass("read")
  /\ entry \in Inner.may \ Inner.seen
  /\ LET p == Append(InnerPath, entry.name)
         d == [Inner EXCEPT !.seen = @ \cup {entry}]
     IN  ChildIsGone(p) \/ ChildIsSkipped(p, d) \/ ChildIsAdded(p, d)

\* readdir returns NULL: back to the directory around this one.
CloseDir ==
  /\ InPass("read")
  /\ Inner.must \subseteq Inner.seen
  /\ dirs' = Front(dirs)
  /\ at' = IF Len(dirs) = 1 THEN "collected" ELSE at
  /\ UNCHANGED tree

Collect ==
  \/ fs_tree_collect
  \/ open_dir
  \/ count_files_in_the_directory
  \/ \E entry \in [name : Names, birth : 0..created] : process_dir_child(entry)
  \/ CloseDir

-----------------------------------------------------------------------------
(***************************************************************************)
(* Other processes, while this one reads the disk.                         *)
(***************************************************************************)
Changes(p, new) ==
  /\ at \in {"collecting", "writing"}
  /\ changesLeft > 0
  /\ changesLeft' = changesLeft - 1
  /\ touched' = touched \cup {p}
  /\ created' = created + new
  /\ UNCHANGED <<at, tree>>

\* An open directory that p is in may return p, or need no longer.
IsListed(p, i) == get_name(tree, dirs[i].dir) = Front(p)

Appears(p, entry) ==
  /\ p # <<>> /\ Len(p) <= MaxDepth
  /\ p \notin DOMAIN source
  /\ IsDir(source, Front(p))
  /\ source' = [q \in DOMAIN source \cup {p} |-> IF q = p THEN entry ELSE source[q]]
  /\ dirs' = [i \in DOMAIN dirs |->
                [dirs[i] EXCEPT !.may = IF ~IsListed(p, i) THEN @
                                        ELSE @ \cup {[name |-> Last(p), birth |-> created + 1]}]]
  /\ Changes(p, 1)

Vanishes(p) ==
  /\ p # <<>> /\ p \in DOMAIN source
  /\ Entries(source, p) = {}
  /\ source' = Restrict(source, DOMAIN source \ {p})
  /\ dirs' = [i \in DOMAIN dirs |->
                [dirs[i] EXCEPT !.must = IF ~IsListed(p, i) THEN @
                                         ELSE {e \in @ : e.name # Last(p)}]]
  /\ Changes(p, 0)

Resizes(p, size) ==
  /\ p \in DOMAIN source
  /\ source[p].type = "reg" /\ source[p].size # size
  /\ source' = [source EXCEPT ![p].size = size]
  /\ UNCHANGED dirs
  /\ Changes(p, 0)

OtherProcesses ==
  \E p \in Paths :
    \/ \E entry \in NewEntries : Appears(p, entry)
    \/ Vanishes(p)
    \/ \E size \in {0, 2} : Resizes(p, size)

FsInit ==
  /\ source \in Trees
  /\ at = "start"
  /\ tree = <<>> /\ dirs = <<>>
  /\ changesLeft = MaxChanges(source)
  /\ created = 0 /\ touched = {}

FsTypeOK ==
  /\ DOMAIN source \subseteq Paths
  /\ at \in {"start", "collecting", "collected", "layout", "writing", "packed",
             "failed", "exited", "crashed"}
  /\ \A n \in DOMAIN tree :
       /\ tree[n].name \in Names
       /\ tree[n].parent \in DOMAIN tree
       /\ tree[n].type \in {"reg", "dir"}
       /\ tree[n].size \in Nat /\ tree[n].slots \in Nat
       /\ tree[n].children \in Seq(DOMAIN tree)
  /\ \A i \in DOMAIN dirs :
       /\ dirs[i].dir \in DOMAIN tree
       /\ dirs[i].pass \in {"open", "count", "read"}
       /\ dirs[i].seen \cup dirs[i].must \subseteq dirs[i].may
  /\ {changesLeft, created} \subseteq Nat
  /\ touched \subseteq Paths

(***************************************************************************)
(* The array of a directory's children is as long as the first pass says   *)
(* (inodes.c:171).  Fewer than three entries that others make, in whatever *)
(* directory and moment since collecting began, do not suffice to write    *)
(* beyond it: there is room for "." and "..".                              *)
(***************************************************************************)
OverrunTakesThree ==
  \A n \in DOMAIN tree : Len(tree[n].children) > tree[n].slots => created > 2

(***************************************************************************)
(* Whatever happens around it, a tree that was collected has each entry    *)
(* nobody touched once, if nobody touched its directories; a path is there *)
(* twice only if somebody touched it, since readdir may return a name that *)
(* was removed and made again for both.  Collecting a directory gives up   *)
(* (exit) only when somebody touched something.                            *)
(***************************************************************************)
Collectable(p) ==
  /\ source[p].type # "other"
  /\ \A k \in 0..Len(p) : SubSeq(p, 1, k) \notin touched

CollectedOnce ==
  /\ at = "collected" =>
       /\ \A m, n \in DOMAIN tree :
            get_name(tree, m) = get_name(tree, n) => m = n \/ get_name(tree, n) \in touched
       /\ \A p \in DOMAIN source : Collectable(p) =>
            \E n \in DOMAIN tree : get_name(tree, n) = p
  /\ at = "exited" /\ tree # <<>> => touched # {}
=============================================================================
