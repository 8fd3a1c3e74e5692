------------------------- MODULE ArchiverInvariants -------------------------
(***************************************************************************)
(* What ArchiverProofs shows of the archiver at each of its steps: the     *)
(* inductive invariants, part by part, and the notions of trees, walks and *)
(* entries in which the lemmas about the steps are stated.                 *)
(***************************************************************************)
EXTENDS Archiver

(***************************************************************************)
(* The types, sharper than FsTypeOK in what is read of the disk.           *)
(***************************************************************************)
Entry == [type : {"reg", "dir", "other"}, size : Nat, mode : Modes]
Node == [name : Names, parent : Nat, type : {"reg", "dir"}, size : Nat, mode : Modes,
         mtime : Paths, children : Seq(Nat), slots : Nat]

ListedEntry == [name : Names, birth : Nat]
OpenDirectory == [dir : Nat, pass : {"open", "count", "read"}, must : SUBSET ListedEntry,
                  may : {S \in SUBSET ListedEntry : IsFiniteSet(S)}, seen : SUBSET ListedEntry]

Typed ==
  /\ DOMAIN source \subseteq Paths /\ source \in [DOMAIN source -> Entry]
  /\ at \in {"start", "collecting", "collected", "layout", "writing", "packed",
             "failed", "exited", "crashed"}
  /\ tree \in Seq(Node)
  /\ dirs \in Seq(OpenDirectory)
  /\ changesLeft \in Nat /\ created \in Nat /\ touched \subseteq Paths

-----------------------------------------------------------------------------
(***************************************************************************)
(* Collecting.  An inode's mtime is the path it was read of (Located).     *)
(* What was counted and what is read leave room for "." and ".." unless    *)
(* entries are created (Counted), what nobody touched is collected or to   *)
(* come (Complete), and a path is there twice only if it is touched        *)
(* (Unrepeated).                                                           *)
(***************************************************************************)
Located ==
  \A n \in 1..Len(tree) :
    \/ n = 1 /\ tree[n].parent = 1 /\ tree[n].mtime = <<>>
    \/ /\ n # 1 /\ tree[n].parent \in 1..(n - 1)
       /\ tree[n].mtime = Append(tree[tree[n].parent].mtime, tree[n].name)

Phases ==
  /\ at = "start" => tree = <<>> /\ dirs = <<>>
  /\ at = "collecting" => dirs # <<>>
  /\ at = "collected" => tree # <<>> /\ dirs = <<>>

Passes ==
  /\ \A i \in 1..Len(dirs) : i # Len(dirs) => dirs[i].pass = "read"
  /\ \A i, j \in 1..Len(dirs) : dirs[i].dir = dirs[j].dir => i = j
  /\ \A i \in 1..Len(dirs) :
       /\ dirs[i].dir \in 1..Len(tree) /\ tree[dirs[i].dir].type = "dir"
       /\ dirs[i].pass # "read" => dirs[i].seen = {}
       /\ dirs[i].seen \cup dirs[i].must \subseteq dirs[i].may
       /\ \A n \in 2..Len(tree) :
            tree[n].parent = dirs[i].dir => \E e \in dirs[i].seen : e.name = tree[n].name

Shape == Typed /\ Located /\ Phases /\ Passes

Room(n) == Len(tree[n].children) = 0 \/ Len(tree[n].children) + 2 <= tree[n].slots + created

RoomFor(d, node, listed) ==
  /\ Len(node.children) <= Cardinality(d.seen)
  /\ d.pass = "count" => Cardinality(listed \ d.must) <= created
  /\ d.pass = "read" => Cardinality(d.may) + 2 <= node.slots + created

Counted ==
  /\ \A n \in 1..Len(tree) : Room(n)
  /\ \A i \in 1..Len(dirs) :
       RoomFor(dirs[i], tree[dirs[i].dir],
               Listing(Entries(source, tree[dirs[i].dir].mtime)))

IsCollected(p) == \E k \in 1..Len(tree) : tree[k].mtime = p

Rooted ==
  \A p \in DOMAIN source : p = <<>> \/ (Front(p) \in DOMAIN source /\ source[Front(p)].type = "dir")

Known ==
  \A n \in 1..Len(tree) : tree[n].mtime \notin touched =>
     tree[n].mtime \in DOMAIN source /\ source[tree[n].mtime].type = tree[n].type

\* The entry n that is there when its directory is opened or rewound.
First(n) == [name |-> n, birth |-> 0]

Listed(d, q) ==
  d.pass = "read" => \A n \in Names :
    LET p == Append(q, n)
    IN  p \in DOMAIN source \ touched =>
          /\ First(n) \in d.must
          /\ First(n) \in d.seen => source[p].type = "other" \/ IsCollected(p)

Finished(q) ==
  \A n \in Names :
    LET p == Append(q, n)
    IN  p \in DOMAIN source \ touched => source[p].type = "other" \/ IsCollected(p)

Complete ==
  /\ Rooted /\ Known
  /\ \A i \in 1..Len(dirs) : Listed(dirs[i], tree[dirs[i].dir].mtime)
  /\ \A k \in 1..Len(tree) :
       tree[k].type = "dir" /\ (\A i \in 1..Len(dirs) : dirs[i].dir # k)
       => Finished(tree[k].mtime)

CollectInv == Shape /\ Counted /\ Complete

\* Touched are: what is below a path that is touched, a path that is there
\* twice, and what readdir may return that is not on the disk or was not when
\* its directory was opened or rewound.
Inherited == \A p \in DOMAIN source : p # <<>> /\ Front(p) \in touched => p \in touched

Twice ==
  \A m, n \in 1..Len(tree) :
    tree[m].mtime = tree[n].mtime => m = n \/ tree[m].mtime \in touched

Offers(d, q) ==
  \A e \in d.may :
    LET p == Append(q, e.name)
    IN  p \in touched \/ (e.birth = 0 /\ p \in DOMAIN source)

Offered == \A i \in 1..Len(dirs) : Offers(dirs[i], tree[dirs[i].dir].mtime)

Exits == at = "exited" /\ tree # <<>> => touched # {}

Unrepeated == Inherited /\ Twice /\ Offered /\ Exits

-----------------------------------------------------------------------------
(***************************************************************************)
(* The steps of collecting, as the proofs use them.                        *)
(***************************************************************************)
\* The inodes there are stay what they are, but for their children and slots.
\* (Their modes do not matter here.)
KeptNodes ==
  /\ tree' \in Seq(Node) /\ Len(tree') >= Len(tree)
  /\ \A k \in 1..Len(tree) :
       /\ tree'[k].mtime = tree[k].mtime /\ tree'[k].parent = tree[k].parent
       /\ tree'[k].name = tree[k].name /\ tree'[k].type = tree[k].type
       /\ tree'[k].size = tree[k].size

\* The innermost directory is at d now.
InnerAt(d) ==
  /\ dirs' \in Seq(OpenDirectory) /\ Len(dirs') = Len(dirs)
  /\ dirs'[Len(dirs)] = d
  /\ \A i \in 1..(Len(dirs) - 1) : dirs'[i] = dirs[i]

\* An entry that is added: its inode is the last one, and a child of the
\* innermost directory.
Grafted(n, p) ==
  /\ p \in Paths /\ KeptNodes /\ Len(tree') = Len(tree) + 1
  /\ LET new == tree'[Len(tree) + 1]
     IN  /\ new.name = n /\ new.parent = Inner.dir /\ new.mtime = p
         /\ new.type = source[p].type /\ new.size = source[p].size
         /\ new.children = <<>> /\ Len(new.children) = 0
  /\ \A k \in 1..Len(tree) :
       /\ tree'[k].slots = tree[k].slots
       /\ tree'[k].children = IF k = Inner.dir
                              THEN Append(tree[k].children, Len(tree) + 1)
                              ELSE tree[k].children
       /\ Len(tree'[k].children) =
            Len(tree[k].children) + (IF k = Inner.dir THEN 1 ELSE 0)

\* The tree has one more inode, of an entry n of dir, whose path is p.
NewInode(dir, n, p) ==
  /\ KeptNodes /\ Len(tree') = Len(tree) + 1 /\ dir \in 1..Len(tree)
  /\ p = Append(tree[dir].mtime, n)
  /\ tree'[Len(tree) + 1].name = n /\ tree'[Len(tree) + 1].parent = dir
  /\ tree'[Len(tree) + 1].mtime = p

\* An open directory that was told of p stays where it is.
SameRecord(new, old) ==
  new \in OpenDirectory /\ new.dir = old.dir /\ new.pass = old.pass /\ new.seen = old.seen

\* What such a directory is told of a new entry.
NewEntry(p) == [name |-> Last(p), birth |-> created + 1]

\* What such a directory need not return is the rest.
Others(entries, p) == {e \in entries : e.name # Last(p)}

\* A step of the archiver that is none of collecting.
Beside ==
  /\ UNCHANGED <<source, tree, dirs, histories>>
  /\ at' = at \/ at' \in {"layout", "writing", "packed", "failed", "crashed"}

-----------------------------------------------------------------------------
(***************************************************************************)
(* Trees and walks over them.  The definitions that take a function of     *)
(* sets of positions say what a fold makes of the first ones.              *)
(***************************************************************************)
\* The sums of the elements that FoldLeft computes of sets of positions.
SumsOf(v, N, sum) ==
  sum = [s \in SUBSET (1..N) |-> IF s = {} THEN 0 ELSE sum[s \ {Max(s)}] + v[Max(s)]]

\* The children of an inode are the later ones that name it as their parent,
\* each of them once.
Family(nodes, N) ==
  /\ N \in Nat \ {0} /\ Len(nodes) = N /\ DOMAIN nodes = 1..N
  /\ \A n \in 2..N : nodes[n].parent \in 1..(n - 1)
  /\ \A n \in 1..N :
       /\ nodes[n].children \in Seq(1..N)
       /\ \A k \in 1..Len(nodes[n].children) :
            /\ nodes[n].children[k] \in 2..N
            /\ nodes[nodes[n].children[k]].parent = n
       /\ \A k, l \in 1..Len(nodes[n].children) :
            nodes[n].children[k] = nodes[n].children[l] => k = l
  /\ \A n \in 2..N : \E k \in 1..Len(nodes[nodes[n].parent].children) :
       nodes[nodes[n].parent].children[k] = n

Queues(nodes, N, queue) ==
  queue = [w \in 0..N |->
             IF w = 0 THEN <<1>>
             ELSE queue[w - 1] \o nodes[queue[w - 1][w]].children]

Reached(s, n) == \E i \in 1..Len(s) : s[i] = n

\* The queue s after v inodes were visited.
Queued(nodes, N, v, s) ==
  /\ s \in Seq(1..N) /\ Len(s) \in 1..N /\ s[1] = 1
  /\ v <= Len(s) /\ (v < N => v + 1 <= Len(s))
  /\ \A i, j \in 1..Len(s) : s[i] = s[j] => i = j
  /\ \A n \in 2..N : Reached(s, n) <=> \E j \in 1..v : s[j] = nodes[n].parent

\* The queue is longer: what it was is its beginning.
Extends(t, s) == Len(s) <= Len(t) /\ \A i \in 1..Len(s) : t[i] = s[i]

\* The queue after each inode; order is the last one, which begins with all
\* the others.
Walk(nodes, N, order, queue) ==
  /\ queue[0] = <<1>> /\ order = queue[N]
  /\ \A v \in 0..N : Queued(nodes, N, v, queue[v]) /\ Extends(order, queue[v])
  /\ \A v \in 0..(N - 1) : queue[v + 1] = queue[v] \o nodes[order[v + 1]].children

-----------------------------------------------------------------------------
(***************************************************************************)
(* Packing.  Parents and children agree, the sizes are those that were     *)
(* read, each entry that was laid out has its place, and the files that    *)
(* were copied are in theirs.                                              *)
(***************************************************************************)
Related == tree # <<>> => Family(tree, Len(tree))

\* A file that nobody touched has the size that was read.
Sized ==
  \A n \in 1..Len(tree) :
    tree[n].mtime \notin touched => source[tree[n].mtime].size = tree[n].size

\* The layout of an archive; nodes is the tree.
SizeIn(nodes, n) == IF nodes[n].type = "reg" THEN nodes[n].size ELSE 0

\* Where the content of each entry ends, in the order of the walk.
Offsets(nodes, N, order, offset) ==
  /\ offset[0] = 0 /\ \A i \in 0..N : offset[i] \in Nat
  /\ \A i \in 1..N : offset[i] = offset[i - 1] + SizeIn(nodes, order[i])

Plan(nodes, N, order, queue, offset) ==
  /\ nodes \in Seq(Node) /\ Family(nodes, N)
  /\ order = fs_tree_bfs(nodes) /\ Walk(nodes, N, order, queue)
  /\ Offsets(nodes, N, order, offset)

\* An entry that has a parent, and one that is complete.
Slot == [parent : Nat]
        \cup [name : Names, parent : Nat, type : {"reg", "dir"}, mode : Modes, mtime : Paths,
              contentOffset : Nat, contentSize : Nat]

PackedOf(nodes, n, parentix, offset) ==
  [name |-> nodes[n].name, parent |-> parentix, type |-> nodes[n].type,
   mode |-> nodes[n].mode, mtime |-> nodes[n].mtime,
   contentOffset |-> offset, contentSize |-> SizeIn(nodes, n)]

\* The entries s have the parents of their inodes; the first v are complete.
Slots(s, nodes, order, offset, v) ==
  /\ s \in Seq(Slot)
  /\ \A i \in 1..Len(s) :
       /\ s[i].parent \in 1..i /\ (s[i].parent = i <=> i = 1)
       /\ i # 1 => order[s[i].parent] = nodes[order[i]].parent
       /\ i <= v => s[i] = PackedOf(nodes, order[i], s[i].parent, offset[i - 1])

\* The inodes of the first l entries but the head know where they are.
Indexed(u, order, l) ==
  /\ DOMAIN u = {order[i] : i \in 2..l}
  /\ \A i \in 2..l : u[order[i]] = i

\* The children c of the inode that is visited after v others are the ones
\* that the walk meets after the l inodes that it has met.
Grown(nodes, N, order, v, l, c) ==
  /\ l \in 1..N /\ v + 1 <= l /\ (v = 0 => l = 1)
  /\ c \in Seq(1..N) /\ Len(c) \in Nat /\ DOMAIN c = 1..Len(c) /\ l + Len(c) \in 1..N
  /\ \A k \in 1..Len(c) : c[k] = order[l + k] /\ nodes[c[k]].parent = order[v + 1]

\* The entries s when the inode with the children c has filled in its own.
Visit(s, v, rec, c) == [s EXCEPT ![v + 1] = rec] \o [k \in 1..Len(c) |-> [parent |-> v + 1]]

Noted(u, l, c) ==
  [x \in DOMAIN u \cup Range(c) |->
     IF x \notin Range(c) THEN u[x] ELSE l + CHOOSE k \in 1..Len(c) : c[k] = x]

\* What the next inode adds to the queue.
Grows(nodes, N, order, queue, v) ==
  /\ Grown(nodes, N, order, v, Len(queue[v]), nodes[order[v + 1]].children)
  /\ Len(queue[v + 1]) = Len(queue[v]) + Len(nodes[order[v + 1]].children)

\* t is s with the entry rec and one entry for each child.
WellVisited(s, v, rec, c, t) ==
  /\ t \in Seq(Slot) /\ Len(t) = Len(s) + Len(c) /\ t[v + 1] = rec
  /\ \A i \in 1..Len(s) : i # v + 1 => t[i] = s[i]
  /\ \A k \in 1..Len(c) : t[Len(s) + k].parent = v + 1

\* Before computeArchiveSize there is nothing of an archive.
Begun ==
  at \in {"start", "collecting", "collected"} =>
    /\ metas = <<>> /\ userData = <<>>
    /\ contentFreePosition = 0 /\ walked = 0 /\ written = 0

\* As many entries have been laid out as inodes were visited.
Laid(N, order, queue, offset) ==
  /\ Plan(tree, N, order, queue, offset)
  /\ contentSize = offset[N]
  /\ walked \in 0..N /\ contentFreePosition = offset[walked]
  /\ Slots(metas, tree, order, offset, walked)
  /\ Len(metas) = (IF walked = 0 THEN 0 ELSE Len(queue[walked]))
  /\ Indexed(userData, order, Len(metas))

Layout ==
  at \in {"layout", "writing", "packed", "failed"} =>
    /\ \E N, order, queue, offset : Laid(N, order, queue, offset)
    /\ at # "layout" => walked = Len(tree)
    /\ at = "layout" => written = 0

\* The tree stays, and so does what has been packed.
Aside ==
  /\ UNCHANGED <<at, tree, packVars, archive>>
  /\ touched \subseteq touched'

\* The index of the inode's entry, and the entries when it is there.
IndexOf(n) == IF n \in DOMAIN userData THEN userData[n] ELSE Len(metas) + 1

MadeFor(index) == IF index > Len(metas) THEN Append(metas, [parent |-> index]) ELSE metas

EntryReady(N, order, queue, offset, index, made) ==
  /\ walked \in 0..(N - 1) /\ index = walked + 1 /\ Len(made) = Len(queue[walked])
  /\ Slots(made, tree, order, offset, walked)
  /\ Indexed(userData, order, Len(made))

\* What is known of the entries when all inodes were visited.
Entry1(i, order, offset) ==
  /\ order[i] \in 1..Len(tree)
  /\ metas[i].contentSize = SizeIn(tree, order[i]) /\ metas[i].contentSize \in Nat
  /\ metas[i].contentOffset = offset[i - 1]
  /\ offset[i] = offset[i - 1] + metas[i].contentSize
  /\ metas[i].type = tree[order[i]].type /\ metas[i].mtime = tree[order[i]].mtime
  /\ getPathInArchive(i) = metas[i].mtime

Entered(N, order, offset) ==
  /\ N = Len(tree) /\ N \in Nat
  /\ metas \in Seq(Slot) /\ Len(metas) = N /\ DOMAIN metas = 1..N
  /\ contentSize \in Nat /\ contentSize = offset[N]
  /\ \A i \in 0..N : offset[i] \in Nat
  /\ \A j \in 0..N : \A i \in 0..j : offset[i] <= offset[j]
  /\ \A i \in 1..N : Entry1(i, order, offset)

\* An archive is four fields.
Recorded ==
  /\ archive = [metas |-> archive.metas, contentSize |-> archive.contentSize,
                content |-> archive.content, length |-> archive.length]
  /\ Len(archive.metas) \in Nat /\ archive.contentSize \in Nat /\ archive.length \in Nat

Own(byte, p, k) == byte = Byte(p, k) \/ (byte = Zero /\ p \in touched)

\* The entries are there, and the files of the first of them, each in its place.
Intact(n) ==
  /\ archive.metas = metas /\ archive.contentSize = contentSize
  /\ DOMAIN archive.content = 1..contentSize
  /\ base = <<>> =>
       \A i \in 1..n : \A k \in 1..metas[i].contentSize :
         Own(archive.content[metas[i].contentOffset + k], metas[i].mtime, k)

Contents ==
  at \in {"writing", "packed", "failed"} =>
    /\ Recorded
    /\ written \in 0..Len(metas) /\ (at = "packed" => written = Len(metas))
    /\ archive.length <= 2 + Len(archive.metas) + archive.contentSize
    /\ checkArchiveSizes(archive) => Intact(written)

-----------------------------------------------------------------------------
(***************************************************************************)
(* The depth-first walk.                                                   *)
(***************************************************************************)
DfsFold(g, c) == FoldLeft(LAMBDA order, x : order \o <<x>> \o g[x], <<>>, c)

\* What the fold makes of its first positions.
Folded(c, M, g, it) ==
  it = [s \in SUBSET (1..M) |->
          IF s = {} THEN <<>> ELSE it[s \ {Max(s)}] \o <<c[Max(s)]>> \o g[c[Max(s)]]]

\* What lies below the first children.
Chain(c, M, g, chain) ==
  /\ chain[0] = <<>>
  /\ \A i \in 1..M : chain[i] = chain[i - 1] \o <<c[i]>> \o g[c[i]]

\* It depends on what lies below the children only.
Agree(c, M, g, h) == \A k \in 1..M : g[c[k]] = h[c[k]]

\* There is the recursion that the walk is, since children come later.
Below(nodes, N, g) == \A n \in 1..N : g[n] = DfsFold(g, nodes[n].children)

\* t has y and everything of s and e.
Has(S, t, s, y, e) ==
  /\ t \in Seq(S) /\ Reached(t, y)
  /\ \A x \in S : Reached(s, x) \/ Reached(e, x) => Reached(t, x)

\* What the walk below an inode meets.
MetBelow(N, c, M, g, t) ==
  /\ t \in Seq(1..N)
  /\ \A k \in 1..M : /\ Reached(t, c[k])
                     /\ \A x \in 1..N : Reached(g[c[k]], x) => Reached(t, x)

-----------------------------------------------------------------------------
(***************************************************************************)
(* The inductive invariant of packing.  Of the tree: its shape, what of    *)
(* the disk it holds, that parents and children agree, the sizes, and that *)
(* what has children is a directory.  Of the archive: that nothing is laid *)
(* out too early, what the entries that were laid out hold, and what of    *)
(* their contents is written.                                              *)
(***************************************************************************)
Parented == \A n \in 2..Len(tree) : tree[tree[n].parent].type = "dir"

PackInv == Shape /\ Complete /\ Related /\ Sized /\ Parented /\ Begun /\ Layout /\ Contents

-----------------------------------------------------------------------------
(***************************************************************************)
(* The tree that buildFsTree makes of the entries.                         *)
(***************************************************************************)
Sift(entries, i, j, c) == IF IsChildOf(entries, j, i) THEN Append(c, j) ELSE c

\* What the fold makes of its first positions.
Sifted(entries, i, N, it) ==
  it = [s \in SUBSET (1..N) |->
          IF s = {} THEN <<>> ELSE Sift(entries, i, Max(s), it[s \ {Max(s)}])]

\* The children that are found among the first entries.
Found(entries, i, N, found) ==
  /\ found[0] = <<>>
  /\ \A j \in 1..N : found[j] = Sift(entries, i, j, found[j - 1])

\* c are the children of i among the first j entries, in their order.
Gathered(entries, i, j, c) ==
  /\ c \in Seq(1..j)
  /\ \A k \in 1..Len(c) : IsChildOf(entries, c[k], i)
  /\ \A k, l \in 1..Len(c) : k < l => c[k] < c[l]
  /\ \A m \in 1..j : IsChildOf(entries, m, i) => \E k \in 1..Len(c) : c[k] = m

\* Entries of which every one but the first is behind its parent.
Orphanless(entries, N) ==
  /\ N \in Nat \ {0} /\ DOMAIN entries = 1..N
  /\ \A i \in 1..N : entries[i].parent \in 1..i /\ (entries[i].parent = i <=> i = 1)

-----------------------------------------------------------------------------
(***************************************************************************)
(* Unpacking.  The entries are a catalog of paths; what is on the disk was *)
(* made for an entry, the directories that are held open are there, and    *)
(* every file the walk has come by is there with its time and content.     *)
(***************************************************************************)
\* The first inode is the head.
Headed == tree # <<>> => tree[1].name = HeadName

\* An entry is found by its path; its parent is a directory.
Cataloged(i) ==
  /\ metas[i].type \in {"reg", "dir"}
  /\ metas[i].parent \in 1..i /\ (metas[i].parent = i <=> i = 1)
  /\ metas[i].mtime \in Seq(Names) /\ getPathInArchive(i) = metas[i].mtime
  /\ metas[i].contentOffset \in Nat /\ metas[i].contentSize \in Nat
  /\ metas[i].contentOffset + metas[i].contentSize <= contentSize
  /\ i = 1 => metas[i].mtime = <<>> /\ metas[i].name = HeadName
  /\ i # 1 => /\ metas[i].name \in Names
              /\ metas[i].mtime = Append(metas[metas[i].parent].mtime, metas[i].name)
              /\ metas[metas[i].parent].type = "dir"

Catalog(N) ==
  /\ N \in Nat \ {0} /\ DOMAIN metas = 1..N /\ Len(metas) = N /\ contentSize \in Nat
  /\ \A i \in 1..N : Cataloged(i)

\* The path of an entry on the disk that it is unpacked to.
Place(i) == <<HeadName>> \o metas[i].mtime

\* No other entry goes there.
Sole(i) == \A j \in DOMAIN metas : Place(j) = Place(i) => j = i

\* The walk over the tree that was rebuilt comes by every entry once, and by
\* a directory before it comes by what is in it.
Rewalk(N, order) ==
  /\ order = fs_tree_bfs(rebuilt) /\ Len(order) = N /\ Len(rebuilt) = N
  /\ rebuilt[1].name = HeadName
  /\ order[1] = 1 /\ \A w \in 1..N : order[w] \in 1..N
  /\ \A v, w \in 1..N : order[v] = order[w] => v = w
  /\ \A i \in 1..N : \E w \in 1..N : order[w] = i
  /\ \A w \in 2..N : \E v \in 1..(w - 1) : order[v] = metas[order[w]].parent
  /\ \A i \in 1..N : get_name(rebuilt, i) = metas[i].mtime

\* Before the first call that is not refused.
Idle ==
  /\ up \in {"none", "refused"} /\ rebuilt = <<>> /\ visited = 0
  /\ dirsQueue = <<>> /\ leaked = 0
  /\ target = [p \in {<<>>} |-> [type |-> "dir", mtime |-> Now, data |-> <<>>, mode |-> "755"]]

\* From then on: the archive is whole and stays as it is.
Busy ==
  /\ up \in {"unpacking", "failed", "unpacked"} /\ at \in {"packed", "failed"}
  /\ checkArchiveSizes(archive)
  /\ rebuilt = buildFsTree(metas) /\ visited \in 0..Len(metas)
  /\ up = "unpacked" => visited = Len(metas) /\ dirsQueue = <<>>

Canonical(r) == r = [type |-> r.type, mtime |-> r.mtime, data |-> r.data, mode |-> r.mode]

\* What is on the disk was made for an entry, in a directory.
Made(p) ==
  /\ \E i \in DOMAIN metas : /\ p = Place(i) /\ target[p].type = metas[i].type
                             /\ metas[i].type = "dir" => target[p].mode = metas[i].mode
  /\ IsDir(target, Front(p))

Disk ==
  /\ IsDir(target, <<>>) /\ target[<<>>].mode = "755"
  /\ \A p \in DOMAIN target : Canonical(target[p]) /\ (p # <<>> => Made(p))

\* The walk has come by entry i.
Done(i) == \E w \in 1..visited : fs_tree_bfs(rebuilt)[w] = i

Task(i) == [path |-> Place(i), mtime |-> metas[i].mtime]

\* The directories that are held open are there, each of them once if each
\* entry has a place of its own.
Holds(i, task) ==
  metas[i].type = "dir" /\ Done(i) /\ task = Task(i) /\ IsDir(target, Place(i))

Held ==
  /\ dirsQueue \in Seq([path : Seq(Names), mtime : Seq(Names)])
  /\ \A k \in 1..Len(dirsQueue) : \E i \in DOMAIN metas : Holds(i, dirsQueue[k])
  /\ (\A i \in DOMAIN metas : Sole(i)) =>
       \A k, l \in 1..Len(dirsQueue) : dirsQueue[k] = dirsQueue[l] => k = l

\* A file is there, as the archive has it.
Kept(i) ==
  /\ Place(i) \in DOMAIN target
  /\ target[Place(i)].type = "reg" /\ target[Place(i)].mtime = metas[i].mtime
  /\ target[Place(i)].data = SubSeq(archive.content, metas[i].contentOffset + 1,
                                    metas[i].contentOffset + metas[i].contentSize)

FilesKept == \A i \in DOMAIN metas : metas[i].type = "reg" /\ Sole(i) /\ Done(i) => Kept(i)

\* The disk t is the one there is, with the entry e at p.
Put(p, e, t) ==
  /\ DOMAIN t = DOMAIN target \cup {p} /\ t[p] = e
  /\ \A q \in DOMAIN target : q # p =>
       /\ Canonical(t[q])
       /\ t[q].type = target[q].type /\ t[q].mode = target[q].mode /\ t[q].data = target[q].data
       /\ target[q].type # "dir" => t[q].mtime = target[q].mtime

\* A call that is not refused has the entries of the archive, and a walk.
Stands(N, order) ==
  /\ Catalog(N) /\ Rewalk(N, order)
  /\ archive.metas = metas /\ DOMAIN archive.content = 1..contentSize

\* The walk comes by entry i now.
AtEntry(N, i) ==
  /\ i \in 1..N /\ visited + 1 \in 1..N
  /\ fs_tree_bfs(rebuilt)[visited + 1] = i
  /\ Meta = metas[i] /\ TargetPath = Place(i)
  /\ ~Done(i) /\ (i = 1 \/ Done(metas[i].parent))

-----------------------------------------------------------------------------
(***************************************************************************)
(* The times of the directories.                                           *)
(***************************************************************************)
\* The directories get their times, the last that was opened first.
Timed(disk, task) == [disk EXCEPT ![task.path].mtime = task.mtime]

\* What the fold makes of its first tasks.
Timeds(c, M, disk, it) ==
  it = [s \in SUBSET (1..M) |->
          IF s = {} THEN disk ELSE Timed(it[s \ {Max(s)}], c[Max(s)])]

\* The disk after each of the tasks.
Times(c, M, disk, times) ==
  /\ times[0] = disk
  /\ \A j \in 1..M : times[j] = Timed(times[j - 1], c[j])

AllTimed(disk, c) ==
  FoldLeft(LAMBDA d, task : [d EXCEPT ![task.path].mtime = task.mtime], disk, c)

\* The entry at q after the first n tasks.
Retimed(t, c, n, q) ==
  /\ Canonical(t[q])
  /\ t[q].type = target[q].type /\ t[q].mode = target[q].mode /\ t[q].data = target[q].data
  /\ \/ t[q].mtime = target[q].mtime /\ \A k \in 1..n : c[k].path # q
     \/ \E k \in 1..n : c[k].path = q /\ t[q].mtime = c[k].mtime

-----------------------------------------------------------------------------
(***************************************************************************)
(* The inductive invariant of unpacking.                                   *)
(***************************************************************************)
\* Nothing is restored.  Of an archive that was used before, nothing changes.
Rests ==
  /\ UNCHANGED <<up, unpacks, rebuilt, visited, dirsQueue, leaked, target>>
  /\ at \in {"packed", "failed"} /\ up # "none" => UNCHANGED <<at, metas, archive>>

\* The archive is used.
Uses == at \in {"packed", "failed"} /\ UNCHANGED <<at, metas, archive>>

Restoring == Idle \/ (Busy /\ Disk /\ Held /\ FilesKept)

\* The descriptors that are open are counted.
Opened ==
  /\ unpacks \in 0..MaxUnpacks
  /\ leaked \in Nat /\ Len(dirsQueue) \in Nat /\ leaked + Len(dirsQueue) <= Descriptors

\* A directory that the walk has come by is there, with its time in the end.
Stayed(i) ==
  /\ Place(i) \in DOMAIN target
  /\ up = "unpacking" => \E k \in 1..Len(dirsQueue) : dirsQueue[k] = Task(i)
  /\ up = "unpacked" => target[Place(i)].mtime = metas[i].mtime

Steady ==
  Busy /\ Unobstructed =>
    /\ up # "failed"
    /\ \A i \in DOMAIN metas : metas[i].type = "dir" /\ Done(i) => Stayed(i)

RestoreInv == PackInv /\ Headed /\ Restoring /\ Opened /\ Steady

\* Before, there is nothing; a process that has ended has left what there was.
EarlyTyped == at \notin {"layout", "writing", "packed", "failed"} => PackTypeOK

-----------------------------------------------------------------------------
(***************************************************************************)
(* Listing.  The tree that is rebuilt and the one that was collected have  *)
(* the same children, under numbers that another walk gave them.           *)
(***************************************************************************)
\* c are the M numbers that follow l, in their order.
Consecutive(c, L, l, M) ==
  /\ \A k \in 1..L : c[k] \in (l + 1)..(l + M)
  /\ \A i, j \in 1..L : i < j => c[i] < c[j]
  /\ \A m \in 1..M : \E k \in 1..L : c[k] = l + m

\* t is s with other numbers.
Mapped(order, s, t) == Len(t) = Len(s) /\ \A k \in 1..Len(s) : t[k] = order[s[k]]

\* A list of three parts.
Joins(S, t, s, y, e) ==
  /\ t \in Seq(S) /\ Len(s) \in Nat /\ Len(e) \in Nat /\ Len(t) = Len(s) + 1 + Len(e)
  /\ \A i \in 1..Len(s) : t[i] = s[i]
  /\ t[Len(s) + 1] = y
  /\ \A i \in 1..Len(e) : t[Len(s) + 1 + i] = e[i]

\* The same walk is below the inodes of the lists c and d.
SameBelow(N, order, M, c, d, g, h) ==
  \A k \in 1..M :
    /\ c[k] \in 1..N /\ d[k] \in 1..N /\ d[k] = order[c[k]]
    /\ g[c[k]] \in Seq(1..N) /\ h[d[k]] \in Seq(1..N)
    /\ Mapped(order, g[c[k]], h[d[k]])

\* Two trees of which the one is the other in the order that is given.
Twins(nodes, others, N, order) ==
  /\ Family(nodes, N) /\ Family(others, N)
  /\ order[1] = 1 /\ \A i \in 1..N : order[i] \in 1..N
  /\ \A i \in 1..N : Mapped(order, nodes[i].children, others[order[i]].children)

\* The tree that is rebuilt is the tree that was collected.
Alike(N, order) ==
  /\ Catalog(N) /\ Twins(buildFsTree(metas), tree, N, order)
  /\ \A i \in 1..N : /\ metas[i].mtime = tree[order[i]].mtime
                     /\ metas[i].name = tree[order[i]].name

\* The order of the lines, and what is in one.
LineOrder(nodes) == <<1>> \o dir_dfs(nodes, 1)

Line(nodes, n) == [depth |-> Len(get_name(nodes, n)), name |-> nodes[n].name]

\* What was printed was printed of the archive when it was complete.
Printed == listing # <<>> => at \in {"packed", "failed"} /\ listing = Lines(tree)
=============================================================================
