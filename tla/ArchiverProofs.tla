---------------------------- MODULE ArchiverProofs ----------------------------
(***************************************************************************)
(* Proofs about the archiver, for every tree of whatever depth and every   *)
(* number of changes that other processes make on the disk.                *)
(*                                                                         *)
(* Collecting: the array of a directory's children is overrun by three new *)
(* entries at least (OverrunNeedsThree); a tree that was collected has     *)
(* each entry that nobody touched once, and collecting gives up only when  *)
(* something was touched (CollectsOnce).  Packing: an archive that is laid *)
(* out has an entry for every inode and a place of its own for every byte  *)
(* (LaysOutTree), and each file's own bytes are what is copied to its      *)
(* place (PacksOwnBytes).  Unpacking: every file that is the only entry of *)
(* its path is there when it returns (RestoresFiles), and with descriptors *)
(* enough and no path twice so is every directory (RestoresTree).          *)
(* Listing: the tree that is rebuilt prints like the tree that was         *)
(* collected (ListsTree).                                                  *)
(*                                                                         *)
(* An inode's mtime is the path it was read of.  That get_name finds the   *)
(* same path is shown once (NameIsPath), and the rest uses mtime.          *)
(***************************************************************************)
EXTENDS ArchiverInvariants, FiniteSetTheorems, SequenceTheorems, WellFoundedInduction, TLAPS

-----------------------------------------------------------------------------
(***************************************************************************)
(* Numbers, paths and lists.                                               *)
(***************************************************************************)

\* A set of numbers has a least one.
LEMMA LeastNumber ==
  ASSUME NEW S \in SUBSET Nat, S # {}
  PROVE  \E x \in S : \A y \in S : x <= y
<1>1. \A x, y \in Nat : <<x, y>> \in OpToRel(<, Nat) <=> x < y
  BY DEF OpToRel
<1>2. PICK x \in S : \A y \in S : ~ (<<y, x>> \in OpToRel(<, Nat))
  <2> HIDE DEF OpToRel
  <2> QED  BY NatLessThanWellFounded, WFMin
<1>3. x \in Nat /\ \A y \in S : y \in Nat /\ ~(y < x)
  BY <1>1, <1>2
<1>4. \A y \in S : x <= y
  BY <1>3
<1> QED  BY <1>4

\* get_name is determined by what it computes for the parents: an assignment
\* m of paths that agrees with the names is what it returns.
LEMMA NameIsPath ==
  ASSUME NEW nodes, NEW N \in Nat, DOMAIN nodes = 1..N, NEW m,
         \A i \in 1..N : nodes[i].parent \in 1..i
             /\ m[i] = IF nodes[i].parent = i THEN <<>> ELSE Append(m[nodes[i].parent], nodes[i].name)
  PROVE  \A n \in 1..N : get_name(nodes, n) = m[n]
<1> DEFINE Paths1(f) == f = [i \in DOMAIN nodes |->
        IF nodes[i].parent = i THEN <<>> ELSE Append(f[nodes[i].parent], nodes[i].name)]
<1>1. Paths1([i \in 1..N |-> m[i]])
  OBVIOUS
<1>2. PICK f : f = (CHOOSE g : Paths1(g))
  OBVIOUS
<1>3. Paths1(f)
  <2> HIDE DEF Paths1
  <2> QED  BY <1>1, <1>2
<1>4. \A n \in 1..N : get_name(nodes, n) = f[n]
  BY <1>2 DEF get_name
<1>5. \A n \in 1..N : f[n] = m[n]
  <2> DEFINE Wrong == {n \in 1..N : f[n] # m[n]}
  <2>1. SUFFICES ASSUME Wrong # {} PROVE FALSE
    OBVIOUS
  <2>2. Wrong \in SUBSET Nat
    OBVIOUS
  <2>3. PICK n \in Wrong : \A k \in Wrong : n <= k
    <3> HIDE DEF Wrong
    <3> QED  BY <2>1, <2>2, LeastNumber
  <2>4. n \in 1..N /\ f[n] # m[n] /\ nodes[n].parent \in 1..n
    BY <2>3
  <2>5. CASE nodes[n].parent = n
    BY <1>3, <2>4, <2>5
  <2>6. CASE nodes[n].parent # n
    <3>1. nodes[n].parent < n /\ nodes[n].parent \in 1..N
      BY <2>4, <2>6
    <3>2. nodes[n].parent \notin Wrong
      BY <2>3, <2>4, <3>1
    <3>3. f[nodes[n].parent] = m[nodes[n].parent]
      BY <3>1, <3>2
    <3>4. f[n] = Append(f[nodes[n].parent], nodes[n].name)
      BY <1>3, <2>4, <2>6
    <3>5. m[n] = Append(m[nodes[n].parent], nodes[n].name)
      BY <2>4, <2>6
    <3> QED  BY <2>4, <3>3, <3>4, <3>5
  <2> QED  BY <2>5, <2>6
<1> QED  BY <1>4, <1>5

\* So it returns the path of an inode.
LEMMA NameIsTime ==
  ASSUME Typed, Located
  PROVE  \A n \in 1..Len(tree) : get_name(tree, n) = tree[n].mtime
<1>1. Len(tree) \in Nat /\ DOMAIN tree = 1..Len(tree)
  BY LenProperties DEF Typed
<1> DEFINE m == [i \in 1..Len(tree) |-> tree[i].mtime]
<1>2. \A i \in 1..Len(tree) : tree[i].parent \in 1..i
             /\ m[i] = IF tree[i].parent = i THEN <<>> ELSE Append(m[tree[i].parent], tree[i].name)
  <2>1. TAKE i \in 1..Len(tree)
  <2>2. CASE i = 1
    BY <1>1, <2>1, <2>2 DEF Located
  <2>3. CASE i # 1
    <3>1. /\ tree[i].parent \in 1..(i - 1)
          /\ tree[i].mtime = Append(tree[tree[i].parent].mtime, tree[i].name)
      BY <2>1, <2>3 DEF Located
    <3>2. tree[i].parent \in 1..i /\ tree[i].parent # i /\ tree[i].parent \in 1..Len(tree)
      BY <1>1, <2>1, <3>1
    <3> QED  BY <2>1, <3>1, <3>2
  <2> QED  BY <2>2, <2>3
<1>3. \A n \in 1..Len(tree) : get_name(tree, n) = m[n]
  <2> HIDE DEF m
  <2> QED  BY <1>1, <1>2, NameIsPath
<1> QED  BY <1>3

\* A list without its last element.
LEMMA FrontFacts ==
  ASSUME NEW S, NEW s \in Seq(S), s # <<>>
  PROVE  /\ Len(s) \in Nat \ {0} /\ Last(s) = s[Len(s)] /\ Last(s) \in S
         /\ Front(s) \in Seq(S) /\ Len(Front(s)) = Len(s) - 1
         /\ \A i \in 1..(Len(s) - 1) : Front(s)[i] = s[i]
<1>1. Len(s) \in Nat \ {0}
  BY LenProperties, EmptySeq
<1>2. Last(s) = s[Len(s)] /\ Last(s) \in S
  BY <1>1, ElementOfSeq DEF Last
<1>3. PICK n \in Nat : n = Len(s) - 1
  BY <1>1
<1>4. \A i \in 1..n : s[i] \in S
  BY <1>1, <1>3, ElementOfSeq
<1>5. Front(s) = SubSeq(s, 1, n)
  BY <1>3 DEF Front
<1>6. /\ SubSeq(s, 1, n) \in Seq(S) /\ Len(SubSeq(s, 1, n)) = n
      /\ \A i \in 1..n : SubSeq(s, 1, n)[i] = s[i]
  <2>1. /\ SubSeq(s, 1, n) \in Seq(S)
        /\ Len(SubSeq(s, 1, n)) = IF 1 <= n THEN n - 1 + 1 ELSE 0
        /\ \A i \in 1..n - 1 + 1 : SubSeq(s, 1, n)[i] = s[1 + i - 1]
    BY <1>4, SubSeqProperties
  <2> QED  BY <2>1
<1> QED  BY <1>1, <1>2, <1>3, <1>5, <1>6

\* A path is the path of its directory and a name.
LEMMA PathParts ==
  ASSUME NEW p \in Paths
  PROVE  /\ p \in Seq(Names)
         /\ p # <<>> => /\ Front(p) \in Seq(Names) /\ Last(p) \in Names
                        /\ Len(p) \in Nat \ {0} /\ Len(Front(p)) = Len(p) - 1
                        /\ p = Append(Front(p), Last(p))
<1>1. p \in Seq(Names)
  <2>1. PICK k \in 0..MaxDepth : p \in [1..k -> Names]
    BY DEF Paths
  <2>2. k \in Nat
    BY TreesAssumption
  <2> QED  BY <2>1, <2>2
<1>2. ASSUME p # <<>>
      PROVE  /\ Front(p) \in Seq(Names) /\ Last(p) \in Names
             /\ Len(p) \in Nat \ {0} /\ Len(Front(p)) = Len(p) - 1
             /\ p = Append(Front(p), Last(p))
  <2>1. Len(p) \in Nat \ {0} /\ \A i \in 1..Len(p) : p[i] \in Names
    BY <1>1, <1>2, LenProperties, EmptySeq, ElementOfSeq
  <2>2. PICK f : f = Front(p)
    OBVIOUS
  <2>3. f \in Seq(Names) /\ Len(f) = Len(p) - 1 /\ \A i \in 1..(Len(p) - 1) : f[i] = p[i]
    BY <1>1, <1>2, <2>2, FrontFacts
  <2>4. Last(p) \in Names /\ Last(p) = p[Len(p)]
    BY <2>1 DEF Last
  <2>5. /\ Append(f, Last(p)) \in Seq(Names) /\ Len(Append(f, Last(p))) = Len(p)
        /\ Append(f, Last(p))[Len(p)] = Last(p)
        /\ \A i \in 1..(Len(p) - 1) : Append(f, Last(p))[i] = f[i]
    BY <2>1, <2>3, <2>4, AppendProperties
  <2>6. \A i \in 1..Len(p) : p[i] = Append(f, Last(p))[i]
    BY <2>1, <2>3, <2>4, <2>5
  <2>7. p = Append(f, Last(p))
    BY <1>1, <2>5, <2>6, SeqEqual
  <2> QED  BY <2>1, <2>2, <2>3, <2>4, <2>7
<1> QED  BY <1>1, <1>2

LEMMA EntryParts ==
  ASSUME NEW q \in Seq(Names), NEW n \in Names
  PROVE  /\ Append(q, n) \in Seq(Names) /\ Append(q, n) # <<>>
         /\ Front(Append(q, n)) = q /\ Last(Append(q, n)) = n
<1>1. /\ Append(q, n) \in Seq(Names) /\ Len(Append(q, n)) = Len(q) + 1
      /\ Append(q, n)[Len(q) + 1] = n /\ Len(q) \in Nat
      /\ \A i \in 1..Len(q) : Append(q, n)[i] = q[i]
  BY AppendProperties, LenProperties
<1>2. Append(q, n) # <<>> /\ Last(Append(q, n)) = n
  BY <1>1, EmptySeq DEF Last
<1>3. SubSeq(Append(q, n), 1, Len(q)) = q
  <2>1. \A i \in 1..Len(q) : Append(q, n)[i] \in Names
    BY <1>1, ElementOfSeq
  <2>2. /\ SubSeq(Append(q, n), 1, Len(q)) \in Seq(Names)
        /\ Len(SubSeq(Append(q, n), 1, Len(q))) = Len(q)
        /\ \A i \in 1..Len(q) : SubSeq(Append(q, n), 1, Len(q))[i] = Append(q, n)[i]
    BY <1>1, <2>1, SubSeqProperties
  <2> QED  BY <1>1, <2>2, SeqEqual
<1>4. Front(Append(q, n)) = q
  BY <1>1, <1>3 DEF Front
<1> QED  BY <1>1, <1>2, <1>4

\* The stack of directories with another one in the place of the innermost.
LEMMA InnerReplaced ==
  ASSUME NEW S, NEW s \in Seq(S), s # <<>>, NEW d \in S
  PROVE  /\ Len(s) \in Nat \ {0} /\ Last(s) = s[Len(s)] /\ Last(s) \in S
         /\ Front(s) \in Seq(S) /\ Len(Front(s)) = Len(s) - 1
         /\ \A i \in 1..(Len(s) - 1) : Front(s)[i] = s[i]
         /\ Append(Front(s), d) \in Seq(S) /\ Len(Append(Front(s), d)) = Len(s)
         /\ Append(Front(s), d)[Len(s)] = d
         /\ \A i \in 1..(Len(s) - 1) : Append(Front(s), d)[i] = s[i]
<1>1. /\ Len(s) \in Nat \ {0} /\ Last(s) = s[Len(s)] /\ Last(s) \in S
      /\ Front(s) \in Seq(S) /\ Len(Front(s)) = Len(s) - 1
      /\ \A i \in 1..(Len(s) - 1) : Front(s)[i] = s[i]
  BY FrontFacts
<1>2. PICK f : f = Front(s)
  OBVIOUS
<1>3. /\ Append(f, d) \in Seq(S) /\ Len(Append(f, d)) = Len(s)
      /\ Append(f, d)[Len(s)] = d
      /\ \A i \in 1..(Len(s) - 1) : Append(f, d)[i] = s[i]
  <2>1. f \in Seq(S) /\ Len(f) = Len(s) - 1 /\ \A i \in 1..(Len(s) - 1) : f[i] = s[i]
    BY <1>1, <1>2
  <2>2. /\ Append(f, d) \in Seq(S) /\ Len(Append(f, d)) = Len(f) + 1
        /\ Append(f, d)[Len(f) + 1] = d
        /\ \A i \in 1..Len(f) : Append(f, d)[i] = f[i]
    BY <2>1, AppendProperties
  <2> QED  BY <1>1, <2>1, <2>2
<1> QED  BY <1>1, <1>2, <1>3

-----------------------------------------------------------------------------
(***************************************************************************)
(* What the steps do, in terms of lists and paths.                         *)
(***************************************************************************)

\* The tree and the stack are lists.
LEMMA Lists ==
  ASSUME Typed
  PROVE  /\ Len(tree) \in Nat /\ DOMAIN tree = 1..Len(tree)
         /\ Len(dirs) \in Nat /\ DOMAIN dirs = 1..Len(dirs)
         /\ \A n \in 1..Len(tree) : tree[n] \in Node
         /\ \A i \in 1..Len(dirs) : dirs[i] \in OpenDirectory
         /\ IsFiniteSet(Names)
<1>1. tree \in Seq(Node) /\ dirs \in Seq(OpenDirectory)
  BY DEF Typed
<1>2. \A n \in 1..Len(tree) : tree[n] \in Node
  BY <1>1, ElementOfSeq
<1>3. \A i \in 1..Len(dirs) : dirs[i] \in OpenDirectory
  BY <1>1, ElementOfSeq
<1> QED  BY <1>1, <1>2, <1>3, LenProperties, TreesAssumption

\* The directory that is being read.
LEMMA InnerFacts ==
  ASSUME Shape, at = "collecting"
  PROVE  /\ Len(dirs) \in Nat \ {0} /\ Inner = dirs[Len(dirs)] /\ Inner \in OpenDirectory
         /\ Inner.dir \in 1..Len(tree) /\ tree[Inner.dir] \in Node
         /\ tree[Inner.dir].type = "dir"
         /\ InnerPath = tree[Inner.dir].mtime /\ InnerPath \in Paths
         /\ InnerPath \in Seq(Names)
         /\ Inner.pass # "read" => Inner.seen = {}
         /\ Inner.seen \cup Inner.must \subseteq Inner.may
         /\ Inner.may \subseteq ListedEntry /\ IsFiniteSet(Inner.may)
<1>1. dirs \in Seq(OpenDirectory) /\ dirs # <<>>
  BY DEF Shape, Typed, Phases
<1>2. /\ Len(dirs) \in Nat \ {0} /\ Inner = dirs[Len(dirs)] /\ Inner \in OpenDirectory
  BY <1>1, FrontFacts DEF Inner
<1>3. Len(dirs) \in 1..Len(dirs)
  BY <1>2
<1>4. /\ Inner.dir \in 1..Len(tree) /\ tree[Inner.dir].type = "dir"
      /\ Inner.pass # "read" => Inner.seen = {}
      /\ Inner.seen \cup Inner.must \subseteq Inner.may
  BY <1>2, <1>3 DEF Shape, Passes
<1>5. tree[Inner.dir] \in Node
  BY <1>4, Lists DEF Shape
<1>6. InnerPath = tree[Inner.dir].mtime
  BY <1>4, NameIsTime DEF Shape, InnerPath
<1>7. InnerPath \in Paths
  BY <1>5, <1>6 DEF Node
<1>8. Inner.may \subseteq ListedEntry /\ IsFiniteSet(Inner.may)
  BY <1>2 DEF OpenDirectory
<1> QED  BY <1>2, <1>4, <1>5, <1>6, <1>7, <1>8, PathParts

\* What is listed of a directory when it is opened or rewound.
LEMMA ListingFacts ==
  ASSUME NEW q
  PROVE  /\ Listing(Entries(source, q)) \subseteq ListedEntry
         /\ IsFiniteSet(Listing(Entries(source, q)))
<1>1. PICK S : S = Entries(source, q)
  OBVIOUS
<1>2. S \in SUBSET Names /\ IsFiniteSet(S)
  <2>1. S \in SUBSET Names
    BY <1>1 DEF Entries
  <2> QED  BY <2>1, FS_Subset, TreesAssumption
<1>3. Listing(S) \subseteq ListedEntry
  BY <1>2 DEF Listing, ListedEntry
<1>4. [n \in S |-> [name |-> n, birth |-> 0]] \in Surjection(S, Listing(S))
  BY DEF Surjection, Listing
<1>5. IsFiniteSet(Listing(S))
  BY <1>2, <1>4, FS_Surjection
<1> QED  BY <1>1, <1>3, <1>5

LEMMA KeptLocated ==
  ASSUME Typed, Located, KeptNodes, NEW n \in 1..Len(tree)
  PROVE  \/ n = 1 /\ tree'[n].parent = 1 /\ tree'[n].mtime = <<>>
         \/ /\ n # 1 /\ tree'[n].parent \in 1..(n - 1)
            /\ tree'[n].mtime = Append(tree'[tree'[n].parent].mtime, tree'[n].name)
<1>1. /\ tree'[n].mtime = tree[n].mtime /\ tree'[n].parent = tree[n].parent
      /\ tree'[n].name = tree[n].name
  BY DEF KeptNodes
<1>2. CASE n = 1
  BY <1>1, <1>2 DEF Located
<1>3. CASE n # 1
  <2>1. /\ tree[n].parent \in 1..(n - 1)
        /\ tree[n].mtime = Append(tree[tree[n].parent].mtime, tree[n].name)
    BY <1>3 DEF Located
  <2>2. tree[n].parent \in 1..Len(tree)
    BY <2>1, Lists
  <2>3. tree'[tree[n].parent].mtime = tree[tree[n].parent].mtime
    BY <2>2 DEF KeptNodes
  <2> QED  BY <1>1, <1>3, <2>1, <2>3
<1> QED  BY <1>2, <1>3

LEMMA InnerMoves ==
  ASSUME Shape, at = "collecting", NEW d \in OpenDirectory, InnerBecomes(d)
  PROVE  InnerAt(d)
<1>1. dirs \in Seq(OpenDirectory) /\ dirs # <<>>
  BY DEF Shape, Typed, Phases
<1> QED  BY <1>1, InnerReplaced DEF InnerBecomes, InnerAt

\* A step in the innermost directory that adds no inode.
LEMMA InnerShape ==
  ASSUME Shape, at = "collecting", UNCHANGED <<source, histories>>, at' = "collecting",
         NEW d \in OpenDirectory, InnerAt(d), KeptNodes, Len(tree') = Len(tree),
         d.dir = Inner.dir, Inner.seen \subseteq d.seen, d.seen \cup d.must \subseteq d.may,
         d.pass # "read" => d.seen = {}
  PROVE  Shape'
<1>0. /\ Len(tree) \in Nat /\ Len(dirs) \in Nat \ {0} /\ Inner = dirs[Len(dirs)]
      /\ Inner.dir \in 1..Len(tree)
  BY InnerFacts, Lists DEF Shape
<1>1. Typed'
  BY DEF Shape, Typed, InnerAt, KeptNodes, histories
<1>2. Located'
  <2>1. ASSUME NEW n \in 1..Len(tree')
        PROVE  \/ n = 1 /\ tree'[n].parent = 1 /\ tree'[n].mtime = <<>>
               \/ /\ n # 1 /\ tree'[n].parent \in 1..(n - 1)
                  /\ tree'[n].mtime = Append(tree'[tree'[n].parent].mtime, tree'[n].name)
    BY KeptLocated, <2>1 DEF Shape
  <2> QED  BY <2>1 DEF Located
<1>4. Phases'
  <2>1. dirs' # <<>>
    BY <1>0, EmptySeq DEF InnerAt
  <2> QED  BY <2>1 DEF Phases
<1>5. \A i \in 1..Len(dirs') : dirs'[i].dir = dirs[i].dir
  BY <1>0 DEF InnerAt
<1>6. Passes'
  <2>1. \A i \in 1..Len(dirs') : i # Len(dirs') => dirs'[i].pass = "read"
    BY <1>0 DEF Shape, Passes, InnerAt
  <2>2. \A i, j \in 1..Len(dirs') : dirs'[i].dir = dirs'[j].dir => i = j
    BY <1>5 DEF Shape, Passes, InnerAt
  <2>3. ASSUME NEW i \in 1..Len(dirs')
        PROVE  /\ dirs'[i].dir \in 1..Len(tree') /\ tree'[dirs'[i].dir].type = "dir"
               /\ dirs'[i].pass # "read" => dirs'[i].seen = {}
               /\ dirs'[i].seen \cup dirs'[i].must \subseteq dirs'[i].may
               /\ \A n \in 2..Len(tree') :
                    tree'[n].parent = dirs'[i].dir =>
                      \E e \in dirs'[i].seen : e.name = tree'[n].name
    <3>1. i \in 1..Len(dirs)
      BY DEF InnerAt
    <3>2. dirs'[i].dir \in 1..Len(tree') /\ tree'[dirs'[i].dir].type = "dir"
      <4>1. PICK m : m = dirs[i].dir /\ dirs'[i].dir = m
        BY <1>5
      <4>2. m \in 1..Len(tree) /\ tree[m].type = "dir"
        BY <3>1, <4>1 DEF Shape, Passes
      <4> QED  BY <4>1, <4>2 DEF KeptNodes
    <3>3. ASSUME NEW n \in 2..Len(tree'), tree'[n].parent = dirs'[i].dir
          PROVE  \E e \in dirs[i].seen : e.name = tree'[n].name
      <4>1. n \in 2..Len(tree) /\ n \in 1..Len(tree)
        BY <1>0
      <4>2. tree[n].parent = dirs[i].dir /\ tree'[n].name = tree[n].name
        BY <1>5, <3>3, <4>1 DEF KeptNodes
      <4>3. \E e \in dirs[i].seen : e.name = tree[n].name
        BY <3>1, <4>1, <4>2 DEF Shape, Passes
      <4> QED  BY <4>2, <4>3
    <3>4. CASE i = Len(dirs)
      <4>1. dirs'[i] = d /\ dirs[i] = Inner
        BY <1>0, <3>4 DEF InnerAt
      <4> QED  BY <3>2, <3>3, <4>1
    <3>5. CASE i # Len(dirs)
      <4>1. dirs'[i] = dirs[i]
        BY <1>0, <3>1, <3>5 DEF InnerAt
      <4>2. /\ dirs[i].pass # "read" => dirs[i].seen = {}
            /\ dirs[i].seen \cup dirs[i].must \subseteq dirs[i].may
        BY <3>1 DEF Shape, Passes
      <4> QED  BY <3>2, <3>3, <4>1, <4>2
    <3> QED  BY <3>4, <3>5
  <2> QED  BY <2>1, <2>2, <2>3 DEF Passes
<1> QED  BY <1>1, <1>2, <1>4, <1>6 DEF Shape

LEMMA AddedChild ==
  ASSUME Shape, at = "collecting", NEW n \in Names, NEW d,
         NEW p, p = Append(InnerPath, n), ChildIsAdded(p, d)
  PROVE  Grafted(n, p)
<1>0. /\ Len(tree) \in Nat /\ DOMAIN tree = 1..Len(tree) /\ Inner.dir \in 1..Len(tree)
      /\ tree[Inner.dir] \in Node /\ tree \in Seq(Node)
      /\ InnerPath \in Seq(Names)
      /\ \A k \in 1..Len(tree) : tree[k] \in Node
  BY InnerFacts, Lists DEF Shape, Typed
<1>1. p \in Paths /\ source[p] \in Entry /\ source[p].type \in {"reg", "dir"}
  BY DEF ChildIsAdded, Shape, Typed
<1>2. PICK child : child = Len(tree) + 1
  OBVIOUS
<1>3. PICK wider : wider = [tree[Inner.dir] EXCEPT !.children = Append(@, child)]
  OBVIOUS
<1>4. /\ wider \in Node
      /\ wider.mtime = tree[Inner.dir].mtime /\ wider.parent = tree[Inner.dir].parent
      /\ wider.name = tree[Inner.dir].name /\ wider.type = tree[Inner.dir].type
      /\ wider.size = tree[Inner.dir].size /\ wider.slots = tree[Inner.dir].slots
      /\ wider.children = Append(tree[Inner.dir].children, child)
      /\ Len(wider.children) = Len(tree[Inner.dir].children) + 1
  <2>1. tree[Inner.dir].children \in Seq(Nat) /\ child \in Nat
    BY <1>0, <1>2 DEF Node
  <2>2. /\ Append(tree[Inner.dir].children, child) \in Seq(Nat)
        /\ Len(Append(tree[Inner.dir].children, child)) = Len(tree[Inner.dir].children) + 1
    BY <2>1, AppendProperties
  <2> QED  BY <1>0, <1>3, <2>2 DEF Node
<1>5. PICK inode : inode = Inode(source, p, n, Inner.dir)
  OBVIOUS
<1>6. /\ inode \in Node /\ inode.name = n /\ inode.parent = Inner.dir /\ inode.mtime = p
      /\ inode.type = source[p].type /\ inode.size = source[p].size /\ inode.children = <<>>
  <2>1. <<>> \in Seq(Nat)
    BY EmptySeq
  <2>2. PICK e : e = source[p]
    OBVIOUS
  <2>3. e.type \in {"reg", "dir"} /\ e.size \in Nat /\ e.mode \in Modes
    BY <1>1, <2>2 DEF Entry
  <2>4. inode = [name |-> n, parent |-> Inner.dir, type |-> e.type, size |-> e.size,
                 mode |-> e.mode, mtime |-> p, children |-> <<>>, slots |-> 0]
    BY <1>5, <2>2 DEF Inode
  <2>5. PICK i \in Nat : i = Inner.dir
    BY <1>0
  <2>6. inode \in Node
    BY <1>1, <2>1, <2>3, <2>4, <2>5 DEF Node
  <2> QED  BY <2>2, <2>4, <2>6
<1>7. tree' = Append([tree EXCEPT ![Inner.dir] = wider], inode)
  <2>1. Last(p) = n
    BY <1>0, EntryParts
  <2>2. tree' = Append([tree EXCEPT ![Inner.dir].children = Append(@, child)], inode)
    BY <1>2, <1>5, <2>1 DEF ChildIsAdded
  <2>3. [tree EXCEPT ![Inner.dir].children = Append(@, child)] = [tree EXCEPT ![Inner.dir] = wider]
    BY <1>0, <1>3
  <2> QED  BY <2>2, <2>3
<1>8. PICK widened : widened = [tree EXCEPT ![Inner.dir] = wider]
  OBVIOUS
<1>9. /\ widened \in Seq(Node) /\ Len(widened) = Len(tree) /\ widened[Inner.dir] = wider
      /\ \A k \in 1..Len(tree) : k # Inner.dir => widened[k] = tree[k]
  BY <1>0, <1>4, <1>8, ExceptSeq
<1>10. /\ tree' \in Seq(Node) /\ Len(tree') = Len(tree) + 1 /\ tree'[Len(tree) + 1] = inode
       /\ \A k \in 1..Len(tree) : tree'[k] = widened[k]
  BY <1>6, <1>7, <1>8, <1>9, AppendProperties
<1>11. ASSUME NEW k \in 1..Len(tree)
       PROVE  /\ tree'[k].mtime = tree[k].mtime /\ tree'[k].parent = tree[k].parent
              /\ tree'[k].name = tree[k].name /\ tree'[k].type = tree[k].type
              /\ tree'[k].size = tree[k].size /\ tree'[k].slots = tree[k].slots
              /\ tree'[k].children = IF k = Inner.dir
                                     THEN Append(tree[k].children, Len(tree) + 1)
                                     ELSE tree[k].children
              /\ Len(tree'[k].children) =
                   Len(tree[k].children) + (IF k = Inner.dir THEN 1 ELSE 0)
  <2>1. CASE k = Inner.dir
    <3>1. tree'[k] = wider
      BY <1>9, <1>10, <2>1
    <3> QED  BY <1>2, <1>4, <2>1, <3>1
  <2>2. CASE k # Inner.dir
    <3>1. tree'[k] = tree[k]
      BY <1>9, <1>10, <2>2
    <3>2. Len(tree[k].children) \in Nat
      <4>1. tree[k].children \in Seq(Nat)
        BY <1>0 DEF Node
      <4> QED  BY <4>1, LenProperties
    <3> QED  BY <2>2, <3>1, <3>2
  <2> QED  BY <2>1, <2>2
<1>12. KeptNodes /\ Len(tree') = Len(tree) + 1
  <2>1. tree' \in Seq(Node) /\ Len(tree') = Len(tree) + 1 /\ Len(tree') >= Len(tree)
    BY <1>0, <1>10
  <2> QED  BY <1>11, <2>1 DEF KeptNodes
<1>13. Len(<<>>) = 0
  OBVIOUS
<1> QED  BY <1>1, <1>6, <1>10, <1>11, <1>12, <1>13 DEF Grafted

\* The stack after that: the innermost directory has seen the entry, and the
\* entry itself is opened when it is a directory.
LEMMA AddedStack ==
  ASSUME Shape, at = "collecting", NEW e \in Inner.may, NEW d,
         d = [Inner EXCEPT !.seen = @ \cup {e}],
         NEW p, ChildIsAdded(p, d)
  PROVE  /\ d \in OpenDirectory /\ dirs' \in Seq(OpenDirectory)
         /\ Len(dirs') = Len(dirs) + (IF source[p].type = "dir" THEN 1 ELSE 0)
         /\ dirs'[Len(dirs)] = d
         /\ \A i \in 1..(Len(dirs) - 1) : dirs'[i] = dirs[i]
         /\ source[p].type = "dir" => dirs'[Len(dirs) + 1] = OpenDir(Len(tree) + 1)
         /\ OpenDir(Len(tree) + 1) \in OpenDirectory
<1>1. Inner \in OpenDirectory /\ Len(tree) \in Nat /\ Len(dirs) \in Nat \ {0}
  BY InnerFacts, Lists DEF Shape
<1>2. d \in OpenDirectory
  <2>1. e \in ListedEntry
    BY InnerFacts
  <2> QED  BY <1>1, <2>1 DEF OpenDirectory
<1>7. OpenDir(Len(tree) + 1) \in OpenDirectory
  BY <1>1, FS_EmptySet DEF OpenDirectory, OpenDir
<1>3. PICK s : s = Append(Front(dirs), d)
  OBVIOUS
<1>4. /\ s \in Seq(OpenDirectory) /\ Len(s) = Len(dirs) /\ s[Len(dirs)] = d
      /\ \A i \in 1..(Len(dirs) - 1) : s[i] = dirs[i]
  <2>1. PICK r \in OpenDirectory : r = d
    BY <1>2
  <2>2. dirs \in Seq(OpenDirectory) /\ dirs # <<>>
    BY DEF Shape, Typed, Phases
  <2>3. s = Append(Front(dirs), r)
    BY <1>3, <2>1
  <2>4. /\ Append(Front(dirs), r) \in Seq(OpenDirectory)
        /\ Len(Append(Front(dirs), r)) = Len(dirs)
        /\ Append(Front(dirs), r)[Len(dirs)] = r
        /\ \A i \in 1..(Len(dirs) - 1) : Append(Front(dirs), r)[i] = dirs[i]
    BY <2>2, InnerReplaced
  <2> QED  BY <2>1, <2>3, <2>4
<1>5. CASE source[p].type = "dir"
  <2>1. PICK o : o = OpenDir(Len(tree) + 1)
    OBVIOUS
  <2>2. dirs' = s \o <<o>>
    BY <1>3, <1>5, <2>1 DEF ChildIsAdded
  <2>3. dirs' = Append(s, o)
    BY <1>7, <1>4, <2>1, <2>2, AppendIsConcat
  <2>4. /\ Append(s, o) \in Seq(OpenDirectory) /\ Len(Append(s, o)) = Len(s) + 1
        /\ Append(s, o)[Len(s) + 1] = o
        /\ \A i \in 1..Len(s) : Append(s, o)[i] = s[i]
    BY <1>7, <1>4, <2>1, AppendProperties
  <2>5. dirs' \in Seq(OpenDirectory) /\ Len(dirs') = Len(dirs) + 1
    BY <1>4, <2>3, <2>4
  <2>6. dirs'[Len(dirs)] = d
    BY <1>1, <1>4, <2>3, <2>4
  <2>7. \A i \in 1..(Len(dirs) - 1) : dirs'[i] = dirs[i]
    BY <1>1, <1>4, <2>3, <2>4
  <2>8. dirs'[Len(dirs) + 1] = o
    BY <1>4, <2>3, <2>4
  <2> QED  BY <1>2, <1>5, <1>7, <2>1, <2>5, <2>6, <2>7, <2>8
<1>6. CASE source[p].type # "dir"
  <2>1. dirs' = s \o <<>>
    BY <1>3, <1>6 DEF ChildIsAdded
  <2>2. dirs' = s
    BY <1>4, <2>1, ConcatEmptySeq
  <2> QED  BY <1>1, <1>2, <1>4, <1>6, <1>7, <2>2
<1> QED  BY <1>5, <1>6

\* The paths of inodes are paths.
LEMMA NodePaths ==
  ASSUME Typed, NEW k \in 1..Len(tree)
  PROVE  tree[k].mtime \in Paths /\ tree[k].mtime \in Seq(Names) /\ tree[k].name \in Names
<1>1. tree[k] \in Node
  BY Lists
<1>2. tree[k].mtime \in Paths /\ tree[k].name \in Names
  BY <1>1 DEF Node
<1> QED  BY <1>2, PathParts

\* What is noted of an entry that was read.
LEMMA SeenRecord ==
  ASSUME Shape, at = "collecting", NEW e \in Inner.may,
         NEW d, d = [Inner EXCEPT !.seen = @ \cup {e}]
  PROVE  /\ d \in OpenDirectory /\ d.dir = Inner.dir /\ d.pass = Inner.pass
         /\ d.must = Inner.must /\ d.may = Inner.may /\ d.seen = Inner.seen \cup {e}
<1>1. Inner \in OpenDirectory /\ e \in ListedEntry
  BY InnerFacts
<1> QED  BY <1>1 DEF OpenDirectory

LEMMA AddedTree ==
  ASSUME Typed, Located, NEW dir, NEW n, NEW p, NewInode(dir, n, p)
  PROVE  Located'
<1>0. PICK N \in Nat : N = Len(tree)
  BY Lists
<1>1. \A k \in 1..Len(tree') : k \in 1..N \/ k = N + 1
  BY <1>0 DEF NewInode
<1>2. \A k \in 1..N : tree'[k].mtime = tree[k].mtime
  BY <1>0 DEF NewInode, KeptNodes
<1>8. PICK new : new = tree'[N + 1]
  OBVIOUS
<1>7. /\ new.name = n /\ new.parent = dir /\ new.mtime = p
      /\ dir \in 1..N /\ p = Append(tree[dir].mtime, n)
  BY <1>0, <1>8 DEF NewInode
<1>3. ASSUME NEW k \in 1..Len(tree')
      PROVE  \/ k = 1 /\ tree'[k].parent = 1 /\ tree'[k].mtime = <<>>
             \/ /\ k # 1 /\ tree'[k].parent \in 1..(k - 1)
                /\ tree'[k].mtime = Append(tree'[tree'[k].parent].mtime, tree'[k].name)
  <2>1. CASE k \in 1..N
    BY <1>0, <2>1, KeptLocated DEF NewInode
  <2>2. CASE k = N + 1
    <3>1. k # 1 /\ dir \in 1..(k - 1)
      BY <1>0, <1>7, <2>2
    <3>2. tree'[dir].mtime = tree[dir].mtime
      BY <1>2, <1>7
    <3> QED  BY <1>8, <1>7, <2>2, <3>1, <3>2
  <2> QED  BY <1>1, <2>1, <2>2
<1> QED  BY <1>3 DEF Located

\* The stack beside it: the last of the L open directories has seen the entry e
\* of the new inode, which is opened if it is a directory.
LEMMA AddedPasses ==
  ASSUME Passes, Located', KeptNodes, NEW N \in Nat, N = Len(tree), Len(tree') = N + 1,
         NEW L \in Nat \ {0}, L = Len(dirs), NEW e \in dirs[L].may,
         tree'[N + 1].name = e.name, tree'[N + 1].parent = dirs[L].dir,
         dirs[L].pass = "read", dirs'[L].seen = dirs[L].seen \cup {e},
         \A i \in 1..L : /\ dirs'[i].dir = dirs[i].dir /\ dirs'[i].pass = dirs[i].pass
                         /\ dirs'[i].must = dirs[i].must /\ dirs'[i].may = dirs[i].may
                         /\ i # L => dirs'[i].seen = dirs[i].seen,
         \/ Len(dirs') = L
         \/ /\ Len(dirs') = L + 1 /\ dirs'[L + 1] = OpenDir(N + 1)
            /\ tree'[N + 1].type = "dir"
  PROVE  Passes'
<1>1. \A i \in 1..L : dirs'[i].pass = "read"
  BY DEF Passes
<1>2. \A i \in 1..Len(dirs') : i \in 1..L \/ i = L + 1
  OBVIOUS
<1>3. \A i \in 1..Len(dirs') : i # Len(dirs') => dirs'[i].pass = "read"
  <2>1. \A i \in 1..Len(dirs') : i # Len(dirs') => i \in 1..L
    OBVIOUS
  <2> QED  BY <1>1, <2>1
<1>4. \A i \in 1..L : dirs[i].dir \in 1..N /\ tree[dirs[i].dir].type = "dir"
  BY DEF Passes
<1>5. \A i, j \in 1..L : dirs[i].dir = dirs[j].dir => i = j
  BY DEF Passes
<1>6. \A i, j \in 1..L : dirs'[i].dir = dirs'[j].dir => i = j
  BY <1>5
<1>7. ASSUME NEW i \in 1..L
      PROVE  /\ dirs'[i].dir \in 1..Len(tree') /\ tree'[dirs'[i].dir].type = "dir"
             /\ dirs'[i].pass # "read" => dirs'[i].seen = {}
             /\ dirs'[i].seen \cup dirs'[i].must \subseteq dirs'[i].may
             /\ \A k \in 2..Len(tree') :
                  tree'[k].parent = dirs'[i].dir =>
                    \E f \in dirs'[i].seen : f.name = tree'[k].name
  <2>1. PICK dir, may, seen : dir = dirs[i].dir /\ may = dirs[i].may /\ seen = dirs[i].seen
    OBVIOUS
  <2>2. dir \in 1..N /\ tree[dir].type = "dir" /\ dirs'[i].dir = dir /\ dirs'[i].may = may
    BY <1>4, <2>1
  <2>3. dir \in 1..Len(tree') /\ tree'[dir].type = "dir"
    BY <2>2 DEF KeptNodes
  <2>4. seen \cup dirs[i].must \subseteq may
    BY <2>1 DEF Passes
  <2>5. seen \subseteq dirs'[i].seen /\ dirs'[i].seen \cup dirs'[i].must \subseteq may
    <3>1. CASE i = L
      BY <2>1, <2>4, <3>1
    <3>2. CASE i # L
      BY <2>1, <2>4, <3>2
    <3> QED  BY <3>1, <3>2
  <2>6. ASSUME NEW k \in 2..Len(tree'), tree'[k].parent = dir
        PROVE  \E f \in dirs'[i].seen : f.name = tree'[k].name
    <3>1. CASE k \in 2..N
      <4>1. tree'[k].parent = tree[k].parent /\ tree'[k].name = tree[k].name
        BY <3>1 DEF KeptNodes
      <4>2. tree[k].parent = dirs[i].dir
        BY <2>1, <2>6, <4>1
      <4>3. \A l \in 2..N : tree[l].parent = dirs[i].dir =>
                                 \E f \in dirs[i].seen : f.name = tree[l].name
        BY DEF Passes
      <4>4. \E f \in seen : f.name = tree[k].name
        BY <2>1, <3>1, <4>2, <4>3
      <4> QED  BY <2>5, <4>1, <4>4
    <3>2. CASE k = N + 1
      <4>1. L \in 1..L /\ dirs[i].dir = dirs[L].dir
        BY <2>1, <2>6, <3>2
      <4>2. i = L
        BY <1>5, <4>1
      <4> QED  BY <3>2, <4>2
    <3> QED  BY <3>1, <3>2
  <2> QED  BY <1>1, <2>2, <2>3, <2>5, <2>6
<1>8. CASE Len(dirs') = L
  <2>1. \A i, j \in 1..Len(dirs') : dirs'[i].dir = dirs'[j].dir => i = j
    BY <1>6, <1>8
  <2> QED  BY <1>3, <1>7, <1>8, <2>1 DEF Passes
<1>9. CASE /\ Len(dirs') = L + 1 /\ dirs'[L + 1] = OpenDir(N + 1)
           /\ tree'[N + 1].type = "dir"
  <2>1. PICK o : o = dirs'[L + 1]
    OBVIOUS
  <2>2. o.dir = N + 1 /\ o.seen = {} /\ o.must = {} /\ o.may = {}
    BY <1>9, <2>1 DEF OpenDir
  <2>3. \A i \in 1..L : dirs'[i].dir # N + 1
    BY <1>4
  <2>4. \A i, j \in 1..Len(dirs') : dirs'[i].dir = dirs'[j].dir => i = j
    BY <1>2, <1>6, <2>1, <2>2, <2>3
  <2>5. ASSUME NEW k \in 2..Len(tree') PROVE tree'[k].parent # N + 1
    <3>1. tree'[k].parent \in 1..(k - 1)
      BY DEF Located
    <3>2. k \in 2..(N + 1)
      OBVIOUS
    <3> QED  BY <3>1, <3>2
  <2>6. N + 1 \in 1..Len(tree')
    OBVIOUS
  <2>7. ASSUME NEW i \in 1..Len(dirs')
        PROVE  /\ dirs'[i].dir \in 1..Len(tree') /\ tree'[dirs'[i].dir].type = "dir"
               /\ dirs'[i].pass # "read" => dirs'[i].seen = {}
               /\ dirs'[i].seen \cup dirs'[i].must \subseteq dirs'[i].may
               /\ \A k \in 2..Len(tree') :
                    tree'[k].parent = dirs'[i].dir =>
                      \E f \in dirs'[i].seen : f.name = tree'[k].name
    <3>1. CASE i \in 1..L
      BY <1>7, <3>1
    <3>2. CASE i = L + 1
      BY <1>9, <2>1, <2>2, <2>5, <2>6, <3>2
    <3> QED  BY <1>2, <3>1, <3>2
  <2> QED  BY <1>3, <2>4, <2>7 DEF Passes
<1> QED  BY <1>8, <1>9

LEMMA AddedShape ==
  ASSUME Shape, at = "collecting", UNCHANGED <<source, histories>>,
         NEW e \in Inner.may, NEW d, d = [Inner EXCEPT !.seen = @ \cup {e}],
         NEW p, p = Append(InnerPath, e.name), ChildIsAdded(p, d), Inner.pass = "read"
  PROVE  Shape'
<1> PICK n : n = e.name
  OBVIOUS
<1>0. /\ Len(tree) \in Nat /\ Len(dirs) \in Nat \ {0} /\ Inner = dirs[Len(dirs)]
      /\ Inner.dir \in 1..Len(tree) /\ n \in Names /\ Inner \in OpenDirectory
      /\ InnerPath = tree[Inner.dir].mtime
  BY InnerFacts, Lists DEF Shape, ListedEntry
<1>1. /\ p \in Paths /\ KeptNodes /\ Len(tree') = Len(tree) + 1
      /\ tree'[Len(tree) + 1].name = n /\ tree'[Len(tree) + 1].parent = Inner.dir
      /\ tree'[Len(tree) + 1].mtime = p /\ tree'[Len(tree) + 1].type = source[p].type
  <2>1. Grafted(n, p)
    BY <1>0, AddedChild
  <2> QED  BY <2>1 DEF Grafted
<1>2. /\ dirs' \in Seq(OpenDirectory)
      /\ Len(dirs') = Len(dirs) + (IF source[p].type = "dir" THEN 1 ELSE 0)
      /\ dirs'[Len(dirs)] = d
      /\ \A i \in 1..(Len(dirs) - 1) : dirs'[i] = dirs[i]
      /\ source[p].type = "dir" => dirs'[Len(dirs) + 1] = OpenDir(Len(tree) + 1)
  BY <1>0, AddedStack
<1>3. at' \in {"collecting", "crashed"}
  BY DEF ChildIsAdded
<1>4. Typed'
  BY <1>1, <1>2, <1>3 DEF Shape, Typed, KeptNodes, histories
<1>5. Located'
  <2>2. PICK dir : dir = Inner.dir
    OBVIOUS
  <2>3. dir \in 1..Len(tree) /\ p = Append(tree[dir].mtime, n)
    BY <1>0, <2>2
  <2>4. NewInode(dir, n, p)
    BY <1>1, <2>2, <2>3 DEF NewInode
  <2>5. Typed /\ Located
    BY DEF Shape
  <2> QED  BY <2>4, <2>5, AddedTree
<1>6. Phases'
  <2>1. dirs' # <<>>
    BY <1>0, <1>2, EmptySeq
  <2> QED  BY <1>3, <2>1 DEF Phases
<1>7. Passes'
  <2>1. PICK N \in Nat, L \in Nat \ {0} : N = Len(tree) /\ L = Len(dirs)
    BY <1>0
  <2>2. /\ d.dir = Inner.dir /\ d.pass = Inner.pass /\ d.seen = Inner.seen \cup {e}
        /\ d.must = Inner.must /\ d.may = Inner.may
    BY SeenRecord
  <2>3. /\ KeptNodes /\ Len(tree') = N + 1
        /\ tree'[N + 1].name = e.name /\ tree'[N + 1].parent = dirs[L].dir
    <3>1. Inner = dirs[L]
      BY <1>0, <2>1
    <3> QED  BY <1>1, <2>1, <3>1
  <2>4. e \in dirs[L].may /\ dirs[L].pass = "read" /\ dirs'[L].seen = dirs[L].seen \cup {e}
    BY <1>0, <1>2, <2>1, <2>2
  <2>5. ASSUME NEW i \in 1..L
        PROVE  /\ dirs'[i].dir = dirs[i].dir /\ dirs'[i].pass = dirs[i].pass
               /\ dirs'[i].must = dirs[i].must /\ dirs'[i].may = dirs[i].may
               /\ i # L => dirs'[i].seen = dirs[i].seen
    <3>1. CASE i = L
      <4>1. dirs'[i] = d /\ dirs[i] = Inner
        BY <1>0, <1>2, <2>1, <3>1
      <4> QED  BY <2>2, <3>1, <4>1
    <3>2. CASE i # L
      <4>1. i \in 1..(L - 1)
        BY <3>2
      <4>2. dirs'[i] = dirs[i]
        BY <1>2, <2>1, <4>1
      <4> QED  BY <4>2
    <3> QED  BY <3>1, <3>2
  <2>6. \/ Len(dirs') = L
        \/ /\ Len(dirs') = L + 1 /\ dirs'[L + 1] = OpenDir(N + 1)
           /\ tree'[N + 1].type = "dir"
    <3>1. CASE source[p].type = "dir"
      <4>1. Len(dirs') = Len(dirs) + 1 /\ dirs'[Len(dirs) + 1] = OpenDir(Len(tree) + 1)
        BY <1>2, <3>1
      <4>2. tree'[Len(tree) + 1].type = "dir"
        BY <1>1, <3>1
      <4> QED  BY <2>1, <4>1, <4>2
    <3>2. CASE source[p].type # "dir"
      BY <1>0, <1>2, <2>1, <3>2
    <3> QED  BY <3>1, <3>2
  <2>7. Passes /\ Located'
    BY <1>5 DEF Shape
  <2> QED  BY <2>1, <2>3, <2>4, <2>5, <2>6, <2>7, AddedPasses
<1> QED  BY <1>4, <1>5, <1>6, <1>7 DEF Shape

\* The steps that begin to collect, and those that end a directory.
LEMMA StartShape == ASSUME Shape, fs_tree_collect PROVE Shape'
<1>1. /\ tree = <<>> /\ dirs = <<>> /\ UNCHANGED <<source, histories>>
  BY DEF fs_tree_collect, Shape, Phases
<1>2. CASE CollectNothing \/ CollectOther
  <2>1. at' \in {"exited", "crashed"} /\ UNCHANGED <<source, tree, dirs, histories>>
    BY <1>1, <1>2 DEF CollectNothing, CollectOther
  <2>2. Typed'
    BY <2>1 DEF Shape, Typed, histories
  <2>3. Located' /\ Passes'
    BY <2>1 DEF Shape, Located, Passes
  <2>4. Phases'
    BY <2>1 DEF Phases
  <2> QED  BY <2>2, <2>3, <2>4 DEF Shape
<1>3. CASE CollectHead
  <2>1. PICK head : head = Inode(source, <<>>, HeadName, 1)
    OBVIOUS
  <2>2. PICK e : e = source[<<>>]
    OBVIOUS
  <2>3. /\ e \in Entry /\ e.type \in {"reg", "dir"} /\ <<>> \in Paths
    BY <1>3, <2>2 DEF CollectHead, Shape, Typed
  <2>4. head \in Node /\ head.parent = 1 /\ head.mtime = <<>> /\ head.type = e.type
    <3>1. head = [name |-> HeadName, parent |-> 1, type |-> e.type, size |-> e.size,
                  mode |-> e.mode, mtime |-> <<>>, children |-> <<>>, slots |-> 0]
      BY <2>1, <2>2 DEF Inode
    <3>2. <<>> \in Seq(Nat)
      BY EmptySeq
    <3>3. e.size \in Nat /\ e.mode \in Modes
      BY <2>3 DEF Entry
    <3> QED  BY <2>3, <3>1, <3>2, <3>3, TreesAssumption DEF Node
  <2>5. tree' = <<head>> /\ Len(tree') = 1 /\ tree'[1] = head /\ tree' \in Seq(Node)
    BY <1>3, <2>1, <2>4 DEF CollectHead
  <2>6. \/ at' = "collecting" /\ dirs' = <<OpenDir(1)>> /\ e.type = "dir"
        \/ at' = "collected" /\ dirs' = <<>>
    BY <1>1, <1>3, <2>2 DEF CollectHead
  <2>7. OpenDir(1) \in OpenDirectory
    BY FS_EmptySet DEF OpenDir, OpenDirectory
  <2>8. dirs' \in Seq(OpenDirectory)
    <3>1. PICK o \in OpenDirectory : o = OpenDir(1)
      BY <2>7
    <3>2. <<o>> \in Seq(OpenDirectory)
      OBVIOUS
    <3> QED  BY <2>6, <3>1, <3>2, EmptySeq
  <2>9. Typed'
    BY <1>1, <2>5, <2>6, <2>8 DEF Shape, Typed, histories
  <2>10. Located'
    BY <2>4, <2>5 DEF Located
  <2>11. Phases'
    <3>1. <<OpenDir(1)>> # <<>> /\ <<head>> # <<>>
      OBVIOUS
    <3> QED  BY <2>5, <2>6, <3>1 DEF Phases
  <2>12. Passes'
    <3>1. CASE dirs' = <<>>
      BY <3>1 DEF Passes
    <3>2. CASE dirs' = <<OpenDir(1)>> /\ e.type = "dir"
      <4>1. PICK o : o = OpenDir(1)
        OBVIOUS
      <4>2. o.dir = 1 /\ o.pass = "open" /\ o.must = {} /\ o.may = {} /\ o.seen = {}
        BY <4>1 DEF OpenDir
      <4>3. Len(dirs') = 1 /\ dirs'[1] = o
        BY <3>2, <4>1
      <4>4. \A i \in 1..Len(dirs') : i = 1
        BY <4>3
      <4>5. \A n \in 2..Len(tree') : FALSE
        BY <2>5
      <4> QED  BY <2>4, <2>5, <3>2, <4>2, <4>3, <4>4, <4>5 DEF Passes
    <3> QED  BY <2>6, <3>1, <3>2
  <2> QED  BY <2>9, <2>10, <2>11, <2>12 DEF Shape
<1> QED  BY <1>2, <1>3 DEF fs_tree_collect

\* A directory is left.
LEMMA LeftStack ==
  ASSUME Shape, CloseDir
  PROVE  /\ Len(dirs) \in Nat \ {0} /\ dirs' \in Seq(OpenDirectory)
         /\ Len(dirs') = Len(dirs) - 1
         /\ \A i \in 1..Len(dirs') : dirs'[i] = dirs[i] /\ i \in 1..Len(dirs)
<1>1. dirs \in Seq(OpenDirectory) /\ dirs # <<>> /\ dirs' = Front(dirs)
  BY DEF Shape, Typed, Phases, CloseDir, InPass
<1> QED  BY <1>1, FrontFacts

LEMMA CloseShape == ASSUME Shape, CloseDir PROVE Shape'
<1>1. /\ Len(dirs) \in Nat \ {0} /\ dirs' \in Seq(OpenDirectory)
      /\ Len(dirs') = Len(dirs) - 1
      /\ \A i \in 1..Len(dirs') : dirs'[i] = dirs[i] /\ i \in 1..Len(dirs)
  BY LeftStack
<1>2. /\ UNCHANGED <<source, tree, histories>> /\ at = "collecting" /\ Inner.pass = "read"
      /\ at' = IF Len(dirs) = 1 THEN "collected" ELSE at
  BY DEF CloseDir, InPass
<1>3. Typed'
  BY <1>1, <1>2 DEF Shape, Typed, histories
<1>4. Located'
  BY <1>2 DEF Shape, Located
<1>5. Phases'
  <2>1. dirs' = <<>> <=> Len(dirs) = 1
    BY <1>1, EmptySeq
  <2>2. tree' # <<>>
    <3>1. Inner.dir \in 1..Len(tree)
      BY <1>2, InnerFacts
    <3> QED  BY <1>2, <3>1, EmptySeq
  <2> QED  BY <1>2, <2>1, <2>2 DEF Phases
<1>6. Passes'
  <2>1. \A i \in 1..Len(dirs') : i # Len(dirs) /\ dirs'[i] = dirs[i] /\ i \in 1..Len(dirs)
    BY <1>1
  <2>2. \A i \in 1..Len(dirs') : dirs'[i].pass = "read"
    BY <2>1 DEF Shape, Passes
  <2>3. \A i, j \in 1..Len(dirs') : dirs'[i].dir = dirs'[j].dir => i = j
    BY <2>1 DEF Shape, Passes
  <2>4. ASSUME NEW i \in 1..Len(dirs')
        PROVE  /\ dirs'[i].dir \in 1..Len(tree') /\ tree'[dirs'[i].dir].type = "dir"
               /\ dirs'[i].pass # "read" => dirs'[i].seen = {}
               /\ dirs'[i].seen \cup dirs'[i].must \subseteq dirs'[i].may
               /\ \A n \in 2..Len(tree') :
                    tree'[n].parent = dirs'[i].dir =>
                      \E e \in dirs'[i].seen : e.name = tree'[n].name
    BY <1>2, <2>1 DEF Shape, Passes
  <2> QED  BY <2>2, <2>3, <2>4 DEF Passes
<1> QED  BY <1>3, <1>4, <1>5, <1>6 DEF Shape

\* The steps in an open directory that add no inode.
LEMMA InodesStay ==
  ASSUME Typed, UNCHANGED tree
  PROVE  KeptNodes
BY Lists DEF KeptNodes, Typed

LEMMA CountedNodes ==
  ASSUME Shape, at = "collecting", NEW slots \in Nat,
         tree' = [tree EXCEPT ![Inner.dir].slots = slots]
  PROVE  /\ KeptNodes /\ Len(tree') = Len(tree)
         /\ \A k \in 1..Len(tree) :
              /\ tree'[k].children = tree[k].children
              /\ tree'[k].slots = IF k = Inner.dir THEN slots ELSE tree[k].slots
<1>1. /\ tree \in Seq(Node) /\ Inner.dir \in 1..Len(tree) /\ tree[Inner.dir] \in Node
      /\ Len(tree) \in Nat
  BY InnerFacts, Lists DEF Shape, Typed
<1>2. PICK new : new = [tree[Inner.dir] EXCEPT !.slots = slots]
  OBVIOUS
<1>3. PICK old : old = tree[Inner.dir]
  OBVIOUS
<1>4. /\ new \in Node /\ new.mtime = old.mtime /\ new.parent = old.parent
      /\ new.name = old.name /\ new.type = old.type /\ new.size = old.size
      /\ new.children = old.children
      /\ new.slots = slots
  BY <1>1, <1>2, <1>3 DEF Node
<1>5. tree' = [tree EXCEPT ![Inner.dir] = new]
  BY <1>1, <1>2
<1>6. /\ tree' \in Seq(Node) /\ Len(tree') = Len(tree) /\ tree'[Inner.dir] = new
      /\ \A k \in 1..Len(tree) : k # Inner.dir => tree'[k] = tree[k]
  BY <1>1, <1>4, <1>5, ExceptSeq
<1>7. ASSUME NEW k \in 1..Len(tree)
      PROVE  /\ tree'[k].mtime = tree[k].mtime /\ tree'[k].parent = tree[k].parent
             /\ tree'[k].name = tree[k].name /\ tree'[k].type = tree[k].type
             /\ tree'[k].size = tree[k].size /\ tree'[k].children = tree[k].children
             /\ tree'[k].slots = IF k = Inner.dir THEN slots ELSE tree[k].slots
  <2>1. CASE k = Inner.dir
    BY <1>3, <1>4, <1>6, <2>1
  <2>2. CASE k # Inner.dir
    BY <1>6, <2>2
  <2> QED  BY <2>1, <2>2
<1>8. Len(tree') >= Len(tree)
  BY <1>1, <1>6
<1> QED  BY <1>6, <1>7, <1>8 DEF KeptNodes

\* The process ends where it is.
LEMMA EndShape ==
  ASSUME Shape, UNCHANGED <<source, tree, dirs, histories>>,
         at' \in {"layout", "writing", "packed", "failed", "exited", "crashed"}
  PROVE  Shape'
<1>1. Typed'
  BY DEF Shape, Typed, histories
<1>2. Located' /\ Passes'
  BY DEF Shape, Located, Passes
<1>3. Phases'
  BY DEF Phases
<1> QED  BY <1>1, <1>2, <1>3 DEF Shape

LEMMA OpenShape == ASSUME Shape, open_dir PROVE Shape'
<1>1. at = "collecting" /\ UNCHANGED <<source, tree, histories>> /\ Inner.pass = "open"
  BY DEF open_dir, InPass
<1>2. CASE ~IsDir(source, InnerPath)
  BY <1>1, <1>2, EndShape DEF open_dir
<1>3. CASE IsDir(source, InnerPath)
  <2>1. PICK now : now = Listing(Entries(source, InnerPath))
    OBVIOUS
  <2>2. PICK d : d = [Inner EXCEPT !.pass = "count", !.must = now, !.may = now]
    OBVIOUS
  <2>3. InnerBecomes(d) /\ at' = at
    BY <1>3, <2>1, <2>2 DEF open_dir
  <2>4. now \in SUBSET ListedEntry /\ IsFiniteSet(now)
    BY <2>1, ListingFacts
  <2>5. /\ d \in OpenDirectory /\ d.dir = Inner.dir /\ d.seen = Inner.seen
        /\ d.pass = "count" /\ d.must = now /\ d.may = now
    <3>1. Inner \in OpenDirectory
      BY <1>1, InnerFacts
    <3> QED  BY <2>2, <2>4, <3>1 DEF OpenDirectory
  <2>6. Inner.seen = {}
    BY <1>1, InnerFacts
  <2>7. InnerAt(d) /\ KeptNodes /\ Len(tree') = Len(tree)
    BY <1>1, <2>3, <2>5, InnerMoves, InodesStay DEF Shape
  <2> QED  BY <1>1, <2>3, <2>5, <2>6, <2>7, InnerShape
<1> QED  BY <1>2, <1>3

\* What counting does.
LEMMA CountFacts ==
  ASSUME Shape, count_files_in_the_directory
  PROVE  /\ at = "collecting" /\ at' = at /\ UNCHANGED <<source, histories>>
         /\ Inner.pass = "count"
         /\ \E counted \in SUBSET Inner.may : \E d \in OpenDirectory :
              /\ Inner.must \subseteq counted
              /\ Cardinality(counted) + 2 \in Nat
              /\ tree' = [tree EXCEPT ![Inner.dir].slots = Cardinality(counted) + 2]
              /\ InnerAt(d) /\ d.dir = Inner.dir /\ d.seen = Inner.seen /\ d.pass = "read"
              /\ d.must = Listing(Entries(source, InnerPath))
              /\ d.may = Listing(Entries(source, InnerPath))
<1>1. at = "collecting" /\ at' = at /\ UNCHANGED <<source, histories>> /\ Inner.pass = "count"
  BY DEF count_files_in_the_directory, InPass
<1>2. PICK counted \in SUBSET Inner.may :
              /\ Inner.must \subseteq counted
              /\ tree' = [tree EXCEPT ![Inner.dir].slots = Cardinality(counted) + 2]
  BY DEF count_files_in_the_directory
<1>3. Cardinality(counted) + 2 \in Nat
  <2>1. IsFiniteSet(Inner.may)
    BY <1>1, InnerFacts
  <2>2. Cardinality(counted) \in Nat
    BY <2>1, FS_Subset, FS_CardinalityType
  <2> QED  BY <2>2
<1>4. PICK now : now = Listing(Entries(source, InnerPath))
  OBVIOUS
<1>5. PICK d : d = [Inner EXCEPT !.pass = "read", !.must = now, !.may = now]
  OBVIOUS
<1>6. InnerBecomes(d)
  BY <1>4, <1>5 DEF count_files_in_the_directory
<1>7. now \in SUBSET ListedEntry /\ IsFiniteSet(now)
  BY <1>4, ListingFacts
<1>8. /\ d \in OpenDirectory /\ d.dir = Inner.dir /\ d.seen = Inner.seen
      /\ d.pass = "read" /\ d.must = now /\ d.may = now
  <2>1. Inner \in OpenDirectory
    BY <1>1, InnerFacts
  <2> QED  BY <1>5, <1>7, <2>1 DEF OpenDirectory
<1>9. InnerAt(d)
  BY <1>1, <1>6, <1>8, InnerMoves
<1> QED  BY <1>1, <1>2, <1>3, <1>4, <1>8, <1>9

LEMMA CountShape == ASSUME Shape, count_files_in_the_directory PROVE Shape'
<1>1. at = "collecting" /\ at' = at /\ UNCHANGED <<source, histories>> /\ Inner.pass = "count"
  BY CountFacts
<1>2. PICK counted \in SUBSET Inner.may, d \in OpenDirectory :
              /\ Cardinality(counted) + 2 \in Nat
              /\ tree' = [tree EXCEPT ![Inner.dir].slots = Cardinality(counted) + 2]
              /\ InnerAt(d) /\ d.dir = Inner.dir /\ d.seen = Inner.seen /\ d.pass = "read"
              /\ d.must = Listing(Entries(source, InnerPath))
              /\ d.may = Listing(Entries(source, InnerPath))
  BY CountFacts
<1>3. KeptNodes /\ Len(tree') = Len(tree)
  BY <1>1, <1>2, CountedNodes
<1>4. Inner.seen = {}
  BY <1>1, InnerFacts
<1> QED  BY <1>1, <1>2, <1>3, <1>4, InnerShape

LEMMA SkippedShape ==
  ASSUME Shape, at = "collecting", UNCHANGED <<source, histories>>,
         NEW e \in Inner.may, NEW d, d = [Inner EXCEPT !.seen = @ \cup {e}],
         NEW p, ChildIsSkipped(p, d), Inner.pass = "read"
  PROVE  Shape' /\ InnerAt(d) /\ UNCHANGED <<at, tree>>
<1>1. InnerBecomes(d) /\ UNCHANGED <<at, tree>>
  BY DEF ChildIsSkipped
<1>2. /\ d \in OpenDirectory /\ d.dir = Inner.dir /\ d.pass = "read"
      /\ d.must = Inner.must /\ d.may = Inner.may /\ d.seen = Inner.seen \cup {e}
  BY SeenRecord
<1>3. InnerAt(d) /\ KeptNodes /\ Len(tree') = Len(tree)
  BY <1>1, <1>2, InnerMoves, InodesStay DEF Shape
<1>4. Inner.seen \cup Inner.must \subseteq Inner.may
  BY InnerFacts
<1>5. Inner.seen \subseteq d.seen /\ d.seen \cup d.must \subseteq d.may
  BY <1>2, <1>4
<1> QED  BY <1>1, <1>2, <1>3, <1>5, InnerShape

\* The entry that is read, in one piece.
LEMMA ChildFacts ==
  ASSUME NEW e, process_dir_child(e)
  PROVE  /\ at = "collecting" /\ UNCHANGED <<source, histories>> /\ Inner.pass = "read"
         /\ e \in Inner.may \ Inner.seen
         /\ \E p, d : /\ p = Append(InnerPath, e.name)
                      /\ d = [Inner EXCEPT !.seen = @ \cup {e}]
                      /\ ChildIsGone(p) \/ ChildIsSkipped(p, d) \/ ChildIsAdded(p, d)
BY DEF process_dir_child, InPass

LEMMA ChildShape == ASSUME Shape, NEW e, process_dir_child(e) PROVE Shape'
<1>1. /\ at = "collecting" /\ UNCHANGED <<source, histories>> /\ Inner.pass = "read"
      /\ e \in Inner.may \ Inner.seen
  BY ChildFacts
<1>2. PICK p, d : /\ p = Append(InnerPath, e.name) /\ d = [Inner EXCEPT !.seen = @ \cup {e}]
                  /\ ChildIsGone(p) \/ ChildIsSkipped(p, d) \/ ChildIsAdded(p, d)
  BY ChildFacts
<1>3. CASE ChildIsGone(p)
  BY <1>1, <1>3, EndShape DEF ChildIsGone
<1>4. CASE ChildIsSkipped(p, d)
  BY <1>1, <1>2, <1>4, SkippedShape
<1>5. CASE ChildIsAdded(p, d)
  BY <1>1, <1>2, <1>5, AddedShape
<1> QED  BY <1>2, <1>3, <1>4, <1>5

-----------------------------------------------------------------------------
(***************************************************************************)
(* The changes of other processes.                                         *)
(***************************************************************************)

\* Of the names in a directory only the one of p is another matter.
LEMMA ListedAt ==
  ASSUME Typed, Located, NEW p \in Paths, p # <<>>, NEW k \in 1..Len(tree)
  PROVE  /\ get_name(tree, k) = tree[k].mtime
         /\ \A n \in Names : Append(tree[k].mtime, n) = p
                               <=> tree[k].mtime = Front(p) /\ n = Last(p)
<1>1. get_name(tree, k) = tree[k].mtime
  BY NameIsTime
<1>2. PICK q : q = tree[k].mtime
  OBVIOUS
<1>3. q \in Seq(Names)
  BY <1>2, NodePaths
<1>4. p = Append(Front(p), Last(p)) /\ Front(p) \in Seq(Names) /\ Last(p) \in Names
  BY PathParts
<1>5. ASSUME NEW n \in Names
      PROVE  Append(q, n) = p <=> q = Front(p) /\ n = Last(p)
  <2>1. Front(Append(q, n)) = q /\ Last(Append(q, n)) = n
    BY <1>3, EntryParts
  <2> QED  BY <1>4, <2>1
<1> QED  BY <1>1, <1>2, <1>5

LEMMA AppearsStack ==
  ASSUME Shape, NEW p \in Paths, NEW entry \in NewEntries, Appears(p, entry)
  PROVE  /\ Len(dirs') = Len(dirs) /\ dirs' \in Seq(OpenDirectory)
         /\ \A i \in 1..Len(dirs) :
              /\ SameRecord(dirs'[i], dirs[i]) /\ dirs'[i].must = dirs[i].must
              /\ dirs'[i].may = IF tree[dirs[i].dir].mtime = Front(p)
                                THEN dirs[i].may \cup {NewEntry(p)} ELSE dirs[i].may
<1>1. /\ dirs \in Seq(OpenDirectory) /\ DOMAIN dirs = 1..Len(dirs) /\ Len(dirs) \in Nat
      /\ NewEntry(p) \in ListedEntry
  BY Lists, PathParts DEF Shape, Typed, Appears, NewEntry, ListedEntry
<1>2. \A i \in 1..Len(dirs) : IsListed(p, i) <=> tree[dirs[i].dir].mtime = Front(p)
  <2>1. \A i \in 1..Len(dirs) : dirs[i].dir \in 1..Len(tree)
    BY DEF Shape, Passes
  <2> QED  BY <2>1, NameIsTime DEF Shape, IsListed
<1>3. dirs' = [i \in 1..Len(dirs) |->
                [dirs[i] EXCEPT !.may = IF ~IsListed(p, i) THEN @ ELSE @ \cup {NewEntry(p)}]]
  BY <1>1 DEF Appears, NewEntry
<1>4. ASSUME NEW i \in 1..Len(dirs)
      PROVE  /\ SameRecord(dirs'[i], dirs[i]) /\ dirs'[i].must = dirs[i].must
             /\ dirs'[i].may = IF tree[dirs[i].dir].mtime = Front(p)
                               THEN dirs[i].may \cup {NewEntry(p)} ELSE dirs[i].may
  <2>1. PICK d \in OpenDirectory : d = dirs[i]
    BY <1>1, ElementOfSeq
  <2>2. PICK m : m = IF ~IsListed(p, i) THEN d.may ELSE d.may \cup {NewEntry(p)}
    OBVIOUS
  <2>3. m \in SUBSET ListedEntry /\ IsFiniteSet(m)
    <3>1. d.may \in SUBSET ListedEntry /\ IsFiniteSet(d.may)
      BY <2>1 DEF OpenDirectory
    <3>2. IsFiniteSet(d.may \cup {NewEntry(p)})
      BY <3>1, FS_AddElement
    <3> QED  BY <1>1, <2>2, <3>1, <3>2
  <2>4. dirs'[i] = [d EXCEPT !.may = m]
    BY <1>3, <2>1, <2>2
  <2>5. /\ dirs'[i] \in OpenDirectory /\ dirs'[i].dir = d.dir /\ dirs'[i].pass = d.pass
        /\ dirs'[i].seen = d.seen /\ dirs'[i].must = d.must /\ dirs'[i].may = m
    BY <2>1, <2>3, <2>4 DEF OpenDirectory
  <2> QED  BY <1>2, <2>1, <2>2, <2>5 DEF SameRecord
<1>5. Len(dirs') = Len(dirs) /\ dirs' \in Seq(OpenDirectory)
  <2>1. dirs' \in [1..Len(dirs) -> OpenDirectory]
    BY <1>3, <1>4 DEF SameRecord
  <2>2. dirs' \in Seq(OpenDirectory)
    BY <1>1, <2>1
  <2> QED  BY <1>1, <2>1, <2>2, LenProperties
<1> QED  BY <1>4, <1>5

LEMMA VanishesStack ==
  ASSUME Shape, NEW p \in Paths, Vanishes(p)
  PROVE  /\ Len(dirs') = Len(dirs) /\ dirs' \in Seq(OpenDirectory)
         /\ \A i \in 1..Len(dirs) :
              /\ SameRecord(dirs'[i], dirs[i]) /\ dirs'[i].may = dirs[i].may
              /\ dirs'[i].must = IF tree[dirs[i].dir].mtime = Front(p)
                                 THEN Others(dirs[i].must, p) ELSE dirs[i].must
<1>1. /\ dirs \in Seq(OpenDirectory) /\ DOMAIN dirs = 1..Len(dirs) /\ Len(dirs) \in Nat
  BY Lists DEF Shape, Typed
<1>2. \A i \in 1..Len(dirs) : IsListed(p, i) <=> tree[dirs[i].dir].mtime = Front(p)
  <2>1. \A i \in 1..Len(dirs) : dirs[i].dir \in 1..Len(tree)
    BY DEF Shape, Passes
  <2> QED  BY <2>1, NameIsTime DEF Shape, IsListed
<1>3. dirs' = [i \in 1..Len(dirs) |->
                [dirs[i] EXCEPT !.must = IF ~IsListed(p, i) THEN @ ELSE Others(@, p)]]
  BY <1>1 DEF Vanishes, Others
<1>4. ASSUME NEW i \in 1..Len(dirs)
      PROVE  /\ SameRecord(dirs'[i], dirs[i]) /\ dirs'[i].may = dirs[i].may
             /\ dirs'[i].must = IF tree[dirs[i].dir].mtime = Front(p)
                                THEN Others(dirs[i].must, p) ELSE dirs[i].must
  <2>1. PICK d \in OpenDirectory : d = dirs[i]
    BY <1>1, ElementOfSeq
  <2>2. PICK m : m = IF ~IsListed(p, i) THEN d.must ELSE Others(d.must, p)
    OBVIOUS
  <2>3. m \in SUBSET ListedEntry
    BY <1>1, <2>1, <2>2 DEF OpenDirectory, Others
  <2>4. dirs'[i] = [d EXCEPT !.must = m]
    BY <1>3, <2>1, <2>2
  <2>5. /\ dirs'[i] \in OpenDirectory /\ dirs'[i].dir = d.dir /\ dirs'[i].pass = d.pass
        /\ dirs'[i].seen = d.seen /\ dirs'[i].may = d.may /\ dirs'[i].must = m
    BY <2>1, <2>3, <2>4 DEF OpenDirectory
  <2> QED  BY <1>2, <2>1, <2>2, <2>5 DEF SameRecord
<1>5. Len(dirs') = Len(dirs) /\ dirs' \in Seq(OpenDirectory)
  <2>1. dirs' \in [1..Len(dirs) -> OpenDirectory]
    BY <1>3, <1>4 DEF SameRecord
  <2>2. dirs' \in Seq(OpenDirectory)
    BY <1>1, <2>1
  <2> QED  BY <1>1, <2>1, <2>2, LenProperties
<1> QED  BY <1>4, <1>5

\* What a change leaves alone.
LEMMA ChangeFacts ==
  ASSUME Typed, NEW p \in Paths, NEW new \in {0, 1}, Changes(p, new)
  PROVE  /\ UNCHANGED <<at, tree>> /\ at \in {"collecting", "writing"}
         /\ touched' = touched \cup {p} /\ touched' \subseteq Paths
         /\ created' = created + new /\ {created, created', changesLeft'} \subseteq Nat
<1>1. changesLeft' \in Nat
  BY DEF Changes, Typed
<1> QED  BY <1>1 DEF Changes, Typed

LEMMA OthersShape ==
  ASSUME Shape, UNCHANGED <<at, tree>>, touched' \subseteq Paths, created' \in Nat,
         changesLeft' \in Nat,
         DOMAIN source' \subseteq Paths, source' \in [DOMAIN source' -> Entry],
         dirs' \in Seq(OpenDirectory), Len(dirs') = Len(dirs),
         \A i \in 1..Len(dirs) :
            SameRecord(dirs'[i], dirs[i]) /\ dirs'[i].seen \cup dirs'[i].must \subseteq dirs'[i].may
  PROVE  Shape'
<1>1. Typed'
  BY DEF Shape, Typed
<1>2. Located'
  BY DEF Shape, Located
<1>3. Phases'
  <2>1. dirs' = <<>> <=> dirs = <<>>
    BY EmptySeq DEF Shape, Typed
  <2> QED  BY <2>1 DEF Shape, Phases
<1>4. Passes'
  <2>1. \A i \in 1..Len(dirs') : i \in 1..Len(dirs) /\ dirs'[i].dir = dirs[i].dir
           /\ dirs'[i].pass = dirs[i].pass /\ dirs'[i].seen = dirs[i].seen
    BY DEF SameRecord
  <2>2. \A i \in 1..Len(dirs') : i # Len(dirs') => dirs'[i].pass = "read"
    BY <2>1 DEF Shape, Passes
  <2>3. \A i, j \in 1..Len(dirs') : dirs'[i].dir = dirs'[j].dir => i = j
    BY <2>1 DEF Shape, Passes
  <2>4. ASSUME NEW i \in 1..Len(dirs')
        PROVE  /\ dirs'[i].dir \in 1..Len(tree') /\ tree'[dirs'[i].dir].type = "dir"
               /\ dirs'[i].pass # "read" => dirs'[i].seen = {}
               /\ \A n \in 2..Len(tree') :
                    tree'[n].parent = dirs'[i].dir =>
                      \E e \in dirs'[i].seen : e.name = tree'[n].name
    BY <2>1 DEF Shape, Passes
  <2>5. \A i \in 1..Len(dirs') : dirs'[i].seen \cup dirs'[i].must \subseteq dirs'[i].may
    OBVIOUS
  <2> QED  BY <2>2, <2>3, <2>4, <2>5 DEF Passes
<1> QED  BY <1>1, <1>2, <1>3, <1>4 DEF Shape

LEMMA AppearsShape ==
  ASSUME Shape, NEW p \in Paths, NEW entry \in NewEntries, Appears(p, entry)
  PROVE  Shape'
<1>1. /\ UNCHANGED <<at, tree>> /\ touched' \subseteq Paths
      /\ {created', changesLeft'} \subseteq Nat
  BY ChangeFacts DEF Shape, Appears
<1>2. DOMAIN source' \subseteq Paths /\ source' \in [DOMAIN source' -> Entry]
  <2>1. entry \in Entry
    <3>1. [type |-> "reg", size |-> 1, mode |-> "644"] \in Entry
      BY TreesAssumption DEF Entry
    <3>2. [type |-> "dir", size |-> 1, mode |-> "755"] \in Entry
      BY TreesAssumption DEF Entry
    <3> QED  BY <3>1, <3>2 DEF NewEntries
  <2>2. DOMAIN source \subseteq Paths /\ \A q \in DOMAIN source : source[q] \in Entry
    BY DEF Shape, Typed
  <2>3. source' = [q \in DOMAIN source \cup {p} |-> IF q = p THEN entry ELSE source[q]]
    BY DEF Appears
  <2>4. DOMAIN source' = DOMAIN source \cup {p} /\ \A q \in DOMAIN source' : source'[q] \in Entry
    BY <2>1, <2>2, <2>3
  <2>5. source' \in [DOMAIN source' -> Entry]
    BY <2>3, <2>4
  <2> QED  BY <2>2, <2>4, <2>5
<1>3. ASSUME NEW i \in 1..Len(dirs)
      PROVE  SameRecord(dirs'[i], dirs[i]) /\ dirs'[i].seen \cup dirs'[i].must \subseteq dirs'[i].may
  <2>1. dirs[i].seen \cup dirs[i].must \subseteq dirs[i].may
    BY DEF Shape, Passes
  <2>2. /\ SameRecord(dirs'[i], dirs[i]) /\ dirs'[i].must = dirs[i].must
        /\ dirs[i].may \subseteq dirs'[i].may
    BY AppearsStack
  <2> QED  BY <2>1, <2>2 DEF SameRecord
<1>4. dirs' \in Seq(OpenDirectory) /\ Len(dirs') = Len(dirs)
  BY AppearsStack
<1> QED  BY <1>1, <1>2, <1>3, <1>4, OthersShape

LEMMA VanishesShape == ASSUME Shape, NEW p \in Paths, Vanishes(p) PROVE Shape'
<1>1. /\ UNCHANGED <<at, tree>> /\ touched' \subseteq Paths
      /\ {created', changesLeft'} \subseteq Nat
  BY ChangeFacts DEF Shape, Vanishes
<1>2. DOMAIN source' \subseteq Paths /\ source' \in [DOMAIN source' -> Entry]
  BY DEF Shape, Typed, Vanishes, Restrict
<1>3. ASSUME NEW i \in 1..Len(dirs)
      PROVE  SameRecord(dirs'[i], dirs[i]) /\ dirs'[i].seen \cup dirs'[i].must \subseteq dirs'[i].may
  <2>1. dirs[i].seen \cup dirs[i].must \subseteq dirs[i].may
    BY DEF Shape, Passes
  <2>2. /\ SameRecord(dirs'[i], dirs[i]) /\ dirs'[i].must \subseteq dirs[i].must
        /\ dirs[i].may = dirs'[i].may
    BY VanishesStack DEF Others
  <2> QED  BY <2>1, <2>2 DEF SameRecord
<1>4. dirs' \in Seq(OpenDirectory) /\ Len(dirs') = Len(dirs)
  BY VanishesStack
<1> QED  BY <1>1, <1>2, <1>3, <1>4, OthersShape

\* A file that changes its size keeps its type.
LEMMA ResizesFacts ==
  ASSUME Shape, NEW p \in Paths, NEW size \in {0, 2}, Resizes(p, size)
  PROVE  /\ DOMAIN source' = DOMAIN source /\ source' \in [DOMAIN source' -> Entry]
         /\ \A q \in DOMAIN source : source'[q].type = source[q].type
         /\ UNCHANGED <<at, tree, dirs, created>>
         /\ touched' = touched \cup {p} /\ touched' \subseteq Paths
         /\ {created', changesLeft'} \subseteq Nat
<1>1. /\ UNCHANGED <<at, tree>> /\ touched' = touched \cup {p} /\ touched' \subseteq Paths
      /\ created' = created + 0 /\ {created, created', changesLeft'} \subseteq Nat
  BY ChangeFacts DEF Shape, Resizes
<1>2. PICK e : e = [source[p] EXCEPT !.size = size]
  OBVIOUS
<1>3. source[p] \in Entry /\ source \in [DOMAIN source -> Entry] /\ p \in DOMAIN source
  BY DEF Shape, Typed, Resizes
<1>4. e \in Entry /\ e.type = source[p].type
  BY <1>2, <1>3 DEF Entry
<1>5. source' = [source EXCEPT ![p] = e]
  BY <1>2, <1>3 DEF Resizes
<1>6. DOMAIN source' = DOMAIN source /\ source' \in [DOMAIN source' -> Entry]
  BY <1>3, <1>4, <1>5
<1>7. \A q \in DOMAIN source : source'[q].type = source[q].type
  BY <1>3, <1>4, <1>5
<1> QED  BY <1>1, <1>6, <1>7 DEF Resizes

LEMMA ResizesShape ==
  ASSUME Shape, NEW p \in Paths, NEW size \in {0, 2}, Resizes(p, size)
  PROVE  Shape'
<1>1. /\ DOMAIN source' = DOMAIN source /\ source' \in [DOMAIN source' -> Entry]
      /\ UNCHANGED <<at, tree, dirs>> /\ touched' \subseteq Paths
      /\ {created', changesLeft'} \subseteq Nat
  BY ResizesFacts
<1>2. DOMAIN source' \subseteq Paths
  BY <1>1 DEF Shape, Typed
<1>3. \A i \in 1..Len(dirs) :
         SameRecord(dirs'[i], dirs[i]) /\ dirs'[i].seen \cup dirs'[i].must \subseteq dirs'[i].may
  BY <1>1, Lists DEF Shape, Passes, SameRecord
<1>4. dirs' \in Seq(OpenDirectory)
  BY <1>1 DEF Shape, Typed
<1> QED  BY <1>1, <1>2, <1>3, <1>4, OthersShape

-----------------------------------------------------------------------------
(***************************************************************************)
(* The shape of the tree and the stack is an invariant.                    *)
(***************************************************************************)
LEMMA ShapeInit == Init => Shape
<1> SUFFICES ASSUME Init PROVE Shape
  OBVIOUS
<1>1. /\ source \in Trees /\ at = "start" /\ tree = <<>> /\ dirs = <<>>
      /\ changesLeft = MaxChanges(source) /\ created = 0 /\ touched = {}
  BY DEF Init, PackInit, FsInit
<1>2. /\ DOMAIN source \subseteq Paths /\ source \in [DOMAIN source -> Entry]
      /\ changesLeft \in Nat
  BY <1>1, TreesAssumption DEF Entry
<1>3. Typed
  BY <1>1, <1>2, EmptySeq DEF Typed
<1>4. Len(tree) = 0 /\ Len(dirs) = 0
  BY <1>1
<1>5. Located /\ Phases /\ Passes
  BY <1>1, <1>4 DEF Located, Phases, Passes
<1> QED  BY <1>3, <1>5 DEF Shape

\* What the rest of the proofs distinguishes.
LEMMA Steps ==
  ASSUME [Next]_vars
  PROVE  \/ fs_tree_collect
         \/ open_dir
         \/ count_files_in_the_directory
         \/ \E e \in ListedEntry : process_dir_child(e)
         \/ CloseDir
         \/ \E p \in Paths : \/ \E entry \in NewEntries : Appears(p, entry)
                             \/ Vanishes(p)
                             \/ \E size \in {0, 2} : Resizes(p, size)
         \/ Beside
<1>1. CASE UNCHANGED vars
  BY <1>1 DEF vars, fsVars, Beside
<1>2. CASE ArchiveIsCut
  BY <1>2 DEF ArchiveIsCut, fsVars, Beside
<1>3. CASE UsesArchive
  BY <1>3 DEF UsesArchive, fsVars, Beside
<1>4. CASE pack
  <2>1. CASE Collect
    <3>1. CASE \E e \in [name : Names, birth : 0..created] : process_dir_child(e)
      <4>1. PICK e \in [name : Names, birth : 0..created] : process_dir_child(e)
        BY <3>1
      <4>2. e \in ListedEntry
        BY <4>1 DEF ListedEntry
      <4> QED  BY <4>1, <4>2
    <3> QED  BY <2>1, <3>1 DEF Collect
  <2>2. CASE OtherProcesses
    BY <2>2 DEF OtherProcesses
  <2>3. CASE computeArchiveSize
    BY <2>3 DEF computeArchiveSize, Beside
  <2>4. CASE addInodeToArchive
    BY <2>4 DEF addInodeToArchive, fsVars, Beside
  <2>5. CASE WriteHeader
    BY <2>5 DEF WriteHeader, Beside
  <2>6. CASE writeContentToArchive
    BY <2>6 DEF writeContentToArchive, writeOneFileToArcive, Beside
  <2>7. CASE PackReturns
    BY <2>7 DEF PackReturns, Beside
  <2> QED  BY <1>4, <2>1, <2>2, <2>3, <2>4, <2>5, <2>6, <2>7 DEF pack
<1> QED  BY <1>1, <1>2, <1>3, <1>4 DEF Next

LEMMA BesideShape == ASSUME Shape, Beside PROVE Shape'
<1>1. UNCHANGED <<source, tree, dirs, histories>>
  BY DEF Beside
<1>2. CASE at' = at
  BY <1>1, <1>2 DEF Shape, Typed, Located, Phases, Passes, histories
<1>3. CASE at' # at
  <2>1. at' \in {"layout", "writing", "packed", "failed", "crashed"}
    BY <1>3 DEF Beside
  <2> QED  BY <1>1, <2>1, EndShape
<1> QED  BY <1>2, <1>3

LEMMA ShapeNext == Shape /\ [Next]_vars => Shape'
<1> SUFFICES ASSUME Shape, [Next]_vars PROVE Shape'
  OBVIOUS
<1>1. CASE fs_tree_collect
  BY <1>1, StartShape
<1>2. CASE open_dir
  BY <1>2, OpenShape
<1>3. CASE count_files_in_the_directory
  BY <1>3, CountShape
<1>4. ASSUME NEW e \in ListedEntry, process_dir_child(e) PROVE Shape'
  BY <1>4, ChildShape
<1>5. CASE CloseDir
  BY <1>5, CloseShape
<1>6. ASSUME NEW p \in Paths, NEW entry \in NewEntries, Appears(p, entry) PROVE Shape'
  BY <1>6, AppearsShape
<1>7. ASSUME NEW p \in Paths, Vanishes(p) PROVE Shape'
  BY <1>7, VanishesShape
<1>8. ASSUME NEW p \in Paths, NEW size \in {0, 2}, Resizes(p, size) PROVE Shape'
  BY <1>8, ResizesShape
<1>9. CASE Beside
  BY <1>9, BesideShape
<1> QED  BY Steps, <1>1, <1>2, <1>3, <1>4, <1>5, <1>6, <1>7, <1>8, <1>9

-----------------------------------------------------------------------------
(***************************************************************************)
(* The room for children.                                                  *)
(***************************************************************************)

\* A directory has finitely many names.
LEMMA EntriesCounted ==
  ASSUME NEW A, IsFiniteSet(A)
  PROVE  /\ Cardinality(A) \in Nat
         /\ \A B \in SUBSET A : Cardinality(B) \in Nat /\ Cardinality(B) <= Cardinality(A)
         /\ \A x : Cardinality(A \cup {x}) = IF x \in A THEN Cardinality(A) ELSE Cardinality(A) + 1
<1>2. Cardinality(A) \in Nat
  BY FS_CardinalityType
<1>3. ASSUME NEW B \in SUBSET A PROVE Cardinality(B) \in Nat /\ Cardinality(B) <= Cardinality(A)
  <2>1. IsFiniteSet(B) /\ Cardinality(B) <= Cardinality(A)
    BY FS_Subset
  <2> QED  BY <2>1, FS_CardinalityType
<1>4. \A x : Cardinality(A \cup {x}) = IF x \in A THEN Cardinality(A) ELSE Cardinality(A) + 1
  BY FS_AddElement
<1> QED  BY <1>2, <1>3, <1>4

\* The numbers in the room of an inode and of an open directory.
LEMMA NodeNumbers ==
  ASSUME Typed, NEW k \in 1..Len(tree)
  PROVE  Len(tree[k].children) \in Nat /\ tree[k].slots \in Nat
<1>1. tree[k].children \in Seq(Nat) /\ tree[k].slots \in Nat
  BY Lists DEF Node
<1> QED  BY <1>1, LenProperties

LEMMA OpenNumbers ==
  ASSUME Shape, NEW i \in 1..Len(dirs)
  PROVE  /\ dirs[i].must \in SUBSET dirs[i].may /\ dirs[i].may \in SUBSET ListedEntry
         /\ dirs[i].seen \in SUBSET dirs[i].may /\ IsFiniteSet(dirs[i].may)
         /\ Cardinality(dirs[i].may) \in Nat /\ Cardinality(dirs[i].seen) \in Nat
<1>1. dirs[i].may \in SUBSET ListedEntry /\ IsFiniteSet(dirs[i].may)
  BY Lists DEF Shape, OpenDirectory
<1>2. dirs[i].must \in SUBSET dirs[i].may /\ dirs[i].seen \in SUBSET dirs[i].may
  BY DEF Shape, Passes
<1> QED  BY <1>1, <1>2, EntriesCounted

\* The innermost directory has room as the others have.
LEMMA InnerRoom ==
  ASSUME Shape, Counted, at = "collecting"
  PROVE  /\ Room(Inner.dir)
         /\ RoomFor(Inner, tree[Inner.dir], Listing(Entries(source, InnerPath)))
         /\ Len(tree[Inner.dir].children) \in Nat /\ tree[Inner.dir].slots \in Nat
         /\ created \in Nat
<1>1. /\ Len(dirs) \in Nat \ {0} /\ Inner = dirs[Len(dirs)] /\ Inner.dir \in 1..Len(tree)
      /\ InnerPath = tree[Inner.dir].mtime
  BY InnerFacts
<1>2. Len(dirs) \in 1..Len(dirs)
  BY <1>1
<1>3. Room(Inner.dir) /\ RoomFor(Inner, tree[Inner.dir], Listing(Entries(source, InnerPath)))
  BY <1>1, <1>2 DEF Counted
<1> QED  BY <1>1, <1>3, NodeNumbers DEF Shape, Typed

\* A step in the innermost directory: the others keep their room.
LEMMA InnerCounted ==
  ASSUME Shape, Counted, at = "collecting", UNCHANGED <<source, histories>>,
         NEW d, NEW in, InnerAt(d), d.dir = in, in = Inner.dir, KeptNodes, Len(tree') = Len(tree),
         \A k \in 1..Len(tree) : k # in =>
            tree'[k].children = tree[k].children /\ tree'[k].slots = tree[k].slots,
         Room(in)', RoomFor(d, tree'[in], Listing(Entries(source, InnerPath)))
  PROVE  Counted'
<1>1. /\ Len(dirs) \in Nat \ {0} /\ Inner = dirs[Len(dirs)] /\ in \in 1..Len(tree)
      /\ InnerPath = tree[in].mtime /\ created' = created
  BY InnerFacts DEF histories
<1>2. ASSUME NEW n \in 1..Len(tree') PROVE Room(n)'
  <2>1. CASE n = in
    BY <2>1, <1>1
  <2>2. CASE n # in
    <3>1. n \in 1..Len(tree) /\ Room(n)
      BY DEF Counted
    <3> QED  BY <1>1, <2>2, <3>1 DEF Room
  <2> QED  BY <2>1, <2>2
<1>3. ASSUME NEW i \in 1..Len(dirs')
      PROVE  RoomFor(dirs[i], tree[dirs[i].dir], Listing(Entries(source, tree[dirs[i].dir].mtime)))'
  <2>1. CASE i = Len(dirs)
    <3>1. dirs'[i] = d
      BY <2>1 DEF InnerAt
    <3>2. tree'[in].mtime = InnerPath
      BY <1>1 DEF KeptNodes
    <3>3. Listing(Entries(source', tree'[in].mtime)) = Listing(Entries(source, InnerPath))
      BY <3>2
    <3> QED  BY <1>1, <3>1, <3>3 DEF RoomFor
  <2>2. CASE i # Len(dirs)
    <3>1. i \in 1..(Len(dirs) - 1) /\ i \in 1..Len(dirs)
      BY <1>1, <2>2 DEF InnerAt
    <3>2. dirs'[i] = dirs[i]
      BY <3>1 DEF InnerAt
    <3>3. PICK k : k = dirs[i].dir
      OBVIOUS
    <3>4. k \in 1..Len(tree) /\ k # in
      BY <1>1, <2>2, <3>1, <3>3 DEF Shape, Passes
    <3>5. /\ tree'[k].children = tree[k].children /\ tree'[k].slots = tree[k].slots
          /\ tree'[k].mtime = tree[k].mtime
      BY <3>4 DEF KeptNodes
    <3>6. RoomFor(dirs[i], tree[k], Listing(Entries(source, tree[k].mtime)))
      BY <3>1, <3>3 DEF Counted
    <3>7. Listing(Entries(source', tree'[k].mtime)) = Listing(Entries(source, tree[k].mtime))
      BY <3>5
    <3> QED  BY <1>1, <3>2, <3>3, <3>5, <3>6, <3>7 DEF RoomFor
  <2> QED  BY <2>1, <2>2
<1> QED  BY <1>2, <1>3 DEF Counted

\* Nothing read or changed.
LEMMA SameCounted ==
  ASSUME Shape, Counted, UNCHANGED <<tree, dirs>>, created' \in Nat, created' >= created,
         DOMAIN source' = DOMAIN source
  PROVE  Counted'
<1>1. ASSUME NEW n \in 1..Len(tree') PROVE Room(n)'
  <2>1. Room(n) /\ Len(tree[n].children) \in Nat /\ tree[n].slots \in Nat /\ created \in Nat
    BY NodeNumbers DEF Counted, Shape, Typed
  <2> QED  BY <2>1 DEF Room
<1>2. ASSUME NEW i \in 1..Len(dirs')
      PROVE  RoomFor(dirs[i], tree[dirs[i].dir], Listing(Entries(source, tree[dirs[i].dir].mtime)))'
  <2>1. PICK d, k : d = dirs[i] /\ k = dirs[i].dir
    OBVIOUS
  <2>2. k \in 1..Len(tree)
    BY <2>1 DEF Shape, Passes
  <2>3. RoomFor(d, tree[k], Listing(Entries(source, tree[k].mtime)))
    BY <2>1 DEF Counted
  <2>4. PICK e : e = Listing(Entries(source, tree[k].mtime))
    OBVIOUS
  <2>5. Listing(Entries(source', tree[k].mtime)) = e
    BY <2>4 DEF Entries
  <2>6. /\ tree[k].slots \in Nat /\ created \in Nat /\ Cardinality(d.may) \in Nat
        /\ Cardinality(e \ d.must) \in Nat
    <3>1. IsFiniteSet(e) /\ e \ d.must \in SUBSET e
      BY <2>4, ListingFacts
    <3>2. Cardinality(e \ d.must) \in Nat
      BY <3>1, EntriesCounted
    <3> QED  BY <2>1, <2>2, <3>2, NodeNumbers, OpenNumbers DEF Shape, Typed
  <2>7. RoomFor(d, tree[k], e)
    BY <2>3, <2>4
  <2>8. /\ Len(tree[k].children) <= Cardinality(d.seen)
        /\ d.pass = "count" => Cardinality(e \ d.must) <= created'
        /\ d.pass = "read" => Cardinality(d.may) + 2 <= tree[k].slots + created'
    BY <2>6, <2>7 DEF RoomFor
  <2>9. dirs'[i] = d /\ d.dir = k /\ tree'[k] = tree[k]
    BY <2>1
  <2> QED  BY <2>5, <2>8, <2>9 DEF RoomFor
<1> QED  BY <1>1, <1>2 DEF Counted

LEMMA StartCounted == ASSUME Shape, Counted, fs_tree_collect PROVE Counted'
<1>1. /\ tree = <<>> /\ dirs = <<>> /\ UNCHANGED <<source, histories>> /\ created \in Nat
  BY DEF fs_tree_collect, Shape, Phases, Typed
<1>2. CASE CollectNothing \/ CollectOther
  <2>1. UNCHANGED <<source, tree, dirs, histories>>
    BY <1>1, <1>2 DEF CollectNothing, CollectOther
  <2> QED  BY <1>1, <2>1, SameCounted DEF histories
<1>3. CASE CollectHead
  <2>1. PICK head : head = Inode(source, <<>>, HeadName, 1)
    OBVIOUS
  <2>2. Len(head.children) = 0
    BY <2>1 DEF Inode
  <2>3. tree' = <<head>> /\ Len(tree') = 1 /\ tree'[1] = head
    BY <1>3, <2>1 DEF CollectHead
  <2>4. \A n \in 1..Len(tree') : Room(n)'
    BY <2>2, <2>3 DEF Room
  <2>5. CASE dirs' = <<>>
    BY <2>4, <2>5 DEF Counted
  <2>6. CASE dirs' = <<OpenDir(1)>>
    <3>1. PICK o : o = OpenDir(1)
      OBVIOUS
    <3>2. o.dir = 1 /\ o.pass = "open" /\ o.seen = {}
      BY <3>1 DEF OpenDir
    <3>3. dirs' = <<o>> /\ Len(dirs') = 1 /\ dirs'[1] = o
      BY <2>6, <3>1
    <3>4. Len(head.children) <= Cardinality(o.seen)
      BY <2>2, <3>2, FS_EmptySet
    <3>5. ASSUME NEW i \in 1..Len(dirs')
          PROVE  RoomFor(dirs[i], tree[dirs[i].dir], Listing(Entries(source, tree[dirs[i].dir].mtime)))'
      <4>1. dirs'[i] = o /\ tree'[o.dir] = head
        BY <2>3, <3>2, <3>3
      <4> QED  BY <3>2, <3>4, <4>1 DEF RoomFor
    <3> QED  BY <2>4, <3>5 DEF Counted
  <2>7. dirs' = <<>> \/ dirs' = <<OpenDir(1)>>
    BY <1>1, <1>3 DEF CollectHead
  <2> QED  BY <2>5, <2>6, <2>7
<1> QED  BY <1>2, <1>3 DEF fs_tree_collect

LEMMA OpenCounted == ASSUME Shape, Counted, open_dir PROVE Counted'
<1>1. /\ at = "collecting" /\ UNCHANGED <<source, tree, histories>> /\ created' = created
      /\ created \in Nat
  BY DEF open_dir, InPass, histories, Shape, Typed
<1>2. CASE ~IsDir(source, InnerPath)
  <2>1. UNCHANGED dirs
    BY <1>2 DEF open_dir
  <2> QED  BY <1>1, <2>1, SameCounted
<1>3. CASE IsDir(source, InnerPath)
  <2>1. PICK now : now = Listing(Entries(source, InnerPath))
    OBVIOUS
  <2>2. PICK d : d = [Inner EXCEPT !.pass = "count", !.must = now, !.may = now]
    OBVIOUS
  <2>3. InnerBecomes(d)
    BY <1>3, <2>1, <2>2 DEF open_dir
  <2>4. now \in SUBSET ListedEntry /\ IsFiniteSet(now)
    BY <2>1, ListingFacts
  <2>5. /\ d \in OpenDirectory /\ d.dir = Inner.dir /\ d.seen = Inner.seen
        /\ d.pass = "count" /\ d.must = now /\ d.may = now
    <3>1. Inner \in OpenDirectory
      BY <1>1, InnerFacts
    <3> QED  BY <2>2, <2>4, <3>1 DEF OpenDirectory
  <2>6. InnerAt(d) /\ KeptNodes /\ Len(tree') = Len(tree)
    BY <1>1, <2>3, <2>5, InnerMoves, InodesStay DEF Shape
  <2>7. PICK in : in = Inner.dir
    OBVIOUS
  <2>8. /\ Room(in) /\ RoomFor(Inner, tree[in], Listing(Entries(source, InnerPath)))
    BY <1>1, <2>7, InnerRoom
  <2>9. Room(in)'
    BY <1>1, <2>8 DEF Room
  <2>10. RoomFor(d, tree'[in], Listing(Entries(source, InnerPath)))
    <3>1. now \ d.must = {}
      BY <2>5
    <3>2. Cardinality(now \ d.must) <= created
      BY <1>1, <3>1, FS_EmptySet
    <3>3. Len(tree'[in].children) <= Cardinality(d.seen)
      BY <1>1, <2>5, <2>8 DEF RoomFor
    <3> QED  BY <2>1, <2>5, <3>2, <3>3 DEF RoomFor
  <2> QED  BY <1>1, <2>5, <2>6, <2>7, <2>9, <2>10, InnerCounted
<1> QED  BY <1>2, <1>3

LEMMA CountCounted == ASSUME Shape, Counted, count_files_in_the_directory PROVE Counted'
<1>1. /\ at = "collecting" /\ at' = at /\ UNCHANGED <<source, histories>> /\ Inner.pass = "count"
      /\ created' = created
  BY CountFacts DEF histories
<1>2. PICK counted \in SUBSET Inner.may, d \in OpenDirectory :
              /\ Inner.must \subseteq counted
              /\ Cardinality(counted) + 2 \in Nat
              /\ tree' = [tree EXCEPT ![Inner.dir].slots = Cardinality(counted) + 2]
              /\ InnerAt(d) /\ d.dir = Inner.dir /\ d.seen = Inner.seen /\ d.pass = "read"
              /\ d.must = Listing(Entries(source, InnerPath))
              /\ d.may = Listing(Entries(source, InnerPath))
  BY CountFacts
<1>3. PICK in : in = Inner.dir
  OBVIOUS
<1>4. /\ KeptNodes /\ Len(tree') = Len(tree) /\ in \in 1..Len(tree)
      /\ \A k \in 1..Len(tree) :
              /\ tree'[k].children = tree[k].children
              /\ tree'[k].slots = IF k = in THEN Cardinality(counted) + 2 ELSE tree[k].slots
  <2>1. PICK slots \in Nat : slots = Cardinality(counted) + 2
    BY <1>2
  <2>2. tree' = [tree EXCEPT ![Inner.dir].slots = slots]
    BY <1>2, <2>1
  <2>3. /\ KeptNodes /\ Len(tree') = Len(tree)
        /\ \A k \in 1..Len(tree) :
              /\ tree'[k].children = tree[k].children
              /\ tree'[k].slots = IF k = Inner.dir THEN slots ELSE tree[k].slots
    BY <1>1, <2>2, CountedNodes
  <2>4. in \in 1..Len(tree)
    BY <1>1, <1>3, InnerFacts
  <2> QED  BY <1>3, <2>1, <2>3, <2>4
<1>5. /\ RoomFor(Inner, tree[in], Listing(Entries(source, InnerPath))) /\ created \in Nat
      /\ Len(tree[in].children) \in Nat
  BY <1>1, <1>3, InnerRoom
<1>6. Inner.seen = {} /\ IsFiniteSet(Inner.may)
  BY <1>1, InnerFacts
<1>7. Len(tree'[in].children) = 0
  <2>1. Len(tree[in].children) <= 0
    BY <1>5, <1>6, FS_EmptySet DEF RoomFor
  <2> QED  BY <1>4, <1>5, <2>1
<1>8. Room(in)'
  BY <1>7 DEF Room
<1>9. PICK now : now = Listing(Entries(source, InnerPath))
  OBVIOUS
<1>10. Cardinality(now) <= Cardinality(counted) + created
  <2>1. IsFiniteSet(now) /\ IsFiniteSet(counted) /\ Inner.must \in SUBSET counted
    BY <1>2, <1>6, <1>9, ListingFacts, FS_Subset
  <2>2. PICK new : new = now \ Inner.must
    OBVIOUS
  <2>3. Cardinality(new) <= created
    BY <1>1, <1>5, <1>9, <2>2 DEF RoomFor
  <2>4. /\ IsFiniteSet(new) /\ now \in SUBSET (counted \cup new)
        /\ counted \cap new \in SUBSET new
    <3>1. new \in SUBSET now
      BY <2>2
    <3> QED  BY <2>1, <2>2, <3>1, FS_Subset
  <2>5. /\ IsFiniteSet(counted \cup new)
        /\ Cardinality(counted \cup new) =
             Cardinality(counted) + Cardinality(new) - Cardinality(counted \cap new)
    BY <2>1, <2>4, FS_Union
  <2>6. /\ {Cardinality(counted), Cardinality(new), Cardinality(counted \cap new),
           Cardinality(counted \cup new), Cardinality(now)} \subseteq Nat
        /\ Cardinality(now) <= Cardinality(counted \cup new)
    BY <2>1, <2>4, <2>5, EntriesCounted
  <2> QED  BY <1>5, <2>3, <2>5, <2>6
<1>11. RoomFor(d, tree'[in], Listing(Entries(source, InnerPath)))
  <2>1. tree'[in].slots = Cardinality(counted) + 2
    BY <1>4
  <2>2. Cardinality(counted) \in Nat /\ Cardinality(now) \in Nat
    <3>1. IsFiniteSet(now) /\ IsFiniteSet(counted)
      BY <1>2, <1>6, <1>9, ListingFacts, FS_Subset
    <3> QED  BY <3>1, EntriesCounted
  <2>3. Cardinality(now) + 2 <= tree'[in].slots + created
    BY <1>5, <1>10, <2>1, <2>2
  <2>4. Len(tree'[in].children) <= Cardinality(d.seen)
    BY <1>2, <1>6, <1>7, FS_EmptySet
  <2> QED  BY <1>2, <1>9, <2>3, <2>4 DEF RoomFor
<1> QED  BY <1>1, <1>2, <1>3, <1>4, <1>8, <1>11, InnerCounted

LEMMA SkippedCounted ==
  ASSUME Shape, Counted, at = "collecting", UNCHANGED <<source, histories>>,
         NEW e \in Inner.may, NEW d, d = [Inner EXCEPT !.seen = @ \cup {e}],
         NEW p, ChildIsSkipped(p, d), Inner.pass = "read"
  PROVE  Counted'
<1>1. InnerAt(d) /\ UNCHANGED <<at, tree>>
  BY SkippedShape
<1>2. /\ d \in OpenDirectory /\ d.dir = Inner.dir /\ d.pass = "read"
      /\ d.must = Inner.must /\ d.may = Inner.may /\ d.seen = Inner.seen \cup {e}
  BY SeenRecord
<1>3. KeptNodes /\ Len(tree') = Len(tree)
  BY <1>1, InodesStay DEF Shape
<1>4. PICK in : in = Inner.dir
  OBVIOUS
<1>5. /\ Room(in) /\ RoomFor(Inner, tree[in], Listing(Entries(source, InnerPath)))
      /\ Len(tree[in].children) \in Nat
  BY <1>4, InnerRoom
<1>6. created' = created
  BY DEF histories
<1>7. Room(in)'
  BY <1>1, <1>5, <1>6 DEF Room
<1>8. RoomFor(d, tree'[in], Listing(Entries(source, InnerPath)))
  <2>1. IsFiniteSet(Inner.may) /\ Inner.seen \subseteq Inner.may
    BY InnerFacts
  <2>2. IsFiniteSet(d.seen) /\ Inner.seen \in SUBSET d.seen
    <3>1. d.seen \in SUBSET Inner.may
      BY <1>2, <2>1
    <3> QED  BY <1>2, <2>1, <3>1, FS_Subset
  <2>3. /\ Cardinality(Inner.seen) <= Cardinality(d.seen)
        /\ Cardinality(Inner.seen) \in Nat /\ Cardinality(d.seen) \in Nat
    BY <2>2, EntriesCounted
  <2>4. Len(tree[in].children) <= Cardinality(d.seen)
    BY <1>5, <2>3 DEF RoomFor
  <2>5. Cardinality(d.may) + 2 <= tree[in].slots + created
    BY <1>2, <1>5 DEF RoomFor
  <2> QED  BY <1>1, <1>2, <2>4, <2>5 DEF RoomFor
<1> QED  BY <1>1, <1>2, <1>3, <1>4, <1>7, <1>8, InnerCounted

LEMMA AddedCounted ==
  ASSUME Shape, Counted, at = "collecting", UNCHANGED <<source, histories>>,
         NEW e \in Inner.may \ Inner.seen, NEW d, d = [Inner EXCEPT !.seen = @ \cup {e}],
         NEW p, p = Append(InnerPath, e.name), ChildIsAdded(p, d), Inner.pass = "read"
  PROVE  Counted'
<1> PICK n : n = e.name
  OBVIOUS
<1>1. /\ Len(tree) \in Nat /\ Len(dirs) \in Nat \ {0} /\ Inner = dirs[Len(dirs)]
      /\ Inner.dir \in 1..Len(tree) /\ n \in Names
      /\ InnerPath = tree[Inner.dir].mtime
      /\ Inner.seen \subseteq Inner.may /\ IsFiniteSet(Inner.may)
      /\ created' = created
  BY InnerFacts, Lists DEF Shape, histories, ListedEntry
<1>2. /\ KeptNodes /\ Len(tree') = Len(tree) + 1
      /\ Len(tree'[Len(tree) + 1].children) = 0
      /\ \A k \in 1..Len(tree) :
           /\ tree'[k].slots = tree[k].slots
           /\ Len(tree'[k].children) =
                Len(tree[k].children) + (IF k = Inner.dir THEN 1 ELSE 0)
  <2>1. Grafted(n, p)
    BY <1>1, AddedChild
  <2> QED  BY <2>1 DEF Grafted
<1>3. /\ Len(dirs') = Len(dirs) + (IF source[p].type = "dir" THEN 1 ELSE 0)
      /\ dirs'[Len(dirs)] = d
      /\ \A i \in 1..(Len(dirs) - 1) : dirs'[i] = dirs[i]
      /\ source[p].type = "dir" => dirs'[Len(dirs) + 1] = OpenDir(Len(tree) + 1)
  BY <1>1, AddedStack
<1>4. /\ d.dir = Inner.dir /\ d.pass = "read" /\ d.may = Inner.may
      /\ d.seen = Inner.seen \cup {e}
  BY SeenRecord
<1>5. PICK in : in = Inner.dir
  OBVIOUS
<1>6. /\ RoomFor(Inner, tree[in], Listing(Entries(source, InnerPath)))
      /\ Len(tree[in].children) \in Nat /\ tree[in].slots \in Nat /\ created \in Nat
  BY <1>5, InnerRoom
<1>7. /\ Len(tree'[in].children) <= Cardinality(d.seen)
      /\ Cardinality(d.seen) <= Cardinality(d.may)
      /\ Cardinality(d.may) + 2 <= tree'[in].slots + created
      /\ Cardinality(d.seen) \in Nat /\ Cardinality(d.may) \in Nat
      /\ tree'[in].slots \in Nat /\ Len(tree'[in].children) \in Nat
  <2>1. Len(tree[in].children) <= Cardinality(Inner.seen)
    BY <1>6 DEF RoomFor
  <2>2. Cardinality(d.seen) = Cardinality(Inner.seen) + 1 /\ Cardinality(Inner.seen) \in Nat
    <3>1. IsFiniteSet(Inner.seen) /\ e \notin Inner.seen
      BY <1>1, FS_Subset
    <3> QED  BY <1>4, <3>1, EntriesCounted
  <2>3. Cardinality(d.seen) <= Cardinality(d.may) /\ Cardinality(d.may) \in Nat
    <3>1. IsFiniteSet(d.may) /\ d.seen \in SUBSET d.may
      BY <1>1, <1>4
    <3> QED  BY <3>1, EntriesCounted
  <2>4. Cardinality(d.may) + 2 <= tree[in].slots + created
    BY <1>4, <1>6 DEF RoomFor
  <2>5. tree'[in].slots = tree[in].slots /\ Len(tree'[in].children) = Len(tree[in].children) + 1
    BY <1>1, <1>2, <1>5
  <2> QED  BY <1>6, <2>1, <2>2, <2>3, <2>4, <2>5
<1>8. ASSUME NEW k \in 1..Len(tree') PROVE Room(k)'
  <2>0. k \in 1..Len(tree) \/ k = Len(tree) + 1
    BY <1>1, <1>2
  <2>1. CASE k = Len(tree) + 1
    BY <1>2, <2>1 DEF Room
  <2>2. CASE k = in
    <3>1. created' = created /\ created \in Nat
      BY <1>1, <1>6
    <3>2. Len(tree'[in].children) + 2 <= tree'[in].slots + created
      BY <1>7, <3>1
    <3> QED  BY <2>2, <3>1, <3>2 DEF Room
  <2>3. CASE k # in /\ k \in 1..Len(tree)
    <3>1. tree'[k].slots = tree[k].slots /\ Len(tree'[k].children) = Len(tree[k].children) + 0
      BY <1>2, <1>5, <2>3
    <3>2. Room(k) /\ Len(tree[k].children) \in Nat
      BY <2>3, NodeNumbers DEF Counted, Shape
    <3> QED  BY <1>1, <3>1, <3>2 DEF Room
  <2> QED  BY <2>0, <2>1, <2>2, <2>3
<1>9. ASSUME NEW i \in 1..Len(dirs')
      PROVE  RoomFor(dirs[i], tree[dirs[i].dir], Listing(Entries(source, tree[dirs[i].dir].mtime)))'
  <2>0. i \in 1..(Len(dirs) - 1) \/ i = Len(dirs) \/ (i = Len(dirs) + 1 /\ source[p].type = "dir")
    BY <1>1, <1>3
  <2>1. CASE i = Len(dirs)
    <3>1. dirs'[i] = d /\ d.dir = in
      BY <1>3, <1>4, <1>5, <2>1
    <3> QED  BY <1>1, <1>4, <1>7, <3>1 DEF RoomFor
  <2>2. CASE i = Len(dirs) + 1 /\ source[p].type = "dir"
    <3>1. PICK o : o = OpenDir(Len(tree) + 1)
      OBVIOUS
    <3>2. o.dir = Len(tree) + 1 /\ o.pass = "open" /\ o.seen = {}
      BY <3>1 DEF OpenDir
    <3>3. dirs'[i] = o
      BY <1>3, <2>2, <3>1
    <3>4. Len(tree'[o.dir].children) <= Cardinality(o.seen)
      BY <1>2, <3>2, FS_EmptySet
    <3> QED  BY <3>2, <3>3, <3>4 DEF RoomFor
  <2>3. CASE i \in 1..(Len(dirs) - 1)
    <3>1. dirs'[i] = dirs[i] /\ i \in 1..Len(dirs) /\ i # Len(dirs)
      BY <1>1, <1>3, <2>3
    <3>2. PICK c, k : c = dirs[i] /\ k = dirs[i].dir
      OBVIOUS
    <3>3. k \in 1..Len(tree) /\ k # in
      BY <1>1, <1>5, <3>1, <3>2 DEF Shape, Passes
    <3>4. c.pass = "read"
      BY <3>1, <3>2 DEF Shape, Passes
    <3>5. RoomFor(c, tree[k], Listing(Entries(source, tree[k].mtime)))
      BY <3>1, <3>2 DEF Counted
    <3>6. tree'[k].slots = tree[k].slots /\ Len(tree'[k].children) = Len(tree[k].children)
      <4>1. Len(tree[k].children) \in Nat
        BY <3>3, NodeNumbers DEF Shape
      <4>2. k # Inner.dir
        BY <1>5, <3>3
      <4>3. Len(tree'[k].children) = Len(tree[k].children) + 0 /\ tree'[k].slots = tree[k].slots
        BY <1>2, <3>3, <4>2
      <4> QED  BY <4>1, <4>3
    <3>7. dirs'[i] = c /\ c.dir = k
      BY <3>1, <3>2
    <3> QED  BY <1>1, <3>4, <3>5, <3>6, <3>7 DEF RoomFor
  <2> QED  BY <2>0, <2>1, <2>2, <2>3
<1> QED  BY <1>8, <1>9 DEF Counted

LEMMA ChildCounted ==
  ASSUME Shape, Counted, NEW e, process_dir_child(e) PROVE Counted'
<1>1. /\ at = "collecting" /\ UNCHANGED <<source, histories>> /\ Inner.pass = "read"
      /\ e \in Inner.may \ Inner.seen
  BY ChildFacts
<1>2. PICK p, d : /\ p = Append(InnerPath, e.name) /\ d = [Inner EXCEPT !.seen = @ \cup {e}]
                  /\ ChildIsGone(p) \/ ChildIsSkipped(p, d) \/ ChildIsAdded(p, d)
  BY ChildFacts
<1>3. CASE ChildIsGone(p)
  <2>1. UNCHANGED <<tree, dirs>> /\ created' = created /\ created \in Nat
    BY <1>1, <1>3 DEF ChildIsGone, histories, Shape, Typed
  <2> QED  BY <1>1, <2>1, SameCounted
<1>4. CASE ChildIsSkipped(p, d)
  BY <1>1, <1>2, <1>4, SkippedCounted
<1>5. CASE ChildIsAdded(p, d)
  BY <1>1, <1>2, <1>5, AddedCounted
<1> QED  BY <1>2, <1>3, <1>4, <1>5

LEMMA CloseCounted == ASSUME Shape, Counted, CloseDir PROVE Counted'
<1>1. \A i \in 1..Len(dirs') : dirs'[i] = dirs[i] /\ i \in 1..Len(dirs)
  BY LeftStack
<1>2. UNCHANGED <<source, tree, histories>> /\ created' = created
  BY DEF CloseDir, InPass, histories
<1>3. \A n \in 1..Len(tree') : Room(n)'
  BY <1>2 DEF Counted, Room
<1>4. ASSUME NEW i \in 1..Len(dirs')
      PROVE  RoomFor(dirs[i], tree[dirs[i].dir], Listing(Entries(source, tree[dirs[i].dir].mtime)))'
  <2>1. RoomFor(dirs[i], tree[dirs[i].dir], Listing(Entries(source, tree[dirs[i].dir].mtime)))
    BY <1>1 DEF Counted
  <2> QED  BY <1>1, <1>2, <2>1 DEF RoomFor
<1> QED  BY <1>3, <1>4 DEF Counted

\* What is listed of a directory after a change.
LEMMA AppearsEntries ==
  ASSUME Shape, NEW p \in Paths, NEW entry \in NewEntries, Appears(p, entry),
         NEW k \in 1..Len(tree)
  PROVE  Listing(Entries(source', tree[k].mtime)) =
           Listing(Entries(source, tree[k].mtime))
             \cup (IF tree[k].mtime = Front(p) THEN {First(Last(p))} ELSE {})
<1>1. DOMAIN source' = DOMAIN source \cup {p} /\ p # <<>>
  BY DEF Appears
<1>2. Last(p) \in Names
  BY <1>1, PathParts
<1>3. \A n \in Names : Append(tree[k].mtime, n) = p <=> tree[k].mtime = Front(p) /\ n = Last(p)
  BY <1>1, ListedAt DEF Shape
<1>4. Entries(source', tree[k].mtime) =
         Entries(source, tree[k].mtime) \cup (IF tree[k].mtime = Front(p) THEN {Last(p)} ELSE {})
  BY <1>1, <1>2, <1>3 DEF Entries
<1>5. ASSUME NEW S, NEW l PROVE Listing(S \cup {l}) = Listing(S) \cup {First(l)}
  <2>1. ASSUME NEW e \in Listing(S \cup {l}) PROVE e \in Listing(S) \cup {First(l)}
    BY <2>1 DEF Listing, First
  <2>2. ASSUME NEW e \in Listing(S) \cup {First(l)} PROVE e \in Listing(S \cup {l})
    BY <2>2 DEF Listing, First
  <2> QED  BY <2>1, <2>2
<1>6. CASE tree[k].mtime = Front(p)
  BY <1>4, <1>5, <1>6
<1>7. CASE tree[k].mtime # Front(p)
  <2>1. Entries(source', tree[k].mtime) = Entries(source, tree[k].mtime)
    BY <1>4, <1>7
  <2> QED  BY <1>7, <2>1
<1> QED  BY <1>6, <1>7

LEMMA VanishesEntries ==
  ASSUME Shape, NEW p \in Paths, Vanishes(p), NEW k \in 1..Len(tree)
  PROVE  Listing(Entries(source', tree[k].mtime)) =
           IF tree[k].mtime = Front(p) THEN Others(Listing(Entries(source, tree[k].mtime)), p)
           ELSE Listing(Entries(source, tree[k].mtime))
<1>1. DOMAIN source' = DOMAIN source \ {p} /\ p # <<>>
  BY DEF Vanishes, Restrict
<1>2. \A n \in Names : Append(tree[k].mtime, n) = p <=> tree[k].mtime = Front(p) /\ n = Last(p)
  BY <1>1, ListedAt DEF Shape
<1>3. Entries(source', tree[k].mtime) =
         Entries(source, tree[k].mtime) \ (IF tree[k].mtime = Front(p) THEN {Last(p)} ELSE {})
  BY <1>1, <1>2 DEF Entries
<1> QED  BY <1>3 DEF Listing, Others

LEMMA AppearsCounted ==
  ASSUME Shape, Counted, NEW p \in Paths, NEW entry \in NewEntries, Appears(p, entry)
  PROVE  Counted'
<1>1. tree' = tree /\ created' = created + 1 /\ created \in Nat
  BY ChangeFacts DEF Shape, Appears
<1>2. ASSUME NEW n \in 1..Len(tree') PROVE Room(n)'
  <2>1. Room(n) /\ Len(tree[n].children) \in Nat /\ tree[n].slots \in Nat
    BY <1>1, NodeNumbers DEF Counted, Shape
  <2> QED  BY <1>1, <2>1 DEF Room
<1>3. Len(dirs') = Len(dirs)
  BY AppearsStack
<1>4. ASSUME NEW i \in 1..Len(dirs')
      PROVE  RoomFor(dirs[i], tree[dirs[i].dir], Listing(Entries(source, tree[dirs[i].dir].mtime)))'
  <2>1. PICK d, e, k : d = dirs[i] /\ e = dirs'[i] /\ k = dirs[i].dir
    OBVIOUS
  <2>2. PICK x, y : x = First(Last(p)) /\ y = NewEntry(p)
    OBVIOUS
  <2>3. i \in 1..Len(dirs) /\ k \in 1..Len(tree)
    BY <1>3, <2>1 DEF Shape, Passes
  <2>4. /\ e.dir = k /\ e.pass = d.pass /\ e.seen = d.seen /\ e.must = d.must
        /\ e.may = IF tree[k].mtime = Front(p) THEN d.may \cup {y} ELSE d.may
    BY <2>1, <2>2, <2>3, AppearsStack DEF SameRecord
  <2>5. PICK old, new : /\ old = Listing(Entries(source, tree[k].mtime))
                        /\ new = Listing(Entries(source', tree[k].mtime))
    OBVIOUS
  <2>6. new = old \cup (IF tree[k].mtime = Front(p) THEN {x} ELSE {})
    BY <2>2, <2>3, <2>5, AppearsEntries
  <2>7. RoomFor(d, tree[k], old)
    BY <2>1, <2>3, <2>5 DEF Counted
  <2>8. IsFiniteSet(d.may) /\ Cardinality(d.may) \in Nat /\ tree[k].slots \in Nat
    BY <2>1, <2>3, OpenNumbers, NodeNumbers DEF Shape
  <2>9. Len(tree'[k].children) <= Cardinality(e.seen)
    BY <1>1, <2>4, <2>7 DEF RoomFor
  <2>10. ASSUME e.pass = "count" PROVE Cardinality(new \ e.must) <= created'
    <3>1. IsFiniteSet(old) /\ old \ d.must \in SUBSET old
      BY <2>5, ListingFacts
    <3>2. PICK o, w : o = old \ d.must /\ w = o \cup {x}
      OBVIOUS
    <3>3. new \ e.must \in SUBSET w
      BY <2>4, <2>6, <3>2
    <3>4. Cardinality(o) <= created
      BY <2>4, <2>7, <2>10, <3>2 DEF RoomFor
    <3>5. IsFiniteSet(o) /\ Cardinality(o) \in Nat
      BY <3>1, <3>2, FS_Subset, FS_CardinalityType
    <3>6. IsFiniteSet(w) /\ Cardinality(w) <= Cardinality(o) + 1 /\ Cardinality(w) \in Nat
      <4>1. /\ IsFiniteSet(o \cup {x})
            /\ Cardinality(o \cup {x}) = IF x \in o THEN Cardinality(o) ELSE Cardinality(o) + 1
        BY <3>5, FS_AddElement
      <4> QED  BY <3>2, <3>5, <4>1
    <3>7. Cardinality(new \ e.must) <= Cardinality(w) /\ Cardinality(new \ e.must) \in Nat
      BY <3>3, <3>6, FS_Subset, FS_CardinalityType
    <3> QED  BY <1>1, <3>4, <3>5, <3>6, <3>7
  <2>11. ASSUME e.pass = "read" PROVE Cardinality(e.may) + 2 <= tree'[k].slots + created'
    <3>1. Cardinality(d.may) + 2 <= tree[k].slots + created
      BY <2>4, <2>7, <2>11 DEF RoomFor
    <3>2. Cardinality(e.may) \in {Cardinality(d.may), Cardinality(d.may) + 1}
      BY <2>4, <2>8, EntriesCounted
    <3> QED  BY <1>1, <2>8, <3>1, <3>2
  <2>12. tree'[e.dir] = tree'[k] /\ tree'[k].mtime = tree[k].mtime
    BY <1>1, <2>4
  <2> QED  BY <2>1, <2>5, <2>9, <2>10, <2>11, <2>12 DEF RoomFor
<1> QED  BY <1>2, <1>4 DEF Counted

LEMMA VanishesCounted ==
  ASSUME Shape, Counted, NEW p \in Paths, Vanishes(p)
  PROVE  Counted'
<1>1. tree' = tree /\ created' = created /\ created \in Nat
  BY ChangeFacts DEF Shape, Vanishes
<1>2. \A n \in 1..Len(tree') : Room(n)'
  BY <1>1 DEF Counted, Room
<1>3. Len(dirs') = Len(dirs)
  BY VanishesStack
<1>4. ASSUME NEW i \in 1..Len(dirs')
      PROVE  RoomFor(dirs[i], tree[dirs[i].dir], Listing(Entries(source, tree[dirs[i].dir].mtime)))'
  <2>1. PICK d, e, k : d = dirs[i] /\ e = dirs'[i] /\ k = dirs[i].dir
    OBVIOUS
  <2>3. i \in 1..Len(dirs) /\ k \in 1..Len(tree)
    BY <1>3, <2>1 DEF Shape, Passes
  <2>4. /\ e.dir = k /\ e.pass = d.pass /\ e.seen = d.seen /\ e.may = d.may
        /\ e.must = IF tree[k].mtime = Front(p) THEN Others(d.must, p) ELSE d.must
    BY <2>1, <2>3, VanishesStack DEF SameRecord
  <2>5. PICK old, new : /\ old = Listing(Entries(source, tree[k].mtime))
                        /\ new = Listing(Entries(source', tree[k].mtime))
    OBVIOUS
  <2>6. new = IF tree[k].mtime = Front(p) THEN Others(old, p) ELSE old
    BY <2>3, <2>5, VanishesEntries
  <2>7. RoomFor(d, tree[k], old)
    BY <2>1, <2>3, <2>5 DEF Counted
  <2>8. ASSUME e.pass = "count" PROVE Cardinality(new \ e.must) <= created'
    <3>1. IsFiniteSet(old)
      BY <2>5, ListingFacts
    <3>2. PICK o, w : o = old \ d.must /\ w = new \ e.must
      OBVIOUS
    <3>3. w \in SUBSET o /\ o \in SUBSET old
      BY <2>4, <2>6, <3>2 DEF Others
    <3>4. Cardinality(o) <= created
      BY <2>4, <2>7, <2>8, <3>2 DEF RoomFor
    <3>5. Cardinality(w) <= Cardinality(o) /\ Cardinality(w) \in Nat /\ Cardinality(o) \in Nat
      BY <3>1, <3>3, FS_Subset, EntriesCounted
    <3> QED  BY <1>1, <3>2, <3>4, <3>5
  <2>9. /\ Len(tree'[k].children) <= Cardinality(e.seen)
        /\ e.pass = "read" => Cardinality(e.may) + 2 <= tree'[k].slots + created'
    BY <1>1, <2>4, <2>7 DEF RoomFor
  <2>10. tree'[e.dir] = tree'[k] /\ tree'[k].mtime = tree[k].mtime
    BY <1>1, <2>4
  <2> QED  BY <2>1, <2>5, <2>8, <2>9, <2>10 DEF RoomFor
<1> QED  BY <1>2, <1>4 DEF Counted

LEMMA CountedNext == Shape /\ Counted /\ [Next]_vars => Counted'
<1> SUFFICES ASSUME Shape, Counted, [Next]_vars PROVE Counted'
  OBVIOUS
<1>1. CASE fs_tree_collect
  BY <1>1, StartCounted
<1>2. CASE open_dir
  BY <1>2, OpenCounted
<1>3. CASE count_files_in_the_directory
  BY <1>3, CountCounted
<1>4. ASSUME NEW e \in ListedEntry, process_dir_child(e) PROVE Counted'
  BY <1>4, ChildCounted
<1>5. CASE CloseDir
  BY <1>5, CloseCounted
<1>6. ASSUME NEW p \in Paths, NEW entry \in NewEntries, Appears(p, entry) PROVE Counted'
  BY <1>6, AppearsCounted
<1>7. ASSUME NEW p \in Paths, Vanishes(p) PROVE Counted'
  BY <1>7, VanishesCounted
<1>8. ASSUME NEW p \in Paths, NEW size \in {0, 2}, Resizes(p, size) PROVE Counted'
  <2>1. UNCHANGED <<tree, dirs>> /\ DOMAIN source' = DOMAIN source /\ created' = created
    BY <1>8, ResizesFacts
  <2>2. created \in Nat
    BY DEF Shape, Typed
  <2> QED  BY <2>1, <2>2, SameCounted
<1>9. CASE Beside
  <2>1. UNCHANGED <<source, tree, dirs>> /\ created' = created /\ created \in Nat
    BY <1>9 DEF Beside, histories, Shape, Typed
  <2> QED  BY <2>1, SameCounted
<1> QED  BY Steps, <1>1, <1>2, <1>3, <1>4, <1>5, <1>6, <1>7, <1>8, <1>9

(***************************************************************************)
(* The array of children that count_files_in_the_directory sized is        *)
(* overrun only if more than two entries were made meanwhile, whatever     *)
(* else happens to the tree and however deep it is.                        *)
(***************************************************************************)
THEOREM OverrunNeedsThree == Spec => []OverrunTakesThree
<1>1. Init => Shape /\ Counted
  <2>1. Init => Counted
    <3>1. Init => Len(tree) = 0 /\ Len(dirs) = 0
      BY DEF Init, PackInit, FsInit
    <3> QED  BY <3>1 DEF Counted
  <2> QED  BY <2>1, ShapeInit
<1>2. (Shape /\ Counted) /\ [Next]_vars => (Shape /\ Counted)'
  BY ShapeNext, CountedNext
<1>3. Shape /\ Counted => OverrunTakesThree
  <2> SUFFICES ASSUME Shape, Counted, NEW n \in DOMAIN tree,
                      Len(tree[n].children) > tree[n].slots
               PROVE  created > 2
    BY DEF OverrunTakesThree
  <2>1. n \in 1..Len(tree)
    BY Lists DEF Shape
  <2>2. Room(n) /\ Len(tree[n].children) \in Nat /\ tree[n].slots \in Nat /\ created \in Nat
    BY <2>1, NodeNumbers DEF Counted, Shape, Typed
  <2> QED  BY <2>2 DEF Room
<1> QED  BY <1>1, <1>2, <1>3, PTL DEF Spec

-----------------------------------------------------------------------------
(***************************************************************************)
(* What nobody touched is collected.                                       *)
(***************************************************************************)

\* What was collected stays collected.
LEMMA StaysCollected ==
  ASSUME Typed, KeptNodes, NEW p, IsCollected(p)
  PROVE  IsCollected(p)'
<1>1. PICK k \in 1..Len(tree) : tree[k].mtime = p
  BY DEF IsCollected
<1>2. tree'[k].mtime = p
  BY <1>1 DEF KeptNodes
<1>3. k \in 1..Len(tree')
  <2>1. Len(tree') \in Nat /\ Len(tree) \in Nat /\ Len(tree') >= Len(tree)
    BY Lists, LenProperties DEF KeptNodes
  <2> QED  BY <2>1
<1> QED  BY <1>2, <1>3 DEF IsCollected

\* The list of a directory, and what is known of an inode, outlast a step that
\* leaves the disk alone.
LEMMA KeptListed ==
  ASSUME Typed, KeptNodes, UNCHANGED <<source, histories>>, NEW d, NEW q
  PROVE  /\ Listed(d, q) => Listed(d, q)'
         /\ Finished(q) => Finished(q)'
<1>1. \A p : IsCollected(p) => IsCollected(p)'
  BY StaysCollected
<1> QED  BY <1>1 DEF Listed, Finished, histories

LEMMA KeptKnown ==
  ASSUME Typed, KeptNodes, UNCHANGED <<source, histories>>, Known, NEW k \in 1..Len(tree)
  PROVE  tree'[k].mtime \notin touched' =>
           /\ tree'[k].mtime \in DOMAIN source'
           /\ source'[tree'[k].mtime].type = tree'[k].type
BY DEF Known, KeptNodes, histories

LEMMA SameComplete ==
  ASSUME Complete, UNCHANGED <<source, tree, dirs, histories>>
  PROVE  Complete'
BY DEF Complete, Rooted, Known, Listed, Finished, IsCollected, histories

\* A step in the innermost directory that adds no inode.
LEMMA InnerComplete ==
  ASSUME Shape, Complete, at = "collecting", UNCHANGED <<source, histories>>,
         NEW d, NEW q, InnerAt(d), d.dir = Inner.dir, q = InnerPath,
         KeptNodes, Len(tree') = Len(tree), Listed(d, q)'
  PROVE  Complete'
<1>1. /\ Len(dirs) \in Nat \ {0} /\ Inner = dirs[Len(dirs)] /\ Inner.dir \in 1..Len(tree)
      /\ InnerPath = tree[Inner.dir].mtime
  BY InnerFacts
<1>2. Rooted'
  BY DEF Complete, Rooted
<1>3. Known'
  <2>1. ASSUME NEW k \in 1..Len(tree')
        PROVE  tree'[k].mtime \notin touched' =>
                 /\ tree'[k].mtime \in DOMAIN source'
                 /\ source'[tree'[k].mtime].type = tree'[k].type
    BY KeptKnown DEF Complete, Shape
  <2> QED  BY <2>1 DEF Known
<1>4. \A i \in 1..Len(dirs') : i \in 1..Len(dirs) /\ dirs'[i].dir = dirs[i].dir
  BY <1>1 DEF InnerAt
<1>5. ASSUME NEW i \in 1..Len(dirs') PROVE Listed(dirs[i], tree[dirs[i].dir].mtime)'
  <2>1. PICK k : k = dirs[i].dir
    OBVIOUS
  <2>2. k \in 1..Len(tree) /\ dirs'[i].dir = k /\ tree'[k].mtime = tree[k].mtime
    BY <1>4, <2>1 DEF Shape, Passes, KeptNodes
  <2>3. CASE i = Len(dirs)
    <3>1. dirs'[i] = d /\ k = Inner.dir
      BY <1>1, <2>1, <2>3 DEF InnerAt
    <3>2. tree'[k].mtime = q
      BY <1>1, <2>2, <3>1
    <3> QED  BY <2>2, <3>1, <3>2
  <2>4. CASE i # Len(dirs)
    <3>1. dirs'[i] = dirs[i]
      BY <1>1, <1>4, <2>4 DEF InnerAt
    <3>2. PICK c, r : c = dirs[i] /\ r = tree[k].mtime
      OBVIOUS
    <3>3. Listed(c, r)
      BY <1>4, <2>1, <3>2 DEF Complete
    <3>4. Listed(c, r)'
      BY <3>3, KeptListed DEF Shape
    <3> QED  BY <2>2, <3>1, <3>2, <3>4
  <2> QED  BY <2>3, <2>4
<1>6. ASSUME NEW k \in 1..Len(tree'), tree'[k].type = "dir",
             \A i \in 1..Len(dirs') : dirs'[i].dir # k
      PROVE  Finished(tree[k].mtime)'
  <2>1. k \in 1..Len(tree) /\ tree[k].type = "dir" /\ tree'[k].mtime = tree[k].mtime
    BY <1>6 DEF KeptNodes
  <2>2. \A i \in 1..Len(dirs) : dirs[i].dir # k
    BY <1>4, <1>6 DEF InnerAt
  <2>3. PICK r : r = tree[k].mtime
    OBVIOUS
  <2>4. Finished(r)
    BY <2>1, <2>2, <2>3 DEF Complete
  <2>5. Finished(r)'
    BY <2>4, KeptListed DEF Shape
  <2> QED  BY <2>1, <2>3, <2>5
<1> QED  BY <1>2, <1>3, <1>5, <1>6 DEF Complete

LEMMA StartComplete == ASSUME Shape, Complete, fs_tree_collect PROVE Complete'
<1>1. /\ tree = <<>> /\ dirs = <<>> /\ UNCHANGED <<source, histories>>
  BY DEF fs_tree_collect, Shape, Phases
<1>2. CASE CollectNothing \/ CollectOther
  <2>1. UNCHANGED <<source, tree, dirs, histories>>
    BY <1>1, <1>2 DEF CollectNothing, CollectOther
  <2> QED  BY <2>1, SameComplete
<1>3. CASE CollectHead
  <2>1. PICK head : head = Inode(source, <<>>, HeadName, 1)
    OBVIOUS
  <2>2. head.mtime = <<>> /\ head.type = source[<<>>].type /\ <<>> \in DOMAIN source
    BY <1>3, <2>1 DEF Inode, CollectHead
  <2>3. tree' = <<head>> /\ Len(tree') = 1 /\ tree'[1] = head
    BY <1>3, <2>1 DEF CollectHead
  <2>4. \/ dirs' = <<>> /\ head.type # "dir"
        \/ dirs' = <<OpenDir(1)>>
    BY <1>1, <1>3, <2>2 DEF CollectHead
  <2>5. Rooted'
    BY <1>1 DEF Complete, Rooted
  <2>6. Known'
    BY <1>1, <2>2, <2>3 DEF Known
  <2>7. CASE dirs' = <<>> /\ head.type # "dir"
    BY <2>3, <2>5, <2>6, <2>7 DEF Complete
  <2>8. CASE dirs' = <<OpenDir(1)>>
    <3>1. PICK o : o = OpenDir(1)
      OBVIOUS
    <3>2. o.dir = 1 /\ o.pass = "open"
      BY <3>1 DEF OpenDir
    <3>3. Len(dirs') = 1 /\ dirs'[1] = o
      BY <2>8, <3>1
    <3>4. \A i \in 1..Len(dirs') : Listed(dirs[i], tree[dirs[i].dir].mtime)'
      BY <3>2, <3>3 DEF Listed
    <3>5. \A k \in 1..Len(tree') : ~(\A i \in 1..Len(dirs') : dirs'[i].dir # k)
      BY <2>3, <3>2, <3>3
    <3> QED  BY <2>5, <2>6, <3>4, <3>5 DEF Complete
  <2> QED  BY <2>4, <2>7, <2>8
<1> QED  BY <1>2, <1>3 DEF fs_tree_collect

LEMMA OpenComplete == ASSUME Shape, Complete, open_dir PROVE Complete'
<1>1. at = "collecting" /\ UNCHANGED <<source, tree, histories>>
  BY DEF open_dir, InPass
<1>2. CASE ~IsDir(source, InnerPath)
  <2>1. UNCHANGED dirs
    BY <1>2 DEF open_dir
  <2> QED  BY <1>1, <2>1, SameComplete
<1>3. CASE IsDir(source, InnerPath)
  <2>1. PICK now : now = Listing(Entries(source, InnerPath))
    OBVIOUS
  <2>2. PICK d : d = [Inner EXCEPT !.pass = "count", !.must = now, !.may = now]
    OBVIOUS
  <2>3. InnerBecomes(d)
    BY <1>3, <2>1, <2>2 DEF open_dir
  <2>4. now \in SUBSET ListedEntry /\ IsFiniteSet(now)
    BY <2>1, ListingFacts
  <2>5. d \in OpenDirectory /\ d.dir = Inner.dir /\ d.pass = "count"
    <3>1. Inner \in OpenDirectory
      BY <1>1, InnerFacts
    <3> QED  BY <2>2, <2>4, <3>1 DEF OpenDirectory
  <2>6. InnerAt(d) /\ KeptNodes /\ Len(tree') = Len(tree)
    BY <1>1, <2>3, <2>5, InnerMoves, InodesStay DEF Shape
  <2>7. PICK q : q = InnerPath
    OBVIOUS
  <2>8. Listed(d, q)'
    BY <2>5 DEF Listed
  <2> QED  BY <1>1, <2>5, <2>6, <2>7, <2>8, InnerComplete
<1> QED  BY <1>2, <1>3

LEMMA CountComplete == ASSUME Shape, Complete, count_files_in_the_directory PROVE Complete'
<1>1. at = "collecting" /\ at' = at /\ UNCHANGED <<source, histories>> /\ Inner.pass = "count"
  BY CountFacts
<1>2. PICK counted \in SUBSET Inner.may, d \in OpenDirectory :
              /\ Cardinality(counted) + 2 \in Nat
              /\ tree' = [tree EXCEPT ![Inner.dir].slots = Cardinality(counted) + 2]
              /\ InnerAt(d) /\ d.dir = Inner.dir /\ d.seen = Inner.seen
              /\ d.must = Listing(Entries(source, InnerPath))
  BY CountFacts
<1>3. KeptNodes /\ Len(tree') = Len(tree)
  <2>1. PICK slots \in Nat : slots = Cardinality(counted) + 2
    BY <1>2
  <2>2. tree' = [tree EXCEPT ![Inner.dir].slots = slots]
    BY <1>2, <2>1
  <2> QED  BY <1>1, <2>2, CountedNodes
<1>4. PICK q : q = InnerPath
  OBVIOUS
<1>5. d.seen = {}
  BY <1>1, <1>2, InnerFacts
<1>6. \A n \in Names : Append(q, n) \in DOMAIN source => First(n) \in d.must
  BY <1>2, <1>4 DEF Entries, Listing, First
<1>7. Listed(d, q)'
  BY <1>1, <1>5, <1>6 DEF Listed
<1> QED  BY <1>1, <1>2, <1>3, <1>4, <1>7, InnerComplete

LEMMA SkippedComplete ==
  ASSUME Shape, Complete, at = "collecting", UNCHANGED <<source, histories>>,
         NEW e \in Inner.may, NEW d, d = [Inner EXCEPT !.seen = @ \cup {e}],
         NEW p, p = Append(InnerPath, e.name), ChildIsSkipped(p, d), Inner.pass = "read"
  PROVE  Complete'
<1>1. InnerAt(d) /\ UNCHANGED <<at, tree>>
  BY SkippedShape
<1>2. /\ d \in OpenDirectory /\ d.dir = Inner.dir /\ d.pass = "read"
      /\ d.must = Inner.must /\ d.seen = Inner.seen \cup {e}
  BY SeenRecord
<1>3. KeptNodes /\ Len(tree') = Len(tree)
  BY <1>1, InodesStay DEF Shape
<1>4. PICK q : q = InnerPath
  OBVIOUS
<1>5. Listed(Inner, q)
  <2>1. /\ Len(dirs) \in 1..Len(dirs) /\ Inner = dirs[Len(dirs)] /\ q = tree[Inner.dir].mtime
    <3>1. Len(dirs) \in Nat \ {0}
      BY InnerFacts
    <3> QED  BY <1>4, <3>1, InnerFacts
  <2> QED  BY <2>1 DEF Complete
<1>6. source[p].type = "other" /\ p = Append(q, e.name)
  BY <1>4 DEF ChildIsSkipped
<1>7. Listed(d, q)
  <2>1. ASSUME NEW m \in Names, Append(q, m) \in DOMAIN source \ touched
        PROVE  /\ First(m) \in d.must
               /\ First(m) \in d.seen => source[Append(q, m)].type = "other"
                                           \/ IsCollected(Append(q, m))
    <3>1. /\ First(m) \in Inner.must
          /\ First(m) \in Inner.seen => source[Append(q, m)].type = "other"
                                          \/ IsCollected(Append(q, m))
      BY <1>5, <2>1 DEF Listed
    <3>2. First(m) = e => e.name = m
      BY DEF First
    <3> QED  BY <1>2, <1>6, <3>1, <3>2
  <2> QED  BY <2>1 DEF Listed
<1>8. Listed(d, q)'
  BY <1>3, <1>7, KeptListed DEF Shape
<1> QED  BY <1>1, <1>2, <1>3, <1>4, <1>8, InnerComplete

LEMMA AddedComplete ==
  ASSUME Shape, Complete, at = "collecting", UNCHANGED <<source, histories>>,
         NEW e \in Inner.may, NEW d, d = [Inner EXCEPT !.seen = @ \cup {e}],
         NEW p, p = Append(InnerPath, e.name), ChildIsAdded(p, d), Inner.pass = "read"
  PROVE  Complete'
<1> PICK n : n = e.name
  OBVIOUS
<1>1. /\ Len(tree) \in Nat /\ Len(dirs) \in Nat \ {0} /\ Inner = dirs[Len(dirs)]
      /\ Inner.dir \in 1..Len(tree) /\ n \in Names
      /\ InnerPath = tree[Inner.dir].mtime
  BY InnerFacts, Lists DEF Shape, ListedEntry
<1>2. /\ KeptNodes /\ Len(tree') = Len(tree) + 1
      /\ tree'[Len(tree) + 1].mtime = p /\ tree'[Len(tree) + 1].type = source[p].type
  <2>1. Grafted(n, p)
    BY <1>1, AddedChild
  <2> QED  BY <2>1 DEF Grafted
<1>3. /\ Len(dirs') = Len(dirs) + (IF source[p].type = "dir" THEN 1 ELSE 0)
      /\ dirs'[Len(dirs)] = d
      /\ \A i \in 1..(Len(dirs) - 1) : dirs'[i] = dirs[i]
      /\ source[p].type = "dir" => dirs'[Len(dirs) + 1] = OpenDir(Len(tree) + 1)
  BY <1>1, AddedStack
<1>4. /\ d.dir = Inner.dir /\ d.pass = "read"
      /\ d.must = Inner.must /\ d.seen = Inner.seen \cup {e}
  BY SeenRecord
<1>5. p \in DOMAIN source
  BY DEF ChildIsAdded
<1>6. Rooted'
  BY DEF Complete, Rooted
<1>7. Known'
  <2>1. ASSUME NEW k \in 1..Len(tree')
        PROVE  tree'[k].mtime \notin touched' =>
                 /\ tree'[k].mtime \in DOMAIN source'
                 /\ source'[tree'[k].mtime].type = tree'[k].type
    <3>1. CASE k \in 1..Len(tree)
      BY <1>2, <3>1, KeptKnown DEF Complete, Shape
    <3>2. CASE k = Len(tree) + 1
      BY <1>2, <1>5, <3>2
    <3>3. Len(tree') = Len(tree) + 1 /\ Len(tree) \in Nat
      BY <1>1, <1>2
    <3> QED  BY <3>1, <3>2, <3>3
  <2> QED  BY <2>1 DEF Known
<1>8. \A i \in 1..Len(dirs) : dirs'[i].dir = dirs[i].dir /\ dirs[i].dir \in 1..Len(tree)
  <2>1. \A i \in 1..Len(dirs) : dirs[i].dir \in 1..Len(tree)
    BY DEF Shape, Passes
  <2>2. ASSUME NEW i \in 1..Len(dirs) PROVE dirs'[i].dir = dirs[i].dir
    <3>1. CASE i = Len(dirs)
      <4>1. dirs'[i] = d /\ dirs[i] = Inner
        BY <1>1, <1>3, <3>1
      <4> QED  BY <1>4, <4>1
    <3>2. CASE i # Len(dirs)
      <4>1. i \in 1..(Len(dirs) - 1)
        BY <1>1, <3>2
      <4>2. dirs'[i] = dirs[i]
        BY <1>3, <4>1
      <4> QED  BY <4>2
    <3> QED  BY <3>1, <3>2
  <2> QED  BY <2>1, <2>2
<1>9. ASSUME NEW i \in 1..Len(dirs') PROVE Listed(dirs[i], tree[dirs[i].dir].mtime)'
  <2>1. CASE i = Len(dirs)
    <3>1. PICK q : q = InnerPath
      OBVIOUS
    <3>2. dirs'[i] = d /\ tree'[dirs'[i].dir].mtime = q
      <4>1. dirs'[i] = d
        BY <1>3, <2>1
      <4>2. PICK k \in 1..Len(tree) : k = Inner.dir
        BY <1>1
      <4>3. tree'[k].mtime = tree[k].mtime
        BY <1>2 DEF KeptNodes
      <4>4. tree[k].mtime = q
        BY <1>1, <3>1, <4>2
      <4> QED  BY <1>4, <4>1, <4>2, <4>3, <4>4
    <3>3. Listed(Inner, q)
      <4>1. Len(dirs) \in 1..Len(dirs)
        BY <1>1
      <4>2. Listed(dirs[Len(dirs)], tree[dirs[Len(dirs)].dir].mtime)
        BY <4>1 DEF Complete
      <4> QED  BY <1>1, <3>1, <4>2
    <3>4. IsCollected(p)'
      <4>1. Len(tree) + 1 \in 1..Len(tree')
        <5>1. Len(tree') = Len(tree) + 1 /\ Len(tree) \in Nat
          BY <1>1, <1>2
        <5> QED  BY <5>1
      <4> QED  BY <1>2, <4>1 DEF IsCollected
    <3>5. \A r : IsCollected(r) => IsCollected(r)'
      BY <1>2, StaysCollected DEF Shape
    <3>6. ASSUME NEW m \in Names, Append(q, m) \in DOMAIN source' \ touched'
          PROVE  /\ First(m) \in d.must
                 /\ First(m) \in d.seen => source'[Append(q, m)].type = "other"
                                             \/ IsCollected(Append(q, m))'
      <4>1. PICK r : r = Append(q, m)
        OBVIOUS
      <4>2. /\ First(m) \in Inner.must
            /\ First(m) \in Inner.seen => source[r].type = "other" \/ IsCollected(r)
        BY <1>4, <3>3, <3>6, <4>1 DEF Listed, histories
      <4>3. CASE m = n
        BY <1>4, <3>1, <3>4, <4>1, <4>2, <4>3
      <4>4. CASE m # n
        <5>1. First(m) # e
          BY <4>4 DEF First
        <5> QED  BY <1>4, <3>5, <4>1, <4>2, <5>1
      <4> QED  BY <4>3, <4>4
    <3>7. Listed(d, q)'
      BY <3>6 DEF Listed
    <3> QED  BY <3>2, <3>7
  <2>2. CASE i \in 1..(Len(dirs) - 1)
    <3>1. PICK c, r : c = dirs[i] /\ r = tree[dirs[i].dir].mtime
      OBVIOUS
    <3>2. i \in 1..Len(dirs)
      BY <1>1, <2>2
    <3>3. Listed(c, r)'
      <4>1. Listed(c, r)
        BY <3>1, <3>2 DEF Complete
      <4> QED  BY <1>2, <4>1, KeptListed DEF Shape
    <3>4. dirs'[i] = c
      BY <1>3, <2>2, <3>1
    <3>5. tree'[dirs'[i].dir].mtime = r
      BY <1>2, <1>8, <3>1, <3>2 DEF KeptNodes
    <3> QED  BY <3>3, <3>4, <3>5
  <2>3. CASE i = Len(dirs) + 1 /\ source[p].type = "dir"
    <3>1. dirs'[i].pass = "open"
      BY <1>3, <2>3 DEF OpenDir
    <3> QED  BY <3>1 DEF Listed
  <2> QED  BY <1>1, <1>3, <2>1, <2>2, <2>3
<1>10. ASSUME NEW k \in 1..Len(tree'), tree'[k].type = "dir",
              \A i \in 1..Len(dirs') : dirs'[i].dir # k
       PROVE  Finished(tree[k].mtime)'
  <2>1. k \in 1..Len(tree)
    <3>1. CASE k = Len(tree) + 1
      <4>1. source[p].type = "dir"
        BY <1>2, <1>10, <3>1
      <4>2. Len(dirs) + 1 \in 1..Len(dirs') /\ dirs'[Len(dirs) + 1].dir = k
        BY <1>1, <1>3, <3>1, <4>1 DEF OpenDir
      <4> QED  BY <1>10, <4>2
    <3>2. Len(tree') = Len(tree) + 1 /\ Len(tree) \in Nat
      BY <1>1, <1>2
    <3> QED  BY <3>1, <3>2
  <2>2. tree[k].type = "dir" /\ tree'[k].mtime = tree[k].mtime
    BY <1>2, <1>10, <2>1 DEF KeptNodes
  <2>3. \A i \in 1..Len(dirs) : dirs[i].dir # k
    <3>1. \A i \in 1..Len(dirs) : i \in 1..Len(dirs')
      BY <1>1, <1>3
    <3> QED  BY <1>8, <1>10, <3>1
  <2>4. PICK r : r = tree[k].mtime
    OBVIOUS
  <2>5. Finished(r)
    BY <2>1, <2>2, <2>3, <2>4 DEF Complete
  <2>6. Finished(r)'
    BY <1>2, <2>5, KeptListed DEF Shape
  <2> QED  BY <2>2, <2>4, <2>6
<1> QED  BY <1>6, <1>7, <1>9, <1>10 DEF Complete

LEMMA ChildComplete ==
  ASSUME Shape, Complete, NEW e, process_dir_child(e)
  PROVE  Complete'
<1>1. /\ at = "collecting" /\ UNCHANGED <<source, histories>> /\ Inner.pass = "read"
      /\ e \in Inner.may \ Inner.seen
  BY ChildFacts
<1>2. PICK p, d : /\ p = Append(InnerPath, e.name) /\ d = [Inner EXCEPT !.seen = @ \cup {e}]
                  /\ ChildIsGone(p) \/ ChildIsSkipped(p, d) \/ ChildIsAdded(p, d)
  BY ChildFacts
<1>3. CASE ChildIsGone(p)
  BY <1>1, <1>3, SameComplete DEF ChildIsGone
<1>4. CASE ChildIsSkipped(p, d)
  BY <1>1, <1>2, <1>4, SkippedComplete
<1>5. CASE ChildIsAdded(p, d)
  BY <1>1, <1>2, <1>5, AddedComplete
<1> QED  BY <1>2, <1>3, <1>4, <1>5

\* A directory is left when everything that readdir was sure to return was
\* read.
LEMMA CloseComplete == ASSUME Shape, Complete, CloseDir PROVE Complete'
<1>1. /\ UNCHANGED <<source, tree, histories>> /\ at = "collecting" /\ Inner.pass = "read"
      /\ Inner.must \subseteq Inner.seen
  BY DEF CloseDir, InPass
<1>2. /\ Len(dirs) \in Nat \ {0} /\ Len(dirs') = Len(dirs) - 1
      /\ \A i \in 1..Len(dirs') : dirs'[i] = dirs[i] /\ i \in 1..Len(dirs)
  BY LeftStack
<1>3. Inner = dirs[Len(dirs)] /\ InnerPath = tree[Inner.dir].mtime
  BY <1>1, InnerFacts
<1>4. \A d, q : /\ Listed(d, q) => Listed(d, q)'
                /\ Finished(q) => Finished(q)'
  BY <1>1, KeptListed, InodesStay DEF Shape
<1>5. Rooted' /\ Known'
  BY <1>1 DEF Complete, Rooted, Known, histories
<1>6. ASSUME NEW i \in 1..Len(dirs') PROVE Listed(dirs[i], tree[dirs[i].dir].mtime)'
  <2>1. PICK c, q : c = dirs[i] /\ q = tree[dirs[i].dir].mtime
    OBVIOUS
  <2>2. Listed(c, q)'
    BY <1>2, <1>4, <2>1 DEF Complete
  <2> QED  BY <1>1, <1>2, <2>1, <2>2
<1>7. ASSUME NEW k \in 1..Len(tree'), tree'[k].type = "dir",
             \A i \in 1..Len(dirs') : dirs'[i].dir # k
      PROVE  Finished(tree[k].mtime)'
  <2>1. PICK q : q = tree[k].mtime
    OBVIOUS
  <2>2. Finished(q)
    <3>1. CASE k = Inner.dir
      <4>1. Listed(Inner, q)
        BY <1>2, <1>3, <2>1, <3>1 DEF Complete
      <4> QED  BY <1>1, <4>1 DEF Listed, Finished
    <3>2. CASE k # Inner.dir
      <4>1. \A i \in 1..Len(dirs) : i = Len(dirs) \/ i \in 1..Len(dirs')
        BY <1>2
      <4>2. \A i \in 1..Len(dirs) : dirs[i].dir # k
        BY <1>2, <1>3, <1>7, <3>2, <4>1
      <4> QED  BY <1>1, <1>7, <2>1, <4>2 DEF Complete
    <3> QED  BY <3>1, <3>2
  <2> QED  BY <1>1, <1>4, <2>1, <2>2
<1> QED  BY <1>5, <1>6, <1>7 DEF Complete

\* A change of p says nothing of the entries nobody touched.
LEMMA OthersComplete ==
  ASSUME Shape, Complete, NEW p \in Paths, UNCHANGED tree, touched' = touched \cup {p},
         \A q \in DOMAIN source' \ {p} : q \in DOMAIN source /\ source'[q].type = source[q].type,
         \A q \in DOMAIN source \ {p} : q \in DOMAIN source',
         Rooted', Len(dirs') = Len(dirs),
         \A i \in 1..Len(dirs) :
            /\ SameRecord(dirs'[i], dirs[i])
            /\ \A e \in dirs[i].must :
                 Append(tree[dirs[i].dir].mtime, e.name) = p \/ e \in dirs'[i].must
  PROVE  Complete'
<1>1. \A q : IsCollected(q)' <=> IsCollected(q)
  BY DEF IsCollected
<1>2. Known'
  <2>1. ASSUME NEW k \in 1..Len(tree), tree[k].mtime \notin touched'
        PROVE  /\ tree[k].mtime \in DOMAIN source'
               /\ source'[tree[k].mtime].type = tree[k].type
    <3>1. PICK q : q = tree[k].mtime
      OBVIOUS
    <3>2. q \notin touched /\ q # p
      BY <2>1, <3>1
    <3>3. q \in DOMAIN source /\ source[q].type = tree[k].type
      BY <3>1, <3>2 DEF Complete, Known
    <3>4. q \in DOMAIN source' /\ source'[q].type = source[q].type
      BY <3>2, <3>3
    <3> QED  BY <3>1, <3>3, <3>4
  <2> QED  BY <2>1 DEF Known
<1>3. ASSUME NEW q, Finished(q) PROVE Finished(q)'
  <2>1. ASSUME NEW n \in Names, NEW r, r = Append(q, n), r \in DOMAIN source' \ touched'
        PROVE  source'[r].type = "other" \/ IsCollected(r)'
    <3>1. r \in DOMAIN source \ touched /\ source'[r].type = source[r].type
      BY <2>1
    <3>2. source[r].type = "other" \/ IsCollected(r)
      BY <1>3, <2>1, <3>1 DEF Finished
    <3> QED  BY <1>1, <3>1, <3>2
  <2> QED  BY <2>1 DEF Finished
<1>4. ASSUME NEW i \in 1..Len(dirs') PROVE Listed(dirs[i], tree[dirs[i].dir].mtime)'
  <2>1. PICK c, e, q : c = dirs[i] /\ e = dirs'[i] /\ q = tree[dirs[i].dir].mtime
    OBVIOUS
  <2>2. /\ e.dir = c.dir /\ e.pass = c.pass /\ e.seen = c.seen
        /\ \A f \in c.must : Append(q, f.name) = p \/ f \in e.must
    BY <2>1 DEF SameRecord
  <2>3. Listed(c, q)
    BY <2>1 DEF Complete
  <2>4. ASSUME e.pass = "read", NEW n \in Names, NEW r, r = Append(q, n),
               r \in DOMAIN source' \ touched'
        PROVE  /\ First(n) \in e.must
               /\ First(n) \in e.seen => source'[r].type = "other" \/ IsCollected(r)'
    <3>1. r \in DOMAIN source \ touched /\ r # p /\ source'[r].type = source[r].type
      BY <2>4
    <3>2. /\ First(n) \in c.must
          /\ First(n) \in c.seen => source[r].type = "other" \/ IsCollected(r)
      BY <2>2, <2>3, <2>4, <3>1 DEF Listed
    <3>3. First(n).name = n
      BY DEF First
    <3> QED  BY <1>1, <2>2, <2>4, <3>1, <3>2, <3>3
  <2>5. Listed(e, q)'
    BY <2>4 DEF Listed
  <2>6. tree'[dirs'[i].dir].mtime = q
    BY <2>1, <2>2
  <2> QED  BY <2>1, <2>5, <2>6
<1>5. ASSUME NEW k \in 1..Len(tree'), tree'[k].type = "dir",
             \A i \in 1..Len(dirs') : dirs'[i].dir # k
      PROVE  Finished(tree[k].mtime)'
  <2>1. PICK q : q = tree[k].mtime
    OBVIOUS
  <2>2. \A i \in 1..Len(dirs) : dirs[i].dir # k
    BY <1>5 DEF SameRecord
  <2>3. Finished(q)
    BY <1>5, <2>1, <2>2 DEF Complete
  <2>4. Finished(q)'
    BY <1>3, <2>3
  <2> QED  BY <2>1, <2>4
<1> QED  BY <1>2, <1>4, <1>5 DEF Complete

LEMMA AppearsComplete ==
  ASSUME Shape, Complete, NEW p \in Paths, NEW entry \in NewEntries, Appears(p, entry)
  PROVE  Complete'
<1>1. UNCHANGED tree /\ touched' = touched \cup {p}
  BY ChangeFacts DEF Shape, Appears
<1>2. source' = [q \in DOMAIN source \cup {p} |-> IF q = p THEN entry ELSE source[q]]
  BY DEF Appears
<1>3. DOMAIN source' = DOMAIN source \cup {p}
  BY <1>2
<1>4. \A q \in DOMAIN source' \ {p} : q \in DOMAIN source /\ source'[q] = source[q]
  BY <1>2
<1>5. p \notin DOMAIN source /\ Front(p) \in DOMAIN source /\ source[Front(p)].type = "dir"
  BY DEF Appears, IsDir
<1>6. Rooted'
  <2>1. ASSUME NEW q \in DOMAIN source', q # <<>>
        PROVE  Front(q) \in DOMAIN source /\ source[Front(q)].type = "dir"
    BY <1>3, <1>5, <2>1 DEF Complete, Rooted
  <2>2. \A q \in DOMAIN source : q # p /\ q \in DOMAIN source' /\ source'[q] = source[q]
    BY <1>3, <1>4, <1>5
  <2> QED  BY <2>1, <2>2 DEF Rooted
<1>7. Len(dirs') = Len(dirs)
  BY AppearsStack
<1>8. \A i \in 1..Len(dirs) : SameRecord(dirs'[i], dirs[i]) /\ dirs'[i].must = dirs[i].must
  BY AppearsStack
<1> QED  BY <1>1, <1>3, <1>4, <1>6, <1>7, <1>8, OthersComplete

\* Only an empty directory is removed.
LEMMA VanishesComplete ==
  ASSUME Shape, Complete, NEW p \in Paths, Vanishes(p)
  PROVE  Complete'
<1>1. UNCHANGED tree /\ touched' = touched \cup {p}
  BY ChangeFacts DEF Shape, Vanishes
<1>2. /\ DOMAIN source' = DOMAIN source \ {p} /\ p # <<>> /\ Entries(source, p) = {}
      /\ \A q \in DOMAIN source' : source'[q] = source[q]
  BY DEF Vanishes, Restrict
<1>3. Rooted'
  <2>1. ASSUME NEW q \in DOMAIN source', q # <<>>
        PROVE  Front(q) \in DOMAIN source' /\ source'[Front(q)].type = "dir"
    <3>1. Front(q) \in DOMAIN source /\ source[Front(q)].type = "dir" /\ q \in Paths
      BY <1>2, <2>1 DEF Complete, Rooted, Shape, Typed
    <3>2. Front(q) # p
      <4>1. q = Append(Front(q), Last(q)) /\ Last(q) \in Names
        BY <2>1, <3>1, PathParts
      <4>2. Front(q) = p => Last(q) \in Entries(source, p)
        BY <1>2, <4>1 DEF Entries
      <4> QED  BY <1>2, <4>2
    <3> QED  BY <1>2, <3>1, <3>2
  <2> QED  BY <2>1 DEF Rooted
<1>4. Len(dirs') = Len(dirs)
  BY VanishesStack
<1>5. ASSUME NEW i \in 1..Len(dirs)
      PROVE  /\ SameRecord(dirs'[i], dirs[i])
             /\ \A e \in dirs[i].must :
                  Append(tree[dirs[i].dir].mtime, e.name) = p \/ e \in dirs'[i].must
  <2>1. PICK k : k = dirs[i].dir
    OBVIOUS
  <2>2. k \in 1..Len(tree) /\ \A e \in dirs[i].must : e.name \in Names
    <3>1. dirs[i] \in OpenDirectory
      BY Lists DEF Shape
    <3> QED  BY <2>1, <3>1 DEF Shape, Passes, OpenDirectory, ListedEntry
  <2>3. \A n \in Names : Append(tree[k].mtime, n) = p <=> tree[k].mtime = Front(p) /\ n = Last(p)
    BY <1>2, <2>2, ListedAt DEF Shape
  <2>4. /\ SameRecord(dirs'[i], dirs[i])
        /\ dirs'[i].must = IF tree[k].mtime = Front(p)
                           THEN Others(dirs[i].must, p) ELSE dirs[i].must
    BY <2>1, VanishesStack
  <2> QED  BY <2>1, <2>2, <2>3, <2>4 DEF Others
<1> QED  BY <1>1, <1>2, <1>3, <1>4, <1>5, OthersComplete

LEMMA ResizesComplete ==
  ASSUME Shape, Complete, NEW p \in Paths, NEW size \in {0, 2}, Resizes(p, size)
  PROVE  Complete'
<1>1. /\ DOMAIN source' = DOMAIN source
      /\ \A q \in DOMAIN source : source'[q].type = source[q].type
      /\ UNCHANGED <<tree, dirs>> /\ touched' = touched \cup {p}
  BY ResizesFacts
<1>2. Rooted'
  BY <1>1 DEF Complete, Rooted
<1>3. \A i \in 1..Len(dirs) : SameRecord(dirs'[i], dirs[i])
  BY <1>1, Lists DEF Shape, SameRecord
<1> QED  BY <1>1, <1>2, <1>3, OthersComplete

LEMMA CompleteNext == Shape /\ Complete /\ [Next]_vars => Complete'
<1> SUFFICES ASSUME Shape, Complete, [Next]_vars PROVE Complete'
  OBVIOUS
<1>1. CASE fs_tree_collect
  BY <1>1, StartComplete
<1>2. CASE open_dir
  BY <1>2, OpenComplete
<1>3. CASE count_files_in_the_directory
  BY <1>3, CountComplete
<1>4. ASSUME NEW e \in ListedEntry, process_dir_child(e) PROVE Complete'
  BY <1>4, ChildComplete
<1>5. CASE CloseDir
  BY <1>5, CloseComplete
<1>6. ASSUME NEW p \in Paths, NEW entry \in NewEntries, Appears(p, entry) PROVE Complete'
  BY <1>6, AppearsComplete
<1>7. ASSUME NEW p \in Paths, Vanishes(p) PROVE Complete'
  BY <1>7, VanishesComplete
<1>8. ASSUME NEW p \in Paths, NEW size \in {0, 2}, Resizes(p, size) PROVE Complete'
  BY <1>8, ResizesComplete
<1>9. CASE Beside
  BY <1>9, SameComplete DEF Beside
<1> QED  BY Steps, <1>1, <1>2, <1>3, <1>4, <1>5, <1>6, <1>7, <1>8, <1>9

\* In a tree that was collected, an entry nobody touched at the end of
\* directories nobody touched has its inode: look at the shortest path that
\* has none.
LEMMA AllCollected ==
  ASSUME Shape, Complete, at = "collected", NEW p \in DOMAIN source, Collectable(p)
  PROVE  IsCollected(p)
<1> DEFINE Missed == {q \in DOMAIN source : Collectable(q) /\ ~IsCollected(q)}
           Lengths == {Len(q) : q \in Missed}
<1>1. SUFFICES ASSUME p \in Missed PROVE FALSE
  OBVIOUS
<1>2. Lengths # {} /\ Lengths \in SUBSET Nat
  <2>1. \A q \in Missed : q \in Seq(Names)
    BY PathParts DEF Shape, Typed
  <2>2. \A q \in Missed : Len(q) \in Nat
    BY <2>1, LenProperties
  <2> QED  BY <1>1, <2>2
<1>3. PICK l \in Lengths : \A m \in Lengths : l <= m
  <2> HIDE DEF Lengths
  <2> QED  BY <1>2, LeastNumber
<1>4. PICK q \in Missed : \A r \in Missed : Len(q) <= Len(r)
  BY <1>3
<1>5. q \in DOMAIN source /\ Collectable(q) /\ ~IsCollected(q) /\ q \in Paths
  BY <1>4 DEF Shape, Typed
<1>6. CASE q = <<>>
  <2>1. tree # <<>> /\ tree \in Seq(Node)
    BY DEF Shape, Phases, Typed
  <2>2. 1 \in 1..Len(tree)
    BY <2>1, LenProperties, EmptySeq
  <2>3. tree[1].mtime = <<>>
    BY <2>2 DEF Shape, Located
  <2> QED  BY <1>5, <1>6, <2>2, <2>3 DEF IsCollected
<1>7. CASE q # <<>>
  <2>1. PICK f : f = Front(q)
    OBVIOUS
  <2>2. /\ q \in Seq(Names) /\ f \in Seq(Names) /\ Last(q) \in Names
        /\ Len(q) \in Nat \ {0} /\ Len(f) = Len(q) - 1 /\ q = Append(f, Last(q))
    BY <1>5, <1>7, <2>1, PathParts
  <2>3. f \in DOMAIN source /\ source[f].type = "dir"
    BY <1>5, <1>7, <2>1 DEF Complete, Rooted
  <2>4. ASSUME NEW k \in 0..Len(f) PROVE SubSeq(f, 1, k) = SubSeq(q, 1, k) /\ k \in 0..Len(q)
    <3>1. k \in 0..Len(q) /\ k \in Nat
      BY <2>2
    <3>2. \A i \in 1..k : f[i] = q[i] /\ f[i] \in Names /\ q[i] \in Names
      <4>1. \A i \in 1..(Len(q) - 1) : f[i] = q[i]
        BY <1>7, <2>1, <2>2, FrontFacts
      <4>2. \A i \in 1..k : i \in 1..(Len(q) - 1) /\ i \in 1..Len(q)
        BY <2>2
      <4> QED  BY <2>2, <4>1, <4>2, ElementOfSeq
    <3>3. /\ SubSeq(f, 1, k) \in Seq(Names) /\ Len(SubSeq(f, 1, k)) = k
          /\ \A i \in 1..k : SubSeq(f, 1, k)[i] = f[i]
      BY <2>2, <3>1, <3>2, SubSeqProperties
    <3>4. /\ SubSeq(q, 1, k) \in Seq(Names) /\ Len(SubSeq(q, 1, k)) = k
          /\ \A i \in 1..k : SubSeq(q, 1, k)[i] = q[i]
      BY <2>2, <3>1, <3>2, SubSeqProperties
    <3> QED  BY <3>1, <3>2, <3>3, <3>4, SeqEqual
  <2>5. Collectable(f)
    <3>1. \A k \in 0..Len(f) : SubSeq(f, 1, k) \notin touched
      BY <1>5, <2>4 DEF Collectable
    <3> QED  BY <2>3, <3>1 DEF Collectable
  <2>6. IsCollected(f)
    <3>1. f \notin Missed
      BY <1>4, <2>2
    <3> QED  BY <2>3, <2>5, <3>1
  <2>7. f \notin touched /\ q \notin touched
    <3>1. SubSeq(f, 1, Len(f)) = f /\ SubSeq(q, 1, Len(q)) = q
      BY <2>2
    <3>2. Len(f) \in 0..Len(f) /\ Len(q) \in 0..Len(q)
      BY <2>2
    <3> QED  BY <1>5, <2>5, <3>1, <3>2 DEF Collectable
  <2>8. PICK k \in 1..Len(tree) : tree[k].mtime = f
    BY <2>6 DEF IsCollected
  <2>9. tree[k].type = "dir"
    BY <2>3, <2>7, <2>8 DEF Complete, Known
  <2>10. Finished(f)
    <3>1. dirs = <<>>
      BY DEF Shape, Phases
    <3>2. \A i \in 1..Len(dirs) : FALSE
      BY <3>1
    <3> QED  BY <2>8, <2>9, <3>2 DEF Complete
  <2>11. source[q].type # "other"
    BY <1>5 DEF Collectable
  <2> QED  BY <1>5, <2>2, <2>7, <2>10, <2>11 DEF Finished
<1> QED  BY <1>6, <1>7

LEMMA CompleteInit == Init => Shape /\ Complete
<1> SUFFICES ASSUME Init PROVE Shape /\ Complete
  OBVIOUS
<1>1. source \in Trees /\ tree = <<>> /\ dirs = <<>>
  BY DEF Init, PackInit, FsInit
<1>2. Rooted
  BY <1>1, TreesAssumption DEF Rooted
<1>3. Len(tree) = 0 /\ Len(dirs) = 0
  BY <1>1
<1> QED  BY <1>2, <1>3, ShapeInit DEF Complete, Known

-----------------------------------------------------------------------------
(***************************************************************************)
(* What is there twice, or gone when it is asked for, was touched.         *)
(***************************************************************************)

\* An offer stands while the disk is left alone.
LEMMA KeptOffers ==
  ASSUME Shape, KeptNodes, UNCHANGED <<source, histories>>, Offered,
         NEW i \in 1..Len(dirs), dirs'[i].dir = dirs[i].dir, dirs'[i].may = dirs[i].may
  PROVE  Offers(dirs[i], tree[dirs[i].dir].mtime)'
<1>1. PICK k : k = dirs[i].dir
  OBVIOUS
<1>2. k \in 1..Len(tree)
  BY <1>1 DEF Shape, Passes
<1>3. tree'[dirs'[i].dir].mtime = tree[k].mtime
  BY <1>1, <1>2 DEF KeptNodes
<1>4. Offers(dirs[i], tree[k].mtime)
  BY <1>1 DEF Offered
<1> QED  BY <1>3, <1>4 DEF Offers, histories

\* A step in the innermost directory that adds no inode.
LEMMA InnerUnrepeated ==
  ASSUME Shape, Unrepeated, at = "collecting", UNCHANGED <<source, histories>>, at' = at,
         NEW d, NEW q, InnerAt(d), d.dir = Inner.dir, q = InnerPath,
         KeptNodes, Len(tree') = Len(tree), Offers(d, q)
  PROVE  Unrepeated'
<1>1. /\ Len(dirs) \in Nat \ {0} /\ Inner = dirs[Len(dirs)] /\ Inner.dir \in 1..Len(tree)
      /\ InnerPath = tree[Inner.dir].mtime
  BY InnerFacts
<1>2. Inherited' /\ Exits'
  BY DEF Unrepeated, Inherited, Exits, histories
<1>3. Twice'
  BY DEF Unrepeated, Twice, KeptNodes, histories
<1>4. ASSUME NEW i \in 1..Len(dirs') PROVE Offers(dirs[i], tree[dirs[i].dir].mtime)'
  <2>1. CASE i = Len(dirs)
    <3>1. dirs'[i] = d
      BY <2>1 DEF InnerAt
    <3>2. PICK k \in 1..Len(tree) : k = Inner.dir
      BY <1>1
    <3>3. tree'[k].mtime = q
      BY <1>1, <3>2 DEF KeptNodes
    <3>4. tree'[dirs'[i].dir].mtime = q
      BY <3>1, <3>2, <3>3
    <3> QED  BY <3>1, <3>4 DEF Offers, histories
  <2>2. CASE i # Len(dirs)
    <3>1. i \in 1..Len(dirs) /\ dirs'[i] = dirs[i]
      BY <1>1, <2>2 DEF InnerAt
    <3> QED  BY <3>1, KeptOffers DEF Unrepeated
  <2> QED  BY <2>1, <2>2
<1>5. Offered'
  BY <1>4 DEF Offered
<1> QED  BY <1>2, <1>3, <1>5 DEF Unrepeated

\* What is listed when a directory is opened or rewound is on the disk.
LEMMA ListingOffered ==
  ASSUME NEW d, NEW q, d.may = Listing(Entries(source, q))
  PROVE  Offers(d, q)
BY DEF Offers, Listing, Entries

\* A step after which nothing that was touched matters less.
LEMMA SameUnrepeated ==
  ASSUME Unrepeated, UNCHANGED <<source, tree, dirs, histories>>, at' # "exited" \/ at' = at
  PROVE  Unrepeated'
<1>1. Inherited' /\ Twice' /\ Exits'
  BY DEF Unrepeated, Inherited, Twice, Exits, histories
<1>2. Offered'
  BY DEF Unrepeated, Offered, Offers, histories
<1> QED  BY <1>1, <1>2 DEF Unrepeated

LEMMA ExitUnrepeated ==
  ASSUME Unrepeated, UNCHANGED <<source, tree, dirs, histories>>, touched # {} \/ tree = <<>>
  PROVE  Unrepeated'
<1>1. Inherited' /\ Twice' /\ Exits'
  BY DEF Unrepeated, Inherited, Twice, Exits, histories
<1>2. Offered'
  BY DEF Unrepeated, Offered, Offers, histories
<1> QED  BY <1>1, <1>2 DEF Unrepeated

LEMMA StartUnrepeated == ASSUME Shape, Unrepeated, fs_tree_collect PROVE Unrepeated'
<1>1. /\ tree = <<>> /\ dirs = <<>> /\ UNCHANGED <<source, histories>>
  BY DEF fs_tree_collect, Shape, Phases
<1>2. CASE CollectNothing \/ CollectOther
  <2>1. UNCHANGED <<tree, dirs>>
    BY <1>2 DEF CollectNothing, CollectOther
  <2> QED  BY <1>1, <2>1, ExitUnrepeated
<1>3. CASE CollectHead
  <2>1. PICK head : head = Inode(source, <<>>, HeadName, 1)
    OBVIOUS
  <2>2. tree' = <<head>> /\ Len(tree') = 1
    BY <1>3, <2>1 DEF CollectHead
  <2>3. Twice'
    BY <2>2 DEF Twice
  <2>4. at' # "exited"
    BY <1>3 DEF CollectHead
  <2>5. Inherited' /\ Exits'
    BY <1>1, <2>4 DEF Unrepeated, Inherited, Exits, histories
  <2>6. \/ dirs' = <<>>
        \/ dirs' = <<OpenDir(1)>>
    BY <1>1, <1>3 DEF CollectHead
  <2>7. Offered'
    <3>1. CASE dirs' = <<>>
      BY <3>1 DEF Offered
    <3>2. CASE dirs' = <<OpenDir(1)>>
      <4>1. Len(dirs') = 1 /\ dirs'[1].may = {}
        BY <3>2 DEF OpenDir
      <4>2. \A i \in 1..Len(dirs') : dirs'[i].may = {}
        BY <4>1
      <4> QED  BY <4>2 DEF Offered, Offers
    <3> QED  BY <2>6, <3>1, <3>2
  <2> QED  BY <2>3, <2>5, <2>7 DEF Unrepeated
<1> QED  BY <1>2, <1>3 DEF fs_tree_collect

\* A directory that cannot be opened was touched.
LEMMA OpenUnrepeated == ASSUME Shape, Complete, Unrepeated, open_dir PROVE Unrepeated'
<1>1. at = "collecting" /\ UNCHANGED <<source, tree, histories>>
  BY DEF open_dir, InPass
<1>2. CASE ~IsDir(source, InnerPath)
  <2>1. UNCHANGED dirs
    BY <1>2 DEF open_dir
  <2>2. PICK k \in 1..Len(tree) : tree[k].type = "dir" /\ InnerPath = tree[k].mtime
    BY <1>1, InnerFacts
  <2>3. tree[k].mtime \in touched
    BY <1>2, <2>2 DEF Complete, Known, IsDir
  <2> QED  BY <1>1, <2>1, <2>3, ExitUnrepeated
<1>3. CASE IsDir(source, InnerPath)
  <2>1. PICK now : now = Listing(Entries(source, InnerPath))
    OBVIOUS
  <2>2. PICK d : d = [Inner EXCEPT !.pass = "count", !.must = now, !.may = now]
    OBVIOUS
  <2>3. InnerBecomes(d) /\ at' = at
    BY <1>3, <2>1, <2>2 DEF open_dir
  <2>4. now \in SUBSET ListedEntry /\ IsFiniteSet(now)
    BY <2>1, ListingFacts
  <2>5. d \in OpenDirectory /\ d.dir = Inner.dir /\ d.may = now
    <3>1. Inner \in OpenDirectory
      BY <1>1, InnerFacts
    <3> QED  BY <2>2, <2>4, <3>1 DEF OpenDirectory
  <2>6. InnerAt(d) /\ KeptNodes /\ Len(tree') = Len(tree)
    BY <1>1, <2>3, <2>5, InnerMoves, InodesStay DEF Shape
  <2>7. PICK q : q = InnerPath
    OBVIOUS
  <2>8. Offers(d, q)
    BY <2>1, <2>5, <2>7, ListingOffered
  <2> QED  BY <1>1, <2>3, <2>5, <2>6, <2>7, <2>8, InnerUnrepeated
<1> QED  BY <1>2, <1>3

LEMMA CountUnrepeated ==
  ASSUME Shape, Unrepeated, count_files_in_the_directory PROVE Unrepeated'
<1>1. at = "collecting" /\ at' = at /\ UNCHANGED <<source, histories>>
  BY CountFacts
<1>2. PICK counted \in SUBSET Inner.may, d \in OpenDirectory :
              /\ Cardinality(counted) + 2 \in Nat
              /\ tree' = [tree EXCEPT ![Inner.dir].slots = Cardinality(counted) + 2]
              /\ InnerAt(d) /\ d.dir = Inner.dir
              /\ d.may = Listing(Entries(source, InnerPath))
  BY CountFacts
<1>3. KeptNodes /\ Len(tree') = Len(tree)
  <2>1. PICK slots \in Nat : slots = Cardinality(counted) + 2
    BY <1>2
  <2>2. tree' = [tree EXCEPT ![Inner.dir].slots = slots]
    BY <1>2, <2>1
  <2> QED  BY <1>1, <2>2, CountedNodes
<1>4. PICK q : q = InnerPath
  OBVIOUS
<1>5. Offers(d, q)
  BY <1>2, <1>4, ListingOffered
<1> QED  BY <1>1, <1>2, <1>3, <1>4, <1>5, InnerUnrepeated

\* What is said of the entry e that is read at p.
LEMMA InnerOffers ==
  ASSUME Shape, Unrepeated, at = "collecting"
  PROVE  Offers(Inner, InnerPath)
<1>1. Len(dirs) \in 1..Len(dirs) /\ Inner = dirs[Len(dirs)] /\ InnerPath = tree[Inner.dir].mtime
  <2>1. Len(dirs) \in Nat \ {0}
    BY InnerFacts
  <2> QED  BY <2>1, InnerFacts
<1>2. Offers(dirs[Len(dirs)], tree[dirs[Len(dirs)].dir].mtime)
  BY <1>1 DEF Unrepeated, Offered
<1> QED  BY <1>1, <1>2

\* The inode of an entry that was not read yet repeats a path only if it was
\* touched: the other inode is of an entry of this directory that was made
\* again, or of a directory that was made again around it.
LEMMA NewPath ==
  ASSUME Shape, Unrepeated, at = "collecting", NEW e \in Inner.may \ Inner.seen,
         NEW p, p = Append(InnerPath, e.name), p \in DOMAIN source,
         NEW k \in 1..Len(tree), tree[k].mtime = p
  PROVE  p \in touched
<1>1. SUFFICES ASSUME p \notin touched PROVE FALSE
  OBVIOUS
<1>2. /\ InnerPath \in Seq(Names) /\ InnerPath = tree[Inner.dir].mtime
      /\ Inner.dir \in 1..Len(tree) /\ Inner = dirs[Len(dirs)] /\ Len(dirs) \in 1..Len(dirs)
      /\ Inner.may \subseteq ListedEntry /\ Inner.seen \subseteq Inner.may
  <2>1. Len(dirs) \in Nat \ {0}
    BY InnerFacts
  <2> QED  BY <2>1, InnerFacts
<1>0. e \in ListedEntry /\ e.name \in Names
  BY <1>2 DEF ListedEntry
<1>3. /\ p # <<>> /\ Front(p) = InnerPath /\ Last(p) = e.name
  BY <1>0, <1>2, EntryParts
<1>4. k # 1
  BY <1>3 DEF Shape, Located
<1>5. /\ tree[k].parent \in 1..(k - 1)
      /\ tree[k].mtime = Append(tree[tree[k].parent].mtime, tree[k].name)
  BY <1>4 DEF Shape, Located
<1>6. tree[k].parent \in 1..Len(tree) /\ k \in 2..Len(tree)
  BY <1>4, <1>5, Lists DEF Shape
<1>7. PICK q, m : q = tree[tree[k].parent].mtime /\ m = tree[k].name
  OBVIOUS
<1>8. q \in Seq(Names) /\ m \in Names
  BY <1>6, <1>7, NodePaths DEF Shape
<1>9. q = InnerPath /\ m = e.name
  <2>1. Front(Append(q, m)) = q /\ Last(Append(q, m)) = m
    BY <1>8, EntryParts
  <2> QED  BY <1>3, <1>5, <1>7, <2>1
<1>10. CASE tree[k].parent = Inner.dir
  <2>1. PICK f \in Inner.seen : f.name = m
    BY <1>2, <1>6, <1>7, <1>10 DEF Shape, Passes
  <2>2. f \in ListedEntry /\ f \in Inner.may
    BY <1>2
  <2>3. e.birth = 0 /\ f.birth = 0
    BY <1>1, <1>9, <2>1, <2>2, InnerOffers DEF Offers
  <2>4. f = e
    BY <1>0, <1>9, <2>1, <2>2, <2>3 DEF ListedEntry
  <2> QED  BY <2>1, <2>4
<1>11. CASE tree[k].parent # Inner.dir
  <2>1. InnerPath \in touched
    BY <1>2, <1>6, <1>7, <1>9, <1>11 DEF Unrepeated, Twice
  <2> QED  BY <1>1, <1>3, <2>1 DEF Unrepeated, Inherited
<1> QED  BY <1>10, <1>11

LEMMA AddedUnrepeated ==
  ASSUME Shape, Unrepeated, at = "collecting", UNCHANGED <<source, histories>>,
         NEW e \in Inner.may \ Inner.seen, NEW d, d = [Inner EXCEPT !.seen = @ \cup {e}],
         NEW p, p = Append(InnerPath, e.name), ChildIsAdded(p, d), Inner.pass = "read"
  PROVE  Unrepeated'
<1> PICK n : n = e.name
  OBVIOUS
<1>1. /\ Len(tree) \in Nat /\ Len(dirs) \in Nat \ {0} /\ Inner = dirs[Len(dirs)]
      /\ Inner.dir \in 1..Len(tree) /\ n \in Names
  BY InnerFacts, Lists DEF Shape, ListedEntry
<1>2. KeptNodes /\ Len(tree') = Len(tree) + 1 /\ tree'[Len(tree) + 1].mtime = p
  <2>1. Grafted(n, p)
    BY <1>1, AddedChild
  <2> QED  BY <2>1 DEF Grafted
<1>3. /\ Len(dirs') = Len(dirs) + (IF source[p].type = "dir" THEN 1 ELSE 0)
      /\ dirs'[Len(dirs)] = d
      /\ \A i \in 1..(Len(dirs) - 1) : dirs'[i] = dirs[i]
      /\ source[p].type = "dir" => dirs'[Len(dirs) + 1] = OpenDir(Len(tree) + 1)
  BY <1>1, AddedStack
<1>4. d.dir = Inner.dir /\ d.may = Inner.may
  BY SeenRecord
<1>5. p \in DOMAIN source /\ at' # "exited"
  BY DEF ChildIsAdded
<1>6. Inherited' /\ Exits'
  BY <1>5 DEF Unrepeated, Inherited, Exits, histories
<1>7. Twice'
  <2>1. PICK N \in Nat : N = Len(tree)
    BY <1>1
  <2>2. \A k \in 1..N : tree'[k].mtime = tree[k].mtime
    BY <2>1, <1>2 DEF KeptNodes
  <2>3. \A k \in 1..N : tree[k].mtime = p => p \in touched
    BY <1>5, <2>1, NewPath
  <2>4. \A k \in 1..Len(tree') : k \in 1..N \/ k = N + 1
    BY <1>2, <2>1
  <2>5. \A j, k \in 1..N : tree[j].mtime = tree[k].mtime => j = k \/ tree[j].mtime \in touched
    BY <2>1 DEF Unrepeated, Twice
  <2>6. tree'[N + 1].mtime = p /\ touched' = touched
    BY <1>2, <2>1 DEF histories
  <2>7. ASSUME NEW j \in 1..Len(tree'), NEW k \in 1..Len(tree'), tree'[j].mtime = tree'[k].mtime
        PROVE  j = k \/ tree'[j].mtime \in touched'
    <3>1. CASE j \in 1..N /\ k \in 1..N
      BY <2>2, <2>5, <2>6, <2>7, <3>1
    <3>2. CASE j = N + 1 /\ k \in 1..N
      BY <2>2, <2>3, <2>6, <2>7, <3>2
    <3>3. CASE j \in 1..N /\ k = N + 1
      BY <2>2, <2>3, <2>6, <2>7, <3>3
    <3> QED  BY <2>4, <3>1, <3>2, <3>3
  <2> QED  BY <2>7 DEF Twice
<1>8. ASSUME NEW i \in 1..Len(dirs') PROVE Offers(dirs[i], tree[dirs[i].dir].mtime)'
  <2>0. i \in 1..(Len(dirs) - 1) \/ i = Len(dirs) \/ (i = Len(dirs) + 1 /\ source[p].type = "dir")
    BY <1>1, <1>3
  <2>1. CASE i \in 1..Len(dirs)
    <3>1. dirs'[i].dir = dirs[i].dir /\ dirs'[i].may = dirs[i].may
      <4>1. CASE i = Len(dirs)
        <5>1. dirs'[i] = d /\ dirs[i] = Inner
          BY <1>1, <1>3, <4>1
        <5> QED  BY <1>4, <5>1
      <4>2. CASE i # Len(dirs)
        <5>1. dirs'[i] = dirs[i]
          BY <1>1, <1>3, <2>1, <4>2
        <5> QED  BY <5>1
      <4> QED  BY <4>1, <4>2
    <3> QED  BY <1>2, <2>1, <3>1, KeptOffers DEF Unrepeated
  <2>2. CASE i = Len(dirs) + 1 /\ source[p].type = "dir"
    <3>1. dirs'[i].may = {}
      BY <1>3, <2>2 DEF OpenDir
    <3> QED  BY <3>1 DEF Offers
  <2> QED  BY <1>1, <2>0, <2>1, <2>2
<1>9. Offered'
  BY <1>8 DEF Offered
<1> QED  BY <1>6, <1>7, <1>9 DEF Unrepeated

\* An entry that is gone when stat asks for it was touched.
LEMMA ChildUnrepeated ==
  ASSUME Shape, Unrepeated, NEW e, process_dir_child(e)
  PROVE  Unrepeated'
<1>1. /\ at = "collecting" /\ UNCHANGED <<source, histories>> /\ Inner.pass = "read"
      /\ e \in Inner.may \ Inner.seen
  BY ChildFacts
<1>2. PICK p, d : /\ p = Append(InnerPath, e.name) /\ d = [Inner EXCEPT !.seen = @ \cup {e}]
                  /\ ChildIsGone(p) \/ ChildIsSkipped(p, d) \/ ChildIsAdded(p, d)
  BY ChildFacts
<1>3. CASE ChildIsGone(p)
  <2>1. p \notin DOMAIN source /\ UNCHANGED <<tree, dirs>>
    BY <1>3 DEF ChildIsGone
  <2>2. p \in touched
    BY <1>1, <1>2, <2>1, InnerOffers DEF Offers
  <2> QED  BY <1>1, <2>1, <2>2, ExitUnrepeated
<1>4. CASE ChildIsSkipped(p, d)
  <2>1. InnerAt(d) /\ UNCHANGED <<at, tree>>
    BY <1>1, <1>2, <1>4, SkippedShape
  <2>2. d.dir = Inner.dir /\ d.may = Inner.may
    BY <1>1, <1>2, SeenRecord
  <2>3. KeptNodes /\ Len(tree') = Len(tree)
    BY <2>1, InodesStay DEF Shape
  <2>4. PICK q : q = InnerPath
    OBVIOUS
  <2>5. Offers(d, q)
    BY <1>1, <2>2, <2>4, InnerOffers DEF Offers
  <2> QED  BY <1>1, <2>1, <2>2, <2>3, <2>4, <2>5, InnerUnrepeated
<1>5. CASE ChildIsAdded(p, d)
  BY <1>1, <1>2, <1>5, AddedUnrepeated
<1> QED  BY <1>2, <1>3, <1>4, <1>5

LEMMA CloseUnrepeated == ASSUME Shape, Unrepeated, CloseDir PROVE Unrepeated'
<1>1. UNCHANGED <<source, tree, histories>> /\ at' # "exited"
  BY DEF CloseDir, InPass
<1>2. \A i \in 1..Len(dirs') : dirs'[i] = dirs[i] /\ i \in 1..Len(dirs)
  BY LeftStack
<1>3. Inherited' /\ Twice' /\ Exits'
  BY <1>1 DEF Unrepeated, Inherited, Twice, Exits, histories
<1>4. KeptNodes
  BY <1>1, InodesStay DEF Shape
<1>5. \A i \in 1..Len(dirs') : Offers(dirs[i], tree[dirs[i].dir].mtime)'
  BY <1>1, <1>2, <1>4, KeptOffers DEF Unrepeated
<1>6. Offered'
  BY <1>5 DEF Offered
<1> QED  BY <1>3, <1>6 DEF Unrepeated

\* A change of p offers nothing but p that was not there.
LEMMA OthersUnrepeated ==
  ASSUME Shape, Unrepeated, NEW p \in Paths, UNCHANGED <<at, tree>>,
         touched' = touched \cup {p},
         \A q \in DOMAIN source' \ {p} : q \in DOMAIN source /\ (q # <<>> => Front(q) # p),
         \A q \in DOMAIN source \ {p} : q \in DOMAIN source',
         Len(dirs') = Len(dirs),
         \A i \in 1..Len(dirs) :
            /\ dirs'[i].dir = dirs[i].dir
            /\ \A e \in dirs'[i].may :
                 e \in dirs[i].may \/ Append(tree[dirs[i].dir].mtime, e.name) = p
  PROVE  Unrepeated'
<1>1. Inherited'
  <2>1. ASSUME NEW q \in DOMAIN source', q # <<>>, Front(q) \in touched \cup {p}, q # p
        PROVE  q \in touched
    <3>1. q \in DOMAIN source /\ Front(q) # p
      BY <2>1
    <3> QED  BY <2>1, <3>1 DEF Unrepeated, Inherited
  <2> QED  BY <2>1 DEF Inherited
<1>2. Twice' /\ Exits'
  BY DEF Unrepeated, Twice, Exits
<1>3. ASSUME NEW i \in 1..Len(dirs') PROVE Offers(dirs[i], tree[dirs[i].dir].mtime)'
  <2>1. PICK c, q : c = dirs[i] /\ q = tree[dirs[i].dir].mtime
    OBVIOUS
  <2>2. Offers(c, q)
    BY <2>1 DEF Unrepeated, Offered
  <2>3. tree'[dirs'[i].dir].mtime = q
    BY <2>1
  <2>4. ASSUME NEW e \in dirs'[i].may, NEW r, r = Append(q, e.name)
        PROVE  r \in touched' \/ (e.birth = 0 /\ r \in DOMAIN source')
    <3>1. CASE r = p
      BY <3>1
    <3>2. CASE r # p
      <4>1. e \in c.may
        BY <2>1, <2>4, <3>2
      <4>2. r \in touched \/ (e.birth = 0 /\ r \in DOMAIN source)
        BY <2>2, <2>4, <4>1 DEF Offers
      <4> QED  BY <3>2, <4>2
    <3> QED  BY <3>1, <3>2
  <2> QED  BY <2>3, <2>4 DEF Offers
<1>4. Offered'
  BY <1>3 DEF Offered
<1> QED  BY <1>1, <1>2, <1>4 DEF Unrepeated

LEMMA AppearsUnrepeated ==
  ASSUME Shape, Complete, Unrepeated, NEW p \in Paths, NEW entry \in NewEntries,
         Appears(p, entry)
  PROVE  Unrepeated'
<1>1. UNCHANGED <<at, tree>> /\ touched' = touched \cup {p}
  BY ChangeFacts DEF Shape, Appears
<1>2. DOMAIN source' = DOMAIN source \cup {p} /\ p \notin DOMAIN source /\ p # <<>>
  BY DEF Appears
<1>3. \A q \in DOMAIN source' \ {p} : q \in DOMAIN source /\ (q # <<>> => Front(q) # p)
  BY <1>2 DEF Complete, Rooted
<1>4. ASSUME NEW i \in 1..Len(dirs)
      PROVE  /\ dirs'[i].dir = dirs[i].dir
             /\ \A e \in dirs'[i].may :
                  e \in dirs[i].may \/ Append(tree[dirs[i].dir].mtime, e.name) = p
  <2>1. p = Append(Front(p), Last(p))
    BY <1>2, PathParts
  <2>2. NewEntry(p).name = Last(p)
    BY DEF NewEntry
  <2>3. /\ SameRecord(dirs'[i], dirs[i])
        /\ dirs'[i].may = IF tree[dirs[i].dir].mtime = Front(p)
                          THEN dirs[i].may \cup {NewEntry(p)} ELSE dirs[i].may
    BY AppearsStack
  <2> QED  BY <2>1, <2>2, <2>3 DEF SameRecord
<1>5. Len(dirs') = Len(dirs)
  BY AppearsStack
<1> QED  BY <1>1, <1>2, <1>3, <1>4, <1>5, OthersUnrepeated

LEMMA VanishesUnrepeated ==
  ASSUME Shape, Complete, Unrepeated, NEW p \in Paths, Vanishes(p)
  PROVE  Unrepeated'
<1>1. UNCHANGED <<at, tree>> /\ touched' = touched \cup {p}
  BY ChangeFacts DEF Shape, Vanishes
<1>2. DOMAIN source' = DOMAIN source \ {p} /\ Entries(source, p) = {}
  BY DEF Vanishes, Restrict
<1>3. ASSUME NEW q \in DOMAIN source, q # <<>> PROVE Front(q) # p
  <2>1. q \in Paths
    BY DEF Shape, Typed
  <2>2. q = Append(Front(q), Last(q)) /\ Last(q) \in Names
    BY <1>3, <2>1, PathParts
  <2> QED  BY <1>2, <2>2 DEF Entries
<1>4. \A i \in 1..Len(dirs) : SameRecord(dirs'[i], dirs[i]) /\ dirs'[i].may = dirs[i].may
  BY VanishesStack
<1>5. \A i \in 1..Len(dirs) : dirs'[i].dir = dirs[i].dir
  BY <1>4 DEF SameRecord
<1>6. Len(dirs') = Len(dirs)
  BY VanishesStack
<1> QED  BY <1>1, <1>2, <1>3, <1>4, <1>5, <1>6, OthersUnrepeated

LEMMA ResizesUnrepeated ==
  ASSUME Shape, Complete, Unrepeated, NEW p \in Paths, NEW size \in {0, 2}, Resizes(p, size)
  PROVE  Unrepeated'
<1>1. /\ DOMAIN source' = DOMAIN source /\ UNCHANGED <<at, tree, dirs>>
      /\ touched' = touched \cup {p}
  BY ResizesFacts
<1>2. source[p].type = "reg"
  BY DEF Resizes
<1>3. \A q \in DOMAIN source : q # <<>> => Front(q) # p
  BY <1>2 DEF Complete, Rooted
<1> QED  BY <1>1, <1>3, OthersUnrepeated

LEMMA UnrepeatedNext == Shape /\ Complete /\ Unrepeated /\ [Next]_vars => Unrepeated'
<1> SUFFICES ASSUME Shape, Complete, Unrepeated, [Next]_vars PROVE Unrepeated'
  OBVIOUS
<1>1. CASE fs_tree_collect
  BY <1>1, StartUnrepeated
<1>2. CASE open_dir
  BY <1>2, OpenUnrepeated
<1>3. CASE count_files_in_the_directory
  BY <1>3, CountUnrepeated
<1>4. ASSUME NEW e \in ListedEntry, process_dir_child(e) PROVE Unrepeated'
  BY <1>4, ChildUnrepeated
<1>5. CASE CloseDir
  BY <1>5, CloseUnrepeated
<1>6. ASSUME NEW p \in Paths, NEW entry \in NewEntries, Appears(p, entry) PROVE Unrepeated'
  BY <1>6, AppearsUnrepeated
<1>7. ASSUME NEW p \in Paths, Vanishes(p) PROVE Unrepeated'
  BY <1>7, VanishesUnrepeated
<1>8. ASSUME NEW p \in Paths, NEW size \in {0, 2}, Resizes(p, size) PROVE Unrepeated'
  BY <1>8, ResizesUnrepeated
<1>9. CASE Beside
  <2>1. UNCHANGED <<source, tree, dirs, histories>> /\ (at' # "exited" \/ at' = at)
    BY <1>9 DEF Beside
  <2> QED  BY <2>1, SameUnrepeated
<1> QED  BY Steps, <1>1, <1>2, <1>3, <1>4, <1>5, <1>6, <1>7, <1>8, <1>9

LEMMA UnrepeatedInit == Init => Unrepeated
<1> SUFFICES ASSUME Init PROVE Unrepeated
  OBVIOUS
<1>1. at = "start" /\ tree = <<>> /\ dirs = <<>> /\ touched = {}
  BY DEF Init, PackInit, FsInit
<1>2. Len(tree) = 0 /\ Len(dirs) = 0
  BY <1>1
<1> QED  BY <1>1, <1>2 DEF Unrepeated, Inherited, Twice, Offered, Exits

(***************************************************************************)
(* fs_tree_collect gives a path two inodes only if somebody touched it,    *)
(* and one to every file and directory that other processes left alone,    *)
(* together with the directories it is in, whatever they do beside it; it  *)
(* gives up only after somebody touched something.                         *)
(***************************************************************************)
THEOREM CollectsOnce == Spec => []CollectedOnce
<1>1. Init => Shape /\ Complete /\ Unrepeated
  BY CompleteInit, UnrepeatedInit
<1>2. (Shape /\ Complete /\ Unrepeated) /\ [Next]_vars => (Shape /\ Complete /\ Unrepeated)'
  BY ShapeNext, CompleteNext, UnrepeatedNext
<1>3. Shape /\ Complete /\ Unrepeated => CollectedOnce
  <2> SUFFICES ASSUME Shape, Complete, Unrepeated PROVE CollectedOnce
    OBVIOUS
  <2>1. DOMAIN tree = 1..Len(tree) /\ \A n \in 1..Len(tree) : get_name(tree, n) = tree[n].mtime
    BY Lists, NameIsTime DEF Shape
  <2>2. \A m, n \in DOMAIN tree :
           get_name(tree, m) = get_name(tree, n) => m = n \/ get_name(tree, n) \in touched
    BY <2>1 DEF Unrepeated, Twice
  <2>3. ASSUME at = "collected", NEW p \in DOMAIN source, Collectable(p)
        PROVE  \E n \in DOMAIN tree : get_name(tree, n) = p
    BY <2>1, <2>3, AllCollected DEF IsCollected
  <2> QED  BY <2>2, <2>3 DEF CollectedOnce, Unrepeated, Exits
<1> QED  BY <1>1, <1>2, <1>3, PTL DEF Spec

-----------------------------------------------------------------------------
(***************************************************************************)
(* Sums by FoldLeft, which takes the last number off first.                *)
(***************************************************************************)
LEMMA MaxFacts ==
  ASSUME NEW N \in Nat, NEW s \in SUBSET (1..N), s # {}
  PROVE  Max(s) \in s /\ \A x \in s : x <= Max(s)
<1> DEFINE Rest == {N - x : x \in s}
<1>1. Rest \in SUBSET Nat /\ Rest # {}
  <2>1. \A x \in s : x \in 1..N /\ N - x \in Nat
    OBVIOUS
  <2> QED  BY <2>1
<1>2. PICK r \in Rest : \A y \in Rest : r <= y
  <2> HIDE DEF Rest
  <2> QED  BY <1>1, LeastNumber
<1>3. PICK m \in s : r = N - m
  BY <1>2
<1>4. \A x \in s : x <= m
  BY <1>2, <1>3
<1> QED  BY <1>4 DEF Max

LEMMA SumExists ==
  ASSUME NEW N \in Nat, NEW v
  PROVE  \E sum : SumsOf(v, N, sum)
<1> DEFINE Wrong == {n \in Nat : ~\E sum : SumsOf(v, n, sum)}
<1>1. SUFFICES ASSUME Wrong # {} PROVE FALSE
  OBVIOUS
<1>2. PICK n \in Wrong : \A k \in Wrong : n <= k
  <2>1. Wrong \in SUBSET Nat
    OBVIOUS
  <2> HIDE DEF Wrong
  <2> QED  BY <1>1, <2>1, LeastNumber
<1>3. CASE n = 0
  <2>1. SUBSET (1..0) = {{}}
    OBVIOUS
  <2>2. SumsOf(v, 0, [s \in SUBSET (1..0) |-> 0])
    BY <2>1 DEF SumsOf
  <2> QED  BY <1>2, <1>3, <2>2
<1>4. CASE n # 0
  <2>1. n - 1 \in Nat /\ n \in Nat
    BY <1>2, <1>4
  <2>2. PICK g : SumsOf(v, n - 1, g)
    BY <1>2, <2>1
  <2>3. PICK h : h = [s \in SUBSET (1..n) |-> IF n \in s THEN g[s \ {n}] + v[n] ELSE g[s]]
    OBVIOUS
  <2>4. ASSUME NEW s \in SUBSET (1..n)
        PROVE  h[s] = IF s = {} THEN 0 ELSE h[s \ {Max(s)}] + v[Max(s)]
    <3>1. CASE n \in s
      <4>1. Max(s) = n
        <5>1. Max(s) \in s /\ n <= Max(s)
          BY <2>1, <3>1, MaxFacts
        <5>2. Max(s) \in 1..n
          BY <5>1
        <5> QED  BY <2>1, <5>1, <5>2
      <4>2. s \ {n} \in SUBSET (1..n) /\ n \notin s \ {n}
        OBVIOUS
      <4> QED  BY <2>3, <3>1, <4>1, <4>2
    <3>2. CASE n \notin s /\ s # {}
      <4>1. s \in SUBSET (1..(n - 1)) /\ s \ {Max(s)} \in SUBSET (1..n)
        <5>1. \A x \in s : x \in 1..(n - 1)
          <6>1. \A x \in s : x \in 1..n /\ x # n
            BY <3>2
          <6> QED  BY <2>1, <6>1
        <5> QED  BY <5>1
      <4>2. h[s] = g[s] /\ h[s \ {Max(s)}] = g[s \ {Max(s)}]
        BY <2>3, <3>2, <4>1
      <4>3. g[s] = g[s \ {Max(s)}] + v[Max(s)]
        BY <2>2, <3>2, <4>1 DEF SumsOf
      <4> QED  BY <3>2, <4>2, <4>3
    <3>3. CASE s = {}
      <4>1. s \in SUBSET (1..(n - 1))
        BY <3>3
      <4>2. g[s] = 0
        BY <2>2, <3>3, <4>1 DEF SumsOf
      <4> QED  BY <2>3, <3>3, <4>2
    <3> QED  BY <3>1, <3>2, <3>3
  <2>5. h = [s \in SUBSET (1..n) |-> IF s = {} THEN 0 ELSE h[s \ {Max(s)}] + v[Max(s)]]
    BY <2>3, <2>4
  <2> QED  BY <1>2, <2>5 DEF SumsOf
<1> QED  BY <1>3, <1>4

\* They are the sums of the elements from the first one on.
LEMMA SumSteps ==
  ASSUME NEW N \in Nat, NEW v \in [1..N -> Nat], NEW sum, SumsOf(v, N, sum)
  PROVE  /\ sum[1..0] = 0
         /\ \A i \in 1..N : sum[1..i] = sum[1..(i - 1)] + v[i]
         /\ \A i \in 0..N : sum[1..i] \in Nat
<1>1. sum[1..0] = 0
  <2>1. 1..0 = {} /\ {} \in SUBSET (1..N)
    OBVIOUS
  <2> QED  BY <2>1 DEF SumsOf
<1>2. ASSUME NEW i \in 1..N PROVE sum[1..i] = sum[1..(i - 1)] + v[i]
  <2>1. 1..i \in SUBSET (1..N) /\ i \in 1..i /\ i \in Nat
    OBVIOUS
  <2>2. Max(1..i) = i
    <3>1. Max(1..i) \in 1..i /\ \A x \in 1..i : x <= Max(1..i)
      BY <2>1, MaxFacts
    <3> QED  BY <2>1, <3>1
  <2>3. (1..i) \ {i} = 1..(i - 1)
    BY <2>1
  <2>4. 1..i # {}
    BY <2>1
  <2> QED  BY <2>1, <2>2, <2>3, <2>4 DEF SumsOf
<1>3. \A i \in 0..N : sum[1..i] \in Nat
  <2> DEFINE Wrong == {i \in 0..N : sum[1..i] \notin Nat}
  <2>1. SUFFICES ASSUME Wrong # {} PROVE FALSE
    OBVIOUS
  <2>2. PICK n \in Wrong : \A k \in Wrong : n <= k
    <3>1. Wrong \in SUBSET Nat
      OBVIOUS
    <3> HIDE DEF Wrong
    <3> QED  BY <2>1, <3>1, LeastNumber
  <2>3. n # 0 /\ n \in 1..N
    BY <1>1, <2>2
  <2>4. sum[1..(n - 1)] \in Nat
    BY <2>2, <2>3
  <2> QED  BY <1>2, <2>2, <2>3, <2>4
<1> QED  BY <1>1, <1>2, <1>3

\* So is what the two folds over the entries of an archive add up.
LEMMA ContentSum ==
  ASSUME NEW order, NEW N \in Nat, DOMAIN order = 1..N
  PROVE  \E sum : /\ SumsOf([i \in 1..N |-> ContentOf(order[i])], N, sum)
                  /\ FoldLeft(LAMBDA acc, n : acc + ContentOf(n), 0, order) = sum[1..N]
<1> DEFINE Iter(f) ==
      f = [s \in SUBSET (DOMAIN order) |->
             IF s = {} THEN 0 ELSE f[s \ {Max(s)}] + ContentOf(order[Max(s)])]
<1>1. PICK v : v = [i \in 1..N |-> ContentOf(order[i])]
  OBVIOUS
<1>2. \A f : Iter(f) <=> SumsOf(v, N, f)
  <2>1. \A s \in SUBSET (1..N) : s # {} => v[Max(s)] = ContentOf(order[Max(s)])
    BY <1>1, MaxFacts
  <2> QED  BY <2>1 DEF SumsOf
<1>3. PICK f : f = (CHOOSE g : Iter(g))
  OBVIOUS
<1>4. Iter(f)
  <2>1. \E g : Iter(g)
    <3> HIDE DEF Iter
    <3> QED  BY <1>2, SumExists
  <2> HIDE DEF Iter
  <2> QED  BY <1>3, <2>1
<1>5. FoldLeft(LAMBDA acc, n : acc + ContentOf(n), 0, order) = f[DOMAIN order]
  BY <1>3 DEF FoldLeft, MapThenFoldSet
<1> HIDE DEF Iter
<1> QED  BY <1>1, <1>2, <1>4, <1>5

-----------------------------------------------------------------------------
(***************************************************************************)
(* The breadth-first walk over any tree of N inodes visits each of them    *)
(* once.                                                                   *)
(***************************************************************************)
\* There is such a recursion.
LEMMA QueueExists ==
  ASSUME NEW nodes, NEW N \in Nat
  PROVE  \E queue : Queues(nodes, N, queue)
<1> DEFINE Wrong == {n \in Nat : ~\E queue : Queues(nodes, n, queue)}
<1>1. SUFFICES ASSUME Wrong # {} PROVE FALSE
  OBVIOUS
<1>2. PICK n \in Wrong : \A k \in Wrong : n <= k
  <2>1. Wrong \in SUBSET Nat
    OBVIOUS
  <2> HIDE DEF Wrong
  <2> QED  BY <1>1, <2>1, LeastNumber
<1>3. CASE n = 0
  <2>1. Queues(nodes, 0, [v \in 0..0 |-> <<1>>])
    BY DEF Queues
  <2> QED  BY <1>2, <1>3, <2>1
<1>4. CASE n # 0
  <2>1. n - 1 \in Nat /\ n \in Nat
    BY <1>2, <1>4
  <2>2. PICK g : Queues(nodes, n - 1, g)
    BY <1>2, <2>1
  <2>3. PICK last : last = g[n - 1] \o nodes[g[n - 1][n]].children
    OBVIOUS
  <2>4. PICK h : h = [v \in 0..n |-> IF v = n THEN last ELSE g[v]]
    OBVIOUS
  <2>5. ASSUME NEW v \in 0..n
        PROVE  h[v] = IF v = 0 THEN <<1>> ELSE h[v - 1] \o nodes[h[v - 1][v]].children
    <3>1. CASE v = n
      <4>1. h[v - 1] = g[n - 1] /\ h[v] = last
        BY <2>1, <2>4, <3>1
      <4> QED  BY <1>4, <2>3, <3>1, <4>1
    <3>2. CASE v # n
      <4>1. v \in 0..(n - 1) /\ h[v] = g[v]
        BY <2>1, <2>4, <3>2
      <4>2. v # 0 => h[v - 1] = g[v - 1]
        BY <2>1, <2>4, <3>2
      <4> QED  BY <2>2, <4>1, <4>2 DEF Queues
    <3> QED  BY <3>1, <3>2
  <2>6. h = [v \in 0..n |-> IF v = 0 THEN <<1>> ELSE h[v - 1] \o nodes[h[v - 1][v]].children]
    BY <2>4, <2>5
  <2>7. Queues(nodes, n, h)
    BY <2>6 DEF Queues
  <2> QED  BY <1>2, <2>7
<1> QED  BY <1>3, <1>4

LEMMA BfsQueue ==
  ASSUME NEW nodes, NEW N \in Nat, Len(nodes) = N
  PROVE  \E queue : Queues(nodes, N, queue) /\ fs_tree_bfs(nodes) = queue[N]
<1> DEFINE Rec(f) ==
      f = [w \in 0..Len(nodes) |->
             IF w = 0 THEN <<1>>
             ELSE f[w - 1] \o nodes[f[w - 1][w]].children]
<1>1. \A f : Rec(f) <=> Queues(nodes, N, f)
  BY DEF Queues
<1>2. PICK f : f = (CHOOSE g : Rec(g))
  OBVIOUS
<1>3. Rec(f)
  <2>1. \E g : Rec(g)
    <3> HIDE DEF Rec
    <3> QED  BY <1>1, QueueExists
  <2> HIDE DEF Rec
  <2> QED  BY <1>2, <2>1
<1>4. fs_tree_bfs(nodes) = f[Len(nodes)]
  BY <1>2 DEF fs_tree_bfs
<1> HIDE DEF Rec
<1> QED  BY <1>1, <1>3, <1>4

\* A queue that has visited all it holds has all inodes: the first one it
\* lacked would have a parent that was visited.
LEMMA NothingLeft ==
  ASSUME NEW nodes, NEW N, Family(nodes, N), NEW t \in Seq(1..N), Len(t) \in 1..N, t[1] = 1,
         \A n \in 2..N : Reached(t, n) <=> \E j \in 1..Len(t) : t[j] = nodes[n].parent
  PROVE  Len(t) = N
<1> DEFINE Wrong == {n \in 1..N : ~Reached(t, n)}
<1>0. N \in Nat \ {0} /\ Len(t) \in Nat
  BY DEF Family
<1>1. Wrong = {}
  <2>1. SUFFICES ASSUME Wrong # {} PROVE FALSE
    OBVIOUS
  <2>2. PICK n \in Wrong : \A k \in Wrong : n <= k
    <3>1. Wrong \in SUBSET Nat
      OBVIOUS
    <3> HIDE DEF Wrong
    <3> QED  BY <2>1, <3>1, LeastNumber
  <2>3. n # 1
    <3>1. 1 \in 1..Len(t)
      BY <1>0
    <3>2. Reached(t, 1)
      BY <3>1 DEF Reached
    <3> QED  BY <2>2, <3>2
  <2>4. n \in 2..N
    BY <2>2, <2>3
  <2>5. nodes[n].parent \in 1..(n - 1)
    BY <2>4 DEF Family
  <2>6. nodes[n].parent \in 1..N /\ nodes[n].parent < n
    BY <1>0, <2>4, <2>5
  <2>7. Reached(t, nodes[n].parent)
    BY <2>2, <2>4, <2>6
  <2> QED  BY <2>2, <2>4, <2>7 DEF Reached
<1>2. PICK f : f = [i \in 1..Len(t) |-> t[i]]
  OBVIOUS
<1>3. f \in Surjection(1..Len(t), 1..N)
  <2>1. f \in [1..Len(t) -> 1..N]
    BY <1>2, ElementOfSeq
  <2>2. \A n \in 1..N : \E i \in 1..Len(t) : f[i] = n
    BY <1>1, <1>2 DEF Reached
  <2> QED  BY <2>1, <2>2 DEF Surjection
<1>4. /\ IsFiniteSet(1..Len(t)) /\ Cardinality(1..Len(t)) = Len(t)
      /\ Cardinality(1..N) = N
  <2>1. \A k \in Nat \ {0} : IsFiniteSet(1..k) /\ Cardinality(1..k) = k
    <3> TAKE k \in Nat \ {0}
    <3>1. /\ IsFiniteSet(1..k) /\ Cardinality(1..k) = IF 1 > k THEN 0 ELSE k - 1 + 1
      BY FS_Interval
    <3> QED  BY <3>1
  <2> QED  BY <1>0, <2>1
<1>5. N <= Len(t)
  BY <1>3, <1>4, FS_Surjection
<1> QED  BY <1>0, <1>5

\* No list of inodes without repetition is longer than the tree.
LEMMA NoLonger ==
  ASSUME NEW N \in Nat \ {0}, NEW t \in Seq(1..N),
         \A i, j \in 1..Len(t) : t[i] = t[j] => i = j
  PROVE  Len(t) <= N
<1>1. Len(t) \in Nat
  BY LenProperties
<1>2. \A k \in Nat : IsFiniteSet(1..k) /\ Cardinality(1..k) = k
  <2> TAKE k \in Nat
  <2>1. /\ IsFiniteSet(1..k) /\ Cardinality(1..k) = IF 1 > k THEN 0 ELSE k - 1 + 1
    BY FS_Interval
  <2> QED  BY <2>1
<1>3. PICK f : f = [i \in 1..Len(t) |-> t[i]]
  OBVIOUS
<1>4. f \in Injection(1..Len(t), 1..N)
  <2>1. f \in [1..Len(t) -> 1..N]
    BY <1>3, ElementOfSeq
  <2>2. \A i, j \in 1..Len(t) : f[i] = f[j] => i = j
    BY <1>3
  <2> QED  BY <2>1, <2>2 DEF Injection, IsInjective
<1>5. IsFiniteSet(1..N) /\ Cardinality(1..N) = N
  BY <1>2
<1>6. Cardinality(1..Len(t)) <= N
  BY <1>4, <1>5, FS_Injection
<1> QED  BY <1>1, <1>2, <1>6

\* Visiting the next inode puts its children at the end.
LEMMA QueueStep ==
  ASSUME NEW nodes, NEW N, Family(nodes, N), NEW v \in 0..(N - 1), NEW s,
         Queued(nodes, N, v, s), NEW t, t = s \o nodes[s[v + 1]].children
  PROVE  Queued(nodes, N, v + 1, t) /\ Extends(t, s)
<1>0. /\ N \in Nat \ {0} /\ v \in Nat /\ v < N
      /\ s \in Seq(1..N) /\ Len(s) \in 1..N /\ s[1] = 1 /\ v + 1 <= Len(s)
      /\ \A i, j \in 1..Len(s) : s[i] = s[j] => i = j
  BY DEF Family, Queued
<1>1. PICK p \in 1..N : p = s[v + 1]
  <2>1. v + 1 \in 1..Len(s)
    BY <1>0
  <2> QED  BY <1>0, <2>1, ElementOfSeq
<1>15. PICK c : c = nodes[p].children
  OBVIOUS
<1>2. /\ c \in Seq(1..N)
      /\ \A k \in 1..Len(c) : c[k] \in 2..N /\ nodes[c[k]].parent = p
      /\ \A k, l \in 1..Len(c) : c[k] = c[l] => k = l
  <2>1. c \in Seq(1..N)
    BY <1>15 DEF Family
  <2>2. \A k \in 1..Len(c) : c[k] \in 2..N /\ nodes[c[k]].parent = p
    BY <1>15 DEF Family
  <2>3. \A k, l \in 1..Len(c) : c[k] = c[l] => k = l
    BY <1>15 DEF Family
  <2> QED  BY <2>1, <2>2, <2>3
<1>3. /\ t \in Seq(1..N) /\ Len(t) = Len(s) + Len(c) /\ Len(c) \in Nat
      /\ \A i \in 1..Len(s) : t[i] = s[i]
      /\ \A k \in 1..Len(c) : t[Len(s) + k] = c[k]
  <2>1. t = s \o c
    BY <1>1, <1>15
  <2> QED  BY <1>0, <1>2, <2>1, ConcatProperties, LenProperties
<1>4. \A n \in 2..N : Reached(s, n) <=> \E j \in 1..v : s[j] = nodes[n].parent
  BY DEF Queued
<1>5. \A k \in 1..Len(c) : ~Reached(s, c[k])
  <2> SUFFICES ASSUME NEW k \in 1..Len(c), Reached(s, c[k]) PROVE FALSE
    OBVIOUS
  <2>3. PICK n \in 2..N : n = c[k] /\ nodes[n].parent = p
    BY <1>2
  <2>4. Reached(s, n)
    BY <2>3
  <2>1. PICK j \in 1..v : s[j] = p
    BY <1>4, <2>3, <2>4
  <2>2. j \in 1..Len(s) /\ v + 1 \in 1..Len(s) /\ j # v + 1
    BY <1>0
  <2> QED  BY <1>0, <1>1, <2>1, <2>2
<1>6. \A i \in 1..Len(t) : i \in 1..Len(s) \/ \E k \in 1..Len(c) : i = Len(s) + k
  <2> TAKE i \in 1..Len(t)
  <2>1. i \in 1..Len(s) \/ (i - Len(s) \in 1..Len(c) /\ i = Len(s) + (i - Len(s)))
    BY <1>0, <1>3
  <2> QED  BY <2>1
<1>7. \A i, j \in 1..Len(t) : t[i] = t[j] => i = j
  <2> SUFFICES ASSUME NEW i \in 1..Len(t), NEW j \in 1..Len(t), t[i] = t[j] PROVE i = j
    OBVIOUS
  <2>1. CASE i \in 1..Len(s) /\ j \in 1..Len(s)
    BY <1>0, <1>3, <2>1
  <2>2. CASE \E k, l \in 1..Len(c) : i = Len(s) + k /\ j = Len(s) + l
    BY <1>2, <1>3, <2>2
  <2>3. CASE i \in 1..Len(s) /\ \E l \in 1..Len(c) : j = Len(s) + l
    BY <1>3, <1>5, <2>3 DEF Reached
  <2>4. CASE j \in 1..Len(s) /\ \E l \in 1..Len(c) : i = Len(s) + l
    BY <1>3, <1>5, <2>4 DEF Reached
  <2> QED  BY <1>6, <2>1, <2>2, <2>3, <2>4
<1>8. Len(t) <= N
  BY <1>0, <1>3, <1>7, NoLonger
<1>9. ASSUME NEW n \in 2..N
      PROVE  Reached(t, n) <=> \E j \in 1..(v + 1) : t[j] = nodes[n].parent
  <2>1. \A j \in 1..(v + 1) : j \in 1..Len(s) /\ t[j] = s[j] /\ (j \in 1..v \/ j = v + 1)
    BY <1>0, <1>3
  <2>2. (\E j \in 1..(v + 1) : t[j] = nodes[n].parent)
          <=> (\E j \in 1..v : s[j] = nodes[n].parent) \/ p = nodes[n].parent
    <3>1. \A j \in 1..v : j \in 1..(v + 1)
      BY <1>0
    <3>2. v + 1 \in 1..(v + 1)
      BY <1>0
    <3> QED  BY <1>1, <2>1, <3>1, <3>2
  <2>3. Reached(t, n) <=> Reached(s, n) \/ \E k \in 1..Len(c) : c[k] = n
    <3>1. \A i \in 1..Len(s) : i \in 1..Len(t)
      BY <1>0, <1>3
    <3>2. \A k \in 1..Len(c) : Len(s) + k \in 1..Len(t)
      BY <1>0, <1>3
    <3>3. ASSUME Reached(t, n) PROVE Reached(s, n) \/ \E k \in 1..Len(c) : c[k] = n
      <4>1. PICK i \in 1..Len(t) : t[i] = n
        BY <3>3 DEF Reached
      <4>2. CASE i \in 1..Len(s)
        BY <1>3, <4>1, <4>2 DEF Reached
      <4>3. CASE \E k \in 1..Len(c) : i = Len(s) + k
        BY <1>3, <4>1, <4>3
      <4> QED  BY <1>6, <4>2, <4>3
    <3>4. ASSUME Reached(s, n) PROVE Reached(t, n)
      BY <1>3, <3>1, <3>4 DEF Reached
    <3>5. ASSUME NEW k \in 1..Len(c), c[k] = n PROVE Reached(t, n)
      BY <1>3, <3>2, <3>5 DEF Reached
    <3> QED  BY <3>3, <3>4, <3>5
  <2>4. (\E k \in 1..Len(c) : c[k] = n) <=> p = nodes[n].parent
    <3>1. ASSUME p = nodes[n].parent PROVE \E k \in 1..Len(c) : c[k] = n
      BY <1>15, <3>1 DEF Family
    <3> QED  BY <1>2, <3>1
  <2> QED  BY <1>4, <2>2, <2>3, <2>4
<1>10. v + 1 < N => v + 2 <= Len(t)
  <2> SUFFICES ASSUME v + 1 < N, ~(v + 2 <= Len(t)) PROVE FALSE
    OBVIOUS
  <2>1. Len(t) = v + 1
    BY <1>0, <1>3
  <2>2. Len(t) \in 1..N /\ t[1] = 1
    BY <1>0, <1>3, <1>8
  <2>4. \A n \in 2..N : Reached(t, n) <=> \E j \in 1..Len(t) : t[j] = nodes[n].parent
    BY <1>9, <2>1
  <2>3. Len(t) = N
    BY <1>3, <2>2, <2>4, NothingLeft
  <2> QED  BY <2>1, <2>3
<1>11. Len(t) \in 1..N /\ t[1] = 1 /\ v + 1 <= Len(t)
  BY <1>0, <1>3, <1>8
<1>12. Queued(nodes, N, v + 1, t)
  <2>1. v + 1 < N => (v + 1) + 1 <= Len(t)
    BY <1>0, <1>3, <1>10
  <2> QED  BY <1>3, <1>7, <1>9, <1>11, <2>1 DEF Queued
<1>13. Extends(t, s)
  BY <1>0, <1>3 DEF Extends
<1> QED  BY <1>12, <1>13

LEMMA BfsWalk ==
  ASSUME NEW nodes, NEW N, Family(nodes, N)
  PROVE  \E queue : Walk(nodes, N, fs_tree_bfs(nodes), queue)
<1>0. N \in Nat \ {0} /\ Len(nodes) = N
  BY DEF Family
<1>1. PICK queue : Queues(nodes, N, queue) /\ fs_tree_bfs(nodes) = queue[N]
  BY <1>0, BfsQueue
<1>2. queue[0] = <<1>>
  BY <1>0, <1>1 DEF Queues
<1>3. ASSUME NEW v \in 0..(N - 1)
      PROVE  queue[v + 1] = queue[v] \o nodes[queue[v][v + 1]].children
  <2>1. v + 1 \in 0..N /\ v + 1 # 0 /\ (v + 1) - 1 = v
    BY <1>0
  <2> QED  BY <1>1, <2>1 DEF Queues
<1>4. \A v \in 0..N : Queued(nodes, N, v, queue[v])
  <2> DEFINE Wrong == {v \in 0..N : ~Queued(nodes, N, v, queue[v])}
  <2>1. SUFFICES ASSUME Wrong # {} PROVE FALSE
    OBVIOUS
  <2>2. PICK v \in Wrong : \A k \in Wrong : v <= k
    <3>1. Wrong \in SUBSET Nat
      OBVIOUS
    <3> HIDE DEF Wrong
    <3> QED  BY <2>1, <3>1, LeastNumber
  <2>3. CASE v = 0
    <3>1. PICK s : s = <<1>>
      OBVIOUS
    <3>2. s \in Seq(1..N) /\ Len(s) = 1 /\ s[1] = 1
      BY <1>0, <3>1
    <3>3. \A n \in 2..N : ~Reached(s, n) /\ \A j \in 1..0 : s[j] # nodes[n].parent
      BY <3>2 DEF Reached
    <3>4. Queued(nodes, N, 0, s)
      BY <1>0, <3>2, <3>3 DEF Queued
    <3> QED  BY <1>2, <2>2, <2>3, <3>1, <3>4
  <2>4. CASE v # 0
    <3>1. PICK u \in 0..(N - 1) : v = u + 1
      <4>1. v - 1 \in 0..(N - 1) /\ v = (v - 1) + 1
        BY <1>0, <2>2, <2>4
      <4> QED  BY <4>1
    <3>2. u \in 0..N /\ u < v
      BY <1>0, <3>1
    <3>3. Queued(nodes, N, u, queue[u])
      BY <2>2, <3>2
    <3>4. Queued(nodes, N, u + 1, queue[u + 1])
      BY <1>3, <3>3, QueueStep
    <3> QED  BY <2>2, <3>1, <3>4
  <2> QED  BY <2>3, <2>4
<1>5. ASSUME NEW v \in 0..(N - 1) PROVE Extends(queue[v + 1], queue[v])
  <2>1. v \in 0..N /\ v < N
    BY <1>0
  <2>2. PICK s, t : s = queue[v] /\ t = queue[v + 1]
    OBVIOUS
  <2>3. Queued(nodes, N, v, s) /\ t = s \o nodes[s[v + 1]].children
    BY <1>3, <1>4, <2>1, <2>2
  <2>4. Extends(t, s)
    BY <2>1, <2>3, QueueStep
  <2> QED  BY <2>2, <2>4
<1>6. \A v \in 0..N : Extends(queue[N], queue[v])
  <2> DEFINE Wrong == {k \in 0..N : ~Extends(queue[N], queue[N - k])}
  <2>1. SUFFICES ASSUME Wrong # {} PROVE FALSE
    <3>1. ASSUME Wrong = {}, NEW v \in 0..N PROVE Extends(queue[N], queue[v])
      <4>1. N - v \in 0..N /\ N - (N - v) = v
        BY <1>0
      <4> QED  BY <3>1, <4>1
    <3> QED  BY <3>1
  <2>2. PICK k \in Wrong : \A l \in Wrong : k <= l
    <3>1. Wrong \in SUBSET Nat
      OBVIOUS
    <3> HIDE DEF Wrong
    <3> QED  BY <2>1, <3>1, LeastNumber
  <2>3. Len(queue[N]) \in Nat
    <3>1. N \in 0..N
      BY <1>0
    <3> QED  BY <1>4, <3>1 DEF Queued
  <2>4. CASE k = 0
    BY <1>0, <2>2, <2>3, <2>4 DEF Extends
  <2>5. CASE k # 0
    <3>1. PICK u \in 0..(N - 1) : u = N - k
      BY <1>0, <2>2, <2>5
    <3>2. PICK s, t : s = queue[u] /\ t = queue[u + 1]
      OBVIOUS
    <3>3. u + 1 = N - (k - 1) /\ k - 1 \in 0..N /\ ~(k <= k - 1)
      BY <1>0, <2>2, <2>5, <3>1
    <3>4. Extends(queue[N], t)
      BY <2>2, <3>2, <3>3
    <3>5. Extends(t, s)
      BY <1>5, <3>2
    <3>6. Len(s) \in Nat /\ Len(t) \in Nat
      <4>1. u \in 0..N /\ u + 1 \in 0..N
        BY <1>0
      <4> QED  BY <1>4, <3>2, <4>1 DEF Queued
    <3>7. Extends(queue[N], s)
      BY <2>3, <3>4, <3>5, <3>6 DEF Extends
    <3> QED  BY <2>2, <3>1, <3>2, <3>7
  <2> QED  BY <2>4, <2>5
<1>7. ASSUME NEW v \in 0..(N - 1) PROVE queue[v][v + 1] = queue[N][v + 1]
  <2>1. v \in 0..N /\ v < N /\ v + 1 \in Nat /\ 1 <= v + 1
    BY <1>0
  <2>2. v + 1 <= Len(queue[v]) /\ Len(queue[v]) \in Nat
    BY <1>4, <2>1 DEF Queued
  <2>3. v + 1 \in 1..Len(queue[v])
    BY <2>1, <2>2
  <2> QED  BY <1>6, <2>1, <2>3 DEF Extends
<1> QED  BY <1>1, <1>2, <1>3, <1>4, <1>6, <1>7 DEF Walk

\* Every inode has its place in the order.
LEMMA WalkOrder ==
  ASSUME NEW nodes, NEW N, Family(nodes, N), NEW order, NEW queue, Walk(nodes, N, order, queue)
  PROVE  /\ N \in Nat \ {0} /\ order \in Seq(1..N) /\ Len(order) = N /\ order[1] = 1
         /\ \A i, j \in 1..N : order[i] = order[j] => i = j
         /\ \A v \in 0..N :
              /\ queue[v] \in Seq(1..N) /\ Len(queue[v]) \in 1..N
              /\ v <= Len(queue[v]) /\ (v < N => v + 1 <= Len(queue[v]))
              /\ \A i \in 1..Len(queue[v]) : queue[v][i] = order[i]
<1>0. N \in Nat \ {0} /\ N \in 0..N
  BY DEF Family
<1>1. \A v \in 0..N : Queued(nodes, N, v, queue[v]) /\ Extends(order, queue[v])
  BY DEF Walk
<1>2. Queued(nodes, N, N, order)
  BY <1>0, <1>1 DEF Walk
<1>3. /\ order \in Seq(1..N) /\ Len(order) \in 1..N /\ N <= Len(order) /\ order[1] = 1
      /\ \A i, j \in 1..Len(order) : order[i] = order[j] => i = j
  BY <1>2 DEF Queued
<1>4. Len(order) = N
  BY <1>0, <1>3
<1>5. ASSUME NEW v \in 0..N
      PROVE  /\ queue[v] \in Seq(1..N) /\ Len(queue[v]) \in 1..N
             /\ v <= Len(queue[v]) /\ (v < N => v + 1 <= Len(queue[v]))
             /\ \A i \in 1..Len(queue[v]) : queue[v][i] = order[i]
  <2>1. Queued(nodes, N, v, queue[v]) /\ Extends(order, queue[v])
    BY <1>1
  <2> QED  BY <2>1 DEF Queued, Extends
<1> QED  BY <1>0, <1>3, <1>4, <1>5

-----------------------------------------------------------------------------
(***************************************************************************)
(* The inodes that are collected are a family: the head and its            *)
(* descendants.                                                            *)
(***************************************************************************)
\* An inode without children is added to those of dir.
LEMMA FamilyGrows ==
  ASSUME NEW s, NEW t, NEW N, Family(s, N), NEW dir \in 1..N,
         Len(t) = N + 1, DOMAIN t = 1..(N + 1),
         t[N + 1].parent = dir, t[N + 1].children = <<>>,
         \A k \in 1..N :
           /\ t[k].parent = s[k].parent
           /\ t[k].children = IF k = dir THEN Append(s[k].children, N + 1) ELSE s[k].children
  PROVE  Family(t, N + 1)
<1>0. N \in Nat \ {0} /\ N + 1 \in Nat \ {0}
  BY DEF Family
<1>1. \A k \in 1..(N + 1) : k \in 1..N \/ k = N + 1
  BY <1>0
<1>2. \A n \in 2..(N + 1) : t[n].parent \in 1..(n - 1)
  <2>1. ASSUME NEW n \in 2..(N + 1) PROVE t[n].parent \in 1..(n - 1)
    <3>1. CASE n \in 2..N
      <4>1. n \in 1..N
        BY <3>1
      <4>2. s[n].parent \in 1..(n - 1)
        BY <3>1 DEF Family
      <4> QED  BY <4>1, <4>2
    <3>2. CASE n = N + 1
      BY <1>0, <3>2
    <3> QED  BY <1>0, <3>1, <3>2
  <2> QED  BY <2>1
<1>3. ASSUME NEW n \in 1..N, n # dir
      PROVE  /\ t[n].children \in Seq(1..(N + 1))
             /\ \A k \in 1..Len(t[n].children) :
                  /\ t[n].children[k] \in 2..(N + 1)
                  /\ t[t[n].children[k]].parent = n
             /\ \A k, l \in 1..Len(t[n].children) :
                  t[n].children[k] = t[n].children[l] => k = l
  <2>1. PICK c : c = s[n].children
    OBVIOUS
  <2>2. t[n].children = c
    BY <1>3, <2>1
  <2>3. c \in Seq(1..N) /\ \A k \in 1..Len(c) : c[k] \in 2..N /\ s[c[k]].parent = n
    BY <2>1 DEF Family
  <2>4. \A k, l \in 1..Len(c) : c[k] = c[l] => k = l
    BY <2>1 DEF Family
  <2>5. c \in Seq(1..(N + 1))
    <3>1. 1..N \subseteq 1..(N + 1)
      BY <1>0
    <3> QED  BY <2>3, <3>1
  <2>6. \A k \in 1..Len(c) : c[k] \in 2..(N + 1) /\ t[c[k]].parent = n
    <3>1. \A m \in 2..N : m \in 1..N /\ m \in 2..(N + 1) /\ t[m].parent = s[m].parent
      BY <1>0
    <3> QED  BY <2>3, <3>1
  <2> QED  BY <2>2, <2>4, <2>5, <2>6
<1>4. PICK c : c = s[dir].children
  OBVIOUS
<1>5. PICK d : d = t[dir].children
  OBVIOUS
<1>6. /\ c \in Seq(1..N) /\ Len(c) \in Nat
      /\ \A k \in 1..Len(c) : c[k] \in 2..N /\ s[c[k]].parent = dir
  <2>1. c \in Seq(1..N)
    BY <1>4 DEF Family
  <2>2. \A k \in 1..Len(c) : c[k] \in 2..N /\ s[c[k]].parent = dir
    BY <1>4 DEF Family
  <2> QED  BY <2>1, <2>2, LenProperties
<1>7. \A k, l \in 1..Len(c) : c[k] = c[l] => k = l
  BY <1>4 DEF Family
<1>8. /\ d \in Seq(1..(N + 1)) /\ Len(d) = Len(c) + 1 /\ d[Len(c) + 1] = N + 1
      /\ \A k \in 1..Len(c) : d[k] = c[k]
  <2>1. c \in Seq(1..(N + 1))
    <3>1. 1..N \subseteq 1..(N + 1)
      BY <1>0
    <3> QED  BY <1>6, <3>1
  <2>2. PICK m : m = N + 1
    OBVIOUS
  <2>3. PICK S : S = 1..m
    OBVIOUS
  <2>5. d = Append(c, m) /\ m \in S /\ c \in Seq(S)
    <3>1. d = Append(c, m)
      BY <1>4, <1>5, <2>2
    <3>2. m \in S
      BY <1>0, <2>2, <2>3
    <3>3. c \in Seq(S)
      BY <2>1, <2>2, <2>3
    <3> QED  BY <3>1, <3>2, <3>3
  <2>4. /\ Append(c, m) \in Seq(S) /\ Len(Append(c, m)) = Len(c) + 1
        /\ Append(c, m)[Len(c) + 1] = m
        /\ \A k \in 1..Len(c) : Append(c, m)[k] = c[k]
    BY <2>5, AppendProperties
  <2> QED  BY <2>2, <2>3, <2>4, <2>5
<1>9. \A k \in 1..Len(d) : k \in 1..Len(c) \/ k = Len(c) + 1
  BY <1>6, <1>8
<1>10. ASSUME NEW k \in 1..Len(d) PROVE d[k] \in 2..(N + 1) /\ t[d[k]].parent = dir
  <2>1. CASE k \in 1..Len(c)
    <3>1. PICK m \in 2..N : m = c[k] /\ s[m].parent = dir
      BY <1>6, <2>1
    <3>2. m \in 1..N /\ m \in 2..(N + 1)
      BY <1>0
    <3>3. d[k] = m
      BY <1>8, <2>1, <3>1
    <3> QED  BY <3>1, <3>2, <3>3
  <2>2. CASE k = Len(c) + 1
    <3>1. N + 1 \in 2..(N + 1)
      BY <1>0
    <3> QED  BY <1>8, <2>2, <3>1
  <2> QED  BY <1>9, <2>1, <2>2
<1>11. ASSUME NEW k \in 1..Len(d), NEW l \in 1..Len(d), d[k] = d[l] PROVE k = l
  <2>1. ASSUME NEW j \in 1..Len(c) PROVE d[j] # N + 1
    <3>1. PICK m \in 2..N : m = c[j]
      BY <1>6
    <3>2. m # N + 1
      BY <1>0
    <3> QED  BY <1>8, <3>1, <3>2
  <2>2. CASE k \in 1..Len(c) /\ l \in 1..Len(c)
    <3>1. c[k] = c[l]
      BY <1>8, <1>11, <2>2
    <3> QED  BY <1>7, <2>2, <3>1
  <2>3. CASE k = Len(c) + 1 /\ l \in 1..Len(c)
    BY <1>8, <1>11, <2>1, <2>3
  <2>4. CASE k \in 1..Len(c) /\ l = Len(c) + 1
    BY <1>8, <1>11, <2>1, <2>4
  <2> QED  BY <1>9, <2>2, <2>3, <2>4
<1>12. ASSUME NEW n \in 1..(N + 1)
       PROVE  /\ t[n].children \in Seq(1..(N + 1))
              /\ \A k \in 1..Len(t[n].children) :
                   /\ t[n].children[k] \in 2..(N + 1)
                   /\ t[t[n].children[k]].parent = n
              /\ \A k, l \in 1..Len(t[n].children) :
                   t[n].children[k] = t[n].children[l] => k = l
  <2>1. CASE n = dir
    BY <1>5, <1>8, <1>10, <1>11, <2>1
  <2>2. CASE n = N + 1
    <3>1. t[n].children = <<>> /\ Len(<<>>) = 0
      BY <2>2
    <3>2. t[n].children \in Seq(1..(N + 1))
      BY <3>1, EmptySeq
    <3> QED  BY <3>1, <3>2
  <2>3. CASE n \in 1..N /\ n # dir
    BY <1>3, <2>3
  <2> QED  BY <1>1, <2>1, <2>2, <2>3
<1>13. ASSUME NEW n \in 2..(N + 1)
       PROVE  \E k \in 1..Len(t[t[n].parent].children) : t[t[n].parent].children[k] = n
  <2>1. CASE n = N + 1
    <3>1. Len(d) \in 1..Len(d) /\ d[Len(d)] = n
      BY <1>6, <1>8, <2>1
    <3>2. t[t[n].parent].children = d
      BY <1>5, <2>1
    <3> QED  BY <3>1, <3>2
  <2>2. CASE n \in 2..N
    <3>1. PICK m : m = s[n].parent
      OBVIOUS
    <3>2. n \in 1..N /\ t[n].parent = m /\ m \in 1..N
      <4>1. s[n].parent \in 1..(n - 1) /\ n \in 1..N
        BY <2>2 DEF Family
      <4> QED  BY <1>0, <2>2, <3>1, <4>1
    <3>3. PICK k \in 1..Len(s[m].children) : s[m].children[k] = n
      BY <2>2, <3>1 DEF Family
    <3>4. CASE m = dir
      <4>3. k \in 1..Len(c) /\ c[k] = n
        BY <1>4, <3>3, <3>4
      <4>1. k \in 1..Len(d) /\ d[k] = n
        BY <1>6, <1>8, <4>3
      <4>2. t[t[n].parent].children = d
        BY <1>5, <3>2, <3>4
      <4> QED  BY <4>1, <4>2
    <3>5. CASE m # dir
      <4>1. t[t[n].parent].children = s[m].children
        BY <3>2, <3>5
      <4> QED  BY <3>3, <4>1
    <3> QED  BY <3>4, <3>5
  <2> QED  BY <1>0, <2>1, <2>2
<1> QED  BY <1>0, <1>2, <1>12, <1>13 DEF Family

\* What a family is depends on parents and children only.
LEMMA FamilyStays ==
  ASSUME NEW s, NEW t, NEW N, Family(s, N), Len(t) = N, DOMAIN t = 1..N,
         \A k \in 1..N : t[k].parent = s[k].parent /\ t[k].children = s[k].children
  PROVE  Family(t, N)
<1>1. \A n \in 2..N : n \in 1..N /\ s[n].parent \in 1..(n - 1) /\ s[n].parent \in 1..N
  <2>1. N \in Nat /\ \A n \in 2..N : s[n].parent \in 1..(n - 1)
    BY DEF Family
  <2> QED  BY <2>1
<1>2. ASSUME NEW n \in 1..N
      PROVE  /\ t[n].children \in Seq(1..N)
             /\ \A k \in 1..Len(t[n].children) :
                  t[n].children[k] \in 2..N /\ t[t[n].children[k]].parent = n
             /\ \A k, l \in 1..Len(t[n].children) :
                  t[n].children[k] = t[n].children[l] => k = l
  <2>1. PICK c : c = s[n].children
    OBVIOUS
  <2>2. c \in Seq(1..N) /\ \A k \in 1..Len(c) : c[k] \in 2..N /\ s[c[k]].parent = n
    BY <2>1 DEF Family
  <2>3. \A k, l \in 1..Len(c) : c[k] = c[l] => k = l
    BY <2>1 DEF Family
  <2>4. ASSUME NEW k \in 1..Len(c) PROVE c[k] \in 2..N /\ t[c[k]].parent = n
    <3>1. PICK m \in 2..N : m = c[k] /\ s[m].parent = n
      BY <2>2
    <3>2. t[m].parent = s[m].parent
      BY <1>1
    <3> QED  BY <3>1, <3>2
  <2>5. t[n].children = c
    BY <2>1
  <2> QED  BY <2>2, <2>3, <2>4, <2>5
<1>3. ASSUME NEW n \in 2..N
      PROVE  \E k \in 1..Len(t[t[n].parent].children) : t[t[n].parent].children[k] = n
  <2>1. PICK m : m = s[n].parent
    OBVIOUS
  <2>2. \E k \in 1..Len(s[m].children) : s[m].children[k] = n
    BY <2>1 DEF Family
  <2>3. t[n].parent = m /\ m \in 1..N
    BY <1>1, <2>1
  <2>4. t[m].children = s[m].children
    BY <2>3
  <2> QED  BY <2>2, <2>3, <2>4
<1>4. \A n \in 2..N : t[n].parent \in 1..(n - 1)
  BY <1>1
<1>5. N \in Nat \ {0}
  BY DEF Family
<1> QED  BY <1>2, <1>3, <1>4, <1>5 DEF Family

LEMMA RelatedStays == ASSUME Related, UNCHANGED tree PROVE Related'
BY DEF Related

LEMMA StartRelated == ASSUME Shape, fs_tree_collect PROVE Related'
<1>1. tree = <<>>
  BY DEF fs_tree_collect, Shape, Phases
<1>2. CASE CollectNothing \/ CollectOther
  BY <1>1, <1>2 DEF CollectNothing, CollectOther, Related
<1>3. CASE CollectHead
  <2>1. PICK head : head = Inode(source, <<>>, HeadName, 1)
    OBVIOUS
  <2>2. PICK t : t = <<head>>
    OBVIOUS
  <2>3. Len(t) = 1 /\ DOMAIN t = 1..1 /\ t[1] = head
    BY <2>2
  <2>4. head.children = <<>> /\ Len(<<>>) = 0
    BY <2>1 DEF Inode
  <2>5. head.children \in Seq(1..1)
    BY <2>4, EmptySeq
  <2>6. Family(t, 1)
    <3>1. \A n \in 1..1 : n = 1
      OBVIOUS
    <3>2. t[1].children = <<>> /\ Len(t[1].children) = 0 /\ t[1].children \in Seq(1..1)
      BY <2>3, <2>4, <2>5
    <3>3. \A n \in 2..1 : FALSE
      OBVIOUS
    <3>4. \A k \in 1..Len(t[1].children) : FALSE
      BY <3>2
    <3>5. ASSUME NEW n \in 1..1
          PROVE  /\ t[n].children \in Seq(1..1)
                 /\ \A k \in 1..Len(t[n].children) : FALSE
      BY <3>1, <3>2, <3>4
    <3>6. 1 \in Nat \ {0}
      OBVIOUS
    <3> QED  BY <2>3, <3>3, <3>5, <3>6 DEF Family
  <2>7. tree' = t
    BY <1>3, <2>1, <2>2 DEF CollectHead
  <2> QED  BY <2>3, <2>6, <2>7 DEF Related
<1> QED  BY <1>2, <1>3 DEF fs_tree_collect

LEMMA CountRelated == ASSUME Shape, Related, count_files_in_the_directory PROVE Related'
<1>1. PICK counted \in SUBSET Inner.may :
              /\ Cardinality(counted) + 2 \in Nat
              /\ tree' = [tree EXCEPT ![Inner.dir].slots = Cardinality(counted) + 2]
  BY CountFacts
<1>2. at = "collecting"
  BY CountFacts
<1>3. /\ KeptNodes /\ Len(tree') = Len(tree)
      /\ \A k \in 1..Len(tree) : tree'[k].children = tree[k].children
  BY <1>1, <1>2, CountedNodes
<1>4. Inner.dir \in 1..Len(tree)
  BY <1>2, InnerFacts
<1>5. PICK s, t, N : s = tree /\ t = tree' /\ N = Len(tree)
  OBVIOUS
<1>6. Family(s, N)
  <2>1. tree # <<>>
    BY <1>4, EmptySeq
  <2> QED  BY <1>5, <2>1 DEF Related
<1>7. Len(t) = N /\ DOMAIN t = 1..N
  <2>1. tree' \in Seq(Node)
    BY <1>3 DEF KeptNodes
  <2> QED  BY <1>3, <1>5, <2>1, LenProperties
<1>8. \A k \in 1..N : t[k].parent = s[k].parent /\ t[k].children = s[k].children
  BY <1>3, <1>5 DEF KeptNodes
<1>9. Family(t, N)
  BY <1>6, <1>7, <1>8, FamilyStays
<1> QED  BY <1>5, <1>7, <1>9 DEF Related

LEMMA AddedRelated ==
  ASSUME Shape, Related, at = "collecting",
         NEW n \in Names, NEW d, NEW p, p = Append(InnerPath, n), ChildIsAdded(p, d)
  PROVE  Related'
<1>0. Inner.dir \in 1..Len(tree)
  BY InnerFacts
<1>1. PICK s, t, N, dir : s = tree /\ t = tree' /\ N = Len(tree) /\ dir = Inner.dir
  OBVIOUS
<1>2. /\ KeptNodes /\ Len(t) = N + 1
      /\ t[N + 1].parent = dir /\ t[N + 1].children = <<>>
      /\ \A k \in 1..N :
           t[k].children = IF k = dir THEN Append(s[k].children, N + 1) ELSE s[k].children
  <2>1. /\ KeptNodes /\ Len(tree') = Len(tree) + 1
        /\ tree'[Len(tree) + 1].parent = Inner.dir /\ tree'[Len(tree) + 1].children = <<>>
        /\ \A k \in 1..Len(tree) :
             tree'[k].children = IF k = Inner.dir
                                 THEN Append(tree[k].children, Len(tree) + 1)
                                 ELSE tree[k].children
    <3>1. Grafted(n, p)
      BY AddedChild
    <3> QED  BY <3>1 DEF Grafted
  <2> QED  BY <1>1, <2>1
<1>3. dir \in 1..N /\ Family(s, N)
  <2>1. tree # <<>>
    BY <1>0, EmptySeq
  <2> QED  BY <1>0, <1>1, <2>1 DEF Related
<1>4. DOMAIN t = 1..(N + 1)
  <2>1. tree' \in Seq(Node)
    BY <1>2 DEF KeptNodes
  <2> QED  BY <1>1, <1>2, <2>1, LenProperties
<1>5. \A k \in 1..N : t[k].parent = s[k].parent
  BY <1>1, <1>2 DEF KeptNodes
<1>6. Family(t, N + 1)
  BY <1>2, <1>3, <1>4, <1>5, FamilyGrows
<1> QED  BY <1>1, <1>2, <1>6 DEF Related

LEMMA ChildRelated ==
  ASSUME Shape, Related, NEW e, process_dir_child(e)
  PROVE  Related'
<1>1. at = "collecting" /\ e \in Inner.may \ Inner.seen
  BY ChildFacts
<1>0. PICK n \in Names : n = e.name
  BY <1>1, InnerFacts DEF ListedEntry
<1>2. PICK p, d : /\ p = Append(InnerPath, n)
                  /\ ChildIsGone(p) \/ ChildIsSkipped(p, d) \/ ChildIsAdded(p, d)
  BY <1>0, ChildFacts
<1>3. CASE ChildIsGone(p) \/ ChildIsSkipped(p, d)
  BY <1>3, RelatedStays DEF ChildIsGone, ChildIsSkipped
<1>4. CASE ChildIsAdded(p, d)
  BY <1>1, <1>2, <1>4, AddedRelated
<1> QED  BY <1>2, <1>3, <1>4

LEMMA RelatedNext == Shape /\ Related /\ [Next]_vars => Related'
<1> SUFFICES ASSUME Shape, Related, [Next]_vars PROVE Related'
  OBVIOUS
<1>1. CASE fs_tree_collect
  BY <1>1, StartRelated
<1>2. CASE open_dir \/ CloseDir
  BY <1>2, RelatedStays DEF open_dir, CloseDir
<1>3. CASE count_files_in_the_directory
  BY <1>3, CountRelated
<1>4. ASSUME NEW e \in ListedEntry, process_dir_child(e) PROVE Related'
  BY <1>4, ChildRelated
<1>5. ASSUME NEW p \in Paths, NEW entry \in NewEntries, Appears(p, entry) PROVE Related'
  BY <1>5, RelatedStays DEF Appears, Changes
<1>6. ASSUME NEW p \in Paths, Vanishes(p) PROVE Related'
  BY <1>6, RelatedStays DEF Vanishes, Changes
<1>7. ASSUME NEW p \in Paths, NEW size \in {0, 2}, Resizes(p, size) PROVE Related'
  BY <1>7, RelatedStays DEF Resizes, Changes
<1>8. CASE Beside
  BY <1>8, RelatedStays DEF Beside
<1> QED  BY Steps, <1>1, <1>2, <1>3, <1>4, <1>5, <1>6, <1>7, <1>8

-----------------------------------------------------------------------------
(***************************************************************************)
(* A file that nobody touched has the size that was read.                  *)
(***************************************************************************)
\* Inodes may be added, if their sizes are those of their entries.
LEMMA SizedKept ==
  ASSUME Typed, Sized, UNCHANGED <<source, histories>>, KeptNodes,
         \A k \in 1..Len(tree') : k \in 1..Len(tree)
                                  \/ tree'[k].size = source[tree'[k].mtime].size
  PROVE  Sized'
<1>1. UNCHANGED <<source, touched>>
  BY DEF histories
<1>2. ASSUME NEW k \in 1..Len(tree'), tree'[k].mtime \notin touched'
      PROVE  source'[tree'[k].mtime].size = tree'[k].size
  <2>1. CASE k \in 1..Len(tree)
    <3>1. tree'[k].mtime = tree[k].mtime /\ tree'[k].size = tree[k].size
      BY <2>1 DEF KeptNodes
    <3> QED  BY <1>1, <1>2, <2>1, <3>1 DEF Sized
  <2>2. CASE tree'[k].size = source[tree'[k].mtime].size
    BY <1>1, <2>2
  <2> QED  BY <2>1, <2>2
<1> QED  BY <1>2 DEF Sized

\* What other processes touch, they are known to have touched.
LEMMA SizedTouched ==
  ASSUME Shape, Sized, Known, NEW p, UNCHANGED tree, touched' = touched \cup {p},
         \A q \in DOMAIN source \ {p} : source'[q] = source[q]
  PROVE  Sized'
<1> SUFFICES ASSUME NEW n \in 1..Len(tree), tree[n].mtime \notin touched'
             PROVE  source'[tree[n].mtime].size = tree[n].size
  BY DEF Sized
<1>1. PICK q : q = tree[n].mtime
  OBVIOUS
<1>2. q \notin touched /\ q # p
  BY <1>1
<1>3. q \in DOMAIN source
  BY <1>1, <1>2 DEF Known
<1>4. source[q].size = tree[n].size
  BY <1>1, <1>2 DEF Sized
<1> QED  BY <1>1, <1>2, <1>3, <1>4

LEMMA StartSized == ASSUME Shape, fs_tree_collect PROVE Sized'
<1>1. tree = <<>> /\ UNCHANGED source
  BY DEF fs_tree_collect, Shape, Phases
<1>2. CASE CollectNothing \/ CollectOther
  <2>1. tree' = <<>> /\ Len(<<>>) = 0
    BY <1>1, <1>2 DEF CollectNothing, CollectOther
  <2> QED  BY <2>1 DEF Sized
<1>3. CASE CollectHead
  <2>1. PICK head : head = Inode(source, <<>>, HeadName, 1)
    OBVIOUS
  <2>2. PICK t : t = <<head>>
    OBVIOUS
  <2>3. Len(t) = 1 /\ t[1] = head /\ tree' = t
    BY <1>3, <2>1, <2>2 DEF CollectHead
  <2>4. head.mtime = <<>> /\ head.size = source[<<>>].size
    BY <2>1 DEF Inode
  <2>5. \A n \in 1..1 : n = 1
    OBVIOUS
  <2> QED  BY <1>1, <2>3, <2>4, <2>5 DEF Sized
<1> QED  BY <1>2, <1>3 DEF fs_tree_collect

LEMMA CountSized == ASSUME Shape, Sized, count_files_in_the_directory PROVE Sized'
<1>1. PICK counted \in SUBSET Inner.may :
              /\ Cardinality(counted) + 2 \in Nat
              /\ tree' = [tree EXCEPT ![Inner.dir].slots = Cardinality(counted) + 2]
  BY CountFacts
<1>2. at = "collecting" /\ UNCHANGED <<source, histories>>
  BY CountFacts
<1>3. KeptNodes /\ Len(tree') = Len(tree)
  BY <1>1, <1>2, CountedNodes
<1>4. \A k \in 1..Len(tree') : k \in 1..Len(tree)
  BY <1>3
<1> QED  BY <1>2, <1>3, <1>4, SizedKept DEF Shape

LEMMA ChildSized == ASSUME Shape, Sized, NEW e, process_dir_child(e) PROVE Sized'
<1>1. at = "collecting" /\ e \in Inner.may \ Inner.seen /\ UNCHANGED <<source, histories>>
  BY ChildFacts
<1>0. PICK n \in Names : n = e.name
  BY <1>1, InnerFacts DEF ListedEntry
<1>2. PICK p, d : /\ p = Append(InnerPath, n)
                  /\ ChildIsGone(p) \/ ChildIsSkipped(p, d) \/ ChildIsAdded(p, d)
  BY <1>0, ChildFacts
<1>3. CASE ChildIsGone(p) \/ ChildIsSkipped(p, d)
  <2>1. tree' = tree
    BY <1>3 DEF ChildIsGone, ChildIsSkipped
  <2>2. UNCHANGED <<source, touched>>
    BY <1>1 DEF histories
  <2> QED  BY <2>1, <2>2 DEF Sized
<1>4. CASE ChildIsAdded(p, d)
  <2>1. /\ KeptNodes /\ Len(tree') = Len(tree) + 1
        /\ tree'[Len(tree) + 1].mtime = p /\ tree'[Len(tree) + 1].size = source[p].size
    <3>1. Grafted(n, p)
      BY <1>1, <1>2, <1>4, AddedChild
    <3> QED  BY <3>1 DEF Grafted
  <2>2. Len(tree) \in Nat
    BY Lists DEF Shape
  <2>3. \A k \in 1..Len(tree') : k \in 1..Len(tree) \/ k = Len(tree) + 1
    BY <2>1, <2>2
  <2>4. \A k \in 1..Len(tree') : k \in 1..Len(tree)
                                 \/ tree'[k].size = source[tree'[k].mtime].size
    BY <2>1, <2>3
  <2> QED  BY <1>1, <2>1, <2>4, SizedKept DEF Shape
<1> QED  BY <1>2, <1>3, <1>4

LEMMA SizedNext == Shape /\ Complete /\ Sized /\ [Next]_vars => Sized'
<1> SUFFICES ASSUME Shape, Complete, Sized, [Next]_vars PROVE Sized'
  OBVIOUS
<1>1. CASE fs_tree_collect
  BY <1>1, StartSized
<1>2. CASE open_dir \/ CloseDir
  BY <1>2 DEF open_dir, CloseDir, InPass, histories, Sized
<1>3. CASE count_files_in_the_directory
  BY <1>3, CountSized
<1>4. ASSUME NEW e \in ListedEntry, process_dir_child(e) PROVE Sized'
  BY <1>4, ChildSized
<1>5. ASSUME NEW p \in Paths, NEW entry \in NewEntries, Appears(p, entry) PROVE Sized'
  <2>1. UNCHANGED tree /\ touched' = touched \cup {p}
    BY <1>5 DEF Appears, Changes
  <2>2. source' = [q \in DOMAIN source \cup {p} |-> IF q = p THEN entry ELSE source[q]]
    BY <1>5 DEF Appears
  <2>3. \A q \in DOMAIN source \ {p} : source'[q] = source[q]
    BY <2>2
  <2> QED  BY <2>1, <2>3, SizedTouched DEF Complete
<1>6. ASSUME NEW p \in Paths, Vanishes(p) PROVE Sized'
  <2>1. UNCHANGED tree /\ touched' = touched \cup {p}
    BY <1>6 DEF Vanishes, Changes
  <2>2. source' = [q \in DOMAIN source \ {p} |-> source[q]]
    BY <1>6 DEF Vanishes, Restrict
  <2>3. \A q \in DOMAIN source \ {p} : source'[q] = source[q]
    BY <2>2
  <2> QED  BY <2>1, <2>3, SizedTouched DEF Complete
<1>7. ASSUME NEW p \in Paths, NEW size \in {0, 2}, Resizes(p, size) PROVE Sized'
  <2>1. UNCHANGED tree /\ touched' = touched \cup {p}
    BY <1>7 DEF Resizes, Changes
  <2>2. \A q \in DOMAIN source \ {p} : source'[q] = source[q]
    BY <1>7 DEF Resizes
  <2> QED  BY <2>1, <2>2, SizedTouched DEF Complete
<1>8. CASE Beside
  BY <1>8 DEF Beside, Sized, histories
<1> QED  BY Steps, <1>1, <1>2, <1>3, <1>4, <1>5, <1>6, <1>7, <1>8

-----------------------------------------------------------------------------
(***************************************************************************)
(* The layout of an archive.  nodes is the tree, which stays as it is once *)
(* it was collected.                                                       *)
(***************************************************************************)
LEMMA PlanFacts ==
  ASSUME NEW nodes, NEW N, NEW order, NEW queue, NEW offset, Plan(nodes, N, order, queue, offset)
  PROVE  /\ N \in Nat \ {0} /\ Len(nodes) = N /\ DOMAIN nodes = 1..N
         /\ \A n \in 1..N : nodes[n] \in Node /\ SizeIn(nodes, n) \in Nat
         /\ order \in Seq(1..N) /\ Len(order) = N /\ order[1] = 1
         /\ \A i \in 1..N : order[i] \in 1..N
         /\ \A i, j \in 1..N : order[i] = order[j] => i = j
<1>1. N \in Nat \ {0} /\ Len(nodes) = N /\ DOMAIN nodes = 1..N
  BY DEF Plan, Family
<1>2. ASSUME NEW n \in 1..N PROVE nodes[n] \in Node /\ SizeIn(nodes, n) \in Nat
  <2>1. nodes \in Seq(Node)
    BY DEF Plan
  <2>2. PICK e \in Node : e = nodes[n]
    BY <1>1, <2>1, ElementOfSeq
  <2>3. e.size \in Nat
    BY <2>2 DEF Node
  <2> QED  BY <2>2, <2>3 DEF SizeIn
<1>3. /\ order \in Seq(1..N) /\ Len(order) = N /\ order[1] = 1
      /\ \A i, j \in 1..N : order[i] = order[j] => i = j
  BY WalkOrder DEF Plan
<1>4. \A i \in 1..N : order[i] \in 1..N
  BY <1>3, ElementOfSeq
<1> QED  BY <1>1, <1>2, <1>3, <1>4

LEMMA SplitIndex ==
  ASSUME NEW l \in Nat, NEW L \in Nat, NEW i \in 1..(l + L)
  PROVE  i \in 1..l \/ \E k \in 1..L : i = l + k
<1>1. CASE i <= l
  BY <1>1
<1>2. CASE i > l
  <2>1. PICK k : k = i - l
    OBVIOUS
  <2>2. k \in 1..L /\ i = l + k
    BY <1>2, <2>1
  <2> QED  BY <2>2
<1> QED  BY <1>1, <1>2

LEMMA PackedIsSlot ==
  ASSUME NEW nodes, NEW n, nodes[n] \in Node, SizeIn(nodes, n) \in Nat,
         NEW parentix \in Nat, NEW offset \in Nat
  PROVE  PackedOf(nodes, n, parentix, offset) \in Slot
         /\ PackedOf(nodes, n, parentix, offset).parent = parentix
<1>1. PICK e, s : e = nodes[n] /\ s = SizeIn(nodes, n)
  OBVIOUS
<1>2. /\ e.name \in Names /\ e.type \in {"reg", "dir"} /\ e.mode \in Modes /\ e.mtime \in Paths
      /\ s \in Nat
  BY <1>1 DEF Node
<1>3. PackedOf(nodes, n, parentix, offset)
        = [name |-> e.name, parent |-> parentix, type |-> e.type, mode |-> e.mode,
           mtime |-> e.mtime, contentOffset |-> offset, contentSize |-> s]
  BY <1>1 DEF PackedOf
<1> QED  BY <1>2, <1>3 DEF Slot

LEMMA QueueGrows ==
  ASSUME NEW nodes, NEW N, NEW order, NEW queue, NEW offset, Plan(nodes, N, order, queue, offset),
         NEW v \in 0..(N - 1)
  PROVE  Grows(nodes, N, order, queue, v)
<1>0. N \in Nat \ {0} /\ v \in 0..N /\ v + 1 \in 0..N /\ v + 1 \in 1..N /\ v < N
  BY PlanFacts
<1>1. PICK n \in 1..N : n = order[v + 1]
  BY <1>0, PlanFacts
<1>c. PICK c : c = nodes[n].children
  OBVIOUS
<1>4. Family(nodes, N) /\ Walk(nodes, N, order, queue)
  BY DEF Plan
<1>2. /\ c \in Seq(1..N) /\ Len(c) \in Nat /\ DOMAIN c = 1..Len(c)
      /\ \A k \in 1..Len(c) : c[k] \in 2..N /\ nodes[c[k]].parent = n
  <2>2. c \in Seq(1..N)
    BY <1>4, <1>c DEF Family
  <2>3. \A k \in 1..Len(c) : c[k] \in 2..N /\ nodes[c[k]].parent = n
    BY <1>4, <1>c DEF Family
  <2>4. Len(c) \in Nat /\ DOMAIN c = 1..Len(c)
    BY <2>2, LenProperties
  <2> QED  BY <2>2, <2>3, <2>4
<1>3. PICK q, r : q = queue[v] /\ r = queue[v + 1]
  OBVIOUS
<1>5. q \in Seq(1..N) /\ Len(q) \in 1..N /\ v + 1 <= Len(q)
  BY <1>0, <1>3, <1>4, WalkOrder
<1>6. r \in Seq(1..N) /\ Len(r) \in 1..N /\ \A i \in 1..Len(r) : r[i] = order[i]
  BY <1>0, <1>3, <1>4, WalkOrder
<1>7. r = q \o c
  BY <1>1, <1>c, <1>3, <1>4 DEF Walk
<1>8. /\ Len(r) = Len(q) + Len(c)
      /\ \A k \in 1..Len(c) : r[Len(q) + k] = c[k]
  BY <1>2, <1>5, <1>7, ConcatProperties
<1>9. v = 0 => Len(q) = 1
  <2>1. queue[0] = <<1>> /\ Len(<<1>>) = 1
    BY <1>4 DEF Walk
  <2> QED  BY <1>3, <2>1
<1>10. \A k \in 1..Len(c) : c[k] = order[Len(q) + k]
  <2>1. \A k \in 1..Len(c) : Len(q) + k \in 1..Len(r)
    BY <1>2, <1>5, <1>8
  <2> QED  BY <1>6, <1>8, <2>1
<1>11. PICK l : l = Len(q)
  OBVIOUS
<1>12. l + Len(c) \in 1..N
  BY <1>6, <1>8, <1>11
<1>13. Grown(nodes, N, order, v, l, c)
  BY <1>1, <1>2, <1>5, <1>9, <1>10, <1>11, <1>12 DEF Grown
<1> QED  BY <1>1, <1>c, <1>3, <1>8, <1>11, <1>13 DEF Grows

LEMMA VisitFacts ==
  ASSUME NEW s \in Seq(Slot), NEW v \in Nat, v + 1 \in 1..Len(s), NEW rec \in Slot,
         NEW c, Len(c) \in Nat
  PROVE  WellVisited(s, v, rec, c, Visit(s, v, rec, c))
<1>1. PICK j, m : j = v + 1 /\ m = [s EXCEPT ![j] = rec]
  OBVIOUS
<1>2. /\ m \in Seq(Slot) /\ Len(m) = Len(s) /\ m[j] = rec
      /\ \A i \in 1..Len(s) : i # j => m[i] = s[i]
  <2>1. m \in Seq(Slot) /\ Len(m) = Len(s) /\ \A i \in 1..Len(s) : m[i] = IF i = j THEN rec ELSE s[i]
    BY <1>1, ExceptSeq
  <2> QED  BY <1>1, <2>1
<1>3. PICK u, L : L = Len(c) /\ u = [k \in 1..L |-> [parent |-> j]]
  OBVIOUS
<1>4. u \in Seq(Slot) /\ Len(u) = L /\ \A k \in 1..L : u[k].parent = j
  <2>1. PICK e : e = [parent |-> j]
    OBVIOUS
  <2>2. e \in Slot /\ e.parent = j
    BY <1>1, <2>1 DEF Slot
  <2>3. u \in [1..L -> Slot] /\ L \in Nat
    BY <1>3, <2>1, <2>2
  <2>4. u \in Seq(Slot)
    BY <2>3
  <2>5. DOMAIN u = 1..L /\ Len(u) \in Nat /\ DOMAIN u = 1..Len(u)
    BY <1>3, <2>4, LenProperties
  <2>6. Len(u) = L
    BY <2>3, <2>5
  <2>7. \A k \in 1..L : u[k] = e
    BY <1>3, <2>1
  <2> QED  BY <2>2, <2>4, <2>6, <2>7
<1>5. PICK t : t = Visit(s, v, rec, c)
  OBVIOUS
<1>6. t = m \o u
  BY <1>1, <1>3, <1>5 DEF Visit
<1>7. /\ t \in Seq(Slot) /\ Len(t) = Len(m) + Len(u)
      /\ \A i \in 1..Len(m) : t[i] = m[i]
      /\ \A k \in 1..Len(u) : t[Len(m) + k] = u[k]
  <2>1. m \in Seq(Slot) /\ u \in Seq(Slot)
    BY <1>2, <1>4
  <2>2. /\ m \o u \in Seq(Slot) /\ Len(m \o u) = Len(m) + Len(u)
        /\ \A i \in 1..(Len(m) + Len(u)) : (m \o u)[i] = IF i <= Len(m) THEN m[i] ELSE u[i - Len(m)]
    BY <2>1, ConcatProperties
  <2>3. Len(m) \in Nat /\ Len(u) \in Nat
    BY <2>1, LenProperties
  <2>4. ASSUME NEW i \in 1..Len(m) PROVE (m \o u)[i] = m[i]
    BY <2>2, <2>3
  <2>5. ASSUME NEW k \in 1..Len(u) PROVE (m \o u)[Len(m) + k] = u[k]
    <3>1. Len(m) + k \in 1..(Len(m) + Len(u)) /\ ~(Len(m) + k <= Len(m)) /\ (Len(m) + k) - Len(m) = k
      BY <2>3
    <3> QED  BY <2>2, <3>1
  <2> QED  BY <1>6, <2>2, <2>4, <2>5
<1>8. t[j] = rec
  BY <1>1, <1>2, <1>7
<1>9. \A i \in 1..Len(s) : i # j => t[i] = s[i]
  BY <1>2, <1>7
<1>10. \A k \in 1..L : t[Len(s) + k].parent = j
  BY <1>2, <1>4, <1>7
<1>11. Len(t) = Len(s) + L
  BY <1>2, <1>4, <1>7
<1> QED  BY <1>1, <1>3, <1>5, <1>7, <1>8, <1>9, <1>10, <1>11 DEF WellVisited

\* Visiting an inode completes its entry and begins those of its children.
LEMMA SlotsStep ==
  ASSUME NEW nodes, NEW N, NEW order, NEW queue, NEW offset, Plan(nodes, N, order, queue, offset),
         NEW v \in 0..(N - 1), NEW made, Slots(made, nodes, order, offset, v),
         NEW c, Grown(nodes, N, order, v, Len(made), c)
  PROVE  \E t : /\ t = Visit(made, v, PackedOf(nodes, order[v + 1], made[v + 1].parent, offset[v]), c)
                /\ Slots(t, nodes, order, offset, v + 1)
                /\ Len(t) = Len(made) + Len(c)
<1>0. N \in Nat \ {0} /\ v \in Nat /\ v + 1 \in 1..N /\ v \in 0..N
  BY PlanFacts
<1>1. PICK l, j, rec, t :
        /\ l = Len(made) /\ j = v + 1
        /\ rec = PackedOf(nodes, order[j], made[j].parent, offset[v])
        /\ t = Visit(made, v, rec, c)
  OBVIOUS
<1>2. /\ l \in 1..N /\ j \in 1..l /\ (v = 0 => l = 1)
      /\ Len(c) \in Nat
  BY <1>0, <1>1 DEF Grown
<1>3. \A k \in 1..Len(c) : order[j] = nodes[order[l + k]].parent
  BY <1>1 DEF Grown
<1>4. /\ made \in Seq(Slot)
      /\ \A i \in 1..l :
           /\ made[i].parent \in 1..i /\ (made[i].parent = i <=> i = 1)
           /\ i # 1 => order[made[i].parent] = nodes[order[i]].parent
           /\ i <= v => made[i] = PackedOf(nodes, order[i], made[i].parent, offset[i - 1])
  BY <1>1 DEF Slots
<1>5. rec \in Slot /\ rec.parent = made[j].parent
  <2>1. order[j] \in 1..N
    BY <1>0, <1>1, PlanFacts
  <2>2. made[j].parent \in Nat
    <3>1. made[j].parent \in 1..j /\ j \in Nat
      BY <1>2, <1>4
    <3> QED  BY <3>1
  <2>3. offset[v] \in Nat
    BY <1>0 DEF Plan, Offsets
  <2>4. PICK n \in 1..N, parentix \in Nat, o \in Nat :
          n = order[j] /\ parentix = made[j].parent /\ o = offset[v]
    BY <2>1, <2>2, <2>3
  <2>5. nodes[n] \in Node /\ SizeIn(nodes, n) \in Nat
    BY PlanFacts
  <2>6. rec = PackedOf(nodes, n, parentix, o)
    BY <1>1, <2>4
  <2>7. rec \in Slot /\ rec.parent = parentix
    BY <2>5, <2>6, PackedIsSlot
  <2> QED  BY <2>4, <2>7
<1>6. /\ t \in Seq(Slot) /\ Len(t) = l + Len(c) /\ t[j] = rec
      /\ \A i \in 1..l : i # j => t[i] = made[i]
      /\ \A k \in 1..Len(c) : t[l + k].parent = j
  <2>1. v + 1 \in 1..Len(made)
    BY <1>1, <1>2
  <2>2. made \in Seq(Slot) /\ v \in Nat /\ rec \in Slot /\ Len(c) \in Nat
    BY <1>0, <1>2, <1>4, <1>5
  <2>3. WellVisited(made, v, rec, c, t)
    BY <1>1, <2>1, <2>2, VisitFacts
  <2> QED  BY <1>1, <2>3 DEF WellVisited
<1>7. ASSUME NEW i \in 1..l, i # j
      PROVE  /\ t[i].parent \in 1..i /\ (t[i].parent = i <=> i = 1)
             /\ i # 1 => order[t[i].parent] = nodes[order[i]].parent
             /\ i <= v + 1 => t[i] = PackedOf(nodes, order[i], t[i].parent, offset[i - 1])
  <2>1. t[i] = made[i]
    BY <1>6, <1>7
  <2>2. i <= v + 1 => i <= v
    BY <1>0, <1>1, <1>2, <1>7
  <2> QED  BY <1>4, <2>1, <2>2
<1>8. /\ t[j].parent \in 1..j /\ (t[j].parent = j <=> j = 1)
      /\ j # 1 => order[t[j].parent] = nodes[order[j]].parent
      /\ t[j] = PackedOf(nodes, order[j], t[j].parent, offset[j - 1])
  <2>1. j - 1 = v
    BY <1>0, <1>1
  <2> QED  BY <1>1, <1>2, <1>4, <1>5, <1>6, <2>1
<1>9. ASSUME NEW k \in 1..Len(c), NEW i, i = l + k
      PROVE  /\ t[i].parent \in 1..i /\ (t[i].parent = i <=> i = 1)
             /\ i # 1 => order[t[i].parent] = nodes[order[i]].parent
             /\ ~(i <= v + 1)
  <2>1. t[i].parent = j
    BY <1>6, <1>9
  <2>2. j < i /\ i # 1 /\ j \in 1..i /\ ~(i <= v + 1)
    BY <1>0, <1>1, <1>2, <1>9
  <2>3. order[j] = nodes[order[i]].parent
    BY <1>3, <1>9
  <2> QED  BY <1>1, <1>2, <2>1, <2>2, <2>3
<1>10. \A i \in 1..(l + Len(c)) : i \in 1..l \/ \E k \in 1..Len(c) : i = l + k
  BY <1>2, SplitIndex
<1>11. Slots(t, nodes, order, offset, v + 1)
  <2>1. ASSUME NEW i \in 1..Len(t)
        PROVE  /\ t[i].parent \in 1..i /\ (t[i].parent = i <=> i = 1)
               /\ i # 1 => order[t[i].parent] = nodes[order[i]].parent
               /\ i <= v + 1 => t[i] = PackedOf(nodes, order[i], t[i].parent, offset[i - 1])
    <3>1. CASE i \in 1..l /\ i # j
      BY <1>7, <3>1
    <3>2. CASE i = j
      BY <1>8, <3>2
    <3>3. CASE \E k \in 1..Len(c) : i = l + k
      BY <1>9, <3>3
    <3> QED  BY <1>6, <1>10, <3>1, <3>2, <3>3
  <2> QED  BY <1>6, <2>1 DEF Slots
<1> QED  BY <1>1, <1>6, <1>11

\* The index of each child is noted.
LEMMA IndexedStep ==
  ASSUME NEW nodes, NEW N, NEW order, NEW queue, NEW offset, Plan(nodes, N, order, queue, offset),
         NEW v \in 0..(N - 1), NEW u, NEW l, Indexed(u, order, l),
         NEW c, Grown(nodes, N, order, v, l, c)
  PROVE  Indexed(Noted(u, l, c), order, l + Len(c))
<1>0. N \in Nat \ {0} /\ \A i, j \in 1..N : order[i] = order[j] => i = j
  BY PlanFacts
<1>1. PICK L, t, R : L = Len(c) /\ t = Noted(u, l, c) /\ R = Range(c)
  OBVIOUS
<1>2. /\ l \in 1..N /\ L \in Nat /\ l + L \in 1..N /\ DOMAIN c = 1..L
      /\ \A k \in 1..L : c[k] = order[l + k]
  BY <1>1 DEF Grown
<1>3. /\ DOMAIN t = DOMAIN u \cup R
      /\ \A x \in DOMAIN u : x \notin R => t[x] = u[x]
      /\ \A x \in R : t[x] = l + CHOOSE k \in 1..L : c[k] = x
  BY <1>1 DEF Noted
<1>4. R = {order[l + k] : k \in 1..L}
  BY <1>1, <1>2 DEF Range
<1>5. \A k, j \in 1..L : order[l + k] = order[l + j] => k = j
  <2> TAKE k, j \in 1..L
  <2>1. l + j \in 1..N /\ l + k \in 1..N
    <3>1. l \in 1..N /\ L \in Nat /\ l + L \in 1..N
      BY <1>2
    <3> QED  BY <1>0, <3>1
  <2>2. order[l + k] = order[l + j] => l + k = l + j
    BY <1>0, <2>1
  <2>3. l + k = l + j => k = j
    <3>1. l \in Nat /\ L \in Nat
      BY <1>2
    <3> QED  BY <3>1
  <2> QED  BY <2>2, <2>3
<1>6. ASSUME NEW k \in 1..L PROVE t[order[l + k]] = l + k
  <2>1. PICK x : x = order[l + k]
    OBVIOUS
  <2>2. x \in R
    BY <1>4, <2>1
  <2>3. \A j \in 1..L : c[j] = x <=> j = k
    BY <1>2, <1>5, <2>1
  <2>4. (CHOOSE j \in 1..L : c[j] = x) = k
    BY <2>3
  <2> QED  BY <1>3, <2>1, <2>2, <2>4
<1>7. DOMAIN u = {order[i] : i \in 2..l} /\ \A i \in 2..l : u[order[i]] = i
  BY DEF Indexed
<1>8. ASSUME NEW i \in 2..l PROVE t[order[i]] = i
  <2>1. order[i] \in DOMAIN u /\ u[order[i]] = i
    BY <1>7
  <2>2. ASSUME NEW k \in 1..L PROVE i \in 1..N /\ l + k \in 1..N /\ i # l + k
    <3>1. l \in 1..N /\ L \in Nat /\ l + L \in 1..N
      BY <1>2
    <3> QED  BY <1>0, <3>1
  <2>3. \A k \in 1..L : order[i] # order[l + k]
    BY <1>0, <2>2
  <2>4. order[i] \notin R
    BY <1>4, <2>3
  <2> QED  BY <1>3, <2>1, <2>4
<1>9. PICK w : w = l + L
  OBVIOUS
<1>10. \A i \in 2..w : i \in 2..l \/ \E k \in 1..L : i = l + k
  <2> TAKE i \in 2..w
  <2>1. i \in 1..(l + L)
    BY <1>9
  <2>2. i \in 1..l \/ \E k \in 1..L : i = l + k
    BY <1>2, <2>1, SplitIndex
  <2> QED  BY <2>2
<1>11. \A i \in 2..w : t[order[i]] = i
  BY <1>6, <1>8, <1>10
<1>12. DOMAIN t = {order[i] : i \in 2..w}
  <2>3. \A i \in 2..l : i \in 2..w
    BY <1>2, <1>9
  <2>4. \A k \in 1..L : l + k \in 2..w
    BY <1>2, <1>9
  <2>5. DOMAIN t \subseteq {order[i] : i \in 2..w}
    BY <1>3, <1>4, <1>7, <2>3, <2>4
  <2>6. ASSUME NEW i \in 2..w PROVE order[i] \in DOMAIN t
    BY <1>3, <1>4, <1>7, <1>10
  <2> QED  BY <2>5, <2>6
<1> QED  BY <1>1, <1>9, <1>11, <1>12 DEF Indexed
-----------------------------------------------------------------------------
(***************************************************************************)
(* The steps of pack that come after the tree was collected.               *)
(***************************************************************************)
\* There is a plan of every tree that was collected.
LEMMA PlanExists ==
  ASSUME Typed, NEW N, Family(tree, N)
  PROVE  \E queue, offset :
           /\ Plan(tree, N, fs_tree_bfs(tree), queue, offset)
           /\ FoldLeft(LAMBDA sum, n : sum + ContentOf(n), 0, fs_tree_bfs(tree)) = offset[N]
<1>1. PICK nodes, order : nodes = tree /\ order = fs_tree_bfs(tree)
  OBVIOUS
<1>2. PICK queue : Walk(nodes, N, order, queue)
  BY <1>1, BfsWalk
<1>3. /\ N \in Nat \ {0} /\ order \in Seq(1..N) /\ Len(order) = N
  BY <1>1, <1>2, WalkOrder
<1>4. DOMAIN order = 1..N
  BY <1>3, LenProperties
<1>5. PICK sum : /\ SumsOf([i \in 1..N |-> ContentOf(order[i])], N, sum)
                 /\ FoldLeft(LAMBDA acc, n : acc + ContentOf(n), 0, order) = sum[1..N]
  BY <1>3, <1>4, ContentSum
<1>6. ASSUME NEW i \in 1..N PROVE ContentOf(order[i]) \in Nat /\ ContentOf(order[i]) = SizeIn(nodes, order[i])
  <2>1. PICK n \in 1..N : n = order[i]
    BY <1>3, ElementOfSeq
  <2>2. PICK e \in Node : e = tree[n]
    <3>1. tree \in Seq(Node) /\ Len(tree) = N
      BY DEF Typed, Family
    <3> QED  BY <3>1, ElementOfSeq
  <2>3. e.size \in Nat
    BY DEF Node
  <2>4. ContentOf(n) = (IF e.type = "reg" THEN e.size ELSE 0)
    BY <2>2 DEF ContentOf
  <2>5. SizeIn(nodes, n) = (IF e.type = "reg" THEN e.size ELSE 0)
    BY <1>1, <2>2 DEF SizeIn
  <2> QED  BY <2>1, <2>3, <2>4, <2>5
<1>7. PICK v : v = [i \in 1..N |-> ContentOf(order[i])]
  OBVIOUS
<1>8. v \in [1..N -> Nat] /\ SumsOf(v, N, sum) /\ \A i \in 1..N : v[i] = SizeIn(nodes, order[i])
  BY <1>5, <1>6, <1>7
<1>9. /\ sum[1..0] = 0
      /\ \A i \in 1..N : sum[1..i] = sum[1..(i - 1)] + v[i]
      /\ \A i \in 0..N : sum[1..i] \in Nat
  BY <1>3, <1>8, SumSteps
<1>10. PICK offset : offset = [i \in 0..N |-> sum[1..i]]
  OBVIOUS
<1>11. Offsets(nodes, N, order, offset)
  <2>1. \A i \in 0..N : offset[i] = sum[1..i]
    BY <1>10
  <2>2. offset[0] = 0
    BY <1>3, <1>9, <2>1
  <2>3. \A i \in 0..N : offset[i] \in Nat
    BY <1>9, <2>1
  <2>4. ASSUME NEW i \in 1..N PROVE offset[i] = offset[i - 1] + SizeIn(nodes, order[i])
    <3>1. i \in 0..N /\ i - 1 \in 0..N
      BY <1>3
    <3> QED  BY <1>8, <1>9, <2>1, <3>1
  <2> QED  BY <2>2, <2>3, <2>4 DEF Offsets
<1>12. Plan(nodes, N, order, queue, offset)
  BY <1>1, <1>2, <1>11 DEF Plan, Typed
<1>13. offset[N] = sum[1..N]
  BY <1>3, <1>10
<1> QED  BY <1>1, <1>5, <1>12, <1>13

LEMMA PackSteps ==
  ASSUME [Next]_vars
  PROVE  \/ /\ Collect
            /\ UNCHANGED <<packVars, archive>>
         \/ Aside
         \/ computeArchiveSize
         \/ addInodeToArchive
         \/ WriteHeader
         \/ writeContentToArchive
         \/ PackReturns
         \/ ArchiveIsCut
<1>1. CASE UNCHANGED vars
  BY <1>1 DEF vars, fsVars, histories, Aside
<1>2. CASE UsesArchive
  BY <1>2 DEF UsesArchive, fsVars, histories, Aside
<1>3. CASE OtherProcesses /\ UNCHANGED <<packVars, archive>>
  BY <1>3 DEF OtherProcesses, Appears, Vanishes, Resizes, Changes, Aside
<1> QED  BY <1>1, <1>2, <1>3 DEF Next, pack

\* Where collecting is, and where it gets.
LEMMA CollectAt ==
  ASSUME Collect
  PROVE  /\ at \in {"start", "collecting"}
         /\ at' \in {"start", "collecting", "collected", "exited", "crashed"}
<1>1. CASE fs_tree_collect
  BY <1>1 DEF fs_tree_collect, CollectNothing, CollectOther, CollectHead
<1>2. CASE open_dir
  BY <1>2 DEF open_dir, InPass
<1>3. CASE count_files_in_the_directory
  BY <1>3 DEF count_files_in_the_directory, InPass
<1>4. ASSUME NEW e, process_dir_child(e)
      PROVE  at = "collecting" /\ at' \in {"collecting", "exited", "crashed"}
  BY <1>4 DEF process_dir_child, ChildIsGone, ChildIsSkipped, ChildIsAdded, InPass
<1>5. CASE CloseDir
  BY <1>5 DEF CloseDir, InPass
<1> QED  BY <1>1, <1>2, <1>3, <1>4, <1>5 DEF Collect

LEMMA BegunNext == Begun /\ [Next]_vars => Begun'
<1> SUFFICES ASSUME Begun, [Next]_vars PROVE Begun'
  OBVIOUS
<1>1. CASE Collect /\ UNCHANGED <<packVars, archive>>
  BY <1>1, CollectAt DEF packVars, layoutVars, Begun
<1>2. CASE Aside
  BY <1>2 DEF Aside, packVars, layoutVars, Begun
<1>3. CASE computeArchiveSize
  BY <1>3 DEF computeArchiveSize, Begun
<1>4. CASE addInodeToArchive
  BY <1>4 DEF addInodeToArchive, fsVars, Begun
<1>5. CASE WriteHeader \/ PackReturns
  BY <1>5 DEF WriteHeader, PackReturns, Begun
<1>6. CASE writeContentToArchive
  BY <1>6 DEF writeContentToArchive, writeOneFileToArcive, Begun
<1>7. CASE ArchiveIsCut
  BY <1>7 DEF ArchiveIsCut, fsVars, Begun
<1> QED  BY PackSteps, <1>1, <1>2, <1>3, <1>4, <1>5, <1>6, <1>7

\* The first step lays out nothing yet.
LEMMA SizeLayout == ASSUME Shape, Related, Begun, computeArchiveSize PROVE Layout'
<1>1. /\ at = "collected" /\ at' = "layout"
      /\ UNCHANGED <<tree, metas, userData, contentFreePosition, walked, written>>
      /\ contentSize' = FoldLeft(LAMBDA sum, n : sum + ContentOf(n), 0, fs_tree_bfs(tree))
  BY DEF computeArchiveSize
<1>2. tree # <<>> /\ Typed
  BY <1>1 DEF Shape, Phases
<1>3. PICK N : N = Len(tree)
  OBVIOUS
<1>4. Family(tree, N)
  BY <1>2, <1>3 DEF Related
<1>5. PICK queue, offset :
           /\ Plan(tree, N, fs_tree_bfs(tree), queue, offset)
           /\ FoldLeft(LAMBDA sum, n : sum + ContentOf(n), 0, fs_tree_bfs(tree)) = offset[N]
  BY <1>2, <1>4, PlanExists
<1>6. PICK order : order = fs_tree_bfs(tree)
  OBVIOUS
<1>7. /\ metas' = <<>> /\ userData' = <<>> /\ contentFreePosition' = 0 /\ walked' = 0
      /\ written' = 0
  BY <1>1 DEF Begun
<1>8. N \in Nat \ {0} /\ offset[0] = 0
  BY <1>5, PlanFacts DEF Plan, Offsets
<1>9. <<>> \in Seq(Slot) /\ Len(<<>>) = 0
  OBVIOUS
<1>10. Slots(<<>>, tree, order, offset, 0)
  BY <1>9 DEF Slots
<1>11. Indexed(<<>>, order, 0)
  <2>1. DOMAIN <<>> = {} /\ 2..0 = {}
    OBVIOUS
  <2> QED  BY <2>1 DEF Indexed
<1>12. Laid(N, order, queue, offset)'
  <2>1. contentSize' = offset[N]
    BY <1>1, <1>5
  <2>2. Plan(tree, N, order, queue, offset)
    BY <1>5, <1>6
  <2>3. Plan(tree', N, order, queue, offset)
    BY <1>1, <2>2
  <2>4. walked' \in 0..N /\ contentFreePosition' = offset[walked']
    BY <1>7, <1>8
  <2>5. Slots(metas', tree', order, offset, walked')
    BY <1>1, <1>7, <1>10
  <2>6. Len(metas') = 0 /\ walked' = 0
    BY <1>7, <1>9
  <2>7. Indexed(userData', order, Len(metas'))
    BY <1>7, <1>11, <2>6
  <2> QED  BY <2>1, <2>3, <2>4, <2>5, <2>6, <2>7 DEF Laid
<1> QED  BY <1>1, <1>7, <1>12 DEF Layout

LEMMA EntryIsMade ==
  ASSUME NEW N, NEW order, NEW queue, NEW offset, Laid(N, order, queue, offset), walked < N
  PROVE  EntryReady(N, order, queue, offset, IndexOf(order[walked + 1]),
                    MadeFor(IndexOf(order[walked + 1])))
<1>0. PICK n, index, made : n = order[walked + 1] /\ index = IndexOf(n) /\ made = MadeFor(index)
  OBVIOUS
<1>1. /\ Plan(tree, N, order, queue, offset) /\ walked \in 0..N
      /\ Slots(metas, tree, order, offset, walked)
      /\ Len(metas) = (IF walked = 0 THEN 0 ELSE Len(queue[walked]))
      /\ Indexed(userData, order, Len(metas))
  BY DEF Laid
<1>2. N \in Nat \ {0} /\ walked \in 0..(N - 1)
  BY <1>1, PlanFacts
<1>3. CASE walked = 0
  <2>1. Len(metas) = 0
    BY <1>1, <1>3
  <2>2. DOMAIN userData = {}
    BY <1>1, <2>1 DEF Indexed
  <2>3. index = 1
    BY <1>0, <2>1, <2>2 DEF IndexOf
  <2>4. PICK e : e = [parent |-> 1]
    OBVIOUS
  <2>5. metas = <<>>
    <3>1. metas \in Seq(Slot)
      BY <1>1 DEF Slots
    <3> QED  BY <2>1, <3>1, EmptySeq
  <2>6. made = <<e>>
    <3>1. made = Append(<<>>, e)
      BY <1>0, <2>1, <2>3, <2>4, <2>5 DEF MadeFor
    <3> QED  BY <3>1
  <2>7. e \in Slot /\ e.parent = 1
    BY <2>4 DEF Slot
  <2>8. Len(made) = 1 /\ made \in Seq(Slot) /\ made[1] = e
    <3>1. made[1] = e /\ Len(made) = 1
      BY <2>6
    <3> QED  BY <2>6, <2>7, <3>1
  <2>9. Slots(made, tree, order, offset, walked)
    <3>1. ASSUME NEW i \in 1..Len(made)
          PROVE  i = 1 /\ made[i].parent = 1 /\ ~(i <= walked)
      BY <1>3, <2>7, <2>8
    <3> QED  BY <2>8, <3>1 DEF Slots
  <2>10. Indexed(userData, order, 1)
    <3>1. 2..1 = {} /\ 2..0 = {}
      OBVIOUS
    <3> QED  BY <1>1, <2>1, <3>1 DEF Indexed
  <2>11. Len(queue[walked]) = 1
    <3>1. Grows(tree, N, order, queue, walked)
      BY <1>1, <1>2, QueueGrows
    <3> QED  BY <1>3, <3>1 DEF Grows, Grown
  <2>12. Len(made) = Len(queue[walked]) /\ index = walked + 1
    BY <1>3, <2>3, <2>8, <2>11
  <2>13. Indexed(userData, order, Len(made))
    BY <2>8, <2>10
  <2>14. EntryReady(N, order, queue, offset, index, made)
    BY <1>2, <2>9, <2>12, <2>13 DEF EntryReady
  <2> QED  BY <1>0, <2>14
<1>4. CASE walked # 0
  <2>1. Len(metas) = Len(queue[walked])
    BY <1>1, <1>4
  <2>2. walked + 1 <= Len(queue[walked]) /\ Len(queue[walked]) \in 1..N
    <3>1. Grows(tree, N, order, queue, walked)
      BY <1>1, <1>2, QueueGrows
    <3> QED  BY <3>1 DEF Grows, Grown
  <2>3. walked + 1 \in 2..Len(metas)
    BY <1>2, <1>4, <2>1, <2>2
  <2>4. n \in DOMAIN userData /\ userData[n] = walked + 1
    BY <1>0, <1>1, <2>3 DEF Indexed
  <2>5. index = walked + 1 /\ ~(index > Len(metas))
    BY <1>0, <2>1, <2>2, <2>3, <2>4 DEF IndexOf
  <2>6. made = metas
    BY <1>0, <2>5 DEF MadeFor
  <2>7. EntryReady(N, order, queue, offset, index, made)
    BY <1>1, <1>2, <2>1, <2>5, <2>6 DEF EntryReady
  <2> QED  BY <1>0, <2>7
<1> QED  BY <1>3, <1>4

\* Visiting an inode.
LEMMA VisitLayout ==
  ASSUME NEW N, NEW order, NEW queue, NEW offset, Laid(N, order, queue, offset),
         Layout, addInodeToArchive
  PROVE  Layout'
<1>1. /\ at = "layout" /\ UNCHANGED <<at, tree, contentSize, written>>
      /\ walked < Len(fs_tree_bfs(tree)) /\ walked' = walked + 1
  BY DEF addInodeToArchive, fsVars
<1>2. /\ Plan(tree, N, order, queue, offset) /\ contentSize = offset[N]
      /\ walked \in 0..N /\ contentFreePosition = offset[walked]
  BY DEF Laid
<1>3. /\ order = fs_tree_bfs(tree) /\ Len(order) = N /\ N \in Nat
  BY <1>2, PlanFacts DEF Plan
<1>4. PICK n : n = order[walked + 1]
  OBVIOUS
<1>5. PICK index : index = IndexOf(n)
  OBVIOUS
<1>6. PICK made : made = MadeFor(index)
  OBVIOUS
<1>7. PICK c : c = tree[n].children
  OBVIOUS
<1>8. /\ walked \in 0..(N - 1) /\ index = walked + 1 /\ Len(made) = Len(queue[walked])
      /\ Slots(made, tree, order, offset, walked)
      /\ Indexed(userData, order, Len(made))
  <2>1. EntryReady(N, order, queue, offset, index, made)
    <3>1. walked < N
      BY <1>1, <1>3
    <3> QED  BY <1>4, <1>5, <1>6, <3>1, EntryIsMade
  <2> QED  BY <2>1 DEF EntryReady
<1>9. PICK l, v : l = Len(made) /\ v = walked
  OBVIOUS
<1>10. /\ Grown(tree, N, order, v, l, c) /\ Len(queue[v + 1]) = l + Len(c)
  <2>1. Grows(tree, N, order, queue, walked)
    BY <1>2, <1>8, QueueGrows
  <2> QED  BY <1>4, <1>7, <1>8, <1>9, <2>1 DEF Grows
<1>11. /\ metas' = [made EXCEPT ![index] = Packed(n, made[index].parent, contentFreePosition)]
                     \o [k \in 1..Len(c) |-> [parent |-> index]]
       /\ userData' = [x \in DOMAIN userData \cup Range(c) |->
                           IF x \notin Range(c) THEN userData[x]
                           ELSE Len(made) + CHOOSE k \in 1..Len(c) : c[k] = x]
       /\ contentFreePosition' = contentFreePosition + ContentOf(n)
  BY <1>3, <1>4, <1>5, <1>6, <1>7 DEF addInodeToArchive, IndexOf, MadeFor
<1>12. ContentOf(n) = SizeIn(tree, n)
  BY DEF ContentOf, SizeIn
<1>13. PICK rec : rec = PackedOf(tree, n, made[v + 1].parent, offset[v])
  OBVIOUS
<1>14. rec = Packed(n, made[index].parent, contentFreePosition)
  BY <1>2, <1>8, <1>9, <1>12, <1>13 DEF Packed, PackedOf
<1>15. metas' = Visit(made, v, rec, c)
  BY <1>8, <1>9, <1>11, <1>14 DEF Visit
<1>16. userData' = Noted(userData, l, c)
  BY <1>9, <1>11 DEF Noted
<1>17. Slots(metas', tree, order, offset, v + 1) /\ Len(metas') = l + Len(c)
  <2>1. \E t : /\ t = Visit(made, v, rec, c)
               /\ Slots(t, tree, order, offset, v + 1)
               /\ Len(t) = Len(made) + Len(c)
    <3>1. v \in 0..(N - 1) /\ Slots(made, tree, order, offset, v)
      BY <1>8, <1>9
    <3>2. Grown(tree, N, order, v, Len(made), c)
      BY <1>9, <1>10
    <3>3. rec = PackedOf(tree, order[v + 1], made[v + 1].parent, offset[v])
      BY <1>4, <1>9, <1>13
    <3> QED  BY <1>2, <3>1, <3>2, <3>3, SlotsStep
  <2> QED  BY <1>9, <1>15, <2>1
<1>18. Indexed(userData', order, l + Len(c))
  <2>1. v \in 0..(N - 1) /\ Indexed(userData, order, l)
    BY <1>8, <1>9
  <2>2. Indexed(Noted(userData, l, c), order, l + Len(c))
    BY <1>2, <1>10, <2>1, IndexedStep
  <2> QED  BY <1>16, <2>2
<1>19. contentFreePosition' = offset[v + 1]
  <2>1. v + 1 \in 1..N /\ (v + 1) - 1 = v /\ n = order[v + 1]
    BY <1>3, <1>4, <1>8, <1>9
  <2>2. Offsets(tree, N, order, offset)
    BY <1>2 DEF Plan
  <2>3. offset[v + 1] = offset[v] + SizeIn(tree, n)
    BY <2>1, <2>2 DEF Offsets
  <2> QED  BY <1>2, <1>9, <1>11, <1>12, <2>3
<1>20. Laid(N, order, queue, offset)'
  <2>1. Plan(tree', N, order, queue, offset) /\ contentSize' = offset[N]
    BY <1>1, <1>2
  <2>2. walked' = v + 1 /\ v + 1 \in 0..N /\ walked' # 0
    BY <1>1, <1>3, <1>8, <1>9
  <2>3. contentFreePosition' = offset[walked']
    BY <1>19, <2>2
  <2>4. Slots(metas', tree', order, offset, walked')
    BY <1>1, <1>17, <2>2
  <2>5. Len(metas') = Len(queue[walked'])
    BY <1>10, <1>17, <2>2
  <2>6. Indexed(userData', order, Len(metas'))
    BY <1>17, <1>18
  <2> QED  BY <2>1, <2>2, <2>3, <2>4, <2>5, <2>6 DEF Laid
<1> QED  BY <1>1, <1>20 DEF Layout

\* Everything that stays with it keeps the layout.
LEMMA LayoutStays ==
  ASSUME Layout, UNCHANGED <<tree, layoutVars>>, at \in {"layout", "writing", "packed", "failed"},
         at' = "layout" => at = "layout" /\ written' = written,
         at' # "layout" => walked = Len(tree)
  PROVE  Layout'
<1>1. PICK N, order, queue, offset : Laid(N, order, queue, offset)
  BY DEF Layout
<1>2. Laid(N, order, queue, offset)'
  BY <1>1 DEF Laid, layoutVars
<1>3. UNCHANGED <<tree, walked>>
  BY DEF layoutVars
<1> QED  BY <1>2, <1>3 DEF Layout

LEMMA LayoutNext == Shape /\ Related /\ Begun /\ Layout /\ [Next]_vars => Layout'
<1> SUFFICES ASSUME Shape, Related, Begun, Layout, [Next]_vars PROVE Layout'
  OBVIOUS
<1>1. CASE Collect
  BY <1>1, CollectAt DEF Layout
<1>2. CASE Aside
  <2>1. UNCHANGED <<at, tree, layoutVars, written>>
    BY <1>2 DEF Aside, packVars
  <2>2. CASE at \in {"layout", "writing", "packed", "failed"}
    BY <2>1, <2>2, LayoutStays DEF Layout
  <2>3. CASE at \notin {"layout", "writing", "packed", "failed"}
    BY <2>1, <2>3 DEF Layout
  <2> QED  BY <2>2, <2>3
<1>3. CASE computeArchiveSize
  BY <1>3, SizeLayout
<1>4. CASE addInodeToArchive
  <2>1. at = "layout"
    BY <1>4 DEF addInodeToArchive
  <2>2. PICK N, order, queue, offset : Laid(N, order, queue, offset)
    BY <2>1 DEF Layout
  <2> QED  BY <1>4, <2>2, VisitLayout
<1>5. CASE WriteHeader
  <2>1. /\ at = "layout" /\ at' = "writing" /\ UNCHANGED <<tree, layoutVars>>
        /\ walked = Len(fs_tree_bfs(tree))
    BY <1>5 DEF WriteHeader, packVars
  <2>2. PICK N, order, queue, offset : Laid(N, order, queue, offset)
    BY <2>1 DEF Layout
  <2>3. Len(fs_tree_bfs(tree)) = N /\ Len(tree) = N
    BY <2>2, PlanFacts DEF Laid, Plan
  <2> QED  BY <2>1, <2>3, LayoutStays
<1>6. CASE writeContentToArchive
  <2>1. /\ at = "writing" /\ at' # "layout" /\ UNCHANGED <<tree, layoutVars>>
    BY <1>6 DEF writeContentToArchive, writeOneFileToArcive
  <2>2. walked = Len(tree)
    BY <2>1 DEF Layout
  <2> QED  BY <2>1, <2>2, LayoutStays
<1>7. CASE PackReturns
  <2>1. /\ at = "writing" /\ at' = "packed" /\ UNCHANGED <<tree, layoutVars>>
    BY <1>7 DEF PackReturns, packVars
  <2>2. walked = Len(tree)
    BY <2>1 DEF Layout
  <2> QED  BY <2>1, <2>2, LayoutStays
<1>8. CASE ArchiveIsCut
  <2>1. /\ at = "packed" /\ at' = at /\ UNCHANGED <<tree, layoutVars>>
    BY <1>8 DEF ArchiveIsCut, fsVars, packVars
  <2>2. walked = Len(tree)
    BY <2>1 DEF Layout
  <2> QED  BY <2>1, <2>2, LayoutStays
<1> QED  BY PackSteps, <1>1, <1>2, <1>3, <1>4, <1>5, <1>6, <1>7, <1>8
-----------------------------------------------------------------------------
(***************************************************************************)
(* The contents of an archive.  An entry's mtime is its path, as an        *)
(* inode's is.                                                             *)
(***************************************************************************)
\* Where the contents of entries end, they end in their order.
LEMMA OffsetsGrow ==
  ASSUME NEW N \in Nat, NEW offset, \A i \in 0..N : offset[i] \in Nat,
         \A i \in 1..N : offset[i - 1] <= offset[i]
  PROVE  \A j \in 0..N : \A i \in 0..j : offset[i] <= offset[j]
<1> DEFINE Wrong == {j \in 0..N : \E i \in 0..j : ~(offset[i] <= offset[j])}
<1>1. SUFFICES ASSUME Wrong # {} PROVE FALSE
  OBVIOUS
<1>2. PICK j \in Wrong : \A k \in Wrong : j <= k
  <2>1. Wrong \in SUBSET Nat
    OBVIOUS
  <2> HIDE DEF Wrong
  <2> QED  BY <1>1, <2>1, LeastNumber
<1>3. PICK i \in 0..j : ~(offset[i] <= offset[j])
  BY <1>2
<1>4. j \in 0..N /\ offset[j] \in Nat
  BY <1>2
<1>5. i # j
  BY <1>3, <1>4
<1>6. j # 0 /\ j - 1 \in 0..N /\ j \in 1..N /\ i \in 0..(j - 1)
  BY <1>3, <1>4, <1>5
<1>7. j - 1 \notin Wrong
  BY <1>2, <1>4, <1>6
<1>8. offset[i] <= offset[j - 1]
  BY <1>6, <1>7
<1>9. offset[i] \in Nat /\ offset[j - 1] \in Nat /\ offset[j - 1] <= offset[j]
  BY <1>4, <1>6
<1> QED  BY <1>3, <1>4, <1>8, <1>9

LEMMA LaidEntries ==
  ASSUME Shape, NEW N, NEW order, NEW queue, NEW offset, Laid(N, order, queue, offset),
         walked = N
  PROVE  Entered(N, order, offset)
<1>3. Plan(tree, N, order, queue, offset) /\ contentSize = offset[N]
  BY DEF Laid
<1>4. /\ N \in Nat \ {0} /\ Len(tree) = N /\ order[1] = 1 /\ Len(order) = N
      /\ \A i \in 1..N : order[i] \in 1..N /\ SizeIn(tree, order[i]) \in Nat
      /\ \A i, j \in 1..N : order[i] = order[j] => i = j
  BY <1>3, PlanFacts
<1>5. Len(metas) = N
  <2>1. queue[N] = order
    BY <1>3 DEF Plan, Walk
  <2> QED  BY <1>4, <2>1 DEF Laid
<1>6. /\ metas \in Seq(Slot)
      /\ \A i \in 1..N :
           /\ metas[i].parent \in 1..i /\ (metas[i].parent = i <=> i = 1)
           /\ i # 1 => order[metas[i].parent] = tree[order[i]].parent
           /\ metas[i] = PackedOf(tree, order[i], metas[i].parent, offset[i - 1])
  <2>1. Slots(metas, tree, order, offset, N)
    BY DEF Laid
  <2>2. \A i \in 1..N : i <= N
    BY <1>4
  <2> QED  BY <1>5, <2>1, <2>2 DEF Slots
<1>7. \A i \in 1..N :
        /\ metas[i].name = tree[order[i]].name /\ metas[i].mtime = tree[order[i]].mtime
        /\ metas[i].type = tree[order[i]].type
        /\ metas[i].contentOffset = offset[i - 1]
        /\ metas[i].contentSize = SizeIn(tree, order[i])
  <2> TAKE i \in 1..N
  <2>1. PICK r, n, o, s : /\ r = metas[i] /\ n = order[i] /\ o = offset[i - 1] /\ s = SizeIn(tree, n)
    OBVIOUS
  <2>2. r = PackedOf(tree, n, r.parent, o)
    BY <1>6, <2>1
  <2>3. /\ r.name = tree[n].name /\ r.mtime = tree[n].mtime /\ r.type = tree[n].type
        /\ r.contentOffset = o /\ r.contentSize = s
    BY <2>1, <2>2 DEF PackedOf
  <2> QED  BY <2>1, <2>3
<1>8. DOMAIN metas = 1..N
  BY <1>5, <1>6, LenProperties
<1>9. PICK m : m = [i \in 1..N |-> metas[i].mtime]
  OBVIOUS
<1>10. ASSUME NEW i \in 1..N
       PROVE  /\ metas[i].parent \in 1..i
              /\ m[i] = IF metas[i].parent = i THEN <<>>
                        ELSE Append(m[metas[i].parent], metas[i].name)
  <2>1. metas[i].parent \in 1..i /\ m[i] = tree[order[i]].mtime
    BY <1>6, <1>7, <1>9
  <2>2. CASE i = 1
    <3>1. tree[1].mtime = <<>>
      BY <1>4 DEF Shape, Located
    <3> QED  BY <1>4, <1>6, <2>1, <2>2, <3>1
  <2>3. CASE i # 1
    <3>1. PICK n \in 1..N, p \in 1..N : n = order[i] /\ p = metas[i].parent
      <4>1. order[i] \in 1..N
        BY <1>4
      <4>2. metas[i].parent \in 1..N
        BY <1>4, <2>1
      <4> QED  BY <4>1, <4>2
    <3>2. n # 1
      <4>1. 1 \in 1..N
        BY <1>4
      <4> QED  BY <1>4, <2>3, <3>1, <4>1
    <3>3. tree[n].mtime = Append(tree[tree[n].parent].mtime, tree[n].name)
      BY <1>4, <3>2 DEF Shape, Located
    <3>4. tree[n].parent = order[p]
      BY <1>6, <2>3, <3>1
    <3>5. m[p] = tree[order[p]].mtime
      BY <1>7, <1>9
    <3>6. metas[i].name = tree[n].name
      BY <1>7, <3>1
    <3>7. metas[i].parent # i
      BY <1>6, <2>3
    <3> QED  BY <2>1, <3>1, <3>3, <3>4, <3>5, <3>6, <3>7
  <2> QED  BY <2>2, <2>3
<1>11. \A i \in 1..N : getPathInArchive(i) = metas[i].mtime
  <2>1. \A i \in 1..N : get_name(metas, i) = m[i]
    <3>1. N \in Nat
      BY <1>4
    <3> QED  BY <1>8, <1>10, <3>1, NameIsPath
  <2> QED  BY <1>9, <2>1 DEF getPathInArchive
<1>12. /\ \A i \in 0..N : offset[i] \in Nat
       /\ \A i \in 1..N : offset[i] = offset[i - 1] + SizeIn(tree, order[i])
  BY <1>3 DEF Plan, Offsets
<1>13. \A j \in 0..N : \A i \in 0..j : offset[i] <= offset[j]
  <2>1. ASSUME NEW i \in 1..N PROVE offset[i - 1] <= offset[i]
    <3>1. offset[i - 1] \in Nat /\ SizeIn(tree, order[i]) \in Nat
      <4>1. i - 1 \in 0..N
        BY <1>4
      <4> QED  BY <1>4, <1>12, <4>1
    <3> QED  BY <1>12, <3>1
  <2>2. N \in Nat
    BY <1>4
  <2> QED  BY <1>12, <2>1, <2>2, OffsetsGrow
<1>14. ASSUME NEW i \in 1..N PROVE Entry1(i, order, offset)
  <2>1. order[i] \in 1..Len(tree) /\ SizeIn(tree, order[i]) \in Nat
    BY <1>4
  <2>2. /\ metas[i].mtime = tree[order[i]].mtime /\ metas[i].type = tree[order[i]].type
        /\ metas[i].contentOffset = offset[i - 1]
        /\ metas[i].contentSize = SizeIn(tree, order[i])
    BY <1>7
  <2>3. getPathInArchive(i) = metas[i].mtime /\ offset[i] = offset[i - 1] + SizeIn(tree, order[i])
    BY <1>11, <1>12
  <2> QED  BY <2>1, <2>2, <2>3 DEF Entry1
<1>15. contentSize \in Nat
  <2>1. N \in 0..N
    BY <1>4
  <2> QED  BY <1>3, <1>12, <2>1
<1> QED  BY <1>3, <1>4, <1>5, <1>6, <1>8, <1>12, <1>13, <1>14, <1>15 DEF Entered

LEMMA WrittenEntries ==
  ASSUME Shape, Layout, at \in {"writing", "packed", "failed"}
  PROVE  \E N, order, offset : Entered(N, order, offset)
<1>1. PICK N, order, queue, offset : Laid(N, order, queue, offset)
  BY DEF Layout
<1>2. walked = N
  <2>1. Plan(tree, N, order, queue, offset)
    BY <1>1 DEF Laid
  <2>2. Len(tree) = N
    BY <2>1, PlanFacts
  <2> QED  BY <2>2 DEF Layout
<1> QED  BY <1>1, <1>2, LaidEntries

\* Nothing is copied yet.
LEMMA HeaderContents == ASSUME Shape, Layout, WriteHeader PROVE Contents'
<1>1. /\ at = "layout" /\ at' = "writing" /\ UNCHANGED <<metas, contentSize, written>>
      /\ archive' \in {File(metas, contentSize, [k \in 1..contentSize |-> Stale]), NoFile}
      /\ walked = Len(fs_tree_bfs(tree))
  BY DEF WriteHeader, packVars, layoutVars
<1>2. written = 0
  BY <1>1 DEF Layout
<1>3. PICK N, order, queue, offset : Laid(N, order, queue, offset)
  BY <1>1 DEF Layout
<1>4. walked = N
  <2>1. Plan(tree, N, order, queue, offset)
    BY <1>3 DEF Laid
  <2>2. Len(order) = N
    BY <2>1, PlanFacts
  <2>3. order = fs_tree_bfs(tree)
    BY <2>1 DEF Plan
  <2> QED  BY <1>1, <2>2, <2>3
<1>5. metas \in Seq(Slot) /\ Len(metas) \in Nat /\ contentSize \in Nat
  <2>1. Entered(N, order, offset)
    BY <1>3, <1>4, LaidEntries
  <2> QED  BY <2>1 DEF Entered
<1>6. PICK a, m, size, content :
        a = archive' /\ m = metas /\ size = contentSize /\ content = [k \in 1..size |-> Stale]
  OBVIOUS
<1>7. DOMAIN content = 1..size /\ Len(content) = size
  <2>1. content \in Seq({Stale})
    BY <1>5, <1>6
  <2>2. Len(content) \in Nat /\ DOMAIN content = 1..Len(content) /\ DOMAIN content = 1..size
    BY <1>6, <2>1, LenProperties
  <2> QED  BY <1>5, <1>6, <2>2
<1>8. CASE a = File(m, size, content)
  <2>1. /\ a = [metas |-> a.metas, contentSize |-> a.contentSize,
                content |-> a.content, length |-> a.length]
        /\ a.metas = m /\ a.contentSize = size /\ a.content = content
        /\ a.length = 2 + Len(m) + size
    BY <1>7, <1>8 DEF File
  <2>2. Recorded'
    BY <1>5, <1>6, <2>1 DEF Recorded
  <2>3. archive'.length <= 2 + Len(archive'.metas) + archive'.contentSize
    BY <1>5, <1>6, <2>1
  <2>4. Intact(0)'
    <3>1. DOMAIN archive'.content = 1..contentSize'
      BY <1>1, <1>6, <1>7, <2>1
    <3>2. 1..0 = {}
      OBVIOUS
    <3>3. archive'.metas = metas' /\ archive'.contentSize = contentSize'
      BY <1>1, <1>6, <2>1
    <3> QED  BY <3>1, <3>2, <3>3 DEF Intact
  <2> QED  BY <1>1, <1>2, <1>5, <2>2, <2>3, <2>4 DEF Contents
<1>9. CASE a = NoFile
  <2>1. /\ a = [metas |-> a.metas, contentSize |-> a.contentSize,
                content |-> a.content, length |-> a.length]
        /\ a.metas = <<>> /\ a.contentSize = 0 /\ a.length = 0 /\ Len(<<>>) = 0
    BY <1>9 DEF NoFile
  <2>2. Recorded'
    BY <1>6, <2>1 DEF Recorded
  <2>3. archive'.length <= 2 + Len(archive'.metas) + archive'.contentSize
    BY <1>6, <2>1
  <2>4. ~checkArchiveSizes(archive')
    BY <1>6, <2>1 DEF checkArchiveSizes
  <2> QED  BY <1>1, <1>2, <1>5, <2>2, <2>3, <2>4 DEF Contents
<1> QED  BY <1>1, <1>6, <1>8, <1>9

\* An archive of which the end is missing is refused.
LEMMA CutContents == ASSUME Contents, ArchiveIsCut PROVE Contents'
<1>1. /\ at = "packed" /\ UNCHANGED <<at, metas, written>>
  BY DEF ArchiveIsCut, fsVars, packVars, layoutVars
<1>2. PICK n \in 0..(archive.length - 1) : archive' = CutAt(archive, n)
  BY DEF ArchiveIsCut
<1>3. Recorded /\ archive.length <= 2 + Len(archive.metas) + archive.contentSize
  BY <1>1 DEF Contents
<1>4. PICK b, a, content : b = archive /\ a = archive' /\ content = SubSeq(b.content, 1, n - 2 - Len(b.metas))
  OBVIOUS
<1>5. a = [b EXCEPT !.length = n, !.content = content]
  BY <1>2, <1>4 DEF CutAt
<1>6. /\ a = [metas |-> a.metas, contentSize |-> a.contentSize,
              content |-> a.content, length |-> a.length]
      /\ a.metas = b.metas /\ a.contentSize = b.contentSize /\ a.length = n
  <2>1. b = [metas |-> b.metas, contentSize |-> b.contentSize,
             content |-> b.content, length |-> b.length]
    BY <1>3, <1>4 DEF Recorded
  <2> QED  BY <1>5, <2>1
<1>7. /\ Len(b.metas) \in Nat /\ b.contentSize \in Nat /\ b.length \in Nat
      /\ b.length <= 2 + Len(b.metas) + b.contentSize
  BY <1>3, <1>4 DEF Recorded
<1>8. n \in Nat /\ n < 2 + Len(b.metas) + b.contentSize
  BY <1>4, <1>7
<1>9. Recorded'
  BY <1>4, <1>6, <1>7, <1>8 DEF Recorded
<1>10. archive'.length <= 2 + Len(archive'.metas) + archive'.contentSize
  BY <1>4, <1>6, <1>7, <1>8
<1>11. ~checkArchiveSizes(archive')
  BY <1>4, <1>6, <1>7, <1>8 DEF checkArchiveSizes
<1> QED  BY <1>1, <1>9, <1>10, <1>11 DEF Contents

\* The next entry has nothing to copy.
LEMMA NothingCopied ==
  ASSUME Intact(written), written \in Nat, UNCHANGED <<archive, metas, contentSize, base, touched>>,
         written' = written + 1, metas[written + 1].contentSize = 0
  PROVE  Intact(written)'
<1>1. /\ DOMAIN archive'.content = 1..contentSize'
      /\ archive'.metas = metas' /\ archive'.contentSize = contentSize'
  BY DEF Intact
<1>2. ASSUME base = <<>>, NEW i \in 1..(written + 1), NEW k \in 1..metas[i].contentSize
      PROVE  Own(archive.content[metas[i].contentOffset + k], metas[i].mtime, k)
  <2>1. CASE i = written + 1
    <3>1. 1..metas[i].contentSize = {}
      BY <2>1
    <3> QED  BY <1>2, <3>1
  <2>2. CASE i # written + 1
    <3>1. i \in 1..written
      BY <2>2
    <3> QED  BY <1>2, <3>1 DEF Intact
  <2> QED  BY <2>1, <2>2
<1> QED  BY <1>1, <1>2 DEF Intact, Own

\* A file is copied to its own place; where it was shorter then, it is known
\* to have been touched.
LEMMA FileCopied ==
  ASSUME Shape, Sized, NEW N, NEW order, NEW offset, Entered(N, order, offset),
         written \in 0..(N - 1), Intact(written), Opens, Recorded,
         UNCHANGED <<metas, contentSize, base, touched>>, written' = written + 1,
         metas[written + 1].type = "reg",
         archive' = [archive EXCEPT !.content = Copied(metas[written + 1])]
  PROVE  Intact(written)'
<1>1. PICK w, m, p, a, old, new :
        /\ w = written + 1 /\ m = metas[w] /\ p = SoughtPath
        /\ a = archive /\ old = a.content /\ new = Copied(m)
  OBVIOUS
<1>2. /\ archive'.content = new
      /\ archive'.metas = a.metas /\ archive'.contentSize = a.contentSize
  <2>1. a = [metas |-> a.metas, contentSize |-> a.contentSize,
             content |-> a.content, length |-> a.length]
    BY <1>1 DEF Recorded
  <2>2. archive' = [a EXCEPT !.content = new]
    BY <1>1
  <2> QED  BY <2>1, <2>2
<1>3. /\ N = Len(tree) /\ N \in Nat /\ contentSize \in Nat /\ contentSize = offset[N]
      /\ \A i \in 0..N : offset[i] \in Nat
      /\ \A j \in 0..N : \A i \in 0..j : offset[i] <= offset[j]
      /\ \A i \in 1..N : Entry1(i, order, offset)
  BY DEF Entered
<1>4. w \in 1..N /\ w - 1 = written /\ w \in 0..N /\ written \in 0..N
  BY <1>1, <1>3
<1>5. Entry1(w, order, offset)
  BY <1>3, <1>4
<1>6. /\ m.contentSize = SizeIn(tree, order[w]) /\ m.contentSize \in Nat
      /\ m.contentOffset = offset[w - 1] /\ m.contentOffset \in Nat
      /\ offset[w] = m.contentOffset + m.contentSize /\ offset[w] <= contentSize
      /\ order[w] \in 1..Len(tree) /\ tree[order[w]].type = "reg"
      /\ m.mtime = tree[order[w]].mtime
      /\ getPathInArchive(w) = m.mtime
  <2>1. offset[w - 1] \in Nat
    BY <1>3, <1>4
  <2>2. offset[w] <= offset[N]
    <3>1. N \in 0..N /\ w \in 0..N
      BY <1>3, <1>4
    <3> QED  BY <1>3, <3>1
  <2> QED  BY <1>1, <1>3, <1>5, <2>1, <2>2 DEF Entry1
<1>7. DOMAIN old = 1..contentSize
  BY <1>1 DEF Intact
<1>8. /\ DOMAIN new = DOMAIN old
      /\ \A x \in DOMAIN old : new[x] = LET pos == x - m.contentOffset
                                        IN  IF pos \notin 1..m.contentSize THEN old[x]
                                            ELSE IF pos <= source[p].size THEN Byte(p, pos) ELSE Zero
  BY <1>1 DEF Copied
<1>9. base = <<>> => p = m.mtime
  <2>1. SoughtPath = base \o getPathInArchive(w)
    BY <1>1 DEF SoughtPath
  <2>2. m.mtime \in Seq(Names)
    <3>1. PICK n \in 1..Len(tree) : n = order[w] /\ m.mtime = tree[n].mtime
      BY <1>6
    <3>2. tree[n].mtime \in Paths
      BY NodePaths DEF Shape
    <3>3. m.mtime \in Paths
      BY <3>1, <3>2
    <3>4. Paths \subseteq Seq(Names)
      BY DEF Paths
    <3> QED  BY <3>3, <3>4
  <2> QED  BY <1>1, <1>6, <2>1, <2>2
<1>10. ASSUME base = <<>>, NEW k \in 1..m.contentSize
       PROVE  Own(new[m.contentOffset + k], m.mtime, k)
  <2>1. PICK x, pos : x = m.contentOffset + k /\ pos = x - m.contentOffset
    OBVIOUS
  <2>2. x \in 1..contentSize /\ pos = k
    BY <1>3, <1>6, <2>1
  <2>3. new[x] = IF k <= source[p].size THEN Byte(p, k) ELSE Zero
    BY <1>7, <1>8, <2>1, <2>2
  <2>4. CASE k <= source[p].size
    BY <1>9, <1>10, <2>1, <2>3, <2>4 DEF Own
  <2>5. CASE ~(k <= source[p].size)
    <3>1. source[p].size \in Nat
      <4>1. p \in DOMAIN source
        BY <1>1 DEF Opens
      <4>2. source[p] \in Entry
        BY <4>1 DEF Shape, Typed
      <4> QED  BY <4>2 DEF Entry
    <3>2. source[p].size # m.contentSize
      BY <1>6, <2>5, <3>1
    <3>3. m.contentSize = tree[order[w]].size
      BY <1>6 DEF SizeIn
    <3>4. p \in touched
      BY <1>6, <1>9, <1>10, <3>2, <3>3 DEF Sized
    <3> QED  BY <1>9, <1>10, <2>1, <2>3, <2>5, <3>4 DEF Own
  <2> QED  BY <2>4, <2>5
<1>11. ASSUME base = <<>>, NEW i \in 1..written, NEW k \in 1..metas[i].contentSize
       PROVE  Own(new[metas[i].contentOffset + k], metas[i].mtime, k)
  <2>1. i \in 1..N /\ i \in 0..written /\ i \in 0..N /\ i - 1 \in 0..N
    BY <1>3, <1>4
  <2>2. /\ metas[i].contentSize \in Nat /\ metas[i].contentOffset = offset[i - 1]
        /\ offset[i] = offset[i - 1] + metas[i].contentSize
    BY <1>3, <2>1 DEF Entry1
  <2>3. offset[i] <= offset[written]
    BY <1>3, <1>4, <2>1
  <2>4. PICK o, s, e : o = offset[i - 1] /\ s = metas[i].contentSize /\ e = offset[written]
    OBVIOUS
  <2>5. o \in Nat /\ s \in Nat /\ e \in Nat /\ o + s <= e /\ e = m.contentOffset /\ e <= contentSize
    <3>1. o \in Nat /\ s \in Nat
      BY <1>3, <2>1, <2>2, <2>4
    <3>2. o + s <= e
      BY <2>2, <2>3, <2>4
    <3>3. e = m.contentOffset /\ e \in Nat
      BY <1>4, <1>6, <2>4
    <3>4. e <= contentSize
      <4>1. m.contentSize \in Nat /\ e + m.contentSize = offset[w] /\ offset[w] <= contentSize
        BY <1>6, <3>3
      <4> QED  BY <1>3, <3>3, <4>1
    <3> QED  BY <3>1, <3>2, <3>3, <3>4
  <2>6. PICK x, pos : x = o + k /\ pos = x - m.contentOffset
    OBVIOUS
  <2>7. x \in 1..contentSize /\ pos \notin 1..m.contentSize
    <3>1. k \in 1..s
      BY <1>11, <2>4
    <3>2. x \in 1..e /\ pos <= 0
      BY <2>5, <2>6, <3>1
    <3>3. e \in Nat /\ e <= contentSize /\ contentSize \in Nat /\ m.contentSize \in Nat
      BY <1>3, <1>6, <2>5
    <3>4. x \in 1..contentSize
      BY <3>2, <3>3
    <3>5. pos \notin 1..m.contentSize
      BY <3>2, <3>3
    <3> QED  BY <3>4, <3>5
  <2>8. new[x] = old[x]
    BY <1>7, <1>8, <2>6, <2>7
  <2>9. Own(old[x], metas[i].mtime, k)
    BY <1>1, <1>11, <2>2, <2>4, <2>6 DEF Intact
  <2> QED  BY <2>2, <2>4, <2>6, <2>8, <2>9
<1>12. \A i \in 1..w : i \in 1..written \/ i = w
  BY <1>3, <1>4
<1>13. ASSUME base = <<>>, NEW i \in 1..w, NEW k \in 1..metas[i].contentSize
       PROVE  Own(new[metas[i].contentOffset + k], metas[i].mtime, k)
  <2>1. CASE i \in 1..written
    BY <1>11, <1>13, <2>1
  <2>2. CASE i = w
    BY <1>1, <1>10, <1>13, <2>2
  <2> QED  BY <1>12, <2>1, <2>2
<1>14. /\ DOMAIN archive'.content = 1..contentSize'
       /\ archive'.metas = metas' /\ archive'.contentSize = contentSize'
  <2>1. a.metas = metas /\ a.contentSize = contentSize
    BY <1>1 DEF Intact
  <2> QED  BY <1>2, <1>7, <1>8, <2>1
<1> QED  BY <1>1, <1>2, <1>13, <1>14 DEF Intact, Own

\* A step of writing the content.
LEMMA WriteContents ==
  ASSUME Shape, Sized, Layout, Contents, writeContentToArchive PROVE Contents'
<1>1. /\ at = "writing" /\ written < Len(metas)
      /\ UNCHANGED <<source, tree, dirs, histories, layoutVars>>
  BY DEF writeContentToArchive
<1>2. UNCHANGED <<metas, contentSize, base, touched>>
  BY <1>1 DEF layoutVars, histories
<1>3. PICK m : m = metas[written + 1]
  OBVIOUS
<1>4. \/ NothingToCopy(m) /\ written' = written + 1 /\ UNCHANGED <<at, archive>>
      \/ at' = "failed" /\ UNCHANGED <<archive, written>>
      \/ writeOneFileToArcive(m)
  BY <1>3 DEF writeContentToArchive
<1>5. PICK N, order, offset : Entered(N, order, offset)
  BY <1>1, WrittenEntries
<1>6. N \in Nat /\ Len(metas) = N /\ \A i \in 1..N : Entry1(i, order, offset)
  BY <1>5 DEF Entered
<1>7. /\ Recorded /\ written \in 0..(N - 1)
      /\ archive.length <= 2 + Len(archive.metas) + archive.contentSize
      /\ checkArchiveSizes(archive) => Intact(written)
  BY <1>1, <1>6 DEF Contents
<1>8. written + 1 \in 1..N /\ written + 1 \in 0..Len(metas) /\ written \in Nat
  BY <1>6, <1>7
<1>9. CASE NothingToCopy(m) /\ written' = written + 1 /\ UNCHANGED <<at, archive>>
  <2>1. m.contentSize = 0
    <3>1. Entry1(written + 1, order, offset)
      BY <1>6, <1>8
    <3>2. m.type = "dir" => m.contentSize = 0
      BY <1>3, <3>1 DEF Entry1, SizeIn
    <3> QED  BY <1>9, <3>2 DEF NothingToCopy
  <2>2. checkArchiveSizes(archive') => Intact(written)'
    <3>1. CASE checkArchiveSizes(archive)
      BY <1>2, <1>3, <1>7, <1>8, <1>9, <2>1, <3>1, NothingCopied
    <3> QED  BY <1>9, <3>1
  <2>3. Recorded'
    BY <1>7, <1>9 DEF Recorded
  <2>4. /\ written' \in 0..Len(metas') /\ at' = "writing"
        /\ archive'.length <= 2 + Len(archive'.metas) + archive'.contentSize
    BY <1>1, <1>2, <1>7, <1>8, <1>9
  <2> QED  BY <2>2, <2>3, <2>4 DEF Contents
<1>10. CASE at' = "failed" /\ UNCHANGED <<archive, written>>
  <2>1. checkArchiveSizes(archive') => Intact(written)'
    BY <1>2, <1>7, <1>10 DEF Intact, Own
  <2>2. Recorded'
    BY <1>7, <1>10 DEF Recorded
  <2>3. /\ written' \in 0..Len(metas')
        /\ archive'.length <= 2 + Len(archive'.metas) + archive'.contentSize
    BY <1>2, <1>6, <1>7, <1>10
  <2> QED  BY <1>10, <2>1, <2>2, <2>3 DEF Contents
<1>12. CASE at' = "crashed"
  BY <1>12 DEF Contents
<1>11. CASE writeOneFileToArcive(m) /\ at' # "crashed"
  <2>1. /\ m.type = "reg" /\ Opens /\ UNCHANGED at /\ written' = written + 1
        /\ archive' = [archive EXCEPT !.content = Copied(m)]
    BY <1>11 DEF writeOneFileToArcive
  <2>2. PICK b, a, content : b = archive /\ a = archive' /\ content = Copied(m)
    OBVIOUS
  <2>3. /\ a = [metas |-> a.metas, contentSize |-> a.contentSize,
                content |-> a.content, length |-> a.length]
        /\ a.metas = b.metas /\ a.contentSize = b.contentSize /\ a.length = b.length
    <3>1. b = [metas |-> b.metas, contentSize |-> b.contentSize,
               content |-> b.content, length |-> b.length]
      BY <1>7, <2>2 DEF Recorded
    <3>2. a = [b EXCEPT !.content = content]
      BY <2>1, <2>2
    <3> QED  BY <3>1, <3>2
  <2>4. Recorded' /\ archive'.length <= 2 + Len(archive'.metas) + archive'.contentSize
    BY <1>7, <2>2, <2>3 DEF Recorded
  <2>5. checkArchiveSizes(archive') => checkArchiveSizes(archive)
    BY <2>2, <2>3 DEF checkArchiveSizes
  <2>6. checkArchiveSizes(archive') => Intact(written)'
    <3>1. CASE Intact(written)
      BY <1>2, <1>3, <1>5, <1>7, <2>1, <3>1, FileCopied
    <3> QED  BY <1>7, <2>5, <3>1
  <2>7. written' \in 0..Len(metas') /\ at' = "writing"
    BY <1>1, <1>2, <1>8, <2>1
  <2> QED  BY <2>4, <2>6, <2>7 DEF Contents
<1> QED  BY <1>4, <1>9, <1>10, <1>11, <1>12

LEMMA ContentsNext ==
  Shape /\ Sized /\ Layout /\ Contents /\ [Next]_vars => Contents'
<1> SUFFICES ASSUME Shape, Sized, Layout, Contents, [Next]_vars PROVE Contents'
  OBVIOUS
<1>1. CASE Collect
  BY <1>1, CollectAt DEF Contents
<1>2. CASE Aside
  BY <1>2 DEF Aside, packVars, layoutVars, Contents, Recorded, Intact, Own
<1>3. CASE computeArchiveSize
  BY <1>3 DEF computeArchiveSize, Contents
<1>4. CASE addInodeToArchive
  BY <1>4 DEF addInodeToArchive, fsVars, Contents
<1>5. CASE WriteHeader
  BY <1>5, HeaderContents
<1>6. CASE writeContentToArchive
  BY <1>6, WriteContents
<1>7. CASE PackReturns
  <2>1. /\ at = "writing" /\ at' = "packed" /\ written = Len(metas)
        /\ UNCHANGED <<archive, packVars, histories>>
    BY <1>7 DEF PackReturns
  <2> QED  BY <2>1 DEF packVars, layoutVars, histories, Contents, Recorded, Intact, Own
<1>8. CASE ArchiveIsCut
  BY <1>8, CutContents
<1> QED  BY PackSteps, <1>1, <1>2, <1>3, <1>4, <1>5, <1>6, <1>7, <1>8
-----------------------------------------------------------------------------
(***************************************************************************)
(* The depth-first walk meets every inode but the head.                    *)
(***************************************************************************)
LEMMA FoldedExists ==
  ASSUME NEW M \in Nat, NEW c, NEW g
  PROVE  \E it : Folded(c, M, g, it)
<1> DEFINE Wrong == {n \in Nat : ~\E it : Folded(c, n, g, it)}
<1>1. SUFFICES ASSUME Wrong # {} PROVE FALSE
  OBVIOUS
<1>2. PICK n \in Wrong : \A k \in Wrong : n <= k
  <2>1. Wrong \in SUBSET Nat
    OBVIOUS
  <2> HIDE DEF Wrong
  <2> QED  BY <1>1, <2>1, LeastNumber
<1>3. CASE n = 0
  <2>1. SUBSET (1..0) = {{}}
    OBVIOUS
  <2>2. Folded(c, 0, g, [s \in SUBSET (1..0) |-> <<>>])
    BY <2>1 DEF Folded
  <2> QED  BY <1>2, <1>3, <2>2
<1>4. CASE n # 0
  <2>1. n - 1 \in Nat /\ n \in Nat
    BY <1>2, <1>4
  <2>2. PICK f : Folded(c, n - 1, g, f)
    BY <1>2, <2>1
  <2>3. PICK h : h = [s \in SUBSET (1..n) |->
                        IF n \in s THEN f[s \ {n}] \o <<c[n]>> \o g[c[n]] ELSE f[s]]
    OBVIOUS
  <2>4. ASSUME NEW s \in SUBSET (1..n)
        PROVE  h[s] = IF s = {} THEN <<>>
                      ELSE h[s \ {Max(s)}] \o <<c[Max(s)]>> \o g[c[Max(s)]]
    <3>1. CASE n \in s
      <4>1. Max(s) = n
        <5>1. Max(s) \in s /\ n <= Max(s)
          BY <2>1, <3>1, MaxFacts
        <5>2. Max(s) \in 1..n
          BY <5>1
        <5> QED  BY <2>1, <5>1, <5>2
      <4>2. s \ {n} \in SUBSET (1..n) /\ n \notin s \ {n} /\ s # {}
        BY <3>1
      <4>3. h[s] = f[s \ {n}] \o <<c[n]>> \o g[c[n]]
        BY <2>3, <3>1
      <4>4. h[s \ {n}] = f[s \ {n}]
        BY <2>3, <4>2
      <4> QED  BY <4>1, <4>2, <4>3, <4>4
    <3>2. CASE n \notin s /\ s # {}
      <4>1. s \in SUBSET (1..(n - 1)) /\ s \ {Max(s)} \in SUBSET (1..n)
        <5>1. \A x \in s : x \in 1..(n - 1)
          <6>1. \A x \in s : x \in 1..n /\ x # n
            BY <3>2
          <6> QED  BY <2>1, <6>1
        <5> QED  BY <5>1
      <4>2. h[s] = f[s] /\ h[s \ {Max(s)}] = f[s \ {Max(s)}]
        BY <2>3, <3>2, <4>1
      <4>3. f[s] = f[s \ {Max(s)}] \o <<c[Max(s)]>> \o g[c[Max(s)]]
        BY <2>2, <3>2, <4>1 DEF Folded
      <4> QED  BY <3>2, <4>2, <4>3
    <3>3. CASE s = {}
      <4>1. s \in SUBSET (1..(n - 1))
        BY <3>3
      <4>2. f[s] = <<>>
        BY <2>2, <3>3, <4>1 DEF Folded
      <4> QED  BY <2>3, <3>3, <4>2
    <3> QED  BY <3>1, <3>2, <3>3
  <2>5. h = [s \in SUBSET (1..n) |->
               IF s = {} THEN <<>> ELSE h[s \ {Max(s)}] \o <<c[Max(s)]>> \o g[c[Max(s)]]]
    BY <2>3, <2>4
  <2> QED  BY <1>2, <2>5 DEF Folded
<1> QED  BY <1>3, <1>4

LEMMA DfsChain ==
  ASSUME NEW c, NEW M \in Nat, DOMAIN c = 1..M, NEW g
  PROVE  \E chain : Chain(c, M, g, chain) /\ DfsFold(g, c) = chain[M]
<1> DEFINE Iter(f) ==
      f = [s \in SUBSET (DOMAIN c) |->
             IF s = {} THEN <<>> ELSE f[s \ {Max(s)}] \o <<c[Max(s)]>> \o g[c[Max(s)]]]
<1>1. \A f : Iter(f) <=> Folded(c, M, g, f)
  BY DEF Folded
<1>2. PICK f : f = (CHOOSE h : Iter(h))
  OBVIOUS
<1>3. Iter(f)
  <2>1. \E h : Iter(h)
    <3> HIDE DEF Iter
    <3> QED  BY <1>1, FoldedExists
  <2> HIDE DEF Iter
  <2> QED  BY <1>2, <2>1
<1>4. DfsFold(g, c) = f[DOMAIN c]
  BY <1>2 DEF DfsFold, FoldLeft, MapThenFoldSet
<1>5. PICK chain : chain = [i \in 0..M |-> f[1..i]]
  OBVIOUS
<1>6. chain[0] = <<>>
  <2>1. 1..0 = {} /\ {} \in SUBSET (DOMAIN c)
    OBVIOUS
  <2> QED  BY <1>3, <1>5, <2>1
<1>7. ASSUME NEW i \in 1..M PROVE chain[i] = chain[i - 1] \o <<c[i]>> \o g[c[i]]
  <2>1. 1..i \in SUBSET (1..M) /\ i \in 1..i /\ i \in Nat
    OBVIOUS
  <2>2. Max(1..i) = i
    <3>1. Max(1..i) \in 1..i /\ \A x \in 1..i : x <= Max(1..i)
      BY <2>1, MaxFacts
    <3> QED  BY <2>1, <3>1
  <2>3. (1..i) \ {i} = 1..(i - 1)
    BY <2>1
  <2>4. f[1..i] = f[1..(i - 1)] \o <<c[i]>> \o g[c[i]]
    <3>1. 1..i # {} /\ 1..i \in SUBSET (DOMAIN c)
      BY <2>1
    <3>2. PICK s : s = 1..i
      OBVIOUS
    <3>3. f[s] = f[s \ {Max(s)}] \o <<c[Max(s)]>> \o g[c[Max(s)]]
      BY <1>3, <3>1, <3>2
    <3> QED  BY <2>2, <2>3, <3>2, <3>3
  <2>5. chain[i] = f[1..i] /\ chain[i - 1] = f[1..(i - 1)]
    BY <1>5
  <2> QED  BY <2>4, <2>5
<1>8. chain[M] = f[DOMAIN c]
  BY <1>5
<1> QED  BY <1>4, <1>6, <1>7, <1>8 DEF Chain

LEMMA DfsSame ==
  ASSUME NEW c, NEW M \in Nat, DOMAIN c = 1..M, NEW g, NEW h,
         Agree(c, M, g, h)
  PROVE  DfsFold(g, c) = DfsFold(h, c)
<1>1. PICK a : Chain(c, M, g, a) /\ DfsFold(g, c) = a[M]
  BY DfsChain
<1>2. PICK b : Chain(c, M, h, b) /\ DfsFold(h, c) = b[M]
  BY DfsChain
<1> DEFINE Wrong == {i \in 0..M : a[i] # b[i]}
<1>3. SUFFICES ASSUME Wrong # {} PROVE FALSE
  BY <1>1, <1>2
<1>4. PICK i \in Wrong : \A k \in Wrong : i <= k
  <2>1. Wrong \in SUBSET Nat
    OBVIOUS
  <2> HIDE DEF Wrong
  <2> QED  BY <1>3, <2>1, LeastNumber
<1>5. i # 0 /\ i \in 1..M /\ i - 1 \in 0..M
  BY <1>1, <1>2, <1>4 DEF Chain
<1>6. a[i - 1] = b[i - 1]
  BY <1>4, <1>5
<1>7. a[i] = a[i - 1] \o <<c[i]>> \o g[c[i]] /\ b[i] = b[i - 1] \o <<c[i]>> \o h[c[i]]
  BY <1>1, <1>2, <1>5 DEF Chain
<1>8. g[c[i]] = h[c[i]]
  BY <1>5 DEF Agree
<1>9. PICK p, x, y : p = b[i - 1] /\ x = <<c[i]>> /\ y = h[c[i]]
  OBVIOUS
<1>10. a[i] = p \o x \o y /\ b[i] = p \o x \o y
  BY <1>6, <1>7, <1>8, <1>9
<1> QED  BY <1>4, <1>10

LEMMA ChildFollows ==
  ASSUME NEW nodes, NEW N, Family(nodes, N), NEW n \in 1..N
  PROVE  /\ nodes[n].children \in Seq(1..N) /\ Len(nodes[n].children) \in Nat
         /\ DOMAIN nodes[n].children = 1..Len(nodes[n].children)
         /\ \A k \in 1..Len(nodes[n].children) :
              nodes[n].children[k] \in 1..N /\ nodes[n].children[k] > n
<1>1. nodes[n].children \in Seq(1..N)
  BY DEF Family
<1>2. /\ Len(nodes[n].children) \in Nat
      /\ DOMAIN nodes[n].children = 1..Len(nodes[n].children)
  BY <1>1, LenProperties
<1>3. ASSUME NEW k \in 1..Len(nodes[n].children)
      PROVE  nodes[n].children[k] \in 1..N /\ nodes[n].children[k] > n
  <2>1. PICK x : x = nodes[n].children[k]
    OBVIOUS
  <2>2. x \in 2..N /\ nodes[x].parent = n
    BY <2>1 DEF Family
  <2>3. nodes[x].parent \in 1..(x - 1)
    BY <2>2 DEF Family
  <2> QED  BY <2>1, <2>2, <2>3
<1> QED  BY <1>1, <1>2, <1>3

LEMMA BelowExists ==
  ASSUME NEW nodes, NEW N, Family(nodes, N)
  PROVE  \E g : g = [n \in 1..N |-> DfsFold(g, nodes[n].children)]
<1>0. N \in Nat
  BY DEF Family
<1> DEFINE Upto(d, g) == \A n \in 1..N : n > N - d => g[n] = DfsFold(g, nodes[n].children)
           Wrong == {d \in 0..N : ~\E g : Upto(d, g)}
<1>1. Wrong = {}
  <2>1. SUFFICES ASSUME Wrong # {} PROVE FALSE
    OBVIOUS
  <2>2. PICK d \in Wrong : \A k \in Wrong : d <= k
    <3>1. Wrong \in SUBSET Nat
      BY <1>0
    <3> HIDE DEF Wrong
    <3> QED  BY <2>1, <3>1, LeastNumber
  <2>3. d \in 0..N /\ ~\E g : Upto(d, g)
    BY <2>2
  <2>4. d # 0
    <3>1. Upto(0, <<>>)
      BY <1>0
    <3> QED  BY <2>3, <3>1
  <2>5. d - 1 \in 0..N /\ d - 1 < d
    BY <1>0, <2>3, <2>4
  <2>6. PICK g : Upto(d - 1, g)
    <3>1. d - 1 \notin Wrong
      BY <2>2, <2>5
    <3> QED  BY <2>5, <3>1
  <2>7. PICK m : m = N - (d - 1)
    OBVIOUS
  <2>8. m \in 1..N /\ \A n \in 1..N : (n > N - d <=> n >= m) /\ (n > N - (d - 1) <=> n > m)
    BY <1>0, <2>3, <2>4, <2>7
  <2>9. PICK h : h = [n \in 1..N |-> IF n = m THEN DfsFold(g, nodes[m].children) ELSE g[n]]
    OBVIOUS
  <2>10. \A n \in 1..N : n # m => h[n] = g[n]
    BY <2>9
  <2>11. h[m] = DfsFold(g, nodes[m].children)
    BY <2>8, <2>9
  <2>12. ASSUME NEW n \in 1..N, n >= m
         PROVE  DfsFold(g, nodes[n].children) = DfsFold(h, nodes[n].children)
    <3>1. PICK c, M : c = nodes[n].children /\ M = Len(c)
      OBVIOUS
    <3>2. M \in Nat /\ DOMAIN c = 1..M /\ \A k \in 1..M : c[k] \in 1..N /\ c[k] > n
      BY <3>1, ChildFollows
    <3>3. \A k \in 1..M : c[k] # m
      BY <2>8, <2>12, <3>2
    <3>4. Agree(c, M, g, h)
      BY <2>10, <3>2, <3>3 DEF Agree
    <3>5. DfsFold(g, c) = DfsFold(h, c)
      BY <3>2, <3>4, DfsSame
    <3> QED  BY <3>1, <3>5
  <2>13. ASSUME NEW n \in 1..N, n > N - d
         PROVE  h[n] = DfsFold(h, nodes[n].children)
    <3>1. n >= m
      BY <2>8, <2>13
    <3>2. DfsFold(g, nodes[n].children) = DfsFold(h, nodes[n].children)
      BY <2>12, <3>1
    <3>3. CASE n = m
      BY <2>11, <3>2, <3>3
    <3>4. CASE n # m
      <4>1. n > N - (d - 1)
        BY <2>8, <3>1, <3>4
      <4>2. g[n] = DfsFold(g, nodes[n].children)
        BY <2>6, <4>1
      <4> QED  BY <2>10, <3>2, <3>4, <4>2
    <3> QED  BY <3>3, <3>4
  <2>14. Upto(d, h)
    BY <2>13
  <2> QED  BY <2>3, <2>14
<1>2. PICK g : Upto(N, g)
  BY <1>0, <1>1
<1>3. \A n \in 1..N : g[n] = DfsFold(g, nodes[n].children)
  <2>1. \A n \in 1..N : n > N - N
    BY <1>0
  <2> QED  BY <1>2, <2>1
<1>4. PICK h : h = [n \in 1..N |-> g[n]]
  OBVIOUS
<1>5. ASSUME NEW n \in 1..N PROVE h[n] = DfsFold(h, nodes[n].children)
  <2>1. PICK c, M : c = nodes[n].children /\ M = Len(c)
    OBVIOUS
  <2>2. M \in Nat /\ DOMAIN c = 1..M /\ \A k \in 1..M : c[k] \in 1..N
    BY <2>1, ChildFollows
  <2>3. Agree(c, M, g, h)
    BY <1>4, <2>2 DEF Agree
  <2>4. DfsFold(g, c) = DfsFold(h, c)
    BY <2>2, <2>3, DfsSame
  <2> QED  BY <1>3, <1>4, <2>1, <2>4
<1>6. h = [n \in 1..N |-> DfsFold(h, nodes[n].children)]
  BY <1>4, <1>5
<1> QED  BY <1>6

LEMMA DfsBelow ==
  ASSUME NEW nodes, NEW N, Family(nodes, N), NEW n \in 1..N
  PROVE  \E g : Below(nodes, N, g) /\ dir_dfs(nodes, n) = g[n]
<1> DEFINE Rec(f) == f = [m \in DOMAIN nodes |->
                            FoldLeft(LAMBDA order, x : order \o <<x>> \o f[x], <<>>, nodes[m].children)]
<1>1. DOMAIN nodes = 1..N
  BY DEF Family
<1>2. \A f : Rec(f) <=> f = [m \in 1..N |-> DfsFold(f, nodes[m].children)]
  BY <1>1 DEF DfsFold
<1>3. PICK g : g = (CHOOSE f : Rec(f))
  OBVIOUS
<1>4. Rec(g)
  <2>1. \E f : Rec(f)
    <3> HIDE DEF Rec
    <3> QED  BY <1>2, BelowExists
  <2> HIDE DEF Rec
  <2> QED  BY <1>3, <2>1
<1>5. dir_dfs(nodes, n) = g[n]
  BY <1>3 DEF dir_dfs
<1>6. Below(nodes, N, g)
  <2>1. g = [m \in 1..N |-> DfsFold(g, nodes[m].children)]
    <3> HIDE DEF Rec
    <3> QED  BY <1>2, <1>4
  <2> QED  BY <2>1 DEF Below
<1> QED  BY <1>5, <1>6

LEMMA ConcatReached ==
  ASSUME NEW S, NEW s \in Seq(S), NEW y \in S, NEW e \in Seq(S), NEW t, t = s \o <<y>> \o e
  PROVE  Has(S, t, s, y, e)
<1>1. PICK o, u : o = <<y>> /\ u = s \o o
  OBVIOUS
<1>2. o \in Seq(S) /\ Len(o) = 1 /\ o[1] = y
  BY <1>1
<1>3. /\ u \in Seq(S) /\ Len(u) = Len(s) + 1
      /\ \A i \in 1..(Len(s) + 1) : u[i] = IF i <= Len(s) THEN s[i] ELSE o[i - Len(s)]
  BY <1>1, <1>2, ConcatProperties
<1>4. /\ t \in Seq(S) /\ Len(t) = Len(u) + Len(e)
      /\ \A i \in 1..(Len(u) + Len(e)) : t[i] = IF i <= Len(u) THEN u[i] ELSE e[i - Len(u)]
  <2>1. t = u \o e
    BY <1>1
  <2> QED  BY <1>3, <2>1, ConcatProperties
<1>5. Len(s) \in Nat /\ Len(e) \in Nat /\ Len(u) \in Nat
  BY <1>3, LenProperties
<1>6. Reached(t, y)
  <2>1. Len(s) + 1 \in 1..Len(t) /\ Len(s) + 1 <= Len(u) /\ Len(s) + 1 \in 1..(Len(u) + Len(e))
    BY <1>3, <1>4, <1>5
  <2>2. t[Len(s) + 1] = u[Len(s) + 1]
    BY <1>4, <2>1
  <2>3. u[Len(s) + 1] = y
    <3>1. Len(s) + 1 \in 1..(Len(s) + 1) /\ ~(Len(s) + 1 <= Len(s)) /\ (Len(s) + 1) - Len(s) = 1
      BY <1>5
    <3> QED  BY <1>2, <1>3, <3>1
  <2> QED  BY <2>1, <2>2, <2>3 DEF Reached
<1>7. ASSUME NEW i \in 1..Len(s) PROVE i \in 1..Len(t) /\ t[i] = s[i]
  <2>1. i \in 1..Len(t) /\ i <= Len(u) /\ i \in 1..(Len(s) + 1) /\ i \in 1..(Len(u) + Len(e)) /\ i <= Len(s)
    BY <1>3, <1>4, <1>5
  <2> QED  BY <1>3, <1>4, <2>1
<1>8. ASSUME NEW i \in 1..Len(e) PROVE Len(u) + i \in 1..Len(t) /\ t[Len(u) + i] = e[i]
  <2>1. PICK j : j = Len(u) + i
    OBVIOUS
  <2>2. j \in 1..Len(t) /\ j \in 1..(Len(u) + Len(e)) /\ ~(j <= Len(u)) /\ j - Len(u) = i
    BY <1>4, <1>5, <2>1
  <2> QED  BY <1>4, <2>1, <2>2
<1> QED  BY <1>4, <1>6, <1>7, <1>8 DEF Has, Reached

LEMMA ChainFacts ==
  ASSUME NEW N \in Nat, NEW c \in Seq(1..N), NEW M, M = Len(c), NEW g, NEW chain,
         Chain(c, M, g, chain), \A k \in 1..M : g[c[k]] \in Seq(1..N)
  PROVE  MetBelow(N, c, M, g, chain[M])
<1> DEFINE Good(i) ==
      /\ chain[i] \in Seq(1..N)
      /\ \A k \in 1..i : /\ Reached(chain[i], c[k])
                         /\ \A x \in 1..N : Reached(g[c[k]], x) => Reached(chain[i], x)
      Wrong == {i \in 0..M : ~Good(i)}
<1>0. M \in Nat
  BY LenProperties
<1>1. SUFFICES ASSUME Wrong # {} PROVE FALSE
  BY <1>0 DEF MetBelow
<1>2. PICK i \in Wrong : \A k \in Wrong : i <= k
  <2>1. Wrong \in SUBSET Nat
    OBVIOUS
  <2> HIDE DEF Wrong
  <2> QED  BY <1>1, <2>1, LeastNumber
<1>3. i \in 0..M /\ ~Good(i)
  BY <1>2
<1>4. i # 0
  <2>1. Good(0)
    BY DEF Chain
  <2> QED  BY <1>3, <2>1
<1>5. i \in 1..M /\ i - 1 \in 0..M /\ i - 1 < i
  BY <1>0, <1>3, <1>4
<1>6. Good(i - 1)
  <2> HIDE DEF Good
  <2>1. i \in Int /\ ~(i <= i - 1)
    BY <1>5
  <2>2. i - 1 \notin Wrong
    <3> HIDE DEF Wrong
    <3> QED  BY <1>2, <2>1
  <2> QED  BY <1>5, <2>2
<1>7. PICK s, y, e, t : s = chain[i - 1] /\ y = c[i] /\ e = g[c[i]] /\ t = chain[i]
  OBVIOUS
<1>8. /\ s \in Seq(1..N) /\ y \in 1..N /\ e \in Seq(1..N)
      /\ t = s \o <<y>> \o e
  <2>1. y \in 1..N
    BY <1>5, <1>7, ElementOfSeq
  <2> QED  BY <1>5, <1>6, <1>7, <2>1 DEF Chain
<1>9. /\ t \in Seq(1..N) /\ Reached(t, y)
      /\ \A x \in 1..N : Reached(s, x) \/ Reached(e, x) => Reached(t, x)
  <2>1. Has(1..N, t, s, y, e)
    BY <1>8, ConcatReached
  <2> QED  BY <2>1 DEF Has
<1>10. ASSUME NEW k \in 1..i
       PROVE  /\ Reached(t, c[k])
              /\ \A x \in 1..N : Reached(g[c[k]], x) => Reached(t, x)
  <2>1. CASE k = i
    BY <1>7, <1>9, <2>1
  <2>2. CASE k # i
    <3>1. k \in 1..(i - 1) /\ k \in 1..M
      BY <1>0, <1>5, <2>2
    <3>2. /\ Reached(s, c[k])
          /\ \A x \in 1..N : Reached(g[c[k]], x) => Reached(s, x)
      BY <1>6, <1>7, <3>1
    <3>3. c[k] \in 1..N
      BY <3>1, ElementOfSeq
    <3> QED  BY <1>9, <3>2, <3>3
  <2> QED  BY <2>1, <2>2
<1>11. Good(i)
  BY <1>7, <1>9, <1>10
<1> QED  BY <1>3, <1>11

LEMMA BelowFacts ==
  ASSUME NEW nodes, NEW N, Family(nodes, N), NEW g, Below(nodes, N, g)
  PROVE  /\ \A n \in 1..N : g[n] \in Seq(1..N)
         /\ \A c \in 2..N : /\ Reached(g[nodes[c].parent], c)
                            /\ \A x \in 1..N : Reached(g[c], x) => Reached(g[nodes[c].parent], x)
<1>0. N \in Nat
  BY DEF Family
<1>1. ASSUME NEW n \in 1..N, \A m \in 1..N : m > n => g[m] \in Seq(1..N)
      PROVE  /\ g[n] \in Seq(1..N)
             /\ \A k \in 1..Len(nodes[n].children) :
                  /\ Reached(g[n], nodes[n].children[k])
                  /\ \A x \in 1..N : Reached(g[nodes[n].children[k]], x) => Reached(g[n], x)
  <2>1. PICK c, M : c = nodes[n].children /\ M = Len(c)
    OBVIOUS
  <2>2. /\ c \in Seq(1..N) /\ M \in Nat /\ DOMAIN c = 1..M
        /\ \A k \in 1..M : c[k] \in 1..N /\ c[k] > n
    BY <2>1, ChildFollows
  <2>3. PICK chain : Chain(c, M, g, chain) /\ DfsFold(g, c) = chain[M]
    BY <2>2, DfsChain
  <2>4. g[n] = chain[M]
    BY <2>1, <2>3 DEF Below
  <2>5. \A k \in 1..M : g[c[k]] \in Seq(1..N)
    BY <1>1, <2>2
  <2>6. MetBelow(N, c, M, g, chain[M])
    <3>1. c \in Seq(1..N) /\ M = Len(c) /\ Chain(c, M, g, chain)
      BY <2>1, <2>2, <2>3
    <3> QED  BY <1>0, <2>5, <3>1, ChainFacts
  <2> QED  BY <2>1, <2>4, <2>6 DEF MetBelow
<1>2. \A n \in 1..N : g[n] \in Seq(1..N)
  <2> DEFINE Wrong == {d \in 0..N : \E n \in 1..N : n > N - d /\ g[n] \notin Seq(1..N)}
  <2>1. SUFFICES Wrong = {}
    <3>1. N \in 0..N /\ \A n \in 1..N : n > N - N
      BY <1>0
    <3>2. N \notin Wrong => \A n \in 1..N : g[n] \in Seq(1..N)
      BY <3>1
    <3> HIDE DEF Wrong
    <3> QED  BY <3>2
  <2>2. SUFFICES ASSUME Wrong # {} PROVE FALSE
    OBVIOUS
  <2>3. PICK d \in Wrong : \A k \in Wrong : d <= k
    <3>1. Wrong \in SUBSET Nat
      BY <1>0
    <3> HIDE DEF Wrong
    <3> QED  BY <2>2, <3>1, LeastNumber
  <2>4. PICK n \in 1..N : n > N - d /\ g[n] \notin Seq(1..N)
    BY <2>3
  <2>5. d \in 0..N /\ d # 0 /\ d - 1 \in 0..N /\ d - 1 < d
    BY <1>0, <2>3, <2>4
  <2>6. d - 1 \notin Wrong
    BY <2>3, <2>5
  <2>7. ASSUME NEW m \in 1..N, m > n PROVE g[m] \in Seq(1..N)
    <3>1. m > N - (d - 1)
      BY <1>0, <2>4, <2>5, <2>7
    <3> QED  BY <2>5, <2>6, <3>1
  <2> QED  BY <1>1, <2>4, <2>7
<1>3. ASSUME NEW c \in 2..N
      PROVE  /\ Reached(g[nodes[c].parent], c)
             /\ \A x \in 1..N : Reached(g[c], x) => Reached(g[nodes[c].parent], x)
  <2>1. PICK n : n = nodes[c].parent
    OBVIOUS
  <2>2. n \in 1..N
    <3>1. nodes[c].parent \in 1..(c - 1)
      BY DEF Family
    <3> QED  BY <1>0, <2>1, <3>1
  <2>3. PICK k \in 1..Len(nodes[n].children) : nodes[n].children[k] = c
    BY <2>1 DEF Family
  <2> QED  BY <1>1, <1>2, <2>1, <2>2, <2>3
<1> QED  BY <1>2, <1>3

\* Everything is below the head.
LEMMA AllBelow ==
  ASSUME NEW nodes, NEW N, Family(nodes, N), NEW g, Below(nodes, N, g), NEW x \in 2..N
  PROVE  Reached(g[1], x)
<1>0. N \in Nat /\ \A c \in 2..N : nodes[c].parent \in 1..(c - 1)
  BY DEF Family
<1> DEFINE Above == {a \in 1..N : Reached(g[a], x)}
<1>1. nodes[x].parent \in Above
  <2>1. nodes[x].parent \in 1..N
    BY <1>0
  <2> QED  BY <2>1, BelowFacts
<1>2. PICK a \in Above : \A b \in Above : a <= b
  <2>1. Above \in SUBSET Nat /\ Above # {}
    BY <1>1
  <2> HIDE DEF Above
  <2> QED  BY <2>1, LeastNumber
<1>3. a \in 1..N /\ Reached(g[a], x)
  BY <1>2
<1>4. CASE a = 1
  BY <1>3, <1>4
<1>5. CASE a # 1
  <2>1. a \in 2..N
    BY <1>3, <1>5
  <2>2. nodes[a].parent \in 1..(a - 1) /\ nodes[a].parent \in 1..N
    BY <1>0, <2>1
  <2>3. x \in 1..N
    BY <1>0
  <2>4. Reached(g[nodes[a].parent], x)
    BY <1>3, <2>1, <2>3, BelowFacts
  <2>5. nodes[a].parent \in Above
    BY <2>2, <2>4
  <2>6. a <= nodes[a].parent
    BY <1>2, <2>5
  <2> QED  BY <1>3, <2>2, <2>6
<1> QED  BY <1>4, <1>5

\* So the walk is long enough.
LEMMA DfsLength ==
  ASSUME NEW nodes, NEW N, Family(nodes, N)
  PROVE  Len(dir_dfs(nodes, 1)) \in Nat /\ N <= Len(dir_dfs(nodes, 1)) + 1
<1>0. N \in Nat \ {0} /\ 1 \in 1..N
  BY DEF Family
<1>1. PICK g : Below(nodes, N, g) /\ dir_dfs(nodes, 1) = g[1]
  BY <1>0, DfsBelow
<1>2. PICK s, L : s = g[1] /\ L = Len(s)
  OBVIOUS
<1>3. s \in Seq(1..N) /\ L \in Nat /\ DOMAIN s = 1..L
  <2>1. s \in Seq(1..N)
    BY <1>0, <1>1, <1>2, BelowFacts
  <2> QED  BY <1>2, <2>1, LenProperties
<1>4. \A x \in 2..N : \E i \in 1..L : s[i] = x
  BY <1>1, <1>2, AllBelow DEF Reached
<1>5. PICK f : f = [i \in 1..L |-> IF s[i] \in 2..N THEN s[i] ELSE N]
  OBVIOUS
<1>6. CASE N = 1
  BY <1>1, <1>2, <1>3, <1>6
<1>7. CASE N # 1
  <2>1. f \in [1..L -> 2..N]
    BY <1>0, <1>5, <1>7
  <2>2. \A x \in 2..N : \E i \in 1..L : f[i] = x
    BY <1>4, <1>5
  <2>3. f \in Surjection(1..L, 2..N)
    BY <2>1, <2>2 DEF Surjection
  <2>4. IsFiniteSet(1..L) /\ Cardinality(1..L) = L
    BY <1>3, FS_Interval
  <2>5. Cardinality(2..N) <= Cardinality(1..L)
    BY <2>3, <2>4, FS_Surjection
  <2>6. Cardinality(2..N) = N - 1
    <3>1. Cardinality(2..N) = IF 2 > N THEN 0 ELSE N - 2 + 1
      BY <1>0, FS_Interval
    <3> QED  BY <1>0, <1>7, <3>1
  <2> QED  BY <1>0, <1>1, <1>2, <1>3, <2>4, <2>5, <2>6
<1> QED  BY <1>6, <1>7
-----------------------------------------------------------------------------
(***************************************************************************)
(* What has children is a directory: a tree of which the head is a file    *)
(* has no other inode.                                                     *)
(***************************************************************************)
LEMMA ParentedKept ==
  ASSUME Typed, Located, Parented, KeptNodes, Len(tree') = Len(tree) PROVE Parented'
<1> SUFFICES ASSUME NEW n \in 2..Len(tree') PROVE tree'[tree'[n].parent].type = "dir"
  BY DEF Parented
<1>1. Len(tree) \in Nat
  BY Lists
<1>2. n \in 2..Len(tree) /\ n \in 1..Len(tree)
  BY <1>1
<1>3. PICK p : p = tree[n].parent
  OBVIOUS
<1>4. p \in 1..Len(tree)
  <2>1. p \in 1..(n - 1)
    BY <1>1, <1>2, <1>3 DEF Located
  <2> QED  BY <1>1, <1>2, <2>1
<1>5. tree'[n].parent = p /\ tree'[p].type = tree[p].type
  BY <1>2, <1>3, <1>4 DEF KeptNodes
<1> QED  BY <1>2, <1>3, <1>5 DEF Parented

LEMMA StartParented == ASSUME Shape, fs_tree_collect PROVE Parented'
<1>1. tree = <<>>
  BY DEF fs_tree_collect, Shape, Phases
<1>2. CASE CollectNothing \/ CollectOther
  <2>1. tree' = <<>> /\ Len(<<>>) = 0
    BY <1>1, <1>2 DEF CollectNothing, CollectOther
  <2> QED  BY <2>1 DEF Parented
<1>3. CASE CollectHead
  <2>1. PICK t : t = <<Inode(source, <<>>, HeadName, 1)>>
    OBVIOUS
  <2>2. tree' = t /\ Len(t) = 1
    BY <1>3, <2>1 DEF CollectHead
  <2>3. 2..1 = {}
    OBVIOUS
  <2> QED  BY <2>2, <2>3 DEF Parented
<1> QED  BY <1>2, <1>3 DEF fs_tree_collect

LEMMA CountParented == ASSUME Shape, Parented, count_files_in_the_directory PROVE Parented'
<1>1. PICK counted \in SUBSET Inner.may :
              /\ Cardinality(counted) + 2 \in Nat
              /\ tree' = [tree EXCEPT ![Inner.dir].slots = Cardinality(counted) + 2]
  BY CountFacts
<1>2. at = "collecting"
  BY CountFacts
<1>3. KeptNodes /\ Len(tree') = Len(tree)
  BY <1>1, <1>2, CountedNodes
<1> QED  BY <1>3, ParentedKept DEF Shape

LEMMA ChildParented ==
  ASSUME Shape, Parented, NEW e, process_dir_child(e) PROVE Parented'
<1>1. at = "collecting" /\ e \in Inner.may \ Inner.seen
  BY ChildFacts
<1>0. PICK n \in Names : n = e.name
  BY <1>1, InnerFacts DEF ListedEntry
<1>2. PICK p, d : /\ p = Append(InnerPath, n)
                  /\ ChildIsGone(p) \/ ChildIsSkipped(p, d) \/ ChildIsAdded(p, d)
  BY <1>0, ChildFacts
<1>3. CASE ChildIsGone(p) \/ ChildIsSkipped(p, d)
  <2>1. tree' = tree
    BY <1>3 DEF ChildIsGone, ChildIsSkipped
  <2> QED  BY <2>1 DEF Parented
<1>4. CASE ChildIsAdded(p, d)
  <2>1. Grafted(n, p)
    BY <1>1, <1>2, <1>4, AddedChild
  <2>2. PICK dir : dir = Inner.dir
    OBVIOUS
  <2>3. KeptNodes /\ Len(tree') = Len(tree) + 1 /\ tree'[Len(tree) + 1].parent = dir
    BY <2>1, <2>2 DEF Grafted
  <2>4. dir \in 1..Len(tree) /\ tree[dir].type = "dir"
    BY <1>1, <2>2, InnerFacts
  <2>5. Len(tree) \in Nat
    BY Lists DEF Shape
  <2>6. ASSUME NEW k \in 2..Len(tree') PROVE tree'[tree'[k].parent].type = "dir"
    <3>1. CASE k = Len(tree) + 1
      <4>1. tree'[dir].type = tree[dir].type
        BY <2>3, <2>4 DEF KeptNodes
      <4> QED  BY <2>3, <2>4, <3>1, <4>1
    <3>2. CASE k # Len(tree) + 1
      <4>1. k \in 2..Len(tree) /\ k \in 1..Len(tree)
        BY <2>3, <2>5, <3>2
      <4>2. PICK q : q = tree[k].parent
        OBVIOUS
      <4>3. q \in 1..Len(tree)
        <5>1. q \in 1..(k - 1)
          BY <4>1, <4>2 DEF Shape, Located
        <5> QED  BY <2>5, <4>1, <5>1
      <4>4. tree'[k].parent = q /\ tree'[q].type = tree[q].type
        BY <2>3, <4>1, <4>2, <4>3 DEF KeptNodes
      <4> QED  BY <4>1, <4>2, <4>4 DEF Parented
    <3> QED  BY <3>1, <3>2
  <2> QED  BY <2>6 DEF Parented
<1> QED  BY <1>2, <1>3, <1>4

LEMMA ParentedNext == Shape /\ Parented /\ [Next]_vars => Parented'
<1> SUFFICES ASSUME Shape, Parented, [Next]_vars PROVE Parented'
  OBVIOUS
<1>1. CASE fs_tree_collect
  BY <1>1, StartParented
<1>2. CASE open_dir \/ CloseDir
  BY <1>2 DEF open_dir, CloseDir, InPass, Parented
<1>3. CASE count_files_in_the_directory
  BY <1>3, CountParented
<1>4. ASSUME NEW e \in ListedEntry, process_dir_child(e) PROVE Parented'
  BY <1>4, ChildParented
<1>5. ASSUME NEW p \in Paths,
             \/ \E entry \in NewEntries : Appears(p, entry)
             \/ Vanishes(p)
             \/ \E size \in {0, 2} : Resizes(p, size)
      PROVE  Parented'
  BY <1>5 DEF Appears, Vanishes, Resizes, Changes, Parented
<1>6. CASE Beside
  BY <1>6 DEF Beside, Parented
<1> QED  BY Steps, <1>1, <1>2, <1>3, <1>4, <1>5, <1>6

(***************************************************************************)
(* What holds of an archive that has been laid out.                        *)
(***************************************************************************)
\* The queue of the walk has room for every inode.
LEMMA WalkFits ==
  ASSUME Parented, NEW N, Family(tree, N) PROVE N <= get_tree_size(tree) + 1
<1>1. N \in Nat \ {0} /\ N = Len(tree) /\ \A n \in 2..N : tree[n].parent \in 1..(n - 1)
  BY DEF Family
<1>2. CASE tree[1].type = "dir"
  <2>1. get_tree_size(tree) = Len(dir_dfs(tree, 1))
    BY <1>2 DEF get_tree_size
  <2> QED  BY <2>1, DfsLength
<1>3. CASE tree[1].type # "dir"
  <2>1. get_tree_size(tree) = 1
    BY <1>3 DEF get_tree_size
  <2>2. N = 1
    <3>1. SUFFICES ASSUME N # 1 PROVE FALSE
      OBVIOUS
    <3>2. 2 \in 2..N
      BY <1>1, <3>1
    <3>3. tree[2].parent \in 1..(2 - 1)
      BY <1>1, <3>2
    <3>4. tree[2].parent = 1
      BY <3>3
    <3>5. tree[tree[2].parent].type = "dir"
      BY <1>1, <3>2 DEF Parented
    <3> QED  BY <1>3, <3>4, <3>5
  <2> QED  BY <2>1, <2>2
<1> QED  BY <1>2, <1>3

\* An entry is found by the path of its inode.
LEMMA SamePaths ==
  ASSUME Shape, NEW N, NEW order, NEW offset, Entered(N, order, offset)
  PROVE  [i \in DOMAIN metas |-> getPathInArchive(i)]
           = [i \in DOMAIN tree |-> get_name(tree, order[i])]
<1>1. /\ N = Len(tree) /\ DOMAIN metas = 1..N
      /\ \A i \in 1..N : Entry1(i, order, offset)
  BY DEF Entered
<1>2. DOMAIN tree = 1..N
  BY <1>1, Lists DEF Shape
<1>3. ASSUME NEW i \in 1..N PROVE getPathInArchive(i) = get_name(tree, order[i])
  <2>1. Entry1(i, order, offset)
    BY <1>1
  <2>2. PICK n \in 1..Len(tree) : n = order[i]
    BY <2>1 DEF Entry1
  <2>3. getPathInArchive(i) = tree[n].mtime
    BY <2>1, <2>2 DEF Entry1
  <2>4. get_name(tree, n) = tree[n].mtime
    BY NameIsTime DEF Shape
  <2> QED  BY <2>2, <2>3, <2>4
<1> QED  BY <1>1, <1>2, <1>3

\* Every byte belongs to the content of one entry.
LEMMA OneEntry ==
  ASSUME NEW N, NEW order, NEW offset, Entered(N, order, offset), offset[0] = 0,
         NEW k \in 1..contentSize
  PROVE  Cardinality({i \in DOMAIN metas :
                        k - metas[i].contentOffset \in 1..metas[i].contentSize}) = 1
<1>1. /\ N \in Nat /\ DOMAIN metas = 1..N
      /\ contentSize \in Nat /\ contentSize = offset[N]
      /\ \A i \in 0..N : offset[i] \in Nat
      /\ \A j \in 0..N : \A i \in 0..j : offset[i] <= offset[j]
  BY DEF Entered
<1>2. ASSUME NEW i \in 1..N
      PROVE  k - metas[i].contentOffset \in 1..metas[i].contentSize
               <=> offset[i - 1] < k /\ k <= offset[i]
  <2>1. PICK o, s, e : o = offset[i - 1] /\ s = metas[i].contentSize /\ e = offset[i]
    OBVIOUS
  <2>2. o \in Nat
    <3>1. i - 1 \in 0..N
      BY <1>1
    <3> QED  BY <1>1, <2>1, <3>1
  <2>3. s \in Nat /\ e = o + s /\ metas[i].contentOffset = o
    BY <2>1 DEF Entered, Entry1
  <2>4. k - o \in 1..s <=> o < k /\ k <= o + s
    BY <1>1, <2>2, <2>3
  <2> QED  BY <2>1, <2>3, <2>4
<1> DEFINE Ends == {i \in 0..N : k <= offset[i]}
<1>3. PICK j \in Ends : \A i \in Ends : j <= i
  <2>1. N \in Ends /\ Ends \in SUBSET Nat
    BY <1>1
  <2> HIDE DEF Ends
  <2> QED  BY <2>1, LeastNumber
<1>4. j \in 1..N
  BY <1>1, <1>3
<1>5. offset[j - 1] < k /\ k <= offset[j]
  <2>1. j - 1 \in 0..N /\ ~(j <= j - 1)
    BY <1>1, <1>4
  <2>2. ~(k <= offset[j - 1]) /\ offset[j - 1] \in Nat
    BY <1>1, <1>3, <2>1
  <2>3. offset[j - 1] < k
    BY <1>1, <2>2
  <2> QED  BY <1>3, <2>3
<1>6. ASSUME NEW i \in 1..N, offset[i - 1] < k, k <= offset[i] PROVE i = j
  <2>1. j <= i
    BY <1>1, <1>3, <1>6
  <2>2. SUFFICES ASSUME j # i PROVE FALSE
    OBVIOUS
  <2>3. i - 1 \in 0..N /\ j \in 0..(i - 1)
    BY <1>1, <1>4, <2>1, <2>2
  <2>4. offset[j] <= offset[i - 1]
    BY <1>1, <2>3
  <2>5. offset[j] \in Nat /\ offset[i - 1] \in Nat
    BY <1>1, <1>4, <2>3
  <2> QED  BY <1>1, <1>5, <1>6, <2>4, <2>5
<1>7. {i \in DOMAIN metas : k - metas[i].contentOffset \in 1..metas[i].contentSize} = {j}
  BY <1>1, <1>2, <1>4, <1>5, <1>6
<1> QED  BY <1>7, FS_Singleton

\* The sizes in the entries add up to where the last content ends.
LEMMA EntrySum ==
  ASSUME NEW N, NEW order, NEW offset, Entered(N, order, offset), offset[0] = 0
  PROVE  FoldLeft(LAMBDA sum, m : sum + m.contentSize, 0, metas) = offset[N]
<1> DEFINE Iter(f) ==
      f = [s \in SUBSET (DOMAIN metas) |->
             IF s = {} THEN 0 ELSE f[s \ {Max(s)}] + metas[Max(s)].contentSize]
<1>1. /\ N \in Nat /\ DOMAIN metas = 1..N
      /\ \A i \in 1..N : /\ metas[i].contentSize \in Nat
                         /\ offset[i] = offset[i - 1] + metas[i].contentSize
  BY DEF Entered, Entry1
<1>2. PICK v : v = [i \in 1..N |-> metas[i].contentSize]
  OBVIOUS
<1>3. v \in [1..N -> Nat] /\ \A i \in 1..N : v[i] = metas[i].contentSize
  BY <1>1, <1>2
<1>4. \A f : Iter(f) <=> SumsOf(v, N, f)
  <2>1. \A s \in SUBSET (1..N) : s # {} => v[Max(s)] = metas[Max(s)].contentSize
    BY <1>1, <1>3, MaxFacts
  <2> QED  BY <1>1, <2>1 DEF SumsOf
<1>5. PICK f : f = (CHOOSE g : Iter(g))
  OBVIOUS
<1>6. Iter(f)
  <2>1. \E g : Iter(g)
    <3> HIDE DEF Iter
    <3> QED  BY <1>1, <1>4, SumExists
  <2> HIDE DEF Iter
  <2> QED  BY <1>5, <2>1
<1>7. FoldLeft(LAMBDA sum, m : sum + m.contentSize, 0, metas) = f[DOMAIN metas]
  BY <1>5 DEF FoldLeft, MapThenFoldSet
<1> HIDE DEF Iter
<1>8. SumsOf(v, N, f)
  BY <1>4, <1>6
<1>9. f[1..0] = 0 /\ \A i \in 1..N : f[1..i] = f[1..(i - 1)] + v[i]
  BY <1>1, <1>3, <1>8, SumSteps
<1>10. \A i \in 0..N : f[1..i] = offset[i]
  <2> DEFINE Wrong == {i \in 0..N : f[1..i] # offset[i]}
  <2>1. SUFFICES ASSUME Wrong # {} PROVE FALSE
    OBVIOUS
  <2>2. PICK i \in Wrong : \A k \in Wrong : i <= k
    <3>1. Wrong \in SUBSET Nat
      OBVIOUS
    <3> HIDE DEF Wrong
    <3> QED  BY <2>1, <3>1, LeastNumber
  <2>3. i # 0
    BY <1>9, <2>2
  <2>4. i \in 1..N /\ i - 1 \in 0..N /\ i - 1 < i
    BY <1>1, <2>2, <2>3
  <2>5. f[1..(i - 1)] = offset[i - 1]
    BY <2>2, <2>4
  <2>6. f[1..i] = offset[i]
    BY <1>1, <1>3, <1>9, <2>4, <2>5
  <2> QED  BY <2>2, <2>6
<1>11. f[1..N] = offset[N]
  BY <1>1, <1>10
<1> QED  BY <1>1, <1>7, <1>11

LEMMA LayoutIsLaidOut == ASSUME Shape, Parented, Layout PROVE LaidOut
<1> SUFFICES ASSUME at = "writing"
             PROVE  /\ Len(fs_tree_bfs(tree)) <= get_tree_size(tree) + 1
                    /\ [i \in DOMAIN metas |-> getPathInArchive(i)]
                         = [i \in DOMAIN tree |-> get_name(tree, fs_tree_bfs(tree)[i])]
                    /\ \A k \in 1..contentSize :
                         Cardinality({i \in DOMAIN metas :
                                        k - metas[i].contentOffset \in 1..metas[i].contentSize}) = 1
                    /\ contentSize = FoldLeft(LAMBDA sum, m : sum + m.contentSize, 0, metas)
  BY DEF LaidOut
<1>1. PICK N, order, queue, offset : Laid(N, order, queue, offset)
  BY DEF Layout
<1>2. Plan(tree, N, order, queue, offset)
  BY <1>1 DEF Laid
<1>3. Len(tree) = N /\ Len(order) = N
  BY <1>2, PlanFacts
<1>4. order = fs_tree_bfs(tree) /\ Family(tree, N) /\ offset[0] = 0
  BY <1>2 DEF Plan, Offsets
<1>5. Entered(N, order, offset)
  <2>1. walked = N
    BY <1>3 DEF Layout
  <2> QED  BY <1>1, <2>1, LaidEntries
<1>6. Len(fs_tree_bfs(tree)) <= get_tree_size(tree) + 1
  BY <1>3, <1>4, WalkFits
<1>7. [i \in DOMAIN metas |-> getPathInArchive(i)]
        = [i \in DOMAIN tree |-> get_name(tree, fs_tree_bfs(tree)[i])]
  BY <1>4, <1>5, SamePaths
<1>8. \A k \in 1..contentSize :
         Cardinality({i \in DOMAIN metas :
                        k - metas[i].contentOffset \in 1..metas[i].contentSize}) = 1
  BY <1>4, <1>5, OneEntry
<1>9. contentSize = FoldLeft(LAMBDA sum, m : sum + m.contentSize, 0, metas)
  <2>1. contentSize = offset[N]
    BY <1>5 DEF Entered
  <2> QED  BY <1>4, <1>5, <2>1, EntrySum
<1> QED  BY <1>6, <1>7, <1>8, <1>9

-----------------------------------------------------------------------------
(***************************************************************************)
(* The inductive invariant of packing.  Of the tree: its shape, what of    *)
(* the disk it holds, that parents and children agree, the sizes, and that *)
(* what has children is a directory.  Of the archive: that nothing is laid *)
(* out too early, what the entries that were laid out hold, and what of    *)
(* their contents is written.                                              *)
(***************************************************************************)
\* It holds at the beginning, and every step keeps it.
LEMMA PackInvInit == Init => PackInv
<1> SUFFICES ASSUME Init PROVE PackInv
  OBVIOUS
<1>1. /\ at = "start" /\ tree = <<>> /\ dirs = <<>> /\ source \in Trees
      /\ metas = <<>> /\ userData = <<>> /\ contentFreePosition = 0 /\ walked = 0 /\ written = 0
  BY DEF Init, PackInit, FsInit
<1>2. Shape /\ Complete
  BY CompleteInit
<1>3. Len(<<>>) = 0
  OBVIOUS
<1>5. Related /\ Sized /\ Parented
  BY <1>1, <1>3 DEF Related, Sized, Parented
<1>6. Begun /\ Layout /\ Contents
  BY <1>1 DEF Begun, Layout, Contents
<1> QED  BY <1>2, <1>5, <1>6 DEF PackInv

LEMMA PackInvNext == PackInv /\ [Next]_vars => PackInv'
<1> SUFFICES ASSUME PackInv, [Next]_vars PROVE PackInv'
  OBVIOUS
<1>1. Shape /\ Complete /\ Related /\ Sized /\ Parented /\ Begun /\ Layout /\ Contents
  BY DEF PackInv
<1>2. Shape' /\ Complete'
  BY <1>1, ShapeNext, CompleteNext
<1>3. Related' /\ Sized' /\ Parented' /\ Begun'
  BY <1>1, RelatedNext, SizedNext, ParentedNext, BegunNext
<1>4. Layout' /\ Contents'
  BY <1>1, LayoutNext, ContentsNext
<1> QED  BY <1>2, <1>3, <1>4 DEF PackInv

\* At the end every file has been copied.
LEMMA PackedBytes == PackInv => OwnBytes
<1> SUFFICES ASSUME PackInv, at = "packed", checkArchiveSizes(archive), base = <<>>,
                    NEW i \in DOMAIN metas, NEW k \in 1..metas[i].contentSize
             PROVE  Own(archive.content[metas[i].contentOffset + k], getPathInArchive(i), k)
  BY DEF OwnBytes, Own
<1>1. Intact(written) /\ written = Len(metas)
  BY DEF PackInv, Contents
<1>2. PICK N, order, offset : Entered(N, order, offset)
  BY WrittenEntries DEF PackInv
<1>3. DOMAIN metas = 1..written /\ Entry1(i, order, offset)
  BY <1>1, <1>2 DEF Entered
<1>4. getPathInArchive(i) = metas[i].mtime
  BY <1>3 DEF Entry1
<1> QED  BY <1>1, <1>3, <1>4 DEF Intact

\* It holds of every execution.
LEMMA PackInvariant == Spec => []PackInv
<1>1. Init => PackInv
  BY PackInvInit
<1>2. PackInv /\ [Next]_vars => PackInv'
  BY PackInvNext
<1> QED  BY <1>1, <1>2, PTL DEF Spec

(***************************************************************************)
(* An archive that pack has written holds for each file its own bytes, or  *)
(* zeros for a file that other processes changed: whatever they did, and   *)
(* whatever was in the archive's file before.                              *)
(***************************************************************************)
THEOREM PacksOwnBytes == Spec => []OwnBytes
BY PackInvariant, PackedBytes, PTL

(***************************************************************************)
(* An archive that computeArchiveSize and addInodeToArchive have laid out  *)
(* has an entry for every inode, found by the inode's path; the contents   *)
(* lie one behind the other in the space that was computed for all of      *)
(* them, and the queue of the walk, which is sized without the head, was   *)
(* long enough.                                                            *)
(***************************************************************************)
THEOREM LaysOutTree == Spec => []LaidOut
<1>1. PackInv => LaidOut
  BY LayoutIsLaidOut DEF PackInv
<1> QED  BY <1>1, PackInvariant, PTL
-----------------------------------------------------------------------------
(***************************************************************************)
(* The tree that buildFsTree makes of entries is one of which the parents  *)
(* and the children agree.                                                 *)
(***************************************************************************)
LEMMA SiftedExists ==
  ASSUME NEW N \in Nat, NEW entries, NEW i
  PROVE  \E it : Sifted(entries, i, N, it)
<1> DEFINE Wrong == {n \in Nat : ~\E it : Sifted(entries, i, n, it)}
<1>1. SUFFICES ASSUME Wrong # {} PROVE FALSE
  OBVIOUS
<1>2. PICK n \in Wrong : \A k \in Wrong : n <= k
  <2>1. Wrong \in SUBSET Nat
    OBVIOUS
  <2> HIDE DEF Wrong
  <2> QED  BY <1>1, <2>1, LeastNumber
<1>3. CASE n = 0
  <2>1. SUBSET (1..0) = {{}}
    OBVIOUS
  <2>2. Sifted(entries, i, 0, [s \in SUBSET (1..0) |-> <<>>])
    BY <2>1 DEF Sifted
  <2> QED  BY <1>2, <1>3, <2>2
<1>4. CASE n # 0
  <2>1. n - 1 \in Nat /\ n \in Nat
    BY <1>2, <1>4
  <2>2. PICK f : Sifted(entries, i, n - 1, f)
    BY <1>2, <2>1
  <2>3. PICK h : h = [s \in SUBSET (1..n) |->
                        IF n \notin s THEN f[s] ELSE Sift(entries, i, n, f[s \ {n}])]
    OBVIOUS
  <2>4. ASSUME NEW s \in SUBSET (1..n)
        PROVE  h[s] = IF s = {} THEN <<>> ELSE Sift(entries, i, Max(s), h[s \ {Max(s)}])
    <3>1. CASE n \in s
      <4>1. Max(s) = n
        <5>1. Max(s) \in s /\ n <= Max(s)
          BY <2>1, <3>1, MaxFacts
        <5>2. Max(s) \in 1..n
          BY <5>1
        <5> QED  BY <2>1, <5>1, <5>2
      <4>2. s \ {n} \in SUBSET (1..n) /\ n \notin s \ {n} /\ s # {}
        BY <3>1
      <4>3. h[s] = Sift(entries, i, n, f[s \ {n}])
        BY <2>3, <3>1
      <4>4. h[s \ {n}] = f[s \ {n}]
        BY <2>3, <4>2
      <4> QED  BY <4>1, <4>2, <4>3, <4>4
    <3>2. CASE n \notin s /\ s # {}
      <4>1. s \in SUBSET (1..(n - 1)) /\ s \ {Max(s)} \in SUBSET (1..n)
        <5>1. \A x \in s : x \in 1..(n - 1)
          <6>1. \A x \in s : x \in 1..n /\ x # n
            BY <3>2
          <6> QED  BY <2>1, <6>1
        <5> QED  BY <5>1
      <4>2. h[s] = f[s] /\ h[s \ {Max(s)}] = f[s \ {Max(s)}]
        BY <2>3, <3>2, <4>1
      <4>3. f[s] = Sift(entries, i, Max(s), f[s \ {Max(s)}])
        BY <2>2, <3>2, <4>1 DEF Sifted
      <4> QED  BY <3>2, <4>2, <4>3
    <3>3. CASE s = {}
      <4>1. s \in SUBSET (1..(n - 1))
        BY <3>3
      <4>2. f[s] = <<>>
        BY <2>2, <3>3, <4>1 DEF Sifted
      <4> QED  BY <2>3, <3>3, <4>2
    <3> QED  BY <3>1, <3>2, <3>3
  <2>5. h = [s \in SUBSET (1..n) |->
               IF s = {} THEN <<>> ELSE Sift(entries, i, Max(s), h[s \ {Max(s)}])]
    <3>1. PICK r : r = [s \in SUBSET (1..n) |->
                          IF s = {} THEN <<>> ELSE Sift(entries, i, Max(s), h[s \ {Max(s)}])]
      OBVIOUS
    <3>2. \A s \in SUBSET (1..n) : r[s] = h[s]
      BY <2>4, <3>1
    <3>3. h = [s \in SUBSET (1..n) |-> h[s]] /\ r = [s \in SUBSET (1..n) |-> r[s]]
      BY <2>3, <3>1
    <3>4. h = r
      BY <3>2, <3>3
    <3> QED  BY <3>1, <3>4
  <2> QED  BY <1>2, <2>5 DEF Sifted
<1> QED  BY <1>3, <1>4

LEMMA ChildrenFound ==
  ASSUME NEW N \in Nat, NEW entries, DOMAIN entries = 1..N, NEW i
  PROVE  \E found : Found(entries, i, N, found) /\ ChildrenOf(entries, i) = found[N]
<1>1. PICK seq : seq = [j \in DOMAIN entries |-> j]
  OBVIOUS
<1>2. DOMAIN seq = 1..N /\ \A j \in 1..N : seq[j] = j
  BY <1>1
<1> DEFINE Iter(f) ==
      f = [s \in SUBSET (DOMAIN seq) |->
             IF s = {} THEN <<>> ELSE Sift(entries, i, seq[Max(s)], f[s \ {Max(s)}])]
<1>3. \A f : Iter(f) <=> Sifted(entries, i, N, f)
  <2>1. \A s \in SUBSET (1..N) : s # {} => seq[Max(s)] = Max(s)
    BY <1>2, MaxFacts
  <2> QED  BY <1>2, <2>1 DEF Sifted
<1>4. PICK f : f = (CHOOSE h : Iter(h))
  OBVIOUS
<1>5. Iter(f)
  <2>1. \E h : Iter(h)
    <3> HIDE DEF Iter
    <3> QED  BY <1>3, SiftedExists
  <2> HIDE DEF Iter
  <2> QED  BY <1>4, <2>1
<1>6. ChildrenOf(entries, i) = f[DOMAIN seq]
  BY <1>1, <1>4 DEF ChildrenOf, Sift, FoldLeft, MapThenFoldSet
<1>7. Sifted(entries, i, N, f)
  <2> HIDE DEF Iter
  <2> QED  BY <1>3, <1>5
<1> HIDE DEF Iter
<1>8. PICK found : found = [j \in 0..N |-> f[1..j]]
  OBVIOUS
<1>9. found[0] = <<>>
  <2>1. 1..0 = {} /\ {} \in SUBSET (1..N)
    OBVIOUS
  <2> QED  BY <1>7, <1>8, <2>1 DEF Sifted
<1>10. ASSUME NEW j \in 1..N
       PROVE  found[j] = Sift(entries, i, j, found[j - 1])
  <2>1. 1..j \in SUBSET (1..N) /\ j \in 1..j /\ j \in Nat
    OBVIOUS
  <2>2. Max(1..j) = j
    <3>1. Max(1..j) \in 1..j /\ \A x \in 1..j : x <= Max(1..j)
      BY <2>1, MaxFacts
    <3> QED  BY <2>1, <3>1
  <2>3. (1..j) \ {j} = 1..(j - 1)
    BY <2>1
  <2>4. PICK s : s = 1..j
    OBVIOUS
  <2>5. f[s] = Sift(entries, i, Max(s), f[s \ {Max(s)}])
    <3>1. s # {} /\ s \in SUBSET (1..N)
      BY <2>1, <2>4
    <3> QED  BY <1>7, <3>1 DEF Sifted
  <2>6. found[j] = f[1..j] /\ found[j - 1] = f[1..(j - 1)]
    BY <1>8
  <2> QED  BY <2>2, <2>3, <2>4, <2>5, <2>6
<1>11. found[N] = f[DOMAIN seq]
  BY <1>2, <1>8
<1> QED  BY <1>6, <1>9, <1>10, <1>11 DEF Found

LEMMA ChildrenGathered ==
  ASSUME NEW N \in Nat, NEW entries, DOMAIN entries = 1..N, NEW i
  PROVE  Gathered(entries, i, N, ChildrenOf(entries, i))
<1>1. PICK found : Found(entries, i, N, found) /\ ChildrenOf(entries, i) = found[N]
  BY ChildrenFound
<1> DEFINE Wrong == {j \in 0..N : ~Gathered(entries, i, j, found[j])}
<1>2. SUFFICES ASSUME Wrong # {} PROVE FALSE
  BY <1>1
<1>3. PICK j \in Wrong : \A k \in Wrong : j <= k
  <2>1. Wrong \in SUBSET Nat
    OBVIOUS
  <2> HIDE DEF Wrong
  <2> QED  BY <1>2, <2>1, LeastNumber
<1>4. j \in 0..N /\ ~Gathered(entries, i, j, found[j])
  BY <1>3
<1>5. j # 0
  <2>1. SUFFICES ASSUME j = 0 PROVE FALSE
    OBVIOUS
  <2>2. PICK c : c = found[j]
    OBVIOUS
  <2>3. c = <<>> /\ Len(<<>>) = 0 /\ <<>> \in Seq(1..0)
    BY <1>1, <2>1, <2>2 DEF Found
  <2>4. Gathered(entries, i, 0, c)
    BY <2>3 DEF Gathered
  <2> QED  BY <1>4, <2>1, <2>2, <2>4
<1>6. j \in 1..N /\ j - 1 \in 0..N /\ j - 1 < j /\ j \in Nat
  BY <1>4, <1>5
<1>7. PICK c, d : c = found[j - 1] /\ d = found[j]
  OBVIOUS
<1>8. Gathered(entries, i, j - 1, c)
  BY <1>3, <1>6, <1>7
<1>9. /\ c \in Seq(1..(j - 1)) /\ Len(c) \in Nat /\ c \in Seq(1..j)
      /\ \A k \in 1..Len(c) : c[k] \in 1..(j - 1)
  <2>1. c \in Seq(1..(j - 1))
    BY <1>8 DEF Gathered
  <2>2. Len(c) \in Nat /\ \A k \in 1..Len(c) : c[k] \in 1..(j - 1)
    BY <2>1, LenProperties, ElementOfSeq
  <2>3. 1..(j - 1) \subseteq 1..j
    BY <1>6
  <2>4. c \in Seq(1..j)
    BY <2>1, <2>3
  <2> QED  BY <2>1, <2>2, <2>4
<1>10. CASE ~IsChildOf(entries, j, i)
  <2>1. d = c
    BY <1>1, <1>6, <1>7, <1>10 DEF Found, Sift
  <2>2. \A m \in 1..j : m # j => m \in 1..(j - 1)
    BY <1>6
  <2>3. Gathered(entries, i, j, d)
    BY <1>8, <1>9, <1>10, <2>1, <2>2 DEF Gathered
  <2> QED  BY <1>4, <1>7, <2>3
<1>11. CASE IsChildOf(entries, j, i)
  <2>1. d = Append(c, j)
    BY <1>1, <1>6, <1>7, <1>11 DEF Found, Sift
  <2>2. PICK L : L = Len(c)
    OBVIOUS
  <2>3. /\ d \in Seq(1..j) /\ Len(d) = L + 1 /\ L \in Nat /\ d[L + 1] = j
        /\ \A k \in 1..L : d[k] = c[k]
    <3>1. c \in Seq(1..j) /\ j \in 1..j
      BY <1>6, <1>9
    <3>2. /\ Append(c, j) \in Seq(1..j) /\ Len(Append(c, j)) = L + 1
          /\ Append(c, j)[L + 1] = j
          /\ \A k \in 1..L : Append(c, j)[k] = c[k]
      BY <2>2, <3>1, AppendProperties
    <3> QED  BY <1>9, <2>1, <2>2, <3>2
  <2>4. \A k \in 1..(L + 1) : k \in 1..L \/ k = L + 1
    BY <2>3
  <2>5. \A k \in 1..Len(d) : IsChildOf(entries, d[k], i)
    BY <1>8, <1>11, <2>2, <2>3, <2>4 DEF Gathered
  <2>6. ASSUME NEW k \in 1..Len(d), NEW l \in 1..Len(d), k < l PROVE d[k] < d[l]
    <3>1. k \in 1..L
      BY <2>3, <2>6
    <3>2. CASE l \in 1..L
      <4>1. c[k] < c[l]
        BY <1>8, <2>2, <2>6, <3>1, <3>2 DEF Gathered
      <4> QED  BY <2>3, <3>1, <3>2, <4>1
    <3>3. CASE l = L + 1
      <4>1. c[k] \in 1..(j - 1)
        BY <1>9, <2>2, <3>1
      <4>2. c[k] < j
        BY <1>6, <4>1
      <4> QED  BY <2>3, <3>1, <3>3, <4>2
    <3> QED  BY <2>3, <2>4, <3>2, <3>3
  <2>7. ASSUME NEW m \in 1..j, IsChildOf(entries, m, i) PROVE \E k \in 1..Len(d) : d[k] = m
    <3>1. CASE m = j
      <4>1. L + 1 \in 1..Len(d)
        BY <2>3
      <4> QED  BY <2>3, <3>1, <4>1
    <3>2. CASE m # j
      <4>1. m \in 1..(j - 1)
        BY <1>6, <3>2
      <4>2. PICK k \in 1..L : c[k] = m
        BY <1>8, <2>2, <2>7, <4>1 DEF Gathered
      <4>3. k \in 1..Len(d) /\ d[k] = m
        BY <2>3, <4>2
      <4> QED  BY <4>3
    <3> QED  BY <3>1, <3>2
  <2>8. Gathered(entries, i, j, d)
    BY <2>3, <2>5, <2>6, <2>7 DEF Gathered
  <2> QED  BY <1>4, <1>7, <2>8
<1> QED  BY <1>10, <1>11

\* The tree has the entries' fields.
LEMMA BuiltFields ==
  ASSUME NEW entries, NEW N, Orphanless(entries, N)
  PROVE  /\ DOMAIN buildFsTree(entries) = 1..N
         /\ \A i \in 1..N : /\ buildFsTree(entries)[i].name = entries[i].name
                            /\ buildFsTree(entries)[i].parent = entries[i].parent
                            /\ buildFsTree(entries)[i].type = entries[i].type
                            /\ buildFsTree(entries)[i].children = ChildrenOf(entries, i)
BY DEF buildFsTree, Orphanless

LEMMA BuiltFamily ==
  ASSUME NEW entries, NEW N, Orphanless(entries, N)
  PROVE  Family(buildFsTree(entries), N)
<1>1. PICK nodes : nodes = buildFsTree(entries)
  OBVIOUS
<1>2. /\ N \in Nat \ {0} /\ DOMAIN entries = 1..N
      /\ \A i \in 1..N : entries[i].parent \in 1..i /\ (entries[i].parent = i <=> i = 1)
  BY DEF Orphanless
<1>3. /\ DOMAIN nodes = 1..N
      /\ \A i \in 1..N : /\ nodes[i].parent = entries[i].parent
                         /\ nodes[i].children = ChildrenOf(entries, i)
  BY <1>1, BuiltFields
<1>4. Len(nodes) = N
  <2>1. nodes \in [1..N -> {nodes[i] : i \in 1..N}]
    <3>1. nodes = [i \in 1..N |-> nodes[i]]
      BY <1>1, <1>2 DEF buildFsTree
    <3> QED  BY <3>1
  <2>2. nodes \in Seq({nodes[i] : i \in 1..N})
    BY <1>2, <2>1
  <2>3. DOMAIN nodes = 1..Len(nodes) /\ Len(nodes) \in Nat
    BY <2>2, LenProperties
  <2> QED  BY <1>2, <1>3, <2>3
<1>5. ASSUME NEW n \in 2..N PROVE nodes[n].parent \in 1..(n - 1)
  <2>1. n \in 1..N /\ n # 1
    BY <1>2
  <2>2. nodes[n].parent \in 1..n /\ nodes[n].parent # n
    BY <1>2, <1>3, <2>1
  <2> QED  BY <1>2, <2>1, <2>2
<1>6. ASSUME NEW n \in 1..N PROVE Gathered(entries, n, N, nodes[n].children)
  BY <1>2, <1>3, ChildrenGathered
<1>7. ASSUME NEW n \in 1..N
      PROVE  /\ nodes[n].children \in Seq(1..N)
             /\ \A k \in 1..Len(nodes[n].children) :
                  /\ nodes[n].children[k] \in 2..N
                  /\ nodes[nodes[n].children[k]].parent = n
             /\ \A k, l \in 1..Len(nodes[n].children) :
                  nodes[n].children[k] = nodes[n].children[l] => k = l
  <2>1. PICK c : c = nodes[n].children
    OBVIOUS
  <2>2. Gathered(entries, n, N, c)
    BY <1>6, <2>1
  <2>3. c \in Seq(1..N) /\ Len(c) \in Nat /\ \A k \in 1..Len(c) : c[k] \in 1..N
    <3>1. c \in Seq(1..N)
      BY <2>2 DEF Gathered
    <3> QED  BY <3>1, LenProperties, ElementOfSeq
  <2>4. ASSUME NEW k \in 1..Len(c) PROVE c[k] \in 2..N /\ nodes[c[k]].parent = n
    <3>1. PICK x \in 1..N : x = c[k]
      BY <2>3
    <3>2. entries[x].parent = n /\ x # n
      BY <2>2, <3>1 DEF Gathered, IsChildOf
    <3>3. x # 1
      BY <1>2, <3>1, <3>2
    <3>4. x \in 2..N
      BY <1>2, <3>1, <3>3
    <3> QED  BY <1>3, <3>1, <3>2, <3>4
  <2>5. ASSUME NEW k \in 1..Len(c), NEW l \in 1..Len(c), c[k] = c[l] PROVE k = l
    <3>1. k < l => c[k] < c[l]
      BY <2>2 DEF Gathered
    <3>2. l < k => c[l] < c[k]
      BY <2>2 DEF Gathered
    <3>3. c[k] \in Nat /\ k \in Nat /\ l \in Nat
      BY <2>3
    <3> QED  BY <2>5, <3>1, <3>2, <3>3
  <2> QED  BY <2>1, <2>3, <2>4, <2>5
<1>8. ASSUME NEW n \in 2..N
      PROVE  \E k \in 1..Len(nodes[nodes[n].parent].children) :
               nodes[nodes[n].parent].children[k] = n
  <2>1. PICK p : p = nodes[n].parent
    OBVIOUS
  <2>2. n \in 1..N /\ p \in 1..N /\ p # n
    <3>1. p \in 1..(n - 1)
      BY <1>5, <2>1
    <3> QED  BY <1>2, <3>1
  <2>3. IsChildOf(entries, n, p)
    BY <1>3, <2>1, <2>2 DEF IsChildOf
  <2>4. Gathered(entries, p, N, nodes[p].children)
    BY <1>6, <2>2
  <2>5. \E k \in 1..Len(nodes[p].children) : nodes[p].children[k] = n
    BY <2>2, <2>3, <2>4 DEF Gathered
  <2> QED  BY <2>1, <2>5
<1>9. Family(nodes, N)
  BY <1>2, <1>3, <1>4, <1>5, <1>7, <1>8 DEF Family
<1> QED  BY <1>1, <1>9
-----------------------------------------------------------------------------
(***************************************************************************)
(* What the entries of an archive that was laid out are.                   *)
(***************************************************************************)
LEMMA HasHead == ASSUME Shape, at = "collecting" PROVE tree # <<>>
<1>1. Inner.dir \in 1..Len(tree)
  BY InnerFacts
<1>2. 1..Len(<<>>) = {}
  OBVIOUS
<1> QED  BY <1>1, <1>2

LEMMA KeptHeaded ==
  ASSUME Typed, tree # <<>>, Headed, KeptNodes PROVE Headed'
<1>1. 1 \in 1..Len(tree)
  <2>1. tree \in Seq(Node) /\ Len(tree) \in Nat
    BY Lists DEF Typed
  <2>2. Len(tree) # 0
    BY <2>1, EmptySeq
  <2> QED  BY <2>1, <2>2
<1> QED  BY <1>1 DEF Headed, KeptNodes

LEMMA StartHeaded == ASSUME Shape, fs_tree_collect PROVE Headed'
<1>1. tree = <<>>
  BY DEF fs_tree_collect, Shape, Phases
<1>2. CASE CollectNothing \/ CollectOther
  BY <1>1, <1>2 DEF CollectNothing, CollectOther, Headed
<1>3. CASE CollectHead
  <2>1. PICK i : i = Inode(source, <<>>, HeadName, 1)
    OBVIOUS
  <2>2. i.name = HeadName
    BY <2>1 DEF Inode
  <2>3. tree' = <<i>>
    BY <1>3, <2>1 DEF CollectHead
  <2> QED  BY <2>2, <2>3 DEF Headed
<1> QED  BY <1>2, <1>3 DEF fs_tree_collect

LEMMA HeadedNext == Shape /\ Headed /\ [Next]_vars => Headed'
<1> SUFFICES ASSUME Shape, Headed, [Next]_vars PROVE Headed'
  OBVIOUS
<1>1. CASE fs_tree_collect
  BY <1>1, StartHeaded
<1>2. CASE open_dir \/ CloseDir
  BY <1>2 DEF open_dir, CloseDir, InPass, Headed
<1>3. CASE count_files_in_the_directory
  <2>1. PICK counted \in SUBSET Inner.may :
                /\ Cardinality(counted) + 2 \in Nat
                /\ tree' = [tree EXCEPT ![Inner.dir].slots = Cardinality(counted) + 2]
    BY <1>3, CountFacts
  <2>2. at = "collecting"
    BY <1>3, CountFacts
  <2>3. KeptNodes
    BY <2>1, <2>2, CountedNodes
  <2>4. tree # <<>>
    BY <2>2, HasHead
  <2> QED  BY <2>3, <2>4, KeptHeaded DEF Shape
<1>4. ASSUME NEW e \in ListedEntry, process_dir_child(e) PROVE Headed'
  <2>1. at = "collecting" /\ e \in Inner.may \ Inner.seen
    BY <1>4, ChildFacts
  <2>0. PICK n \in Names : n = e.name
    BY <2>1, InnerFacts DEF ListedEntry
  <2>2. PICK p, d : /\ p = Append(InnerPath, n)
                    /\ ChildIsGone(p) \/ ChildIsSkipped(p, d) \/ ChildIsAdded(p, d)
    BY <1>4, <2>0, ChildFacts
  <2>3. CASE ChildIsGone(p) \/ ChildIsSkipped(p, d)
    BY <2>3 DEF ChildIsGone, ChildIsSkipped, Headed
  <2>4. CASE ChildIsAdded(p, d)
    <3>1. Grafted(n, p)
      BY <2>1, <2>2, <2>4, AddedChild
    <3>2. KeptNodes
      BY <3>1 DEF Grafted
    <3> QED  BY <2>1, <3>2, HasHead, KeptHeaded DEF Shape
  <2> QED  BY <2>2, <2>3, <2>4
<1>5. ASSUME NEW p \in Paths,
             \/ \E entry \in NewEntries : Appears(p, entry)
             \/ Vanishes(p)
             \/ \E size \in {0, 2} : Resizes(p, size)
      PROVE  Headed'
  BY <1>5 DEF Appears, Vanishes, Resizes, Changes, Headed
<1>6. CASE Beside
  BY <1>6 DEF Beside, Headed
<1> QED  BY Steps, <1>1, <1>2, <1>3, <1>4, <1>5, <1>6

LEMMA LaidCatalog ==
  ASSUME Shape, Parented, Headed, Layout, at \in {"writing", "packed", "failed"}
  PROVE  \E N : Catalog(N)
<1>1. PICK N, order, queue, offset : Laid(N, order, queue, offset)
  BY DEF Layout
<1>2. Plan(tree, N, order, queue, offset)
  BY <1>1 DEF Laid
<1>3. /\ N \in Nat \ {0} /\ Len(tree) = N /\ order[1] = 1
      /\ \A i \in 1..N : order[i] \in 1..N
      /\ \A i, j \in 1..N : order[i] = order[j] => i = j
  BY <1>2, PlanFacts
<1>4. walked = N
  BY <1>3 DEF Layout
<1>5. Entered(N, order, offset)
  BY <1>1, <1>4, LaidEntries
<1>6. /\ DOMAIN metas = 1..N /\ Len(metas) = N /\ contentSize \in Nat /\ contentSize = offset[N]
      /\ \A i \in 0..N : offset[i] \in Nat
      /\ \A j \in 0..N : \A i \in 0..j : offset[i] <= offset[j]
      /\ \A i \in 1..N : Entry1(i, order, offset)
  BY <1>5 DEF Entered
<1>7. \A i \in 1..N :
        /\ metas[i].parent \in 1..i /\ (metas[i].parent = i <=> i = 1)
        /\ i # 1 => order[metas[i].parent] = tree[order[i]].parent
        /\ metas[i] = PackedOf(tree, order[i], metas[i].parent, offset[i - 1])
  <2>1. Slots(metas, tree, order, offset, N)
    BY <1>1, <1>4 DEF Laid
  <2>2. \A i \in 1..N : i <= N
    BY <1>3
  <2> QED  BY <1>6, <2>1, <2>2 DEF Slots
<1>8. tree # <<>>
  <2>1. Len(<<>>) = 0
    OBVIOUS
  <2> QED  BY <1>3, <2>1
<1>9. ASSUME NEW i \in 1..N PROVE Cataloged(i)
  <2>0. PICK r : r = metas[i]
    OBVIOUS
  <2>1. PICK n \in 1..N : n = order[i] /\ r = metas[i]
    BY <1>3, <2>0
  <2>2. Entry1(i, order, offset)
    BY <1>6
  <2>3. r.type = tree[n].type /\ r.mtime = tree[n].mtime /\ getPathInArchive(i) = r.mtime
    BY <2>1, <2>2 DEF Entry1
  <2>4. tree[n].type \in {"reg", "dir"} /\ tree[n].name \in Names
    <3>1. tree[n] \in Node
      BY <1>3, Lists DEF Shape
    <3> QED  BY <3>1 DEF Node
  <2>5. tree[n].mtime \in Seq(Names)
    BY <1>3, NodePaths DEF Shape
  <2>6. r.parent \in 1..i /\ (r.parent = i <=> i = 1)
    BY <1>7, <2>1
  <2>7. r.name = tree[n].name
    <3>1. PICK o : o = offset[i - 1]
      OBVIOUS
    <3>2. r = PackedOf(tree, n, r.parent, o)
      BY <1>7, <2>1, <3>1
    <3> QED  BY <3>2 DEF PackedOf
  <2>8. /\ r.contentOffset \in Nat /\ r.contentSize \in Nat
        /\ r.contentOffset + r.contentSize <= contentSize
    <3>1. i - 1 \in 0..N /\ i \in 0..N /\ N \in 0..N
      BY <1>3
    <3>2. offset[i - 1] \in Nat /\ offset[i] <= contentSize
      BY <1>6, <3>1
    <3>3. /\ r.contentOffset = offset[i - 1] /\ r.contentSize \in Nat
          /\ offset[i] = offset[i - 1] + r.contentSize
      BY <2>1, <2>2 DEF Entry1
    <3> QED  BY <3>2, <3>3
  <2>9. CASE i = 1
    <3>1. n = 1
      BY <1>3, <2>1, <2>9
    <3>2. tree[1].mtime = <<>>
      BY <1>3 DEF Shape, Located
    <3>3. tree[1].name = HeadName
      BY <1>8 DEF Headed
    <3> QED  BY <2>1, <2>3, <2>4, <2>5, <2>6, <2>7, <2>8, <2>9, <3>1, <3>2, <3>3 DEF Cataloged
  <2>10. CASE i # 1
    <3>1. n # 1
      <4>1. 1 \in 1..N
        BY <1>3
      <4> QED  BY <1>3, <2>1, <2>10, <4>1
    <3>2. PICK p : p = r.parent
      OBVIOUS
    <3>3. p \in 1..N
      BY <1>3, <2>6, <3>2
    <3>4. tree[n].parent = order[p]
      BY <1>7, <2>1, <2>10, <3>2
    <3>5. tree[n].mtime = Append(tree[tree[n].parent].mtime, tree[n].name)
      BY <1>3, <3>1 DEF Shape, Located
    <3>6. tree[tree[n].parent].type = "dir"
      <4>1. n \in 2..Len(tree)
        BY <1>3, <3>1
      <4> QED  BY <4>1 DEF Parented
    <3>7. Entry1(p, order, offset)
      BY <1>6, <3>3
    <3>8. metas[p].type = tree[order[p]].type /\ metas[p].mtime = tree[order[p]].mtime
      BY <3>7 DEF Entry1
    <3>9. r.mtime = Append(metas[p].mtime, r.name) /\ metas[p].type = "dir"
      BY <2>3, <2>7, <3>4, <3>5, <3>6, <3>8
    <3> QED  BY <2>1, <2>3, <2>4, <2>5, <2>6, <2>7, <2>8, <2>10, <3>2, <3>9 DEF Cataloged
  <2> QED  BY <2>9, <2>10
<1> QED  BY <1>3, <1>6, <1>9 DEF Catalog

-----------------------------------------------------------------------------
(***************************************************************************)
(* Where the entries go, and the order in which they do.                   *)
(***************************************************************************)
\* A path below the directory h.
LEMMA Prefixed ==
  ASSUME NEW h \in Names, NEW p \in Seq(Names), NEW q, q = <<h>> \o p
  PROVE  /\ q \in Seq(Names) /\ q # <<>> /\ Len(q) = Len(p) + 1 /\ Len(p) \in Nat
         /\ q[1] = h /\ \A i \in 1..Len(p) : q[i + 1] = p[i]
<1>1. PICK o : o = <<h>>
  OBVIOUS
<1>2. o \in Seq(Names) /\ Len(o) = 1 /\ o[1] = h
  BY <1>1
<1>3. /\ q \in Seq(Names) /\ Len(q) = Len(o) + Len(p)
      /\ \A i \in 1..(Len(o) + Len(p)) : q[i] = IF i <= Len(o) THEN o[i] ELSE p[i - Len(o)]
  BY <1>1, <1>2, ConcatProperties
<1>4. Len(p) \in Nat
  BY LenProperties
<1>5. Len(q) = Len(p) + 1
  BY <1>2, <1>3, <1>4
<1>6. q # <<>>
  BY <1>3, <1>4, <1>5, EmptySeq
<1>7. q[1] = h
  BY <1>2, <1>3, <1>4
<1>8. ASSUME NEW i \in 1..Len(p) PROVE q[i + 1] = p[i]
  <2>1. i + 1 \in 1..(Len(o) + Len(p)) /\ ~(i + 1 <= Len(o)) /\ i + 1 - Len(o) = i
    BY <1>2, <1>4
  <2> QED  BY <1>3, <2>1
<1> QED  BY <1>3, <1>4, <1>5, <1>6, <1>7, <1>8

LEMMA PrefixFacts ==
  ASSUME NEW h \in Names, NEW p \in Seq(Names)
  PROVE  /\ \A q \in Seq(Names) : <<h>> \o p = <<h>> \o q => p = q
         /\ \A n \in Names : <<h>> \o Append(p, n) = Append(<<h>> \o p, n)
         /\ <<h>> \o <<>> = <<h>> /\ Front(<<h>>) = <<>>
<1>1. ASSUME NEW q \in Seq(Names), <<h>> \o p = <<h>> \o q PROVE p = q
  <2>1. PICK r : r = <<h>> \o p /\ r = <<h>> \o q
    BY <1>1
  <2>2. /\ Len(r) = Len(p) + 1 /\ Len(p) \in Nat
        /\ \A i \in 1..Len(p) : r[i + 1] = p[i]
    BY <2>1, Prefixed
  <2>3. /\ Len(r) = Len(q) + 1 /\ Len(q) \in Nat
        /\ \A i \in 1..Len(q) : r[i + 1] = q[i]
    BY <2>1, Prefixed
  <2>4. Len(p) = Len(q)
    BY <2>2, <2>3
  <2>5. \A i \in 1..Len(p) : p[i] = q[i]
    BY <2>2, <2>3, <2>4
  <2> QED  BY <2>4, <2>5, SeqEqual
<1>2. ASSUME NEW n \in Names PROVE <<h>> \o Append(p, n) = Append(<<h>> \o p, n)
  <2>1. PICK a, q, l, r : a = Append(p, n) /\ q = <<h>> \o p /\ l = <<h>> \o a /\ r = Append(q, n)
    OBVIOUS
  <2>2. /\ a \in Seq(Names) /\ Len(a) = Len(p) + 1 /\ a[Len(p) + 1] = n /\ Len(p) \in Nat
        /\ \A i \in 1..Len(p) : a[i] = p[i]
    BY <2>1, AppendProperties, LenProperties
  <2>3. /\ q \in Seq(Names) /\ Len(q) = Len(p) + 1 /\ q[1] = h
        /\ \A i \in 1..Len(p) : q[i + 1] = p[i]
    BY <2>1, Prefixed
  <2>4. /\ l \in Seq(Names) /\ Len(l) = Len(a) + 1 /\ l[1] = h
        /\ \A i \in 1..Len(a) : l[i + 1] = a[i]
    BY <2>1, <2>2, Prefixed
  <2>5. /\ r \in Seq(Names) /\ Len(r) = Len(q) + 1 /\ r[Len(q) + 1] = n
        /\ \A i \in 1..Len(q) : r[i] = q[i]
    BY <2>1, <2>3, AppendProperties
  <2>6. ASSUME NEW i \in 1..Len(l) PROVE l[i] = r[i]
    <3>1. CASE i = 1
      <4>1. 1 \in 1..Len(q)
        BY <2>2, <2>3
      <4> QED  BY <2>3, <2>4, <2>5, <3>1, <4>1
    <3>2. CASE i = Len(p) + 2
      <4>1. Len(p) + 1 \in 1..Len(a) /\ i = Len(p) + 1 + 1 /\ i = Len(q) + 1
        BY <2>2, <2>3, <3>2
      <4>2. l[i] = n
        BY <2>2, <2>4, <4>1
      <4> QED  BY <2>5, <4>1, <4>2
    <3>3. CASE i # 1 /\ i # Len(p) + 2
      <4>1. PICK j : j = i - 1
        OBVIOUS
      <4>2. j \in 1..Len(p) /\ j \in 1..Len(a) /\ i = j + 1 /\ i \in 1..Len(q)
        BY <2>2, <2>3, <2>4, <3>3, <4>1
      <4>3. l[i] = p[j]
        BY <2>2, <2>4, <4>2
      <4>4. r[i] = p[j]
        BY <2>3, <2>5, <4>2
      <4> QED  BY <4>3, <4>4
    <3> QED  BY <3>1, <3>2, <3>3
  <2>7. Len(l) = Len(r)
    BY <2>2, <2>3, <2>4, <2>5
  <2>8. l = r
    BY <2>4, <2>5, <2>6, <2>7, SeqEqual
  <2> QED  BY <2>1, <2>8
<1>3. <<h>> \o <<>> = <<h>>
  OBVIOUS
<1>4. Front(<<h>>) = <<>>
  <2>1. <<>> \in Seq(Names) /\ Append(<<>>, h) = <<h>>
    OBVIOUS
  <2>2. Front(Append(<<>>, h)) = <<>>
    BY <2>1, EntryParts
  <2> QED  BY <2>1, <2>2
<1> QED  BY <1>1, <1>2, <1>3, <1>4

LEMMA Places ==
  ASSUME NEW N, Catalog(N)
  PROVE  /\ \A i \in 1..N : Place(i) \in Seq(Names) /\ Place(i) # <<>> /\ Restored(i) = Place(i)
         /\ \A i \in 1..N : IsOnlyEntry(i) => Sole(i)
         /\ Front(Place(1)) = <<>>
         /\ \A i \in 1..N : i # 1 => /\ metas[i].parent \in 1..N
                                     /\ Front(Place(i)) = Place(metas[i].parent)
<1>1. N \in Nat \ {0} /\ DOMAIN metas = 1..N /\ \A i \in 1..N : Cataloged(i)
  BY DEF Catalog
<1>2. HeadName \in Names
  BY TreesAssumption
<1>3. ASSUME NEW i \in 1..N
      PROVE  Place(i) \in Seq(Names) /\ Place(i) # <<>> /\ Restored(i) = Place(i)
  <2>1. metas[i].mtime \in Seq(Names) /\ getPathInArchive(i) = metas[i].mtime
    BY <1>1 DEF Cataloged
  <2>2. Place(i) \in Seq(Names) /\ Place(i) # <<>>
    BY <1>2, <2>1, Prefixed DEF Place
  <2> QED  BY <2>1, <2>2 DEF Place, Restored
<1>4. ASSUME NEW i \in 1..N, IsOnlyEntry(i), NEW j \in 1..N, Place(j) = Place(i) PROVE j = i
  <2>1. /\ metas[i].mtime \in Seq(Names) /\ getPathInArchive(i) = metas[i].mtime
        /\ metas[j].mtime \in Seq(Names) /\ getPathInArchive(j) = metas[j].mtime
    BY <1>1 DEF Cataloged
  <2>2. metas[i].mtime = metas[j].mtime
    BY <1>2, <1>4, <2>1, PrefixFacts DEF Place
  <2> QED  BY <1>1, <1>4, <2>1, <2>2 DEF IsOnlyEntry
<1>7. \A i \in 1..N : IsOnlyEntry(i) => Sole(i)
  BY <1>1, <1>4 DEF Sole
<1>5. Front(Place(1)) = <<>>
  <2>1. 1 \in 1..N
    BY <1>1
  <2>2. metas[1].mtime = <<>> /\ metas[1].mtime \in Seq(Names)
    BY <1>1, <2>1 DEF Cataloged
  <2> QED  BY <1>2, <2>2, PrefixFacts DEF Place
<1>6. ASSUME NEW i \in 1..N, i # 1
      PROVE  metas[i].parent \in 1..N /\ Front(Place(i)) = Place(metas[i].parent)
  <2>1. PICK p : p = metas[i].parent
    OBVIOUS
  <2>2. p \in 1..i /\ metas[i].name \in Names /\ metas[i].mtime = Append(metas[p].mtime, metas[i].name)
    BY <1>1, <1>6, <2>1 DEF Cataloged
  <2>3. p \in 1..N
    BY <1>1, <2>2
  <2>4. metas[p].mtime \in Seq(Names)
    BY <1>1, <2>3 DEF Cataloged
  <2>5. Place(i) = Append(Place(p), metas[i].name)
    <3>1. PICK q, n : q = metas[p].mtime /\ n = metas[i].name
      OBVIOUS
    <3>2. <<HeadName>> \o Append(q, n) = Append(<<HeadName>> \o q, n)
      BY <1>2, <2>2, <2>4, <3>1, PrefixFacts
    <3>3. Place(i) = <<HeadName>> \o Append(q, n) /\ Place(p) = <<HeadName>> \o q
      BY <2>2, <3>1 DEF Place
    <3> QED  BY <3>1, <3>2, <3>3
  <2>6. Front(Place(i)) = Place(p)
    BY <1>3, <2>2, <2>3, <2>5, EntryParts
  <2> QED  BY <2>1, <2>3, <2>6
<1> QED  BY <1>3, <1>5, <1>6, <1>7

\* In the tree that is rebuilt an entry is found by its path, too.
LEMMA BuiltNames ==
  ASSUME NEW N, Catalog(N), NEW nodes, nodes = buildFsTree(metas)
  PROVE  \A i \in 1..N : get_name(nodes, i) = metas[i].mtime
<1>1. /\ N \in Nat \ {0} /\ DOMAIN metas = 1..N /\ \A i \in 1..N : Cataloged(i)
  BY DEF Catalog
<1>2. Orphanless(metas, N)
  <2>1. \A i \in 1..N : metas[i].parent \in 1..i /\ (metas[i].parent = i <=> i = 1)
    BY <1>1 DEF Cataloged
  <2> QED  BY <1>1, <2>1 DEF Orphanless
<1>4. /\ DOMAIN nodes = 1..N
      /\ \A i \in 1..N : nodes[i].name = metas[i].name /\ nodes[i].parent = metas[i].parent
  BY <1>2, BuiltFields
<1>5. PICK m : m = [k \in 1..N |-> metas[k].mtime]
  OBVIOUS
<1>6. ASSUME NEW k \in 1..N
      PROVE  /\ nodes[k].parent \in 1..k
             /\ m[k] = IF nodes[k].parent = k THEN <<>>
                       ELSE Append(m[nodes[k].parent], nodes[k].name)
  <2>1. PICK p : p = metas[k].parent
    OBVIOUS
  <2>2. Cataloged(k)
    BY <1>1
  <2>3. p \in 1..k /\ (p = k <=> k = 1)
    BY <2>1, <2>2 DEF Cataloged
  <2>4. p \in 1..N
    BY <1>1, <2>3
  <2>5. m[k] = metas[k].mtime /\ m[p] = metas[p].mtime
    BY <1>5, <2>4
  <2>6. nodes[k].parent = p /\ nodes[k].name = metas[k].name
    BY <1>4, <2>1
  <2>7. k = 1 => metas[k].mtime = <<>>
    BY <2>2 DEF Cataloged
  <2>8. k # 1 => metas[k].mtime = Append(metas[p].mtime, metas[k].name)
    BY <2>1, <2>2 DEF Cataloged
  <2> QED  BY <2>3, <2>5, <2>6, <2>7, <2>8
<1>7. N \in Nat
  BY <1>1
<1>8. ASSUME NEW i \in 1..N PROVE get_name(nodes, i) = metas[i].mtime
  <2>1. get_name(nodes, i) = m[i]
    BY <1>4, <1>6, <1>7, NameIsPath
  <2> QED  BY <1>5, <2>1
<1> QED  BY <1>8

LEMMA Rewalks ==
  ASSUME NEW N, Catalog(N), rebuilt = buildFsTree(metas)
  PROVE  \E order : Rewalk(N, order)
<1>1. /\ N \in Nat \ {0} /\ DOMAIN metas = 1..N /\ \A i \in 1..N : Cataloged(i)
  BY DEF Catalog
<1>2. Orphanless(metas, N)
  <2>1. \A i \in 1..N : metas[i].parent \in 1..i /\ (metas[i].parent = i <=> i = 1)
    BY <1>1 DEF Cataloged
  <2> QED  BY <1>1, <2>1 DEF Orphanless
<1>3. Family(rebuilt, N)
  BY <1>2, BuiltFamily
<1>4. /\ DOMAIN rebuilt = 1..N
      /\ \A i \in 1..N : rebuilt[i].name = metas[i].name /\ rebuilt[i].parent = metas[i].parent
  BY <1>2, BuiltFields
<1>5. PICK order, queue : order = fs_tree_bfs(rebuilt) /\ Walk(rebuilt, N, order, queue)
  BY <1>3, BfsWalk
<1>6. /\ order \in Seq(1..N) /\ Len(order) = N /\ order[1] = 1
      /\ \A i, j \in 1..N : order[i] = order[j] => i = j
      /\ \A v \in 0..N :
           /\ queue[v] \in Seq(1..N) /\ Len(queue[v]) \in 1..N
           /\ v <= Len(queue[v]) /\ (v < N => v + 1 <= Len(queue[v]))
           /\ \A i \in 1..Len(queue[v]) : queue[v][i] = order[i]
  <2>1. PICK nodes : nodes = rebuilt
    OBVIOUS
  <2>2. Family(nodes, N) /\ Walk(nodes, N, order, queue)
    BY <1>3, <1>5, <2>1
  <2>3. /\ order \in Seq(1..N) /\ Len(order) = N /\ order[1] = 1
        /\ \A i, j \in 1..N : order[i] = order[j] => i = j
    BY <2>2, WalkOrder
  <2>4. ASSUME NEW v \in 0..N
        PROVE  /\ queue[v] \in Seq(1..N) /\ Len(queue[v]) \in 1..N
               /\ v <= Len(queue[v]) /\ (v < N => v + 1 <= Len(queue[v]))
               /\ \A i \in 1..Len(queue[v]) : queue[v][i] = order[i]
    BY <2>2, WalkOrder
  <2> QED  BY <2>3, <2>4
<1>7. \A w \in 1..N : order[w] \in 1..N
  BY <1>6, ElementOfSeq
<1>8. \A v \in 0..N : Queued(rebuilt, N, v, queue[v])
  BY <1>5 DEF Walk
<1>9. ASSUME NEW w \in 2..N PROVE \E v \in 1..(w - 1) : order[v] = metas[order[w]].parent
  <2>1. w - 1 \in 0..N /\ w - 1 < N /\ w \in 1..N /\ 1 \in 1..N
    BY <1>1
  <2>2. PICK n, s : n = order[w] /\ s = queue[w - 1]
    OBVIOUS
  <2>3. n \in 2..N
    <3>1. n \in 1..N /\ n # 1
      BY <1>6, <1>7, <2>1, <2>2
    <3> QED  BY <1>1, <3>1
  <2>4. Queued(rebuilt, N, w - 1, s)
    BY <1>8, <2>1, <2>2
  <2>5. Len(s) \in Nat /\ w <= Len(s)
    <3>1. Len(s) \in 1..N
      BY <2>4 DEF Queued
    <3>2. w - 1 + 1 <= Len(s)
      BY <1>6, <2>1, <2>2
    <3> QED  BY <1>1, <3>1, <3>2
  <2>6. Reached(s, n)
    <3>1. w \in 1..Len(s)
      BY <2>5
    <3>2. s[w] = n
      BY <1>6, <2>1, <2>2, <3>1
    <3> QED  BY <3>1, <3>2 DEF Reached
  <2>7. PICK j \in 1..(w - 1) : s[j] = rebuilt[n].parent
    BY <2>3, <2>4, <2>6 DEF Queued
  <2>8. s[j] = order[j]
    <3>1. j \in 1..Len(s)
      BY <2>5
    <3> QED  BY <1>6, <2>1, <2>2, <3>1
  <2>9. rebuilt[n].parent = metas[n].parent
    BY <1>4, <2>3
  <2> QED  BY <2>2, <2>7, <2>8, <2>9
<1>10. \A i \in 1..N : \E w \in 1..N : order[w] = i
  <2> DEFINE Wrong == {i \in 1..N : ~\E w \in 1..N : order[w] = i}
  <2>1. SUFFICES ASSUME Wrong # {} PROVE FALSE
    OBVIOUS
  <2>2. PICK i \in Wrong : \A k \in Wrong : i <= k
    <3>1. Wrong \in SUBSET Nat
      OBVIOUS
    <3> HIDE DEF Wrong
    <3> QED  BY <2>1, <3>1, LeastNumber
  <2>3. i \in 1..N /\ ~\E w \in 1..N : order[w] = i
    BY <2>2
  <2>4. i \in 2..N
    <3>1. 1 \in 1..N
      BY <1>1
    <3>2. i # 1
      BY <1>6, <2>3, <3>1
    <3> QED  BY <1>1, <2>3, <3>2
  <2>5. PICK p : p = metas[i].parent
    OBVIOUS
  <2>6. p \in 1..N /\ ~(i <= p)
    <3>1. p \in 1..i /\ p # i
      BY <1>1, <2>3, <2>4, <2>5 DEF Cataloged
    <3> QED  BY <1>1, <2>3, <3>1
  <2>7. \E w \in 1..N : order[w] = p
    BY <2>2, <2>6
  <2>8. Queued(rebuilt, N, N, queue[N]) /\ queue[N] = order
    <3>1. N \in 0..N
      BY <1>1
    <3> QED  BY <1>5, <1>8, <3>1 DEF Walk
  <2>9. rebuilt[i].parent = p
    BY <1>4, <2>3, <2>5
  <2>10. Reached(order, i)
    BY <2>4, <2>7, <2>8, <2>9 DEF Queued
  <2> QED  BY <1>6, <2>3, <2>10 DEF Reached
<1>11. \A i \in 1..N : get_name(rebuilt, i) = metas[i].mtime
  BY BuiltNames
<1>12. Len(rebuilt) = N
  BY <1>3 DEF Family
<1>13. rebuilt[1].name = HeadName
  <2>1. 1 \in 1..N
    BY <1>1
  <2>2. metas[1].name = HeadName
    BY <1>1, <2>1 DEF Cataloged
  <2> QED  BY <1>4, <2>1, <2>2
<1>14. \A v, w \in 1..N : order[v] = order[w] => v = w
  BY <1>6
<1>15. order = fs_tree_bfs(rebuilt) /\ Len(order) = N /\ order[1] = 1
  BY <1>5, <1>6
<1>16. Rewalk(N, order)
  BY <1>7, <1>9, <1>10, <1>11, <1>12, <1>13, <1>14, <1>15 DEF Rewalk
<1> QED  BY <1>16

-----------------------------------------------------------------------------
(***************************************************************************)
(* What unpack keeps.                                                      *)
(***************************************************************************)
LEMMA WithPuts ==
  ASSUME Disk, NEW p, NEW e, p \in DOMAIN target \/ IsDir(target, Front(p))
  PROVE  Put(p, e, With(p, e))
<1>1. PICK t, f : t = With(p, e) /\ f = Front(p)
  OBVIOUS
<1>2. \A q \in DOMAIN target : Canonical(target[q])
  BY DEF Disk
<1>3. CASE p \in DOMAIN target
  <2>1. t = [target EXCEPT ![p] = e]
    BY <1>1, <1>3 DEF With
  <2>2. DOMAIN t = DOMAIN target /\ t[p] = e /\ \A q \in DOMAIN target : q # p => t[q] = target[q]
    BY <1>3, <2>1
  <2>3. DOMAIN t = DOMAIN target \cup {p}
    BY <1>3, <2>2
  <2> QED  BY <1>1, <1>2, <2>2, <2>3 DEF Put
<1>4. CASE p \notin DOMAIN target
  <2>1. f \in DOMAIN target /\ target[f].type = "dir"
    BY <1>1, <1>4 DEF IsDir
  <2>2. PICK r : r = [target[f] EXCEPT !.mtime = Now]
    OBVIOUS
  <2>3. t = [q \in DOMAIN target \cup {p} |->
               IF q = p THEN e ELSE IF q = f THEN [target[q] EXCEPT !.mtime = Now] ELSE target[q]]
    BY <1>1, <1>4 DEF With
  <2>4. DOMAIN t = DOMAIN target \cup {p} /\ t[p] = e
    BY <2>3
  <2>5. ASSUME NEW q \in DOMAIN target, q # p, q # f PROVE t[q] = target[q]
    BY <2>3, <2>5
  <2>6. f # p => t[f] = r
    BY <2>1, <2>2, <2>3
  <2>7. PICK s : s = target[f]
    OBVIOUS
  <2>8. Canonical(s)
    BY <1>2, <2>1, <2>7
  <2>9. /\ Canonical(r) /\ r.type = s.type /\ r.mode = s.mode /\ r.data = s.data
    <3>1. s = [type |-> s.type, mtime |-> s.mtime, data |-> s.data, mode |-> s.mode]
      BY <2>8 DEF Canonical
    <3>2. r = [s EXCEPT !.mtime = Now]
      BY <2>2, <2>7
    <3>3. r = [type |-> s.type, mtime |-> Now, data |-> s.data, mode |-> s.mode]
      BY <3>1, <3>2
    <3> QED  BY <3>3 DEF Canonical
  <2>10. ASSUME NEW q \in DOMAIN target, q # p
         PROVE  /\ Canonical(t[q])
                /\ t[q].type = target[q].type /\ t[q].mode = target[q].mode
                /\ t[q].data = target[q].data
                /\ target[q].type # "dir" => t[q].mtime = target[q].mtime
    <3>1. CASE q = f
      BY <2>1, <2>6, <2>7, <2>9, <2>10, <3>1
    <3>2. CASE q # f
      BY <1>2, <2>5, <2>10, <3>2
    <3> QED  BY <3>1, <3>2
  <2> QED  BY <1>1, <2>4, <2>10 DEF Put
<1> QED  BY <1>3, <1>4

\* The disk keeps its form when an entry is put in its place.
LEMMA PutDisk ==
  ASSUME NEW N, Catalog(N), Disk, NEW i \in 1..N, NEW e, Put(Place(i), e, target'),
         UNCHANGED metas, Canonical(e), e.type = metas[i].type,
         metas[i].type = "dir" => e.mode = metas[i].mode,
         IF Place(i) \in DOMAIN target THEN target[Place(i)].type = e.type
         ELSE IsDir(target, Front(Place(i)))
  PROVE  Disk' /\ \A q : IsDir(target, q) => IsDir(target', q)
<1>1. PICK p, t : p = Place(i) /\ t = target'
  OBVIOUS
<1>2. DOMAIN metas = 1..N /\ \A j \in 1..N : Place(j)' = Place(j)
  BY DEF Catalog, Place
<1>3. p # <<>> /\ p \in Seq(Names)
  BY <1>1, Places
<1>4. /\ DOMAIN t = DOMAIN target \cup {p} /\ t[p] = e
      /\ \A q \in DOMAIN target : q # p =>
           /\ Canonical(t[q])
           /\ t[q].type = target[q].type /\ t[q].mode = target[q].mode
  BY <1>1 DEF Put
<1>5. IsDir(target, Front(p)) /\ (p \in DOMAIN target => target[p].type = metas[i].type)
  <2>1. CASE p \in DOMAIN target
    <3>1. Made(p)
      BY <1>3, <2>1 DEF Disk
    <3> QED  BY <1>1, <2>1, <3>1 DEF Made
  <2>2. CASE p \notin DOMAIN target
    BY <1>1, <2>2
  <2> QED  BY <2>1, <2>2
<1>6. ASSUME NEW q, IsDir(target, q) PROVE IsDir(t, q)
  <2>1. CASE q = p
    BY <1>4, <1>5, <1>6, <2>1 DEF IsDir
  <2>2. CASE q # p
    BY <1>4, <1>6, <2>2 DEF IsDir
  <2> QED  BY <2>1, <2>2
<1>7. IsDir(t, <<>>) /\ t[<<>>].mode = "755"
  <2>1. <<>> \in DOMAIN target /\ target[<<>>].mode = "755" /\ IsDir(target, <<>>)
    BY DEF Disk, IsDir
  <2> QED  BY <1>3, <1>4, <1>6, <2>1
<1>8. ASSUME NEW q \in DOMAIN t PROVE Canonical(t[q])
  BY <1>4
<1>9. ASSUME NEW q \in DOMAIN t, q # <<>>
      PROVE  /\ \E j \in 1..N : /\ q = Place(j) /\ t[q].type = metas[j].type
                                /\ metas[j].type = "dir" => t[q].mode = metas[j].mode
             /\ IsDir(t, Front(q))
  <2>1. CASE q = p
    BY <1>1, <1>4, <1>5, <1>6, <2>1
  <2>2. CASE q # p
    <3>1. q \in DOMAIN target /\ Made(q)
      BY <1>4, <1>9, <2>2 DEF Disk
    <3>2. PICK j \in 1..N : /\ q = Place(j) /\ target[q].type = metas[j].type
                            /\ metas[j].type = "dir" => target[q].mode = metas[j].mode
      BY <1>2, <3>1 DEF Made
    <3>3. IsDir(t, Front(q))
      BY <1>6, <3>1 DEF Made
    <3>4. t[q].type = target[q].type /\ t[q].mode = target[q].mode
      BY <1>4, <2>2, <3>1
    <3> QED  BY <3>2, <3>3, <3>4
  <2> QED  BY <2>1, <2>2
<1>10. ASSUME NEW q \in DOMAIN target', q # <<>> PROVE Made(q)'
  <2>1. PICK j \in 1..N : /\ q = Place(j) /\ t[q].type = metas[j].type
                          /\ metas[j].type = "dir" => t[q].mode = metas[j].mode
    BY <1>1, <1>9, <1>10
  <2>2. IsDir(t, Front(q))
    BY <1>1, <1>9, <1>10
  <2> QED  BY <1>1, <1>2, <2>1, <2>2 DEF Made
<1> QED  BY <1>1, <1>6, <1>7, <1>8, <1>10 DEF Disk

\* And a file that is there stays as it is.
LEMMA PutKept ==
  ASSUME NEW N, Catalog(N), Disk, NEW i \in 1..N, NEW e, Put(Place(i), e, target'),
         UNCHANGED <<metas, archive>>, NEW j \in 1..N, j # i, Sole(j), Kept(j)
  PROVE  Kept(j)'
<1>1. PICK p, q, t : p = Place(i) /\ q = Place(j) /\ t = target'
  OBVIOUS
<1>2. q # p
  BY <1>1 DEF Sole, Catalog
<1>3. q \in DOMAIN target /\ target[q].type = "reg"
  BY <1>1 DEF Kept
<1>4. /\ q \in DOMAIN t /\ t[q].type = target[q].type /\ t[q].data = target[q].data
      /\ t[q].mtime = target[q].mtime
  BY <1>1, <1>2, <1>3 DEF Put
<1>5. Place(j)' = q
  BY <1>1 DEF Place
<1> QED  BY <1>1, <1>4, <1>5 DEF Kept

LEMMA Standing ==
  ASSUME PackInv, Headed, at \in {"packed", "failed"}, checkArchiveSizes(archive),
         rebuilt = buildFsTree(metas)
  PROVE  \E N, order : Stands(N, order)
<1>1. Intact(written)
  BY DEF PackInv, Contents
<1>2. archive.metas = metas /\ DOMAIN archive.content = 1..contentSize
  BY <1>1 DEF Intact
<1>3. PICK N : Catalog(N)
  BY LaidCatalog DEF PackInv
<1>4. PICK order : Rewalk(N, order)
  BY <1>3, Rewalks
<1>5. Stands(N, order)
  BY <1>2, <1>3, <1>4 DEF Stands
<1> QED  BY <1>5

LEMMA Visiting ==
  ASSUME NEW N, NEW order, Stands(N, order), visited \in 0..N, visited < Len(fs_tree_bfs(rebuilt))
  PROVE  \E i : AtEntry(N, i)
<1>1. /\ order = fs_tree_bfs(rebuilt) /\ Len(order) = N /\ order[1] = 1
      /\ \A w \in 1..N : order[w] \in 1..N
      /\ \A v, w \in 1..N : order[v] = order[w] => v = w
      /\ \A w \in 2..N : \E v \in 1..(w - 1) : order[v] = metas[order[w]].parent
      /\ \A i \in 1..N : get_name(rebuilt, i) = metas[i].mtime
      /\ rebuilt[1].name = HeadName
  BY DEF Stands, Rewalk
<1>2. N \in Nat
  BY DEF Stands, Catalog
<1>3. PICK w \in 1..N : w = visited + 1
  BY <1>1, <1>2
<1>4. PICK i \in 1..N : i = order[w]
  BY <1>1
<1>5. Visited = i
  BY <1>1, <1>3, <1>4 DEF Visited
<1>6. Meta = metas[i]
  BY <1>5 DEF Meta, Stands
<1>7. TargetPath = Place(i)
  BY <1>1, <1>5 DEF TargetPath, Place
<1>8. ~Done(i)
  <2>1. ASSUME NEW v \in 1..visited, order[v] = i PROVE FALSE
    <3>1. v \in 1..N /\ v # w
      BY <1>2, <1>3
    <3> QED  BY <1>1, <1>4, <2>1, <3>1
  <2> QED  BY <1>1, <2>1 DEF Done
<1>9. i = 1 \/ Done(metas[i].parent)
  <2>1. CASE w = 1
    BY <1>1, <1>4, <2>1
  <2>2. CASE w # 1
    <3>1. w \in 2..N /\ w - 1 = visited
      BY <1>2, <1>3, <2>2
    <3>2. PICK v \in 1..(w - 1) : order[v] = metas[order[w]].parent
      BY <1>1, <3>1
    <3> QED  BY <1>1, <1>4, <3>1, <3>2 DEF Done
  <2> QED  BY <2>1, <2>2
<1>10. visited + 1 \in 1..N /\ fs_tree_bfs(rebuilt)[visited + 1] = i
  BY <1>1, <1>3, <1>4
<1> QED  BY <1>6, <1>7, <1>8, <1>9, <1>10 DEF AtEntry

\* Once it has come by it, it has come by one more.
LEMMA DoneOne ==
  ASSUME NEW N, NEW i, AtEntry(N, i), visited \in Nat, visited' = visited + 1, UNCHANGED rebuilt
  PROVE  \A j : Done(j)' <=> Done(j) \/ j = i
<1>1. PICK order : order = fs_tree_bfs(rebuilt)
  OBVIOUS
<1>2. order[visited + 1] = i
  BY <1>1 DEF AtEntry
<1>3. 1..(visited + 1) = 1..visited \cup {visited + 1}
  OBVIOUS
<1>4. ASSUME NEW j PROVE (\E w \in 1..(visited + 1) : order[w] = j) <=> Done(j) \/ j = i
  BY <1>1, <1>2, <1>3 DEF Done
<1>5. ASSUME NEW j PROVE Done(j)' <=> \E w \in 1..(visited + 1) : order[w] = j
  BY <1>1 DEF Done
<1> QED  BY <1>4, <1>5

\* What is held stays held where nothing is taken from the disk.
LEMMA StillHeld ==
  ASSUME Held, UNCHANGED <<metas, dirsQueue>>, \A q : IsDir(target, q) => IsDir(target', q),
         \A j : Done(j) => Done(j)'
  PROVE  Held'
<1>1. ASSUME NEW i \in DOMAIN metas, NEW task, Holds(i, task) PROVE Holds(i, task)'
  <2>1. Place(i)' = Place(i) /\ Task(i)' = Task(i)
    BY DEF Place, Task
  <2>2. IsDir(target', Place(i))
    BY <1>1 DEF Holds
  <2>3. IsDir(target, Place(i))'
    BY <2>1, <2>2 DEF IsDir
  <2> QED  BY <1>1, <2>1, <2>3 DEF Holds
<1>2. \A i : Sole(i)' <=> Sole(i)
  BY DEF Sole, Place
<1> QED  BY <1>1, <1>2 DEF Held

\* A file is written.
LEMMA FileStep ==
  ASSUME NEW N, NEW order, Stands(N, order), visited \in Nat, NEW i, AtEntry(N, i),
         Disk, Held, FilesKept, metas[i].type = "reg",
         unpackRegfileFromArchive, UNCHANGED <<metas, archive, rebuilt>>
  PROVE  Disk' /\ Held' /\ FilesKept'
<1>1. /\ Catalog(N) /\ i \in 1..N /\ DOMAIN metas = 1..N
      /\ TargetPath = Place(i) /\ Meta = metas[i]
  BY DEF Stands, Catalog, AtEntry
<1>2. FileOpens /\ visited' = visited + 1 /\ UNCHANGED <<up, dirsQueue>>
  BY DEF unpackRegfileFromArchive
<1>3. PICK p, data, mode, e :
        /\ p = Place(i)
        /\ data = SubSeq(archive.content, metas[i].contentOffset + 1,
                         metas[i].contentOffset + metas[i].contentSize)
        /\ mode = (IF p \in DOMAIN target THEN target[p].mode ELSE DefaultMode)
        /\ e = [type |-> "reg", mtime |-> metas[i].mtime, data |-> data, mode |-> mode]
  OBVIOUS
<1>4. target' = With(p, e)
  BY <1>1, <1>3 DEF unpackRegfileFromArchive
<1>5. IF p \in DOMAIN target THEN target[p].type = "reg" ELSE IsDir(target, Front(p))
  BY <1>1, <1>2, <1>3 DEF FileOpens, CanCreate
<1>6. Put(p, e, target')
  BY <1>4, <1>5, WithPuts
<1>7. Canonical(e) /\ e.type = "reg" /\ e.mtime = metas[i].mtime /\ e.data = data
  BY <1>3 DEF Canonical
<1>8. Disk' /\ \A q : IsDir(target, q) => IsDir(target', q)
  BY <1>1, <1>3, <1>5, <1>6, <1>7, PutDisk
<1>9. \A j : Done(j)' <=> Done(j) \/ j = i
  BY <1>2, DoneOne
<1>10. Held'
  BY <1>2, <1>8, <1>9, StillHeld
<1>11. Kept(i)'
  <2>1. p \in DOMAIN target' /\ target'[p] = e
    BY <1>6 DEF Put
  <2>2. Place(i)' = p
    BY <1>3 DEF Place
  <2> QED  BY <1>3, <1>7, <2>1, <2>2 DEF Kept
<1>12. ASSUME NEW j \in 1..N, metas[j].type = "reg", Sole(j), Done(j)' PROVE Kept(j)'
  <2>1. CASE j = i
    BY <1>11, <2>1
  <2>2. CASE j # i
    <3>1. Kept(j)
      BY <1>1, <1>9, <1>12, <2>2 DEF FilesKept
    <3> QED  BY <1>1, <1>3, <1>6, <1>12, <2>2, <3>1, PutKept
  <2> QED  BY <2>1, <2>2
<1>13. FilesKept'
  <2>1. \A j : Sole(j)' <=> Sole(j)
    BY DEF Sole, Place
  <2> QED  BY <1>1, <1>12, <2>1 DEF FilesKept
<1> QED  BY <1>8, <1>10, <1>13

\* A directory is made, or is there, or is not.
LEMMA DirMade ==
  ASSUME NEW N, NEW order, Stands(N, order), visited \in Nat, NEW i, AtEntry(N, i),
         Disk, FilesKept, metas[i].type = "dir",
         unpackDirFromArchive, UNCHANGED <<metas, archive, rebuilt>>
  PROVE  /\ Disk' /\ FilesKept' /\ DOMAIN target \subseteq DOMAIN target'
         /\ \A q : IsDir(target, q) => IsDir(target', q)
         /\ \A j : Done(j)' <=> Done(j) \/ j = i
         /\ CanCreate(Place(i)) => Place(i) \in DOMAIN target'
         /\ target' = AfterMkdir
<1>1. /\ Catalog(N) /\ i \in 1..N /\ DOMAIN metas = 1..N
      /\ TargetPath = Place(i) /\ Meta = metas[i]
  BY DEF Stands, Catalog, AtEntry
<1>2. target' = AfterMkdir /\ visited' = visited + 1
  BY DEF unpackDirFromArchive
<1>3. PICK p, mode, e :
        /\ p = Place(i) /\ mode = metas[i].mode
        /\ e = [type |-> "dir", mtime |-> Now, data |-> <<>>, mode |-> mode]
  OBVIOUS
<1>4. \A j : Done(j)' <=> Done(j) \/ j = i
  BY <1>2, DoneOne
<1>5. ASSUME NEW j \in 1..N, metas[j].type = "reg", Sole(j), Done(j)' PROVE j # i /\ Kept(j)
  BY <1>1, <1>4, <1>5 DEF FilesKept
<1>8. \A j : Sole(j)' <=> Sole(j)
  BY DEF Sole, Place
<1>6. CASE p \notin DOMAIN target /\ CanCreate(p)
  <2>1. target' = With(p, e)
    BY <1>1, <1>2, <1>3, <1>6 DEF AfterMkdir
  <2>2. IsDir(target, Front(p))
    BY <1>6 DEF CanCreate
  <2>3. Put(p, e, target')
    BY <2>1, <2>2, WithPuts
  <2>4. Canonical(e) /\ e.type = "dir" /\ e.mode = metas[i].mode
    BY <1>3 DEF Canonical
  <2>5. Disk' /\ \A q : IsDir(target, q) => IsDir(target', q)
    BY <1>1, <1>3, <1>6, <2>2, <2>3, <2>4, PutDisk
  <2>6. DOMAIN target \subseteq DOMAIN target' /\ p \in DOMAIN target'
    BY <2>3 DEF Put
  <2>7. ASSUME NEW j \in 1..N, metas[j].type = "reg", Sole(j), Done(j)' PROVE Kept(j)'
    <3>1. j # i /\ Kept(j)
      BY <1>5, <2>7
    <3> QED  BY <1>1, <1>3, <2>3, <2>7, <3>1, PutKept
  <2>8. FilesKept'
    BY <1>1, <1>8, <2>7 DEF FilesKept
  <2> QED  BY <1>2, <1>3, <1>4, <2>5, <2>6, <2>8
<1>7. CASE ~(p \notin DOMAIN target /\ CanCreate(p))
  <2>1. target' = target
    BY <1>1, <1>2, <1>3, <1>7 DEF AfterMkdir
  <2>2. \A j : Place(j)' = Place(j)
    BY DEF Place
  <2>3. Disk'
    BY <2>1, <2>2 DEF Disk, Made
  <2>4. ASSUME NEW j \in 1..N, metas[j].type = "reg", Sole(j), Done(j)' PROVE Kept(j)'
    BY <1>5, <2>1, <2>2, <2>4 DEF Kept
  <2>5. FilesKept'
    BY <1>1, <1>8, <2>4 DEF FilesKept
  <2> QED  BY <1>2, <1>3, <1>4, <1>7, <2>1, <2>3, <2>5
<1> QED  BY <1>6, <1>7

\* And held open if it can be.
LEMMA DirHeld ==
  ASSUME NEW N, NEW order, Stands(N, order), visited \in Nat, NEW i, AtEntry(N, i),
         Disk, Held, FilesKept, metas[i].type = "dir",
         unpackDirFromArchive, UNCHANGED <<metas, archive, rebuilt>>
  PROVE  Held'
<1>1. /\ Catalog(N) /\ i \in 1..N /\ DOMAIN metas = 1..N /\ TargetPath = Place(i) /\ Meta = metas[i]
      /\ ~Done(i)
  BY DEF Stands, Catalog, AtEntry
<1>2. /\ \A q : IsDir(target, q) => IsDir(target', q)
      /\ \A j : Done(j)' <=> Done(j) \/ j = i
  BY DirMade
<1>3. target' = AfterMkdir
  BY DirMade
<1>4. CASE UNCHANGED dirsQueue
  BY <1>2, <1>4, StillHeld
<1>5. CASE ~UNCHANGED dirsQueue
  <2>1. PICK q, r, x : q = dirsQueue /\ r = dirsQueue' /\ x = Task(i)
    OBVIOUS
  <2>2. r = Append(q, x) /\ IsDir(target', Place(i))
    BY <1>1, <1>3, <1>5, <2>1 DEF unpackDirFromArchive, HoldsDir, Task
  <2>3. x \in [path : Seq(Names), mtime : Seq(Names)] /\ x.path = Place(i)
    <3>1. metas[i].mtime \in Seq(Names)
      BY <1>1 DEF Catalog, Cataloged
    <3>2. Place(i) \in Seq(Names)
      BY <1>1, Places
    <3> QED  BY <2>1, <3>1, <3>2 DEF Task
  <2>4. q \in Seq([path : Seq(Names), mtime : Seq(Names)]) /\ Len(q) \in Nat
    <3>1. q \in Seq([path : Seq(Names), mtime : Seq(Names)])
      BY <2>1 DEF Held
    <3> QED  BY <3>1, LenProperties
  <2>5. /\ r \in Seq([path : Seq(Names), mtime : Seq(Names)]) /\ Len(r) = Len(q) + 1
        /\ r[Len(q) + 1] = x /\ \A k \in 1..Len(q) : r[k] = q[k]
    BY <2>2, <2>3, <2>4, AppendProperties
  <2>6. \A k \in 1..Len(r) : k \in 1..Len(q) \/ k = Len(q) + 1
    BY <2>4, <2>5
  <2>7. \A j : Place(j)' = Place(j) /\ Task(j)' = Task(j)
    BY DEF Place, Task
  <2>14. \A j : /\ Sole(j)' <=> Sole(j)
                /\ IsDir(target, Place(j))' <=> IsDir(target', Place(j))
    BY DEF Sole, Place, IsDir
  <2>8. Holds(i, x)'
    <3>1. Done(i)' /\ x = Task(i)
      BY <1>2, <2>1
    <3> QED  BY <2>2, <2>7, <2>14, <3>1 DEF Holds
  <2>9. ASSUME NEW k \in 1..Len(q)
        PROVE  \E j \in 1..N : j # i /\ q[k] = Task(j) /\ Holds(j, q[k])'
    <3>1. PICK j \in 1..N : Holds(j, q[k])
      BY <1>1, <2>1 DEF Held
    <3>2. metas[j].type = "dir" /\ Done(j) /\ q[k] = Task(j) /\ IsDir(target, Place(j))
      BY <3>1 DEF Holds
    <3>3. j # i
      BY <1>1, <3>2
    <3>4. Holds(j, q[k])'
      BY <1>2, <2>7, <2>14, <3>2 DEF Holds
    <3> QED  BY <3>2, <3>3, <3>4
  <2>10. ASSUME Sole(i), NEW k \in 1..Len(q) PROVE q[k] # x
    <3>1. PICK j \in 1..N : j # i /\ q[k] = Task(j)
      BY <2>9
    <3>2. Place(j) # Place(i)
      BY <1>1, <2>10, <3>1 DEF Sole
    <3>3. Task(j).path = Place(j)
      BY DEF Task
    <3> QED  BY <2>3, <3>1, <3>2, <3>3
  <2>11. ASSUME NEW k \in 1..Len(r) PROVE \E j \in 1..N : Holds(j, r[k])'
    <3>1. CASE k \in 1..Len(q)
      BY <2>5, <2>9, <3>1
    <3>2. CASE k = Len(q) + 1
      BY <1>1, <2>5, <2>8, <3>2
    <3> QED  BY <2>6, <3>1, <3>2
  <2>12. ASSUME \A j \in DOMAIN metas : Sole(j),
                NEW k \in 1..Len(r), NEW l \in 1..Len(r), r[k] = r[l]
         PROVE  k = l
    <3>0. Sole(i)
      BY <1>1, <2>12
    <3>1. CASE k \in 1..Len(q) /\ l \in 1..Len(q)
      BY <2>1, <2>5, <2>12, <3>1 DEF Held
    <3>2. CASE k \in 1..Len(q) /\ l = Len(q) + 1
      BY <2>5, <2>10, <2>12, <3>0, <3>2
    <3>3. CASE k = Len(q) + 1 /\ l \in 1..Len(q)
      BY <2>5, <2>10, <2>12, <3>0, <3>3
    <3> QED  BY <2>6, <3>1, <3>2, <3>3
  <2>13. (\A k \in 1..Len(dirsQueue) : \E j \in DOMAIN metas : Holds(j, dirsQueue[k]))'
    BY <1>1, <2>1, <2>11 DEF Holds
  <2> QED  BY <2>1, <2>5, <2>12, <2>13, <2>14 DEF Held
<1> QED  BY <1>4, <1>5

LEMMA TimedsExist ==
  ASSUME NEW M \in Nat, NEW c, NEW disk
  PROVE  \E it : Timeds(c, M, disk, it)
<1> DEFINE Wrong == {n \in Nat : ~\E it : Timeds(c, n, disk, it)}
<1>1. SUFFICES ASSUME Wrong # {} PROVE FALSE
  OBVIOUS
<1>2. PICK n \in Wrong : \A k \in Wrong : n <= k
  <2>1. Wrong \in SUBSET Nat
    OBVIOUS
  <2> HIDE DEF Wrong
  <2> QED  BY <1>1, <2>1, LeastNumber
<1>3. CASE n = 0
  <2>1. SUBSET (1..0) = {{}}
    OBVIOUS
  <2>2. Timeds(c, 0, disk, [s \in SUBSET (1..0) |-> disk])
    BY <2>1 DEF Timeds
  <2> QED  BY <1>2, <1>3, <2>2
<1>4. CASE n # 0
  <2>1. n - 1 \in Nat /\ n \in Nat
    BY <1>2, <1>4
  <2>2. PICK f : Timeds(c, n - 1, disk, f)
    BY <1>2, <2>1
  <2>3. PICK h : h = [s \in SUBSET (1..n) |->
                        IF n \notin s THEN f[s] ELSE Timed(f[s \ {n}], c[n])]
    OBVIOUS
  <2>4. ASSUME NEW s \in SUBSET (1..n)
        PROVE  h[s] = IF s = {} THEN disk ELSE Timed(h[s \ {Max(s)}], c[Max(s)])
    <3>1. CASE n \in s
      <4>1. Max(s) = n
        <5>1. Max(s) \in s /\ n <= Max(s)
          BY <2>1, <3>1, MaxFacts
        <5>2. Max(s) \in 1..n
          BY <5>1
        <5> QED  BY <2>1, <5>1, <5>2
      <4>2. s \ {n} \in SUBSET (1..n) /\ n \notin s \ {n} /\ s # {}
        BY <3>1
      <4>3. h[s] = Timed(f[s \ {n}], c[n])
        BY <2>3, <3>1
      <4>4. h[s \ {n}] = f[s \ {n}]
        BY <2>3, <4>2
      <4> QED  BY <4>1, <4>2, <4>3, <4>4
    <3>2. CASE n \notin s /\ s # {}
      <4>1. s \in SUBSET (1..(n - 1)) /\ s \ {Max(s)} \in SUBSET (1..n)
        <5>1. \A x \in s : x \in 1..(n - 1)
          <6>1. \A x \in s : x \in 1..n /\ x # n
            BY <3>2
          <6> QED  BY <2>1, <6>1
        <5> QED  BY <5>1
      <4>2. h[s] = f[s] /\ h[s \ {Max(s)}] = f[s \ {Max(s)}]
        BY <2>3, <3>2, <4>1
      <4>3. f[s] = Timed(f[s \ {Max(s)}], c[Max(s)])
        BY <2>2, <3>2, <4>1 DEF Timeds
      <4> QED  BY <3>2, <4>2, <4>3
    <3>3. CASE s = {}
      <4>1. s \in SUBSET (1..(n - 1))
        BY <3>3
      <4>2. f[s] = disk
        BY <2>2, <3>3, <4>1 DEF Timeds
      <4> QED  BY <2>3, <3>3, <4>2
    <3> QED  BY <3>1, <3>2, <3>3
  <2>5. h = [s \in SUBSET (1..n) |->
               IF s = {} THEN disk ELSE Timed(h[s \ {Max(s)}], c[Max(s)])]
    <3>1. PICK r : r = [s \in SUBSET (1..n) |->
                          IF s = {} THEN disk ELSE Timed(h[s \ {Max(s)}], c[Max(s)])]
      OBVIOUS
    <3>2. \A s \in SUBSET (1..n) : r[s] = h[s]
      BY <2>4, <3>1
    <3>3. h = [s \in SUBSET (1..n) |-> h[s]] /\ r = [s \in SUBSET (1..n) |-> r[s]]
      BY <2>3, <3>1
    <3>4. h = r
      BY <3>2, <3>3
    <3> QED  BY <3>1, <3>4
  <2> QED  BY <1>2, <2>5 DEF Timeds
<1> QED  BY <1>3, <1>4

LEMMA TimesFolded ==
  ASSUME NEW M \in Nat, NEW c, DOMAIN c = 1..M, NEW disk
  PROVE  \E times : Times(c, M, disk, times) /\ AllTimed(disk, c) = times[M]
<1> DEFINE Iter(f) ==
      f = [s \in SUBSET (DOMAIN c) |->
             IF s = {} THEN disk ELSE Timed(f[s \ {Max(s)}], c[Max(s)])]
<1>1. \A f : Iter(f) <=> Timeds(c, M, disk, f)
  BY DEF Timeds
<1>2. PICK f : f = (CHOOSE h : Iter(h))
  OBVIOUS
<1>3. Iter(f)
  <2>1. \E h : Iter(h)
    <3> HIDE DEF Iter
    <3> QED  BY <1>1, TimedsExist
  <2> HIDE DEF Iter
  <2> QED  BY <1>2, <2>1
<1>4. AllTimed(disk, c) = f[DOMAIN c]
  BY <1>2 DEF AllTimed, Timed, FoldLeft, MapThenFoldSet
<1>5. Timeds(c, M, disk, f)
  <2> HIDE DEF Iter
  <2> QED  BY <1>1, <1>3
<1> HIDE DEF Iter
<1>6. PICK times : times = [j \in 0..M |-> f[1..j]]
  OBVIOUS
<1>7. times[0] = disk
  <2>1. 1..0 = {} /\ {} \in SUBSET (1..M)
    OBVIOUS
  <2> QED  BY <1>5, <1>6, <2>1 DEF Timeds
<1>8. ASSUME NEW j \in 1..M
      PROVE  times[j] = Timed(times[j - 1], c[j])
  <2>1. 1..j \in SUBSET (1..M) /\ j \in 1..j /\ j \in Nat
    OBVIOUS
  <2>2. Max(1..j) = j
    <3>1. Max(1..j) \in 1..j /\ \A x \in 1..j : x <= Max(1..j)
      BY <2>1, MaxFacts
    <3> QED  BY <2>1, <3>1
  <2>3. (1..j) \ {j} = 1..(j - 1)
    BY <2>1
  <2>4. PICK s : s = 1..j
    OBVIOUS
  <2>5. f[s] = Timed(f[s \ {Max(s)}], c[Max(s)])
    <3>1. s # {} /\ s \in SUBSET (1..M)
      BY <2>1, <2>4
    <3> QED  BY <1>5, <3>1 DEF Timeds
  <2>6. times[j] = f[1..j] /\ times[j - 1] = f[1..(j - 1)]
    BY <1>6
  <2> QED  BY <2>2, <2>3, <2>4, <2>5, <2>6
<1>9. times[M] = f[DOMAIN c]
  BY <1>6
<1> QED  BY <1>4, <1>7, <1>8, <1>9 DEF Times

LEMMA OneTimed ==
  ASSUME NEW s, NEW t, NEW c, NEW n \in Nat, NEW m \in Nat, m = n + 1, t = Timed(s, c[m]),
         NEW q \in DOMAIN s, Retimed(s, c, n, q)
  PROVE  Retimed(t, c, m, q)
<1>1. PICK p, time : p = c[m].path /\ time = c[m].mtime
  OBVIOUS
<1>2. t = [s EXCEPT ![p].mtime = time]
  BY <1>1 DEF Timed
<1>3. DOMAIN t = DOMAIN s
  BY <1>2
<1>4. 1..m = 1..n \cup {m} /\ m \in 1..m
  OBVIOUS
<1>5. PICK old, new : old = s[q] /\ new = t[q]
  OBVIOUS
<1>6. CASE q = p
  <2>1. new = [old EXCEPT !.mtime = time]
    BY <1>2, <1>5, <1>6
  <2>2. old = [type |-> old.type, mtime |-> old.mtime, data |-> old.data, mode |-> old.mode]
    BY <1>5 DEF Retimed, Canonical
  <2>3. new = [type |-> old.type, mtime |-> time, data |-> old.data, mode |-> old.mode]
    BY <2>1, <2>2
  <2>4. /\ Canonical(new) /\ new.type = old.type /\ new.mode = old.mode
        /\ new.data = old.data /\ new.mtime = time
    BY <2>3 DEF Canonical
  <2>5. \E k \in 1..m : c[k].path = q /\ t[q].mtime = c[k].mtime
    BY <1>1, <1>4, <1>5, <1>6, <2>4
  <2>6. /\ t[q].type = target[q].type /\ t[q].mode = target[q].mode /\ t[q].data = target[q].data
    BY <1>5, <2>4 DEF Retimed
  <2> QED  BY <1>3, <1>5, <2>4, <2>5, <2>6 DEF Retimed
<1>7. CASE q # p
  <2>1. t[q] = s[q]
    BY <1>2, <1>7
  <2>2. CASE s[q].mtime = target[q].mtime /\ \A k \in 1..n : c[k].path # q
    <3>1. \A k \in 1..m : c[k].path # q
      BY <1>1, <1>4, <1>7, <2>2
    <3> QED  BY <1>3, <2>1, <2>2, <3>1 DEF Retimed
  <2>3. CASE \E k \in 1..n : c[k].path = q /\ s[q].mtime = c[k].mtime
    <3>1. \E k \in 1..m : c[k].path = q /\ t[q].mtime = c[k].mtime
      BY <1>4, <2>1, <2>3
    <3> QED  BY <1>3, <2>1, <3>1 DEF Retimed
  <2> QED  BY <2>2, <2>3 DEF Retimed
<1> QED  BY <1>6, <1>7

\* A directory gets the time of its own task.
LEMMA TimesRestored ==
  ASSUME Disk, NEW c, NEW M \in Nat, DOMAIN c = 1..M, NEW t, t = AllTimed(target, c)
  PROVE  DOMAIN t = DOMAIN target /\ \A q \in DOMAIN target : Retimed(t, c, M, q)
<1>1. PICK times : Times(c, M, target, times) /\ t = times[M]
  BY TimesFolded
<1> DEFINE Good(j) == /\ DOMAIN times[j] = DOMAIN target
                      /\ \A q \in DOMAIN target : Retimed(times[j], c, j, q)
           Wrong == {j \in 0..M : ~Good(j)}
<1>2. SUFFICES ASSUME Wrong # {} PROVE FALSE
  BY <1>1
<1>3. PICK j \in Wrong : \A k \in Wrong : j <= k
  <2>1. Wrong \in SUBSET Nat
    OBVIOUS
  <2> HIDE DEF Wrong
  <2> QED  BY <1>2, <2>1, LeastNumber
<1>4. j \in 0..M /\ ~Good(j)
  BY <1>3
<1>5. j # 0
  <2>1. times[0] = target
    BY <1>1 DEF Times
  <2>2. \A q \in DOMAIN target : Retimed(target, c, 0, q)
    <3>1. 1..0 = {}
      OBVIOUS
    <3>2. \A q \in DOMAIN target : Canonical(target[q])
      BY DEF Disk
    <3> QED  BY <3>1, <3>2 DEF Retimed
  <2>3. Good(0)
    BY <2>1, <2>2
  <2> HIDE DEF Good
  <2> QED  BY <1>4, <2>3
<1>6. j \in 1..M /\ j - 1 \in 0..M /\ ~(j <= j - 1) /\ j - 1 \in Nat /\ (j - 1) + 1 = j
  BY <1>4, <1>5
<1>7. Good(j - 1)
  <2> HIDE DEF Good
  <2>1. j - 1 \notin Wrong
    <3> HIDE DEF Wrong
    <3> QED  BY <1>3, <1>6
  <2> QED  BY <1>6, <2>1
<1>8. PICK s, u, n : s = times[j - 1] /\ u = times[j] /\ n = j - 1
  OBVIOUS
<1>9. DOMAIN s = DOMAIN target /\ \A q \in DOMAIN target : Retimed(s, c, n, q)
  BY <1>7, <1>8
<1>10. u = Timed(s, c[n + 1])
  BY <1>1, <1>6, <1>8 DEF Times
<1>11. DOMAIN u = DOMAIN s
  BY <1>10 DEF Timed
<1>12. ASSUME NEW q \in DOMAIN target PROVE Retimed(u, c, j, q)
  <2>1. n \in Nat /\ n + 1 = j /\ q \in DOMAIN s /\ Retimed(s, c, n, q)
    BY <1>6, <1>8, <1>9
  <2>2. j \in Nat /\ j = n + 1 /\ u = Timed(s, c[j])
    BY <1>4, <1>10, <2>1
  <2> QED  BY <2>1, <2>2, OneTimed
<1>13. Good(j)
  BY <1>8, <1>9, <1>11, <1>12
<1> HIDE DEF Good
<1> QED  BY <1>4, <1>13

-----------------------------------------------------------------------------
(***************************************************************************)
(* Every step of a restore keeps that.                                     *)
(***************************************************************************)
LEMMA UnpackSteps ==
  ASSUME [Next]_vars
  PROVE  Rests \/ (Uses /\ (unpack \/ unpackInodeFromArchive \/ restoreDirsTime))
<1>1. CASE UNCHANGED vars
  BY <1>1 DEF vars, fsVars, packVars, layoutVars, unpackVars, Rests
<1>2. CASE ArchiveIsCut
  BY <1>2 DEF ArchiveIsCut, fsVars, packVars, layoutVars, unpackVars, Rests
<1>3. CASE pack /\ UNCHANGED unpackVars
  <2>1. UNCHANGED <<up, unpacks, rebuilt, visited, dirsQueue, leaked, target>>
    BY <1>3 DEF unpackVars
  <2>2. at \notin {"packed", "failed"}
    <3>1. CASE Collect
      BY <3>1, CollectAt
    <3>2. CASE OtherProcesses
      BY <3>2 DEF OtherProcesses, Appears, Vanishes, Resizes, Changes
    <3>3. CASE computeArchiveSize \/ addInodeToArchive \/ WriteHeader
      BY <3>3 DEF computeArchiveSize, addInodeToArchive, WriteHeader
    <3>4. CASE writeContentToArchive \/ PackReturns
      BY <3>4 DEF writeContentToArchive, PackReturns
    <3> QED  BY <1>3, <3>1, <3>2, <3>3, <3>4 DEF pack
  <2> QED  BY <2>1, <2>2 DEF Rests
<1>4. CASE UsesArchive
  <2>1. Uses
    BY <1>4 DEF UsesArchive, fsVars, packVars, layoutVars, Uses
  <2>2. CASE printArchiveFsTree
    BY <2>1, <2>2 DEF printArchiveFsTree, Uses, Rests
  <2> QED  BY <1>4, <2>1, <2>2 DEF UsesArchive, Restore
<1> QED  BY <1>1, <1>2, <1>3, <1>4 DEF Next

LEMMA RestsRestoring == ASSUME Restoring, Rests PROVE Restoring'
<1>1. CASE Idle
  BY <1>1 DEF Rests, Idle, Restoring
<1>2. CASE Busy /\ Disk /\ Held /\ FilesKept
  <2>1. UNCHANGED <<at, metas, archive, up, rebuilt, visited, dirsQueue, leaked, target>>
    BY <1>2 DEF Busy, Rests
  <2>2. \A i : /\ Place(i)' = Place(i) /\ Task(i)' = Task(i) /\ (Done(i)' <=> Done(i))
               /\ (Sole(i)' <=> Sole(i))
    BY <2>1 DEF Place, Task, Done, Sole
  <2>3. Busy'
    BY <1>2, <2>1 DEF Busy
  <2>4. Disk'
    BY <1>2, <2>1, <2>2 DEF Disk, Made
  <2>5. Held'
    BY <1>2, <2>1, <2>2, StillHeld
  <2>6. FilesKept'
    BY <1>2, <2>1, <2>2 DEF FilesKept, Kept
  <2> QED  BY <2>3, <2>4, <2>5, <2>6 DEF Restoring
<1> QED  BY <1>1, <1>2 DEF Restoring

LEMMA IdleDisk == ASSUME Idle PROVE Disk
<1>1. PICK r : r = [type |-> "dir", mtime |-> Now, data |-> <<>>, mode |-> "755"]
  OBVIOUS
<1>2. target = [p \in {<<>>} |-> r]
  BY <1>1 DEF Idle
<1>3. Canonical(r) /\ r.type = "dir" /\ r.mode = "755"
  BY <1>1 DEF Canonical
<1>4. DOMAIN target = {<<>>} /\ target[<<>>] = r
  BY <1>2
<1> QED  BY <1>3, <1>4 DEF Disk, IsDir

\* An archive that is not refused is the one that was packed.
LEMMA SoundArchive ==
  ASSUME PackInv, Headed, at \in {"packed", "failed"}, checkArchiveSizes(archive)
  PROVE  archive.metas = metas /\ \E N : Catalog(N)
<1>1. Intact(written)
  BY DEF PackInv, Contents
<1>2. \E N : Catalog(N)
  BY LaidCatalog DEF PackInv
<1> QED  BY <1>1, <1>2 DEF Intact

LEMMA UnpackRestoring == ASSUME PackInv, Headed, Restoring, Uses, unpack PROVE Restoring'
<1>1. at \in {"packed", "failed"} /\ UNCHANGED <<at, metas, archive, target>>
  BY DEF Uses, unpack
<1>2. CASE Refuses
  <2>1. /\ ~checkArchiveSizes(archive) /\ up' = "refused"
        /\ UNCHANGED <<rebuilt, visited, dirsQueue, leaked>>
    BY <1>2 DEF Refuses
  <2>2. Idle
    BY <2>1 DEF Restoring, Busy
  <2>3. Idle'
    BY <1>1, <2>1, <2>2 DEF Idle
  <2> QED  BY <2>3 DEF Restoring
<1>3. CASE Starts
  <2>1. /\ checkArchiveSizes(archive) /\ up' = "unpacking" /\ rebuilt' = buildFsTree(archive.metas)
        /\ visited' = 0 /\ dirsQueue' = <<>>
    BY <1>3 DEF Starts
  <2>2. archive.metas = metas /\ \E N : Catalog(N)
    BY <1>1, <2>1, SoundArchive
  <2>3. 0 \in 0..Len(metas)
    <3>1. Len(metas) \in Nat
      BY <2>2 DEF Catalog
    <3> QED  BY <3>1
  <2>4. Busy'
    <3>1. rebuilt' = buildFsTree(metas)'
      <4>1. buildFsTree(metas)' = buildFsTree(metas)
        BY <1>1
      <4> QED  BY <2>1, <2>2, <4>1
    <3>2. checkArchiveSizes(archive)'
      BY <1>1, <2>1 DEF checkArchiveSizes
    <3> QED  BY <1>1, <2>1, <2>3, <3>1, <3>2 DEF Busy
  <2>5. Disk'
    <3>1. Disk
      BY IdleDisk DEF Restoring
    <3>2. \A i : Place(i)' = Place(i)
      BY <1>1 DEF Place
    <3> QED  BY <1>1, <3>1, <3>2 DEF Disk, Made
  <2>6. Held'
    <3>1. <<>> \in Seq([path : Seq(Names), mtime : Seq(Names)]) /\ 1..Len(<<>>) = {}
      OBVIOUS
    <3> QED  BY <2>1, <3>1 DEF Held
  <2>7. FilesKept'
    <3>1. 1..0 = {}
      OBVIOUS
    <3>2. \A i : ~Done(i)'
      BY <2>1, <3>1 DEF Done
    <3> QED  BY <3>2 DEF FilesKept
  <2> QED  BY <2>4, <2>5, <2>6, <2>7 DEF Restoring
<1> QED  BY <1>2, <1>3 DEF unpack

LEMMA VisitRestoring ==
  ASSUME PackInv, Headed, Restoring, Uses, unpackInodeFromArchive PROVE Restoring'
<1>1. /\ at \in {"packed", "failed"} /\ UNCHANGED <<at, metas, archive, rebuilt>>
      /\ up = "unpacking" /\ visited < Len(fs_tree_bfs(rebuilt))
  BY DEF Uses, unpackInodeFromArchive
<1>2. Busy /\ Disk /\ Held /\ FilesKept
  BY <1>1 DEF Restoring, Idle
<1>3. PICK N, order : Stands(N, order)
  BY <1>1, <1>2, Standing DEF Busy
<1>4. N \in Nat /\ DOMAIN metas = 1..N /\ Len(metas) = N
  BY <1>3 DEF Stands, Catalog
<1>5. visited \in 0..N /\ visited \in Nat
  BY <1>2, <1>4 DEF Busy
<1>6. PICK i : AtEntry(N, i)
  BY <1>1, <1>3, <1>5, Visiting
<1>7. Meta = metas[i] /\ visited + 1 \in 0..Len(metas)
  BY <1>4, <1>5, <1>6 DEF AtEntry
<1>8. rebuilt' = buildFsTree(metas)' /\ checkArchiveSizes(archive)'
  <2>1. buildFsTree(metas)' = buildFsTree(metas)
    BY <1>1
  <2>2. checkArchiveSizes(archive)' <=> checkArchiveSizes(archive)
    BY <1>1 DEF checkArchiveSizes
  <2> QED  BY <1>1, <1>2, <2>1, <2>2 DEF Busy
<1>9. CASE metas[i].type = "reg" /\ unpackRegfileFromArchive
  <2>1. Disk' /\ Held' /\ FilesKept'
    BY <1>1, <1>2, <1>3, <1>5, <1>6, <1>9, FileStep
  <2>2. up' = up /\ visited' = visited + 1
    BY <1>9 DEF unpackRegfileFromArchive
  <2>3. Busy'
    BY <1>1, <1>7, <1>8, <2>2 DEF Busy
  <2> QED  BY <2>1, <2>3 DEF Restoring
<1>10. CASE FileFails
  <2>1. up' = "failed" /\ UNCHANGED <<target, visited, dirsQueue>>
    BY <1>10 DEF FileFails
  <2>2. \A j : Place(j)' = Place(j) /\ (Done(j)' <=> Done(j)) /\ (Sole(j)' <=> Sole(j))
    BY <1>1, <2>1 DEF Place, Done, Sole
  <2>3. Busy'
    BY <1>1, <1>2, <1>8, <2>1 DEF Busy
  <2>4. Disk'
    BY <1>1, <1>2, <2>1, <2>2 DEF Disk, Made
  <2>5. Held'
    BY <1>1, <1>2, <2>1, <2>2, StillHeld
  <2>6. FilesKept'
    BY <1>1, <1>2, <2>1, <2>2 DEF FilesKept, Kept
  <2> QED  BY <2>3, <2>4, <2>5, <2>6 DEF Restoring
<1>11. CASE metas[i].type = "dir" /\ unpackDirFromArchive
  <2>1. Disk' /\ FilesKept'
    BY <1>1, <1>2, <1>3, <1>5, <1>6, <1>11, DirMade
  <2>2. Held'
    BY <1>1, <1>2, <1>3, <1>5, <1>6, <1>11, DirHeld
  <2>3. up' = up /\ visited' = visited + 1
    BY <1>11 DEF unpackDirFromArchive
  <2>4. Busy'
    BY <1>1, <1>7, <1>8, <2>3 DEF Busy
  <2> QED  BY <2>1, <2>2, <2>4 DEF Restoring
<1> QED  BY <1>7, <1>9, <1>10, <1>11 DEF unpackInodeFromArchive

\* The tasks in the order in which they are done.
LEMMA TasksReversed ==
  ASSUME Held
  PROVE  LET c == Reverse(dirsQueue)
             M == Len(dirsQueue)
         IN  /\ M \in Nat /\ DOMAIN c = 1..M
             /\ \A k \in 1..M : \E l \in 1..M : c[k] = dirsQueue[l]
             /\ \A l \in 1..M : \E k \in 1..M : c[k] = dirsQueue[l]
<1>1. PICK c, M : c = Reverse(dirsQueue) /\ M = Len(dirsQueue)
  OBVIOUS
<1>2. M \in Nat
  BY <1>1, LenProperties DEF Held
<1>3. c = [k \in 1..M |-> dirsQueue[(M - k) + 1]]
  BY <1>1 DEF Reverse
<1>4. ASSUME NEW k \in 1..M PROVE \E l \in 1..M : c[k] = dirsQueue[l]
  <2>1. (M - k) + 1 \in 1..M
    BY <1>2
  <2> QED  BY <1>3, <2>1
<1>5. ASSUME NEW l \in 1..M PROVE \E k \in 1..M : c[k] = dirsQueue[l]
  <2>1. (M - l) + 1 \in 1..M /\ (M - ((M - l) + 1)) + 1 = l
    BY <1>2
  <2>2. c[(M - l) + 1] = dirsQueue[(M - ((M - l) + 1)) + 1]
    BY <1>3, <2>1
  <2> QED  BY <2>1, <2>2
<1>6. M \in Nat /\ DOMAIN c = 1..M
  BY <1>2, <1>3
<1> QED  BY <1>1, <1>4, <1>5, <1>6

LEMMA TimesRestoring ==
  ASSUME PackInv, Headed, Restoring, Uses, restoreDirsTime PROVE Restoring'
<1>1. /\ at \in {"packed", "failed"} /\ UNCHANGED <<at, metas, archive, rebuilt, visited>>
      /\ up = "unpacking" /\ visited = Len(fs_tree_bfs(rebuilt))
      /\ dirsQueue' = <<>> /\ up' = "unpacked"
  BY DEF Uses, restoreDirsTime
<1>2. Busy /\ Disk /\ Held /\ FilesKept
  BY <1>1 DEF Restoring, Idle
<1>3. PICK N, order : Stands(N, order)
  BY <1>1, <1>2, Standing DEF Busy
<1>4. /\ Catalog(N) /\ N \in Nat /\ DOMAIN metas = 1..N /\ Len(metas) = N
      /\ visited = Len(metas)
  BY <1>1, <1>3 DEF Stands, Catalog, Rewalk
<1>5. PICK c, M, t : c = Reverse(dirsQueue) /\ M = Len(dirsQueue) /\ t = target'
  OBVIOUS
<1>6. t = AllTimed(target, c)
  BY <1>5 DEF restoreDirsTime, AllTimed
<1>7. /\ M \in Nat /\ DOMAIN c = 1..M
      /\ \A k \in 1..M : \E l \in 1..M : c[k] = dirsQueue[l]
      /\ \A l \in 1..M : \E k \in 1..M : c[k] = dirsQueue[l]
  <2>1. Held
    BY <1>2
  <2> QED  BY <1>5, <2>1, TasksReversed
<1>8. DOMAIN t = DOMAIN target /\ \A q \in DOMAIN target : Retimed(t, c, M, q)
  <2>1. Disk /\ M \in Nat /\ DOMAIN c = 1..M
    BY <1>2, <1>7
  <2> QED  BY <1>6, <2>1, TimesRestored
<1>9. ASSUME NEW k \in 1..M
      PROVE  \E j \in 1..N : metas[j].type = "dir" /\ c[k].path = Place(j)
  <2>1. PICK l \in 1..M : c[k] = dirsQueue[l]
    BY <1>7
  <2>2. PICK j \in 1..N : Holds(j, dirsQueue[l])
    BY <1>2, <1>4, <1>5 DEF Held
  <2>3. metas[j].type = "dir" /\ c[k] = Task(j)
    BY <2>1, <2>2 DEF Holds
  <2>4. Task(j).path = Place(j)
    BY DEF Task
  <2> QED  BY <2>3, <2>4
<1>10. \A i : Place(i)' = Place(i) /\ (Done(i)' <=> Done(i)) /\ (Sole(i)' <=> Sole(i))
  BY <1>1 DEF Place, Done, Sole
<1>11. ASSUME NEW q \in DOMAIN target
       PROVE  /\ Canonical(t[q])
              /\ t[q].type = target[q].type /\ t[q].mode = target[q].mode
              /\ t[q].data = target[q].data
  BY <1>8 DEF Retimed
<1>12. Disk'
  <2>1. \A q : IsDir(target, q) <=> IsDir(t, q)
    BY <1>8, <1>11 DEF IsDir
  <2>2. IsDir(t, <<>>) /\ t[<<>>].mode = "755"
    BY <1>2, <1>11, <2>1 DEF Disk, IsDir
  <2>3. ASSUME NEW p \in DOMAIN target', p # <<>> PROVE Made(p)'
    <3>1. p \in DOMAIN target /\ Made(p)
      BY <1>2, <1>5, <1>8, <2>3 DEF Disk
    <3>2. PICK i \in 1..N : /\ p = Place(i) /\ target[p].type = metas[i].type
                            /\ metas[i].type = "dir" => target[p].mode = metas[i].mode
      BY <1>4, <3>1 DEF Made
    <3>3. IsDir(target', Front(p))
      BY <1>5, <2>1, <3>1 DEF Made
    <3>4. t[p].type = target[p].type /\ t[p].mode = target[p].mode
      BY <1>11, <3>1
    <3> QED  BY <1>1, <1>4, <1>5, <1>10, <3>2, <3>3, <3>4 DEF Made
  <2> QED  BY <1>5, <1>8, <1>11, <2>2, <2>3 DEF Disk
<1>13. Held'
  <2>1. <<>> \in Seq([path : Seq(Names), mtime : Seq(Names)]) /\ 1..Len(<<>>) = {}
    OBVIOUS
  <2> QED  BY <1>1, <2>1 DEF Held
<1>14. FilesKept'
  <2>1. ASSUME NEW i \in 1..N, metas[i].type = "reg", Sole(i), Done(i) PROVE Kept(i)'
    <3>1. Kept(i)
      BY <1>2, <1>4, <2>1 DEF FilesKept
    <3>2. PICK q : q = Place(i)
      OBVIOUS
    <3>3. /\ q \in DOMAIN target /\ target[q].type = "reg" /\ target[q].mtime = metas[i].mtime
          /\ target[q].data = SubSeq(archive.content, metas[i].contentOffset + 1,
                                     metas[i].contentOffset + metas[i].contentSize)
      BY <3>1, <3>2 DEF Kept
    <3>4. ASSUME NEW k \in 1..M PROVE c[k].path # q
      <4>1. PICK j \in 1..N : metas[j].type = "dir" /\ c[k].path = Place(j)
        BY <1>9
      <4>2. Place(j) # Place(i)
        BY <1>4, <2>1, <4>1 DEF Sole
      <4> QED  BY <3>2, <4>1, <4>2
    <3>5. Retimed(t, c, M, q)
      BY <1>8, <3>3
    <3>6. t[q].mtime = target[q].mtime
      BY <3>4, <3>5 DEF Retimed
    <3>7. Place(i)' = q /\ q \in DOMAIN t /\ t[q].type = "reg" /\ t[q].data = target[q].data
      BY <1>8, <1>10, <1>11, <3>2, <3>3
    <3> QED  BY <1>1, <1>5, <3>3, <3>6, <3>7 DEF Kept
  <2> QED  BY <1>1, <1>4, <1>10, <2>1 DEF FilesKept
<1>15. Busy'
  <2>1. buildFsTree(metas)' = buildFsTree(metas)
    BY <1>1
  <2>2. checkArchiveSizes(archive)' <=> checkArchiveSizes(archive)
    BY <1>1 DEF checkArchiveSizes
  <2>3. rebuilt' = buildFsTree(metas)' /\ checkArchiveSizes(archive)'
    BY <1>1, <1>2, <2>1, <2>2 DEF Busy
  <2>4. visited' \in 0..Len(metas) /\ visited' = Len(metas)
    BY <1>1, <1>4
  <2> QED  BY <1>1, <2>3, <2>4 DEF Busy
<1> QED  BY <1>12, <1>13, <1>14, <1>15 DEF Restoring

LEMMA RestoringNext == PackInv /\ Headed /\ Restoring /\ [Next]_vars => Restoring'
<1> SUFFICES ASSUME PackInv, Headed, Restoring, [Next]_vars PROVE Restoring'
  OBVIOUS
<1>1. CASE Rests
  BY <1>1, RestsRestoring
<1>2. CASE Uses /\ unpack
  BY <1>2, UnpackRestoring
<1>3. CASE Uses /\ unpackInodeFromArchive
  BY <1>3, VisitRestoring
<1>4. CASE Uses /\ restoreDirsTime
  BY <1>4, TimesRestoring
<1> QED  BY UnpackSteps, <1>1, <1>2, <1>3, <1>4

LEMMA Piece ==
  ASSUME NEW c, NEW o \in Nat, NEW z \in Nat, NEW d, d = SubSeq(c, o + 1, o + z)
  PROVE  Len(d) = z /\ DOMAIN d = 1..z /\ \A k \in 1..z : d[k] = c[o + k]
OBVIOUS

\* When unpack returns, the walk has come by every entry.
LEMMA AllDone ==
  ASSUME PackInv, Headed, Busy, up = "unpacked"
  PROVE  \E N : Catalog(N) /\ \A i \in 1..N : Done(i)
<1>1. PICK N, order : Stands(N, order)
  BY Standing DEF Busy
<1>2. Catalog(N) /\ N \in Nat /\ Len(metas) = N /\ visited = N
  BY <1>1 DEF Stands, Catalog, Busy
<1>3. order = fs_tree_bfs(rebuilt) /\ \A i \in 1..N : \E w \in 1..N : order[w] = i
  BY <1>1 DEF Stands, Rewalk
<1>4. \A i \in 1..N : Done(i)
  BY <1>2, <1>3 DEF Done
<1> QED  BY <1>2, <1>4

\* So every file is there, with the bytes that the archive has of it.
LEMMA KeptIsRestored == ASSUME PackInv, Headed, Restoring PROVE FilesRestored
<1> SUFFICES ASSUME at = "packed", up = "unpacked", base = <<>>,
                    NEW i \in DOMAIN metas, metas[i].type = "reg", IsOnlyEntry(i)
             PROVE  /\ Restored(i) \in DOMAIN target
                    /\ LET file == target[Restored(i)]
                       IN  /\ file.type = "reg" /\ file.mtime = metas[i].mtime
                           /\ Len(file.data) = metas[i].contentSize
                           /\ \A k \in DOMAIN file.data :
                                \/ file.data[k] = Byte(getPathInArchive(i), k)
                                \/ file.data[k] = Zero /\ getPathInArchive(i) \in touched
  BY DEF FilesRestored
<1>1. Busy /\ FilesKept
  BY DEF Restoring, Idle
<1>2. PICK N : Catalog(N) /\ \A j \in 1..N : Done(j)
  BY <1>1, AllDone
<1>3. i \in 1..N /\ Len(metas) = N
  BY <1>2 DEF Catalog
<1>13. Sole(i)
  BY <1>2, <1>3, Places
<1>4. Kept(i) /\ Restored(i) = Place(i)
  BY <1>1, <1>2, <1>3, <1>13, Places DEF FilesKept
<1>5. PICK file : file = target[Place(i)]
  OBVIOUS
<1>6. PICK o \in Nat, z \in Nat : o = metas[i].contentOffset /\ z = metas[i].contentSize
  BY <1>2, <1>3 DEF Catalog, Cataloged
<1>7. /\ Place(i) \in DOMAIN target /\ file.type = "reg" /\ file.mtime = metas[i].mtime
      /\ file.data = SubSeq(archive.content, o + 1, o + z)
  BY <1>4, <1>5, <1>6 DEF Kept
<1>8. /\ Len(file.data) = z /\ DOMAIN file.data = 1..z
      /\ \A k \in 1..z : file.data[k] = archive.content[o + k]
  <2>1. PICK b, d : b = archive.content /\ d = file.data
    OBVIOUS
  <2>2. d = SubSeq(b, o + 1, o + z)
    BY <1>7, <2>1
  <2>3. Len(d) = z /\ DOMAIN d = 1..z /\ \A k \in 1..z : d[k] = b[o + k]
    BY <2>2, Piece
  <2> QED  BY <2>1, <2>3
<1>9. Intact(written) /\ written = Len(metas)
  <2>1. Contents
    BY DEF PackInv
  <2> QED  BY <1>1, <2>1 DEF Busy, Contents
<1>10. \A k \in 1..z : Own(archive.content[o + k], metas[i].mtime, k)
  BY <1>3, <1>6, <1>9 DEF Intact
<1>11. getPathInArchive(i) = metas[i].mtime
  BY <1>2, <1>3 DEF Catalog, Cataloged
<1>12. ASSUME NEW k \in DOMAIN file.data
       PROVE  \/ file.data[k] = Byte(getPathInArchive(i), k)
              \/ file.data[k] = Zero /\ getPathInArchive(i) \in touched
  BY <1>8, <1>10, <1>11, <1>12 DEF Own
<1> QED  BY <1>4, <1>5, <1>6, <1>7, <1>8, <1>12

-----------------------------------------------------------------------------
(***************************************************************************)
(* Nothing fails where nothing is in the way.                              *)
(***************************************************************************)
LEMMA OpenedInit == Init => Opened
<1>1. Len(<<>>) = 0 /\ 0 \in 0..MaxUnpacks /\ 0 <= Descriptors
  BY UnpackAssumption
<1> QED  BY <1>1 DEF Init, UnpackInit, Opened

LEMMA OpenedNext == Opened /\ [Next]_vars => Opened'
<1> SUFFICES ASSUME Opened, [Next]_vars PROVE Opened'
  OBVIOUS
<1>1. /\ {Descriptors, MaxUnpacks} \subseteq Nat /\ unpacks \in 0..MaxUnpacks
      /\ leaked \in Nat /\ Len(dirsQueue) \in Nat /\ leaked + Len(dirsQueue) <= Descriptors
  BY UnpackAssumption DEF Opened
<1>2. Len(<<>>) = 0
  OBVIOUS
<1>3. CASE Rests
  BY <1>3 DEF Rests, Opened
<1>4. CASE unpack
  <2>1. unpacks' \in 0..MaxUnpacks
    BY <1>1, <1>4 DEF unpack
  <2>2. CASE Refuses
    BY <1>1, <2>1, <2>2 DEF Refuses, Opened
  <2>3. CASE Starts
    BY <1>1, <1>2, <2>1, <2>3 DEF Starts, Opened
  <2> QED  BY <1>4, <2>2, <2>3 DEF unpack
<1>5. CASE unpackInodeFromArchive
  <2>1. UNCHANGED <<unpacks, leaked>>
    BY <1>5 DEF unpackInodeFromArchive
  <2>2. CASE UNCHANGED dirsQueue
    BY <1>1, <2>1, <2>2 DEF Opened
  <2>3. CASE ~UNCHANGED dirsQueue
    <3>1. HasDescriptor /\ dirsQueue' = HoldsDir
      BY <1>5, <2>3 DEF unpackInodeFromArchive, unpackRegfileFromArchive, FileFails,
                        unpackDirFromArchive
    <3>2. leaked + Len(dirsQueue) < Descriptors
      BY <3>1 DEF HasDescriptor
    <3>3. Len(dirsQueue') = Len(dirsQueue) + 1
      BY <3>1 DEF HoldsDir
    <3> QED  BY <1>1, <2>1, <3>2, <3>3 DEF Opened
  <2> QED  BY <2>2, <2>3
<1>6. CASE restoreDirsTime
  <2>1. dirsQueue' = <<>> /\ UNCHANGED <<unpacks, leaked>>
    BY <1>6 DEF restoreDirsTime
  <2> QED  BY <1>1, <1>2, <2>1 DEF Opened
<1> QED  BY UnpackSteps, <1>3, <1>4, <1>5, <1>6

\* No more directories are held open than there are.
LEMMA HeldCounted ==
  ASSUME NEW N, Catalog(N), Held, Opened, Unobstructed
  PROVE  HasDescriptor
<1> DEFINE D == {i \in 1..N : metas[i].type = "dir"}
           Q == 1..Len(dirsQueue)
<1>1. N \in Nat /\ DOMAIN metas = 1..N /\ Len(dirsQueue) \in Nat /\ leaked \in Nat
  BY DEF Catalog, Opened
<1>2. IsFiniteSet(D) /\ Cardinality(D) \in Nat
  <2>1. IsFiniteSet(1..N) /\ D \subseteq 1..N
    BY <1>1, FS_Interval
  <2> HIDE DEF D
  <2> QED  BY <2>1, FS_Subset, FS_CardinalityType
<1>3. IsFiniteSet(Q) /\ Cardinality(Q) = Len(dirsQueue)
  <2>1. 0 \in Int /\ 1 \in Int /\ Len(dirsQueue) \in Int
    BY <1>1
  <2>2. IsFiniteSet(Q) /\ Cardinality(Q) = IF 1 > Len(dirsQueue) THEN 0 ELSE Len(dirsQueue) - 1 + 1
    BY <2>1, FS_Interval
  <2> QED  BY <1>1, <2>2
<1>4. PICK f : f = [k \in Q |-> CHOOSE i \in D : Holds(i, dirsQueue[k])]
  OBVIOUS
<1>5. ASSUME NEW k \in Q PROVE f[k] \in D /\ Holds(f[k], dirsQueue[k])
  <2>1. \E i \in D : Holds(i, dirsQueue[k])
    <3>1. PICK i \in 1..N : Holds(i, dirsQueue[k])
      BY <1>1 DEF Held
    <3>2. metas[i].type = "dir"
      BY <3>1 DEF Holds
    <3> QED  BY <3>1, <3>2
  <2> HIDE DEF D
  <2> QED  BY <1>4, <2>1
<1>6. ASSUME NEW k \in Q, NEW l \in Q, f[k] = f[l] PROVE k = l
  <2>1. dirsQueue[k] = Task(f[k]) /\ dirsQueue[l] = Task(f[l])
    BY <1>5 DEF Holds
  <2>2. dirsQueue[k] = dirsQueue[l]
    BY <1>6, <2>1
  <2>3. \A i \in DOMAIN metas : Sole(i)
    BY <1>1, Places DEF Unobstructed
  <2> QED  BY <2>2, <2>3 DEF Held
<1>7. f \in Injection(Q, D)
  <2>1. f \in [Q -> D]
    <3> HIDE DEF D
    <3> QED  BY <1>4, <1>5
  <2> HIDE DEF D, Q
  <2> QED  BY <1>6, <2>1 DEF Injection, IsInjective
<1>8. Len(dirsQueue) <= Cardinality(D)
  <2> HIDE DEF D, Q
  <2>1. Cardinality(Q) <= Cardinality(D)
    BY <1>2, <1>3, <1>7, FS_Injection
  <2> QED  BY <1>3, <2>1
<1>9. leaked + Cardinality(D) < Descriptors
  BY <1>1 DEF Unobstructed
<1> HIDE DEF D
<1>10. Descriptors \in Nat
  BY UnpackAssumption
<1> QED  BY <1>1, <1>2, <1>8, <1>9, <1>10 DEF HasDescriptor

\* What is at its place was made for the entry.
LEMMA PlaceMade ==
  ASSUME NEW N, Catalog(N), Disk, NEW i \in 1..N, IsOnlyEntry(i), Place(i) \in DOMAIN target
  PROVE  /\ target[Place(i)].type = metas[i].type
         /\ metas[i].type = "dir" => target[Place(i)].mode = metas[i].mode
<1>1. PICK p : p = Place(i)
  OBVIOUS
<1>2. p # <<>>
  BY <1>1, Places
<1>3. Made(p)
  BY <1>1, <1>2 DEF Disk
<1>4. PICK j \in 1..N : /\ p = Place(j) /\ target[p].type = metas[j].type
                        /\ metas[j].type = "dir" => target[p].mode = metas[j].mode
  BY <1>3 DEF Made, Catalog
<1>5. Sole(i)
  BY Places
<1>6. j = i
  BY <1>1, <1>4, <1>5 DEF Sole, Catalog
<1> QED  BY <1>1, <1>4, <1>6

\* So the next entry can be made.
LEMMA Creatable ==
  ASSUME NEW N, Catalog(N), Disk, Steady, Busy, Unobstructed, NEW i, AtEntry(N, i)
  PROVE  CanCreate(Place(i))
<1>1. i \in 1..N /\ (i = 1 \/ Done(metas[i].parent)) /\ DOMAIN metas = 1..N
  BY DEF AtEntry, Catalog
<1>2. CASE i = 1
  <2>1. Front(Place(i)) = <<>>
    BY <1>2, Places
  <2>2. IsDir(target, <<>>) /\ target[<<>>].mode = "755"
    BY DEF Disk
  <2>3. "755" \notin ReadOnly
    BY UnpackAssumption
  <2> QED  BY <2>1, <2>2, <2>3 DEF CanCreate
<1>3. CASE i # 1
  <2>1. PICK p : p = metas[i].parent
    OBVIOUS
  <2>2. p \in 1..N /\ Front(Place(i)) = Place(p)
    BY <1>1, <1>3, <2>1, Places
  <2>3. metas[p].type = "dir"
    <3>1. Cataloged(i)
      BY <1>1 DEF Catalog
    <3> QED  BY <1>3, <2>1, <3>1 DEF Cataloged
  <2>4. Stayed(p)
    BY <1>1, <1>3, <2>1, <2>2, <2>3 DEF Steady
  <2>5. Place(p) \in DOMAIN target
    BY <2>4 DEF Stayed
  <2>6. target[Place(p)].type = "dir" /\ target[Place(p)].mode = metas[p].mode
    <3>1. IsOnlyEntry(p)
      BY <1>1, <2>2 DEF Unobstructed
    <3> QED  BY <2>2, <2>3, <2>5, <3>1, PlaceMade
  <2>7. metas[p].mode \notin ReadOnly
    BY <1>1, <2>2, <2>3 DEF Unobstructed
  <2> QED  BY <2>2, <2>5, <2>6, <2>7 DEF CanCreate, IsDir
<1> QED  BY <1>2, <1>3

LEMMA RestsSteady == ASSUME Restoring, Steady, Rests PROVE Steady'
<1>1. CASE Idle
  <2>1. up' \in {"none", "refused"}
    BY <1>1 DEF Idle, Rests
  <2> QED  BY <2>1 DEF Steady, Busy
<1>2. CASE Busy
  <2>1. UNCHANGED <<at, metas, archive, up, rebuilt, visited, dirsQueue, leaked, target>>
    BY <1>2 DEF Busy, Rests
  <2>2. \A i : /\ Place(i)' = Place(i) /\ Task(i)' = Task(i) /\ (Done(i)' <=> Done(i))
    BY <2>1 DEF Place, Task, Done
  <2>3. Unobstructed' => Unobstructed
    BY <2>1 DEF Unobstructed, IsOnlyEntry, getPathInArchive
  <2>4. \A i : Stayed(i) => Stayed(i)'
    BY <2>1, <2>2 DEF Stayed
  <2> QED  BY <1>2, <2>1, <2>2, <2>3, <2>4 DEF Steady
<1> QED  BY <1>1, <1>2 DEF Restoring

LEMMA UnpackSteady == ASSUME PackInv, Headed, Restoring, Steady, Uses, unpack PROVE Steady'
<1>1. CASE Refuses
  BY <1>1 DEF Refuses, Steady, Busy
<1>2. CASE Starts
  <2>1. up' = "unpacking" /\ visited' = 0 /\ 1..0 = {}
    BY <1>2 DEF Starts
  <2>2. \A i : ~Done(i)'
    BY <2>1 DEF Done
  <2> QED  BY <2>1, <2>2 DEF Steady
<1> QED  BY <1>1, <1>2 DEF unpack

LEMMA VisitSteady ==
  ASSUME PackInv, Headed, Restoring, Opened, Steady, Uses, unpackInodeFromArchive PROVE Steady'
<1> SUFFICES ASSUME Unobstructed'
             PROVE  /\ up' # "failed"
                    /\ \A i \in DOMAIN metas' : metas'[i].type = "dir" /\ Done(i)' => Stayed(i)'
  BY DEF Steady
<1>1. /\ at \in {"packed", "failed"} /\ UNCHANGED <<at, metas, archive, rebuilt, leaked>>
      /\ up = "unpacking" /\ visited < Len(fs_tree_bfs(rebuilt))
  BY DEF Uses, unpackInodeFromArchive
<1>2. Busy /\ Disk /\ Held /\ FilesKept
  BY <1>1 DEF Restoring, Idle
<1>3. Unobstructed
  BY <1>1 DEF Unobstructed, IsOnlyEntry, getPathInArchive
<1>4. PICK N, order : Stands(N, order)
  BY <1>1, <1>2, Standing DEF Busy
<1>5. Catalog(N) /\ N \in Nat /\ DOMAIN metas = 1..N /\ Len(metas) = N
  BY <1>4 DEF Stands, Catalog
<1>6. visited \in 0..N /\ visited \in Nat
  BY <1>2, <1>5 DEF Busy
<1>7. PICK i : AtEntry(N, i)
  BY <1>1, <1>4, <1>6, Visiting
<1>8. i \in 1..N /\ Meta = metas[i] /\ TargetPath = Place(i)
  BY <1>7 DEF AtEntry
<1>9. HasDescriptor
  BY <1>2, <1>3, <1>5, HeldCounted
<1>10. CanCreate(Place(i))
  BY <1>2, <1>3, <1>5, <1>7, Creatable
<1>11. \A j : Place(j)' = Place(j) /\ Task(j)' = Task(j)
  BY <1>1 DEF Place, Task
<1>15. IsOnlyEntry(i) /\ Sole(i)
  BY <1>3, <1>5, <1>8, Places DEF Unobstructed
<1>12. CASE metas[i].type = "reg"
  <2>1. FileOpens
    <3>1. Place(i) \in DOMAIN target => target[Place(i)].type = "reg"
      BY <1>2, <1>5, <1>8, <1>12, <1>15, PlaceMade
    <3> QED  BY <1>8, <1>9, <1>10, <3>1 DEF FileOpens
  <2>2. unpackRegfileFromArchive
    BY <1>8, <1>12, <2>1 DEF unpackInodeFromArchive, FileFails
  <2>3. UNCHANGED <<up, dirsQueue>> /\ visited' = visited + 1
    BY <2>2 DEF unpackRegfileFromArchive
  <2>4. \A j : Done(j)' <=> Done(j) \/ j = i
    BY <1>1, <1>6, <1>7, <2>3, DoneOne
  <2>5. DOMAIN target \subseteq DOMAIN target'
    <3>1. PICK e : target' = With(TargetPath, e)
      BY <2>2 DEF unpackRegfileFromArchive
    <3>2. Place(i) \in DOMAIN target \/ IsDir(target, Front(Place(i)))
      BY <1>10 DEF CanCreate
    <3>3. Put(Place(i), e, target')
      BY <1>2, <1>8, <3>1, <3>2, WithPuts
    <3> QED  BY <3>3 DEF Put
  <2>6. ASSUME NEW j \in 1..N, metas[j].type = "dir", Done(j)' PROVE Stayed(j)'
    <3>1. Stayed(j)
      BY <1>2, <1>3, <1>5, <1>12, <2>4, <2>6 DEF Steady
    <3> QED  BY <1>1, <1>11, <2>3, <2>5, <3>1 DEF Stayed
  <2> QED  BY <1>1, <1>5, <2>3, <2>6
<1>13. CASE metas[i].type = "dir"
  <2>1. unpackDirFromArchive
    BY <1>8, <1>13 DEF unpackInodeFromArchive
  <2>2. /\ Disk' /\ DOMAIN target \subseteq DOMAIN target' /\ target' = AfterMkdir
        /\ \A j : Done(j)' <=> Done(j) \/ j = i
    BY <1>1, <1>2, <1>4, <1>6, <1>7, <1>13, <2>1, DirMade
  <2>3. Place(i) \in DOMAIN target'
    BY <1>1, <1>2, <1>4, <1>6, <1>7, <1>10, <1>13, <2>1, DirMade
  <2>4. IsDir(target', Place(i))
    <3>1. PICK p : p = Place(i)
      OBVIOUS
    <3>2. p # <<>>
      BY <1>5, <1>8, <3>1, Places
    <3>3. Made(p)'
      BY <2>2, <2>3, <3>1, <3>2 DEF Disk
    <3>4. PICK j \in 1..N : p = Place(j) /\ target'[p].type = metas[j].type
      BY <1>1, <1>5, <1>11, <3>3 DEF Made
    <3>5. j = i
      BY <1>5, <1>15, <3>1, <3>4 DEF Sole
    <3> QED  BY <1>13, <2>3, <3>1, <3>4, <3>5 DEF IsDir
  <2>5. dirsQueue' = Append(dirsQueue, Task(i)) /\ up' = up
    BY <1>8, <1>9, <2>1, <2>2, <2>4 DEF unpackDirFromArchive, HoldsDir, Task
  <2>6. PICK q, r, x : q = dirsQueue /\ r = dirsQueue' /\ x = Task(i)
    OBVIOUS
  <2>7. Len(q) \in Nat /\ Len(r) = Len(q) + 1 /\ r[Len(q) + 1] = x /\ \A k \in 1..Len(q) : r[k] = q[k]
    <3>1. Len(q) \in Nat /\ r = Append(q, x)
      BY <2>5, <2>6 DEF Opened
    <3> QED  BY <3>1
  <2>8. ASSUME NEW j \in 1..N, metas[j].type = "dir", Done(j)' PROVE Stayed(j)'
    <3>1. CASE j = i
      <4>1. Len(q) + 1 \in 1..Len(r)
        BY <2>7
      <4>2. \E k \in 1..Len(r) : r[k] = Task(i)
        BY <2>6, <2>7, <4>1
      <4> QED  BY <1>1, <1>11, <2>3, <2>5, <2>6, <3>1, <4>2 DEF Stayed
    <3>2. CASE j # i
      <4>1. Stayed(j)
        BY <1>2, <1>3, <1>5, <2>2, <2>8, <3>2 DEF Steady
      <4>2. PICK k \in 1..Len(q) : q[k] = Task(j)
        BY <1>1, <2>6, <4>1 DEF Stayed
      <4>3. k \in 1..Len(r) /\ r[k] = Task(j)
        BY <2>7, <4>2
      <4> QED  BY <1>1, <1>11, <2>2, <2>5, <2>6, <4>1, <4>3 DEF Stayed
    <3> QED  BY <3>1, <3>2
  <2> QED  BY <1>1, <1>5, <2>5, <2>8
<1>14. metas[i].type \in {"reg", "dir"}
  BY <1>8 DEF unpackInodeFromArchive
<1> QED  BY <1>12, <1>13, <1>14

LEMMA TimesSteady ==
  ASSUME PackInv, Headed, Restoring, Steady, Uses, restoreDirsTime PROVE Steady'
<1> SUFFICES ASSUME Unobstructed'
             PROVE  /\ up' # "failed"
                    /\ \A i \in DOMAIN metas' : metas'[i].type = "dir" /\ Done(i)' => Stayed(i)'
  BY DEF Steady
<1>1. /\ at \in {"packed", "failed"} /\ UNCHANGED <<at, metas, archive, rebuilt, visited, leaked>>
      /\ up = "unpacking" /\ up' = "unpacked"
  BY DEF Uses, restoreDirsTime
<1>2. Busy /\ Disk /\ Held
  BY <1>1 DEF Restoring, Idle
<1>3. Unobstructed
  BY <1>1 DEF Unobstructed, IsOnlyEntry, getPathInArchive
<1>4. PICK N : Catalog(N)
  BY <1>1, <1>2, SoundArchive DEF Busy
<1>5. N \in Nat /\ DOMAIN metas = 1..N
  BY <1>4 DEF Catalog
<1>6. PICK c, M, t : c = Reverse(dirsQueue) /\ M = Len(dirsQueue) /\ t = target'
  OBVIOUS
<1>7. t = AllTimed(target, c)
  BY <1>6 DEF restoreDirsTime, AllTimed
<1>8. /\ M \in Nat /\ DOMAIN c = 1..M
      /\ \A k \in 1..M : \E l \in 1..M : c[k] = dirsQueue[l]
      /\ \A l \in 1..M : \E k \in 1..M : c[k] = dirsQueue[l]
  BY <1>2, <1>6, TasksReversed
<1>9. DOMAIN t = DOMAIN target /\ \A q \in DOMAIN target : Retimed(t, c, M, q)
  BY <1>2, <1>7, <1>8, TimesRestored
<1>10. \A i : Place(i)' = Place(i) /\ (Done(i)' <=> Done(i))
  BY <1>1 DEF Place, Done
<1>11. ASSUME NEW i \in 1..N, metas[i].type = "dir", Done(i) PROVE Stayed(i)'
  <2>1. Stayed(i)
    BY <1>2, <1>3, <1>5, <1>11 DEF Steady
  <2>2. PICK q : q = Place(i)
    OBVIOUS
  <2>3. q \in DOMAIN target /\ \E l \in 1..M : dirsQueue[l] = Task(i)
    BY <1>1, <1>6, <2>1, <2>2 DEF Stayed
  <2>4. \E k \in 1..M : c[k] = Task(i)
    BY <1>8, <2>3
  <2>5. Task(i).path = q
    BY <2>2 DEF Task
  <2>6. Retimed(t, c, M, q)
    BY <1>9, <2>3
  <2>7. PICK k \in 1..M : c[k].path = q /\ t[q].mtime = c[k].mtime
    BY <2>4, <2>5, <2>6 DEF Retimed
  <2>8. PICK j \in 1..N : c[k] = Task(j)
    <3>1. PICK l \in 1..M : c[k] = dirsQueue[l]
      BY <1>8
    <3>2. PICK j \in 1..N : Holds(j, dirsQueue[l])
      BY <1>2, <1>5, <1>6 DEF Held
    <3> QED  BY <3>1, <3>2 DEF Holds
  <2>9. Task(j).path = Place(j) /\ Task(j).mtime = metas[j].mtime
    BY DEF Task
  <2>10. j = i
    <3>1. Sole(i)
      BY <1>3, <1>4, <1>5, Places DEF Unobstructed
    <3> QED  BY <1>5, <2>2, <2>7, <2>8, <2>9, <3>1 DEF Sole
  <2>11. t[q].mtime = metas[i].mtime
    BY <2>7, <2>8, <2>9, <2>10
  <2> QED  BY <1>1, <1>6, <1>9, <1>10, <2>2, <2>3, <2>11 DEF Stayed
<1> QED  BY <1>1, <1>5, <1>10, <1>11

LEMMA SteadyNext ==
  PackInv /\ Headed /\ Restoring /\ Opened /\ Steady /\ [Next]_vars => Steady'
<1> SUFFICES ASSUME PackInv, Headed, Restoring, Opened, Steady, [Next]_vars PROVE Steady'
  OBVIOUS
<1>1. CASE Rests
  BY <1>1, RestsSteady
<1>2. CASE Uses /\ unpack
  BY <1>2, UnpackSteady
<1>3. CASE Uses /\ unpackInodeFromArchive
  BY <1>3, VisitSteady
<1>4. CASE Uses /\ restoreDirsTime
  BY <1>4, TimesSteady
<1> QED  BY UnpackSteps, <1>1, <1>2, <1>3, <1>4

LEMMA RestoreInvInit == Init => RestoreInv
<1> SUFFICES ASSUME Init PROVE RestoreInv
  OBVIOUS
<1>1. PackInv
  BY PackInvInit
<1>2. Headed
  BY DEF Init, PackInit, FsInit, Headed
<1>3. Idle
  BY DEF Init, UnpackInit, Idle
<1>4. Opened
  BY OpenedInit
<1>5. Steady
  BY <1>3 DEF Idle, Busy, Steady
<1> QED  BY <1>1, <1>2, <1>3, <1>4, <1>5 DEF RestoreInv, Restoring

LEMMA RestoreInvNext == RestoreInv /\ [Next]_vars => RestoreInv'
<1> SUFFICES ASSUME RestoreInv, [Next]_vars PROVE RestoreInv'
  OBVIOUS
<1>1. PackInv /\ Headed /\ Restoring /\ Opened /\ Steady
  BY DEF RestoreInv
<1>2. PackInv'
  BY <1>1, PackInvNext
<1>3. Headed'
  BY <1>1, HeadedNext DEF PackInv
<1>4. Restoring'
  BY <1>1, RestoringNext
<1>5. Opened' /\ Steady'
  BY <1>1, OpenedNext, SteadyNext
<1> QED  BY <1>2, <1>3, <1>4, <1>5 DEF RestoreInv

LEMMA RestoreInvariant == Spec => []RestoreInv
<1>1. Init => RestoreInv
  BY RestoreInvInit
<1>2. RestoreInv /\ [Next]_vars => RestoreInv'
  BY RestoreInvNext
<1> QED  BY <1>1, <1>2, PTL DEF Spec

(***************************************************************************)
(* When unpack returns, every file that is the only entry of its path is   *)
(* on the disk with its time and all its bytes, whatever directories could *)
(* not be made or opened, and however often unpack was called before.      *)
(***************************************************************************)
THEOREM RestoresFiles == Spec => []FilesRestored
<1>1. RestoreInv => FilesRestored
  BY KeptIsRestored DEF RestoreInv
<1> QED  BY <1>1, RestoreInvariant, PTL

\* So is every directory, if nothing is in the way.
LEMMA SteadyIsRestored ==
  ASSUME PackInv, Headed, Restoring, Steady PROVE RestoredAsPacked
<1> SUFFICES ASSUME at = "packed", Unobstructed
             PROVE  /\ up # "failed"
                    /\ up = "unpacked" =>
                         \A i \in DOMAIN metas :
                           /\ Restored(i) \in DOMAIN target
                           /\ target[Restored(i)].type = metas[i].type
                           /\ target[Restored(i)].mtime = metas[i].mtime
                           /\ metas[i].type = "dir" =>
                                target[Restored(i)].mode = metas[i].mode
  BY DEF RestoredAsPacked
<1>1. up # "failed"
  BY DEF Restoring, Idle, Steady
<1>2. ASSUME up = "unpacked", NEW i \in DOMAIN metas
      PROVE  /\ Restored(i) \in DOMAIN target
             /\ target[Restored(i)].type = metas[i].type
             /\ target[Restored(i)].mtime = metas[i].mtime
             /\ metas[i].type = "dir" => target[Restored(i)].mode = metas[i].mode
  <2>1. Busy /\ Disk /\ FilesKept
    BY <1>2 DEF Restoring, Idle
  <2>2. PICK N : Catalog(N) /\ \A j \in 1..N : Done(j)
    BY <1>2, <2>1, AllDone
  <2>3. i \in 1..N
    BY <1>2, <2>2 DEF Catalog
  <2>4. metas[i].type \in {"reg", "dir"} /\ Restored(i) = Place(i)
    BY <2>2, <2>3, Places DEF Catalog, Cataloged
  <2>7. IsOnlyEntry(i) /\ Sole(i)
    BY <1>2, <2>2, <2>3, Places DEF Unobstructed
  <2>5. Place(i) \in DOMAIN target /\ target[Place(i)].mtime = metas[i].mtime
    <3>1. CASE metas[i].type = "reg"
      BY <1>2, <2>1, <2>2, <2>3, <2>7, <3>1 DEF FilesKept, Kept
    <3>2. CASE metas[i].type = "dir"
      BY <1>2, <2>1, <2>2, <2>3, <3>2 DEF Steady, Stayed
    <3> QED  BY <2>4, <3>1, <3>2
  <2>6. /\ target[Place(i)].type = metas[i].type
        /\ metas[i].type = "dir" => target[Place(i)].mode = metas[i].mode
    BY <2>1, <2>2, <2>3, <2>5, <2>7, PlaceMade
  <2> QED  BY <2>4, <2>5, <2>6
<1> QED  BY <1>1, <1>2

(***************************************************************************)
(* With a descriptor for every directory and one more, no directory that   *)
(* admits no entries, and no path twice, unpack does not fail, and every   *)
(* entry has its type, its mode and its time, however many calls of unpack *)
(* there were.                                                             *)
(***************************************************************************)
THEOREM RestoresTree == Spec => []RestoredAsPacked
<1>1. RestoreInv => RestoredAsPacked
  BY SteadyIsRestored DEF RestoreInv
<1> QED  BY <1>1, RestoreInvariant, PTL

-----------------------------------------------------------------------------
(***************************************************************************)
(* The types.                                                              *)
(***************************************************************************)
LEMMA TreeTyped == PackInv => FsTypeOK
<1> SUFFICES ASSUME PackInv PROVE FsTypeOK
  OBVIOUS
<1>1. Typed /\ Located /\ Passes /\ Related
  BY DEF PackInv, Shape
<1>2. DOMAIN tree = 1..Len(tree) /\ DOMAIN dirs = 1..Len(dirs) /\ Len(tree) \in Nat
  BY <1>1, LenProperties DEF Typed
<1>3. ASSUME NEW n \in DOMAIN tree
      PROVE  /\ tree[n].name \in Names
             /\ tree[n].parent \in DOMAIN tree
             /\ tree[n].type \in {"reg", "dir"}
             /\ tree[n].size \in Nat /\ tree[n].slots \in Nat
             /\ tree[n].children \in Seq(DOMAIN tree)
  <2>1. n \in 1..Len(tree)
    BY <1>2
  <2>2. tree[n] \in Node
    BY <1>1, <2>1, ElementOfSeq DEF Typed
  <2>3. /\ tree[n].name \in Names /\ tree[n].type \in {"reg", "dir"}
        /\ tree[n].size \in Nat /\ tree[n].slots \in Nat
    BY <2>2 DEF Node
  <2>4. tree[n].parent \in 1..Len(tree)
    BY <1>1, <1>2, <2>1 DEF Located
  <2>5. tree[n].children \in Seq(1..Len(tree))
    <3>1. tree # <<>>
      <4>1. 1..Len(<<>>) = {}
        OBVIOUS
      <4> QED  BY <2>1, <4>1
    <3> QED  BY <1>1, <2>1, <3>1 DEF Related, Family
  <2> QED  BY <1>2, <2>3, <2>4, <2>5
<1>4. ASSUME NEW i \in DOMAIN dirs
      PROVE  /\ dirs[i].dir \in DOMAIN tree
             /\ dirs[i].pass \in {"open", "count", "read"}
             /\ dirs[i].seen \cup dirs[i].must \subseteq dirs[i].may
  <2>1. i \in 1..Len(dirs)
    BY <1>2
  <2>2. dirs[i] \in OpenDirectory
    BY <1>1, <2>1, ElementOfSeq DEF Typed
  <2>3. dirs[i].pass \in {"open", "count", "read"}
    BY <2>2 DEF OpenDirectory
  <2> QED  BY <1>1, <1>2, <2>1, <2>3 DEF Passes
<1> QED  BY <1>1, <1>3, <1>4 DEF Typed, FsTypeOK

\* What is laid out has its types.
LEMMA LaidTyped ==
  ASSUME PackInv, at \in {"layout", "writing", "packed", "failed"} PROVE PackTypeOK
<1>1. PICK N, order, queue, offset : Laid(N, order, queue, offset)
  BY DEF PackInv, Layout
<1>2. PICK u, s, l : u = userData /\ s = metas /\ l = Len(metas)
  OBVIOUS
<1>3. /\ N \in Nat \ {0} /\ Len(tree) = N /\ DOMAIN tree = 1..N
      /\ \A i \in 1..N : order[i] \in 1..N
      /\ \A i, j \in 1..N : order[i] = order[j] => i = j
  BY <1>1, PlanFacts DEF Laid
<1>4. \A i \in 0..N : offset[i] \in Nat
  BY <1>1 DEF Laid, Plan, Offsets
<1>5. /\ contentSize = offset[N] /\ walked \in 0..N /\ contentFreePosition = offset[walked]
      /\ Slots(s, tree, order, offset, walked) /\ Indexed(u, order, l)
      /\ l = IF walked = 0 THEN 0 ELSE Len(queue[walked])
  BY <1>1, <1>2 DEF Laid
<1>6. contentSize \in Nat /\ contentFreePosition \in Nat
  <2>1. N \in 0..N
    BY <1>3
  <2> QED  BY <1>4, <1>5, <2>1
<1>7. l \in 0..N
  <2>1. Len(queue[walked]) \in 1..N
    BY <1>1, <1>5 DEF Laid, Plan, Walk, Queued
  <2> QED  BY <1>3, <1>5, <2>1
<1>8. DOMAIN s = 1..l /\ \A i \in 1..l : s[i].parent \in 1..i
  BY <1>2, <1>5, LenProperties DEF Slots
<1>9. DOMAIN u \subseteq 1..N
  <2>1. \A i \in 2..l : i \in 1..N
    BY <1>3, <1>7
  <2> QED  BY <1>3, <1>5, <2>1 DEF Indexed
<1>10. Range(u) \subseteq 1..l
  <2>1. \A n \in DOMAIN u : \E i \in 2..l : n = order[i] /\ u[n] = i
    BY <1>5 DEF Indexed
  <2>2. \A i \in 2..l : i \in 1..l
    BY <1>7
  <2> QED  BY <2>1, <2>2 DEF Range
<1>11. written \in 0..l
  <2>1. CASE at = "layout"
    BY <1>7, <2>1 DEF PackInv, Layout
  <2>2. CASE at # "layout"
    BY <1>2, <2>2 DEF PackInv, Contents
  <2> QED  BY <2>1, <2>2
<1> QED  BY <1>2, <1>3, <1>5, <1>6, <1>8, <1>9, <1>10, <1>11 DEF PackTypeOK

LEMMA NothingTyped ==
  /\ Len(<<>>) = 0 /\ DOMAIN <<>> = {} /\ Range(<<>>) = {}
  /\ \A n \in Nat : 0 \in 0..n
BY DEF Range

LEMMA EarlyTypedNext == PackInv /\ PackInv' /\ EarlyTyped /\ [Next]_vars => EarlyTyped'
<1> SUFFICES ASSUME PackInv, PackInv', EarlyTyped, [Next]_vars PROVE EarlyTyped'
  OBVIOUS
<1>1. CASE Collect /\ UNCHANGED <<packVars, archive>>
  <2>1. at \in {"start", "collecting"}
    BY <1>1, CollectAt
  <2>2. /\ metas = <<>> /\ userData = <<>>
        /\ contentFreePosition = 0 /\ walked = 0 /\ written = 0
    BY <2>1 DEF PackInv, Begun
  <2>3. contentSize \in Nat
    BY <2>1 DEF EarlyTyped, PackTypeOK
  <2>4. UNCHANGED <<metas, userData, contentFreePosition, walked, written, contentSize>>
    BY <1>1 DEF packVars, layoutVars
  <2>5. Len(tree') \in Nat
    <3>1. tree' \in Seq(Node)
      BY DEF PackInv, Shape, Typed
    <3> QED  BY <3>1, LenProperties
  <2>6. PackTypeOK'
    BY <2>2, <2>3, <2>4, <2>5, NothingTyped DEF PackTypeOK
  <2> QED  BY <2>6 DEF EarlyTyped
<1>2. CASE Aside
  BY <1>2 DEF Aside, packVars, layoutVars, EarlyTyped, PackTypeOK
<1>3. CASE computeArchiveSize \/ WriteHeader \/ PackReturns
  BY <1>3 DEF computeArchiveSize, WriteHeader, PackReturns, EarlyTyped
<1>4. CASE addInodeToArchive
  BY <1>4 DEF addInodeToArchive, fsVars, EarlyTyped
<1>5. CASE writeContentToArchive
  <2>1. PackTypeOK
    BY <1>5, LaidTyped DEF writeContentToArchive
  <2>2. at' = "crashed" => UNCHANGED <<tree, layoutVars, written>>
    BY <1>5 DEF writeContentToArchive, writeOneFileToArcive
  <2>3. at' \in {"writing", "failed", "crashed"}
    BY <1>5 DEF writeContentToArchive, writeOneFileToArcive
  <2> QED  BY <2>1, <2>2, <2>3 DEF layoutVars, EarlyTyped, PackTypeOK
<1>6. CASE ArchiveIsCut
  BY <1>6 DEF ArchiveIsCut, fsVars, EarlyTyped
<1> QED  BY PackSteps, <1>1, <1>2, <1>3, <1>4, <1>5, <1>6

LEMMA EarlyTypedInit == Init => EarlyTyped
<1> SUFFICES ASSUME Init PROVE PackTypeOK
  BY DEF EarlyTyped
<1>1. /\ contentSize = 0 /\ contentFreePosition = 0 /\ walked = 0 /\ written = 0
      /\ metas = <<>> /\ userData = <<>> /\ tree = <<>>
  BY DEF Init, PackInit, FsInit
<1>2. Len(tree) \in Nat
  BY <1>1
<1> QED  BY <1>1, <1>2, NothingTyped DEF PackTypeOK

\* The disk that is restored, and the directories that are held open on it.
LEMMA RestoreTyped == PackInv /\ Headed /\ Restoring /\ Opened => UnpackTypeOK
<1> SUFFICES ASSUME PackInv, Headed, Restoring, Opened PROVE UnpackTypeOK
  OBVIOUS
<1>1. up \in {"none", "refused", "unpacking", "failed", "unpacked"}
  BY DEF Restoring, Idle, Busy
<1>2. /\ unpacks \in 0..MaxUnpacks
      /\ leaked \in Nat /\ leaked + Len(dirsQueue) <= Descriptors
  BY DEF Opened
<1>3. \A p \in DOMAIN target : p = <<>> \/ IsDir(target, Front(p))
  <2>1. Disk
    BY IdleDisk DEF Restoring
  <2> QED  BY <2>1 DEF Disk, Made
<1>4. CASE Idle
  <2>1. Len(<<>>) = 0 /\ DOMAIN <<>> = {}
    OBVIOUS
  <2>2. visited \in 0..Len(rebuilt) /\ DOMAIN dirsQueue = {}
    BY <1>4, <2>1 DEF Idle
  <2> QED  BY <1>1, <1>2, <1>3, <2>2 DEF UnpackTypeOK
<1>5. CASE Busy /\ Disk /\ Held
  <2>1. PICK N, order : Stands(N, order)
    BY <1>5, Standing DEF Busy
  <2>2. /\ Catalog(N) /\ DOMAIN metas = 1..N /\ Len(rebuilt) = N /\ visited \in 0..N
    BY <1>5, <2>1 DEF Stands, Catalog, Rewalk, Busy
  <2>3. ASSUME NEW k \in DOMAIN dirsQueue PROVE IsDir(target, dirsQueue[k].path)
    <3>1. k \in 1..Len(dirsQueue)
      BY <1>5, LenProperties DEF Held
    <3>2. PICK i \in 1..N : Holds(i, dirsQueue[k])
      BY <1>5, <2>2, <3>1 DEF Held
    <3>3. dirsQueue[k] = Task(i) /\ IsDir(target, Place(i))
      BY <3>2 DEF Holds
    <3>4. Task(i).path = Place(i)
      BY DEF Task
    <3> QED  BY <3>3, <3>4
  <2> QED  BY <1>1, <1>2, <1>3, <2>2, <2>3 DEF UnpackTypeOK
<1> QED  BY <1>4, <1>5 DEF Restoring

(***************************************************************************)
(* Type correctness of the archiver: positions, offsets and parents stay   *)
(* in range, what is on the disk is in a directory, and descriptors are    *)
(* never more than the process has.                                        *)
(***************************************************************************)
THEOREM TypeCorrect == Spec => []TypeOK
<1>1. Init => EarlyTyped
  BY EarlyTypedInit
<1>2. PackInv /\ PackInv' /\ EarlyTyped /\ [Next]_vars => EarlyTyped'
  BY EarlyTypedNext
<1>3. RestoreInv /\ EarlyTyped => TypeOK
  BY TreeTyped, LaidTyped, RestoreTyped DEF RestoreInv, EarlyTyped, TypeOK
<1> QED  BY <1>1, <1>2, <1>3, PackInvariant, RestoreInvariant, PTL DEF Spec

-----------------------------------------------------------------------------
(***************************************************************************)
(* The tree that is rebuilt is the tree that was collected, with its       *)
(* inodes in another order: the walk below the head prints the same.       *)
(***************************************************************************)
LEMMA Ascending ==
  ASSUME NEW l \in Nat, NEW M \in Nat, NEW c, NEW L \in Nat, Consecutive(c, L, l, M)
  PROVE  L = M /\ \A k \in 1..L : c[k] = l + k
<1>0. /\ \A k \in 1..L : c[k] \in (l + 1)..(l + M)
      /\ \A i, j \in 1..L : i < j => c[i] < c[j]
      /\ \A m \in 1..M : \E k \in 1..L : c[k] = l + m
  BY DEF Consecutive
<1> DEFINE Wrong == {k \in 1..L : c[k] # l + k}
<1>1. Wrong = {}
  <2>1. SUFFICES ASSUME Wrong # {} PROVE FALSE
    OBVIOUS
  <2>2. PICK k \in Wrong : \A j \in Wrong : k <= j
    <3>1. Wrong \in SUBSET Nat
      OBVIOUS
    <3> HIDE DEF Wrong
    <3> QED  BY <2>1, <3>1, LeastNumber
  <2>3. k \in 1..L /\ c[k] # l + k
    BY <2>2
  <2>4. \A j \in 1..L : j < k => c[j] = l + j
    <3>1. \A j \in 1..L : j < k => j \notin Wrong
      <4> HIDE DEF Wrong
      <4> QED  BY <2>2, <2>3
    <3> QED  BY <3>1
  <2>5. c[k] \in (l + 1)..(l + M)
    BY <1>0, <2>3
  <2>6. c[k] > l + k
    <3>1. CASE k = 1
      BY <2>3, <2>5, <3>1
    <3>2. CASE k # 1
      <4>1. k - 1 \in 1..L /\ k - 1 < k
        BY <2>3, <3>2
      <4>2. c[k - 1] = l + (k - 1) /\ c[k - 1] < c[k]
        BY <1>0, <2>3, <2>4, <4>1
      <4> QED  BY <2>3, <2>5, <4>2
    <3> QED  BY <3>1, <3>2
  <2>7. k \in 1..M
    BY <2>3, <2>5, <2>6
  <2>8. PICK j \in 1..L : c[j] = l + k
    BY <1>0, <2>7
  <2>9. CASE j < k
    BY <2>3, <2>4, <2>8, <2>9
  <2>10. CASE j = k
    BY <2>3, <2>8, <2>10
  <2>11. CASE j > k
    <3>1. c[k] < c[j]
      BY <1>0, <2>3, <2>11
    <3> QED  BY <2>3, <2>5, <2>6, <2>8, <3>1
  <2> QED  BY <2>3, <2>8, <2>9, <2>10, <2>11
<1>2. ASSUME NEW k \in 1..L PROVE c[k] = l + k
  BY <1>1
<1>3. L <= M
  <2>1. CASE L = 0
    BY <2>1
  <2>2. CASE L # 0
    <3>1. L \in 1..L
      BY <2>2
    <3>2. c[L] = l + L /\ c[L] \in (l + 1)..(l + M)
      BY <1>0, <1>2, <3>1
    <3> QED  BY <3>2
  <2> QED  BY <2>1, <2>2
<1>4. M <= L
  <2>1. CASE M = 0
    BY <2>1
  <2>2. CASE M # 0
    <3>1. M \in 1..M
      BY <2>2
    <3>2. PICK k \in 1..L : c[k] = l + M
      BY <1>0, <3>1
    <3>3. c[k] = l + k
      BY <1>2
    <3> QED  BY <3>2, <3>3
  <2> QED  BY <2>1, <2>2
<1> QED  BY <1>2, <1>3, <1>4

LEMMA Joined ==
  ASSUME NEW S, NEW s \in Seq(S), NEW y \in S, NEW e \in Seq(S), NEW t, t = s \o <<y>> \o e
  PROVE  Joins(S, t, s, y, e)
<1>1. PICK o, u : o = <<y>> /\ u = s \o o
  OBVIOUS
<1>2. o \in Seq(S) /\ Len(o) = 1 /\ o[1] = y
  BY <1>1
<1>3. /\ u \in Seq(S) /\ Len(u) = Len(s) + 1
      /\ \A i \in 1..(Len(s) + 1) : u[i] = IF i <= Len(s) THEN s[i] ELSE o[i - Len(s)]
  BY <1>1, <1>2, ConcatProperties
<1>4. /\ t \in Seq(S) /\ Len(t) = Len(u) + Len(e)
      /\ \A i \in 1..(Len(u) + Len(e)) : t[i] = IF i <= Len(u) THEN u[i] ELSE e[i - Len(u)]
  <2>1. t = u \o e
    BY <1>1
  <2> QED  BY <1>3, <2>1, ConcatProperties
<1>5. Len(s) \in Nat /\ Len(e) \in Nat /\ Len(u) \in Nat
  BY <1>3, LenProperties
<1>6. t[Len(s) + 1] = y
  <2>1. Len(s) + 1 <= Len(u) /\ Len(s) + 1 \in 1..(Len(u) + Len(e))
    BY <1>3, <1>5
  <2>2. t[Len(s) + 1] = u[Len(s) + 1]
    BY <1>4, <2>1
  <2>3. Len(s) + 1 \in 1..(Len(s) + 1) /\ ~(Len(s) + 1 <= Len(s)) /\ (Len(s) + 1) - Len(s) = 1
    BY <1>5
  <2> QED  BY <1>2, <1>3, <2>2, <2>3
<1>7. ASSUME NEW i \in 1..Len(s) PROVE t[i] = s[i]
  <2>1. i <= Len(u) /\ i \in 1..(Len(s) + 1) /\ i \in 1..(Len(u) + Len(e)) /\ i <= Len(s)
    BY <1>3, <1>5
  <2> QED  BY <1>3, <1>4, <2>1
<1>8. ASSUME NEW i \in 1..Len(e) PROVE t[Len(s) + 1 + i] = e[i]
  <2>1. PICK j : j = Len(s) + 1 + i
    OBVIOUS
  <2>2. j \in 1..(Len(u) + Len(e)) /\ ~(j <= Len(u)) /\ j - Len(u) = i
    BY <1>3, <1>5, <2>1
  <2> QED  BY <1>4, <2>1, <2>2
<1>9. Len(t) = Len(s) + 1 + Len(e)
  BY <1>3, <1>4, <1>5
<1> QED  BY <1>4, <1>5, <1>6, <1>7, <1>8, <1>9 DEF Joins

LEMMA MappedJoin ==
  ASSUME NEW S, NEW order, NEW s \in Seq(S), NEW e \in Seq(S), NEW y \in S, NEW t \in Seq(S),
         NEW f \in Seq(S), NEW z \in S, z = order[y], Mapped(order, s, t), Mapped(order, e, f),
         NEW a, a = s \o <<y>> \o e, NEW b, b = t \o <<z>> \o f
  PROVE  a \in Seq(S) /\ b \in Seq(S) /\ Mapped(order, a, b)
<1>1. Joins(S, a, s, y, e)
  BY Joined
<1>2. Joins(S, b, t, z, f)
  BY Joined
<1>3. PICK l \in Nat, n \in Nat : l = Len(s) /\ n = Len(e)
  BY <1>1 DEF Joins
<1>4. Len(t) = l /\ Len(f) = n
  BY <1>3 DEF Mapped
<1>5. /\ a \in Seq(S) /\ Len(a) = l + 1 + n /\ a[l + 1] = y
      /\ \A i \in 1..l : a[i] = s[i]
      /\ \A i \in 1..n : a[l + 1 + i] = e[i]
  BY <1>1, <1>3 DEF Joins
<1>6. /\ b \in Seq(S) /\ Len(b) = l + 1 + n /\ b[l + 1] = z
      /\ \A i \in 1..l : b[i] = t[i]
      /\ \A i \in 1..n : b[l + 1 + i] = f[i]
  BY <1>2, <1>4 DEF Joins
<1>7. ASSUME NEW k \in 1..Len(a) PROVE b[k] = order[a[k]]
  <2>1. CASE k \in 1..l
    <3>1. t[k] = order[s[k]]
      BY <1>3, <2>1 DEF Mapped
    <3> QED  BY <1>5, <1>6, <2>1, <3>1
  <2>2. CASE k = l + 1
    BY <1>5, <1>6, <2>2
  <2>3. CASE k > l + 1
    <3>1. PICK i : i = k - (l + 1)
      OBVIOUS
    <3>2. i \in 1..n /\ k = l + 1 + i
      BY <1>5, <2>3, <3>1
    <3>3. f[i] = order[e[i]]
      BY <1>3, <3>2 DEF Mapped
    <3>4. a[k] = e[i] /\ b[k] = f[i]
      BY <1>5, <1>6, <3>2
    <3> QED  BY <3>3, <3>4
  <2>4. k \in 1..l \/ k = l + 1 \/ k > l + 1
    BY <1>5
  <2> QED  BY <2>1, <2>2, <2>3, <2>4
<1> QED  BY <1>5, <1>6, <1>7 DEF Mapped

\* So it is below the directory that they are the children of.
LEMMA ChainMapped ==
  ASSUME NEW N \in Nat, NEW order, NEW M \in Nat, NEW c, NEW d, NEW g, NEW h,
         SameBelow(N, order, M, c, d, g, h),
         NEW a, Chain(c, M, g, a), NEW b, Chain(d, M, h, b)
  PROVE  Mapped(order, a[M], b[M])
<1> DEFINE Good(i) == a[i] \in Seq(1..N) /\ b[i] \in Seq(1..N) /\ Mapped(order, a[i], b[i])
           Wrong == {i \in 0..M : ~Good(i)}
<1>1. Wrong = {}
  <2>1. SUFFICES ASSUME Wrong # {} PROVE FALSE
    OBVIOUS
  <2>2. PICK i \in Wrong : \A j \in Wrong : i <= j
    <3>1. Wrong \in SUBSET Nat
      OBVIOUS
    <3> HIDE DEF Wrong
    <3> QED  BY <2>1, <3>1, LeastNumber
  <2>3. i \in 0..M /\ ~Good(i)
    BY <2>2
  <2>4. i # 0
    <3>1. a[0] = <<>> /\ b[0] = <<>>
      BY DEF Chain
    <3>2. <<>> \in Seq(1..N) /\ Len(<<>>) = 0 /\ 1..0 = {}
      OBVIOUS
    <3>3. Good(0)
      BY <3>1, <3>2 DEF Mapped
    <3> HIDE DEF Good
    <3> QED  BY <2>3, <3>3
  <2>5. i \in 1..M /\ i - 1 \in 0..M /\ ~(i <= i - 1)
    BY <2>3, <2>4
  <2>6. Good(i - 1)
    <3>1. i - 1 \notin Wrong
      <4> HIDE DEF Wrong, Good
      <4> QED  BY <2>2, <2>5
    <3> HIDE DEF Good
    <3> QED  BY <2>5, <3>1
  <2>7. PICK s, t, e, f, y, z : /\ s = a[i - 1] /\ t = b[i - 1] /\ y = c[i] /\ z = d[i]
                                /\ e = g[y] /\ f = h[z]
    OBVIOUS
  <2>8. /\ s \in Seq(1..N) /\ t \in Seq(1..N) /\ Mapped(order, s, t)
    BY <2>6, <2>7
  <2>9. /\ y \in 1..N /\ z \in 1..N /\ z = order[y]
        /\ e \in Seq(1..N) /\ f \in Seq(1..N) /\ Mapped(order, e, f)
    BY <2>5, <2>7 DEF SameBelow
  <2>10. a[i] = s \o <<y>> \o e /\ b[i] = t \o <<z>> \o f
    BY <2>5, <2>7 DEF Chain
  <2>11. Good(i)
    BY <2>8, <2>9, <2>10, MappedJoin
  <2> HIDE DEF Good
  <2> QED  BY <2>3, <2>11
<1>2. Good(M)
  <2> HIDE DEF Good
  <2>1. M \in 0..M
    OBVIOUS
  <2> QED  BY <1>1, <2>1
<1> QED  BY <1>2

LEMMA TwinWalks ==
  ASSUME NEW nodes, NEW others, NEW N, NEW order, Twins(nodes, others, N, order)
  PROVE  Mapped(order, dir_dfs(nodes, 1), dir_dfs(others, 1))
<1>1. N \in Nat \ {0} /\ 1 \in 1..N /\ Family(nodes, N) /\ Family(others, N)
  <2>1. Family(nodes, N) /\ Family(others, N)
    BY DEF Twins
  <2>2. N \in Nat \ {0}
    BY <2>1 DEF Family
  <2> QED  BY <2>1, <2>2
<1>2. PICK g : Below(nodes, N, g) /\ dir_dfs(nodes, 1) = g[1]
  BY <1>1, DfsBelow
<1>3. PICK h : Below(others, N, h) /\ dir_dfs(others, 1) = h[1]
  BY <1>1, DfsBelow
<1>4. \A n \in 1..N : g[n] \in Seq(1..N) /\ h[n] \in Seq(1..N)
  BY <1>1, <1>2, <1>3, BelowFacts
<1> DEFINE Good(n) == Mapped(order, g[n], h[order[n]])
           Wrong == {m \in 0..(N - 1) : ~Good(N - m)}
<1>5. Wrong = {}
  <2>1. SUFFICES ASSUME Wrong # {} PROVE FALSE
    OBVIOUS
  <2>2. PICK m \in Wrong : \A j \in Wrong : m <= j
    <3>1. Wrong \in SUBSET Nat
      BY <1>1
    <3> HIDE DEF Wrong
    <3> QED  BY <2>1, <3>1, LeastNumber
  <2>3. PICK n : n = N - m
    OBVIOUS
  <2>4. n \in 1..N /\ ~Good(n) /\ m = N - n
    BY <1>1, <2>2, <2>3
  <2>5. ASSUME NEW j \in 1..N, j > n PROVE Good(j)
    <3>1. N - j \in 0..(N - 1) /\ ~(m <= N - j) /\ N - (N - j) = j
      BY <1>1, <2>4, <2>5
    <3>2. N - j \notin Wrong
      <4> HIDE DEF Wrong, Good
      <4> QED  BY <2>2, <3>1
    <3> HIDE DEF Good
    <3> QED  BY <3>1, <3>2
  <2>6. PICK c, d, M : c = nodes[n].children /\ d = others[order[n]].children /\ M = Len(c)
    OBVIOUS
  <2>7. /\ M \in Nat /\ DOMAIN c = 1..M
        /\ \A k \in 1..M : c[k] \in 1..N /\ c[k] > n
    BY <1>1, <2>4, <2>6, ChildFollows
  <2>8. order[n] \in 1..N /\ Mapped(order, c, d)
    BY <2>4, <2>6 DEF Twins
  <2>9. Len(d) = M /\ DOMAIN d = 1..M /\ \A k \in 1..M : d[k] \in 1..N
    <3>1. Len(d) = M
      BY <2>6, <2>8 DEF Mapped
    <3>2. DOMAIN d = 1..Len(d) /\ \A k \in 1..Len(d) : d[k] \in 1..N
      BY <1>1, <2>6, <2>8, ChildFollows
    <3> QED  BY <3>1, <3>2
  <2>10. ASSUME NEW k \in 1..M
         PROVE  /\ c[k] \in 1..N /\ d[k] \in 1..N /\ d[k] = order[c[k]]
                /\ g[c[k]] \in Seq(1..N) /\ h[d[k]] \in Seq(1..N)
                /\ Mapped(order, g[c[k]], h[d[k]])
    <3>1. c[k] \in 1..N /\ c[k] > n /\ d[k] \in 1..N
      BY <2>7, <2>9
    <3>2. d[k] = order[c[k]]
      BY <2>6, <2>8 DEF Mapped
    <3>3. Good(c[k])
      <4> HIDE DEF Good
      <4> QED  BY <2>5, <3>1
    <3>4. g[c[k]] \in Seq(1..N) /\ h[d[k]] \in Seq(1..N)
      BY <1>4, <3>1
    <3> QED  BY <3>1, <3>2, <3>3, <3>4
  <2>11. SameBelow(N, order, M, c, d, g, h)
    BY <2>10 DEF SameBelow
  <2>12. PICK a : Chain(c, M, g, a) /\ DfsFold(g, c) = a[M]
    BY <2>7, DfsChain
  <2>13. PICK b : Chain(d, M, h, b) /\ DfsFold(h, d) = b[M]
    BY <2>7, <2>9, DfsChain
  <2>14. N \in Nat
    BY <1>1
  <2>15. Mapped(order, a[M], b[M])
    BY <2>7, <2>11, <2>12, <2>13, <2>14, ChainMapped
  <2>16. g[n] = a[M] /\ h[order[n]] = b[M]
    BY <1>2, <1>3, <2>4, <2>6, <2>8, <2>12, <2>13 DEF Below
  <2>17. Good(n)
    BY <2>15, <2>16
  <2> HIDE DEF Good
  <2> QED  BY <2>4, <2>17
<1>6. Good(1)
  <2>1. N - 1 \in 0..(N - 1) /\ N - (N - 1) = 1
    BY <1>1
  <2> HIDE DEF Good
  <2> QED  BY <1>5, <2>1
<1>7. order[1] = 1
  BY DEF Twins
<1> QED  BY <1>2, <1>3, <1>6, <1>7

\* The children that the entries of i have are the inodes that its inode has.
LEMMA SameChildren ==
  ASSUME NEW N, NEW order, NEW queue, NEW offset, Plan(tree, N, order, queue, offset),
         NEW s, Slots(s, tree, order, offset, N), Len(s) = N,
         NEW i \in 1..N, NEW c, Gathered(s, i, N, c)
  PROVE  Mapped(order, c, tree[order[i]].children)
<1>1. /\ N \in Nat \ {0} /\ order[1] = 1 /\ \A x \in 1..N : order[x] \in 1..N
      /\ \A x, y \in 1..N : order[x] = order[y] => x = y
  BY PlanFacts
<1>2. Family(tree, N)
  BY DEF Plan
<1>3. PICK v : v = i - 1
  OBVIOUS
<1>4. v \in 0..(N - 1) /\ v + 1 = i
  BY <1>1, <1>3
<1>5. Grows(tree, N, order, queue, v)
  BY <1>4, QueueGrows
<1>6. PICK d, l, M : d = tree[order[i]].children /\ l = Len(queue[v]) /\ M = Len(d)
  OBVIOUS
<1>7. Grown(tree, N, order, v, l, d)
  BY <1>4, <1>5, <1>6 DEF Grows
<1>8. /\ l \in 1..N /\ i <= l /\ M \in Nat /\ l + M \in 1..N
      /\ \A k \in 1..M : d[k] = order[l + k] /\ tree[d[k]].parent = order[i]
  BY <1>4, <1>6, <1>7 DEF Grown
<1>9. /\ \A x \in 1..N : s[x].parent \in 1..x /\ (s[x].parent = x <=> x = 1)
      /\ \A x \in 1..N : x # 1 => order[s[x].parent] = tree[order[x]].parent
  BY DEF Slots
<1>10. PICK L : L = Len(c)
  OBVIOUS
<1>11. /\ L \in Nat
       /\ \A k \in 1..L : c[k] \in 1..N /\ s[c[k]].parent = i /\ c[k] # i
       /\ \A j, k \in 1..L : j < k => c[j] < c[k]
       /\ \A m \in 1..N : IsChildOf(s, m, i) => \E k \in 1..L : c[k] = m
  <2>1. c \in Seq(1..N)
    BY DEF Gathered
  <2>2. L \in Nat /\ \A k \in 1..L : c[k] \in 1..N
    BY <1>10, <2>1, LenProperties, ElementOfSeq
  <2>3. \A k \in 1..L : s[c[k]].parent = i /\ c[k] # i
    BY <1>10 DEF Gathered, IsChildOf
  <2>4. /\ \A j, k \in 1..L : j < k => c[j] < c[k]
        /\ \A m \in 1..N : IsChildOf(s, m, i) => \E k \in 1..L : c[k] = m
    BY <1>10 DEF Gathered
  <2> QED  BY <2>2, <2>3, <2>4
<1>12. ASSUME NEW m \in 1..M PROVE \E k \in 1..L : c[k] = l + m
  <2>1. PICK x : x = l + m
    OBVIOUS
  <2>2. x \in 1..N /\ x # 1 /\ x # i
    BY <1>1, <1>8, <2>1
  <2>3. tree[order[x]].parent = order[i]
    BY <1>8, <2>1
  <2>4. order[s[x].parent] = order[i] /\ s[x].parent \in 1..N
    BY <1>1, <1>9, <2>2, <2>3
  <2>5. s[x].parent = i
    BY <1>1, <2>4
  <2>6. IsChildOf(s, x, i)
    BY <2>2, <2>5 DEF IsChildOf
  <2> QED  BY <1>11, <2>1, <2>2, <2>6
<1>13. ASSUME NEW k \in 1..L PROVE c[k] \in (l + 1)..(l + M)
  <2>1. PICK x \in 1..N : x = c[k]
    BY <1>11
  <2>2. s[x].parent = i /\ x # i
    BY <1>11, <2>1
  <2>3. x # 1
    BY <1>9, <2>2
  <2>4. order[i] = tree[order[x]].parent
    BY <1>9, <2>2, <2>3
  <2>5. order[x] \in 2..N
    <3>1. 1 \in 1..N
      BY <1>1
    <3>2. order[x] # 1 /\ order[x] \in 1..N
      BY <1>1, <2>3, <3>1
    <3> QED  BY <1>1, <3>2
  <2>6. PICK j \in 1..M : d[j] = order[x]
    <3>1. PICK y : y = order[x]
      OBVIOUS
    <3>2. \E e \in 1..Len(tree[tree[y].parent].children) :
            tree[tree[y].parent].children[e] = y
      BY <1>2, <2>5, <3>1 DEF Family
    <3> QED  BY <1>6, <2>4, <3>1, <3>2
  <2>7. order[l + j] = order[x] /\ l + j \in 1..N
    BY <1>8, <2>6
  <2>8. x = l + j
    BY <1>1, <2>7
  <2> QED  BY <1>8, <2>1, <2>8
<1>14. L = M /\ \A k \in 1..L : c[k] = l + k
  <2>1. l \in Nat /\ M \in Nat /\ L \in Nat
    BY <1>8, <1>11
  <2>2. \A j, k \in 1..L : j < k => c[j] < c[k]
    BY <1>11
  <2>3. Consecutive(c, L, l, M)
    BY <1>12, <1>13, <2>2 DEF Consecutive
  <2> QED  BY <2>1, <2>3, Ascending
<1>15. \A k \in 1..L : d[k] = order[c[k]]
  BY <1>8, <1>14
<1> QED  BY <1>6, <1>10, <1>14, <1>15 DEF Mapped

LEMMA RebuiltAlike ==
  ASSUME PackInv, Headed, at \in {"writing", "packed", "failed"}
  PROVE  \E N, order : Alike(N, order)
<1>1. PICK N, order, queue, offset : Laid(N, order, queue, offset)
  BY DEF PackInv, Layout
<1>2. Plan(tree, N, order, queue, offset)
  BY <1>1 DEF Laid
<1>3. /\ N \in Nat \ {0} /\ Len(tree) = N /\ order[1] = 1
      /\ \A i \in 1..N : order[i] \in 1..N
  BY <1>2, PlanFacts
<1>4. PICK S : Catalog(S)
  BY LaidCatalog DEF PackInv
<1>5. walked = N
  BY <1>3 DEF PackInv, Layout
<1>6. Entered(N, order, offset)
  BY <1>1, <1>5, LaidEntries DEF PackInv
<1>7. S = N
  BY <1>4, <1>6 DEF Catalog, Entered
<1>8. PICK s, nodes : s = metas /\ nodes = buildFsTree(metas)
  OBVIOUS
<1>9. DOMAIN s = 1..N /\ Len(s) = N
  BY <1>6, <1>8 DEF Entered
<1>10. Slots(s, tree, order, offset, N)
  BY <1>1, <1>5, <1>8 DEF Laid
<1>11. Orphanless(s, N)
  <2>1. \A i \in 1..N : s[i].parent \in 1..i /\ (s[i].parent = i <=> i = 1)
    BY <1>9, <1>10 DEF Slots
  <2> QED  BY <1>3, <1>9, <2>1 DEF Orphanless
<1>12. Family(nodes, N)
  BY <1>8, <1>11, BuiltFamily
<1>13. Family(tree, N)
  BY <1>2 DEF Plan
<1>14. ASSUME NEW i \in 1..N PROVE Mapped(order, nodes[i].children, tree[order[i]].children)
  <2>1. nodes[i].children = ChildrenOf(s, i)
    BY <1>8, <1>11, BuiltFields
  <2>2. Gathered(s, i, N, nodes[i].children)
    <3>1. N \in Nat
      BY <1>3
    <3> QED  BY <1>9, <2>1, <3>1, ChildrenGathered
  <2> QED  BY <1>2, <1>9, <1>10, <2>2, SameChildren
<1>15. Twins(nodes, tree, N, order)
  BY <1>3, <1>12, <1>13, <1>14 DEF Twins
<1>16. ASSUME NEW i \in 1..N
       PROVE  metas[i].mtime = tree[order[i]].mtime /\ metas[i].name = tree[order[i]].name
  <2>1. PICK o, p, n : o = offset[i - 1] /\ p = s[i].parent /\ n = order[i]
    OBVIOUS
  <2>2. i <= N
    BY <1>3
  <2>3. s[i] = PackedOf(tree, n, p, o)
    BY <1>9, <1>10, <2>1, <2>2 DEF Slots
  <2>4. s[i].mtime = tree[n].mtime /\ s[i].name = tree[n].name
    BY <2>3 DEF PackedOf
  <2> QED  BY <1>8, <2>1, <2>4
<1>17. Alike(N, order)
  BY <1>4, <1>7, <1>8, <1>15, <1>16 DEF Alike
<1> QED  BY <1>17

LEMMA LinesInOrder ==
  ASSUME NEW nodes
  PROVE  Lines(nodes) = [i \in 1..Len(nodes) |-> Line(nodes, LineOrder(nodes)[i])]
BY DEF Lines, Line, LineOrder

\* The head, and then the walk below it.
LEMMA HeadFirst ==
  ASSUME NEW nodes, NEW N, Family(nodes, N), NEW g, g = dir_dfs(nodes, 1)
  PROVE  /\ Len(g) \in Nat /\ N <= Len(g) + 1 /\ LineOrder(nodes)[1] = 1
         /\ \A i \in 2..N : /\ i - 1 \in 1..Len(g) /\ g[i - 1] \in 1..N
                            /\ LineOrder(nodes)[i] = g[i - 1]
<1>1. N \in Nat \ {0} /\ 1 \in 1..N
  <2>1. N \in Nat \ {0}
    BY DEF Family
  <2> QED  BY <2>1
<1>2. Len(g) \in Nat /\ N <= Len(g) + 1
  BY DfsLength
<1>3. g \in Seq(1..N)
  <2>1. PICK b : Below(nodes, N, b) /\ g = b[1]
    BY <1>1, DfsBelow
  <2> QED  BY <1>1, <2>1, BelowFacts
<1>4. PICK o, w : o = <<1>> /\ w = o \o g
  OBVIOUS
<1>5. o \in Seq(1..N) /\ Len(o) = 1 /\ o[1] = 1
  BY <1>1, <1>4
<1>6. \A i \in 1..(Len(o) + Len(g)) : w[i] = IF i <= Len(o) THEN o[i] ELSE g[i - Len(o)]
  BY <1>3, <1>4, <1>5, ConcatProperties
<1>7. w = LineOrder(nodes)
  BY <1>4 DEF LineOrder
<1>8. w[1] = 1
  BY <1>2, <1>5, <1>6
<1>9. ASSUME NEW i \in 2..N PROVE i - 1 \in 1..Len(g) /\ g[i - 1] \in 1..N /\ w[i] = g[i - 1]
  <2>1. i - 1 \in 1..Len(g) /\ i \in 1..(1 + Len(g)) /\ ~(i <= 1)
    BY <1>1, <1>2
  <2>2. g[i - 1] \in 1..N
    BY <1>3, <2>1, ElementOfSeq
  <2>3. w[i] = g[i - 1]
    BY <1>5, <1>6, <2>1
  <2> QED  BY <2>1, <2>2, <2>3
<1> QED  BY <1>2, <1>7, <1>8, <1>9

LEMMA LinesAlike ==
  ASSUME PackInv, Headed, at \in {"writing", "packed", "failed"}
  PROVE  Lines(buildFsTree(metas)) = Lines(tree)
<1>1. PICK N, order : Alike(N, order)
  BY RebuiltAlike
<1>2. PICK nodes : nodes = buildFsTree(metas)
  OBVIOUS
<1>3. /\ Catalog(N) /\ Twins(nodes, tree, N, order)
      /\ \A i \in 1..N : /\ metas[i].mtime = tree[order[i]].mtime
                         /\ metas[i].name = tree[order[i]].name
  BY <1>1, <1>2 DEF Alike
<1>4. /\ Family(nodes, N) /\ Family(tree, N) /\ order[1] = 1
      /\ \A i \in 1..N : order[i] \in 1..N
  BY <1>3 DEF Twins
<1>5. N \in Nat \ {0} /\ Len(nodes) = N /\ Len(tree) = N
  BY <1>4 DEF Family
<1>6. ASSUME NEW n \in 1..N PROVE Line(nodes, n) = Line(tree, order[n])
  <2>1. get_name(nodes, n) = metas[n].mtime
    BY <1>2, <1>3, BuiltNames
  <2>2. get_name(tree, order[n]) = tree[order[n]].mtime
    BY <1>4, <1>5, NameIsTime DEF PackInv, Shape
  <2>3. nodes[n].name = metas[n].name
    <3>1. Orphanless(metas, N)
      <4>1. \A i \in 1..N : metas[i].parent \in 1..i /\ (metas[i].parent = i <=> i = 1)
        BY <1>3 DEF Catalog, Cataloged
      <4> QED  BY <1>3, <4>1 DEF Catalog, Orphanless
    <3> QED  BY <1>2, <3>1, BuiltFields
  <2> QED  BY <1>3, <2>1, <2>2, <2>3 DEF Line
<1>7. PICK g, h : g = dir_dfs(nodes, 1) /\ h = dir_dfs(tree, 1)
  OBVIOUS
<1>8. Mapped(order, g, h)
  BY <1>3, <1>7, TwinWalks
<1>9. ASSUME NEW i \in 1..N
      PROVE  LineOrder(nodes)[i] \in 1..N /\ LineOrder(tree)[i] = order[LineOrder(nodes)[i]]
  <2>1. CASE i = 1
    BY <1>4, <1>5, <1>7, <2>1, HeadFirst
  <2>2. CASE i # 1
    <3>1. i \in 2..N
      BY <1>5, <2>2
    <3>2. i - 1 \in 1..Len(g) /\ g[i - 1] \in 1..N /\ LineOrder(nodes)[i] = g[i - 1]
      BY <1>4, <1>7, <3>1, HeadFirst
    <3>3. LineOrder(tree)[i] = h[i - 1]
      BY <1>4, <1>7, <3>1, HeadFirst
    <3>4. h[i - 1] = order[g[i - 1]]
      BY <1>8, <3>2 DEF Mapped
    <3> QED  BY <3>2, <3>3, <3>4
  <2> QED  BY <2>1, <2>2
<1>10. \A i \in 1..N : Line(nodes, LineOrder(nodes)[i]) = Line(tree, LineOrder(tree)[i])
  BY <1>6, <1>9
<1>11. /\ Lines(nodes) = [i \in 1..N |-> Line(nodes, LineOrder(nodes)[i])]
       /\ Lines(tree) = [i \in 1..N |-> Line(tree, LineOrder(tree)[i])]
  BY <1>5, LinesInOrder
<1>12. Lines(nodes) = Lines(tree)
  BY <1>10, <1>11
<1> QED  BY <1>2, <1>12

\* Once pack has returned, only the printing changes what was printed.
LEMMA PrintSteps ==
  ASSUME [Next]_vars
  PROVE  \/ at \in {"packed", "failed"} /\ UNCHANGED <<at, tree>> /\ printArchiveFsTree
         \/ listing' = listing /\ (at \in {"packed", "failed"} => UNCHANGED <<at, tree>>)
<1>1. CASE UsesArchive
  <2>1. at \in {"packed", "failed"} /\ UNCHANGED <<at, tree>> /\ Restore
    BY <1>1 DEF UsesArchive, fsVars
  <2>2. CASE unpack
    BY <2>1, <2>2 DEF unpack
  <2>3. CASE unpackInodeFromArchive
    BY <2>1, <2>3 DEF unpackInodeFromArchive
  <2>4. CASE restoreDirsTime
    BY <2>1, <2>4 DEF restoreDirsTime
  <2>5. CASE printArchiveFsTree
    BY <2>1, <2>5
  <2> QED  BY <2>1, <2>2, <2>3, <2>4, <2>5 DEF Restore
<1>2. CASE UNCHANGED vars
  BY <1>2 DEF vars, fsVars, unpackVars
<1>3. CASE ArchiveIsCut
  BY <1>3 DEF ArchiveIsCut, fsVars, unpackVars
<1>4. CASE pack /\ UNCHANGED unpackVars
  <2>1. listing' = listing
    BY <1>4 DEF unpackVars
  <2>2. at \in {"packed", "failed"} => UNCHANGED <<at, tree>>
    <3>1. CASE Collect /\ UNCHANGED <<packVars, archive>>
      <4>1. at \in {"start", "collecting"}
        BY <3>1, CollectAt
      <4> QED  BY <4>1
    <3>2. CASE Aside
      BY <3>2 DEF Aside
    <3>3. CASE computeArchiveSize \/ WriteHeader \/ PackReturns
      BY <3>3 DEF computeArchiveSize, WriteHeader, PackReturns
    <3>4. CASE addInodeToArchive
      BY <3>4 DEF addInodeToArchive
    <3>5. CASE writeContentToArchive
      BY <3>5 DEF writeContentToArchive
    <3>6. CASE ArchiveIsCut
      BY <3>6 DEF ArchiveIsCut, fsVars
    <3> QED  BY PackSteps, <3>1, <3>2, <3>3, <3>4, <3>5, <3>6
  <2> QED  BY <2>1, <2>2
<1> QED  BY <1>1, <1>2, <1>3, <1>4 DEF Next

LEMMA PrintedNext == RestoreInv /\ Printed /\ [Next]_vars => Printed'
<1> SUFFICES ASSUME RestoreInv, Printed, [Next]_vars PROVE Printed'
  OBVIOUS
<1>1. CASE at \in {"packed", "failed"} /\ UNCHANGED <<at, tree>> /\ printArchiveFsTree
  <2>1. PICK file \in {archive, getArchiveWithoutContent(archive)} :
               listing' = Lines(buildFsTree(file.metas))
    BY <1>1 DEF printArchiveFsTree
  <2>2. checkArchiveSizes(archive)
    BY <1>1 DEF printArchiveFsTree
  <2>3. archive.metas = metas
    BY <1>1, <2>2, SoundArchive DEF RestoreInv
  <2>4. file.metas = archive.metas
    BY <2>1 DEF getArchiveWithoutContent, File
  <2>5. listing' = Lines(buildFsTree(metas))
    BY <2>1, <2>3, <2>4
  <2>6. Lines(buildFsTree(metas)) = Lines(tree)
    BY <1>1, LinesAlike DEF RestoreInv
  <2>7. Lines(tree') = Lines(tree)
    BY <1>1
  <2> QED  BY <1>1, <2>5, <2>6, <2>7 DEF Printed
<1>2. CASE listing' = listing /\ (at \in {"packed", "failed"} => UNCHANGED <<at, tree>>)
  <2>1. CASE listing = <<>>
    BY <1>2, <2>1 DEF Printed
  <2>2. CASE listing # <<>>
    <3>1. at \in {"packed", "failed"} /\ listing = Lines(tree) /\ UNCHANGED <<at, tree, listing>>
      BY <1>2, <2>2 DEF Printed
    <3>2. Lines(tree') = Lines(tree)
      BY <3>1
    <3> QED  BY <3>1, <3>2 DEF Printed
  <2> QED  BY <2>1, <2>2
<1> QED  BY PrintSteps, <1>1, <1>2

(***************************************************************************)
(* What ls prints is the tree that was collected, line for line: the tree  *)
(* that is rebuilt from the parents of the entries has the inodes in the   *)
(* order of the breadth-first walk, and the depth-first walk over it comes *)
(* by the same names as the walk over the tree that was collected.         *)
(***************************************************************************)
THEOREM ListsTree == Spec => []ListsTheTree
<1>1. Init => Printed
  BY DEF Init, UnpackInit, Printed
<1>2. RestoreInv /\ Printed /\ [Next]_vars => Printed'
  BY PrintedNext
<1>3. Printed => ListsTheTree
  BY DEF Printed, ListsTheTree
<1> QED  BY <1>1, <1>2, <1>3, RestoreInvariant, PTL DEF Spec
=============================================================================
