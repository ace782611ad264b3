---------------------------- MODULE MemoryFSProofs ----------------------------
(***************************************************************************)
(* Proofs about MemoryFS, for any names, handles and bounds: types, that a *)
(* node is listed in one place at most, and that size and content agree.   *)
(***************************************************************************)
EXTENDS MemoryFS, TLAPS

\* The parts of TypeOK about the tree and about everything else.
TreeOK ==
  /\ next \in 2..(MaxNodes + 1)
  /\ isDir \in [Nodes -> BOOLEAN] /\ isDir[Root]
  /\ name \in [Nodes -> Names \cup {None}]
  /\ parent \in [Nodes -> Nodes \cup {None}]
  /\ children \in [Nodes -> [Names -> Nodes \cup {None}]]
  /\ size \in [Nodes -> Nat]
  /\ content \in [Nodes -> Nat]
  /\ \A n \in Nodes : ~isDir[n] => children[n] = NoChildren
  /\ \A n \in Nodes : n >= next => children[n] = NoChildren /\ ~Listed(n)

CallsOK ==
  /\ open \in [Handles -> OpenFile \cup {None}]
  /\ pc \in [Clients -> {"idle", "create", "resolve"}]
  /\ arg \in [Clients -> Paths]
  /\ blocked \subseteq Nodes
  /\ panicked \in BOOLEAN
  /\ \A h \in Handles : open[h] # None => open[h].node < next

\* A creation under way is of a path below the root, never of the root itself.
CreatesBelowRoot == \A c \in Clients : pc[c] # "idle" => arg[c] \in BelowRoot

IndInv == TreeOK /\ CallsOK /\ CreatesBelowRoot /\ ListedOnce

\* TypeOK is its two parts.
LEMMA TypeOKParts == TypeOK <=> TreeOK /\ CallsOK
  BY DEF TypeOK, TreeOK, CallsOK

-----------------------------------------------------------------------------
(* Paths and their resolution.                                             *)

\* A path is a sequence of names, one below the root is not empty, and the
\* prefixes that resolvePath is asked for are sequences of names too.
LEMMA PathFacts ==
  ASSUME NEW p \in BelowRoot
  PROVE  /\ p \in Paths
         /\ p \in Seq(Names) /\ Len(p) \in Nat \ {0}
         /\ Base(p) \in Names
         /\ Dir(p) = SubSeq(p, 1, Len(p) - 1)
         /\ \A i \in 1..Len(p) : p[i] \in Names
         /\ \A k \in 0..Len(p) : SubSeq(p, 1, k) \in Seq(Names)
<1>1. PICK n \in 0..MaxDepth : p \in [1..n -> Names]
  BY DEF BelowRoot, Paths
<1>2. p \in Seq(Names) /\ Len(p) = n
  BY <1>1, FSAssumption
<1>3. n # 0
  BY <1>1, <1>2 DEF BelowRoot
<1>4. \A k \in 0..Len(p) : SubSeq(p, 1, k) \in Seq(Names)
  BY <1>2, FSAssumption
<1> QED
  BY <1>1, <1>2, <1>3, <1>4, FSAssumption DEF BelowRoot, Base, Dir

\* The root's path is a path.
LEMMA RootInPaths == << >> \in Paths
  BY FSAssumption DEF Paths

\* Arithmetic of the last step of a walk.
LEMMA PredecessorInRange ==
  ASSUME NEW L \in Nat \ {0}, L # 1
  PROVE  L - 1 \in 1..L
  OBVIOUS

\* resolvePath gives None, or a node that was made; Root was.
LEMMA ResolveMade ==
  ASSUME TreeOK, NEW p \in Seq(Names)
  PROVE  resolvePath(p) # None => resolvePath(p) \in Nodes /\ resolvePath(p) < next
<1>1. Root \in Nodes /\ Root < next
  BY FSAssumption DEF Root, Nodes, TreeOK
<1>2. CASE p = << >>
  BY <1>1, <1>2 DEF resolvePath
<1>3. CASE p # << >> /\ \E w \in [1..Len(p) -> Nodes] : IsWalk(w, p)
  <2>1. PICK w \in [1..Len(p) -> Nodes] : IsWalk(w, p) /\ resolvePath(p) = w[Len(p)]
    BY <1>3 DEF resolvePath
  <2>2. Len(p) \in Nat \ {0} /\ p[Len(p)] \in Names
    BY <1>3
  <2>3. Len(p) \in 1..Len(p) /\ w[Len(p)] \in Nodes
    BY <2>1, <2>2
  <2>4. PICK d \in Nodes : children[d][p[Len(p)]] = w[Len(p)]
    <3>1. CASE Len(p) = 1
      BY <1>1, <2>1, <3>1 DEF IsWalk
    <3>2. CASE Len(p) # 1
      <4>1. Len(p) - 1 \in 1..Len(p)
        BY <2>2, <3>2, PredecessorInRange
      <4>2. w[Len(p) - 1] \in Nodes
        BY <2>1, <4>1
      <4>3. w[Len(p)] = children[IF Len(p) = 1 THEN Root ELSE w[Len(p) - 1]][p[Len(p)]]
        BY <2>1, <2>3, Zenon DEF IsWalk
      <4> QED
        BY <3>2, <4>2, <4>3, Zenon
    <3> QED
      BY <3>1, <3>2
  <2>5. Listed(w[Len(p)])
    BY <2>2, <2>4 DEF Listed
  <2>6. w[Len(p)] < next
    BY <2>3, <2>5 DEF TreeOK, Nodes
  <2> QED
    BY <2>1, <2>3, <2>6
<1>4. CASE p # << >> /\ ~\E w \in [1..Len(p) -> Nodes] : IsWalk(w, p)
  BY <1>4 DEF resolvePath
<1> QED
  BY <1>2, <1>3, <1>4

-----------------------------------------------------------------------------
(* New nodes.                                                              *)

\* What a successful Attach preserves: the new nodes were listed nowhere, so
\* each is listed once, below the one made just before it.
LEMMA AttachInv ==
  ASSUME TreeOK, ListedOnce,
         NEW p \in BelowRoot, NEW j \in 1..Len(p),
         NEW dir \in BOOLEAN, NEW bytes \in Nat,
         resolvePath(SubSeq(p, 1, j - 1)) # None,
         isDir[resolvePath(SubSeq(p, 1, j - 1))],
         Attach(p, j, dir, bytes)
  PROVE  TreeOK' /\ ListedOnce' /\ next' > next
<1> DEFINE L == Len(p)
           last == next + L - j
           at == resolvePath(SubSeq(p, 1, j - 1))
<1>1. /\ L \in Nat /\ j \in 1..L /\ next \in Nat /\ next >= 2
      /\ \A i \in 1..L : p[i] \in Names
  BY PathFacts, FSAssumption DEF TreeOK
<1>2. at \in Nodes /\ at < next /\ isDir[at]
  <2>1. j - 1 \in 0..L
    BY <1>1
  <2>2. SubSeq(p, 1, j - 1) \in Seq(Names)
    BY <2>1, PathFacts
  <2> QED
    BY <2>2, ResolveMade
<1> HIDE DEF L, at
<1>3. last \in Nat /\ last >= next /\ last <= MaxNodes
  BY <1>1 DEF Attach, L
<1>4. \A n \in next..last : j + n - next \in 1..L
  BY <1>1
<1>5. \A n \in next..last : n # last => j + n - next + 1 \in 1..L
  BY <1>1
<1>6. /\ next' = last + 1
      /\ isDir' = [n \in Nodes |-> IF n \in next..last THEN n # last \/ dir ELSE isDir[n]]
      /\ name' = [n \in Nodes |-> IF n \in next..last THEN p[j + n - next] ELSE name[n]]
      /\ size' = [size EXCEPT ![last] = bytes]
      /\ content' = [content EXCEPT ![last] = bytes]
  BY DEF Attach, L
<1>7. /\ parent' = [n \in Nodes |-> parent'[n]]
      /\ \A n \in Nodes : parent'[n] =
           IF n \in next..last THEN IF n = next THEN at ELSE n - 1 ELSE parent[n]
  <2>1. parent' = [n \in Nodes |-> parent'[n]]
    BY Zenon DEF Attach
  <2>2. ASSUME NEW n \in Nodes, n \notin next..last PROVE parent'[n] = parent[n]
    BY <2>2 DEF Attach, L
  <2>3. ASSUME NEW n \in Nodes, n \in next..last PROVE parent'[n] = IF n = next THEN at ELSE n - 1
    BY <1>1, <2>3 DEF Attach, L, at
  <2> QED
    BY <2>1, <2>2, <2>3
<1>8. children' = [n \in Nodes |-> [m \in Names |->
        IF n = at /\ m = p[j] THEN next + j - j
        ELSE IF n \in next..last /\ n # last /\ m = p[j + n - next + 1] THEN n + 1
        ELSE children[n][m]]]
  BY DEF Attach, L, at
<1> HIDE DEF last
<1>9. Nodes = 1..MaxNodes /\ MaxNodes \in Nat
  BY FSAssumption DEF Nodes
<1>10. next..last \subseteq Nodes
  BY <1>1, <1>3, <1>9
<1>11. /\ next' \in 2..(MaxNodes + 1) /\ next' > next
       /\ size' \in [Nodes -> Nat] /\ content' \in [Nodes -> Nat]
  BY <1>1, <1>3, <1>6, <1>9 DEF TreeOK
<1>12. isDir' \in [Nodes -> BOOLEAN] /\ isDir'[Root]
  <2>1. Root \in Nodes /\ Root \notin next..last
    BY <1>1, <1>3, <1>9, FSAssumption DEF Root
  <2>2. isDir' = [n \in Nodes |-> IF n \in next..last THEN n # last \/ dir ELSE isDir[n]]
    BY <1>6
  <2> QED
    BY <2>1, <2>2, Zenon DEF TreeOK
<1>13. name' \in [Nodes -> Names \cup {None}]
  BY <1>1, <1>4, <1>6 DEF TreeOK
<1>14. \A n \in next..last : parent'[n] = IF n = next THEN at ELSE n - 1
  BY <1>1, <1>3, <1>7, <1>9, <1>10
<1>15. \A n \in Nodes : n \notin next..last => parent'[n] = parent[n] /\ name'[n] = name[n] /\ isDir'[n] = isDir[n]
  BY <1>6, <1>7
<1>16. parent' \in [Nodes -> Nodes \cup {None}]
  <2>1. \A n \in next..last : n # next => n - 1 \in Nodes
    BY <1>1, <1>3, <1>9
  <2>2. \A n \in Nodes : parent'[n] \in Nodes \cup {None}
    BY <1>2, <1>14, <1>15, <2>1 DEF TreeOK
  <2> QED
    BY <1>7, <2>2
<1>17. \A d \in Nodes, m \in Names :
         \/ d = at /\ m = p[j] /\ children'[d][m] = next
         \/ d \in next..(last - 1) /\ m = p[j + d - next + 1] /\ children'[d][m] = d + 1
         \/ children'[d][m] = children[d][m] /\ ~(d = at /\ m = p[j])
  BY <1>1, <1>3, <1>8, <1>9
<1>18. children' \in [Nodes -> [Names -> Nodes \cup {None}]]
  <2>1. next \in Nodes /\ \A d \in next..(last - 1) : d + 1 \in Nodes
    BY <1>1, <1>3, <1>9
  <2>2. \A d \in Nodes, m \in Names : children'[d][m] \in Nodes \cup {None}
    <3> SUFFICES ASSUME NEW d \in Nodes, NEW m \in Names
                 PROVE  children'[d][m] \in Nodes \cup {None}
      OBVIOUS
    <3>1. children[d][m] \in Nodes \cup {None}
      BY DEF TreeOK
    <3>2. next \in Nodes \cup {None} /\ \A e \in next..(last - 1) : e + 1 \in Nodes \cup {None}
      BY <2>1
    <3>3. CASE children'[d][m] = next
      BY <3>2, <3>3
    <3>4. CASE d \in next..(last - 1) /\ children'[d][m] = d + 1
      BY <3>2, <3>4
    <3>5. CASE children'[d][m] = children[d][m]
      BY <3>1, <3>5
    <3> QED
      BY <1>17, <3>3, <3>4, <3>5
  <2> QED
    BY <1>8, <2>2
<1>19. \A n \in Nodes : ~isDir'[n] => children'[n] = NoChildren
  <2> SUFFICES ASSUME NEW n \in Nodes, ~isDir'[n] PROVE children'[n] = NoChildren
    OBVIOUS
  <2>1. n # at
    BY <1>1, <1>2, <1>9, <1>15
  <2>2. n \notin next..(last - 1)
    <3>1. ASSUME n \in next..(last - 1) PROVE n \in next..last /\ n # last
      BY <1>1, <1>3, <3>1
    <3> QED
      BY <1>6, <3>1, Zenon
  <2>3. children[n] = NoChildren
    BY <1>1, <1>3, <1>9, <1>15 DEF TreeOK
  <2>4. \A m \in Names : children'[n][m] = children[n][m]
    BY <1>17, <2>1, <2>2
  <2> QED
    BY <1>18, <2>3, <2>4 DEF NoChildren
<1>20. \A n \in Nodes : n >= next' => children'[n] = NoChildren /\ ~Listed(n)'
  <2> SUFFICES ASSUME NEW n \in Nodes, n >= next'
               PROVE  children'[n] = NoChildren /\ ~Listed(n)'
    OBVIOUS
  <2>1. n > last /\ n > next /\ n \notin next..last /\ n # at
    BY <1>1, <1>2, <1>3, <1>6, <1>9
  <2>2. \A m \in Names : children'[n][m] = children[n][m]
    BY <1>1, <1>3, <1>9, <1>17, <2>1
  <2>3. children[n] = NoChildren /\ ~Listed(n)
    BY <1>1, <1>9, <2>1 DEF TreeOK
  <2>4. \A d \in Nodes, m \in Names : children'[d][m] # n
    BY <1>1, <1>3, <1>9, <1>17, <2>1, <2>3 DEF Listed
  <2> QED
    BY <1>18, <2>2, <2>3, <2>4 DEF NoChildren, Listed
<1>21. ListedOnce'
  <2> SUFFICES ASSUME NEW d \in Nodes, NEW n \in Nodes, NEW m \in Names, children'[d][m] = n
               PROVE  parent'[n] = d /\ name'[n] = m
    BY DEF ListedOnce
  <2>1. CASE d = at /\ m = p[j] /\ children'[d][m] = next
    <3>1. n = next /\ n \in next..last /\ j + n - next = j
      BY <1>1, <1>3, <2>1
    <3> QED
      BY <1>6, <1>14, <2>1, <3>1
  <2>2. CASE d \in next..(last - 1) /\ m = p[j + d - next + 1] /\ children'[d][m] = d + 1
    <3>1. n = d + 1 /\ n # next /\ n \in next..last
      BY <1>1, <1>3, <2>2
    <3>2. n - 1 = d /\ j + n - next = j + d - next + 1
      BY <1>1, <1>3, <2>2, <3>1
    <3> QED
      BY <1>6, <1>14, <2>2, <3>1, <3>2
  <2>3. CASE children'[d][m] = children[d][m]
    BY <1>1, <1>3, <1>9, <1>15, <2>3 DEF TreeOK, ListedOnce, Listed
  <2> QED
    BY <1>17, <2>1, <2>2, <2>3
<1> QED
  BY <1>11, <1>12, <1>13, <1>16, <1>18, <1>19, <1>20, <1>21 DEF TreeOK

\* A prefix of a path's directory is a prefix of the path.
LEMMA PrefixOfDir ==
  ASSUME NEW p \in BelowRoot, NEW k \in 0..(Len(p) - 1)
  PROVE  SubSeq(Dir(p), 1, k) = SubSeq(p, 1, k) /\ k + 1 \in 1..Len(p) /\ (k + 1) - 1 = k
<1>1. p \in Seq(Names) /\ Len(p) \in Nat \ {0} /\ k \in Nat /\ k + 1 \in 1..Len(p) /\ (k + 1) - 1 = k
  BY PathFacts
<1>2. SubSeq(Dir(p), 1, k) = SubSeq(p, 1, k)
  BY <1>1 DEF Dir
<1> QED
  BY <1>1, <1>2

\* AddFile, the directories it makes on the way included.
LEMMA AddFileInv ==
  ASSUME TreeOK, ListedOnce, NEW p \in BelowRoot, NEW bytes \in Nat, AddFile(p, bytes)
  PROVE  TreeOK' /\ ListedOnce' /\ next' > next
<1>1. PICK k \in 0..(Len(p) - 1) :
        /\ Existing(Dir(p), k)
        /\ isDir[resolvePath(SubSeq(p, 1, k))]
        /\ Attach(p, k + 1, FALSE, bytes)
  BY DEF AddFile
<1>2. k + 1 \in 1..Len(p) /\ SubSeq(p, 1, (k + 1) - 1) = SubSeq(Dir(p), 1, k) /\ (k + 1) - 1 = k
  BY PrefixOfDir
<1>3. resolvePath(SubSeq(p, 1, (k + 1) - 1)) # None
  BY <1>1, <1>2, Zenon DEF Existing
<1>4. isDir[resolvePath(SubSeq(p, 1, (k + 1) - 1))]
  BY <1>1, <1>2, Zenon
<1>5. PICK j \in 1..Len(p) :
        /\ resolvePath(SubSeq(p, 1, j - 1)) # None
        /\ isDir[resolvePath(SubSeq(p, 1, j - 1))]
        /\ Attach(p, j, FALSE, bytes)
  BY <1>1, <1>2, <1>3, <1>4, Zenon
<1>6. FALSE \in BOOLEAN /\ 0 \in Nat
  OBVIOUS
<1> QED
  BY <1>5, <1>6, AttachInv, Zenon

\* AddDirectory, likewise.
LEMMA AddDirectoryInv ==
  ASSUME TreeOK, ListedOnce, NEW p \in BelowRoot, AddDirectory(p)
  PROVE  TreeOK' /\ ListedOnce' /\ next' > next
<1>1. PICK k \in 0..(Len(p) - 1) :
        /\ Existing(p, k)
        /\ isDir[resolvePath(SubSeq(p, 1, k))]
        /\ Attach(p, k + 1, TRUE, 0)
  BY DEF AddDirectory
<1>2. k + 1 \in 1..Len(p) /\ (k + 1) - 1 = k
  BY PrefixOfDir
<1>3. resolvePath(SubSeq(p, 1, (k + 1) - 1)) # None
  BY <1>1, <1>2, Zenon DEF Existing
<1>4. isDir[resolvePath(SubSeq(p, 1, (k + 1) - 1))]
  BY <1>1, <1>2, Zenon
<1>5. PICK j \in 1..Len(p) :
        /\ resolvePath(SubSeq(p, 1, j - 1)) # None
        /\ isDir[resolvePath(SubSeq(p, 1, j - 1))]
        /\ Attach(p, j, TRUE, 0)
  BY <1>1, <1>2, <1>3, <1>4, Zenon
<1>6. TRUE \in BOOLEAN /\ 0 \in Nat
  OBVIOUS
<1> QED
  BY <1>5, <1>6, AttachInv, Zenon

\* Mkdir makes the last component only.
LEMMA MakeDirInv ==
  ASSUME TreeOK, ListedOnce, NEW p \in BelowRoot,
         resolvePath(Dir(p)) # None, isDir[resolvePath(Dir(p))],
         Attach(p, Len(p), TRUE, 0)
  PROVE  TreeOK' /\ ListedOnce' /\ next' > next
<1>1. Dir(p) = SubSeq(p, 1, Len(p) - 1) /\ Len(p) \in 1..Len(p)
  BY PathFacts
<1>2. 0 \in Nat /\ TRUE \in BOOLEAN
  OBVIOUS
<1> QED
  BY <1>1, <1>2, AttachInv, Zenon

-----------------------------------------------------------------------------
(* Entries that are removed or moved.                                      *)

\* Emptying an entry keeps the tree's invariants.
LEMMA RemoveEntryInv ==
  ASSUME TreeOK, ListedOnce, NEW n \in Nodes, parent[n] # None
  PROVE  LET c == [children EXCEPT ![parent[n]][name[n]] = None] IN
         /\ c \in [Nodes -> [Names -> Nodes \cup {None}]]
         /\ \A d \in Nodes, m \in Names :
              c[d][m] = IF d = parent[n] /\ m = name[n] THEN None ELSE children[d][m]
<1>1. parent[n] \in Nodes /\ children \in [Nodes -> [Names -> Nodes \cup {None}]]
  BY DEF TreeOK
<1> QED
  BY <1>1

\* Fewer entries and nothing else changed: the invariants stay.
LEMMA EntryLessInv ==
  ASSUME TreeOK, ListedOnce,
         children' \in [Nodes -> [Names -> Nodes \cup {None}]],
         \A d \in Nodes, m \in Names : children'[d][m] \in {children[d][m], None},
         UNCHANGED <<next, isDir, name, parent, size, content>>
  PROVE  TreeOK' /\ ListedOnce'
<1>1. \A n \in Nodes : n # None
  BY FSAssumption DEF Nodes
<1>2. \A n \in Nodes : children[n] = NoChildren => children'[n] = NoChildren
  BY DEF NoChildren
<1>3. \A n \in Nodes : Listed(n)' => Listed(n)
  BY <1>1 DEF Listed
<1>4. TreeOK'
  BY <1>2, <1>3 DEF TreeOK
<1>5. ListedOnce'
  BY <1>1 DEF ListedOnce
<1> QED
  BY <1>4, <1>5

\* Unlink empties the entry its node remembers, or one that is not its own.
LEMMA UnlinkInv ==
  ASSUME TreeOK, CallsOK, ListedOnce, NEW h \in Handles, Unlink(h)
  PROVE  TreeOK' /\ ListedOnce'
<1> DEFINE n == open[h].node
<1>1. n \in Nodes /\ parent[n] # None
  BY DEF Unlink, CallsOK, OpenFile
<1>2. /\ children' \in [Nodes -> [Names -> Nodes \cup {None}]]
      /\ \A d \in Nodes, m \in Names :
           children'[d][m] = IF d = parent[n] /\ m = name[n] THEN None ELSE children[d][m]
  BY <1>1, RemoveEntryInv DEF Unlink
<1>3. UNCHANGED <<next, isDir, name, parent, size, content>>
  BY DEF Unlink, dataVars
<1> QED
  BY <1>2, <1>3, EntryLessInv

\* Rename takes the node out of the only entry it can be in, so the new one
\* is its only one.
LEMMA RenameInv ==
  ASSUME TreeOK, CallsOK, ListedOnce, NEW h \in Handles, NEW p \in BelowRoot,
         NEW replace \in BOOLEAN, NEW v \in Verdicts, Rename(h, p, replace, v)
  PROVE  TreeOK' /\ ListedOnce'
<1> DEFINE n == open[h].node
           d == resolvePath(Dir(p))
<1>1. n \in Nodes /\ n < next
  BY DEF Rename, CallsOK, OpenFile
<1>2. CASE UNCHANGED treeVars
  BY <1>2 DEF Rename, treeVars, dataVars, TreeOK, ListedOnce, Listed, NoChildren
<1>3. CASE /\ d # None /\ isDir[d]
           /\ children' = [Without(n) EXCEPT ![d][Base(p)] = n]
           /\ name' = [name EXCEPT ![n] = Base(p)]
           /\ parent' = [parent EXCEPT ![n] = d]
           /\ UNCHANGED <<next, isDir, panicked>>
  <2>1. Dir(p) \in Seq(Names) /\ Base(p) \in Names
    <3>1. Len(p) - 1 \in 0..Len(p) /\ Base(p) \in Names
      BY PathFacts
    <3> QED
      BY <3>1, PathFacts
  <2>2. d \in Nodes /\ d < next /\ isDir[d]
    BY <1>3, <2>1, ResolveMade
  <2> HIDE DEF n, d
  <2>3. /\ Without(n) \in [Nodes -> [Names -> Nodes \cup {None}]]
        /\ \A e \in Nodes, m \in Names :
             Without(n)[e][m] =
               IF parent[n] # None /\ e = parent[n] /\ m = name[n] THEN None ELSE children[e][m]
    <3>1. CASE parent[n] = None
      BY <3>1 DEF Without, TreeOK
    <3>2. CASE parent[n] # None
      BY <1>1, <3>2, RemoveEntryInv DEF Without
    <3> QED
      BY <3>1, <3>2
  <2>4. /\ children' \in [Nodes -> [Names -> Nodes \cup {None}]]
        /\ \A e \in Nodes, m \in Names :
             children'[e][m] = IF e = d /\ m = Base(p) THEN n ELSE Without(n)[e][m]
    BY <1>1, <1>3, <2>1, <2>2, <2>3
  <2>5. UNCHANGED <<size, content>>
    BY DEF Rename, dataVars
  <2>6. \A e \in Nodes : children[e] = NoChildren /\ e # d => children'[e] = NoChildren
    BY <2>3, <2>4 DEF NoChildren
  <2>7. \A e \in Nodes : ~isDir'[e] => children'[e] = NoChildren
    BY <1>3, <2>2, <2>6 DEF TreeOK
  <2>8. ASSUME NEW e \in Nodes, e >= next' PROVE children'[e] = NoChildren /\ ~Listed(e)'
    <3>1. next' = next /\ children[e] = NoChildren /\ ~Listed(e)
      BY <1>3, <2>8 DEF TreeOK
    <3>2. e # d /\ e # n /\ e # None
      BY <1>1, <2>2, <2>8, <3>1, FSAssumption DEF Nodes, TreeOK
    <3>3. \A f \in Nodes, m \in Names : children'[f][m] # e
      BY <2>3, <2>4, <3>1, <3>2 DEF Listed
    <3> QED
      BY <2>6, <3>1, <3>2, <3>3 DEF Listed
  <2>9. name' \in [Nodes -> Names \cup {None}] /\ parent' \in [Nodes -> Nodes \cup {None}]
    BY <1>1, <1>3, <2>1, <2>2 DEF TreeOK
  <2>10. TreeOK'
    BY <1>3, <2>4, <2>5, <2>7, <2>8, <2>9 DEF TreeOK
  <2>11. ListedOnce'
    <3> SUFFICES ASSUME NEW e \in Nodes, NEW x \in Nodes, NEW m \in Names, children'[e][m] = x
                 PROVE  parent'[x] = e /\ name'[x] = m
      BY DEF ListedOnce
    <3>1. x # None /\ e # None
      BY FSAssumption DEF Nodes
    <3>2. CASE e = d /\ m = Base(p)
      BY <1>1, <1>3, <2>4, <3>2 DEF TreeOK
    <3>3. CASE ~(e = d /\ m = Base(p))
      <4>1. children[e][m] = x /\ ~(e = parent[n] /\ m = name[n])
        BY <2>3, <2>4, <3>1, <3>3
      <4>2. parent[x] = e /\ name[x] = m /\ x # n
        BY <4>1 DEF ListedOnce
      <4> QED
        BY <1>3, <4>2 DEF TreeOK
    <3> QED
      BY <3>2, <3>3
  <2> QED
    BY <2>10, <2>11
<1> QED
  BY <1>2, <1>3 DEF Rename

-----------------------------------------------------------------------------
(* The specification.                                                      *)

\* NewMemoryFS establishes the invariant.
LEMMA InitInv == Init => IndInv
<1> SUFFICES ASSUME Init PROVE IndInv
  OBVIOUS
<1>1. TreeOK
  <2>1. next = 2 /\ next \in 2..(MaxNodes + 1) /\ Root \in Nodes /\ \A n \in Nodes : n # None
    BY FSAssumption DEF Init, Nodes, Root
  <2>2. NoChildren \in [Names -> Nodes \cup {None}]
    BY DEF NoChildren
  <2>3. \A n \in Nodes : children[n] = NoChildren
    BY DEF Init
  <2>4. \A n \in Nodes : ~Listed(n)
    BY <2>1, <2>3 DEF Listed, NoChildren
  <2>5. isDir \in [Nodes -> BOOLEAN] /\ isDir[Root]
    BY <2>1, Zenon DEF Init
  <2>6. /\ name \in [Nodes -> Names \cup {None}] /\ parent \in [Nodes -> Nodes \cup {None}]
        /\ children \in [Nodes -> [Names -> Nodes \cup {None}]]
        /\ size \in [Nodes -> Nat] /\ content \in [Nodes -> Nat]
    BY <2>2 DEF Init
  <2> QED
    BY <2>1, <2>3, <2>4, <2>5, <2>6 DEF TreeOK
<1>2. << >> \in Paths
  BY RootInPaths
<1>3. CallsOK
  BY <1>2 DEF Init, CallsOK, OpenFile
<1>4. CreatesBelowRoot
  BY DEF Init, CreatesBelowRoot
<1>5. ListedOnce
  BY FSAssumption DEF Init, ListedOnce, Nodes, NoChildren
<1> QED
  BY <1>1, <1>3, <1>4, <1>5 DEF IndInv

\* What does not touch the tree keeps its invariants.
LEMMA TreeUnchanged ==
  ASSUME TreeOK, ListedOnce, UNCHANGED <<treeVars, dataVars>>
  PROVE  TreeOK' /\ ListedOnce'
  BY DEF treeVars, dataVars, TreeOK, ListedOnce, Listed, NoChildren

\* What only makes new nodes keeps the invariants of the calls.
LEMMA CallsUnchanged ==
  ASSUME CallsOK, CreatesBelowRoot, TreeOK, TreeOK', next' >= next,
         UNCHANGED <<open, pc, arg, blocked>>, panicked' \in BOOLEAN
  PROVE  CallsOK' /\ CreatesBelowRoot'
<1>1. next \in Nat /\ next' \in Nat
  BY FSAssumption DEF TreeOK
<1>2. \A h \in Handles : open[h] # None => open[h].node \in Nat
  BY FSAssumption DEF CallsOK, OpenFile, Nodes
<1> QED
  BY <1>1, <1>2 DEF CallsOK, CreatesBelowRoot

\* A handle on a node that was made.
LEMMA OpenedInv ==
  ASSUME CallsOK, TreeOK, TreeOK', next' >= next,
         NEW h \in Handles, NEW n \in Nodes, n < next', NEW p \in Paths,
         open' = [open EXCEPT ![h] = [node |-> n, path |-> p]]
  PROVE  /\ open' \in [Handles -> OpenFile \cup {None}]
         /\ \A g \in Handles : open'[g] # None => open'[g].node < next'
<1>1. next \in Nat /\ next' \in Nat
  BY FSAssumption DEF TreeOK
<1>2. \A g \in Handles : open[g] # None => open[g].node \in Nat /\ open[g].node < next
  BY FSAssumption DEF CallsOK, OpenFile, Nodes
<1> QED
  BY <1>1, <1>2 DEF CallsOK, OpenFile

\* The nodes of blocked and pretended creations are listed nowhere.
LEMMA DummyInv ==
  ASSUME CallsOK, TreeOK, ListedOnce, NEW h \in Handles, NEW p \in BelowRoot, Dummy(h, p)
  PROVE  /\ TreeOK' /\ ListedOnce' /\ next \in Nodes
         /\ open' \in [Handles -> OpenFile \cup {None}]
         /\ \A g \in Handles : open'[g] # None => open'[g].node < next'
<1>1. next \in Nodes /\ next' \in 2..(MaxNodes + 1) /\ next' = next + 1
  BY FSAssumption DEF Dummy, TreeOK, Nodes
<1>2. Base(p) \in Names /\ p \in Paths
  BY PathFacts
<1>3. UNCHANGED <<isDir, parent, children, size, content>>
  BY DEF Dummy, dataVars
<1>4. name' \in [Nodes -> Names \cup {None}]
  BY <1>1, <1>2 DEF Dummy, TreeOK
<1>5. \A n \in Nodes : n >= next' => n >= next
  BY <1>1, FSAssumption DEF Nodes
<1>6. TreeOK'
  BY <1>1, <1>3, <1>4, <1>5 DEF TreeOK, Listed, NoChildren
<1>7. ~Listed(next)
  BY <1>1 DEF TreeOK, Nodes
<1>8. ListedOnce'
  BY <1>1, <1>3, <1>7 DEF ListedOnce, Listed, Dummy, TreeOK
<1>9. next < next' /\ next' >= next
  BY <1>1 DEF Nodes
<1>10. open' = [open EXCEPT ![h] = [node |-> next, path |-> p]]
  BY DEF Dummy, Opened
<1> QED
  BY <1>1, <1>2, <1>6, <1>8, <1>9, <1>10, OpenedInv, Zenon

\* Steps that only make nodes keep the invariant.
LEMMA GrownInv ==
  ASSUME IndInv, TreeOK', ListedOnce', next' > next,
         UNCHANGED <<open, pc, arg, blocked, panicked>>
  PROVE  IndInv'
<1>1. next \in Nat /\ next' \in Nat /\ panicked' \in BOOLEAN
  BY FSAssumption DEF TreeOK, IndInv, CallsOK
<1>2. next' >= next
  BY <1>1
<1> QED
  BY <1>1, <1>2, CallsUnchanged DEF IndInv

\* Steps that change nothing, or end the process, keep the invariant.
LEMMA StillInv ==
  ASSUME IndInv, UNCHANGED <<treeVars, dataVars, open, pc, arg, blocked>>, panicked' \in BOOLEAN
  PROVE  IndInv'
<1>1. TreeOK' /\ ListedOnce'
  BY TreeUnchanged DEF IndInv
<1> QED
  BY <1>1 DEF IndInv, CallsOK, CreatesBelowRoot, treeVars

\* A handle on what resolvePath found.
LEMMA OpenStepInv ==
  ASSUME CallsOK, TreeOK, ListedOnce, NEW h \in Handles, NEW p \in Paths,
         resolvePath(p) # None, Opened(h, resolvePath(p), p), UNCHANGED <<treeVars, dataVars>>
  PROVE  /\ TreeOK' /\ ListedOnce'
         /\ open' \in [Handles -> OpenFile \cup {None}]
         /\ \A g \in Handles : open'[g] # None => open'[g].node < next'
<1>1. p \in Seq(Names)
  BY FSAssumption DEF Paths
<1>2. resolvePath(p) \in Nodes /\ resolvePath(p) < next
  BY <1>1, ResolveMade
<1>3. TreeOK' /\ ListedOnce' /\ next' = next /\ next \in Nat
  BY TreeUnchanged, FSAssumption DEF treeVars, TreeOK
<1>4. next' >= next
  BY <1>3
<1> QED
  BY <1>2, <1>3, <1>4, OpenedInv DEF Opened

\* Every step keeps the invariant.
LEMMA NextInv ==
  ASSUME IndInv, [Next]_vars
  PROVE  IndInv'
<1> USE DEF IndInv
<1>1. ASSUME NEW p \in BelowRoot, NEW b \in 0..MaxSize, AppAddFile(p, b)
      PROVE  IndInv'
  <2>1. b \in Nat
    BY FSAssumption
  <2>2. TreeOK' /\ ListedOnce' /\ next' > next
    BY <1>1, <2>1, AddFileInv DEF AppAddFile
  <2> QED
    BY <1>1, <2>2, GrownInv DEF AppAddFile
<1>2. ASSUME NEW p \in BelowRoot, AppAddDirectory(p)
      PROVE  IndInv'
  <2>1. TreeOK' /\ ListedOnce' /\ next' > next
    BY <1>2, AddDirectoryInv DEF AppAddDirectory
  <2> QED
    BY <1>2, <2>1, GrownInv DEF AppAddDirectory
<1>3. ASSUME NEW c \in Clients, NEW h \in Handles, NEW p \in Paths, Open(c, h, p) \/ OpenDir(c, h, p)
      PROVE  IndInv'
  <2>1. /\ resolvePath(p) # None /\ Opened(h, resolvePath(p), p)
        /\ UNCHANGED <<treeVars, dataVars, pc, arg, blocked, panicked>>
    BY <1>3 DEF Open, OpenDir
  <2> QED
    BY <2>1, OpenStepInv DEF CreatesBelowRoot, CallsOK
<1>4. ASSUME NEW c \in Clients, NEW h \in Handles, NEW p \in BelowRoot, NEW v \in Verdicts,
             OpenMissing(c, h, p, v)
      PROVE  IndInv'
  <2>1. CASE Dummy(h, p) /\ UNCHANGED <<pc, arg>> /\ blocked' \subseteq blocked \cup {next}
    <3>1. TreeOK' /\ ListedOnce' /\ next \in Nodes
      BY <2>1, DummyInv
    <3>2. /\ open' \in [Handles -> OpenFile \cup {None}]
          /\ \A g \in Handles : open'[g] # None => open'[g].node < next'
      BY <2>1, DummyInv
    <3>3. panicked' \in BOOLEAN
      BY <1>4, Zenon DEF OpenMissing, CallbackPanics
    <3>4. CallsOK' /\ CreatesBelowRoot'
      BY <2>1, <3>1, <3>2, <3>3 DEF CallsOK, CreatesBelowRoot
    <3> QED
      BY <3>1, <3>4
  <2>2. CASE /\ pc' = [pc EXCEPT ![c] = "create"] /\ arg' = [arg EXCEPT ![c] = p]
             /\ UNCHANGED <<treeVars, dataVars, open, blocked>>
    <3>1. TreeOK' /\ ListedOnce'
      BY <2>2, TreeUnchanged
    <3>2. panicked' \in BOOLEAN
      BY <1>4, Zenon DEF OpenMissing, CallbackPanics
    <3>3. p \in Paths
      BY DEF BelowRoot
    <3>4. CallsOK' /\ CreatesBelowRoot'
      BY <2>2, <3>2, <3>3 DEF CallsOK, CreatesBelowRoot, treeVars
    <3> QED
      BY <3>1, <3>4
  <2>3. CASE UNCHANGED <<treeVars, dataVars, open, pc, arg, blocked>>
    <3>1. panicked' \in BOOLEAN
      BY <1>4, Zenon DEF OpenMissing, CallbackPanics
    <3> QED
      BY <2>3, <3>1, StillInv
  <2> QED
    BY <1>4, <2>1, <2>2, <2>3 DEF OpenMissing
<1>5. ASSUME NEW c \in Clients, NEW h \in Handles, OpenResolve(c, h)
      PROVE  IndInv'
  <2>1. TreeOK' /\ ListedOnce'
    BY <1>5, TreeUnchanged DEF OpenResolve
  <2>2. << >> \in Paths
    BY RootInPaths
  <2>3. /\ open' \in [Handles -> OpenFile \cup {None}]
        /\ \A g \in Handles : open'[g] # None => open'[g].node < next'
    <3>1. CASE UNCHANGED open
      BY <1>5, <3>1 DEF OpenResolve, CallsOK, treeVars
    <3>2. CASE resolvePath(arg[c]) # None /\ Opened(h, resolvePath(arg[c]), arg[c])
      <4>1. arg[c] \in Paths /\ UNCHANGED <<treeVars, dataVars>>
        BY <1>5 DEF CallsOK, OpenResolve
      <4> QED
        BY <3>2, <4>1, OpenStepInv
    <3> QED
      BY <1>5, <3>1, <3>2 DEF OpenResolve
  <2>4. CallsOK' /\ CreatesBelowRoot'
    BY <1>5, <2>2, <2>3 DEF OpenResolve, CallsOK, CreatesBelowRoot
  <2> QED
    BY <2>1, <2>4
<1>6. ASSUME NEW c \in Clients, OpenCreate(c)
      PROVE  IndInv'
  <2>1. << >> \in Paths /\ arg[c] \in BelowRoot
    <3>1. << >> \in Paths
      BY RootInPaths
    <3>2. pc[c] # "idle"
      BY <1>6 DEF OpenCreate
    <3> QED
      BY <3>1, <3>2 DEF CreatesBelowRoot
  <2>2. CASE AddFile(arg[c], 0) /\ pc' = [pc EXCEPT ![c] = "resolve"] /\ UNCHANGED arg
    <3>1. TreeOK' /\ ListedOnce' /\ next' > next
      BY <2>1, <2>2, AddFileInv
    <3>2. \A h \in Handles : open[h] # None => open[h].node < next'
      <4>1. next \in Nat /\ next' \in Nat
        BY <3>1, FSAssumption DEF TreeOK
      <4>2. \A h \in Handles : open[h] # None => open[h].node \in Nat
        BY FSAssumption DEF CallsOK, OpenFile, Nodes
      <4> QED
        BY <3>1, <4>1, <4>2 DEF CallsOK
    <3>3. CallsOK' /\ CreatesBelowRoot'
      BY <1>6, <2>1, <2>2, <3>2 DEF OpenCreate, CallsOK, CreatesBelowRoot
    <3> QED
      BY <3>1, <3>3
  <2>3. CASE /\ pc' = [pc EXCEPT ![c] = "idle"] /\ arg' = [arg EXCEPT ![c] = << >>]
             /\ UNCHANGED <<treeVars, dataVars>>
    <3>1. TreeOK' /\ ListedOnce'
      BY <2>3, TreeUnchanged
    <3>2. CallsOK' /\ CreatesBelowRoot'
      BY <1>6, <2>1, <2>3 DEF OpenCreate, CallsOK, CreatesBelowRoot, treeVars
    <3> QED
      BY <3>1, <3>2
  <2> QED
    BY <1>6, <2>2, <2>3 DEF OpenCreate
<1>7. ASSUME NEW p \in BelowRoot, NEW v \in Verdicts, Mkdir(p, v)
      PROVE  IndInv'
  <2>1. CASE UNCHANGED <<treeVars, dataVars>> /\ panicked'
    BY <1>7, <2>1, StillInv DEF Mkdir
  <2>2. CASE /\ resolvePath(Dir(p)) # None /\ isDir[resolvePath(Dir(p))]
             /\ Attach(p, Len(p), TRUE, 0) /\ UNCHANGED panicked
    <3>1. TreeOK' /\ ListedOnce' /\ next' > next
      BY <2>2, MakeDirInv
    <3> QED
      BY <1>7, <2>2, <3>1, GrownInv DEF Mkdir
  <2> QED
    BY <1>7, <2>1, <2>2 DEF Mkdir
<1>8. ASSUME NEW h \in Handles, Close(h)
      PROVE  IndInv'
  <2>1. TreeOK' /\ ListedOnce'
    BY <1>8, TreeUnchanged DEF Close
  <2>2. CallsOK' /\ CreatesBelowRoot'
    BY <1>8 DEF Close, CallsOK, CreatesBelowRoot, treeVars
  <2> QED
    BY <2>1, <2>2
<1>9. ASSUME NEW h \in Handles, Unlink(h)
      PROVE  IndInv'
  <2>1. TreeOK' /\ ListedOnce'
    BY <1>9, UnlinkInv
  <2>2. CallsOK' /\ CreatesBelowRoot'
    BY <1>9 DEF Unlink, CallsOK, CreatesBelowRoot
  <2> QED
    BY <2>1, <2>2
<1>10. ASSUME NEW h \in Handles, NEW p \in BelowRoot, NEW r \in BOOLEAN, NEW v \in Verdicts,
              Rename(h, p, r, v)
       PROVE  IndInv'
  <2>1. TreeOK' /\ ListedOnce'
    BY <1>10, RenameInv
  <2>2. UNCHANGED <<open, pc, arg, blocked, next>> /\ panicked' \in BOOLEAN
    BY <1>10 DEF Rename, treeVars, CallsOK
  <2>3. CallsOK' /\ CreatesBelowRoot'
    BY <2>2 DEF CallsOK, CreatesBelowRoot
  <2> QED
    BY <2>1, <2>3
<1>11. ASSUME NEW h \in Handles, NEW b \in 0..MaxSize, Read(h, b)
       PROVE  IndInv'
  <2>1. panicked' \in BOOLEAN
    <3>1. CASE b > content[open[h].node]
      BY <1>11, <3>1 DEF Read
    <3>2. CASE ~(b > content[open[h].node])
      BY <1>11, <3>2 DEF Read
    <3> QED
      BY <3>1, <3>2
  <2> QED
    BY <1>11, <2>1, StillInv DEF Read
<1>12. ASSUME NEW h \in Handles, NEW b \in 0..MaxSize, Write(h, b) \/ Truncate(h, b)
       PROVE  IndInv'
  <2>1. b \in Nat /\ open[h].node \in Nodes
    BY <1>12, FSAssumption DEF Write, Truncate, CallsOK, OpenFile
  <2>2. size' \in [Nodes -> Nat] /\ content' \in [Nodes -> Nat]
    BY <1>12, <2>1 DEF Write, Truncate, TreeOK
  <2>3. UNCHANGED <<next, isDir, name, parent, children, open, pc, arg, blocked, panicked>>
    BY <1>12 DEF Write, Truncate, treeVars
  <2>4. TreeOK' /\ ListedOnce'
    BY <2>2, <2>3 DEF TreeOK, ListedOnce, Listed, NoChildren
  <2>5. CallsOK' /\ CreatesBelowRoot'
    BY <2>3 DEF CallsOK, CreatesBelowRoot
  <2> QED
    BY <2>4, <2>5
<1>13. CASE UNCHANGED vars
  <2>1. panicked' \in BOOLEAN
    BY <1>13 DEF vars, CallsOK
  <2> QED
    BY <1>13, <2>1, StillInv DEF vars
<1> QED
  BY <1>1, <1>2, <1>3, <1>4, <1>5, <1>6, <1>7, <1>8, <1>9, <1>10, <1>11, <1>12, <1>13
  DEF Next, AppNext, OpenNext, HandleNext

\* The types of the variables, and that entries, parents and handles refer only
\* to nodes the file system has made: TypeOK, whatever the calls.
THEOREM TypeCorrect == Spec => []TypeOK
<1>1. Init => IndInv
  BY InitInv
<1>2. IndInv /\ [Next]_vars => IndInv'
  BY NextInv
<1>3. IndInv => TypeOK
  BY TypeOKParts DEF IndInv
<1> QED
  BY <1>1, <1>2, <1>3, PTL DEF Spec

\* AddFile, Open, Mkdir, Rename and Unlink leave every node in one place at
\* most, the one it remembers: ListedOnce.
THEOREM NodesListedOnce == Spec => []ListedOnce
<1>1. Init => IndInv
  BY InitInv
<1>2. IndInv /\ [Next]_vars => IndInv'
  BY NextInv
<1>3. IndInv => ListedOnce
  BY DEF IndInv
<1> QED
  BY <1>1, <1>2, <1>3, PTL DEF Spec

\* Outside honeypot mode Write and Truncate keep a file's size and its content
\* together, so that the slice Read takes exists: SizeIsContent.
THEOREM ReadsWithinContent == Spec => []SizeIsContent
<1>1. Init => SizeIsContent
  BY DEF Init, SizeIsContent
<1>2. ASSUME SizeIsContent, [Next]_vars PROVE SizeIsContent'
  <2>0. discard' = discard
    BY <1>2, Zenon DEF Next, vars, mode
  <2>1. CASE discard
    BY <2>0, <2>1 DEF SizeIsContent
  <2>2. CASE ~discard
    <3> USE DEF SizeIsContent
    <3>1. size = content
      BY <1>2, <2>2
    <3>2. ASSUME NEW p, NEW j, NEW dir, NEW b, Attach(p, j, dir, b) PROVE size' = content'
      BY <3>1, <3>2, Zenon DEF Attach
    <3>3. ASSUME UNCHANGED dataVars PROVE size' = content'
      BY <3>1, <3>3 DEF dataVars
    <3>4. ASSUME NEW p, NEW b, AddFile(p, b) PROVE size' = content'
      BY <3>2, <3>4, Zenon DEF AddFile
    <3>5. ASSUME NEW p, AddDirectory(p) PROVE size' = content'
      BY <3>2, <3>5, Zenon DEF AddDirectory
    <3>6. ASSUME NEW h \in Handles, HandleNext(h) PROVE size' = content'
      <4>1. ASSUME NEW b \in 0..MaxSize, Write(h, b) PROVE size' = content'
        BY <2>2, <3>1, <4>1, Zenon DEF Write
      <4>2. ASSUME NEW b \in 0..MaxSize, Truncate(h, b) PROVE size' = content'
        BY <3>1, <4>2, Zenon DEF Truncate
      <4>3. CASE UNCHANGED dataVars
        BY <3>3, <4>3
      <4> QED
        BY <3>6, <4>1, <4>2, <4>3, Zenon DEF HandleNext, Close, Unlink, Rename, Read, dataVars
    <3>7. ASSUME NEW c \in Clients, NEW h \in Handles, OpenNext(c, h) PROVE UNCHANGED dataVars
      BY <3>7 DEF OpenNext, Open, OpenDir, OpenMissing, OpenResolve, Dummy, dataVars
    <3>8. ASSUME NEW c \in Clients, OpenCreate(c) PROVE size' = content'
      BY <3>3, <3>4, <3>8 DEF OpenCreate
    <3>9. ASSUME NEW p \in BelowRoot, NEW v \in Verdicts, Mkdir(p, v) PROVE size' = content'
      BY <3>2, <3>3, <3>9 DEF Mkdir
    <3>10. CASE AppNext
      BY <3>4, <3>5, <3>10, Zenon DEF AppNext, AppAddFile, AppAddDirectory
    <3>11. CASE UNCHANGED vars
      BY <3>1, <3>11 DEF vars, dataVars
    <3> QED
      BY <1>2, <3>3, <3>6, <3>7, <3>8, <3>9, <3>10, <3>11 DEF Next
  <2> QED
    BY <2>1, <2>2
<1> QED
  BY <1>1, <1>2, PTL DEF Spec
\* In honeypot mode no Open is on its way to AddFile: the mode is set before the
\* share is served and does not change.
NoneCreates == discard => \A c \in Clients : pc[c] # "create"

\* Only an Open outside honeypot mode sets out to create a file.
LEMMA NoneCreatesInv ==
  ASSUME IndInv, NoneCreates, [Next]_vars
  PROVE  NoneCreates'
<1>0. discard' = discard
  BY Zenon DEF Next, vars, mode
<1>1. SUFFICES ASSUME discard, NEW c \in Clients PROVE pc'[c] # "create"
  BY <1>0 DEF NoneCreates
<1>2. pc[c] # "create" /\ pc \in [Clients -> {"idle", "create", "resolve"}]
  BY <1>1 DEF NoneCreates, IndInv, CallsOK
<1>3. CASE UNCHANGED pc
  BY <1>2, <1>3
<1>4. ASSUME NEW d \in Clients, OpenCreate(d) PROVE FALSE
  BY <1>1, <1>4 DEF NoneCreates, OpenCreate
<1>5. ASSUME NEW d \in Clients, NEW h \in Handles, OpenNext(d, h) PROVE pc'[c] # "create"
  <2>1. CASE pc' = [pc EXCEPT ![d] = "idle"]
    BY <1>2, <2>1
  <2>2. CASE UNCHANGED pc
    BY <1>3, <2>2
  <2> QED
    BY <1>1, <1>5, <2>1, <2>2 DEF OpenNext, Open, OpenDir, OpenMissing, OpenResolve
<1>6. ASSUME NEW p \in BelowRoot, NEW v \in Verdicts, Mkdir(p, v) PROVE UNCHANGED pc
  BY <1>6 DEF Mkdir
<1>7. ASSUME NEW h \in Handles, HandleNext(h) PROVE UNCHANGED pc
  BY <1>7 DEF HandleNext, Close, Unlink, Rename, Read, Write, Truncate
<1>8. CASE AppNext
  BY <1>3, <1>8 DEF AppNext, AppAddFile, AppAddDirectory
<1>9. CASE UNCHANGED vars
  BY <1>3, <1>9 DEF vars
<1> QED
  BY <1>3, <1>4, <1>5, <1>6, <1>7, <1>8, <1>9 DEF Next

\* In honeypot mode every entry of the tree and every byte of a file stays as the
\* application made it, whatever clients open, create, write, truncate, rename
\* and unlink: HoneypotKeepsTree.
THEOREM HoneypotSavesNothing == Spec => HoneypotKeepsTree
<1> DEFINE Kept == UNCHANGED <<children, content>>
<1>1. Init => IndInv /\ NoneCreates
  <2>1. Init => NoneCreates
    BY DEF Init, NoneCreates
  <2> QED
    BY <2>1, InitInv
<1>2. IndInv /\ NoneCreates /\ [Next]_vars => (IndInv /\ NoneCreates)'
  BY NextInv, NoneCreatesInv
<1>3. ASSUME IndInv, NoneCreates, [Next]_vars
      PROVE  [discard => AppNext \/ UNCHANGED <<children, content>>]_vars
  <2>1. SUFFICES ASSUME discard, Next PROVE AppNext \/ Kept
    BY <1>3
  <2>2. ASSUME NEW c \in Clients, OpenCreate(c) PROVE FALSE
    BY <1>3, <2>1, <2>2 DEF NoneCreates, OpenCreate
  <2>3. ASSUME NEW c \in Clients, NEW h \in Handles, OpenNext(c, h) PROVE Kept
    BY <2>3 DEF OpenNext, Open, OpenDir, OpenMissing, OpenResolve, Dummy, treeVars, dataVars
  <2>4. ASSUME NEW p \in BelowRoot, NEW v \in Verdicts, Mkdir(p, v) PROVE Kept
    BY <2>1, <2>4 DEF Mkdir, treeVars, dataVars
  <2>5. ASSUME NEW h \in Handles, HandleNext(h) PROVE Kept
    BY <2>1, <2>5 DEF HandleNext, Close, Unlink, Rename, Read, Write, Truncate, treeVars, dataVars
  <2> QED
    BY <2>1, <2>2, <2>3, <2>4, <2>5 DEF Next
<1> QED
  BY <1>1, <1>2, <1>3, PTL DEF Spec, HoneypotKeepsTree
=============================================================================
