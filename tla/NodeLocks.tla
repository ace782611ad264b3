------------------------------- MODULE NodeLocks -------------------------------
(***************************************************************************)
(* How the operations of memoryshare/memory_fs.go take their locks: fs.mu  *)
(* and the lock of each node, which are sync.RWMutexes.                    *)
(*                                                                         *)
(* A goroutine asks for one lock at a time.  Lock announces itself, which  *)
(* keeps new readers out, and then waits for the readers to leave; Unlock  *)
(* lets in the readers that have waited.  What is done between two locking *)
(* calls is one step, except where the code reads node.parent several      *)
(* times without a lock that protects it (Unlink).                         *)
(*                                                                         *)
(* Operations that lock alike are one: "get" is GetAttr, Read, Readlink,   *)
(* Listxattr and Getxattr; "set" is SetAttr, Write, Truncate, Setxattr and *)
(* Removexattr; "find" is Open, OpenDir and Lookup.  Symlink, which never  *)
(* returns (it waits for the lock it holds), is left out.                  *)
(***************************************************************************)
EXTENDS Naturals, Sequences

CONSTANTS
  Threads,   \* goroutines that call the file system
  Nodes,     \* nodes, the spare ones included
  Root,
  Spare,     \* nodes for AddFile and Mkdir to make
  Files,     \* the nodes that are not directories
  Names,
  Tree,      \* the children of each node at the beginning
  MaxDepth,  \* bound: components of a path
  OpSets,    \* sets of operations that may be called together
  None

AllOps == {"get", "set", "readdir", "unlink", "find", "addfile", "mkdir", "rename"}

ASSUME LocksAssumption ==
  /\ Root \in Nodes /\ Spare \subseteq Nodes /\ Files \subseteq Nodes
  /\ Tree \in [Nodes -> [Names -> Nodes \cup {None}]]
  /\ None \notin Nodes /\ "fs" \notin Nodes /\ None \notin Threads
  /\ MaxDepth \in Nat
  /\ \A S \in OpSets : S \subseteq AllOps

\* level numbers the nodes by their depth in a tree with the children C: the root
\* is at 0, and what a directory lists is one below it.
Leveled(level, C) ==
  /\ level[Root] = 0
  /\ \A d \in Nodes, m \in Names : C[d][m] # None => level[C[d][m]] = level[d] + 1

\* The tree at the beginning has levels, no more than a path has names, and the
\* spare nodes are not in it.
ASSUME TreeAssumption ==
  /\ Root \notin Spare
  /\ \A d \in Nodes, m \in Names :
       Tree[d][m] \notin Spare /\ (d \in Spare => Tree[d][m] = None)
  /\ \E level \in [Nodes -> 0..MaxDepth] : Leveled(level, Tree)

Mutexes == Nodes \cup {"fs"}
Paths == UNION {[1..n -> Names] : n \in 0..MaxDepth}

VARIABLES
  ops,      \* the operations that are called
  children, parent, name,  \* of the nodes
  fresh,    \* the spare nodes not made yet
  writer,   \* mutex -> the goroutine that has announced Lock, or None
  readers,  \* mutex -> goroutine -> its read locks
  waiting,  \* mutex -> goroutines blocked in RLock
  lk,       \* goroutine -> its current lock call: "no", "asked", "got"
  th,       \* goroutine -> the operation it executes
  fatal     \* why the runtime has ended the process: "no", "panic", "unlock"

tree == <<children, parent, name, fresh>>
locks == <<writer, readers, waiting, lk>>
vars == <<ops, tree, locks, th, fatal>>

Idle == [pc |-> "idle", op |-> None, node |-> None, path |-> << >>, cur |-> None,
         todo |-> {}]

Init ==
  /\ ops \in OpSets
  /\ children = Tree
  /\ parent = [n \in Nodes |->
       IF \E d \in Nodes, m \in Names : Tree[d][m] = n
       THEN CHOOSE d \in Nodes : \E m \in Names : Tree[d][m] = n ELSE None]
  /\ name = [n \in Nodes |->
       IF \E d \in Nodes, m \in Names : Tree[d][m] = n
       THEN CHOOSE m \in Names : \E d \in Nodes : Tree[d][m] = n ELSE None]
  /\ fresh = Spare
  /\ writer = [m \in Mutexes |-> None]
  /\ readers = [m \in Mutexes |-> [t \in Threads |-> 0]]
  /\ waiting = [m \in Mutexes |-> {}]
  /\ lk = [t \in Threads |-> "no"]
  /\ th = [t \in Threads |-> Idle]
  /\ fatal = "no"

-----------------------------------------------------------------------------
(* sync.RWMutex.                                                           *)

\* The call that a goroutine makes at its pc, and on which mutex.
Call(t) ==
  CASE th[t].pc = "fsR" -> <<"RLock", "fs">>
    [] th[t].pc = "fsW" -> <<"Lock", "fs">>
    [] th[t].pc \in {"get", "list0", "list1"} -> <<"RLock", th[t].node>>
    [] th[t].pc = "set" -> <<"Lock", th[t].node>>
    [] th[t].pc \in {"walk", "child"} -> <<"RLock", th[t].cur>>
    [] th[t].pc \in {"enter", "unlink", "to"} -> <<"Lock", th[t].cur>>
    [] th[t].pc = "old" -> <<"Lock", parent[th[t].node]>>
    [] OTHER -> <<"none", None>>

Mutex(t) == Call(t)[2]
NoReaders(m) == \A u \in Threads : readers[m][u] = 0

Lock(t) ==
  /\ Call(t)[1] = "Lock" /\ lk[t] = "no"
  /\ writer[Mutex(t)] = None
  /\ writer' = [writer EXCEPT ![Mutex(t)] = t]
  /\ lk' = [lk EXCEPT ![t] = "asked"]
  /\ UNCHANGED <<tree, readers, waiting, th, fatal>>

LockGot(t) ==
  /\ Call(t)[1] = "Lock" /\ lk[t] = "asked"
  /\ NoReaders(Mutex(t))
  /\ lk' = [lk EXCEPT ![t] = "got"]
  /\ UNCHANGED <<tree, writer, readers, waiting, th, fatal>>

RLock(t) ==
  /\ Call(t)[1] = "RLock" /\ lk[t] = "no"
  /\ \/ /\ writer[Mutex(t)] = None
        /\ readers' = [readers EXCEPT ![Mutex(t)][t] = @ + 1]
        /\ lk' = [lk EXCEPT ![t] = "got"]
        /\ UNCHANGED waiting
     \/ /\ writer[Mutex(t)] # None
        /\ waiting' = [waiting EXCEPT ![Mutex(t)] = @ \cup {t}]
        /\ lk' = [lk EXCEPT ![t] = "asked"]
        /\ UNCHANGED readers
  /\ UNCHANGED <<tree, writer, th, fatal>>

\* Goroutine t leaves the mutexes of R (read locks) and W; it is at its next
\* locking call.
Release(t, R, W) ==
  /\ writer' = [m \in Mutexes |-> IF m \in W THEN None ELSE writer[m]]
  /\ readers' = [m \in Mutexes |-> [u \in Threads |->
       IF m \in W /\ u \in waiting[m] THEN readers[m][u] + 1
       ELSE IF m \in R /\ u = t THEN readers[m][u] - 1 ELSE readers[m][u]]]
  /\ waiting' = [m \in Mutexes |-> IF m \in W THEN {} ELSE waiting[m]]
  /\ lk' = [u \in Threads |->
       IF u = t THEN "no" ELSE IF \E m \in W : u \in waiting[m] THEN "got" ELSE lk[u]]

\* The next locking call, with nothing given back.
Keep(t) ==
  /\ lk' = [lk EXCEPT ![t] = "no"]
  /\ UNCHANGED <<writer, readers, waiting>>

At(t, pc) == th[t].pc = pc /\ lk[t] = "got"
Goto(t, pc) == th' = [th EXCEPT ![t].pc = pc]
Return(t) == th' = [th EXCEPT ![t] = Idle]

-----------------------------------------------------------------------------
(* A call begins.                                                          *)

\* On a handle, whose node may have left the tree.
BeginNode(t, n) ==
  /\ n \notin fresh
  /\ \E op \in ops \cap {"get", "set", "readdir"} :
       /\ op = "readdir" => n \notin Files
       /\ th' = [th EXCEPT ![t] = [Idle EXCEPT !.pc = IF op = "readdir" THEN "list0" ELSE op,
                                              !.op = op, !.node = n]]

\* Without locking the parent.
BeginUnlink_Unlocked(t, n) ==
  /\ "unlink" \in ops /\ n \notin fresh /\ parent[n] # None
  /\ th' = [th EXCEPT ![t] = [Idle EXCEPT !.pc = "delete", !.op = "unlink",
                                         !.node = n, !.cur = parent[n]]]

\* Unlink reads node.parent to lock it.
BeginUnlink(t, n) ==
  /\ "unlink" \in ops /\ n \notin fresh /\ parent[n] # None
  /\ th' = [th EXCEPT ![t] = [Idle EXCEPT !.pc = "unlink", !.op = "unlink",
                                         !.node = n, !.cur = parent[n]]]

\* With a path, which is looked at once fs.mu is locked: it is chosen there.
BeginPath(t) ==
  \E op \in ops \cap {"find", "addfile", "mkdir"} :
    th' = [th EXCEPT ![t] = [Idle EXCEPT !.pc = IF op = "find" THEN "fsR" ELSE "fsW",
                                         !.op = op]]

BeginRename(t, n) ==
  /\ "rename" \in ops /\ n \notin fresh
  /\ th' = [th EXCEPT ![t] = [Idle EXCEPT !.pc = "fsW", !.op = "rename", !.node = n]]

Begin(t) ==
  /\ th[t].pc = "idle"
  /\ \/ \E n \in Nodes : BeginNode(t, n) \/ BeginUnlink(t, n) \/ BeginRename(t, n)
     \/ BeginPath(t)
  /\ UNCHANGED <<tree, locks, fatal>>

-----------------------------------------------------------------------------
(* Operations on one node.                                                 *)

Get(t) ==
  /\ At(t, "get")
  /\ Release(t, {th[t].node}, {})
  /\ Return(t)
  /\ UNCHANGED <<tree, fatal>>

Set(t) ==
  /\ At(t, "set")
  /\ Release(t, {}, {th[t].node})
  /\ Return(t)
  /\ UNCHANGED <<tree, fatal>>

\* ReadDir: the directory's attributes, then each child's with the directory
\* locked.
ReadDirSelf(t) ==
  /\ At(t, "list0")
  /\ Release(t, {th[t].node}, {})
  /\ Goto(t, "list1")
  /\ UNCHANGED <<tree, fatal>>

\* The directory is unlocked before its children are listed, and again at the end.
ReadDirList_UnlocksEarly(t) ==
  /\ At(t, "list1")
  /\ Release(t, {th[t].node}, {})
  /\ th' = [th EXCEPT ![t].pc = "next",
             ![t].todo = {children[th[t].node][m] : m \in Names} \ {None}]
  /\ UNCHANGED <<tree, fatal>>

ReadDirList(t) ==
  /\ At(t, "list1")
  /\ Keep(t)
  /\ th' = [th EXCEPT ![t].pc = "next",
             ![t].todo = {children[th[t].node][m] : m \in Names} \ {None}]
  /\ UNCHANGED <<tree, fatal>>

ReadDirNext(t) ==
  /\ th[t].pc = "next"
  /\ \/ /\ th[t].todo = {}
        /\ Release(t, {th[t].node}, {})
        /\ Return(t)
     \/ \E c \in th[t].todo :
          /\ th' = [th EXCEPT ![t].pc = "child", ![t].cur = c, ![t].todo = @ \ {c}]
          /\ UNCHANGED locks
  /\ UNCHANGED <<tree, fatal>>

\* A child's lock is not given back.
ReadDirChild_KeepsLock(t) ==
  /\ At(t, "child")
  /\ Keep(t)
  /\ Goto(t, "next")
  /\ UNCHANGED <<tree, fatal>>

ReadDirChild(t) ==
  /\ At(t, "child")
  /\ Release(t, {th[t].cur}, {})
  /\ Goto(t, "next")
  /\ UNCHANGED <<tree, fatal>>

\* Unlink, with the lock of the parent it has read: the deferred Unlock is of
\* the parent that node.parent is now...
UnlinkDefer(t) ==
  /\ At(t, "unlink")
  /\ Keep(t)
  /\ th' = [th EXCEPT ![t].pc = "delete", ![t].cur = parent[th[t].node]]
  /\ UNCHANGED <<tree, fatal>>

\* ...and the entry deleted one of the parent it is then.  Unlocking a mutex
\* that is not locked ends the process, as does one that another goroutine has
\* locked when that one unlocks it.
UnlinkDelete(t) ==
  LET n == th[t].node IN
  /\ th[t].pc = "delete"
  /\ children' = [children EXCEPT ![parent[n]][name[n]] = None]
  /\ fatal' = IF writer[th[t].cur] = t THEN fatal ELSE "unlock"
  /\ Release(t, {}, {th[t].cur})
  /\ Return(t)
  /\ UNCHANGED <<parent, name, fresh>>

-----------------------------------------------------------------------------
(* Operations on a path.                                                   *)

\* The path's first name is the last, for Mkdir and Rename, which look up its
\* directory.
Arrived(t, path) == IF th[t].op = "find" THEN path = << >> ELSE Len(path) = 1

FsGot(t, p) ==
  /\ At(t, "fsR") \/ At(t, "fsW")
  /\ \/ /\ th[t].op = "find" /\ p = << >>
        /\ Release(t, {"fs"}, {})
        /\ Return(t)
     \/ /\ p # << >>
        /\ Keep(t)
        /\ th' = [th EXCEPT ![t].cur = Root, ![t].path = p,
                  ![t].pc = IF th[t].op = "addfile" THEN "enter"
                            ELSE IF Arrived(t, p) THEN "to" ELSE "walk"]
  /\ UNCHANGED <<tree, fatal>>

FsR(t) == IF th[t].op = "find" THEN {"fs"} ELSE {}
FsW(t) == {"fs"} \ FsR(t)

\* resolvePath, one component.  Lookup goes on to the attributes of the node.
Walk(t) ==
  LET c == children[th[t].cur][Head(th[t].path)]
      rest == Tail(th[t].path)
  IN
  /\ At(t, "walk")
  /\ \/ /\ c = None
        /\ Release(t, {th[t].cur} \cup FsR(t), FsW(t))
        /\ Return(t)
     \/ /\ c # None /\ th[t].op = "find" /\ Arrived(t, rest)
        /\ Release(t, {th[t].cur} \cup FsR(t), {})
        /\ \/ Return(t)
           \/ th' = [th EXCEPT ![t] = [Idle EXCEPT !.pc = "get", !.op = "find", !.node = c]]
     \/ /\ c # None /\ ~(th[t].op = "find" /\ Arrived(t, rest))
        /\ Release(t, {th[t].cur}, {})
        /\ th' = [th EXCEPT ![t].cur = c, ![t].path = rest,
                  ![t].pc = IF Arrived(t, rest) THEN "to" ELSE "walk"]
  /\ UNCHANGED <<tree, fatal>>

\* A new node n as entry m of directory d.
Make(n, d, m) ==
  /\ fresh' = fresh \ {n}
  /\ children' = [children EXCEPT ![d][m] = n]
  /\ parent' = [parent EXCEPT ![n] = d]
  /\ name' = [name EXCEPT ![n] = m]

\* AddFile, one component: it is entered, or made, or the file is added.  A call
\* that needs more spare nodes than there are ends here (a bound).
Enter(t) ==
  LET d == th[t].cur
      m == Head(th[t].path)
      c == children[d][m]
      Step(n) == /\ Release(t, {}, {d})
                 /\ th' = [th EXCEPT ![t].cur = n, ![t].path = Tail(@)]
      End == Release(t, {}, {d, "fs"}) /\ Return(t)
  IN
  /\ At(t, "enter")
  /\ IF Len(th[t].path) = 1
     THEN /\ End
          /\ \/ \E n \in fresh \cap Files : Make(n, d, m)
             \/ fresh \cap Files = {} /\ UNCHANGED tree
     ELSE \/ c \in Nodes \ Files /\ Step(c) /\ UNCHANGED tree
          \/ c \in Files /\ End /\ UNCHANGED tree
          \/ c = None /\ \E n \in fresh \ Files : Step(n) /\ Make(n, d, m)
          \/ c = None /\ fresh \subseteq Files /\ End /\ UNCHANGED tree
  /\ UNCHANGED fatal

\* Mkdir, with its parent locked.  (Nobody else can have the lock of the new
\* node, which nodeToAttributes takes.)
Mkdir(t) ==
  LET d == th[t].cur
      m == Head(th[t].path)
  IN
  /\ At(t, "to") /\ th[t].op = "mkdir"
  /\ \/ /\ children[d][m] = None /\ d \notin Files
        /\ \E n \in fresh \ Files : Make(n, d, m)
        /\ UNCHANGED fatal
     \/ /\ children[d][m] # None \/ (d \notin Files /\ fresh \subseteq Files)
        /\ UNCHANGED <<tree, fatal>>
     \/ /\ d \in Files
        /\ fatal' = "panic"
        /\ UNCHANGED tree
  /\ Release(t, {}, {d, "fs"})
  /\ Return(t)

\* The entry that Rename adds, in a directory that is locked.
Put(t) ==
  LET d == th[t].cur
      n == th[t].node
      m == Head(th[t].path)
  IN
  /\ name' = [name EXCEPT ![n] = m]
  /\ parent' = [parent EXCEPT ![n] = d]
  /\ fatal' = IF d \in Files THEN "panic" ELSE fatal
  /\ UNCHANGED fresh
  /\ Release(t, {}, {d, "fs"})
  /\ Return(t)

\* Rename, with the destination's directory locked.
RenameTo(t, replace) ==
  LET d == th[t].cur
      n == th[t].node
      m == Head(th[t].path)
  IN
  /\ At(t, "to") /\ th[t].op = "rename"
  /\ \/ /\ children[d][m] # None /\ ~replace
        /\ Release(t, {}, {d, "fs"})
        /\ Return(t)
        /\ UNCHANGED <<tree, fatal>>
     \/ /\ children[d][m] = None \/ replace
        /\ parent[n] \in {None, d}
        /\ Put(t)
        /\ children' = IF parent[n] = None THEN [children EXCEPT ![d][m] = n]
                       ELSE [children EXCEPT ![d] = [[@ EXCEPT ![name[n]] = None] EXCEPT ![m] = n]]
     \/ /\ children[d][m] = None \/ replace
        /\ parent[n] \notin {None, d}
        /\ Keep(t)
        /\ Goto(t, "old")
        /\ UNCHANGED <<tree, fatal>>

RenameOld(t) ==
  LET n == th[t].node IN
  /\ At(t, "old")
  /\ children' = [children EXCEPT ![parent[n]][name[n]] = None]
  /\ Release(t, {}, {parent[n]})
  /\ Goto(t, "put")
  /\ UNCHANGED <<parent, name, fresh, fatal>>

RenamePut(t) ==
  /\ th[t].pc = "put"
  /\ Put(t)
  /\ children' = [children EXCEPT ![th[t].cur][Head(th[t].path)] = th[t].node]

-----------------------------------------------------------------------------
\* Everything a goroutine does once a call has begun.
Continue(t) ==
  \/ Lock(t) \/ LockGot(t) \/ RLock(t)
  \/ Get(t) \/ Set(t)
  \/ ReadDirSelf(t) \/ ReadDirList(t) \/ ReadDirNext(t) \/ ReadDirChild(t)
  \/ UnlinkDefer(t) \/ UnlinkDelete(t)
  \/ (\E p \in Paths : FsGot(t, p)) \/ Walk(t) \/ Enter(t)
  \/ Mkdir(t) \/ (\E replace \in BOOLEAN : RenameTo(t, replace)) \/ RenameOld(t) \/ RenamePut(t)

Next ==
  /\ fatal = "no"
  /\ \E t \in Threads : Begin(t) \/ Continue(t)
  /\ UNCHANGED ops

Spec == Init /\ [][Next]_vars

-----------------------------------------------------------------------------
(* Properties.                                                             *)

Pcs == {"idle", "fsR", "fsW", "get", "set", "list0", "list1", "next",
        "child", "unlink", "delete", "walk", "enter", "to", "old", "put"}

\* Every variable keeps its type, and who has a node's write lock has it alone:
\* a goroutine waits for its readers, and those it blocks wait for it.
TypeOK ==
  /\ ops \subseteq AllOps
  /\ children \in [Nodes -> [Names -> Nodes \cup {None}]]
  /\ parent \in [Nodes -> Nodes \cup {None}]
  /\ name \in [Nodes -> Names \cup {None}]
  /\ fresh \subseteq Spare
  /\ writer \in [Mutexes -> Threads \cup {None}]
  /\ readers \in [Mutexes -> [Threads -> 0..2]]
  /\ waiting \in [Mutexes -> SUBSET Threads]
  /\ lk \in [Threads -> {"no", "asked", "got"}]
  /\ \A t \in Threads : th[t].pc \in Pcs
  /\ fatal \in {"no", "panic", "unlock"}
  /\ \A t \in Threads : Call(t)[1] = "Lock" /\ lk[t] = "got" => NoReaders(Mutex(t))
  /\ \A m \in Mutexes : waiting[m] # {} => writer[m] # None

\* "Concurrent file operations are handled safely" (memoryshare/README.md:11):
\* the map of a directory's entries changes only in the hands of the goroutine
\* that has its write lock, and while nobody reads it.
EntriesGuarded ==
  [][\A d \in Nodes : children'[d] # children[d] =>
       NoReaders(d) /\ \E t \in Threads : writer[d] = t /\ th'[t] # th[t]]_vars

\* The parent that Unlink unlocks at its end (memory_fs.go:930, deferred with what
\* node.parent was then) is one that it has locked: not so when Rename moves the
\* node between two of its reads, and nothing else changes node.parent.
UnlocksHeld == fatal # "unlock"

\* A goroutine that can take its next step.
Moves(t) ==
  \/ lk[t] = "got" \/ Call(t)[1] = "none"
  \/ lk[t] = "no" /\ (Call(t)[1] = "RLock" \/ writer[Mutex(t)] = None)
  \/ lk[t] = "asked" /\ Call(t)[1] = "Lock" /\ NoReaders(Mutex(t))

\* "Only lock if it's a different parent to avoid deadlock" (memory_fs.go:1047):
\* of the goroutines inside a call one at least can move.
NoStandstill ==
  \/ \A t \in Threads : th[t].pc = "idle"
  \/ \E t \in Threads : th[t].pc # "idle" /\ Moves(t)
================================================================================
