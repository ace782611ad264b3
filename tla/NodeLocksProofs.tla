---------------------------- MODULE NodeLocksProofs ----------------------------
(* For any goroutines, nodes, tree, path lengths and operations, unless Rename is  *)
(* called together with what it does not get on with: who has a write lock has it  *)
(* alone, a directory's entries change in the hands of the goroutine that has its  *)
(* write lock, and the goroutines never all wait for each other.                   *)
EXTENDS NodeLocks, SequenceTheorems, WellFoundedInduction, TLAPS

\* Rename and Unlink are not called together.
RenameApart == \A S \in OpSets : ~({"rename", "unlink"} \subseteq S)

\* Neither are Rename and ReadDir.
RenameAlone == \A S \in OpSets : "rename" \in S => S \cap {"readdir", "unlink"} = {}

-----------------------------------------------------------------------------
(* The inductive invariant.                                                    *)

\* What a goroutine executes, of the types its variables have.
Operations ==
  [pc : Pcs, op : AllOps \cup {None}, node : Nodes \cup {None}, path : Seq(Names),
   cur : Nodes \cup {None}, todo : SUBSET Nodes]

\* The variables that are in use at each pc, and the operations that get there.
ShapeOf(s) ==
  /\ s.pc \in {"get", "set", "list0", "list1", "next", "child", "unlink", "delete", "old", "put"}
       \/ (s.op = "rename" /\ s.pc # "idle") => s.node \in Nodes
  /\ s.pc \in {"walk", "child", "enter", "unlink", "delete", "to", "old", "put"} => s.cur \in Nodes
  /\ s.pc \in {"walk", "enter", "to", "old", "put"} => s.path # << >>
  /\ s.pc = "fsR" => s.op = "find"
  /\ s.pc = "fsW" => s.op \in {"addfile", "mkdir", "rename"}
  /\ s.pc = "walk" => s.op \in {"find", "mkdir", "rename"} /\ (s.op # "find" => Len(s.path) >= 2)
  /\ s.pc = "enter" => s.op = "addfile"
  /\ s.pc = "to" => s.op \in {"mkdir", "rename"}
  /\ s.pc \in {"old", "put"} => s.op = "rename"
  /\ s.pc \in {"unlink", "delete"} => s.op = "unlink"
  /\ s.pc \in {"list0", "list1", "next", "child"} => s.op = "readdir"

\* A goroutine is where its operation can be, with a lock call only where there is
\* one. Rename's old directory is not the new one. What Unlink has read of its
\* node is still so.
Shape(t) ==
  /\ ShapeOf(th[t])
  /\ th[t].pc # "idle" => th[t].op \in ops
  /\ Call(t)[1] = "none" => lk[t] = "no"
  /\ th[t].pc = "old" => parent[th[t].node] \in Nodes \ {th[t].cur}
  /\ th[t].pc \in {"unlink", "delete"} =>
       th[t].node \notin fresh /\ th[t].cur = parent[th[t].node]

\* The locks that are kept from earlier calls: fs.mu, and the directory that
\* Rename and Unlink change; fs.mu, and the directory that ReadDir lists.
KeptWrite(s, m) ==
  \/ m = "fs" /\ s.pc \in {"walk", "enter", "to", "old", "put"} /\ s.op # "find"
  \/ m = s.cur /\ s.pc \in {"old", "put", "delete"}

\* The read locks that are kept.
KeptRead(s, m) ==
  \/ m = "fs" /\ s.pc = "walk" /\ s.op = "find"
  \/ m = s.node /\ s.pc \in {"next", "child"}

\* With the current call: what t has the write lock of, or has announced itself
\* for; the number of read locks it has.
HasWrite(t, m) == KeptWrite(th[t], m) \/ (lk[t] # "no" /\ Call(t) = <<"Lock", m>>)

\* The number of read locks that t has of m.
Reads(t, m) ==
  (IF KeptRead(th[t], m) THEN 1 ELSE 0)
  + (IF lk[t] = "got" /\ Call(t) = <<"RLock", m>> THEN 1 ELSE 0)

\* The mutexes say what the goroutines have and wait for: the writer, ...
WritersKnown == \A m \in Mutexes, t \in Threads : writer[m] = t <=> HasWrite(t, m)

\* ... the readers with their locks, ...
ReadersKnown == \A m \in Mutexes, t \in Threads : readers[m][t] = Reads(t, m)

\* ... and the readers that wait.
WaitingKnown ==
  \A m \in Mutexes, t \in Threads :
    t \in waiting[m] <=> lk[t] = "asked" /\ Call(t) = <<"RLock", m>>

\* Who has a write lock, and does not wait for it, has no readers beside it.
Exclusive ==
  \A m \in Mutexes, t \in Threads :
    HasWrite(t, m) /\ ~(lk[t] = "asked" /\ Call(t) = <<"Lock", m>>) => NoReaders(m)

\* All that is said of the mutexes.
LocksInv == WritersKnown /\ ReadersKnown /\ WaitingKnown /\ Exclusive

\* The inductive invariant.
IInv ==
  /\ TypeOK
  /\ th \in [Threads -> Operations]
  /\ ops \in OpSets
  /\ \A t \in Threads : Shape(t)
  /\ LocksInv
  /\ UnlocksHeld

-----------------------------------------------------------------------------
(* What the steps have in common.                                              *)

\* The call at each pc.
LEMMA Calls ==
  ASSUME NEW t \in Threads
  PROVE  /\ th[t].pc = "fsR" => Call(t) = <<"RLock", "fs">>
         /\ th[t].pc = "fsW" => Call(t) = <<"Lock", "fs">>
         /\ th[t].pc \in {"get", "list0", "list1"} => Call(t) = <<"RLock", th[t].node>>
         /\ th[t].pc = "set" => Call(t) = <<"Lock", th[t].node>>
         /\ th[t].pc \in {"walk", "child"} => Call(t) = <<"RLock", th[t].cur>>
         /\ th[t].pc \in {"enter", "unlink", "to"} => Call(t) = <<"Lock", th[t].cur>>
         /\ th[t].pc = "old" => Call(t) = <<"Lock", parent[th[t].node]>>
         /\ th[t].pc \in {"idle", "next", "delete", "put"} => Call(t) = <<"none", None>>
BY DEF Call

\* The same after a step.
LEMMA CallsNext ==
  ASSUME NEW t \in Threads
  PROVE  /\ th'[t].pc = "fsR" => Call(t)' = <<"RLock", "fs">>
         /\ th'[t].pc = "fsW" => Call(t)' = <<"Lock", "fs">>
         /\ th'[t].pc \in {"get", "list0", "list1"} => Call(t)' = <<"RLock", th'[t].node>>
         /\ th'[t].pc = "set" => Call(t)' = <<"Lock", th'[t].node>>
         /\ th'[t].pc \in {"walk", "child"} => Call(t)' = <<"RLock", th'[t].cur>>
         /\ th'[t].pc \in {"enter", "unlink", "to"} => Call(t)' = <<"Lock", th'[t].cur>>
         /\ th'[t].pc = "old" => Call(t)' = <<"Lock", parent'[th'[t].node]>>
         /\ th'[t].pc \in {"idle", "next", "delete", "put"} => Call(t)' = <<"none", None>>
BY DEF Call

\* A goroutine that is not at Rename's old directory makes the same call whatever
\* the tree.
LEMMA CallStays ==
  ASSUME NEW t \in Threads, th'[t] = th[t],
         th[t].pc = "old" => parent'[th[t].node] = parent[th[t].node]
  PROVE  Call(t)' = Call(t)
BY DEF Call

\* A call is a kind with, if there is one, a mutex.
LEMMA CallType ==
  ASSUME NEW t \in Threads, th \in [Threads -> Operations], Shape(t)
  PROVE  \/ Call(t) = <<"none", None>>
         \/ \E m \in Mutexes : Call(t) \in {<<"Lock", m>>, <<"RLock", m>>}
<1>1. th[t].pc \in Pcs /\ th[t] \in Operations
  BY DEF Operations
<1>2. ShapeOf(th[t]) /\ (th[t].pc = "old" => parent[th[t].node] \in Nodes)
  BY DEF Shape
<1>3. "fs" \in Mutexes /\ Nodes \subseteq Mutexes
  BY DEF Mutexes
<1>4. CASE th[t].pc \in {"fsR", "fsW"}
  BY <1>3, <1>4, Calls
<1>5. CASE th[t].pc \in {"get", "list0", "list1", "set"}
  BY <1>2, <1>3, <1>5, Calls DEF ShapeOf
<1>6. CASE th[t].pc \in {"walk", "child", "enter", "unlink", "to"}
  BY <1>2, <1>3, <1>6, Calls DEF ShapeOf
<1>7. CASE th[t].pc = "old"
  BY <1>2, <1>3, <1>7, Calls
<1>8. CASE th[t].pc \in {"idle", "next", "delete", "put"}
  BY <1>8, Calls
<1> QED BY <1>1, <1>4, <1>5, <1>6, <1>7, <1>8 DEF Pcs

-----------------------------------------------------------------------------
(* The mutexes.                                                                *)

\* What TypeOK says of the mutexes.
LockTypes ==
  /\ writer \in [Mutexes -> Threads \cup {None}]
  /\ readers \in [Mutexes -> [Threads -> 0..2]]
  /\ waiting \in [Mutexes -> SUBSET Threads]
  /\ lk \in [Threads -> {"no", "asked", "got"}]
  /\ \A m \in Mutexes : waiting[m] # {} => writer[m] # None

\* A step that leaves the tree and what the goroutines execute leaves their calls.
LEMMA CallsStay ==
  ASSUME UNCHANGED <<tree, th>>
  PROVE  \A t \in Threads : Call(t)' = Call(t)
BY CallStays DEF tree

\* Lock announces a writer of a mutex that has none.
LEMMA LockKeeps ==
  ASSUME LockTypes, LocksInv, NEW t \in Threads, Lock(t), NEW m \in Mutexes, Call(t) = <<"Lock", m>>
  PROVE  LockTypes' /\ LocksInv'
<1>1. \A u \in Threads : Call(u)' = Call(u) /\ th'[u] = th[u]
  BY CallsStay DEF Lock
<1>2. /\ lk[t] = "no" /\ writer[m] = None
      /\ writer' = [writer EXCEPT ![m] = t]
      /\ lk' = [lk EXCEPT ![t] = "asked"]
      /\ readers' = readers /\ waiting' = waiting
  BY DEF Lock, Mutex
<1>3. LockTypes'
  BY <1>2, LocksAssumption DEF LockTypes
<1>4. WritersKnown'
  <2> SUFFICES ASSUME NEW n \in Mutexes, NEW u \in Threads
               PROVE  writer'[n] = u <=> HasWrite(u, n)'
    BY DEF WritersKnown
  <2>1. writer[n] = u <=> HasWrite(u, n)
    BY DEF LocksInv, WritersKnown
  <2>2. CASE u = t
    BY <1>1, <1>2, <2>1, <2>2, LocksAssumption DEF HasWrite, LockTypes
  <2>3. CASE u # t
    BY <1>1, <1>2, <2>1, <2>3, LocksAssumption DEF HasWrite, LockTypes
  <2> QED BY <2>2, <2>3
<1>5. ReadersKnown'
  BY <1>1, <1>2 DEF ReadersKnown, Reads, LocksInv, LockTypes
<1>6. WaitingKnown'
  BY <1>1, <1>2 DEF WaitingKnown, LocksInv, LockTypes
<1>7. Exclusive'
  <2> SUFFICES ASSUME NEW n \in Mutexes, NEW u \in Threads, HasWrite(u, n)',
                      ~(lk'[u] = "asked" /\ Call(u)' = <<"Lock", n>>)
               PROVE  NoReaders(n)
    BY <1>2 DEF Exclusive, NoReaders
  <2>1. HasWrite(u, n) /\ ~(lk[u] = "asked" /\ Call(u) = <<"Lock", n>>)
    BY <1>1, <1>2 DEF HasWrite, LockTypes
  <2> QED BY <2>1 DEF LocksInv, Exclusive
<1> QED BY <1>3, <1>4, <1>5, <1>6, <1>7 DEF LocksInv

\* The readers have left.
LEMMA LockGotKeeps ==
  ASSUME LockTypes, LocksInv, NEW t \in Threads, LockGot(t), NEW m \in Mutexes, Call(t) = <<"Lock", m>>
  PROVE  LockTypes' /\ LocksInv'
<1>1. \A u \in Threads : Call(u)' = Call(u) /\ th'[u] = th[u]
  BY CallsStay DEF LockGot
<1>2. /\ lk[t] = "asked" /\ NoReaders(m)
      /\ lk' = [lk EXCEPT ![t] = "got"]
      /\ writer' = writer /\ readers' = readers /\ waiting' = waiting
  BY DEF LockGot, Mutex
<1>3. LockTypes'
  BY <1>2 DEF LockTypes
<1>4. WritersKnown'
  BY <1>1, <1>2 DEF WritersKnown, HasWrite, LocksInv, LockTypes
<1>5. ReadersKnown'
  BY <1>1, <1>2 DEF ReadersKnown, Reads, LocksInv, LockTypes
<1>6. WaitingKnown'
  BY <1>1, <1>2 DEF WaitingKnown, LocksInv, LockTypes
<1>7. Exclusive'
  <2> SUFFICES ASSUME NEW n \in Mutexes, NEW u \in Threads, HasWrite(u, n)',
                      ~(lk'[u] = "asked" /\ Call(u)' = <<"Lock", n>>)
               PROVE  NoReaders(n)
    BY <1>2 DEF Exclusive, NoReaders
  <2>1. CASE u = t /\ n = m
    BY <1>2, <2>1
  <2>2. CASE ~(u = t /\ n = m)
    <3>1. HasWrite(u, n) /\ ~(lk[u] = "asked" /\ Call(u) = <<"Lock", n>>)
      BY <1>1, <1>2, <2>2 DEF HasWrite, LockTypes
    <3> QED BY <3>1 DEF LocksInv, Exclusive
  <2> QED BY <2>1, <2>2
<1> QED BY <1>3, <1>4, <1>5, <1>6, <1>7 DEF LocksInv

\* A reader enters, or waits for the writer.
LEMMA RLockKeeps ==
  ASSUME LockTypes, LocksInv, NEW t \in Threads, RLock(t), NEW m \in Mutexes, Call(t) = <<"RLock", m>>
  PROVE  LockTypes' /\ LocksInv'
<1>1. \A u \in Threads : Call(u)' = Call(u) /\ th'[u] = th[u]
  BY CallsStay DEF RLock
<1>2. /\ lk[t] = "no" /\ writer' = writer /\ Mutex(t) = m
  BY DEF RLock, Mutex
<1>3. WritersKnown'
  <2>1. \A u \in Threads : Call(u) = <<"Lock", Call(u)[2]>> => lk'[u] = lk[u]
    BY <1>2 DEF RLock, LockTypes
  <2> QED BY <1>1, <1>2, <2>1 DEF WritersKnown, HasWrite, LocksInv
<1>4. CASE writer[m] = None
  <2>1. /\ readers' = [readers EXCEPT ![m][t] = @ + 1]
        /\ lk' = [lk EXCEPT ![t] = "got"] /\ waiting' = waiting
    BY <1>2, <1>4 DEF RLock
  <2>2. ReadersKnown'
    <3> SUFFICES ASSUME NEW n \in Mutexes, NEW u \in Threads
                 PROVE  readers'[n][u] = Reads(u, n)'
      BY DEF ReadersKnown
    <3>1. readers[n][u] = Reads(u, n)
      BY DEF LocksInv, ReadersKnown
    <3>2. CASE u = t /\ n = m
      BY <1>1, <1>2, <2>1, <3>1, <3>2 DEF Reads, LockTypes
    <3>3. CASE ~(u = t /\ n = m)
      <4>1. readers'[n][u] = readers[n][u]
        BY <2>1, <3>3 DEF LockTypes
      <4>2. Reads(u, n)' = Reads(u, n)
        BY <1>1, <1>2, <2>1, <3>3 DEF Reads, LockTypes
      <4> QED BY <3>1, <4>1, <4>2
    <3> QED BY <3>2, <3>3
  <2>3. \A n \in Mutexes, u \in Threads : Reads(u, n)' \in 0..2
    BY DEF Reads
  <2>4. LockTypes'
    <3>1. readers' \in [Mutexes -> [Threads -> 0..2]]
      <4>1. readers \in [Mutexes -> [Threads -> Nat]]
        BY DEF LockTypes
      <4>2. readers' \in [Mutexes -> [Threads -> Nat]]
        BY <2>1, <4>1
      <4> QED BY <2>2, <2>3, <4>2 DEF ReadersKnown
    <3> QED BY <1>2, <2>1, <3>1 DEF LockTypes
  <2>5. WaitingKnown'
    BY <1>1, <1>2, <2>1 DEF WaitingKnown, LocksInv, LockTypes
  <2>6. Exclusive'
    <3> SUFFICES ASSUME NEW n \in Mutexes, NEW u \in Threads, HasWrite(u, n)',
                        ~(lk'[u] = "asked" /\ Call(u)' = <<"Lock", n>>)
                 PROVE  NoReaders(n)'
      BY DEF Exclusive
    <3>1. HasWrite(u, n) /\ ~(lk[u] = "asked" /\ Call(u) = <<"Lock", n>>)
      BY <1>1, <1>2, <2>1 DEF HasWrite, LockTypes
    <3>2. NoReaders(n) /\ writer[n] = u
      BY <3>1 DEF LocksInv, Exclusive, WritersKnown
    <3>3. n # m
      BY <1>4, <3>2, LocksAssumption
    <3> QED BY <2>1, <3>2, <3>3 DEF NoReaders, LockTypes
  <2> QED BY <1>3, <2>2, <2>4, <2>5, <2>6 DEF LocksInv
<1>5. CASE writer[m] # None
  <2>1. /\ waiting' = [waiting EXCEPT ![m] = @ \cup {t}]
        /\ lk' = [lk EXCEPT ![t] = "asked"] /\ readers' = readers
    BY <1>2, <1>5 DEF RLock
  <2>2. LockTypes'
    BY <1>2, <1>5, <2>1 DEF LockTypes
  <2>3. ReadersKnown'
    BY <1>1, <1>2, <2>1 DEF ReadersKnown, Reads, LocksInv, LockTypes
  <2>4. WaitingKnown'
    BY <1>1, <1>2, <2>1 DEF WaitingKnown, LocksInv, LockTypes
  <2>5. Exclusive'
    BY <1>1, <1>2, <2>1 DEF Exclusive, NoReaders, HasWrite, LocksInv, LockTypes
  <2> QED BY <1>3, <2>2, <2>3, <2>4, <2>5 DEF LocksInv
<1> QED BY <1>4, <1>5

\* A goroutine gives back the read locks of R and the write locks of W, which are
\* among those it has, and keeps the others.
Leaves(t, R, W) ==
  /\ W \subseteq Mutexes /\ \A m \in W : HasWrite(t, m)
  /\ \A m \in Mutexes : KeptWrite(th'[t], m) <=> HasWrite(t, m) /\ m \notin W
  /\ \A m \in Mutexes :
       Reads(t, m) = (IF KeptRead(th'[t], m) THEN 1 ELSE 0) + (IF m \in R THEN 1 ELSE 0)

\* Giving back keeps the mutexes in order: a write lock that is returned lets the
\* waiting readers in, which then have what they waited for.
LEMMA ReleaseKeeps ==
  ASSUME LockTypes, LocksInv, NEW t \in Threads, NEW R, NEW W, Release(t, R, W), Leaves(t, R, W),
         lk[t] # "asked",
         \A u \in Threads \ {t} : th'[u] = th[u] /\ Call(u)' = Call(u)
  PROVE  LockTypes' /\ LocksInv'
<1>1. /\ W \subseteq Mutexes
      /\ \A m \in Mutexes : writer'[m] = (IF m \in W THEN None ELSE writer[m])
      /\ \A m \in Mutexes : waiting'[m] = (IF m \in W THEN {} ELSE waiting[m])
      /\ lk'[t] = "no"
      /\ \A u \in Threads \ {t} :
           lk'[u] = (IF \E m \in W : u \in waiting[m] THEN "got" ELSE lk[u])
      /\ \A m \in Mutexes, u \in Threads :
           readers'[m][u] = (IF m \in W /\ u \in waiting[m] THEN readers[m][u] + 1
                             ELSE IF m \in R /\ u = t THEN readers[m][u] - 1 ELSE readers[m][u])
  BY DEF Release, Leaves
<1>2. \A m \in Mutexes : t \notin waiting[m] /\ (m \in W => writer[m] = t)
  BY DEF LocksInv, WaitingKnown, WritersKnown, Leaves
<1>3. \A m \in Mutexes, u \in Threads :
        u \in waiting[m] => lk[u] = "asked" /\ Call(u) = <<"RLock", m>> /\ writer[m] # None
  BY DEF LocksInv, WaitingKnown, LockTypes
<1>4. \A m \in Mutexes : HasWrite(t, m)' <=> HasWrite(t, m) /\ m \notin W
  BY <1>1 DEF HasWrite, Leaves
<1>5. \A m \in Mutexes, u \in Threads \ {t} : HasWrite(u, m)' <=> HasWrite(u, m)
  <2> SUFFICES ASSUME NEW m \in Mutexes, NEW u \in Threads \ {t}
               PROVE  HasWrite(u, m)' <=> HasWrite(u, m)
    OBVIOUS
  <2>1. CASE \E n \in W : u \in waiting[n]
    <3>1. Call(u) # <<"Lock", m>>
      BY <1>1, <1>3, <2>1
    <3> QED BY <3>1 DEF HasWrite
  <2>2. CASE ~\E n \in W : u \in waiting[n]
    BY <1>1, <2>2 DEF HasWrite
  <2> QED BY <2>1, <2>2
<1>6. WritersKnown'
  <2> SUFFICES ASSUME NEW m \in Mutexes, NEW u \in Threads
               PROVE  writer'[m] = u <=> HasWrite(u, m)'
    BY DEF WritersKnown
  <2>1. writer[m] = u <=> HasWrite(u, m)
    BY DEF LocksInv, WritersKnown
  <2> QED BY <1>1, <1>2, <1>4, <1>5, <2>1, LocksAssumption
<1>7. WaitingKnown'
  <2> SUFFICES ASSUME NEW m \in Mutexes, NEW u \in Threads
               PROVE  u \in waiting'[m] <=> lk'[u] = "asked" /\ Call(u)' = <<"RLock", m>>
    BY DEF WaitingKnown
  <2>1. u \in waiting[m] <=> lk[u] = "asked" /\ Call(u) = <<"RLock", m>>
    BY DEF LocksInv, WaitingKnown
  <2>2. CASE u = t
    BY <1>1, <1>2, <2>2
  <2>3. CASE u # t /\ \E n \in W : u \in waiting[n]
    <3>1. PICK n \in W : u \in waiting[n]
      BY <2>3
    <3>2. Call(u) = <<"RLock", n>> /\ lk'[u] = "got"
      BY <1>1, <1>3, <2>3, <3>1
    <3>3. u \notin waiting'[m]
      BY <1>1, <2>1, <3>1, <3>2
    <3> QED BY <3>2, <3>3
  <2>4. CASE u # t /\ ~\E n \in W : u \in waiting[n]
    BY <1>1, <2>1, <2>4
  <2> QED BY <2>2, <2>3, <2>4
<1>8. ReadersKnown'
  <2> SUFFICES ASSUME NEW m \in Mutexes, NEW u \in Threads
               PROVE  readers'[m][u] = Reads(u, m)'
    BY DEF ReadersKnown
  <2>1. readers[m][u] = Reads(u, m)
    BY DEF LocksInv, ReadersKnown
  <2>2. CASE u = t
    <3>1. Reads(t, m)' = (IF KeptRead(th'[t], m) THEN 1 ELSE 0)
      BY <1>1 DEF Reads
    <3>2. Reads(t, m) = (IF KeptRead(th'[t], m) THEN 1 ELSE 0) + (IF m \in R THEN 1 ELSE 0)
      BY DEF Leaves
    <3>3. readers'[m][t] = (IF m \in R THEN Reads(t, m) - 1 ELSE Reads(t, m))
      BY <1>1, <1>2, <2>1, <2>2
    <3> QED BY <2>2, <3>1, <3>2, <3>3
  <2>3. CASE u # t /\ m \in W /\ u \in waiting[m]
    <3>1. Call(u) = <<"RLock", m>> /\ lk[u] = "asked" /\ lk'[u] = "got"
      BY <1>1, <1>3, <2>3
    <3>2. Reads(u, m)' = Reads(u, m) + 1
      BY <2>3, <3>1 DEF Reads
    <3> QED BY <1>1, <2>1, <2>3, <3>2
  <2>4. CASE u # t /\ ~(m \in W /\ u \in waiting[m])
    <3>1. lk'[u] = "got" /\ Call(u) = <<"RLock", m>> => lk[u] = "got"
      BY <1>1, <1>3, <2>4
    <3>2. lk[u] = "got" => lk'[u] = "got"
      BY <1>1, <1>3, <2>4
    <3>3. Reads(u, m)' = Reads(u, m)
      BY <2>4, <3>1, <3>2 DEF Reads
    <3> QED BY <1>1, <2>1, <2>4, <3>3
  <2> QED BY <2>2, <2>3, <2>4
<1>9. Exclusive'
  <2> SUFFICES ASSUME NEW m \in Mutexes, NEW u \in Threads, HasWrite(u, m)',
                      ~(lk'[u] = "asked" /\ Call(u)' = <<"Lock", m>>), NEW v \in Threads
               PROVE  readers'[m][v] = 0
    BY DEF Exclusive, NoReaders
  <2>1. HasWrite(u, m) /\ m \notin W
    BY <1>1, <1>2, <1>4, <1>5 DEF LocksInv, WritersKnown
  <2>2. ~(lk[u] = "asked" /\ Call(u) = <<"Lock", m>>)
    <3>1. CASE u = t
      BY <3>1
    <3>2. CASE u # t /\ \E n \in W : u \in waiting[n]
      BY <1>1, <1>3, <3>2
    <3>3. CASE u # t /\ ~\E n \in W : u \in waiting[n]
      BY <1>1, <3>3
    <3> QED BY <3>1, <3>2, <3>3
  <2>3. readers[m][v] = 0
    BY <2>1, <2>2 DEF LocksInv, Exclusive, NoReaders
  <2>4. readers'[m][v] = Reads(v, m)' /\ Reads(v, m)' >= 0
    BY <1>8 DEF ReadersKnown, Reads
  <2> QED BY <1>1, <2>1, <2>3, <2>4
<1>10. LockTypes'
  <2>1. writer' \in [Mutexes -> Threads \cup {None}]
    BY DEF Release, LockTypes
  <2>2. waiting' \in [Mutexes -> SUBSET Threads]
    BY DEF Release, LockTypes
  <2>3. lk' \in [Threads -> {"no", "asked", "got"}]
    BY DEF Release, LockTypes
  <2>4. \A m \in Mutexes, u \in Threads : readers'[m][u] \in 0..2
    BY <1>8 DEF ReadersKnown, Reads
  <2>5. readers' \in [Mutexes -> [Threads -> 0..2]]
    BY <2>4 DEF Release
  <2>6. \A m \in Mutexes : waiting'[m] # {} => writer'[m] # None
    BY <1>1 DEF LockTypes
  <2> QED BY <2>1, <2>2, <2>3, <2>5, <2>6 DEF LockTypes
<1> QED BY <1>6, <1>7, <1>8, <1>9, <1>10 DEF LocksInv

\* Keeping every lock is giving none back.
LEMMA KeepReleases ==
  ASSUME LockTypes, NEW t \in Threads,
         Keep(t) \/ (lk[t] = "no" /\ UNCHANGED locks)
  PROVE  Release(t, {}, {})
<1>1. /\ writer' = writer /\ readers' = readers /\ waiting' = waiting
      /\ lk' = [lk EXCEPT ![t] = "no"]
  BY DEF Keep, locks, LockTypes
<1>2. writer = [m \in Mutexes |-> writer[m]] /\ waiting = [m \in Mutexes |-> waiting[m]]
  BY DEF LockTypes
<1>3. readers = [m \in Mutexes |-> [u \in Threads |-> readers[m][u]]]
  BY DEF LockTypes
<1>4. lk' = [u \in Threads |-> IF u = t THEN "no" ELSE lk[u]]
  BY <1>1 DEF LockTypes
<1> QED BY <1>1, <1>2, <1>3, <1>4 DEF Release
-----------------------------------------------------------------------------
(* The steps.                                                                  *)

\* What TypeOK says of the tree.
TreeTypes ==
  /\ children \in [Nodes -> [Names -> Nodes \cup {None}]]
  /\ parent \in [Nodes -> Nodes \cup {None}]
  /\ name \in [Nodes -> Names \cup {None}]
  /\ fresh \subseteq Spare

\* TypeOK is what its parts say, since locks are held as they should be.
LEMMA TypesNext ==
  ASSUME TreeTypes', LockTypes', LocksInv', th' \in [Threads -> Operations],
         ops' \in OpSets, fatal' \in {"no", "panic", "unlock"}, \A t \in Threads : Shape(t)'
  PROVE  TypeOK'
<1>1. ASSUME NEW t \in Threads, Call(t)'[1] = "Lock", lk'[t] = "got"
      PROVE  NoReaders(Mutex(t))'
  <2>1. PICK m \in Mutexes : Call(t)' = <<"Lock", m>>
    <3>1. th'[t].pc \in Pcs /\ th'[t] \in Operations
      BY DEF Operations
    <3>2. ShapeOf(th'[t]) /\ (th'[t].pc = "old" => parent'[th'[t].node] \in Nodes)
      BY DEF Shape
    <3>3. "fs" \in Mutexes /\ Nodes \subseteq Mutexes
      BY DEF Mutexes
    <3>4. CASE th'[t].pc \in {"fsW", "set", "enter", "unlink", "to", "old"}
      BY <3>2, <3>3, <3>4, CallsNext DEF ShapeOf
    <3>5. CASE th'[t].pc \in {"fsR", "get", "list0", "list1", "walk", "child"}
      BY <1>1, <3>5, CallsNext
    <3>6. CASE th'[t].pc \in {"idle", "next", "delete", "put"}
      BY <1>1, <3>6, CallsNext
    <3> QED BY <3>1, <3>4, <3>5, <3>6 DEF Pcs
  <2>2. HasWrite(t, m)' /\ ~(lk'[t] = "asked")
    BY <1>1, <2>1 DEF HasWrite
  <2>3. NoReaders(m)'
    BY <2>2 DEF LocksInv, Exclusive
  <2> QED BY <2>1, <2>3 DEF Mutex, NoReaders
<1>2. \A t \in Threads : th'[t].pc \in Pcs
  BY DEF Operations
<1>3. ops' \subseteq AllOps
  BY LocksAssumption
<1> QED BY <1>1, <1>2, <1>3 DEF TypeOK, TreeTypes, LockTypes

\* The invariant in the parts that steps deal with.
LEMMA Parts ==
  ASSUME IInv
  PROVE  /\ TreeTypes /\ LockTypes /\ LocksInv /\ ops \in OpSets /\ ops \subseteq AllOps
         /\ th \in [Threads -> Operations] /\ fatal \in {"no", "panic"}
         /\ \A t \in Threads : Shape(t) /\ ShapeOf(th[t]) /\ th[t] \in Operations
BY LocksAssumption DEF IInv, TypeOK, TreeTypes, LockTypes, UnlocksHeld, Shape

\* A goroutine in whose hands fs.mu is alone may move nodes, those that Unlink has
\* read excepted.
Moved(t) ==
  /\ fresh' \subseteq fresh
  /\ \A n \in Nodes : parent'[n] # parent[n] =>
       KeptWrite(th[t], "fs") /\ (n \in fresh \/ "unlink" \notin ops)

\* The goroutine t is at its next locking call, as s.
Arrives(t, s) ==
  /\ s \in Operations /\ ShapeOf(s)
  /\ s.pc # "idle" => s.op \in ops
  /\ s.pc = "old" => parent'[s.node] \in Nodes \ {s.cur}
  /\ s.pc \in {"unlink", "delete"} => s.node \notin fresh' /\ s.cur = parent'[s.node]

\* A step of t that gives locks back and goes on keeps the invariant.
LEMMA StepKeeps ==
  ASSUME IInv, NEW t \in Threads, NEW R, NEW W, NEW s,
         Release(t, R, W), Leaves(t, R, W), lk[t] # "asked",
         th' = [th EXCEPT ![t] = s], Arrives(t, s), Moved(t), TreeTypes',
         fatal' \in {"no", "panic"}, ops' = ops
  PROVE  IInv'
<1>0. /\ TreeTypes /\ LockTypes /\ LocksInv /\ ops \in OpSets
      /\ th \in [Threads -> Operations]
      /\ \A u \in Threads : Shape(u) /\ ShapeOf(th[u]) /\ th[u] \in Operations
  BY Parts
<1>1. /\ th' \in [Threads -> Operations] /\ th'[t] = s
      /\ \A u \in Threads \ {t} : th'[u] = th[u]
  BY <1>0 DEF Arrives
<1>2. ASSUME NEW u \in Threads \ {t}
      PROVE  Call(u)' = Call(u) /\ (th[u].pc = "old" => parent'[th[u].node] = parent[th[u].node])
  <2>1. CASE th[u].pc = "old"
    <3>1. KeptWrite(th[u], "fs") /\ th[u].node \in Nodes
      BY <1>0, <2>1 DEF ShapeOf, KeptWrite
    <3>2. writer["fs"] = u
      BY <1>0, <3>1 DEF LocksInv, WritersKnown, HasWrite, Mutexes
    <3>3. ~KeptWrite(th[t], "fs")
      BY <1>0, <3>2 DEF LocksInv, WritersKnown, HasWrite, Mutexes
    <3>4. parent'[th[u].node] = parent[th[u].node]
      BY <3>1, <3>3 DEF Moved
    <3> QED BY <1>1, <3>4, CallStays
  <2>2. CASE th[u].pc # "old"
    BY <1>1, <2>2, CallStays
  <2> QED BY <2>1, <2>2
<1>3. LockTypes' /\ LocksInv'
  BY <1>0, <1>1, <1>2, ReleaseKeeps
<1>4. ASSUME NEW u \in Threads PROVE Shape(u)'
  <2>1. CASE u = t
    <3>1. lk'[t] = "no"
      BY DEF Release
    <3> QED BY <1>1, <2>1, <3>1 DEF Shape, Arrives
  <2>2. CASE u # t
    <3>1. Shape(u) /\ th'[u] = th[u] /\ ops' = ops
      BY <1>0, <1>1, <2>2
    <3>2. Call(u)'[1] = "none" => lk'[u] = "no"
      <4>1. ASSUME Call(u)[1] = "none" PROVE lk'[u] = "no"
        <5>1. lk[u] = "no"
          BY <3>1, <4>1 DEF Shape
        <5>2. \A m \in Mutexes : u \notin waiting[m]
          BY <1>0, <5>1 DEF LocksInv, WaitingKnown
        <5>3. W \subseteq Mutexes
          BY DEF Leaves
        <5> QED BY <2>2, <5>1, <5>2, <5>3 DEF Release
      <4> QED BY <1>2, <2>2, <4>1
    <3>3. th[u].pc = "old" => parent'[th[u].node] \in Nodes \ {th[u].cur}
      BY <1>2, <2>2, <3>1 DEF Shape
    <3>4. ASSUME th[u].pc \in {"unlink", "delete"}
          PROVE  th[u].node \notin fresh' /\ th[u].cur = parent'[th[u].node]
      <4>1. th[u].op = "unlink" /\ th[u].node \in Nodes
        BY <1>0, <3>4 DEF ShapeOf
      <4> QED BY <3>1, <3>4, <4>1 DEF Shape, Moved
    <3> QED BY <3>1, <3>2, <3>3, <3>4 DEF Shape
  <2> QED BY <2>1, <2>2
<1>5. TypeOK'
  BY <1>0, <1>1, <1>3, <1>4, TypesNext
<1> QED BY <1>0, <1>1, <1>3, <1>4, <1>5 DEF IInv, UnlocksHeld
\* A step that leaves the tree moves nothing.
LEMMA TreeStays ==
  ASSUME IInv, NEW t \in Threads, UNCHANGED tree
  PROVE  Moved(t) /\ TreeTypes' /\ parent' = parent /\ fresh' = fresh
BY Parts DEF Moved, TreeTypes, tree

\* A call may always return.
LEMMA IdleArrives ==
  ASSUME NEW t \in Threads
  PROVE  Arrives(t, Idle)
<1>1. << >> \in Seq(Names)
  OBVIOUS
<1>2. Idle \in Operations
  BY <1>1 DEF Idle, Operations, Pcs
<1>3. ShapeOf(Idle)
  BY DEF Idle, ShapeOf
<1> QED BY <1>2, <1>3 DEF Arrives, Idle

\* A goroutine between calls has no lock.
LEMMA IdleHasNone ==
  ASSUME IInv, NEW t \in Threads, th[t].pc = "idle"
  PROVE  /\ lk[t] = "no"
         /\ \A m \in Mutexes : ~HasWrite(t, m) /\ Reads(t, m) = 0
<1>1. Call(t) = <<"none", None>>
  BY Calls
<1>2. lk[t] = "no"
  BY <1>1, Parts DEF Shape
<1> QED BY <1>2 DEF HasWrite, Reads, KeptWrite, KeptRead
\* A call begins.
LEMMA BeginKeeps ==
  ASSUME IInv, NEW t \in Threads, Begin(t), ops' = ops
  PROVE  IInv'
<1>1. /\ th[t].pc = "idle" /\ UNCHANGED tree /\ UNCHANGED locks /\ fatal' = fatal
      /\ lk[t] = "no"
  BY IdleHasNone DEF Begin
<1>2. Moved(t) /\ TreeTypes' /\ parent' = parent /\ fresh' = fresh
  BY <1>1, TreeStays
<1>3. Release(t, {}, {})
  BY <1>1, Parts, KeepReleases
<1>4. ASSUME NEW s, th' = [th EXCEPT ![t] = s], Arrives(t, s),
             s.pc \in {"list0", "get", "set", "unlink", "fsR", "fsW"}
      PROVE  IInv'
  <2>1. th'[t] = s
    BY <1>4, Parts
  <2>2. \A m \in Mutexes : ~KeptWrite(s, m) /\ ~KeptRead(s, m)
    BY <1>4 DEF KeptWrite, KeptRead
  <2>3. Leaves(t, {}, {})
    BY <1>1, <2>1, <2>2, IdleHasNone DEF Leaves
  <2> QED BY <1>1, <1>2, <1>3, <1>4, <2>3, Parts, StepKeeps
<1>e. << >> \in Seq(Names)
  OBVIOUS
<1>5. ASSUME NEW n \in Nodes, BeginNode(t, n) PROVE IInv'
  <2>1. PICK op \in ops \cap {"get", "set", "readdir"} :
          th' = [th EXCEPT ![t] = [Idle EXCEPT !.pc = IF op = "readdir" THEN "list0" ELSE op,
                                               !.op = op, !.node = n]]
    BY <1>5 DEF BeginNode
  <2> DEFINE s == [Idle EXCEPT !.pc = IF op = "readdir" THEN "list0" ELSE op,
                               !.op = op, !.node = n]
  <2>2. s.pc \in {"list0", "get", "set"} /\ s.op = op /\ s.node = n /\ s \in Operations
        /\ (s.pc = "list0" => op = "readdir") /\ op # "rename"
    BY <1>e, Parts DEF Idle, Operations, Pcs
  <2> HIDE DEF s
  <2>3. Arrives(t, s)
    BY <2>2 DEF Arrives, ShapeOf
  <2>4. th' = [th EXCEPT ![t] = s]
    BY <2>1 DEF s
  <2> QED BY <1>4, <2>2, <2>3, <2>4
<1>6. ASSUME NEW n \in Nodes, BeginUnlink(t, n) PROVE IInv'
  <2> DEFINE s == [Idle EXCEPT !.pc = "unlink", !.op = "unlink", !.node = n, !.cur = parent[n]]
  <2>1. th' = [th EXCEPT ![t] = s] /\ "unlink" \in ops /\ n \notin fresh /\ parent[n] \in Nodes
    BY <1>6, Parts DEF BeginUnlink, TreeTypes
  <2>2. s.pc = "unlink" /\ s.op = "unlink" /\ s.node = n /\ s.cur = parent[n] /\ s \in Operations
    BY <1>e, <2>1 DEF Idle, Operations, Pcs, AllOps
  <2> HIDE DEF s
  <2>3. Arrives(t, s)
    BY <1>2, <2>1, <2>2 DEF Arrives, ShapeOf
  <2> QED BY <1>4, <2>1, <2>2, <2>3
<1>7. ASSUME NEW n \in Nodes, BeginRename(t, n) PROVE IInv'
  <2> DEFINE s == [Idle EXCEPT !.pc = "fsW", !.op = "rename", !.node = n]
  <2>1. th' = [th EXCEPT ![t] = s] /\ "rename" \in ops
    BY <1>7 DEF BeginRename
  <2>2. s.pc = "fsW" /\ s.op = "rename" /\ s.node = n /\ s \in Operations
    BY <1>e DEF Idle, Operations, Pcs, AllOps
  <2> HIDE DEF s
  <2>3. Arrives(t, s)
    BY <2>1, <2>2 DEF Arrives, ShapeOf
  <2> QED BY <1>4, <2>1, <2>2, <2>3
<1>8. ASSUME BeginPath(t) PROVE IInv'
  <2>1. PICK op \in ops \cap {"find", "addfile", "mkdir"} :
          th' = [th EXCEPT ![t] = [Idle EXCEPT !.pc = IF op = "find" THEN "fsR" ELSE "fsW",
                                               !.op = op]]
    BY <1>8 DEF BeginPath
  <2> DEFINE s == [Idle EXCEPT !.pc = IF op = "find" THEN "fsR" ELSE "fsW", !.op = op]
  <2>2. s.pc = (IF op = "find" THEN "fsR" ELSE "fsW") /\ s.op = op /\ s \in Operations
    BY <1>e, Parts DEF Idle, Operations, Pcs
  <2> HIDE DEF s
  <2>3. Arrives(t, s)
    BY <2>2 DEF Arrives, ShapeOf
  <2>4. th' = [th EXCEPT ![t] = s]
    BY <2>1 DEF s
  <2> QED BY <1>4, <2>2, <2>3, <2>4
<1> QED BY <1>5, <1>6, <1>7, <1>8 DEF Begin
\* Operations that leave the tree: they come to s with the locks they keep.
LEMMA QuietStep ==
  ASSUME IInv, NEW t \in Threads, NEW R, NEW W, NEW s,
         Release(t, R, W), Leaves(t, R, W), lk[t] # "asked",
         th' = [th EXCEPT ![t] = s], s \in Operations, ShapeOf(s), s.pc # "idle" => s.op \in ops,
         s.pc = "old" => parent[s.node] \in Nodes \ {s.cur},
         s.pc \in {"unlink", "delete"} => s.node \notin fresh /\ s.cur = parent[s.node],
         UNCHANGED <<tree, fatal>>, ops' = ops
  PROVE  IInv'
<1>1. Moved(t) /\ TreeTypes' /\ parent' = parent /\ fresh' = fresh
  BY TreeStays
<1>2. Arrives(t, s)
  BY <1>1 DEF Arrives
<1>3. fatal' \in {"no", "panic"}
  BY Parts
<1> QED BY <1>1, <1>2, <1>3, StepKeeps

\* An operation returns, with no lock left.
LEMMA ReturnKeeps ==
  ASSUME IInv, NEW t \in Threads, NEW R, NEW W, Release(t, R, W), lk[t] # "asked", Return(t),
         W \subseteq Mutexes,
         \A m \in Mutexes : HasWrite(t, m) <=> m \in W,
         \A m \in Mutexes : Reads(t, m) = (IF m \in R THEN 1 ELSE 0),
         Moved(t), TreeTypes', fatal' \in {"no", "panic"}, ops' = ops
  PROVE  IInv'
<1>1. th' = [th EXCEPT ![t] = Idle] /\ th'[t] = Idle
  BY Parts DEF Return
<1>2. \A m \in Mutexes : ~KeptWrite(Idle, m) /\ ~KeptRead(Idle, m)
  BY DEF KeptWrite, KeptRead, Idle
<1>3. Leaves(t, R, W)
  BY <1>1, <1>2 DEF Leaves
<1> QED BY <1>1, <1>3, IdleArrives, StepKeeps

\* It returns with the tree as it was.
LEMMA QuietReturn ==
  ASSUME IInv, NEW t \in Threads, NEW R, NEW W, Release(t, R, W), lk[t] # "asked", Return(t),
         W \subseteq Mutexes,
         \A m \in Mutexes : HasWrite(t, m) <=> m \in W,
         \A m \in Mutexes : Reads(t, m) = (IF m \in R THEN 1 ELSE 0),
         UNCHANGED <<tree, fatal>>, ops' = ops
  PROVE  IInv'
<1>1. Moved(t) /\ TreeTypes'
  BY TreeStays
<1>2. fatal' \in {"no", "panic"}
  BY Parts
<1> QED BY <1>1, <1>2, ReturnKeeps

\* Operations on one node.
LEMMA NodeKeeps ==
  ASSUME IInv, NEW t \in Threads, Get(t) \/ Set(t), ops' = ops
  PROVE  IInv'
<1>0. ShapeOf(th[t]) /\ th[t] \in Operations /\ Nodes \subseteq Mutexes /\ "fs" \notin Nodes
  BY Parts, LocksAssumption DEF Mutexes
<1>1. CASE Get(t)
  <2>1. th[t].pc = "get" /\ lk[t] = "got" /\ Call(t) = <<"RLock", th[t].node>> /\ th[t].node \in Nodes
    BY <1>0, <1>1, Calls DEF Get, At, ShapeOf
  <2>2. \A m \in Mutexes : ~HasWrite(t, m) /\ Reads(t, m) = (IF m \in {th[t].node} THEN 1 ELSE 0)
    BY <2>1 DEF HasWrite, Reads, KeptWrite, KeptRead
  <2>3. Release(t, {th[t].node}, {}) /\ Return(t) /\ UNCHANGED <<tree, fatal>>
    BY <1>1 DEF Get
  <2> QED BY <2>1, <2>2, <2>3, QuietReturn
<1>2. CASE Set(t)
  <2>1. th[t].pc = "set" /\ lk[t] = "got" /\ Call(t) = <<"Lock", th[t].node>> /\ th[t].node \in Nodes
    BY <1>0, <1>2, Calls DEF Set, At, ShapeOf
  <2>2. \A m \in Mutexes : (HasWrite(t, m) <=> m \in {th[t].node}) /\ Reads(t, m) = 0
    BY <2>1 DEF HasWrite, Reads, KeptWrite, KeptRead
  <2>3. Release(t, {}, {th[t].node}) /\ Return(t) /\ UNCHANGED <<tree, fatal>>
    BY <1>2 DEF Set
  <2> QED BY <1>0, <2>1, <2>2, <2>3, QuietReturn
<1> QED BY <1>1, <1>2

\* ReadDir keeps the directory's read lock from its list to its end.
LEMMA ReadDirKeeps ==
  ASSUME IInv, NEW t \in Threads, ops' = ops,
         ReadDirSelf(t) \/ ReadDirList(t) \/ ReadDirNext(t) \/ ReadDirChild(t)
  PROVE  IInv'
<1>0. /\ Shape(t) /\ ShapeOf(th[t]) /\ th[t] \in Operations /\ Nodes \subseteq Mutexes /\ "fs" \notin Nodes
      /\ LockTypes /\ TreeTypes /\ th \in [Threads -> Operations]
  BY Parts, LocksAssumption DEF Mutexes
<1>1. CASE ReadDirSelf(t)
  <2> DEFINE s == [th[t] EXCEPT !.pc = "list1"]
  <2>1. th[t].pc = "list0" /\ lk[t] = "got" /\ Call(t) = <<"RLock", th[t].node>>
        /\ th[t].node \in Nodes /\ th[t].op = "readdir" /\ "readdir" \in ops
    BY <1>0, <1>1, Calls DEF ReadDirSelf, At, ShapeOf, Shape
  <2>2. th' = [th EXCEPT ![t] = s]
    BY <1>0, <1>1 DEF ReadDirSelf, Goto
  <2>3. s \in Operations /\ s.pc = "list1" /\ s.op = "readdir" /\ s.node = th[t].node
    BY <1>0, <2>1 DEF Operations, Pcs
  <2> HIDE DEF s
  <2>4. th'[t] = s
    BY <1>0, <2>2
  <2>5. Leaves(t, {th[t].node}, {})
    BY <2>1, <2>3, <2>4 DEF Leaves, HasWrite, Reads, KeptWrite, KeptRead
  <2>6. ShapeOf(s)
    BY <2>1, <2>3 DEF ShapeOf
  <2> QED BY <1>1, <2>1, <2>2, <2>3, <2>5, <2>6, QuietStep DEF ReadDirSelf
<1>2. CASE ReadDirList(t)
  <2> DEFINE l == {children[th[t].node][m] : m \in Names} \ {None}
             s == [th[t] EXCEPT !.pc = "next", !.todo = l]
  <2>1. th[t].pc = "list1" /\ lk[t] = "got" /\ Call(t) = <<"RLock", th[t].node>>
        /\ th[t].node \in Nodes /\ th[t].op = "readdir" /\ "readdir" \in ops
    BY <1>0, <1>2, Calls DEF ReadDirList, At, ShapeOf, Shape
  <2>2. th' = [th EXCEPT ![t] = s]
    BY <1>0, <1>2 DEF ReadDirList
  <2>l. l \subseteq Nodes
    BY <1>0, <2>1 DEF TreeTypes
  <2>3. s \in Operations /\ s.pc = "next" /\ s.op = "readdir" /\ s.node = th[t].node
    <3> HIDE DEF l
    <3> QED BY <1>0, <2>1, <2>l DEF Operations, Pcs
  <2> HIDE DEF s
  <2>4. th'[t] = s
    BY <1>0, <2>2
  <2>5. Leaves(t, {}, {})
    BY <2>1, <2>3, <2>4 DEF Leaves, HasWrite, Reads, KeptWrite, KeptRead
  <2>6. ShapeOf(s)
    BY <2>1, <2>3 DEF ShapeOf
  <2>7. Release(t, {}, {})
    BY <1>0, <1>2, KeepReleases DEF ReadDirList
  <2> QED BY <1>2, <2>1, <2>2, <2>3, <2>5, <2>6, <2>7, QuietStep DEF ReadDirList
<1>3. CASE ReadDirNext(t)
  <2>1. th[t].pc = "next" /\ lk[t] = "no" /\ Call(t) = <<"none", None>>
        /\ th[t].node \in Nodes /\ th[t].op = "readdir" /\ "readdir" \in ops
    <3>1. th[t].pc = "next"
      BY <1>3, Zenon DEF ReadDirNext
    <3> QED BY <1>0, <3>1, Calls DEF ShapeOf, Shape
  <2>2. \A m \in Mutexes : ~HasWrite(t, m) /\ Reads(t, m) = (IF m \in {th[t].node} THEN 1 ELSE 0)
    BY <2>1 DEF HasWrite, Reads, KeptWrite, KeptRead
  <2>3. CASE Release(t, {th[t].node}, {}) /\ Return(t)
    <3>1. UNCHANGED <<tree, fatal>>
      BY <1>3, Zenon DEF ReadDirNext
    <3> QED BY <2>1, <2>2, <2>3, <3>1, QuietReturn
  <2>4. ASSUME NEW c \in th[t].todo, UNCHANGED locks,
               th' = [th EXCEPT ![t].pc = "child", ![t].cur = c, ![t].todo = @ \ {c}]
        PROVE  IInv'
    <3> DEFINE s == [th[t] EXCEPT !.pc = "child", !.cur = c, !.todo = @ \ {c}]
    <3>1. th' = [th EXCEPT ![t] = s]
      BY <1>0, <2>4
    <3>2. s \in Operations /\ s.pc = "child" /\ s.op = "readdir" /\ s.node = th[t].node
          /\ s.cur = c /\ c \in Nodes
      BY <1>0, <2>1 DEF Operations, Pcs
    <3> HIDE DEF s
    <3>3. th'[t] = s
      BY <1>0, <3>1
    <3>4. Leaves(t, {}, {})
      BY <2>1, <2>2, <3>2, <3>3 DEF Leaves, KeptWrite, KeptRead
    <3>5. ShapeOf(s)
      BY <2>1, <3>2 DEF ShapeOf
    <3>6. Release(t, {}, {})
      BY <1>0, <2>1, <2>4, KeepReleases
    <3> QED BY <1>3, <2>1, <3>1, <3>2, <3>4, <3>5, <3>6, QuietStep DEF ReadDirNext
  <2> QED BY <1>3, <2>3, <2>4 DEF ReadDirNext
<1>4. CASE ReadDirChild(t)
  <2> DEFINE s == [th[t] EXCEPT !.pc = "next"]
  <2>1. th[t].pc = "child" /\ lk[t] = "got" /\ Call(t) = <<"RLock", th[t].cur>>
        /\ th[t].node \in Nodes /\ th[t].cur \in Nodes /\ th[t].op = "readdir" /\ "readdir" \in ops
    BY <1>0, <1>4, Calls DEF ReadDirChild, At, ShapeOf, Shape
  <2>2. th' = [th EXCEPT ![t] = s]
    BY <1>0, <1>4 DEF ReadDirChild, Goto
  <2>3. s \in Operations /\ s.pc = "next" /\ s.op = "readdir" /\ s.node = th[t].node
    BY <1>0, <2>1 DEF Operations, Pcs
  <2> HIDE DEF s
  <2>4. th'[t] = s
    BY <1>0, <2>2
  <2>5. Leaves(t, {th[t].cur}, {})
    BY <2>1, <2>3, <2>4 DEF Leaves, HasWrite, Reads, KeptWrite, KeptRead
  <2>6. ShapeOf(s)
    BY <2>1, <2>3 DEF ShapeOf
  <2> QED BY <1>4, <2>1, <2>2, <2>3, <2>5, <2>6, QuietStep DEF ReadDirChild
<1> QED BY <1>1, <1>2, <1>3, <1>4
\* Unlink finds its node's parent as it has read it, and so unlocks what it has
\* locked.
LEMMA UnlinkKeeps ==
  ASSUME IInv, NEW t \in Threads, ops' = ops, UnlinkDefer(t) \/ UnlinkDelete(t)
  PROVE  IInv'
<1>0. /\ Shape(t) /\ ShapeOf(th[t]) /\ th[t] \in Operations /\ Nodes \subseteq Mutexes /\ "fs" \notin Nodes
      /\ LockTypes /\ TreeTypes /\ th \in [Threads -> Operations] /\ fatal \in {"no", "panic"}
  BY Parts, LocksAssumption DEF Mutexes
<1>1. CASE UnlinkDefer(t)
  <2> DEFINE s == [th[t] EXCEPT !.pc = "delete", !.cur = parent[th[t].node]]
  <2>1. /\ th[t].pc = "unlink" /\ lk[t] = "got" /\ Call(t) = <<"Lock", th[t].cur>>
        /\ th[t].node \in Nodes \ fresh /\ th[t].op = "unlink" /\ "unlink" \in ops
        /\ th[t].cur \in Nodes /\ th[t].cur = parent[th[t].node]
    BY <1>0, <1>1, Calls DEF UnlinkDefer, At, ShapeOf, Shape
  <2>2. th' = [th EXCEPT ![t] = s]
    BY <1>0, <1>1 DEF UnlinkDefer
  <2>3. /\ s \in Operations /\ s.pc = "delete" /\ s.op = "unlink" /\ s.node = th[t].node
        /\ s.cur = th[t].cur
    BY <1>0, <2>1 DEF Operations, Pcs
  <2> HIDE DEF s
  <2>4. th'[t] = s
    BY <1>0, <2>2
  <2>5. Leaves(t, {}, {})
    BY <2>1, <2>3, <2>4 DEF Leaves, HasWrite, Reads, KeptWrite, KeptRead
  <2>6. ShapeOf(s)
    BY <2>1, <2>3 DEF ShapeOf
  <2>7. Release(t, {}, {}) /\ UNCHANGED <<tree, fatal>>
    BY <1>0, <1>1, KeepReleases DEF UnlinkDefer
  <2> QED BY <2>1, <2>2, <2>3, <2>5, <2>6, <2>7, QuietStep
<1>2. CASE UnlinkDelete(t)
  <2>1. /\ th[t].pc = "delete" /\ lk[t] = "no" /\ Call(t) = <<"none", None>>
        /\ th[t].node \in Nodes /\ th[t].cur \in Nodes /\ th[t].cur = parent[th[t].node]
    BY <1>0, <1>2, Calls DEF UnlinkDelete, ShapeOf, Shape
  <2>2. \A m \in Mutexes : (HasWrite(t, m) <=> m \in {th[t].cur}) /\ Reads(t, m) = 0
    BY <2>1 DEF HasWrite, Reads, KeptWrite, KeptRead
  <2>3. writer[th[t].cur] = t
    BY <1>0, <2>1, <2>2, Parts DEF LocksInv, WritersKnown
  <2>4. /\ children' = [children EXCEPT ![parent[th[t].node]][name[th[t].node]] = None]
        /\ fatal' = fatal /\ Release(t, {}, {th[t].cur}) /\ Return(t)
        /\ parent' = parent /\ name' = name /\ fresh' = fresh
    BY <1>2, <2>3 DEF UnlinkDelete
  <2>5. TreeTypes'
    <3>1. children' \in [Nodes -> [Names -> Nodes \cup {None}]]
      BY <1>0, <2>4 DEF TreeTypes
    <3> QED BY <1>0, <2>4, <3>1 DEF TreeTypes
  <2>6. Moved(t)
    BY <2>4 DEF Moved
  <2> QED BY <1>0, <2>1, <2>2, <2>4, <2>5, <2>6, ReturnKeeps
<1> QED BY <1>1, <1>2

-----------------------------------------------------------------------------
(* Operations on a path.                                                       *)

\* Paths are sequences of names, of bounded length.
LEMMA PathFacts ==
  ASSUME NEW p \in Paths
  PROVE  p \in Seq(Names) /\ Len(p) <= MaxDepth
<1>1. PICK n \in 0..MaxDepth : p \in [1..n -> Names]
  BY DEF Paths
<1>2. n \in Nat
  BY <1>1
<1>3. p \in Seq(Names)
  BY <1>1, <1>2
<1>4. Len(p) = n
  BY <1>1, <1>2, <1>3
<1> QED BY <1>1, <1>3, <1>4, LocksAssumption

\* What follows the first name of a path.
LEMMA TailFacts ==
  ASSUME NEW p \in Seq(Names), p # << >>
  PROVE  /\ Head(p) \in Names /\ Tail(p) \in Seq(Names)
         /\ Len(Tail(p)) = Len(p) - 1 /\ Len(p) \in Nat /\ Len(p) >= 1
         /\ (Tail(p) = << >> <=> Len(p) = 1) /\ Tail(p) # p
<1>1. Len(p) \in Nat /\ Len(p) >= 1
  OBVIOUS
<1>2. Head(p) \in Names
  BY <1>1
<1>3. Tail(p) \in Seq(Names) /\ Len(Tail(p)) = Len(p) - 1
  BY <1>1
<1>4. Tail(p) = << >> <=> Len(Tail(p)) = 0
  BY <1>3, EmptySeq
<1>5. ASSUME NEW k \in Nat PROVE k # k - 1
  OBVIOUS
<1>6. Len(Tail(p)) # Len(p)
  BY <1>1, <1>3, <1>5
<1>7. Tail(p) = << >> <=> Len(p) = 1
  BY <1>1, <1>3, <1>4
<1>8. Tail(p) # p
  BY <1>6
<1> QED BY <1>1, <1>2, <1>3, <1>7, <1>8

\* fs.mu is locked, and the path looked at.
LEMMA FsGotKeeps ==
  ASSUME IInv, NEW t \in Threads, NEW p \in Paths, FsGot(t, p), ops' = ops
  PROVE  IInv'
<1>0. /\ Shape(t) /\ ShapeOf(th[t]) /\ th[t] \in Operations /\ Nodes \subseteq Mutexes /\ "fs" \notin Nodes
      /\ LockTypes /\ TreeTypes /\ th \in [Threads -> Operations]
      /\ Root \in Nodes /\ "fs" \in Mutexes /\ p \in Seq(Names)
  BY Parts, PathFacts, LocksAssumption DEF Mutexes
<1>1. /\ th[t].pc \in {"fsR", "fsW"} /\ lk[t] = "got"
      /\ UNCHANGED <<tree, fatal>>
  BY DEF FsGot, At
<1>2. /\ th[t].op \in {"find", "addfile", "mkdir", "rename"} /\ th[t].op \in ops
      /\ th[t].pc = "fsR" <=> th[t].op = "find"
      /\ th[t].pc = "fsR" => Call(t) = <<"RLock", "fs">>
      /\ th[t].pc = "fsW" => Call(t) = <<"Lock", "fs">>
      /\ th[t].op = "rename" => th[t].node \in Nodes
  BY <1>0, <1>1, Calls DEF ShapeOf, Shape
<1>3. /\ \A m \in Mutexes : HasWrite(t, m) <=> m = "fs" /\ th[t].op # "find"
      /\ \A m \in Mutexes : Reads(t, m) = (IF m = "fs" /\ th[t].op = "find" THEN 1 ELSE 0)
  BY <1>1, <1>2 DEF HasWrite, Reads, KeptWrite, KeptRead
<1>4. CASE th[t].op = "find" /\ Release(t, {"fs"}, {}) /\ Return(t)
  BY <1>0, <1>1, <1>3, <1>4, QuietReturn
<1>5. ASSUME p # << >>, Keep(t),
             th' = [th EXCEPT ![t].cur = Root, ![t].path = p,
                    ![t].pc = IF th[t].op = "addfile" THEN "enter"
                              ELSE IF Arrived(t, p) THEN "to" ELSE "walk"]
      PROVE  IInv'
  <2> DEFINE pc == IF th[t].op = "addfile" THEN "enter" ELSE IF Arrived(t, p) THEN "to" ELSE "walk"
             s == [th[t] EXCEPT !.cur = Root, !.path = p, !.pc = pc]
  <2>1. /\ pc \in {"enter", "to", "walk"}
        /\ pc = "enter" <=> th[t].op = "addfile"
        /\ pc = "to" => th[t].op \in {"mkdir", "rename"}
        /\ pc = "walk" => th[t].op \in {"find", "mkdir", "rename"} /\ (th[t].op # "find" => Len(p) >= 2)
    BY <1>0, <1>2, <1>5, TailFacts DEF Arrived
  <2>2. th' = [th EXCEPT ![t] = s]
    BY <1>0, <1>5
  <2> HIDE DEF pc
  <2>3. /\ s \in Operations /\ s.pc = pc /\ s.op = th[t].op /\ s.node = th[t].node
        /\ s.cur = Root /\ s.path = p
    BY <1>0, <2>1 DEF Operations, Pcs
  <2> HIDE DEF s
  <2>4. th'[t] = s
    BY <1>0, <2>2
  <2>5. Leaves(t, {}, {})
    BY <1>0, <1>2, <1>3, <2>1, <2>3, <2>4 DEF Leaves, KeptWrite, KeptRead
  <2>6. ShapeOf(s)
    BY <1>0, <1>2, <1>5, <2>1, <2>3 DEF ShapeOf
  <2>7. Release(t, {}, {})
    BY <1>0, <1>5, KeepReleases
  <2> QED BY <1>1, <1>2, <2>1, <2>2, <2>3, <2>5, <2>6, <2>7, QuietStep
<1> QED BY <1>4, <1>5 DEF FsGot
\* One component of a path is resolved.
LEMMA WalkKeeps ==
  ASSUME IInv, NEW t \in Threads, Walk(t), ops' = ops
  PROVE  IInv'
<1> DEFINE c == children[th[t].cur][Head(th[t].path)]
           rest == Tail(th[t].path)
<1>0. /\ Shape(t) /\ ShapeOf(th[t]) /\ th[t] \in Operations /\ Nodes \subseteq Mutexes /\ "fs" \notin Nodes
      /\ LockTypes /\ TreeTypes /\ th \in [Threads -> Operations] /\ "fs" \in Mutexes
  BY Parts, LocksAssumption DEF Mutexes
<1>1. /\ th[t].pc = "walk" /\ lk[t] = "got" /\ Call(t) = <<"RLock", th[t].cur>>
      /\ th[t].cur \in Nodes /\ th[t].op \in {"find", "mkdir", "rename"} /\ th[t].op \in ops
      /\ th[t].path \in Seq(Names) /\ th[t].path # << >>
      /\ th[t].op # "find" => Len(th[t].path) >= 2
      /\ th[t].op = "rename" => th[t].node \in Nodes
      /\ UNCHANGED <<tree, fatal>>
  BY <1>0, Calls DEF Walk, At, ShapeOf, Shape, Operations
<1>2. /\ \A m \in Mutexes : HasWrite(t, m) <=> m \in FsW(t)
      /\ \A m \in Mutexes : Reads(t, m) = (IF m \in {th[t].cur} \cup FsR(t) THEN 1 ELSE 0)
      /\ FsW(t) \subseteq {"fs"}
  BY <1>0, <1>1 DEF HasWrite, Reads, KeptWrite, KeptRead, FsW, FsR
<1>3. Head(th[t].path) \in Names /\ rest \in Seq(Names) /\ Len(rest) = Len(th[t].path) - 1
      /\ Len(th[t].path) \in Nat
  BY <1>1, TailFacts
<1>4. c \in Nodes \cup {None}
  BY <1>0, <1>1, <1>3 DEF TreeTypes
<1>5. CASE Release(t, {th[t].cur} \cup FsR(t), FsW(t)) /\ Return(t)
  BY <1>0, <1>1, <1>2, <1>5, QuietReturn
<1>6. CASE th[t].op = "find" /\ Release(t, {th[t].cur} \cup FsR(t), {}) /\ Return(t)
  <2>1. FsW(t) = {}
    BY <1>6 DEF FsW, FsR
  <2> QED BY <1>0, <1>1, <1>2, <1>6, <2>1, QuietReturn
<1>7. CASE /\ th[t].op = "find" /\ Release(t, {th[t].cur} \cup FsR(t), {}) /\ c \in Nodes
           /\ th' = [th EXCEPT ![t] = [Idle EXCEPT !.pc = "get", !.op = "find", !.node = c]]
  <2> DEFINE s == [Idle EXCEPT !.pc = "get", !.op = "find", !.node = c]
  <2>1. FsW(t) = {}
    BY <1>7 DEF FsW, FsR
  <2>2. << >> \in Seq(Names)
    OBVIOUS
  <2>3. s \in Operations /\ s.pc = "get" /\ s.op = "find" /\ s.node = c
    <3> HIDE DEF c
    <3> QED BY <1>7, <2>2 DEF Operations, Pcs, AllOps, Idle
  <2>4. th' = [th EXCEPT ![t] = s]
    BY <1>7
  <2> HIDE DEF s, c
  <2>5. th'[t] = s
    BY <1>0, <2>4
  <2>6. Leaves(t, {th[t].cur} \cup FsR(t), {})
    BY <1>2, <2>1, <2>3, <2>5 DEF Leaves, KeptWrite, KeptRead
  <2>7. ShapeOf(s)
    BY <1>7, <2>3 DEF ShapeOf
  <2> QED BY <1>1, <1>7, <2>3, <2>4, <2>6, <2>7, QuietStep
<1>8. CASE /\ c \in Nodes /\ ~(th[t].op = "find" /\ Arrived(t, rest))
           /\ Release(t, {th[t].cur}, {})
           /\ th' = [th EXCEPT ![t].cur = c, ![t].path = rest,
                     ![t].pc = IF Arrived(t, rest) THEN "to" ELSE "walk"]
  <2> DEFINE pc == IF Arrived(t, rest) THEN "to" ELSE "walk"
             s == [th[t] EXCEPT !.cur = c, !.path = rest, !.pc = pc]
  <2>1. /\ pc \in {"to", "walk"} /\ rest # << >>
        /\ pc = "to" => th[t].op \in {"mkdir", "rename"}
        /\ pc = "walk" => (th[t].op # "find" => Len(rest) >= 2)
    <3>1. CASE th[t].op = "find"
      BY <1>8, <3>1 DEF Arrived
    <3>2. CASE th[t].op # "find"
      <4> HIDE DEF rest
      <4>1. Len(th[t].path) >= 2 /\ th[t].op \in {"mkdir", "rename"}
        BY <1>1, <3>2
      <4>2. Len(rest) \in Nat /\ Len(rest) >= 1
        BY <1>3, <4>1
      <4>3. rest # << >>
        BY <4>2, EmptySeq
      <4>4. pc = (IF Len(rest) = 1 THEN "to" ELSE "walk")
        BY <3>2 DEF Arrived
      <4>5. Len(rest) = 1 \/ Len(rest) >= 2
        <5>1. PICK n \in Nat : n = Len(rest) /\ n >= 1
          BY <4>2
        <5>2. n = 1 \/ n >= 2
          BY <5>1
        <5> QED BY <5>1, <5>2
      <4> HIDE DEF pc
      <4> QED BY <4>1, <4>3, <4>4, <4>5
    <3> QED BY <3>1, <3>2
  <2>2. th' = [th EXCEPT ![t] = s]
    BY <1>0, <1>8
  <2> HIDE DEF pc, c, rest
  <2>3. /\ s \in Operations /\ s.pc = pc /\ s.op = th[t].op /\ s.node = th[t].node
        /\ s.cur = c /\ s.path = rest
    BY <1>0, <1>3, <1>8, <2>1 DEF Operations, Pcs
  <2> HIDE DEF s
  <2>4. th'[t] = s
    BY <1>0, <2>2
  <2>5. Leaves(t, {th[t].cur}, {})
    <3>1. \A m \in Mutexes : KeptWrite(s, m) <=> m \in FsW(t)
      BY <1>1, <2>1, <2>3 DEF KeptWrite, FsW, FsR
    <3>2. \A m \in Mutexes : KeptRead(s, m) <=> m \in FsR(t)
      BY <1>1, <2>1, <2>3 DEF KeptRead, FsR
    <3>3. th[t].cur \notin FsR(t)
      BY <1>0, <1>1 DEF FsR
    <3> QED BY <1>2, <2>4, <3>1, <3>2, <3>3 DEF Leaves
  <2>6. ShapeOf(s)
    BY <1>1, <1>8, <2>1, <2>3 DEF ShapeOf
  <2> QED BY <1>1, <1>8, <2>1, <2>2, <2>3, <2>5, <2>6, QuietStep
<1> QED BY <1>4, <1>5, <1>6, <1>7, <1>8 DEF Walk
\* A new node is entered in a directory.
LEMMA MakeFacts ==
  ASSUME IInv, NEW t \in Threads, KeptWrite(th[t], "fs"),
         NEW n \in fresh, NEW d \in Nodes, NEW m \in Names, Make(n, d, m)
  PROVE  TreeTypes' /\ Moved(t) /\ n \in Nodes
<1>1. TreeTypes /\ n \in Nodes
  BY Parts, LocksAssumption DEF TreeTypes
<1>2. children' \in [Nodes -> [Names -> Nodes \cup {None}]]
  BY <1>1 DEF Make, TreeTypes
<1>3. parent' \in [Nodes -> Nodes \cup {None}] /\ name' \in [Nodes -> Names \cup {None}]
  BY <1>1 DEF Make, TreeTypes
<1>4. TreeTypes'
  BY <1>1, <1>2, <1>3 DEF Make, TreeTypes
<1>5. Moved(t)
  BY <1>1 DEF Make, Moved, TreeTypes
<1> QED BY <1>1, <1>4, <1>5

\* AddFile enters or makes a directory, or ends.
LEMMA EnterKeeps ==
  ASSUME IInv, NEW t \in Threads, Enter(t), ops' = ops
  PROVE  IInv'
<1> DEFINE d == th[t].cur
           m == Head(th[t].path)
           c == children[d][m]
           Step(n) == /\ Release(t, {}, {d})
                      /\ th' = [th EXCEPT ![t].cur = n, ![t].path = Tail(@)]
           End == Release(t, {}, {d, "fs"}) /\ Return(t)
<1>0. /\ Shape(t) /\ ShapeOf(th[t]) /\ th[t] \in Operations /\ Nodes \subseteq Mutexes /\ "fs" \notin Nodes
      /\ LockTypes /\ TreeTypes /\ th \in [Threads -> Operations] /\ "fs" \in Mutexes
      /\ fresh \subseteq Nodes /\ fatal \in {"no", "panic"}
  BY Parts, LocksAssumption DEF Mutexes, TreeTypes
<1>1. /\ th[t].pc = "enter" /\ lk[t] = "got" /\ Call(t) = <<"Lock", d>>
      /\ d \in Nodes /\ th[t].op = "addfile" /\ th[t].op \in ops
      /\ th[t].path \in Seq(Names) /\ th[t].path # << >>
      /\ fatal' = fatal
  BY <1>0, Calls DEF Enter, At, ShapeOf, Shape, Operations
<1>2. /\ \A k \in Mutexes : (HasWrite(t, k) <=> k \in {d, "fs"}) /\ Reads(t, k) = 0
      /\ KeptWrite(th[t], "fs")
  BY <1>0, <1>1 DEF HasWrite, Reads, KeptWrite, KeptRead
<1>3. m \in Names /\ Tail(th[t].path) \in Seq(Names)
      /\ (Tail(th[t].path) = << >> <=> Len(th[t].path) = 1)
  BY <1>1, TailFacts
<1>4. ASSUME End, Moved(t), TreeTypes' PROVE IInv'
  <2> {d, "fs"} \subseteq Mutexes
    BY <1>0, <1>1
  <2> QED BY <1>0, <1>1, <1>2, <1>4, ReturnKeeps
<1>5. ASSUME NEW n \in Nodes, Step(n), Moved(t), TreeTypes', Len(th[t].path) # 1 PROVE IInv'
  <2> DEFINE s == [th[t] EXCEPT !.cur = n, !.path = Tail(@)]
  <2>1. th' = [th EXCEPT ![t] = s]
    BY <1>0, <1>5
  <2>2. /\ s \in Operations /\ s.pc = "enter" /\ s.op = "addfile" /\ s.node = th[t].node
        /\ s.cur = n /\ s.path = Tail(th[t].path)
    BY <1>0, <1>1, <1>3 DEF Operations
  <2> HIDE DEF s
  <2>3. th'[t] = s
    BY <1>0, <2>1
  <2>4. Leaves(t, {}, {d})
    <3> HIDE DEF d
    <3>1. \A k \in Mutexes : (KeptWrite(s, k) <=> k = "fs") /\ ~KeptRead(s, k)
      BY <2>2 DEF KeptWrite, KeptRead
    <3> QED BY <1>0, <1>1, <1>2, <2>3, <3>1 DEF Leaves
  <2>5. Arrives(t, s)
    BY <1>1, <1>3, <1>5, <2>2 DEF Arrives, ShapeOf
  <2> QED BY <1>0, <1>1, <1>5, <2>1, <2>4, <2>5, StepKeeps
<1>6. ASSUME UNCHANGED tree PROVE Moved(t) /\ TreeTypes'
  BY <1>6, TreeStays
<1>7. ASSUME NEW n \in fresh, Make(n, d, m) PROVE Moved(t) /\ TreeTypes' /\ n \in Nodes
  <2> HIDE DEF d, m
  <2> QED BY <1>1, <1>2, <1>3, <1>7, MakeFacts
<1>8. /\ IF Len(th[t].path) = 1
         THEN /\ End
              /\ \/ \E n \in fresh \cap Files : Make(n, d, m)
                 \/ UNCHANGED tree
         ELSE \/ \E n \in Nodes : Step(n) /\ UNCHANGED tree
              \/ End /\ UNCHANGED tree
              \/ \E n \in fresh \ Files : Step(n) /\ Make(n, d, m)
  BY DEF Enter
<1> HIDE DEF End, Step, d, m, c
<1> QED BY <1>4, <1>5, <1>6, <1>7, <1>8

\* Mkdir returns.
LEMMA MkdirKeeps ==
  ASSUME IInv, NEW t \in Threads, Mkdir(t), ops' = ops
  PROVE  IInv'
<1> DEFINE d == th[t].cur
           m == Head(th[t].path)
<1>0. /\ Shape(t) /\ ShapeOf(th[t]) /\ th[t] \in Operations /\ Nodes \subseteq Mutexes /\ "fs" \notin Nodes
      /\ "fs" \in Mutexes /\ fatal \in {"no", "panic"}
  BY Parts, LocksAssumption DEF Mutexes
<1>1. /\ th[t].pc = "to" /\ lk[t] = "got" /\ Call(t) = <<"Lock", d>>
      /\ d \in Nodes /\ th[t].op = "mkdir"
      /\ th[t].path \in Seq(Names) /\ th[t].path # << >>
      /\ Release(t, {}, {d, "fs"}) /\ Return(t)
  BY <1>0, Calls DEF Mkdir, At, ShapeOf, Shape, Operations
<1>2. /\ \A k \in Mutexes : (HasWrite(t, k) <=> k \in {d, "fs"}) /\ Reads(t, k) = 0
      /\ KeptWrite(th[t], "fs")
  BY <1>0, <1>1 DEF HasWrite, Reads, KeptWrite, KeptRead
<1>3. m \in Names
  BY <1>1, TailFacts
<1>4. fatal' \in {"no", "panic"}
  BY <1>0 DEF Mkdir
<1>5. Moved(t) /\ TreeTypes'
  <2>1. UNCHANGED tree \/ \E n \in fresh : Make(n, d, m)
    BY DEF Mkdir
  <2> HIDE DEF d, m
  <2> QED BY <1>1, <1>2, <1>3, <2>1, TreeStays, MakeFacts
<1>6. {d, "fs"} \subseteq Mutexes
  BY <1>0, <1>1
<1> QED BY <1>1, <1>2, <1>4, <1>5, <1>6, ReturnKeeps
\* Rename returns, its node in the directory it has locked.
LEMMA PutKeeps ==
  ASSUME IInv, RenameApart, NEW t \in Threads, Put(t), ops' = ops,
         th[t].pc \in {"to", "put"}, th[t].op = "rename", lk[t] # "asked",
         th[t].pc = "to" => lk[t] = "got",
         children' \in [Nodes -> [Names -> Nodes \cup {None}]]
  PROVE  IInv'
<1>0. /\ Shape(t) /\ ShapeOf(th[t]) /\ th[t] \in Operations /\ Nodes \subseteq Mutexes /\ "fs" \notin Nodes
      /\ "fs" \in Mutexes /\ fatal \in {"no", "panic"} /\ TreeTypes /\ ops \in OpSets
  BY Parts, LocksAssumption DEF Mutexes
<1>1. /\ th[t].pc = "to" => Call(t) = <<"Lock", th[t].cur>>
      /\ th[t].pc = "put" => Call(t) = <<"none", None>>
      /\ th[t].cur \in Nodes /\ th[t].node \in Nodes /\ "rename" \in ops
      /\ th[t].path \in Seq(Names) /\ th[t].path # << >>
  BY <1>0, Calls DEF ShapeOf, Shape, Operations
<1>2. /\ \A k \in Mutexes : (HasWrite(t, k) <=> k \in {th[t].cur, "fs"}) /\ Reads(t, k) = 0
      /\ KeptWrite(th[t], "fs")
  BY <1>0, <1>1 DEF HasWrite, Reads, KeptWrite, KeptRead
<1>3. Head(th[t].path) \in Names
  BY <1>1, TailFacts
<1>4. /\ name' = [name EXCEPT ![th[t].node] = Head(th[t].path)]
      /\ parent' = [parent EXCEPT ![th[t].node] = th[t].cur]
      /\ fatal' \in {"no", "panic"} /\ fresh' = fresh
      /\ Release(t, {}, {th[t].cur, "fs"}) /\ Return(t)
  BY <1>0 DEF Put
<1>5. TreeTypes'
  BY <1>0, <1>1, <1>3, <1>4 DEF TreeTypes
<1>6. "unlink" \notin ops
  BY <1>0, <1>1 DEF RenameApart
<1>7. Moved(t)
  BY <1>2, <1>4, <1>6 DEF Moved
<1>8. {th[t].cur, "fs"} \subseteq Mutexes
  BY <1>0, <1>1
<1> QED BY <1>2, <1>4, <1>5, <1>7, <1>8, ReturnKeeps

\* Rename, at the directory it moves its node to, at the one it moves it from, and
\* with both locked in turn.
LEMMA RenameKeeps ==
  ASSUME IInv, RenameApart, NEW t \in Threads, ops' = ops,
         (\E replace \in BOOLEAN : RenameTo(t, replace)) \/ RenameOld(t) \/ RenamePut(t)
  PROVE  IInv'
<1>0. /\ Shape(t) /\ ShapeOf(th[t]) /\ th[t] \in Operations /\ Nodes \subseteq Mutexes /\ "fs" \notin Nodes
      /\ LockTypes /\ TreeTypes /\ th \in [Threads -> Operations]
      /\ "fs" \in Mutexes /\ fatal \in {"no", "panic"}
  BY Parts, LocksAssumption DEF Mutexes
<1>1. ASSUME NEW replace \in BOOLEAN, RenameTo(t, replace) PROVE IInv'
  <2> DEFINE d == th[t].cur
             n == th[t].node
             m == Head(th[t].path)
  <2>1. /\ th[t].pc = "to" /\ lk[t] = "got" /\ Call(t) = <<"Lock", d>>
        /\ d \in Nodes /\ n \in Nodes /\ th[t].op = "rename" /\ "rename" \in ops
        /\ th[t].path \in Seq(Names) /\ th[t].path # << >>
    BY <1>0, <1>1, Calls DEF RenameTo, At, ShapeOf, Shape, Operations
  <2>2. /\ \A k \in Mutexes : (HasWrite(t, k) <=> k \in {d, "fs"}) /\ Reads(t, k) = 0
        /\ {d, "fs"} \subseteq Mutexes
    BY <1>0, <2>1 DEF HasWrite, Reads, KeptWrite, KeptRead
  <2>3. CASE Release(t, {}, {d, "fs"}) /\ Return(t) /\ UNCHANGED <<tree, fatal>>
    BY <2>1, <2>2, <2>3, QuietReturn
  <2>4. CASE /\ Put(t)
             /\ children' = IF parent[n] = None THEN [children EXCEPT ![d][m] = n]
                            ELSE [children EXCEPT ![d] = [[@ EXCEPT ![name[n]] = None] EXCEPT ![m] = n]]
    <3>1. children' \in [Nodes -> [Names -> Nodes \cup {None}]]
      <4>1. CASE parent[n] = None
        BY <1>0, <2>1, <2>4, <4>1 DEF TreeTypes
      <4>2. CASE parent[n] # None
        <5> DEFINE g == [[children[d] EXCEPT ![name[n]] = None] EXCEPT ![m] = n]
        <5>1. g \in [Names -> Nodes \cup {None}]
          BY <1>0, <2>1 DEF TreeTypes
        <5>2. children' = [children EXCEPT ![d] = g]
          BY <1>0, <2>1, <2>4, <4>2 DEF TreeTypes
        <5> HIDE DEF g
        <5> QED BY <1>0, <5>1, <5>2 DEF TreeTypes
      <4> QED BY <4>1, <4>2
    <3> QED BY <2>1, <2>4, <3>1, PutKeeps
  <2>5. CASE parent[n] \notin {None, d} /\ Keep(t) /\ Goto(t, "old") /\ UNCHANGED <<tree, fatal>>
    <3> DEFINE s == [th[t] EXCEPT !.pc = "old"]
    <3>1. th' = [th EXCEPT ![t] = s]
      BY <1>0, <2>5 DEF Goto
    <3>2. /\ s \in Operations /\ s.pc = "old" /\ s.op = "rename" /\ s.node = n /\ s.cur = d
          /\ s.path = th[t].path
      BY <1>0, <2>1 DEF Operations, Pcs
    <3> HIDE DEF s
    <3>3. th'[t] = s
      BY <1>0, <3>1
    <3>4. Leaves(t, {}, {})
      <4>1. \A k \in Mutexes : (KeptWrite(s, k) <=> k \in {d, "fs"}) /\ ~KeptRead(s, k)
        BY <3>2 DEF KeptWrite, KeptRead
      <4> QED BY <2>2, <3>3, <4>1 DEF Leaves
    <3>5. ShapeOf(s)
      BY <2>1, <3>2 DEF ShapeOf
    <3>6. Release(t, {}, {})
      BY <1>0, <2>5, KeepReleases
    <3>7. parent[s.node] \in Nodes \ {s.cur}
      BY <1>0, <2>1, <2>5, <3>2 DEF TreeTypes
    <3> QED BY <2>1, <2>5, <3>1, <3>2, <3>4, <3>5, <3>6, <3>7, QuietStep
  <2> QED BY <1>1, <2>3, <2>4, <2>5 DEF RenameTo
<1>2. CASE RenameOld(t)
  <2> DEFINE d == parent[th[t].node]
             s == [th[t] EXCEPT !.pc = "put"]
  <2>1. /\ th[t].pc = "old" /\ lk[t] = "got" /\ Call(t) = <<"Lock", d>>
        /\ d \in Nodes \ {th[t].cur} /\ th[t].cur \in Nodes /\ th[t].node \in Nodes
        /\ th[t].op = "rename" /\ "rename" \in ops /\ th[t].path # << >>
    BY <1>0, <1>2, Calls DEF RenameOld, At, ShapeOf, Shape
  <2>2. /\ \A k \in Mutexes : (HasWrite(t, k) <=> k \in {d, th[t].cur, "fs"}) /\ Reads(t, k) = 0
    BY <1>0, <2>1 DEF HasWrite, Reads, KeptWrite, KeptRead
  <2>3. /\ children' = [children EXCEPT ![d][name[th[t].node]] = None]
        /\ Release(t, {}, {d}) /\ th' = [th EXCEPT ![t] = s]
        /\ parent' = parent /\ name' = name /\ fresh' = fresh /\ fatal' = fatal
    BY <1>0, <1>2 DEF RenameOld, Goto
  <2>4. /\ s \in Operations /\ s.pc = "put" /\ s.op = "rename" /\ s.node = th[t].node
        /\ s.cur = th[t].cur /\ s.path = th[t].path
    BY <1>0, <2>1 DEF Operations, Pcs
  <2> HIDE DEF s
  <2>5. th'[t] = s
    BY <1>0, <2>3
  <2>6. TreeTypes'
    <3>1. children' \in [Nodes -> [Names -> Nodes \cup {None}]]
      BY <1>0, <2>3 DEF TreeTypes
    <3> QED BY <1>0, <2>3, <3>1 DEF TreeTypes
  <2>7. Moved(t)
    BY <2>3 DEF Moved
  <2>8. Leaves(t, {}, {d})
    <3> HIDE DEF d
    <3>1. \A k \in Mutexes : (KeptWrite(s, k) <=> k \in {th[t].cur, "fs"}) /\ ~KeptRead(s, k)
      BY <2>4 DEF KeptWrite, KeptRead
    <3> QED BY <1>0, <2>1, <2>2, <2>5, <3>1 DEF Leaves
  <2>9. Arrives(t, s)
    BY <2>1, <2>4 DEF Arrives, ShapeOf
  <2> QED BY <1>0, <2>1, <2>3, <2>6, <2>7, <2>8, <2>9, StepKeeps
<1>3. CASE RenamePut(t)
  <2>1. /\ th[t].pc = "put" /\ lk[t] = "no" /\ th[t].op = "rename"
        /\ th[t].cur \in Nodes /\ th[t].node \in Nodes /\ Put(t)
    BY <1>0, <1>3, Calls DEF RenamePut, ShapeOf, Shape
  <2>2. children' \in [Nodes -> [Names -> Nodes \cup {None}]]
    BY <1>0, <1>3, <2>1 DEF RenamePut, TreeTypes
  <2> QED BY <2>1, <2>2, PutKeeps
<1> QED BY <1>1, <1>2, <1>3

-----------------------------------------------------------------------------
(* All steps.                                                                  *)

\* The steps of sync.RWMutex.
LEMMA LockStepKeeps ==
  ASSUME IInv, NEW t \in Threads, Lock(t) \/ LockGot(t) \/ RLock(t), ops' = ops
  PROVE  IInv'
<1>0. /\ TreeTypes /\ LockTypes /\ LocksInv /\ ops \in OpSets /\ fatal \in {"no", "panic"}
      /\ th \in [Threads -> Operations] /\ \A u \in Threads : Shape(u)
  BY Parts
<1>1. th' = th /\ fatal' = fatal /\ UNCHANGED tree
  BY DEF Lock, LockGot, RLock
<1>2. PICK m \in Mutexes : Call(t) \in {<<"Lock", m>>, <<"RLock", m>>}
  BY <1>0, CallType DEF Lock, LockGot, RLock
<1>3. LockTypes' /\ LocksInv'
  <2>1. CASE Lock(t)
    <3>1. Call(t) = <<"Lock", m>>
      BY <1>2, <2>1 DEF Lock
    <3> QED BY <1>0, <2>1, <3>1, LockKeeps
  <2>2. CASE LockGot(t)
    <3>1. Call(t) = <<"Lock", m>>
      BY <1>2, <2>2 DEF LockGot
    <3> QED BY <1>0, <2>2, <3>1, LockGotKeeps
  <2>3. CASE RLock(t)
    <3>1. Call(t) = <<"RLock", m>>
      BY <1>2, <2>3 DEF RLock
    <3> QED BY <1>0, <2>3, <3>1, RLockKeeps
  <2> QED BY <2>1, <2>2, <2>3
<1>4. ASSUME NEW u \in Threads PROVE Shape(u)'
  <2>1. Call(u)' = Call(u)
    BY <1>1, CallsStay
  <2>2. Call(u)[1] = "none" => lk'[u] = lk[u]
    <3>1. CASE u = t
      BY <1>2, <3>1
    <3>2. CASE u # t
      BY <1>0, <3>2 DEF Lock, LockGot, RLock, LockTypes
    <3> QED BY <3>1, <3>2
  <2> QED BY <1>0, <1>1, <2>1, <2>2 DEF Shape, tree
<1>5. TreeTypes'
  BY <1>0, <1>1 DEF TreeTypes, tree
<1>6. TypeOK'
  BY <1>0, <1>1, <1>3, <1>4, <1>5, TypesNext
<1> QED BY <1>0, <1>1, <1>3, <1>4, <1>6 DEF IInv, UnlocksHeld

\* Every step of a goroutine.
LEMMA ContinueKeeps ==
  ASSUME IInv, RenameApart, NEW t \in Threads, Begin(t) \/ Continue(t), ops' = ops
  PROVE  IInv'
BY BeginKeeps, LockStepKeeps, NodeKeeps, ReadDirKeeps, UnlinkKeeps, FsGotKeeps, WalkKeeps,
   EnterKeeps, MkdirKeeps, RenameKeeps, Zenon DEF Continue

\* Every step.
LEMMA NextKeeps ==
  ASSUME IInv, RenameApart, [Next]_vars
  PROVE  IInv'
<1>1. CASE Next
  BY <1>1, ContinueKeeps DEF Next
<1>2. CASE UNCHANGED vars
  <2>1. /\ ops' = ops /\ children' = children /\ parent' = parent /\ name' = name
        /\ fresh' = fresh /\ writer' = writer /\ readers' = readers /\ waiting' = waiting
        /\ lk' = lk /\ th' = th /\ fatal' = fatal
    BY <1>2 DEF vars, tree, locks
  <2>2. \A u \in Threads : Call(u)' = Call(u)
    BY <2>1 DEF Call
  <2>3. TypeOK'
    BY <2>1, <2>2 DEF IInv, TypeOK, NoReaders, Mutex
  <2>4. \A u \in Threads : Shape(u)'
    BY <2>1, <2>2 DEF IInv, Shape
  <2>5. WritersKnown' /\ Exclusive'
    BY <2>1, <2>2 DEF IInv, LocksInv, WritersKnown, Exclusive, HasWrite, NoReaders
  <2>6. ReadersKnown' /\ WaitingKnown'
    BY <2>1, <2>2 DEF IInv, LocksInv, ReadersKnown, WaitingKnown, Reads
  <2> QED BY <2>1, <2>3, <2>4, <2>5, <2>6 DEF IInv, LocksInv, UnlocksHeld
<1> QED BY <1>1, <1>2

\* At the beginning all goroutines are idle and no mutex is held.
LEMMA InitInv == Init => IInv
<1> SUFFICES ASSUME Init PROVE IInv
  OBVIOUS
<1>1. Idle \in Operations /\ ShapeOf(Idle) /\ Idle.pc = "idle"
  <2>1. << >> \in Seq(Names)
    OBVIOUS
  <2> QED BY <2>1 DEF Idle, Operations, Pcs, ShapeOf
<1>2. /\ \A t \in Threads : th[t] = Idle /\ lk[t] = "no"
      /\ th \in [Threads -> Operations]
  BY <1>1 DEF Init
<1>3. \A t \in Threads : Call(t) = <<"none", None>>
  BY <1>1, <1>2, Calls
<1>4. \A t \in Threads : Shape(t)
  BY <1>1, <1>2, <1>3 DEF Shape
<1>5. LocksInv
  <2>1. \A t \in Threads, m \in Mutexes : ~HasWrite(t, m) /\ Reads(t, m) = 0
    BY <1>1, <1>2, <1>3 DEF HasWrite, Reads, KeptWrite, KeptRead
  <2>2. WritersKnown /\ ReadersKnown /\ WaitingKnown
    BY <1>2, <2>1, LocksAssumption DEF Init, WritersKnown, ReadersKnown, WaitingKnown
  <2> QED BY <2>1, <2>2 DEF LocksInv, Exclusive
<1>6. TreeTypes
  <2>1. parent \in [Nodes -> Nodes \cup {None}]
    BY DEF Init
  <2>2. name \in [Nodes -> Names \cup {None}]
    BY DEF Init
  <2> QED BY <2>1, <2>2, LocksAssumption DEF Init, TreeTypes
<1>7. TypeOK
  BY <1>1, <1>2, <1>3, <1>6, LocksAssumption DEF Init, TypeOK, TreeTypes, Operations
<1> QED BY <1>2, <1>4, <1>5, <1>7 DEF IInv, UnlocksHeld, Init

\* The invariant holds throughout.
LEMMA Invariance ==
  ASSUME RenameApart
  PROVE  Spec => []IInv
<1>1. IInv /\ [Next]_vars => IInv'
  BY NextKeeps
<1> QED BY <1>1, InitInv, PTL DEF Spec

\* Unless Rename and Unlink are called together, variables keep their types and who
\* has a write lock has it alone.
THEOREM TypeCorrect ==
  ASSUME RenameApart
  PROVE  Spec => []TypeOK
<1>1. IInv => TypeOK
  BY DEF IInv
<1> QED BY <1>1, Invariance, PTL

-----------------------------------------------------------------------------
(* Entries change under the directory's write lock.                            *)

\* Who has a write lock and does not wait for it is the writer, without readers.
LEMMA WritesAlone ==
  ASSUME IInv, NEW t \in Threads, NEW d \in Nodes, HasWrite(t, d), lk[t] # "asked"
  PROVE  NoReaders(d) /\ writer[d] = t
BY Parts DEF LocksInv, Exclusive, WritersKnown, Mutexes

\* A step that changes the entries of a directory is one of the goroutine that
\* has it to itself.
LEMMA StepGuards ==
  ASSUME IInv, NEW t \in Threads, Begin(t) \/ Continue(t),
         NEW d \in Nodes, children'[d] # children[d]
  PROVE  NoReaders(d) /\ writer[d] = t /\ th'[t] # th[t]
<1>0. /\ Shape(t) /\ ShapeOf(th[t]) /\ th[t] \in Operations /\ Idle.pc = "idle"
      /\ TreeTypes /\ th \in [Threads -> Operations]
  BY Parts DEF Idle
<1>1. ASSUME HasWrite(t, d), lk[t] # "asked", th'[t] # th[t]
      PROVE  NoReaders(d) /\ writer[d] = t /\ th'[t] # th[t]
  BY <1>1, WritesAlone
<1>2. Return(t) => th'[t] = Idle
  BY <1>0 DEF Return
<1>3. CASE UnlinkDelete(t)
  <2>1. th[t].pc = "delete" /\ lk[t] = "no" /\ th[t].cur = parent[th[t].node]
    BY <1>0, <1>3, Calls DEF UnlinkDelete, Shape
  <2>2. d = th[t].cur
    BY <1>0, <1>3, <2>1 DEF UnlinkDelete, TreeTypes
  <2>3. HasWrite(t, d)
    BY <2>1, <2>2 DEF HasWrite, KeptWrite
  <2>4. th'[t] # th[t]
    BY <1>0, <1>2, <1>3, <2>1 DEF UnlinkDelete
  <2> QED BY <1>1, <2>1, <2>3, <2>4
<1>4. CASE Enter(t)
  <2>1. /\ th[t].pc = "enter" /\ lk[t] = "got" /\ Call(t) = <<"Lock", th[t].cur>>
        /\ th[t].path \in Seq(Names) /\ th[t].path # << >>
    BY <1>0, <1>4, Calls DEF Enter, At, ShapeOf, Operations
  <2>2. \E n \in fresh : Make(n, th[t].cur, Head(th[t].path))
    BY <1>4 DEF Enter, tree
  <2>3. d = th[t].cur
    BY <1>0, <2>2 DEF Make, TreeTypes
  <2>4. HasWrite(t, d)
    BY <2>1, <2>3 DEF HasWrite
  <2>5. Return(t) \/ th'[t].path = Tail(th[t].path)
    <3>1. Return(t) \/ \E n : th' = [th EXCEPT ![t].cur = n, ![t].path = Tail(@)]
      BY <1>4, Zenon DEF Enter
    <3>2. ASSUME NEW n, th' = [th EXCEPT ![t].cur = n, ![t].path = Tail(@)]
          PROVE  th'[t].path = Tail(th[t].path)
      BY <1>0, <3>2 DEF Operations
    <3> QED BY <3>1, <3>2
  <2>6. Tail(th[t].path) # th[t].path
    BY <2>1, TailFacts, Zenon
  <2>7. th'[t] # th[t]
    BY <1>0, <1>2, <2>1, <2>5, <2>6
  <2> QED BY <1>1, <2>1, <2>4, <2>7
<1>5. CASE Mkdir(t)
  <2>1. th[t].pc = "to" /\ lk[t] = "got" /\ Call(t) = <<"Lock", th[t].cur>> /\ Return(t)
    BY <1>5, Calls DEF Mkdir, At
  <2>2. \E n \in fresh : Make(n, th[t].cur, Head(th[t].path))
    BY <1>5 DEF Mkdir, tree
  <2>3. d = th[t].cur
    BY <1>0, <2>2 DEF Make, TreeTypes
  <2>4. HasWrite(t, d)
    BY <2>1, <2>3 DEF HasWrite
  <2> QED BY <1>0, <1>1, <1>2, <2>1, <2>4
<1>6. ASSUME NEW replace \in BOOLEAN, RenameTo(t, replace)
      PROVE  NoReaders(d) /\ writer[d] = t /\ th'[t] # th[t]
  <2>1. th[t].pc = "to" /\ lk[t] = "got" /\ Call(t) = <<"Lock", th[t].cur>>
    BY <1>6, Calls DEF RenameTo, At
  <2>2. Put(t) /\ d = th[t].cur
    BY <1>0, <1>6 DEF RenameTo, TreeTypes, tree
  <2>3. HasWrite(t, d)
    BY <2>1, <2>2 DEF HasWrite
  <2> QED BY <1>0, <1>1, <1>2, <2>1, <2>2, <2>3 DEF Put
<1>7. CASE RenameOld(t)
  <2>1. th[t].pc = "old" /\ lk[t] = "got" /\ Call(t) = <<"Lock", parent[th[t].node]>>
    BY <1>7, Calls DEF RenameOld, At
  <2>2. d = parent[th[t].node]
    BY <1>0, <1>7 DEF RenameOld, TreeTypes
  <2>3. HasWrite(t, d)
    BY <2>1, <2>2 DEF HasWrite
  <2>4. th'[t].pc = "put"
    BY <1>0, <1>7 DEF RenameOld, Goto, Operations
  <2> QED BY <1>1, <2>1, <2>3, <2>4
<1>8. CASE RenamePut(t)
  <2>1. th[t].pc = "put" /\ lk[t] = "no" /\ Put(t)
    BY <1>0, <1>8, Calls DEF RenamePut, Shape
  <2>2. d = th[t].cur
    BY <1>0, <1>8 DEF RenamePut, TreeTypes
  <2>3. HasWrite(t, d)
    BY <2>1, <2>2 DEF HasWrite, KeptWrite
  <2> QED BY <1>0, <1>1, <1>2, <2>1, <2>3 DEF Put
<1>9. CASE Begin(t) \/ Lock(t) \/ LockGot(t) \/ RLock(t) \/ Get(t) \/ Set(t)
  BY <1>9 DEF Begin, Lock, LockGot, RLock, Get, Set, tree
<1>10. CASE ReadDirSelf(t) \/ ReadDirList(t) \/ ReadDirChild(t) \/ UnlinkDefer(t) \/ Walk(t)
  BY <1>10 DEF ReadDirSelf, ReadDirList, ReadDirChild, UnlinkDefer, Walk, tree
<1>11. CASE ReadDirNext(t) \/ \E p \in Paths : FsGot(t, p)
  <2>1. UNCHANGED tree
    BY <1>11, Zenon DEF ReadDirNext, FsGot
  <2> QED BY <2>1 DEF tree
<1> QED BY <1>3, <1>4, <1>5, <1>6, <1>7, <1>8, <1>9, <1>10, <1>11, Zenon DEF Continue

\* Unless Rename and Unlink are called together, the map of a directory's entries
\* changes only in the hands of the goroutine that has its write lock, and while
\* nobody reads it.
THEOREM EntriesChangeGuarded ==
  ASSUME RenameApart
  PROVE  Spec => EntriesGuarded
<1> DEFINE A == \A d \in Nodes : children'[d] # children[d] =>
                  NoReaders(d) /\ \E t \in Threads : writer[d] = t /\ th'[t] # th[t]
<1>1. ASSUME IInv, [Next]_vars PROVE [A]_vars
  <2>1. CASE Next
    BY <1>1, <2>1, StepGuards DEF Next
  <2>2. CASE UNCHANGED vars
    BY <2>2
  <2> QED BY <1>1, <2>1, <2>2
<1> HIDE DEF A
<1>2. Spec => [][A]_vars
  BY <1>1, Invariance, PTL DEF Spec
<1> QED BY <1>2 DEF EntriesGuarded, A
-----------------------------------------------------------------------------
(* Without Rename the tree stays one.                                          *)

\* The spare nodes F are no part of the tree.
SpareApart(F) ==
  /\ Root \notin F
  /\ \A d \in Nodes, m \in Names :
       children[d][m] \notin F /\ (d \in F => children[d][m] = None)

\* The children that ReadDir goes through lie one level below the directory; what
\* is left of a path leads no deeper than MaxDepth.
LevelOf(s, level, F) ==
  /\ s.pc \in {"list0", "list1", "next", "child"} => s.node \notin F
  /\ s.pc \in {"next", "child"} => \A c \in s.todo : c \notin F /\ level[c] = level[s.node] + 1
  /\ s.pc = "child" => s.cur \notin F /\ level[s.cur] = level[s.node] + 1
  /\ s.pc \in {"walk", "enter", "to"} => s.cur \notin F /\ level[s.cur] + Len(s.path) <= MaxDepth

\* So it is with these levels.
LevelsBy(level) ==
  /\ level \in [Nodes -> 0..MaxDepth]
  /\ Leveled(level, children)
  /\ \A t \in Threads : LevelOf(th[t], level, fresh)

\* What is kept without Rename: the nodes have levels.
Levels == "rename" \notin ops => SpareApart(fresh) /\ \E level : LevelsBy(level)

\* A step of t that makes no node keeps the levels.
LEMMA LevelsStay ==
  ASSUME IInv, NEW t \in Threads, NEW s, th' = [th EXCEPT ![t] = s], fresh' = fresh,
         \A d \in Nodes, m \in Names : children'[d][m] \in {children[d][m], None},
         SpareApart(fresh), NEW level, LevelsBy(level), LevelOf(s, level, fresh)
  PROVE  SpareApart(fresh)' /\ LevelsBy(level)'
<1>0. th \in [Threads -> Operations] /\ None \notin fresh
  BY Parts, LocksAssumption DEF TreeTypes
<1>1. SpareApart(fresh)'
  BY <1>0 DEF SpareApart
<1>2. Leveled(level, children)'
  BY DEF LevelsBy, Leveled
<1>3. \A u \in Threads : LevelOf(th'[u], level, fresh)
  BY <1>0 DEF LevelsBy
<1> QED BY <1>1, <1>2, <1>3 DEF LevelsBy

\* A new node lies one level below its directory.
LEMMA LevelsGrow ==
  ASSUME IInv, NEW t \in Threads, NEW s, th' = [th EXCEPT ![t] = s],
         NEW n \in fresh, NEW d \in Nodes \ fresh, NEW m \in Names, Make(n, d, m),
         SpareApart(fresh), NEW level, LevelsBy(level), level[d] < MaxDepth,
         LevelOf(s, [level EXCEPT ![n] = level[d] + 1], fresh \ {n})
  PROVE  SpareApart(fresh)' /\ LevelsBy([level EXCEPT ![n] = level[d] + 1])'
<1> DEFINE new == [level EXCEPT ![n] = level[d] + 1]
<1>0. /\ th \in [Threads -> Operations] /\ None \notin fresh /\ n \in Nodes /\ d # n
      /\ TreeTypes /\ \A u \in Threads : ShapeOf(th[u]) /\ th[u] \in Operations
      /\ level \in [Nodes -> 0..MaxDepth] /\ MaxDepth \in Nat
  BY Parts, LocksAssumption DEF TreeTypes, LevelsBy
<1>1. /\ fresh' = fresh \ {n}
      /\ \A e \in Nodes, k \in Names :
           children'[e][k] = (IF e = d /\ k = m THEN n ELSE children[e][k])
  BY <1>0 DEF Make, TreeTypes
<1>2. SpareApart(fresh)'
  BY <1>0, <1>1 DEF SpareApart
<1>3. /\ new \in [Nodes -> 0..MaxDepth] /\ new[n] = level[d] + 1
      /\ \A e \in Nodes \ {n} : new[e] = level[e]
  <2>1. level[d] + 1 \in 0..MaxDepth
    BY <1>0
  <2> QED BY <1>0, <2>1
<1> HIDE DEF new
<1>4. Leveled(new, children')
  <2>1. new[Root] = 0
    BY <1>3, LocksAssumption DEF LevelsBy, Leveled, SpareApart
  <2>2. ASSUME NEW e \in Nodes, NEW k \in Names, children'[e][k] # None
        PROVE  new[children'[e][k]] = new[e] + 1
    <3>1. CASE e = d /\ k = m
      BY <1>0, <1>1, <1>3, <3>1
    <3>2. CASE ~(e = d /\ k = m)
      <4>1. children[e][k] # None /\ children'[e][k] = children[e][k]
        BY <1>1, <2>2, <3>2
      <4>2. e # n /\ children[e][k] # n /\ children[e][k] \in Nodes
        BY <1>0, <4>1 DEF SpareApart, TreeTypes
      <4> QED BY <1>3, <4>1, <4>2 DEF LevelsBy, Leveled
    <3> QED BY <3>1, <3>2
  <2> QED BY <2>1, <2>2 DEF Leveled
<1>5. ASSUME NEW u \in Threads PROVE LevelOf(th'[u], new, fresh')
  <2>1. CASE u = t
    BY <1>0, <1>1, <2>1 DEF new
  <2>2. CASE u # t
    <3>1. th'[u] = th[u] /\ LevelOf(th[u], level, fresh)
      BY <1>0, <2>2 DEF LevelsBy
    <3>2. th[u].pc \in {"list0", "list1", "next", "child"} => th[u].node \in Nodes
      BY <1>0 DEF ShapeOf
    <3>3. th[u].pc \in {"walk", "enter", "to", "child"} => th[u].cur \in Nodes
      BY <1>0 DEF ShapeOf
    <3>4. th[u].todo \subseteq Nodes
      BY <1>0 DEF Operations
    <3> QED BY <1>1, <1>3, <3>1, <3>2, <3>3, <3>4 DEF LevelOf
  <2> QED BY <2>1, <2>2
<1> QED BY <1>2, <1>3, <1>4, <1>5 DEF LevelsBy, new
\* A step that leaves the tree and brings t to a state within the levels.
LEMMA LevelsQuiet ==
  ASSUME IInv, NEW t \in Threads, NEW s, th' = [th EXCEPT ![t] = s], UNCHANGED tree,
         SpareApart(fresh), NEW level, LevelsBy(level), LevelOf(s, level, fresh)
  PROVE  SpareApart(fresh)' /\ LevelsBy(level)'
BY LevelsStay DEF tree

\* A goroutine outside ReadDir and paths is at no level.
LEMMA NoLevel ==
  ASSUME NEW s, NEW level, NEW F,
         s.pc \notin {"list0", "list1", "next", "child", "walk", "enter", "to"}
  PROVE  LevelOf(s, level, F)
BY DEF LevelOf

\* An operation starts without a place in the tree but for its node.
LEMMA BeginLevels ==
  ASSUME IInv, NEW t \in Threads, Begin(t), SpareApart(fresh), NEW level, LevelsBy(level)
  PROVE  SpareApart(fresh)' /\ LevelsBy(level)'
<1>1. UNCHANGED tree
  BY DEF Begin
<1>2. ASSUME NEW n \in Nodes, BeginNode(t, n)
      PROVE  \E s : th' = [th EXCEPT ![t] = s] /\ LevelOf(s, level, fresh)
  <2>1. PICK op \in ops \cap {"get", "set", "readdir"} :
          th' = [th EXCEPT ![t] = [Idle EXCEPT !.pc = IF op = "readdir" THEN "list0" ELSE op,
                                               !.op = op, !.node = n]]
    BY <1>2 DEF BeginNode
  <2> DEFINE s == [Idle EXCEPT !.pc = IF op = "readdir" THEN "list0" ELSE op,
                               !.op = op, !.node = n]
  <2>2. s.pc \in {"list0", "get", "set"} /\ s.node = n /\ n \notin fresh
    BY <1>2 DEF Idle, BeginNode
  <2>3. th' = [th EXCEPT ![t] = s]
    BY <2>1
  <2> HIDE DEF s
  <2>4. LevelOf(s, level, fresh)
    BY <2>2 DEF LevelOf
  <2> QED BY <2>3, <2>4
<1>3. ASSUME NEW n \in Nodes, BeginUnlink(t, n)
      PROVE  \E s : th' = [th EXCEPT ![t] = s] /\ LevelOf(s, level, fresh)
  <2> DEFINE s == [Idle EXCEPT !.pc = "unlink", !.op = "unlink", !.node = n, !.cur = parent[n]]
  <2>1. s.pc = "unlink" /\ th' = [th EXCEPT ![t] = s]
    BY <1>3 DEF Idle, BeginUnlink
  <2> HIDE DEF s
  <2> QED BY <2>1, NoLevel
<1>4. ASSUME NEW n \in Nodes, BeginRename(t, n)
      PROVE  \E s : th' = [th EXCEPT ![t] = s] /\ LevelOf(s, level, fresh)
  <2> DEFINE s == [Idle EXCEPT !.pc = "fsW", !.op = "rename", !.node = n]
  <2>1. s.pc = "fsW" /\ th' = [th EXCEPT ![t] = s]
    BY <1>4 DEF Idle, BeginRename
  <2> HIDE DEF s
  <2> QED BY <2>1, NoLevel
<1>5. ASSUME BeginPath(t)
      PROVE  \E s : th' = [th EXCEPT ![t] = s] /\ LevelOf(s, level, fresh)
  <2>1. PICK op \in ops \cap {"find", "addfile", "mkdir"} :
          th' = [th EXCEPT ![t] = [Idle EXCEPT !.pc = IF op = "find" THEN "fsR" ELSE "fsW",
                                               !.op = op]]
    BY <1>5 DEF BeginPath
  <2> DEFINE s == [Idle EXCEPT !.pc = IF op = "find" THEN "fsR" ELSE "fsW", !.op = op]
  <2>2. s.pc \in {"fsR", "fsW"} /\ th' = [th EXCEPT ![t] = s]
    BY <2>1 DEF Idle
  <2> HIDE DEF s
  <2> QED BY <2>2, NoLevel
<1>6. \E s : th' = [th EXCEPT ![t] = s] /\ LevelOf(s, level, fresh)
  BY <1>2, <1>3, <1>4, <1>5, Zenon DEF Begin
<1> QED BY <1>1, <1>6, LevelsQuiet

\* One that returns has no place at all.
LEMMA ReturnLevels ==
  ASSUME NEW t \in Threads, NEW level, NEW F, Return(t)
  PROVE  th' = [th EXCEPT ![t] = Idle] /\ LevelOf(Idle, level, F)
BY DEF Return, Idle, LevelOf

\* ReadDir locks the entries of its node, which are one level below.
LEMMA ReadDirLevels ==
  ASSUME IInv, NEW t \in Threads, SpareApart(fresh), NEW level, LevelsBy(level),
         ReadDirSelf(t) \/ ReadDirList(t) \/ ReadDirNext(t) \/ ReadDirChild(t)
  PROVE  SpareApart(fresh)' /\ LevelsBy(level)'
<1>0. /\ ShapeOf(th[t]) /\ th[t] \in Operations /\ th \in [Threads -> Operations] /\ TreeTypes
      /\ LevelOf(th[t], level, fresh)
  BY Parts DEF LevelsBy
<1>1. UNCHANGED tree
  BY Zenon DEF ReadDirSelf, ReadDirList, ReadDirNext, ReadDirChild
<1>2. CASE ReadDirSelf(t)
  <2> DEFINE s == [th[t] EXCEPT !.pc = "list1"]
  <2>1. /\ th' = [th EXCEPT ![t] = s] /\ s.pc = "list1" /\ s.node = th[t].node
        /\ th[t].pc = "list0"
    BY <1>0, <1>2 DEF ReadDirSelf, Goto, At, Operations
  <2> HIDE DEF s
  <2>2. LevelOf(s, level, fresh)
    BY <1>0, <2>1 DEF LevelOf
  <2> QED BY <1>1, <2>1, <2>2, LevelsQuiet
<1>3. CASE ReadDirList(t)
  <2> DEFINE l == {children[th[t].node][m] : m \in Names} \ {None}
             s == [th[t] EXCEPT !.pc = "next", !.todo = l]
  <2>1. th' = [th EXCEPT ![t] = s] /\ th[t].pc = "list1" /\ th[t].node \in Nodes
    BY <1>0, <1>3 DEF ReadDirList, At, ShapeOf
  <2>2. \A c \in l : c \notin fresh /\ level[c] = level[th[t].node] + 1
    BY <2>1 DEF SpareApart, LevelsBy, Leveled
  <2> HIDE DEF l
  <2>3. s.pc = "next" /\ s.node = th[t].node /\ s.todo = l
    BY <1>0 DEF Operations
  <2> HIDE DEF s
  <2>4. LevelOf(s, level, fresh)
    BY <1>0, <2>1, <2>2, <2>3 DEF LevelOf
  <2> QED BY <1>1, <2>1, <2>4, LevelsQuiet
<1>4. CASE ReadDirNext(t)
  <2>1. th[t].pc = "next"
    BY <1>4, Zenon DEF ReadDirNext
  <2>2. CASE Return(t)
    BY <1>1, <2>2, ReturnLevels, LevelsQuiet
  <2>3. ASSUME NEW c \in th[t].todo,
               th' = [th EXCEPT ![t].pc = "child", ![t].cur = c, ![t].todo = @ \ {c}]
        PROVE  SpareApart(fresh)' /\ LevelsBy(level)'
    <3> DEFINE s == [th[t] EXCEPT !.pc = "child", !.cur = c, !.todo = @ \ {c}]
    <3>1. th' = [th EXCEPT ![t] = s]
      BY <1>0, <2>3
    <3>2. s.pc = "child" /\ s.node = th[t].node /\ s.cur = c /\ s.todo = th[t].todo \ {c}
      BY <1>0 DEF Operations
    <3> HIDE DEF s
    <3>3. LevelOf(s, level, fresh)
      BY <1>0, <2>1, <3>2 DEF LevelOf
    <3> QED BY <1>1, <3>1, <3>3, LevelsQuiet
  <2>4. \/ Return(t)
        \/ \E c \in th[t].todo : th' = [th EXCEPT ![t].pc = "child", ![t].cur = c, ![t].todo = @ \ {c}]
    BY <1>4, Zenon DEF ReadDirNext
  <2> QED BY <2>2, <2>3, <2>4
<1>5. CASE ReadDirChild(t)
  <2> DEFINE s == [th[t] EXCEPT !.pc = "next"]
  <2>1. /\ th' = [th EXCEPT ![t] = s] /\ s.pc = "next" /\ s.node = th[t].node
        /\ s.todo = th[t].todo /\ th[t].pc = "child"
    BY <1>0, <1>5 DEF ReadDirChild, Goto, At, Operations
  <2> HIDE DEF s
  <2>2. LevelOf(s, level, fresh)
    BY <1>0, <2>1 DEF LevelOf
  <2> QED BY <1>1, <2>1, <2>2, LevelsQuiet
<1> QED BY <1>2, <1>3, <1>4, <1>5

\* Unlink removes an entry at most.
LEMMA UnlinkLevels ==
  ASSUME IInv, NEW t \in Threads, SpareApart(fresh), NEW level, LevelsBy(level),
         UnlinkDefer(t) \/ UnlinkDelete(t)
  PROVE  SpareApart(fresh)' /\ LevelsBy(level)'
<1>0. th[t] \in Operations /\ th \in [Threads -> Operations] /\ TreeTypes
  BY Parts
<1>1. CASE UnlinkDefer(t)
  <2> DEFINE s == [th[t] EXCEPT !.pc = "delete", !.cur = parent[th[t].node]]
  <2>1. th' = [th EXCEPT ![t] = s] /\ s.pc = "delete" /\ UNCHANGED tree
    BY <1>0, <1>1 DEF UnlinkDefer, Operations
  <2> HIDE DEF s
  <2> QED BY <2>1, NoLevel, LevelsQuiet
<1>2. CASE UnlinkDelete(t)
  <2>1. fresh' = fresh /\ \A d \in Nodes, m \in Names : children'[d][m] \in {children[d][m], None}
    BY <1>0, <1>2 DEF UnlinkDelete, TreeTypes
  <2>2. th' = [th EXCEPT ![t] = Idle] /\ LevelOf(Idle, level, fresh)
    BY <1>2, ReturnLevels DEF UnlinkDelete
  <2> QED BY <2>1, <2>2, LevelsStay
<1> QED BY <1>1, <1>2

\* A look-up starts at the root with a path no longer than MaxDepth.
LEMMA FsGotLevels ==
  ASSUME IInv, NEW t \in Threads, SpareApart(fresh), NEW level, LevelsBy(level),
         NEW p \in Paths, FsGot(t, p)
  PROVE  SpareApart(fresh)' /\ LevelsBy(level)'
<1>0. th[t] \in Operations /\ th \in [Threads -> Operations] /\ UNCHANGED tree
  BY Parts DEF FsGot
<1>1. CASE Return(t)
  BY <1>0, <1>1, ReturnLevels, LevelsQuiet
<1>2. CASE ~Return(t)
  <2> DEFINE pc == IF th[t].op = "addfile" THEN "enter" ELSE IF Arrived(t, p) THEN "to" ELSE "walk"
             s == [th[t] EXCEPT !.cur = Root, !.path = p, !.pc = pc]
  <2>1. th' = [th EXCEPT ![t] = s] /\ pc \in {"enter", "to", "walk"}
    BY <1>0, <1>2 DEF FsGot
  <2> HIDE DEF pc
  <2>2. s.pc = pc /\ s.cur = Root /\ s.path = p
    BY <1>0 DEF Operations
  <2> HIDE DEF s
  <2>3. Root \notin fresh /\ level[Root] + Len(p) <= MaxDepth
    BY PathFacts, LocksAssumption DEF SpareApart, LevelsBy, Leveled
  <2>4. LevelOf(s, level, fresh)
    BY <2>1, <2>2, <2>3 DEF LevelOf
  <2> QED BY <1>0, <2>1, <2>4, LevelsQuiet
<1> QED BY <1>1, <1>2

\* One name further, one level deeper.
LEMMA NextLevel ==
  ASSUME IInv, NEW t \in Threads, NEW level, LevelsBy(level), SpareApart(fresh),
         th[t].pc \in {"walk", "enter", "to"}
  PROVE  /\ th[t].cur \in Nodes \ fresh /\ Head(th[t].path) \in Names
         /\ level[th[t].cur] < MaxDepth /\ level[th[t].cur] \in Nat
         /\ level[th[t].cur] + 1 + Len(Tail(th[t].path)) <= MaxDepth
         /\ children[th[t].cur][Head(th[t].path)] # None =>
              /\ children[th[t].cur][Head(th[t].path)] \notin fresh
              /\ level[children[th[t].cur][Head(th[t].path)]] = level[th[t].cur] + 1
<1>0. /\ ShapeOf(th[t]) /\ th[t] \in Operations /\ LevelOf(th[t], level, fresh)
      /\ level \in [Nodes -> 0..MaxDepth] /\ MaxDepth \in Nat
  BY Parts, LocksAssumption DEF LevelsBy
<1>1. /\ th[t].cur \in Nodes \ fresh /\ th[t].path \in Seq(Names) /\ th[t].path # << >>
      /\ level[th[t].cur] + Len(th[t].path) <= MaxDepth
  BY <1>0 DEF ShapeOf, LevelOf, Operations
<1>2. /\ Head(th[t].path) \in Names /\ Len(th[t].path) \in Nat /\ Len(th[t].path) >= 1
      /\ Len(Tail(th[t].path)) = Len(th[t].path) - 1
  BY <1>1, TailFacts
<1>3. level[th[t].cur] \in Nat
  BY <1>0, <1>1
<1>4. ASSUME NEW a \in Nat, NEW b \in Nat, b >= 1, a + b <= MaxDepth
      PROVE  a < MaxDepth /\ a + 1 + (b - 1) <= MaxDepth
  BY <1>0, <1>4
<1>5. /\ level[th[t].cur] < MaxDepth
      /\ level[th[t].cur] + 1 + Len(Tail(th[t].path)) <= MaxDepth
  BY <1>1, <1>2, <1>3, <1>4
<1>6. children[th[t].cur][Head(th[t].path)] # None =>
        /\ children[th[t].cur][Head(th[t].path)] \notin fresh
        /\ level[children[th[t].cur][Head(th[t].path)]] = level[th[t].cur] + 1
  BY <1>1, <1>2, Zenon DEF SpareApart, LevelsBy, Leveled
<1> QED BY <1>1, <1>2, <1>3, <1>5, <1>6

\* It goes one level down with every name of the path.
LEMMA WalkLevels ==
  ASSUME IInv, NEW t \in Threads, SpareApart(fresh), NEW level, LevelsBy(level), Walk(t)
  PROVE  SpareApart(fresh)' /\ LevelsBy(level)'
<1> DEFINE c == children[th[t].cur][Head(th[t].path)]
           rest == Tail(th[t].path)
           pc == IF Arrived(t, rest) THEN "to" ELSE "walk"
           s == [th[t] EXCEPT !.cur = c, !.path = rest, !.pc = pc]
           g == [Idle EXCEPT !.pc = "get", !.op = "find", !.node = c]
<1>0. th[t] \in Operations /\ th \in [Threads -> Operations] /\ UNCHANGED tree /\ th[t].pc = "walk"
  BY Parts DEF Walk, At
<1>1. CASE Return(t)
  BY <1>0, <1>1, ReturnLevels, LevelsQuiet
<1>2. CASE th' = [th EXCEPT ![t] = g]
  <2>1. g.pc = "get"
    BY DEF Idle
  <2> HIDE DEF g
  <2> QED BY <1>0, <1>2, <2>1, NoLevel, LevelsQuiet
<1>3. CASE c # None /\ th' = [th EXCEPT ![t].cur = c, ![t].path = rest, ![t].pc = pc]
  <2>1. th' = [th EXCEPT ![t] = s] /\ pc \in {"to", "walk"}
    BY <1>0, <1>3
  <2>2. c \notin fresh /\ level[c] = level[th[t].cur] + 1
        /\ level[th[t].cur] + 1 + Len(rest) <= MaxDepth
    BY <1>0, <1>3, NextLevel
  <2> HIDE DEF pc, c, rest
  <2>3. s.pc = pc /\ s.cur = c /\ s.path = rest
    BY <1>0 DEF Operations
  <2> HIDE DEF s
  <2>4. LevelOf(s, level, fresh)
    BY <2>1, <2>2, <2>3 DEF LevelOf
  <2> QED BY <1>0, <2>1, <2>4, LevelsQuiet
<1> QED BY <1>1, <1>2, <1>3 DEF Walk

\* AddFile does the same, and puts a spare node one level below the directory it is in.
LEMMA EnterLevels ==
  ASSUME IInv, NEW t \in Threads, SpareApart(fresh), NEW level, LevelsBy(level), Enter(t)
  PROVE  SpareApart(fresh)' /\ \E new : LevelsBy(new)'
<1> DEFINE d == th[t].cur
           m == Head(th[t].path)
           c == children[d][m]
           s(n) == [th[t] EXCEPT !.cur = n, !.path = Tail(@)]
           Goes(n) == th' = [th EXCEPT ![t].cur = n, ![t].path = Tail(@)]
<1>0. /\ th[t] \in Operations /\ th \in [Threads -> Operations] /\ th[t].pc = "enter"
      /\ fresh \subseteq Nodes /\ level \in [Nodes -> 0..MaxDepth]
  BY Parts, LocksAssumption DEF Enter, At, TreeTypes, LevelsBy
<1>1. /\ d \in Nodes \ fresh /\ m \in Names /\ level[d] < MaxDepth
      /\ level[d] + 1 + Len(Tail(th[t].path)) <= MaxDepth
      /\ c # None => c \notin fresh /\ level[c] = level[d] + 1
  BY <1>0, NextLevel
<1>e. PICK e \in Nodes \ fresh : e = d
  BY <1>1
<1> DEFINE Grown(n) == [level EXCEPT ![n] = level[e] + 1]
<1>2. ASSUME NEW n
      PROVE  s(n).pc = "enter" /\ s(n).cur = n /\ s(n).path = Tail(th[t].path)
             /\ (Goes(n) => th' = [th EXCEPT ![t] = s(n)])
  BY <1>0 DEF Operations
<1>3. ASSUME Return(t), UNCHANGED tree PROVE SpareApart(fresh)' /\ \E new : LevelsBy(new)'
  BY <1>3, ReturnLevels, LevelsQuiet
<1>4. ASSUME Return(t), NEW n \in fresh, Make(n, d, m)
      PROVE  SpareApart(fresh)' /\ \E new : LevelsBy(new)'
  <2>1. th' = [th EXCEPT ![t] = Idle] /\ LevelOf(Idle, Grown(n), fresh \ {n})
    BY <1>4, ReturnLevels
  <2>2. SpareApart(fresh)' /\ LevelsBy(Grown(n))'
    <3> HIDE DEF d, m
    <3> QED BY <1>1, <1>4, <1>e, <2>1, LevelsGrow
  <2> QED BY <2>2
<1>5. ASSUME c \in Nodes, Goes(c), UNCHANGED tree
      PROVE  SpareApart(fresh)' /\ \E new : LevelsBy(new)'
  <2>1. c # None
    BY <1>5, LocksAssumption
  <2>2. LevelOf(s(c), level, fresh)
    <3> HIDE DEF c, d, m, s
    <3> QED BY <1>1, <1>2, <2>1 DEF LevelOf
  <2> QED BY <1>2, <1>5, <2>2, LevelsQuiet
<1>6. ASSUME NEW n \in fresh, Goes(n), Make(n, d, m)
      PROVE  SpareApart(fresh)' /\ \E new : LevelsBy(new)'
  <2>1. Grown(n)[n] = level[d] + 1
    BY <1>0, <1>e
  <2>2. LevelOf(s(n), Grown(n), fresh \ {n})
    <3> HIDE DEF c, d, m, s, Grown
    <3> QED BY <1>1, <1>2, <2>1 DEF LevelOf
  <2>3. SpareApart(fresh)' /\ LevelsBy(Grown(n))'
    <3> HIDE DEF d, m, s
    <3> QED BY <1>1, <1>2, <1>6, <1>e, <2>2, LevelsGrow
  <2> QED BY <2>3
<1>7. \/ Return(t) /\ UNCHANGED tree
      \/ \E n \in fresh : Return(t) /\ Make(n, d, m)
      \/ c \in Nodes /\ Goes(c) /\ UNCHANGED tree
      \/ \E n \in fresh : Goes(n) /\ Make(n, d, m)
  BY DEF Enter
<1> QED BY <1>3, <1>4, <1>5, <1>6, <1>7

\* So does Mkdir at the end of its path.
LEMMA MkdirLevels ==
  ASSUME IInv, NEW t \in Threads, SpareApart(fresh), NEW level, LevelsBy(level), Mkdir(t)
  PROVE  SpareApart(fresh)' /\ \E new : LevelsBy(new)'
<1> DEFINE d == th[t].cur
           m == Head(th[t].path)
<1>0. th[t].pc = "to" /\ Return(t)
  BY DEF Mkdir, At
<1>1. d \in Nodes \ fresh /\ m \in Names /\ level[d] < MaxDepth
  BY <1>0, NextLevel
<1>e. PICK e \in Nodes \ fresh : e = d
  BY <1>1
<1>2. CASE UNCHANGED tree
  BY <1>0, <1>2, ReturnLevels, LevelsQuiet
<1>3. ASSUME NEW n \in fresh, Make(n, d, m)
      PROVE  SpareApart(fresh)' /\ \E new : LevelsBy(new)'
  <2> DEFINE new == [level EXCEPT ![n] = level[e] + 1]
  <2>1. th' = [th EXCEPT ![t] = Idle] /\ LevelOf(Idle, new, fresh \ {n})
    BY <1>0, ReturnLevels
  <2>2. SpareApart(fresh)' /\ LevelsBy(new)'
    <3> HIDE DEF d, m
    <3> QED BY <1>1, <1>3, <1>e, <2>1, LevelsGrow
  <2> QED BY <2>2
<1> QED BY <1>2, <1>3 DEF Mkdir

\* The other steps leave the tree alone.
LEMMA QuietLevels ==
  ASSUME IInv, NEW t \in Threads, SpareApart(fresh), NEW level, LevelsBy(level),
         Lock(t) \/ LockGot(t) \/ RLock(t) \/ Get(t) \/ Set(t)
  PROVE  SpareApart(fresh)' /\ LevelsBy(level)'
<1>1. CASE Lock(t) \/ LockGot(t) \/ RLock(t)
  <2>1. th' = th /\ children' = children /\ fresh' = fresh
    BY <1>1 DEF Lock, LockGot, RLock, tree
  <2> QED BY <2>1 DEF SpareApart, LevelsBy
<1>2. CASE Get(t) \/ Set(t)
  <2>1. Return(t) /\ UNCHANGED tree
    BY <1>2 DEF Get, Set
  <2> QED BY <2>1, ReturnLevels, LevelsQuiet
<1> QED BY <1>1, <1>2

\* Without Rename every step leaves a tree.
LEMMA LevelsKeep ==
  ASSUME IInv, Levels, [Next]_vars
  PROVE  Levels'
<1> SUFFICES ASSUME "rename" \notin ops'
             PROVE  SpareApart(fresh)' /\ \E level : LevelsBy(level)'
  BY DEF Levels
<1>1. "rename" \notin ops
  BY DEF Next, vars
<1>2. PICK level : LevelsBy(level)
  BY <1>1 DEF Levels
<1>3. SpareApart(fresh)
  BY <1>1 DEF Levels
<1>4. ASSUME NEW t \in Threads, Begin(t) \/ Continue(t)
      PROVE  SpareApart(fresh)' /\ \E new : LevelsBy(new)'
  <2>1. ~(\E replace \in BOOLEAN : RenameTo(t, replace)) /\ ~RenameOld(t) /\ ~RenamePut(t)
    <3>1. th[t].pc # "idle" => th[t].op \in ops
      BY Parts DEF Shape
    <3>2. th[t].pc \in {"old", "put"} => th[t].op = "rename"
      BY Parts DEF ShapeOf
    <3> QED BY <1>1, <3>1, <3>2 DEF RenameTo, RenameOld, RenamePut, At
  <2> QED BY <1>2, <1>3, <1>4, <2>1, BeginLevels, ReadDirLevels, UnlinkLevels, FsGotLevels,
             WalkLevels, EnterLevels, MkdirLevels, QuietLevels, Zenon DEF Continue
<1>5. CASE Next
  BY <1>4, <1>5 DEF Next
<1>6. CASE UNCHANGED vars
  <2>1. th' = th /\ children' = children /\ fresh' = fresh
    BY <1>6 DEF vars, tree
  <2>2. SpareApart(fresh)' /\ LevelsBy(level)'
    BY <1>2, <1>3, <2>1 DEF SpareApart, LevelsBy
  <2> QED BY <2>2
<1> QED BY <1>5, <1>6

\* The tree at the beginning has levels, as TreeAssumption says.
LEMMA InitLevels == Init => Levels
<1> SUFFICES ASSUME Init PROVE SpareApart(fresh) /\ \E level : LevelsBy(level)
  BY DEF Levels
<1>1. SpareApart(fresh)
  BY TreeAssumption DEF Init, SpareApart
<1>2. PICK level \in [Nodes -> 0..MaxDepth] : Leveled(level, Tree)
  BY TreeAssumption
<1>3. \A t \in Threads : LevelOf(th[t], level, fresh)
  BY NoLevel DEF Init, Idle
<1>4. LevelsBy(level)
  BY <1>2, <1>3 DEF Init, LevelsBy
<1> QED BY <1>1, <1>4
-----------------------------------------------------------------------------
(* The goroutines never all wait for each other.                               *)

\* All goroutines inside a call wait.
Standstill == \A t \in Threads : th[t].pc = "idle" \/ ~Moves(t)

\* The order of the naturals, as a relation.
Less == {p \in Nat \X Nat : p[1] < p[2]}

\* A set of naturals has a smallest element.
LEMMA Smallest ==
  ASSUME NEW S, S \subseteq Nat, S # {}
  PROVE  \E x \in S : \A y \in S : ~(y < x)
<1>1. IsWellFoundedOn(Less, Nat)
  BY NatLessThanWellFounded DEF OpToRel, Less
<1>2. \E x \in S : \A y \in S : ~(<<y, x>> \in Less)
  BY <1>1, WFMin, Zenon
<1> QED BY <1>2 DEF Less

\* What a goroutine that waits has, it has kept from an earlier call.
LEMMA WaiterKeeps ==
  ASSUME IInv, Standstill, NEW t \in Threads
  PROVE  /\ th[t].pc \notin {"next", "delete", "put"} /\ lk[t] # "got"
         /\ \A m \in Mutexes : HasWrite(t, m) =>
              \/ KeptWrite(th[t], m)
              \/ lk[t] = "asked" /\ Call(t) = <<"Lock", m>>
         /\ \A m \in Mutexes : Reads(t, m) # 0 => KeptRead(th[t], m)
<1>0. Shape(t) /\ th[t].pc \in Pcs /\ lk[t] \in {"no", "asked", "got"}
  BY Parts DEF Operations, LockTypes
<1>1. th[t].pc \notin {"next", "delete", "put"}
  BY Calls DEF Standstill, Moves
<1>2. lk[t] # "got"
  BY <1>0, Calls DEF Standstill, Moves, Shape
<1>3. \A m \in Mutexes : HasWrite(t, m) =>
        KeptWrite(th[t], m) \/ (lk[t] = "asked" /\ Call(t) = <<"Lock", m>>)
  BY <1>0, <1>2 DEF HasWrite
<1>4. \A m \in Mutexes : Reads(t, m) # 0 => KeptRead(th[t], m)
  BY <1>2 DEF Reads
<1> QED BY <1>1, <1>2, <1>3, <1>4

\* A goroutine that waits for a mutex waits for its readers, or for another's
\* write lock.
LEMMA WaitsFor ==
  ASSUME IInv, Standstill, NEW t \in Threads, NEW m \in Mutexes,
         Call(t) \in {<<"Lock", m>>, <<"RLock", m>>}
  PROVE  \/ \E r \in Threads : KeptRead(th[r], m)
         \/ \E h \in Threads : KeptWrite(th[h], m)
<1>0. /\ lk[t] \in {"no", "asked", "got"} /\ lk[t] # "got"
      /\ LockTypes /\ LocksInv /\ Mutex(t) = m
  BY Parts, WaiterKeeps DEF LockTypes, Mutex
<1>1. th[t].pc # "idle"
  BY Calls
<1>2. ~Moves(t)
  BY <1>1 DEF Standstill
<1>3. ASSUME NEW u \in Threads, lk[u] = "asked", Call(u) = <<"Lock", m>>
      PROVE  \E r \in Threads : KeptRead(th[r], m)
  <2>1. th[u].pc # "idle" /\ Mutex(u) = m
    BY <1>3, Calls DEF Mutex
  <2>2. ~NoReaders(m)
    BY <1>3, <2>1 DEF Standstill, Moves
  <2>3. PICK r \in Threads : readers[m][r] # 0
    BY <2>2 DEF NoReaders
  <2>4. Reads(r, m) # 0
    BY <1>0, <2>3 DEF LocksInv, ReadersKnown
  <2> QED BY <2>4, WaiterKeeps
<1>4. CASE lk[t] = "asked" /\ Call(t) = <<"Lock", m>>
  BY <1>3, <1>4
<1>5. CASE ~(lk[t] = "asked" /\ Call(t) = <<"Lock", m>>)
  <2>1. writer[m] # None
    <3>1. CASE lk[t] = "no"
      BY <1>0, <1>2, <3>1 DEF Moves
    <3>2. CASE lk[t] = "asked"
      <4>1. Call(t) = <<"RLock", m>>
        BY <1>5, <3>2
      <4>2. t \in waiting[m]
        BY <1>0, <3>2, <4>1 DEF LocksInv, WaitingKnown
      <4> QED BY <1>0, <4>2 DEF LockTypes
    <3> QED BY <1>0, <3>1, <3>2
  <2>2. PICK h \in Threads : writer[m] = h
    BY <1>0, <2>1 DEF LockTypes
  <2>3. HasWrite(h, m)
    BY <1>0, <2>2 DEF LocksInv, WritersKnown
  <2> QED BY <1>3, <2>3, WaiterKeeps
<1> QED BY <1>4, <1>5

\* Who waits for a node waits in the end for a ReadDir that holds the node and
\* waits for one of its children. Two Renames cannot wait for each other: one of
\* them has fs.mu.
LEMMA WaitsForReadDir ==
  ASSUME IInv, RenameAlone, Standstill, NEW t \in Threads, NEW m \in Nodes,
         Call(t) \in {<<"Lock", m>>, <<"RLock", m>>}
  PROVE  \E r \in Threads : th[r].pc = "child" /\ th[r].node = m
<1>0. /\ m \in Mutexes /\ Nodes \subseteq Mutexes /\ "fs" \in Mutexes /\ "fs" \notin Nodes /\ LocksInv
      /\ ops \in OpSets
      /\ \A u \in Threads : Shape(u) /\ ShapeOf(th[u])
  BY Parts, LocksAssumption DEF Mutexes
<1>1. ASSUME NEW n \in Nodes, NEW r \in Threads, KeptRead(th[r], n)
      PROVE  th[r].pc = "child" /\ th[r].node = n
  BY <1>0, <1>1, WaiterKeeps DEF KeptRead
<1>2. ASSUME NEW n \in Nodes, NEW h \in Threads, KeptWrite(th[h], n)
      PROVE  th[h].pc = "old" /\ th[h].cur = n /\ writer["fs"] = h /\ "rename" \in ops
  <2>1. th[h].pc = "old" /\ th[h].cur = n
    BY <1>0, <1>2, WaiterKeeps DEF KeptWrite
  <2>2. th[h].op = "rename" /\ "rename" \in ops
    BY <1>0, <2>1 DEF ShapeOf, Shape
  <2>3. HasWrite(h, "fs")
    BY <2>1, <2>2 DEF HasWrite, KeptWrite
  <2> QED BY <1>0, <2>1, <2>2, <2>3 DEF LocksInv, WritersKnown
<1>3. CASE \E r \in Threads : KeptRead(th[r], m)
  BY <1>1, <1>3
<1>4. ASSUME NEW h \in Threads, KeptWrite(th[h], m) PROVE FALSE
  <2>1. th[h].pc = "old" /\ th[h].cur = m /\ writer["fs"] = h /\ "rename" \in ops
    BY <1>2, <1>4
  <2>2. PICK n \in Nodes : n = parent[th[h].node] /\ n # m
    BY <1>0, <2>1 DEF Shape
  <2>3. Call(h) = <<"Lock", n>>
    BY <2>1, <2>2, Calls
  <2>4. \/ \E r \in Threads : KeptRead(th[r], n)
        \/ \E g \in Threads : KeptWrite(th[g], n)
    BY <1>0, <2>3, WaitsFor
  <2>5. ASSUME NEW r \in Threads, KeptRead(th[r], n) PROVE FALSE
    <3>1. th[r].pc = "child"
      BY <1>1, <2>5
    <3>2. "readdir" \in ops
      BY <1>0, <3>1 DEF ShapeOf, Shape
    <3> QED BY <1>0, <2>1, <3>2 DEF RenameAlone
  <2>6. ASSUME NEW g \in Threads, KeptWrite(th[g], n) PROVE FALSE
    <3>1. th[g].cur = n /\ writer["fs"] = g
      BY <1>2, <2>6
    <3> QED BY <2>1, <2>2, <3>1
  <2> QED BY <2>4, <2>5, <2>6
<1> QED BY <1>0, <1>3, <1>4, WaitsFor

\* Such a ReadDir waits for one that lies deeper, and the tree has a bottom.
LEMMA NobodyAtChild ==
  ASSUME IInv, RenameAlone, Levels, Standstill, NEW t \in Threads, th[t].pc = "child"
  PROVE  FALSE
<1>0. \A u \in Threads : Shape(u) /\ ShapeOf(th[u])
  BY Parts
<1>1. "rename" \notin ops
  <2>1. "readdir" \in ops /\ ops \in OpSets
    BY <1>0, Parts DEF ShapeOf, Shape
  <2> QED BY <2>1 DEF RenameAlone
<1>2. PICK level : LevelsBy(level)
  BY <1>1 DEF Levels
<1>3. /\ \A n \in Nodes : level[n] \in Nat /\ level[n] <= MaxDepth
      /\ MaxDepth \in Nat
  BY <1>2, LocksAssumption DEF LevelsBy
<1> DEFINE Height(u) == MaxDepth - level[th[u].cur]
           S == {k \in Nat : \E u \in Threads : th[u].pc = "child" /\ k = Height(u)}
<1>4. ASSUME NEW u \in Threads, th[u].pc = "child"
      PROVE  Height(u) \in Nat /\ th[u].cur \in Nodes /\ th[u].node \in Nodes
             /\ level[th[u].cur] = level[th[u].node] + 1
  <2>1. th[u].cur \in Nodes /\ th[u].node \in Nodes
    BY <1>0, <1>4 DEF ShapeOf
  <2>2. level[th[u].cur] = level[th[u].node] + 1
    BY <1>2, <1>4 DEF LevelsBy, LevelOf
  <2> QED BY <1>3, <2>1, <2>2
<1>5. S # {} /\ S \subseteq Nat
  BY <1>4
<1>6. PICK k \in S : \A j \in S : ~(j < k)
  <2> HIDE DEF S
  <2> QED BY <1>5, Smallest
<1>7. PICK u \in Threads : th[u].pc = "child" /\ k = Height(u)
  OBVIOUS
<1>8. PICK m \in Nodes : m = th[u].cur
  BY <1>4, <1>7
<1>9. Call(u) = <<"RLock", m>>
  BY <1>7, <1>8, Calls
<1>10. PICK r \in Threads : th[r].pc = "child" /\ th[r].node = m
  BY <1>9, WaitsForReadDir
<1>11. level[th[r].cur] = level[m] + 1 /\ Height(r) \in Nat
  BY <1>4, <1>10
<1>12. Height(r) \in S
  BY <1>10, <1>11
<1>13. Height(r) < k
  BY <1>3, <1>4, <1>7, <1>8, <1>10, <1>11
<1> QED BY <1>6, <1>12, <1>13

\* Hence nobody waits for a node, and so nobody for fs.mu, whose holders would.
LEMMA NeverStandstill ==
  ASSUME IInv, RenameAlone, Levels
  PROVE  NoStandstill
<1> SUFFICES ASSUME Standstill, NEW t \in Threads, th[t].pc # "idle"
             PROVE  FALSE
  BY DEF NoStandstill, Standstill
<1>0. /\ "fs" \in Mutexes /\ "fs" \notin Nodes
      /\ \A u \in Threads : Shape(u) /\ ShapeOf(th[u]) /\ th[u].pc \in Pcs /\ th[u] \in Operations
  BY Parts, LocksAssumption DEF Mutexes, Operations
<1>1. ASSUME NEW u \in Threads, NEW n \in Nodes, Call(u) \in {<<"Lock", n>>, <<"RLock", n>>}
      PROVE  FALSE
  BY <1>1, WaitsForReadDir, NobodyAtChild
<1>2. ASSUME NEW u \in Threads PROVE th[u].pc \in {"idle", "fsR", "fsW"}
  <2>1. th[u].pc \notin {"next", "delete", "put"}
    BY WaiterKeeps
  <2>2. th[u].pc \notin {"get", "list0", "list1", "set"}
    BY <1>0, <1>1, Calls DEF ShapeOf
  <2>3. th[u].pc \notin {"walk", "child", "enter", "unlink", "to"}
    BY <1>0, <1>1, Calls DEF ShapeOf
  <2>4. th[u].pc # "old"
    BY <1>0, <1>1, Calls DEF Shape
  <2> QED BY <1>0, <2>1, <2>2, <2>3, <2>4 DEF Pcs
<1>3. Call(t) \in {<<"Lock", "fs">>, <<"RLock", "fs">>}
  BY <1>2, Calls
<1>4. ASSUME NEW r \in Threads PROVE ~KeptRead(th[r], "fs") /\ ~KeptWrite(th[r], "fs")
  <2>1. th[r].pc \in {"idle", "fsR", "fsW"}
    BY <1>2
  <2> QED BY <2>1 DEF KeptRead, KeptWrite
<1> QED BY <1>0, <1>3, <1>4, WaitsFor

\* Unless Rename is called together with ReadDir or Unlink, of the goroutines inside
\* a call one at least can take its next step: the locks of memory_fs.go cannot all
\* wait for each other.
THEOREM NoDeadlock ==
  ASSUME RenameAlone
  PROVE  Spec => []NoStandstill
<1>1. RenameApart
  BY DEF RenameApart, RenameAlone
<1>2. Spec => []IInv
  BY <1>1, Invariance
<1>3. IInv /\ Levels /\ [Next]_vars => Levels'
  BY LevelsKeep
<1>4. IInv /\ Levels => NoStandstill
  BY NeverStandstill
<1> QED BY <1>2, <1>3, <1>4, InitLevels, PTL DEF Spec
================================================================================
