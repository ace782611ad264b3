------------------------------ MODULE GhostFiles ------------------------------
(***************************************************************************)
(* The ghost-file registry of a share in honeypot mode (DiscardWrites),    *)
(* memoryshare/memory_fs.go: a file a client creates exists only in its    *)
(* open handle; Close registers it as a ghost of the session, so that the  *)
(* session can open it again; ghosts are evicted by limits per session and *)
(* for all sessions, and by a goroutine that drops the ones nobody touched *)
(* for three minutes.                                                      *)
(*                                                                         *)
(* The registry is three shared objects that no lock ties together:        *)
(* ghostFiles (a sync.Map), ghostMemoryUsage (a sync.Map) and              *)
(* ghostMemoryGlobal (an atomic).  Every access to one of them is a step.  *)
(* A session calls Open and Close from one goroutine (its connection's     *)
(* dispatcher) and Write from any.                                         *)
(***************************************************************************)
EXTENDS Integers, FiniteSets, FiniteSetsExt

CONSTANTS
  Sessions,   \* SMB session ids
  Paths,      \* file paths
  TreeFiles,  \* the paths at which the share has a file of its own
  Nodes,      \* MemoryNodes for created files: bound on those alive at a time
  Handles,    \* handles: bound on those open at a time
  MaxSize,    \* bound: size of a file
  MaxFiles,   \* maxGhostFilesPerSession
  MaxMem,     \* maxGhostMemoryPerSession
  MaxGlobal,  \* maxGhostMemoryGlobal
  Expiry,     \* expirationTime of the cleanup goroutine
  MaxTime,    \* bound: the clock
  CtxOps,     \* the operations whose caller has called SetOperationContext
  Cleaner,    \* the cleanup goroutine
  None

ASSUME GhostAssumption ==
  /\ TreeFiles \subseteq Paths
  /\ Nodes \cap Paths = {}
  /\ MaxFiles \in Nat /\ MaxMem \in Nat /\ MaxGlobal \in Nat
  /\ MaxSize \in Nat /\ MaxTime \in Nat /\ Expiry \in Nat
  /\ CtxOps \subseteq {"open", "close"}
  /\ Cleaner \notin Sessions
  /\ None \notin Sessions \cup Paths \cup Nodes \cup Handles
  /\ IsFiniteSet(Paths)

Actors == Sessions \cup {Cleaner}
AllNodes == Nodes \cup TreeFiles          \* a file of the share is its own node

\* A key that forgets the session.
makeGhostKey_PathOnly(s, p) == <<CHOOSE t \in Sessions : TRUE, p>>

\* The registry's key, "sessionID:path".
makeGhostKey(s, p) == <<s, p>>
Keys == Sessions \X Paths

OpenFile == [session : Sessions, path : Paths, node : AllNodes]
Ghost == [node : AllNodes, size : Nat, lastAccess : Nat]

\* What ImplementsCache shows of a handle, and of the one being closed.
OpenView == [key : Keys, node : AllNodes]
ClosingView == [handle : Handles, room : Nat, cached : BOOLEAN]

\* nil is none of the records, and no number of bytes.
ASSUME NoneAssumption ==
  /\ None \notin OpenFile /\ None \notin Ghost /\ None \notin Int
  /\ None \notin OpenView /\ None \notin ClosingView

VARIABLES
  now,         \* time.Now()
  openFiles,   \* MemoryFS.openFiles: handle -> OpenFile or None
  size,        \* MemoryNode.size
  creator,     \* history: the session that created each node, or None
  ghostFiles,  \* MemoryFS.ghostFiles: key -> Ghost or None
  usage,       \* MemoryFS.ghostMemoryUsage: session -> bytes, or None
  global,      \* MemoryFS.ghostMemoryGlobal
  pc,          \* each goroutine's next step
  job,         \* Close: the handle being closed
  fileSize,    \* addGhostFile: fileSize
  mem,         \* addGhostFile: currentMemory
  list,        \* addGhostFile: the paths in sessionGhostFiles
  seen,        \* addGhostFile: the ghosts of sessionGhostFiles, by path
  gmem,        \* addGhostFile: globalMemory
  victim,      \* removeGhostFile: the key, or None
  vsize,       \* removeGhostFile: ghost.size
  vmem,        \* removeGhostFile: currentMem
  caller       \* removeGhostFile: "session", "global" or "clean"

fsVars == <<now, openFiles, size, creator>>
regVars == <<ghostFiles, usage, global>>
addVars == <<job, fileSize, mem, list, seen, gmem>>
rmVars == <<victim, vsize, vmem, caller>>
vars == <<fsVars, regVars, pc, addVars, rmVars>>

NoGhost == [size |-> 0, lastAccess |-> 0]

(* NewMemoryFS, with the files of the share already added.                 *)
Init ==
  /\ now = 0
  /\ openFiles = [h \in Handles |-> None]
  /\ size = [n \in AllNodes |-> IF n \in Nodes THEN 0 ELSE 1]
  /\ creator = [n \in AllNodes |-> None]
  /\ ghostFiles = [k \in Keys |-> None]
  /\ usage = [s \in Sessions |-> None]
  /\ global = 0
  /\ pc = [a \in Actors |-> "idle"]
  /\ job = [s \in Sessions |-> None]
  /\ fileSize = [s \in Sessions |-> 0]
  /\ mem = [s \in Sessions |-> 0]
  /\ list = [s \in Sessions |-> {}]
  /\ seen = [s \in Sessions |-> [p \in Paths |-> NoGhost]]
  /\ gmem = [s \in Sessions |-> 0]
  /\ victim = [a \in Actors |-> None]
  /\ vsize = [a \in Actors |-> 0]
  /\ vmem = [a \in Actors |-> None]
  /\ caller = [a \in Actors |-> "clean"]

Tick ==
  /\ now < MaxTime
  /\ now' = now + 1
  /\ UNCHANGED <<openFiles, size, creator, regVars, pc, addVars, rmVars>>

-----------------------------------------------------------------------------
(* Open and Write.                                                         *)

\* The node is reachable: from a handle or from the registry.
InUse(n) == \/ \E h \in Handles : openFiles[h] # None /\ openFiles[h].node = n
            \/ \E k \in Keys : ghostFiles[k] # None /\ ghostFiles[k].node = n

Opened(s, h, p, n) ==
  /\ openFiles[h] = None
  /\ openFiles' = [openFiles EXCEPT ![h] = [session |-> s, path |-> p, node |-> n]]

\* resolvePath finds a file of the share.
OpenTree(s, h, p) ==
  /\ pc[s] = "idle"
  /\ p \in TreeFiles
  /\ Opened(s, h, p, p)
  /\ UNCHANGED <<now, size, creator, regVars, pc, addVars, rmVars>>

\* O_CREATE: a new node that only the handle knows, whether or not the
\* session has a ghost at this path.
OpenCreate(s, h, p, n) ==
  /\ pc[s] = "idle"
  /\ p \notin TreeFiles
  /\ ~InUse(n)
  /\ Opened(s, h, p, n)
  /\ size' = [size EXCEPT ![n] = 0]
  /\ creator' = [creator EXCEPT ![n] = s]
  /\ UNCHANGED <<now, regVars, pc, addVars, rmVars>>

\* Without O_CREATE: getGhostFile, which looks under the caller's context.
OpenGhost(s, h, p) ==
  LET k == makeGhostKey(s, p) IN
  /\ pc[s] = "idle"
  /\ p \notin TreeFiles
  /\ "open" \in CtxOps
  /\ ghostFiles[k] # None
  /\ ghostFiles' = [ghostFiles EXCEPT ![k].lastAccess = now]
  /\ Opened(s, h, p, ghostFiles[k].node)
  /\ UNCHANGED <<now, size, creator, usage, global, pc, addVars, rmVars>>

\* A write is discarded except for the size it would give the file.
Write(h, endOffset) ==
  /\ openFiles[h] # None
  /\ endOffset > size[openFiles[h].node]
  /\ size' = [size EXCEPT ![openFiles[h].node] = endOffset]
  /\ UNCHANGED <<now, openFiles, creator, regVars, pc, addVars, rmVars>>

-----------------------------------------------------------------------------
(* Close, which is getGhostFile or addGhostFile.                           *)

At(a, label) == pc[a] = label
Goto(a, label) == pc' = [pc EXCEPT ![a] = label]

Path(s) == openFiles[job[s]].path
Node(s) == openFiles[job[s]].node
MyKey(s) == makeGhostKey(s, Path(s))

\* The handle is deleted before the file is registered.
Close_DeletesFirst(s, h) ==
  /\ At(s, "idle")
  /\ openFiles[h] # None
  /\ openFiles[h].session = s
  /\ openFiles' = [openFiles EXCEPT ![h] = None]
  /\ job' = [job EXCEPT ![s] = h]
  /\ Goto(s, "usage")
  /\ UNCHANGED <<now, size, creator, regVars, fileSize, mem, list, seen, gmem, rmVars>>

Close(s, h) ==
  LET k == makeGhostKey(s, openFiles[h].path) IN
  /\ At(s, "idle")
  /\ openFiles[h] # None
  /\ openFiles[h].session = s
  /\ job' = [job EXCEPT ![s] = h]
  /\ \/ /\ "close" \notin CtxOps          \* no context: nothing is registered
        /\ Goto(s, "unlink")
        /\ UNCHANGED ghostFiles
     \/ /\ "close" \in CtxOps
        /\ ghostFiles[k] # None
        /\ ghostFiles' = [ghostFiles EXCEPT ![k].lastAccess = now]
        /\ Goto(s, "unlink")
     \/ /\ "close" \in CtxOps
        /\ ghostFiles[k] = None
        /\ Goto(s, "usage")
        /\ UNCHANGED ghostFiles
  /\ UNCHANGED <<fsVars, usage, global, fileSize, mem, list, seen, gmem, rmVars>>

LoadUsage(s) ==
  /\ At(s, "usage")
  /\ fileSize' = [fileSize EXCEPT ![s] = size[Node(s)]]
  /\ mem' = [mem EXCEPT ![s] = IF usage[s] = None THEN 0 ELSE usage[s]]
  /\ Goto(s, "scan")
  /\ UNCHANGED <<fsVars, regVars, job, list, seen, gmem, rmVars>>

GhostPaths(s) == {p \in Paths : ghostFiles[<<s, p>>] # None}

Scan(s) ==
  /\ At(s, "scan")
  /\ list' = [list EXCEPT ![s] = GhostPaths(s)]
  /\ seen' = [seen EXCEPT ![s] = [p \in Paths |->
                IF p \notin GhostPaths(s) THEN NoGhost
                ELSE [size |-> ghostFiles[<<s, p>>].size,
                      lastAccess |-> ghostFiles[<<s, p>>].lastAccess]]]
  /\ Goto(s, "evict")
  /\ UNCHANGED <<fsVars, regVars, job, fileSize, mem, gmem, rmVars>>

\* The limit compared before the new ghost is counted.
OverSession_OffByOne(s) ==
  \/ Cardinality(list[s]) > MaxFiles
  \/ mem[s] + fileSize[s] > MaxMem

\* Only the number of files is compared.
OverSession_CountOnly(s) == Cardinality(list[s]) >= MaxFiles

\* The condition of the first loop.
OverSession(s) ==
  \/ Cardinality(list[s]) >= MaxFiles
  \/ mem[s] + fileSize[s] > MaxMem

\* Any ghost of the working list.
Oldest_Any(s, p) == p \in list[s]

\* The least recently used ghost of the working list.
Oldest(s, p) ==
  /\ p \in list[s]
  /\ \A q \in list[s] : seen[s][p].lastAccess <= seen[s][q].lastAccess

EvictSession(s) ==
  /\ At(s, "evict")
  /\ OverSession(s)
  /\ \E p \in Paths : Oldest(s, p) /\ victim' = [victim EXCEPT ![s] = <<s, p>>]
  /\ caller' = [caller EXCEPT ![s] = "session"]
  /\ Goto(s, "rmload")
  /\ UNCHANGED <<fsVars, regVars, addVars, vsize, vmem>>

EvictDone(s) ==
  /\ At(s, "evict")
  /\ ~OverSession(s) \/ list[s] = {}
  /\ Goto(s, "gload")
  /\ UNCHANGED <<fsVars, regVars, addVars, rmVars>>

LoadGlobal(s) ==
  /\ At(s, "gload")
  /\ gmem' = [gmem EXCEPT ![s] = global]
  /\ Goto(s, "gevict")
  /\ UNCHANGED <<fsVars, regVars, job, fileSize, mem, list, seen, rmVars>>

\* The file to be added is not counted.
OverGlobal_BeforeAdd(s) == gmem[s] > MaxGlobal

\* The condition of the second loop.
OverGlobal(s) == gmem[s] + fileSize[s] > MaxGlobal /\ gmem[s] > 0

Registered == {k \in Keys : ghostFiles[k] # None}

EvictGlobal(s) ==
  /\ At(s, "gevict")
  /\ OverGlobal(s)
  /\ \E k \in Registered :
       /\ \A j \in Registered : ghostFiles[k].lastAccess <= ghostFiles[j].lastAccess
       /\ victim' = [victim EXCEPT ![s] = k]
  /\ caller' = [caller EXCEPT ![s] = "global"]
  /\ Goto(s, "rmload")
  /\ UNCHANGED <<fsVars, regVars, addVars, vsize, vmem>>

\* A file too large for the limits is not registered.
GlobalDone_TooLarge(s) ==
  /\ At(s, "gevict")
  /\ ~OverGlobal(s) \/ Registered = {}
  /\ Goto(s, IF fileSize[s] > MaxGlobal THEN "unlink" ELSE "store")
  /\ UNCHANGED <<fsVars, regVars, addVars, rmVars>>

GlobalDone(s) ==
  /\ At(s, "gevict")
  /\ ~OverGlobal(s) \/ Registered = {}
  /\ Goto(s, "store")
  /\ UNCHANGED <<fsVars, regVars, addVars, rmVars>>

StoreGhost(s) ==
  /\ At(s, "store")
  /\ ghostFiles' = [ghostFiles EXCEPT ![MyKey(s)] =
       [node |-> Node(s), size |-> fileSize[s], lastAccess |-> now]]
  /\ Goto(s, "ustore")
  /\ UNCHANGED <<fsVars, usage, global, addVars, rmVars>>

StoreUsage(s) ==
  /\ At(s, "ustore")
  /\ usage' = [usage EXCEPT ![s] = mem[s] + fileSize[s]]
  /\ Goto(s, "gadd")
  /\ UNCHANGED <<fsVars, ghostFiles, global, addVars, rmVars>>

AddGlobal(s) ==
  /\ At(s, "gadd")
  /\ global' = global + fileSize[s]
  /\ Goto(s, "unlink")
  /\ UNCHANGED <<fsVars, ghostFiles, usage, addVars, rmVars>>

\* openFiles.Delete; Close returns.
Unlink(s) ==
  /\ At(s, "unlink")
  /\ openFiles' = [openFiles EXCEPT ![job[s]] = None]
  /\ job' = [job EXCEPT ![s] = None]
  /\ fileSize' = [fileSize EXCEPT ![s] = 0]
  /\ mem' = [mem EXCEPT ![s] = 0]
  /\ list' = [list EXCEPT ![s] = {}]
  /\ seen' = [seen EXCEPT ![s] = [p \in Paths |-> NoGhost]]
  /\ gmem' = [gmem EXCEPT ![s] = 0]
  /\ Goto(s, "idle")
  /\ UNCHANGED <<now, size, creator, regVars, rmVars>>

-----------------------------------------------------------------------------
(* removeGhostFile(victim), called by both loops of addGhostFile and by    *)
(* the cleanup goroutine.                                                  *)

RmLoad(a) ==
  /\ At(a, "rmload")
  /\ \/ /\ ghostFiles[victim[a]] = None       \* someone else has removed it
        /\ Goto(a, "rmdelete")
        /\ UNCHANGED vsize
     \/ /\ ghostFiles[victim[a]] # None
        /\ vsize' = [vsize EXCEPT ![a] = ghostFiles[victim[a]].size]
        /\ Goto(a, "rmusage")
  /\ UNCHANGED <<fsVars, regVars, addVars, victim, vmem, caller>>

RmUsage(a) ==
  /\ At(a, "rmusage")
  /\ vmem' = [vmem EXCEPT ![a] = usage[victim[a][1]]]
  /\ Goto(a, IF usage[victim[a][1]] = None THEN "rmglobal" ELSE "rmstore")
  /\ UNCHANGED <<fsVars, regVars, addVars, victim, vsize, caller>>

RmStore(a) ==
  LET newMem == vmem[a] - vsize[a] IN
  /\ At(a, "rmstore")
  /\ usage' = [usage EXCEPT ![victim[a][1]] = IF newMem <= 0 THEN None ELSE newMem]
  /\ Goto(a, "rmglobal")
  /\ UNCHANGED <<fsVars, ghostFiles, global, addVars, rmVars>>

\* The global counter is left as it is.
RmGlobal_Forgotten(a) ==
  /\ At(a, "rmglobal")
  /\ Goto(a, "rmdelete")
  /\ UNCHANGED <<fsVars, regVars, addVars, rmVars>>

RmGlobal(a) ==
  /\ At(a, "rmglobal")
  /\ global' = global - vsize[a]
  /\ Goto(a, "rmdelete")
  /\ UNCHANGED <<fsVars, ghostFiles, usage, addVars, rmVars>>

\* ghostFiles.Delete and the return to the caller, whose working list and
\* currentMemory lose the victim if it is a ghost of the same session.
RmDelete(a) ==
  LET v == victim[a]
      own == a \in Sessions /\ v[1] = a
  IN
  /\ At(a, "rmdelete")
  /\ ghostFiles' = [ghostFiles EXCEPT ![v] = None]
  /\ mem' = IF own THEN [mem EXCEPT ![a] = @ - seen[a][v[2]].size] ELSE mem
  /\ list' = IF own THEN [list EXCEPT ![a] = @ \ {v[2]}] ELSE list
  /\ Goto(a, IF caller[a] = "session" THEN "evict"
             ELSE IF caller[a] = "global" THEN "gload" ELSE "idle")
  /\ victim' = [victim EXCEPT ![a] = None]
  /\ vsize' = [vsize EXCEPT ![a] = 0]
  /\ vmem' = [vmem EXCEPT ![a] = None]
  /\ caller' = [caller EXCEPT ![a] = "clean"]
  /\ UNCHANGED <<fsVars, usage, global, job, fileSize, seen, gmem>>

-----------------------------------------------------------------------------
(* cleanupGhostFiles: at a tick of its timer the goroutine meets a ghost   *)
(* that is too old.                                                        *)

Expired(k) == ghostFiles[k] # None /\ now - ghostFiles[k].lastAccess > Expiry

\* Too late by one.
Clean_Late(k) ==
  /\ At(Cleaner, "idle")
  /\ Expired(k) /\ now - ghostFiles[k].lastAccess > Expiry + 1
  /\ victim' = [victim EXCEPT ![Cleaner] = k]
  /\ caller' = [caller EXCEPT ![Cleaner] = "clean"]
  /\ Goto(Cleaner, "rmload")
  /\ UNCHANGED <<fsVars, regVars, addVars, vsize, vmem>>

Clean(k) ==
  /\ At(Cleaner, "idle")
  /\ Expired(k)
  /\ victim' = [victim EXCEPT ![Cleaner] = k]
  /\ caller' = [caller EXCEPT ![Cleaner] = "clean"]
  /\ Goto(Cleaner, "rmload")
  /\ UNCHANGED <<fsVars, regVars, addVars, vsize, vmem>>

-----------------------------------------------------------------------------
addGhostFile(s) == \/ LoadUsage(s) \/ Scan(s)
                   \/ EvictSession(s) \/ EvictDone(s)
                   \/ LoadGlobal(s) \/ EvictGlobal(s) \/ GlobalDone(s)
                   \/ StoreGhost(s) \/ StoreUsage(s) \/ AddGlobal(s) \/ Unlink(s)
removeGhostFile(a) == RmLoad(a) \/ RmUsage(a) \/ RmStore(a) \/ RmGlobal(a) \/ RmDelete(a)
Cleanup == \E k \in Keys : Clean(k)

Open(s) == \E h \in Handles, p \in Paths :
             \/ OpenTree(s, h, p)
             \/ \E n \in Nodes : OpenCreate(s, h, p, n)
             \/ OpenGhost(s, h, p)

Next ==
  \/ Tick
  \/ \E s \in Sessions : Open(s)
  \/ \E h \in Handles, e \in 1..MaxSize : Write(h, e)
  \/ \E s \in Sessions, h \in Handles : Close(s, h)
  \/ \E s \in Sessions : addGhostFile(s)
  \/ \E a \in Actors : removeGhostFile(a)
  \/ Cleanup

Spec == Init /\ [][Next]_vars

\* The cleanup goroutine has its ticker, and a Close that has begun goes on.
Fairness ==
  /\ WF_vars(Cleanup \/ removeGhostFile(Cleaner))
  /\ \A s \in Sessions : WF_vars(addGhostFile(s) \/ removeGhostFile(s))

FairSpec == Spec /\ Fairness

\* Nobody is inside Close or a clean-up.
AtRest == \A a \in Actors : pc[a] = "idle"

\* Sessions that take turns, none of whose ghosts is old enough to expire: one
\* opens or closes a file when no other is inside Close.
TurnsNext ==
  \/ Tick
  \/ \E s \in Sessions : AtRest /\ Open(s)
  \/ \E h \in Handles, e \in 1..MaxSize : Write(h, e)
  \/ \E s \in Sessions, h \in Handles : AtRest /\ Close(s, h)
  \/ \E s \in Sessions : addGhostFile(s)
  \/ \E s \in Sessions : removeGhostFile(s)

TurnsSpec == Init /\ [][TurnsNext]_vars

-----------------------------------------------------------------------------
(* Properties.                                                             *)

Removing == {"rmload", "rmusage", "rmstore", "rmglobal", "rmdelete"}
Labels == Removing \cup {"idle", "usage", "scan", "evict", "gload", "gevict",
                         "store", "ustore", "gadd", "unlink"}

\* What a goroutine works on while it is inside Close or removeGhostFile.
Stages ==
  /\ pc[Cleaner] \in {"idle"} \cup Removing /\ caller[Cleaner] = "clean"
  /\ \A a \in Actors : pc[a] \in Removing =>
       /\ victim[a] \in Keys
       /\ a \in Sessions => caller[a] # "clean"
       /\ pc[a] = "rmstore" => vmem[a] \in Int
  /\ \A s \in Sessions : pc[s] # "idle" =>
       /\ job[s] \in Handles
       /\ openFiles[job[s]] # None
       /\ openFiles[job[s]].session = s

\* Every variable keeps its type, and the handle a session is closing stays in
\* openFiles until its file has been registered.
TypeOK ==
  /\ now \in Nat
  /\ openFiles \in [Handles -> OpenFile \cup {None}]
  /\ size \in [AllNodes -> Nat]
  /\ creator \in [AllNodes -> Sessions \cup {None}]
  /\ ghostFiles \in [Keys -> Ghost \cup {None}]
  /\ usage \in [Sessions -> Int \cup {None}]
  /\ global \in Int
  /\ pc \in [Actors -> Labels]
  /\ job \in [Sessions -> Handles \cup {None}]
  /\ fileSize \in [Sessions -> Nat]
  /\ mem \in [Sessions -> Int]
  /\ list \in [Sessions -> SUBSET Paths]
  /\ seen \in [Sessions -> [Paths -> [size : Nat, lastAccess : Nat]]]
  /\ gmem \in [Sessions -> Int]
  /\ victim \in [Actors -> Keys \cup {None}]
  /\ vsize \in [Actors -> Nat]
  /\ vmem \in [Actors -> Int \cup {None}]
  /\ caller \in [Actors -> {"session", "global", "clean"}]
  /\ Stages

\* addGhostFile "enforces per-session limits": a session never has more ghosts
\* than its limit (one, if the limit is 0), although the working list it
\* counts was read before other goroutines removed ghosts from the registry.
CountLimit ==
  \A s \in Sessions :
    Cardinality(GhostPaths(s)) <= IF MaxFiles = 0 THEN 1 ELSE MaxFiles

\* Ghost files are isolated per session: what a session opens is a file of the
\* share or a file it created itself, whichever session used the same path.
Isolation ==
  \A h \in Handles : openFiles[h] # None =>
    \/ openFiles[h].node \in TreeFiles
    \/ creator[openFiles[h].node] = openFiles[h].session

Bytes(K) == MapThenSumSet(LAMBDA k : ghostFiles[k].size, K)
Of(s) == {k \in Registered : k[1] = s}

\* ghostMemoryUsage and ghostMemoryGlobal are the sizes of the ghosts that are
\* registered, for each session and in all.
AccountingAtRest ==
  AtRest => /\ \A s \in Sessions : Bytes(Of(s)) = IF usage[s] = None THEN 0 ELSE usage[s]
            /\ Bytes(Registered) = global

\* The virtual size of a session's ghosts, and of all ghosts, exceeds its limit
\* only where a single file does so by itself.
MemoryLimited ==
  AtRest => /\ \A s \in Sessions : Bytes(Of(s)) > MaxMem => Cardinality(Of(s)) = 1
            /\ Bytes(Registered) > MaxGlobal =>
                 \E k \in Registered : Bytes(Registered) = ghostFiles[k].size

\* A file the session closes is a ghost when Close returns: "Close file.test
\* (becomes ghost file)", "Reopen file.test (from ghost registry - still
\* works!)" (README.md:196-197).
CloseRegisters ==
  \A s \in Sessions : At(s, "unlink") => ghostFiles[MyKey(s)] # None

\* LRU: the ghost that addGhostFile or the cleanup removes is one that has
\* expired or that no other ghost of its session is older than.
LeastRecentFirst ==
  [][\A k \in Keys : ghostFiles[k] # None /\ ghostFiles'[k] = None =>
       \/ Expired(k)
       \/ \A j \in Registered : j[1] = k[1] =>
            ghostFiles[k].lastAccess <= ghostFiles[j].lastAccess]_vars

\* The size of a ghost is the size of its file, once nobody has it open:
\* Write updates it "for accurate ghost file memory tracking"
\* (memoryshare/memory_fs.go:771).
SizeTracked ==
  AtRest => \A k \in Registered :
    \/ \E h \in Handles : openFiles[h] # None /\ openFiles[h].node = ghostFiles[k].node
    \/ ghostFiles[k].size = size[ghostFiles[k].node]

\* A ghost that nobody has touched for the expiration time is forgotten, or
\* somebody touches it before the cleanup gets to it.
Forgotten == \A k \in Keys : Expired(k) ~> ~Expired(k)

-----------------------------------------------------------------------------
(* The registry as a cache that its sessions share.                        *)

\* The session inside Close, if any.
TheSession == CHOOSE s \in Sessions : pc[s] # "idle" \/ \A t \in Sessions : pc[t] = "idle"

OpenOf ==
  [h \in Handles |->
     IF openFiles[h] = None THEN None
     ELSE [key |-> makeGhostKey(openFiles[h].session, openFiles[h].path),
           node |-> openFiles[h].node]]

\* From addGhostFile's reading of the size on; from the store on it is done.
ClosingOf ==
  LET s == TheSession IN
  IF pc[s] \in {"idle", "usage"} THEN None
  ELSE IF pc[s] \in {"ustore", "gadd", "unlink"}
       THEN [handle |-> job[s], room |-> 0, cached |-> TRUE]
  ELSE [handle |-> job[s], room |-> fileSize[s], cached |-> FALSE]

Cache == INSTANCE GhostCache
  WITH Files <- AllNodes, Shared <- TreeFiles, clock <- now, open <- OpenOf,
       cache <- ghostFiles, closing <- ClosingOf

\* Sessions that take turns, or one that is alone, have an LRU cache of the files
\* they close: although addGhostFile compares limits with counters and with a
\* list read before, and removes ghosts in five steps, it evicts exactly when and
\* what a cache does that compares them with its contents.
ImplementsCache == Cache!Spec
=============================================================================
