-------------------------------- MODULE FileTree --------------------------------
(* Trees, opens and the command handlers of the server: server/file_tree.go,   *)
(* ipc_tree.go and, of server.go, Run, the tree commands and the table of      *)
(* opens. One dispatcher per connection (Run) handles requests one after the   *)
(* other; a read or write outside a compound is left to a goroutine. The table *)
(* of opens and the file system are shared by all connections, and a handler   *)
(* uses them in several steps.                                                 *)
(*                                                                             *)
(* The file system behind the vfs interface is external here: a call on a path *)
(* may succeed or fail, a call on a handle fails if the handle is not open and *)
(* may fail otherwise; Open gives a random handle, which never comes twice.    *)
(* MemoryFS and NodeLocks model the one in memory. How responses are sent is   *)
(* the subject of Connection; here a response is its status, which the next    *)
(* requests of a compound see. A malformed request ends Run: that is RunReject *)
(* of Connection.                                                              *)
EXTENDS Naturals, Sequences

CONSTANTS
  Conns,      \* connections
  Workers,    \* goroutines for reads and writes: bound on those at a time
  Handles,    \* handles: bound on those ever given out
  TreeIds,    \* tree ids: bound on those ever given out
  Shares,     \* paths of shares as a client may write them
  Requests,   \* what each client sends: sequences of commands, a compound if several
  MaxRequests,   \* bound on the requests of each client
  None

Threads == Conns \cup Workers
Pipe == "IPC$"
Paths == Shares \cup {Pipe}

Dispositions == {"supersede", "open", "create", "open_if", "overwrite", "overwrite_if"}

Nowhere == "nowhere"   \* a path that names no share

\* FSCTL codes of IOCTL, and info types of QUERY_INFO.
Ioctls == {"reparse", "objectid", "ioctl"}
Queries == {"queryfile", "queryfs", "querysec", "quota", "badtype"}

\* Commands the file id of which matters.
OnHandle == {"close", "read", "write", "flush", "querydir", "setinfo", "queryfile", "querysec",
             "reparse", "objectid"}

Commands ==
  [op : {"create"}, disp : Dispositions, dir : BOOLEAN, stream : BOOLEAN, durable : BOOLEAN]
    \cup [op : {"connect"}, path : Paths \cup {Nowhere}]
    \cup [op : OnHandle \cup Ioctls \cup Queries
                 \cup {"disconnect", "lock", "cancel", "notify", "oplock"}]

\* An entry of Server.opens, a read or write in progress, and a dispatcher: the
\* commands left of the request, the tree and handle it names, the compound context
\* (fileId, lastStatus), and the registers of create and close.
Opens == [isEa : BOOLEAN]
Calls ==
  [op : {"read", "write"}, conn : Conns, h : Handles, ea : BOOLEAN, seen : Conns \cup {None},
   pc : {"start", "load", "apply", "applied", "refused"}]
Jobs ==
  [todo : Seq(Commands), tree : TreeIds \cup {None}, h : Handles \cup {None},
   related : BOOLEAN, fileId : Handles \cup {None}, failed : BOOLEAN,
   pc : {"idle", "next", "mkdir", "open", "stream", "add", "closing", "io"},
   new : Handles \cup {None}, isDir : BOOLEAN]

\* A TREE_CONNECT comes alone: the commands of a compound name a tree that its
\* client knows.
ASSUME FileTreeAssumption ==
  /\ Conns \cap Workers = {}
  /\ \A c \in Conns : \A r \in Requests[c] :
       /\ r \in Seq(Commands) /\ r # << >>
       /\ \A i \in 1..Len(r) : r[i].op = "connect" => Len(r) = 1
  /\ MaxRequests \in [Conns -> Nat]
  /\ None \notin Conns \cup Workers \cup Handles \cup TreeIds \cup Paths
  /\ None \notin Opens \cup Calls \cup [h : Handles, taken : BOOLEAN]

VARIABLES
  byName,     \* conn.treeMapByName: path -> tree id, or None
  byId,       \* conn.treeMapById: tree id -> path of the tree, or None
  treesOf,    \* tree ids each client was given
  dceReq,     \* ipcTree.dceReq, of each tree id: the kind of request, or None
  count,      \* requests each client has sent
  job,        \* what each dispatcher is doing
  alive,      \* Run has not returned
  opens,      \* Server.opens: handle -> the open's isEa, or None
  fsOpen,     \* handles open in the file system (openFiles)
  noAttr,     \* handles GetAttr failed for right after Open
  used,       \* handles given out so far
  issued,     \* handles clients were told
  io,         \* reads and writes in progress, of each thread
  opCtx,      \* contextMap: the operation context of each goroutine, a connection or None
  crashed     \* the process has panicked

treeVars == <<byName, byId, treesOf, dceReq>>
fileVars == <<opens, fsOpen, noAttr, used, issued>>
vars == <<treeVars, count, job, alive, fileVars, io, opCtx, crashed>>

\* A dispatcher that waits for a request.
Idle == [todo |-> << >>, tree |-> None, h |-> None, related |-> FALSE, fileId |-> None,
         failed |-> FALSE, pc |-> "idle", new |-> None, isDir |-> FALSE]

Init ==
  /\ byName = [c \in Conns |-> [p \in Paths |-> None]]
  /\ byId = [c \in Conns |-> [t \in TreeIds |-> None]]
  /\ treesOf = [c \in Conns |-> {}]
  /\ dceReq = [t \in TreeIds |-> None]
  /\ count = [c \in Conns |-> 0]
  /\ job = [c \in Conns |-> Idle]
  /\ alive = [c \in Conns |-> TRUE]
  /\ opens = [h \in Handles |-> None]
  /\ fsOpen = {} /\ noAttr = {} /\ used = {} /\ issued = {}
  /\ io = [t \in Threads |-> None]
  /\ opCtx = [t \in Threads |-> None]
  /\ crashed = FALSE

-----------------------------------------------------------------------------
(* The dispatcher.                                                             *)

Cmd(c) == Head(job[c].todo)

\* The next command is an op of a tree of the kind, and is to be handled.
Handling(c, pc) == ~crashed /\ alive[c] /\ job[c].pc = pc
Forwarded(c, op, pc) ==
  /\ Handling(c, pc)
  /\ Cmd(c).op = op
  /\ byId[c][job[c].tree] # None
  /\ ~(job[c].related /\ job[c].failed)
OnFiles(c, op) == Forwarded(c, op, "next") /\ byId[c][job[c].tree] # Pipe
OnPipe(c, op) == Forwarded(c, op, "next") /\ byId[c][job[c].tree] = Pipe

\* The dispatcher after the current command, answered with success or failure.
After(j, ok) ==
  IF Len(j.todo) = 1 THEN Idle
  ELSE [j EXCEPT !.todo = Tail(j.todo), !.failed = ~ok, !.pc = "next", !.new = None]

Reply(c, ok) == job' = [job EXCEPT ![c] = After(job[c], ok)]

\* The handler returned an error: Run returns.
Fail(c) ==
  /\ alive' = [alive EXCEPT ![c] = FALSE]
  /\ job' = [job EXCEPT ![c] = Idle]

\* A request arrives, with the tree id and the file id the client chose. In a
\* compound of related requests the context carries the file id of a CREATE.
Receive(c) ==
  /\ Handling(c, "idle")
  /\ count[c] < MaxRequests[c]
  /\ count' = [count EXCEPT ![c] = @ + 1]
  /\ \E r \in Requests[c], h \in issued \cup {None}, t \in treesOf[c] \cup {None} :
       /\ t = None <=> r[1].op = "connect"
       /\ h # None => r[1].op \in OnHandle
       /\ job' = [job EXCEPT ![c] = [Idle EXCEPT !.todo = r, !.tree = t, !.h = h,
                                        !.related = Len(r) > 1, !.pc = "next"]]
  /\ UNCHANGED <<treeVars, alive, fileVars, io, opCtx, crashed>>

\* A command for a tree that is not connected ends Run.
NoTree(c) ==
  /\ Handling(c, "next")
  /\ Cmd(c).op \notin {"connect", "disconnect"}
  /\ byId[c][job[c].tree] = None
  /\ Fail(c)
  /\ UNCHANGED <<treeVars, fileVars, io, opCtx, crashed>>

\* After a failure the rest of a compound is answered with the same status.
Skip(c) ==
  /\ Handling(c, "next")
  /\ job[c].related /\ job[c].failed
  /\ Cmd(c).op \notin {"connect", "disconnect"}
  /\ byId[c][job[c].tree] # None
  /\ Reply(c, FALSE)
  /\ UNCHANGED <<treeVars, alive, fileVars, io, opCtx, crashed>>

\* The file id of a compound's CREATE takes precedence over the packet's.
FileIdOf(c) == IF job[c].related /\ job[c].fileId # None THEN job[c].fileId ELSE job[c].h

getOpen(h) == IF h = None THEN None ELSE opens[h]

-----------------------------------------------------------------------------
(* Trees.                                                                      *)

\* A path that is connected already gives the tree it has; one that names no
\* share ends Run.
treeConnect(c) ==
  /\ Handling(c, "next") /\ Cmd(c).op = "connect"
  /\ LET p == Cmd(c).path IN
     \/ /\ p = Nowhere
        /\ Fail(c)
        /\ UNCHANGED treeVars
     \/ /\ p # Nowhere /\ byName[c][p] # None
        /\ Reply(c, TRUE)
        /\ UNCHANGED <<treeVars, alive>>
     \/ /\ p # Nowhere /\ byName[c][p] = None
        /\ \E t \in TreeIds :
             /\ \A d \in Conns : t \notin treesOf[d]
             /\ byName' = [byName EXCEPT ![c][p] = t]
             /\ byId' = [byId EXCEPT ![c][t] = p]
             /\ treesOf' = [treesOf EXCEPT ![c] = @ \cup {t}]
        /\ Reply(c, TRUE)
        /\ UNCHANGED <<dceReq, alive>>
  /\ UNCHANGED <<fileVars, io, opCtx, crashed>>

treeDisconnect_ById(c) ==
  /\ Handling(c, "next") /\ Cmd(c).op = "disconnect"
  /\ LET t == job[c].tree IN
     /\ byId' = [byId EXCEPT ![c][t] = None]
     /\ crashed' = (byId[c][t] = None)
  /\ Reply(c, TRUE)
  /\ UNCHANGED <<byName, treesOf, dceReq, alive, fileVars, io, opCtx>>

\* An unknown tree id leaves a nil interface, on which getTree is called.
treeDisconnect(c) ==
  /\ Handling(c, "next") /\ Cmd(c).op = "disconnect"
  /\ LET t == job[c].tree
         p == byId[c][t] IN
     IF p = None
     THEN crashed' = TRUE /\ UNCHANGED <<byName, byId>>
     ELSE /\ byName' = [byName EXCEPT ![c][p] = None]
          /\ byId' = [byId EXCEPT ![c][t] = None]
          /\ UNCHANGED crashed
  /\ Reply(c, TRUE)
  /\ UNCHANGED <<treesOf, dceReq, alive, fileVars, io, opCtx>>

-----------------------------------------------------------------------------
(* CREATE.                                                                     *)

\* What Lookup found does not allow the disposition asked for.
Refused(q, exists, isDir) ==
  \/ exists /\ ~isDir /\ q.dir
  \/ q.stream /\ ~exists
  \/ q.disp \in {"open", "overwrite"} /\ ~exists
  \/ q.disp = "create" /\ exists

Mkdirs(q, exists) == q.dir /\ ~exists /\ q.disp \in {"open_if", "create"}

CreateLookup(c) ==
  /\ OnFiles(c, "create")
  /\ \E exists, isDir \in BOOLEAN :
       /\ isDir => exists
       /\ IF Refused(Cmd(c), exists, isDir) THEN Reply(c, FALSE)
          ELSE job' = [job EXCEPT
                 ![c].pc = IF Mkdirs(Cmd(c), exists) THEN "mkdir" ELSE "open",
                 ![c].isDir = isDir \/ Mkdirs(Cmd(c), exists)]
  /\ UNCHANGED <<treeVars, alive, fileVars, io, opCtx, crashed>>

CreateMkdir(c) ==
  /\ Forwarded(c, "create", "mkdir")
  /\ \/ Reply(c, FALSE)
     \/ job' = [job EXCEPT ![c].pc = "open"]
  /\ UNCHANGED <<treeVars, alive, fileVars, io, opCtx, crashed>>

\* Open or OpenDir, and GetAttr, after the failure of which nobody closes the
\* handle. A stream is looked for next, if the name has one.
CreateOpen(c) ==
  /\ Forwarded(c, "create", "open")
  /\ \/ Reply(c, FALSE) /\ UNCHANGED fileVars
     \/ \E h \in Handles \ used :
          /\ used' = used \cup {h}
          /\ fsOpen' = fsOpen \cup {h}
          /\ \/ /\ job' = [job EXCEPT ![c].new = h,
                                      ![c].pc = IF Cmd(c).stream THEN "stream" ELSE "add"]
                /\ UNCHANGED noAttr
             \/ Reply(c, FALSE) /\ noAttr' = noAttr \cup {h}
          /\ UNCHANGED <<opens, issued>>
  /\ UNCHANGED <<treeVars, alive, io, opCtx, crashed>>

handleCreateEA_KeepsHandle(c) ==
  /\ Forwarded(c, "create", "stream")
  /\ Reply(c, FALSE)
  /\ UNCHANGED <<treeVars, alive, fileVars, io, opCtx, crashed>>

\* The stream may have to exist, or must not, or is made; on failure the handle
\* is closed again.
handleCreateEA(c) ==
  /\ Forwarded(c, "create", "stream")
  /\ \/ /\ job' = [job EXCEPT ![c].pc = "add"]
        /\ UNCHANGED fsOpen
     \/ /\ Reply(c, FALSE)
        /\ fsOpen' = fsOpen \ {job[c].new}
  /\ UNCHANGED <<treeVars, alive, opens, noAttr, used, issued, io, opCtx, crashed>>

\* addOpen, and the response. A durable open is also entered in opensByGuid, a
\* map nobody made.
CreateAdd(c) ==
  /\ Forwarded(c, "create", "add")
  /\ LET h == job[c].new IN
     /\ opens' = [opens EXCEPT ![h] = [isEa |-> Cmd(c).stream]]
     /\ issued' = IF Cmd(c).durable THEN issued ELSE issued \cup {h}
     /\ crashed' = Cmd(c).durable
     /\ job' = [job EXCEPT ![c] = [After(job[c], TRUE) EXCEPT
                  !.fileId = IF Len(job[c].todo) > 1 THEN h ELSE None]]
  /\ UNCHANGED <<treeVars, alive, fsOpen, noAttr, used, io, opCtx>>

-----------------------------------------------------------------------------
(* CLOSE. Whether the handle is open is not asked.                             *)

Close_KeepsOpen(c) ==
  /\ OnFiles(c, "close")
  /\ LET h == FileIdOf(c) IN
     IF h = None
     THEN Reply(c, FALSE)
     ELSE job' = [job EXCEPT ![c].pc = "closing", ![c].new = h]
  /\ UNCHANGED <<treeVars, alive, fileVars, io, opCtx, crashed>>

\* deleteOpen.
Close(c) ==
  /\ OnFiles(c, "close")
  /\ LET h == FileIdOf(c) IN
     IF h = None
     THEN Reply(c, FALSE) /\ UNCHANGED opens
     ELSE /\ opens' = [opens EXCEPT ![h] = None]
          /\ job' = [job EXCEPT ![c].pc = "closing", ![c].new = h]
  /\ UNCHANGED <<treeVars, alive, fsOpen, noAttr, used, issued, io, opCtx, crashed>>

\* The file system's Close, its result unused, and the response.
CloseRelease(c) ==
  /\ Handling(c, "closing")
  /\ fsOpen' = fsOpen \ {job[c].new}
  /\ Reply(c, TRUE)
  /\ UNCHANGED <<treeVars, alive, opens, noAttr, used, issued, io, opCtx, crashed>>

-----------------------------------------------------------------------------
(* READ and WRITE.                                                             *)

\* The call that begins.
Call(c, op, h, ea) ==
  [op |-> op, conn |-> c, h |-> h, ea |-> ea, seen |-> None,
   pc |-> IF op = "write" THEN "start" ELSE "load"]

\* A goroutine takes the call, and the dispatcher goes on.
Spawn(c, call) ==
  /\ \E w \in Workers : io[w] = None /\ io' = [io EXCEPT ![w] = call]
  /\ Reply(c, TRUE)

BeginIO_AnyHandle(c, op) ==
  /\ OnFiles(c, op)
  /\ LET h == FileIdOf(c) IN
     IF h = None THEN Reply(c, FALSE) /\ UNCHANGED io
     ELSE Spawn(c, Call(c, op, h, FALSE))
  /\ UNCHANGED <<treeVars, alive, fileVars, opCtx, crashed>>

BeginIO_NilId(c, op) ==
  /\ OnFiles(c, op)
  /\ Spawn(c, Call(c, op, FileIdOf(c), FALSE))
  /\ UNCHANGED <<treeVars, alive, fileVars, opCtx, crashed>>

\* Without an open an error; in a compound, or on a stream, the dispatcher does
\* it itself.
BeginIO(c, op) ==
  /\ OnFiles(c, op)
  /\ LET h == FileIdOf(c)
         open == getOpen(h) IN
     IF open = None THEN Reply(c, FALSE) /\ UNCHANGED io
     ELSE IF job[c].related \/ open.isEa
     THEN /\ io' = [io EXCEPT ![c] = Call(c, op, h, open.isEa)]
          /\ job' = [job EXCEPT ![c].pc = "io"]
     ELSE Spawn(c, Call(c, op, h, FALSE))
  /\ UNCHANGED <<treeVars, alive, fileVars, opCtx, crashed>>

Busy(t, pc) == ~crashed /\ io[t] # None /\ io[t].pc = pc

Writing(t) == io[t] # None /\ io[t].op = "write" /\ io[t].pc # "start"

Stored_Shared(t, ctx) == [u \in Threads |-> ctx]

\* The file system keeps a context, or that there is none, under the id of the
\* goroutine that calls it, and finds it there.
Stored(t, ctx) == [opCtx EXCEPT ![t] = ctx]
getOperationContext(t) == opCtx[t]

\* writeImpl gives the file system the context of its caller.
SetOperationContext(t) ==
  /\ Busy(t, "start")
  /\ opCtx' = Stored(t, io[t].conn)
  /\ io' = [io EXCEPT ![t].pc = "load"]
  /\ UNCHANGED <<treeVars, job, alive, fileVars, crashed>>

\* The file system looks the handle up.
Load(t) ==
  /\ Busy(t, "load")
  /\ io' = [io EXCEPT ![t].pc = IF io[t].h \in fsOpen THEN "apply" ELSE "refused"]
  /\ UNCHANGED <<treeVars, job, alive, fileVars, opCtx, crashed>>

\* The file system reads or writes; before a write it calls back with the context
\* it finds.
Apply(t) ==
  /\ Busy(t, "apply")
  /\ io' = [io EXCEPT ![t].pc = "applied",
                      ![t].seen = IF io[t].op = "write" THEN getOperationContext(t) ELSE @]
  /\ UNCHANGED <<treeVars, job, alive, fileVars, opCtx, crashed>>

\* What came of writing a stream is not asked, and one stream can be read when
\* it is not there.
Outcomes(t) == {ok \in BOOLEAN : ok => io[t].pc = "applied" \/ io[t].ea}

\* The response; a write then clears its context, whatever came of it.
EndIO(t) ==
  /\ Busy(t, "applied") \/ Busy(t, "refused")
  /\ io' = [io EXCEPT ![t] = None]
  /\ opCtx' = IF io[t].op = "write" THEN Stored(t, None) ELSE opCtx
  /\ IF t \in Conns
     THEN \E ok \in Outcomes(t) : Reply(t, ok)
     ELSE UNCHANGED job
  /\ UNCHANGED <<treeVars, alive, fileVars, crashed>>

-----------------------------------------------------------------------------
(* The other commands of a file tree.                                          *)

Answer(c, op, ok) ==
  /\ OnFiles(c, op)
  /\ Reply(c, ok)
  /\ UNCHANGED <<treeVars, alive, fileVars, io, opCtx, crashed>>

Reject(c, op) ==
  /\ OnFiles(c, op)
  /\ Fail(c)
  /\ UNCHANGED <<treeVars, fileVars, io, opCtx, crashed>>

\* Nothing is locked; the rest is not supported.
lock(c) == Answer(c, "lock", TRUE)
cancel(c) == Answer(c, "cancel", FALSE)
changeNotify(c) == Answer(c, "notify", FALSE)
oplockBreak(c) == Answer(c, "oplock", FALSE)
ioctl(c) == Answer(c, "ioctl", FALSE)

\* What the file system says of the flush is ignored, an object id is made of
\* the file id.
flush(c) == Answer(c, "flush", FileIdOf(c) # None)
handleCreateOrGetObjectId(c) == Answer(c, "objectid", FileIdOf(c) # None)

\* The handle is given to the file system, which may fail, and does if the
\* handle is not open.
OfFileSystem(c, op) ==
  \E ok \in BOOLEAN : (ok => FileIdOf(c) \in fsOpen) /\ Answer(c, op, ok)
handleReparsePointReq(c) == OfFileSystem(c, "reparse")
queryDirectory(c) == OfFileSystem(c, "querydir")
queryInfoSec(c) == OfFileSystem(c, "querysec")

\* The handle is looked up in Server.opens before.
OfOpen(c, op) ==
  \E ok \in BOOLEAN : (ok => getOpen(FileIdOf(c)) # None) /\ Answer(c, op, ok)
setInfo(c) == OfOpen(c, "setinfo")

\* An unknown class ends Run.
queryInfoFile(c) ==
  \/ OfOpen(c, "queryfile")
  \/ getOpen(FileIdOf(c)) # None /\ Reject(c, "queryfile")
queryInfoFileSystem(c) == Answer(c, "queryfs", TRUE) \/ Reject(c, "queryfs")

\* Quotas are not supported; an unknown info type is not answered at all.
queryInfo(c) ==
  \/ Answer(c, "quota", FALSE)
  \/ Answer(c, "badtype", ~job[c].failed)

-----------------------------------------------------------------------------
(* The tree of the pipe srvsvc. The request last written waits in the tree.    *)

DceKinds == {"bind", "request", "unknown", "broken"}

\* A pipe of another name is answered with a nil file id, which is encoded.
PipeCreate(c) ==
  /\ OnPipe(c, "create")
  /\ \/ Reply(c, TRUE) /\ UNCHANGED crashed
     \/ crashed' = TRUE /\ UNCHANGED job
  /\ UNCHANGED <<treeVars, alive, fileVars, io, opCtx>>

\* A file id that is not the pipe's ends Run.
PipeClose(c) ==
  /\ OnPipe(c, "close")
  /\ \/ Reply(c, TRUE) /\ UNCHANGED alive
     \/ Fail(c)
  /\ UNCHANGED <<treeVars, fileVars, io, opCtx, crashed>>

PipeWrite(c) ==
  /\ OnPipe(c, "write")
  /\ \E k \in DceKinds : dceReq' = [dceReq EXCEPT ![job[c].tree] = k]
  /\ Reply(c, TRUE)
  /\ UNCHANGED <<byName, byId, treesOf, alive, fileVars, io, opCtx, crashed>>

\* A request that was answered is forgotten, one that was not stays. A broken
\* one is answered with an error response of status 0.
PipeRead(c) ==
  /\ OnPipe(c, "read")
  /\ LET k == dceReq[job[c].tree] IN
     /\ dceReq' = [dceReq EXCEPT ![job[c].tree] = IF k \in {"bind", "request"} THEN None ELSE k]
     /\ \E ok \in BOOLEAN :
          /\ k \in {None, "bind", "broken"} => ok
          /\ k = "unknown" => ~ok
          /\ Reply(c, ok)
  /\ UNCHANGED <<byName, byId, treesOf, alive, fileVars, io, opCtx, crashed>>

\* FSCTL_PIPE_TRANSCEIVE and FSCTL_DFS_GET_REFERRALS are answered; other codes,
\* file ids and packet types end Run.
PipeIoctl(c) ==
  /\ \E op \in Ioctls : OnPipe(c, op)
  /\ \/ \E ok \in BOOLEAN : Cmd(c).op = "ioctl" /\ Reply(c, ok) /\ UNCHANGED alive
     \/ Fail(c)
  /\ UNCHANGED <<treeVars, fileVars, io, opCtx, crashed>>

PipeQueryInfo(c) ==
  /\ \E op \in Queries : OnPipe(c, op)
  /\ Reply(c, FALSE)
  /\ UNCHANGED <<treeVars, alive, fileVars, io, opCtx, crashed>>

\* What a pipe does not support ends Run.
PipeOther(c) ==
  /\ \E op \in {"flush", "cancel", "querydir", "notify", "setinfo", "lock", "oplock"} : OnPipe(c, op)
  /\ Fail(c)
  /\ UNCHANGED <<treeVars, fileVars, io, opCtx, crashed>>

-----------------------------------------------------------------------------

Dispatch(c) ==
  \/ NoTree(c) \/ Skip(c) \/ treeConnect(c) \/ treeDisconnect(c)
  \/ CreateLookup(c) \/ CreateMkdir(c) \/ CreateOpen(c) \/ handleCreateEA(c) \/ CreateAdd(c)
  \/ Close(c) \/ CloseRelease(c) \/ BeginIO(c, "read") \/ BeginIO(c, "write")
  \/ lock(c) \/ cancel(c) \/ changeNotify(c) \/ oplockBreak(c) \/ ioctl(c) \/ flush(c)
  \/ handleCreateOrGetObjectId(c) \/ handleReparsePointReq(c) \/ queryDirectory(c)
  \/ setInfo(c) \/ queryInfo(c) \/ queryInfoFile(c) \/ queryInfoFileSystem(c) \/ queryInfoSec(c)
  \/ PipeCreate(c) \/ PipeClose(c) \/ PipeWrite(c) \/ PipeRead(c) \/ PipeIoctl(c)
  \/ PipeQueryInfo(c) \/ PipeOther(c)

Work(t) == SetOperationContext(t) \/ Load(t) \/ Apply(t) \/ EndIO(t)

Next ==
  \/ \E c \in Conns : Receive(c)
  \/ (\E c \in Conns : Dispatch(c)) /\ UNCHANGED count
  \/ (\E t \in Threads : Work(t)) /\ UNCHANGED count

Spec == Init /\ [][Next]_vars

-----------------------------------------------------------------------------
(* Properties.                                                                 *)

\* Every variable has its type.
TypeOK ==
  /\ byName \in [Conns -> [Paths -> TreeIds \cup {None}]]
  /\ byId \in [Conns -> [TreeIds -> Paths \cup {None}]]
  /\ treesOf \in [Conns -> SUBSET TreeIds]
  /\ dceReq \in [TreeIds -> DceKinds \cup {None}]
  /\ count \in [Conns -> Nat] /\ \A c \in Conns : count[c] <= MaxRequests[c]
  /\ job \in [Conns -> Jobs]
  /\ alive \in [Conns -> BOOLEAN]
  /\ opens \in [Handles -> Opens \cup {None}]
  /\ used \subseteq Handles
  /\ issued \subseteq used /\ fsOpen \subseteq used /\ noAttr \subseteq used
  /\ io \in [Threads -> Calls \cup {None}]
  /\ opCtx \in [Threads -> Conns \cup {None}]
  /\ crashed \in BOOLEAN

\* Server.opens never names a handle the file system has closed, whichever
\* connections open and close at the same time: addOpen comes after Open, and
\* deleteOpen before Close. Handlers that look an open up rely on it.
OpensBacked == \A h \in Handles : opens[h] # None => h \in fsOpen

\* What create opens in the file system is entered in Server.opens or closed
\* again on every path through the handler, so that a client can still close it;
\* only the path on which GetAttr fails loses it.
NoHandleLost ==
  ~crashed =>
    \A h \in fsOpen \ noAttr :
      opens[h] # None \/ \E c \in Conns : job[c].new = h

\* The two maps of a connection's trees mirror each other, through connecting a
\* share again, disconnecting and connecting once more: a tree id that works is
\* the one a further TREE_CONNECT of its share gives.
TreesAgree ==
  \A c \in Conns, p \in Paths, t \in TreeIds :
    byName[c][p] = t <=> byId[c][t] = p

\* However writes overlap, in goroutines and in the dispatchers of compounds, the
\* file system's callbacks are shown each write with the context of the connection
\* it came on. A goroutine outside writeImpl has no context left: what the same
\* dispatcher handles after a compound's write, a CREATE or CLOSE, has none.
ContextOfCaller ==
  /\ \A t \in Threads :
       Writing(t) /\ io[t].pc = "applied" => io[t].seen = io[t].conn
  /\ \A t \in Threads : opCtx[t] # None => Writing(t)

\* The handles and calls of OpenFiles: a handle is unused until its client was
\* told, then open as long as the file system has it open. A call is taken when
\* the file system has found the handle.
PhaseOf ==
  [h \in Handles |-> CASE h \notin issued -> "unused"
                      [] h \in issued \cap fsOpen -> "open"
                      [] OTHER -> "closed"]
CallOf ==
  [t \in Threads |->
     IF io[t] = None \/ (io[t] # None /\ io[t].pc = "refused") THEN None
     ELSE [h |-> io[t].h, taken |-> io[t].pc \in {"apply", "applied"}]]

Files == INSTANCE OpenFiles WITH phase <- PhaseOf, call <- CallOf

\* The handlers implement OpenFiles: handles are issued once and stay closed, a
\* read or write begins on an open handle, and the file system turns down what
\* a goroutine brings only if a CLOSE came between, on whatever connection.
ImplementsOpenFiles == Files!Spec
=================================================================================
