---------------------------- MODULE FileTreeProofs ----------------------------
(* For any connections, goroutines, handles, trees and requests: the table of   *)
(* opens and the file system agree, no handle is lost, the maps of trees mirror *)
(* each other, every write sees the context of its caller, and the handlers     *)
(* implement OpenFiles.                                                         *)
EXTENDS FileTree, TLAPS

USE DEF Threads, Paths

-----------------------------------------------------------------------------
(* The inductive invariant.                                                     *)

\* What a dispatcher holds at each step: commands to handle, a tree to handle
\* them in, a handle in its register exactly in the second half of create and
\* close, and a call of its own exactly while it reads or writes itself.
StageAt(c) ==
  LET j == job[c] IN
  /\ j.pc # "idle" => j.todo # << >>
  /\ j.pc # "idle" /\ j.tree = None => Len(j.todo) = 1 /\ Head(j.todo).op = "connect"
  /\ j.new # None <=> j.pc \in {"stream", "add", "closing"}
  /\ j.pc = "io" <=> io[c] # None

\* Every dispatcher is at one of these stages.
Stages == \A c \in Conns : StageAt(c)

\* A tree id in use was given to a client.
TreesKnown == \A c \in Conns, t \in TreeIds : byId[c][t] # None => t \in treesOf[c]

\* create has opened a file and not yet entered or closed it.
Creating(c) == job[c].pc \in {"stream", "add"}

\* Handles in requests, in calls and in Server.opens are handles clients were
\* told.
Known ==
  /\ \A c \in Conns : job[c].h \in issued \cup {None} /\ job[c].fileId \in issued \cup {None}
  /\ \A t \in Threads : io[t] # None => io[t].h \in issued
  /\ \A h \in Handles : opens[h] # None => h \in issued

\* The handle create works on is its own and open; the one close works on is out
\* of Server.opens for good.
Owned ==
  /\ \A c \in Conns : Creating(c) => job[c].new \in fsOpen \ issued
  /\ \A c, d \in Conns : Creating(c) /\ Creating(d) /\ job[c].new = job[d].new => c = d
  /\ \A c \in Conns : job[c].pc = "closing" =>
       job[c].new \in issued /\ opens[job[c].new] = None

\* All this holds until a handler panics, which ends the process.
Handled == ~crashed => Stages /\ Known /\ Owned /\ NoHandleLost

\* A goroutine has a context while it writes, the one of the connection the write
\* came on; only writes set it.
ContextAt(t) ==
  /\ Writing(t) => opCtx[t] = io[t].conn
  /\ Writing(t) /\ io[t].pc = "applied" => io[t].seen = io[t].conn
  /\ opCtx[t] # None => Writing(t)
  /\ io[t] # None /\ io[t].pc = "start" => io[t].op = "write"

\* So it is with every goroutine that reads or writes.
Contexts == \A t \in Threads : ContextAt(t)

\* The inductive invariant.
IInv == TypeOK /\ TreesKnown /\ TreesAgree /\ OpensBacked /\ Handled /\ Contexts
-----------------------------------------------------------------------------
(* What the steps have in common.                                               *)

\* The fields that commands of a kind have.
LEMMA CommandFields ==
  ASSUME NEW q \in Commands
  PROVE  /\ q.op = "create" => q.stream \in BOOLEAN /\ q.durable \in BOOLEAN
         /\ q.op = "connect" => q.path \in Paths \cup {Nowhere}
BY DEF Commands, OnHandle, Ioctls, Queries

\* A dispatcher that waits is a dispatcher.
LEMMA IdleIsJob == Idle \in Jobs
<1>1. << >> \in Seq(Commands)
  OBVIOUS
<1> QED
  BY <1>1 DEF Idle, Jobs

\* A dispatcher j that waits, or has another command to handle, with handles
\* its client knows.
Ready(j) ==
  /\ j \in Jobs
  /\ j.pc \in {"idle", "next"}
  /\ j.new = None
  /\ j.pc # "idle" => j.todo # << >>
  /\ j.pc # "idle" /\ j.tree = None => Len(j.todo) = 1 /\ Head(j.todo).op = "connect"
  /\ j.h \in issued \cup {None}
  /\ j.fileId \in issued \cup {None}

\* The dispatcher of c is ready for its next command.
Settles(c) == \E j : Ready(j) /\ job' = [job EXCEPT ![c] = j]

\* A dispatcher without a request is ready.
LEMMA IdleReady == Ready(Idle)
BY IdleIsJob DEF Ready, Idle

\* After an answer the dispatcher is ready.
LEMMA AfterReady ==
  ASSUME TypeOK, Stages, Known, NEW c \in Conns, job[c].pc # "idle", NEW ok \in BOOLEAN
  PROVE  Ready(After(job[c], ok))
<1> DEFINE j == job[c]
<1>1. j \in Jobs
  BY DEF TypeOK
<1>2. CASE Len(j.todo) = 1
  BY <1>2, IdleReady DEF After
<1>3. CASE Len(j.todo) # 1
  <2> DEFINE k == [j EXCEPT !.todo = Tail(j.todo), !.failed = ~ok, !.pc = "next", !.new = None]
  <2>1. j.todo \in Seq(Commands) /\ j.todo # << >> /\ j.tree # None
    BY <1>1, <1>3 DEF Jobs, Stages, StageAt
  <2> HIDE DEF j
  <2>2. Tail(j.todo) \in Seq(Commands) /\ Len(Tail(j.todo)) = Len(j.todo) - 1 /\ Len(j.todo) \in Nat
    BY <2>1
  <2>2a. Len(j.todo) # 0
    BY <2>1
  <2>2b. Tail(j.todo) # << >>
    <3>1. Len(Tail(j.todo)) # 0
      BY <2>2, <2>2a, <1>3 DEF j
    <3>2. Len(<< >>) = 0
      OBVIOUS
    <3> QED
      BY <3>1, <3>2, Zenon
  <2>3. k \in Jobs
    BY <1>1, <2>2 DEF Jobs
  <2>4. k.pc = "next" /\ k.new = None /\ k.todo # << >> /\ k.tree # None
        /\ k.h = j.h /\ k.fileId = j.fileId
    BY <1>1, <2>1, <2>2b DEF Jobs
  <2>5. Ready(k)
    BY <2>3, <2>4 DEF Ready, Known, j
  <2> QED
    BY <1>3, <2>5 DEF After, j
<1> QED
  BY <1>2, <1>3

\* An answer leaves the dispatcher ready, whatever its status.
LEMMA ReplySettles ==
  ASSUME TypeOK, Stages, Known, NEW c \in Conns, job[c].pc # "idle", NEW ok \in BOOLEAN,
         Reply(c, ok)
  PROVE  Settles(c)
BY AfterReady DEF Reply, Settles

\* So does a handler that ends the connection.
LEMMA FailSettles ==
  ASSUME NEW c \in Conns, Fail(c)
  PROVE  Settles(c)
BY IdleReady DEF Fail, Settles

\* A new request names what its client knows.
LEMMA ReceiveSettles ==
  ASSUME TypeOK, NEW c \in Conns, Receive(c)
  PROVE  Settles(c)
<1>1. PICK r \in Requests[c], h \in issued \cup {None}, t \in treesOf[c] \cup {None} :
        /\ t = None <=> r[1].op = "connect"
        /\ job' = [job EXCEPT ![c] = [Idle EXCEPT !.todo = r, !.tree = t, !.h = h,
                                         !.related = Len(r) > 1, !.pc = "next"]]
  BY DEF Receive
<1> DEFINE b == Len(r) > 1
           k == [Idle EXCEPT !.todo = r, !.tree = t, !.h = h, !.related = b, !.pc = "next"]
<1>2. r \in Seq(Commands) /\ r # << >> /\ \A i \in 1..Len(r) : r[i].op = "connect" => Len(r) = 1
  BY FileTreeAssumption
<1>3. r[1].op = "connect" => Len(r) = 1 /\ Head(r) = r[1]
  BY <1>2
<1>4. h \in Handles \cup {None} /\ t \in TreeIds \cup {None}
  BY DEF TypeOK
<1>4a. b \in BOOLEAN
  OBVIOUS
<1>4b. job' = [job EXCEPT ![c] = k]
  BY <1>1
<1> HIDE DEF b
<1>5. k \in Jobs /\ k.pc = "next" /\ k.new = None /\ k.todo = r /\ k.tree = t /\ k.h = h
      /\ k.fileId = None
  BY <1>2, <1>4, <1>4a, IdleIsJob DEF Idle, Jobs
<1>6. Ready(k)
  BY <1>1, <1>2, <1>3, <1>5 DEF Ready
<1> QED
  BY <1>4b, <1>6 DEF Settles
-----------------------------------------------------------------------------
(* Steps that neither open, close, read nor write files.                        *)

\* Commands about trees.
TreeCommand(c) == NoTree(c) \/ Skip(c) \/ treeConnect(c) \/ treeDisconnect(c)

\* Commands about open files that change none.
FileCommand(c) ==
  \/ lock(c) \/ cancel(c) \/ changeNotify(c) \/ oplockBreak(c) \/ ioctl(c) \/ flush(c)
  \/ handleCreateOrGetObjectId(c) \/ handleReparsePointReq(c) \/ queryDirectory(c)
  \/ setInfo(c) \/ queryInfo(c) \/ queryInfoFile(c) \/ queryInfoFileSystem(c) \/ queryInfoSec(c)

\* Commands of the IPC$ tree.
PipeCommand(c) ==
  \/ PipeCreate(c) \/ PipeClose(c) \/ PipeWrite(c) \/ PipeRead(c) \/ PipeIoctl(c)
  \/ PipeQueryInfo(c) \/ PipeOther(c)

\* Such a step leaves a dispatcher that was ready ready, unless it panics.
Quiet(c) ==
  /\ ~crashed
  /\ job[c].pc \in {"idle", "next"}
  /\ UNCHANGED job \/ Settles(c)
  /\ UNCHANGED <<fileVars, io, opCtx>>

\* The commands of a file tree are answered, or end Run, and leave everything else.
LEMMA FileCommandShape ==
  ASSUME NEW c \in Conns, FileCommand(c)
  PROVE  /\ ~crashed /\ job[c].pc = "next"
         /\ ((\E ok \in BOOLEAN : Reply(c, ok)) /\ UNCHANGED alive) \/ Fail(c)
         /\ UNCHANGED <<treeVars, fileVars, io, opCtx, crashed>>
<1> DEFINE P == /\ ~crashed /\ job[c].pc = "next"
                /\ ((\E ok \in BOOLEAN : Reply(c, ok)) /\ UNCHANGED alive) \/ Fail(c)
                /\ UNCHANGED <<treeVars, fileVars, io, opCtx, crashed>>
<1>1. ASSUME NEW op, NEW ok \in BOOLEAN, Answer(c, op, ok) PROVE P
  BY <1>1 DEF Answer, OnFiles, Forwarded, Handling
<1>2. ASSUME NEW op, Reject(c, op) PROVE P
  BY <1>2 DEF Reject, OnFiles, Forwarded, Handling
<1>3. ASSUME NEW op, OfFileSystem(c, op) PROVE P
  BY <1>1, <1>3 DEF OfFileSystem
<1>4. ASSUME NEW op, OfOpen(c, op) PROVE P
  BY <1>1, <1>4 DEF OfOpen
<1> SUFFICES P
  OBVIOUS
<1> HIDE DEF P
<1>5. CASE lock(c) \/ cancel(c) \/ changeNotify(c) \/ oplockBreak(c) \/ ioctl(c)
  BY <1>1, <1>5, Zenon DEF lock, cancel, changeNotify, oplockBreak, ioctl
<1>6. CASE flush(c) \/ handleCreateOrGetObjectId(c)
  <2>1. (FileIdOf(c) # None) \in BOOLEAN
    OBVIOUS
  <2> QED
    BY <1>1, <1>6, <2>1, Zenon DEF flush, handleCreateOrGetObjectId
<1>7. CASE handleReparsePointReq(c) \/ queryDirectory(c) \/ queryInfoSec(c)
  BY <1>3, <1>7, Zenon DEF handleReparsePointReq, queryDirectory, queryInfoSec
<1>8. CASE setInfo(c) \/ queryInfoFile(c)
  BY <1>2, <1>4, <1>8, Zenon DEF setInfo, queryInfoFile
<1>9. CASE queryInfoFileSystem(c)
  BY <1>1, <1>2, <1>9, Zenon DEF queryInfoFileSystem
<1>10. CASE queryInfo(c)
  <2>1. (~job[c].failed) \in BOOLEAN
    OBVIOUS
  <2> QED
    BY <1>1, <1>10, <2>1, Zenon DEF queryInfo
<1> QED
  BY <1>5, <1>6, <1>7, <1>8, <1>9, <1>10, Zenon DEF FileCommand

\* The same for the pipe, where a request may be kept in the tree and a panic ends
\* everything.
LEMMA PipeCommandShape ==
  ASSUME TypeOK, NEW c \in Conns, PipeCommand(c)
  PROVE  /\ ~crashed /\ job[c].pc = "next"
         /\ \/ (\E ok \in BOOLEAN : Reply(c, ok)) /\ UNCHANGED <<alive, crashed>>
            \/ Fail(c) /\ UNCHANGED crashed
            \/ UNCHANGED <<job, alive>> /\ crashed' = TRUE
         /\ dceReq' \in [TreeIds -> DceKinds \cup {None}]
         /\ UNCHANGED <<byName, byId, treesOf, fileVars, io, opCtx>>
<1> USE DEF OnPipe, Forwarded, Handling, treeVars
<1>0. dceReq \in [TreeIds -> DceKinds \cup {None}]
  BY DEF TypeOK
<1>1. CASE PipeCreate(c)
  BY <1>0, <1>1 DEF PipeCreate
<1>2. CASE PipeClose(c)
  BY <1>0, <1>2 DEF PipeClose
<1>3. CASE PipeWrite(c)
  BY <1>0, <1>3 DEF PipeWrite
<1>4. CASE PipeRead(c)
  <2> DEFINE k == dceReq[job[c].tree]
             l == IF k \in {"bind", "request"} THEN None ELSE k
  <2>1. dceReq' = [dceReq EXCEPT ![job[c].tree] = l]
    BY <1>4 DEF PipeRead
  <2>2. job[c].tree \in TreeIds => l \in DceKinds \cup {None}
    BY <1>0
  <2>3. dceReq' \in [TreeIds -> DceKinds \cup {None}]
    BY <1>0, <2>1, <2>2
  <2> QED
    BY <1>4, <2>3 DEF PipeRead
<1>5. CASE PipeIoctl(c)
  BY <1>0, <1>5 DEF PipeIoctl
<1>6. CASE PipeQueryInfo(c)
  BY <1>0, <1>6 DEF PipeQueryInfo
<1>7. CASE PipeOther(c)
  BY <1>0, <1>7 DEF PipeOther
<1> QED
  BY <1>1, <1>2, <1>3, <1>4, <1>5, <1>6, <1>7 DEF PipeCommand

\* All of them and the receipt of a request are quiet.
LEMMA QuietSteps ==
  ASSUME TypeOK, Handled, NEW c \in Conns,
         Receive(c) \/ TreeCommand(c) \/ FileCommand(c) \/ PipeCommand(c)
  PROVE  Quiet(c)
<1>1. CASE Receive(c)
  BY <1>1, ReceiveSettles DEF Receive, Handling, Quiet
<1>2. CASE TreeCommand(c)
  <2>1. /\ ~crashed /\ job[c].pc = "next"
        /\ (\E ok \in BOOLEAN : Reply(c, ok)) \/ Fail(c)
        /\ UNCHANGED <<fileVars, io, opCtx>>
    BY <1>2 DEF TreeCommand, NoTree, Skip, treeConnect, treeDisconnect, Handling
  <2> QED
    BY <2>1, ReplySettles, FailSettles DEF Quiet, Handled
<1>3. CASE FileCommand(c)
  BY <1>3, FileCommandShape, ReplySettles, FailSettles DEF Quiet, Handled
<1>4. CASE PipeCommand(c)
  BY <1>4, PipeCommandShape, ReplySettles, FailSettles DEF Quiet, Handled
<1> QED
  BY <1>1, <1>2, <1>3, <1>4

\* The facts about a dispatcher that settles.
LEMMA SettledJob ==
  ASSUME TypeOK, NEW c \in Conns, Settles(c)
  PROVE  /\ job' \in [Conns -> Jobs]
         /\ \A d \in Conns \ {c} : job'[d] = job[d]
         /\ Ready(job'[c])
BY DEF TypeOK, Settles, Ready

\* A dispatcher that had no handle in its register can lose none.
LEMMA NothingToLose ==
  ASSUME TypeOK, NoHandleLost, ~crashed, UNCHANGED <<opens, fsOpen, noAttr>>,
         NEW c \in Conns, job[c].new = None, \A d \in Conns \ {c} : job'[d] = job[d]
  PROVE  NoHandleLost'
<1> SUFFICES ASSUME NEW h \in fsOpen \ noAttr, opens[h] = None
             PROVE  \E d \in Conns : job'[d].new = h
  BY DEF NoHandleLost
<1>1. h # None
  BY FileTreeAssumption DEF TypeOK
<1>2. PICK d \in Conns : job[d].new = h
  BY DEF NoHandleLost
<1> QED
  BY <1>1, <1>2

\* Quiet steps keep what is known of handles.
LEMMA QuietKeeps ==
  ASSUME TypeOK, Handled, OpensBacked, NEW c \in Conns, Quiet(c)
  PROVE  Handled' /\ OpensBacked'
<1>1. /\ ~crashed
      /\ UNCHANGED <<opens, fsOpen, noAttr, used, issued, io>>
      /\ job[c].pc \in {"idle", "next"}
  BY DEF Quiet, fileVars
<1>2. OpensBacked'
  BY <1>1 DEF OpensBacked
<1>3. CASE UNCHANGED job
  BY <1>1, <1>2, <1>3 DEF Handled, Stages, StageAt, Known, Owned, Creating, NoHandleLost
<1>4. CASE Settles(c)
  <2>1. /\ job' \in [Conns -> Jobs]
        /\ \A d \in Conns \ {c} : job'[d] = job[d]
        /\ Ready(job'[c])
    BY <1>4, SettledJob
  <2>2. Stages /\ Known /\ Owned /\ NoHandleLost
    BY <1>1 DEF Handled
  <2>3. job[c].new = None /\ io[c] = None
    BY <1>1, <2>2 DEF Stages, StageAt
  <2>4. Stages'
    BY <1>1, <2>1, <2>2, <2>3 DEF Stages, StageAt, Ready
  <2>5. Known'
    BY <1>1, <2>1, <2>2 DEF Known, Ready
  <2>6. Owned'
    BY <1>1, <2>1, <2>2 DEF Owned, Creating, Ready
  <2>7. NoHandleLost'
    BY <1>1, <2>1, <2>2, <2>3, NothingToLose
  <2> QED
    BY <1>2, <2>4, <2>5, <2>6, <2>7 DEF Handled
<1> QED
  BY <1>3, <1>4 DEF Quiet

-----------------------------------------------------------------------------
(* CREATE and CLOSE.                                                            *)

\* Before Open the dispatcher has no handle yet.
LEMMA CreateBegins ==
  ASSUME TypeOK, Handled, OpensBacked, NEW c \in Conns,
         CreateLookup(c) \/ CreateMkdir(c)
  PROVE  Handled' /\ OpensBacked' /\ job' \in [Conns -> Jobs]
<1>1. /\ ~crashed /\ job[c].pc \in {"next", "mkdir"}
      /\ UNCHANGED <<opens, fsOpen, noAttr, used, issued, io>>
  BY DEF CreateLookup, CreateMkdir, OnFiles, Forwarded, Handling, fileVars
<1>2. Stages /\ Known /\ Owned /\ NoHandleLost
  BY <1>1 DEF Handled
<1>3. OpensBacked'
  BY <1>1 DEF OpensBacked
<1>4. job[c] \in Jobs /\ job[c].new = None /\ io[c] = None /\ job[c].todo # << >>
  BY <1>1, <1>2 DEF TypeOK, Stages, StageAt
<1>5. \/ Reply(c, FALSE)
      \/ \E p \in {"mkdir", "open"}, b \in BOOLEAN :
           job' = [job EXCEPT ![c] = [job[c] EXCEPT !.pc = p, !.isDir = b]]
  <2>1. CASE CreateLookup(c)
    <3>1. PICK exists \in BOOLEAN, isDir \in BOOLEAN :
            \/ Reply(c, FALSE)
            \/ job' = [job EXCEPT
                 ![c].pc = IF Mkdirs(Cmd(c), exists) THEN "mkdir" ELSE "open",
                 ![c].isDir = isDir \/ Mkdirs(Cmd(c), exists)]
      BY <2>1 DEF CreateLookup
    <3> DEFINE p == IF Mkdirs(Cmd(c), exists) THEN "mkdir" ELSE "open"
               b == isDir \/ Mkdirs(Cmd(c), exists)
    <3>2. p \in {"mkdir", "open"} /\ b \in BOOLEAN
      BY DEF Mkdirs
    <3>3. \/ Reply(c, FALSE)
          \/ job' = [job EXCEPT ![c].pc = p, ![c].isDir = b]
      BY <3>1
    <3> HIDE DEF p, b
    <3>4. \/ Reply(c, FALSE)
          \/ job' = [job EXCEPT ![c] = [job[c] EXCEPT !.pc = p, !.isDir = b]]
      BY <3>3 DEF TypeOK
    <3> QED
      BY <3>2, <3>4
  <2>2. CASE CreateMkdir(c)
    <3>1. job[c].isDir \in BOOLEAN
      BY <1>4 DEF Jobs
    <3>2. Reply(c, FALSE) \/ job' = [job EXCEPT ![c] = [job[c] EXCEPT !.pc = "open"]]
      BY <2>2 DEF CreateMkdir
    <3>3. [job[c] EXCEPT !.pc = "open"] = [job[c] EXCEPT !.pc = "open", !.isDir = job[c].isDir]
      BY <1>4 DEF Jobs
    <3> QED
      BY <3>1, <3>2, <3>3
  <2> QED
    BY <2>1, <2>2
<1>6. CASE Reply(c, FALSE)
  <2>1. Settles(c)
    BY <1>1, <1>2, <1>6, ReplySettles
  <2>2. /\ job' \in [Conns -> Jobs]
        /\ \A d \in Conns \ {c} : job'[d] = job[d]
        /\ Ready(job'[c])
    BY <2>1, SettledJob
  <2>3. Stages' /\ Known' /\ Owned'
    BY <1>1, <1>2, <1>4, <2>2 DEF Stages, StageAt, Known, Owned, Creating, Ready
  <2>4. NoHandleLost'
    BY <1>1, <1>2, <1>4, <2>2, NothingToLose
  <2> QED
    BY <1>3, <2>2, <2>3, <2>4 DEF Handled
<1>7. ASSUME NEW p \in {"mkdir", "open"}, NEW b \in BOOLEAN,
             job' = [job EXCEPT ![c] = [job[c] EXCEPT !.pc = p, !.isDir = b]]
      PROVE  Handled' /\ OpensBacked' /\ job' \in [Conns -> Jobs]
  <2> DEFINE k == [job[c] EXCEPT !.pc = p, !.isDir = b]
  <2>1. /\ k \in Jobs /\ k.pc = p /\ k.new = None
        /\ k.todo = job[c].todo /\ k.tree = job[c].tree
        /\ k.h = job[c].h /\ k.fileId = job[c].fileId
    BY <1>4 DEF Jobs
  <2>2. job' = [job EXCEPT ![c] = k]
    BY <1>7
  <2> HIDE DEF k
  <2>3. /\ job' \in [Conns -> Jobs] /\ job'[c] = k
        /\ \A d \in Conns \ {c} : job'[d] = job[d]
    BY <2>1, <2>2 DEF TypeOK
  <2>4. Stages' /\ Known' /\ Owned'
    BY <1>1, <1>2, <1>4, <2>1, <2>3 DEF Stages, StageAt, Known, Owned, Creating
  <2>5. NoHandleLost'
    BY <1>1, <1>2, <1>4, <2>3, NothingToLose
  <2> QED
    BY <1>3, <2>3, <2>4, <2>5 DEF Handled
<1> QED
  BY <1>5, <1>6, <1>7

\* The part of TypeOK that create and close change.
FileTypes ==
  /\ job \in [Conns -> Jobs]
  /\ opens \in [Handles -> Opens \cup {None}]
  /\ used \subseteq Handles
  /\ issued \subseteq used /\ fsOpen \subseteq used /\ noAttr \subseteq used

\* A handle from Open is nobody else's, and is in the register unless GetAttr
\* failed.
LEMMA CreateOpens ==
  ASSUME TypeOK, Handled, OpensBacked, NEW c \in Conns, CreateOpen(c)
  PROVE  Handled' /\ OpensBacked' /\ FileTypes'
<1>1. /\ ~crashed /\ job[c].pc = "open" /\ UNCHANGED <<opens, issued, io, crashed>>
  BY DEF CreateOpen, Forwarded, Handling, fileVars
<1>2. Stages /\ Known /\ Owned /\ NoHandleLost
  BY <1>1 DEF Handled
<1>3. /\ job[c] \in Jobs /\ job[c].new = None /\ io[c] = None /\ job[c].todo # << >>
      /\ Cmd(c) \in Commands
  <2>1. job[c] \in Jobs /\ job[c].new = None /\ io[c] = None /\ job[c].todo # << >>
    BY <1>1, <1>2 DEF TypeOK, Stages, StageAt
  <2>2. job[c].todo \in Seq(Commands)
    BY <2>1 DEF Jobs
  <2> QED
    BY <2>1, <2>2 DEF Cmd
<1>4. CASE Reply(c, FALSE) /\ UNCHANGED fileVars
  <2>1. Settles(c)
    BY <1>1, <1>2, <1>4, ReplySettles
  <2>2. /\ job' \in [Conns -> Jobs]
        /\ \A d \in Conns \ {c} : job'[d] = job[d]
        /\ Ready(job'[c])
    BY <2>1, SettledJob
  <2>3. UNCHANGED <<fsOpen, noAttr, used>>
    BY <1>4 DEF fileVars
  <2>4. Stages' /\ Known' /\ Owned'
    BY <1>1, <1>2, <1>3, <2>2, <2>3 DEF Stages, StageAt, Known, Owned, Creating, Ready
  <2>5. NoHandleLost'
    BY <1>1, <1>2, <1>3, <2>2, <2>3, NothingToLose
  <2>6. OpensBacked' /\ FileTypes'
    BY <1>1, <2>2, <2>3 DEF OpensBacked, FileTypes, TypeOK
  <2> QED
    BY <2>4, <2>5, <2>6 DEF Handled
<1>5. ASSUME NEW h \in Handles \ used, used' = used \cup {h}, fsOpen' = fsOpen \cup {h}
      PROVE  /\ h \notin fsOpen /\ h \notin issued /\ h # None
             /\ OpensBacked'
             /\ \A d \in Conns : job[d].new # h \/ ~Creating(d)
  BY <1>1, <1>2, <1>5, FileTreeAssumption DEF TypeOK, OpensBacked, Owned
<1>6. ASSUME NEW h \in Handles \ used, used' = used \cup {h}, fsOpen' = fsOpen \cup {h},
             NEW p \in {"stream", "add"},
             job' = [job EXCEPT ![c] = [job[c] EXCEPT !.new = h, !.pc = p]], UNCHANGED noAttr
      PROVE  Handled' /\ OpensBacked' /\ FileTypes'
  <2> DEFINE k == [job[c] EXCEPT !.new = h, !.pc = p]
  <2>1. /\ k \in Jobs /\ k.pc = p /\ k.new = h
        /\ k.todo = job[c].todo /\ k.tree = job[c].tree
        /\ k.h = job[c].h /\ k.fileId = job[c].fileId
    BY <1>3 DEF Jobs
  <2>2. job' = [job EXCEPT ![c] = k]
    BY <1>6
  <2> HIDE DEF k
  <2>3. /\ job' \in [Conns -> Jobs] /\ job'[c] = k
        /\ \A d \in Conns \ {c} : job'[d] = job[d]
    BY <2>1, <2>2 DEF TypeOK
  <2>4. h \notin fsOpen /\ h \notin issued /\ h # None /\ OpensBacked'
    BY <1>5, <1>6
  <2>5. Stages' /\ Known'
    BY <1>1, <1>2, <1>3, <2>1, <2>3, <2>4 DEF Stages, StageAt, Known
  <2>6. Owned'
    <3>1. \A d \in Conns : Creating(d) => job[d].new # h
      BY <1>5, <1>6
    <3>2. \A d \in Conns : Creating(d)' <=> Creating(d) \/ d = c
      BY <2>1, <2>3 DEF Creating
    <3> QED
      BY <1>1, <1>2, <1>6, <2>1, <2>3, <2>4, <3>1, <3>2 DEF Owned
  <2>7. NoHandleLost'
    <3> SUFFICES ASSUME NEW g \in fsOpen' \ noAttr', opens'[g] = None
                 PROVE  \E d \in Conns : job'[d].new = g
      BY DEF NoHandleLost
    <3>1. CASE g = h
      BY <2>1, <2>3, <3>1
    <3>2. CASE g # h
      <4>1. g \in fsOpen \ noAttr /\ opens[g] = None
        BY <1>1, <1>6, <3>2
      <4>2. PICK d \in Conns : job[d].new = g
        BY <1>1, <1>2, <4>1 DEF NoHandleLost
      <4>3. d # c
        BY <1>3, <4>1, <4>2, FileTreeAssumption DEF TypeOK
      <4> QED
        BY <2>3, <4>2, <4>3
    <3> QED
      BY <3>1, <3>2
  <2>8. FileTypes'
    BY <1>1, <1>6, <2>3 DEF FileTypes, TypeOK
  <2> QED
    BY <2>4, <2>5, <2>6, <2>7, <2>8 DEF Handled
<1>7. ASSUME NEW h \in Handles \ used, used' = used \cup {h}, fsOpen' = fsOpen \cup {h},
             Reply(c, FALSE), noAttr' = noAttr \cup {h}
      PROVE  Handled' /\ OpensBacked' /\ FileTypes'
  <2>1. Settles(c)
    BY <1>1, <1>2, <1>7, ReplySettles
  <2>2. /\ job' \in [Conns -> Jobs]
        /\ \A d \in Conns \ {c} : job'[d] = job[d]
        /\ Ready(job'[c])
    BY <2>1, SettledJob
  <2>3. h \notin fsOpen /\ OpensBacked'
    BY <1>5, <1>7
  <2>4. Stages' /\ Known' /\ Owned'
    BY <1>1, <1>2, <1>3, <1>7, <2>2 DEF Stages, StageAt, Known, Owned, Creating, Ready
  <2>5. NoHandleLost'
    <3> SUFFICES ASSUME NEW g \in fsOpen' \ noAttr', opens'[g] = None
                 PROVE  \E d \in Conns : job'[d].new = g
      BY DEF NoHandleLost
    <3>1. g \in fsOpen \ noAttr /\ opens[g] = None
      BY <1>1, <1>7
    <3>2. PICK d \in Conns : job[d].new = g
      BY <1>1, <1>2, <3>1 DEF NoHandleLost
    <3>3. d # c
      BY <1>3, <3>1, <3>2, FileTreeAssumption DEF TypeOK
    <3> QED
      BY <2>2, <3>2, <3>3
  <2>6. FileTypes'
    BY <1>1, <1>7, <2>2 DEF FileTypes, TypeOK
  <2> QED
    BY <2>3, <2>4, <2>5, <2>6 DEF Handled
<1>8. \/ Reply(c, FALSE) /\ UNCHANGED fileVars
      \/ \E h \in Handles \ used :
           /\ used' = used \cup {h} /\ fsOpen' = fsOpen \cup {h}
           /\ \/ /\ \E p \in {"stream", "add"} :
                      job' = [job EXCEPT ![c] = [job[c] EXCEPT !.new = h, !.pc = p]]
                 /\ UNCHANGED noAttr
              \/ Reply(c, FALSE) /\ noAttr' = noAttr \cup {h}
  <2>1. job \in [Conns -> Jobs]
    BY DEF TypeOK
  <2>2. (IF Cmd(c).stream THEN "stream" ELSE "add") \in {"stream", "add"}
    OBVIOUS
  <2> QED
    BY <2>1, <2>2 DEF CreateOpen
<1> QED
  BY <1>4, <1>6, <1>7, <1>8

\* A stream that cannot be opened has its handle closed again, which was in no
\* table.
LEMMA CreatesStream ==
  ASSUME TypeOK, Handled, OpensBacked, NEW c \in Conns, handleCreateEA(c)
  PROVE  Handled' /\ OpensBacked' /\ FileTypes'
<1>1. /\ ~crashed /\ job[c].pc = "stream"
      /\ UNCHANGED <<opens, noAttr, used, issued, io, crashed>>
  BY DEF handleCreateEA, Forwarded, Handling
<1>2. Stages /\ Known /\ Owned /\ NoHandleLost
  BY <1>1 DEF Handled
<1>3. job[c] \in Jobs /\ io[c] = None /\ job[c].todo # << >>
  BY <1>1, <1>2 DEF TypeOK, Stages, StageAt
<1>4. job[c].new \in fsOpen \ issued
  BY <1>1, <1>2 DEF Owned, Creating
<1>5. CASE job' = [job EXCEPT ![c].pc = "add"] /\ UNCHANGED fsOpen
  <2> DEFINE k == [job[c] EXCEPT !.pc = "add"]
  <2>1. /\ k \in Jobs /\ k.pc = "add" /\ k.new = job[c].new
        /\ k.todo = job[c].todo /\ k.tree = job[c].tree
        /\ k.h = job[c].h /\ k.fileId = job[c].fileId
    BY <1>3 DEF Jobs
  <2>2. job' = [job EXCEPT ![c] = k]
    BY <1>5
  <2> HIDE DEF k
  <2>3. /\ job' \in [Conns -> Jobs] /\ job'[c] = k
        /\ \A d \in Conns \ {c} : job'[d] = job[d]
    BY <2>1, <2>2 DEF TypeOK
  <2>4. Stages' /\ Known'
    BY <1>1, <1>2, <1>3, <1>5, <2>1, <2>3 DEF Stages, StageAt, Known
  <2>5. \A d \in Conns : Creating(d)' = Creating(d) /\ job'[d].new = job[d].new
    BY <1>1, <2>1, <2>3 DEF Creating
  <2>6. Owned' /\ NoHandleLost'
    BY <1>1, <1>2, <1>5, <2>1, <2>3, <2>5 DEF Owned, NoHandleLost
  <2>7. OpensBacked' /\ FileTypes'
    BY <1>1, <1>5, <2>3 DEF OpensBacked, FileTypes, TypeOK
  <2> QED
    BY <2>4, <2>6, <2>7 DEF Handled
<1>6. CASE Reply(c, FALSE) /\ fsOpen' = fsOpen \ {job[c].new}
  <2>1. Settles(c)
    BY <1>1, <1>2, <1>6, ReplySettles
  <2>2. /\ job' \in [Conns -> Jobs]
        /\ \A d \in Conns \ {c} : job'[d] = job[d]
        /\ Ready(job'[c])
    BY <2>1, SettledJob
  <2>3. opens[job[c].new] = None
    BY <1>2, <1>4 DEF Known, TypeOK
  <2>4. OpensBacked'
    BY <1>1, <1>6, <2>3 DEF OpensBacked
  <2>5. Stages' /\ Known'
    BY <1>1, <1>2, <1>3, <2>2 DEF Stages, StageAt, Known, Ready
  <2>6. Owned'
    <3>1. \A d \in Conns \ {c} : Creating(d) => job[d].new # job[c].new
      BY <1>1, <1>2 DEF Owned, Creating
    <3>2. ~Creating(c)' /\ job'[c].pc # "closing"
      BY <2>2 DEF Creating, Ready
    <3>3. \A d \in Conns \ {c} : Creating(d)' = Creating(d)
      BY <2>2 DEF Creating
    <3> QED
      BY <1>1, <1>2, <1>6, <2>2, <3>1, <3>2, <3>3 DEF Owned
  <2>7. NoHandleLost'
    <3> SUFFICES ASSUME NEW g \in fsOpen' \ noAttr', opens'[g] = None
                 PROVE  \E d \in Conns : job'[d].new = g
      BY DEF NoHandleLost
    <3>1. g \in fsOpen \ noAttr /\ opens[g] = None /\ g # job[c].new
      BY <1>1, <1>6
    <3>2. PICK d \in Conns : job[d].new = g
      BY <1>1, <1>2, <3>1 DEF NoHandleLost
    <3> QED
      BY <2>2, <3>1, <3>2
  <2>8. FileTypes'
    BY <1>1, <1>6, <2>2 DEF FileTypes, TypeOK
  <2> QED
    BY <2>4, <2>5, <2>6, <2>7, <2>8 DEF Handled
<1> QED
  BY <1>5, <1>6 DEF handleCreateEA

\* The handle is entered while it is open, and only then told.
LEMMA CreateAdds ==
  ASSUME TypeOK, Handled, OpensBacked, NEW c \in Conns, CreateAdd(c)
  PROVE  Handled' /\ OpensBacked' /\ FileTypes' /\ crashed' \in BOOLEAN
<1> DEFINE h == job[c].new
<1>1. /\ ~crashed /\ job[c].pc = "add" /\ Cmd(c).op = "create"
      /\ UNCHANGED <<fsOpen, noAttr, used, io>>
      /\ opens' = [opens EXCEPT ![h] = [isEa |-> Cmd(c).stream]]
      /\ issued' = IF Cmd(c).durable THEN issued ELSE issued \cup {h}
      /\ crashed' = Cmd(c).durable
  BY DEF CreateAdd, Forwarded, Handling
<1>2. Stages /\ Known /\ Owned /\ NoHandleLost
  BY <1>1 DEF Handled
<1>3. /\ job[c] \in Jobs /\ io[c] = None /\ job[c].todo # << >>
      /\ Cmd(c) \in Commands
  <2>1. job[c] \in Jobs /\ io[c] = None /\ job[c].todo # << >>
    BY <1>1, <1>2 DEF TypeOK, Stages, StageAt
  <2>2. job[c].todo \in Seq(Commands)
    BY <2>1 DEF Jobs
  <2> QED
    BY <2>1, <2>2 DEF Cmd
<1>4. Cmd(c).stream \in BOOLEAN /\ Cmd(c).durable \in BOOLEAN
  BY <1>1, <1>3, CommandFields
<1>5. h \in fsOpen \ issued /\ h \in Handles
  BY <1>1, <1>2 DEF Owned, Creating, TypeOK
<1>6. [isEa |-> Cmd(c).stream] \in Opens
  BY <1>4 DEF Opens
<1>7. /\ opens' \in [Handles -> Opens \cup {None}] /\ opens'[h] # None
      /\ \A g \in Handles \ {h} : opens'[g] = opens[g]
  <2>1. [isEa |-> Cmd(c).stream] # None
    BY <1>6, FileTreeAssumption
  <2> QED
    BY <1>1, <1>5, <1>6, <2>1 DEF TypeOK
<1>8. OpensBacked'
  BY <1>1, <1>5, <1>7 DEF OpensBacked
<1> DEFINE a == After(job[c], TRUE)
           f == IF Len(job[c].todo) > 1 THEN h ELSE None
           k == [a EXCEPT !.fileId = f]
<1>9. Ready(a)
  BY <1>1, <1>2, AfterReady
<1>10. job' = [job EXCEPT ![c] = k]
  BY DEF CreateAdd
<1>11. f \in {h, None}
  OBVIOUS
<1> HIDE DEF a, f
<1>12. /\ k \in Jobs /\ k.pc = a.pc /\ k.new = None /\ k.todo = a.todo /\ k.tree = a.tree
       /\ k.h = a.h /\ k.fileId = f
  BY <1>5, <1>9, <1>11 DEF Ready, Jobs
<1> HIDE DEF k
<1>13. /\ job' \in [Conns -> Jobs] /\ job'[c] = k
       /\ \A d \in Conns \ {c} : job'[d] = job[d]
  BY <1>10, <1>12 DEF TypeOK
<1>14. FileTypes'
  BY <1>1, <1>4, <1>5, <1>7, <1>13 DEF FileTypes, TypeOK
<1>15. CASE Cmd(c).durable
  BY <1>1, <1>4, <1>8, <1>14, <1>15 DEF Handled
<1>16. CASE ~Cmd(c).durable
  <2>1. issued' = issued \cup {h} /\ ~crashed'
    BY <1>1, <1>16
  <2>2. Stages'
    BY <1>1, <1>2, <1>3, <1>9, <1>12, <1>13 DEF Stages, StageAt, Ready
  <2>3. Known'
    BY <1>1, <1>2, <1>5, <1>7, <1>9, <1>11, <1>12, <1>13, <2>1 DEF Known, Ready
  <2>4. Owned'
    <3>1. \A d \in Conns \ {c} : Creating(d) => job[d].new # h
      BY <1>1, <1>2 DEF Owned, Creating
    <3>2. ~Creating(c)' /\ job'[c].pc # "closing"
      BY <1>9, <1>12, <1>13 DEF Creating, Ready
    <3>3. \A d \in Conns \ {c} : Creating(d)' = Creating(d)
      BY <1>13 DEF Creating
    <3>4. \A d \in Conns \ {c} : job[d].pc = "closing" =>
             job[d].new \in issued /\ job[d].new # h /\ job[d].new \in Handles
      BY <1>2, <1>5 DEF Owned, TypeOK
    <3>5. \A d \in Conns \ {c} : job[d].pc = "closing" => opens'[job[d].new] = None
      BY <1>2, <1>7, <3>4 DEF Owned
    <3> QED
      BY <1>1, <1>2, <1>13, <2>1, <3>1, <3>2, <3>3, <3>4, <3>5 DEF Owned
  <2>5. NoHandleLost'
    <3> SUFFICES ASSUME NEW g \in fsOpen' \ noAttr', opens'[g] = None
                 PROVE  \E d \in Conns : job'[d].new = g
      BY DEF NoHandleLost
    <3>1. g # h /\ g \in Handles /\ g \in fsOpen \ noAttr
      BY <1>1, <1>7 DEF TypeOK
    <3>2. opens[g] = None
      BY <1>7, <3>1
    <3>3. PICK d \in Conns : job[d].new = g
      BY <1>1, <1>2, <3>1, <3>2 DEF NoHandleLost
    <3> QED
      BY <1>13, <3>1, <3>3
  <2> QED
    BY <1>4, <1>1, <1>8, <1>14, <2>2, <2>3, <2>4, <2>5 DEF Handled
<1> QED
  BY <1>4, <1>15, <1>16

\* The file id a request means is one its client knows.
LEMMA FileIdKnown ==
  ASSUME Known, NEW c \in Conns
  PROVE  FileIdOf(c) \in issued \cup {None}
BY DEF Known, FileIdOf

\* deleteOpen comes before the file system's Close.
LEMMA CloseBegins ==
  ASSUME TypeOK, Handled, OpensBacked, NEW c \in Conns, Close(c)
  PROVE  Handled' /\ OpensBacked' /\ FileTypes'
<1> DEFINE h == FileIdOf(c)
<1>1. /\ ~crashed /\ job[c].pc = "next"
      /\ UNCHANGED <<fsOpen, noAttr, used, issued, io, crashed>>
      /\ IF h = None THEN Reply(c, FALSE) /\ UNCHANGED opens
         ELSE /\ opens' = [opens EXCEPT ![h] = None]
              /\ job' = [job EXCEPT ![c].pc = "closing", ![c].new = h]
  BY DEF Close, OnFiles, Forwarded, Handling
<1>2. Stages /\ Known /\ Owned /\ NoHandleLost
  BY <1>1 DEF Handled
<1>3. job[c] \in Jobs /\ job[c].new = None /\ io[c] = None /\ job[c].todo # << >>
  BY <1>1, <1>2 DEF TypeOK, Stages, StageAt
<1>4. h \in issued \cup {None}
  BY <1>2, FileIdKnown
<1> HIDE DEF h
<1>5. CASE h = None
  <2>1. Settles(c) /\ UNCHANGED opens
    BY <1>1, <1>2, <1>5, ReplySettles
  <2>2. /\ job' \in [Conns -> Jobs]
        /\ \A d \in Conns \ {c} : job'[d] = job[d]
        /\ Ready(job'[c])
    BY <2>1, SettledJob
  <2>3. Stages' /\ Known' /\ Owned'
    BY <1>1, <1>2, <1>3, <2>1, <2>2 DEF Stages, StageAt, Known, Owned, Creating, Ready
  <2>4. NoHandleLost'
    BY <1>1, <1>2, <1>3, <2>1, <2>2, NothingToLose
  <2>5. OpensBacked' /\ FileTypes'
    BY <1>1, <2>1, <2>2 DEF OpensBacked, FileTypes, TypeOK
  <2> QED
    BY <2>3, <2>4, <2>5 DEF Handled
<1>6. CASE h # None
  <2> DEFINE k == [job[c] EXCEPT !.pc = "closing", !.new = h]
  <2>1. h \in issued /\ h \in Handles
    BY <1>4, <1>6 DEF TypeOK
  <2>2. /\ k \in Jobs /\ k.pc = "closing" /\ k.new = h
        /\ k.todo = job[c].todo /\ k.tree = job[c].tree
        /\ k.h = job[c].h /\ k.fileId = job[c].fileId
    BY <1>3, <2>1 DEF Jobs
  <2>3. job' = [job EXCEPT ![c] = k]
    BY <1>1, <1>6
  <2> HIDE DEF k
  <2>4. /\ job' \in [Conns -> Jobs] /\ job'[c] = k
        /\ \A d \in Conns \ {c} : job'[d] = job[d]
    BY <2>2, <2>3 DEF TypeOK
  <2>5. /\ opens' \in [Handles -> Opens \cup {None}] /\ opens'[h] = None
        /\ \A g \in Handles \ {h} : opens'[g] = opens[g]
    BY <1>1, <1>6, <2>1 DEF TypeOK
  <2>6. OpensBacked' /\ FileTypes'
    BY <1>1, <2>4, <2>5 DEF OpensBacked, FileTypes, TypeOK
  <2>7. Stages'
    BY <1>1, <1>2, <1>3, <1>6, <2>2, <2>4 DEF Stages, StageAt
  <2>8. Known'
    BY <1>1, <1>2, <2>2, <2>4, <2>5 DEF Known
  <2>9. Owned'
    <3>1. ~Creating(c)' /\ \A d \in Conns \ {c} : Creating(d)' = Creating(d)
      BY <2>2, <2>4 DEF Creating
    <3>2. \A d \in Conns \ {c} : job[d].pc = "closing" => opens'[job[d].new] = None
      <4> SUFFICES ASSUME NEW d \in Conns \ {c}, job[d].pc = "closing"
                   PROVE  opens'[job[d].new] = None
        OBVIOUS
      <4>1. job[d].new \in Handles /\ opens[job[d].new] = None
        BY <1>2 DEF Owned, TypeOK
      <4> QED
        BY <2>5, <4>1
    <3> QED
      BY <1>1, <1>2, <2>1, <2>2, <2>4, <2>5, <3>1, <3>2 DEF Owned
  <2>10. NoHandleLost'
    <3> SUFFICES ASSUME NEW g \in fsOpen' \ noAttr', opens'[g] = None
                 PROVE  \E d \in Conns : job'[d].new = g
      BY DEF NoHandleLost
    <3>1. CASE g = h
      BY <2>2, <2>4, <3>1
    <3>2. CASE g # h
      <4>1. g \in fsOpen \ noAttr /\ g \in Handles
        BY <1>1 DEF TypeOK
      <4>2. opens[g] = None
        BY <2>5, <3>2, <4>1
      <4>3. PICK d \in Conns : job[d].new = g
        BY <1>1, <1>2, <4>1, <4>2 DEF NoHandleLost
      <4>4. d # c
        BY <1>3, <4>1, <4>3, FileTreeAssumption
      <4> QED
        BY <2>4, <4>3, <4>4
    <3> QED
      BY <3>1, <3>2
  <2> QED
    BY <2>6, <2>7, <2>8, <2>9, <2>10 DEF Handled
<1> QED
  BY <1>5, <1>6

\* What the file system closes is not in Server.opens, nor anybody's new handle.
LEMMA CloseEnds ==
  ASSUME TypeOK, Handled, OpensBacked, NEW c \in Conns, CloseRelease(c)
  PROVE  Handled' /\ OpensBacked' /\ FileTypes'
<1>1. /\ ~crashed /\ job[c].pc = "closing" /\ Reply(c, TRUE)
      /\ fsOpen' = fsOpen \ {job[c].new}
      /\ UNCHANGED <<opens, noAttr, used, issued, io, crashed>>
  BY DEF CloseRelease, Handling
<1>2. Stages /\ Known /\ Owned /\ NoHandleLost
  BY <1>1 DEF Handled
<1>3. io[c] = None
  BY <1>1, <1>2 DEF Stages, StageAt
<1>4. job[c].new \in issued /\ opens[job[c].new] = None
  BY <1>1, <1>2 DEF Owned
<1>5. Settles(c)
  BY <1>1, <1>2, ReplySettles
<1>6. /\ job' \in [Conns -> Jobs]
      /\ \A d \in Conns \ {c} : job'[d] = job[d]
      /\ Ready(job'[c])
  BY <1>5, SettledJob
<1>7. OpensBacked' /\ FileTypes'
  BY <1>1, <1>4, <1>6 DEF OpensBacked, FileTypes, TypeOK
<1>8. Stages' /\ Known'
  BY <1>1, <1>2, <1>3, <1>6 DEF Stages, StageAt, Known, Ready
<1>9. Owned'
  <2>1. ~Creating(c)' /\ job'[c].pc # "closing"
    BY <1>6 DEF Creating, Ready
  <2>2. \A d \in Conns \ {c} : Creating(d)' = Creating(d)
    BY <1>6 DEF Creating
  <2> QED
    BY <1>1, <1>2, <1>4, <1>6, <2>1, <2>2 DEF Owned
<1>10. NoHandleLost'
  <2> SUFFICES ASSUME NEW g \in fsOpen' \ noAttr', opens'[g] = None
               PROVE  \E d \in Conns : job'[d].new = g
    BY DEF NoHandleLost
  <2>1. g \in fsOpen \ noAttr /\ opens[g] = None /\ g # job[c].new
    BY <1>1
  <2>2. PICK d \in Conns : job[d].new = g
    BY <1>1, <1>2, <2>1 DEF NoHandleLost
  <2> QED
    BY <1>6, <2>1, <2>2
<1> QED
  BY <1>7, <1>8, <1>9, <1>10 DEF Handled

-----------------------------------------------------------------------------
(* READ and WRITE.                                                              *)

\* A call begins on an open the client knows, in a thread that has none.
LEMMA BeginShape ==
  ASSUME TypeOK, Handled, NEW c \in Conns, NEW op \in {"read", "write"}, BeginIO(c, op)
  PROVE  /\ ~crashed /\ job[c].pc = "next"
         /\ UNCHANGED <<treeVars, alive, fileVars, opCtx, crashed>>
         /\ \/ Settles(c) /\ UNCHANGED io
            \/ \E t \in Threads, call \in Calls :
                 /\ io[t] = None /\ io' = [io EXCEPT ![t] = call]
                 /\ call.pc \in {"start", "load"} /\ (call.op = "write" <=> call.pc = "start")
                 /\ call.h \in Handles /\ opens[call.h] # None
                 /\ \/ t \notin Conns /\ Settles(c)
                    \/ t = c /\ job' = [job EXCEPT ![c] = [job[c] EXCEPT !.pc = "io"]]
<1> DEFINE h == FileIdOf(c)
           open == getOpen(h)
<1>1. /\ ~crashed /\ job[c].pc = "next"
      /\ UNCHANGED <<treeVars, alive, fileVars, opCtx, crashed>>
      /\ IF open = None THEN Reply(c, FALSE) /\ UNCHANGED io
         ELSE IF job[c].related \/ open.isEa
         THEN /\ io' = [io EXCEPT ![c] = Call(c, op, h, open.isEa)]
              /\ job' = [job EXCEPT ![c].pc = "io"]
         ELSE Spawn(c, Call(c, op, h, FALSE))
  BY DEF BeginIO, OnFiles, Forwarded, Handling
<1>2. Stages /\ Known
  BY <1>1 DEF Handled
<1>3. h \in issued \cup {None} /\ h \in Handles \cup {None}
  BY <1>2, FileIdKnown DEF TypeOK
<1>4. h # None => open = opens[h]
  BY DEF getOpen
<1>5. h = None => open = None
  BY DEF getOpen
<1>6. open # None => h \in Handles /\ opens[h] # None /\ open \in Opens
  BY <1>3, <1>4, <1>5 DEF TypeOK
<1> HIDE DEF h, open
<1>7. ASSUME NEW b \in BOOLEAN, open # None
      PROVE  /\ Call(c, op, h, b) \in Calls
             /\ Call(c, op, h, b).pc \in {"start", "load"}
             /\ Call(c, op, h, b).op = "write" <=> Call(c, op, h, b).pc = "start"
             /\ Call(c, op, h, b).h = h
  BY <1>6, <1>7 DEF Call, Calls
<1>8. CASE open = None
  BY <1>1, <1>2, <1>8, ReplySettles
<1>9. CASE open # None /\ (job[c].related \/ open.isEa)
  <2>1. open.isEa \in BOOLEAN
    BY <1>6, <1>9 DEF Opens
  <2>2. io[c] = None
    BY <1>1, <1>2 DEF Stages, StageAt
  <2>3. job' = [job EXCEPT ![c] = [job[c] EXCEPT !.pc = "io"]] /\ c \in Threads
    BY <1>1, <1>9
  <2>4. io' = [io EXCEPT ![c] = Call(c, op, h, open.isEa)]
    BY <1>1, <1>9
  <2> QED
    BY <1>1, <1>6, <1>7, <1>9, <2>1, <2>2, <2>3, <2>4
<1>10. CASE open # None /\ ~(job[c].related \/ open.isEa)
  <2>1. Spawn(c, Call(c, op, h, FALSE))
    BY <1>1, <1>10
  <2>2. PICK w \in Workers : io[w] = None /\ io' = [io EXCEPT ![w] = Call(c, op, h, FALSE)]
    BY <2>1 DEF Spawn
  <2>3. Settles(c)
    BY <1>1, <1>2, <2>1, ReplySettles DEF Spawn
  <2>4. w \in Threads /\ w \notin Conns
    BY FileTreeAssumption
  <2> QED
    BY <1>1, <1>6, <1>7, <1>10, <2>2, <2>3, <2>4
<1> QED
  BY <1>8, <1>9, <1>10

\* read and write take a handle from Server.opens and start a call on it.
LEMMA BeginKeeps ==
  ASSUME TypeOK, Handled, OpensBacked, NEW c \in Conns, NEW op \in {"read", "write"},
         BeginIO(c, op)
  PROVE  Handled' /\ OpensBacked' /\ FileTypes' /\ io' \in [Threads -> Calls \cup {None}]
<1>1. /\ ~crashed /\ job[c].pc = "next"
      /\ UNCHANGED <<opens, fsOpen, noAttr, used, issued>>
  BY BeginShape DEF fileVars
<1>2. Stages /\ Known /\ Owned /\ NoHandleLost
  BY <1>1 DEF Handled
<1>3. job[c] \in Jobs /\ job[c].new = None /\ io[c] = None /\ job[c].todo # << >>
  BY <1>1, <1>2 DEF TypeOK, Stages, StageAt
<1>4. OpensBacked'
  BY <1>1 DEF OpensBacked
<1>5. ASSUME Settles(c), \A d \in Conns : io'[d] = io[d],
             \A t \in Threads : io'[t] # None => io'[t].h \in issued
      PROVE  Handled' /\ FileTypes'
  <2>1. /\ job' \in [Conns -> Jobs]
        /\ \A d \in Conns \ {c} : job'[d] = job[d]
        /\ Ready(job'[c])
    BY <1>5, SettledJob
  <2>2. Stages'
    BY <1>2, <1>3, <1>5, <2>1 DEF Stages, StageAt, Ready
  <2>3. Known'
    BY <1>1, <1>2, <1>5, <2>1 DEF Known, Ready
  <2>4. Owned'
    BY <1>1, <1>2, <2>1 DEF Owned, Creating, Ready
  <2>5. NoHandleLost'
    BY <1>1, <1>2, <1>3, <2>1, NothingToLose
  <2>6. FileTypes'
    BY <1>1, <2>1 DEF FileTypes, TypeOK
  <2> QED
    BY <2>2, <2>3, <2>4, <2>5, <2>6 DEF Handled
<1>6. CASE Settles(c) /\ UNCHANGED io
  BY <1>2, <1>4, <1>5, <1>6 DEF Known, TypeOK
<1>7. ASSUME NEW t \in Threads, NEW call \in Calls,
             io[t] = None, io' = [io EXCEPT ![t] = call],
             call.h \in Handles, opens[call.h] # None,
             \/ t \notin Conns /\ Settles(c)
             \/ t = c /\ job' = [job EXCEPT ![c] = [job[c] EXCEPT !.pc = "io"]]
      PROVE  Handled' /\ OpensBacked' /\ FileTypes' /\ io' \in [Threads -> Calls \cup {None}]
  <2>1. /\ io' \in [Threads -> Calls \cup {None}] /\ io'[t] = call /\ call # None
        /\ \A u \in Threads \ {t} : io'[u] = io[u]
    BY <1>7, FileTreeAssumption DEF TypeOK
  <2>2. \A u \in Threads : io'[u] # None => io'[u].h \in issued
    BY <1>2, <1>7, <2>1 DEF Known
  <2>3. CASE t \notin Conns /\ Settles(c)
    BY <1>4, <1>5, <2>1, <2>2, <2>3
  <2>4. CASE t = c /\ job' = [job EXCEPT ![c] = [job[c] EXCEPT !.pc = "io"]]
    <3> DEFINE k == [job[c] EXCEPT !.pc = "io"]
    <3>1. /\ k \in Jobs /\ k.pc = "io" /\ k.new = None
          /\ k.todo = job[c].todo /\ k.tree = job[c].tree
          /\ k.h = job[c].h /\ k.fileId = job[c].fileId
      BY <1>3 DEF Jobs
    <3>2. job' = [job EXCEPT ![c] = k]
      BY <2>4
    <3> HIDE DEF k
    <3>3. /\ job' \in [Conns -> Jobs] /\ job'[c] = k
          /\ \A d \in Conns \ {c} : job'[d] = job[d]
      BY <3>1, <3>2 DEF TypeOK
    <3>4. Stages'
      <4>1. StageAt(c)'
        BY <1>1, <1>2, <2>1, <2>4, <3>1, <3>3 DEF Stages, StageAt
      <4>2. ASSUME NEW d \in Conns \ {c} PROVE StageAt(d)'
        BY <1>2, <2>1, <2>4, <3>3 DEF Stages, StageAt
      <4> QED
        BY <4>1, <4>2 DEF Stages
    <3>5. Known'
      BY <1>1, <1>2, <2>2, <3>1, <3>3 DEF Known
    <3>6. Owned'
      BY <1>1, <1>2, <3>1, <3>3 DEF Owned, Creating
    <3>7. NoHandleLost'
      BY <1>1, <1>2, <1>3, <3>3, NothingToLose
    <3>8. FileTypes'
      BY <1>1, <3>3 DEF FileTypes, TypeOK
    <3> QED
      BY <1>4, <2>1, <3>4, <3>5, <3>6, <3>7, <3>8 DEF Handled
  <2> QED
    BY <1>7, <2>3, <2>4
<1>8. \/ Settles(c) /\ UNCHANGED io
      \/ \E t \in Threads, call \in Calls :
           /\ io[t] = None /\ io' = [io EXCEPT ![t] = call]
           /\ call.h \in Handles /\ opens[call.h] # None
           /\ \/ t \notin Conns /\ Settles(c)
              \/ t = c /\ job' = [job EXCEPT ![c] = [job[c] EXCEPT !.pc = "io"]]
  BY BeginShape
<1>9. CASE Settles(c) /\ UNCHANGED io
  BY <1>6, <1>9 DEF TypeOK
<1> QED
  BY <1>7, <1>8, <1>9

\* A step of a call changes that call and no other.
WorkOn(t) ==
  /\ ~crashed /\ io[t] \in Calls
  /\ io' \in [Threads -> Calls \cup {None}]
  /\ \A u \in Threads \ {t} : io'[u] = io[u]
  /\ opCtx' \in [Threads -> Conns \cup {None}]
  /\ \A u \in Threads \ {t} : opCtx'[u] = opCtx[u]
  /\ UNCHANGED <<treeVars, alive, fileVars, crashed>>

\* The call goes on to pc.
GoesOn(t, pc) ==
  /\ io'[t] \in Calls /\ io'[t].pc = pc
  /\ io'[t].op = io[t].op /\ io'[t].h = io[t].h /\ io'[t].conn = io[t].conn
  /\ UNCHANGED job

\* What each step of a call does to it.
LEMMA WorkShape ==
  ASSUME TypeOK, NEW t \in Threads, Work(t)
  PROVE  /\ WorkOn(t)
         /\ \/ io[t].pc = "start" /\ GoesOn(t, "load") /\ opCtx'[t] = io[t].conn
            \/ io[t].pc = "load" /\ io[t].h \in fsOpen /\ GoesOn(t, "apply") /\ UNCHANGED opCtx
            \/ io[t].pc = "load" /\ io[t].h \notin fsOpen /\ GoesOn(t, "refused") /\ UNCHANGED opCtx
            \/ /\ io[t].pc = "apply" /\ GoesOn(t, "applied") /\ UNCHANGED opCtx
               /\ io[t].op = "write" => io'[t].seen = opCtx[t]
            \/ /\ io[t].pc \in {"applied", "refused"} /\ io'[t] = None
               /\ opCtx'[t] = IF io[t].op = "write" THEN None ELSE opCtx[t]
               /\ IF t \in Conns THEN \E ok \in BOOLEAN : Reply(t, ok) ELSE UNCHANGED job
<1>1. io \in [Threads -> Calls \cup {None}] /\ opCtx \in [Threads -> Conns \cup {None}]
  BY DEF TypeOK
<1>2. io[t] \in Calls /\ ~crashed
  BY <1>1 DEF Work, SetOperationContext, Load, Apply, EndIO, Busy
<1>3. CASE SetOperationContext(t)
  <2> DEFINE k == [io[t] EXCEPT !.pc = "load"]
  <2>1. /\ io[t].pc = "start" /\ opCtx' = [opCtx EXCEPT ![t] = io[t].conn]
        /\ io' = [io EXCEPT ![t] = k]
        /\ UNCHANGED <<treeVars, job, alive, fileVars, crashed>>
    BY <1>3 DEF SetOperationContext, Stored, Busy
  <2>2. /\ k \in Calls /\ k.pc = "load" /\ k.op = io[t].op /\ k.h = io[t].h
        /\ k.conn = io[t].conn /\ io[t].conn \in Conns
    BY <1>2 DEF Calls
  <2> HIDE DEF k
  <2> QED
    BY <1>1, <1>2, <2>1, <2>2 DEF WorkOn, GoesOn
<1>4. CASE Load(t)
  <2> DEFINE p == IF io[t].h \in fsOpen THEN "apply" ELSE "refused"
             k == [io[t] EXCEPT !.pc = p]
  <2>1. /\ io[t].pc = "load" /\ UNCHANGED <<treeVars, job, alive, fileVars, opCtx, crashed>>
        /\ io' = [io EXCEPT ![t] = k]
    BY <1>4 DEF Load, Busy
  <2>2. /\ k \in Calls /\ k.pc = p /\ k.op = io[t].op /\ k.h = io[t].h
        /\ k.conn = io[t].conn
    BY <1>2 DEF Calls
  <2> HIDE DEF k
  <2> QED
    BY <1>1, <1>2, <2>1, <2>2 DEF WorkOn, GoesOn
<1>5. CASE Apply(t)
  <2> DEFINE k == [io[t] EXCEPT !.pc = "applied",
                                !.seen = IF io[t].op = "write" THEN opCtx[t] ELSE @]
  <2>1. /\ io[t].pc = "apply" /\ UNCHANGED <<treeVars, job, alive, fileVars, opCtx, crashed>>
        /\ io' = [io EXCEPT ![t] = k]
    BY <1>5 DEF Apply, getOperationContext, Busy
  <2>2. /\ k \in Calls /\ k.pc = "applied" /\ k.op = io[t].op /\ k.h = io[t].h
        /\ k.conn = io[t].conn /\ (io[t].op = "write" => k.seen = opCtx[t])
    BY <1>1, <1>2 DEF Calls
  <2> HIDE DEF k
  <2> QED
    BY <1>1, <1>2, <2>1, <2>2 DEF WorkOn, GoesOn
<1>6. CASE EndIO(t)
  <2>1. /\ io[t].pc \in {"applied", "refused"}
        /\ UNCHANGED <<treeVars, alive, fileVars, crashed>>
        /\ io' = [io EXCEPT ![t] = None]
        /\ opCtx' = IF io[t].op = "write" THEN [opCtx EXCEPT ![t] = None] ELSE opCtx
        /\ IF t \in Conns THEN \E ok \in BOOLEAN : Reply(t, ok) ELSE UNCHANGED job
    BY <1>6 DEF EndIO, Stored, Busy, Outcomes
  <2> QED
    BY <1>1, <1>2, <2>1 DEF WorkOn
<1> QED
  BY <1>3, <1>4, <1>5, <1>6 DEF Work

\* Calls in progress concern handles and dispatchers as before.
LEMMA WorkKeeps ==
  ASSUME TypeOK, Handled, OpensBacked, NEW t \in Threads, Work(t)
  PROVE  Handled' /\ OpensBacked' /\ FileTypes'
<1>1. /\ ~crashed /\ io[t] \in Calls
      /\ io' \in [Threads -> Calls \cup {None}]
      /\ UNCHANGED <<opens, fsOpen, noAttr, used, issued, crashed>>
  BY WorkShape DEF WorkOn, fileVars
<1>2. Stages /\ Known /\ Owned /\ NoHandleLost
  BY <1>1 DEF Handled
<1>3. None \notin Calls
  BY FileTreeAssumption
<1>4. \A u \in Threads \ {t} : /\ io'[u] # None <=> io[u] # None
                               /\ io'[u] # None => io'[u].h = io[u].h
  BY WorkShape DEF WorkOn
<1>5. OpensBacked'
  BY <1>1 DEF OpensBacked
<1>6. ASSUME UNCHANGED job, io'[t] \in Calls, io'[t].h = io[t].h
      PROVE  Handled' /\ FileTypes'
  <2>1. \A u \in Threads : io'[u] # None <=> io[u] # None
    BY <1>1, <1>3, <1>4, <1>6
  <2>2. Stages'
    BY <1>2, <1>6, <2>1 DEF Stages, StageAt
  <2>3. Known'
    BY <1>1, <1>2, <1>4, <1>6, <2>1 DEF Known
  <2>4. Owned' /\ NoHandleLost' /\ FileTypes'
    BY <1>1, <1>2, <1>6 DEF Owned, Creating, NoHandleLost, FileTypes, TypeOK
  <2> QED
    BY <2>2, <2>3, <2>4 DEF Handled
<1>7. ASSUME io'[t] = None, t \notin Conns, UNCHANGED job
      PROVE  Handled' /\ FileTypes'
  <2>1. \A d \in Conns : io'[d] # None <=> io[d] # None
    BY <1>4, <1>7
  <2>2. Stages'
    BY <1>2, <1>7, <2>1 DEF Stages, StageAt
  <2>3. Known'
    BY <1>1, <1>2, <1>4, <1>7 DEF Known
  <2>4. Owned' /\ NoHandleLost' /\ FileTypes'
    BY <1>1, <1>2, <1>7 DEF Owned, Creating, NoHandleLost, FileTypes, TypeOK
  <2> QED
    BY <2>2, <2>3, <2>4 DEF Handled
<1>8. ASSUME io'[t] = None, t \in Conns, NEW ok \in BOOLEAN, Reply(t, ok)
      PROVE  Handled' /\ FileTypes'
  <2>1. job[t].pc = "io" /\ job[t].new = None
    BY <1>1, <1>2, <1>3, <1>8 DEF Stages, StageAt
  <2>2. Settles(t)
    BY <1>2, <1>8, <2>1, ReplySettles
  <2>3. /\ job' \in [Conns -> Jobs]
        /\ \A d \in Conns \ {t} : job'[d] = job[d]
        /\ Ready(job'[t])
    BY <1>8, <2>2, SettledJob
  <2>4. Stages'
    <3>1. StageAt(t)'
      BY <1>8, <2>3 DEF StageAt, Ready
    <3>2. ASSUME NEW d \in Conns \ {t} PROVE StageAt(d)'
      BY <1>2, <1>4, <2>3 DEF Stages, StageAt
    <3> QED
      BY <3>1, <3>2 DEF Stages
  <2>5. Known'
    BY <1>1, <1>2, <1>4, <1>8, <2>3 DEF Known, Ready
  <2>6. Owned'
    BY <1>1, <1>2, <2>3 DEF Owned, Creating, Ready
  <2>7. NoHandleLost'
    BY <1>1, <1>2, <1>8, <2>1, <2>3, NothingToLose
  <2>8. FileTypes'
    BY <1>1, <2>3 DEF FileTypes, TypeOK
  <2> QED
    BY <2>4, <2>5, <2>6, <2>7, <2>8 DEF Handled
<1>9. \/ UNCHANGED job /\ io'[t] \in Calls /\ io'[t].h = io[t].h
      \/ io'[t] = None /\ t \notin Conns /\ UNCHANGED job
      \/ io'[t] = None /\ t \in Conns /\ \E ok \in BOOLEAN : Reply(t, ok)
  BY WorkShape DEF GoesOn
<1> QED
  BY <1>5, <1>6, <1>7, <1>8, <1>9
-----------------------------------------------------------------------------
(* The operation context.                                                       *)

\* A call that begins has not touched the context.
LEMMA BeginContext ==
  ASSUME TypeOK, Handled, Contexts, NEW c \in Conns, NEW op \in {"read", "write"},
         BeginIO(c, op)
  PROVE  Contexts'
<1>1. UNCHANGED opCtx
  BY BeginShape
<1>2. CASE UNCHANGED io
  BY <1>1, <1>2 DEF Contexts, ContextAt, Writing
<1>3. ASSUME NEW t \in Threads, NEW call \in Calls, io[t] = None, io' = [io EXCEPT ![t] = call],
             call.pc \in {"start", "load"}, call.op = "write" <=> call.pc = "start"
      PROVE  Contexts'
  <2>1. io'[t] = call /\ \A u \in Threads \ {t} : io'[u] = io[u]
    BY <1>3 DEF TypeOK
  <2>2. ~Writing(t) /\ ~Writing(t)' /\ \A u \in Threads \ {t} : Writing(u)' = Writing(u)
    BY <1>3, <2>1 DEF Writing
  <2> QED
    BY <1>1, <1>3, <2>1, <2>2 DEF Contexts, ContextAt
<1> QED
  BY <1>2, <1>3, BeginShape

\* A write sets the context of its goroutine when it begins and clears it when it
\* ends, and no other goroutine touches it.
LEMMA WorkContext ==
  ASSUME TypeOK, Contexts, NEW t \in Threads, Work(t)
  PROVE  Contexts'
<1>1. None \notin Calls
  BY FileTreeAssumption
<1>2. io[t] \in Calls /\ io[t] # None /\ ContextAt(t)
  BY <1>1, WorkShape DEF WorkOn, Contexts
<1>3. ASSUME NEW u \in Threads \ {t} PROVE ContextAt(u)'
  <2>1. io'[u] = io[u] /\ opCtx'[u] = opCtx[u] /\ ContextAt(u)
    BY WorkShape DEF WorkOn, Contexts
  <2> QED
    BY <2>1 DEF ContextAt, Writing
<1>4. ASSUME io[t].pc = "start", GoesOn(t, "load"), opCtx'[t] = io[t].conn
      PROVE  ContextAt(t)'
  BY <1>1, <1>2, <1>4 DEF ContextAt, GoesOn, Writing
<1>5. ASSUME NEW p \in {"apply", "refused"}, io[t].pc = "load", GoesOn(t, p), UNCHANGED opCtx
      PROVE  ContextAt(t)'
  BY <1>1, <1>2, <1>5 DEF ContextAt, GoesOn, Writing
<1>6. ASSUME io[t].pc = "apply", GoesOn(t, "applied"), UNCHANGED opCtx,
             io[t].op = "write" => io'[t].seen = opCtx[t]
      PROVE  ContextAt(t)'
  BY <1>1, <1>2, <1>6 DEF ContextAt, GoesOn, Writing
<1>7. ASSUME io[t].pc \in {"applied", "refused"}, io'[t] = None,
             opCtx'[t] = IF io[t].op = "write" THEN None ELSE opCtx[t]
      PROVE  ContextAt(t)'
  BY <1>2, <1>7 DEF ContextAt, Writing
<1>8. ContextAt(t)'
  BY <1>4, <1>5, <1>6, <1>7, WorkShape
<1> QED
  BY <1>3, <1>8 DEF Contexts
-----------------------------------------------------------------------------
(* Trees.                                                                       *)

\* The types of the trees.
TreeTypes ==
  /\ byName \in [Conns -> [Paths -> TreeIds \cup {None}]]
  /\ byId \in [Conns -> [TreeIds -> Paths \cup {None}]]
  /\ treesOf \in [Conns -> SUBSET TreeIds]
  /\ dceReq \in [TreeIds -> DceKinds \cup {None}]

\* Steps that leave the maps alone.
LEMMA SameTrees ==
  ASSUME TreeTypes, TreesKnown, TreesAgree, UNCHANGED <<byName, byId, treesOf>>,
         dceReq' \in [TreeIds -> DceKinds \cup {None}]
  PROVE  TreeTypes' /\ TreesKnown' /\ TreesAgree'
<1>1. TreeTypes'
  BY DEF TreeTypes
<1>2. TreesKnown'
  BY DEF TreesKnown
<1>3. TreesAgree'
  <2> SUFFICES ASSUME NEW c \in Conns, NEW p \in Paths, NEW t \in TreeIds
               PROVE  byName'[c][p] = t <=> byId'[c][t] = p
    BY Zenon DEF TreesAgree
  <2>1. byName[c][p] = t <=> byId[c][t] = p
    BY DEF TreesAgree
  <2> QED
    BY <2>1
<1> QED
  BY <1>1, <1>2, <1>3

\* A new tree id is in neither map.
LEMMA ConnectKeeps ==
  ASSUME TypeOK, TreesKnown, TreesAgree, Handled, NEW c \in Conns, treeConnect(c)
  PROVE  TreeTypes' /\ TreesKnown' /\ TreesAgree' /\ alive' \in [Conns -> BOOLEAN]
<1> DEFINE p == Cmd(c).path
<1>0. TreeTypes /\ alive \in [Conns -> BOOLEAN] /\ None \notin Paths /\ None \notin TreeIds
  BY FileTreeAssumption DEF TypeOK, TreeTypes
<1>1. ~crashed /\ job[c].pc = "next" /\ Cmd(c).op = "connect"
  BY DEF treeConnect, Handling
<1>2. Cmd(c) \in Commands
  <2>1. job[c] \in Jobs /\ job[c].todo # << >>
    BY <1>1 DEF TypeOK, Handled, Stages, StageAt
  <2>2. job[c].todo \in Seq(Commands)
    BY <2>1 DEF Jobs
  <2> QED
    BY <2>1, <2>2 DEF Cmd
<1>3. p \in Paths \cup {Nowhere}
  BY <1>1, <1>2, CommandFields
<1>4. CASE UNCHANGED treeVars
  <2>1. TreeTypes' /\ TreesKnown' /\ TreesAgree'
    BY <1>0, <1>4, SameTrees DEF treeVars, TreeTypes
  <2>2. UNCHANGED alive \/ Fail(c)
    BY DEF treeConnect
  <2> QED
    BY <1>0, <2>1, <2>2 DEF Fail
<1>5. ASSUME p # Nowhere, byName[c][p] = None, NEW t \in TreeIds,
             \A d \in Conns : t \notin treesOf[d],
             byName' = [byName EXCEPT ![c][p] = t],
             byId' = [byId EXCEPT ![c][t] = p],
             treesOf' = [treesOf EXCEPT ![c] = @ \cup {t}],
             UNCHANGED <<dceReq, alive>>
      PROVE  TreeTypes' /\ TreesKnown' /\ TreesAgree' /\ alive' \in [Conns -> BOOLEAN]
  <2>1. p \in Paths
    BY <1>3, <1>5
  <2> HIDE DEF p
  <2>2. byId[c][t] = None
    BY <1>5 DEF TreesKnown
  <2>3. \A q \in Paths : byName[c][q] # t
    BY <1>0, <2>2 DEF TreesAgree
  <2>4. \A u \in TreeIds : byId[c][u] # p
    BY <1>0, <1>5, <2>1 DEF TreesAgree
  <2>5. /\ byName'[c] = [byName[c] EXCEPT ![p] = t] /\ byId'[c] = [byId[c] EXCEPT ![t] = p]
        /\ treesOf'[c] = treesOf[c] \cup {t}
        /\ \A d \in Conns \ {c} : byName'[d] = byName[d] /\ byId'[d] = byId[d]
                                  /\ treesOf'[d] = treesOf[d]
    BY <1>0, <1>5 DEF TreeTypes
  <2>6. TreeTypes'
    BY <1>0, <1>5, <2>1 DEF TreeTypes
  <2>7. TreesKnown'
    BY <1>0, <2>5 DEF TreesKnown, TreeTypes
  <2>8. TreesAgree'
    <3> SUFFICES ASSUME NEW d \in Conns, NEW q \in Paths, NEW u \in TreeIds
                 PROVE  byName'[d][q] = u <=> byId'[d][u] = q
      BY DEF TreesAgree
    <3>1. CASE d # c
      BY <2>5, <3>1 DEF TreesAgree
    <3>2. CASE d = c
      <4>1. byName'[c][q] = IF q = p THEN t ELSE byName[c][q]
        BY <1>0, <2>5 DEF TreeTypes
      <4>2. byId'[c][u] = IF u = t THEN p ELSE byId[c][u]
        BY <1>0, <2>5 DEF TreeTypes
      <4>3. byName[c][q] = u <=> byId[c][u] = q
        BY DEF TreesAgree
      <4> QED
        BY <2>3, <2>4, <3>2, <4>1, <4>2, <4>3
    <3> QED
      BY <3>1, <3>2
  <2> QED
    BY <1>0, <1>5, <2>6, <2>7, <2>8
<1> QED
  BY <1>4, <1>5 DEF treeConnect

\* Both entries go.
LEMMA DisconnectKeeps ==
  ASSUME TypeOK, TreesKnown, TreesAgree, Handled, NEW c \in Conns, treeDisconnect(c)
  PROVE  TreeTypes' /\ TreesKnown' /\ TreesAgree'
<1> DEFINE t == job[c].tree
           p == byId[c][t]
<1>0. TreeTypes /\ None \notin Paths /\ None \notin TreeIds
  BY FileTreeAssumption DEF TypeOK, TreeTypes
<1>1. ~crashed /\ job[c].pc = "next" /\ Cmd(c).op = "disconnect" /\ UNCHANGED <<treesOf, dceReq>>
  BY DEF treeDisconnect, Handling
<1>2. t \in TreeIds
  <2>1. job[c] \in Jobs
    BY DEF TypeOK
  <2>2. job[c].tree # None
    BY <1>1 DEF Handled, Stages, StageAt, Cmd
  <2> QED
    BY <2>1, <2>2 DEF Jobs
<1>3. CASE UNCHANGED <<byName, byId>>
  BY <1>0, <1>1, <1>3, SameTrees DEF TreeTypes
<1>4. ASSUME p # None, byName' = [byName EXCEPT ![c][p] = None],
             byId' = [byId EXCEPT ![c][t] = None]
      PROVE  TreeTypes' /\ TreesKnown' /\ TreesAgree'
  <2>1. p \in Paths
    BY <1>0, <1>2, <1>4 DEF TreeTypes
  <2>2. byName[c][p] = t
    BY <1>2, <2>1 DEF TreesAgree
  <2>3. p = byId[c][t]
    OBVIOUS
  <2> HIDE DEF p, t
  <2>5. /\ byName'[c] = [byName[c] EXCEPT ![p] = None] /\ byId'[c] = [byId[c] EXCEPT ![t] = None]
        /\ \A d \in Conns \ {c} : byName'[d] = byName[d] /\ byId'[d] = byId[d]
    BY <1>0, <1>4 DEF TreeTypes
  <2>6. TreeTypes'
    BY <1>0, <1>1, <1>2, <1>4, <2>1 DEF TreeTypes
  <2>7. TreesKnown'
    BY <1>0, <1>1, <2>5 DEF TreesKnown, TreeTypes
  <2>8. TreesAgree'
    <3> SUFFICES ASSUME NEW d \in Conns, NEW q \in Paths, NEW u \in TreeIds
                 PROVE  byName'[d][q] = u <=> byId'[d][u] = q
      BY DEF TreesAgree
    <3>1. CASE d # c
      BY <2>5, <3>1 DEF TreesAgree
    <3>2. CASE d = c
      <4>1. byName'[c][q] = IF q = p THEN None ELSE byName[c][q]
        BY <1>0, <2>5 DEF TreeTypes
      <4>2. byId'[c][u] = IF u = t THEN None ELSE byId[c][u]
        BY <1>0, <2>5 DEF TreeTypes
      <4>3. byName[c][q] = u <=> byId[c][u] = q
        BY DEF TreesAgree
      <4> QED
        BY <1>0, <2>2, <2>3, <3>2, <4>1, <4>2, <4>3
    <3> QED
      BY <3>1, <3>2
  <2> QED
    BY <2>6, <2>7, <2>8
<1> QED
  BY <1>3, <1>4 DEF treeDisconnect

-----------------------------------------------------------------------------
(* The theorems.                                                                *)

\* Every step keeps the inductive invariant.
LEMMA InvStep ==
  ASSUME IInv, Next
  PROVE  IInv'
<1> USE DEF IInv
<1>1. TreeTypes /\ FileTypes /\ None \notin Calls
  BY FileTreeAssumption DEF TypeOK, TreeTypes, FileTypes
<1>2. ASSUME Handled', OpensBacked', FileTypes', Contexts',
             TreeTypes', TreesKnown', TreesAgree',
             alive' \in [Conns -> BOOLEAN], crashed' \in BOOLEAN,
             io' \in [Threads -> Calls \cup {None}], opCtx' \in [Threads -> Conns \cup {None}],
             count' \in [Conns -> Nat], \A c \in Conns : count'[c] <= MaxRequests[c]
      PROVE  IInv'
  BY <1>2 DEF TypeOK, TreeTypes, FileTypes
<1>3. ASSUME UNCHANGED treeVars
      PROVE  TreeTypes' /\ TreesKnown' /\ TreesAgree'
  BY <1>1, <1>3, SameTrees DEF treeVars, TreeTypes
<1>4. ASSUME UNCHANGED <<io, opCtx>>
      PROVE  /\ Contexts'
             /\ io' \in [Threads -> Calls \cup {None}] /\ opCtx' \in [Threads -> Conns \cup {None}]
  BY <1>4 DEF Contexts, ContextAt, Writing, TypeOK
<1>5. ASSUME UNCHANGED count
      PROVE  count' \in [Conns -> Nat] /\ \A c \in Conns : count'[c] <= MaxRequests[c]
  BY <1>5 DEF TypeOK
<1>6. ASSUME NEW c \in Conns, Quiet(c)
      PROVE  Handled' /\ OpensBacked' /\ FileTypes'
  <2>1. Handled' /\ OpensBacked'
    BY <1>6, QuietKeeps
  <2>2. job' \in [Conns -> Jobs]
    BY <1>6, SettledJob DEF Quiet, TypeOK
  <2> QED
    BY <1>6, <2>1, <2>2 DEF Quiet, fileVars, FileTypes, TypeOK
<1>7. ASSUME UNCHANGED alive PROVE alive' \in [Conns -> BOOLEAN]
  BY <1>7 DEF TypeOK
<1>8. ASSUME NEW c \in Conns, Fail(c) PROVE alive' \in [Conns -> BOOLEAN]
  BY <1>8 DEF Fail, TypeOK
<1>9. ASSUME UNCHANGED crashed PROVE crashed' \in BOOLEAN
  BY <1>9 DEF TypeOK
<1>10. ASSUME NEW c \in Conns, Receive(c) PROVE IInv'
  <2>1. Quiet(c)
    BY <1>10, QuietSteps
  <2>2. count' = [count EXCEPT ![c] = @ + 1] /\ count[c] < MaxRequests[c]
        /\ UNCHANGED <<treeVars, alive, io, opCtx, crashed>>
    BY <1>10 DEF Receive
  <2>3. count' \in [Conns -> Nat] /\ \A d \in Conns : count'[d] <= MaxRequests[d]
    <3>1. count \in [Conns -> Nat] /\ MaxRequests \in [Conns -> Nat]
          /\ \A d \in Conns : count[d] <= MaxRequests[d]
      BY FileTreeAssumption DEF TypeOK
    <3> QED
      BY <2>2, <3>1
  <2> QED
    BY <1>2, <1>3, <1>4, <1>6, <1>7, <1>9, <2>1, <2>2, <2>3
<1>11. ASSUME NEW c \in Conns, NoTree(c) \/ Skip(c), UNCHANGED count PROVE IInv'
  <2>1. Quiet(c)
    BY <1>11, QuietSteps DEF TreeCommand
  <2>2. UNCHANGED <<treeVars, io, opCtx, crashed>> /\ (UNCHANGED alive \/ Fail(c))
    BY <1>11 DEF NoTree, Skip
  <2> QED
    BY <1>2, <1>3, <1>4, <1>5, <1>6, <1>7, <1>8, <1>9, <1>11, <2>1, <2>2
<1>12. ASSUME NEW c \in Conns, treeConnect(c), UNCHANGED count PROVE IInv'
  <2>1. Quiet(c)
    BY <1>12, QuietSteps DEF TreeCommand
  <2>2. UNCHANGED <<io, opCtx, crashed>>
    BY <1>12 DEF treeConnect
  <2> QED
    BY <1>2, <1>4, <1>5, <1>6, <1>9, <1>12, <2>1, <2>2, ConnectKeeps
<1>13. ASSUME NEW c \in Conns, treeDisconnect(c), UNCHANGED count PROVE IInv'
  <2>1. Quiet(c)
    BY <1>13, QuietSteps DEF TreeCommand
  <2>2. UNCHANGED <<alive, io, opCtx>> /\ (crashed' = TRUE \/ UNCHANGED crashed)
    BY <1>13 DEF treeDisconnect
  <2> QED
    BY <1>2, <1>4, <1>5, <1>6, <1>7, <1>9, <1>13, <2>1, <2>2, DisconnectKeeps
<1>14. ASSUME NEW c \in Conns, FileCommand(c), UNCHANGED count PROVE IInv'
  <2>1. Quiet(c)
    BY <1>14, QuietSteps
  <2>2. UNCHANGED <<treeVars, io, opCtx, crashed>> /\ (UNCHANGED alive \/ Fail(c))
    BY <1>14, FileCommandShape
  <2> QED
    BY <1>2, <1>3, <1>4, <1>5, <1>6, <1>7, <1>8, <1>9, <1>14, <2>1, <2>2
<1>15. ASSUME NEW c \in Conns, PipeCommand(c), UNCHANGED count PROVE IInv'
  <2>1. Quiet(c)
    BY <1>15, QuietSteps
  <2>2. /\ UNCHANGED <<byName, byId, treesOf, io, opCtx>>
        /\ dceReq' \in [TreeIds -> DceKinds \cup {None}]
        /\ UNCHANGED alive \/ Fail(c)
        /\ UNCHANGED crashed \/ crashed' = TRUE
    BY <1>15, PipeCommandShape
  <2>3. TreeTypes' /\ TreesKnown' /\ TreesAgree'
    BY <1>1, <2>2, SameTrees
  <2> QED
    BY <1>2, <1>4, <1>5, <1>6, <1>7, <1>8, <1>9, <1>15, <2>1, <2>2, <2>3
<1>16. ASSUME NEW c \in Conns, CreateLookup(c) \/ CreateMkdir(c), UNCHANGED count PROVE IInv'
  <2>1. UNCHANGED <<treeVars, alive, fileVars, io, opCtx, crashed>>
    BY <1>16 DEF CreateLookup, CreateMkdir
  <2>2. Handled' /\ OpensBacked' /\ FileTypes'
    BY <1>1, <1>16, <2>1, CreateBegins DEF FileTypes, fileVars
  <2> QED
    BY <1>2, <1>3, <1>4, <1>5, <1>7, <1>9, <1>16, <2>1, <2>2
<1>17. ASSUME NEW c \in Conns, UNCHANGED count,
              CreateOpen(c) \/ handleCreateEA(c) \/ Close(c) \/ CloseRelease(c)
       PROVE  IInv'
  <2>1. UNCHANGED <<treeVars, alive, io, opCtx, crashed>>
    BY <1>17 DEF CreateOpen, handleCreateEA, Close, CloseRelease
  <2>2. Handled' /\ OpensBacked' /\ FileTypes'
    BY <1>17, CreateOpens, CreatesStream, CloseBegins, CloseEnds
  <2> QED
    BY <1>2, <1>3, <1>4, <1>5, <1>7, <1>9, <1>17, <2>1, <2>2
<1>18. ASSUME NEW c \in Conns, CreateAdd(c), UNCHANGED count PROVE IInv'
  <2>1. UNCHANGED <<treeVars, alive, io, opCtx>>
    BY <1>18 DEF CreateAdd
  <2> QED
    BY <1>2, <1>3, <1>4, <1>5, <1>7, <1>18, <2>1, CreateAdds
<1>19. ASSUME NEW c \in Conns, NEW op \in {"read", "write"}, BeginIO(c, op), UNCHANGED count
       PROVE  IInv'
  <2>1. UNCHANGED <<treeVars, alive, opCtx, crashed>>
    BY <1>19, BeginShape
  <2>2. opCtx' \in [Threads -> Conns \cup {None}]
    BY <2>1 DEF TypeOK
  <2> QED
    BY <1>2, <1>3, <1>5, <1>7, <1>9, <1>19, <2>1, <2>2, BeginKeeps, BeginContext
<1>20. ASSUME NEW t \in Threads, Work(t), UNCHANGED count PROVE IInv'
  <2>1. UNCHANGED <<treeVars, alive, crashed>> /\ io' \in [Threads -> Calls \cup {None}]
        /\ opCtx' \in [Threads -> Conns \cup {None}]
    BY <1>20, WorkShape DEF WorkOn
  <2> QED
    BY <1>2, <1>3, <1>5, <1>7, <1>9, <1>20, <2>1, WorkKeeps, WorkContext
<1>21. ASSUME NEW c \in Conns, Dispatch(c), UNCHANGED count PROVE IInv'
  BY <1>11, <1>12, <1>13, <1>14, <1>15, <1>16, <1>17, <1>18, <1>19, <1>21
     DEF Dispatch, FileCommand, PipeCommand
<1> QED
  BY <1>10, <1>20, <1>21 DEF Next

\* The invariant holds when the server starts.
LEMMA InitInv == Init => IInv
<1> SUFFICES ASSUME Init PROVE IInv
  OBVIOUS
<1>1. job \in [Conns -> Jobs] /\ \A c \in Conns : job[c] = Idle
  BY IdleIsJob DEF Init
<1>2. TypeOK
  <2>1. byName \in [Conns -> [Paths -> TreeIds \cup {None}]]
        /\ byId \in [Conns -> [TreeIds -> Paths \cup {None}]]
        /\ treesOf \in [Conns -> SUBSET TreeIds]
        /\ dceReq \in [TreeIds -> DceKinds \cup {None}]
    BY DEF Init
  <2>2. count \in [Conns -> Nat] /\ \A c \in Conns : count[c] <= MaxRequests[c]
    BY FileTreeAssumption DEF Init
  <2>3. /\ alive \in [Conns -> BOOLEAN] /\ opens \in [Handles -> Opens \cup {None}]
        /\ used \subseteq Handles
        /\ issued \subseteq used /\ fsOpen \subseteq used /\ noAttr \subseteq used
        /\ io \in [Threads -> Calls \cup {None}]
        /\ opCtx \in [Threads -> Conns \cup {None}] /\ crashed \in BOOLEAN
    BY DEF Init
  <2> QED
    BY <1>1, <2>1, <2>2, <2>3 DEF TypeOK
<1>3. TreesKnown /\ OpensBacked
  BY DEF Init, TreesKnown, OpensBacked
<1>4. TreesAgree
  BY FileTreeAssumption DEF Init, TreesAgree
<1>5. Stages /\ Known /\ Owned /\ NoHandleLost
  BY <1>1 DEF Init, Stages, StageAt, Known, Owned, Creating, NoHandleLost, Idle
<1>6. Contexts
  BY DEF Init, Contexts, ContextAt, Writing
<1> QED
  BY <1>2, <1>3, <1>4, <1>5, <1>6 DEF IInv, Handled

\* A step that changes nothing keeps it.
LEMMA InvStutter ==
  ASSUME IInv, UNCHANGED vars
  PROVE  IInv'
<1>1. UNCHANGED <<byName, byId, treesOf, dceReq, count, job, alive, opens, fsOpen, noAttr, used,
                  issued, io, opCtx, crashed>>
  BY DEF vars, treeVars, fileVars
<1>2. TypeOK' /\ OpensBacked'
  BY <1>1 DEF IInv, TypeOK, OpensBacked
<1>3. TreesKnown' /\ TreesAgree'
  BY <1>1, SameTrees DEF IInv, TypeOK, TreeTypes
<1>4. Handled'
  BY <1>1 DEF IInv, Handled, Stages, StageAt, Known, Owned, Creating, NoHandleLost
<1>5. Contexts'
  BY <1>1 DEF IInv, Contexts, ContextAt, Writing
<1> QED
  BY <1>2, <1>3, <1>4, <1>5 DEF IInv

\* It holds in every state.
LEMMA Invariance == Spec => []IInv
<1>1. IInv /\ [Next]_vars => IInv'
  BY InvStep, InvStutter
<1> QED
  BY InitInv, <1>1, PTL DEF Spec

\* Every variable keeps its type, in particular what dispatchers and goroutines
\* hold between the steps of a handler.
THEOREM TypeCorrect == Spec => []TypeOK
<1>1. IInv => TypeOK
  BY DEF IInv
<1> QED
  BY Invariance, <1>1, PTL

\* Whatever connections create and close at the same time, Server.opens names
\* open files only: addOpen comes after Open and deleteOpen before Close, and no
\* handle that is being closed is entered again.
THEOREM OpensAlwaysBacked == Spec => []OpensBacked
<1>1. IInv => OpensBacked
  BY DEF IInv
<1> QED
  BY Invariance, <1>1, PTL

\* Every path through create enters the handle in Server.opens or closes it, but
\* for the one on which GetAttr fails.
THEOREM NoneLost == Spec => []NoHandleLost
<1>1. IInv => NoHandleLost
  BY DEF IInv, Handled, NoHandleLost
<1> QED
  BY Invariance, <1>1, PTL

\* treeMapByName and treeMapById of a connection mirror each other.
THEOREM TreesMirror == Spec => []TreesAgree
<1>1. IInv => TreesAgree
  BY DEF IInv
<1> QED
  BY Invariance, <1>1, PTL

\* Every write is reported with the context of its own connection, however many
\* goroutines and dispatchers write at once, and none leaves its context behind.
THEOREM ContextsOfCallers == Spec => []ContextOfCaller
<1>1. IInv => ContextOfCaller
  BY DEF IInv, Contexts, ContextAt, ContextOfCaller
<1> QED
  BY Invariance, <1>1, PTL
-----------------------------------------------------------------------------
(* The refinement.                                                              *)

\* One value of the refinement mapping: the phase of a handle.
PhaseAt(h) == IF h \notin issued THEN "unused" ELSE IF h \in fsOpen THEN "open" ELSE "closed"

\* The other one: the call of a goroutine.
CallAt(t) ==
  IF io[t] = None THEN None
  ELSE IF io[t].pc = "refused" THEN None
  ELSE [h |-> io[t].h, taken |-> io[t].pc \in {"apply", "applied"}]

\* The mapping, handle by handle, in this state...
LEMMA Phases == PhaseOf = [h \in Handles |-> PhaseAt(h)]
BY DEF PhaseOf, PhaseAt

\* ...and in the next.
LEMMA PhasesNext == PhaseOf' = [h \in Handles |-> PhaseAt(h)']
BY DEF PhaseOf, PhaseAt

\* The mapping, call by call, in this state...
LEMMA CallsAre == CallOf = [t \in Threads |-> CallAt(t)]
BY DEF CallOf, CallAt

\* ...and in the next.
LEMMA CallsNext == CallOf' = [t \in Threads |-> CallAt(t)']
BY DEF CallOf, CallAt

\* Steps on files that no client was told of do not show.
LEMMA SamePhases ==
  ASSUME TypeOK, issued' = issued, \A h \in issued : h \in fsOpen' <=> h \in fsOpen
  PROVE  PhaseOf' = PhaseOf
<1>1. \A h \in Handles : PhaseAt(h)' = PhaseAt(h)
  BY DEF PhaseAt
<1> QED
  BY <1>1, Phases, PhasesNext

\* Calls that look the same are the same.
LEMMA SameCalls ==
  ASSUME \A t \in Threads : CallAt(t)' = CallAt(t)
  PROVE  CallOf' = CallOf
BY CallsAre, CallsNext

\* What a call looks like at each step, in this state...
LEMMA CallFields ==
  ASSUME NEW t \in Threads, io[t] # None
  PROVE  /\ io[t].pc \in {"start", "load"} => CallAt(t) = [h |-> io[t].h, taken |-> FALSE]
         /\ io[t].pc \in {"apply", "applied"} => CallAt(t) = [h |-> io[t].h, taken |-> TRUE]
         /\ io[t].pc = "refused" => CallAt(t) = None
<1> DEFINE b == io[t].pc \in {"apply", "applied"}
<1>1. io[t].pc # "refused" => CallAt(t) = [h |-> io[t].h, taken |-> b]
  BY DEF CallAt
<1>2. /\ io[t].pc \in {"start", "load"} => b = FALSE
      /\ io[t].pc \in {"apply", "applied"} => b = TRUE
  OBVIOUS
<1>3. io[t].pc = "refused" => CallAt(t) = None
  BY DEF CallAt
<1> HIDE DEF b
<1> QED
  BY <1>1, <1>2, <1>3

\* ...and in the next.
LEMMA CallFieldsNext ==
  ASSUME NEW t \in Threads, io'[t] # None
  PROVE  /\ io'[t].pc \in {"start", "load"} => CallAt(t)' = [h |-> io'[t].h, taken |-> FALSE]
         /\ io'[t].pc \in {"apply", "applied"} => CallAt(t)' = [h |-> io'[t].h, taken |-> TRUE]
         /\ io'[t].pc = "refused" => CallAt(t)' = None
<1> DEFINE b == io'[t].pc \in {"apply", "applied"}
<1>1. io'[t].pc # "refused" => CallAt(t)' = [h |-> io'[t].h, taken |-> b]
  BY DEF CallAt
<1>2. /\ io'[t].pc \in {"start", "load"} => b = FALSE
      /\ io'[t].pc \in {"apply", "applied"} => b = TRUE
  OBVIOUS
<1>3. io'[t].pc = "refused" => CallAt(t)' = None
  BY DEF CallAt
<1> HIDE DEF b
<1> QED
  BY <1>1, <1>2, <1>3

\* A call is not the absence of one.
LEMMA CallIsThere ==
  ASSUME NEW h \in Handles, NEW b \in BOOLEAN
  PROVE  [h |-> h, taken |-> b] # None
<1>1. [h |-> h, taken |-> b] \in [h : Handles, taken : BOOLEAN]
  OBVIOUS
<1> QED
  BY <1>1, FileTreeAssumption

\* create tells a client of a handle it has just entered: the handle is issued.
LEMMA AddIssues ==
  ASSUME IInv, NEW c \in Conns, CreateAdd(c)
  PROVE  Files!Next \/ UNCHANGED Files!vars
<1>0. /\ ~crashed /\ job[c].pc = "add" /\ UNCHANGED <<fsOpen, io>>
      /\ issued' = IF Cmd(c).durable THEN issued ELSE issued \cup {job[c].new}
  BY DEF CreateAdd, Forwarded, Handling
<1>1. PICK h \in Handles : h = job[c].new /\ h \in fsOpen \ issued
  BY <1>0 DEF IInv, Handled, Owned, Creating, TypeOK
<1>2. issued' = issued \/ issued' = issued \cup {h}
  BY <1>0, <1>1
<1>3. CallOf' = CallOf
  BY <1>0, SameCalls DEF CallAt
<1>4. CASE issued' = issued
  <2>1. PhaseOf' = PhaseOf
    BY <1>0, <1>4, SamePhases DEF IInv
  <2> QED
    BY <1>3, <2>1 DEF Files!vars
<1>5. CASE issued' = issued \cup {h}
  <2>1. PhaseAt(h) = "unused" /\ PhaseAt(h)' = "open"
        /\ \A g \in Handles \ {h} : PhaseAt(g)' = PhaseAt(g)
    BY <1>0, <1>1, <1>5 DEF PhaseAt
  <2>2. PhaseOf[h] = "unused"
    BY <2>1, Phases
  <2>3. PhaseOf' = [PhaseOf EXCEPT ![h] = "open"]
    BY <2>1, Phases, PhasesNext
  <2>4. Files!Issue(h)
    BY <1>3, <2>2, <2>3 DEF Files!Issue
  <2> QED
    BY <2>4 DEF Files!Next
<1> QED
  BY <1>2, <1>4, <1>5

\* The file system's Close closes the handle, unless another CLOSE has done so.
LEMMA ReleaseCloses ==
  ASSUME IInv, NEW c \in Conns, CloseRelease(c)
  PROVE  Files!Next \/ UNCHANGED Files!vars
<1>0. /\ ~crashed /\ job[c].pc = "closing" /\ UNCHANGED <<issued, io>>
      /\ fsOpen' = fsOpen \ {job[c].new}
  BY DEF CloseRelease, Handling
<1>1. PICK h \in Handles : h = job[c].new /\ h \in issued
  BY <1>0 DEF IInv, Handled, Owned, TypeOK
<1>2. fsOpen' = fsOpen \ {h}
  BY <1>0, <1>1
<1>3. CallOf' = CallOf
  BY <1>0, SameCalls DEF CallAt
<1>4. CASE h \notin fsOpen
  <2>1. PhaseOf' = PhaseOf
    BY <1>0, <1>2, <1>4, SamePhases DEF IInv
  <2> QED
    BY <1>3, <2>1 DEF Files!vars
<1>5. CASE h \in fsOpen
  <2>1. PhaseAt(h) = "open" /\ PhaseAt(h)' = "closed"
        /\ \A g \in Handles \ {h} : PhaseAt(g)' = PhaseAt(g)
    BY <1>0, <1>1, <1>2, <1>5 DEF PhaseAt
  <2>2. PhaseOf[h] = "open"
    BY <2>1, Phases
  <2>3. PhaseOf' = [PhaseOf EXCEPT ![h] = "closed"]
    BY <2>1, Phases, PhasesNext
  <2>4. Files!Close(h)
    BY <1>3, <2>2, <2>3 DEF Files!Close
  <2> QED
    BY <2>4 DEF Files!Next
<1> QED
  BY <1>4, <1>5

\* A read or write begins on an open handle, since it was in Server.opens.
LEMMA BeginBegins ==
  ASSUME IInv, NEW c \in Conns, NEW op \in {"read", "write"}, BeginIO(c, op)
  PROVE  Files!Next \/ UNCHANGED Files!vars
<1>1. ~crashed /\ UNCHANGED <<issued, fsOpen>> /\ TypeOK /\ Handled /\ OpensBacked
  BY BeginShape DEF IInv, fileVars
<1>2. PhaseOf' = PhaseOf
  BY <1>1, SamePhases
<1>3. CASE UNCHANGED io
  <2>1. CallOf' = CallOf
    BY <1>3, SameCalls DEF CallAt
  <2> QED
    BY <1>2, <2>1 DEF Files!vars
<1>4. ASSUME NEW t \in Threads, NEW call \in Calls, io[t] = None, io' = [io EXCEPT ![t] = call],
             call.pc \in {"start", "load"}, call.h \in Handles, opens[call.h] # None
      PROVE  Files!Next
  <2>1. call.h \in issued \cap fsOpen
    BY <1>1, <1>4 DEF Handled, Known, OpensBacked
  <2>2. PhaseOf[call.h] = "open"
    BY <1>4, <2>1, Phases DEF PhaseAt
  <2>3. io'[t] = call /\ call # None /\ \A u \in Threads \ {t} : io'[u] = io[u]
    BY <1>1, <1>4, FileTreeAssumption DEF TypeOK
  <2>4. CallAt(t) = None /\ CallAt(t)' = [h |-> call.h, taken |-> FALSE]
        /\ \A u \in Threads \ {t} : CallAt(u)' = CallAt(u)
    <3>1. CallAt(t) = None /\ \A u \in Threads \ {t} : CallAt(u)' = CallAt(u)
      BY <1>4, <2>3 DEF CallAt
    <3> QED
      BY <1>4, <2>3, <3>1, CallFieldsNext
  <2>5. CallOf[t] = None /\ CallOf' = [CallOf EXCEPT ![t] = [h |-> call.h, taken |-> FALSE]]
    BY <2>4, CallsAre, CallsNext
  <2>6. Files!Begin(t, call.h)
    BY <1>2, <2>2, <2>5 DEF Files!Begin
  <2> QED
    BY <1>4, <2>6 DEF Files!Next
<1> QED
  BY <1>1, <1>3, <1>4, BeginShape

\* The file system takes a call whose handle it finds, and refuses one only if the
\* handle was closed since.
LEMMA WorkWorks ==
  ASSUME IInv, NEW t \in Threads, Work(t)
  PROVE  Files!Next \/ UNCHANGED Files!vars
<1>1. /\ TypeOK /\ ~crashed /\ UNCHANGED <<issued, fsOpen>> /\ WorkOn(t)
  BY WorkShape DEF IInv, WorkOn, fileVars
<1>2. PhaseOf' = PhaseOf
  BY <1>1, SamePhases
<1>3. io[t] \in Calls /\ io[t] # None /\ io[t].h \in Handles /\ io[t].h \in issued
      /\ None \notin Calls
  BY <1>1, FileTreeAssumption DEF WorkOn, IInv, Handled, Known, TypeOK
<1>4. ASSUME NEW u \in Threads \ {t} PROVE CallAt(u)' = CallAt(u)
  BY <1>1 DEF CallAt, WorkOn
<1>5. ASSUME CallAt(t)' = CallAt(t) PROVE UNCHANGED Files!vars
  <2>1. CallOf' = CallOf
    BY <1>4, <1>5, SameCalls
  <2> QED
    BY <1>2, <2>1 DEF Files!vars
<1>6. ASSUME NEW v, CallAt(t)' = v PROVE CallOf' = [CallOf EXCEPT ![t] = v]
  BY <1>4, <1>6, CallsAre, CallsNext
<1>7. CallOf[t] = CallAt(t)
  BY CallsAre
<1>8. CASE io[t].pc = "start" /\ GoesOn(t, "load")
  <2>1. io'[t].pc = "load" /\ io'[t].h = io[t].h /\ io'[t] # None
    BY <1>3, <1>8 DEF GoesOn
  <2>2. CallAt(t)' = CallAt(t)
    BY <1>3, <1>8, <2>1 DEF CallAt
  <2> QED
    BY <1>5, <2>2
<1>9. ASSUME io[t].pc = "load", io[t].h \in fsOpen, GoesOn(t, "apply")
      PROVE  Files!Next
  <2>2. io'[t] \in Calls /\ io'[t].pc = "apply" /\ io'[t].h = io[t].h
    BY <1>9 DEF GoesOn
  <2>3. CallAt(t) = [h |-> io[t].h, taken |-> FALSE]
        /\ CallAt(t)' = [h |-> io[t].h, taken |-> TRUE]
    BY <1>3, <1>9, <2>2, CallFields, CallFieldsNext
  <2>4. CallAt(t) # None
    BY <1>3, <2>3, CallIsThere
  <2>5. CallOf' = [CallOf EXCEPT ![t] = [CallOf[t] EXCEPT !.taken = TRUE]]
    BY <1>6, <1>7, <2>3
  <2>6. PhaseOf[io[t].h] = "open"
    BY <1>3, <1>9, Phases DEF PhaseAt
  <2>7. CallOf[t] # None /\ ~CallOf[t].taken /\ CallOf[t].h = io[t].h
    BY <1>7, <2>3, <2>4
  <2>8. Files!Take(t)
    BY <1>2, <2>5, <2>6, <2>7 DEF Files!Take
  <2> QED
    BY <2>8 DEF Files!Next
<1>10. ASSUME io[t].pc = "load", io[t].h \notin fsOpen, GoesOn(t, "refused")
       PROVE  Files!Next
  <2>2. io'[t] \in Calls /\ io'[t].pc = "refused"
    BY <1>10 DEF GoesOn
  <2>3. CallAt(t) = [h |-> io[t].h, taken |-> FALSE] /\ CallAt(t)' = None
    BY <1>3, <1>10, <2>2, CallFields, CallFieldsNext
  <2>4. CallAt(t) # None
    BY <1>3, <2>3, CallIsThere
  <2>5. CallOf' = [CallOf EXCEPT ![t] = None]
    BY <1>6, <2>3
  <2>6. PhaseOf[io[t].h] = "closed"
    BY <1>3, <1>10, Phases DEF PhaseAt
  <2>7. CallOf[t] # None /\ ~CallOf[t].taken /\ CallOf[t].h = io[t].h
    BY <1>7, <2>3, <2>4
  <2>8. Files!Refuse(t)
    BY <1>2, <2>5, <2>6, <2>7 DEF Files!Refuse
  <2> QED
    BY <2>8 DEF Files!Next
<1>11. CASE io[t].pc = "apply" /\ GoesOn(t, "applied")
  <2>2. io'[t] \in Calls /\ io'[t].pc = "applied" /\ io'[t].h = io[t].h
    BY <1>11 DEF GoesOn
  <2>3. CallAt(t)' = CallAt(t)
    BY <1>3, <1>11, <2>2 DEF CallAt
  <2> QED
    BY <1>5, <2>3
<1>12. CASE io[t].pc \in {"applied", "refused"} /\ io'[t] = None
  <2>1. CallAt(t)' = None
    BY <1>12 DEF CallAt
  <2>2. CASE io[t].pc = "refused"
    BY <1>5, <2>1, <2>2 DEF CallAt
  <2>3. CASE io[t].pc = "applied"
    <3>1. CallAt(t) = [h |-> io[t].h, taken |-> TRUE]
      BY <1>3, <2>3, CallFields
    <3>2. CallOf[t] # None /\ CallOf[t].taken
      <4>1. CallAt(t) # None
        BY <1>3, <3>1, CallIsThere
      <4> QED
        BY <1>7, <3>1, <4>1
    <3>3. CallOf' = [CallOf EXCEPT ![t] = None]
      BY <1>6, <2>1
    <3>4. Files!End(t)
      BY <1>2, <3>2, <3>3 DEF Files!End
    <3> QED
      BY <3>4 DEF Files!Next
  <2> QED
    BY <1>12, <2>2, <2>3
<1> QED
  BY <1>1, <1>8, <1>9, <1>10, <1>11, <1>12, WorkShape

\* The steps a client's view of handles does not show.
LEMMA HiddenSteps ==
  ASSUME IInv, NEW c \in Conns,
         \/ Quiet(c) \/ CreateLookup(c) \/ CreateMkdir(c)
         \/ CreateOpen(c) \/ handleCreateEA(c) \/ Close(c)
  PROVE  UNCHANGED Files!vars
<1>1. UNCHANGED io /\ issued' = issued
  BY DEF Quiet, CreateLookup, CreateMkdir, CreateOpen, handleCreateEA, Close, fileVars
<1>2. \A h \in issued : h \in fsOpen' <=> h \in fsOpen
  <2>1. CASE Quiet(c) \/ CreateLookup(c) \/ CreateMkdir(c) \/ Close(c)
    BY <2>1 DEF Quiet, CreateLookup, CreateMkdir, Close, fileVars
  <2>2. CASE CreateOpen(c)
    BY <2>2 DEF CreateOpen, fileVars, IInv, TypeOK
  <2>3. CASE handleCreateEA(c)
    <3>1. job[c].new \notin issued
      BY <2>3 DEF handleCreateEA, Forwarded, Handling, IInv, Handled, Owned, Creating
    <3> QED
      BY <2>3, <3>1 DEF handleCreateEA
  <2> QED
    BY <2>1, <2>2, <2>3
<1>3. PhaseOf' = PhaseOf
  BY <1>1, <1>2, SamePhases DEF IInv
<1>4. CallOf' = CallOf
  BY <1>1, SameCalls DEF CallAt
<1> QED
  BY <1>3, <1>4 DEF Files!vars

\* Every step is one of OpenFiles or does not show there.
LEMMA RefineStep ==
  ASSUME IInv, Next
  PROVE  Files!Next \/ UNCHANGED Files!vars
<1>1. ASSUME NEW c \in Conns, Receive(c) PROVE UNCHANGED Files!vars
  BY <1>1, QuietSteps, HiddenSteps DEF IInv
<1>2. ASSUME NEW c \in Conns, TreeCommand(c) \/ FileCommand(c) \/ PipeCommand(c)
      PROVE  UNCHANGED Files!vars
  BY <1>2, QuietSteps, HiddenSteps DEF IInv
<1>3. ASSUME NEW c \in Conns,
             CreateLookup(c) \/ CreateMkdir(c) \/ CreateOpen(c) \/ handleCreateEA(c) \/ Close(c)
      PROVE  UNCHANGED Files!vars
  BY <1>3, HiddenSteps
<1>4. ASSUME NEW c \in Conns,
             CreateAdd(c) \/ CloseRelease(c) \/ BeginIO(c, "read") \/ BeginIO(c, "write")
      PROVE  Files!Next \/ UNCHANGED Files!vars
  BY <1>4, AddIssues, ReleaseCloses, BeginBegins
<1>5. ASSUME NEW c \in Conns, Dispatch(c) PROVE Files!Next \/ UNCHANGED Files!vars
  BY <1>2, <1>3, <1>4, <1>5 DEF Dispatch, TreeCommand, FileCommand, PipeCommand
<1>6. ASSUME NEW t \in Threads, Work(t) PROVE Files!Next \/ UNCHANGED Files!vars
  BY <1>6, WorkWorks
<1> QED
  BY <1>1, <1>5, <1>6 DEF Next

\* The server keeps the promises of OpenFiles for any connections, goroutines and
\* handles: a handle is issued once, stays closed once it is closed, a call begins
\* on an open handle, and is refused only if the handle was closed meanwhile.
THEOREM Refinement == Spec => ImplementsOpenFiles
<1>1. Init => Files!Init
  <2> SUFFICES ASSUME Init PROVE Files!Init
    OBVIOUS
  <2>1. \A h \in Handles : PhaseAt(h) = "unused"
    BY DEF Init, PhaseAt
  <2>2. \A t \in Threads : CallAt(t) = None
    BY DEF Init, CallAt
  <2> QED
    BY <2>1, <2>2, Phases, CallsAre DEF Files!Init
<1>2. IInv /\ [Next]_vars => [Files!Next]_Files!vars
  <2>1. ASSUME IInv, UNCHANGED vars PROVE UNCHANGED Files!vars
    <3>1. UNCHANGED <<issued, fsOpen, io>>
      BY <2>1 DEF vars, fileVars
    <3>2. PhaseOf' = PhaseOf /\ CallOf' = CallOf
      BY <2>1, <3>1, SamePhases, SameCalls DEF IInv, CallAt
    <3> QED
      BY <3>2 DEF Files!vars
  <2> QED
    BY <2>1, RefineStep
<1> QED
  BY <1>1, <1>2, Invariance, PTL DEF Spec, ImplementsOpenFiles, Files!Spec
===============================================================================
