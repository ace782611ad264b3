------------------------------- MODULE MemoryFS -------------------------------
(***************************************************************************)
(* The tree of files of a share, memoryshare/memory_fs.go: nodes with a    *)
(* parent, a name and children, and the handles clients have on them.      *)
(*                                                                         *)
(* fs.mu makes an operation on the tree atomic, except Open with O_CREATE, *)
(* which takes it three times: to look the path up, to add the file and to *)
(* look it up again.  Unlink takes the lock of one directory instead; how  *)
(* it meets Rename, and who waits for whom, is the subject of NodeLocks.   *)
(* A handle keeps its node and the path it was opened with; a node keeps   *)
(* the parent and the name it was given.                                   *)
(*                                                                         *)
(* Paths are sequences of names below the root, as path.Clean leaves them. *)
(* The bytes of a file are abstracted to their number.                     *)
(***************************************************************************)
EXTENDS Naturals, Sequences

CONSTANTS
  Clients,    \* goroutines that call the file system
  Handles,    \* handles: bound on those open at a time
  Names,      \* names of files and directories
  MaxDepth,   \* bound: components of a path
  MaxNodes,   \* bound: nodes ever made
  MaxSize,    \* bound: size of a file
  Modes,      \* how the share may be used: values of <<discard, hasCtx>>
  Verdicts,   \* what the application's callbacks answer, a subset of AllVerdicts
  None

\* A callback lets the operation go on, blocks it or fails it.  Without a
\* callback it goes on.
AllVerdicts == {"proceed", "block", "error"}

ASSUME FSAssumption ==
  /\ MaxDepth \in Nat /\ MaxNodes \in Nat \ {0} /\ MaxSize \in Nat
  /\ Modes \subseteq BOOLEAN \X BOOLEAN
  /\ Verdicts \subseteq AllVerdicts
  /\ None \notin Names \cup Nat

Nodes == 1..MaxNodes
Root == 1
Paths == UNION {[1..n -> Names] : n \in 0..MaxDepth}
BelowRoot == Paths \ {<< >>}

Dir(p) == SubSeq(p, 1, Len(p) - 1)
Base(p) == p[Len(p)]

VARIABLES
  discard,   \* fs.discardWrites: honeypot mode; set once
  hasCtx,    \* Open, Mkdir and Rename are called with an operation context
  next,      \* the next node to be made (fs.nextInode)
  isDir,     \* MemoryNode.isDir
  name,      \* MemoryNode.name
  parent,    \* MemoryNode.parent
  children,  \* MemoryNode.children; a file has none (its map is nil)
  size,      \* MemoryNode.size
  content,   \* len(MemoryNode.content)
  open,      \* fs.openFiles: handle -> record, or None
  pc,        \* Open by each client: "idle", "create", "resolve"
  arg,       \* Open: the path
  blocked,   \* history: nodes made for a creation that a callback blocked
  panicked   \* the process has panicked

treeVars == <<next, isDir, name, parent, children>>
dataVars == <<size, content>>
mode == <<discard, hasCtx>>
vars == <<mode, treeVars, dataVars, open, pc, arg, blocked, panicked>>

NoChildren == [m \in Names |-> None]

\* NewMemoryFS.
Init ==
  /\ \E m \in Modes : discard = m[1] /\ hasCtx = m[2]
  /\ next = 2
  /\ isDir = [n \in Nodes |-> n = Root]
  /\ name = [n \in Nodes |-> None]
  /\ parent = [n \in Nodes |-> None]
  /\ children = [n \in Nodes |-> NoChildren]
  /\ size = [n \in Nodes |-> 0]
  /\ content = [n \in Nodes |-> 0]
  /\ open = [h \in Handles |-> None]
  /\ pc = [c \in Clients |-> "idle"]
  /\ arg = [c \in Clients |-> << >>]
  /\ blocked = {}
  /\ panicked = FALSE

-----------------------------------------------------------------------------
(* resolvePath.                                                            *)

\* The nodes met on the way from the root along p.
IsWalk(w, p) ==
  \A i \in 1..Len(p) : w[i] = children[IF i = 1 THEN Root ELSE w[i - 1]][p[i]]

resolvePath(p) ==
  IF p = << >> THEN Root
  ELSE IF \E w \in [1..Len(p) -> Nodes] : IsWalk(w, p)
  THEN (CHOOSE w \in [1..Len(p) -> Nodes] : IsWalk(w, p))[Len(p)]
  ELSE None

\* The first k components of p exist, and no more.
Existing(p, k) ==
  /\ resolvePath(SubSeq(p, 1, k)) # None
  /\ k < Len(p) => resolvePath(SubSeq(p, 1, k + 1)) = None

Listed(n) == \E d \in Nodes, m \in Names : children[d][m] = n

-----------------------------------------------------------------------------
(* AddFile, AddDirectory, getOrCreateDirPath.                              *)

\* Components j..Len(p) of p become new nodes, the last of them with the given
\* kind and size.
Attach(p, j, dir, bytes) ==
  LET New(i) == next + i - j
      made == next..New(Len(p))
      at == resolvePath(SubSeq(p, 1, j - 1))
      Above(i) == IF i = j THEN at ELSE New(i - 1)
      Comp(n) == j + n - next
  IN
  /\ New(Len(p)) <= MaxNodes
  /\ next' = New(Len(p)) + 1
  /\ isDir' = [n \in Nodes |-> IF n \in made THEN n # New(Len(p)) \/ dir ELSE isDir[n]]
  /\ name' = [n \in Nodes |-> IF n \in made THEN p[Comp(n)] ELSE name[n]]
  /\ parent' = [n \in Nodes |-> IF n \in made THEN Above(Comp(n)) ELSE parent[n]]
  /\ children' = [n \in Nodes |-> [m \in Names |->
       IF n = at /\ m = p[j] THEN New(j)
       ELSE IF n \in made /\ n # New(Len(p)) /\ m = p[Comp(n) + 1] THEN n + 1
       ELSE children[n][m]]]
  /\ size' = [size EXCEPT ![New(Len(p))] = bytes]
  /\ content' = [content EXCEPT ![New(Len(p))] = bytes]

\* Below a file as below a directory.
AddFile_BelowFile(p, bytes) ==
  \E k \in 0..(Len(p) - 1) : Existing(Dir(p), k) /\ Attach(p, k + 1, FALSE, bytes)

\* Missing directories are made; an entry that exists is replaced, whatever it
\* is.
AddFile(p, bytes) ==
  \E k \in 0..(Len(p) - 1) :
    /\ Existing(Dir(p), k)
    /\ isDir[resolvePath(SubSeq(p, 1, k))]
    /\ Attach(p, k + 1, FALSE, bytes)

\* A component of the path is a file.
BelowFile(p) ==
  \E k \in 0..(Len(p) - 1) :
    Existing(Dir(p), k) /\ ~isDir[resolvePath(SubSeq(p, 1, k))]

AddDirectory(p) ==
  \E k \in 0..(Len(p) - 1) :
    /\ Existing(p, k)
    /\ isDir[resolvePath(SubSeq(p, 1, k))]
    /\ Attach(p, k + 1, TRUE, 0)

\* Calls of the application, on a share that clients may be using.
AppAddFile(p, bytes) ==
  /\ AddFile(p, bytes)
  /\ UNCHANGED <<open, pc, arg, blocked, panicked>>

AppAddDirectory(p) ==
  /\ AddDirectory(p)
  /\ UNCHANGED <<open, pc, arg, blocked, panicked>>

-----------------------------------------------------------------------------
(* Open, OpenDir, Close, Mkdir.                                            *)

\* A handle on node n.
Opened(h, n, p) ==
  /\ open[h] = None
  /\ open' = [open EXCEPT ![h] = [node |-> n, path |-> p]]

\* A node that only the handle knows.
Dummy(h, p) ==
  /\ next <= MaxNodes
  /\ next' = next + 1
  /\ name' = [name EXCEPT ![next] = Base(p)]
  /\ Opened(h, next, p)
  /\ UNCHANGED <<isDir, parent, children, dataVars>>

\* The log line of a blocked or failed operation prints ctx.RemoteAddr.
CallbackPanics(v) == v # "proceed" /\ ~hasCtx

Open(c, h, p) ==
  /\ pc[c] = "idle"
  /\ resolvePath(p) # None
  /\ Opened(h, resolvePath(p), p)
  /\ UNCHANGED <<treeVars, dataVars, pc, arg, blocked, panicked>>

\* With O_CREATE and nothing at the path: the create callback, then honeypot
\* mode, then (in the next steps) AddFile.
OpenMissing(c, h, p, v) ==
  /\ pc[c] = "idle"
  /\ resolvePath(p) = None
  /\ panicked' = CallbackPanics(v)
  /\ \/ /\ v = "block" /\ hasCtx
        /\ Dummy(h, p)
        /\ blocked' = blocked \cup {next}
        /\ UNCHANGED <<pc, arg>>
     \/ /\ v = "proceed" /\ discard
        /\ Dummy(h, p)
        /\ UNCHANGED <<pc, arg, blocked>>
     \/ /\ v = "proceed" /\ ~discard
        /\ pc' = [pc EXCEPT ![c] = "create"]
        /\ arg' = [arg EXCEPT ![c] = p]
        /\ UNCHANGED <<treeVars, dataVars, open, blocked>>
     \/ /\ CallbackPanics(v)
        /\ UNCHANGED <<treeVars, dataVars, open, pc, arg, blocked>>

OpenCreate(c) ==
  /\ pc[c] = "create"
  /\ \/ /\ AddFile(arg[c], 0)
        /\ pc' = [pc EXCEPT ![c] = "resolve"]
        /\ UNCHANGED arg
     \/ /\ BelowFile(arg[c])
        /\ pc' = [pc EXCEPT ![c] = "idle"]
        /\ arg' = [arg EXCEPT ![c] = << >>]
        /\ UNCHANGED <<treeVars, dataVars>>
  /\ UNCHANGED <<open, blocked, panicked>>

OpenResolve(c, h) ==
  LET n == resolvePath(arg[c]) IN
  /\ pc[c] = "resolve"
  /\ pc' = [pc EXCEPT ![c] = "idle"]
  /\ arg' = [arg EXCEPT ![c] = << >>]
  /\ \/ n # None /\ Opened(h, n, arg[c])
     \/ n = None /\ UNCHANGED open
  /\ UNCHANGED <<treeVars, dataVars, blocked, panicked>>

OpenDir(c, h, p) ==
  /\ pc[c] = "idle"
  /\ resolvePath(p) # None
  /\ isDir[resolvePath(p)]
  /\ Opened(h, resolvePath(p), p)
  /\ UNCHANGED <<treeVars, dataVars, pc, arg, blocked, panicked>>

Close(h) ==
  /\ open[h] # None
  /\ open' = [open EXCEPT ![h] = None]
  /\ UNCHANGED <<treeVars, dataVars, pc, arg, blocked, panicked>>

\* The parent is not asked whether it is a directory: an entry in a file's nil
\* map panics.
Mkdir(p, v) ==
  LET d == resolvePath(Dir(p)) IN
  /\ \/ /\ CallbackPanics(v)
        /\ panicked' = TRUE
        /\ UNCHANGED <<treeVars, dataVars>>
     \/ /\ v = "proceed" /\ ~discard
        /\ d # None /\ ~isDir[d]
        /\ panicked' = TRUE
        /\ UNCHANGED <<treeVars, dataVars>>
     \/ /\ v = "proceed" /\ ~discard
        /\ d # None /\ isDir[d]
        /\ children[d][Base(p)] = None
        /\ Attach(p, Len(p), TRUE, 0)
        /\ UNCHANGED panicked
  /\ UNCHANGED <<open, pc, arg, blocked>>

-----------------------------------------------------------------------------
(* Operations on a handle.                                                 *)

\* content[offset:] panics when the size says more than there is.
Read(h, offset) ==
  /\ open[h] # None
  /\ ~isDir[open[h].node]
  /\ offset < size[open[h].node]
  /\ panicked' = (offset > content[open[h].node])
  /\ UNCHANGED <<treeVars, dataVars, open, pc, arg, blocked>>

\* In honeypot mode only the size grows.  (The write callback has a context.)
Write(h, endOffset) ==
  LET n == open[h].node IN
  /\ open[h] # None
  /\ endOffset > size[n]
  /\ \/ /\ discard
        /\ UNCHANGED content
     \/ /\ ~discard /\ ~isDir[n]
        /\ content' = [content EXCEPT ![n] = endOffset]
  /\ size' = [size EXCEPT ![n] = endOffset]
  /\ UNCHANGED <<treeVars, open, pc, arg, blocked, panicked>>

\* The size changes and the bytes stay.
Truncate_KeepsContent(h, bytes) ==
  /\ open[h] # None
  /\ ~discard
  /\ ~isDir[open[h].node]
  /\ size' = [size EXCEPT ![open[h].node] = bytes]
  /\ UNCHANGED <<treeVars, content, open, pc, arg, blocked, panicked>>

Truncate(h, bytes) ==
  LET n == open[h].node IN
  /\ open[h] # None
  /\ ~discard
  /\ ~isDir[n]
  /\ content' = [content EXCEPT ![n] = bytes]
  /\ size' = [size EXCEPT ![n] = bytes]
  /\ UNCHANGED <<treeVars, open, pc, arg, blocked, panicked>>

\* A deletion that is carried out in honeypot mode too.
Unlink_NotDiscarded(h) ==
  LET n == open[h].node IN
  /\ open[h] # None
  /\ parent[n] # None
  /\ children' = [children EXCEPT ![parent[n]][name[n]] = None]
  /\ UNCHANGED <<next, isDir, name, parent, dataVars, open, pc, arg, blocked, panicked>>

\* The entry of the parent the node remembers, under the name it remembers.
Unlink(h) ==
  LET n == open[h].node IN
  /\ open[h] # None
  /\ ~discard
  /\ parent[n] # None
  /\ children' = [children EXCEPT ![parent[n]][name[n]] = None]
  /\ UNCHANGED <<next, isDir, name, parent, dataVars, open, pc, arg, blocked, panicked>>

\* The old entry is left behind.
Without_Kept(n) == children

\* The children once n has left the place it remembers.
Without(n) ==
  IF parent[n] = None THEN children
  ELSE [children EXCEPT ![parent[n]][name[n]] = None]

Rename(h, p, replace, v) ==
  LET n == open[h].node
      d == resolvePath(Dir(p))
  IN
  /\ open[h] # None
  /\ \/ /\ CallbackPanics(v)
        /\ panicked' = TRUE
        /\ UNCHANGED treeVars
     \/ /\ v = "proceed" /\ ~discard
        /\ d # None /\ ~isDir[d]
        /\ panicked' = TRUE
        /\ UNCHANGED treeVars
     \/ /\ v = "proceed" /\ ~discard
        /\ d # None /\ isDir[d]
        /\ children[d][Base(p)] = None \/ replace
        /\ children' = [Without(n) EXCEPT ![d][Base(p)] = n]
        /\ name' = [name EXCEPT ![n] = Base(p)]
        /\ parent' = [parent EXCEPT ![n] = d]
        /\ UNCHANGED <<next, isDir, panicked>>
  /\ UNCHANGED <<dataVars, open, pc, arg, blocked>>

-----------------------------------------------------------------------------
AppNext ==
  \E p \in BelowRoot :
    \/ \E b \in 0..MaxSize : AppAddFile(p, b)
    \/ AppAddDirectory(p)

OpenNext(c, h) ==
  \/ \E p \in Paths : Open(c, h, p) \/ OpenDir(c, h, p)
  \/ \E p \in BelowRoot, v \in Verdicts : OpenMissing(c, h, p, v)
  \/ OpenResolve(c, h)

HandleNext(h) ==
  \/ Close(h)
  \/ Unlink(h)
  \/ \E p \in BelowRoot, r \in BOOLEAN, v \in Verdicts : Rename(h, p, r, v)
  \/ \E b \in 0..MaxSize : Read(h, b) \/ Write(h, b) \/ Truncate(h, b)

Next ==
  /\ ~panicked
  /\ \/ AppNext
     \/ \E c \in Clients, h \in Handles : OpenNext(c, h)
     \/ \E c \in Clients : OpenCreate(c)
     \/ \E p \in BelowRoot, v \in Verdicts : Mkdir(p, v)
     \/ \E h \in Handles : HandleNext(h)
  /\ UNCHANGED mode

Spec == Init /\ [][Next]_vars

-----------------------------------------------------------------------------
(* Properties.                                                             *)

OpenFile == [node : Nodes, path : Paths]

\* Every variable keeps its type, no entry, parent or handle refers to a node
\* that was not made, and only directories have entries.
TypeOK ==
  /\ next \in 2..(MaxNodes + 1)
  /\ isDir \in [Nodes -> BOOLEAN] /\ isDir[Root]
  /\ name \in [Nodes -> Names \cup {None}]
  /\ parent \in [Nodes -> Nodes \cup {None}]
  /\ children \in [Nodes -> [Names -> Nodes \cup {None}]]
  /\ size \in [Nodes -> Nat]
  /\ content \in [Nodes -> Nat]
  /\ open \in [Handles -> OpenFile \cup {None}]
  /\ pc \in [Clients -> {"idle", "create", "resolve"}]
  /\ arg \in [Clients -> Paths]
  /\ blocked \subseteq Nodes
  /\ panicked \in BOOLEAN
  /\ \A n \in Nodes : ~isDir[n] => children[n] = NoChildren
  /\ \A n \in Nodes : n >= next => children[n] = NoChildren /\ ~Listed(n)
  /\ \A h \in Handles : open[h] # None => open[h].node < next

\* A node is in one place at most, the one it remembers: whatever handles are
\* used to rename, replace, unlink and create, moved and removed nodes
\* included, an entry's node has that directory as parent and that name.
ListedOnce ==
  \A d, n \in Nodes, m \in Names :
    children[d][m] = n => parent[n] = d /\ name[n] = m

\* Outside honeypot mode a file has as many bytes as its size says, after any
\* mixture of Write and Truncate through several handles: Read relies on it.
SizeIsContent == discard \/ size = content

\* In honeypot mode "nothing is actually saved": no call of a client changes an
\* entry of the tree or the content of a file.
HoneypotKeepsTree ==
  [][discard => AppNext \/ UNCHANGED <<children, content>>]_vars

\* "Concurrent file operations are handled safely" (memoryshare/README.md:11):
\* a file that Open adds takes nobody else's place.
OpenKeepsFiles ==
  [][\A c \in Clients : pc[c] = "create" /\ pc'[c] = "resolve" =>
       \A n \in Nodes : Listed(n) => Listed(n)']_vars

\* "Concurrent file operations are handled safely" (memoryshare/README.md:11):
\* what a client deletes or moves is the file its handle is on.
OwnEntryOnly ==
  [][\A d \in Nodes, m \in Names :
       children[d][m] # None /\ children'[d][m] = None =>
         \E h \in Handles : open[h] # None /\ open[h].node = children[d][m]]_vars

\* "Block prevents the file creation if true" (vfs/vfs.go:116): what a create
\* callback has blocked never appears in the tree.
BlockedStaysOut == \A n \in blocked : ~Listed(n)

\* The path a callback is given is the "Full path of the file being written"
\* (vfs/vfs.go:107), the "Original path" of the one renamed (143).
PathCurrent ==
  \A h \in Handles : open[h] # None /\ Listed(open[h].node) =>
    resolvePath(open[h].path) = open[h].node

\* No operation ends the process: a callback may block or fail one ("Error if
\* set, will be returned to the client", vfs/vfs.go:118), a path below a file is
\* an error, and honeypot mode pretends that "operations succeeded".
NeverPanics == ~panicked
=============================================================================
