# smb-mem-lib: TLA+ models, checks and proofs

smb-mem-lib is an SMB2/3 server library in Go whose share lives in memory; in
*honeypot mode* (`DiscardWrites`) it pretends to accept every change and keeps
nothing but the traces of it. This directory holds TLA+ modules of its server,
its file system and its encodings, TLC configurations that check them on small
instances, and proofs checked by TLAPS. `PROJECT.json` maps each definition to the
lines it models.

## 1. The system

| Part | Source | State | Operations |
|---|---|---|---|
| connection | `server/conn.go`, `compound.go`, `transport.go`, `server.go` | socket, context, `outstandingRequests`, the channels `write`, `werr`, `wdone`, `rdone`, compound contexts, I/O semaphores | `runReciever`, `Run`, `sendPacket`, `runSender`, worker goroutines of READ and WRITE, `shutdown` |
| server life cycle | `server/server.go`, `memoryshare/memoryshare.go` | `activeConns`, `active`, listener | `Serve`, `Shutdown` |
| session set-up | `server/server.go`, `session.go`, `spnego.go`, `authenticator.go`, `internal/ntlm/server.go` | `serverState`, `session`, `_useSession`, preauth hash; the negotiator and NTLM server, shared by all connections | `negotiate`, `sessionServerSetup`, `sessionServerSetupChallenge`, `logoff` |
| trees and opens | `server/server.go`, `file_tree.go`, `ipc_tree.go` | `treeMapByName`, `treeMapById`, `Server.opens` | tree connect and disconnect, create, close, read, write, query, set... |
| memory file system | `memoryshare/memory_fs.go` | tree of `MemoryNode`s with a lock each, `openFiles`, `nextInode` | `AddFile`, `Open`, `Close`, `Read`, `Write`, `Rename`, `Unlink`... |
| ghost-file registry | `memoryshare/memory_fs.go` | `ghostFiles`, `ghostMemoryUsage`, `ghostMemoryGlobal`, `contextMap` | `addGhostFile`, `getGhostFile`, `removeGhostFile`, `cleanupGhostFiles` |
| credits, paths, ACLs, info records | `server/credit.go`, `path.go`, `acl.go`, `info_fs.go` | a credit balance; otherwise none | pure functions |
| codecs, cryptography, RPC | `internal/...` | none across calls | encoders, decoders |
| pass-through file system, configuration, statistics, Bonjour | `fs_impl.go`, `config`, `stats`, `bonjour` | host state | I/O |

**How the parts interact.** `Serve` accepts a socket and starts three
goroutines. The receiver splits a transport packet into requests and hands each
over an unbuffered channel to the dispatcher, `Run`, which calls a handler. A
handler answers with `sendPacket`: it keeps the response if the request is part
of an unfinished compound, otherwise it puts the packet on the `write` channel
and takes a result from `werr`. READ and WRITE outside a compound run in
goroutines of their own, bounded by a semaphore per tree. Handlers of all
connections call the one `MemoryFS` of a share; in honeypot mode its `Open` and
`Close` use the registry of ghosts under the session of the calling goroutine's
operation context. `Server.Shutdown` calls `conn.shutdown` for every connection
ever accepted, from the application's goroutine.

**What is hard.** Results on `werr` are not tied to packets; channels of
capacity 0, 1 and 10 couple goroutines that may leave in any order; compounds
are completed by two goroutines; the ghost registry is three shared objects
without a lock; the cleanup timer races with opens and closes; node locks are
taken in different orders; sessions of different connections share the
authenticator. `PROJECT.json` lists these as hazards, with the line of each.

**What makes each part correct.** Connection: each request answered at most
once, no interim response after the final one, a compound as a whole, I/O slots never leaked, no
caller left waiting, everything ends on shutdown. Registry: limits kept, counters
equal to the contents, least recently used first, sessions isolated, old ghosts
forgotten. File system: the nodes form a tree, handles refer to what they opened,
no operation blocks for ever. Session set-up: a session is given to a client that
has proved who it is, and both sides derive the same keys. Opens: the table of
opens names open files only, every open file is in it, and a call on a file
finds it open unless it was closed meanwhile. Codecs: what is encoded is what is
decoded, within the buffer.

## 2. Plan

1. `Connection`, `ConnectionProofs` - done.
2. `GhostFiles`, `GhostFilesProofs` - done.
3. The memory file system: `MemoryFS`, `MemoryFSProofs` (nodes, handles, sizes)
   and `NodeLocks` (the order in which its operations take locks) - done.
4. `Sessions`: session set-up of connections that share a negotiator - done.
5. `FileTree`: trees, opens and the handlers, with goroutines for reads and
   writes; `OpenFiles`, the abstract specification they implement - done.
6. The layouts of every structure of the protocol: `Layout`, `SMB2Requests`,
   `SMB2Responses`, `InfoRecords`, `PacketHeaders`, `SecurityDescriptors`,
   `RpcRecords`, put together by `Codecs` - done.
7. Proofs about the wire of `Connection` (`AnswerProofs`), `FileTree` and its
   refinement (`FileTreeProofs`), `Sessions` (`SessionsProofs`) - done.
8. Proofs about the locks (`NodeLocksProofs`) - done.
9. Proofs about the counters, limits and order of ghosts (`GhostFilesProofs`)
   and about honeypot mode (`HoneypotKeepsTree`, in `MemoryFSProofs`) - done.
10. `GhostCache`, an LRU cache that `GhostFiles` implements for sessions that take
    turns, and the proof of its refinement for one - done.
11. Proofs about the layouts (`CodecsProofs`) - done.

A further abstract specification worth stating is, for `Connection`, a set of
requests each of which is answered once.

## 3. Modules

### Connection

One connection. Variables are the fields of `conn` and the program counters of
its goroutines; the receiver's actions are `ReceiverRead`, `ReceiverParse`,
`Handoff` (the two ends of the unbuffered channel in one step), `ReceiverFail`,
`ReceiverInvalid`, `ReceiverExit`; the dispatcher's are the `Run...` actions, one
for each way a request can be handled; `Acquire` is a worker; `Put`, `TakeResult`
and `GiveUp` are the second half of `sendPacket` for every caller, and `Return`
what its caller does next; `Sender...` and `Shutdown...` are the steps of
`runSender` and `conn.shutdown`. A request is a message id with a *kind*: what
its handler does with respect to the connection. `Answer` is the first half of
`sendPacket`, under `conn.m`, hence atomic.

Abstractions. The contents of packets are left out (`Codecs` has their layout,
`FileTree` and `Sessions` what the handlers do): a response is its message id and
whether its status is pending, success or an error. A packet that `tryDecrypt` or
the session check drops leaves no trace and is not a step. A compound consists of
related requests. A send on a closed channel ends the process (`shut = "panic"`),
as Go's panic does. A write to a socket whose peer has left may succeed or fail;
after a failure every later use of the socket fails. `pop` never finds a message
id without its request, because the receiver waits until each id it hands over is
taken, so its `again` loop is not a step.

### GhostFiles

The registry in honeypot mode. Every access to `ghostFiles`, `ghostMemoryUsage`
and `ghostMemoryGlobal` is a step, with the local variables of `addGhostFile`
and `removeGhostFile` kept between steps; `Range` is one step. A file of the
share (`TreeFiles`) is closed into a ghost as well, as in the code. `CtxOps` says
for which operations the caller has set an operation context: all of them in the
repository's tests, none of `Open` and `Close` in the server. Nodes are reused
once nothing refers to them. `creator` is a history variable. `TurnsSpec` is the
part of the behaviours in which sessions take turns: none opens or closes a file
while another is inside `Close`, and no ghost gets old enough to expire. Sizes, times and
limits are small numbers; the expiration time is in units of the clock.

`GhostCache` is what sessions that take turns may rely on: an LRU cache of the
files they have closed. Closing a file uses its entry or adds one; for an entry to
add, the least recently used ones leave as long as it does not fit, first those of
the session for its limits, then those of all for the global one, the limits being
compared with what is cached and not with a counter. `GhostFiles` under `TurnsSpec`
implements it: `OpenOf` forgets who opened a handle, and `ClosingOf` says
from the program counter of `addGhostFile` whether the file is still to be stored.

### MemoryFS

The tree of a share and the handles on it. A node is a number, given in the order
of creation as inodes are; `children`, `parent`, `name`, `isDir`, `size` and
`content` are its fields, content being its length. Each method is one action,
since `fs.mu` (or, for operations on a handle, the node's lock) is held over its
effect, except `Open` with `O_CREATE`, which is the three steps `OpenMissing`,
`OpenCreate`, `OpenResolve`. Calls that return an error and change nothing are
not steps. `AddFile` and `AddDirectory` are also called by the application, at
any time. A callback's answer is chosen from `Verdicts`; `HasCtx` says whether
the caller has set an operation context (the server does so for writes only). A
panic, of a nil context, a nil map or a slice out of range, sets `panicked` and
ends the behaviour. Paths are sequences of names, the root being the empty one;
the root itself is not a target of `Mkdir` or `Rename`. `blocked` is a history
variable. In honeypot mode reopening a closed file is the subject of `GhostFiles`.

### NodeLocks

The same operations as sequences of locking calls on `fs.mu` and the nodes'
`sync.RWMutex`es. `Call` gives the call at each program counter, `Lock`,
`LockGot`, `RLock` and `Release` the mutex (a writer that has announced itself
keeps new readers out; those that waited enter when it unlocks), and the other
actions what is done with the lock just got. `Unlink` reads `node.parent` in
three different steps. Operations with the same locks are one; `Symlink` is left
out. The tree may grow cycles through `Rename`, as in the code; paths are chosen
when they are first looked at, under `fs.mu`. The operations the goroutines call
are one of `OpSets`, chosen in the initial state. The initial tree is any that has
levels (`TreeAssumption`).

### FileTree and OpenFiles

Each connection has its dispatcher, `Run`, which takes a request apart into its
commands (several in a compound of related requests) and handles them one after
the other. Actions have the names of the handlers. A handler is one action unless
it uses shared state more than once: `create` is `CreateLookup`, `CreateMkdir`,
`CreateOpen`, `handleCreateEA`, `CreateAdd`; `close` is `Close` (`deleteOpen`) and
`CloseRelease` (the file system's `Close`); READ and WRITE are `BeginIO`, after
which a goroutine, or in a compound the dispatcher itself, does
`SetOperationContext`, `Load` (the file system's look-up of the handle), `Apply`
and `EndIO`. Shared by the connections are `opens` (`Server.opens`) and the file
system's `fsOpen`. `opCtx` is `contextMap`, which has an operation context for each
goroutine: `Stored` and `getOperationContext` write and read that of the caller's. A
panic sets `crashed` and ends the behaviour. The
file system is external: it may refuse anything, and refuses what comes with a
handle that is not open. Random handles and tree ids never come twice. A
TREE_CONNECT comes alone (`FileTreeAssumption`): the commands of a compound name a
tree its client knows already. `noAttr`, `used`, `issued` and `treesOf` are
history variables.

`OpenFiles` is what a client may rely on: a handle is issued once, open until it
is closed and then closed for ever; a call begins on an open handle and is refused
only if the handle was closed meanwhile. `FileTree` implements it with `PhaseOf`
and `CallOf`: a handle is issued when its client is told, and closed when the file
system closes it.

### Sessions

One dispatcher per connection and, shared by all of them, the negotiator's
`SpecifiedDialect` and `Spnego` and the authenticator's `ntlm`. Every access to
those is a step. A challenge is the pair of connection and login it was made for, a
session key the client whose proof it comes from, and the preauthentication hash
the number of packets it covers. The client is external: it has right, wrong or no
credentials, negotiates (perhaps with an SMB1 packet first), logs in, and may log
in or negotiate again once logged in, each time waiting for the answer.
`oneAtATime` restricts clients to logging in one after the other. `Spoken` says
of an offer that the server selects some dialect of it; `AloneAgrees` asks for an
offered dialect only then.

### Codecs

A structure is a record with the `size` that `Size()` computes, the interval of
bytes `Encode` writes each field to (`enc`), the interval each method of the decoder
reads (`dec`) and whether `IsInvalid` accepts (`valid`), as functions of the lengths
of the variable parts. Values of fields are left out, but for the offsets and
lengths the decoder follows, which are truncated to the width they are sent in.
`Layout` has the vocabulary, the six modules of structures one operator per
structure, and `Codecs` sends each: made, encoded, decoded. Chains of structures
(compounds, contexts, directory entries) are positions and links; `ChainsFollowed`
says which links lead to the next item (`Exact`), and that the others do not. A
slice whose bounds are computed in 16 bits is an interval of negative length where
they overflow (`Slice16`), which stands for the panic.

`Messages` and `Lists` are what is sent. `Regular` says which may be:
`Sendable` of a structure and `Linkable` of a chain bound the lengths by the width
of their 8- and 16-bit fields (32-bit fields are taken to hold any length) and leave
out what section 5 lists. The program checks none of this itself.

## 4. Runs

| Run | Instance | Shows |
|---|---|---|
| `conn_compound` | 2 requests of every kind, compounds of 2, 1 read and 1 write slot, `write` of capacity 2 | `TypeOK`, `AnsweredOnceInOrder`, `CompoundWhole`, `SlotsHeld`, `ResultsMatchCallers` |
| `conn_live` | 2 reads, alone or in a compound, fair | `Responsive`, `ShutdownReleasesCallers` |
| `ghost_turns` | 2 sessions that take turns, 3 paths, 3 created files, 1 handle, sizes to 3, limits of 2 files, 1 byte of a session and 2 of all | `AccountingAtRest`, `MemoryLimited`, `CloseRegisters`, `LeastRecentFirst`, `ImplementsCache` |
| `ghost_sessions` | 2 sessions and the cleanup, 3 paths (two files of the share, of 1 byte, and one to create), 2 handles, limits of 2 files, 2 bytes of a session and 0 of all, ghosts expire one tick after their last use | `TypeOK`, `CountLimit`, `Isolation` |
| `ghost_expiry` | 1 session, 2 paths, fair | `Forgotten` |
| `ghost_server` | no context set for `Open` and `Close` | violates `CloseRegisters` |
| `fs` | 1 client, 2 handles, 2 names, depth 2, 3 nodes, sizes to 1, callbacks may block; a plain share with contexts and a honeypot without | `TypeOK`, `ListedOnce`, `SizeIsContent`, `HoneypotKeepsTree` |
| `locks` | 2 goroutines, a root with a directory and a file, 2 nodes to make; listing, deletion, creation, lookup, or `Rename`, lookup, one-node operations | `TypeOK`, `NoStandstill`, `EntriesGuarded` |
| `locks_deadlock` | 2 goroutines, the same tree; `ReadDir` and `Rename` | violates `NoStandstill` |
| `files` | 2 connections with 3 requests each, 2 handles, 3 trees, 2 goroutines; one with compounds and streams, one with every command and the pipe | `TypeOK`, `OpensBacked`, `NoHandleLost`, `TreesAgree`, `ContextOfCaller`, `ImplementsOpenFiles` |
| `sessions` | 2 clients of every kind of credentials, 2 logins each, offering 2.0.2, 2.0.2 and 2.1, or 2.1 to 3.1.1, guests allowed or not, at once or one at a time | `TypeOK`, `OnlyProven`, `AloneAdmitted`, `AloneAgrees` |
| `codecs` | over 90 structures, lengths 0 to 18, 300, 60000 and the longest of 16 bits, chains of up to 3 items | `FieldsApart`, `RoundTrip`, `ChainsFollowed` |

**Bounds.** Two requests give every pair of goroutines something to race for:
a worker against a worker, against the dispatcher, against a compound; one slot
makes the second worker wait. For the registry three paths fill a limit of two
files, so that every eviction loop runs once, twice and not at all. In `ghost_turns`
a file of 1 byte exceeds no limit of memory by itself, one of 2 that of its session,
one of 3 both; two files of 1 byte together exceed that of their session, and one
of each session may exceed the global one together. A turn is a call, so that one
handle, which the sessions use in turn, is enough for ghosts of both.

In `ghost_sessions` the sessions and the cleanup interleave at every access. The
global limit of 0 makes a `Close` evict ghosts of both sessions, while the other
works on its list; the list has up to two items, and after the tick the cleanup
removes ghosts from under it. `UnevenSessions` gives each session one handle, and
the second session one path, that of the file to create, which the first uses as
well: there the sessions must be kept apart. The created file stays empty, and the
counters move with those of the share. The counters drift without bound when
sessions race (section 5); `BoundedDrift` does not go on from states in which the
global one is negative or more than 1 over its limit or a session's is over its
limit, which `CountLimit` and `Isolation` do not depend on, as the proofs show. That
an old ghost goes at last is the subject of `ghost_expiry`.

For the file system, three nodes (the root among them) and depth 2 allow a file
or directory in the root and in a directory, moved between them, replaced by
another and below itself. `fs` identifies states that differ
only in the paths of handles and in `blocked`, which no action and none of its
properties reads. In `NodeLocks` two goroutines are enough for every cycle of two
locks; the spare nodes bound `AddFile` and `Mkdir`, a call that finds none left
ends with its locks released. The operations are in two sets because `Rename`
with `ReadDir` or `Unlink` goes wrong (section 5).

In `files` the three requests of the first connection are enough to connect, create
and write, or to run a compound of three commands beside an open file; the three of
the second let it connect and close the handle, begin a write of its own or take a
tree down at any point of these. Two goroutines race with each other and with two
dispatchers, which write themselves in compounds and on streams. In `sessions` the
second login of a client meets the first or the second of the other; of the offers
one has no dialect the server selects, one the wildcard's and one the last. In
`codecs` the lengths lie around the alignments of 4 and 8, and for the parts found
by an offset and a length of 16 bits at the longest that ends at byte 65535
(`Longest`). Left out are the structures and lengths that section 5 lists: an error
response with data, a symbolic link error, create requests whose name is not a
multiple of 8 bytes long with contexts, empty IOCTL and SET_INFO buffers, channel
info of READ and WRITE, `FileFsFullSizeInformation`.

**Deadlock** is not checked: clients send finitely many requests, the clock ends,
a process that panicked stops, and a connection may stop for good; what must not stop
is said by the liveness properties, and for locks by `NoStandstill`.

**Fairness.** `conn_live`: weak fairness of each goroutine's next step (the Go
scheduler runs what can run; a `select` with one ready case takes it). The
client's steps, invalid packets and the decision to shut down are not fair.
`ghost_expiry`: weak fairness of the cleanup goroutine, which a ticker wakes
every 30 seconds, and of a `Close` that has begun.

## 5. Findings

Two have a run of their own:

* Files closed over SMB never become ghosts, because the server sets the
  operation context for writes only (`ghost_server`).
* `ReadDir` and `Rename` into a subdirectory can wait for each other for ever,
  with `fs.mu` locked (`locks_deadlock`).

The modules state further formulas that the code does not satisfy. They are not
part of the standing runs; TLC refutes each in seconds once the cfg of the run
named here, changed as said, lists the formula.

| Formula | Instance | What happens |
|---|---|---|
| `ShutdownNeverPanics` | `conn_live`, as an invariant | `conn.shutdown` sends on a channel the receiver closes when it ends: shutting down a server that a client has left panics (`conn.go:128`; `memoryshare.go:248`: "Shutdown gracefully stops the SMB server") |
| `ShutdownStopsConnection` | `conn_live` | the receiver stays at `conn.go:44`, handing a request to a dispatcher that has left, or the sender at `conn.go:203`, posting a result nobody takes |
| `AnsweredOnceInOrder` without its exemption of `ctxDone` | `conn_compound` | once the context is cancelled `sendPacket` may leave with STATUS_PENDING unwritten (`conn.go:522`); the worker ignores the error (`file_tree.go:615`, 703) and its final response may still be written |
| `AccountingAtRest`, `MemoryLimited` | `ghost_sessions`, memory limits and sizes of 1, `Expiry` 3, no constraint | two sessions that close files at once lose updates of the counters (`memory_fs.go:1389`, 1425-1435), and each finds room that the other takes |
| `CloseRegisters` | `ghost_sessions` | the other session evicts the file for the global limit before `Close` has returned |
| `LeastRecentFirst` | `ghost_sessions`, sizes to 1, a global limit of 2, `Expiry` 3, no symmetry | a session chooses the oldest ghost of another one for the global limit; before it is removed its owner opens it, so that a ghost just used goes (1343-1352) |
| `AccountingAtRest`, `CloseRegisters`, `LeastRecentFirst` | `ghost_expiry` | the cleanup goroutine removes what the session touches or evicts at the same time |
| `SizeTracked` | `ghost_turns` | a ghost keeps the size of its first close (559) |
| `OpenKeepsFiles` | `fs`, 2 clients, no `VIEW` | of two clients that create one file the second replaces the file of the first (521) |
| `OwnEntryOnly` | the same, 4 nodes | deleting or renaming through the handle of a replaced file removes the file that replaced it (932, 1050) |
| `BlockedStaysOut` | `fs`, no `VIEW` | a file whose creation was blocked enters the tree when its handle is renamed (1061) |
| `PathCurrent` | `fs`, no `VIEW` | handles give callbacks the path from before a rename (1059) |
| `NeverPanics` | `fs` | without an operation context a create or rename callback that blocks makes the server panic (461); with a context and sizes to 2, reading at an offset above 0 what was only pretended to be written does (717) |
| `EntriesGuarded`, `UnlocksHeld` | `locks_deadlock` with `OpSets` of `unlink` and `rename` | `Unlink` of a node that is being renamed deletes from, or unlocks, a directory it has not locked (929-932) |
| `ConcurrentAdmitted` | `sessions` | logins that overlap are mixed up on the shared negotiator and authenticator: a challenge is replaced before its answer is checked, so that right credentials are denied, or the process panics on a mechanism, challenge or session not there yet (`README.md:11`: "Handles 1000+ concurrent sessions") |
| `AloneAgrees` without its restriction to first logins | `sessions` | a further SMB 3.1.1 login on a connection goes on with the hash of the one before, and the keys differ from the client's |
| `AloneAgrees` without `Spoken` | `sessions` | a client that offers 2.0.2 alone is told 2.1, which it has not offered: 2.0.2 is below the wildcard 0x2FF (`server.go:530-538`) |
| `NoHandleLost` without `noAttr` | `files` | a handle stays open for ever when `GetAttr` fails after `Open` (`file_tree.go:205-213`) |

The other disagreements met in `FileTree`, each an action or a branch of it:

* TREE_DISCONNECT of an unknown tree, a durable open and a pipe other than
  `srvsvc` end the process (`server.go:508`, `server.go:932`, `ipc_tree.go:46`).
* The opens of a disconnected tree or an ended connection stay in `Server.opens`
  and in the file system until somebody closes them by their ids, which any
  connection may do.
* After a failure inside a compound its CLOSE is skipped as well (`server.go:275`).
* `FILE_CREATE` is not exclusive and `FILE_OVERWRITE` does not truncate, since
  `MemoryFS.Open` ignores `O_EXCL` and `O_TRUNC`; the look-up before is another step.
* An unknown info type is never answered (`file_tree.go:1587`); a share that does
  not exist ends the connection (`server.go:443`).
* A write the file system has taken may take effect after the CLOSE was answered.
* Writing a stream, and reading `AFP_AfpInfo`, succeed on closed handles
  (`file_tree.go:553`, 735).
* The request written to the pipe is kept per tree, not per open, and a failed
  one is kept for the next read (`ipc_tree.go:93`, 129-136).

And in the layouts:

| Structure | What happens |
|---|---|
| `ErrorResponse` with data | writes ByteCount as 2 bytes at 2, where the decoder reads the context count; the decoder's ByteCount, 4 bytes at 4, stays 0 (`response.go:33`) |
| `SymbolicLinkErrorResponse` | the encoder puts names at 24, over Flags, the decoder looks from 28 (`response.go:190`) |
| `CreateRequest` | CreateContextsLength counts the padding before the contexts (`request.go:505`) |
| create contexts | aligned to 8 but linked by their unrounded size, so that a context after one of unaligned size, such as `LeaseResponse2` of 76 bytes, is not found (`request.go:500`, `response.go:827`); `ChainsFollowed` says exactly for which |
| `NegotiateRequest`, `ReadRequest` | `IsInvalid` subtracts 36, or nothing, instead of the header's 64 from offsets |
| `WriteRequest`, `IoctlRequest`, `SetInfoRequest` | the decoders take the data to begin at a fixed place, or to be the rest of the packet, whatever offset and length say (`request.go:1011`) |
| `FileFsFullSizeInformation` | ActualAvailable is written at 18 instead of 16 (`info_fs.go:447`) |
| `Sid` | `dtyp.go:102` shifts the identifier authority |
| packet header | AsyncId is written over TreeId whenever it is set (`packet.go:39-44`) |
| parts found by an offset and a length of 16 bits | the decoder adds them in 16 bits, so that a part that ends at byte 65536 or later has a bound below its beginning, and slicing panics (`request.go:242-250`) |

Not modelled, found while reading: `Symlink` calls `nodeToAttributes` (1081) with
the node's write lock held, which takes its read lock: it never returns. A compound
of unrelated requests is never answered (`conn.go:278`). `Shutdown` and `Serve`
share `activeConns` without a lock. QUERY_DIRECTORY with RETURN_SINGLE_ENTRY loses
the entries after the first of those `ReadDir` returned. `setEndOfFileInfo` ignores
the error of `Truncate`. LOGOFF ends nothing. `conn.username` is never set
(`vfs.go:91`: "Username is the authenticated username (if available)"). The path
of an open is the one from before a rename.

## 6. Proofs

`ConnectionProofs` proves for every set of requests, every chain length and every
capacity: `TypeOK` (channels and semaphores within capacity), `SlotsHeld` and
`ResultsMatchCallers`. The inductive invariant is `TypeOK /\ Stages /\ SlotsHeld
/\ ResultsMatchCallers`. `Stages` says where each request is: a request in the
receiver's hands has no worker, so that a new worker is a new holder of nothing
and `Holders` grows exactly when a slot is taken; without it the cardinalities
cannot be followed.

`GhostFilesProofs` proves for any sessions, paths, handles and limits: `TypeOK`,
`CountLimit` and `Isolation`. `CountLimit` is not inductive: `Room` adds that
while a session is in `addGhostFile` its ghosts are among its working list
(others only remove them) and that past the first loop the list leaves room for
one more. `Isolation` needs `GhostsMine`, that a registered ghost was created by
the session of its key.

Its second part proves what the limits of memory rest on, for any paths,
nodes, handles, sizes and limits: `AccountingAtRest`, `MemoryLimited`,
`LeastRecentFirst`, and `CloseRegisters` for a caller that sets the context for
`Close`. The hypothesis of all four is `Alone`: there is one session, and no ghost
gets old enough to expire. Sessions or a cleanup that overlap break all
four (section 5). `ghost_turns` checks them where two sessions take turns, which the
proofs do not cover; with one session each limit of memory is still compared with
files of any sizes. The inductive invariant `AccountInv` adds `Account`
to the one of the first part. Between the accesses of `addGhostFile` and
`removeGhostFile` the counters are not the sum of the ghosts' sizes: `Counted` says
by how much each lags (`UsageLag`, `GlobalLag`). `Working` says that the copies
`addGhostFile` works on are still right, `Removes` that the victim stays the least
recently used ghost from its choice to its deletion, `Stored` when the file being
closed is registered, and `Limits` what each loop has made room for. The sum is the
community modules' fold over a set, whose order of elements is a `CHOOSE`. That a
ghost more or less changes it by its size (`TotalRemove`) is induction over the size
of the set, done here as the smallest counterexample (`Smallest`), and so is that the
recursive function inside the fold exists at all (`AddsExists`).

Its third part proves, under `Alone` and for a caller that sets the context for
`Close`, that `GhostFiles` implements `GhostCache`. Most steps of `Close` are
invisible: reading the counters and the list, choosing a ghost, and the first four
steps of its removal. The fifth, which deletes it from the map, is `Evict`, the
entry into the map `Store`, the touch of a file that is a ghost already `Use`, the
reading of a size `Add`, and the end `Close`. That the cache is full when a ghost
leaves has to be shown of its contents, although the code looked at a list and at
counters, and five steps before: `AccountInv` gives both, since list and map agree
(`Working`) and the counters lag by known amounts, and `Needed` keeps the reason a
ghost was chosen for until it is gone. With two sessions each of these fails.

`MemoryFSProofs` proves for any names, depth, handles and clients: `TypeOK`,
`ListedOnce`, `SizeIsContent` and the action property `HoneypotKeepsTree`, which
needs that in honeypot mode nobody is between the steps of an `Open` that creates
(`NoneCreates`). The inductive invariant is `TypeOK /\
ListedOnce /\ CreatesBelowRoot`, the last saying that a creation under way is not of
the root. That nodes not made yet are listed nowhere (part of `TypeOK`) is what
makes the nodes of `AttachInv` listed once; that a node is listed only where it
remembers is what lets `Rename` remove every old entry by removing one. `AttachInv`
is proved once and used for `AddFile`, `AddDirectory` and `Mkdir`.

`AnswerProofs` proves, for the same constants as `ConnectionProofs`,
`AnsweredOnceInOrder` and `CompoundWhole`. What is on the wire says too little
about what may follow, so the inductive invariant `AnswerInv`, on top of that of
`ConnectionProofs`, follows a request from the client to its response: `Sent` is
the wire and the channel before it, `Ahead` the requests nobody has handled.
`WorkerOK` and `RunOK` say what the senders of packets may still send, `SentOK`
that packets on their way answer different requests, none of them ahead, and
`RspOK` and `CompoundOK` that each member of a compound is ahead or has its
response kept, and that nothing is sent of a compound until its last request is
handled, which is why that one must be known before. `InOrder` keeps STATUS_PENDING
from following the final response through shutdown as well; that it has been sent
before it is asked only until the context is cancelled.

`FileTreeProofs` proves for any connections, handles, trees and requests: `TypeOK`,
`OpensBacked`, `NoHandleLost`, `TreesAgree`, `ContextOfCaller`, and that `FileTree`
implements `OpenFiles`. `OpensBacked` is not inductive: `Owned` adds that the handle
a half-finished `create` works on is open, nobody else's and told to no client, and
that the one a half-finished `close` works on has left `Server.opens` for good;
`Known` that every handle in a request, a call or the table was told to a client,
and `Stages` what a dispatcher holds at each step. A handler that panics may leave
any of this undone, hence `Handled` asks for it only until `crashed`.
`ContextOfCaller` follows from `Contexts`, that a goroutine has the context of its
write's connection from `SetOperationContext` to `EndIO` and none otherwise, which
others cannot disturb since each stores its own. The refinement is proved step by
step: `CreateAdd` issues, `CloseRelease` closes, `BeginIO` begins a call, `Load`
takes or refuses it, `EndIO` ends it, every other step stutters.

`SessionsProofs` proves for any clients, offers and numbers of logins: `TypeOK`,
`OnlyProven`, `AloneAdmitted` and `AloneAgrees`. `OnlyProven` holds for clients
that overlap, too, and rests on `Checked` (who is past the check has proven
itself) alone. The other two need what the shared negotiator and authenticator
hold while one client uses them (`Undisturbed`), what the connection has kept of
them (`Kept`), and, for the keys of 3.1.1, how many packets are hashed at each step
of the first login (`Counted`). `Phase` relates the steps of client and server.

`CodecsProofs` proves for messages and chains of any lengths that are `Regular`:
`FieldsApart`, `RoundTrip` and `ChainsFollowed`. The state adds little (`Carried`:
what is on the wire is what the structure says); the work is in one lemma for each
structure or group of them, that it is `Sound`. Items in a row rest on `StartsDef`,
that the recursive function of `Layout` exists, by its smallest counterexample
(`Smallest`), and on `StartsPlaced` and `Adjacent`, which say where each begins.
From these follow the chains (`FollowedChain`; for an encoder that pads and a decoder
that rounds a length up, `RoundedVisited`; for create contexts of any sizes,
`CreateContextsReached`), the contexts behind a packet
(`ContextsPlaced`, `ContextsApart`), ACLs, and `StringsWithin`: `NetShareInfo1` counts
records and strings in one pass over the shares and writes them in two, and both
passes end at the same byte. Where the code adds in 16 bits, `SliceFits` needs that
the part ends below byte 65536.

`NodeLocksProofs` proves for any goroutines, nodes, names, initial tree and length
of paths: `TypeOK` and `EntriesGuarded`, when `Rename` and `Unlink`
are not called together (`RenameApart`), and `NoStandstill`, when `Rename` is called
together with neither `ReadDir` nor `Unlink` (`RenameAlone`). The hypotheses are
those under which the code is right (that no mutex is unlocked by a goroutine that
has not locked it, `UnlocksHeld`, is a part of `IInv` and has no run of its own,
since what could break it is excluded by them): without them the properties are violated
(`locks_deadlock`, and section 5). The inductive invariant `IInv` says of each mutex
who has it: the locks kept from earlier calls, which follow from a goroutine's place
in its operation (`KeptWrite`, `KeptRead`), and the one of the current call; `Shape`
says which places and variables an operation can have, and `Exclusive` that a writer
that has the lock has no readers beside it. `NoStandstill` is not about locks alone:
`ReadDir` holds a directory while it waits for an entry of it, which is safe in a
tree only. `Levels` says that without `Rename` the tree has levels, and that
the node a goroutine waits for is one below the node it holds. If all goroutines
waited, a waiter for a node would wait for a `ReadDir` that holds it and waits one
level deeper (two `Rename`s are kept apart by `fs.mu`), and so on, below the deepest
level; hence nobody waits for a node, and whoever holds `fs.mu` can go on. The
descent is the least element of a set of naturals (`Smallest`), which the library's
well-founded minimum gives without an operator parameter.

The assumptions are `ConnAssumption`, `GhostAssumption`, `NoneAssumption`,
`FSAssumption`, `FileTreeAssumption`, `SessionsAssumption`, `LocksAssumption`,
`TreeAssumption` and `RegularAssumption`: positive capacities, natural limits,
finite sets of requests and paths, distinct names, a nil that is none of the
records and no number, requests that consist of commands, offers that are not empty,
a tree of nodes at the beginning, messages of sendable lengths. TLC evaluates them
in every run.

Every invariant, action property and refinement that a run checks is proved, but
for the liveness properties (`Responsive`, `ShutdownReleasesCallers`,
`Forgotten`), which are only model-checked, since the proof system does not handle
fairness. The two properties of the violation runs are proved where they hold:
`NoStandstill` when `Rename` is called together with neither `ReadDir` nor `Unlink`,
`CloseRegisters` for a caller that sets the context.

## 7. Not modelled

See the components in `PROJECT.json`: cryptography and ASN.1 (bytes), host I/O,
configuration and display. Of session set-up: the receiver's reading of the session
while the dispatcher drops it, and a client that negotiates in the middle of a
login. Of the handlers: the contents of responses, attributes, extended attributes'
values, the position in a directory, wildcard matching. Of the codecs: the values of
fields, and structures that are only decoded or never used (quota, change notify
requests, bind requests). Of the server's life cycle: `activeConns`, shared by
`Serve` and `Shutdown` without a lock. Of the memory file system: attributes,
extended attributes and symbolic links.
