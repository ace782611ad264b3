------------------------------ MODULE Connection ------------------------------
(***************************************************************************)
(* One SMB connection of the server: the goroutines that Server.Serve      *)
(* starts for it and the channels between them (server/conn.go, the loops  *)
(* of server/server.go, the asynchronous reads and writes of               *)
(* server/file_tree.go).                                                   *)
(*                                                                         *)
(*   receiver    conn.runReciever  socket -> outstandingRequests           *)
(*   dispatcher  conn.Run          outstandingRequests -> a handler        *)
(*   workers     one goroutine per asynchronous READ or WRITE              *)
(*   sender      conn.runSender    write channel -> socket -> werr channel *)
(*   shutdown    Server.Shutdown -> conn.shutdown, from the application    *)
(*                                                                         *)
(* A caller of sendPacket (the dispatcher or a worker) puts its packet on  *)
(* `write' and then takes a result from `werr'; nothing ties the result it *)
(* takes to the packet it put.  Requests are identified by message id.  A  *)
(* packet is a sequence of responses: one, or those of a compound.         *)
(***************************************************************************)
EXTENDS Naturals, Sequences, FiniteSets

CONSTANTS
  Msgs,         \* message ids of the requests the client may send
  Kinds,        \* the kinds of request explored, a subset of AllKinds
  MaxChain,     \* bound: requests in one compound
  MaxIOReads,   \* capacity of fileTree.ioReadSem
  MaxIOWrites,  \* capacity of fileTree.ioWriteSem
  WriteCap,     \* capacity of conn.write (10 in Server.Serve)
  Run,          \* the dispatcher, as a caller of sendPacket
  None          \* no compound, no message

\* "read", "write": fileTree.read and write of an open file, asynchronous
\* outside a compound; "sync": a handler that answers before it returns (so do
\* read and write when the handle is not open); "plain": one that answers
\* outside the compound (echo, logoff, tree connect: sendPacket(_, _, nil));
\* "silent": no answer (a command that Run's switch does not know);
\* "reject": the handler returns an error, which ends Run.
AllKinds == {"read", "write", "sync", "plain", "silent", "reject"}
IoKinds == {"read", "write"}

ASSUME ConnAssumption ==
  /\ Kinds \subseteq AllKinds
  /\ MaxChain \in Nat \ {0}
  /\ MaxIOReads \in Nat \ {0}
  /\ MaxIOWrites \in Nat \ {0}
  /\ WriteCap \in Nat \ {0}
  /\ Run \notin Msgs
  /\ None \notin Msgs
  /\ IsFiniteSet(Msgs)

Cap(k) == IF k = "read" THEN MaxIOReads ELSE MaxIOWrites

Callers == Msgs \cup {Run}
Responses == [msg : Msgs, st : {"pending", "ok", "err"}]

VARIABLES
  sock,        \* "open", "peerClosed" (the client went away) or "closed"
  ctxDone,     \* conn.ctx is cancelled
  kind,        \* kind of each request received so far, None before that
  chain,       \* request -> first request of its compound, or None
  recvPc,      \* receiver: "read", "parse", "handoff", "exit", "done"
  inbox,       \* receiver: requests of the transport packet still to hand over
  requests,    \* outstandingRequests.requests
  lastMsg,     \* compoundContext.lastMsgId, by first request
  lastStatus,  \* compoundContext.lastStatus, by first request
  rsp,         \* compoundContext.rsp, by first request
  pc,          \* callers: the dispatcher and the workers
  cur,         \* dispatcher: the request it handles
  pkt,         \* the packet each caller is sending
  sem,         \* slots taken in ioReadSem and ioWriteSem
  write,       \* conn.write
  werr,        \* conn.werr, capacity 1
  sendPc,      \* sender: "loop", "result", "done"
  sendRes,     \* sender: the result it is about to post, "ok" or "fail"
  wdone,       \* conn.wdone: number of buffered values, capacity 1
  wdoneClosed, \* conn.wdone is closed
  rdone,       \* conn.rdone: number of buffered values, capacity 1
  shut,        \* conn.shutdown: its next step
  wire         \* packets written to the transport

recvVars == <<recvPc, inbox, kind, chain>>
compVars == <<lastMsg, lastStatus, rsp>>
callVars == <<pc, cur, pkt>>
sendVars == <<sendPc, sendRes, wire>>
doneVars == <<wdone, wdoneClosed, rdone>>
vars == <<sock, ctxDone, recvVars, requests, compVars, callVars, sem,
          write, werr, sendVars, doneVars, shut>>

-----------------------------------------------------------------------------
(* Server.Serve: the channels of a connection just accepted.               *)
Init ==
  /\ sock = "open"
  /\ ctxDone = FALSE
  /\ kind = [m \in Msgs |-> "none"]
  /\ chain = [m \in Msgs |-> None]
  /\ recvPc = "read"
  /\ inbox = << >>
  /\ requests = {}
  /\ lastMsg = [m \in Msgs |-> None]
  /\ lastStatus = [m \in Msgs |-> "ok"]
  /\ rsp = [m \in Msgs |-> << >>]
  /\ pc = [c \in Callers |-> IF c = Run THEN "pop" ELSE "idle"]
  /\ cur = None
  /\ pkt = [c \in Callers |-> << >>]
  /\ sem = [k \in IoKinds |-> 0]
  /\ write = << >>
  /\ werr = << >>
  /\ sendPc = "loop"
  /\ sendRes = "ok"
  /\ wdone = 0
  /\ wdoneClosed = FALSE
  /\ rdone = 0
  /\ shut = "no"
  /\ wire = << >>

-----------------------------------------------------------------------------
(* The client.                                                             *)
ClientDisconnect ==
  /\ sock = "open"
  /\ sock' = "peerClosed"
  /\ UNCHANGED <<ctxDone, recvVars, requests, compVars, callVars, sem, write,
                 werr, sendVars, doneVars, shut>>

-----------------------------------------------------------------------------
(* The receiver, conn.runReciever.                                         *)

Chains(S) == {q \in UNION {[1..n -> S] : n \in 1..MaxChain} :
                \A i, j \in DOMAIN q : q[i] = q[j] => i = j}

\* ReadSize and Read return a transport packet: one request or a compound.
\* What the client sent before it went away can still be read.
ReceiverRead ==
  /\ recvPc = "read"
  /\ sock \in {"open", "peerClosed"}
  /\ \E q \in Chains({m \in Msgs : kind[m] = "none"}) :
       \E ks \in [DOMAIN q -> Kinds] :
         /\ inbox' = q
         /\ kind' = [m \in Msgs |-> IF \E i \in DOMAIN q : q[i] = m
                                    THEN ks[CHOOSE i \in DOMAIN q : q[i] = m]
                                    ELSE kind[m]]
         /\ chain' = [m \in Msgs |-> IF Len(q) > 1 /\ (\E i \in DOMAIN q : q[i] = m)
                                     THEN q[1] ELSE chain[m]]
  /\ recvPc' = "parse"
  /\ UNCHANGED <<sock, ctxDone, requests, compVars, callVars, sem, write, werr,
                 sendVars, doneVars, shut>>

\* A read fails because the socket is gone.
ReceiverFail ==
  /\ recvPc = "read"
  /\ sock # "open"
  /\ recvPc' = "exit"
  /\ UNCHANGED <<sock, ctxDone, inbox, kind, chain, requests, compVars, callVars,
                 sem, write, werr, sendVars, doneVars, shut>>

\* A bad length prefix, or a request (of a compound, maybe) whose header is
\* not valid.  The receiver leaves; the socket stays open.
ReceiverInvalid ==
  /\ recvPc \in {"read", "parse"}
  /\ sock # "closed"
  /\ recvPc' = "exit"
  /\ UNCHANGED <<sock, ctxDone, inbox, kind, chain, requests, compVars, callVars,
                 sem, write, werr, sendVars, doneVars, shut>>

\* One turn of the inner loop: the last request of a compound completes its
\* context, and set() files the request.
ReceiverParse ==
  /\ recvPc = "parse"
  /\ LET m == Head(inbox) IN
       /\ lastMsg' = IF chain[m] # None /\ Len(inbox) = 1
                     THEN [lastMsg EXCEPT ![chain[m]] = m] ELSE lastMsg
       /\ requests' = requests \cup {m}
  /\ recvPc' = "handoff"
  /\ UNCHANGED <<sock, ctxDone, inbox, kind, chain, lastStatus, rsp, callVars,
                 sem, write, werr, sendVars, doneVars, shut>>

\* The unbuffered channel outstandingRequests.s: set() blocks until pop()
\* takes the message id; pop then removes the request from the table.
Handoff ==
  /\ recvPc = "handoff"
  /\ pc[Run] = "pop"
  /\ LET m == Head(inbox) IN
       /\ requests' = requests \ {m}
       /\ cur' = m
  /\ inbox' = Tail(inbox)
  /\ recvPc' = IF Len(inbox) > 1 THEN "parse" ELSE "read"
  /\ pc' = [pc EXCEPT ![Run] = "handle"]
  /\ UNCHANGED <<sock, ctxDone, kind, chain, compVars, pkt, sem, write, werr,
                 sendVars, doneVars, shut>>

\* The exit label: take rdone if it is there, close wdone.
ReceiverExit ==
  /\ recvPc = "exit"
  /\ rdone' = 0
  /\ wdoneClosed' = TRUE
  /\ recvPc' = "done"
  /\ UNCHANGED <<sock, ctxDone, inbox, kind, chain, requests, compVars, callVars,
                 sem, write, werr, sendVars, wdone, shut>>

-----------------------------------------------------------------------------
(* The dispatcher, conn.Run, and the first half of sendPacket: a response  *)
(* of a compound is kept until the compound's last request is answered.    *)

Answer(m, st, c) ==
  LET r == [msg |-> m, st |-> st]
      all == Append(rsp[c], r)
  IN IF c = None
     THEN /\ pkt' = [pkt EXCEPT ![Run] = <<r>>]
          /\ pc' = [pc EXCEPT ![Run] = "put"]
          /\ UNCHANGED compVars
     ELSE /\ lastStatus' = [lastStatus EXCEPT ![c] = st]
          /\ rsp' = [rsp EXCEPT ![c] = all]
          /\ UNCHANGED lastMsg
          /\ IF m = lastMsg[c]
             THEN /\ pkt' = [pkt EXCEPT ![Run] = all]
                  /\ pc' = [pc EXCEPT ![Run] = "put"]
             ELSE /\ pc' = [pc EXCEPT ![Run] = "pop"]
                  /\ UNCHANGED pkt

\* A compound that does not remember that a request of it failed.
ChainFailed_Forgotten(m) == FALSE

\* lastStatus of an earlier request of the same compound.
ChainFailed(m) == chain[m] # None /\ lastStatus[chain[m]] = "err"

\* A tree command of a compound that has already failed is answered with the
\* same status and not executed.
RunSkipFailed ==
  /\ pc[Run] = "handle"
  /\ kind[cur] # "plain" /\ ChainFailed(cur)
  /\ Answer(cur, "err", chain[cur])
  /\ UNCHANGED <<sock, ctxDone, recvVars, requests, cur, sem, write, werr,
                 sendVars, doneVars, shut>>

\* A handler that answers itself; reads and writes do so inside a compound.
RunSync ==
  /\ pc[Run] = "handle"
  /\ ~ChainFailed(cur)
  /\ kind[cur] = "sync" \/ (kind[cur] \in IoKinds /\ chain[cur] # None)
  /\ \E st \in {"ok", "err"} : Answer(cur, st, chain[cur])
  /\ UNCHANGED <<sock, ctxDone, recvVars, requests, cur, sem, write, werr,
                 sendVars, doneVars, shut>>

\* echo, logoff, treeConnect...: answered at once, compound or not.
RunPlain ==
  /\ pc[Run] = "handle"
  /\ kind[cur] = "plain"
  /\ Answer(cur, "ok", None)
  /\ UNCHANGED <<sock, ctxDone, recvVars, requests, cur, sem, write, werr,
                 sendVars, doneVars, shut>>

\* fileTree.read and fileTree.write outside a compound start a goroutine.
RunAsync ==
  /\ pc[Run] = "handle"
  /\ kind[cur] \in IoKinds /\ chain[cur] = None
  /\ pc' = [pc EXCEPT ![cur] = "acquire", ![Run] = "pop"]
  /\ UNCHANGED <<sock, ctxDone, recvVars, requests, compVars, cur, pkt, sem,
                 write, werr, sendVars, doneVars, shut>>

RunSilent ==
  /\ pc[Run] = "handle"
  /\ ~ChainFailed(cur)
  /\ kind[cur] = "silent"
  /\ pc' = [pc EXCEPT ![Run] = "pop"]
  /\ UNCHANGED <<sock, ctxDone, recvVars, requests, compVars, cur, pkt, sem,
                 write, werr, sendVars, doneVars, shut>>

\* Run returns an error; the goroutine of Serve closes the socket.  An unknown
\* tree does this even in a compound that has failed.
RunReject ==
  /\ pc[Run] = "handle"
  /\ kind[cur] = "reject"
  /\ pc' = [pc EXCEPT ![Run] = "done"]
  /\ sock' = "closed"
  /\ UNCHANGED <<ctxDone, recvVars, requests, compVars, cur, pkt, sem, write,
                 werr, sendVars, doneVars, shut>>

\* pop's other case: the context is done.
RunCancelled ==
  /\ pc[Run] = "pop"
  /\ ctxDone
  /\ pc' = [pc EXCEPT ![Run] = "done"]
  /\ sock' = "closed"
  /\ UNCHANGED <<ctxDone, recvVars, requests, compVars, cur, pkt, sem, write,
                 werr, sendVars, doneVars, shut>>

-----------------------------------------------------------------------------
(* A worker: the goroutine of an asynchronous read or write.               *)

\* A worker that does not wait for a slot.
Acquire_NoLimit(m) ==
  /\ m \in Msgs
  /\ pc[m] = "acquire"
  /\ sem' = [sem EXCEPT ![kind[m]] = @ + 1]
  /\ pkt' = [pkt EXCEPT ![m] = <<[msg |-> m, st |-> "pending"]>>]
  /\ pc' = [pc EXCEPT ![m] = "put"]
  /\ UNCHANGED <<sock, ctxDone, recvVars, requests, compVars, cur, write, werr,
                 sendVars, doneVars, shut>>

\* A worker that sends its final response without the interim one.
Acquire_NoInterim(m) ==
  /\ m \in Msgs
  /\ pc[m] = "acquire"
  /\ sem[kind[m]] < Cap(kind[m])
  /\ sem' = [sem EXCEPT ![kind[m]] = @ + 1]
  /\ pkt' = [pkt EXCEPT ![m] = <<[msg |-> m, st |-> "ok"]>>]
  /\ pc' = [pc EXCEPT ![m] = "put"]
  /\ UNCHANGED <<sock, ctxDone, recvVars, requests, compVars, cur, write, werr,
                 sendVars, doneVars, shut>>

\* The semaphore, then the STATUS_PENDING response.
Acquire(m) ==
  /\ m \in Msgs
  /\ pc[m] = "acquire"
  /\ sem[kind[m]] < Cap(kind[m])
  /\ sem' = [sem EXCEPT ![kind[m]] = @ + 1]
  /\ pkt' = [pkt EXCEPT ![m] = <<[msg |-> m, st |-> "pending"]>>]
  /\ pc' = [pc EXCEPT ![m] = "put"]
  /\ UNCHANGED <<sock, ctxDone, recvVars, requests, compVars, cur, write, werr,
                 sendVars, doneVars, shut>>

Interim(c) == pkt[c] = <<[msg |-> c, st |-> "pending"]>>

\* The packet completes a compound whose last request was not executed: the
\* one before it had failed already.
Skipped(p) == Len(p) > 1 /\ p[Len(p) - 1].st = "err"

\* A worker that leaves when its interim response cannot be sent, and keeps
\* the slot it has.
Return_LeakOnError(c, failed) ==
  /\ pc' = [pc EXCEPT ![c] = IF c = Run /\ ~failed THEN "pop"
                             ELSE IF c # Run /\ Interim(c) /\ ~failed THEN "put"
                             ELSE "done"]
  /\ sem' = IF c # Run /\ ~Interim(c)
            THEN [sem EXCEPT ![kind[c]] = @ - 1] ELSE sem
  /\ pkt' = [pkt EXCEPT ![c] = IF Interim(c) THEN <<[msg |-> c, st |-> "ok"]>>
                               ELSE << >>]
  /\ UNCHANGED sock

\* sendPacket returns to its caller.  Run ends on an error, except for a
\* request it did not execute.  A worker ignores it: after the interim
\* response it does its I/O and sends the final one, after the final one it
\* gives its slot back.
Return(c, failed) ==
  \/ /\ c = Run
     /\ LET ends == failed /\ ~Skipped(pkt[Run])
        IN /\ pc' = [pc EXCEPT ![Run] = IF ends THEN "done" ELSE "pop"]
           /\ sock' = IF ends THEN "closed" ELSE sock
     /\ pkt' = [pkt EXCEPT ![Run] = << >>]
     /\ UNCHANGED sem
  \/ /\ c # Run /\ Interim(c)
     /\ \E st \in {"ok", "err"} :
          pkt' = [pkt EXCEPT ![c] = <<[msg |-> c, st |-> st]>>]
     /\ pc' = [pc EXCEPT ![c] = "put"]
     /\ UNCHANGED <<sock, sem>>
  \/ /\ c # Run /\ ~Interim(c)
     /\ sem' = [sem EXCEPT ![kind[c]] = @ - 1]
     /\ pc' = [pc EXCEPT ![c] = "done"]
     /\ pkt' = [pkt EXCEPT ![c] = << >>]
     /\ UNCHANGED sock

\* The second half of sendPacket, for every caller: put the packet on the
\* write channel, take a result from werr; either select also ends with the
\* context.
Put(c) ==
  /\ pc[c] = "put"
  /\ Len(write) < WriteCap
  /\ write' = Append(write, pkt[c])
  /\ pc' = [pc EXCEPT ![c] = "wait"]
  /\ UNCHANGED <<sock, ctxDone, recvVars, requests, compVars, cur, pkt, sem,
                 werr, sendVars, doneVars, shut>>

TakeResult(c) ==
  /\ pc[c] = "wait"
  /\ werr # << >>
  /\ werr' = Tail(werr)
  /\ Return(c, Head(werr) = "fail")
  /\ UNCHANGED <<ctxDone, recvVars, requests, compVars, cur, write, sendVars,
                 doneVars, shut>>

\* A caller that watches the context while it puts its packet, and not while
\* it waits for the result.
GiveUp_OnlyPut(c) ==
  /\ pc[c] = "put"
  /\ ctxDone
  /\ Return(c, TRUE)
  /\ UNCHANGED <<ctxDone, recvVars, requests, compVars, cur, write, werr,
                 sendVars, doneVars, shut>>


\* The context is done in one of the two selects.
GiveUp(c) ==
  /\ pc[c] \in {"put", "wait"}
  /\ ctxDone
  /\ Return(c, TRUE)
  /\ UNCHANGED <<ctxDone, recvVars, requests, compVars, cur, write, werr,
                 sendVars, doneVars, shut>>

-----------------------------------------------------------------------------
(* The sender, conn.runSender.                                             *)

\* A write to a socket the peer has left may still succeed; once one fails the
\* connection is reset and every later read or write fails as well.
SenderWrite ==
  /\ sendPc = "loop"
  /\ write # << >>
  /\ write' = Tail(write)
  /\ \/ /\ sock # "closed"
        /\ wire' = Append(wire, Head(write))
        /\ sendRes' = "ok"
        /\ UNCHANGED sock
     \/ /\ sock # "open"
        /\ sock' = "closed"
        /\ sendRes' = "fail"
        /\ UNCHANGED wire
  /\ sendPc' = "result"
  /\ UNCHANGED <<ctxDone, recvVars, requests, compVars, callVars, sem,
                 werr, doneVars, shut>>

\* A sender that reports errors only.
SenderPost_ErrorsOnly ==
  /\ sendPc = "result"
  /\ werr = << >>
  /\ werr' = IF sendRes = "fail" THEN <<sendRes>> ELSE << >>
  /\ sendPc' = "loop"
  /\ UNCHANGED <<sock, ctxDone, recvVars, requests, compVars, callVars, sem,
                 write, sendRes, wire, doneVars, shut>>


SenderPost ==
  /\ sendPc = "result"
  /\ werr = << >>
  /\ werr' = <<sendRes>>
  /\ sendPc' = "loop"
  /\ UNCHANGED <<sock, ctxDone, recvVars, requests, compVars, callVars, sem,
                 write, sendRes, wire, doneVars, shut>>

SenderStop ==
  /\ sendPc = "loop"
  /\ wdone > 0 \/ wdoneClosed
  /\ wdone' = 0
  /\ sendPc' = "done"
  /\ UNCHANGED <<sock, ctxDone, recvVars, requests, compVars, callVars, sem,
                 write, werr, sendRes, wire, wdoneClosed, rdone, shut>>

-----------------------------------------------------------------------------
(* conn.shutdown, called by Server.Shutdown for every connection that was  *)
(* ever accepted.  A send on a closed channel panics: the process is gone. *)
ShutdownCancel ==
  /\ shut = "no"
  /\ ctxDone' = TRUE
  /\ shut' = "wdone"
  /\ UNCHANGED <<sock, recvVars, requests, compVars, callVars, sem, write, werr,
                 sendVars, doneVars>>

ShutdownWdone ==
  /\ shut = "wdone"
  /\ \/ /\ wdoneClosed
        /\ shut' = "panic"
        /\ UNCHANGED wdone
     \/ /\ ~wdoneClosed /\ wdone = 0
        /\ wdone' = 1
        /\ shut' = "rdone"
  /\ UNCHANGED <<sock, ctxDone, recvVars, requests, compVars, callVars, sem,
                 write, werr, sendVars, wdoneClosed, rdone>>

ShutdownRdone ==
  /\ shut = "rdone"
  /\ rdone = 0
  /\ rdone' = 1
  /\ shut' = "close"
  /\ UNCHANGED <<sock, ctxDone, recvVars, requests, compVars, callVars, sem,
                 write, werr, sendVars, wdone, wdoneClosed>>

ShutdownClose ==
  /\ shut = "close"
  /\ sock' = "closed"
  /\ shut' = "done"
  /\ UNCHANGED <<ctxDone, recvVars, requests, compVars, callVars, sem, write,
                 werr, sendVars, doneVars>>

-----------------------------------------------------------------------------
Receiver == \/ ReceiverRead \/ ReceiverFail \/ ReceiverInvalid
            \/ ReceiverParse \/ ReceiverExit
Handler == \/ RunSkipFailed \/ RunSync \/ RunPlain \/ RunAsync
           \/ RunSilent \/ RunReject \/ RunCancelled
SendPacket(c) == Put(c) \/ TakeResult(c) \/ GiveUp(c)
Sender == SenderWrite \/ SenderPost \/ SenderStop
Shutdown == ShutdownWdone \/ ShutdownRdone \/ ShutdownClose

Next ==
  /\ shut # "panic"
  /\ \/ ClientDisconnect
     \/ Receiver
     \/ Handoff
     \/ Handler
     \/ \E m \in Msgs : Acquire(m)
     \/ \E c \in Callers : SendPacket(c)
     \/ Sender
     \/ ShutdownCancel
     \/ Shutdown

Spec == Init /\ [][Next]_vars

\* Goroutines that can run do run, and the shutdown of a connection, once
\* begun, goes on.  The client owes nothing: what it sends (ReceiverRead,
\* ReceiverInvalid), when it leaves and when the application shuts the server
\* down are not fair.
Fairness ==
  /\ WF_vars(shut # "panic" /\ (ReceiverFail \/ ReceiverParse \/ ReceiverExit))
  /\ WF_vars(shut # "panic" /\ (Handoff \/ Handler))
  /\ \A m \in Msgs : WF_vars(shut # "panic" /\ Acquire(m))
  /\ \A c \in Callers : WF_vars(shut # "panic" /\ SendPacket(c))
  /\ WF_vars(shut # "panic" /\ Sender)
  /\ WF_vars(Shutdown)

FairSpec == Spec /\ Fairness

-----------------------------------------------------------------------------
(* Properties.                                                             *)

TypeReceiver ==
  /\ kind \in [Msgs -> Kinds \cup {"none"}]
  /\ chain \in [Msgs -> Msgs \cup {None}]
  /\ recvPc \in {"read", "parse", "handoff", "exit", "done"}
  /\ inbox \in Seq(Msgs)
  /\ requests \in SUBSET Msgs

TypeCompound ==
  /\ lastMsg \in [Msgs -> Msgs \cup {None}]
  /\ lastStatus \in [Msgs -> {"ok", "err"}]
  /\ rsp \in [Msgs -> Seq(Responses)]

TypeCallers ==
  /\ pc \in [Callers -> {"idle", "acquire", "pop", "handle", "put", "wait", "done"}]
  /\ cur \in Msgs \cup {None}
  /\ pkt \in [Callers -> Seq(Responses)]
  /\ sem \in [IoKinds -> Nat]
  /\ \A k \in IoKinds : sem[k] <= Cap(k)

TypeSender ==
  /\ write \in Seq(Seq(Responses)) /\ Len(write) <= WriteCap
  /\ werr \in Seq({"ok", "fail"}) /\ Len(werr) <= 1
  /\ sendPc \in {"loop", "result", "done"}
  /\ sendRes \in {"ok", "fail"}
  /\ wire \in Seq(Seq(Responses))

TypeEnd ==
  /\ sock \in {"open", "peerClosed", "closed"}
  /\ ctxDone \in BOOLEAN
  /\ wdone \in 0..1
  /\ wdoneClosed \in BOOLEAN
  /\ rdone \in 0..1
  /\ shut \in {"no", "wdone", "rdone", "close", "done", "panic"}

\* Every variable keeps its type; in particular the buffered channels of
\* Server.Serve and the semaphores of a file tree stay within capacity.
TypeOK == TypeReceiver /\ TypeCompound /\ TypeCallers /\ TypeSender /\ TypeEnd

\* Where each request is: the receiver holds the rest of the packet it read,
\* each request of which is fresh; the dispatcher handles a request that no
\* worker has; only reads and writes have workers.
Stages ==
  /\ pc[Run] \in {"pop", "handle", "put", "wait", "done"}
  /\ \A m \in Msgs : /\ pc[m] \in {"idle", "acquire", "put", "wait", "done"}
                     /\ pc[m] # "idle" => kind[m] \in IoKinds
  /\ recvPc = "read" => inbox = << >>
  /\ recvPc \in {"parse", "handoff"} => inbox # << >>
  /\ \A i \in DOMAIN inbox : /\ kind[inbox[i]] # "none"
                             /\ pc[inbox[i]] = "idle"
                             /\ pc[Run] = "handle" => inbox[i] # cur
  /\ \A i, j \in DOMAIN inbox : inbox[i] = inbox[j] => i = j
  /\ pc[Run] = "handle" => /\ cur \in Msgs
                           /\ kind[cur] # "none"
                           /\ pc[cur] = "idle"

\* The workers between `sem <- {}' and the deferred `<-sem'.
Holders(k) == {m \in Msgs : kind[m] = k /\ pc[m] \in {"put", "wait"}}

\* MaxIOReads and MaxIOWrites bound the reads and writes in flight on a tree:
\* a slot is taken exactly while a worker is inside its critical section,
\* whichever way (result, error, cancelled context) its sendPackets end.
SlotsHeld == \A k \in IoKinds : sem[k] = Cardinality(Holders(k))

Waiting == {c \in Callers : pc[c] = "wait"}

\* Until the context is cancelled there is exactly one packet in the write
\* channel, in the sender's hands or answered in werr for every caller that
\* waits in sendPacket: results are handed to whichever caller comes first,
\* but none is lost, left over or given twice.
ResultsMatchCallers ==
  ~ctxDone => Cardinality(Waiting)
                = Len(write) + Len(werr) + (IF sendPc = "result" THEN 1 ELSE 0)

Final(r) == r.st # "pending"

\* No request gets two final responses on the wire, alone or in a compound, and
\* no STATUS_PENDING comes after its final response; both hold through shutdown
\* as well. That an asynchronous request has got its STATUS_PENDING by the time
\* its final response is written, although the worker that sends both may have
\* been woken by another caller's write, holds until the context is cancelled:
\* from then on sendPacket may leave the interim response unsent (conn.go:522),
\* which the worker does not ask (file_tree.go:615, 703), and the final one may
\* still be written.
AnsweredOnceInOrder ==
  \A i \in DOMAIN wire : \A a \in DOMAIN wire[i] : Final(wire[i][a]) =>
    /\ \A j \in DOMAIN wire : \A b \in DOMAIN wire[j] :
         wire[j][b].msg = wire[i][a].msg =>
           IF Final(wire[j][b]) THEN i = j /\ a = b ELSE j < i
    /\ \/ ctxDone
       \/ kind[wire[i][a].msg] \notin IoKinds
       \/ chain[wire[i][a].msg] # None
       \/ \E j \in 1..(i - 1) :
            wire[j] = <<[msg |-> wire[i][a].msg, st |-> "pending"]>>

\* Requests of compound c that a handler answers within the compound.
Members(c) == {m \in Msgs : chain[m] = c /\ kind[m] \in IoKinds \cup {"sync"}}

\* A compound is answered as a whole: the packet that carries one of its
\* responses carries one for each of its requests, and after a failed one
\* only failures; and this although the receiver learns which request is the
\* last while Run already answers the first ones.
CompoundWhole ==
  \A i \in DOMAIN wire : \A a \in DOMAIN wire[i] :
    LET m == wire[i][a].msg IN
      chain[m] # None /\ kind[m] # "plain" =>
        /\ Members(chain[m]) \subseteq {wire[i][b].msg : b \in DOMAIN wire[i]}
        /\ wire[i][a].st = "err" => \A b \in a..Len(wire[i]) : wire[i][b].st = "err"

\* The connection is in service: nobody closed, cancelled or left it.
InService == sock = "open" /\ ~ctxDone /\ recvPc \notin {"exit", "done"}

Answered(m) == \E i \in DOMAIN wire : \E a \in DOMAIN wire[i] :
                 wire[i][a].msg = m /\ Final(wire[i][a])

\* A request the server answers: on its own, or in a compound that no member
\* keeps from completing (see CompoundWhole and the hazards on silent members).
Answerable(m) ==
  /\ kind[m] \in IoKinds \cup {"sync", "plain"}
  /\ chain[m] # None => \A n \in Msgs : chain[n] = chain[m] =>
                           kind[n] \in IoKinds \cup {"sync"}

\* Every request read from the socket is answered as long as the connection
\* stays in service: no interleaving of dispatcher, workers and sender leaves
\* a caller of sendPacket waiting for a result that never comes, or a worker
\* for a slot that is never given back.
Responsive == \A m \in Msgs : Answerable(m) ~> (Answered(m) \/ ~InService)

Finished(c) == pc[c] \in {"idle", "done"}

\* After conn.shutdown no caller stays in sendPacket, in pop or at a
\* semaphore: the dispatcher and all workers end.
ShutdownReleasesCallers ==
  (shut = "done") ~> (\A c \in Callers : Finished(c))

\* Server.Shutdown "gracefully stops the SMB server": conn.shutdown never
\* sends on a channel the receiver has already closed.
ShutdownNeverPanics == shut # "panic"

\* Server.Shutdown "gracefully stops the SMB server": every goroutine of the
\* connection ends.
ShutdownStopsConnection ==
  (shut = "done") ~> /\ \A c \in Callers : Finished(c)
                     /\ recvPc = "done" /\ sendPc = "done"
=============================================================================
