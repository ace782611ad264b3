-------------------------- MODULE ConnectionProofs ---------------------------
(***************************************************************************)
(* For any number of requests, any capacities and any mix of request kinds *)
(* the I/O semaphores count exactly the workers in their critical section, *)
(* and every caller waiting in sendPacket has a packet or a result on the  *)
(* way to it.                                                              *)
(***************************************************************************)
EXTENDS Connection, FiniteSetTheorems, TLAPS

\* The semaphore can only be given back by a worker that Stages says is a read
\* or a write, and only be positive because SlotsHeld counts that worker: no
\* conjunct is inductive without the others.
IndInv == TypeOK /\ Stages /\ SlotsHeld /\ ResultsMatchCallers

USE DEF IoKinds, Callers

\* Only finite sets are counted.
LEMMA FiniteCallers ==
  /\ IsFiniteSet(Callers)
  /\ IsFiniteSet(Waiting)
  /\ \A k : IsFiniteSet(Holders(k))
<1>1. IsFiniteSet(Callers)
  BY ConnAssumption, FS_AddElement
<1>2. Waiting \in SUBSET Callers
  BY DEF Waiting
<1>3. \A k : Holders(k) \in SUBSET Msgs
  BY DEF Holders
<1> QED
  BY <1>1, <1>2, <1>3, ConnAssumption, FS_Subset

\* A worker that is sending holds a slot, so the slot count is not zero.
LEMMA HolderHasSlot ==
  ASSUME TypeOK, Stages, SlotsHeld, NEW m \in Msgs, pc[m] \in {"put", "wait"}
  PROVE  kind[m] \in IoKinds /\ sem[kind[m]] \in Nat \ {0}
<1>1. kind[m] \in IoKinds
  BY DEF Stages
<1>2. m \in Holders(kind[m])
  BY DEF Holders
<1>3. Cardinality(Holders(kind[m])) # 0
  BY <1>2, FiniteCallers, FS_EmptySet
<1> QED
  BY <1>1, <1>3 DEF SlotsHeld, TypeOK, TypeCallers

\* A connection that Serve has just set up satisfies the invariant.
LEMMA InitInd == Init => IndInv
<1> SUFFICES ASSUME Init PROVE IndInv
  OBVIOUS
<1>1. TypeOK
  <2>1. TypeReceiver
    BY ConnAssumption DEF Init, TypeReceiver
  <2>2. TypeCompound
    BY DEF Init, TypeCompound
  <2>3. TypeCallers
    BY ConnAssumption DEF Init, TypeCallers, Cap
  <2>4. TypeSender
    BY ConnAssumption DEF Init, TypeSender
  <2>5. TypeEnd
    <3>1. ctxDone \in BOOLEAN /\ wdoneClosed \in BOOLEAN
      BY Zenon DEF Init
    <3>2. wdone \in 0..1 /\ rdone \in 0..1
      BY DEF Init
    <3> QED
      BY <3>1, <3>2 DEF Init, TypeEnd
  <2> QED
    BY <2>1, <2>2, <2>3, <2>4, <2>5 DEF TypeOK
<1>2. Stages
  BY ConnAssumption DEF Init, Stages
<1>3. SlotsHeld
  <2>1. \A k \in IoKinds : Holders(k) = {}
    BY ConnAssumption DEF Init, Holders
  <2> QED
    BY <2>1, FS_EmptySet DEF SlotsHeld, Init
<1>4. ResultsMatchCallers
  <2>1. Waiting = {}
    BY ConnAssumption DEF Init, Waiting
  <2> QED
    BY <2>1, FS_EmptySet DEF ResultsMatchCallers, Init
<1> QED
  BY <1>1, <1>2, <1>3, <1>4 DEF IndInv

\* Only the receiver and pop change what the receiver owns.
LEMMA ReceiverFrame ==
  ASSUME Next
  PROVE \/ UNCHANGED <<kind, chain, recvPc, inbox, requests>>
      \/ ReceiverRead
      \/ ReceiverFail
      \/ ReceiverInvalid
      \/ ReceiverParse
      \/ ReceiverExit
      \/ Handoff
BY DEF Next, Receiver, Handler, SendPacket, Sender, Shutdown, Return, Answer,
       recvVars, compVars, callVars, sendVars, doneVars,
       ClientDisconnect, RunSkipFailed, RunSync, RunPlain, RunAsync,
       RunSilent, RunReject, RunCancelled, Acquire, Put, TakeResult, GiveUp,
       SenderWrite, SenderPost, SenderStop, ShutdownCancel, ShutdownWdone,
       ShutdownRdone, ShutdownClose

\* A compound context changes when its last request is parsed and when one of
\* its requests is answered.
LEMMA CompoundFrame ==
  ASSUME Next
  PROVE \/ UNCHANGED <<lastMsg, lastStatus, rsp>>
      \/ ReceiverParse
      \/ RunSkipFailed
      \/ RunSync
BY DEF Next, Receiver, Handler, SendPacket, Sender, Shutdown, Return, Answer,
       recvVars, compVars, callVars, sendVars, doneVars,
       ClientDisconnect, ReceiverRead, ReceiverFail, ReceiverInvalid,
       ReceiverExit, Handoff, RunPlain, RunAsync, RunSilent, RunReject,
       RunCancelled, Acquire, Put, TakeResult, GiveUp, SenderWrite,
       SenderPost, SenderStop, ShutdownCancel, ShutdownWdone, ShutdownRdone,
       ShutdownClose

\* Callers and the sender share the write and werr channels.
LEMMA SenderFrame ==
  ASSUME Next
  PROVE \/ UNCHANGED <<write, werr, sendPc, sendRes, wire>>
      \/ (\E c \in Callers : Put(c))
      \/ (\E c \in Callers : TakeResult(c))
      \/ SenderWrite
      \/ SenderPost
      \/ SenderStop
BY DEF Next, Receiver, Handler, SendPacket, Sender, Shutdown, Return, Answer,
       recvVars, compVars, callVars, sendVars, doneVars,
       ClientDisconnect, ReceiverRead, ReceiverFail, ReceiverInvalid,
       ReceiverParse, ReceiverExit, Handoff, RunSkipFailed, RunSync,
       RunPlain, RunAsync, RunSilent, RunReject, RunCancelled, Acquire,
       GiveUp, ShutdownCancel, ShutdownWdone, ShutdownRdone, ShutdownClose

\* What Head and Tail give on a channel or an inbox that is not empty.
LEMMA HeadTail ==
  ASSUME NEW S, NEW q \in Seq(S), q # << >>
  PROVE  /\ Head(q) \in S
         /\ Tail(q) \in Seq(S)
         /\ Len(q) \in Nat \ {0}
         /\ Len(Tail(q)) = Len(q) - 1
OBVIOUS

\* A channel is empty when its length is zero.
LEMMA EmptyLen ==
  ASSUME NEW S, NEW q \in Seq(S)
  PROVE  q = << >> <=> Len(q) = 0
OBVIOUS

\* What a send adds to a channel.
LEMMA AppendType ==
  ASSUME NEW S, NEW q \in Seq(S), NEW x \in S
  PROVE  Append(q, x) \in Seq(S) /\ Len(Append(q, x)) = Len(q) + 1
OBVIOUS

\* The receiver and the request table keep their types.
LEMMA ReceiverType ==
  ASSUME TypeOK, Stages, Next
  PROVE  TypeReceiver'
<1> USE DEF TypeOK, TypeReceiver, recvVars
<1>1. CASE UNCHANGED <<kind, chain, recvPc, inbox, requests>>
  BY <1>1
<1>2. CASE ReceiverRead
  <2>1. PICK q \in Chains({m \in Msgs : kind[m] = "none"}) :
          \E ks \in [DOMAIN q -> Kinds] :
            /\ inbox' = q
            /\ kind' = [m \in Msgs |-> IF \E i \in DOMAIN q : q[i] = m
                                       THEN ks[CHOOSE i \in DOMAIN q : q[i] = m]
                                       ELSE kind[m]]
            /\ chain' = [m \in Msgs |-> IF Len(q) > 1 /\ (\E i \in DOMAIN q : q[i] = m)
                                        THEN q[1] ELSE chain[m]]
    BY <1>2 DEF ReceiverRead
  <2>2. PICK n \in 1..MaxChain : q \in [1..n -> Msgs]
    <3>1. PICK n \in 1..MaxChain : q \in [1..n -> {m \in Msgs : kind[m] = "none"}]
      BY <2>1 DEF Chains
    <3> QED
      BY <3>1
  <2>3. q \in Seq(Msgs) /\ q[1] \in Msgs
    BY <2>2, ConnAssumption
  <2>4. kind' \in [Msgs -> Kinds \cup {"none"}]
    BY <2>1
  <2>5. chain' \in [Msgs -> Msgs \cup {None}]
    BY <2>1, <2>3
  <2> QED
    BY <1>2, <2>1, <2>3, <2>4, <2>5 DEF ReceiverRead
<1>3. CASE ReceiverFail \/ ReceiverInvalid \/ ReceiverExit
  BY <1>3 DEF ReceiverFail, ReceiverInvalid, ReceiverExit
<1>4. CASE ReceiverParse
  BY <1>4 DEF ReceiverParse, Stages
<1>5. CASE Handoff
  BY <1>5 DEF Handoff, Stages
<1> QED
  BY <1>1, <1>2, <1>3, <1>4, <1>5, ReceiverFrame

\* The compound contexts keep their types.
LEMMA CompoundType ==
  ASSUME TypeOK, Stages, Next
  PROVE  TypeCompound'
<1> USE DEF TypeOK, TypeReceiver, TypeCompound, TypeCallers
<1>1. CASE UNCHANGED <<lastMsg, lastStatus, rsp>>
  BY <1>1
<1>2. CASE ReceiverParse
  <2>1. Head(inbox) \in Msgs
    BY <1>2, HeadTail DEF ReceiverParse, Stages
  <2>2. lastMsg' \in [Msgs -> Msgs \cup {None}]
    BY <1>2, <2>1 DEF ReceiverParse
  <2> QED
    BY <1>2, <2>2 DEF ReceiverParse
<1>3. ASSUME NEW st \in {"ok", "err"}, pc[Run] = "handle", Answer(cur, st, chain[cur])
      PROVE  TypeCompound'
  <2>1. cur \in Msgs /\ [msg |-> cur, st |-> st] \in Responses
    BY <1>3 DEF Stages, Responses
  <2>2. CASE chain[cur] = None
    BY <1>3, <2>2 DEF Answer, compVars
  <2>3. CASE chain[cur] # None
    <3>1. chain[cur] \in Msgs
      BY <2>1, <2>3
    <3>2. Append(rsp[chain[cur]], [msg |-> cur, st |-> st]) \in Seq(Responses)
      BY <2>1, <3>1, AppendType
    <3> QED
      BY <1>3, <2>3, <3>1, <3>2 DEF Answer
  <2> QED
    BY <2>2, <2>3
<1>4. CASE RunSkipFailed \/ RunSync
  BY <1>3, <1>4 DEF RunSkipFailed, RunSync
<1> QED
  BY <1>1, <1>2, <1>4, CompoundFrame

\* The write and werr channels keep their types and capacities.
LEMMA SenderType ==
  ASSUME TypeOK, Stages, Next
  PROVE  TypeSender'
<1> USE DEF TypeOK, TypeSender, TypeCallers
<1>1. CASE UNCHANGED <<write, werr, sendPc, sendRes, wire>>
  BY <1>1
<1>2. ASSUME NEW c \in Callers, Put(c) PROVE TypeSender'
  BY <1>2, ConnAssumption DEF Put, sendVars
<1>3. ASSUME NEW c \in Callers, TakeResult(c) PROVE TypeSender'
  BY <1>3 DEF TakeResult, sendVars
<1>4. CASE SenderWrite
  <2>1. /\ Head(write) \in Seq(Responses)
        /\ Tail(write) \in Seq(Seq(Responses))
        /\ Len(Tail(write)) <= WriteCap
    BY <1>4, HeadTail, ConnAssumption DEF SenderWrite
  <2>2. Append(wire, Head(write)) \in Seq(Seq(Responses))
    BY <2>1, AppendType
  <2> QED
    BY <1>4, <2>1, <2>2 DEF SenderWrite
<1>5. CASE SenderPost
  BY <1>5 DEF SenderPost
<1>6. CASE SenderStop
  BY <1>6 DEF SenderStop
<1> QED
  BY <1>1, <1>2, <1>3, <1>4, <1>5, <1>6, SenderFrame

\* The socket, the done channels and shutdown.
LEMMA EndFrame ==
  ASSUME Next
  PROVE \/ UNCHANGED <<sock, wdone, rdone, shut>>
      \/ ClientDisconnect
      \/ ReceiverExit
      \/ RunReject
      \/ RunCancelled
      \/ (\E c \in Callers : TakeResult(c))
      \/ (\E c \in Callers : GiveUp(c))
      \/ SenderWrite
      \/ SenderStop
      \/ ShutdownWdone
      \/ ShutdownRdone
      \/ ShutdownClose
      \/ ShutdownCancel
BY DEF Next, Receiver, Handler, SendPacket, Sender, Shutdown, Return, Answer,
       recvVars, compVars, callVars, sendVars, doneVars,
       ReceiverRead, ReceiverFail, ReceiverInvalid, ReceiverParse, Handoff,
       RunSkipFailed, RunSync, RunPlain, RunAsync, RunSilent, Acquire, Put,
       SenderPost

\* The context is cancelled once and wdone closed once; neither is undone.
LEMMA FlagFrame ==
  ASSUME Next
  PROVE  /\ ctxDone' = ctxDone \/ ctxDone' = TRUE
         /\ wdoneClosed' = wdoneClosed \/ wdoneClosed' = TRUE
BY DEF Next, Receiver, Handler, SendPacket, Sender, Shutdown, Return, Answer,
       recvVars, compVars, callVars, sendVars, doneVars,
       ClientDisconnect, ReceiverRead, ReceiverFail, ReceiverInvalid,
       ReceiverParse, ReceiverExit, Handoff, RunSkipFailed, RunSync,
       RunPlain, RunAsync, RunSilent, RunReject, RunCancelled, Acquire, Put,
       TakeResult, GiveUp, SenderWrite, SenderPost, SenderStop,
       ShutdownCancel, ShutdownWdone, ShutdownRdone, ShutdownClose

\* The socket, the done channels and shutdown keep their types.
LEMMA EndType ==
  ASSUME TypeOK, Next
  PROVE  TypeEnd'
<1> USE DEF TypeOK, TypeEnd
<1>1. ctxDone' \in BOOLEAN /\ wdoneClosed' \in BOOLEAN
  BY FlagFrame, Zenon
<1> DEFINE Rest == /\ sock' \in {"open", "peerClosed", "closed"}
                   /\ wdone' \in 0..1
                   /\ rdone' \in 0..1
                   /\ shut' \in {"no", "wdone", "rdone", "close", "done", "panic"}
<1>2. ASSUME UNCHANGED <<sock, wdone, rdone, shut>>
      PROVE  Rest
  BY <1>2
<1>3. ASSUME ClientDisconnect \/ RunReject \/ RunCancelled
      PROVE  Rest
  BY <1>3 DEF ClientDisconnect, RunReject, RunCancelled, doneVars
<1>4. ASSUME ReceiverExit \/ SenderStop \/ SenderWrite
      PROVE  Rest
  BY <1>4 DEF ReceiverExit, SenderStop, SenderWrite, doneVars
<1>5. ASSUME NEW c \in Callers, TakeResult(c) \/ GiveUp(c)
      PROVE  Rest
  BY <1>5 DEF TakeResult, GiveUp, Return, doneVars
<1>6. ASSUME ShutdownCancel \/ ShutdownWdone \/ ShutdownRdone \/ ShutdownClose
      PROVE  Rest
  BY <1>6 DEF ShutdownCancel, ShutdownWdone, ShutdownRdone, ShutdownClose, doneVars
<1>7. Rest
  BY <1>2, <1>3, <1>4, <1>5, <1>6, EndFrame
<1> QED
  BY <1>1, <1>7

\* Only the dispatcher, pop and the workers change the state of a caller.
LEMMA CallerFrame ==
  ASSUME Next
  PROVE \/ UNCHANGED <<pc, cur, pkt, sem>>
      \/ Handoff
      \/ RunSkipFailed
      \/ RunSync
      \/ RunPlain
      \/ RunAsync
      \/ RunSilent
      \/ RunReject
      \/ RunCancelled
      \/ (\E m \in Msgs : Acquire(m))
      \/ (\E c \in Callers : Put(c))
      \/ (\E c \in Callers : TakeResult(c))
      \/ (\E c \in Callers : GiveUp(c))
BY DEF Next, Receiver, Handler, SendPacket, Sender, Shutdown, Return, Answer,
       recvVars, compVars, callVars, sendVars, doneVars,
       ClientDisconnect, ReceiverRead, ReceiverFail, ReceiverInvalid,
       ReceiverParse, ReceiverExit, SenderWrite, SenderPost, SenderStop,
       ShutdownCancel, ShutdownWdone, ShutdownRdone, ShutdownClose

\* A response of the dispatcher leaves it in a stage of sendPacket, or back in
\* pop when the compound is not complete.
LEMMA AnswerCallers ==
  ASSUME TypeOK, Stages, pc[Run] = "handle", NEW st \in {"ok", "err"},
         NEW c \in Msgs \cup {None}, Answer(cur, st, c)
  PROVE  /\ pkt' \in [Callers -> Seq(Responses)]
         /\ \E p \in {"put", "pop"} : pc' = [pc EXCEPT ![Run] = p]
<1> USE DEF TypeOK, TypeCallers, TypeCompound
<1>1. [msg |-> cur, st |-> st] \in Responses
  BY DEF Stages, Responses
<1>2. <<[msg |-> cur, st |-> st]>> \in Seq(Responses)
  BY <1>1
<1>3. CASE c = None
  BY <1>2, <1>3 DEF Answer
<1>4. CASE c # None
  <2>1. Append(rsp[c], [msg |-> cur, st |-> st]) \in Seq(Responses)
    BY <1>1, <1>4, AppendType
  <2> QED
    BY <1>4, <2>1 DEF Answer
<1> QED
  BY <1>3, <1>4

\* The dispatcher, the workers and the semaphores keep their types; a slot is
\* only given back where HolderHasSlot says there is one.
LEMMA CallersType ==
  ASSUME TypeOK, Stages, SlotsHeld, Next
  PROVE  TypeCallers'
<1> USE DEF TypeOK, TypeCallers
<1>1. CASE UNCHANGED <<pc, cur, pkt, sem>>
  BY <1>1
<1>2. CASE Handoff
  <2>1. Head(inbox) \in Msgs
    BY <1>2, HeadTail DEF Handoff, Stages, TypeReceiver
  <2> QED
    BY <1>2, <2>1 DEF Handoff
<1>3. CASE RunSkipFailed \/ RunSync \/ RunPlain
  <2>1. PICK st \in {"ok", "err"}, c \in Msgs \cup {None} : Answer(cur, st, c)
    BY <1>3 DEF RunSkipFailed, RunSync, RunPlain, Stages, TypeReceiver
  <2>2. pc[Run] = "handle" /\ UNCHANGED <<cur, sem>>
    BY <1>3 DEF RunSkipFailed, RunSync, RunPlain
  <2> QED
    BY <2>1, <2>2, AnswerCallers
<1>4. CASE RunAsync \/ RunSilent \/ RunReject \/ RunCancelled
  BY <1>4 DEF RunAsync, RunSilent, RunReject, RunCancelled, Stages
<1>5. ASSUME NEW m \in Msgs, Acquire(m) PROVE TypeCallers'
  <2>1. kind[m] \in IoKinds /\ Cap(kind[m]) \in Nat
    BY <1>5, ConnAssumption DEF Acquire, Stages, Cap
  <2>2. <<[msg |-> m, st |-> "pending"]>> \in Seq(Responses)
    BY DEF Responses
  <2>3. sem' \in [IoKinds -> Nat] /\ \A k \in IoKinds : sem'[k] <= Cap(k)
    BY <1>5, <2>1 DEF Acquire
  <2> QED
    BY <1>5, <2>2, <2>3 DEF Acquire
<1>6. ASSUME NEW c \in Callers, Put(c) PROVE TypeCallers'
  BY <1>6 DEF Put
<1>7. ASSUME NEW c \in Callers, pc[c] \in {"put", "wait"}, UNCHANGED cur,
             NEW failed \in BOOLEAN, Return(c, failed)
      PROVE  TypeCallers'
  <2> << >> \in Seq(Responses)
    OBVIOUS
  <2>1. CASE c = Run
    <3>1. \E p \in {"done", "pop"} : pc' = [pc EXCEPT ![Run] = p]
      BY <1>7, <2>1 DEF Return
    <3>2. pkt' = [pkt EXCEPT ![Run] = << >>] /\ UNCHANGED sem
      BY <1>7, <2>1 DEF Return
    <3> QED
      BY <1>7, <3>1, <3>2
  <2>2. CASE c # Run
    <3>1. kind[c] \in IoKinds /\ sem[kind[c]] \in Nat \ {0}
      BY <1>7, <2>2, HolderHasSlot
    <3>2. \A st \in {"ok", "err"} : <<[msg |-> c, st |-> st]>> \in Seq(Responses)
      BY <2>2 DEF Responses
    <3>3. CASE Interim(c)
      BY <1>7, <2>2, <3>2, <3>3 DEF Return
    <3>4. CASE ~Interim(c)
      <4>1. sem' \in [IoKinds -> Nat] /\ \A k \in IoKinds : sem'[k] <= sem[k]
        BY <1>7, <2>2, <3>1, <3>4 DEF Return
      <4>2. \A k \in IoKinds : Cap(k) \in Nat /\ sem'[k] <= Cap(k)
        BY <4>1, ConnAssumption DEF Cap
      <4>3. /\ pc' = [pc EXCEPT ![c] = "done"]
            /\ pkt' = [pkt EXCEPT ![c] = << >>]
        BY <1>7, <2>2, <3>4 DEF Return
      <4> QED
        BY <1>7, <4>1, <4>2, <4>3
    <3> QED
      BY <3>3, <3>4
  <2> QED
    BY <2>1, <2>2
<1>8. ASSUME NEW c \in Callers, TakeResult(c) PROVE TypeCallers'
  BY <1>7, <1>8 DEF TakeResult
<1>9. ASSUME NEW c \in Callers, GiveUp(c) PROVE TypeCallers'
  BY <1>7, <1>9 DEF GiveUp
<1> QED
  BY <1>1, <1>2, <1>3, <1>4, <1>5, <1>6, <1>8, <1>9, CallerFrame

\* Every step keeps every variable in its type.
LEMMA TypeStep ==
  ASSUME TypeOK, Stages, SlotsHeld, Next
  PROVE  TypeOK'
BY ReceiverType, CompoundType, CallersType, SenderType, EndType DEF TypeOK

\* How sendPacket moves its caller when it returns.
LEMMA ReturnPc ==
  ASSUME NEW c \in Callers, NEW failed \in BOOLEAN, Return(c, failed)
  PROVE  \E x \in {"pop", "put", "done"} :
           /\ pc' = [pc EXCEPT ![c] = x]
           /\ c = Run => x \in {"pop", "done"}
           /\ c # Run => x \in {"put", "done"}
BY DEF Return

\* The actions that move a request from one stage to another.
LEMMA StagesFrame ==
  ASSUME Next
  PROVE \/ UNCHANGED <<pc, cur, kind, recvPc, inbox, sem>>
      \/ ReceiverRead
      \/ ReceiverFail
      \/ ReceiverInvalid
      \/ ReceiverParse
      \/ ReceiverExit
      \/ Handoff
      \/ RunSkipFailed
      \/ RunSync
      \/ RunPlain
      \/ RunAsync
      \/ RunSilent
      \/ RunReject
      \/ RunCancelled
      \/ (\E m \in Msgs : Acquire(m))
      \/ (\E c \in Callers : Put(c))
      \/ (\E c \in Callers : TakeResult(c))
      \/ (\E c \in Callers : GiveUp(c))
BY DEF Next, Receiver, Handler, SendPacket, Sender, Shutdown, Return, Answer,
       recvVars, compVars, callVars, sendVars, doneVars,
       ClientDisconnect, SenderWrite, SenderPost, SenderStop,
       ShutdownCancel, ShutdownWdone, ShutdownRdone, ShutdownClose

\* Every step keeps each request in one stage: a request the receiver reads is
\* one no other goroutine has.
LEMMA StagesStep ==
  ASSUME TypeOK, Stages, Next
  PROVE  Stages'
<1> USE DEF TypeOK, TypeReceiver, TypeCallers
<1>1. CASE UNCHANGED <<pc, cur, kind, recvPc, inbox, sem>>
  BY <1>1 DEF Stages
<1>2. CASE ReceiverRead
  <2>1. PICK q \in Chains({m \in Msgs : kind[m] = "none"}) :
          \E ks \in [DOMAIN q -> Kinds] :
            /\ inbox' = q
            /\ kind' = [m \in Msgs |-> IF \E i \in DOMAIN q : q[i] = m
                                       THEN ks[CHOOSE i \in DOMAIN q : q[i] = m]
                                       ELSE kind[m]]
    BY <1>2 DEF ReceiverRead
  <2>2. PICK n \in 1..MaxChain : q \in [1..n -> {m \in Msgs : kind[m] = "none"}]
    BY <2>1 DEF Chains
  <2>3. /\ q # << >>
        /\ \A i \in DOMAIN q : q[i] \in Msgs /\ kind[q[i]] = "none"
        /\ \A i, j \in DOMAIN q : q[i] = q[j] => i = j
    BY <2>1, <2>2, ConnAssumption DEF Chains
  <2>4. \A i \in DOMAIN q : kind'[q[i]] \in Kinds
    BY <2>1, <2>3
  <2>5. "none" \notin Kinds
    BY ConnAssumption DEF AllKinds
  <2>6. \A m \in Msgs : kind[m] # "none" => kind'[m] = kind[m]
    BY <2>1, <2>3
  <2>7. UNCHANGED <<pc, cur>> /\ recvPc' = "parse"
    BY <1>2 DEF ReceiverRead, callVars
  <2>8. \A i \in DOMAIN q : pc[q[i]] = "idle" /\ (pc[Run] = "handle" => q[i] # cur)
    BY <2>3 DEF Stages
  <2>9. \A m \in Msgs : pc[m] # "idle" => kind'[m] \in IoKinds
    BY <2>6 DEF Stages
  <2>10. pc[Run] = "handle" => kind'[cur] # "none"
    BY <2>6 DEF Stages
  <2>11. \A i \in DOMAIN q : kind'[q[i]] # "none"
    BY <2>4, <2>5
  <2>12. inbox' = q
    BY <2>1
  <2>13. /\ inbox' # << >>
         /\ \A i \in DOMAIN inbox' : /\ kind'[inbox'[i]] # "none"
                                     /\ pc'[inbox'[i]] = "idle"
                                     /\ pc'[Run] = "handle" => inbox'[i] # cur'
         /\ \A i, j \in DOMAIN inbox' : inbox'[i] = inbox'[j] => i = j
    BY <2>3, <2>7, <2>8, <2>11, <2>12
  <2> QED
    BY <2>7, <2>9, <2>10, <2>13 DEF Stages
<1>3. CASE ReceiverFail \/ ReceiverInvalid \/ ReceiverExit \/ ReceiverParse
  BY <1>3 DEF ReceiverFail, ReceiverInvalid, ReceiverExit, ReceiverParse, Stages,
              callVars
<1>4. CASE Handoff
  <2>1. inbox # << >> /\ inbox \in Seq(Msgs) /\ Head(inbox) = inbox[1]
    BY <1>4 DEF Handoff, Stages
  <2>2. \A i \in DOMAIN Tail(inbox) :
          i + 1 \in DOMAIN inbox /\ Tail(inbox)[i] = inbox[i + 1]
    BY <2>1
  <2>3. Len(inbox) > 1 <=> Tail(inbox) # << >>
    <3>1. Tail(inbox) \in Seq(Msgs) /\ Len(inbox) \in Nat /\ Len(Tail(inbox)) = Len(inbox) - 1
      BY <2>1, HeadTail
    <3>2. Tail(inbox) = << >> <=> Len(Tail(inbox)) = 0
      BY <3>1, EmptyLen
    <3>3. Len(inbox) # 0
      BY <2>1, HeadTail
    <3>4. Len(inbox) > 1 <=> Len(Tail(inbox)) # 0
      <4> DEFINE n == Len(inbox)
                 k == Len(Tail(inbox))
      <4>1. n \in Nat /\ n # 0 /\ k = n - 1
        BY <3>1, <3>3
      <4> HIDE DEF n, k
      <4>2. n > 1 <=> k # 0
        BY <4>1
      <4> QED
        BY <4>2 DEF n, k
    <3> QED
      BY <3>2, <3>4, Zenon
  <2>4. \A i \in DOMAIN Tail(inbox) : Tail(inbox)[i] # Head(inbox)
    BY <2>1, <2>2 DEF Stages
  <2>5. /\ pc' = [pc EXCEPT ![Run] = "handle"]
        /\ cur' = Head(inbox) /\ inbox' = Tail(inbox) /\ UNCHANGED kind
        /\ recvPc' = IF Len(inbox) > 1 THEN "parse" ELSE "read"
    BY <1>4 DEF Handoff
  <2>6. Head(inbox) \in Msgs /\ 1 \in DOMAIN inbox
    BY <2>1, HeadTail
  <2>7. \A m \in Msgs : pc'[m] = pc[m]
    BY <2>5, ConnAssumption
  <2>8. \A i \in DOMAIN Tail(inbox) : Tail(inbox)[i] \in Msgs
    BY <2>1, <2>2
  <2>9. \A i \in DOMAIN inbox' : /\ kind'[inbox'[i]] # "none"
                                /\ pc'[inbox'[i]] = "idle"
                                /\ inbox'[i] # cur'
    BY <2>2, <2>4, <2>5, <2>7, <2>8 DEF Stages
  <2>10. \A i, j \in DOMAIN inbox' : inbox'[i] = inbox'[j] => i = j
    <3> SUFFICES ASSUME NEW i \in DOMAIN Tail(inbox), NEW j \in DOMAIN Tail(inbox),
                        Tail(inbox)[i] = Tail(inbox)[j]
                 PROVE  i = j
      BY <2>5
    <3>1. i + 1 = j + 1
      BY <2>2 DEF Stages
    <3>2. i \in Nat /\ j \in Nat
      BY <2>1, HeadTail
    <3> QED
      BY <3>1, <3>2
  <2>11. cur' \in Msgs /\ kind'[cur'] # "none" /\ pc'[cur'] = "idle"
    BY <2>1, <2>5, <2>6, <2>7 DEF Stages
  <2>12. /\ recvPc' = "read" => inbox' = << >>
         /\ recvPc' \in {"parse", "handoff"} => inbox' # << >>
    BY <2>3, <2>5
  <2>13. pc'[Run] = "handle" /\ \A m \in Msgs :
           /\ pc'[m] \in {"idle", "acquire", "put", "wait", "done"}
           /\ pc'[m] # "idle" => kind'[m] \in IoKinds
    BY <2>5, <2>7 DEF Stages
  <2> QED
    BY <2>9, <2>10, <2>11, <2>12, <2>13 DEF Stages
<1>5. ASSUME NEW x \in {"put", "pop", "wait", "done"}, pc[Run] # "done",
             pc' = [pc EXCEPT ![Run] = x], UNCHANGED <<cur, kind, recvPc, inbox>>
      PROVE  Stages'
  BY <1>5, ConnAssumption DEF Stages
<1>6. CASE RunSkipFailed \/ RunSync \/ RunPlain
  <2>1. PICK st \in {"ok", "err"}, c \in Msgs \cup {None} : Answer(cur, st, c)
    BY <1>6 DEF RunSkipFailed, RunSync, RunPlain, Stages
  <2>2. pc[Run] = "handle" /\ UNCHANGED <<cur, kind, recvPc, inbox>>
    BY <1>6 DEF RunSkipFailed, RunSync, RunPlain, recvVars
  <2> QED
    BY <1>5, <2>1, <2>2, AnswerCallers
<1>7. CASE RunSilent \/ RunReject \/ RunCancelled
  BY <1>5, <1>7 DEF RunSilent, RunReject, RunCancelled, recvVars
<1>8. CASE RunAsync
  BY <1>8, ConnAssumption DEF RunAsync, Stages, recvVars
<1>9. ASSUME NEW m \in Msgs, NEW x \in {"put", "wait", "done"}, pc[m] # "idle",
             pc' = [pc EXCEPT ![m] = x], UNCHANGED <<cur, kind, recvPc, inbox>>
      PROVE  Stages'
  BY <1>9, ConnAssumption DEF Stages
<1>10. ASSUME NEW m \in Msgs, Acquire(m) PROVE Stages'
  BY <1>9, <1>10 DEF Acquire, recvVars
<1>11. ASSUME NEW c \in Callers, Put(c) PROVE Stages'
  BY <1>5, <1>9, <1>11 DEF Put, recvVars
<1>12. ASSUME NEW c \in Callers, TakeResult(c) \/ GiveUp(c) PROVE Stages'
  <2>1. PICK failed \in BOOLEAN : Return(c, failed)
    BY <1>12 DEF TakeResult, GiveUp
  <2>2. pc[c] \in {"put", "wait"} /\ UNCHANGED <<cur, kind, recvPc, inbox>>
    BY <1>12 DEF TakeResult, GiveUp, recvVars
  <2> QED
    BY <1>5, <1>9, <2>1, <2>2, ReturnPc
<1> QED
  BY <1>1, <1>2, <1>3, <1>4, <1>6, <1>7, <1>8, <1>10, <1>11, <1>12, StagesFrame

\* A step after which the same workers hold slots of the same kind.
LEMMA SameHolders ==
  ASSUME SlotsHeld, UNCHANGED sem,
         \A m \in Msgs : (pc[m] \in {"put", "wait"} \/ pc'[m] \in {"put", "wait"}) =>
           /\ pc[m] \in {"put", "wait"} /\ pc'[m] \in {"put", "wait"}
           /\ kind'[m] = kind[m]
  PROVE  SlotsHeld'
<1>1. ASSUME NEW k \in IoKinds PROVE Holders(k)' = Holders(k)
  BY DEF Holders
<1> QED
  BY <1>1 DEF SlotsHeld

\* Acquire takes a slot for one worker more.
LEMMA AcquireSlot ==
  ASSUME TypeOK, Stages, SlotsHeld, NEW m \in Msgs, Acquire(m)
  PROVE  SlotsHeld'
<1> USE DEF TypeOK, TypeCallers
<1>1. kind[m] \in IoKinds
  BY DEF Acquire, Stages
<1>2. /\ pc' = [pc EXCEPT ![m] = "put"] /\ pc[m] = "acquire"
      /\ sem' = [sem EXCEPT ![kind[m]] = @ + 1] /\ UNCHANGED kind
  BY DEF Acquire, recvVars
<1>3. Holders(kind[m])' = Holders(kind[m]) \cup {m} /\ m \notin Holders(kind[m])
  BY <1>2 DEF Holders
<1>4. Cardinality(Holders(kind[m])') = Cardinality(Holders(kind[m])) + 1
  BY <1>3, FiniteCallers, FS_AddElement
<1>5. ASSUME NEW k \in IoKinds, k # kind[m] PROVE Holders(k)' = Holders(k)
  BY <1>2, <1>5 DEF Holders
<1> QED
  <2> SUFFICES ASSUME NEW k \in IoKinds PROVE sem'[k] = Cardinality(Holders(k)')
    BY DEF SlotsHeld
  <2>1. CASE k = kind[m]
    BY <1>1, <1>2, <1>4, <2>1 DEF SlotsHeld
  <2>2. CASE k # kind[m]
    BY <1>1, <1>2, <1>5, <2>2 DEF SlotsHeld
  <2> QED
    BY <2>1, <2>2

\* A worker that is done gives one slot back.
LEMMA ReleaseSlot ==
  ASSUME TypeOK, Stages, SlotsHeld, NEW m \in Msgs, pc[m] \in {"put", "wait"},
         pc' = [pc EXCEPT ![m] = "done"], UNCHANGED kind,
         sem' = [sem EXCEPT ![kind[m]] = @ - 1]
  PROVE  SlotsHeld'
<1> USE DEF TypeOK, TypeCallers
<1>1. kind[m] \in IoKinds /\ sem[kind[m]] \in Nat \ {0}
  BY HolderHasSlot
<1>2. Holders(kind[m])' = Holders(kind[m]) \ {m} /\ m \in Holders(kind[m])
  BY DEF Holders
<1>3. Cardinality(Holders(kind[m])') = Cardinality(Holders(kind[m])) - 1
  BY <1>2, FiniteCallers, FS_RemoveElement
<1>4. ASSUME NEW k \in IoKinds, k # kind[m] PROVE Holders(k)' = Holders(k)
  BY <1>4 DEF Holders
<1> QED
  <2> SUFFICES ASSUME NEW k \in IoKinds PROVE sem'[k] = Cardinality(Holders(k)')
    BY DEF SlotsHeld
  <2>1. CASE k = kind[m]
    BY <1>1, <1>3, <2>1 DEF SlotsHeld
  <2>2. CASE k # kind[m]
    BY <1>1, <1>4, <2>2 DEF SlotsHeld
  <2> QED
    BY <2>1, <2>2

\* Whatever a step of the connection does, a slot is taken exactly while a
\* worker is between the two operations on its semaphore.
LEMMA SlotsStep ==
  ASSUME TypeOK, Stages, SlotsHeld, Next
  PROVE  SlotsHeld'
<1> USE DEF TypeOK, TypeCallers, TypeReceiver
<1>1. CASE UNCHANGED <<pc, cur, kind, recvPc, inbox, sem>>
  BY <1>1, SameHolders
<1>2. CASE ReceiverRead
  <2>1. \A m \in Msgs : kind[m] # "none" => kind'[m] = kind[m]
    <3>1. PICK q \in Chains({m \in Msgs : kind[m] = "none"}) :
            \E ks \in [DOMAIN q -> Kinds] :
              kind' = [m \in Msgs |-> IF \E i \in DOMAIN q : q[i] = m
                                      THEN ks[CHOOSE i \in DOMAIN q : q[i] = m]
                                      ELSE kind[m]]
      BY <1>2 DEF ReceiverRead
    <3>2. \A i \in DOMAIN q : kind[q[i]] = "none"
      <4>1. PICK n \in 1..MaxChain : q \in [1..n -> {m \in Msgs : kind[m] = "none"}]
        BY <3>1 DEF Chains
      <4> QED
        BY <4>1
    <3> QED
      BY <3>1, <3>2
  <2>2. UNCHANGED <<pc, sem>>
    BY <1>2 DEF ReceiverRead, callVars
  <2> QED
    BY <2>1, <2>2, SameHolders DEF Stages
<1>3. CASE ReceiverFail \/ ReceiverInvalid \/ ReceiverExit \/ ReceiverParse
  BY <1>3, SameHolders DEF ReceiverFail, ReceiverInvalid, ReceiverExit,
                           ReceiverParse, callVars
<1>4. ASSUME NEW x, pc' = [pc EXCEPT ![Run] = x], UNCHANGED <<kind, sem>>
      PROVE  SlotsHeld'
  <2>1. \A m \in Msgs : pc'[m] = pc[m]
    BY <1>4, ConnAssumption
  <2> QED
    BY <1>4, <2>1, SameHolders
<1>5. CASE Handoff \/ RunSilent \/ RunReject \/ RunCancelled
  BY <1>4, <1>5 DEF Handoff, RunSilent, RunReject, RunCancelled, recvVars
<1>6. CASE RunSkipFailed \/ RunSync \/ RunPlain
  <2>1. PICK st \in {"ok", "err"}, c \in Msgs \cup {None} : Answer(cur, st, c)
    BY <1>6 DEF RunSkipFailed, RunSync, RunPlain, Stages
  <2>2. pc[Run] = "handle" /\ UNCHANGED <<kind, sem>>
    BY <1>6 DEF RunSkipFailed, RunSync, RunPlain, recvVars
  <2> QED
    BY <1>4, <2>1, <2>2, AnswerCallers
<1>7. CASE RunAsync
  <2>1. /\ pc[Run] = "handle"
        /\ pc' = [pc EXCEPT ![cur] = "acquire", ![Run] = "pop"]
        /\ UNCHANGED <<kind, sem>>
    BY <1>7 DEF RunAsync, recvVars
  <2>2. cur \in Msgs /\ pc[cur] = "idle"
    BY <2>1 DEF Stages
  <2>3. \A m \in Msgs : pc'[m] = IF m = cur THEN "acquire" ELSE pc[m]
    BY <2>1, <2>2, ConnAssumption
  <2> QED
    BY <2>1, <2>2, <2>3, SameHolders
<1>8. ASSUME NEW m \in Msgs, Acquire(m) PROVE SlotsHeld'
  BY <1>8, AcquireSlot
<1>9. ASSUME NEW m \in Msgs, pc[m] \in {"put", "wait"}, NEW x \in {"put", "wait"},
             pc' = [pc EXCEPT ![m] = x], UNCHANGED <<kind, sem>>
      PROVE  SlotsHeld'
  BY <1>9, SameHolders
<1>10. ASSUME NEW c \in Callers, Put(c) PROVE SlotsHeld'
  <2>1. pc[c] = "put" /\ pc' = [pc EXCEPT ![c] = "wait"] /\ UNCHANGED <<kind, sem>>
    BY <1>10 DEF Put, recvVars
  <2> QED
    BY <1>4, <1>9, <2>1
<1>11. ASSUME NEW c \in Callers, TakeResult(c) \/ GiveUp(c) PROVE SlotsHeld'
  <2>1. PICK failed \in BOOLEAN : Return(c, failed)
    BY <1>11 DEF TakeResult, GiveUp
  <2>2. pc[c] \in {"put", "wait"} /\ UNCHANGED kind
    BY <1>11 DEF TakeResult, GiveUp, recvVars
  <2>3. CASE c = Run
    <3>1. UNCHANGED sem /\ \E x \in {"pop", "done"} : pc' = [pc EXCEPT ![Run] = x]
      BY <2>1, <2>3 DEF Return
    <3> QED
      BY <1>4, <2>2, <3>1
  <2>4. CASE c # Run /\ Interim(c)
    BY <1>9, <2>1, <2>2, <2>4 DEF Return
  <2>5. CASE c # Run /\ ~Interim(c)
    <3>1. /\ sem' = [sem EXCEPT ![kind[c]] = @ - 1]
          /\ pc' = [pc EXCEPT ![c] = "done"]
      BY <2>1, <2>5 DEF Return
    <3> QED
      BY <2>2, <2>5, <3>1, ReleaseSlot
  <2> QED
    BY <2>3, <2>4, <2>5
<1> QED
  BY <1>1, <1>2, <1>3, <1>5, <1>6, <1>7, <1>8, <1>10, <1>11, StagesFrame

\* A waiting caller more, a waiting caller less.
LEMMA WaitingCount ==
  ASSUME TypeOK, NEW c \in Callers, NEW x, pc' = [pc EXCEPT ![c] = x]
  PROVE  /\ Cardinality(Waiting) \in Nat
         /\ pc[c] # "wait" /\ x # "wait" => Waiting' = Waiting
         /\ pc[c] # "wait" /\ x = "wait" => Cardinality(Waiting') = Cardinality(Waiting) + 1
         /\ pc[c] = "wait" /\ x # "wait" => Cardinality(Waiting') = Cardinality(Waiting) - 1
<1> USE DEF TypeOK, TypeCallers
<1>1. Cardinality(Waiting) \in Nat
  BY FiniteCallers, FS_CardinalityType
<1>2. pc[c] # "wait" /\ x # "wait" => Waiting' = Waiting
  BY DEF Waiting
<1>3. ASSUME pc[c] # "wait", x = "wait"
      PROVE  Cardinality(Waiting') = Cardinality(Waiting) + 1
  <2>1. Waiting' = Waiting \cup {c} /\ c \notin Waiting
    BY <1>3 DEF Waiting
  <2> QED
    BY <2>1, FiniteCallers, FS_AddElement
<1>4. ASSUME pc[c] = "wait", x # "wait"
      PROVE  Cardinality(Waiting') = Cardinality(Waiting) - 1
  <2>1. Waiting' = Waiting \ {c} /\ c \in Waiting
    BY <1>4 DEF Waiting
  <2> QED
    BY <2>1, FiniteCallers, FS_RemoveElement
<1> QED
  BY <1>1, <1>2, <1>3, <1>4

\* The callers, the sender and the context: who touches what sendPacket needs.
LEMMA ResultsFrame ==
  ASSUME Next
  PROVE \/ UNCHANGED <<pc, write, werr, sendPc, ctxDone>>
      \/ Handoff
      \/ RunSkipFailed
      \/ RunSync
      \/ RunPlain
      \/ RunAsync
      \/ RunSilent
      \/ RunReject
      \/ RunCancelled
      \/ (\E m \in Msgs : Acquire(m))
      \/ (\E c \in Callers : Put(c))
      \/ (\E c \in Callers : TakeResult(c))
      \/ (\E c \in Callers : GiveUp(c))
      \/ SenderWrite
      \/ SenderPost
      \/ SenderStop
      \/ ShutdownCancel
BY DEF Next, Receiver, Handler, SendPacket, Sender, Shutdown, Return, Answer,
       recvVars, compVars, callVars, sendVars, doneVars,
       ClientDisconnect, ReceiverRead, ReceiverFail, ReceiverInvalid,
       ReceiverParse, ReceiverExit,
       ShutdownWdone, ShutdownRdone, ShutdownClose

\* Whatever a step does, the packets and results on the way are as many as the
\* callers that wait for one.
LEMMA ResultsStep ==
  ASSUME TypeOK, Stages, ResultsMatchCallers, Next
  PROVE  ResultsMatchCallers'
<1> USE DEF TypeOK, TypeCallers, TypeReceiver
<1>1. CASE UNCHANGED <<pc, write, werr, sendPc, ctxDone>>
  <2>1. Waiting' = Waiting
    BY <1>1 DEF Waiting
  <2> QED
    BY <1>1, <2>1 DEF ResultsMatchCallers
<1>2. ASSUME NEW c \in Callers, NEW x, pc' = [pc EXCEPT ![c] = x],
             pc[c] # "wait", x # "wait", UNCHANGED <<write, werr, sendPc, ctxDone>>
      PROVE  ResultsMatchCallers'
  <2>1. Waiting' = Waiting
    BY <1>2, WaitingCount
  <2> QED
    BY <1>2, <2>1 DEF ResultsMatchCallers
<1>3. CASE Handoff \/ RunSilent \/ RunReject \/ RunCancelled
  BY <1>2, <1>3 DEF Handoff, RunSilent, RunReject, RunCancelled, sendVars
<1>4. CASE RunSkipFailed \/ RunSync \/ RunPlain
  <2>1. PICK st \in {"ok", "err"}, c \in Msgs \cup {None} : Answer(cur, st, c)
    BY <1>4 DEF RunSkipFailed, RunSync, RunPlain, Stages
  <2>2. pc[Run] = "handle" /\ UNCHANGED <<write, werr, sendPc, ctxDone>>
    BY <1>4 DEF RunSkipFailed, RunSync, RunPlain, sendVars
  <2> QED
    BY <1>2, <2>1, <2>2, AnswerCallers
<1>5. CASE RunAsync
  <2>1. /\ pc[Run] = "handle" /\ cur \in Msgs /\ pc[cur] = "idle"
        /\ pc' = [pc EXCEPT ![cur] = "acquire", ![Run] = "pop"]
        /\ UNCHANGED <<write, werr, sendPc, ctxDone>>
    BY <1>5 DEF RunAsync, Stages, sendVars
  <2>2. Waiting' = Waiting
    BY <2>1 DEF Waiting
  <2> QED
    BY <2>1, <2>2 DEF ResultsMatchCallers
<1>6. ASSUME NEW m \in Msgs, Acquire(m) PROVE ResultsMatchCallers'
  BY <1>2, <1>6 DEF Acquire, sendVars
<1>7. ASSUME NEW c \in Callers, Put(c) PROVE ResultsMatchCallers'
  <2>1. /\ pc[c] = "put" /\ pc' = [pc EXCEPT ![c] = "wait"]
        /\ write' = Append(write, pkt[c]) /\ UNCHANGED <<werr, sendPc, ctxDone>>
    BY <1>7 DEF Put, sendVars
  <2>2. Cardinality(Waiting') = Cardinality(Waiting) + 1 /\ Cardinality(Waiting) \in Nat
    BY <2>1, WaitingCount
  <2>3. Len(write') = Len(write) + 1 /\ Len(write) \in Nat /\ Len(werr) \in Nat
    BY <2>1, AppendType DEF TypeSender
  <2> QED
    BY <2>1, <2>2, <2>3 DEF ResultsMatchCallers
<1>8. ASSUME NEW c \in Callers, TakeResult(c) PROVE ResultsMatchCallers'
  <2>1. /\ pc[c] = "wait" /\ werr # << >> /\ werr' = Tail(werr)
        /\ UNCHANGED <<write, sendPc, ctxDone>>
    BY <1>8 DEF TakeResult, sendVars
  <2>2. PICK failed \in BOOLEAN : Return(c, failed)
    BY <1>8 DEF TakeResult
  <2>3. PICK x \in {"pop", "put", "done"} : pc' = [pc EXCEPT ![c] = x]
    BY <2>2, ReturnPc
  <2>4. Cardinality(Waiting') = Cardinality(Waiting) - 1 /\ Cardinality(Waiting) \in Nat
    BY <2>1, <2>3, WaitingCount
  <2>5. Len(werr') = Len(werr) - 1 /\ Len(write) \in Nat /\ Len(werr) \in Nat
    BY <2>1, HeadTail DEF TypeSender
  <2> QED
    BY <2>1, <2>4, <2>5 DEF ResultsMatchCallers
<1>9. ASSUME NEW c \in Callers, GiveUp(c) PROVE ResultsMatchCallers'
  BY <1>9 DEF GiveUp, ResultsMatchCallers
<1>10. CASE ShutdownCancel
  BY <1>10 DEF ShutdownCancel, ResultsMatchCallers
<1>11. CASE SenderWrite
  <2>1. /\ sendPc = "loop" /\ sendPc' = "result"
        /\ write # << >> /\ write' = Tail(write) /\ UNCHANGED <<pc, werr, ctxDone>>
    BY <1>11 DEF SenderWrite, callVars
  <2>2. Waiting' = Waiting
    BY <2>1 DEF Waiting
  <2>3. Len(write') = Len(write) - 1 /\ Len(write) \in Nat /\ Len(werr) \in Nat
    BY <2>1, HeadTail DEF TypeSender
  <2> QED
    BY <2>1, <2>2, <2>3 DEF ResultsMatchCallers
<1>12. CASE SenderPost
  <2>1. /\ sendPc = "result" /\ sendPc' = "loop"
        /\ werr = << >> /\ werr' = <<sendRes>> /\ UNCHANGED <<pc, write, ctxDone>>
    BY <1>12 DEF SenderPost, callVars
  <2>2. Waiting' = Waiting
    BY <2>1 DEF Waiting
  <2>3. Len(werr) = 0 /\ Len(werr') = 1
    BY <2>1 DEF TypeSender
  <2>4. Len(write) \in Nat
    BY DEF TypeSender
  <2>5. Cardinality(Waiting) \in Nat
    BY FiniteCallers, FS_CardinalityType
  <2> QED
    BY <2>1, <2>2, <2>3, <2>4, <2>5 DEF ResultsMatchCallers
<1>13. CASE SenderStop
  <2>1. sendPc = "loop" /\ sendPc' = "done" /\ UNCHANGED <<pc, write, werr, ctxDone>>
    BY <1>13 DEF SenderStop, callVars
  <2>2. Waiting' = Waiting
    BY <2>1 DEF Waiting
  <2> QED
    BY <2>1, <2>2 DEF ResultsMatchCallers
<1> QED
  BY <1>1, <1>3, <1>4, <1>5, <1>6, <1>7, <1>8, <1>9, <1>10, <1>11, <1>12, <1>13,
     ResultsFrame

\* The conjuncts of IndInv together are preserved by every step.
THEOREM Inductive == IndInv /\ [Next]_vars => IndInv'
<1> SUFFICES ASSUME IndInv, [Next]_vars PROVE IndInv'
  OBVIOUS
<1>1. CASE Next
  BY <1>1, TypeStep, StagesStep, SlotsStep, ResultsStep DEF IndInv
<1>2. CASE UNCHANGED vars
  <2>1. TypeOK'
    BY <1>2 DEF IndInv, TypeOK, TypeReceiver, TypeCompound, TypeCallers, TypeSender,
                TypeEnd, vars, recvVars, compVars, callVars, sendVars, doneVars
  <2>2. Stages'
    BY <1>2 DEF IndInv, Stages, vars, recvVars, callVars
  <2>3. SlotsHeld'
    BY <1>2 DEF IndInv, SlotsHeld, Holders, vars, recvVars, callVars
  <2>4. ResultsMatchCallers'
    BY <1>2 DEF IndInv, ResultsMatchCallers, Waiting, vars, callVars, sendVars
  <2> QED
    BY <2>1, <2>2, <2>3, <2>4 DEF IndInv
<1> QED
  BY <1>1, <1>2

\* The inductive invariant holds in every behaviour of the connection.
THEOREM Invariance == Spec => []IndInv
BY InitInd, Inductive, PTL DEF Spec

\* For every number of requests and every capacity, the variables keep their
\* types and no channel or semaphore exceeds its capacity.
THEOREM TypeCorrect == Spec => []TypeOK
<1>1. IndInv => TypeOK
  BY DEF IndInv
<1> QED
  BY <1>1, Invariance, PTL

\* For every MaxIOReads and MaxIOWrites, a slot of a tree's semaphore is held
\* exactly while a read or write is being served: no error, cancellation or
\* interleaving leaks a slot or gives one back twice.
THEOREM SlotsNeverLeak == Spec => []SlotsHeld
<1>1. IndInv => SlotsHeld
  BY DEF IndInv
<1> QED
  BY <1>1, Invariance, PTL

\* For every number of concurrent callers of sendPacket, until the context is
\* cancelled each waiting caller has exactly one packet or result on its way.
THEOREM ResultsNeverLost == Spec => []ResultsMatchCallers
<1>1. IndInv => ResultsMatchCallers
  BY DEF IndInv
<1> QED
  BY <1>1, Invariance, PTL
=============================================================================
