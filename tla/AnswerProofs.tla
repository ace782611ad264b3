---------------------------- MODULE AnswerProofs -----------------------------
(***************************************************************************)
(* For any number of requests, in compounds of any length, and however the *)
(* dispatcher, the workers, the sender and the shutdown of the connection  *)
(* interleave: no request gets two final responses or an interim one after *)
(* its final one, an asynchronous one gets its interim response first as   *)
(* long as the context is not cancelled, and a compound is answered as a   *)
(* whole.                                                                  *)
(***************************************************************************)
EXTENDS ConnectionProofs

-----------------------------------------------------------------------------
(* Packets.                                                                *)

\* The requests that packet p has responses for, and those it answers for good.
MsgsOf(p) == {p[a].msg : a \in DOMAIN p}
Finals(p) == {m \in Msgs : \E a \in DOMAIN p : p[a].msg = m /\ p[a].st # "pending"}

\* No request twice, and after a failure only failures.
Distinct(p) == \A a, b \in DOMAIN p : p[a].msg = p[b].msg => a = b
FailsOn(p) == \A a \in DOMAIN p : p[a].st = "err" => \A b \in a..Len(p) : p[b].st = "err"

\* A packet of one response, as workers send them.
Reply(m, st) == <<[msg |-> m, st |-> st]>>

\* In S, the interim response of m comes before position i.
Announced(S, m, i) == \E j \in DOMAIN S : j < i /\ S[j] = Reply(m, "pending")

\* In S, no interim response comes after the final one.
InOrder(S) ==
  \A m \in Msgs, i, j \in DOMAIN S : m \in Finals(S[i]) /\ S[j] = Reply(m, "pending") => j < i

\* The requests that have a final response in S.
AnsweredIn(S) == {m \in Msgs : \E i \in DOMAIN S : m \in Finals(S[i])}

\* With the kinds K and the compounds C of the requests: a read or write that
\* has a goroutine of its own; the members of compound c that are answered in it.
AsyncIn(m, K, C) == K[m] \in IoKinds /\ C[m] = None
MembersIn(c, K, C) == {m \in Msgs : C[m] = c /\ K[m] \in IoKinds \cup {"sync"}}

\* A packet with a response of a compound is that of the whole compound.
Whole(p, K, C) ==
  \A a \in DOMAIN p :
    C[p[a].msg] # None /\ K[p[a].msg] # "plain" =>
      MembersIn(C[p[a].msg], K, C) \subseteq MsgsOf(p) /\ FailsOn(p)

\* A packet that Run may have made.
RunPacket(p, K, C) ==
  /\ \A a \in DOMAIN p : /\ p[a].st \in {"ok", "err"}
                         /\ K[p[a].msg] # "none" /\ ~AsyncIn(p[a].msg, K, C)
  /\ Distinct(p)
  /\ Whole(p, K, C)

-----------------------------------------------------------------------------
(* The inductive invariant, on top of IndInv.                              *)

\* The packets that have left sendPacket, in order: those the sender has
\* written, then those it has still to write.
Sent == wire \o write

\* The requests with the receiver, and those that nobody has handled: not
\* received yet, with the receiver, or in the hands of Run.
Queued == {m \in Msgs : \E i \in DOMAIN inbox : inbox[i] = m}
Ahead == {m \in Msgs : kind[m] = "none" \/ m \in Queued \/ (pc[Run] = "handle" /\ cur = m)}

\* A compound is known from its first request on.
ChainsKnown ==
  \A m \in Msgs :
    /\ kind[m] = "none" => chain[m] = None /\ lastMsg[m] = None
    /\ chain[m] # None => kind[chain[m]] # "none"

\* A worker is that of an asynchronous request. It sends its own two responses,
\* the final one once only, and after the interim one unless the context is
\* done or the socket closed.
WorkerOK(m) ==
  /\ pc[m] # "idle" => AsyncIn(m, kind, chain) /\ m \notin Ahead
  /\ pc[m] \in {"put", "wait"} => \E st \in {"pending", "ok", "err"} : pkt[m] = Reply(m, st)
  /\ m \in AnsweredIn(Sent) /\ AsyncIn(m, kind, chain) =>
       pc[m] = "done" \/ (pc[m] = "wait" /\ pkt[m] # Reply(m, "pending"))
  /\ \/ pc[m] = "wait" /\ pkt[m] = Reply(m, "pending")
     \/ pc[m] = "put" /\ pkt[m] # Reply(m, "pending")
     => ctxDone \/ sock = "closed" \/ Announced(Sent, m, Len(Sent) + 1)

\* Run sends responses to requests it has handled and not answered yet.
RunOK ==
  pc[Run] = "put" =>
    /\ RunPacket(pkt[Run], kind, chain)
    /\ MsgsOf(pkt[Run]) \cap Ahead = {}
    /\ MsgsOf(pkt[Run]) \cap AnsweredIn(Sent) = {}

\* A packet on its way was made by Run or by a worker; none answers a request
\* that is yet to be handled, no two the same one; an interim response comes before the
\* final one; and the final response to an asynchronous request comes after an
\* interim one, unless the context is done or it will never be written.
SentOK ==
  /\ \A i \in DOMAIN Sent :
       \/ RunPacket(Sent[i], kind, chain)
       \/ \E m \in Msgs, st \in {"pending", "ok", "err"} :
            AsyncIn(m, kind, chain) /\ Sent[i] = Reply(m, st)
  /\ \A i, j \in DOMAIN Sent : i # j => Finals(Sent[i]) \cap Finals(Sent[j]) = {}
  /\ AnsweredIn(Sent) \cap Ahead = {}
  /\ InOrder(Sent)
  /\ \A m \in Msgs, i \in DOMAIN Sent : AsyncIn(m, kind, chain) /\ m \in Finals(Sent[i]) =>
       ctxDone \/ (i > Len(wire) /\ sock = "closed") \/ Announced(Sent, m, i)

\* The responses that a compound keeps are of requests that Run has handled,
\* and have no failure before a success.
RspOK(c) ==
  /\ \A a \in DOMAIN rsp[c] : /\ rsp[c][a].st \in {"ok", "err"}
                              /\ chain[rsp[c][a].msg] = c /\ kind[rsp[c][a].msg] # "plain"
  /\ MsgsOf(rsp[c]) \cap Ahead = {}
  /\ Distinct(rsp[c]) /\ FailsOn(rsp[c])
  /\ lastStatus[c] = (IF rsp[c] = << >> THEN "ok" ELSE rsp[c][Len(rsp[c])].st)

\* Every member of a compound is yet to be handled or has its response kept. The
\* last one is known before it is handled. Until it is answered nothing of the
\* compound is sent; then nothing of it is left to be handled.
CompoundOK(c) ==
  /\ MembersIn(c, kind, chain) \subseteq Ahead \cup MsgsOf(rsp[c])
  /\ lastMsg[c] # None => \A m \in Queued : chain[m] = c => m = lastMsg[c]
  /\ IF lastMsg[c] # None /\ lastMsg[c] \in MsgsOf(rsp[c])
     THEN \A m \in Ahead : chain[m] # c
     ELSE /\ MsgsOf(rsp[c]) \cap AnsweredIn(Sent) = {}
          /\ pc[Run] = "put" => MsgsOf(rsp[c]) \cap MsgsOf(pkt[Run]) = {}

\* The inductive invariant.
AnswerInv ==
  /\ ChainsKnown
  /\ \A m \in Msgs : WorkerOK(m)
  /\ RunOK
  /\ SentOK
  /\ \A c \in Msgs : RspOK(c) /\ CompoundOK(c)
-----------------------------------------------------------------------------
(* What the steps have in common.                                          *)

\* The types that the proofs use.
LEMMA Types ==
  ASSUME TypeOK
  PROVE  /\ kind \in [Msgs -> Kinds \cup {"none"}] /\ chain \in [Msgs -> Msgs \cup {None}]
         /\ inbox \in Seq(Msgs)
         /\ lastMsg \in [Msgs -> Msgs \cup {None}]
         /\ lastStatus \in [Msgs -> {"ok", "err"}]
         /\ rsp \in [Msgs -> Seq(Responses)]
         /\ pc \in [Callers -> {"idle", "acquire", "pop", "handle", "put", "wait", "done"}]
         /\ pkt \in [Callers -> Seq(Responses)]
         /\ wire \in Seq(Seq(Responses)) /\ write \in Seq(Seq(Responses))
         /\ Sent \in Seq(Seq(Responses)) /\ Len(Sent) = Len(wire) + Len(write)
         /\ Msgs \subseteq Callers /\ Run \in Callers /\ Run \notin Msgs
         /\ None \notin Msgs
<1>1. /\ kind \in [Msgs -> Kinds \cup {"none"}] /\ chain \in [Msgs -> Msgs \cup {None}]
      /\ inbox \in Seq(Msgs)
  BY DEF TypeOK, TypeReceiver
<1>2. /\ lastMsg \in [Msgs -> Msgs \cup {None}]
      /\ lastStatus \in [Msgs -> {"ok", "err"}]
      /\ rsp \in [Msgs -> Seq(Responses)]
  BY DEF TypeOK, TypeCompound
<1>3. /\ pc \in [Callers -> {"idle", "acquire", "pop", "handle", "put", "wait", "done"}]
      /\ pkt \in [Callers -> Seq(Responses)]
  BY DEF TypeOK, TypeCallers
<1>4. wire \in Seq(Seq(Responses)) /\ write \in Seq(Seq(Responses))
  BY DEF TypeOK, TypeSender
<1>5. Sent \in Seq(Seq(Responses)) /\ Len(Sent) = Len(wire) + Len(write)
  BY <1>4 DEF Sent
<1>6. Msgs \subseteq Callers /\ Run \in Callers /\ Run \notin Msgs /\ None \notin Msgs
  BY ConnAssumption DEF Callers
<1> QED BY <1>1, <1>2, <1>3, <1>4, <1>5, <1>6, Zenon

\* A worker that does not move is still as it should be.
LEMMA WorkerFrame ==
  ASSUME NEW m \in Msgs, WorkerOK(m), pc'[m] = pc[m], pkt'[m] = pkt[m],
         kind' = kind, chain' = chain, Sent' = Sent, Ahead' \subseteq Ahead,
         ctxDone => ctxDone', sock = "closed" => sock' = "closed"
  PROVE  WorkerOK(m)'
  BY DEF WorkerOK

\* A step that sends nothing and answers nothing in a compound keeps the invariant
\* if it does so for the workers.
LEMMA Forward ==
  ASSUME AnswerInv,
         UNCHANGED <<kind, chain, lastMsg, lastStatus, rsp, wire, write>>,
         Ahead' \subseteq Ahead, Queued' \subseteq Queued,
         \A c \in Msgs : MembersIn(c, kind, chain) \cap Ahead \subseteq Ahead',
         ctxDone => ctxDone', sock = "closed" => sock' = "closed",
         \A m \in Msgs : WorkerOK(m)',
         pc'[Run] = "put" => pc[Run] = "put" /\ pkt'[Run] = pkt[Run]
  PROVE  AnswerInv'
<1>s. Sent' = Sent
  BY DEF Sent
<1>1. ChainsKnown'
  BY DEF AnswerInv, ChainsKnown
<1>2. RunOK'
  BY <1>s DEF AnswerInv, RunOK
<1>3. SentOK'
  BY <1>s DEF AnswerInv, SentOK
<1>4. ASSUME NEW c \in Msgs PROVE RspOK(c)' /\ CompoundOK(c)'
  <2>0. RspOK(c) /\ CompoundOK(c)
    BY DEF AnswerInv
  <2>1. RspOK(c)'
    BY <2>0 DEF RspOK
  <2>2. CompoundOK(c)'
    BY <2>0, <1>s DEF CompoundOK
  <2> QED BY <2>1, <2>2
<1> QED BY <1>1, <1>2, <1>3, <1>4 DEF AnswerInv

\* Run gives up a request that is of no compound, or that a compound has no
\* response for.
LEMMA RunLeaves ==
  ASSUME IndInv, AnswerInv, RunSilent \/ RunReject \/ RunCancelled
  PROVE  AnswerInv'
<1>t. TypeOK
  BY DEF IndInv
<1>1. PICK x \in {"pop", "done"} : pc' = [pc EXCEPT ![Run] = x]
  BY DEF RunSilent, RunReject, RunCancelled
<1>2. /\ UNCHANGED <<kind, chain, lastMsg, lastStatus, rsp, wire, write, inbox, cur, pkt, ctxDone>>
      /\ sock = "closed" => sock' = "closed"
  BY DEF RunSilent, RunReject, RunCancelled, recvVars, compVars, sendVars
<1>3. pc'[Run] = x /\ \A m \in Msgs : pc'[m] = pc[m]
  BY <1>1, <1>t, Types
<1>4. Queued' = Queued /\ Ahead' \subseteq Ahead
  BY <1>2, <1>3 DEF Queued, Ahead
<1>5. pc[Run] = "handle" => kind[cur] \in {"silent", "reject"}
  BY DEF RunSilent, RunReject, RunCancelled
<1>6. \A c \in Msgs : MembersIn(c, kind, chain) \cap Ahead \subseteq Ahead'
  BY <1>2, <1>3, <1>4, <1>5 DEF Ahead, MembersIn, IoKinds
<1>7. ASSUME NEW m \in Msgs PROVE WorkerOK(m)'
  <2>1. WorkerOK(m) /\ Sent' = Sent
    BY <1>2 DEF AnswerInv, Sent
  <2> QED BY <2>1, <1>2, <1>3, <1>4, WorkerFrame
<1> QED BY <1>2, <1>3, <1>4, <1>6, <1>7, Forward

\* The steps that concern no request.
LEMMA Quiet ==
  ASSUME AnswerInv,
         UNCHANGED <<kind, chain, lastMsg, lastStatus, rsp, wire, write, inbox, cur, pc, pkt>>,
         ctxDone => ctxDone', sock = "closed" => sock' = "closed"
  PROVE  AnswerInv'
<1>1. Queued' = Queued /\ Ahead' = Ahead /\ Sent' = Sent
  BY DEF Queued, Ahead, Sent
<1>2. ASSUME NEW m \in Msgs PROVE WorkerOK(m)'
  <2>1. WorkerOK(m)
    BY DEF AnswerInv
  <2> QED BY <2>1, <1>1, WorkerFrame
<1> QED BY <1>1, <1>2, Forward

\* Run takes a request from the receiver.
LEMMA HandoffKeeps ==
  ASSUME IndInv, AnswerInv, Handoff
  PROVE  AnswerInv'
<1>t. TypeOK /\ Stages
  BY DEF IndInv
<1>1. /\ recvPc = "handoff" /\ pc[Run] = "pop"
      /\ cur' = Head(inbox) /\ inbox' = Tail(inbox)
      /\ pc' = [pc EXCEPT ![Run] = "handle"]
      /\ UNCHANGED <<kind, chain, lastMsg, lastStatus, rsp, wire, write, pkt, ctxDone, sock>>
  BY DEF Handoff, compVars, sendVars
<1>2. pc'[Run] = "handle" /\ \A m \in Msgs : pc'[m] = pc[m]
  BY <1>1, <1>t, Types
<1>3. inbox \in Seq(Msgs) /\ inbox # << >>
  BY <1>1, <1>t, Types DEF Stages
<1>4. /\ \A i \in DOMAIN inbox : i = 1 \/ i - 1 \in DOMAIN inbox'
      /\ \A i \in DOMAIN inbox' : i + 1 \in DOMAIN inbox /\ inbox'[i] = inbox[i + 1]
      /\ 1 \in DOMAIN inbox /\ cur' = inbox[1]
  BY <1>1, <1>3
<1>5. Queued' \subseteq Queued /\ Queued \subseteq Queued' \cup {cur'} /\ cur' \in Queued
  <2>1. Queued' \subseteq Queued
    BY <1>4 DEF Queued
  <2>2. cur' \in Queued
    BY <1>4, <1>3 DEF Queued
  <2>3. ASSUME NEW m \in Queued PROVE m \in Queued' \cup {cur'}
    <3>1. PICK i \in DOMAIN inbox : inbox[i] = m
      BY DEF Queued
    <3>2. CASE i = 1
      BY <3>1, <3>2, <1>4
    <3>3. CASE i # 1
      <4>1. i - 1 \in DOMAIN inbox' /\ inbox'[i - 1] = m
        BY <3>1, <3>3, <1>3, <1>4
      <4> QED BY <4>1 DEF Queued
    <3> QED BY <3>2, <3>3
  <2> QED BY <2>1, <2>2, <2>3
<1>6. Ahead' = Ahead
  BY <1>1, <1>2, <1>5 DEF Ahead
<1>7. ASSUME NEW m \in Msgs PROVE WorkerOK(m)'
  <2>1. WorkerOK(m) /\ Sent' = Sent
    BY <1>1 DEF AnswerInv, Sent
  <2> QED BY <2>1, <1>1, <1>2, <1>6, WorkerFrame
<1> QED BY <1>1, <1>2, <1>5, <1>6, <1>7, Forward

\* A worker starts for a request that nobody has answered.
LEMMA RunAsyncKeeps ==
  ASSUME IndInv, AnswerInv, RunAsync
  PROVE  AnswerInv'
<1>t. TypeOK /\ Stages
  BY DEF IndInv
<1>1. /\ pc[Run] = "handle"
      /\ kind[cur] \in IoKinds /\ chain[cur] = None
      /\ pc' = [pc EXCEPT ![cur] = "acquire", ![Run] = "pop"]
      /\ UNCHANGED <<kind, chain, lastMsg, lastStatus, rsp, wire, write, inbox, cur, pkt,
                     ctxDone, sock>>
  BY DEF RunAsync, recvVars, compVars, sendVars
<1>2. cur \in Msgs /\ cur \notin Queued /\ cur \in Ahead
  BY <1>1, <1>t DEF Stages, Queued, Ahead
<1>3. /\ pc'[Run] = "pop" /\ pc'[cur] = "acquire"
      /\ \A m \in Msgs \ {cur} : pc'[m] = pc[m]
  BY <1>1, <1>2, <1>t, Types
<1>4. Queued' = Queued /\ Ahead' \subseteq Ahead /\ cur \notin Ahead' /\ Ahead \subseteq Ahead' \cup {cur}
  BY <1>1, <1>2, <1>3 DEF Queued, Ahead, IoKinds
<1>5. \A c \in Msgs : MembersIn(c, kind, chain) \cap Ahead \subseteq Ahead'
  BY <1>1, <1>4, <1>t, Types DEF MembersIn
<1>s. Sent' = Sent
  BY <1>1 DEF Sent
<1>6. WorkerOK(cur)'
  <2>1. cur \notin AnsweredIn(Sent)
    BY <1>2 DEF AnswerInv, SentOK
  <2> QED BY <2>1, <1>1, <1>3, <1>4, <1>s DEF WorkerOK, AsyncIn
<1>7. ASSUME NEW m \in Msgs \ {cur} PROVE WorkerOK(m)'
  <2>1. WorkerOK(m)
    BY DEF AnswerInv
  <2> QED BY <2>1, <1>1, <1>3, <1>4, <1>s, WorkerFrame
<1>8. \A m \in Msgs : WorkerOK(m)'
  BY <1>1, <1>6, <1>7
<1> QED BY <1>1, <1>3, <1>4, <1>5, <1>8, Forward

\* A worker that moves without a packet leaving it, all else as it was.
LEMMA WorkerMoves ==
  ASSUME IndInv, AnswerInv, NEW m \in Msgs, NEW x, NEW p,
         pc' = [pc EXCEPT ![m] = x], pkt' = [pkt EXCEPT ![m] = p],
         UNCHANGED <<kind, chain, lastMsg, lastStatus, rsp, wire, write, inbox, cur, ctxDone, sock>>,
         pc[m] # "idle",
         x \in {"put", "done"},
         x = "put" => \E st \in {"pending", "ok", "err"} : p = Reply(m, st),
         x = "put" => m \notin AnsweredIn(Sent),
         x = "put" /\ p # Reply(m, "pending") =>
           ctxDone \/ sock = "closed" \/ Announced(Sent, m, Len(Sent) + 1)
  PROVE  AnswerInv'
<1>t. TypeOK
  BY DEF IndInv
<1>1. /\ pc'[Run] = pc[Run] /\ pkt'[Run] = pkt[Run] /\ pc'[m] = x /\ pkt'[m] = p
      /\ \A n \in Msgs \ {m} : pc'[n] = pc[n] /\ pkt'[n] = pkt[n]
  BY <1>t, Types
<1>2. Queued' = Queued /\ Ahead' = Ahead /\ Sent' = Sent
  BY <1>1 DEF Queued, Ahead, Sent
<1>3. WorkerOK(m)'
  <2>1. AsyncIn(m, kind, chain) /\ m \notin Ahead
    BY DEF AnswerInv, WorkerOK
  <2> QED BY <2>1, <1>1, <1>2 DEF WorkerOK
<1>4. ASSUME NEW n \in Msgs \ {m} PROVE WorkerOK(n)'
  <2>1. WorkerOK(n)
    BY DEF AnswerInv
  <2> QED BY <2>1, <1>1, <1>2, WorkerFrame
<1>5. \A n \in Msgs : WorkerOK(n)'
  BY <1>3, <1>4
<1> QED BY <1>1, <1>2, <1>5, Forward

\* A worker takes its slot and makes its interim response.
LEMMA AcquireKeeps ==
  ASSUME IndInv, AnswerInv, NEW m \in Msgs, Acquire(m)
  PROVE  AnswerInv'
<1> DEFINE p == Reply(m, "pending")
<1>1. /\ pc[m] = "acquire"
      /\ pc' = [pc EXCEPT ![m] = "put"] /\ pkt' = [pkt EXCEPT ![m] = p]
      /\ UNCHANGED <<kind, chain, lastMsg, lastStatus, rsp, wire, write, inbox, cur, ctxDone, sock>>
  BY DEF Acquire, recvVars, compVars, sendVars, Reply
<1>2. m \notin AnsweredIn(Sent)
  <2>1. WorkerOK(m)
    BY DEF AnswerInv
  <2> QED BY <2>1, <1>1 DEF WorkerOK
<1> HIDE DEF p
<1>3. p = Reply(m, "pending")
  BY DEF p
<1> QED BY <1>1, <1>2, <1>3, WorkerMoves

\* sendPacket returns: Run goes on or ends, a worker goes on to its final response
\* or ends.
LEMMA ReturnKeeps ==
  ASSUME IndInv, AnswerInv, NEW c \in Callers, NEW failed \in BOOLEAN, Return(c, failed),
         pc[c] = "wait" \/ (pc[c] = "put" /\ ctxDone),
         UNCHANGED <<kind, chain, lastMsg, lastStatus, rsp, wire, write, inbox, cur, ctxDone>>
  PROVE  AnswerInv'
<1>t. TypeOK /\ Stages
  BY DEF IndInv
<1>1. CASE c = Run
  <2>1. PICK x \in {"pop", "done"} : pc' = [pc EXCEPT ![Run] = x]
    BY <1>1 DEF Return
  <2>2. /\ pkt' = [pkt EXCEPT ![Run] = << >>]
        /\ sock = "closed" => sock' = "closed"
    BY <1>1 DEF Return
  <2>3. pc'[Run] = x /\ \A m \in Msgs : pc'[m] = pc[m] /\ pkt'[m] = pkt[m]
    BY <2>1, <2>2, <1>t, Types
  <2>4. Queued' = Queued /\ Ahead' = Ahead /\ Sent' = Sent
    BY <2>3, <1>1 DEF Queued, Ahead, Sent
  <2>5. ASSUME NEW m \in Msgs PROVE WorkerOK(m)'
    <3>1. WorkerOK(m)
      BY DEF AnswerInv
    <3> QED BY <3>1, <2>2, <2>3, <2>4, WorkerFrame
  <2> QED BY <2>2, <2>3, <2>4, <2>5, Forward
<1>2. CASE c # Run
  <2>0. c \in Msgs
    BY <1>2 DEF Callers
  <2>1. WorkerOK(c)
    BY <2>0 DEF AnswerInv
  <2>2. CASE Interim(c)
    <3>1. pkt[c] = Reply(c, "pending")
      BY <2>2 DEF Interim, Reply
    <3>2. PICK st \in {"ok", "err"} : pkt' = [pkt EXCEPT ![c] = Reply(c, st)]
      BY <1>2, <2>2 DEF Return, Reply
    <3>3. pc' = [pc EXCEPT ![c] = "put"] /\ sock' = sock
      BY <1>2, <2>2 DEF Return
    <3>4. c \notin AnsweredIn(Sent)
      BY <2>1, <3>1 DEF WorkerOK
    <3>5. ctxDone \/ sock = "closed" \/ Announced(Sent, c, Len(Sent) + 1)
      BY <2>1, <3>1 DEF WorkerOK
    <3> DEFINE p == Reply(c, st)
    <3>6. p = Reply(c, st) /\ pkt' = [pkt EXCEPT ![c] = p]
      BY <3>2
    <3> HIDE DEF p
    <3> QED BY <2>0, <3>3, <3>4, <3>5, <3>6, WorkerMoves
  <2>3. CASE ~Interim(c)
    <3>1. /\ pc' = [pc EXCEPT ![c] = "done"] /\ sock' = sock
          /\ pkt' = [pkt EXCEPT ![c] = << >>]
      BY <1>2, <2>3 DEF Return
    <3> QED BY <2>0, <3>1, WorkerMoves
  <2> QED BY <2>2, <2>3
<1> QED BY <1>1, <1>2
-----------------------------------------------------------------------------
(* Packets on their way.                                                   *)

\* What a worker's packet answers.
LEMMA ReplyFinals ==
  ASSUME NEW m \in Msgs, NEW st \in {"pending", "ok", "err"}
  PROVE  /\ Finals(Reply(m, st)) = (IF st = "pending" THEN {} ELSE {m})
         /\ \A n, s : Reply(m, st) = Reply(n, s) => n = m /\ s = st
  BY DEF Finals, Reply

\* What a packet of Run answers.
LEMMA RunFinals ==
  ASSUME NEW p \in Seq(Responses), NEW K, NEW C, RunPacket(p, K, C)
  PROVE  /\ Finals(p) = MsgsOf(p)
         /\ \A m \in MsgsOf(p) : m \in Msgs /\ ~AsyncIn(m, K, C)
<1>1. \A a \in DOMAIN p : p[a].msg \in Msgs /\ p[a].st \in {"ok", "err"}
                          /\ ~AsyncIn(p[a].msg, K, C)
  <2>1. \A a \in DOMAIN p : p[a] \in Responses
    OBVIOUS
  <2> QED BY <2>1 DEF RunPacket, Responses
<1> QED BY <1>1 DEF Finals, MsgsOf

\* T is S with packet p behind.
Extended(S, p, T) ==
  /\ DOMAIN T = DOMAIN S \cup {Len(S) + 1} /\ Len(S) + 1 \notin DOMAIN S
  /\ DOMAIN S = 1..Len(S) /\ Len(S) \in Nat /\ Len(T) = Len(S) + 1
  /\ T[Len(S) + 1] = p /\ \A i \in DOMAIN S : T[i] = S[i]
  /\ AnsweredIn(T) = AnsweredIn(S) \cup Finals(p)
  /\ \A m, i : Announced(S, m, i) => Announced(T, m, i)

\* What a packet put behind others adds to them.
LEMMA Appended ==
  ASSUME NEW S \in Seq(Seq(Responses)), NEW p \in Seq(Responses), NEW T, T = Append(S, p)
  PROVE  Extended(S, p, T)
<1>1. /\ DOMAIN T = DOMAIN S \cup {Len(S) + 1} /\ Len(S) + 1 \notin DOMAIN S
      /\ DOMAIN S = 1..Len(S) /\ Len(S) \in Nat /\ Len(T) = Len(S) + 1
      /\ T[Len(S) + 1] = p /\ \A i \in DOMAIN S : T[i] = S[i]
  OBVIOUS
<1>2. AnsweredIn(T) = AnsweredIn(S) \cup Finals(p)
  <2>1. \A m \in Msgs : m \in AnsweredIn(T) <=> (m \in AnsweredIn(S) \/ m \in Finals(p))
    BY <1>1 DEF AnsweredIn
  <2>2. AnsweredIn(T) \subseteq Msgs /\ AnsweredIn(S) \subseteq Msgs /\ Finals(p) \subseteq Msgs
    BY DEF AnsweredIn, Finals
  <2> QED BY <2>1, <2>2
<1>3. \A m, i : Announced(S, m, i) => Announced(T, m, i)
  BY <1>1 DEF Announced
<1> QED BY <1>1, <1>2, <1>3 DEF Extended

\* A caller's packet on the write channel is the last one on its way.
LEMMA PutKeeps ==
  ASSUME IndInv, AnswerInv, NEW c \in Callers, Put(c)
  PROVE  AnswerInv'
<1> DEFINE p == pkt[c]
           n == Len(Sent)
<1>t. TypeOK
  BY DEF IndInv
<1>y. /\ wire \in Seq(Seq(Responses)) /\ write \in Seq(Seq(Responses)) /\ p \in Seq(Responses)
      /\ Sent \in Seq(Seq(Responses)) /\ n = Len(wire) + Len(write)
      /\ Len(wire) \in Nat /\ Len(write) \in Nat
  BY <1>t, Types
<1>1. /\ pc[c] = "put" /\ pc' = [pc EXCEPT ![c] = "wait"]
      /\ write' = Append(write, p)
      /\ UNCHANGED <<kind, chain, lastMsg, lastStatus, rsp, wire, inbox, cur, pkt, ctxDone, sock>>
  BY DEF Put, recvVars, compVars, sendVars
<1>2. pc'[c] = "wait" /\ \A d \in Callers \ {c} : pc'[d] = pc[d]
  BY <1>1, <1>t, Types
<1>3. Sent' = Append(Sent, p)
  BY <1>1, <1>y DEF Sent
<1>4. /\ DOMAIN Sent' = DOMAIN Sent \cup {n + 1} /\ n + 1 \notin DOMAIN Sent
      /\ DOMAIN Sent = 1..n /\ n \in Nat /\ Len(Sent') = n + 1
      /\ Sent'[n + 1] = p /\ \A i \in DOMAIN Sent : Sent'[i] = Sent[i]
      /\ AnsweredIn(Sent') = AnsweredIn(Sent) \cup Finals(p)
      /\ \A m, i : Announced(Sent, m, i) => Announced(Sent', m, i)
  <2>1. Extended(Sent, p, Sent')
    BY <1>3, <1>y, Appended
  <2> QED BY <2>1 DEF Extended
<1>5. Queued' = Queued /\ Ahead' = Ahead
  BY <1>1, <1>2 DEF Queued, Ahead, Callers
<1>6. \/ /\ c = Run /\ RunPacket(p, kind, chain) /\ Finals(p) = MsgsOf(p)
         /\ \A m \in Finals(p) : ~AsyncIn(m, kind, chain)
      \/ /\ c \in Msgs /\ c # Run /\ AsyncIn(c, kind, chain) /\ c \notin Ahead
         /\ \E st \in {"pending", "ok", "err"} :
              p = Reply(c, st) /\ Finals(p) = (IF st = "pending" THEN {} ELSE {c})
  <2>1. CASE c = Run
    <3>1. RunPacket(p, kind, chain)
      BY <2>1, <1>1 DEF AnswerInv, RunOK
    <3> QED BY <2>1, <3>1, <1>y, RunFinals
  <2>2. CASE c # Run
    <3>1. c \in Msgs
      BY <2>2 DEF Callers
    <3>2. AsyncIn(c, kind, chain) /\ c \notin Ahead
          /\ \E st \in {"pending", "ok", "err"} : p = Reply(c, st)
      BY <3>1, <1>1 DEF AnswerInv, WorkerOK
    <3> QED BY <2>2, <3>1, <3>2, ReplyFinals
  <2> QED BY <2>1, <2>2
<1>7. Finals(p) \cap AnsweredIn(Sent) = {} /\ Finals(p) \cap Ahead = {}
  <2>1. CASE c = Run
    BY <2>1, <1>1, <1>6, ConnAssumption DEF AnswerInv, RunOK
  <2>2. CASE c # Run
    <3>1. WorkerOK(c) /\ c \in Msgs
      BY <2>2, <1>6 DEF AnswerInv
    <3>2. c \notin AnsweredIn(Sent)
      BY <2>2, <3>1, <1>1, <1>6 DEF WorkerOK
    <3> QED BY <2>2, <3>2, <1>6
  <2> QED BY <2>1, <2>2
<1>8. ChainsKnown'
  BY <1>1 DEF AnswerInv, ChainsKnown
<1>9. ASSUME NEW m \in Msgs PROVE WorkerOK(m)'
  <2>0. WorkerOK(m)
    BY DEF AnswerInv
  <2>1. CASE m = c
    <3>0. c # Run
      BY <2>1, ConnAssumption
    <3>1. PICK st \in {"pending", "ok", "err"} :
            p = Reply(c, st) /\ Finals(p) = (IF st = "pending" THEN {} ELSE {c})
      BY <3>0, <1>6
    <3>2. st = "pending" => m \notin AnsweredIn(Sent')
      BY <2>0, <2>1, <3>1, <1>1, <1>4, <1>6, <3>0 DEF WorkerOK
    <3>3. st # "pending" => pkt[m] # Reply(m, "pending")
      BY <2>1, <3>1, ReplyFinals
    <3>4. st = "pending" => Announced(Sent', m, Len(Sent') + 1)
      BY <2>1, <3>1, <1>4 DEF Announced
    <3> QED BY <2>0, <2>1, <3>0, <3>1, <3>2, <3>3, <3>4, <1>1, <1>2, <1>5, <1>6 DEF WorkerOK
  <2>2. CASE m # c
    <3>1. pc'[m] = pc[m] /\ pkt'[m] = pkt[m]
      BY <2>2, <1>1, <1>2 DEF Callers
    <3>2. AsyncIn(m, kind, chain) /\ m \in AnsweredIn(Sent') => m \in AnsweredIn(Sent)
      BY <2>2, <1>4, <1>6
    <3>3. Announced(Sent, m, n + 1) => Announced(Sent', m, Len(Sent') + 1)
      BY <1>4 DEF Announced
    <3> QED BY <2>0, <3>1, <3>2, <3>3, <1>1, <1>5 DEF WorkerOK
  <2> QED BY <2>1, <2>2
<1>10. RunOK'
  <2>1. CASE c = Run
    BY <2>1, <1>2 DEF RunOK
  <2>2. CASE c # Run
    <3> SUFFICES ASSUME pc'[Run] = "put" PROVE RunOK'
      BY DEF RunOK
    <3>1. pc[Run] = "put"
      BY <2>2, <1>2 DEF Callers
    <3>2. /\ RunPacket(pkt[Run], kind, chain)
          /\ MsgsOf(pkt[Run]) \cap Ahead = {}
          /\ MsgsOf(pkt[Run]) \cap AnsweredIn(Sent) = {}
      BY <3>1 DEF AnswerInv, RunOK
    <3>3. \A m \in MsgsOf(pkt[Run]) : ~AsyncIn(m, kind, chain)
      BY <3>2, <1>t, Types, RunFinals
    <3>4. MsgsOf(pkt[Run]) \cap AnsweredIn(Sent') = {}
      BY <2>2, <3>2, <3>3, <1>4, <1>6
    <3> QED BY <3>2, <3>4, <1>1, <1>5 DEF RunOK
  <2> QED BY <2>1, <2>2
<1>11. SentOK'
  <2>0. SentOK
    BY DEF AnswerInv
  <2>1. ASSUME NEW i \in DOMAIN Sent'
        PROVE  \/ RunPacket(Sent'[i], kind, chain)
               \/ \E m \in Msgs, st \in {"pending", "ok", "err"} :
                    AsyncIn(m, kind, chain) /\ Sent'[i] = Reply(m, st)
    <3>1. CASE i \in DOMAIN Sent
      BY <3>1, <2>0, <1>4 DEF SentOK
    <3>2. CASE i = n + 1
      BY <3>2, <1>4, <1>6
    <3> QED BY <3>1, <3>2, <1>4
  <2>2. ASSUME NEW i \in DOMAIN Sent', NEW j \in DOMAIN Sent', i # j
        PROVE  Finals(Sent'[i]) \cap Finals(Sent'[j]) = {}
    <3>1. \A k \in DOMAIN Sent : Finals(Sent[k]) \subseteq AnsweredIn(Sent)
      BY DEF AnsweredIn, Finals
    <3>2. CASE i \in DOMAIN Sent /\ j \in DOMAIN Sent
      BY <3>2, <2>2, <2>0, <1>4 DEF SentOK
    <3>3. CASE i = n + 1 /\ j \in DOMAIN Sent
      BY <3>3, <3>1, <1>4, <1>7
    <3>4. CASE j = n + 1 /\ i \in DOMAIN Sent
      BY <3>4, <3>1, <1>4, <1>7
    <3> QED BY <2>2, <3>2, <3>3, <3>4, <1>4
  <2>3. AnsweredIn(Sent') \cap Ahead' = {}
    BY <2>0, <1>4, <1>5, <1>7 DEF SentOK
  <2>4. ASSUME NEW m \in Msgs, NEW i \in DOMAIN Sent', AsyncIn(m, kind, chain), m \in Finals(Sent'[i])
        PROVE  ctxDone \/ (i > Len(wire) /\ sock = "closed") \/ Announced(Sent', m, i)
    <3>1. CASE i \in DOMAIN Sent
      BY <3>1, <2>0, <2>4, <1>4 DEF SentOK
    <3>2. CASE i = n + 1
      <4>1. m \in Finals(p) /\ c # Run /\ c = m
        BY <3>2, <2>4, <1>4, <1>6
      <4>2. p # Reply(m, "pending")
        BY <4>1, ReplyFinals
      <4>3. WorkerOK(m)
        BY DEF AnswerInv
      <4>4. ctxDone \/ sock = "closed" \/ Announced(Sent, m, n + 1)
        BY <4>1, <4>2, <4>3, <1>1 DEF WorkerOK
      <4>5. i > Len(wire)
        BY <3>2, <1>y
      <4> QED BY <3>2, <4>4, <4>5, <1>4
    <3> QED BY <3>1, <3>2, <1>4
  <2>5. ASSUME NEW m \in Msgs, NEW i \in DOMAIN Sent', NEW j \in DOMAIN Sent',
               m \in Finals(Sent'[i]), Sent'[j] = Reply(m, "pending")
        PROVE  j < i
    <3>1. CASE i \in DOMAIN Sent /\ j \in DOMAIN Sent
      BY <3>1, <2>0, <2>5, <1>4 DEF SentOK, InOrder
    <3>2. CASE i = n + 1 /\ j \in DOMAIN Sent
      BY <3>2, <1>4
    <3>3. CASE j = n + 1
      <4>1. p = Reply(m, "pending")
        BY <3>3, <2>5, <1>4
      <4>2. c # Run
        <5> SUFFICES ASSUME c = Run PROVE FALSE
          OBVIOUS
        <5>1. RunPacket(p, kind, chain)
          BY <1>6
        <5>2. 1 \in DOMAIN p /\ p[1].st = "pending"
          BY <4>1 DEF Reply
        <5> QED BY <5>1, <5>2 DEF RunPacket
      <4>3. c = m /\ AsyncIn(m, kind, chain) /\ Finals(p) = {}
        BY <4>1, <4>2, <1>6, ReplyFinals
      <4>4. m \notin AnsweredIn(Sent)
        BY <4>1, <4>3, <1>1 DEF AnswerInv, WorkerOK
      <4>5. m \notin AnsweredIn(Sent')
        BY <4>3, <4>4, <1>4
      <4> QED BY <4>5, <2>5 DEF AnsweredIn
    <3> QED BY <3>1, <3>2, <3>3, <1>4
  <2>6. InOrder(Sent')
    BY <2>5 DEF InOrder
  <2> QED BY <2>1, <2>2, <2>3, <2>4, <2>6, <1>1 DEF SentOK
<1>12. ASSUME NEW d \in Msgs PROVE RspOK(d)' /\ CompoundOK(d)'
  <2>0. RspOK(d) /\ CompoundOK(d) /\ d # None
    BY ConnAssumption DEF AnswerInv
  <2>1. RspOK(d)'
    BY <2>0, <1>1, <1>5 DEF RspOK
  <2>2. \A m \in MsgsOf(rsp[d]) : chain[m] = d
    BY <2>0 DEF RspOK, MsgsOf
  <2>3. MsgsOf(rsp[d]) \cap AnsweredIn(Sent) = {} /\ (pc[Run] = "put" => MsgsOf(rsp[d]) \cap MsgsOf(pkt[Run]) = {})
        => MsgsOf(rsp[d]) \cap AnsweredIn(Sent') = {}
    BY <2>0, <2>2, <1>1, <1>4, <1>6 DEF AsyncIn
  <2>4. pc'[Run] = "put" => pc[Run] = "put"
    BY <1>2, <1>1, <1>t, Types
  <2>5. CompoundOK(d)'
    BY <2>0, <2>3, <2>4, <1>1, <1>5 DEF CompoundOK
  <2> QED BY <2>1, <2>5
<1> QED BY <1>8, <1>9, <1>10, <1>11, <1>12 DEF AnswerInv

\* v is what is left of u when it loses the element at position n + 1.
Old(n, i) == IF i <= n THEN i ELSE i + 1
Shortened(n, u, v) ==
  /\ \A i \in DOMAIN v : Old(n, i) \in DOMAIN u /\ v[i] = u[Old(n, i)]
  /\ \A i \in 1..n : i \in DOMAIN v /\ v[i] = u[i]
  /\ \A i, j \in DOMAIN v : i # j => Old(n, i) # Old(n, j)
  /\ \A i \in DOMAIN v : i \in Nat /\ i > 0
  /\ \A i \in DOMAIN u : i \in Nat /\ i > 0

\* Two channels in a row.
LEMMA Concatenated ==
  ASSUME NEW S, NEW s \in Seq(S), NEW t \in Seq(S), NEW u, u = s \o t
  PROVE  /\ DOMAIN u = 1..(Len(s) + Len(t))
         /\ \A i \in DOMAIN u : u[i] = IF i <= Len(s) THEN s[i] ELSE t[i - Len(s)]
  OBVIOUS

\* Of two channels in a row the second one loses its first element.
LEMMA Dropped ==
  ASSUME NEW S, NEW s \in Seq(S), NEW t \in Seq(S), t # << >>,
         NEW u, u = s \o t, NEW v, v = s \o Tail(t)
  PROVE  Shortened(Len(s), u, v)
<1> DEFINE r == Tail(t)
<1>1. r \in Seq(S) /\ Len(r) = Len(t) - 1 /\ Len(t) \in Nat /\ Len(s) \in Nat /\ Len(r) \in Nat
      /\ \A i \in 1..Len(r) : r[i] = t[i + 1]
  OBVIOUS
<1>2. v = s \o r
  OBVIOUS
<1> HIDE DEF r
<1>3. /\ DOMAIN v = 1..(Len(s) + Len(r))
      /\ \A i \in DOMAIN v : v[i] = IF i <= Len(s) THEN s[i] ELSE r[i - Len(s)]
  <2>1. r \in Seq(S)
    BY <1>1
  <2> QED BY <1>2, <2>1, Concatenated, Zenon
<1>4. /\ DOMAIN u = 1..(Len(s) + Len(t))
      /\ \A i \in DOMAIN u : u[i] = IF i <= Len(s) THEN s[i] ELSE t[i - Len(s)]
  BY Concatenated
<1>5. ASSUME NEW i \in DOMAIN v, i <= Len(s) PROVE i \in DOMAIN u /\ v[i] = u[i]
  BY <1>1, <1>3, <1>4, <1>5
<1>6. ASSUME NEW i \in DOMAIN v, ~(i <= Len(s)) PROVE i + 1 \in DOMAIN u /\ v[i] = u[i + 1]
  <2>1. /\ i \in Nat /\ i - Len(s) \in 1..Len(r) /\ i + 1 \in DOMAIN u /\ ~(i + 1 <= Len(s))
        /\ (i - Len(s)) + 1 = (i + 1) - Len(s)
    BY <1>1, <1>3, <1>4, <1>6
  <2>2. v[i] = t[(i - Len(s)) + 1]
    BY <2>1, <1>1, <1>3, <1>6
  <2>3. u[i + 1] = t[(i + 1) - Len(s)]
    BY <2>1, <1>4
  <2> QED BY <2>1, <2>2, <2>3
<1>7. \A i \in 1..Len(s) : i \in DOMAIN v /\ v[i] = u[i]
  BY <1>1, <1>3, <1>4
<1>8. /\ \A i \in DOMAIN v : i \in Nat /\ i > 0
      /\ \A i \in DOMAIN u : i \in Nat /\ i > 0
  BY <1>1, <1>3, <1>4
<1>9. \A i, j \in DOMAIN v : i # j => Old(Len(s), i) # Old(Len(s), j)
  BY <1>1, <1>8 DEF Old
<1>10. \A i \in DOMAIN v : Old(Len(s), i) \in DOMAIN u /\ v[i] = u[Old(Len(s), i)]
  BY <1>5, <1>6 DEF Old
<1> QED BY <1>7, <1>8, <1>9, <1>10 DEF Shortened

\* The sender writes the first packet of the channel, or loses it and with it the
\* connection.
LEMMA SenderWriteKeeps ==
  ASSUME IndInv, AnswerInv, SenderWrite
  PROVE  AnswerInv'
<1>t. TypeOK
  BY DEF IndInv
<1>y. /\ wire \in Seq(Seq(Responses)) /\ write \in Seq(Seq(Responses)) /\ write # << >>
      /\ Sent \in Seq(Seq(Responses)) /\ Len(Sent) = Len(wire) + Len(write)
      /\ Len(wire) \in Nat /\ Len(write) \in Nat
  BY <1>t, Types DEF SenderWrite
<1>1. /\ write' = Tail(write)
      /\ UNCHANGED <<kind, chain, lastMsg, lastStatus, rsp, inbox, cur, pc, pkt, ctxDone>>
  BY DEF SenderWrite, recvVars, compVars, callVars
<1>2. Queued' = Queued /\ Ahead' = Ahead
  BY <1>1 DEF Queued, Ahead
<1>3. ChainsKnown' /\ \A c \in Msgs : RspOK(c)'
  BY <1>1, <1>2 DEF AnswerInv, ChainsKnown, RspOK
<1>4. CASE sock # "closed" /\ sock' = sock /\ wire' = Append(wire, Head(write))
  <2>1. Sent' = Sent /\ Len(wire') = Len(wire) + 1
    BY <1>1, <1>4, <1>y DEF Sent
  <2>2. ASSUME NEW m \in Msgs PROVE WorkerOK(m)'
    <3>1. WorkerOK(m)
      BY DEF AnswerInv
    <3> QED BY <3>1, <2>1, <1>1, <1>2, <1>4, WorkerFrame
  <2>3. RunOK'
    BY <2>1, <1>1, <1>2 DEF AnswerInv, RunOK
  <2>4. SentOK'
    BY <2>1, <1>1, <1>2, <1>4 DEF AnswerInv, SentOK
  <2>5. \A c \in Msgs : CompoundOK(c)'
    BY <2>1, <1>1, <1>2 DEF AnswerInv, CompoundOK
  <2> QED BY <2>2, <2>3, <2>4, <2>5, <1>3 DEF AnswerInv
<1>5. CASE sock' = "closed" /\ wire' = wire
  <2> DEFINE n == Len(wire)
  <2>1. /\ \A i \in DOMAIN Sent' : Old(n, i) \in DOMAIN Sent /\ Sent'[i] = Sent[Old(n, i)]
        /\ \A i \in 1..n : i \in DOMAIN Sent' /\ Sent'[i] = Sent[i]
        /\ \A i, j \in DOMAIN Sent' : i # j => Old(n, i) # Old(n, j)
        /\ \A i \in DOMAIN Sent' : i \in Nat /\ i > 0
        /\ \A i \in DOMAIN Sent : i \in Nat /\ i > 0
    <3>1. Sent = wire \o write /\ Sent' = wire \o Tail(write)
      BY <1>1, <1>5 DEF Sent
    <3>2. Shortened(n, Sent, Sent')
      BY <3>1, <1>y, Dropped
    <3> QED BY <3>2 DEF Shortened
  <2>2. AnsweredIn(Sent') \subseteq AnsweredIn(Sent)
    BY <2>1 DEF AnsweredIn
  <2>3. ASSUME NEW m \in Msgs PROVE WorkerOK(m)'
    <3>1. WorkerOK(m)
      BY DEF AnswerInv
    <3> QED BY <3>1, <2>2, <1>1, <1>2, <1>5 DEF WorkerOK
  <2>4. RunOK'
    BY <2>2, <1>1, <1>2 DEF AnswerInv, RunOK
  <2>5. SentOK'
    <3>0. SentOK
      BY DEF AnswerInv
    <3>1. ASSUME NEW m \in Msgs, NEW i \in DOMAIN Sent', AsyncIn(m, kind, chain), m \in Finals(Sent'[i])
          PROVE  ctxDone \/ i > Len(wire) \/ Announced(Sent', m, i)
      <4> SUFFICES ASSUME ~(i > Len(wire)), ~ctxDone PROVE Announced(Sent', m, i)
        OBVIOUS
      <4>1. i \in 1..Len(wire)
        BY <2>1, <1>y
      <4>2. i \in DOMAIN Sent /\ Sent'[i] = Sent[i]
        BY <4>1, <2>1, <1>y DEF Old
      <4>3. Announced(Sent, m, i)
        BY <4>2, <3>0, <3>1 DEF SentOK
      <4>4. PICK j \in DOMAIN Sent : j < i /\ Sent[j] = Reply(m, "pending")
        BY <4>3 DEF Announced
      <4>5. j \in 1..Len(wire)
        BY <4>1, <4>4, <2>1, <1>y
      <4> QED BY <4>4, <4>5, <2>1 DEF Announced
    <3>2. \A i \in DOMAIN Sent' :
            \/ RunPacket(Sent'[i], kind, chain)
            \/ \E m \in Msgs, st \in {"pending", "ok", "err"} :
                 AsyncIn(m, kind, chain) /\ Sent'[i] = Reply(m, st)
      BY <3>0, <2>1 DEF SentOK
    <3>3. \A i, j \in DOMAIN Sent' : i # j => Finals(Sent'[i]) \cap Finals(Sent'[j]) = {}
      BY <3>0, <2>1 DEF SentOK
    <3>4. AnsweredIn(Sent') \cap Ahead' = {}
      BY <3>0, <2>2, <1>2 DEF SentOK
    <3>5. ASSUME NEW m \in Msgs, NEW i \in DOMAIN Sent', NEW j \in DOMAIN Sent',
                 m \in Finals(Sent'[i]), Sent'[j] = Reply(m, "pending")
          PROVE  j < i
      <4>1. Old(n, j) < Old(n, i)
        BY <3>0, <3>5, <2>1 DEF SentOK, InOrder
      <4>2. i \in Nat /\ j \in Nat
        BY <2>1
      <4> QED BY <4>1, <4>2, <1>y DEF Old
    <3>6. InOrder(Sent')
      BY <3>5 DEF InOrder
    <3> QED BY <3>1, <3>2, <3>3, <3>4, <3>6, <1>1, <1>5 DEF SentOK
  <2>6. \A c \in Msgs : CompoundOK(c)'
    BY <2>2, <1>1, <1>2 DEF AnswerInv, CompoundOK
  <2> QED BY <2>3, <2>4, <2>5, <2>6, <1>3 DEF AnswerInv
<1> QED BY <1>4, <1>5 DEF SenderWrite
-----------------------------------------------------------------------------
(* The receiver.                                                           *)

\* The receiver comes to know which request is the last of a compound, before
\* Run can have it.
LEMMA ReceiverParseKeeps ==
  ASSUME IndInv, AnswerInv, ReceiverParse
  PROVE  AnswerInv'
<1> DEFINE m == Head(inbox)
<1>t. TypeOK /\ Stages
  BY DEF IndInv
<1>1. /\ recvPc = "parse"
      /\ lastMsg' = (IF chain[m] # None /\ Len(inbox) = 1
                     THEN [lastMsg EXCEPT ![chain[m]] = m] ELSE lastMsg)
      /\ UNCHANGED <<kind, chain, lastStatus, rsp, wire, write, inbox, cur, pc, pkt, ctxDone, sock>>
  BY DEF ReceiverParse, callVars, sendVars
<1>2. Queued' = Queued /\ Ahead' = Ahead /\ Sent' = Sent
  BY <1>1 DEF Queued, Ahead, Sent
<1>3. CASE chain[m] # None /\ Len(inbox) = 1
  <2>1. inbox \in Seq(Msgs) /\ inbox # << >>
    BY <1>1, <1>t, Types DEF Stages
  <2>2. m \in Msgs /\ chain[m] \in Msgs /\ \A i \in DOMAIN inbox : inbox[i] = m
    BY <2>1, <1>3, <1>t, Types
  <2>3. m \in Queued /\ (\A x \in Queued : x = m) /\ m \in Ahead
    BY <2>1, <2>2 DEF Queued, Ahead
  <2>4. PICK n \in Msgs, c \in Msgs : n = m /\ c = chain[n]
    BY <2>2
  <2> HIDE DEF m
  <2>5. lastMsg'[c] = n /\ \A d \in Msgs \ {c} : lastMsg'[d] = lastMsg[d]
    BY <2>4, <1>1, <1>3, <1>t, Types
  <2>6. ChainsKnown'
    BY <2>4, <2>5, <1>1, <1>3 DEF AnswerInv, ChainsKnown
  <2>7. (\A x \in Msgs : WorkerOK(x)') /\ RunOK' /\ SentOK'
    BY <1>1, <1>2 DEF AnswerInv, WorkerOK, RunOK, SentOK
  <2>8. \A d \in Msgs : RspOK(d)'
    BY <1>1, <1>2 DEF AnswerInv, RspOK
  <2>9. ASSUME NEW d \in Msgs PROVE CompoundOK(d)'
    <3>1. CompoundOK(d) /\ RspOK(d)
      BY DEF AnswerInv
    <3>2. CASE d # c
      BY <3>1, <3>2, <2>5, <1>1, <1>2 DEF CompoundOK
    <3>3. CASE d = c
      <4>1. n \notin MsgsOf(rsp[c])
        BY <3>1, <3>3, <2>3, <2>4 DEF RspOK
      <4>2. ~(lastMsg[c] # None /\ lastMsg[c] \in MsgsOf(rsp[c]))
        BY <3>1, <3>3, <2>3, <2>4 DEF CompoundOK
      <4> QED BY <3>1, <3>3, <4>1, <4>2, <2>3, <2>4, <2>5, <1>1, <1>2 DEF CompoundOK
    <3> QED BY <3>2, <3>3
  <2> QED BY <2>6, <2>7, <2>8, <2>9 DEF AnswerInv
<1>4. CASE ~(chain[m] # None /\ Len(inbox) = 1)
  <2>1. lastMsg' = lastMsg
    BY <1>1, <1>4
  <2> QED BY <2>1, <1>1, Quiet
<1> QED BY <1>3, <1>4

\* What a transport packet adds: requests N nobody knew, in a compound of their
\* own, after the first one, h, if there are several.
Arrives(N, h) ==
  /\ N \subseteq Msgs /\ h \in N
  /\ \A m \in N : kind[m] = "none" /\ kind'[m] # "none" /\ chain'[m] \in {chain[m], h}
  /\ \A m \in Msgs \ N : kind'[m] = kind[m] /\ chain'[m] = chain[m]
  /\ Queued = {} /\ Queued' = N

\* The receiver reads such a packet.
LEMMA ReadFacts ==
  ASSUME IndInv, ReceiverRead
  PROVE  \E N, h : Arrives(N, h)
<1>t. TypeOK /\ Stages
  BY DEF IndInv
<1>1. PICK q \in Chains({m \in Msgs : kind[m] = "none"}) :
        \E ks \in [DOMAIN q -> Kinds] :
          /\ inbox' = q
          /\ kind' = [m \in Msgs |-> IF \E i \in DOMAIN q : q[i] = m
                                     THEN ks[CHOOSE i \in DOMAIN q : q[i] = m]
                                     ELSE kind[m]]
          /\ chain' = [m \in Msgs |-> IF Len(q) > 1 /\ (\E i \in DOMAIN q : q[i] = m)
                                      THEN q[1] ELSE chain[m]]
  BY DEF ReceiverRead
<1>2. PICK ks \in [DOMAIN q -> Kinds] :
        /\ inbox' = q
        /\ kind' = [m \in Msgs |-> IF \E i \in DOMAIN q : q[i] = m
                                   THEN ks[CHOOSE i \in DOMAIN q : q[i] = m]
                                   ELSE kind[m]]
        /\ chain' = [m \in Msgs |-> IF Len(q) > 1 /\ (\E i \in DOMAIN q : q[i] = m)
                                    THEN q[1] ELSE chain[m]]
  BY <1>1
<1>3. PICK n \in 1..MaxChain : q \in [1..n -> {m \in Msgs : kind[m] = "none"}]
  BY DEF Chains
<1>4. DOMAIN q = 1..n /\ 1 \in DOMAIN q /\ \A i \in DOMAIN q : q[i] \in Msgs /\ kind[q[i]] = "none"
  BY <1>3
<1> DEFINE new == {m \in Msgs : \E i \in DOMAIN q : q[i] = m}
<1>5. new \subseteq Msgs /\ q[1] \in new /\ \A m \in new : kind[m] = "none"
  BY <1>4
<1>6. "none" \notin Kinds
  BY ConnAssumption DEF AllKinds
<1>7. ASSUME NEW m \in new PROVE kind'[m] # "none" /\ chain'[m] \in {chain[m], q[1]}
  <2>1. \E i \in DOMAIN q : q[i] = m
    OBVIOUS
  <2>2. (CHOOSE i \in DOMAIN q : q[i] = m) \in DOMAIN q
    BY <2>1
  <2>3. kind'[m] = ks[CHOOSE i \in DOMAIN q : q[i] = m]
    BY <2>1, <1>2
  <2>4. kind'[m] \in Kinds
    BY <2>2, <2>3
  <2>5. chain'[m] \in {chain[m], q[1]}
    BY <1>2
  <2> QED BY <2>4, <2>5, <1>6
<1>8. ASSUME NEW m \in Msgs \ new PROVE kind'[m] = kind[m] /\ chain'[m] = chain[m]
  <2>1. ~\E i \in DOMAIN q : q[i] = m
    OBVIOUS
  <2> QED BY <2>1, <1>2
<1>9. Queued' = new
  BY <1>2 DEF Queued
<1>10. inbox = << >>
  BY <1>t DEF ReceiverRead, Stages
<1>11. Queued = {}
  BY <1>10 DEF Queued
<1>12. Arrives(new, q[1])
  BY <1>5, <1>7, <1>8, <1>9, <1>11 DEF Arrives
<1> QED BY <1>12

\* What was known of a request and its compound stays as it is.
LEMMA KnownStay ==
  ASSUME IndInv, AnswerInv, NEW N, NEW h, Arrives(N, h)
  PROVE  /\ \A m \in Msgs : kind[m] # "none" => m \notin N /\ kind'[m] = kind[m] /\ chain'[m] = chain[m]
         /\ \A m \in N : chain'[m] \in {None, h}
         /\ \A m \in Msgs : chain[m] # None => chain[m] # h
         /\ lastMsg[h] = None
         /\ \A c \in Msgs \ {h} : MembersIn(c, kind', chain') = MembersIn(c, kind, chain)
         /\ MembersIn(h, kind', chain') \subseteq N
<1>1. \A m \in Msgs : kind[m] # "none" => m \notin N /\ kind'[m] = kind[m] /\ chain'[m] = chain[m]
  BY DEF Arrives
<1>2. \A m \in N : chain'[m] \in {None, h} /\ chain[m] = None
  BY DEF Arrives, AnswerInv, ChainsKnown
<1>3. (\A m \in Msgs : chain[m] # None => chain[m] # h) /\ lastMsg[h] = None
  BY DEF Arrives, AnswerInv, ChainsKnown
<1>4. ASSUME NEW c \in Msgs \ {h} PROVE MembersIn(c, kind', chain') = MembersIn(c, kind, chain)
  <2>1. ASSUME NEW m \in Msgs
        PROVE  m \in MembersIn(c, kind', chain') <=> m \in MembersIn(c, kind, chain)
    <3>1. CASE m \in N
      BY <3>1, <1>2, ConnAssumption DEF MembersIn
    <3>2. CASE m \notin N
      BY <3>2 DEF MembersIn, Arrives
    <3> QED BY <3>1, <3>2
  <2> QED BY <2>1 DEF MembersIn
<1>5. MembersIn(h, kind', chain') \subseteq N
  BY <1>3, ConnAssumption DEF MembersIn, Arrives
<1> QED BY <1>1, <1>2, <1>3, <1>4, <1>5

\* A packet that Run made before is one that Run may have made.
LEMMA RunPacketStays ==
  ASSUME IndInv, AnswerInv, NEW N, NEW h, Arrives(N, h),
         NEW p \in Seq(Responses), RunPacket(p, kind, chain)
  PROVE  RunPacket(p, kind', chain')
<1>t. TypeOK
  BY DEF IndInv
<1>1. ASSUME NEW a \in DOMAIN p
      PROVE  p[a].msg \in Msgs /\ kind[p[a].msg] # "none"
  <2>1. p[a] \in Responses
    OBVIOUS
  <2> QED BY <2>1 DEF RunPacket, Responses
<1>2. ASSUME NEW a \in DOMAIN p
      PROVE  kind'[p[a].msg] = kind[p[a].msg] /\ chain'[p[a].msg] = chain[p[a].msg]
  BY <1>1, KnownStay
<1>3. ASSUME NEW a \in DOMAIN p, chain[p[a].msg] # None
      PROVE  MembersIn(chain[p[a].msg], kind', chain') = MembersIn(chain[p[a].msg], kind, chain)
  <2>1. chain[p[a].msg] \in Msgs \ {h}
    BY <1>1, <1>3, <1>t, KnownStay, Types
  <2> QED BY <2>1, KnownStay
<1>4. Whole(p, kind', chain')
  BY <1>2, <1>3 DEF RunPacket, Whole
<1> QED BY <1>2, <1>4 DEF RunPacket, AsyncIn

\* The receiver reads requests that nobody has handled or answered.
LEMMA ReceiverReadKeeps ==
  ASSUME IndInv, AnswerInv, ReceiverRead
  PROVE  AnswerInv'
<1>t. TypeOK
  BY DEF IndInv
<1>1. UNCHANGED <<lastMsg, lastStatus, rsp, wire, write, cur, pc, pkt, ctxDone, sock>>
  BY DEF ReceiverRead, compVars, callVars, sendVars
<1>2. PICK N, h : Arrives(N, h)
  BY ReadFacts
<1>3. /\ \A m \in Msgs : kind[m] # "none" => m \notin N /\ kind'[m] = kind[m] /\ chain'[m] = chain[m]
      /\ \A m \in N : chain'[m] \in {None, h}
      /\ \A m \in Msgs : chain[m] # None => chain[m] # h
      /\ lastMsg[h] = None
      /\ \A c \in Msgs \ {h} : MembersIn(c, kind', chain') = MembersIn(c, kind, chain)
      /\ MembersIn(h, kind', chain') \subseteq N
  BY <1>2, KnownStay
<1>4. /\ N \subseteq Msgs /\ h \in N /\ Queued = {} /\ Queued' = N
      /\ \A m \in N : kind[m] = "none" /\ kind'[m] # "none"
      /\ \A m \in Msgs \ N : kind'[m] = kind[m] /\ chain'[m] = chain[m]
  BY <1>2 DEF Arrives
<1>5. Ahead' = Ahead /\ Sent' = Sent /\ N \subseteq Ahead
  BY <1>1, <1>4 DEF Ahead, Sent
<1>6. \A m \in Msgs : m \notin Ahead => kind[m] # "none"
  BY DEF Ahead
<1>7. ChainsKnown'
  <2>1. ASSUME NEW m \in Msgs, kind'[m] = "none" PROVE chain'[m] = None /\ lastMsg'[m] = None
    BY <2>1, <1>1, <1>4 DEF AnswerInv, ChainsKnown
  <2>2. ASSUME NEW m \in Msgs, chain'[m] # None PROVE kind'[chain'[m]] # "none"
    <3>1. CASE m \in N
      BY <3>1, <2>2, <1>3, <1>4
    <3>2. CASE m \notin N
      <4>1. chain'[m] = chain[m] /\ chain[m] \in Msgs
        BY <3>2, <2>2, <1>4, <1>t, Types
      <4>2. kind[chain[m]] # "none"
        BY <4>1, <2>2 DEF AnswerInv, ChainsKnown
      <4> QED BY <4>1, <4>2, <1>3
    <3> QED BY <3>1, <3>2
  <2> QED BY <2>1, <2>2 DEF ChainsKnown
<1>8. ASSUME NEW m \in Msgs PROVE WorkerOK(m)'
  <2>0. WorkerOK(m) /\ SentOK
    BY DEF AnswerInv
  <2>1. pc[m] # "idle" \/ m \in AnsweredIn(Sent) => AsyncIn(m, kind', chain') = AsyncIn(m, kind, chain)
    BY <2>0, <1>3, <1>6 DEF WorkerOK, SentOK, AsyncIn
  <2> QED BY <2>0, <2>1, <1>1, <1>5 DEF WorkerOK
<1>9. RunOK'
  <2>1. pkt[Run] \in Seq(Responses)
    BY <1>t, Types
  <2> QED BY <2>1, <1>1, <1>2, <1>5, RunPacketStays DEF AnswerInv, RunOK
<1>10. SentOK'
  <2>0. SentOK
    BY DEF AnswerInv
  <2>1. ASSUME NEW i \in DOMAIN Sent
        PROVE  \/ RunPacket(Sent[i], kind', chain')
               \/ \E m \in Msgs, st \in {"pending", "ok", "err"} :
                    AsyncIn(m, kind', chain') /\ Sent[i] = Reply(m, st)
    <3>1. CASE RunPacket(Sent[i], kind, chain)
      <4>1. Sent[i] \in Seq(Responses)
        BY <1>t, Types
      <4> QED BY <3>1, <4>1, <1>2, RunPacketStays
    <3>2. CASE \E m \in Msgs, st \in {"pending", "ok", "err"} :
                 AsyncIn(m, kind, chain) /\ Sent[i] = Reply(m, st)
      <4>1. PICK m \in Msgs, st \in {"pending", "ok", "err"} :
              AsyncIn(m, kind, chain) /\ Sent[i] = Reply(m, st)
        BY <3>2
      <4>2. AsyncIn(m, kind', chain')
        BY <4>1, <1>3 DEF AsyncIn, IoKinds
      <4> QED BY <4>1, <4>2
    <3> QED BY <2>0, <3>1, <3>2 DEF SentOK
  <2>2. ASSUME NEW m \in Msgs, NEW i \in DOMAIN Sent, AsyncIn(m, kind', chain'), m \in Finals(Sent[i])
        PROVE  ctxDone \/ (i > Len(wire) /\ sock = "closed") \/ Announced(Sent, m, i)
    <3>1. m \in AnsweredIn(Sent)
      BY <2>2 DEF AnsweredIn
    <3>2. AsyncIn(m, kind, chain)
      BY <3>1, <2>0, <2>2, <1>3, <1>6 DEF SentOK, AsyncIn
    <3> QED BY <3>2, <2>0, <2>2 DEF SentOK
  <2> QED BY <2>0, <2>1, <2>2, <1>1, <1>5 DEF SentOK
<1>11. ASSUME NEW c \in Msgs PROVE RspOK(c)' /\ CompoundOK(c)'
  <2>0. RspOK(c) /\ CompoundOK(c)
    BY DEF AnswerInv
  <2>1. ASSUME NEW a \in DOMAIN rsp[c] PROVE rsp[c][a].msg \in Msgs /\ rsp[c][a].msg \notin Ahead
    <3>1. rsp[c] \in Seq(Responses)
      BY <1>t, Types
    <3>2. rsp[c][a] \in Responses
      BY <3>1
    <3>3. rsp[c][a].msg \in Msgs
      BY <3>2 DEF Responses
    <3> QED BY <2>0, <3>3 DEF RspOK, MsgsOf
  <2>2. RspOK(c)'
    BY <2>0, <2>1, <1>1, <1>3, <1>5, <1>6 DEF RspOK
  <2>3. CASE c # h
    <3>1. \A m \in Msgs : m \in N => chain'[m] # c
      BY <2>3, <1>3, ConnAssumption
    <3>2. \A m \in Ahead : chain[m] # c => chain'[m] # c
      BY <3>1, <1>4 DEF Ahead
    <3>3. CompoundOK(c)'
      BY <2>0, <2>3, <3>1, <3>2, <1>1, <1>3, <1>4, <1>5 DEF CompoundOK
    <3> QED BY <2>2, <3>3
  <2>4. CASE c = h
    <3>1. MembersIn(c, kind', chain') \subseteq Ahead /\ lastMsg[c] = None
      BY <2>4, <1>3, <1>5
    <3>2. CompoundOK(c)'
      BY <2>0, <3>1, <1>1, <1>5 DEF CompoundOK
    <3> QED BY <2>2, <3>2
  <2> QED BY <2>3, <2>4
<1> QED BY <1>7, <1>8, <1>9, <1>10, <1>11 DEF AnswerInv
-----------------------------------------------------------------------------
(* Run answers.                                                            *)

\* Run answers request m with st, in compound c unless c is None. What a
\* compound has of a failure so far goes for its later requests.
Answers(m, st, c) ==
  /\ pc[Run] = "handle" /\ cur = m /\ m \in Msgs /\ kind[m] # "none" /\ m \notin Queued
  /\ ~AsyncIn(m, kind, chain)
  /\ c = None => kind[m] = "plain" \/ chain[m] = None
  /\ c # None => c = chain[m] /\ kind[m] # "plain" /\ (lastStatus[c] = "err" => st = "err")
  /\ Answer(m, st, c)
  /\ UNCHANGED <<kind, chain, inbox, cur, wire, write, ctxDone, sock>>

\* The three ways in which Run comes to answer.
LEMMA AnswerFacts ==
  ASSUME IndInv, RunSkipFailed \/ RunSync \/ RunPlain
  PROVE  \E st \in {"ok", "err"}, c \in Msgs \cup {None} : Answers(cur, st, c)
<1>t. TypeOK /\ Stages
  BY DEF IndInv
<1>1. /\ pc[Run] = "handle"
      /\ UNCHANGED <<kind, chain, inbox, cur, wire, write, ctxDone, sock>>
  BY DEF RunSkipFailed, RunSync, RunPlain, recvVars, sendVars
<1>2. cur \in Msgs /\ kind[cur] # "none" /\ cur \notin Queued
  BY <1>1, <1>t DEF Stages, Queued
<1>3. chain[cur] \in Msgs \cup {None}
  BY <1>2, <1>t, Types
<1>4. CASE RunSkipFailed
  <2>1. Answers(cur, "err", chain[cur])
    BY <1>1, <1>2, <1>4 DEF RunSkipFailed, ChainFailed, Answers, AsyncIn
  <2> QED BY <2>1, <1>3
<1>5. CASE RunSync
  <2>1. PICK st \in {"ok", "err"} : Answer(cur, st, chain[cur])
    BY <1>5 DEF RunSync
  <2>2. Answers(cur, st, chain[cur])
    BY <1>1, <1>2, <1>5, <2>1 DEF RunSync, ChainFailed, Answers, AsyncIn, IoKinds
  <2> QED BY <2>2, <1>3
<1>6. CASE RunPlain
  <2>1. Answers(cur, "ok", None)
    BY <1>1, <1>2, <1>6 DEF RunPlain, Answers, AsyncIn, IoKinds
  <2> QED BY <2>1
<1> QED BY <1>4, <1>5, <1>6

\* The request is handled with that; nothing is sent yet.
LEMMA AnswerFrame ==
  ASSUME IndInv, AnswerInv, NEW m, NEW st, NEW c, Answers(m, st, c)
  PROVE  /\ m \in Ahead /\ Queued' = Queued /\ Ahead' = Ahead \ {m}
         /\ Sent' = Sent /\ lastMsg' = lastMsg
         /\ ChainsKnown' /\ SentOK' /\ \A n \in Msgs : WorkerOK(n)'
<1>t. TypeOK
  BY DEF IndInv
<1>1. /\ pc[Run] = "handle" /\ cur = m /\ m \in Msgs /\ kind[m] # "none" /\ m \notin Queued
      /\ UNCHANGED <<kind, chain, inbox, cur, wire, write, ctxDone, sock>>
  BY DEF Answers
<1>2. /\ \E x \in {"put", "pop"} : pc' = [pc EXCEPT ![Run] = x]
      /\ pkt' = pkt \/ \E p : pkt' = [pkt EXCEPT ![Run] = p]
      /\ lastMsg' = lastMsg
  BY DEF Answers, Answer, compVars
<1>3. /\ pc'[Run] # "handle" /\ \A n \in Msgs : pc'[n] = pc[n] /\ pkt'[n] = pkt[n]
  BY <1>2, <1>t, Types
<1>4. m \in Ahead /\ Queued' = Queued /\ Ahead' = Ahead \ {m} /\ Sent' = Sent
  BY <1>1, <1>3 DEF Ahead, Queued, Sent
<1>5. ChainsKnown' /\ SentOK'
  BY <1>1, <1>2, <1>4 DEF AnswerInv, ChainsKnown, SentOK
<1>6. ASSUME NEW n \in Msgs PROVE WorkerOK(n)'
  <2>1. WorkerOK(n)
    BY DEF AnswerInv
  <2> QED BY <2>1, <1>1, <1>3, <1>4, WorkerFrame
<1> QED BY <1>2, <1>4, <1>5, <1>6

\* A packet of one response.
LEMMA ReplyFacts ==
  ASSUME NEW m \in Msgs, NEW st
  PROVE  /\ MsgsOf(Reply(m, st)) = {m} /\ Distinct(Reply(m, st))
         /\ \A a \in DOMAIN Reply(m, st) : Reply(m, st)[a].msg = m /\ Reply(m, st)[a].st = st
  BY DEF MsgsOf, Reply, Distinct

\* A response outside any compound.
LEMMA AnswerAlone ==
  ASSUME IndInv, AnswerInv, NEW m, NEW st \in {"ok", "err"}, Answers(m, st, None)
  PROVE  AnswerInv'
<1>t. TypeOK
  BY DEF IndInv
<1>1. /\ m \in Ahead /\ Queued' = Queued /\ Ahead' = Ahead \ {m}
      /\ Sent' = Sent /\ lastMsg' = lastMsg
      /\ ChainsKnown' /\ SentOK' /\ \A n \in Msgs : WorkerOK(n)'
  BY AnswerFrame
<1>2. /\ m \in Msgs /\ kind[m] # "none" /\ ~AsyncIn(m, kind, chain)
      /\ kind[m] = "plain" \/ chain[m] = None
      /\ UNCHANGED <<kind, chain, lastStatus, rsp>>
      /\ pkt' = [pkt EXCEPT ![Run] = Reply(m, st)]
  BY DEF Answers, Answer, compVars, Reply
<1>3. pkt'[Run] = Reply(m, st)
  BY <1>2, <1>t, Types
<1>4. /\ MsgsOf(Reply(m, st)) = {m} /\ Distinct(Reply(m, st))
      /\ \A a \in DOMAIN Reply(m, st) : Reply(m, st)[a].msg = m /\ Reply(m, st)[a].st = st
  BY <1>2, ReplyFacts
<1>5. RunPacket(Reply(m, st), kind, chain)
  BY <1>2, <1>4 DEF RunPacket, Whole
<1>6. m \notin AnsweredIn(Sent)
  BY <1>1 DEF AnswerInv, SentOK
<1>7. RunOK'
  BY <1>1, <1>2, <1>3, <1>4, <1>5, <1>6 DEF RunOK
<1>8. ASSUME NEW d \in Msgs PROVE RspOK(d)' /\ CompoundOK(d)'
  <2>0. RspOK(d) /\ CompoundOK(d)
    BY DEF AnswerInv
  <2>1. RspOK(d)'
    BY <2>0, <1>1, <1>2 DEF RspOK
  <2>2. m \notin MembersIn(d, kind, chain) /\ m \notin MsgsOf(rsp[d])
    BY <2>0, <1>1, <1>2, ConnAssumption DEF MembersIn, RspOK, IoKinds
  <2>3. CompoundOK(d)'
    BY <2>0, <2>2, <1>1, <1>2, <1>3, <1>4 DEF CompoundOK
  <2> QED BY <2>1, <2>3
<1> QED BY <1>1, <1>7, <1>8 DEF AnswerInv

\* p and then one response more, to request m.
OneMore(p, m, st, q) ==
  /\ MsgsOf(q) = MsgsOf(p) \cup {m}
  /\ m \notin MsgsOf(p) /\ Distinct(p) => Distinct(q)
  /\ \A a \in DOMAIN q : q[a] = [msg |-> m, st |-> st] \/ \E b \in DOMAIN p : q[a] = p[b]
  /\ q # << >> /\ q[Len(q)].st = st
  /\ FailsOn(p) /\ (p = << >> \/ p[Len(p)].st # "err" \/ st = "err") => FailsOn(q)

\* What Append makes of the responses that a compound keeps.
LEMMA KeptAppend ==
  ASSUME NEW p \in Seq(Responses), NEW m \in Msgs, NEW st \in {"ok", "err"},
         NEW q, q = Append(p, [msg |-> m, st |-> st])
  PROVE  OneMore(p, m, st, q)
<1> DEFINE r == [msg |-> m, st |-> st]
<1>0. r.msg = m /\ r.st = st /\ r \in Responses /\ q = Append(p, r)
  BY DEF Responses
<1> HIDE DEF r
<1>1. /\ Len(p) \in Nat /\ DOMAIN p = 1..Len(p)
      /\ Len(q) = Len(p) + 1 /\ DOMAIN q = 1..(Len(p) + 1)
      /\ \A a \in 1..Len(p) : q[a] = p[a]
      /\ q[Len(p) + 1] = r /\ q # << >>
  <2>1. q \in Seq(Responses) /\ Len(p) \in Nat /\ DOMAIN p = 1..Len(p)
    BY <1>0
  <2>2. Len(q) = Len(p) + 1
    BY <1>0
  <2>3. DOMAIN q = 1..(Len(p) + 1) /\ q # << >>
    BY <2>1, <2>2
  <2>4. q[Len(p) + 1] = r
    BY <1>0
  <2>5. \A a \in 1..Len(p) : q[a] = p[a]
    BY <1>0
  <2> QED BY <2>1, <2>2, <2>3, <2>4, <2>5
<1>2. /\ \A a \in DOMAIN q : (a \in DOMAIN p /\ q[a] = p[a]) \/ (a = Len(p) + 1 /\ q[a] = r)
      /\ DOMAIN p \subseteq DOMAIN q /\ Len(p) + 1 \in DOMAIN q
  <2>1. \A a \in 1..(Len(p) + 1) : a \in 1..Len(p) \/ a = Len(p) + 1
    BY <1>1
  <2>2. 1..Len(p) \subseteq 1..(Len(p) + 1) /\ Len(p) + 1 \in 1..(Len(p) + 1)
    BY <1>1
  <2>3. ASSUME NEW a \in DOMAIN q
        PROVE  (a \in DOMAIN p /\ q[a] = p[a]) \/ (a = Len(p) + 1 /\ q[a] = r)
    <3>1. CASE a \in 1..Len(p)
      BY <3>1, <1>1
    <3>2. CASE a = Len(p) + 1
      BY <3>2, <1>1
    <3> QED BY <3>1, <3>2, <2>1, <1>1
  <2>4. DOMAIN p \subseteq DOMAIN q /\ Len(p) + 1 \in DOMAIN q
    BY <2>2, <1>1
  <2> QED BY <2>3, <2>4
<1>3. MsgsOf(q) = MsgsOf(p) \cup {m}
  <2>1. MsgsOf(q) \subseteq MsgsOf(p) \cup {m}
    BY <1>0, <1>2 DEF MsgsOf
  <2>2. m \in MsgsOf(q)
    BY <1>0, <1>1, <1>2 DEF MsgsOf
  <2>3. MsgsOf(p) \subseteq MsgsOf(q)
    BY <1>1, <1>2 DEF MsgsOf
  <2> QED BY <2>1, <2>2, <2>3
<1>4. ASSUME m \notin MsgsOf(p), Distinct(p) PROVE Distinct(q)
  <2>1. \A a \in DOMAIN p : p[a].msg # m
    BY <1>4 DEF MsgsOf
  <2> QED BY <2>1, <1>0, <1>2, <1>4 DEF Distinct
<1>5. ASSUME FailsOn(p), p = << >> \/ p[Len(p)].st # "err" \/ st = "err" PROVE FailsOn(q)
  <2> SUFFICES ASSUME NEW a \in DOMAIN q, q[a].st = "err", NEW b \in a..Len(q)
               PROVE  q[b].st = "err"
    BY DEF FailsOn
  <2>1. a \in Nat /\ b \in Nat /\ a <= b /\ b <= Len(p) + 1 /\ 1 <= a
    BY <1>1
  <2>2. CASE b <= Len(p)
    <3>1. a \in DOMAIN p /\ b \in a..Len(p) /\ b \in 1..Len(p) /\ a \in 1..Len(p)
      BY <2>1, <2>2, <1>1
    <3>2. p[a].st = "err" /\ q[b] = p[b]
      BY <3>1, <1>1
    <3> QED BY <3>1, <3>2, <1>5 DEF FailsOn
  <2>3. CASE b = Len(p) + 1
    <3>1. CASE a = Len(p) + 1
      BY <2>3, <3>1
    <3>2. CASE a <= Len(p)
      <4>1. a \in DOMAIN p /\ Len(p) \in a..Len(p) /\ a \in 1..Len(p) /\ p # << >>
        BY <2>1, <3>2, <1>1
      <4>2. p[a].st = "err"
        BY <4>1, <1>1
      <4>3. p[Len(p)].st = "err"
        BY <4>1, <4>2, <1>5 DEF FailsOn
      <4> QED BY <2>3, <4>1, <4>3, <1>0, <1>1, <1>5
    <3> QED BY <3>1, <3>2, <2>1, <1>1
  <2> QED BY <2>1, <2>2, <2>3, <1>1
<1>6. \A a \in DOMAIN q : q[a] = [msg |-> m, st |-> st] \/ \E b \in DOMAIN p : q[a] = p[b]
  BY <1>2 DEF r
<1>7. q # << >> /\ q[Len(q)].st = st
  BY <1>0, <1>1
<1> QED BY <1>3, <1>4, <1>5, <1>6, <1>7 DEF OneMore

\* A response in a compound: kept, and with the last one all are sent.
LEMMA AnswerInCompound ==
  ASSUME IndInv, AnswerInv, NEW m, NEW st \in {"ok", "err"}, NEW c \in Msgs, Answers(m, st, c)
  PROVE  AnswerInv'
<1> DEFINE all == Append(rsp[c], [msg |-> m, st |-> st])
<1>t. TypeOK
  BY DEF IndInv
<1>y. c # None /\ rsp \in [Msgs -> Seq(Responses)] /\ rsp[c] \in Seq(Responses)
  BY <1>t, Types
<1>1. /\ m \in Ahead /\ Queued' = Queued /\ Ahead' = Ahead \ {m}
      /\ Sent' = Sent /\ lastMsg' = lastMsg
      /\ ChainsKnown' /\ SentOK' /\ \A n \in Msgs : WorkerOK(n)'
  BY AnswerFrame
<1>2. /\ m \in Msgs /\ kind[m] # "none" /\ ~AsyncIn(m, kind, chain) /\ m \notin Queued
      /\ pc[Run] = "handle" /\ cur = m
      /\ c = chain[m] /\ kind[m] # "plain" /\ (lastStatus[c] = "err" => st = "err")
      /\ UNCHANGED <<kind, chain>>
      /\ lastStatus' = [lastStatus EXCEPT ![c] = st]
      /\ rsp' = [rsp EXCEPT ![c] = all]
      /\ \/ m = lastMsg[c] /\ pkt' = [pkt EXCEPT ![Run] = all]
         \/ m # lastMsg[c] /\ pc' = [pc EXCEPT ![Run] = "pop"]
  BY <1>y DEF Answers, Answer
<1>3. OneMore(rsp[c], m, st, all)
  BY <1>2, <1>y, KeptAppend
<1>4. PICK q : q = all
  OBVIOUS
<1> HIDE DEF all
<1>5. /\ rsp'[c] = q /\ \A d \in Msgs \ {c} : rsp'[d] = rsp[d]
      /\ lastStatus'[c] = st /\ \A d \in Msgs \ {c} : lastStatus'[d] = lastStatus[d]
      /\ m # lastMsg[c] => pc'[Run] = "pop"
      /\ m = lastMsg[c] => pkt'[Run] = q
  BY <1>2, <1>4, <1>t, Types
<1>6. RspOK(c) /\ CompoundOK(c) /\ SentOK /\ ChainsKnown
  BY DEF AnswerInv
<1>7. m \notin MsgsOf(rsp[c]) /\ m \notin AnsweredIn(Sent)
  BY <1>1, <1>6 DEF RspOK, SentOK
<1>8. /\ MsgsOf(q) = MsgsOf(rsp[c]) \cup {m} /\ Distinct(q) /\ FailsOn(q)
      /\ q # << >> /\ q[Len(q)].st = st
      /\ \A a \in DOMAIN q : q[a] = [msg |-> m, st |-> st] \/ \E b \in DOMAIN rsp[c] : q[a] = rsp[c][b]
  BY <1>2, <1>3, <1>4, <1>6, <1>7 DEF OneMore, RspOK
<1>9. ASSUME NEW a \in DOMAIN q
      PROVE  /\ q[a].st \in {"ok", "err"} /\ q[a].msg \in Msgs
             /\ chain[q[a].msg] = c /\ kind[q[a].msg] # "plain" /\ kind[q[a].msg] # "none"
  <2>1. CASE q[a] = [msg |-> m, st |-> st]
    BY <2>1, <1>2
  <2>2. ASSUME NEW b \in DOMAIN rsp[c], q[a] = rsp[c][b]
        PROVE  /\ q[a].st \in {"ok", "err"} /\ q[a].msg \in Msgs
               /\ chain[q[a].msg] = c /\ kind[q[a].msg] # "plain" /\ kind[q[a].msg] # "none"
    <3>1. rsp[c][b] \in Responses
      BY <1>y
    <3>2. rsp[c][b].msg \in Msgs /\ rsp[c][b].msg \notin Ahead
      BY <3>1, <1>6 DEF RspOK, MsgsOf, Responses
    <3> QED BY <2>2, <3>2, <1>6 DEF RspOK, Ahead
  <2> QED BY <2>1, <2>2, <1>8
<1>10. MsgsOf(q) \cap Ahead' = {} /\ \A n \in MsgsOf(q) : chain[n] = c
  BY <1>1, <1>6, <1>8, <1>9 DEF RspOK, MsgsOf
\* Nothing is left of the compound when its last request is answered.
<1>11. ASSUME m = lastMsg[c], NEW n \in Ahead' PROVE chain[n] # c
  <2>1. n \in Ahead /\ n # m /\ n \in Msgs
    BY <1>1 DEF Ahead
  <2>2. CASE kind[n] = "none"
    BY <2>1, <2>2, <1>6, <1>y DEF ChainsKnown
  <2>3. CASE n \in Queued
    BY <2>1, <2>3, <1>2, <1>6, <1>11, ConnAssumption DEF CompoundOK
  <2> QED BY <2>1, <2>2, <2>3, <1>2 DEF Ahead
<1>12. MembersIn(c, kind, chain) \subseteq Ahead' \cup MsgsOf(q)
  BY <1>1, <1>6, <1>8 DEF CompoundOK
<1>13. ~(lastMsg[c] # None /\ lastMsg[c] \in MsgsOf(rsp[c]))
  BY <1>1, <1>2, <1>6 DEF CompoundOK
<1>14. MsgsOf(q) \cap AnsweredIn(Sent) = {}
  BY <1>6, <1>7, <1>8, <1>13 DEF CompoundOK
<1>15. RunOK'
  <2>1. CASE m # lastMsg[c]
    BY <2>1, <1>5 DEF RunOK
  <2>2. CASE m = lastMsg[c]
    <3>1. MembersIn(c, kind, chain) \subseteq MsgsOf(q)
      BY <2>2, <1>11, <1>12 DEF MembersIn
    <3>2. RunPacket(q, kind, chain)
      BY <3>1, <1>8, <1>9, <1>y DEF RunPacket, Whole, AsyncIn
    <3> QED BY <2>2, <3>2, <1>1, <1>2, <1>5, <1>10, <1>14 DEF RunOK
  <2> QED BY <2>1, <2>2
<1>16. RspOK(c)'
  BY <1>1, <1>2, <1>5, <1>8, <1>9, <1>10 DEF RspOK
<1>17. CompoundOK(c)'
  <2>1. CASE m = lastMsg[c]
    <3>1. lastMsg[c] # None /\ lastMsg[c] \in MsgsOf(q)
      BY <2>1, <1>2, <1>8, ConnAssumption
    <3> QED BY <2>1, <3>1, <1>1, <1>2, <1>5, <1>6, <1>11, <1>12 DEF CompoundOK
  <2>2. CASE m # lastMsg[c]
    <3>1. ~(lastMsg[c] # None /\ lastMsg[c] \in MsgsOf(q))
      BY <2>2, <1>8, <1>13
    <3> QED BY <2>2, <3>1, <1>1, <1>2, <1>5, <1>6, <1>12, <1>14 DEF CompoundOK
  <2> QED BY <2>1, <2>2
<1>18. ASSUME NEW d \in Msgs \ {c} PROVE RspOK(d)' /\ CompoundOK(d)'
  <2>0. RspOK(d) /\ CompoundOK(d)
    BY DEF AnswerInv
  <2>1. RspOK(d)'
    BY <2>0, <1>1, <1>2, <1>5 DEF RspOK
  <2>2. m \notin MembersIn(d, kind, chain)
    BY <1>2 DEF MembersIn
  <2>3. MsgsOf(rsp[d]) \cap MsgsOf(q) = {}
    BY <2>0, <1>10 DEF RspOK, MsgsOf
  <2>4. CompoundOK(d)'
    BY <2>0, <2>2, <2>3, <1>1, <1>2, <1>5 DEF CompoundOK
  <2> QED BY <2>1, <2>4
<1> QED BY <1>1, <1>15, <1>16, <1>17, <1>18 DEF AnswerInv

\* However Run comes to answer.
LEMMA AnswerKeeps ==
  ASSUME IndInv, AnswerInv, RunSkipFailed \/ RunSync \/ RunPlain
  PROVE  AnswerInv'
<1>1. PICK st \in {"ok", "err"}, c \in Msgs \cup {None} : Answers(cur, st, c)
  BY AnswerFacts
<1>2. CASE c = None
  BY <1>1, <1>2, AnswerAlone
<1>3. CASE c \in Msgs
  BY <1>1, <1>3, AnswerInCompound
<1> QED BY <1>1, <1>2, <1>3
-----------------------------------------------------------------------------
(* The invariant and what it says of the wire.                             *)

\* A connection that Serve has just set up.
LEMMA InitAnswer == Init => AnswerInv
<1> SUFFICES ASSUME Init PROVE AnswerInv
  OBVIOUS
<1>1. /\ kind = [m \in Msgs |-> "none"] /\ chain = [m \in Msgs |-> None]
      /\ lastMsg = [m \in Msgs |-> None] /\ lastStatus = [m \in Msgs |-> "ok"]
      /\ rsp = [m \in Msgs |-> << >>] /\ inbox = << >> /\ write = << >> /\ wire = << >>
      /\ pc[Run] = "pop" /\ \A m \in Msgs : pc[m] = "idle"
  BY ConnAssumption DEF Init, Callers
<1>2. Sent = << >> /\ DOMAIN Sent = {} /\ AnsweredIn(Sent) = {} /\ Queued = {}
  BY <1>1 DEF Sent, AnsweredIn, Queued
<1>3. ASSUME NEW c \in Msgs
      PROVE  rsp[c] = << >> /\ MsgsOf(rsp[c]) = {} /\ MembersIn(c, kind, chain) = {}
  BY <1>1, ConnAssumption DEF MsgsOf, MembersIn
<1>4. ChainsKnown
  BY <1>1 DEF ChainsKnown
<1>5. \A m \in Msgs : WorkerOK(m)
  BY <1>1, <1>2 DEF WorkerOK
<1>6. RunOK
  BY <1>1 DEF RunOK
<1>7. SentOK
  BY <1>2 DEF SentOK, InOrder
<1>8. ASSUME NEW c \in Msgs PROVE RspOK(c) /\ CompoundOK(c)
  BY <1>1, <1>2, <1>3 DEF RspOK, CompoundOK, Distinct, FailsOn
<1> QED BY <1>4, <1>5, <1>6, <1>7, <1>8 DEF AnswerInv

\* The second half of sendPacket, for every caller.
LEMMA SendPacketKeeps ==
  ASSUME IndInv, AnswerInv, NEW c \in Callers, SendPacket(c)
  PROVE  AnswerInv'
<1>1. CASE Put(c)
  BY <1>1, PutKeeps
<1>2. CASE TakeResult(c)
  <2>1. /\ pc[c] = "wait" /\ Return(c, Head(werr) = "fail")
        /\ UNCHANGED <<kind, chain, lastMsg, lastStatus, rsp, wire, write, inbox, cur, ctxDone>>
    BY <1>2 DEF TakeResult, recvVars, compVars, sendVars
  <2>2. (Head(werr) = "fail") \in BOOLEAN
    OBVIOUS
  <2>3. PICK failed \in BOOLEAN : failed = (Head(werr) = "fail")
    BY <2>2
  <2>4. Return(c, failed)
    BY <2>1, <2>3
  <2> QED BY <2>1, <2>4, ReturnKeeps
<1>3. CASE GiveUp(c)
  <2>1. /\ pc[c] = "wait" \/ (pc[c] = "put" /\ ctxDone)
        /\ Return(c, TRUE)
        /\ UNCHANGED <<kind, chain, lastMsg, lastStatus, rsp, wire, write, inbox, cur, ctxDone>>
    BY <1>3 DEF GiveUp, recvVars, compVars, sendVars
  <2>2. TRUE \in BOOLEAN
    OBVIOUS
  <2> QED BY <2>1, <2>2, ReturnKeeps
<1> QED BY <1>1, <1>2, <1>3 DEF SendPacket

\* Every step keeps the invariant.
LEMMA NextAnswer ==
  ASSUME IndInv, AnswerInv, [Next]_vars
  PROVE  AnswerInv'
<1>1. CASE Handler
  BY <1>1, AnswerKeeps, RunAsyncKeeps, RunLeaves DEF Handler
<1>2. CASE Handoff
  BY <1>2, HandoffKeeps
<1>3. CASE ReceiverRead
  BY <1>3, ReceiverReadKeeps
<1>4. CASE ReceiverParse
  BY <1>4, ReceiverParseKeeps
<1>5. CASE \E m \in Msgs : Acquire(m)
  BY <1>5, AcquireKeeps
<1>6. CASE \E c \in Callers : SendPacket(c)
  BY <1>6, SendPacketKeeps
<1>7. CASE SenderWrite
  BY <1>7, SenderWriteKeeps
<1>8. CASE \/ ClientDisconnect \/ ReceiverFail \/ ReceiverInvalid \/ ReceiverExit
           \/ SenderPost \/ SenderStop \/ ShutdownCancel \/ Shutdown
  <2>1. /\ UNCHANGED <<kind, chain, lastMsg, lastStatus, rsp, wire, write, inbox, cur, pc, pkt>>
        /\ (ctxDone => ctxDone') /\ (sock = "closed" => sock' = "closed")
    BY <1>8 DEF ClientDisconnect, ReceiverFail, ReceiverInvalid, ReceiverExit, SenderPost,
                SenderStop, ShutdownCancel, Shutdown, ShutdownWdone, ShutdownRdone,
                ShutdownClose, recvVars, compVars, callVars, sendVars
  <2> QED BY <2>1, Quiet
<1>9. CASE UNCHANGED vars
  <2>1. /\ UNCHANGED <<kind, chain, lastMsg, lastStatus, rsp, wire, write, inbox, cur, pc, pkt>>
        /\ (ctxDone => ctxDone') /\ (sock = "closed" => sock' = "closed")
    BY <1>9 DEF vars, recvVars, compVars, callVars, sendVars
  <2> QED BY <2>1, Quiet
<1> QED
  BY <1>1, <1>2, <1>3, <1>4, <1>5, <1>6, <1>7, <1>8, <1>9 DEF Next, Receiver, Sender

\* The invariant holds in every state of a connection.
THEOREM AnswerInvariance == Spec => []AnswerInv
<1>1. Init => AnswerInv
  BY InitAnswer
<1>2. IndInv /\ AnswerInv /\ [Next]_vars => AnswerInv'
  BY NextAnswer
<1>3. Spec => []IndInv
  BY Invariance
<1> QED BY <1>1, <1>2, <1>3, PTL DEF Spec

\* What is written is what was sent, as far as it goes.
LEMMA WireSent ==
  ASSUME TypeOK
  PROVE  /\ \A i \in DOMAIN wire : i \in DOMAIN Sent /\ wire[i] = Sent[i] /\ i \in Nat /\ i <= Len(wire)
         /\ \A i \in DOMAIN wire, j \in DOMAIN Sent : j < i => j \in 1..(i - 1) /\ wire[j] = Sent[j]
         /\ \A i \in DOMAIN wire : wire[i] \in Seq(Responses)
<1>1. wire \in Seq(Seq(Responses)) /\ write \in Seq(Seq(Responses))
  BY Types
<1>2. /\ DOMAIN wire = 1..Len(wire) /\ Len(wire) \in Nat /\ Len(write) \in Nat
      /\ DOMAIN Sent = 1..(Len(wire) + Len(write))
      /\ \A i \in 1..Len(wire) : Sent[i] = wire[i]
  BY <1>1 DEF Sent
<1>3. \A i \in DOMAIN wire : wire[i] \in Seq(Responses)
  BY <1>1
<1> QED BY <1>2, <1>3

\* A packet answers no request twice.
LEMMA PacketAnswersOnce ==
  ASSUME TypeOK, AnswerInv, NEW i \in DOMAIN Sent
  PROVE  Distinct(Sent[i])
<1>1. CASE RunPacket(Sent[i], kind, chain)
  BY <1>1 DEF RunPacket
<1>2. CASE \E m \in Msgs, st \in {"pending", "ok", "err"} :
             AsyncIn(m, kind, chain) /\ Sent[i] = Reply(m, st)
  BY <1>2 DEF Reply, Distinct
<1> QED BY <1>1, <1>2 DEF AnswerInv, SentOK

\* sendPacket, the workers and the sender give a request at most one final
\* response on the wire and no interim one after it, whatever is shut down when;
\* and an asynchronous request its STATUS_PENDING before that, as long as the
\* context is not cancelled.
THEOREM AnsweredOnce == Spec => []AnsweredOnceInOrder
<1>1. ASSUME TypeOK, AnswerInv PROVE AnsweredOnceInOrder
  <2>0. SentOK
    BY <1>1 DEF AnswerInv
  <2>w. /\ \A i \in DOMAIN wire : i \in DOMAIN Sent /\ wire[i] = Sent[i] /\ i \in Nat /\ i <= Len(wire)
        /\ \A i \in DOMAIN wire, j \in DOMAIN Sent : j < i => j \in 1..(i - 1) /\ wire[j] = Sent[j]
        /\ \A i \in DOMAIN wire : wire[i] \in Seq(Responses)
    BY <1>1, WireSent
  <2>f. ASSUME NEW i \in DOMAIN wire, NEW a \in DOMAIN wire[i], Final(wire[i][a])
        PROVE  wire[i][a].msg \in Msgs /\ wire[i][a].msg \in Finals(Sent[i])
    <3>1. wire[i][a] \in Responses
      BY <2>w
    <3> QED BY <2>f, <2>w, <3>1 DEF Final, Finals, Responses
  <2> SUFFICES ASSUME NEW i \in DOMAIN wire, NEW a \in DOMAIN wire[i], Final(wire[i][a])
               PROVE  /\ \A j \in DOMAIN wire : \A b \in DOMAIN wire[j] :
                           wire[j][b].msg = wire[i][a].msg =>
                             IF Final(wire[j][b]) THEN i = j /\ a = b ELSE j < i
                      /\ \/ ctxDone
                         \/ kind[wire[i][a].msg] \notin IoKinds
                         \/ chain[wire[i][a].msg] # None
                         \/ \E j \in 1..(i - 1) :
                              wire[j] = <<[msg |-> wire[i][a].msg, st |-> "pending"]>>
    BY DEF AnsweredOnceInOrder
  <2>1. ASSUME NEW j \in DOMAIN wire, NEW b \in DOMAIN wire[j],
               wire[j][b].msg = wire[i][a].msg, Final(wire[j][b])
        PROVE  i = j /\ a = b
    <3>1. i = j
      <4>1. wire[i][a].msg \in Finals(Sent[i]) /\ wire[i][a].msg \in Finals(Sent[j])
        BY <2>1, <2>f
      <4> QED BY <4>1, <2>0, <2>w DEF SentOK
    <3>2. Distinct(wire[i])
      BY <1>1, <2>w, PacketAnswersOnce
    <3> QED BY <2>1, <3>1, <3>2 DEF Distinct
  <2>2. ASSUME ~ctxDone, kind[wire[i][a].msg] \in IoKinds, chain[wire[i][a].msg] = None
        PROVE  \E j \in 1..(i - 1) : wire[j] = <<[msg |-> wire[i][a].msg, st |-> "pending"]>>
    <3>1. wire[i][a].msg \in Msgs /\ wire[i][a].msg \in Finals(Sent[i])
      BY <2>f
    <3>2. PICK m \in Msgs : m = wire[i][a].msg
      BY <3>1
    <3>3. Announced(Sent, m, i)
      BY <3>1, <3>2, <2>0, <2>2, <2>w DEF SentOK, AsyncIn
    <3>4. PICK j \in DOMAIN Sent : j < i /\ Sent[j] = Reply(m, "pending")
      BY <3>3 DEF Announced
    <3> QED BY <3>2, <3>4, <2>w DEF Reply
  <2>3. ASSUME NEW j \in DOMAIN wire, NEW b \in DOMAIN wire[j],
               wire[j][b].msg = wire[i][a].msg, ~Final(wire[j][b])
        PROVE  j < i
    <3>1. wire[i][a].msg \in Msgs /\ wire[i][a].msg \in Finals(Sent[i])
      BY <2>f
    <3>2. PICK m \in Msgs : m = wire[i][a].msg
      BY <3>1
    <3>3. Sent[j] = Reply(m, "pending")
      <4>1. ~RunPacket(Sent[j], kind, chain)
        BY <2>3, <2>w DEF RunPacket, Final
      <4>2. PICK k \in Msgs, st \in {"pending", "ok", "err"} : Sent[j] = Reply(k, st)
        BY <4>1, <2>0, <2>w DEF SentOK
      <4>3. wire[j][b].msg = k /\ wire[j][b].st = st
        BY <4>2, <2>w DEF Reply
      <4> QED BY <4>2, <4>3, <3>2, <2>3 DEF Final
    <3> QED BY <3>1, <3>2, <3>3, <2>0, <2>w DEF SentOK, InOrder
  <2> QED BY <2>1, <2>2, <2>3
<1>2. Spec => []AnswerInv
  BY AnswerInvariance
<1>3. Spec => []TypeOK
  BY TypeCorrect
<1> QED BY <1>1, <1>2, <1>3, PTL

\* compoundContext: the packet with a response of a compound has one of each of
\* its requests, and after a failure only failures.
THEOREM CompoundsWhole == Spec => []CompoundWhole
<1>1. ASSUME TypeOK, AnswerInv PROVE CompoundWhole
  <2>0. SentOK
    BY <1>1 DEF AnswerInv
  <2>w. \A i \in DOMAIN wire : i \in DOMAIN Sent /\ wire[i] = Sent[i]
    BY <1>1, WireSent
  <2> SUFFICES ASSUME NEW i \in DOMAIN wire, NEW a \in DOMAIN wire[i],
                      chain[wire[i][a].msg] # None, kind[wire[i][a].msg] # "plain"
               PROVE  /\ Members(chain[wire[i][a].msg]) \subseteq {wire[i][b].msg : b \in DOMAIN wire[i]}
                      /\ wire[i][a].st = "err" => \A b \in a..Len(wire[i]) : wire[i][b].st = "err"
    BY DEF CompoundWhole
  <2>1. RunPacket(wire[i], kind, chain)
    <3>1. ASSUME NEW m \in Msgs, NEW st \in {"pending", "ok", "err"},
                 AsyncIn(m, kind, chain), wire[i] = Reply(m, st)
          PROVE  FALSE
      BY <3>1 DEF AsyncIn, Reply
    <3> QED BY <3>1, <2>0, <2>w DEF SentOK
  <2>2. MembersIn(chain[wire[i][a].msg], kind, chain) \subseteq MsgsOf(wire[i]) /\ FailsOn(wire[i])
    BY <2>1 DEF RunPacket, Whole
  <2> QED BY <2>2 DEF MembersIn, Members, MsgsOf, FailsOn
<1>2. Spec => []AnswerInv
  BY AnswerInvariance
<1>3. Spec => []TypeOK
  BY TypeCorrect
<1> QED BY <1>1, <1>2, <1>3, PTL
=============================================================================
