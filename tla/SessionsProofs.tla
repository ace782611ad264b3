----------------------------- MODULE SessionsProofs -----------------------------
(* Proofs about Sessions, for any number of connections, any dialects offered  *)
(* and any number of logins: however logins overlap, every variable keeps its  *)
(* type and only a client that has proven who it is gets a session; and as     *)
(* long as clients log in one at a time, the server does not panic, denies     *)
(* nobody wrongly, and agrees with the client on dialect and keys.             *)
EXTENDS Sessions, WellFoundedInduction, TLAPS

-----------------------------------------------------------------------------
(* The inductive invariant. Its parts are about one connection k and its       *)
(* client u, except those about what the connections share.                    *)

\* How far the client is, and what the connection does and knows then.
Phase(k, u) ==
  /\ u.at \in {"new", "negotiated"} => k.pc = "idle" /\ k.state = "negotiate"
  /\ u.at = "smb1" => k.pc \in {"smb1", "smb1 response"} /\ k.state = "negotiate"
  /\ u.at = "negotiating" => k.pc \in {"select", "take", "respond"} /\ k.state = "negotiate"
  /\ u.at = "setup" => k.pc \in {"setup", "challenge"} /\ k.state = "negotiate"
  /\ u.at = "challenged" => k.pc = "idle" /\ k.state = "challenge"
  /\ u.at = "authenticating" =>
       k.pc \in {"authenticate", "user", "key", "enter"} /\ k.state = "challenge"
  /\ u.at = "denied" => k.pc = "ended" /\ k.state = "challenge"
  /\ u.at = "active" => k.pc = "idle" /\ k.state = "active"
  /\ u.at = "active" =>
       k.use = TRUE /\ k.session \in Keys
       /\ k.session.dialect = k.dialect /\ k.session.hashed = k.hashed
  /\ u.at # "active" => k.use = FALSE /\ k.session = None

\* The logins of the client, and the packets of the first one that are hashed.
Counted(k, u) ==
  /\ u.at \in {"new", "smb1"} => u.logins = 0 /\ k.dialect = 0 /\ k.hashed = 0
  /\ u.at \in {"negotiating", "negotiated"} => u.logins < MaxLogins
  /\ u.at \in {"setup", "challenged", "authenticating", "active"} => u.logins >= 1
  /\ u.at = "negotiating" /\ u.logins = 0 /\ k.pc \in {"select", "take"} => k.hashed = 0
  /\ k.dialect = SMB311 /\ u.logins = 0 =>
       /\ k.pc = "respond" => k.hashed = 1
       /\ u.at = "negotiated" => k.hashed = 2
  /\ k.dialect = SMB311 /\ u.logins = 1 =>
       /\ k.pc = "setup" => k.hashed = 2
       /\ k.pc = "challenge" => k.hashed = 3
       /\ u.at = "challenged" \/ k.pc = "authenticate" => k.hashed = 4
       /\ k.pc \in {"user", "key", "enter"} \/ u.at = "active" => k.hashed = 5

\* The client's credentials are such that it may have a session.
Proven(c) == cred[c] = "right" \/ (cred[c] = "none" /\ allowGuest)

\* Who is past ntlm.Server.Authenticate has proven who it is.
Checked(c) == conn[c].pc \in {"user", "key", "enter"} \/ conn[c].use => Proven(c)

\* The mechanism and the authenticator are made before anybody calls them.
Made(c) ==
  /\ \/ conn[c].pc = "respond"
     \/ client[c].at \in {"negotiated", "setup", "challenged", "authenticating", "active"}
     => spnego \in Mechs
  /\ conn[c].pc = "challenge" \/ client[c].at \in {"challenged", "authenticating"}
       => ntlm \in Servers

\* No two clients are busy at the same time.
Alone == \A c, d \in Conns : client[c].at \in Busy /\ client[d].at \in Busy => c = d

\* What the busy client finds in the negotiator and in the authenticator.
Undisturbed(c) ==
  /\ conn[c].pc \in {"take", "respond"} => dialect = Select(offer[c])
  /\ conn[c].pc = "challenge" \/ client[c].at \in {"challenged", "authenticating"}
       => spnego.selected
  /\ client[c].at \in {"challenged", "authenticating"} =>
       client[c].challenge # None /\ ntlm.cmsg = client[c].challenge
  /\ conn[c].pc \in {"user", "key", "enter"} => ntlm.session = c

\* What the connection has kept of a login, and whose key it has.
Kept(k, u, c, own) ==
  /\ k.pc = "respond" \/ u.at \in {"negotiated", "setup", "challenged", "authenticating", "active"}
       => k.dialect = Select(offer[c])
  /\ u.at \in {"negotiated", "setup", "challenged", "authenticating", "active"}
       => u.told = Select(offer[c])
  /\ k.key = (IF k.pc = "enter" THEN own ELSE None)
  /\ k.pc = "key" => own = c
  /\ u.at = "active" => k.session.key = own
  /\ u.at = "denied" => cred[c] # "right"

\* Whose session key the keys of c are derived from.
Own(c) == IF allowGuest THEN None ELSE c

\* A run in which one client at a time sets up its session.
OneAtATime ==
  oneAtATime =>
    /\ ~crashed
    /\ Alone
    /\ \A c \in Conns : Undisturbed(c) /\ Kept(conn[c], client[c], c, Own(c))

\* The inductive invariant.
IInv ==
  /\ TypeOK
  /\ \A c \in Conns : Phase(conn[c], client[c]) /\ Counted(conn[c], client[c])
  /\ \A c \in Conns : Checked(c) /\ Made(c)
  /\ OneAtATime


-----------------------------------------------------------------------------
(* What all steps have in common.                                              *)

\* A client that rests is where nothing shared matters to it.
LEMMA RestUndisturbed ==
  ASSUME NEW k \in Links, NEW u \in Clients, Phase(k, u), u.at \in Resting
  PROVE  /\ k.pc \in {"idle", "ended"}
         /\ u.at \notin Busy
  BY DEF Phase, Resting, Busy

\* A step of connection c that leaves it as k and its client as u keeps the
\* invariant if k and u are right, what is shared is not unmade, and, as long as
\* clients log in one at a time, no other client is busy.
LEMMA StepKeeps ==
  ASSUME IInv, NEW c \in Conns, NEW k \in Links, NEW u \in Clients,
         conn' = [conn EXCEPT ![c] = k],
         client' = [client EXCEPT ![c] = u],
         config' = config,
         dialect' \in Nat, spnego' \in Mechs \cup {None}, ntlm' \in Servers \cup {None},
         crashed' \in BOOLEAN,
         spnego \in Mechs => spnego' \in Mechs,
         ntlm \in Servers => ntlm' \in Servers,
         Phase(k, u), Counted(k, u), Checked(c)', Made(c)',
         oneAtATime => /\ ~crashed'
                       /\ client[c].at \in Busy \/ \A d \in Conns \ {c} : client[d].at \in Resting
                       /\ Undisturbed(c)'
                       /\ Kept(k, u, c, Own(c))
  PROVE  IInv'
<1>c. /\ conn \in [Conns -> Links] /\ client \in [Conns -> Clients]
      /\ conn'[c] = k /\ client'[c] = u
      /\ \A d \in Conns \ {c} : conn'[d] = conn[d] /\ client'[d] = client[d]
  BY DEF IInv, TypeOK
<1>u. /\ allowGuest' = allowGuest /\ oneAtATime' = oneAtATime
      /\ cred' = cred /\ offer' = offer
  BY DEF config
<1>1. TypeOK'
  BY <1>c, <1>u DEF IInv, TypeOK
<1>2. ASSUME NEW d \in Conns PROVE Phase(conn'[d], client'[d]) /\ Counted(conn'[d], client'[d])
  <2>1. CASE d = c
    BY <2>1, <1>c
  <2>2. CASE d # c
    BY <2>2, <1>c DEF IInv
  <2> QED BY <2>1, <2>2
<1>3. ASSUME NEW d \in Conns PROVE Checked(d)' /\ Made(d)'
  <2>1. CASE d = c
    BY <2>1
  <2>2. CASE d # c
    <3>1. Checked(d) /\ Made(d)
      BY DEF IInv
    <3>2. conn'[d] = conn[d] /\ client'[d] = client[d]
      BY <2>2, <1>c
    <3>3. Checked(d)'
      BY <3>1, <3>2, <1>u DEF Checked, Proven
    <3>4. Made(d)'
      BY <3>1, <3>2 DEF Made
    <3> QED BY <3>3, <3>4
  <2> QED BY <2>1, <2>2
<1>4. OneAtATime'
  <2> SUFFICES ASSUME oneAtATime
               PROVE  /\ ~crashed'
                      /\ Alone'
                      /\ \A d \in Conns : Undisturbed(d)' /\ Kept(conn[d], client[d], d, Own(d))'
    BY <1>u DEF OneAtATime
  <2>1. \A d \in Conns \ {c} : client[d].at \in Resting
    <3>1. SUFFICES ASSUME NEW d \in Conns \ {c}, client[c].at \in Busy
                   PROVE  client[d].at \in Resting
      OBVIOUS
    <3>2. client[d].at \notin Busy
      BY <3>1 DEF IInv, OneAtATime, Alone
    <3>3. client[d] \in Clients
      BY <1>c
    <3> QED BY <3>2, <3>3 DEF Clients
  <2>2. Alone'
    <3> SUFFICES ASSUME NEW d \in Conns, NEW e \in Conns,
                        client'[d].at \in Busy, client'[e].at \in Busy, d # e
                 PROVE  FALSE
      BY DEF Alone
    <3>1. \A x \in Conns \ {c} : client'[x].at \notin Busy
      BY <2>1, <1>c DEF Busy, Resting
    <3> QED BY <3>1
  <2>3. ASSUME NEW d \in Conns \ {c}
        PROVE  Undisturbed(d)' /\ Kept(conn[d], client[d], d, Own(d))'
    <3>1. conn'[d] = conn[d] /\ client'[d] = client[d]
      BY <1>c
    <3>2. conn[d] \in Links /\ client[d] \in Clients /\ Phase(conn[d], client[d])
      BY <1>c DEF IInv
    <3>3. conn[d].pc \in {"idle", "ended"} /\ client[d].at \notin Busy
      BY <3>2, <2>1, RestUndisturbed
    <3>4. Undisturbed(d)'
      BY <3>1, <3>3 DEF Undisturbed, Busy
    <3>5. Kept(conn[d], client[d], d, Own(d))
      BY DEF IInv, OneAtATime
    <3>6. Own(d)' = Own(d)
      BY <1>u DEF Own
    <3>7. Kept(conn[d], client[d], d, Own(d))'
      BY <3>1, <3>5, <3>6, <1>u DEF Kept
    <3> QED BY <3>4, <3>7
  <2>4. Kept(conn[c], client[c], c, Own(c))'
    <3>1. Kept(k, u, c, Own(c))
      OBVIOUS
    <3>2. Own(c)' = Own(c)
      BY <1>u DEF Own
    <3> QED BY <3>1, <3>2, <1>c, <1>u DEF Kept
  <2> QED BY <2>2, <2>3, <2>4
<1> QED BY <1>1, <1>2, <1>3, <1>4 DEF IInv

\* What the invariant says of connection c.
LEMMA Here ==
  ASSUME IInv, NEW c \in Conns
  PROVE  /\ conn[c] \in Links /\ client[c] \in Clients
         /\ conn \in [Conns -> Links] /\ client \in [Conns -> Clients]
         /\ Phase(conn[c], client[c]) /\ Counted(conn[c], client[c])
         /\ Checked(c) /\ Made(c)
         /\ oneAtATime =>
              /\ ~crashed /\ Undisturbed(c) /\ Kept(conn[c], client[c], c, Own(c))
         /\ dialect \in Nat /\ spnego \in Mechs \cup {None} /\ ntlm \in Servers \cup {None}
         /\ crashed \in BOOLEAN /\ allowGuest \in BOOLEAN
  BY DEF IInv, TypeOK, OneAtATime

-----------------------------------------------------------------------------
(* The client's requests.                                                      *)

\* A request that comes when the connection is idle drops the session, if any.
LEMMA Handling ==
  ASSUME IInv, NEW c \in Conns, NEW pc \in Steps, conn[c].pc = "idle", Handle(c, pc)
  PROVE  \E k \in Links :
           /\ conn' = [conn EXCEPT ![c] = k]
           /\ k.pc = pc /\ k.use = FALSE /\ k.session = None
           /\ k.dialect = conn[c].dialect /\ k.hashed = conn[c].hashed /\ k.key = conn[c].key
           /\ k.state = (IF client[c].at = "active" THEN "negotiate" ELSE conn[c].state)
<1>h. conn[c] \in Links /\ client[c] \in Clients /\ conn \in [Conns -> Links]
      /\ Phase(conn[c], client[c])
  BY Here
<1>1. CASE client[c].at = "active"
  <2> DEFINE k == [conn[c] EXCEPT !.pc = pc, !.use = FALSE, !.session = None, !.state = "negotiate"]
  <2>1. conn[c].use = TRUE
    BY <1>h, <1>1 DEF Phase
  <2>2. conn' = [conn EXCEPT ![c] = k]
    BY <2>1, <1>h DEF Handle
  <2>3. /\ k \in Links
        /\ k.pc = pc /\ k.use = FALSE /\ k.session = None /\ k.state = "negotiate"
        /\ k.dialect = conn[c].dialect /\ k.hashed = conn[c].hashed /\ k.key = conn[c].key
    BY <1>h DEF Links
  <2> HIDE DEF k
  <2> QED BY <2>2, <2>3, <1>1
<1>2. CASE client[c].at # "active"
  <2> DEFINE k == [conn[c] EXCEPT !.pc = pc]
  <2>1. conn[c].use = FALSE /\ conn[c].session = None
    BY <1>h, <1>2 DEF Phase
  <2>2. conn' = [conn EXCEPT ![c] = k]
    BY <2>1, <1>h DEF Handle
  <2>3. /\ k \in Links
        /\ k.pc = pc /\ k.use = FALSE /\ k.session = None /\ k.state = conn[c].state
        /\ k.dialect = conn[c].dialect /\ k.hashed = conn[c].hashed /\ k.key = conn[c].key
    BY <1>h, <2>1 DEF Links
  <2> HIDE DEF k
  <2> QED BY <2>2, <2>3, <1>2
<1> QED BY <1>1, <1>2

\* The client sends an SMB1 NEGOTIATE.
LEMMA SendSmb1Keeps ==
  ASSUME IInv, NEW c \in Conns, SendSmb1(c)
  PROVE  IInv'
<1> DEFINE u == [client[c] EXCEPT !.at = "smb1"]
<1>h. /\ conn[c] \in Links /\ client[c] \in Clients
      /\ conn \in [Conns -> Links] /\ client \in [Conns -> Clients]
      /\ Phase(conn[c], client[c]) /\ Counted(conn[c], client[c]) /\ Made(c)
      /\ oneAtATime => Undisturbed(c) /\ Kept(conn[c], client[c], c, Own(c))
  BY Here
<1>a. /\ conn[c].pc = "idle" /\ client[c].at = "new" /\ ~crashed
      /\ client' = [client EXCEPT ![c] = u]
      /\ oneAtATime => \A d \in Conns \ {c} : client[d].at \in Resting
      /\ Handle(c, "smb1")
      /\ config' = config /\ dialect' = dialect /\ spnego' = spnego /\ ntlm' = ntlm
      /\ crashed' = crashed
  BY <1>h DEF SendSmb1, MayBegin, shared
<1>u. /\ u \in Clients /\ u.at = "smb1" /\ u.logins = client[c].logins
      /\ u.told = client[c].told /\ u.challenge = client[c].challenge
  BY <1>h, <1>a DEF Clients, Busy, Counted
<1> HIDE DEF u
<1>p. "smb1" \in Steps
  BY DEF Steps
<1>1. PICK k \in Links :
        /\ conn' = [conn EXCEPT ![c] = k]
        /\ k.pc = "smb1" /\ k.use = FALSE /\ k.session = None
        /\ k.dialect = conn[c].dialect /\ k.hashed = conn[c].hashed /\ k.key = conn[c].key
        /\ k.state = (IF client[c].at = "active" THEN "negotiate" ELSE conn[c].state)
  BY <1>a, <1>p, Handling, Zenon
<1>c. conn'[c] = k /\ client'[c] = u
  BY <1>a, <1>1, <1>h
<1>2. Phase(k, u) /\ Counted(k, u)
  BY <1>1, <1>u, <1>h, <1>a DEF Phase, Counted, Clients
<1>3. Checked(c)' /\ Made(c)'
  BY <1>1, <1>u, <1>c, <1>h, <1>a DEF Checked, Made
<1>4. oneAtATime => Undisturbed(c)'
  BY <1>1, <1>u, <1>c, <1>h, <1>a DEF Undisturbed
<1>5. oneAtATime => Kept(k, u, c, Own(c))
  BY <1>1, <1>u, <1>h, <1>a DEF Kept
<1> QED BY <1>1, <1>2, <1>3, <1>4, <1>5, <1>a, <1>u, Here, StepKeeps

\* The client sends an SMB2 NEGOTIATE.
LEMMA SendNegotiateKeeps ==
  ASSUME IInv, NEW c \in Conns, SendNegotiate(c)
  PROVE  IInv'
<1> DEFINE u == [client[c] EXCEPT !.at = "negotiating"]
<1>h. /\ conn[c] \in Links /\ client[c] \in Clients
      /\ conn \in [Conns -> Links] /\ client \in [Conns -> Clients]
      /\ Phase(conn[c], client[c]) /\ Counted(conn[c], client[c]) /\ Made(c)
      /\ oneAtATime => Undisturbed(c) /\ Kept(conn[c], client[c], c, Own(c))
  BY Here
<1>a. /\ conn[c].pc = "idle" /\ client[c].at \in {"new", "active"} /\ client[c].logins < MaxLogins /\ ~crashed
      /\ client' = [client EXCEPT ![c] = u]
      /\ oneAtATime => \A d \in Conns \ {c} : client[d].at \in Resting
      /\ Handle(c, "select")
      /\ config' = config /\ dialect' = dialect /\ spnego' = spnego /\ ntlm' = ntlm
      /\ crashed' = crashed
  BY <1>h DEF SendNegotiate, MayBegin, shared
<1>u. /\ u \in Clients /\ u.at = "negotiating" /\ u.logins = client[c].logins
      /\ u.told = client[c].told /\ u.challenge = client[c].challenge
  BY <1>h, <1>a, SessionsAssumption DEF Clients, Busy, Counted
<1> HIDE DEF u
<1>p. "select" \in Steps
  BY DEF Steps
<1>1. PICK k \in Links :
        /\ conn' = [conn EXCEPT ![c] = k]
        /\ k.pc = "select" /\ k.use = FALSE /\ k.session = None
        /\ k.dialect = conn[c].dialect /\ k.hashed = conn[c].hashed /\ k.key = conn[c].key
        /\ k.state = (IF client[c].at = "active" THEN "negotiate" ELSE conn[c].state)
  BY <1>a, <1>p, Handling, Zenon
<1>c. conn'[c] = k /\ client'[c] = u
  BY <1>a, <1>1, <1>h
<1>2. Phase(k, u) /\ Counted(k, u)
  BY <1>1, <1>u, <1>h, <1>a, SessionsAssumption DEF Phase, Counted, Clients
<1>3. Checked(c)' /\ Made(c)'
  BY <1>1, <1>u, <1>c, <1>h, <1>a DEF Checked, Made
<1>4. oneAtATime => Undisturbed(c)'
  BY <1>1, <1>u, <1>c, <1>h, <1>a DEF Undisturbed
<1>5. oneAtATime => Kept(k, u, c, Own(c))
  BY <1>1, <1>u, <1>h, <1>a DEF Kept
<1> QED BY <1>1, <1>2, <1>3, <1>4, <1>5, <1>a, <1>u, Here, StepKeeps

\* The client sends its first SESSION_SETUP.
LEMMA SendSetupKeeps ==
  ASSUME IInv, NEW c \in Conns, SendSetup(c)
  PROVE  IInv'
<1> DEFINE u == [client[c] EXCEPT !.at = "setup", !.logins = @ + 1]
<1>h. /\ conn[c] \in Links /\ client[c] \in Clients
      /\ conn \in [Conns -> Links] /\ client \in [Conns -> Clients]
      /\ Phase(conn[c], client[c]) /\ Counted(conn[c], client[c]) /\ Made(c)
      /\ oneAtATime => Undisturbed(c) /\ Kept(conn[c], client[c], c, Own(c))
  BY Here
<1>a. /\ conn[c].pc = "idle" /\ (client[c].at = "negotiated" \/ (client[c].at = "active" /\ client[c].logins < MaxLogins)) /\ ~crashed
      /\ client' = [client EXCEPT ![c] = u]
      /\ oneAtATime => client[c].at \in Busy \/ \A d \in Conns \ {c} : client[d].at \in Resting
      /\ Handle(c, "setup")
      /\ config' = config /\ dialect' = dialect /\ spnego' = spnego /\ ntlm' = ntlm
      /\ crashed' = crashed
  BY <1>h DEF SendSetup, MayBegin, shared, Busy
<1>n. client[c].logins \in Nat /\ client[c].logins + 1 \in 0..MaxLogins
  BY <1>h, <1>a, SessionsAssumption DEF Clients, Counted
<1>u. /\ u \in Clients /\ u.at = "setup" /\ u.logins = client[c].logins + 1
      /\ u.told = client[c].told /\ u.challenge = client[c].challenge
  BY <1>h, <1>a, <1>n DEF Clients, Busy
<1> HIDE DEF u
<1>p. "setup" \in Steps
  BY DEF Steps
<1>1. PICK k \in Links :
        /\ conn' = [conn EXCEPT ![c] = k]
        /\ k.pc = "setup" /\ k.use = FALSE /\ k.session = None
        /\ k.dialect = conn[c].dialect /\ k.hashed = conn[c].hashed /\ k.key = conn[c].key
        /\ k.state = (IF client[c].at = "active" THEN "negotiate" ELSE conn[c].state)
  BY <1>a, <1>p, Handling, Zenon
<1>c. conn'[c] = k /\ client'[c] = u
  BY <1>a, <1>1, <1>h
<1>2. Phase(k, u) /\ Counted(k, u)
  BY <1>1, <1>u, <1>h, <1>a, SessionsAssumption DEF Phase, Counted, Clients
<1>3. Checked(c)' /\ Made(c)'
  BY <1>1, <1>u, <1>c, <1>h, <1>a DEF Checked, Made
<1>4. oneAtATime => Undisturbed(c)'
  BY <1>1, <1>u, <1>c, <1>h, <1>a DEF Undisturbed
<1>5. oneAtATime => Kept(k, u, c, Own(c))
  BY <1>1, <1>u, <1>h, <1>a DEF Kept
<1> QED BY <1>1, <1>2, <1>3, <1>4, <1>5, <1>a, <1>u, Here, StepKeeps

\* The client sends the SESSION_SETUP that proves who it is.
LEMMA SendAuthenticateKeeps ==
  ASSUME IInv, NEW c \in Conns, SendAuthenticate(c)
  PROVE  IInv'
<1> DEFINE u == [client[c] EXCEPT !.at = "authenticating"]
<1>h. /\ conn[c] \in Links /\ client[c] \in Clients
      /\ conn \in [Conns -> Links] /\ client \in [Conns -> Clients]
      /\ Phase(conn[c], client[c]) /\ Counted(conn[c], client[c]) /\ Made(c)
      /\ oneAtATime => Undisturbed(c) /\ Kept(conn[c], client[c], c, Own(c))
  BY Here
<1>a. /\ conn[c].pc = "idle" /\ client[c].at = "challenged" /\ ~crashed
      /\ client' = [client EXCEPT ![c] = u]
      /\ oneAtATime => client[c].at \in Busy
      /\ Handle(c, "authenticate")
      /\ config' = config /\ dialect' = dialect /\ spnego' = spnego /\ ntlm' = ntlm
      /\ crashed' = crashed
  BY <1>h DEF SendAuthenticate, MayBegin, shared, Busy
<1>u. /\ u \in Clients /\ u.at = "authenticating" /\ u.logins = client[c].logins
      /\ u.told = client[c].told /\ u.challenge = client[c].challenge
  BY <1>h, <1>a DEF Clients, Busy, Counted
<1> HIDE DEF u
<1>p. "authenticate" \in Steps
  BY DEF Steps
<1>1. PICK k \in Links :
        /\ conn' = [conn EXCEPT ![c] = k]
        /\ k.pc = "authenticate" /\ k.use = FALSE /\ k.session = None
        /\ k.dialect = conn[c].dialect /\ k.hashed = conn[c].hashed /\ k.key = conn[c].key
        /\ k.state = (IF client[c].at = "active" THEN "negotiate" ELSE conn[c].state)
  BY <1>a, <1>p, Handling, Zenon
<1>c. conn'[c] = k /\ client'[c] = u
  BY <1>a, <1>1, <1>h
<1>2. Phase(k, u) /\ Counted(k, u)
  BY <1>1, <1>u, <1>h, <1>a DEF Phase, Counted, Clients
<1>3. Checked(c)' /\ Made(c)'
  BY <1>1, <1>u, <1>c, <1>h, <1>a DEF Checked, Made
<1>4. oneAtATime => Undisturbed(c)'
  BY <1>1, <1>u, <1>c, <1>h, <1>a DEF Undisturbed
<1>5. oneAtATime => Kept(k, u, c, Own(c))
  BY <1>1, <1>u, <1>h, <1>a DEF Kept
<1> QED BY <1>1, <1>2, <1>3, <1>4, <1>5, <1>a, <1>u, Here, StepKeeps
-----------------------------------------------------------------------------
(* The dialect that is selected.                                               *)

\* A set of dialects, some of which are between the wildcard and 3.1.1, has a
\* highest one.
LEMMA HighestExists ==
  ASSUME NEW S, S \subseteq {d \in Nat : d > SMB2 /\ d <= SMB311}, S # {}
  PROVE  \E d \in S : \A e \in S : e <= d
<1> DEFINE T == {n \in Nat : SMB311 - n \in S}
<1>1. PICK s \in S : TRUE
  OBVIOUS
<1>2. s \in Nat /\ s <= SMB311 /\ SMB311 - s \in Nat /\ SMB311 - (SMB311 - s) = s
  BY <1>1 DEF SMB2, SMB311
<1>3. T # {} /\ T \subseteq Nat
  BY <1>1, <1>2
<1>w. IsWellFoundedOn({ss \in Nat \X Nat : ss[1] < ss[2]}, Nat)
  BY NatLessThanWellFounded, Zenon DEF OpToRel
<1>x. \E n \in T : \A m \in T : ~(<<m, n>> \in {ss \in Nat \X Nat : ss[1] < ss[2]})
  <2> DEFINE R == {ss \in Nat \X Nat : ss[1] < ss[2]}
  <2> HIDE DEF R, T
  <2> SUFFICES \E n \in T : \A m \in T : ~(<<m, n>> \in R)
    BY DEF R
  <2> QED BY <1>w, <1>3, WFMin, Zenon DEF R
<1>y. \A m, n \in Nat : m < n => <<m, n>> \in {ss \in Nat \X Nat : ss[1] < ss[2]}
  OBVIOUS
<1>4. PICK n \in T : \A m \in T : n <= m
  <2> HIDE DEF T
  <2>1. PICK n \in T : \A m \in T : ~(m < n)
    BY <1>x, <1>y, <1>3
  <2>2. \A m \in T : n <= m
    BY <2>1, <1>3
  <2> QED BY <2>2
<1>5. n \in Nat /\ SMB311 - n \in S
  OBVIOUS
<1>6. ASSUME NEW e \in S PROVE e <= SMB311 - n
  <2>1. e \in Nat /\ SMB311 - e \in Nat /\ SMB311 - (SMB311 - e) = e
    BY DEF SMB2, SMB311
  <2>2. SMB311 - e \in T
    BY <2>1
  <2>3. n <= SMB311 - e
    BY <2>2, <1>4
  <2> QED BY <2>1, <2>3, <1>5 DEF SMB311
<1> QED BY <1>5, <1>6

\* What is selected is a dialect with a signer: not the wildcard; and one the
\* client offered, if it offered any that the negotiator selects.
LEMMA Selected ==
  ASSUME NEW o \in Offers
  PROVE  /\ Select(o) \in Nat /\ Select(o) # SMB2
         /\ Spoken(o) => Select(o) \in o
<1> DEFINE above == {d \in o : d > SMB2 /\ d <= SMB311}
<1>0. o \subseteq Nat
  BY SessionsAssumption
<1>1. CASE above = {}
  <2>1. Select(o) = SMB210
    BY <1>1 DEF Select
  <2>2. Spoken(o) => SMB210 \in o
    BY <1>1 DEF Spoken
  <2> QED BY <2>1, <2>2 DEF SMB210, SMB2
<1>2. CASE above # {}
  <2> DEFINE Highest(d) == \A e \in above : e <= d
  <2>1. \E d \in above : Highest(d)
    BY <1>0, <1>2, HighestExists
  <2>2. Select(o) = CHOOSE d \in above : Highest(d)
    BY <1>2 DEF Select
  <2> HIDE DEF Highest
  <2>3. Select(o) \in above
    BY <2>1, <2>2
  <2>4. Select(o) \in o /\ Select(o) \in Nat /\ Select(o) > SMB2
    BY <2>3, <1>0
  <2> QED BY <2>4 DEF SMB2
<1> QED BY <1>1, <1>2
-----------------------------------------------------------------------------
(* The server's steps.                                                         *)

\* Where the client is, from what the connection does.
LEMMA Where ==
  ASSUME NEW k \in Links, NEW u \in Clients, Phase(k, u)
  PROVE  /\ k.pc \in {"smb1", "smb1 response"} => u.at = "smb1"
         /\ k.pc \in {"select", "take", "respond"} => u.at = "negotiating"
         /\ k.pc \in {"setup", "challenge"} => u.at = "setup"
         /\ k.pc \in {"authenticate", "user", "key", "enter"} => u.at = "authenticating"
  BY DEF Phase, Clients, Links, Resting, Busy, Steps

\* negotiate meets an SMB1 request.
LEMMA negotiateSmb1Keeps ==
  ASSUME IInv, NEW c \in Conns, negotiateSmb1(c)
  PROVE  IInv'
<1> DEFINE n == Hashed(conn[c], 1)
           k == [conn[c] EXCEPT !.pc = "smb1 response"]
           u == client[c]
<1>h. /\ conn[c] \in Links /\ client[c] \in Clients
      /\ conn \in [Conns -> Links] /\ client \in [Conns -> Clients]
      /\ Phase(conn[c], client[c]) /\ Counted(conn[c], client[c]) /\ Checked(c) /\ Made(c)
      /\ oneAtATime => Undisturbed(c) /\ Kept(conn[c], client[c], c, Own(c))
      /\ dialect \in Nat /\ spnego \in Mechs \cup {None} /\ ntlm \in Servers \cup {None}
  BY Here
<1>w. conn[c].pc = "smb1" /\ client[c].at = "smb1" /\ client[c].at \in Busy /\ ~crashed
  BY <1>h, Where DEF negotiateSmb1, At, Busy
<1>a. /\ conn' = [conn EXCEPT ![c] = k]
      /\ client' = [client EXCEPT ![c] = u]
      /\ config' = config /\ crashed' = crashed
      /\ dialect' = SMB2 /\ spnego' = spnego /\ ntlm' = ntlm
  BY <1>h DEF negotiateSmb1, shared
<1>n. /\ n \in Nat
      /\ conn[c].dialect = SMB311 => n = conn[c].hashed + 1
  BY <1>h DEF Hashed, Links
<1> HIDE DEF n
<1>k. /\ k \in Links /\ k.pc = "smb1 response" /\ k.state = conn[c].state
      /\ k.use = conn[c].use /\ k.session = conn[c].session /\ k.key = conn[c].key
      /\ k.dialect = conn[c].dialect /\ k.hashed = conn[c].hashed
  BY <1>h, <1>n DEF Links, Steps
<1>u. /\ u \in Clients /\ u.at = "smb1" /\ u.logins = client[c].logins
      /\ u.told = client[c].told /\ u.challenge = client[c].challenge
  BY <1>h, <1>w DEF Clients, Busy, Resting, Challenges
<1> HIDE DEF k, u
<1>c. conn'[c] = k /\ client'[c] = u
  BY <1>a, <1>h
<1>s. /\ dialect' \in Nat /\ spnego' \in Mechs \cup {None} /\ ntlm' \in Servers \cup {None}
      /\ spnego \in Mechs => spnego' \in Mechs
      /\ ntlm \in Servers => ntlm' \in Servers
  BY <1>h, <1>a DEF SMB2
<1>2. Phase(k, u) /\ Counted(k, u)
  BY <1>k, <1>u, <1>h, <1>w, <1>n DEF Phase, Counted, Clients, SMB311
<1>3. Checked(c)'
  <2>1. k.use = FALSE /\ k.pc \notin {"user", "key", "enter"}
    BY <1>k, <1>h, <1>w DEF Phase
  <2> QED BY <2>1, <1>c DEF Checked
<1>m. Made(c)'
  BY <1>k, <1>u, <1>c, <1>h, <1>a, <1>w, <1>s DEF Made
<1>4. oneAtATime => Undisturbed(c)'
  BY <1>k, <1>u, <1>c, <1>h, <1>a, <1>w DEF Undisturbed, config
<1>5. oneAtATime => Kept(k, u, c, Own(c))
  BY <1>k, <1>u, <1>h, <1>w DEF Kept, Undisturbed
<1> QED BY <1>a, <1>k, <1>u, <1>s, <1>w, <1>2, <1>3, <1>m, <1>4, <1>5, Here, StepKeeps

\* negotiate answers it.
LEMMA respondSmb1Keeps ==
  ASSUME IInv, NEW c \in Conns, respondSmb1(c)
  PROVE  IInv'
<1> DEFINE n == Hashed(conn[c], 1)
           k == [conn[c] EXCEPT !.pc = "idle"]
           u == [client[c] EXCEPT !.at = "new", !.told = dialect]
<1>h. /\ conn[c] \in Links /\ client[c] \in Clients
      /\ conn \in [Conns -> Links] /\ client \in [Conns -> Clients]
      /\ Phase(conn[c], client[c]) /\ Counted(conn[c], client[c]) /\ Checked(c) /\ Made(c)
      /\ oneAtATime => Undisturbed(c) /\ Kept(conn[c], client[c], c, Own(c))
      /\ dialect \in Nat /\ spnego \in Mechs \cup {None} /\ ntlm \in Servers \cup {None}
  BY Here
<1>w. conn[c].pc = "smb1 response" /\ client[c].at = "smb1" /\ client[c].at \in Busy /\ ~crashed
  BY <1>h, Where DEF respondSmb1, At, Busy
<1>a. /\ conn' = [conn EXCEPT ![c] = k]
      /\ client' = [client EXCEPT ![c] = u]
      /\ config' = config /\ crashed' = crashed
      /\ dialect' = dialect /\ spnego' = spnego /\ ntlm' = ntlm
  BY <1>h DEF respondSmb1, shared
<1>n. /\ n \in Nat
      /\ conn[c].dialect = SMB311 => n = conn[c].hashed + 1
  BY <1>h DEF Hashed, Links
<1> HIDE DEF n
<1>k. /\ k \in Links /\ k.pc = "idle" /\ k.state = conn[c].state
      /\ k.use = conn[c].use /\ k.session = conn[c].session /\ k.key = conn[c].key
      /\ k.dialect = conn[c].dialect /\ k.hashed = conn[c].hashed
  BY <1>h, <1>n DEF Links, Steps
<1>u. /\ u \in Clients /\ u.at = "new" /\ u.logins = client[c].logins
      /\ u.told = dialect /\ u.challenge = client[c].challenge
  BY <1>h, <1>w DEF Clients, Busy, Resting, Challenges
<1> HIDE DEF k, u
<1>c. conn'[c] = k /\ client'[c] = u
  BY <1>a, <1>h
<1>s. /\ dialect' \in Nat /\ spnego' \in Mechs \cup {None} /\ ntlm' \in Servers \cup {None}
      /\ spnego \in Mechs => spnego' \in Mechs
      /\ ntlm \in Servers => ntlm' \in Servers
  BY <1>h, <1>a
<1>2. Phase(k, u) /\ Counted(k, u)
  BY <1>k, <1>u, <1>h, <1>w, <1>n DEF Phase, Counted, Clients, SMB311
<1>3. Checked(c)'
  <2>1. k.use = FALSE /\ k.pc \notin {"user", "key", "enter"}
    BY <1>k, <1>h, <1>w DEF Phase
  <2> QED BY <2>1, <1>c DEF Checked
<1>m. Made(c)'
  BY <1>k, <1>u, <1>c, <1>h, <1>a, <1>w, <1>s DEF Made
<1>4. oneAtATime => Undisturbed(c)'
  BY <1>k, <1>u, <1>c, <1>h, <1>a, <1>w DEF Undisturbed, config
<1>5. oneAtATime => Kept(k, u, c, Own(c))
  BY <1>k, <1>u, <1>h, <1>w DEF Kept, Undisturbed
<1> QED BY <1>a, <1>k, <1>u, <1>s, <1>w, <1>2, <1>3, <1>m, <1>4, <1>5, Here, StepKeeps

\* negotiate picks the dialect of the server.
LEMMA selectDialectKeeps ==
  ASSUME IInv, NEW c \in Conns, selectDialect(c)
  PROVE  IInv'
<1> DEFINE n == Hashed(conn[c], 1)
           k == [conn[c] EXCEPT !.pc = "take"]
           u == client[c]
<1>h. /\ conn[c] \in Links /\ client[c] \in Clients
      /\ conn \in [Conns -> Links] /\ client \in [Conns -> Clients]
      /\ Phase(conn[c], client[c]) /\ Counted(conn[c], client[c]) /\ Checked(c) /\ Made(c)
      /\ oneAtATime => Undisturbed(c) /\ Kept(conn[c], client[c], c, Own(c))
      /\ dialect \in Nat /\ spnego \in Mechs \cup {None} /\ ntlm \in Servers \cup {None}
  BY Here
<1>w. conn[c].pc = "select" /\ client[c].at = "negotiating" /\ client[c].at \in Busy /\ ~crashed
  BY <1>h, Where DEF selectDialect, At, Busy
<1>a. /\ conn' = [conn EXCEPT ![c] = k]
      /\ client' = [client EXCEPT ![c] = u]
      /\ config' = config /\ crashed' = crashed
      /\ dialect' = Select(offer[c]) /\ spnego' = spnego /\ ntlm' = ntlm
  BY <1>h DEF selectDialect, shared
<1>n. /\ n \in Nat
      /\ conn[c].dialect = SMB311 => n = conn[c].hashed + 1
  BY <1>h DEF Hashed, Links
<1> HIDE DEF n
<1>k. /\ k \in Links /\ k.pc = "take" /\ k.state = conn[c].state
      /\ k.use = conn[c].use /\ k.session = conn[c].session /\ k.key = conn[c].key
      /\ k.dialect = conn[c].dialect /\ k.hashed = conn[c].hashed
  BY <1>h, <1>n DEF Links, Steps
<1>u. /\ u \in Clients /\ u.at = "negotiating" /\ u.logins = client[c].logins
      /\ u.told = client[c].told /\ u.challenge = client[c].challenge
  BY <1>h, <1>w DEF Clients, Busy, Resting, Challenges
<1> HIDE DEF k, u
<1>c. conn'[c] = k /\ client'[c] = u
  BY <1>a, <1>h
<1>s. /\ dialect' \in Nat /\ spnego' \in Mechs \cup {None} /\ ntlm' \in Servers \cup {None}
      /\ spnego \in Mechs => spnego' \in Mechs
      /\ ntlm \in Servers => ntlm' \in Servers
  BY <1>h, <1>a, Selected DEF IInv, TypeOK
<1>2. Phase(k, u) /\ Counted(k, u)
  BY <1>k, <1>u, <1>h, <1>w, <1>n DEF Phase, Counted, Clients, SMB311
<1>3. Checked(c)'
  <2>1. k.use = FALSE /\ k.pc \notin {"user", "key", "enter"}
    BY <1>k, <1>h, <1>w DEF Phase
  <2> QED BY <2>1, <1>c DEF Checked
<1>m. Made(c)'
  BY <1>k, <1>u, <1>c, <1>h, <1>a, <1>w, <1>s DEF Made
<1>4. oneAtATime => Undisturbed(c)'
  BY <1>k, <1>u, <1>c, <1>h, <1>a, <1>w DEF Undisturbed, config
<1>5. oneAtATime => Kept(k, u, c, Own(c))
  BY <1>k, <1>u, <1>h, <1>w DEF Kept, Undisturbed
<1> QED BY <1>a, <1>k, <1>u, <1>s, <1>w, <1>2, <1>3, <1>m, <1>4, <1>5, Here, StepKeeps

\* negotiate takes it for the connection.
LEMMA takeDialectKeeps ==
  ASSUME IInv, NEW c \in Conns, takeDialect(c)
  PROVE  IInv'
<1> DEFINE n == Hashed([conn[c] EXCEPT !.dialect = dialect], 1)
           k == [[conn[c] EXCEPT !.dialect = dialect] EXCEPT !.hashed = n, !.pc = "respond"]
           u == client[c]
<1>h. /\ conn[c] \in Links /\ client[c] \in Clients
      /\ conn \in [Conns -> Links] /\ client \in [Conns -> Clients]
      /\ Phase(conn[c], client[c]) /\ Counted(conn[c], client[c]) /\ Checked(c) /\ Made(c)
      /\ oneAtATime => Undisturbed(c) /\ Kept(conn[c], client[c], c, Own(c))
      /\ dialect \in Nat /\ spnego \in Mechs \cup {None} /\ ntlm \in Servers \cup {None}
  BY Here
<1>w. conn[c].pc = "take" /\ client[c].at = "negotiating" /\ client[c].at \in Busy /\ ~crashed
  BY <1>h, Where DEF takeDialect, At, Busy
<1>a. /\ conn' = [conn EXCEPT ![c] = k]
      /\ client' = [client EXCEPT ![c] = u]
      /\ config' = config /\ crashed' = crashed
      /\ dialect' = dialect /\ spnego' = [selected |-> FALSE] /\ ntlm' = ntlm
  BY <1>h DEF takeDialect, shared
<1>n. /\ n \in Nat
      /\ dialect = SMB311 => n = conn[c].hashed + 1
  BY <1>h DEF Hashed, Links
<1> HIDE DEF n
<1>k. /\ k \in Links /\ k.pc = "respond" /\ k.state = conn[c].state
      /\ k.use = conn[c].use /\ k.session = conn[c].session /\ k.key = conn[c].key
      /\ k.dialect = dialect /\ k.hashed = n
  BY <1>h, <1>n DEF Links, Steps
<1>u. /\ u \in Clients /\ u.at = "negotiating" /\ u.logins = client[c].logins
      /\ u.told = client[c].told /\ u.challenge = client[c].challenge
  BY <1>h, <1>w DEF Clients, Busy, Resting, Challenges
<1> HIDE DEF k, u
<1>c. conn'[c] = k /\ client'[c] = u
  BY <1>a, <1>h
<1>s. /\ dialect' \in Nat /\ spnego' \in Mechs \cup {None} /\ ntlm' \in Servers \cup {None}
      /\ spnego \in Mechs => spnego' \in Mechs
      /\ ntlm \in Servers => ntlm' \in Servers
      /\ spnego' \in Mechs
  BY <1>h, <1>a DEF Mechs
<1>2. Phase(k, u) /\ Counted(k, u)
  BY <1>k, <1>u, <1>h, <1>w, <1>n DEF Phase, Counted, Clients, SMB311
<1>3. Checked(c)'
  <2>1. k.use = FALSE /\ k.pc \notin {"user", "key", "enter"}
    BY <1>k, <1>h, <1>w DEF Phase
  <2> QED BY <2>1, <1>c DEF Checked
<1>m. Made(c)'
  BY <1>k, <1>u, <1>c, <1>h, <1>a, <1>w, <1>s DEF Made
<1>4. oneAtATime => Undisturbed(c)'
  BY <1>k, <1>u, <1>c, <1>h, <1>a, <1>w DEF Undisturbed, config
<1>5. oneAtATime => Kept(k, u, c, Own(c))
  BY <1>k, <1>u, <1>h, <1>w DEF Kept, Undisturbed
<1> QED BY <1>a, <1>k, <1>u, <1>s, <1>w, <1>2, <1>3, <1>m, <1>4, <1>5, Here, StepKeeps

\* negotiate makes its response of the dialect the server has then.
LEMMA makeResponseKeeps ==
  ASSUME IInv, NEW c \in Conns, makeResponse(c)
  PROVE  IInv'
<1> DEFINE n == Hashed(conn[c], 1)
           k == [conn[c] EXCEPT !.pc = "idle", !.hashed = n]
           u == [client[c] EXCEPT !.at = "negotiated", !.told = dialect]
<1>h. /\ conn[c] \in Links /\ client[c] \in Clients
      /\ conn \in [Conns -> Links] /\ client \in [Conns -> Clients]
      /\ Phase(conn[c], client[c]) /\ Counted(conn[c], client[c]) /\ Checked(c) /\ Made(c)
      /\ oneAtATime => Undisturbed(c) /\ Kept(conn[c], client[c], c, Own(c))
      /\ dialect \in Nat /\ spnego \in Mechs \cup {None} /\ ntlm \in Servers \cup {None}
  BY Here
<1>w. conn[c].pc = "respond" /\ client[c].at = "negotiating" /\ client[c].at \in Busy /\ ~crashed
  BY <1>h, Where DEF makeResponse, At, Busy
<1>a. /\ conn' = [conn EXCEPT ![c] = k]
      /\ client' = [client EXCEPT ![c] = u]
      /\ config' = config /\ crashed' = crashed
      /\ dialect' = dialect /\ spnego' = spnego /\ ntlm' = ntlm
  BY <1>h DEF makeResponse, shared
<1>n. /\ n \in Nat
      /\ conn[c].dialect = SMB311 => n = conn[c].hashed + 1
  BY <1>h DEF Hashed, Links
<1> HIDE DEF n
<1>k. /\ k \in Links /\ k.pc = "idle" /\ k.state = conn[c].state
      /\ k.use = conn[c].use /\ k.session = conn[c].session /\ k.key = conn[c].key
      /\ k.dialect = conn[c].dialect /\ k.hashed = n
  BY <1>h, <1>n DEF Links, Steps
<1>u. /\ u \in Clients /\ u.at = "negotiated" /\ u.logins = client[c].logins
      /\ u.told = dialect /\ u.challenge = client[c].challenge
  BY <1>h, <1>w DEF Clients, Busy, Resting, Challenges
<1> HIDE DEF k, u
<1>c. conn'[c] = k /\ client'[c] = u
  BY <1>a, <1>h
<1>s. /\ dialect' \in Nat /\ spnego' \in Mechs \cup {None} /\ ntlm' \in Servers \cup {None}
      /\ spnego \in Mechs => spnego' \in Mechs
      /\ ntlm \in Servers => ntlm' \in Servers
  BY <1>h, <1>a
<1>2. Phase(k, u) /\ Counted(k, u)
  BY <1>k, <1>u, <1>h, <1>w, <1>n DEF Phase, Counted, Clients, SMB311
<1>3. Checked(c)'
  <2>1. k.use = FALSE /\ k.pc \notin {"user", "key", "enter"}
    BY <1>k, <1>h, <1>w DEF Phase
  <2> QED BY <2>1, <1>c DEF Checked
<1>m. Made(c)'
  BY <1>k, <1>u, <1>c, <1>h, <1>a, <1>w, <1>s DEF Made
<1>4. oneAtATime => Undisturbed(c)'
  BY <1>k, <1>u, <1>c, <1>h, <1>a, <1>w DEF Undisturbed, config
<1>5. oneAtATime => Kept(k, u, c, Own(c))
  BY <1>k, <1>u, <1>h, <1>w DEF Kept, Undisturbed
<1> QED BY <1>a, <1>k, <1>u, <1>s, <1>w, <1>2, <1>3, <1>m, <1>4, <1>5, Here, StepKeeps

\* sessionSetup starts an NTLM exchange.
LEMMA newNtlmKeeps ==
  ASSUME IInv, NEW c \in Conns, newNtlm(c)
  PROVE  IInv'
<1> DEFINE n == Hashed(conn[c], 1)
           k == [conn[c] EXCEPT !.pc = "challenge", !.hashed = n]
           u == client[c]
<1>h. /\ conn[c] \in Links /\ client[c] \in Clients
      /\ conn \in [Conns -> Links] /\ client \in [Conns -> Clients]
      /\ Phase(conn[c], client[c]) /\ Counted(conn[c], client[c]) /\ Checked(c) /\ Made(c)
      /\ oneAtATime => Undisturbed(c) /\ Kept(conn[c], client[c], c, Own(c))
      /\ dialect \in Nat /\ spnego \in Mechs \cup {None} /\ ntlm \in Servers \cup {None}
  BY Here
<1>w. conn[c].pc = "setup" /\ client[c].at = "setup" /\ client[c].at \in Busy /\ ~crashed
  BY <1>h, Where DEF newNtlm, At, Busy
<1>a. /\ conn' = [conn EXCEPT ![c] = k]
      /\ client' = [client EXCEPT ![c] = u]
      /\ config' = config /\ crashed' = crashed
      /\ dialect' = dialect /\ spnego' = [selected |-> TRUE] /\ ntlm' = [cmsg |-> None, session |-> None]
  BY <1>h DEF newNtlm, shared
<1>n. /\ n \in Nat
      /\ conn[c].dialect = SMB311 => n = conn[c].hashed + 1
  BY <1>h DEF Hashed, Links
<1> HIDE DEF n
<1>k. /\ k \in Links /\ k.pc = "challenge" /\ k.state = conn[c].state
      /\ k.use = conn[c].use /\ k.session = conn[c].session /\ k.key = conn[c].key
      /\ k.dialect = conn[c].dialect /\ k.hashed = n
  BY <1>h, <1>n DEF Links, Steps
<1>u. /\ u \in Clients /\ u.at = "setup" /\ u.logins = client[c].logins
      /\ u.told = client[c].told /\ u.challenge = client[c].challenge
  BY <1>h, <1>w DEF Clients, Busy, Resting, Challenges
<1> HIDE DEF k, u
<1>c. conn'[c] = k /\ client'[c] = u
  BY <1>a, <1>h
<1>s. /\ dialect' \in Nat /\ spnego' \in Mechs \cup {None} /\ ntlm' \in Servers \cup {None}
      /\ spnego \in Mechs => spnego' \in Mechs
      /\ ntlm \in Servers => ntlm' \in Servers
      /\ ntlm' \in Servers
  BY <1>h, <1>a DEF Mechs, Servers, Challenges
<1>2. Phase(k, u) /\ Counted(k, u)
  BY <1>k, <1>u, <1>h, <1>w, <1>n DEF Phase, Counted, Clients, SMB311
<1>3. Checked(c)'
  <2>1. k.use = FALSE /\ k.pc \notin {"user", "key", "enter"}
    BY <1>k, <1>h, <1>w DEF Phase
  <2> QED BY <2>1, <1>c DEF Checked
<1>m. Made(c)'
  BY <1>k, <1>u, <1>c, <1>h, <1>a, <1>w, <1>s DEF Made
<1>4. oneAtATime => Undisturbed(c)'
  BY <1>k, <1>u, <1>c, <1>h, <1>a, <1>w DEF Undisturbed, config
<1>5. oneAtATime => Kept(k, u, c, Own(c))
  BY <1>k, <1>u, <1>h, <1>w DEF Kept, Undisturbed
<1> QED BY <1>a, <1>k, <1>u, <1>s, <1>w, <1>2, <1>3, <1>m, <1>4, <1>5, Here, StepKeeps

\* sessionServerSetup challenges the client.
LEMMA sessionServerSetupKeeps ==
  ASSUME IInv, NEW c \in Conns, sessionServerSetup(c)
  PROVE  IInv'
<1> DEFINE x == <<c, client[c].logins>>
           n == Hashed(conn[c], 1)
           k == [conn[c] EXCEPT !.pc = "idle", !.state = "challenge", !.hashed = n]
           u == [client[c] EXCEPT !.at = "challenged", !.challenge = x]
<1>h. /\ conn[c] \in Links /\ client[c] \in Clients
      /\ conn \in [Conns -> Links] /\ client \in [Conns -> Clients]
      /\ Phase(conn[c], client[c]) /\ Counted(conn[c], client[c]) /\ Checked(c) /\ Made(c)
      /\ oneAtATime => Undisturbed(c) /\ Kept(conn[c], client[c], c, Own(c))
      /\ dialect \in Nat /\ spnego \in Mechs \cup {None} /\ ntlm \in Servers \cup {None}
  BY Here
<1>w. conn[c].pc = "challenge" /\ client[c].at = "setup" /\ client[c].at \in Busy /\ ~crashed
  BY <1>h, Where DEF sessionServerSetup, At, Busy
<1>a. /\ conn' = [conn EXCEPT ![c] = k]
      /\ client' = [client EXCEPT ![c] = u]
      /\ config' = config /\ crashed' = crashed
      /\ dialect' = dialect /\ spnego' = spnego /\ ntlm' = [ntlm EXCEPT !.cmsg = x]
  BY <1>h DEF sessionServerSetup, shared
<1>n. /\ n \in Nat
      /\ conn[c].dialect = SMB311 => n = conn[c].hashed + 1
  BY <1>h DEF Hashed, Links
<1>x. x \in Challenges /\ x # None
  BY <1>h, SessionsAssumption DEF Challenges, Clients
<1> HIDE DEF n, x
<1>k. /\ k \in Links /\ k.pc = "idle" /\ k.state = "challenge"
      /\ k.use = conn[c].use /\ k.session = conn[c].session /\ k.key = conn[c].key
      /\ k.dialect = conn[c].dialect /\ k.hashed = n
  BY <1>h, <1>n DEF Links, Steps
<1>u. /\ u \in Clients /\ u.at = "challenged" /\ u.logins = client[c].logins
      /\ u.told = client[c].told /\ u.challenge = x
  BY <1>h, <1>w, <1>x DEF Clients, Busy, Resting
<1> HIDE DEF k, u
<1>c. conn'[c] = k /\ client'[c] = u
  BY <1>a, <1>h
<1>s. /\ dialect' \in Nat /\ spnego' \in Mechs \cup {None} /\ ntlm' \in Servers \cup {None}
      /\ spnego \in Mechs => spnego' \in Mechs
      /\ ntlm \in Servers => ntlm' \in Servers
      /\ ntlm' \in Servers /\ ntlm'.cmsg = x
  BY <1>h, <1>a, <1>w, <1>x DEF Made, Servers
<1>2. Phase(k, u) /\ Counted(k, u)
  BY <1>k, <1>u, <1>h, <1>w, <1>n DEF Phase, Counted, Clients, SMB311
<1>3. Checked(c)'
  <2>1. k.use = FALSE /\ k.pc \notin {"user", "key", "enter"}
    BY <1>k, <1>h, <1>w DEF Phase
  <2> QED BY <2>1, <1>c DEF Checked
<1>m. Made(c)'
  BY <1>k, <1>u, <1>c, <1>h, <1>a, <1>w, <1>s DEF Made
<1>4. oneAtATime => Undisturbed(c)'
  BY <1>k, <1>u, <1>c, <1>h, <1>a, <1>w, <1>s, <1>x DEF Undisturbed
<1>5. oneAtATime => Kept(k, u, c, Own(c))
  BY <1>k, <1>u, <1>h, <1>w DEF Kept, Undisturbed
<1> QED BY <1>a, <1>k, <1>u, <1>s, <1>w, <1>2, <1>3, <1>m, <1>4, <1>5, Here, StepKeeps

\* ntlm.Server.Authenticate checks the answer against the challenge it has; the
\* process panics only if somebody else has come in between.
LEMMA authenticateKeeps ==
  ASSUME IInv, NEW c \in Conns, authenticate(c)
  PROVE  IInv'
<1> DEFINE n == Hashed(conn[c], 1)
<1>h. /\ conn[c] \in Links /\ client[c] \in Clients
      /\ conn \in [Conns -> Links] /\ client \in [Conns -> Clients]
      /\ Phase(conn[c], client[c]) /\ Counted(conn[c], client[c]) /\ Checked(c) /\ Made(c)
      /\ oneAtATime => Undisturbed(c) /\ Kept(conn[c], client[c], c, Own(c))
      /\ dialect \in Nat
  BY Here
<1>w. /\ conn[c].pc = "authenticate" /\ client[c].at = "authenticating"
      /\ client[c].at \in Busy /\ ~crashed
      /\ conn[c].use = FALSE /\ conn[c].session = None
  BY <1>h, Where DEF authenticate, At, Busy, Phase
<1>m. spnego \in Mechs /\ ntlm \in Servers
  BY <1>h, <1>w DEF Made
<1>n. /\ n \in Nat
      /\ conn[c].dialect = SMB311 => n = conn[c].hashed + 1
  BY <1>h DEF Hashed, Links
<1>u. /\ config' = config /\ dialect' = dialect
      /\ allowGuest' = allowGuest /\ cred' = cred /\ offer' = offer
  BY DEF authenticate, config
<1>1. PICK named \in BOOLEAN :
        /\ spnego' = [selected |-> spnego.selected \/ named]
        /\ crashed' = Panics(c, spnego'.selected)
        /\ IF crashed' THEN UNCHANGED <<ntlm, client, conn>>
           ELSE IF Authenticate(c)
           THEN /\ ntlm' = [ntlm EXCEPT !.session = c]
                /\ conn' = [conn EXCEPT ![c].pc = "user", ![c].hashed = n]
                /\ UNCHANGED client
           ELSE /\ client' = [client EXCEPT ![c].at = "denied"]
                /\ conn' = [conn EXCEPT ![c].pc = "ended", ![c].hashed = n]
                /\ UNCHANGED ntlm
  BY Zenon DEF authenticate
<1> HIDE DEF n
<1> DEFINE b == spnego.selected \/ named
<1>2. b \in BOOLEAN /\ (spnego.selected => b)
  BY Zenon
<1>3. spnego' = [selected |-> b]
  BY <1>1, Zenon
<1> HIDE DEF b
<1>4. spnego' \in Mechs /\ spnego'.selected = b
  BY <1>2, <1>3 DEF Mechs
<1>5. crashed' \in BOOLEAN
  BY <1>1, Zenon DEF Panics
<1>6. ASSUME oneAtATime
      PROVE  /\ ~crashed'
             /\ spnego'.selected
             /\ client[c].challenge # None /\ ntlm.cmsg = client[c].challenge
  <2>1. spnego.selected /\ client[c].challenge # None /\ ntlm.cmsg = client[c].challenge
    BY <1>6, <1>h, <1>w DEF Undisturbed
  <2>2. b
    BY <2>1, <1>2
  <2>3. spnego'.selected
    BY <2>2, <1>4, Zenon
  <2>4. ~Panics(c, spnego'.selected)
    BY <2>1, <2>3, Zenon DEF Panics
  <2>5. ~crashed'
    BY <2>4, <1>1, Zenon
  <2> QED BY <2>1, <2>3, <2>5
<1>7. CASE crashed'
  <2>1. ~oneAtATime
    BY <1>6, <1>7
  <2>2. /\ ntlm' = ntlm /\ client' = [client EXCEPT ![c] = client[c]]
        /\ conn' = [conn EXCEPT ![c] = conn[c]]
        /\ conn'[c] = conn[c] /\ client'[c] = client[c]
    BY <1>1, <1>7, <1>h
  <2>3. Checked(c)' /\ Made(c)'
    BY <2>2, <1>4, <1>m, <1>h, <1>w DEF Checked, Made
  <2> QED BY <2>1, <2>2, <2>3, <1>h, <1>m, <1>4, <1>5, <1>u, StepKeeps
<1>8. CASE ~crashed' /\ Authenticate(c)
  <2> DEFINE k == [conn[c] EXCEPT !.pc = "user", !.hashed = n]
  <2>1. /\ ntlm' = [ntlm EXCEPT !.session = c]
        /\ client' = [client EXCEPT ![c] = client[c]]
        /\ conn' = [conn EXCEPT ![c] = k]
    BY <1>1, <1>8, <1>h
  <2>2. ntlm' \in Servers /\ ntlm'.session = c /\ ntlm'.cmsg = ntlm.cmsg
    BY <2>1, <1>m DEF Servers
  <2>3. /\ k \in Links /\ k.pc = "user" /\ k.state = conn[c].state
        /\ k.use = FALSE /\ k.session = None /\ k.key = conn[c].key
        /\ k.dialect = conn[c].dialect /\ k.hashed = n
    BY <1>h, <1>n, <1>w DEF Links, Steps
  <2> HIDE DEF k
  <2>4. conn'[c] = k /\ client'[c] = client[c]
    BY <2>1, <1>h
  <2>5. Phase(k, client[c]) /\ Counted(k, client[c])
    BY <2>3, <1>h, <1>w, <1>n DEF Phase, Counted, Clients, SMB311
  <2>6. Proven(c)
    BY <1>8 DEF Authenticate, Proven
  <2>7. Checked(c)'
    BY <2>6, <1>u DEF Checked, Proven
  <2>8. Made(c)'
    BY <2>2, <1>4 DEF Made
  <2>9. oneAtATime => Undisturbed(c)'
    BY <2>2, <2>3, <2>4, <1>6, <1>w DEF Undisturbed
  <2>10. oneAtATime => Kept(k, client[c], c, Own(c))
    BY <2>3, <1>h, <1>w DEF Kept
  <2> QED BY <2>1, <2>2, <2>3, <2>5, <2>7, <2>8, <2>9, <2>10, <1>h, <1>w, <1>4, <1>5, <1>6, <1>u,
             StepKeeps
<1>9. CASE ~crashed' /\ ~Authenticate(c)
  <2> DEFINE k == [conn[c] EXCEPT !.pc = "ended", !.hashed = n]
             u == [client[c] EXCEPT !.at = "denied"]
  <2>1. /\ ntlm' = ntlm
        /\ client' = [client EXCEPT ![c] = u]
        /\ conn' = [conn EXCEPT ![c] = k]
    BY <1>1, <1>9, <1>h
  <2>3. /\ k \in Links /\ k.pc = "ended" /\ k.state = conn[c].state
        /\ k.use = FALSE /\ k.session = None /\ k.key = conn[c].key
        /\ k.dialect = conn[c].dialect /\ k.hashed = n
    BY <1>h, <1>n, <1>w DEF Links, Steps
  <2>u. /\ u \in Clients /\ u.at = "denied" /\ u.logins = client[c].logins
        /\ u.told = client[c].told /\ u.challenge = client[c].challenge
    BY <1>h DEF Clients, Resting
  <2> HIDE DEF k, u
  <2>4. conn'[c] = k /\ client'[c] = u
    BY <2>1, <1>h
  <2>5. Phase(k, u) /\ Counted(k, u)
    BY <2>3, <2>u, <1>h, <1>w DEF Phase, Counted
  <2>7. Checked(c)' /\ Made(c)'
    BY <2>3, <2>u, <2>4 DEF Checked, Made
  <2>9. Undisturbed(c)'
    BY <2>3, <2>u, <2>4 DEF Undisturbed
  <2>10. ASSUME oneAtATime PROVE Kept(k, u, c, Own(c))
    <3>1. cred[c] # "right"
      BY <1>6, <1>9, <2>10 DEF Authenticate
    <3> QED BY <3>1, <2>3, <2>u, <2>10, <1>h, <1>w DEF Kept
  <2> QED BY <2>1, <2>3, <2>u, <2>5, <2>7, <2>9, <2>10, <1>h, <1>m, <1>w, <1>4, <1>5, <1>6, <1>u,
             StepKeeps
<1> QED BY <1>7, <1>8, <1>9

\* The authenticator has a session for the user to be read from.
LEMMA readUserKeeps ==
  ASSUME IInv, NEW c \in Conns, readUser(c)
  PROVE  IInv'
<1>h. /\ conn[c] \in Links /\ client[c] \in Clients
      /\ conn \in [Conns -> Links] /\ client \in [Conns -> Clients]
      /\ Phase(conn[c], client[c]) /\ Counted(conn[c], client[c]) /\ Checked(c) /\ Made(c)
      /\ oneAtATime => Undisturbed(c) /\ Kept(conn[c], client[c], c, Own(c))
      /\ dialect \in Nat /\ allowGuest \in BOOLEAN /\ crashed \in BOOLEAN
  BY Here
<1>w. /\ conn[c].pc = "user" /\ client[c].at = "authenticating"
      /\ client[c].at \in Busy /\ ~crashed
      /\ conn[c].use = FALSE /\ conn[c].session = None
  BY <1>h, Where DEF readUser, At, Busy, Phase
<1>m. spnego \in Mechs /\ ntlm \in Servers /\ Proven(c)
  BY <1>h, <1>w DEF Made, Checked
<1>u. /\ config' = config /\ dialect' = dialect /\ spnego' = spnego /\ ntlm' = ntlm
      /\ allowGuest' = allowGuest /\ cred' = cred /\ offer' = offer
  BY DEF readUser, config, shared
<1>o. ASSUME oneAtATime
      PROVE  /\ spnego.selected /\ ntlm.session = c /\ ntlm.session # None
             /\ client[c].challenge # None /\ ntlm.cmsg = client[c].challenge
  BY <1>o, <1>h, <1>w, SessionsAssumption DEF Undisturbed
<1>x. ASSUME conn' = conn, client' = client, crashed' = TRUE, ~oneAtATime
      PROVE  IInv'
  <2>1. /\ conn' = [conn EXCEPT ![c] = conn[c]] /\ client' = [client EXCEPT ![c] = client[c]]
        /\ conn'[c] = conn[c] /\ client'[c] = client[c]
    BY <1>x, <1>h
  <2>2. Checked(c)' /\ Made(c)'
    BY <2>1, <1>h, <1>u DEF Checked, Made, Proven
  <2> QED BY <2>1, <2>2, <1>x, <1>h, <1>m, <1>u, StepKeeps
<1>1. CASE ntlm.session = None
  <2>1. conn' = conn /\ client' = client /\ crashed' = TRUE /\ ~oneAtATime
    BY <1>1, <1>o DEF readUser
  <2> QED BY <2>1, <1>x
<1>2. CASE ntlm.session # None
  <2> DEFINE p == IF allowGuest THEN "enter" ELSE "key"
             k == [conn[c] EXCEPT !.pc = p]
  <2>0. p \in {"enter", "key"} /\ crashed' = crashed /\ (p = "enter" => allowGuest) /\ (p = "key" => ~allowGuest)
    BY <1>2, <1>h DEF readUser
  <2>1. conn' = [conn EXCEPT ![c] = k] /\ client' = [client EXCEPT ![c] = client[c]]
    BY <1>2, <2>0, <1>h DEF readUser
  <2>2. /\ k \in Links /\ k.pc = p /\ k.state = conn[c].state
        /\ k.use = FALSE /\ k.session = None /\ k.key = conn[c].key
        /\ k.dialect = conn[c].dialect /\ k.hashed = conn[c].hashed
    BY <1>h, <1>w, <1>m, <2>0 DEF Links, Steps, Servers
  <2> HIDE DEF k, p
  <2>3. conn'[c] = k /\ client'[c] = client[c]
    BY <2>1, <1>h
  <2>4. Phase(k, client[c]) /\ Counted(k, client[c])
    BY <2>2, <1>h, <1>w, <2>0 DEF Phase, Counted
  <2>5. Checked(c)'
    BY <1>m, <1>u DEF Checked, Proven
  <2>6. Made(c)'
    BY <1>m, <1>u DEF Made
  <2>7. oneAtATime => Undisturbed(c)'
    BY <2>2, <2>3, <1>o, <1>u, <1>w, <2>0 DEF Undisturbed
  <2>8. oneAtATime => Kept(k, client[c], c, Own(c))
    BY <2>2, <1>h, <1>w, <2>0 DEF Kept, Own
  <2> QED BY <2>1, <2>2, <2>4, <2>5, <2>6, <2>7, <2>8, <1>h, <1>w, <1>m, <1>u, <1>2, <2>0, StepKeeps
<1> QED BY <1>1, <1>2

\* The key that is read is the client's own.
LEMMA readKeyKeeps ==
  ASSUME IInv, NEW c \in Conns, readKey(c)
  PROVE  IInv'
<1>h. /\ conn[c] \in Links /\ client[c] \in Clients
      /\ conn \in [Conns -> Links] /\ client \in [Conns -> Clients]
      /\ Phase(conn[c], client[c]) /\ Counted(conn[c], client[c]) /\ Checked(c) /\ Made(c)
      /\ oneAtATime => Undisturbed(c) /\ Kept(conn[c], client[c], c, Own(c))
      /\ dialect \in Nat /\ allowGuest \in BOOLEAN /\ crashed \in BOOLEAN
  BY Here
<1>w. /\ conn[c].pc = "key" /\ client[c].at = "authenticating"
      /\ client[c].at \in Busy /\ ~crashed
      /\ conn[c].use = FALSE /\ conn[c].session = None
  BY <1>h, Where DEF readKey, At, Busy, Phase
<1>m. spnego \in Mechs /\ ntlm \in Servers /\ Proven(c)
  BY <1>h, <1>w DEF Made, Checked
<1>u. /\ config' = config /\ dialect' = dialect /\ spnego' = spnego /\ ntlm' = ntlm
      /\ allowGuest' = allowGuest /\ cred' = cred /\ offer' = offer
  BY DEF readKey, config, shared
<1>o. ASSUME oneAtATime
      PROVE  /\ spnego.selected /\ ntlm.session = c /\ ntlm.session # None
             /\ client[c].challenge # None /\ ntlm.cmsg = client[c].challenge
  BY <1>o, <1>h, <1>w, SessionsAssumption DEF Undisturbed
<1>x. ASSUME conn' = conn, client' = client, crashed' = TRUE, ~oneAtATime
      PROVE  IInv'
  <2>1. /\ conn' = [conn EXCEPT ![c] = conn[c]] /\ client' = [client EXCEPT ![c] = client[c]]
        /\ conn'[c] = conn[c] /\ client'[c] = client[c]
    BY <1>x, <1>h
  <2>2. Checked(c)' /\ Made(c)'
    BY <2>1, <1>h, <1>u DEF Checked, Made, Proven
  <2> QED BY <2>1, <2>2, <1>x, <1>h, <1>m, <1>u, StepKeeps
<1>1. CASE ntlm.session = None \/ ~spnego.selected
  <2>1. conn' = conn /\ client' = client /\ crashed' = TRUE /\ ~oneAtATime
    BY <1>1, <1>o DEF readKey
  <2> QED BY <2>1, <1>x
<1>2. CASE ~(ntlm.session = None \/ ~spnego.selected)
  <2> DEFINE p == "enter"
             k == [conn[c] EXCEPT !.pc = p, !.key = ntlm.session]
  <2>0. crashed' = crashed
    BY <1>2 DEF readKey
  <2>1. conn' = [conn EXCEPT ![c] = k] /\ client' = [client EXCEPT ![c] = client[c]]
    BY <1>2, <2>0, <1>h DEF readKey
  <2>2. /\ k \in Links /\ k.pc = p /\ k.state = conn[c].state
        /\ k.use = FALSE /\ k.session = None /\ k.key = ntlm.session
        /\ k.dialect = conn[c].dialect /\ k.hashed = conn[c].hashed
    BY <1>h, <1>w, <1>m DEF Links, Steps, Servers
  <2> HIDE DEF k
  <2>3. conn'[c] = k /\ client'[c] = client[c]
    BY <2>1, <1>h
  <2>4. Phase(k, client[c]) /\ Counted(k, client[c])
    BY <2>2, <1>h, <1>w DEF Phase, Counted
  <2>5. Checked(c)'
    BY <1>m, <1>u DEF Checked, Proven
  <2>6. Made(c)'
    BY <1>m, <1>u DEF Made
  <2>7. oneAtATime => Undisturbed(c)'
    BY <2>2, <2>3, <1>o, <1>u, <1>w DEF Undisturbed
  <2>8. oneAtATime => Kept(k, client[c], c, Own(c))
    BY <2>2, <1>h, <1>w, <1>o DEF Kept, Own
  <2> QED BY <2>1, <2>2, <2>4, <2>5, <2>6, <2>7, <2>8, <1>h, <1>w, <1>m, <1>u, <1>2, <2>0, StepKeeps
<1> QED BY <1>1, <1>2

\* The session that is set has the keys of its client, and there is a signer for
\* its dialect.
LEMMA sessionServerSetupChallengeKeeps ==
  ASSUME IInv, NEW c \in Conns, sessionServerSetupChallenge(c)
  PROVE  IInv'
<1>h. /\ conn[c] \in Links /\ client[c] \in Clients
      /\ conn \in [Conns -> Links] /\ client \in [Conns -> Clients]
      /\ Phase(conn[c], client[c]) /\ Counted(conn[c], client[c]) /\ Checked(c) /\ Made(c)
      /\ oneAtATime => Undisturbed(c) /\ Kept(conn[c], client[c], c, Own(c))
      /\ dialect \in Nat /\ allowGuest \in BOOLEAN /\ crashed \in BOOLEAN
  BY Here
<1>w. /\ conn[c].pc = "enter" /\ client[c].at = "authenticating"
      /\ client[c].at \in Busy /\ ~crashed
      /\ conn[c].use = FALSE /\ conn[c].session = None
  BY <1>h, Where DEF sessionServerSetupChallenge, At, Busy, Phase
<1>m. spnego \in Mechs /\ ntlm \in Servers /\ Proven(c)
  BY <1>h, <1>w DEF Made, Checked
<1>u. /\ config' = config /\ dialect' = dialect /\ spnego' = spnego /\ ntlm' = ntlm
      /\ allowGuest' = allowGuest /\ cred' = cred /\ offer' = offer
  BY DEF sessionServerSetupChallenge, config, shared
<1>o. ASSUME oneAtATime
      PROVE  /\ spnego.selected /\ ntlm.session = c /\ ntlm.session # None
             /\ client[c].challenge # None /\ ntlm.cmsg = client[c].challenge
  BY <1>o, <1>h, <1>w, SessionsAssumption DEF Undisturbed
<1>x. ASSUME conn' = conn, client' = client, crashed' = TRUE, ~oneAtATime
      PROVE  IInv'
  <2>1. /\ conn' = [conn EXCEPT ![c] = conn[c]] /\ client' = [client EXCEPT ![c] = client[c]]
        /\ conn'[c] = conn[c] /\ client'[c] = client[c]
    BY <1>x, <1>h
  <2>2. Checked(c)' /\ Made(c)'
    BY <2>1, <1>h, <1>u DEF Checked, Made, Proven
  <2> QED BY <2>1, <2>2, <1>x, <1>h, <1>m, <1>u, StepKeeps
<1>d. oneAtATime => conn[c].dialect # SMB2
  BY <1>h, <1>w, Selected DEF Kept, IInv, TypeOK
<1>1. CASE ~allowGuest /\ conn[c].dialect = SMB2
  <2>1. conn' = conn /\ client' = client /\ crashed' = TRUE /\ ~oneAtATime
    BY <1>1, <1>d DEF sessionServerSetupChallenge
  <2> QED BY <2>1, <1>x
<1>2. CASE ~(~allowGuest /\ conn[c].dialect = SMB2)
  <2> DEFINE s == [key |-> conn[c].key, dialect |-> conn[c].dialect, hashed |-> conn[c].hashed]
             k == [conn[c] EXCEPT !.pc = "idle", !.state = "active", !.use = TRUE,
                                  !.key = None, !.session = s]
             u == [client[c] EXCEPT !.at = "active"]
  <2>1. /\ conn' = [conn EXCEPT ![c] = k] /\ client' = [client EXCEPT ![c] = u]
        /\ crashed' = crashed
    BY <1>2, <1>h DEF sessionServerSetupChallenge
  <2>s. /\ s \in Keys /\ s.key = conn[c].key
        /\ s.dialect = conn[c].dialect /\ s.hashed = conn[c].hashed
    BY <1>h DEF Links, Keys
  <2> HIDE DEF s
  <2>2. /\ k \in Links /\ k.pc = "idle" /\ k.state = "active"
        /\ k.use = TRUE /\ k.session = s /\ k.key = None
        /\ k.dialect = conn[c].dialect /\ k.hashed = conn[c].hashed
    BY <1>h, <2>s DEF Links, Steps
  <2>u. /\ u \in Clients /\ u.at = "active" /\ u.logins = client[c].logins
        /\ u.told = client[c].told /\ u.challenge = client[c].challenge
    BY <1>h DEF Clients, Resting
  <2> HIDE DEF k, u
  <2>3. conn'[c] = k /\ client'[c] = u
    BY <2>1, <1>h
  <2>4. Phase(k, u) /\ Counted(k, u)
    BY <2>2, <2>s, <2>u, <1>h, <1>w DEF Phase, Counted
  <2>5. Checked(c)'
    BY <1>m, <1>u DEF Checked, Proven
  <2>6. Made(c)'
    BY <1>m, <1>u DEF Made
  <2>7. oneAtATime => Undisturbed(c)'
    BY <2>2, <2>u, <2>3 DEF Undisturbed
  <2>8. oneAtATime => Kept(k, u, c, Own(c))
    BY <2>2, <2>s, <2>u, <1>h, <1>w DEF Kept
  <2> QED BY <2>1, <2>2, <2>u, <2>4, <2>5, <2>6, <2>7, <2>8, <1>h, <1>w, <1>m, <1>u, StepKeeps
<1> QED BY <1>1, <1>2

-----------------------------------------------------------------------------
(* The theorems.                                                               *)

\* The invariant holds at first.
LEMMA InitInv == Init => IInv
<1> SUFFICES ASSUME Init PROVE IInv
  OBVIOUS
<1> DEFINE u0 == [at |-> "new", told |-> 0, challenge |-> None, logins |-> 0]
           k0 == [pc |-> "idle", state |-> "negotiate", use |-> FALSE, dialect |-> 0,
                  hashed |-> 0, key |-> None, session |-> None]
<1>1. client = [c \in Conns |-> u0] /\ conn = [c \in Conns |-> k0] /\ crashed = FALSE
  BY DEF Init
<1>2. /\ u0 \in Clients /\ u0.at = "new" /\ u0.logins = 0
  BY SessionsAssumption DEF Clients, Resting, Challenges
<1>3. /\ k0 \in Links /\ k0.pc = "idle" /\ k0.state = "negotiate" /\ k0.use = FALSE
      /\ k0.dialect = 0 /\ k0.hashed = 0 /\ k0.key = None /\ k0.session = None
  BY DEF Links, Steps
<1> HIDE DEF u0, k0
<1>4. \A c \in Conns : client[c] = u0 /\ conn[c] = k0
  BY <1>1
<1>5. TypeOK
  BY <1>1, <1>2, <1>3 DEF Init, TypeOK
<1>6. Phase(k0, u0) /\ Counted(k0, u0)
  BY <1>2, <1>3 DEF Phase, Counted
<1>7. \A c \in Conns : Checked(c) /\ Made(c)
  BY <1>2, <1>3, <1>4 DEF Checked, Made
<1>8. \A c \in Conns : Undisturbed(c) /\ Kept(k0, u0, c, Own(c))
  BY <1>2, <1>3, <1>4 DEF Undisturbed, Kept
<1>9. Alone
  BY <1>2, <1>4 DEF Alone, Busy
<1>10. OneAtATime
  BY <1>1, <1>4, <1>8, <1>9 DEF OneAtATime
<1> QED BY <1>4, <1>5, <1>6, <1>7, <1>10 DEF IInv

\* Nothing of the invariant changes when no variable does.
LEMMA StutterKeeps ==
  ASSUME IInv, UNCHANGED vars
  PROVE  IInv'
<1>1. /\ allowGuest' = allowGuest /\ oneAtATime' = oneAtATime /\ cred' = cred /\ offer' = offer
      /\ dialect' = dialect /\ spnego' = spnego /\ ntlm' = ntlm
      /\ client' = client /\ conn' = conn /\ crashed' = crashed
  BY DEF vars, config, shared
<1> QED BY <1>1 DEF IInv, TypeOK, Checked, Made, Proven, OneAtATime, Alone, Undisturbed, Kept, Own

\* Every step keeps the invariant.
LEMMA NextKeeps == IInv /\ [Next]_vars => IInv'
<1> SUFFICES ASSUME IInv, [Next]_vars PROVE IInv'
  OBVIOUS
<1>1. CASE UNCHANGED vars
  BY <1>1, StutterKeeps
<1>2. ASSUME NEW c \in Conns, Client(c) PROVE IInv'
  <2>1. CASE logoff(c)
    BY <2>1, StutterKeeps DEF logoff
  <2> QED BY <1>2, <2>1, SendSmb1Keeps, SendNegotiateKeeps, SendSetupKeeps, SendAuthenticateKeeps
          DEF Client
<1>3. ASSUME NEW c \in Conns, Server(c) PROVE IInv'
  BY <1>3, negotiateSmb1Keeps, respondSmb1Keeps, selectDialectKeeps, takeDialectKeeps,
     makeResponseKeeps, newNtlmKeeps, sessionServerSetupKeeps, authenticateKeeps, readUserKeeps,
     readKeyKeeps, sessionServerSetupChallengeKeeps DEF Server
<1> QED BY <1>1, <1>2, <1>3 DEF Next

\* The inductive invariant is an invariant of the specification.
THEOREM Invariance == Spec => []IInv
  BY InitInv, NextKeeps, PTL DEF Spec

\* Every variable keeps its type, however negotiations and logins overlap: no
\* handler leaves a half-made session, mechanism or authenticator behind.
THEOREM TypeCorrect == Spec => []TypeOK
<1>1. IInv => TypeOK
  BY DEF IInv
<1> QED BY <1>1, Invariance, PTL

\* However many logins overlap on the shared negotiator and authenticator, only a
\* client with the right credentials gets a session, or, where guests are
\* allowed, one with none.
THEOREM SessionsProven == Spec => []OnlyProven
<1>1. IInv => OnlyProven
  BY DEF IInv, Checked, Proven, OnlyProven
<1> QED BY <1>1, Invariance, PTL

\* Clients that log in one at a time, in any order and any number of times, never
\* make the server panic, and are never denied with the right credentials.
THEOREM AloneNotDenied == Spec => []AloneAdmitted
<1>1. IInv => AloneAdmitted
  BY DEF IInv, OneAtATime, Kept, AloneAdmitted
<1> QED BY <1>1, Invariance, PTL

\* Clients that log in one at a time agree with the server on a dialect and on
\* the keys: its own session key and, for 3.1.1, the five packets of its login.
THEOREM AloneKeysAgree == Spec => []AloneAgrees
<1>1. IInv => AloneAgrees
  <2> SUFFICES ASSUME IInv, oneAtATime, NEW c \in Conns, conn[c].session # None
               PROVE  /\ conn[c].session.dialect = client[c].told
                      /\ Spoken(offer[c]) => conn[c].session.dialect \in offer[c]
                      /\ conn[c].session.key = (IF allowGuest THEN None ELSE c)
                      /\ conn[c].session.dialect = SMB311 /\ client[c].logins = 1
                           => conn[c].session.hashed = 5
    BY DEF AloneAgrees
  <2>1. /\ Phase(conn[c], client[c]) /\ Counted(conn[c], client[c])
        /\ Kept(conn[c], client[c], c, Own(c))
    BY Here
  <2>2. /\ client[c].at = "active"
        /\ conn[c].session.dialect = conn[c].dialect
        /\ conn[c].session.hashed = conn[c].hashed
    BY <2>1 DEF Phase
  <2>3. Spoken(offer[c]) => Select(offer[c]) \in offer[c]
    BY Selected DEF IInv, TypeOK
  <2> QED BY <2>1, <2>2, <2>3 DEF Kept, Counted, Own
<1> QED BY <1>1, Invariance, PTL
=================================================================================
