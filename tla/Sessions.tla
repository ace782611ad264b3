-------------------------------- MODULE Sessions --------------------------------
(* Negotiation and session set-up: of server/server.go the negotiator and the  *)
(* handlers of NEGOTIATE, SESSION_SETUP and LOGOFF, with spnego.go,            *)
(* authenticator.go and internal/ntlm/server.go behind them. The dispatchers   *)
(* of all connections share one negotiator (SpecifiedDialect, Spnego) and one  *)
(* authenticator (ntlm), so that a handler is several steps, one for each      *)
(* access to them; the loop over the offered dialects and a method of          *)
(* ntlm.Server are one step each.                                              *)
(*                                                                             *)
(* The client is external: it negotiates, logs in with the credentials it has, *)
(* and may log in again or negotiate again once it is logged in.               *)
EXTENDS Naturals

CONSTANTS
  Conns,      \* connections
  Offers,     \* sets of dialects a client may offer
  MaxLogins,  \* bound on the logins of a client
  None

SMB2 == 767     \* 0x2FF, the wildcard
SMB202 == 514   \* 0x202
SMB210 == 528   \* 0x210
SMB300 == 768   \* 0x300
SMB311 == 785   \* 0x311

\* An NTLM challenge: which login of which client it was made for.
Challenges == (Conns \X Nat) \cup {None}

\* What the negotiator, the authenticator and a connection keep of a login:
\* Spnego, ntlm.Server, and the session with the keys derived for it.
Mechs == [selected : BOOLEAN]
Servers == [cmsg : Challenges, session : Conns \cup {None}]
Keys == [key : Conns \cup {None}, dialect : Nat, hashed : Nat]

Steps == {"idle", "smb1", "smb1 response", "select", "take", "respond", "setup",
          "challenge", "authenticate", "user", "key", "enter", "ended"}

Links == [pc : Steps, state : {"negotiate", "challenge", "active"}, use : BOOLEAN,
          dialect : Nat, hashed : Nat, key : Conns \cup {None},
          session : Keys \cup {None}]

Resting == {"new", "active", "denied"}
Busy == {"smb1", "negotiating", "negotiated", "setup", "challenged", "authenticating"}

Clients == [at : Resting \cup Busy, told : Nat, challenge : Challenges,
            logins : 0..MaxLogins]

ASSUME SessionsAssumption ==
  /\ \A o \in Offers : o \subseteq Nat /\ o # {}
  /\ MaxLogins \in Nat
  /\ None \notin Conns
  /\ None \notin (Conns \X Nat) \cup Mechs \cup Servers \cup Keys

VARIABLES
  allowGuest,   \* Config.AllowGuest
  oneAtATime,   \* clients log in one after the other, not at the same time
  cred,         \* of each client: its credentials are "right", "wrong" or "none"
  offer,        \* of each client: the dialects it offers
  client,       \* of each client: how far it is, and what it was told
  dialect,      \* negotiator.SpecifiedDialect, 0 if unknown
  spnego,       \* negotiator.Spnego: whether it has a selectedMech, or None
  ntlm,         \* authenticator.ntlm: its cmsg and whose session it has, or None
  conn,         \* of each connection: what the server knows
  crashed       \* the process has panicked

config == <<allowGuest, oneAtATime, cred, offer>>
shared == <<dialect, spnego, ntlm>>
vars == <<config, shared, client, conn, crashed>>

Init ==
  /\ allowGuest \in BOOLEAN /\ oneAtATime \in BOOLEAN
  /\ cred \in [Conns -> {"right", "wrong", "none"}]
  /\ offer \in [Conns -> Offers]
  /\ client = [c \in Conns |-> [at |-> "new", told |-> 0, challenge |-> None, logins |-> 0]]
  /\ dialect = 0 /\ spnego = None /\ ntlm = None
  /\ conn = [c \in Conns |-> [pc |-> "idle", state |-> "negotiate", use |-> FALSE,
                              dialect |-> 0, hashed |-> 0, key |-> None, session |-> None]]
  /\ crashed = FALSE

-----------------------------------------------------------------------------
(* The client.                                                                 *)

MayBegin(c) ==
  /\ ~crashed /\ conn[c].pc = "idle"
  /\ oneAtATime => \A d \in Conns \ {c} : client[d].at \in Resting

\* Also the reset that negotiate and sessionSetup begin with: the session of a
\* client that negotiates or logs in again is dropped.
Handle(c, pc) ==
  conn' = [conn EXCEPT ![c] =
    IF @.use THEN [@ EXCEPT !.pc = pc, !.use = FALSE, !.session = None, !.state = "negotiate"]
    ELSE [@ EXCEPT !.pc = pc]]

SendSmb1(c) ==
  /\ MayBegin(c) /\ client[c].at = "new" /\ client[c].told = 0
  /\ Handle(c, "smb1")
  /\ client' = [client EXCEPT ![c].at = "smb1"]
  /\ UNCHANGED <<config, shared, crashed>>

SendNegotiate(c) ==
  /\ MayBegin(c) /\ client[c].at \in {"new", "active"}
  /\ client[c].logins < MaxLogins
  /\ Handle(c, "select")
  /\ client' = [client EXCEPT ![c].at = "negotiating"]
  /\ UNCHANGED <<config, shared, crashed>>

SendSetup(c) ==
  /\ ~crashed /\ conn[c].pc = "idle"
  /\ \/ client[c].at = "negotiated"
     \/ client[c].at = "active" /\ MayBegin(c) /\ client[c].logins < MaxLogins
  /\ Handle(c, "setup")
  /\ client' = [client EXCEPT ![c].at = "setup", ![c].logins = @ + 1]
  /\ UNCHANGED <<config, shared, crashed>>

SendAuthenticate(c) ==
  /\ ~crashed /\ conn[c].pc = "idle" /\ client[c].at = "challenged"
  /\ Handle(c, "authenticate")
  /\ client' = [client EXCEPT ![c].at = "authenticating"]
  /\ UNCHANGED <<config, shared, crashed>>

\* LOGOFF is answered; the session stays what it is.
logoff(c) ==
  /\ ~crashed /\ conn[c].pc = "idle" /\ client[c].at = "active"
  /\ UNCHANGED vars

-----------------------------------------------------------------------------
(* The server.                                                                 *)

At(c, pc) == ~crashed /\ conn[c].pc = pc

\* calcPreauthHash, of n packets: it counts for dialect 3.1.1 only.
Hashed(k, n) == IF k.dialect = SMB311 THEN k.hashed + n ELSE k.hashed

\* The packet of an old client: no dialect for the connection, no Spnego.
negotiateSmb1(c) ==
  /\ At(c, "smb1")
  /\ dialect' = SMB2
  /\ conn' = [conn EXCEPT ![c].pc = "smb1 response"]
  /\ UNCHANGED <<config, spnego, ntlm, client, crashed>>

respondSmb1(c) ==
  /\ At(c, "smb1 response")
  /\ client' = [client EXCEPT ![c].at = "new", ![c].told = dialect]
  /\ conn' = [conn EXCEPT ![c].pc = "idle"]
  /\ UNCHANGED <<config, shared, crashed>>

\* The highest dialect offered above the wildcard, or else 2.1.
Select(o) ==
  LET above == {d \in o : d > SMB2 /\ d <= SMB311} IN
  IF above = {} THEN SMB210 ELSE CHOOSE d \in above : \A e \in above : e <= d

selectDialect(c) ==
  /\ At(c, "select")
  /\ dialect' = Select(offer[c])
  /\ conn' = [conn EXCEPT ![c].pc = "take"]
  /\ UNCHANGED <<config, spnego, ntlm, client, crashed>>

\* The connection takes the dialect from the negotiator; for 3.1.1 the request
\* is hashed with its contexts. The negotiator has a new Spnego.
takeDialect(c) ==
  /\ At(c, "take")
  /\ LET k == [conn[c] EXCEPT !.dialect = dialect] IN
     conn' = [conn EXCEPT ![c] = [k EXCEPT !.hashed = Hashed(k, 1), !.pc = "respond"]]
  /\ spnego' = [selected |-> FALSE]
  /\ UNCHANGED <<config, dialect, ntlm, client, crashed>>

makeResponse_Unhashed(c) ==
  /\ At(c, "respond")
  /\ client' = [client EXCEPT ![c].at = "negotiated", ![c].told = dialect]
  /\ conn' = [conn EXCEPT ![c].pc = "idle"]
  /\ UNCHANGED <<config, shared, crashed>>

\* The response names the dialect the negotiator has now.
makeResponse(c) ==
  /\ At(c, "respond")
  /\ client' = [client EXCEPT ![c].at = "negotiated", ![c].told = dialect]
  /\ conn' = [conn EXCEPT ![c].pc = "idle", ![c].hashed = Hashed(conn[c], 1)]
  /\ UNCHANGED <<config, shared, crashed>>

\* Spnego.challenge chooses the mechanism, which makes a new ntlm.Server.
newNtlm(c) ==
  /\ At(c, "setup")
  /\ conn[c].state = "negotiate"
  /\ spnego' = [selected |-> TRUE]
  /\ ntlm' = [cmsg |-> None, session |-> None]
  /\ conn' = [conn EXCEPT ![c].pc = "challenge", ![c].hashed = Hashed(conn[c], 1)]
  /\ UNCHANGED <<config, dialect, client, crashed>>

sessionServerSetup_Unkept(c) ==
  /\ At(c, "challenge")
  /\ client' = [client EXCEPT ![c].at = "challenged", ![c].challenge = <<c, client[c].logins>>]
  /\ conn' = [conn EXCEPT ![c].pc = "idle", ![c].state = "challenge",
                          ![c].hashed = Hashed(conn[c], 1)]
  /\ UNCHANGED <<config, shared, crashed>>

\* ntlm.Server.Challenge, a random number: here the login it is for.
sessionServerSetup(c) ==
  /\ At(c, "challenge")
  /\ LET challenge == <<c, client[c].logins>> IN
     /\ ntlm' = [ntlm EXCEPT !.cmsg = challenge]
     /\ client' = [client EXCEPT ![c].at = "challenged", ![c].challenge = challenge]
  /\ conn' = [conn EXCEPT ![c].pc = "idle", ![c].state = "challenge",
                          ![c].hashed = Hashed(conn[c], 1)]
  /\ UNCHANGED <<config, dialect, spnego, crashed>>

Authenticate_AnyUser(c) == cred[c] # "none"

\* ntlm.Server.Authenticate: the response fits the password (the empty one for
\* a user unknown where guests are allowed) and the challenge last made, or
\* there are no credentials and guests are allowed.
Authenticate(c) ==
  \/ cred[c] = "right" /\ client[c].challenge = ntlm.cmsg
  \/ cred[c] = "none" /\ allowGuest

\* The slice of a challenge not made yet, and the call on a mechanism not chosen
\* yet, panic.
Panics(c, selected) == ~selected \/ (cred[c] # "none" /\ ntlm.cmsg = None)

\* A client that names its mechanism again chooses it again.
authenticate(c) ==
  /\ At(c, "authenticate")
  /\ conn[c].state = "challenge"
  /\ \E named \in BOOLEAN :
       /\ spnego' = [selected |-> spnego.selected \/ named]
       /\ crashed' = Panics(c, spnego'.selected)
       /\ IF crashed' THEN UNCHANGED <<ntlm, client, conn>>
          ELSE IF Authenticate(c)
          THEN /\ ntlm' = [ntlm EXCEPT !.session = c]
               /\ conn' = [conn EXCEPT ![c].pc = "user", ![c].hashed = Hashed(conn[c], 1)]
               /\ UNCHANGED client
          ELSE /\ client' = [client EXCEPT ![c].at = "denied"]
               /\ conn' = [conn EXCEPT ![c].pc = "ended", ![c].hashed = Hashed(conn[c], 1)]
               /\ UNCHANGED ntlm
  /\ UNCHANGED <<config, dialect>>

\* The user of the session ntlm has: nil if it was replaced.
readUser(c) ==
  /\ At(c, "user")
  /\ IF ntlm.session = None THEN crashed' = TRUE /\ UNCHANGED conn
     ELSE /\ conn' = [conn EXCEPT ![c].pc = IF allowGuest THEN "enter" ELSE "key"]
          /\ UNCHANGED crashed
  /\ UNCHANGED <<config, shared, client>>

readKey_Challenge(c) ==
  /\ At(c, "key")
  /\ conn' = [conn EXCEPT ![c].pc = "enter", ![c].key = ntlm.cmsg]
  /\ UNCHANGED <<config, shared, client, crashed>>

\* The session key, and those derived from it with the dialect and the hash.
readKey(c) ==
  /\ At(c, "key")
  /\ IF ntlm.session = None \/ ~spnego.selected THEN crashed' = TRUE /\ UNCHANGED conn
     ELSE /\ conn' = [conn EXCEPT ![c].pc = "enter", ![c].key = ntlm.session]
          /\ UNCHANGED crashed
  /\ UNCHANGED <<config, shared, client>>

\* The session is set and the response signed with it (there is no signer for
\* the wildcard dialect); then the receiver may use it.
sessionServerSetupChallenge(c) ==
  /\ At(c, "enter")
  /\ LET k == conn[c] IN
     IF ~allowGuest /\ k.dialect = SMB2 THEN crashed' = TRUE /\ UNCHANGED <<client, conn>>
     ELSE /\ conn' = [conn EXCEPT ![c] = [k EXCEPT !.pc = "idle", !.state = "active",
                        !.use = TRUE, !.key = None,
                        !.session = [key |-> k.key, dialect |-> k.dialect,
                                     hashed |-> k.hashed]]]
          /\ client' = [client EXCEPT ![c].at = "active"]
          /\ UNCHANGED crashed
  /\ UNCHANGED <<config, shared>>

Client(c) ==
  SendSmb1(c) \/ SendNegotiate(c) \/ SendSetup(c) \/ SendAuthenticate(c) \/ logoff(c)

Server(c) ==
  \/ negotiateSmb1(c) \/ respondSmb1(c)
  \/ selectDialect(c) \/ takeDialect(c) \/ makeResponse(c)
  \/ newNtlm(c) \/ sessionServerSetup(c)
  \/ authenticate(c) \/ readUser(c) \/ readKey(c) \/ sessionServerSetupChallenge(c)

Next == \E c \in Conns : Client(c) \/ Server(c)

Spec == Init /\ [][Next]_vars

-----------------------------------------------------------------------------
(* Properties.                                                                 *)

\* Every variable has its type.
TypeOK ==
  /\ allowGuest \in BOOLEAN /\ oneAtATime \in BOOLEAN /\ crashed \in BOOLEAN
  /\ cred \in [Conns -> {"right", "wrong", "none"}]
  /\ offer \in [Conns -> Offers]
  /\ dialect \in Nat
  /\ spnego \in Mechs \cup {None}
  /\ ntlm \in Servers \cup {None}
  /\ client \in [Conns -> Clients]
  /\ conn \in [Conns -> Links]

\* However logins overlap on the shared negotiator and authenticator, a session
\* is given to a client with the right credentials only, or, where guests are
\* allowed, to one with none.
OnlyProven ==
  \A c \in Conns :
    conn[c].use => cred[c] = "right" \/ (cred[c] = "none" /\ allowGuest)

\* Clients that log in at the same time do not disturb each other (README.md:11:
\* "Handles 1000+ concurrent sessions"): the server does not panic and denies no
\* client the credentials of which are right.
ConcurrentAdmitted ==
  ~crashed /\ \A c \in Conns : client[c].at = "denied" => cred[c] # "right"

\* As long as clients log in one at a time, the server does not panic and denies
\* no client the credentials of which are right, at its first login and at
\* further ones, whatever sessions the others have.
AloneAdmitted ==
  oneAtATime =>
    ~crashed /\ \A c \in Conns : client[c].at = "denied" => cred[c] # "right"

\* The client offers a dialect that the negotiator selects.
Spoken(o) == \E d \in o : d = SMB210 \/ (d > SMB2 /\ d <= SMB311)

\* As long as clients log in one at a time, client and server agree on a dialect,
\* one the client offered if it offered any that the server selects (a client of
\* 2.0.2 only is told 2.1), and derive the same keys: from the client's own
\* session key and, for 3.1.1, the five packets of its login. (A further 3.1.1
\* login on the connection goes on with the hash of the one before, and does not.)
AloneAgrees ==
  oneAtATime =>
    \A c \in Conns :
      LET s == conn[c].session IN
      s # None =>
        /\ s.dialect = client[c].told
        /\ Spoken(offer[c]) => s.dialect \in offer[c]
        /\ s.key = (IF allowGuest THEN None ELSE c)
        /\ s.dialect = SMB311 /\ client[c].logins = 1 => s.hashed = 5
=================================================================================
