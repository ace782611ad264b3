------------------------------- MODULE OpenFiles -------------------------------
(* What a server of files promises about handles. A handle is issued once, is  *)
(* open until it is closed, and stays closed. A call on a file begins while    *)
(* its handle is open; the file system takes it as long as that is so, and     *)
(* refuses it for no other reason than that the handle was closed meanwhile. A *)
(* call that was taken may end after the handle was closed.                    *)

CONSTANTS
  Handles,   \* handles
  Threads,   \* who may call
  None

VARIABLES
  phase,     \* of each handle: "unused", "open" or "closed"
  call       \* of each thread: the handle it works on, or None
             \*   and whether the file system has taken the call

vars == <<phase, call>>

Calls == {None} \cup [h : Handles, taken : BOOLEAN]

Init ==
  /\ phase = [h \in Handles |-> "unused"]
  /\ call = [t \in Threads |-> None]

Issue(h) ==
  /\ phase[h] = "unused"
  /\ phase' = [phase EXCEPT ![h] = "open"]
  /\ UNCHANGED call

Close(h) ==
  /\ phase[h] = "open"
  /\ phase' = [phase EXCEPT ![h] = "closed"]
  /\ UNCHANGED call

Begin(t, h) ==
  /\ call[t] = None
  /\ phase[h] = "open"
  /\ call' = [call EXCEPT ![t] = [h |-> h, taken |-> FALSE]]
  /\ UNCHANGED phase

Take(t) ==
  /\ call[t] # None
  /\ ~call[t].taken
  /\ phase[call[t].h] = "open"
  /\ call' = [call EXCEPT ![t].taken = TRUE]
  /\ UNCHANGED phase

Refuse(t) ==
  /\ call[t] # None
  /\ ~call[t].taken
  /\ phase[call[t].h] = "closed"
  /\ call' = [call EXCEPT ![t] = None]
  /\ UNCHANGED phase

End(t) ==
  /\ call[t] # None
  /\ call[t].taken
  /\ call' = [call EXCEPT ![t] = None]
  /\ UNCHANGED phase

Next ==
  \/ \E h \in Handles : Issue(h) \/ Close(h)
  \/ \E t \in Threads : Take(t) \/ Refuse(t) \/ End(t) \/ \E h \in Handles : Begin(t, h)

Spec == Init /\ [][Next]_vars
================================================================================
