----------------------------- MODULE MCConnection -----------------------------
(* Instances of Connection for TLC. *)
EXTENDS Connection, TLC

CONSTANTS m1, m2

Msgs2 == {m1, m2}
AsyncKinds == {"read", "sync"}
\* Alone a read is asynchronous, in a compound the dispatcher answers it.
ReadKinds == {"read"}

\* Requests are interchangeable; sound for the runs that check invariants only.
Symmetry2 == Permutations(Msgs2)
=============================================================================
