------------------------------ MODULE MCMemoryFS ------------------------------
(* Instances of MemoryFS for TLC. *)
EXTENDS MemoryFS, TLC

CONSTANTS c1, c2, h1, h2, a, b

OneClient == {c1}
TwoClients == {c1, c2}
TwoHandles == {h1, h2}
TwoNames == {a, b}
\* A plain share whose operations have a context, and a honeypot without one.
PlainAndHoneypot == {<<FALSE, TRUE>>, <<TRUE, FALSE>>}
MayBlock == {"proceed", "block"}

\* Clients, handles and names are interchangeable.
SymmetryFS == Permutations(TwoClients) \cup Permutations(TwoHandles)
                \cup Permutations(TwoNames)

\* No action reads the path of a handle or the history: for properties that do
\* not either, states that differ in them only are alike. (TypeOK asks that a
\* handle's path is one of Paths, whichever.)
WithoutPaths ==
  <<mode, treeVars, dataVars, pc, arg, panicked,
    [h \in Handles |-> IF open[h] = None THEN None ELSE open[h].node]>>
=============================================================================
