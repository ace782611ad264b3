----------------------------- MODULE MCGhostFiles -----------------------------
(* Instances of GhostFiles for TLC. *)
EXTENDS GhostFiles, TLC

CONSTANTS s1, s2, p1, p2, p3, n1, n2, n3, h1, h2

OneSession == {s1}
TwoSessions == {s1, s2}
TwoPaths == {p1, p2}
ThreePaths == {p1, p2, p3}
NoTree == {}
SecondInTree == {p2}
SecondAndThird == {p2, p3}
OneNode == {n1}
TwoNodes == {n1, n2}
ThreeNodes == {n1, n2, n3}
OneHandle == {h1}
TwoHandles == {h1, h2}

\* A caller that sets the operation context for every call, as the tests of
\* memoryshare do; the server sets it for writes only.
AllOps == {"open", "close"}
ServerOps == {}

\* The counters lose updates when sessions race (see AccountingAtRest) and then
\* drift without end; a state past these bounds is checked, not continued.
Drift == 1
BoundedDrift ==
  /\ global \in 0..(MaxGlobal + Drift)
  /\ \A s \in Sessions : usage[s] # None => usage[s] <= MaxMem

\* One session uses every path, the other shares one of them; each has a handle.
UnevenSessions ==
  \A h \in Handles : openFiles[h] # None =>
    IF h = h1 THEN openFiles[h].session = s1
    ELSE openFiles[h].session = s2 /\ openFiles[h].path = p1

\* Sessions, free nodes and paths without a file are interchangeable; so are the
\* two files of the share.
SymmetryTurns == Permutations(TwoSessions) \cup Permutations(ThreeNodes)
                   \cup Permutations(ThreePaths)
SymmetryUneven == Permutations(SecondAndThird)
=============================================================================
