------------------------------ MODULE MCNodeLocks ------------------------------
(* Instances of NodeLocks for TLC. *)
EXTENDS NodeLocks, TLC

CONSTANTS t1, t2, root, dir, file, dir2, file2, a, b

TwoThreads == {t1, t2}

\* A root with a directory and a file, and a directory and a file to make.
SmallNodes == {root, dir, file}
AllNodes == {root, dir, file, dir2, file2}
SpareNodes == {dir2, file2}
SomeFiles == {file, file2}
OneFile == {file}
NoNodes == {}
TwoNames == {a, b}
SmallTree ==
  [n \in Nodes |-> [m \in Names |->
    IF n = root /\ m = a THEN dir ELSE IF n = root /\ m = b THEN file ELSE None]]

\* Rename is kept from what it does not get on with.
Together ==
  {{"readdir", "unlink", "addfile", "mkdir", "find"}, {"get", "set", "find", "rename"}}
DirectoryOps == {{"readdir", "rename"}}

SymmetryLocks == Permutations(Threads)
================================================================================
