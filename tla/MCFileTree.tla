------------------------------ MODULE MCFileTree ------------------------------
(* An instance of FileTree for TLC: one connection works on files only, the    *)
(* other also connects and disconnects, uses the pipe and sends every other    *)
(* command.                                                                    *)
EXTENDS FileTree, TLC

CONSTANTS c1, c2

Create(disp, dir, stream, durable) ==
  [op |-> "create", disp |-> disp, dir |-> dir, stream |-> stream, durable |-> durable]
Op(o) == [op |-> o]
Connect(p) == [op |-> "connect", path |-> p]

MCConns == {c1, c2}
MCShares == {"share"}

OnFilesOnly ==
  {<<Connect("share")>>,
   <<Create("open_if", FALSE, FALSE, FALSE)>>,
   <<Create("open", FALSE, TRUE, FALSE)>>,
   <<Create("overwrite", FALSE, FALSE, FALSE), Op("write"), Op("close")>>,
   <<Op("write")>>, <<Op("close")>>}

OfAllKinds ==
  {<<Connect("share")>>, <<Connect(Pipe)>>, <<Connect(Nowhere)>>, <<Op("disconnect")>>,
   <<Create("create", TRUE, FALSE, TRUE)>>,
   <<Op("read")>>, <<Op("write")>>, <<Op("close")>>}
  \cup {<<Op(o)>> : o \in {"flush", "querydir", "setinfo", "lock", "cancel", "notify", "oplock"}
                            \cup Ioctls \cup Queries}

MCRequests == (c1 :> OnFilesOnly) @@ (c2 :> OfAllKinds)

MCMaxRequests == (c1 :> 3) @@ (c2 :> 3)

Symmetry == Permutations(Handles) \cup Permutations(TreeIds) \cup Permutations(Workers)
===============================================================================
