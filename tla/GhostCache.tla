------------------------------- MODULE GhostCache -------------------------------
(* What the ghost-file registry promises sessions that take turns: an LRU      *)
(* cache of the files they have closed. A file stays under its key when it is  *)
(* closed and is what an open of the key finds. To make room for a file, and   *)
(* for nothing else, the least recently used ones leave, one after the other:  *)
(* first those of its session, then those of all, as long as the limits,       *)
(* compared with what is really cached, ask for it.                            *)
EXTENDS Integers, FiniteSets, FiniteSetsExt

CONSTANTS
  Keys,       \* what a file is found by: its session and its name
  Files,      \* files
  Shared,     \* those of them that are there without being cached
  Handles,    \* handles
  MaxSize,    \* bound: size of a file
  MaxFiles,   \* limit of the number of files of a session
  MaxMem,     \* limit of their sizes
  MaxGlobal,  \* limit of the sizes of all files
  None

VARIABLES
  clock,      \* the time
  size,       \* of each file
  open,       \* handle -> what it was opened by and its file, or None
  cache,      \* key -> the file, its size when closed and its last use, or None
  closing     \* the handle being closed, the room its file needs and whether the
              \*   file is cached already, or None

vars == <<clock, size, open, cache, closing>>

Init ==
  /\ clock = 0
  /\ size = [f \in Files |-> IF f \in Shared THEN 1 ELSE 0]
  /\ open = [h \in Handles |-> None]
  /\ cache = [k \in Keys |-> None]
  /\ closing = None

Tick == clock' = clock + 1 /\ UNCHANGED <<size, open, cache, closing>>

Unused(f) == /\ \A h \in Handles : open[h] # None => open[h].node # f
             /\ \A k \in Keys : cache[k] # None => cache[k].node # f

Used(k) == cache' = [cache EXCEPT ![k].lastAccess = clock]

OpenShared(h, k, f) ==
  /\ closing = None /\ open[h] = None
  /\ f \in Shared
  /\ open' = [open EXCEPT ![h] = [key |-> k, node |-> f]]
  /\ UNCHANGED <<clock, size, cache, closing>>

OpenNew(h, k, f) ==
  /\ closing = None /\ open[h] = None
  /\ f \notin Shared /\ Unused(f)
  /\ open' = [open EXCEPT ![h] = [key |-> k, node |-> f]]
  /\ size' = [size EXCEPT ![f] = 0]
  /\ UNCHANGED <<clock, cache, closing>>

OpenCached(h, k) ==
  /\ closing = None /\ open[h] = None
  /\ cache[k] # None
  /\ open' = [open EXCEPT ![h] = [key |-> k, node |-> cache[k].node]]
  /\ Used(k)
  /\ UNCHANGED <<clock, size, closing>>

Grow(h, bytes) ==
  /\ open[h] # None
  /\ bytes > size[open[h].node]
  /\ size' = [size EXCEPT ![open[h].node] = bytes]
  /\ UNCHANGED <<clock, open, cache, closing>>

\* A file that is closed is used if it is cached and otherwise added.
Use(h) ==
  /\ closing = None /\ open[h] # None
  /\ cache[open[h].key] # None
  /\ Used(open[h].key)
  /\ closing' = [handle |-> h, room |-> 0, cached |-> TRUE]
  /\ UNCHANGED <<clock, size, open>>

Add(h) ==
  /\ closing = None /\ open[h] # None
  /\ cache[open[h].key] = None
  /\ closing' = [handle |-> h, room |-> size[open[h].node], cached |-> FALSE]
  /\ UNCHANGED <<clock, size, open, cache>>

Cached == {k \in Keys : cache[k] # None}
Bytes(K) == MapThenSumSet(LAMBDA k : cache[k].size, K)

\* The files of the session that adds one.
Own == {k \in Cached : k[1] = open[closing.handle].key[1]}

\* The file being added does not fit.
OwnFull == Own # {} /\ (Cardinality(Own) >= MaxFiles \/ Bytes(Own) + closing.room > MaxMem)
AllFull == Bytes(Cached) > 0 /\ Bytes(Cached) + closing.room > MaxGlobal

EvictOldest(K) ==
  \E k \in K : /\ \A j \in K : cache[k].lastAccess <= cache[j].lastAccess
               /\ cache' = [cache EXCEPT ![k] = None]

Evict ==
  /\ closing # None /\ ~closing.cached
  /\ \/ OwnFull /\ EvictOldest(Own)
     \/ ~OwnFull /\ AllFull /\ EvictOldest(Cached)
  /\ UNCHANGED <<clock, size, open, closing>>

Store ==
  /\ closing # None /\ ~closing.cached
  /\ ~OwnFull /\ ~AllFull
  /\ cache' = [cache EXCEPT ![open[closing.handle].key] =
       [node |-> open[closing.handle].node, size |-> closing.room, lastAccess |-> clock]]
  /\ closing' = [handle |-> closing.handle, room |-> 0, cached |-> TRUE]
  /\ UNCHANGED <<clock, size, open>>

\* A handle is closed once its file is cached.
Close ==
  /\ closing # None /\ closing.cached
  /\ open' = [open EXCEPT ![closing.handle] = None]
  /\ closing' = None
  /\ UNCHANGED <<clock, size, cache>>

Next ==
  \/ Tick
  \/ \E h \in Handles, k \in Keys :
       \/ OpenCached(h, k)
       \/ \E f \in Files : OpenShared(h, k, f) \/ OpenNew(h, k, f)
  \/ \E h \in Handles, bytes \in 1..MaxSize : Grow(h, bytes)
  \/ \E h \in Handles : Use(h) \/ Add(h)
  \/ Evict
  \/ Store
  \/ Close

Spec == Init /\ [][Next]_vars
=================================================================================
