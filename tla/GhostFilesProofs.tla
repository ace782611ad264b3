------------------------- MODULE GhostFilesProofs --------------------------
(***************************************************************************)
(* The first part is for any number of sessions, files and handles, with   *)
(* every session and the cleanup goroutine inside the registry at once: a  *)
(* session stays within its number of ghosts and opens no other session's  *)
(* file.                                                                   *)
(*                                                                         *)
(* The second is for one session whose caller sets the context, no ghost   *)
(* of which expires: what it closes is a ghost afterwards, the counters of *)
(* memory are exact, the limits of memory are kept, the least recently     *)
(* used ghost is the one to go, and in all the registry is an LRU cache.   *)
(* This is for any paths, files, sizes and limits.                         *)
(***************************************************************************)
EXTENDS GhostFiles, FiniteSetTheorems, WellFoundedInduction, TLAPS

USE DEF Actors, Keys, AllNodes, makeGhostKey, At, Goto

\* A session with no Close under way, and the cleanup goroutine at rest, have
\* nothing to keep.
LEMMA InitType == Init => TypeOK
<1> SUFFICES ASSUME Init PROVE TypeOK
  OBVIOUS
<1>1. now \in Nat /\ global \in Int
  BY DEF Init
<1>2. /\ openFiles \in [Handles -> OpenFile \cup {None}]
      /\ size \in [AllNodes -> Nat]
      /\ creator \in [AllNodes -> Sessions \cup {None}]
      /\ ghostFiles \in [Keys -> Ghost \cup {None}]
      /\ usage \in [Sessions -> Int \cup {None}]
  BY DEF Init
<1>3. pc \in [Actors -> Labels] /\ \A a \in Actors : pc[a] = "idle"
  BY DEF Init, Labels
<1>4. /\ job \in [Sessions -> Handles \cup {None}]
      /\ fileSize \in [Sessions -> Nat]
      /\ mem \in [Sessions -> Int]
      /\ list \in [Sessions -> SUBSET Paths]
      /\ gmem \in [Sessions -> Int]
  BY DEF Init
<1>5. seen \in [Sessions -> [Paths -> [size : Nat, lastAccess : Nat]]]
  BY DEF Init, NoGhost
<1>6. /\ victim \in [Actors -> Keys \cup {None}]
      /\ vsize \in [Actors -> Nat]
      /\ vmem \in [Actors -> Int \cup {None}]
      /\ caller \in [Actors -> {"session", "global", "clean"}]
  BY DEF Init
<1>7. Stages
  BY <1>3 DEF Init, Stages, Removing
<1> QED
  BY <1>1, <1>2, <1>3, <1>4, <1>5, <1>6, <1>7 DEF TypeOK

\* getGhostFile only changes the access time of a ghost.
LEMMA Touch ==
  ASSUME TypeOK, NEW k \in Keys, ghostFiles[k] # None,
         ghostFiles' = [ghostFiles EXCEPT ![k].lastAccess = now]
  PROVE  /\ ghostFiles' \in [Keys -> Ghost \cup {None}]
         /\ \A j \in Keys : ghostFiles'[j] # None =>
              ghostFiles[j] # None /\ ghostFiles'[j].node = ghostFiles[j].node
<1>1. ghostFiles[k] \in Ghost /\ now \in Nat /\ ghostFiles \in [Keys -> Ghost \cup {None}]
  BY DEF TypeOK
<1> DEFINE g == [ghostFiles[k] EXCEPT !.lastAccess = now]
<1>2. g \in Ghost /\ g.node = ghostFiles[k].node
  BY <1>1 DEF Ghost
<1>3. ghostFiles' = [ghostFiles EXCEPT ![k] = g]
  BY <1>1
<1> HIDE DEF g
<1> QED
  BY <1>1, <1>2, <1>3

\* Every step keeps every variable in its type, and a handle in openFiles
\* while its session closes it.
LEMMA TypeStep ==
  ASSUME TypeOK, Next
  PROVE  TypeOK'
<1> USE GhostAssumption
    DEF TypeOK, Stages, Labels, Removing, fsVars, regVars, addVars, rmVars
<1>1. CASE Tick
  BY <1>1 DEF Tick
<1>2. ASSUME NEW s \in Sessions, NEW h \in Handles, NEW p \in Paths, OpenTree(s, h, p)
      PROVE  TypeOK'
  BY <1>2 DEF OpenTree, Opened, OpenFile
<1>3. ASSUME NEW s \in Sessions, NEW h \in Handles, NEW p \in Paths, NEW n \in Nodes,
             OpenCreate(s, h, p, n)
      PROVE  TypeOK'
  BY <1>3 DEF OpenCreate, Opened, OpenFile
<1>4. ASSUME NEW s \in Sessions, NEW h \in Handles, NEW p \in Paths, OpenGhost(s, h, p)
      PROVE  TypeOK'
  <2>1. ghostFiles' \in [Keys -> Ghost \cup {None}]
    BY <1>4, Touch DEF OpenGhost
  <2>2. [session |-> s, path |-> p, node |-> ghostFiles[<<s, p>>].node] \in OpenFile
    BY <1>4 DEF OpenGhost, OpenFile, Ghost
  <2> QED
    BY <1>4, <2>1, <2>2 DEF OpenGhost, Opened, OpenFile
<1>5. ASSUME NEW h \in Handles, NEW e \in 1..MaxSize, Write(h, e)
      PROVE  TypeOK'
  BY <1>5 DEF Write, OpenFile
<1>6. ASSUME NEW s \in Sessions, NEW h \in Handles, Close(s, h)
      PROVE  TypeOK'
  <2>1. <<s, openFiles[h].path>> \in Keys
    BY <1>6 DEF Close, OpenFile
  <2>2. ghostFiles' \in [Keys -> Ghost \cup {None}]
    BY <1>6, <2>1, Touch DEF Close
  <2>3. \E l \in {"unlink", "usage"} : pc' = [pc EXCEPT ![s] = l]
    BY <1>6 DEF Close
  <2>4. /\ openFiles[h] # None /\ openFiles[h].session = s
        /\ job' = [job EXCEPT ![s] = h]
        /\ UNCHANGED <<fsVars, usage, global, fileSize, mem, list, seen, gmem, rmVars>>
    BY <1>6 DEF Close
  <2> QED
    BY <2>2, <2>3, <2>4
<1>7. ASSUME NEW s \in Sessions, LoadUsage(s) PROVE TypeOK'
  BY <1>7 DEF LoadUsage, Node, OpenFile
<1>8. ASSUME NEW s \in Sessions, Scan(s) PROVE TypeOK'
  BY <1>8 DEF Scan, GhostPaths, NoGhost, Ghost
<1>9. ASSUME NEW s \in Sessions, EvictSession(s) PROVE TypeOK'
  BY <1>9 DEF EvictSession
<1>10. ASSUME NEW s \in Sessions, EvictDone(s) PROVE TypeOK'
  BY <1>10 DEF EvictDone
<1>11. ASSUME NEW s \in Sessions, LoadGlobal(s) PROVE TypeOK'
  BY <1>11 DEF LoadGlobal
<1>12. ASSUME NEW s \in Sessions, EvictGlobal(s) PROVE TypeOK'
  BY <1>12 DEF EvictGlobal, Registered
<1>13. ASSUME NEW s \in Sessions, GlobalDone(s) PROVE TypeOK'
  BY <1>13 DEF GlobalDone
<1>14. ASSUME NEW s \in Sessions, StoreGhost(s) PROVE TypeOK'
  BY <1>14 DEF StoreGhost, MyKey, Path, Node, OpenFile, Ghost
<1>15. ASSUME NEW s \in Sessions, StoreUsage(s) PROVE TypeOK'
  BY <1>15 DEF StoreUsage
<1>16. ASSUME NEW s \in Sessions, AddGlobal(s) PROVE TypeOK'
  BY <1>16 DEF AddGlobal
<1>17. ASSUME NEW s \in Sessions, Unlink(s) PROVE TypeOK'
  BY <1>17 DEF Unlink, NoGhost
<1>18. ASSUME NEW a \in Actors, RmLoad(a) PROVE TypeOK'
  <2>1. pc[a] = "rmload" /\ victim[a] \in Keys
    BY <1>18 DEF RmLoad
  <2>2. vsize' \in [Actors -> Nat]
    BY <1>18, <2>1 DEF RmLoad, Ghost
  <2>3. \E l \in {"rmdelete", "rmusage"} : pc' = [pc EXCEPT ![a] = l]
    BY <1>18 DEF RmLoad
  <2>4. UNCHANGED <<fsVars, regVars, addVars, victim, vmem, caller>>
    BY <1>18 DEF RmLoad
  <2> QED
    BY <2>1, <2>2, <2>3, <2>4
<1>19. ASSUME NEW a \in Actors, RmUsage(a) PROVE TypeOK'
  BY <1>19 DEF RmUsage
<1>20. ASSUME NEW a \in Actors, RmStore(a) PROVE TypeOK'
  BY <1>20 DEF RmStore
<1>21. ASSUME NEW a \in Actors, RmGlobal(a) PROVE TypeOK'
  BY <1>21 DEF RmGlobal
<1>22. ASSUME NEW a \in Actors, RmDelete(a) PROVE TypeOK'
  <2>1. pc[a] = "rmdelete" /\ victim[a] \in Keys
    BY <1>22 DEF RmDelete
  <2>2. /\ ghostFiles' \in [Keys -> Ghost \cup {None}]
        /\ list' \in [Sessions -> SUBSET Paths]
    BY <1>22, <2>1 DEF RmDelete
  <2>3. mem' \in [Sessions -> Int]
    <3>1. CASE a \in Sessions /\ victim[a][1] = a
      <4>1. mem' = [mem EXCEPT ![a] = @ - seen[a][victim[a][2]].size]
        BY <1>22, <3>1 DEF RmDelete
      <4>2. seen[a][victim[a][2]] \in [size : Nat, lastAccess : Nat]
        BY <2>1, <3>1
      <4>3. mem[a] - seen[a][victim[a][2]].size \in Int
        BY <3>1, <4>2
      <4> QED
        BY <3>1, <4>1, <4>3
    <3>2. CASE ~(a \in Sessions /\ victim[a][1] = a)
      BY <1>22, <3>2 DEF RmDelete
    <3> QED
      BY <3>1, <3>2
  <2>4. /\ victim' \in [Actors -> Keys \cup {None}] /\ vsize' \in [Actors -> Nat]
        /\ vmem' \in [Actors -> Int \cup {None}]
        /\ caller' \in [Actors -> {"session", "global", "clean"}]
        /\ caller'[a] = "clean"
        /\ \A b \in Actors \ {a} : /\ victim'[b] = victim[b] /\ vmem'[b] = vmem[b]
                                   /\ caller'[b] = caller[b]
    BY <1>22 DEF RmDelete
  <2>5. PICK l \in {"evict", "gload", "idle"} :
          pc' = [pc EXCEPT ![a] = l] /\ (a = Cleaner /\ caller[a] = "clean" => l = "idle")
    BY <1>22 DEF RmDelete
  <2>6. a = Cleaner => l = "idle"
    BY <2>1, <2>5
  <2>7. UNCHANGED <<fsVars, usage, global, job, fileSize, seen, gmem>>
    BY <1>22 DEF RmDelete
  <2>8. pc' \in [Actors -> Labels] /\ pc'[a] = l /\ \A b \in Actors \ {a} : pc'[b] = pc[b]
    BY <2>5
  <2>9. Stages'
    <3>1. pc'[Cleaner] \in {"idle"} \cup Removing /\ caller'[Cleaner] = "clean"
      BY <2>4, <2>6, <2>8
    <3>2. ASSUME NEW b \in Actors, pc'[b] \in Removing
          PROVE  /\ victim'[b] \in Keys
                 /\ b \in Sessions => caller'[b] # "clean"
                 /\ pc'[b] = "rmstore" => vmem'[b] \in Int
      BY <2>4, <2>8, <3>2
    <3>3. ASSUME NEW s \in Sessions, pc'[s] # "idle"
          PROVE  /\ job'[s] \in Handles
                 /\ openFiles'[job'[s]] # None
                 /\ openFiles'[job'[s]].session = s
      BY <2>1, <2>7, <2>8, <3>3
    <3> QED
      BY <3>1, <3>2, <3>3
  <2> QED
    BY <2>2, <2>3, <2>4, <2>7, <2>8, <2>9
<1>23. ASSUME NEW k \in Keys, Clean(k) PROVE TypeOK'
  BY <1>23 DEF Clean, Expired
<1> QED
  BY <1>1, <1>2, <1>3, <1>4, <1>5, <1>6, <1>7, <1>8, <1>9, <1>10, <1>11, <1>12,
     <1>13, <1>14, <1>15, <1>16, <1>17, <1>18, <1>19, <1>20, <1>21, <1>22, <1>23
     DEF Next, Open, addGhostFile, removeGhostFile, Cleanup

-----------------------------------------------------------------------------
(* The limit on the number of ghosts.                                      *)

\* addGhostFile has scanned the registry and not yet stored the new ghost.
InLoops(s) == pc[s] \in {"evict", "gload", "gevict", "store"} \cup Removing

\* The first of its loops has ended.
PastFirstLoop(s) == \/ pc[s] \in {"gload", "gevict", "store"}
                    \/ pc[s] \in Removing /\ caller[s] = "global"

\* Only the session itself adds to its ghosts, so the working list can miss
\* removals by others but no ghost that is there; and once the first loop has
\* ended the list has room for one more.
RoomAt(s) ==
  /\ InLoops(s) => GhostPaths(s) \subseteq list[s]
  /\ PastFirstLoop(s) => list[s] = {} \/ Cardinality(list[s]) < MaxFiles

Room == \A s \in Sessions : RoomAt(s)

\* Sets of paths are finite.
LEMMA FinitePaths ==
  ASSUME NEW S \in SUBSET Paths
  PROVE  IsFiniteSet(S) /\ Cardinality(S) \in Nat
BY GhostAssumption, FS_Subset, FS_CardinalityType

\* The registry changes by a new access time, a new ghost or a removal.
LEMMA RegistryFrame ==
  ASSUME TypeOK, Next
  PROVE  \/ UNCHANGED ghostFiles
         \/ \E k \in Keys : /\ ghostFiles[k] # None
                            /\ ghostFiles' = [ghostFiles EXCEPT ![k].lastAccess = now]
         \/ \E s \in Sessions : StoreGhost(s)
         \/ \E k \in Keys : ghostFiles' = [ghostFiles EXCEPT ![k] = None]
<1>1. ASSUME NEW s \in Sessions, NEW h \in Handles, Close(s, h)
      PROVE  <<s, openFiles[h].path>> \in Keys
  BY <1>1 DEF Close, OpenFile, TypeOK
<1>2. ASSUME NEW a \in Actors, RmDelete(a)
      PROVE  victim[a] \in Keys
  BY <1>2 DEF RmDelete, TypeOK, Stages, Removing
<1>3. ASSUME NEW s \in Sessions, Open(s)
      PROVE  \/ UNCHANGED ghostFiles
             \/ \E k \in Keys : /\ ghostFiles[k] # None
                                /\ ghostFiles' = [ghostFiles EXCEPT ![k].lastAccess = now]
  BY <1>3 DEF Open, OpenTree, OpenCreate, OpenGhost, regVars
<1>4. ASSUME NEW s \in Sessions, NEW h \in Handles, Close(s, h)
      PROVE  \/ UNCHANGED ghostFiles
             \/ \E k \in Keys : /\ ghostFiles[k] # None
                                /\ ghostFiles' = [ghostFiles EXCEPT ![k].lastAccess = now]
  BY <1>1, <1>4 DEF Close
<1>5. ASSUME NEW s \in Sessions, addGhostFile(s)
      PROVE  UNCHANGED ghostFiles \/ StoreGhost(s)
  BY <1>5 DEF addGhostFile, LoadUsage, Scan, EvictSession, EvictDone, LoadGlobal,
              EvictGlobal, GlobalDone, StoreUsage, AddGlobal, Unlink, regVars
<1>6. ASSUME NEW a \in Actors, removeGhostFile(a)
      PROVE  \/ UNCHANGED ghostFiles
             \/ \E k \in Keys : ghostFiles' = [ghostFiles EXCEPT ![k] = None]
  BY <1>2, <1>6 DEF removeGhostFile, RmLoad, RmUsage, RmStore, RmGlobal, RmDelete, regVars
<1>7. CASE Tick \/ Cleanup \/ \E h \in Handles, e \in 1..MaxSize : Write(h, e)
  BY <1>7 DEF Tick, Cleanup, Clean, Write, regVars
<1> QED
  BY <1>3, <1>4, <1>5, <1>6, <1>7 DEF Next

\* A session's ghosts become more only when it stores one itself.
LEMMA GhostsGrow ==
  ASSUME TypeOK, Next, NEW t \in Sessions
  PROVE  GhostPaths(t)' \subseteq GhostPaths(t) \/ StoreGhost(t)
<1>1. CASE UNCHANGED ghostFiles
  BY <1>1 DEF GhostPaths
<1>2. CASE \E k \in Keys : /\ ghostFiles[k] # None
                           /\ ghostFiles' = [ghostFiles EXCEPT ![k].lastAccess = now]
  BY <1>2, Touch DEF GhostPaths
<1>3. ASSUME NEW s \in Sessions, StoreGhost(s), s # t
      PROVE  GhostPaths(t)' \subseteq GhostPaths(t)
  <2>1. Path(s) \in Paths
    BY <1>3 DEF StoreGhost, TypeOK, Stages, Path, OpenFile
  <2>2. \A p \in Paths : ghostFiles'[<<t, p>>] = ghostFiles[<<t, p>>]
    BY <1>3, <2>1 DEF StoreGhost, MyKey, TypeOK
  <2> QED
    BY <2>2 DEF GhostPaths
<1>4. CASE \E k \in Keys : ghostFiles' = [ghostFiles EXCEPT ![k] = None]
  BY <1>4 DEF GhostPaths, TypeOK
<1> QED
  BY <1>1, <1>2, <1>3, <1>4, RegistryFrame

\* A session's step and working list are its own.
LEMMA SessionFrame ==
  ASSUME TypeOK, Next, NEW t \in Sessions
  PROVE  \/ pc'[t] = pc[t] /\ list'[t] = list[t] /\ caller'[t] = caller[t]
         \/ \E h \in Handles : Close(t, h)
         \/ addGhostFile(t)
         \/ removeGhostFile(t)
<1> DEFINE Same == pc'[t] = pc[t] /\ list'[t] = list[t] /\ caller'[t] = caller[t]
<1> USE DEF TypeOK
<1>1. ASSUME NEW s \in Sessions, Open(s) PROVE Same
  BY <1>1 DEF Open, OpenTree, OpenCreate, OpenGhost, addVars, rmVars
<1>2. ASSUME NEW s \in Sessions, NEW h \in Handles, Close(s, h), s # t PROVE Same
  BY <1>2 DEF Close, rmVars
<1>3. ASSUME NEW s \in Sessions, addGhostFile(s), s # t PROVE Same
  BY <1>3 DEF addGhostFile, LoadUsage, Scan, EvictSession, EvictDone, LoadGlobal,
              EvictGlobal, GlobalDone, StoreGhost, StoreUsage, AddGlobal, Unlink,
              addVars, rmVars
<1>4. ASSUME NEW a \in Actors, removeGhostFile(a), a # t PROVE Same
  BY <1>4 DEF removeGhostFile, RmLoad, RmUsage, RmStore, RmGlobal, RmDelete,
              addVars, rmVars
<1>5. CASE Tick \/ \E h \in Handles, e \in 1..MaxSize : Write(h, e)
  BY <1>5 DEF Tick, Write, addVars, rmVars
<1>6. CASE Cleanup
  BY <1>6, GhostAssumption DEF Cleanup, Clean, addVars
<1> QED
  BY <1>1, <1>2, <1>3, <1>4, <1>5, <1>6 DEF Next

\* Every step keeps the working list complete and the room it has made.
LEMMA RoomStep ==
  ASSUME TypeOK, Room, Next
  PROVE  Room'
<1> SUFFICES ASSUME NEW t \in Sessions PROVE RoomAt(t)'
  BY DEF Room
<1> RoomAt(t)
  BY DEF Room
<1> USE DEF RoomAt, InLoops, PastFirstLoop, Removing
<1>1. CASE StoreGhost(t)
  <2>1. pc'[t] = "ustore"
    BY <1>1 DEF StoreGhost, TypeOK
  <2> QED
    BY <2>1
<1>2. CASE pc'[t] = pc[t] /\ list'[t] = list[t] /\ caller'[t] = caller[t]
  <2>1. CASE GhostPaths(t)' \subseteq GhostPaths(t)
    BY <1>2, <2>1
  <2> QED
    BY <1>1, <2>1, GhostsGrow
<1>3. ASSUME NEW h \in Handles, Close(t, h) PROVE RoomAt(t)'
  <2>1. pc'[t] \in {"unlink", "usage"}
    BY <1>3 DEF Close, TypeOK
  <2> QED
    BY <2>1
<1>4. CASE LoadUsage(t) \/ StoreUsage(t) \/ AddGlobal(t) \/ Unlink(t)
  <2>1. pc'[t] \in {"scan", "gadd", "unlink", "idle"}
    BY <1>4 DEF LoadUsage, StoreUsage, AddGlobal, Unlink, TypeOK
  <2> QED
    BY <2>1
<1>5. CASE Scan(t)
  <2>1. pc'[t] = "evict" /\ list'[t] = GhostPaths(t) /\ UNCHANGED ghostFiles
    BY <1>5 DEF Scan, TypeOK, regVars
  <2> QED
    BY <2>1 DEF GhostPaths
<1>6. CASE EvictSession(t)
  <2>1. /\ pc[t] = "evict" /\ pc'[t] = "rmload" /\ caller'[t] = "session"
        /\ UNCHANGED <<ghostFiles, list>>
    BY <1>6 DEF EvictSession, TypeOK, regVars, addVars
  <2> QED
    BY <2>1 DEF GhostPaths
<1>7. CASE EvictDone(t)
  <2>1. /\ pc[t] = "evict" /\ pc'[t] = "gload" /\ UNCHANGED <<ghostFiles, list>>
        /\ ~OverSession(t) \/ list[t] = {}
    BY <1>7 DEF EvictDone, TypeOK, regVars, addVars
  <2>2. list[t] = {} \/ Cardinality(list[t]) < MaxFiles
    BY <2>1, FinitePaths, GhostAssumption DEF OverSession, TypeOK
  <2> QED
    BY <2>1, <2>2 DEF GhostPaths
<1>8. CASE LoadGlobal(t) \/ GlobalDone(t)
  <2>1. /\ pc[t] \in {"gload", "gevict"} /\ pc'[t] \in {"gevict", "store"}
        /\ UNCHANGED <<ghostFiles, list>>
    BY <1>8 DEF LoadGlobal, GlobalDone, TypeOK, regVars, addVars
  <2> QED
    BY <2>1 DEF GhostPaths
<1>9. CASE EvictGlobal(t)
  <2>1. /\ pc[t] = "gevict" /\ pc'[t] = "rmload" /\ caller'[t] = "global"
        /\ UNCHANGED <<ghostFiles, list>>
    BY <1>9 DEF EvictGlobal, TypeOK, regVars, addVars
  <2> QED
    BY <2>1 DEF GhostPaths
<1>10. CASE RmLoad(t) \/ RmUsage(t) \/ RmStore(t) \/ RmGlobal(t)
  <2>1. /\ pc[t] \in Removing /\ pc'[t] \in Removing
        /\ UNCHANGED <<ghostFiles, list, caller>>
    BY <1>10 DEF RmLoad, RmUsage, RmStore, RmGlobal, TypeOK, regVars, addVars, rmVars
  <2> QED
    BY <2>1 DEF GhostPaths
<1>11. CASE RmDelete(t)
  <2>1. pc[t] = "rmdelete" /\ victim[t] \in Keys /\ caller[t] \in {"session", "global"}
    BY <1>11 DEF RmDelete, TypeOK, Stages
  <2>2. pc'[t] = IF caller[t] = "session" THEN "evict" ELSE "gload"
    BY <1>11, <2>1 DEF RmDelete, TypeOK
  <2>3. ghostFiles' = [ghostFiles EXCEPT ![victim[t]] = None]
    BY <1>11 DEF RmDelete
  <2>4. CASE victim[t][1] = t
    <3>1. list'[t] = list[t] \ {victim[t][2]}
      BY <1>11, <2>4 DEF RmDelete, TypeOK
    <3>2. GhostPaths(t)' \subseteq GhostPaths(t) \ {victim[t][2]}
      <4>1. victim[t] = <<t, victim[t][2]>>
        BY <2>1, <2>4
      <4>2. ghostFiles'[<<t, victim[t][2]>>] = None
        BY <2>1, <2>3, <4>1 DEF TypeOK
      <4>3. GhostPaths(t)' \subseteq GhostPaths(t)
        BY <2>1, <2>3 DEF GhostPaths, TypeOK
      <4> QED
        BY <4>2, <4>3 DEF GhostPaths
    <3>3. list[t] \in SUBSET Paths /\ list'[t] \in SUBSET list[t]
      BY <3>1 DEF TypeOK
    <3>4. Cardinality(list'[t]) <= Cardinality(list[t])
      BY <3>3, FinitePaths, FS_Subset
    <3>5. Cardinality(list'[t]) \in Nat /\ Cardinality(list[t]) \in Nat
      BY <3>3, FinitePaths
    <3> QED
      BY <2>1, <2>2, <3>1, <3>2, <3>3, <3>4, <3>5, GhostAssumption
  <2>5. CASE victim[t][1] # t
    <3>1. UNCHANGED list
      BY <1>11, <2>5 DEF RmDelete
    <3>2. GhostPaths(t)' \subseteq GhostPaths(t)
      BY <2>1, <2>3 DEF GhostPaths, TypeOK
    <3> QED
      BY <2>1, <2>2, <3>1, <3>2
  <2> QED
    BY <2>4, <2>5
<1> QED
  BY <1>1, <1>2, <1>3, <1>4, <1>5, <1>6, <1>7, <1>8, <1>9, <1>10, <1>11, SessionFrame
     DEF addGhostFile, removeGhostFile

\* Every step keeps every session within its limit: what StoreGhost adds is
\* what the loops have made room for.
LEMMA CountStep ==
  ASSUME TypeOK, Room, CountLimit, Next
  PROVE  CountLimit'
<1> DEFINE Limit == IF MaxFiles = 0 THEN 1 ELSE MaxFiles
<1> SUFFICES ASSUME NEW t \in Sessions PROVE Cardinality(GhostPaths(t)') <= Limit
  BY DEF CountLimit
<1>1. /\ GhostPaths(t) \in SUBSET Paths /\ GhostPaths(t)' \in SUBSET Paths
      /\ list[t] \in SUBSET Paths /\ Limit \in Nat
  BY GhostAssumption DEF GhostPaths, TypeOK
<1>2. CASE GhostPaths(t)' \subseteq GhostPaths(t)
  <2>1. Cardinality(GhostPaths(t)') <= Cardinality(GhostPaths(t))
    BY <1>1, <1>2, FinitePaths, FS_Subset
  <2>2. Cardinality(GhostPaths(t)) \in Nat /\ Cardinality(GhostPaths(t)') \in Nat
    BY <1>1, FinitePaths
  <2>3. Cardinality(GhostPaths(t)) <= Limit
    BY DEF CountLimit
  <2> QED
    BY <1>1, <2>1, <2>2, <2>3
<1>3. CASE StoreGhost(t)
  <2>1. GhostPaths(t) \subseteq list[t] /\ (list[t] = {} \/ Cardinality(list[t]) < MaxFiles)
    BY <1>3 DEF StoreGhost, Room, RoomAt, InLoops, PastFirstLoop
  <2>2. Path(t) \in Paths
    BY <1>3 DEF StoreGhost, TypeOK, Stages, Path, OpenFile
  <2>3. GhostPaths(t)' \subseteq list[t] \cup {Path(t)}
    BY <1>3, <2>1, <2>2 DEF StoreGhost, MyKey, GhostPaths, TypeOK
  <2>4. IsFiniteSet(list[t]) /\ Cardinality(list[t]) \in Nat
    BY <1>1, FinitePaths
  <2>5. /\ IsFiniteSet(list[t] \cup {Path(t)})
        /\ Cardinality(list[t] \cup {Path(t)}) <= Cardinality(list[t]) + 1
    <3>1. IsFiniteSet(list[t] \cup {Path(t)})
      BY <2>4, FS_AddElement
    <3>2. \/ Cardinality(list[t] \cup {Path(t)}) = Cardinality(list[t])
          \/ Cardinality(list[t] \cup {Path(t)}) = Cardinality(list[t]) + 1
      BY <2>4, FS_AddElement, Zenon
    <3> QED
      BY <2>4, <3>1, <3>2
  <2>6. Cardinality(GhostPaths(t)') <= Cardinality(list[t] \cup {Path(t)})
    BY <2>3, <2>5, FS_Subset
  <2>7. /\ Cardinality(GhostPaths(t)') \in Nat
        /\ Cardinality(list[t] \cup {Path(t)}) \in Nat
    BY <1>1, <2>5, FinitePaths, FS_CardinalityType
  <2>8. Cardinality(list[t]) + 1 <= Limit
    <3>1. CASE list[t] = {}
      BY <3>1, FS_EmptySet, GhostAssumption
    <3>2. CASE Cardinality(list[t]) < MaxFiles
      BY <2>4, <3>2, GhostAssumption
    <3> QED
      BY <2>1, <3>1, <3>2
  <2> HIDE DEF Limit
  <2> QED
    BY <1>1, <2>4, <2>5, <2>6, <2>7, <2>8
<1> QED
  BY <1>2, <1>3, GhostsGrow

-----------------------------------------------------------------------------
(* Isolation of the sessions.                                              *)

Mine(n, s) == n \in TreeFiles \/ creator[n] = s

\* Isolation is kept because a ghost, too, belongs to the session of its key.
GhostsMine == \A k \in Keys : ghostFiles[k] # None => Mine(ghostFiles[k].node, k[1])

\* Every step keeps the files of a session, open or ghost, its own.
LEMMA IsolationStep ==
  ASSUME TypeOK, GhostsMine, Isolation, Next
  PROVE  GhostsMine' /\ Isolation'
<1> USE DEF Mine
<1>1. ASSUME UNCHANGED <<openFiles, creator>>,
             \A k \in Keys : ghostFiles'[k] # None =>
               ghostFiles[k] # None /\ ghostFiles'[k].node = ghostFiles[k].node
      PROVE  GhostsMine' /\ Isolation'
  BY <1>1 DEF GhostsMine, Isolation
<1>2. ASSUME NEW s \in Sessions, NEW h \in Handles, NEW p \in Paths, OpenTree(s, h, p)
      PROVE  GhostsMine' /\ Isolation'
  BY <1>2 DEF OpenTree, Opened, GhostsMine, Isolation, TypeOK, regVars
<1>3. ASSUME NEW s \in Sessions, NEW h \in Handles, NEW p \in Paths, NEW n \in Nodes,
             OpenCreate(s, h, p, n)
      PROVE  GhostsMine' /\ Isolation'
  <2>1. /\ creator' = [creator EXCEPT ![n] = s] /\ UNCHANGED ghostFiles
        /\ openFiles' = [openFiles EXCEPT ![h] = [session |-> s, path |-> p, node |-> n]]
        /\ ~InUse(n)
    BY <1>3 DEF OpenCreate, Opened, regVars
  <2>2. GhostsMine'
    BY <2>1 DEF GhostsMine, InUse, TypeOK, Ghost
  <2>3. Isolation'
    <3> SUFFICES ASSUME NEW g \in Handles, openFiles'[g] # None
                 PROVE  \/ openFiles'[g].node \in TreeFiles
                        \/ creator'[openFiles'[g].node] = openFiles'[g].session
      BY DEF Isolation
    <3>1. CASE g = h
      BY <2>1, <3>1 DEF TypeOK
    <3>2. CASE g # h
      <4>1. openFiles'[g] = openFiles[g] /\ openFiles[g].node # n
        BY <2>1, <3>2 DEF TypeOK, InUse
      <4> QED
        BY <2>1, <4>1 DEF Isolation, TypeOK, OpenFile
    <3> QED
      BY <3>1, <3>2
  <2> QED
    BY <2>2, <2>3
<1>4. ASSUME NEW s \in Sessions, NEW h \in Handles, NEW p \in Paths, OpenGhost(s, h, p)
      PROVE  GhostsMine' /\ Isolation'
  <2>1. <<s, p>> \in Keys /\ ghostFiles[<<s, p>>] # None /\ UNCHANGED creator
    BY <1>4 DEF OpenGhost
  <2>2. \A k \in Keys : ghostFiles'[k] # None =>
               ghostFiles[k] # None /\ ghostFiles'[k].node = ghostFiles[k].node
    BY <1>4, <2>1, Touch DEF OpenGhost
  <2>3. GhostsMine'
    BY <2>1, <2>2 DEF GhostsMine
  <2>4. Mine(ghostFiles[<<s, p>>].node, s)
    BY <2>1 DEF GhostsMine
  <2>5. openFiles' = [openFiles EXCEPT ![h] =
                        [session |-> s, path |-> p, node |-> ghostFiles[<<s, p>>].node]]
    BY <1>4 DEF OpenGhost, Opened
  <2>6. Isolation'
    BY <2>1, <2>4, <2>5 DEF Isolation, TypeOK
  <2> QED
    BY <2>3, <2>6
<1>5. ASSUME NEW s \in Sessions, StoreGhost(s)
      PROVE  GhostsMine' /\ Isolation'
  <2>1. /\ UNCHANGED <<openFiles, creator>>
        /\ ghostFiles' = [ghostFiles EXCEPT ![<<s, Path(s)>>] =
             [node |-> Node(s), size |-> fileSize[s], lastAccess |-> now]]
    BY <1>5 DEF StoreGhost, MyKey, fsVars
  <2>2. job[s] \in Handles /\ openFiles[job[s]] # None /\ openFiles[job[s]].session = s
    BY <1>5 DEF StoreGhost, TypeOK, Stages
  <2>3. Mine(Node(s), s)
    BY <2>2 DEF Isolation, Node
  <2>4. GhostsMine'
    BY <2>1, <2>3 DEF GhostsMine, TypeOK
  <2> QED
    BY <2>1, <2>4 DEF Isolation
<1>6. ASSUME NEW s \in Sessions, Unlink(s)
      PROVE  GhostsMine' /\ Isolation'
  BY <1>6 DEF Unlink, GhostsMine, Isolation, TypeOK, regVars
<1>7. ASSUME UNCHANGED <<openFiles, creator>>, \A s \in Sessions : ~StoreGhost(s)
      PROVE  GhostsMine' /\ Isolation'
  BY <1>1, <1>7, RegistryFrame, Touch DEF TypeOK
<1>8. \/ UNCHANGED <<openFiles, creator>>
      \/ \E s \in Sessions : Open(s) \/ Unlink(s)
  BY DEF Next, Tick, Write, Close, addGhostFile, LoadUsage, Scan, EvictSession,
         EvictDone, LoadGlobal, EvictGlobal, GlobalDone, StoreGhost, StoreUsage,
         AddGlobal, removeGhostFile, RmLoad, RmUsage, RmStore, RmGlobal, RmDelete,
         Cleanup, Clean, fsVars
<1> QED
  BY <1>2, <1>3, <1>4, <1>5, <1>6, <1>7, <1>8 DEF Open

-----------------------------------------------------------------------------
\* The limit and the isolation, with what makes them inductive.
IndInv == TypeOK /\ Room /\ CountLimit /\ GhostsMine /\ Isolation

\* A new MemoryFS has no ghosts and no open files.
LEMMA InitInd == Init => IndInv
<1> SUFFICES ASSUME Init PROVE IndInv
  OBVIOUS
<1>1. Room
  BY DEF Init, Room, RoomAt, InLoops, PastFirstLoop, Removing
<1>2. CountLimit
  <2>1. \A s \in Sessions : GhostPaths(s) = {}
    BY DEF Init, GhostPaths
  <2> QED
    BY <2>1, FS_EmptySet, GhostAssumption DEF CountLimit
<1>3. GhostsMine /\ Isolation
  BY DEF Init, GhostsMine, Isolation
<1> QED
  BY <1>1, <1>2, <1>3, InitType DEF IndInv

\* Every step preserves the invariant.
LEMMA Inductive == IndInv /\ [Next]_vars => IndInv'
<1> SUFFICES ASSUME IndInv, [Next]_vars PROVE IndInv'
  OBVIOUS
<1>1. CASE Next
  BY <1>1, TypeStep, RoomStep, CountStep, IsolationStep DEF IndInv
<1>2. CASE UNCHANGED vars
  <2> USE <1>2 DEF IndInv, vars, fsVars, regVars, addVars, rmVars
  <2>1. TypeOK'
    BY DEF TypeOK, Stages
  <2>2. Room'
    BY DEF Room, RoomAt, InLoops, PastFirstLoop, GhostPaths
  <2>3. CountLimit'
    BY DEF CountLimit, GhostPaths
  <2>4. GhostsMine' /\ Isolation'
    BY DEF GhostsMine, Mine, Isolation
  <2> QED
    BY <2>1, <2>2, <2>3, <2>4
<1> QED
  BY <1>1, <1>2

\* For every number of sessions, paths, nodes and handles, the variables keep
\* their types and a handle stays open until its Close has registered it.
THEOREM TypeCorrect == Spec => []TypeOK
<1>1. IndInv => TypeOK
  BY DEF IndInv
<1> QED
  BY <1>1, InitInd, Inductive, PTL DEF Spec

\* For every limit and every number of sessions that close files at the same
\* time, with evictions and clean-ups in between, no session has more ghosts
\* than addGhostFile allows it.
THEOREM LimitHolds == Spec => []CountLimit
<1>1. IndInv => CountLimit
  BY DEF IndInv
<1> QED
  BY <1>1, InitInd, Inductive, PTL DEF Spec

\* For every number of sessions that use the same paths, no session opens a
\* file another one created.
THEOREM SessionsIsolated == Spec => []Isolation
<1>1. IndInv => Isolation
  BY DEF IndInv
<1> QED
  BY <1>1, InitInd, Inductive, PTL DEF Spec

HIDE DEF Actors, Keys, AllNodes, makeGhostKey, At, Goto

-----------------------------------------------------------------------------
(* Sums of sizes.                                                          *)

\* The order of the naturals, as a relation.
Less == {p \in Nat \X Nat : p[1] < p[2]}

\* A set of naturals has a smallest element.
LEMMA Smallest ==
  ASSUME NEW S, S \subseteq Nat, S # {}
  PROVE  \E x \in S : \A y \in S : ~(y < x)
<1>1. IsWellFoundedOn(Less, Nat)
  BY NatLessThanWellFounded DEF OpToRel, Less
<1>2. \E x \in S : \A y \in S : ~(<<y, x>> \in Less)
  BY <1>1, WFMin, Zenon
<1> QED BY <1>2 DEF Less

\* The sizes of the ghosts that the registry G has at the keys K.
Total(G, K) == MapThenSumSet(LAMBDA k : G[k].size, K)

\* The sum takes the elements of a set in this order.
Pick(K) == CHOOSE k \in K : TRUE

\* A function f adds up the sizes of the sets in D.
Adds(f, G, D) ==
  f = [K \in D |-> IF K = {} THEN 0 ELSE G[Pick(K)].size + f[K \ {Pick(K)}]]

\* What is picked is an element; without it the set is smaller by one.
LEMMA PickFacts ==
  ASSUME NEW K, IsFiniteSet(K), K # {}
  PROVE  /\ Pick(K) \in K
         /\ IsFiniteSet(K \ {Pick(K)})
         /\ Cardinality(K) \in Nat /\ Cardinality(K \ {Pick(K)}) \in Nat
         /\ Cardinality(K \ {Pick(K)}) = Cardinality(K) - 1
<1>1. Pick(K) \in K
  BY DEF Pick
<1> QED BY <1>1, FS_RemoveElement, FS_CardinalityType

\* There is such a function for the subsets of a finite set: it is made for sets of
\* one element more at a time.
LEMMA AddsExists ==
  ASSUME NEW G, NEW K, IsFiniteSet(K)
  PROVE  \E f : Adds(f, G, SUBSET K)
<1> DEFINE Upto(n) == {L \in SUBSET K : Cardinality(L) <= n}
           Bad == {n \in Nat : ~\E f : Adds(f, G, Upto(n))}
<1>0. \A L \in SUBSET K : IsFiniteSet(L) /\ Cardinality(L) \in Nat
                          /\ Cardinality(L) <= Cardinality(K)
  BY FS_Subset, FS_CardinalityType
<1>1. Cardinality(K) \in Nat /\ Upto(Cardinality(K)) = SUBSET K
  BY <1>0
<1>2. ASSUME Bad # {} PROVE FALSE
  <2>1. PICK n \in Bad : \A m \in Bad : ~(m < n)
    <3> HIDE DEF Upto
    <3>1. Bad \subseteq Nat
      OBVIOUS
    <3> HIDE DEF Bad
    <3> QED BY <1>2, <3>1, Smallest
  <2>2. n # 0
    <3>1. ASSUME n = 0 PROVE FALSE
      <4> DEFINE f == [L \in Upto(0) |-> 0]
      <4>1. \A L \in Upto(0) : L = {}
        BY <1>0, FS_EmptySet
      <4>2. Adds(f, G, Upto(0))
        <5> HIDE DEF Upto
        <5> QED BY <4>1 DEF Adds
      <4> HIDE DEF f
      <4> QED BY <3>1, <4>2
    <3> QED BY <3>1
  <2>3. PICK f : Adds(f, G, Upto(n - 1))
    <3>1. n \in Nat /\ n - 1 \in Nat /\ n - 1 < n
      BY <2>2
    <3>2. n - 1 \notin Bad
      <4> HIDE DEF Bad
      <4> QED BY <2>1, <3>1
    <3> HIDE DEF Upto
    <3> QED BY <3>1, <3>2
  <2> DEFINE g == [L \in Upto(n) |-> IF Cardinality(L) <= n - 1 THEN f[L]
                                     ELSE G[Pick(L)].size + f[L \ {Pick(L)}]]
  <2>4. ASSUME NEW L \in Upto(n), L # {}
        PROVE  L \ {Pick(L)} \in Upto(n - 1) /\ L \ {Pick(L)} \in Upto(n)
               /\ Cardinality(L \ {Pick(L)}) <= n - 1
    BY <1>0, <2>4, PickFacts
  <2>5. ASSUME NEW L \in Upto(n)
        PROVE  g[L] = IF L = {} THEN 0 ELSE G[Pick(L)].size + g[L \ {Pick(L)}]
    <3>1. {} \in Upto(n - 1) /\ Cardinality({}) <= n - 1
      BY <2>2, FS_EmptySet
    <3>2. CASE L = {}
      <4>1. g[L] = f[{}]
        BY <3>1, <3>2
      <4>2. f[{}] = 0
        <5> HIDE DEF Upto
        <5> QED BY <2>3, <3>1 DEF Adds
      <4> QED BY <3>2, <4>1, <4>2
    <3>3. CASE L # {}
      <4>1. g[L \ {Pick(L)}] = f[L \ {Pick(L)}]
        BY <2>4, <3>3
      <4>2. CASE Cardinality(L) <= n - 1
        <5>1. L \in Upto(n - 1) /\ g[L] = f[L]
          BY <4>2
        <5>2. f[L] = G[Pick(L)].size + f[L \ {Pick(L)}]
          <6> HIDE DEF Upto
          <6> QED BY <2>3, <3>3, <5>1 DEF Adds
        <5> QED BY <3>3, <4>1, <5>1, <5>2
      <4>3. CASE ~(Cardinality(L) <= n - 1)
        BY <3>3, <4>1, <4>3
      <4> QED BY <4>2, <4>3
    <3> QED BY <3>2, <3>3
  <2>6. Adds(g, G, Upto(n))
    <3>1. g = [L \in Upto(n) |-> g[L]]
      OBVIOUS
    <3> HIDE DEF g, Upto
    <3> QED BY <2>5, <3>1 DEF Adds
  <2> HIDE DEF g
  <2> QED BY <2>1, <2>6
<1> QED BY <1>1, <1>2

\* What it adds up depends only on the sizes.
LEMMA AddsSame ==
  ASSUME NEW G, NEW H, NEW K, NEW L, NEW M, M \subseteq K, M \subseteq L, IsFiniteSet(M),
         \A k \in M : G[k].size = H[k].size,
         NEW f, NEW g, Adds(f, G, SUBSET K), Adds(g, H, SUBSET L)
  PROVE  f[M] = g[M]
<1> DEFINE Bad == {n \in Nat : \E N \in SUBSET M : Cardinality(N) = n /\ f[N] # g[N]}
<1>1. ASSUME Bad # {} PROVE FALSE
  <2>1. PICK n \in Bad : \A m \in Bad : ~(m < n)
    <3>1. Bad \subseteq Nat
      OBVIOUS
    <3> HIDE DEF Bad
    <3> QED BY <1>1, <3>1, Smallest
  <2>2. PICK N \in SUBSET M : Cardinality(N) = n /\ f[N] # g[N]
    OBVIOUS
  <2>3. IsFiniteSet(N) /\ N \in SUBSET K /\ N \in SUBSET L
    BY FS_Subset
  <2>4. N # {}
    BY <2>2, <2>3 DEF Adds
  <2> DEFINE R == N \ {Pick(N)}
  <2>5. /\ R \in SUBSET M /\ Pick(N) \in M
        /\ Cardinality(R) \in Nat /\ Cardinality(R) < n
    BY <2>2, <2>3, <2>4, PickFacts
  <2>6. f[R] = g[R]
    <3> HIDE DEF R
    <3> QED BY <2>1, <2>5
  <2>7. f[N] = G[Pick(N)].size + f[R] /\ g[N] = H[Pick(N)].size + g[R]
    BY <2>3, <2>4 DEF Adds
  <2> QED BY <2>2, <2>5, <2>6, <2>7
<1>2. Cardinality(M) \in Nat
  BY FS_CardinalityType
<1> QED BY <1>1, <1>2

\* The sum is computed by such a function.
LEMMA TotalAdds ==
  ASSUME NEW G, NEW K, IsFiniteSet(K)
  PROVE  \E f : Adds(f, G, SUBSET K) /\ Total(G, K) = f[K]
<1> DEFINE F == CHOOSE f : Adds(f, G, SUBSET K)
<1>1. Adds(F, G, SUBSET K)
  BY AddsExists
<1>2. Total(G, K) = F[K]
  BY DEF Total, MapThenSumSet, MapThenFoldSet, Pick, Adds
<1> QED BY <1>1, <1>2
\* No ghosts, no bytes.
LEMMA TotalEmpty ==
  ASSUME NEW G
  PROVE  Total(G, {}) = 0
<1>1. PICK f : Adds(f, G, SUBSET {}) /\ Total(G, {}) = f[{}]
  BY TotalAdds, FS_EmptySet
<1> QED BY <1>1 DEF Adds

\* The same sizes have the same sum.
LEMMA TotalSame ==
  ASSUME NEW G, NEW H, NEW K, IsFiniteSet(K), \A k \in K : G[k].size = H[k].size
  PROVE  Total(G, K) = Total(H, K)
<1>1. PICK f : Adds(f, G, SUBSET K) /\ Total(G, K) = f[K]
  BY TotalAdds
<1>2. PICK g : Adds(g, H, SUBSET K) /\ Total(H, K) = g[K]
  BY TotalAdds
<1> QED BY <1>1, <1>2, AddsSame

\* The sum takes one element after the other.
LEMMA TotalPick ==
  ASSUME NEW G, NEW K, IsFiniteSet(K), K # {}
  PROVE  Total(G, K) = G[Pick(K)].size + Total(G, K \ {Pick(K)})
<1>0. IsFiniteSet(K \ {Pick(K)})
  BY PickFacts
<1>1. PICK f : Adds(f, G, SUBSET K) /\ Total(G, K) = f[K]
  BY TotalAdds
<1>2. PICK g : Adds(g, G, SUBSET (K \ {Pick(K)}))
               /\ Total(G, K \ {Pick(K)}) = g[K \ {Pick(K)}]
  BY <1>0, TotalAdds
<1>3. f[K \ {Pick(K)}] = g[K \ {Pick(K)}]
  <2> DEFINE R == K \ {Pick(K)}
  <2>1. R \subseteq K /\ IsFiniteSet(R) /\ Adds(g, G, SUBSET R)
    BY <1>0, <1>2
  <2> HIDE DEF R
  <2>2. f[R] = g[R]
    BY <1>1, <2>1, AddsSame
  <2> QED BY <2>2 DEF R
<1>4. f[K] = G[Pick(K)].size + f[K \ {Pick(K)}]
  BY <1>1 DEF Adds
<1> QED BY <1>1, <1>2, <1>3, <1>4

\* A sum of sizes is a natural number, and any of them may be taken out.
LEMMA TotalRemove ==
  ASSUME NEW G, NEW K, IsFiniteSet(K), \A k \in K : G[k].size \in Nat
  PROVE  /\ Total(G, K) \in Nat
         /\ \A k \in K : Total(G, K) = G[k].size + Total(G, K \ {k})
<1> DEFINE Right(L) == /\ Total(G, L) \in Nat
                       /\ \A k \in L : Total(G, L) = G[k].size + Total(G, L \ {k})
           Bad == {n \in Nat : \E L \in SUBSET K : Cardinality(L) = n /\ ~Right(L)}
<1>1. ASSUME Bad # {} PROVE FALSE
  <2>1. PICK n \in Bad : \A m \in Bad : ~(m < n)
    <3> HIDE DEF Right
    <3>1. Bad \subseteq Nat
      OBVIOUS
    <3> HIDE DEF Bad
    <3> QED BY <1>1, <3>1, Smallest
  <2>2. PICK L \in SUBSET K : Cardinality(L) = n /\ ~Right(L)
    <3> HIDE DEF Right
    <3> QED OBVIOUS
  <2>3. IsFiniteSet(L) /\ \A k \in L : G[k].size \in Nat
    BY FS_Subset
  <2>4. L # {}
    <3>1. Right({})
      BY TotalEmpty
    <3> HIDE DEF Right
    <3> QED BY <2>2, <3>1
  <2>5. ASSUME NEW k \in L PROVE Right(L \ {k})
    <3>1. IsFiniteSet(L \ {k}) /\ Cardinality(L \ {k}) \in Nat /\ Cardinality(L \ {k}) = n - 1
      BY <2>2, <2>3, FS_RemoveElement, FS_CardinalityType
    <3>2. L \ {k} \in SUBSET K /\ Cardinality(L \ {k}) < n
      BY <3>1
    <3> HIDE DEF Right
    <3> QED BY <2>1, <3>1, <3>2
  <2>6. /\ Pick(L) \in L
        /\ Total(G, L) = G[Pick(L)].size + Total(G, L \ {Pick(L)})
    BY <2>3, <2>4, PickFacts, TotalPick
  <2>7. Total(G, L) \in Nat
    BY <2>3, <2>5, <2>6
  <2>8. ASSUME NEW k \in L PROVE Total(G, L) = G[k].size + Total(G, L \ {k})
    <3>1. CASE k = Pick(L)
      BY <2>6, <3>1
    <3>2. CASE k # Pick(L)
      <4> DEFINE p == Pick(L)
      <4>0. p \in L
        BY <2>6
      <4> HIDE DEF p
      <4>1. k \in L \ {p} /\ p \in L \ {k} /\ (L \ {p}) \ {k} = (L \ {k}) \ {p}
        BY <3>2, <4>0 DEF p
      <4>2. Total(G, L \ {p}) = G[k].size + Total(G, (L \ {p}) \ {k})
        BY <2>5, <4>0, <4>1
      <4>3. Total(G, L \ {k}) = G[p].size + Total(G, (L \ {k}) \ {p})
        BY <2>5, <4>0, <4>1
      <4>4. Total(G, L) = G[p].size + Total(G, L \ {p})
        BY <2>6 DEF p
      <4>5. /\ Total(G, L \ {p}) \in Nat /\ Total(G, L \ {k}) \in Nat
            /\ G[p].size \in Nat /\ G[k].size \in Nat
        BY <2>3, <2>5, <4>0
      <4>6. Total(G, (L \ {p}) \ {k}) \in Int
        <5>1. Total(G, (L \ {p}) \ {k}) \in Nat
          <6>1. IsFiniteSet(L \ {p}) /\ IsFiniteSet((L \ {p}) \ {k})
            BY <2>3, FS_Subset
          <6>2. Cardinality((L \ {p}) \ {k}) < n /\ Cardinality((L \ {p}) \ {k}) \in Nat
            BY <2>2, <2>3, <4>0, <4>1, <6>1, FS_RemoveElement, FS_CardinalityType
          <6>3. (L \ {p}) \ {k} \in SUBSET K
            OBVIOUS
          <6>4. Right((L \ {p}) \ {k})
            <7> HIDE DEF Right
            <7> QED BY <2>1, <6>2, <6>3
          <6> QED BY <6>4
        <5> QED BY <5>1
      <4>7. Total(G, (L \ {p}) \ {k}) = Total(G, (L \ {k}) \ {p})
        BY <4>1, Zenon
      <4> DEFINE x == Total(G, (L \ {p}) \ {k})
      <4>8. /\ Total(G, L \ {p}) = G[k].size + x /\ Total(G, L \ {k}) = G[p].size + x
            /\ x \in Int
        BY <4>2, <4>3, <4>6, <4>7
      <4> HIDE DEF x
      <4> QED BY <4>4, <4>5, <4>8
    <3> QED BY <3>1, <3>2
  <2> QED BY <2>2, <2>7, <2>8
<1>2. Cardinality(K) \in Nat
  BY FS_CardinalityType
<1>3. Right(K)
  <2> HIDE DEF Right
  <2> QED BY <1>1, <1>2
<1> QED BY <1>3

-----------------------------------------------------------------------------
(* One session, and ghosts that do not expire.                             *)

\* Nobody but the session uses the registry.
Alone == (\E s \in Sessions : Sessions = {s}) /\ MaxTime <= Expiry

\* The bytes of all ghosts, and those that ghostMemoryUsage has for a session.
Sum == Total(ghostFiles, Registered)
\* What sessionMemoryUsage holds for the session: an absent entry reads as 0.
Held(s) == IF usage[s] = None THEN 0 ELSE usage[s]

\* The cleanup goroutine finds nothing to remove.
NoneExpire == pc[Cleaner] = "idle" /\ now <= MaxTime

\* Between the accesses of addGhostFile and removeGhostFile to the three objects the
\* counters lag behind the registry, by the ghost that is added or removed.
UsageLag(s) ==
  IF pc[s] \in {"rmglobal", "rmdelete"} THEN vsize[s]
  ELSE IF pc[s] = "ustore" THEN fileSize[s] ELSE 0

\* The same of globalMemoryUsage, which is written after the session's counter.
GlobalLag(s) ==
  IF pc[s] = "rmdelete" THEN vsize[s]
  ELSE IF pc[s] \in {"ustore", "gadd"} THEN fileSize[s] ELSE 0

\* But for the lags both counters are the sum of the sizes registered.
Counted(s) == Held(s) = Sum - UsageLag(s) /\ global = Sum - GlobalLag(s)

\* What addGhostFile has read of the registry is still so.
Working(s) ==
  /\ pc[s] = "scan" \/ InLoops(s) => mem[s] = Sum
  /\ pc[s] = "ustore" => mem[s] = Sum - fileSize[s]
  /\ pc[s] = "gevict" => gmem[s] = Sum
  /\ InLoops(s) => \A p \in Paths :
       /\ p \in list[s] <=> ghostFiles[<<s, p>>] # None
       /\ p \in list[s] => /\ seen[s][p].size = ghostFiles[<<s, p>>].size
                           /\ seen[s][p].lastAccess = ghostFiles[<<s, p>>].lastAccess

\* The victim is a ghost until it is deleted, and the least recently used one.
Removes(s) ==
  pc[s] \in Removing =>
    /\ victim[s] \in Registered
    /\ \A j \in Registered : ghostFiles[victim[s]].lastAccess <= ghostFiles[j].lastAccess
    /\ pc[s] # "rmload" => vsize[s] = ghostFiles[victim[s]].size
    /\ pc[s] = "rmstore" => vmem[s] = usage[s]

\* The file being closed is no ghost before it is stored, and one afterwards.
Stored(s) ==
  /\ pc[s] \in {"usage", "scan"} \/ InLoops(s) => ghostFiles[MyKey(s)] = None
  /\ pc[s] \in {"ustore", "gadd"} => ghostFiles[MyKey(s)] # None
  /\ pc[s] = "unlink" /\ "close" \in CtxOps => ghostFiles[MyKey(s)] # None

\* The limits of memory, which a single file may exceed.
Within ==
  /\ Sum > MaxMem => Cardinality(Registered) = 1
  /\ Sum > MaxGlobal => \E k \in Registered : Sum = ghostFiles[k].size

\* Each loop of addGhostFile makes room for the new file below its limit.
Limits(s) ==
  /\ PastFirstLoop(s) => Registered = {} \/ mem[s] + fileSize[s] <= MaxMem
  /\ pc[s] = "store" => Sum = 0 \/ Sum + fileSize[s] <= MaxGlobal
  /\ pc[s] \in {"idle", "ustore", "gadd", "unlink"} => Within

\* What holds of a session that is alone.
Account(s) ==
  /\ NoneExpire
  /\ Counted(s)
  /\ Working(s)
  /\ Removes(s)
  /\ Stored(s)
  /\ Limits(s)

\* The registry and its sum.
LEMMA SumFacts ==
  ASSUME TypeOK, NEW s, Sessions = {s}
  PROVE  /\ Registered \subseteq Keys /\ IsFiniteSet(Registered)
         /\ \A k \in Registered : /\ ghostFiles[k] \in Ghost /\ ghostFiles[k].size \in Nat
                                  /\ k = <<s, k[2]>> /\ k[2] \in Paths
         /\ Sum \in Nat
<1>1. Registered \subseteq Keys
  BY DEF Registered
<1>2. IsFiniteSet(Registered)
  <2>1. IsFiniteSet(Sessions) /\ IsFiniteSet(Paths)
    BY FS_Singleton, GhostAssumption
  <2>2. IsFiniteSet(Keys)
    BY <2>1, FS_Product DEF Keys
  <2> QED BY <1>1, <2>2, FS_Subset
<1>3. \A k \in Registered : /\ ghostFiles[k] \in Ghost /\ ghostFiles[k].size \in Nat
                            /\ k = <<s, k[2]>> /\ k[2] \in Paths
  BY DEF Registered, TypeOK, Ghost, Keys
<1>4. Sum \in Nat
  BY <1>2, <1>3, TotalRemove DEF Sum
<1> QED BY <1>1, <1>2, <1>3, <1>4

\* The sum after a step is that of the registry then.
LEMMA SumNext == Sum' = Total(ghostFiles', Registered')
BY DEF Sum, Total, MapThenSumSet, MapThenFoldSet

\* A step that leaves the registry leaves its sum.
LEMMA SumStays ==
  ASSUME UNCHANGED ghostFiles
  PROVE  Sum' = Sum /\ Registered' = Registered
<1>1. Registered' = Registered
  BY DEF Registered
<1> QED BY <1>1, SumNext DEF Sum

\* getGhostFile changes no size.
LEMMA SumTouched ==
  ASSUME TypeOK, NEW s, Sessions = {s}, NEW k \in Keys, ghostFiles[k] # None,
         ghostFiles' = [ghostFiles EXCEPT ![k].lastAccess = now]
  PROVE  Sum' = Sum /\ Registered' = Registered /\ \A j \in Keys :
           ghostFiles'[j] # None => ghostFiles[j] # None /\ ghostFiles'[j].size = ghostFiles[j].size
<1>1. ghostFiles[k] \in Ghost /\ now \in Nat /\ ghostFiles \in [Keys -> Ghost \cup {None}]
  BY DEF TypeOK
<1> DEFINE g == [ghostFiles[k] EXCEPT !.lastAccess = now]
<1>2. g \in Ghost /\ g.size = ghostFiles[k].size
  BY <1>1 DEF Ghost
<1>3. g # None
  BY <1>2, NoneAssumption
<1>4. ghostFiles' = [ghostFiles EXCEPT ![k] = g]
  BY <1>1
<1> HIDE DEF g
<1>5. Registered' = Registered
  BY <1>1, <1>3, <1>4 DEF Registered
<1>6. \A j \in Keys : ghostFiles'[j].size = ghostFiles[j].size
  BY <1>1, <1>2, <1>4
<1>7. Total(ghostFiles', Registered) = Total(ghostFiles, Registered)
  <2> DEFINE H == ghostFiles'
  <2>1. \A j \in Registered : H[j].size = ghostFiles[j].size
    BY <1>6, SumFacts
  <2> HIDE DEF H
  <2>2. Total(H, Registered) = Total(ghostFiles, Registered)
    BY <2>1, SumFacts, TotalSame
  <2> QED BY <2>2 DEF H
<1> QED BY <1>1, <1>4, <1>5, <1>6, <1>7, SumNext DEF Sum, Registered
\* A ghost that is stored where there was none adds its size.
LEMMA SumStored ==
  ASSUME TypeOK, NEW s, Sessions = {s}, NEW k \in Keys, ghostFiles[k] = None,
         NEW g \in Ghost, ghostFiles' = [ghostFiles EXCEPT ![k] = g]
  PROVE  /\ Sum' = Sum + g.size /\ Registered' = Registered \cup {k} /\ k \notin Registered
         /\ ghostFiles'[k] = g /\ g # None /\ g.size \in Nat
         /\ \A j \in Keys \ {k} : ghostFiles'[j] = ghostFiles[j]
<1>1. /\ ghostFiles'[k] = g /\ g # None /\ g.size \in Nat
      /\ \A j \in Keys \ {k} : ghostFiles'[j] = ghostFiles[j]
  BY NoneAssumption DEF TypeOK, Ghost
<1>2. Registered' = Registered \cup {k} /\ k \notin Registered
  BY <1>1 DEF Registered
<1> DEFINE H == ghostFiles'
           R == Registered \cup {k}
<1>3. IsFiniteSet(R) /\ R \ {k} = Registered /\ \A j \in R : H[j].size \in Nat
  BY <1>1, <1>2, SumFacts, FS_AddElement
<1>4. \A j \in Registered : H[j].size = ghostFiles[j].size
  BY <1>1, <1>2, SumFacts
<1>5. H[k].size = g.size /\ k \in R
  BY <1>1
<1> HIDE DEF H, R
<1>6. Total(H, R) = H[k].size + Total(H, R \ {k})
  BY <1>3, <1>5, TotalRemove
<1>7. Total(H, Registered) = Sum
  BY <1>4, SumFacts, TotalSame DEF Sum
<1>8. Total(H, R) = g.size + Sum
  BY <1>3, <1>5, <1>6, <1>7
<1>9. Sum' = Total(H, R)
  BY <1>2, SumNext DEF H, R
<1> QED BY <1>1, <1>2, <1>8, <1>9, SumFacts

\* A ghost that is deleted takes its size with it.
LEMMA SumDeleted ==
  ASSUME TypeOK, NEW s, Sessions = {s}, NEW k \in Registered,
         ghostFiles' = [ghostFiles EXCEPT ![k] = None]
  PROVE  /\ Sum' = Sum - ghostFiles[k].size /\ Registered' = Registered \ {k}
         /\ \A j \in Keys \ {k} : ghostFiles'[j] = ghostFiles[j]
         /\ ghostFiles'[k] = None /\ Sum' \in Nat
<1>1. /\ \A j \in Keys \ {k} : ghostFiles'[j] = ghostFiles[j]
      /\ ghostFiles'[k] = None
  BY DEF TypeOK, Registered
<1>2. Registered' = Registered \ {k}
  BY <1>1 DEF Registered
<1> DEFINE H == ghostFiles'
           R == Registered \ {k}
<1>3. IsFiniteSet(R) /\ \A j \in R : H[j].size = ghostFiles[j].size /\ ghostFiles[j].size \in Nat
  BY <1>1, SumFacts, FS_Subset
<1>4. Sum = ghostFiles[k].size + Total(ghostFiles, R)
  <2>1. IsFiniteSet(Registered) /\ \A j \in Registered : ghostFiles[j].size \in Nat
    BY SumFacts
  <2>2. \A j \in Registered : Total(ghostFiles, Registered)
                             = ghostFiles[j].size + Total(ghostFiles, Registered \ {j})
    <3> HIDE DEF R
    <3> QED BY <2>1, TotalRemove
  <2> QED BY <2>2 DEF Sum
<1> HIDE DEF H, R
<1>5. Total(H, R) = Total(ghostFiles, R)
  BY <1>3, TotalSame
<1>6. Total(ghostFiles, R) \in Nat
  BY <1>3, TotalRemove
<1>7. Sum' = Total(H, R)
  BY <1>2, SumNext DEF H, R
<1>8. ghostFiles[k].size \in Nat
  BY SumFacts
<1> QED BY <1>1, <1>2, <1>4, <1>5, <1>6, <1>7, <1>8
-----------------------------------------------------------------------------
(* Every step keeps the account.                                           *)

\* A step that is none of the registry's, and does not touch the handle that is
\* being closed.
LEMMA FrameKeeps ==
  ASSUME TypeOK, NEW s \in Sessions, Account(s), NoneExpire', pc'[s] = pc[s],
         UNCHANGED <<regVars, addVars, rmVars>>, pc[s] # "idle" => openFiles' = openFiles
  PROVE  Account(s)'
<1>0. /\ ghostFiles' = ghostFiles /\ usage' = usage /\ global' = global
      /\ fileSize' = fileSize /\ mem' = mem /\ list' = list /\ seen' = seen /\ gmem' = gmem
      /\ job' = job
      /\ victim' = victim /\ vsize' = vsize /\ vmem' = vmem /\ caller' = caller
  BY DEF regVars, addVars, rmVars
<1>1. Sum' = Sum /\ Registered' = Registered
  BY <1>0, SumStays
<1>2. Counted(s)'
  BY <1>0, <1>1 DEF Account, Counted, Held, UsageLag, GlobalLag
<1>3. Working(s)'
  BY <1>0, <1>1 DEF Account, Working, InLoops
<1>4. Removes(s)'
  BY <1>0, <1>1 DEF Account, Removes
<1>5. Stored(s)'
  BY <1>0 DEF Account, Stored, InLoops, Removing, MyKey, Path, makeGhostKey
<1>6. Limits(s)'
  BY <1>0, <1>1 DEF Account, Limits, PastFirstLoop, Within
<1> QED BY <1>2, <1>3, <1>4, <1>5, <1>6 DEF Account

\* Open and Close find the registry at rest and change access times at most.
LEMMA RestKeeps ==
  ASSUME TypeOK, NEW s \in Sessions, Account(s), NoneExpire', pc[s] = "idle",
         pc'[s] \in {"idle", "usage", "unlink"}, UNCHANGED <<usage, global>>,
         Sum' = Sum, Registered' = Registered,
         \A k \in Registered : ghostFiles'[k].size = ghostFiles[k].size,
         pc'[s] = "usage" => ghostFiles'[MyKey(s)'] = None,
         pc'[s] = "unlink" /\ "close" \in CtxOps => ghostFiles'[MyKey(s)'] # None
  PROVE  Account(s)'
<1>1. Counted(s)'
  BY DEF Account, Counted, Held, UsageLag, GlobalLag
<1>2. Working(s)'
  BY DEF Working, InLoops, Removing
<1>3. Removes(s)'
  BY DEF Removes, Removing
<1>4. Stored(s)'
  BY DEF Stored, InLoops, Removing
<1>5. Limits(s)'
  BY DEF Account, Limits, PastFirstLoop, Within, Removing
<1> QED BY <1>1, <1>2, <1>3, <1>4, <1>5 DEF Account

\* Open.
LEMMA OpenKeeps ==
  ASSUME TypeOK, NEW s, Sessions = {s}, Account(s), Open(s)
  PROVE  Account(s)'
<1>0. s \in Sessions
  OBVIOUS
<1>1. NoneExpire'
  BY DEF Account, NoneExpire, Open, OpenTree, OpenCreate, OpenGhost
<1>2. ASSUME NEW h \in Handles, NEW p \in Paths,
             OpenTree(s, h, p) \/ \E n \in Nodes : OpenCreate(s, h, p, n)
      PROVE  Account(s)'
  <2>1. /\ pc[s] = "idle" /\ pc'[s] = pc[s] /\ UNCHANGED <<regVars, addVars, rmVars>>
    BY <1>2 DEF OpenTree, OpenCreate
  <2> QED BY <1>0, <1>1, <2>1, FrameKeeps
<1>3. ASSUME NEW h \in Handles, NEW p \in Paths, OpenGhost(s, h, p)
      PROVE  Account(s)'
  <2>1. /\ <<s, p>> \in Keys /\ ghostFiles[<<s, p>>] # None
        /\ ghostFiles' = [ghostFiles EXCEPT ![<<s, p>>].lastAccess = now]
        /\ pc[s] = "idle" /\ pc'[s] = "idle" /\ UNCHANGED <<usage, global>>
    BY <1>0, <1>3 DEF OpenGhost, makeGhostKey, Keys
  <2>2. /\ Sum' = Sum /\ Registered' = Registered
        /\ \A k \in Registered : ghostFiles'[k].size = ghostFiles[k].size
    BY <2>1, SumTouched DEF Registered
  <2> QED BY <1>0, <1>1, <2>1, <2>2, RestKeeps
<1> QED BY <1>2, <1>3 DEF Open

\* Close: a ghost that is there is touched; a file that is none is to be added.
LEMMA CloseKeeps ==
  ASSUME TypeOK, NEW s, Sessions = {s}, Account(s), NEW h \in Handles, Close(s, h)
  PROVE  Account(s)'
<1> DEFINE k == <<s, openFiles[h].path>>
<1>0. /\ s \in Sessions /\ pc[s] = "idle" /\ k \in Keys /\ openFiles' = openFiles
      /\ job'[s] = h /\ UNCHANGED <<usage, global, now>>
  BY DEF Close, At, Keys, fsVars, TypeOK, OpenFile
<1>1. MyKey(s)' = k
  BY <1>0 DEF MyKey, Path, makeGhostKey
<1>2. NoneExpire'
  <2>1. Cleaner # s /\ Cleaner \in Actors
    BY GhostAssumption DEF Actors
  <2>2. pc'[Cleaner] = pc[Cleaner]
    BY <1>0, <2>1 DEF Close, Goto, TypeOK
  <2> QED BY <1>0, <2>2 DEF Account, NoneExpire
<1>3. CASE ghostFiles[k] # None /\ "close" \in CtxOps
  <2>1. ghostFiles' = [ghostFiles EXCEPT ![k].lastAccess = now] /\ pc'[s] = "unlink"
    BY <1>0, <1>3 DEF Close, makeGhostKey, Goto, TypeOK, Actors
  <2> HIDE DEF k
  <2>2. /\ Sum' = Sum /\ Registered' = Registered
        /\ \A j \in Registered : ghostFiles'[j].size = ghostFiles[j].size
        /\ ghostFiles'[k] # None
    BY <1>0, <1>3, <2>1, SumTouched DEF Registered
  <2> QED BY <1>0, <1>1, <1>2, <2>1, <2>2, RestKeeps
<1>4. CASE ~(ghostFiles[k] # None /\ "close" \in CtxOps)
  <2>1. /\ ghostFiles' = ghostFiles /\ pc'[s] \in {"unlink", "usage"}
        /\ pc'[s] = "usage" => ghostFiles[k] = None
        /\ "close" \in CtxOps => pc'[s] # "unlink"
    BY <1>0, <1>4 DEF Close, makeGhostKey, Goto, TypeOK, Actors
  <2> HIDE DEF k
  <2>2. Sum' = Sum /\ Registered' = Registered
    BY <2>1, SumStays
  <2> QED BY <1>0, <1>1, <1>2, <2>1, <2>2, RestKeeps
<1> QED BY <1>3, <1>4
\* A step of the session leaves the cleanup goroutine where it is.
LEMMA OwnStep ==
  ASSUME TypeOK, NEW s \in Sessions, Account(s), NEW l, Goto(s, l), UNCHANGED fsVars
  PROVE  NoneExpire' /\ pc'[s] = l /\ openFiles' = openFiles
<1>1. Cleaner # s /\ Cleaner \in Actors /\ s \in Actors
  BY GhostAssumption DEF Actors
<1>2. pc'[Cleaner] = pc[Cleaner] /\ pc'[s] = l
  BY <1>1 DEF Goto, TypeOK
<1> QED BY <1>2 DEF Account, NoneExpire, fsVars

\* addGhostFile up to its loops.
LEMMA ScanKeeps ==
  ASSUME TypeOK, NEW s, Sessions = {s}, Account(s), LoadUsage(s) \/ Scan(s)
  PROVE  Account(s)'
<1>0. /\ s \in Sessions /\ ghostFiles' = ghostFiles /\ usage' = usage /\ global' = global
      /\ job' = job
  BY DEF LoadUsage, Scan, regVars
<1>1. Sum' = Sum /\ Registered' = Registered /\ Sum \in Nat
  BY <1>0, SumStays, SumFacts
<1>2. CASE LoadUsage(s)
  <2>1. /\ pc[s] = "usage" /\ pc'[s] = "scan" /\ NoneExpire' /\ openFiles' = openFiles
    BY <1>0, <1>2, OwnStep DEF LoadUsage, At
  <2>2. mem'[s] = Held(s)
    BY <1>0, <1>2 DEF LoadUsage, Held, TypeOK
  <2>3. Held(s) = Sum /\ global = Sum
    BY <1>1, <2>1 DEF Account, Counted, UsageLag, GlobalLag
  <2>4. Counted(s)'
    BY <1>0, <1>1, <2>1, <2>3 DEF Counted, Held, UsageLag, GlobalLag
  <2>5. Working(s)' /\ Removes(s)' /\ Limits(s)'
    BY <1>1, <2>1, <2>2, <2>3 DEF Working, InLoops, Removes, Limits, PastFirstLoop, Removing
  <2>6. Stored(s)'
    BY <1>0, <2>1 DEF Account, Stored, InLoops, Removing, MyKey, Path, makeGhostKey
  <2> QED BY <2>1, <2>4, <2>5, <2>6 DEF Account
<1>3. CASE Scan(s)
  <2>1. /\ pc[s] = "scan" /\ pc'[s] = "evict" /\ NoneExpire' /\ openFiles' = openFiles
        /\ mem' = mem
    BY <1>0, <1>3, OwnStep DEF Scan, At
  <2>2. \A p \in Paths :
          /\ p \in list'[s] <=> ghostFiles[<<s, p>>] # None
          /\ p \in list'[s] => /\ seen'[s][p].size = ghostFiles[<<s, p>>].size
                               /\ seen'[s][p].lastAccess = ghostFiles[<<s, p>>].lastAccess
    BY <1>0, <1>3 DEF Scan, GhostPaths, TypeOK
  <2>3. Counted(s)'
    BY <1>0, <1>1, <2>1 DEF Account, Counted, Held, UsageLag, GlobalLag
  <2>4. Working(s)'
    BY <1>0, <1>1, <2>1, <2>2 DEF Account, Working
  <2>5. Removes(s)' /\ Limits(s)'
    BY <2>1 DEF Removes, Limits, PastFirstLoop, Removing
  <2>6. Stored(s)'
    BY <1>0, <2>1 DEF Account, Stored, InLoops, Removing, MyKey, Path, makeGhostKey
  <2> QED BY <2>1, <2>3, <2>4, <2>5, <2>6 DEF Account
<1> QED BY <1>2, <1>3

\* A step inside the loops that leaves the registry, the counters and what was read
\* of them.
LEMMA LoopKeeps ==
  ASSUME TypeOK, NEW s \in Sessions, Account(s), NoneExpire',
         UNCHANGED <<regVars, openFiles, job, fileSize, mem, list, seen>>,
         InLoops(s), InLoops(s)', UsageLag(s)' = UsageLag(s), GlobalLag(s)' = GlobalLag(s),
         pc'[s] = "gevict" => gmem'[s] = Sum,
         Removes(s)', Limits(s)'
  PROVE  Account(s)'
<1>0. /\ ghostFiles' = ghostFiles /\ usage' = usage /\ global' = global
      /\ fileSize' = fileSize /\ mem' = mem /\ list' = list /\ seen' = seen
      /\ job' = job /\ openFiles' = openFiles
  BY DEF regVars
<1>1. Sum' = Sum /\ Registered' = Registered
  BY <1>0, SumStays
<1>2. Counted(s)'
  BY <1>0, <1>1 DEF Account, Counted, Held
<1>3. Working(s)'
  <2>1. pc'[s] # "ustore"
    BY DEF InLoops, Removing
  <2> QED BY <1>0, <1>1, <2>1 DEF Account, Working
<1>4. Stored(s)'
  BY <1>0 DEF Account, Stored, InLoops, Removing, MyKey, Path, makeGhostKey
<1> QED BY <1>2, <1>3, <1>4 DEF Account

\* The loops of addGhostFile: the victim they choose is the least recently used
\* ghost of all; when they end there is room.
LEMMA LoopsKeep ==
  ASSUME TypeOK, NEW s, Sessions = {s}, Account(s),
         EvictSession(s) \/ EvictDone(s) \/ LoadGlobal(s) \/ EvictGlobal(s) \/ GlobalDone(s)
  PROVE  Account(s)'
<1>0. /\ s \in Sessions /\ s \in Actors
      /\ UNCHANGED <<regVars, job, fileSize, mem, list, seen, openFiles>>
      /\ fileSize[s] \in Nat /\ mem[s] \in Int /\ MaxMem \in Nat /\ MaxGlobal \in Nat
  BY GhostAssumption DEF EvictSession, EvictDone, LoadGlobal, EvictGlobal, GlobalDone, addVars,
                         fsVars, Actors, TypeOK
<1>1. Sum' = Sum /\ Registered' = Registered /\ Sum \in Nat /\ ghostFiles' = ghostFiles
      /\ mem' = mem /\ fileSize' = fileSize /\ list' = list
  BY <1>0, SumStays, SumFacts DEF regVars
<1>2. ASSUME EvictSession(s) PROVE Account(s)'
  <2>1. /\ pc[s] = "evict" /\ pc'[s] = "rmload" /\ NoneExpire' /\ caller'[s] = "session"
    BY <1>0, <1>2, OwnStep DEF EvictSession, At, TypeOK
  <2>2. PICK p \in Paths : Oldest(s, p) /\ victim'[s] = <<s, p>>
    BY <1>0, <1>2 DEF EvictSession, TypeOK
  <2>3. \A q \in Paths :
          /\ q \in list[s] <=> ghostFiles[<<s, q>>] # None
          /\ q \in list[s] => seen[s][q].lastAccess = ghostFiles[<<s, q>>].lastAccess
    BY <2>1 DEF Account, Working, InLoops
  <2>4. /\ p \in list[s] /\ \A q \in list[s] : seen[s][p].lastAccess <= seen[s][q].lastAccess
    BY <2>2 DEF Oldest
  <2>5. <<s, p>> \in Registered
    BY <1>0, <2>3, <2>4 DEF Registered, Keys
  <2>6. ASSUME NEW j \in Registered
        PROVE  ghostFiles[<<s, p>>].lastAccess <= ghostFiles[j].lastAccess
    <3>1. j = <<s, j[2]>> /\ j[2] \in Paths /\ ghostFiles[j] # None
      BY SumFacts DEF Registered
    <3>2. j[2] \in list[s]
      BY <2>3, <3>1
    <3> QED BY <2>3, <2>4, <3>1, <3>2
  <2>7. Removes(s)'
    BY <1>1, <2>1, <2>2, <2>5, <2>6 DEF Removes
  <2>8. Limits(s)'
    BY <2>1 DEF Limits, PastFirstLoop
  <2> QED BY <1>0, <2>1, <2>7, <2>8, LoopKeeps DEF InLoops, UsageLag, GlobalLag, Removing
<1>3. ASSUME EvictDone(s) PROVE Account(s)'
  <2>1. /\ pc[s] = "evict" /\ pc'[s] = "gload" /\ NoneExpire'
        /\ ~OverSession(s) \/ list[s] = {}
    BY <1>0, <1>3, OwnStep DEF EvictDone, At
  <2>2. list[s] = {} => Registered = {}
    <3>1. \A q \in Paths : q \in list[s] <=> ghostFiles[<<s, q>>] # None
      BY <2>1 DEF Account, Working, InLoops
    <3>2. ASSUME list[s] = {}, NEW j \in Registered PROVE FALSE
      <4>1. j = <<s, j[2]>> /\ j[2] \in Paths
        BY SumFacts
      <4>2. ghostFiles[j] # None
        BY DEF Registered
      <4> QED BY <3>1, <3>2, <4>1, <4>2
    <3> QED BY <3>2
  <2>3. Registered = {} \/ mem[s] + fileSize[s] <= MaxMem
    BY <1>0, <2>1, <2>2 DEF OverSession
  <2>4. Removes(s)' /\ Limits(s)'
    BY <1>1, <2>1, <2>3 DEF Removes, Limits, PastFirstLoop, Removing
  <2> QED BY <1>0, <2>1, <2>4, LoopKeeps DEF InLoops, UsageLag, GlobalLag, Removing
<1>4. ASSUME LoadGlobal(s) PROVE Account(s)'
  <2>1. /\ pc[s] = "gload" /\ pc'[s] = "gevict" /\ NoneExpire' /\ gmem'[s] = global
    BY <1>0, <1>4, OwnStep DEF LoadGlobal, At, TypeOK
  <2>2. global = Sum
    BY <1>1, <2>1 DEF Account, Counted, GlobalLag
  <2>3. Removes(s)' /\ Limits(s)'
    BY <1>1, <2>1 DEF Account, Removes, Limits, PastFirstLoop, Removing
  <2> QED BY <1>0, <2>1, <2>2, <2>3, LoopKeeps DEF InLoops, UsageLag, GlobalLag, Removing
<1>5. ASSUME EvictGlobal(s) PROVE Account(s)'
  <2>1. /\ pc[s] = "gevict" /\ pc'[s] = "rmload" /\ NoneExpire' /\ caller'[s] = "global"
    BY <1>0, <1>5, OwnStep DEF EvictGlobal, At, TypeOK
  <2>2. PICK k \in Registered :
          /\ \A j \in Registered : ghostFiles[k].lastAccess <= ghostFiles[j].lastAccess
          /\ victim'[s] = k
    BY <1>0, <1>5 DEF EvictGlobal, TypeOK
  <2>3. Removes(s)'
    BY <1>1, <2>1, <2>2 DEF Removes
  <2>4. Limits(s)'
    BY <1>1, <2>1 DEF Account, Limits, PastFirstLoop
  <2> QED BY <1>0, <2>1, <2>3, <2>4, LoopKeeps DEF InLoops, UsageLag, GlobalLag, Removing
<1>6. ASSUME GlobalDone(s) PROVE Account(s)'
  <2>1. /\ pc[s] = "gevict" /\ pc'[s] = "store" /\ NoneExpire'
        /\ ~OverGlobal(s) \/ Registered = {}
    BY <1>0, <1>6, OwnStep DEF GlobalDone, At
  <2>2. gmem[s] = Sum
    BY <2>1 DEF Account, Working
  <2>3. Registered = {} => Sum = 0
    BY TotalEmpty DEF Sum
  <2>4. Sum = 0 \/ Sum + fileSize[s] <= MaxGlobal
    BY <1>0, <1>1, <2>1, <2>2, <2>3 DEF OverGlobal
  <2>5. Removes(s)' /\ Limits(s)'
    BY <1>1, <2>1, <2>4 DEF Account, Removes, Limits, PastFirstLoop, Removing
  <2> QED BY <1>0, <2>1, <2>5, LoopKeeps DEF InLoops, UsageLag, GlobalLag, Removing
<1> QED BY <1>2, <1>3, <1>4, <1>5, <1>6
\* The new ghost is within the limits, or alone.
LEMMA StoreKeeps ==
  ASSUME TypeOK, NEW s, Sessions = {s}, Account(s), StoreGhost(s)
  PROVE  Account(s)'
<1> DEFINE k == MyKey(s)
           g == [node |-> Node(s), size |-> fileSize[s], lastAccess |-> now]
<1>0. /\ s \in Sessions /\ pc[s] = "store" /\ pc'[s] = "ustore" /\ NoneExpire'
      /\ UNCHANGED <<usage, global, job, fileSize, mem, openFiles>>
      /\ fileSize[s] \in Nat /\ MaxMem \in Nat /\ MaxGlobal \in Nat /\ Sum \in Nat
  BY GhostAssumption, OwnStep, SumFacts DEF StoreGhost, At, addVars, TypeOK
<1>1. k \in Keys /\ g \in Ghost
  <2>1. job[s] \in Handles /\ openFiles[job[s]] \in OpenFile
    BY <1>0 DEF TypeOK, Stages
  <2> QED BY <1>0, <2>1 DEF MyKey, Path, Node, makeGhostKey, OpenFile, Ghost, TypeOK, Keys
<1>2. ghostFiles[k] = None
  BY <1>0 DEF Account, Stored, InLoops
<1>3. ghostFiles' = [ghostFiles EXCEPT ![k] = g] /\ g.size = fileSize[s]
  BY DEF StoreGhost
<1>4. MyKey(s)' = k
  BY <1>0 DEF MyKey, Path, makeGhostKey
<1> HIDE DEF k, g
<1>5. /\ Sum' = Sum + fileSize[s] /\ Registered' = Registered \cup {k}
      /\ ghostFiles'[k] # None /\ ghostFiles'[k].size = fileSize[s]
  BY <1>1, <1>2, <1>3, SumStored
<1>6. /\ Held(s) = Sum /\ global = Sum /\ mem[s] = Sum
      /\ Registered = {} \/ mem[s] + fileSize[s] <= MaxMem
      /\ Sum = 0 \/ Sum + fileSize[s] <= MaxGlobal
  BY <1>0 DEF Account, Counted, Working, Limits, UsageLag, GlobalLag, InLoops, PastFirstLoop
<1>7. Counted(s)' /\ Working(s)' /\ Removes(s)' /\ Stored(s)'
  BY <1>0, <1>4, <1>5, <1>6
     DEF Counted, Working, Removes, Stored, Held, UsageLag, GlobalLag, InLoops, Removing
<1>8. Within'
  <2>1. Sum' > MaxMem => Cardinality(Registered)' = 1
    <3>1. ASSUME Registered = {} PROVE Cardinality(Registered') = 1
      <4>1. Registered' = {k}
        BY <1>5, <3>1
      <4> QED BY <4>1, FS_Singleton
    <3> QED BY <1>0, <1>5, <1>6, <3>1
  <2>2. Sum' > MaxGlobal => \E j \in Registered' : Sum' = ghostFiles'[j].size
    BY <1>0, <1>5, <1>6
  <2> QED BY <2>1, <2>2 DEF Within
<1>9. Limits(s)'
  BY <1>0, <1>8 DEF Limits, PastFirstLoop, Removing
<1> QED BY <1>0, <1>7, <1>9 DEF Account

\* The counters follow, and Close returns.
LEMMA CountKeeps ==
  ASSUME TypeOK, NEW s, Sessions = {s}, Account(s), StoreUsage(s) \/ AddGlobal(s) \/ Unlink(s)
  PROVE  Account(s)'
<1>0. /\ s \in Sessions /\ s \in Actors /\ ghostFiles' = ghostFiles
      /\ fileSize[s] \in Nat /\ mem[s] \in Int
  BY DEF StoreUsage, AddGlobal, Unlink, regVars, TypeOK, Actors
<1>1. Sum' = Sum /\ Registered' = Registered /\ Sum \in Nat
  BY <1>0, SumStays, SumFacts
<1>2. CASE StoreUsage(s)
  <2>1. /\ pc[s] = "ustore" /\ pc'[s] = "gadd" /\ NoneExpire' /\ openFiles' = openFiles
        /\ job' = job /\ fileSize' = fileSize /\ global' = global
        /\ usage'[s] = mem[s] + fileSize[s]
    BY <1>0, <1>2, OwnStep DEF StoreUsage, At, addVars, TypeOK
  <2>2. /\ mem[s] = Sum - fileSize[s] /\ global = Sum - fileSize[s] /\ Within
        /\ ghostFiles[MyKey(s)] # None
    BY <2>1 DEF Account, Counted, Working, GlobalLag, Limits, Stored
  <2>3. Held(s)' = Sum
    BY <1>0, <1>1, <2>1, <2>2, NoneAssumption DEF Held
  <2>4. Counted(s)' /\ Working(s)' /\ Removes(s)'
    BY <1>1, <2>1, <2>2, <2>3
       DEF Counted, Working, Removes, UsageLag, GlobalLag, InLoops, Removing
  <2>5. Stored(s)' /\ Limits(s)'
    BY <1>0, <1>1, <2>1, <2>2
       DEF Stored, MyKey, Path, makeGhostKey, Limits, Within, InLoops, PastFirstLoop, Removing
  <2> QED BY <2>1, <2>4, <2>5 DEF Account
<1>3. CASE AddGlobal(s)
  <2>1. /\ pc[s] = "gadd" /\ pc'[s] = "unlink" /\ NoneExpire' /\ openFiles' = openFiles
        /\ job' = job /\ usage' = usage /\ global' = global + fileSize[s]
    BY <1>0, <1>3, OwnStep DEF AddGlobal, At, addVars, TypeOK
  <2>2. /\ Held(s) = Sum /\ global = Sum - fileSize[s] /\ Within
        /\ ghostFiles[MyKey(s)] # None
    BY <1>1, <2>1 DEF Account, Counted, GlobalLag, UsageLag, Limits, Stored
  <2>3. Counted(s)' /\ Working(s)' /\ Removes(s)'
    BY <1>0, <1>1, <2>1, <2>2
       DEF Counted, Working, Removes, Held, UsageLag, GlobalLag, InLoops, Removing
  <2>4. Stored(s)' /\ Limits(s)'
    BY <1>0, <1>1, <2>1, <2>2
       DEF Stored, MyKey, Path, makeGhostKey, Limits, Within, InLoops, PastFirstLoop, Removing
  <2> QED BY <2>1, <2>3, <2>4 DEF Account
<1>4. CASE Unlink(s)
  <2>1. /\ pc[s] = "unlink" /\ pc'[s] = "idle" /\ UNCHANGED <<usage, global, now>>
    BY <1>0, <1>4 DEF Unlink, At, Goto, regVars, TypeOK
  <2>2. NoneExpire'
    <3>1. Cleaner # s
      BY GhostAssumption, <1>0
    <3>2. pc'[Cleaner] = pc[Cleaner]
      BY <1>4, <3>1 DEF Unlink, Goto, TypeOK, Actors
    <3> QED BY <2>1, <3>2 DEF Account, NoneExpire
  <2>3. Held(s) = Sum /\ global = Sum /\ Within
    BY <1>1, <2>1 DEF Account, Counted, GlobalLag, UsageLag, Limits
  <2>4. Counted(s)' /\ Working(s)' /\ Removes(s)' /\ Stored(s)' /\ Limits(s)'
    BY <1>0, <1>1, <2>1, <2>3
       DEF Counted, Working, Removes, Held, UsageLag, GlobalLag, InLoops, Removing, Stored,
           Limits, Within, PastFirstLoop
  <2> QED BY <2>2, <2>4 DEF Account
<1> QED BY <1>2, <1>3, <1>4
\* removeGhostFile up to the deletion: first one counter goes down, then the other.
LEMMA RmKeeps ==
  ASSUME TypeOK, NEW s, Sessions = {s}, Account(s),
         RmLoad(s) \/ RmUsage(s) \/ RmStore(s) \/ RmGlobal(s)
  PROVE  Account(s)'
<1> DEFINE v == victim[s]
<1>0. /\ s \in Sessions /\ s \in Actors /\ ghostFiles' = ghostFiles
      /\ UNCHANGED <<fsVars, job, fileSize, mem, list, seen, gmem, victim, caller>>
      /\ pc[s] \in Removing /\ vsize[s] \in Nat
  BY DEF RmLoad, RmUsage, RmStore, RmGlobal, regVars, addVars, rmVars, TypeOK, Actors, At, Removing
<1>1. Sum' = Sum /\ Registered' = Registered /\ Sum \in Nat
  BY <1>0, SumStays, SumFacts
<1>2. /\ v \in Registered /\ v[1] = s /\ ghostFiles[v].size \in Nat
      /\ \A j \in Registered : ghostFiles[v].lastAccess <= ghostFiles[j].lastAccess
      /\ pc[s] # "rmload" => vsize[s] = ghostFiles[v].size
  BY <1>0, SumFacts DEF Account, Removes
<1>3. ghostFiles[v].size <= Sum
  <2>1. Sum = ghostFiles[v].size + Total(ghostFiles, Registered \ {v})
    BY <1>2, SumFacts, TotalRemove DEF Sum
  <2>2. Total(ghostFiles, Registered \ {v}) \in Nat
    <3> DEFINE R == Registered \ {v}
    <3>1. IsFiniteSet(R) /\ \A j \in R : ghostFiles[j].size \in Nat
      BY SumFacts, FS_Subset
    <3> HIDE DEF R
    <3>2. Total(ghostFiles, R) \in Nat
      BY <3>1, TotalRemove
    <3> QED BY <3>2 DEF R
  <2> QED BY <1>1, <1>2, <2>1, <2>2
<1>4. ASSUME NEW l \in Removing, Goto(s, l), Counted(s)',
             l # "rmload" => vsize'[s] = ghostFiles[v].size,
             l = "rmstore" => vmem'[s] = usage'[s]
      PROVE  Account(s)'
  <2>1. pc'[s] = l /\ NoneExpire' /\ openFiles' = openFiles
    BY <1>0, <1>4, OwnStep
  <2>2. Removes(s)'
    BY <1>0, <1>1, <1>2, <1>4, <2>1 DEF Removes
  <2>3. Working(s)' /\ Stored(s)' /\ Limits(s)'
    BY <1>0, <1>1, <2>1
       DEF Account, Working, Stored, Limits, InLoops, PastFirstLoop, Removing, MyKey, Path,
           makeGhostKey
  <2> QED BY <1>4, <2>1, <2>2, <2>3 DEF Account
<1>5. /\ Held(s) = Sum - (IF pc[s] \in {"rmglobal", "rmdelete"} THEN vsize[s] ELSE 0)
      /\ global = Sum - (IF pc[s] = "rmdelete" THEN vsize[s] ELSE 0)
  BY <1>0 DEF Account, Counted, UsageLag, GlobalLag, Removing
<1>6. CASE RmLoad(s)
  <2>1. /\ pc[s] = "rmload" /\ Goto(s, "rmusage") /\ vsize'[s] = ghostFiles[v].size
        /\ usage' = usage /\ global' = global
    BY <1>0, <1>2, <1>6 DEF RmLoad, Registered, TypeOK, At, regVars
  <2>2. pc'[s] = "rmusage"
    BY <1>0, <2>1, OwnStep
  <2>3. Counted(s)'
    BY <1>1, <1>5, <2>1, <2>2 DEF Counted, Held, UsageLag, GlobalLag
  <2> QED BY <1>4, <2>1, <2>3 DEF Removing
<1>7. CASE RmUsage(s)
  <2>1. /\ pc[s] = "rmusage" /\ vmem'[s] = usage[s] /\ vsize' = vsize
        /\ usage' = usage /\ global' = global
        /\ Goto(s, IF usage[s] = None THEN "rmglobal" ELSE "rmstore")
    BY <1>0, <1>2, <1>7 DEF RmUsage, TypeOK, At, regVars
  <2>2. vsize[s] = ghostFiles[v].size /\ Held(s) = Sum /\ global = Sum
    BY <1>1, <1>2, <1>5, <2>1
  <2>3. CASE usage[s] = None
    <3>1. Goto(s, "rmglobal") /\ pc'[s] = "rmglobal"
      BY <1>0, <2>1, <2>3, OwnStep
    <3>2. vsize[s] = 0 /\ Sum = 0
      BY <1>1, <1>2, <1>3, <2>2, <2>3 DEF Held
    <3>3. Counted(s)'
      BY <1>1, <2>1, <2>2, <2>3, <3>1, <3>2 DEF Counted, Held, UsageLag, GlobalLag
    <3> QED BY <1>4, <2>1, <2>2, <3>1, <3>3 DEF Removing
  <2>4. CASE usage[s] # None
    <3>1. Goto(s, "rmstore") /\ pc'[s] = "rmstore"
      BY <1>0, <2>1, <2>4, OwnStep
    <3>2. Counted(s)'
      BY <1>1, <2>1, <2>2, <3>1 DEF Counted, Held, UsageLag, GlobalLag
    <3> QED BY <1>4, <2>1, <2>2, <3>1, <3>2 DEF Removing
  <2> QED BY <2>3, <2>4
<1>8. CASE RmStore(s)
  <2>1. /\ pc[s] = "rmstore" /\ vsize' = vsize /\ vmem' = vmem /\ global' = global
        /\ Goto(s, "rmglobal")
        /\ usage'[s] = IF vmem[s] - vsize[s] <= 0 THEN None ELSE vmem[s] - vsize[s]
    BY <1>0, <1>2, <1>8 DEF RmStore, TypeOK, At, rmVars
  <2>2. vsize[s] = ghostFiles[v].size /\ Held(s) = Sum /\ global = Sum
    BY <1>1, <1>2, <1>5, <2>1
  <2>3. vmem[s] = Sum
    <3>1. vmem[s] = usage[s] /\ vmem[s] \in Int
      BY <1>0, <2>1 DEF Account, Removes, TypeOK, Stages
    <3> QED BY <2>2, <3>1, NoneAssumption DEF Held
  <2>4. Held(s)' = Sum - vsize[s]
    BY <1>0, <1>1, <1>3, <2>1, <2>2, <2>3, NoneAssumption DEF Held
  <2>5. pc'[s] = "rmglobal"
    BY <1>0, <2>1, OwnStep
  <2>6. Counted(s)'
    BY <1>1, <2>1, <2>2, <2>4, <2>5 DEF Counted, UsageLag, GlobalLag
  <2> QED BY <1>4, <2>1, <2>2, <2>6 DEF Removing
<1>9. CASE RmGlobal(s)
  <2>1. /\ pc[s] = "rmglobal" /\ vsize' = vsize /\ vmem' = vmem /\ usage' = usage
        /\ Goto(s, "rmdelete") /\ global' = global - vsize[s]
    BY <1>9 DEF RmGlobal, At, rmVars
  <2>2. vsize[s] = ghostFiles[v].size /\ Held(s) = Sum - vsize[s] /\ global = Sum
    BY <1>1, <1>2, <1>5, <2>1
  <2>3. pc'[s] = "rmdelete"
    BY <1>0, <2>1, OwnStep
  <2>4. Counted(s)'
    BY <1>0, <1>1, <2>1, <2>2, <2>3 DEF Counted, Held, UsageLag, GlobalLag
  <2> QED BY <1>4, <2>1, <2>2, <2>4 DEF Removing
<1> QED BY <1>6, <1>7, <1>8, <1>9

\* With the victim gone everything agrees again.
LEMMA DeleteKeeps ==
  ASSUME TypeOK, NEW s, Sessions = {s}, Account(s), RmDelete(s)
  PROVE  Account(s)'
<1> DEFINE v == victim[s]
<1>0. /\ s \in Sessions /\ s \in Actors /\ pc[s] = "rmdelete" /\ pc[s] \in Removing
      /\ UNCHANGED <<fsVars, usage, global, job, fileSize, seen, gmem>>
      /\ fileSize[s] \in Nat /\ mem[s] \in Int /\ MaxMem \in Nat
  BY GhostAssumption DEF RmDelete, At, Removing, Actors, TypeOK
<1>1. /\ v \in Registered /\ v = <<s, v[2]>> /\ v[2] \in Paths
      /\ ghostFiles[v].size \in Nat /\ vsize[s] = ghostFiles[v].size /\ Sum \in Nat
  BY <1>0, SumFacts DEF Account, Removes
<1>2. ghostFiles' = [ghostFiles EXCEPT ![v] = None]
  BY DEF RmDelete
<1>3. /\ Sum' = Sum - vsize[s] /\ Registered' = Registered \ {v} /\ Sum' \in Nat
      /\ \A j \in Keys \ {v} : ghostFiles'[j] = ghostFiles[j]
      /\ ghostFiles'[v] = None
  <2> HIDE DEF v
  <2> QED BY <1>1, <1>2, SumDeleted
<1>4. /\ Held(s) = Sum - vsize[s] /\ global = Sum - vsize[s] /\ mem[s] = Sum
      /\ \A p \in Paths :
           /\ p \in list[s] <=> ghostFiles[<<s, p>>] # None
           /\ p \in list[s] => /\ seen[s][p].size = ghostFiles[<<s, p>>].size
                               /\ seen[s][p].lastAccess = ghostFiles[<<s, p>>].lastAccess
  BY <1>0 DEF Account, Counted, Working, UsageLag, GlobalLag, InLoops
<1>5. v[2] \in list[s] /\ seen[s][v[2]].size = vsize[s]
  <2>1. ghostFiles[<<s, v[2]>>] # None
    BY <1>1 DEF Registered
  <2>2. v[2] \in list[s]
    BY <1>1, <1>4, <2>1
  <2>3. seen[s][v[2]].size = ghostFiles[<<s, v[2]>>].size
    BY <1>1, <1>4, <2>2
  <2> QED BY <1>1, <2>2, <2>3
<1>6. mem'[s] = mem[s] - vsize[s] /\ list'[s] = list[s] \ {v[2]}
  BY <1>0, <1>1, <1>5 DEF RmDelete, TypeOK
<1>7. PICK l \in {"evict", "gload"} : Goto(s, l) /\ (l = "gload" => caller[s] = "global")
  <2>1. caller[s] \in {"session", "global"}
    BY <1>0 DEF TypeOK, Stages
  <2> QED BY <2>1 DEF RmDelete
<1>8. NoneExpire' /\ pc'[s] = l /\ openFiles' = openFiles
  BY <1>0, <1>7, OwnStep
<1>9. Counted(s)'
  BY <1>0, <1>3, <1>4, <1>8 DEF Counted, Held, UsageLag, GlobalLag
<1>10. Working(s)'
  <2>1. ASSUME NEW p \in Paths
        PROVE  /\ p \in list'[s] <=> ghostFiles'[<<s, p>>] # None
               /\ p \in list'[s] =>
                    /\ seen'[s][p].size = ghostFiles'[<<s, p>>].size
                    /\ seen'[s][p].lastAccess = ghostFiles'[<<s, p>>].lastAccess
    <3>1. CASE p = v[2]
      BY <1>1, <1>3, <1>6, <3>1
    <3>2. CASE p # v[2]
      <4>1. <<s, p>> \in Keys \ {v}
        BY <1>0, <1>1, <3>2 DEF Keys
      <4>2. ghostFiles'[<<s, p>>] = ghostFiles[<<s, p>>]
        BY <1>3, <4>1
      <4>3. p \in list'[s] <=> p \in list[s]
        BY <1>6, <3>2
      <4> QED BY <1>0, <1>4, <4>2, <4>3
    <3> QED BY <3>1, <3>2
  <2>2. mem'[s] = Sum'
    BY <1>3, <1>4, <1>6
  <2> QED BY <1>8, <2>1, <2>2 DEF Working
<1>11. Removes(s)'
  BY <1>8 DEF Removes, Removing
<1>12. Stored(s)'
  <2>1. ghostFiles[MyKey(s)] = None /\ MyKey(s)' = MyKey(s)
    BY <1>0, <1>8 DEF Account, Stored, InLoops, MyKey, Path, makeGhostKey
  <2>2. MyKey(s) \in Keys
    BY <1>0 DEF TypeOK, Stages, OpenFile, MyKey, Path, makeGhostKey, Keys
  <2>3. ghostFiles'[MyKey(s)] = None
    BY <1>3, <2>1, <2>2
  <2> QED BY <1>8, <2>1, <2>3 DEF Stored
<1>13. Limits(s)'
  <2>1. caller[s] = "global" => Registered = {} \/ mem[s] + fileSize[s] <= MaxMem
    BY <1>0 DEF Account, Limits, PastFirstLoop
  <2>2. vsize[s] \in Nat
    BY <1>1
  <2>3. l = "gload" => Registered' = {} \/ mem'[s] + fileSize'[s] <= MaxMem
    BY <1>0, <1>3, <1>6, <1>7, <2>1, <2>2
  <2>4. PastFirstLoop(s)' => l = "gload"
    BY <1>8 DEF PastFirstLoop, Removing
  <2> QED BY <1>8, <2>3, <2>4 DEF Limits
<1> QED BY <1>8, <1>9, <1>10, <1>11, <1>12, <1>13 DEF Account
-----------------------------------------------------------------------------
\* Every step keeps the account: the cleanup goroutine takes none.
LEMMA AccountStep ==
  ASSUME TypeOK, NEW s, Sessions = {s}, MaxTime <= Expiry, Account(s), [Next]_vars
  PROVE  Account(s)'
<1>0. s \in Sessions /\ NoneExpire /\ now \in Nat /\ MaxTime \in Nat /\ Expiry \in Nat
  BY GhostAssumption DEF Account, TypeOK
<1>1. CASE Tick
  <2>1. /\ NoneExpire' /\ pc' = pc /\ openFiles' = openFiles
        /\ UNCHANGED <<regVars, addVars, rmVars>>
    BY <1>0, <1>1 DEF Tick, NoneExpire
  <2> QED BY <1>0, <2>1, FrameKeeps
<1>2. ASSUME NEW h \in Handles, NEW e \in 1..MaxSize, Write(h, e) PROVE Account(s)'
  <2>1. /\ NoneExpire' /\ pc' = pc /\ openFiles' = openFiles
        /\ UNCHANGED <<regVars, addVars, rmVars>>
    BY <1>0, <1>2 DEF Write, NoneExpire
  <2> QED BY <1>0, <2>1, FrameKeeps
<1>3. CASE UNCHANGED vars
  <2>1. /\ NoneExpire' /\ pc' = pc /\ openFiles' = openFiles
        /\ UNCHANGED <<regVars, addVars, rmVars>>
    BY <1>0, <1>3 DEF vars, fsVars, NoneExpire
  <2> QED BY <1>0, <2>1, FrameKeeps
<1>4. CASE Cleanup
  <2>1. PICK k \in Keys : Expired(k)
    BY <1>4 DEF Cleanup, Clean
  <2>2. ghostFiles[k] \in Ghost
    BY <2>1 DEF Expired, TypeOK
  <2>3. ghostFiles[k].lastAccess \in Nat
    BY <2>2 DEF Ghost
  <2> QED BY <1>0, <2>1, <2>3 DEF Expired, NoneExpire
<1>5. ASSUME removeGhostFile(Cleaner) PROVE Account(s)'
  BY <1>0, <1>5 DEF removeGhostFile, RmLoad, RmUsage, RmStore, RmGlobal, RmDelete, At, NoneExpire
<1>6. CASE Open(s)
  BY <1>6, OpenKeeps
<1>7. ASSUME NEW h \in Handles, Close(s, h) PROVE Account(s)'
  BY <1>7, CloseKeeps
<1>8. CASE addGhostFile(s)
  BY <1>8, ScanKeeps, LoopsKeep, StoreKeeps, CountKeeps, Zenon DEF addGhostFile
<1>9. CASE removeGhostFile(s)
  BY <1>9, RmKeeps, DeleteKeeps, Zenon DEF removeGhostFile
<1>10. Actors = {s, Cleaner}
  BY DEF Actors
<1> QED BY <1>1, <1>2, <1>3, <1>4, <1>5, <1>6, <1>7, <1>8, <1>9, <1>10 DEF Next

\* A new registry is empty.
LEMMA InitAccount ==
  ASSUME NEW s \in Sessions, Init
  PROVE  Account(s)
<1>1. /\ pc[s] = "idle" /\ pc[Cleaner] = "idle" /\ now = 0 /\ MaxTime \in Nat
      /\ usage[s] = None /\ global = 0 /\ MaxMem \in Nat /\ MaxGlobal \in Nat
  BY GhostAssumption DEF Init, Actors
<1>2. Registered = {}
  BY DEF Init, Registered
<1>3. Sum = 0
  BY <1>2, TotalEmpty DEF Sum
<1>4. NoneExpire /\ Counted(s)
  BY <1>1, <1>3 DEF NoneExpire, Counted, Held, UsageLag, GlobalLag
<1>5. Working(s) /\ Removes(s) /\ Stored(s)
  BY <1>1 DEF Working, Removes, Stored, InLoops, Removing
<1>6. Limits(s)
  BY <1>1, <1>3 DEF Limits, Within, PastFirstLoop, Removing
<1> QED BY <1>4, <1>5, <1>6 DEF Account

\* The account of the only session, with what GhostFilesProofs shows of all.
AccountInv == IndInv /\ \A s \in Sessions : Account(s)

\* It is kept.
LEMMA AccountKept ==
  ASSUME Alone
  PROVE  Spec => []AccountInv
<1>1. PICK s : Sessions = {s} /\ MaxTime <= Expiry
  BY DEF Alone
<1>2. Init => AccountInv
  BY InitInd, InitAccount DEF AccountInv
<1>3. AccountInv /\ [Next]_vars => AccountInv'
  <2> SUFFICES ASSUME AccountInv, [Next]_vars PROVE AccountInv'
    OBVIOUS
  <2>1. IndInv' /\ TypeOK /\ Account(s)
    BY <1>1, Inductive DEF AccountInv, IndInv
  <2>2. Account(s)'
    BY <1>1, <2>1, AccountStep
  <2> QED BY <1>1, <2>1, <2>2 DEF AccountInv
<1> QED BY <1>2, <1>3, PTL DEF Spec

\* The ghosts of the only session are all there are.
LEMMA OnlyGhosts ==
  ASSUME TypeOK, NEW s, Sessions = {s}
  PROVE  Of(s) = Registered /\ Bytes(Registered) = Sum
<1>1. Of(s) = Registered
  BY SumFacts DEF Of
<1> QED BY <1>1 DEF Bytes, Sum, Total

\* One session, no expiry: whenever no Close is under way, ghostMemoryUsage and
\* ghostMemoryGlobal are exactly the sizes of the ghosts that are registered.
THEOREM AccountsExact ==
  ASSUME Alone
  PROVE  Spec => []AccountingAtRest
<1>1. AccountInv => AccountingAtRest
  <2> SUFFICES ASSUME AccountInv, AtRest, NEW s, Sessions = {s}
               PROVE  Bytes(Of(s)) = Held(s) /\ Bytes(Registered) = global
    BY DEF AccountingAtRest, Alone, Held
  <2>1. TypeOK /\ Account(s) /\ pc[s] = "idle"
    BY DEF AccountInv, IndInv, AtRest, Actors
  <2>2. Held(s) = Sum /\ global = Sum
    BY <2>1, SumFacts DEF Account, Counted, UsageLag, GlobalLag
  <2> QED BY <2>1, <2>2, OnlyGhosts
<1> QED BY <1>1, AccountKept, PTL

\* One session, no expiry: its ghosts stay within the limits of memory except where a
\* single file exceeds them, for any limits and sizes.
THEOREM MemoryHolds ==
  ASSUME Alone
  PROVE  Spec => []MemoryLimited
<1>1. AccountInv => MemoryLimited
  <2> SUFFICES ASSUME AccountInv, AtRest, NEW s, Sessions = {s}
               PROVE  /\ Bytes(Of(s)) > MaxMem => Cardinality(Of(s)) = 1
                      /\ Bytes(Registered) > MaxGlobal =>
                           \E k \in Registered : Bytes(Registered) = ghostFiles[k].size
    BY DEF MemoryLimited, Alone
  <2>1. TypeOK /\ Account(s) /\ pc[s] = "idle"
    BY DEF AccountInv, IndInv, AtRest, Actors
  <2>2. Within
    BY <2>1 DEF Account, Limits
  <2> QED BY <2>1, <2>2, OnlyGhosts DEF Within
<1> QED BY <1>1, AccountKept, PTL

\* One session whose caller sets the context for Close, no expiry: a file it closes is
\* a ghost when Close returns, however little room the limits leave.
THEOREM ClosedIsGhost ==
  ASSUME Alone, "close" \in CtxOps
  PROVE  Spec => []CloseRegisters
<1>1. AccountInv => CloseRegisters
  BY DEF AccountInv, Account, Stored, CloseRegisters, At
<1> QED BY <1>1, AccountKept, PTL

\* One session, no expiry: the ghost that is removed is the least recently used one,
\* although the times were read before earlier evictions.
THEOREM OldestGoesFirst ==
  ASSUME Alone
  PROVE  Spec => LeastRecentFirst
<1> DEFINE A == \A k \in Keys : ghostFiles[k] # None /\ ghostFiles'[k] = None =>
                  \/ Expired(k)
                  \/ \A j \in Registered : j[1] = k[1] =>
                       ghostFiles[k].lastAccess <= ghostFiles[j].lastAccess
<1>1. AccountInv /\ [Next]_vars => [A]_vars
  <2> SUFFICES ASSUME AccountInv, Next, NEW s, Sessions = {s}, NEW k \in Keys,
                      ghostFiles[k] # None, ghostFiles'[k] = None
               PROVE  \A j \in Registered : ghostFiles[k].lastAccess <= ghostFiles[j].lastAccess
    BY DEF Alone
  <2>1. TypeOK /\ Account(s)
    BY DEF AccountInv, IndInv
  <2>2. RmDelete(s)
    <3>1. ghostFiles' # ghostFiles
      OBVIOUS
    <3>2. ASSUME NEW j \in Keys, ghostFiles[j] # None,
                 ghostFiles' = [ghostFiles EXCEPT ![j].lastAccess = now]
          PROVE  FALSE
      <4>1. Registered' = Registered
        BY <2>1, <3>2, SumTouched
      <4> QED BY <4>1 DEF Registered
    <3>3. ~StoreGhost(s)
      <4>1. ASSUME StoreGhost(s) PROVE FALSE
        <5>1. [node |-> Node(s), size |-> fileSize[s], lastAccess |-> now] \in Ghost
          BY <2>1, <4>1 DEF StoreGhost, At, Node, Ghost, OpenFile, TypeOK, Stages
        <5> QED BY <2>1, <4>1, <5>1, NoneAssumption DEF StoreGhost, TypeOK
      <4> QED BY <4>1
    <3>4. \/ Open(s) \/ \E h \in Handles : Close(s, h)
          \/ addGhostFile(s) \/ removeGhostFile(s)
      <4>1. Actors = {s, Cleaner} /\ pc[Cleaner] = "idle"
        BY <2>1 DEF Actors, Account, NoneExpire
      <4>2. ~Tick /\ ~Cleanup /\ ~\E h \in Handles, e \in 1..MaxSize : Write(h, e)
        BY <3>1 DEF Tick, Cleanup, Clean, Write, regVars
      <4>3. ~removeGhostFile(Cleaner)
        BY <4>1 DEF removeGhostFile, RmLoad, RmUsage, RmStore, RmGlobal, RmDelete, At
      <4> QED BY <4>1, <4>2, <4>3 DEF Next
    <3>5. ~Open(s)
      BY <3>1, <3>2 DEF Open, OpenTree, OpenCreate, OpenGhost, regVars, makeGhostKey, Keys
    <3>6. ASSUME NEW h \in Handles, Close(s, h) PROVE FALSE
      <4>1. <<s, openFiles[h].path>> \in Keys
        BY <2>1, <3>6 DEF Close, OpenFile, TypeOK, Keys
      <4> QED BY <3>1, <3>2, <3>6, <4>1 DEF Close, makeGhostKey
    <3>7. ~addGhostFile(s)
      BY <3>1, <3>3 DEF addGhostFile, LoadUsage, Scan, EvictSession, EvictDone, LoadGlobal,
                        EvictGlobal, GlobalDone, StoreUsage, AddGlobal, Unlink, regVars
    <3> QED BY <3>1, <3>4, <3>5, <3>6, <3>7
               DEF removeGhostFile, RmLoad, RmUsage, RmStore, RmGlobal, regVars
  <2>3. ghostFiles' = [ghostFiles EXCEPT ![victim[s]] = None] /\ pc[s] = "rmdelete"
    BY <2>2 DEF RmDelete, At
  <2>4. k = victim[s]
    BY <2>1, <2>3 DEF TypeOK
  <2> QED BY <2>1, <2>3, <2>4 DEF Account, Removes, Removing
<1> QED BY <1>1, AccountKept, PTL DEF Spec, LeastRecentFirst

\* With nothing to expire the cleanup goroutine takes no step.
LEMMA NothingCleaned ==
  ASSUME TypeOK, NEW s \in Sessions, Account(s), MaxTime <= Expiry
  PROVE  ~Cleanup /\ ~removeGhostFile(Cleaner)
<1>1. now \in Nat /\ now <= MaxTime /\ pc[Cleaner] = "idle" /\ MaxTime \in Nat /\ Expiry \in Nat
  BY GhostAssumption DEF Account, NoneExpire, TypeOK
<1>2. ASSUME NEW k \in Keys, Clean(k) PROVE FALSE
  <2>1. ghostFiles[k] # None /\ now - ghostFiles[k].lastAccess > Expiry
    BY <1>2 DEF Clean, Expired
  <2>2. ghostFiles[k].lastAccess \in Nat
    BY <2>1 DEF TypeOK, Ghost
  <2> QED BY <1>1, <2>1, <2>2
<1> QED BY <1>1, <1>2
        DEF Cleanup, removeGhostFile, RmLoad, RmUsage, RmStore, RmGlobal, RmDelete, At

-----------------------------------------------------------------------------
(* The registry of one session is an LRU cache.                            *)

\* While a ghost is removed, the reason for which it was chosen holds.
Needed(s) ==
  pc[s] \in Removing =>
    IF caller[s] = "session" THEN OverSession(s) ELSE gmem[s] = Sum /\ OverGlobal(s)

\* A removal changes what it was chosen by in its last step only.
LEMMA NeededStep ==
  ASSUME TypeOK, NEW s, Sessions = {s}, Account(s), Account(s)', Needed(s), MaxTime <= Expiry,
         [Next]_vars
  PROVE  Needed(s)'
<1>0. /\ s \in Sessions /\ s \in Actors /\ Cleaner # s /\ pc \in [Actors -> Labels]
      /\ caller \in [Actors -> {"session", "global", "clean"}]
  BY GhostAssumption DEF Actors, TypeOK
<1> SUFFICES ASSUME pc'[s] \in Removing
             PROVE  IF caller'[s] = "session" THEN OverSession(s)'
                    ELSE gmem'[s] = Sum' /\ OverGlobal(s)'
  BY DEF Needed
<1>1. CASE EvictSession(s)
  <2>1. OverSession(s) /\ caller'[s] = "session" /\ UNCHANGED <<list, mem, fileSize>>
    BY <1>0, <1>1 DEF EvictSession, addVars
  <2> QED BY <2>1 DEF OverSession
<1>2. CASE EvictGlobal(s)
  <2>1. /\ pc[s] = "gevict" /\ OverGlobal(s) /\ caller'[s] = "global"
        /\ UNCHANGED <<ghostFiles, gmem, fileSize>>
    BY <1>0, <1>2 DEF EvictGlobal, At, addVars, regVars
  <2>2. gmem[s] = Sum
    BY <2>1 DEF Account, Working
  <2> QED BY <2>1, <2>2, SumStays DEF OverGlobal
<1>3. CASE /\ pc[s] \in Removing /\ caller'[s] = caller[s]
           /\ UNCHANGED <<ghostFiles, list, mem, fileSize, gmem>>
  BY <1>3, SumStays DEF Needed, OverSession, OverGlobal
<1>4. CASE pc'[s] = pc[s] /\ UNCHANGED <<regVars, addVars, rmVars>>
  BY <1>3, <1>4 DEF regVars, addVars, rmVars
<1>5. CASE RmLoad(s) \/ RmUsage(s) \/ RmStore(s) \/ RmGlobal(s)
  BY <1>3, <1>5 DEF RmLoad, RmUsage, RmStore, RmGlobal, At, Removing, regVars, addVars, rmVars
<1>6. CASE RmDelete(s)
  <2>1. pc'[s] \in {"evict", "gload", "idle"}
    BY <1>0, <1>6 DEF RmDelete, Goto
  <2> QED BY <2>1 DEF Removing
<1>7. CASE Tick \/ UNCHANGED vars \/ \E h \in Handles, e \in 1..MaxSize : Write(h, e)
  BY <1>4, <1>7 DEF Tick, Write, vars
<1>8. CASE Open(s) \/ \E h \in Handles : Close(s, h)
  <2>1. pc'[s] \in {"idle", "usage", "unlink"}
    BY <1>0, <1>8 DEF Open, OpenTree, OpenCreate, OpenGhost, Close, Goto, At
  <2> QED BY <2>1 DEF Removing
<1>9. CASE LoadUsage(s) \/ Scan(s) \/ EvictDone(s) \/ LoadGlobal(s) \/ GlobalDone(s)
           \/ StoreGhost(s) \/ StoreUsage(s) \/ AddGlobal(s) \/ Unlink(s)
  <2>1. pc'[s] \in {"scan", "evict", "gload", "gevict", "store", "ustore", "gadd", "unlink", "idle"}
    BY <1>0, <1>9 DEF LoadUsage, Scan, EvictDone, LoadGlobal, GlobalDone, StoreGhost, StoreUsage,
                      AddGlobal, Unlink, Goto
  <2> QED BY <2>1 DEF Removing
<1>10. ~Cleanup /\ ~removeGhostFile(Cleaner)
  BY NothingCleaned
<1>11. Actors = {s, Cleaner}
  BY DEF Actors
<1> QED BY <1>1, <1>2, <1>5, <1>6, <1>7, <1>8, <1>9, <1>10, <1>11
        DEF Next, addGhostFile, removeGhostFile
\* What the cache sees of the handles, and of a change to one of them.
LEMMA OpenViews ==
  ASSUME TypeOK
  PROVE  /\ \A h \in Handles : openFiles[h] = None => OpenOf[h] = None
         /\ \A h \in Handles : openFiles[h] # None =>
              /\ OpenOf[h] # None
              /\ OpenOf[h].key = <<openFiles[h].session, openFiles[h].path>>
              /\ OpenOf[h].node = openFiles[h].node
              /\ OpenOf[h].key \in Keys /\ OpenOf[h].node \in AllNodes
<1> SUFFICES ASSUME NEW h \in Handles, openFiles[h] # None
             PROVE  /\ OpenOf[h] # None
                    /\ OpenOf[h].key = <<openFiles[h].session, openFiles[h].path>>
                    /\ OpenOf[h].node = openFiles[h].node
                    /\ OpenOf[h].key \in Keys /\ OpenOf[h].node \in AllNodes
  BY DEF OpenOf
<1>1. openFiles[h] \in OpenFile
  BY DEF TypeOK
<1>2. OpenOf[h] = [key |-> <<openFiles[h].session, openFiles[h].path>>,
                   node |-> openFiles[h].node]
  BY DEF OpenOf, makeGhostKey
<1>3. OpenOf[h] \in OpenView
  BY <1>1, <1>2 DEF OpenView, OpenFile, Keys
<1> QED BY <1>1, <1>2, <1>3, NoneAssumption DEF OpenFile, Keys

LEMMA OpenAdded ==
  ASSUME TypeOK, NEW h \in Handles, NEW t \in Sessions, NEW p \in Paths, NEW n \in AllNodes,
         openFiles' = [openFiles EXCEPT ![h] = [session |-> t, path |-> p, node |-> n]]
  PROVE  OpenOf' = [OpenOf EXCEPT ![h] = [key |-> <<t, p>>, node |-> n]]
<1> DEFINE o == [session |-> t, path |-> p, node |-> n]
<1>1. o \in OpenFile /\ o.session = t /\ o.path = p /\ o.node = n
  BY DEF OpenFile
<1>2. o # None
  BY <1>1, NoneAssumption
<1> HIDE DEF o
<1>3. \A g \in Handles : openFiles'[g] = IF g = h THEN o ELSE openFiles[g]
  BY DEF TypeOK, o
<1>4. OpenOf' = [g \in Handles |-> IF openFiles'[g] = None THEN None
                                   ELSE [key |-> <<openFiles'[g].session, openFiles'[g].path>>,
                                         node |-> openFiles'[g].node]]
  BY DEF OpenOf, makeGhostKey
<1>5. OpenOf = [g \in Handles |-> IF openFiles[g] = None THEN None
                                  ELSE [key |-> <<openFiles[g].session, openFiles[g].path>>,
                                        node |-> openFiles[g].node]]
  BY DEF OpenOf, makeGhostKey
<1> QED BY <1>1, <1>2, <1>3, <1>4, <1>5

LEMMA OpenRemoved ==
  ASSUME TypeOK, NEW h \in Handles, openFiles' = [openFiles EXCEPT ![h] = None]
  PROVE  OpenOf' = [OpenOf EXCEPT ![h] = None]
<1>1. \A g \in Handles : openFiles'[g] = IF g = h THEN None ELSE openFiles[g]
  BY DEF TypeOK
<1>2. OpenOf' = [g \in Handles |-> IF openFiles'[g] = None THEN None
                                   ELSE [key |-> <<openFiles'[g].session, openFiles'[g].path>>,
                                         node |-> openFiles'[g].node]]
  BY DEF OpenOf, makeGhostKey
<1>3. OpenOf = [g \in Handles |-> IF openFiles[g] = None THEN None
                                  ELSE [key |-> <<openFiles[g].session, openFiles[g].path>>,
                                        node |-> openFiles[g].node]]
  BY DEF OpenOf, makeGhostKey
<1> QED BY <1>1, <1>2, <1>3

\* One session is the one that closes.
LEMMA OneCloser ==
  ASSUME NEW s, Sessions = {s}
  PROVE  TheSession = s /\ TheSession' = s
<1>1. \E t \in Sessions : pc[t] # "idle" \/ \A u \in Sessions : pc[u] = "idle"
  OBVIOUS
<1>2. \E t \in Sessions : pc'[t] # "idle" \/ \A u \in Sessions : pc'[u] = "idle"
  OBVIOUS
<1>3. TheSession \in Sessions
  BY <1>1 DEF TheSession
<1>4. TheSession' \in Sessions
  BY <1>2 DEF TheSession
<1> QED BY <1>3, <1>4

\* What the cache sees of the Close under way.
LEMMA ClosingView1 ==
  ASSUME TypeOK, NEW s, Sessions = {s}
  PROVE  /\ pc[s] \in {"idle", "usage"} => ClosingOf = None
         /\ pc[s] \in {"ustore", "gadd", "unlink"} =>
              ClosingOf = [handle |-> job[s], room |-> 0, cached |-> TRUE]
         /\ pc[s] \in {"scan", "evict", "gload", "gevict", "store"} \cup Removing =>
              ClosingOf = [handle |-> job[s], room |-> fileSize[s], cached |-> FALSE]
         /\ pc[s] \notin {"idle", "usage"} => ClosingOf # None
<1>1. TheSession = s /\ TheSession' = s
  BY OneCloser
<1>2. /\ pc[s] \in {"idle", "usage"} => ClosingOf = None
      /\ pc[s] \in {"ustore", "gadd", "unlink"} =>
              ClosingOf = [handle |-> job[s], room |-> 0, cached |-> TRUE]
      /\ pc[s] \notin {"idle", "usage", "ustore", "gadd", "unlink"} =>
              ClosingOf = [handle |-> job[s], room |-> fileSize[s], cached |-> FALSE]
  BY <1>1 DEF ClosingOf
<1>3. pc[s] \notin {"idle", "usage"} => ClosingOf \in ClosingView
  <2>1. pc[s] \notin {"idle", "usage"} => job[s] \in Handles /\ fileSize[s] \in Nat
    BY DEF TypeOK, Stages
  <2>2. CASE pc[s] \in {"ustore", "gadd", "unlink"}
    <3>1. ClosingOf = [handle |-> job[s], room |-> 0, cached |-> TRUE] /\ job[s] \in Handles
      BY <1>2, <2>1, <2>2
    <3> QED BY <3>1 DEF ClosingView
  <2>3. CASE pc[s] \notin {"idle", "usage", "ustore", "gadd", "unlink"}
    <3>1. /\ ClosingOf = [handle |-> job[s], room |-> fileSize[s], cached |-> FALSE]
          /\ job[s] \in Handles /\ fileSize[s] \in Nat
      BY <1>2, <2>1, <2>3
    <3> QED BY <3>1 DEF ClosingView
  <2> QED BY <2>2, <2>3
<1> QED BY <1>2, <1>3, NoneAssumption DEF Removing

LEMMA ClosingStays ==
  ASSUME NEW s, Sessions = {s}, UNCHANGED <<job, fileSize>>,
         \/ pc'[s] = pc[s]
         \/ pc[s] \in {"ustore", "gadd", "unlink"} /\ pc'[s] \in {"ustore", "gadd", "unlink"}
         \/ /\ pc[s] \in {"scan", "evict", "gload", "gevict", "store"} \cup Removing
            /\ pc'[s] \in {"scan", "evict", "gload", "gevict", "store"} \cup Removing
  PROVE  ClosingOf' = ClosingOf
<1>1. TheSession = s /\ TheSession' = s
  BY OneCloser
<1> QED BY <1>1 DEF ClosingOf, Removing

\* The working list has as many paths as there are ghosts.
LEMMA ListCounts ==
  ASSUME TypeOK, NEW s, Sessions = {s}, Account(s), InLoops(s)
  PROVE  /\ Cardinality(Registered) = Cardinality(list[s])
         /\ list[s] = {} => Registered = {}
<1> DEFINE f == [p \in list[s] |-> <<s, p>>]
<1>1. \A p \in Paths : p \in list[s] <=> ghostFiles[<<s, p>>] # None
  BY DEF Account, Working
<1>2. list[s] \in SUBSET Paths /\ s \in Sessions
  BY DEF TypeOK
<1>3. \A k \in Registered : k = <<s, k[2]>> /\ k[2] \in Paths /\ ghostFiles[k] # None
  BY SumFacts DEF Registered
<1>4. \A k \in Registered : k[2] \in list[s]
  BY <1>1, <1>3
<1>5. \A p \in list[s] : <<s, p>> \in Registered
  BY <1>1, <1>2 DEF Registered, Keys
<1>6. f \in Bijection(list[s], Registered)
  <2>1. f \in [list[s] -> Registered]
    BY <1>5
  <2>2. \A p, q \in list[s] : f[p] = f[q] => p = q
    OBVIOUS
  <2>3. \A k \in Registered : \E p \in list[s] : f[p] = k
    BY <1>3, <1>4
  <2> HIDE DEF f
  <2> QED BY <2>1, <2>2, <2>3 DEF Bijection, Injection, Surjection, IsInjective
<1>7. IsFiniteSet(list[s])
  BY <1>2, FinitePaths
<1>8. ExistsBijection(list[s], Registered)
  BY <1>6 DEF ExistsBijection
<1> QED BY <1>4, <1>7, <1>8, FS_Bijection

\* The limits as the cache sees them are those the loops compare.
LEMMA FullMeans ==
  ASSUME TypeOK, NEW s, Sessions = {s}, Account(s), InLoops(s)
  PROVE  /\ Cache!Cached = Registered /\ Cache!Own = Registered
         /\ Cache!OwnFull <=> /\ Registered # {}
                              /\ \/ Cardinality(list[s]) >= MaxFiles
                                 \/ mem[s] + fileSize[s] > MaxMem
         /\ Cache!AllFull <=> Sum > 0 /\ Sum + fileSize[s] > MaxGlobal
<1>1. Cache!Cached = Registered
  BY DEF Cache!Cached, Registered
<1>2. ClosingOf = [handle |-> job[s], room |-> fileSize[s], cached |-> FALSE]
  BY ClosingView1 DEF InLoops, Removing
<1>3. ClosingOf.handle = job[s] /\ ClosingOf.room = fileSize[s]
  BY <1>2
<1>4. OpenOf[job[s]].key = <<s, openFiles[job[s]].path>>
  <2>1. pc[s] # "idle" /\ s \in Sessions
    BY DEF InLoops, Removing
  <2>2. job[s] \in Handles /\ openFiles[job[s]] # None /\ openFiles[job[s]].session = s
    BY <2>1 DEF TypeOK, Stages
  <2> QED BY <2>2, OpenViews
<1>5. \A k \in Registered : k[1] = s
  BY DEF Registered, Keys
<1>6. Cache!Own = Registered
  BY <1>1, <1>3, <1>4, <1>5 DEF Cache!Own
<1>7. Cache!Bytes(Registered) = Sum
  BY DEF Cache!Bytes, Sum, Total, MapThenSumSet, MapThenFoldSet,
         Cache!MapThenSumSet, Cache!MapThenFoldSet
<1>8. mem[s] = Sum
  BY DEF Account, Working
<1>9. Cache!OwnFull <=> /\ Cache!Own # {}
                        /\ \/ Cardinality(Cache!Own) >= MaxFiles
                           \/ Cache!Bytes(Cache!Own) + ClosingOf.room > MaxMem
  BY DEF Cache!OwnFull, Cache!Cardinality, Cardinality
<1>10. Cache!AllFull <=> /\ Cache!Bytes(Cache!Cached) > 0
                         /\ Cache!Bytes(Cache!Cached) + ClosingOf.room > MaxGlobal
  BY DEF Cache!AllFull
<1> HIDE DEF Cache!Bytes, Cache!Cached, Cache!Own, Sum
<1>11. Cardinality(Registered) = Cardinality(list[s])
  BY ListCounts
<1>12. Cache!Bytes(Cache!Own) = Sum /\ Cache!Bytes(Cache!Cached) = Sum
  BY <1>1, <1>6, <1>7
<1> QED BY <1>1, <1>3, <1>6, <1>8, <1>9, <1>10, <1>11, <1>12

LEMMA ClosingNext ==
  ASSUME NEW s, Sessions = {s}
  PROVE  /\ pc'[s] \in {"idle", "usage"} => ClosingOf' = None
         /\ pc'[s] \in {"ustore", "gadd", "unlink"} =>
              ClosingOf' = [handle |-> job'[s], room |-> 0, cached |-> TRUE]
         /\ pc'[s] = "scan" =>
              ClosingOf' = [handle |-> job'[s], room |-> fileSize'[s], cached |-> FALSE]
<1>1. TheSession = s /\ TheSession' = s
  BY OneCloser
<1> QED BY <1>1 DEF ClosingOf

LEMMA OpenStays == openFiles' = openFiles => OpenOf' = OpenOf
BY DEF OpenOf

-----------------------------------------------------------------------------
\* A new registry is an empty cache.
LEMMA InitCached ==
  ASSUME Init, NEW s, Sessions = {s}
  PROVE  Cache!Init
<1>1. /\ openFiles = [h \in Handles |-> None] /\ now = 0
      /\ ghostFiles = [k \in Keys |-> None] /\ pc[s] = "idle"
  BY DEF Init, Actors
<1>2. OpenOf = [h \in Handles |-> None]
  BY <1>1 DEF OpenOf
<1>3. TheSession = s
  BY OneCloser
<1>4. ClosingOf = None
  BY <1>1, <1>3 DEF ClosingOf
<1>5. \A n \in AllNodes : n \in Nodes <=> n \notin TreeFiles
  BY GhostAssumption DEF AllNodes
<1>6. size = [n \in AllNodes |-> IF n \in TreeFiles THEN 1 ELSE 0]
  BY <1>5 DEF Init
<1> QED BY <1>1, <1>2, <1>4, <1>6 DEF Cache!Init

\* Open is one of the three opens of the cache.
LEMMA OpenCached ==
  ASSUME TypeOK, NEW s, Sessions = {s}, Open(s)
  PROVE  Cache!Next
<1>0. /\ s \in Sessions /\ pc[s] = "idle" /\ pc' = pc /\ UNCHANGED <<addVars, now>>
      /\ TreeFiles \subseteq AllNodes
  BY DEF Open, OpenTree, OpenCreate, OpenGhost, AllNodes
<1>1. ClosingOf = None /\ ClosingOf' = ClosingOf
  BY <1>0, ClosingView1, ClosingStays DEF addVars
<1>2. ASSUME NEW h \in Handles, NEW p \in Paths, NEW n \in AllNodes, Opened(s, h, p, n)
      PROVE  /\ OpenOf[h] = None /\ <<s, p>> \in Keys
             /\ OpenOf' = [OpenOf EXCEPT ![h] = [key |-> <<s, p>>, node |-> n]]
  <2>1. OpenOf[h] = None /\ <<s, p>> \in Keys
    BY <1>0, <1>2, OpenViews DEF Opened, Keys
  <2>2. openFiles' = [openFiles EXCEPT ![h] = [session |-> s, path |-> p, node |-> n]]
    BY <1>2 DEF Opened
  <2>3. OpenOf' = [OpenOf EXCEPT ![h] = [key |-> <<s, p>>, node |-> n]]
    BY <1>0, <2>2, OpenAdded
  <2> QED BY <2>1, <2>3
<1>3. PICK h \in Handles, p \in Paths :
        OpenTree(s, h, p) \/ (\E n \in Nodes : OpenCreate(s, h, p, n)) \/ OpenGhost(s, h, p)
  BY DEF Open
<1>4. CASE OpenTree(s, h, p)
  <2>1. p \in TreeFiles /\ Opened(s, h, p, p) /\ UNCHANGED <<now, size, ghostFiles>>
    BY <1>4 DEF OpenTree, regVars
  <2>2. p \in AllNodes /\ <<s, p>> \in Keys
    BY <1>0, <2>1 DEF Keys
  <2>3. Cache!OpenShared(h, <<s, p>>, p)
    BY <1>1, <1>2, <2>1, <2>2 DEF Cache!OpenShared
  <2> QED BY <2>2, <2>3 DEF Cache!Next
<1>5. ASSUME NEW n \in Nodes, OpenCreate(s, h, p, n) PROVE Cache!Next
  <2>1. /\ ~InUse(n) /\ Opened(s, h, p, n) /\ UNCHANGED <<now, ghostFiles>>
        /\ size' = [size EXCEPT ![n] = 0]
    BY <1>5 DEF OpenCreate, regVars
  <2>2. n \in AllNodes /\ n \notin TreeFiles
    BY GhostAssumption DEF AllNodes
  <2>3. Cache!Unused(n)
    BY <2>1, OpenViews DEF InUse, Cache!Unused
  <2>4. Cache!OpenNew(h, <<s, p>>, n)
    BY <1>1, <1>2, <2>1, <2>2, <2>3 DEF Cache!OpenNew
  <2> QED BY <1>2, <2>1, <2>2, <2>4 DEF Cache!Next
<1>6. CASE OpenGhost(s, h, p)
  <2>1. /\ ghostFiles[<<s, p>>] # None /\ Opened(s, h, p, ghostFiles[<<s, p>>].node)
        /\ ghostFiles' = [ghostFiles EXCEPT ![<<s, p>>].lastAccess = now]
        /\ UNCHANGED <<now, size>> /\ <<s, p>> \in Keys
    BY <1>0, <1>6 DEF OpenGhost, makeGhostKey, Keys
  <2>2. ghostFiles[<<s, p>>].node \in AllNodes
    BY <2>1 DEF TypeOK, Ghost
  <2>3. Cache!OpenCached(h, <<s, p>>)
    BY <1>1, <1>2, <2>1, <2>2 DEF Cache!OpenCached, Cache!Used
  <2> QED BY <2>1, <2>3 DEF Cache!Next
<1> QED BY <1>3, <1>4, <1>5, <1>6

\* Write makes a file grow.
LEMMA WriteCached ==
  ASSUME TypeOK, NEW s, Sessions = {s}, NEW h \in Handles, NEW e \in 1..MaxSize, Write(h, e)
  PROVE  Cache!Next
<1>1. /\ openFiles[h] # None /\ e > size[openFiles[h].node]
      /\ size' = [size EXCEPT ![openFiles[h].node] = e]
      /\ UNCHANGED <<now, openFiles, ghostFiles, pc, addVars>>
  BY DEF Write, regVars
<1>2. ClosingOf' = ClosingOf /\ OpenOf' = OpenOf
  BY <1>1, ClosingStays, OpenStays DEF addVars
<1>3. Cache!Grow(h, e)
  BY <1>1, <1>2, OpenViews DEF Cache!Grow
<1> QED BY <1>3 DEF Cache!Next

\* Close uses the ghost that there is; without one nothing has happened yet.
LEMMA CloseCached ==
  ASSUME TypeOK, NEW s, Sessions = {s}, "close" \in CtxOps, NEW h \in Handles, Close(s, h)
  PROVE  Cache!Next \/ UNCHANGED Cache!vars
<1> DEFINE k == <<s, openFiles[h].path>>
<1>0. /\ s \in Sessions /\ s \in Actors /\ pc \in [Actors -> Labels]
      /\ job \in [Sessions -> Handles \cup {None}]
  BY DEF Actors, TypeOK
<1>1. /\ pc[s] = "idle" /\ openFiles[h] # None /\ openFiles[h].session = s
      /\ job' = [job EXCEPT ![s] = h] /\ UNCHANGED <<now, size, openFiles>>
  BY DEF Close, At, fsVars
<1>2. /\ ClosingOf = None /\ OpenOf' = OpenOf
      /\ OpenOf[h] # None /\ OpenOf[h].key = k /\ job'[s] = h
  BY <1>0, <1>1, ClosingView1, OpenStays, OpenViews
<1>3. CASE ghostFiles[k] # None
  <2>1. ghostFiles' = [ghostFiles EXCEPT ![k].lastAccess = now] /\ pc'[s] = "unlink"
    BY <1>0, <1>3 DEF Close, makeGhostKey, Goto
  <2>2. ClosingOf' = [handle |-> h, room |-> 0, cached |-> TRUE]
    BY <1>2, <2>1, ClosingNext
  <2>3. Cache!Use(h)
    BY <1>1, <1>2, <1>3, <2>1, <2>2 DEF Cache!Use, Cache!Used
  <2> QED BY <2>3 DEF Cache!Next
<1>4. CASE ghostFiles[k] = None
  <2>1. ghostFiles' = ghostFiles /\ pc'[s] = "usage"
    BY <1>0, <1>4 DEF Close, makeGhostKey, Goto
  <2> QED BY <1>1, <1>2, <2>1, ClosingNext DEF Cache!vars
<1> QED BY <1>3, <1>4

\* The file is added from the moment its size is read.
LEMMA LoadCached ==
  ASSUME TypeOK, NEW s, Sessions = {s}, Account(s), LoadUsage(s)
  PROVE  Cache!Next
<1>0. /\ s \in Sessions /\ s \in Actors /\ pc \in [Actors -> Labels]
      /\ fileSize \in [Sessions -> Nat]
  BY DEF Actors, TypeOK
<1>1. /\ pc[s] = "usage" /\ pc'[s] = "scan" /\ fileSize'[s] = size[Node(s)]
      /\ job' = job /\ UNCHANGED <<now, size, openFiles, ghostFiles>>
  BY <1>0 DEF LoadUsage, At, Goto, fsVars, regVars
<1>2. job[s] \in Handles /\ openFiles[job[s]] # None /\ openFiles[job[s]].session = s
  BY <1>0, <1>1 DEF TypeOK, Stages
<1>3. /\ OpenOf[job[s]] # None /\ OpenOf[job[s]].key = MyKey(s)
      /\ OpenOf[job[s]].node = Node(s) /\ OpenOf' = OpenOf
  BY <1>1, <1>2, OpenViews, OpenStays DEF MyKey, Node, Path, makeGhostKey
<1>4. ghostFiles[MyKey(s)] = None
  BY <1>1 DEF Account, Stored
<1>5. /\ ClosingOf = None
      /\ ClosingOf' = [handle |-> job[s], room |-> size[Node(s)], cached |-> FALSE]
  BY <1>1, ClosingView1, ClosingNext
<1>6. Cache!Add(job[s])
  BY <1>1, <1>2, <1>3, <1>4, <1>5 DEF Cache!Add
<1> QED BY <1>2, <1>6 DEF Cache!Next

\* What the loops and a removal do before its last step cannot be seen.
LEMMA LoopsCached ==
  ASSUME TypeOK, NEW s, Sessions = {s},
         \/ Scan(s) \/ EvictSession(s) \/ EvictDone(s) \/ LoadGlobal(s) \/ EvictGlobal(s)
         \/ GlobalDone(s) \/ StoreUsage(s) \/ AddGlobal(s)
         \/ RmLoad(s) \/ RmUsage(s) \/ RmStore(s) \/ RmGlobal(s)
  PROVE  UNCHANGED Cache!vars
<1>0. s \in Actors /\ pc \in [Actors -> Labels]
  BY DEF Actors, TypeOK
<1>1. UNCHANGED <<now, size, openFiles, ghostFiles, job, fileSize>>
  BY DEF Scan, EvictSession, EvictDone, LoadGlobal, EvictGlobal, GlobalDone, StoreUsage,
         AddGlobal, RmLoad, RmUsage, RmStore, RmGlobal, fsVars, regVars, addVars
<1>2. \/ pc[s] \in {"ustore", "gadd", "unlink"} /\ pc'[s] \in {"ustore", "gadd", "unlink"}
      \/ /\ pc[s] \in {"scan", "evict", "gload", "gevict", "store"} \cup Removing
         /\ pc'[s] \in {"scan", "evict", "gload", "gevict", "store"} \cup Removing
  <2>1. CASE StoreUsage(s) \/ AddGlobal(s)
    BY <1>0, <2>1 DEF StoreUsage, AddGlobal, At, Goto
  <2>2. CASE \/ Scan(s) \/ EvictSession(s) \/ EvictDone(s) \/ LoadGlobal(s) \/ EvictGlobal(s)
             \/ GlobalDone(s)
    BY <1>0, <2>2 DEF Scan, EvictSession, EvictDone, LoadGlobal, EvictGlobal, GlobalDone, At, Goto,
                      Removing
  <2>3. CASE RmLoad(s) \/ RmUsage(s) \/ RmStore(s) \/ RmGlobal(s)
    BY <1>0, <2>3 DEF RmLoad, RmUsage, RmStore, RmGlobal, At, Goto, Removing
  <2> QED BY <2>1, <2>2, <2>3
<1>3. ClosingOf' = ClosingOf
  BY <1>1, <1>2, ClosingStays
<1> QED BY <1>1, <1>3, OpenStays DEF Cache!vars

\* A ghost that is removed leaves the cache when its entry is deleted.
LEMMA DeleteCached ==
  ASSUME TypeOK, NEW s, Sessions = {s}, Account(s), Needed(s), RmDelete(s)
  PROVE  Cache!Next
<1> DEFINE v == victim[s]
<1>0. /\ s \in Sessions /\ s \in Actors /\ pc \in [Actors -> Labels]
      /\ caller \in [Actors -> {"session", "global", "clean"}]
  BY DEF Actors, TypeOK
<1>1. /\ pc[s] = "rmdelete" /\ pc[s] \in Removing /\ InLoops(s)
      /\ ghostFiles' = [ghostFiles EXCEPT ![v] = None]
      /\ UNCHANGED <<now, size, openFiles, job, fileSize>>
  BY DEF RmDelete, At, Removing, InLoops, fsVars
<1>2. caller[s] # "clean"
  BY <1>0, <1>1 DEF TypeOK, Stages
<1>3. pc'[s] \in {"evict", "gload"}
  BY <1>0, <1>2 DEF RmDelete, Goto
<1>4. /\ ClosingOf = [handle |-> job[s], room |-> fileSize[s], cached |-> FALSE]
      /\ ClosingOf # None /\ ClosingOf' = ClosingOf /\ OpenOf' = OpenOf
  BY <1>1, <1>3, ClosingView1, ClosingStays, OpenStays
<1>5. /\ v \in Registered
      /\ \A j \in Registered : ghostFiles[v].lastAccess <= ghostFiles[j].lastAccess
  BY <1>1 DEF Account, Removes
<1>6. Cache!Cached = Registered /\ Cache!Own = Registered
  BY <1>1, FullMeans
<1>7. Cache!OwnFull \/ Cache!AllFull
  BY <1>1, <1>5, FullMeans DEF Needed, OverSession, OverGlobal
<1>8. Cache!EvictOldest(Registered)
  BY <1>1, <1>5 DEF Cache!EvictOldest
<1>9. Cache!Evict
  <2> HIDE DEF Cache!OwnFull, Cache!AllFull, Cache!Cached, Cache!Own, Cache!EvictOldest
  <2> QED BY <1>1, <1>4, <1>6, <1>7, <1>8 DEF Cache!Evict
<1> QED BY <1>9 DEF Cache!Next

\* The file is stored when both loops have made the room that it needs.
LEMMA StoreCached ==
  ASSUME TypeOK, NEW s, Sessions = {s}, Account(s), RoomAt(s), StoreGhost(s)
  PROVE  Cache!Next
<1> DEFINE g == [node |-> Node(s), size |-> fileSize[s], lastAccess |-> now]
<1>0. /\ s \in Sessions /\ s \in Actors /\ pc \in [Actors -> Labels]
      /\ fileSize[s] \in Nat /\ mem[s] \in Int /\ MaxMem \in Nat /\ MaxGlobal \in Nat
      /\ MaxFiles \in Nat /\ Sum \in Nat
  BY GhostAssumption, SumFacts DEF Actors, TypeOK
<1>1. /\ pc[s] = "store" /\ InLoops(s) /\ PastFirstLoop(s) /\ pc'[s] = "ustore"
      /\ ghostFiles' = [ghostFiles EXCEPT ![MyKey(s)] = g]
      /\ UNCHANGED <<now, size, openFiles, job, fileSize>>
  BY <1>0 DEF StoreGhost, At, Goto, InLoops, PastFirstLoop, fsVars, addVars
<1>2. job[s] \in Handles /\ openFiles[job[s]] # None /\ openFiles[job[s]].session = s
  BY <1>0, <1>1 DEF TypeOK, Stages
<1>3. /\ OpenOf[job[s]].key = MyKey(s) /\ OpenOf[job[s]].node = Node(s) /\ OpenOf' = OpenOf
  BY <1>1, <1>2, OpenViews, OpenStays DEF MyKey, Node, Path, makeGhostKey
<1>4. /\ ClosingOf # None
      /\ ClosingOf = [handle |-> job[s], room |-> fileSize[s], cached |-> FALSE]
      /\ ClosingOf' = [handle |-> job[s], room |-> 0, cached |-> TRUE]
  BY <1>1, ClosingView1, ClosingNext
<1>5. ~Cache!OwnFull /\ ~Cache!AllFull
  <2>1. list[s] = {} => Registered = {}
    BY <1>1, ListCounts
  <2>2. list[s] = {} \/ Cardinality(list[s]) < MaxFiles
    BY <1>1 DEF RoomAt
  <2>3. Cardinality(list[s]) \in Nat
    BY <1>0, FinitePaths DEF TypeOK
  <2>4. Registered = {} \/ mem[s] + fileSize[s] <= MaxMem
    BY <1>1 DEF Account, Limits
  <2>5. Sum = 0 \/ Sum + fileSize[s] <= MaxGlobal
    BY <1>1 DEF Account, Limits
  <2>6. /\ Cache!OwnFull <=> /\ Registered # {}
                             /\ \/ Cardinality(list[s]) >= MaxFiles
                                \/ mem[s] + fileSize[s] > MaxMem
        /\ Cache!AllFull <=> Sum > 0 /\ Sum + fileSize[s] > MaxGlobal
    BY <1>1, FullMeans
  <2> HIDE DEF Cache!OwnFull, Cache!AllFull, Sum
  <2> QED BY <1>0, <2>1, <2>2, <2>3, <2>4, <2>5, <2>6
<1>6. Cache!Store
  <2>1. ~ClosingOf.cached /\ ClosingOf.handle = job[s] /\ ClosingOf.room = fileSize[s]
    BY <1>4
  <2> HIDE DEF Cache!OwnFull, Cache!AllFull
  <2> QED BY <1>1, <1>3, <1>4, <1>5, <2>1 DEF Cache!Store
<1> QED BY <1>6 DEF Cache!Next

\* Close returns.
LEMMA UnlinkCached ==
  ASSUME TypeOK, NEW s, Sessions = {s}, Unlink(s)
  PROVE  Cache!Next
<1>0. s \in Sessions /\ s \in Actors /\ pc \in [Actors -> Labels]
  BY DEF Actors, TypeOK
<1>1. /\ pc[s] = "unlink" /\ pc'[s] = "idle" /\ openFiles' = [openFiles EXCEPT ![job[s]] = None]
      /\ UNCHANGED <<now, size, ghostFiles>>
  BY <1>0 DEF Unlink, At, Goto, regVars
<1>2. job[s] \in Handles
  BY <1>0, <1>1 DEF TypeOK, Stages
<1>3. /\ OpenOf' = [OpenOf EXCEPT ![job[s]] = None] /\ ClosingOf' = None /\ ClosingOf # None
      /\ ClosingOf = [handle |-> job[s], room |-> 0, cached |-> TRUE]
  BY <1>1, <1>2, OpenRemoved, ClosingView1, ClosingNext
<1>4. Cache!Close
  BY <1>1, <1>3 DEF Cache!Close
<1> QED BY <1>4 DEF Cache!Next

\* Every step of the registry is one of the cache or leaves it alone.
LEMMA StepCached ==
  ASSUME TypeOK, NEW s, Sessions = {s}, Account(s), RoomAt(s), Needed(s), MaxTime <= Expiry,
         "close" \in CtxOps, [Next]_vars
  PROVE  [Cache!Next]_(Cache!vars)
<1>1. CASE Tick
  <2>1. now' = now + 1 /\ UNCHANGED <<size, openFiles, ghostFiles, pc, job, fileSize>>
    BY <1>1 DEF Tick, regVars, addVars
  <2>2. Cache!Tick
    BY <2>1, OpenStays, ClosingStays DEF Cache!Tick
  <2> QED BY <2>2 DEF Cache!Next
<1>2. CASE UNCHANGED vars
  <2>1. UNCHANGED <<now, size, openFiles, ghostFiles, pc, job, fileSize>>
    BY <1>2 DEF vars, fsVars, regVars, addVars
  <2> QED BY <2>1, OpenStays, ClosingStays DEF Cache!vars
<1>3. CASE \E h \in Handles, e \in 1..MaxSize : Write(h, e)
  BY <1>3, WriteCached
<1>4. CASE Open(s)
  BY <1>4, OpenCached
<1>5. CASE \E h \in Handles : Close(s, h)
  BY <1>5, CloseCached
<1>6. CASE addGhostFile(s)
  BY <1>6, LoadCached, LoopsCached, StoreCached, UnlinkCached DEF addGhostFile
<1>7. CASE removeGhostFile(s)
  BY <1>7, LoopsCached, DeleteCached DEF removeGhostFile
<1>8. ~Cleanup /\ ~removeGhostFile(Cleaner)
  BY NothingCleaned
<1>9. Actors = {s, Cleaner}
  BY DEF Actors
<1> QED BY <1>1, <1>2, <1>3, <1>4, <1>5, <1>6, <1>7, <1>8, <1>9 DEF Next

\* One session, no expiry, and SetOperationContext called before Close: for any
\* number of files, handles and any limits, Open, Write and Close with its two
\* loops, its counters and its five-step removals are an LRU cache that makes
\* room for a file when and as far as its real contents require it.
THEOREM CacheRefined ==
  ASSUME Alone, "close" \in CtxOps
  PROVE  Spec => ImplementsCache
<1> DEFINE Why == \A s \in Sessions : Needed(s)
<1>1. PICK s : Sessions = {s} /\ MaxTime <= Expiry
  BY DEF Alone
<1>2. Init => Why
  BY DEF Init, Needed, Actors, Removing
<1>3. AccountInv /\ AccountInv' /\ Why /\ [Next]_vars => Why'
  <2> SUFFICES ASSUME AccountInv, AccountInv', Why, [Next]_vars PROVE Why'
    OBVIOUS
  <2>1. TypeOK /\ Account(s) /\ Account(s)' /\ Needed(s)
    BY <1>1 DEF AccountInv, IndInv
  <2>2. Needed(s)'
    BY <1>1, <2>1, NeededStep
  <2> QED BY <1>1, <2>2
<1>4. Init => Cache!Init
  BY <1>1, InitCached
<1>5. AccountInv /\ Why /\ [Next]_vars => [Cache!Next]_(Cache!vars)
  <2> SUFFICES ASSUME AccountInv, Why, [Next]_vars PROVE [Cache!Next]_(Cache!vars)
    OBVIOUS
  <2>1. TypeOK /\ Account(s) /\ RoomAt(s) /\ Needed(s)
    BY <1>1 DEF AccountInv, IndInv, Room
  <2> QED BY <1>1, <2>1, StepCached
<1> HIDE DEF Why
<1> QED BY <1>2, <1>3, <1>4, <1>5, AccountKept, PTL DEF Spec, ImplementsCache, Cache!Spec
============================================================================
