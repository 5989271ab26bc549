---------------------------- MODULE LifecycleProofs ----------------------------
(***************************************************************************)
(* Proofs about how ptyd and its shells come and go: WarmPool, for every   *)
(* size of the pool and any number of sessions and ids, and PtydStartup,   *)
(* for any number of processes, started and killed at any time.  And about *)
(* the command line that attaches a terminal to a shell: what is typed     *)
(* reaches it, for every alphabet and however long the reads are, and what *)
(* it shows is what ptyd has, for any number of sessions.                  *)
(***************************************************************************)
EXTENDS WarmPool, PtydStartup, CommandLine,
        FiniteSetTheorems, SequenceTheorems, WellFoundedInduction, TLAPS

-----------------------------------------------------------------------------
(* The pool of shells. *)

(* A shell is parked once: what a create takes is what it has looked at.    *)
ParkedOnce == \A v, w \in warmPool : v.id = w.id => v = w

IInv ==
  /\ TypeOK
  /\ IsFiniteSet(warmPool)
  /\ ParkedOnce
  /\ PoolBounded
  /\ NoOrphanShell

LEMMA TargetIsNat == Target \in Nat
BY WarmPoolAssumption DEF Target

-----------------------------------------------------------------------------
(* Fewer shells are parked after a pool has been looked through; a refill   *)
(* is scheduled at most once and for a pool that is short.                  *)
LEMMA FilledFits ==
  ASSUME IInv, NEW pool, IsFiniteSet(pool), NEW scheduled \in 0..1,
         Cardinality(pool) <= Target, scheduled = 1 => Cardinality(pool) < Target
  PROVE  /\ Filled(pool, scheduled) \in 0..1
         /\ Filled(pool, scheduled) = 1 => Cardinality(pool) < Target
BY TargetIsNat, FS_CardinalityType DEF Filled

LEMMA FewerFit ==
  ASSUME IInv, NEW pool \in SUBSET warmPool
  PROVE  /\ IsFiniteSet(pool)
         /\ Cardinality(pool) <= Target
         /\ poolFill \in 0..1
         /\ poolFill = 1 => Cardinality(pool) < Target
         /\ pool \subseteq WarmShell
         /\ \A v, w \in pool : v.id = w.id => v = w
<1>1. IsFiniteSet(pool) /\ Cardinality(pool) <= Cardinality(warmPool)
  BY FS_Subset DEF IInv
<1>2. Cardinality(pool) \in Nat /\ Cardinality(warmPool) \in Nat
  BY <1>1, FS_CardinalityType DEF IInv
<1> QED BY <1>1, <1>2, TargetIsNat DEF IInv, PoolBounded, TypeOK, ParkedOnce

LEMMA KeptFits == Kept \subseteq warmPool
BY DEF Kept

(* The shells that are disposed of are the parked ones that are not kept.   *)
LEMMA DiscardedFits ==
  ASSUME IInv
  PROVE  /\ Discarded \in [Id -> {"none", "alive", "exited"}]
         /\ \A i \in Id : Discarded[i] # "none" => i \in sessions \cup Parked(Kept)
         /\ ~running => \A i \in Id : Discarded[i] = "none"
         /\ \A i \in sessions : i \notin Parked(warmPool) => Discarded[i] = shell[i]
BY DEF IInv, TypeOK, NoOrphanShell, Discarded, Disposed, Parked, Kept

-----------------------------------------------------------------------------
LEMMA InitIInv == Init => IInv
<1> SUFFICES ASSUME Init PROVE IInv
  OBVIOUS
<1>1. IsFiniteSet(warmPool) /\ Cardinality(warmPool) = 0
  BY FS_EmptySet DEF Init
<1>2. TypeOK
  BY DEF Init, TypeOK
<1>3. PoolBounded
  BY <1>1, TargetIsNat DEF Init, PoolBounded
<1> QED BY <1>1, <1>2, <1>3 DEF Init, IInv, ParkedOnce, NoOrphanShell

LEMMA ClaimKeepsIInv ==
  ASSUME IInv, NEW w \in warmPool, Claim(w)
  PROVE  IInv'
<1> DEFINE pool == Kept \ {w}
<1>1. w \in Kept /\ w.id \in Id /\ pool \in SUBSET warmPool
  BY KeptFits DEF Claim, Oldest, IInv, TypeOK, WarmShell
<1>2. /\ warmPool' = pool /\ poolFill' = Filled(pool, poolFill) /\ shell' = Discarded
      /\ sessions' = sessions \cup {w.id} /\ running' = running /\ now' = now
  BY DEF Claim
<1>3. poolFill' \in 0..1 /\ (poolFill' = 1 => Cardinality(pool) < Target)
  BY <1>1, <1>2, FewerFit, FilledFits
<1>4. PoolBounded'
  BY <1>1, <1>2, <1>3, FewerFit DEF PoolBounded, Target
<1>5. TypeOK'
  BY <1>1, <1>2, <1>3, FewerFit, DiscardedFits DEF IInv, TypeOK
<1>6. NoOrphanShell'
  BY <1>1, <1>2, DiscardedFits DEF NoOrphanShell, Parked
<1> QED BY <1>1, <1>2, <1>4, <1>5, <1>6, FewerFit DEF IInv, ParkedOnce

LEMMA CreateFreshKeepsIInv ==
  ASSUME IInv, CreateFresh
  PROVE  IInv'
<1> DEFINE pool == IF warmPoolEnabled THEN Kept ELSE warmPool
           left == IF warmPoolEnabled THEN Discarded ELSE shell
<1>1. pool \in SUBSET warmPool
  BY KeptFits
<1>2. /\ warmPool' = pool /\ poolFill' = Filled(pool, poolFill)
      /\ running' = running /\ now' = now /\ running
  BY DEF CreateFresh
<1>3. /\ left \in [Id -> {"none", "alive", "exited"}]
      /\ \A i \in Id : left[i] # "none" => i \in sessions \cup Parked(pool)
  BY DiscardedFits DEF IInv, TypeOK, NoOrphanShell
<1>4. \/ \E i \in FreshIds : sessions' = sessions \cup {i} /\ shell' = [left EXCEPT ![i] = "alive"]
      \/ shell' = left /\ sessions' = sessions
  BY DEF CreateFresh
<1>5. poolFill' \in 0..1 /\ (poolFill' = 1 => Cardinality(pool) < Target)
  BY <1>1, <1>2, FewerFit, FilledFits
<1>6. PoolBounded'
  BY <1>1, <1>2, <1>5, FewerFit DEF PoolBounded, Target
<1>7. sessions' \subseteq Id /\ shell' \in [Id -> {"none", "alive", "exited"}]
  BY <1>3, <1>4 DEF IInv, TypeOK, FreshIds
<1>8. TypeOK'
  BY <1>1, <1>2, <1>5, <1>7, FewerFit DEF IInv, TypeOK
<1>9. NoOrphanShell'
  BY <1>2, <1>3, <1>4 DEF NoOrphanShell, Parked, FreshIds
<1> QED BY <1>1, <1>2, <1>6, <1>8, <1>9, FewerFit DEF IInv, ParkedOnce

LEMMA RefillKeepsIInv ==
  ASSUME IInv, NEW i \in Id, Refill(i)
  PROVE  IInv'
<1> DEFINE pool == warmPool \cup {spawnWarm(i)}
<1>1. /\ warmPool' = pool /\ shell' = [shell EXCEPT ![i] = "alive"]
      /\ poolFill' = Filled(pool, poolFill - 1)
      /\ running' = running /\ running /\ sessions' = sessions /\ now' = now
      /\ i \notin Parked(warmPool) /\ poolFill > 0
  BY DEF Refill, FreshIds
<1>2. poolFill = 1 /\ Cardinality(warmPool) < Target /\ Cardinality(warmPool) \in Nat
  BY <1>1, FS_CardinalityType DEF IInv, PoolBounded, TypeOK
<1>3. spawnWarm(i) \in WarmShell /\ spawnWarm(i).id = i
  BY DEF spawnWarm, WarmShell, IInv, TypeOK
<1>4. IsFiniteSet(pool) /\ Cardinality(pool) <= Cardinality(warmPool) + 1
  BY <1>2, FS_AddElement DEF IInv
<1>5. Cardinality(pool) \in Nat /\ Cardinality(pool) <= Target
  BY <1>2, <1>4, TargetIsNat, FS_CardinalityType
<1>6. poolFill - 1 \in 0..1 /\ poolFill - 1 # 1
  BY <1>2
<1>7. poolFill' \in 0..1 /\ (poolFill' = 1 => Cardinality(pool) < Target)
  <2> HIDE DEF pool
  <2> QED BY <1>1, <1>4, <1>5, <1>6, FilledFits
<1>8. PoolBounded'
  BY <1>1, <1>5, <1>7 DEF PoolBounded, Target
<1>9. TypeOK'
  BY <1>1, <1>3, <1>7 DEF IInv, TypeOK
<1>10. ParkedOnce'
  BY <1>1, <1>3 DEF IInv, ParkedOnce, Parked
<1>11. NoOrphanShell'
  BY <1>1, <1>3 DEF IInv, TypeOK, NoOrphanShell, Parked
<1> QED BY <1>1, <1>4, <1>8, <1>9, <1>10, <1>11 DEF IInv

LEMMA SweepKeepsIInv ==
  ASSUME IInv, Sweep
  PROVE  IInv'
<1>1. Kept \in SUBSET warmPool
  BY KeptFits
<1>2. /\ warmPool' = Kept /\ poolFill' = Filled(Kept, poolFill) /\ shell' = Discarded
      /\ running' = running /\ sessions' = sessions /\ now' = now
  BY DEF Sweep
<1>3. poolFill' \in 0..1 /\ (poolFill' = 1 => Cardinality(Kept) < Target)
  BY <1>1, <1>2, FewerFit, FilledFits
<1>4. PoolBounded'
  BY <1>1, <1>2, <1>3, FewerFit DEF PoolBounded, Target
<1>5. TypeOK'
  BY <1>1, <1>2, <1>3, FewerFit, DiscardedFits DEF IInv, TypeOK
<1>6. NoOrphanShell'
  BY <1>2, DiscardedFits DEF NoOrphanShell, Parked
<1> QED BY <1>1, <1>2, <1>4, <1>5, <1>6, FewerFit DEF IInv, ParkedOnce

(* Stop, and what touches neither the pool nor its size.                    *)
LEMMA StopKeepsIInv ==
  ASSUME IInv, Stop
  PROVE  IInv'
<1>1. IsFiniteSet(warmPool') /\ Cardinality(warmPool') = 0
  BY FS_EmptySet DEF Stop
<1>2. PoolBounded'
  BY <1>1, TargetIsNat DEF Stop, PoolBounded, Target
<1>3. \A i \in Id : shell'[i] = "none"
  BY DEF Stop, IInv, TypeOK, NoOrphanShell, Parked
<1>4. TypeOK'
  BY DEF Stop, IInv, TypeOK
<1> QED BY <1>1, <1>2, <1>3, <1>4 DEF Stop, IInv, ParkedOnce, NoOrphanShell

LEMMA OthersKeepIInv ==
  ASSUME IInv,
         \/ RefillFails \/ Tick \/ UNCHANGED vars
         \/ \E i \in Id : CreateCustom(i) \/ Exit(i) \/ RemoveSession(i)
  PROVE  IInv'
<1>1. CASE RefillFails
  BY <1>1, FS_CardinalityType
     DEF RefillFails, IInv, TypeOK, ParkedOnce, PoolBounded, NoOrphanShell, Parked, Target
<1>2. CASE Tick \/ UNCHANGED vars
  BY <1>2, WarmPoolAssumption DEF Tick, vars, IInv, TypeOK, ParkedOnce, PoolBounded, NoOrphanShell, Parked, Target
<1>3. ASSUME NEW i \in Id, CreateCustom(i) \/ Exit(i) \/ RemoveSession(i) PROVE IInv'
  <2>1. UNCHANGED <<warmPool, poolFill, running, now>>
    BY <1>3 DEF CreateCustom, Exit, RemoveSession
  <2>2. sessions' \subseteq Id /\ shell' \in [Id -> {"none", "alive", "exited"}]
    BY <1>3 DEF CreateCustom, Exit, RemoveSession, IInv, TypeOK
  <2>3. NoOrphanShell'
    BY <1>3, <2>1 DEF CreateCustom, Exit, RemoveSession, IInv, TypeOK, NoOrphanShell, Parked
  <2> QED BY <2>1, <2>2, <2>3 DEF IInv, TypeOK, ParkedOnce, PoolBounded, Target
<1> QED BY <1>1, <1>2, <1>3

LEMMA StepKeepsIInv == IInv /\ [Next]_vars => IInv'
<1> SUFFICES ASSUME IInv, [Next]_vars PROVE IInv'
  OBVIOUS
<1> QED BY ClaimKeepsIInv, CreateFreshKeepsIInv, RefillKeepsIInv, SweepKeepsIInv, StopKeepsIInv, OthersKeepIInv
        DEF Next

LEMMA AlwaysIInv == Spec => []IInv
BY InitIInv, StepKeepsIInv, PTL DEF Spec

-----------------------------------------------------------------------------
(* The pool is bounded and at most one refill is scheduled, only for a pool *)
(* that is short.                                                           *)
THEOREM PoolAlwaysBounded == Spec => []PoolBounded
BY AlwaysIInv, PTL DEF IInv

(* Every living shell is a session's or parked, and none outlives stop.     *)
THEOREM NoShellIsLost == Spec => []NoOrphanShell
BY AlwaysIInv, PTL DEF IInv

(* A parked shell that becomes a session is alive and young enough.         *)
LEMMA StepClaimsUsable ==
  ASSUME IInv, [Next]_vars, NEW w \in warmPool, w.id \in sessions' \ sessions
  PROVE  shell[w.id] = "alive" /\ now - w.bornAt <= warmPoolMaxIdle
<1>1. ASSUME NEW v \in warmPool, Claim(v)
      PROVE  shell[w.id] = "alive" /\ now - w.bornAt <= warmPoolMaxIdle
  <2>1. w = v /\ Usable(v)
    BY <1>1 DEF Claim, Oldest, Kept, IInv, ParkedOnce
  <2>2. w.bornAt \in Nat /\ now \in Nat
    BY DEF IInv, TypeOK, WarmShell
  <2> QED BY <2>1, <2>2, WarmPoolAssumption DEF Usable
<1>2. ~CreateFresh /\ ~Sweep /\ ~Tick /\ ~Stop /\ ~RefillFails /\ ~UNCHANGED vars
  BY DEF CreateFresh, FreshIds, Parked, Sweep, Tick, Stop, RefillFails, vars
<1>3. \A i \in Id : ~CreateCustom(i) /\ ~Refill(i) /\ ~Exit(i) /\ ~RemoveSession(i)
  BY DEF CreateCustom, FreshIds, Parked, Refill, Exit, RemoveSession
<1> QED BY <1>1, <1>2, <1>3 DEF Next

(* "Never hand out an exited shell, or one with an excessively old          *)
(* environment" (registry.ts).                                              *)
THEOREM ClaimsAlwaysUsable == Spec => ClaimsUsable
<1>1. IInv /\ [Next]_vars =>
        [\A w \in warmPool : w.id \in sessions' \ sessions =>
            shell[w.id] = "alive" /\ now - w.bornAt <= warmPoolMaxIdle]_vars
  BY StepClaimsUsable
<1> QED BY <1>1, AlwaysIInv, PTL DEF Spec, ClaimsUsable

-----------------------------------------------------------------------------
(* The start of ptyd. *)

(* Beside one that serves nobody is under way, and its socket file is its   *)
(* own; who has found no file, or removed it, meets no debris; the session  *)
(* file of one that is about to listen is its own.  All of it until some    *)
(* process has acted across another's start or stop.                        *)
ServesAlone == \A p \in Process : pc[p] = "serving" =>
  /\ socket = p
  /\ \A q \in Process \ {p} : pc[q] \in {"off", "failed"}

NoDebrisAhead == \A p \in Process : pc[p] \in {"clear", "started"} => socket # Debris

RecordFits == \A p \in Process : pc[p] \in {"started", "serving"} => record = p

StartupInv == StartupTypeOK /\ (crossed = {} => ServesAlone /\ NoDebrisAhead /\ RecordFits)

(* What is on the socket file is well typed after a step that moves p.      *)
LEMMA MovesTyped ==
  ASSUME StartupTypeOK, NEW p \in Process,
         NEW to \in {"off", "failed", "serving"} \cup Starting \cup Stopping,
         pc' = [pc EXCEPT ![p] = to],
         \/ socket' = socket /\ (pc[p] # "serving" \/ to = "serving")
         \/ socket' = p /\ to = "serving"
         \/ socket' \in {None, Debris}
         \/ socket' = socket /\ socket # p,
         record' \in Process \cup {None}, crossed' \subseteq Process
  PROVE  StartupTypeOK'
BY PtydStartupAssumption DEF StartupTypeOK, Serving

LEMMA CrossingTyped ==
  ASSUME StartupTypeOK, NEW p \in Process, NEW where, Crossing(p, where)
  PROVE  /\ crossed' \subseteq Process
         /\ crossed' = {} => crossed = {} /\ \A q \in Process \ {p} : pc[q] \notin where
BY DEF StartupTypeOK, Crossing, Others

LEMMA StepTyped ==
  ASSUME StartupTypeOK, StartupNext
  PROVE  StartupTypeOK'
<1> PICK p \in Process :
      \/ Probe(p) \/ Unlink(p) \/ StartRegistry(p) \/ Listen(p) \/ Persist(p)
      \/ ShutDown(p) \/ StopRegistry(p) \/ ExitProcess(p) \/ Restart(p) \/ Crash(p)
  BY DEF StartupNext
<1> USE DEF Starting, Stopping
<1>1. CASE Probe(p)
  BY <1>1, MovesTyped DEF Probe, At, Found, StartupTypeOK
<1>2. CASE Unlink(p)
  BY <1>2, MovesTyped DEF Unlink, At, StartupTypeOK
<1>3. CASE StartRegistry(p)
  BY <1>3, MovesTyped, CrossingTyped DEF StartRegistry, At, StartupTypeOK
<1>4. CASE Listen(p)
  <2>1. CASE socket = None
    BY <1>4, <2>1, MovesTyped, CrossingTyped DEF Listen, At, StartupTypeOK
  <2>2. CASE socket # None
    BY <1>4, <2>2, MovesTyped DEF Listen, At, StartupTypeOK
  <2> QED BY <2>1, <2>2
<1>5. CASE Persist(p)
  BY <1>5 DEF Persist, StartupTypeOK, Serving
<1>6. CASE ShutDown(p)
  BY <1>6, MovesTyped DEF ShutDown, At, StartupTypeOK
<1>7. CASE StopRegistry(p)
  BY <1>7, MovesTyped, CrossingTyped DEF StopRegistry, At, StartupTypeOK
<1>8. CASE ExitProcess(p)
  BY <1>8, MovesTyped DEF ExitProcess, At, StartupTypeOK
<1>9. CASE Restart(p)
  BY <1>9, MovesTyped DEF Restart, At, StartupTypeOK
<1>10. CASE Crash(p)
  BY <1>10, MovesTyped DEF Crash, At, StartupTypeOK
<1> QED BY <1>1, <1>2, <1>3, <1>4, <1>5, <1>6, <1>7, <1>8, <1>9, <1>10

(* What a step leaves is in StartupInv again. *)
LEMMA StartupStep ==
  ASSUME StartupInv, StartupNext
  PROVE  StartupInv'
<1>1. StartupTypeOK /\ StartupTypeOK'
  BY StepTyped DEF StartupInv
<1> SUFFICES ASSUME crossed' = {}
             PROVE  ServesAlone' /\ NoDebrisAhead' /\ RecordFits'
  BY <1>1 DEF StartupInv
<1> PICK p \in Process :
      \/ Probe(p) \/ Unlink(p) \/ StartRegistry(p) \/ Listen(p) \/ Persist(p)
      \/ ShutDown(p) \/ StopRegistry(p) \/ ExitProcess(p) \/ Restart(p) \/ Crash(p)
  BY DEF StartupNext
<1>2. crossed = {}
  BY <1>1, CrossingTyped
     DEF Probe, Unlink, StartRegistry, Listen, Persist, ShutDown, StopRegistry, ExitProcess, Restart, Crash
<1>3. ServesAlone /\ NoDebrisAhead /\ RecordFits
  BY <1>2 DEF StartupInv
<1> USE PtydStartupAssumption DEF StartupTypeOK, ServesAlone, NoDebrisAhead, RecordFits, Starting, Stopping, At
<1>4. CASE Probe(p)
  BY <1>1, <1>3, <1>4 DEF Probe, Found, Serving
<1>5. CASE Unlink(p)
  BY <1>1, <1>3, <1>5 DEF Unlink
<1>6. CASE StartRegistry(p)
  <2>1. \A q \in Process \ {p} : pc[q] # "started"
    BY <1>1, <1>6, CrossingTyped DEF StartRegistry
  <2> QED BY <1>1, <1>3, <1>6, <2>1 DEF StartRegistry
<1>7. CASE Listen(p)
  <2>1. CASE socket = None
    <3>1. \A q \in Process \ {p} : pc[q] \notin Starting \cup Stopping
      BY <1>1, <1>7, <2>1, CrossingTyped DEF Listen
    <3> QED BY <1>1, <1>3, <1>7, <2>1, <3>1 DEF Listen
  <2>2. CASE socket # None
    BY <1>1, <1>3, <1>7, <2>2 DEF Listen
  <2> QED BY <2>1, <2>2
<1>8. CASE Persist(p)
  BY <1>1, <1>3, <1>8 DEF Persist
<1>9. CASE ShutDown(p)
  BY <1>1, <1>3, <1>9 DEF ShutDown
<1>10. CASE StopRegistry(p)
  <2>1. \A q \in Process \ {p} : pc[q] # "started"
    BY <1>1, <1>10, CrossingTyped DEF StopRegistry
  <2> QED BY <1>1, <1>3, <1>10, <2>1 DEF StopRegistry
<1>11. CASE ExitProcess(p)
  BY <1>1, <1>3, <1>11 DEF ExitProcess
<1>12. CASE Restart(p)
  BY <1>1, <1>3, <1>12 DEF Restart
<1>13. CASE Crash(p)
  <2>1. CASE socket = p
    <3>1. \A q \in Process \ {p} : pc[q] \in {"off", "failed"}
      BY <1>1, <1>3, <2>1 DEF Serving
    <3> QED BY <1>1, <1>3, <1>13, <2>1, <3>1 DEF Crash
  <2>2. CASE socket # p
    BY <1>1, <1>3, <1>13, <2>2 DEF Crash
  <2> QED BY <2>1, <2>2
<1> QED BY <1>4, <1>5, <1>6, <1>7, <1>8, <1>9, <1>10, <1>11, <1>12, <1>13

LEMMA StartupInvAlways == StartupSpec => []StartupInv
<1>1. StartupInit => StartupInv
  BY PtydStartupAssumption
     DEF StartupInit, StartupInv, StartupTypeOK, ServesAlone, NoDebrisAhead, RecordFits, Serving
<1>2. ASSUME StartupInv, [StartupNext]_startupVars PROVE StartupInv'
  <2>1. CASE StartupNext
    BY <1>2, <2>1, StartupStep
  <2>2. CASE UNCHANGED startupVars
    BY <1>2, <2>2 DEF startupVars, StartupInv, StartupTypeOK, ServesAlone, NoDebrisAhead, RecordFits, Serving
  <2> QED BY <1>2, <2>1, <2>2
<1> QED BY <1>1, <1>2, PTL DEF StartupSpec

-----------------------------------------------------------------------------
(* Only a ptyd that serves listens on the socket file, however the starts   *)
(* and stops of many of them fall together.                                 *)
THEOREM StartupTypeCorrect == StartupSpec => []StartupTypeOK
<1>1. StartupInv => StartupTypeOK BY DEF StartupInv
<1> QED BY <1>1, StartupInvAlways, PTL

(* A ptyd that serves can be reached, and the session file is its own,      *)
(* whoever starts, stops and dies beside it, until a process has listened   *)
(* across another's start or stop, or has written its sessions over those   *)
(* of one about to listen: nothing else takes either file from it.          *)
THEOREM FilesStayItsOwn == StartupSpec => []FilesAreOwn
<1>1. StartupInv => FilesAreOwn BY DEF StartupInv, ServesAlone, RecordFits, FilesAreOwn, Serving
<1> QED BY <1>1, StartupInvAlways, PTL

(* Debris never keeps a ptyd from starting, with the same reservation. *)
THEOREM StartFailsForAnother == StartupSpec => FailsForAnother
<1>1. ASSUME StartupInv, StartupNext, crossed = {},
             NEW p \in Process, pc'[p] = "failed", pc[p] # "failed"
      PROVE  Serving \ {p} # {}
  <2>1. PICK q \in Process :
          \/ Probe(q) \/ Unlink(q) \/ StartRegistry(q) \/ Listen(q) \/ Persist(q)
          \/ ShutDown(q) \/ StopRegistry(q) \/ ExitProcess(q) \/ Restart(q) \/ Crash(q)
    BY <1>1 DEF StartupNext
  <2>2. Probe(q) \/ Listen(q)
    BY <1>1, <2>1 DEF StartupInv, StartupTypeOK, Unlink, StartRegistry, Persist, ShutDown, StopRegistry, ExitProcess, Restart, Crash, At
  <2>3. q = p /\ socket \in Serving /\ pc[p] \in {"off", "started"}
    <3>1. CASE Probe(q)
      BY <1>1, <3>1, PtydStartupAssumption DEF Probe, At, Found, StartupInv, StartupTypeOK
    <3>2. CASE Listen(q)
      BY <1>1, <3>2, PtydStartupAssumption DEF Listen, At, StartupInv, StartupTypeOK, NoDebrisAhead
    <3> QED BY <2>2, <3>1, <3>2
  <2> QED BY <2>3 DEF Serving
<1>2. StartupInv /\ [StartupNext]_startupVars =>
        [\A p \in Process : pc'[p] = "failed" /\ pc[p] # "failed" /\ crossed = {} => Serving \ {p} # {}]_startupVars
  BY <1>1
<1> QED BY <1>2, StartupInvAlways, PTL DEF StartupSpec, FailsForAnother

-----------------------------------------------------------------------------
(* The command line: the terminal that is attached.                         *)

(* Numbers have a least one, and are reached one after the other.           *)
LEMMA Least ==
  ASSUME NEW T, T \subseteq Nat, T # {}
  PROVE  \E n \in T : \A m \in T : n <= m
<1>1. PICK n \in T : \A m \in T : ~(<<m, n>> \in OpToRel(<, Nat))
  BY NatLessThanWellFounded, WFMin
<1>2. \A m \in T : n <= m
  <2> TAKE m \in T
  <2>1. m \in Nat /\ n \in Nat OBVIOUS
  <2>2. CASE m < n
    <3>1. <<m, n>> \in OpToRel(<, Nat) BY <2>1, <2>2 DEF OpToRel
    <3> QED BY <3>1, <1>1
  <2> QED BY <2>1, <2>2
<1> QED BY <1>2

LEMMA UpTo ==
  ASSUME NEW n \in Nat, NEW T, 0 \in T, \A k \in 1..n : k - 1 \in T => k \in T
  PROVE  \A k \in 0..n : k \in T
<1> DEFINE Out == {k \in 0..n : k \notin T}
<1>1. ASSUME Out # {}
      PROVE  FALSE
  <2>1. PICK m \in Out : \A k \in Out : m <= k
    <3>1. Out \subseteq Nat
      OBVIOUS
    <3> HIDE DEF Out
    <3> QED BY <1>1, <3>1, Least
  <2>2. m # 0 /\ m \in 0..n
    BY <2>1
  <2>3. m \in 1..n /\ m - 1 \in 0..n /\ m - 1 \notin Out
    BY <2>1, <2>2
  <2> QED BY <2>1, <2>3
<1> QED BY <1>1

(* A function that is applied again and again. *)
Repeats(g, V, x, step, n) == g \in [0..n -> V] /\ g[0] = x /\ \A k \in 1..n : g[k] = step[g[k - 1]]

LEMMA ItRepeats ==
  ASSUME NEW V, NEW x \in V, NEW step \in [V -> V], NEW n \in Nat
  PROVE  \E g : Repeats(g, V, x, step, n)
<1> DEFINE T == {k \in 0..n : \E g : Repeats(g, V, x, step, k)}
<1>1. 0 \in T
  <2> DEFINE g == [k \in 0..0 |-> x]
  <2>1. Repeats(g, V, x, step, 0)
    BY DEF Repeats
  <2> HIDE DEF g
  <2> QED BY <2>1
<1>2. ASSUME NEW k \in 1..n, k - 1 \in T
      PROVE  k \in T
  <2>1. PICK g : Repeats(g, V, x, step, k - 1)
    BY <1>2
  <2> DEFINE h == [j \in 0..k |-> IF j < k THEN g[j] ELSE step[g[k - 1]]]
  <2>2. g \in [0..k - 1 -> V] /\ g[0] = x /\ \A j \in 1..k - 1 : g[j] = step[g[j - 1]]
    BY <2>1 DEF Repeats
  <2>3. h \in [0..k -> V] /\ h[0] = x
    BY <2>2
  <2>4. ASSUME NEW j \in 1..k
        PROVE  h[j] = step[h[j - 1]]
    <3>1. h[j - 1] = g[j - 1]
      OBVIOUS
    <3>2. CASE j = k
      BY <3>1, <3>2
    <3>3. CASE j # k
      <4>1. j \in 1..k - 1 /\ h[j] = g[j]
        BY <3>3
      <4> QED BY <2>2, <3>1, <4>1
    <3> QED BY <3>2, <3>3
  <2>5. Repeats(h, V, x, step, k)
    BY <2>3, <2>4 DEF Repeats
  <2> HIDE DEF h
  <2> QED BY <2>5
<1> HIDE DEF T
<1>3. n \in T
  BY <1>1, <1>2, UpTo
<1> QED BY <1>3 DEF T

(* Min is the least one. *)
LEMMA FirstOf ==
  ASSUME NEW T, T \subseteq Nat, T # {}
  PROVE  Min(T) \in T /\ \A m \in T : Min(T) <= m
<1>1. \E n \in T : \A m \in T : n <= m
  BY Least
<1> QED BY <1>1 DEF Min

-----------------------------------------------------------------------------
(* Concatenation, for tlapm, which loops when it reasons about \o itself.   *)
Cat(s, t) == s \o t

(* What was typed and is not sent: a prefix that is held back, and what     *)
(* detached.                                                                *)
Held(at) == IF at = "armed" THEN <<Prefix>> ELSE IF at = "detached" THEN <<Prefix, DetachKey>> ELSE <<>>

BehindPrefix(read, at, i) == IF i = 1 THEN at = "armed" ELSE read[i - 1] = Prefix

Detaching(read, at) == {i \in 1..Len(read) : read[i] = DetachKey /\ BehindPrefix(read, at, i)}

Loops(n) == [i : 1..n + 1, at : {"plain", "armed", "detached"}, sends : Seq(Byte)]

LoopInv(read, at, l) ==
  /\ Cat(Held(at), SubSeq(read, 1, l.i - 1)) = Cat(l.sends, Held(l.at))
  /\ l.at # "detached" =>
       /\ l.at = "armed" <=> BehindPrefix(read, at, l.i)
       /\ \A j \in 1..l.i - 1 : j \notin Detaching(read, at)
  /\ l.at = "detached" =>
       /\ l.i - 1 \in Detaching(read, at)
       /\ \A j \in 1..l.i - 2 : j \notin Detaching(read, at)

LEMMA LoopFacts ==
  ASSUME NEW i, NEW at, NEW sends
  PROVE  Loop(i, at, sends).i = i /\ Loop(i, at, sends).at = at /\ Loop(i, at, sends).sends = sends
BY DEF Loop

(* What is held back is bytes. *)
LEMMA HeldType ==
  ASSUME NEW at
  PROVE  Held(at) \in Seq(Byte)
<1>1. Prefix \in Byte /\ DetachKey \in Byte
  BY DEF Byte
<1>2. <<>> \in Seq(Byte) /\ <<Prefix>> \in Seq(Byte) /\ <<Prefix, DetachKey>> \in Seq(Byte)
  BY <1>1
<1> QED BY <1>2 DEF Held

(* Sequences in a row, however they are put together. *)
LEMMA Grouping ==
  ASSUME NEW S, NEW s \in Seq(S), NEW t \in Seq(S), NEW u \in Seq(S)
  PROVE  Cat(Cat(s, t), u) = Cat(s, Cat(t, u)) /\ Cat(s, t) \in Seq(S)
BY ConcatAssociative DEF Cat

(* A piece more of a sequence. *)
LEMMA PieceMore ==
  ASSUME NEW S, NEW s \in Seq(S), NEW i \in 1..Len(s) + 1, NEW m \in i - 1..Len(s)
  PROVE  /\ SubSeq(s, 1, i - 1) \in Seq(S) /\ SubSeq(s, i, m) \in Seq(S) /\ SubSeq(s, 1, m) \in Seq(S)
         /\ SubSeq(s, 1, i - 1) \o SubSeq(s, i, m) = SubSeq(s, 1, m)
<1>1. Len(s) \in Nat
  BY LenProperties
<1>2. SubSeq(s, 1, i - 1) \in Seq(S) /\ SubSeq(s, i, m) \in Seq(S) /\ SubSeq(s, 1, m) \in Seq(S)
  BY <1>1
<1>3. PICK j : j = i - 1
  OBVIOUS
<1>4. 1 \in 1..Len(s) + 1 /\ j \in 1 - 1..Len(s) /\ m \in j..Len(s) /\ j + 1 = i
  BY <1>1, <1>3
<1>5. SubSeq(s, 1, j) \o SubSeq(s, j + 1, m) = SubSeq(s, 1, m)
  BY <1>4, ConcatAdjacentSubSeq
<1> QED BY <1>2, <1>3, <1>4, <1>5

(* A piece of one. *)
LEMMA PieceOne ==
  ASSUME NEW S, NEW s \in Seq(S), NEW i \in 1..Len(s)
  PROVE  SubSeq(s, i, i) = <<s[i]>>
<1>1. Len(s) \in Nat
  BY LenProperties
<1>2. SubSeq(s, i, i) \in Seq(S) /\ Len(SubSeq(s, i, i)) = 1 /\ SubSeq(s, i, i)[1] = s[i]
  BY <1>1
<1>3. PICK t \in Seq(S) : t = SubSeq(s, i, i)
  BY <1>2
<1>4. Len(t) = 1 /\ t[1] = s[i]
  BY <1>2, <1>3
<1>5. t = <<s[i]>>
  BY <1>4
<1> QED BY <1>3, <1>5

(* A piece more of the read that is sent, or held back. *)
LEMMA SentMore ==
  ASSUME NEW read \in Seq(Byte), NEW at, NEW i \in 1..Len(read) + 1, NEW m \in i - 1..Len(read), NEW sends \in Seq(Byte),
         NEW held \in Seq(Byte), Cat(Held(at), SubSeq(read, 1, i - 1)) = Cat(sends, held)
  PROVE  Cat(Held(at), SubSeq(read, 1, m)) = Cat(sends, Cat(held, SubSeq(read, i, m)))
<1> DEFINE B == Byte
           x == SubSeq(read, 1, i - 1)
           y == SubSeq(read, i, m)
           z == SubSeq(read, 1, m)
           h == Held(at)
<1>1. x \in Seq(B) /\ y \in Seq(B) /\ z \in Seq(B) /\ Cat(x, y) = z
  BY PieceMore DEF Cat
<1>2. h \in Seq(B) /\ sends \in Seq(B) /\ held \in Seq(B)
  BY HeldType
<1>3. Cat(h, x) = Cat(sends, held)
  OBVIOUS
<1> HIDE DEF B, x, y, z, h
<1>4. Cat(Cat(h, x), y) = Cat(h, Cat(x, y))
  BY <1>1, <1>2, Grouping
<1>5. Cat(Cat(sends, held), y) = Cat(sends, Cat(held, y))
  BY <1>1, <1>2, Grouping
<1>6. Cat(h, z) = Cat(sends, Cat(held, y))
  BY <1>1, <1>3, <1>4, <1>5
<1> QED BY <1>6 DEF h, y, z

(* Nothing more, and two bytes. *)
LEMMA CatFacts ==
  ASSUME NEW S, NEW s \in Seq(S)
  PROVE  Cat(s, <<>>) = s /\ Cat(<<>>, s) = s
BY ConcatEmptySeq DEF Cat

LEMMA CatTwo ==
  ASSUME NEW x, NEW y
  PROVE  Cat(<<x>>, <<y>>) = <<x, y>>
<1> DEFINE S == {x, y}
<1>1. <<x>> \in Seq(S) /\ <<y>> \in Seq(S) /\ <<x, y>> \in Seq(S)
  OBVIOUS
<1>2. Len(<<x>>) = 1 /\ Len(<<y>>) = 1 /\ <<x>>[1] = x /\ <<y>>[1] = y
  OBVIOUS
<1> HIDE DEF S
<1>3. PICK s \in Seq(S) : s = <<x>>
  BY <1>1
<1>4. PICK t \in Seq(S) : t = <<y>>
  BY <1>1
<1>5. s \o t \in Seq(S) /\ Len(s \o t) = 2 /\ (s \o t)[1] = x /\ (s \o t)[2] = y
  BY <1>2, <1>3, <1>4
<1>6. PICK u \in Seq(S) : u = s \o t
  BY <1>5
<1>7. u = <<x, y>>
  <2>1. PICK v \in Seq(S) : v = <<x, y>>
    BY <1>1
  <2>2. Len(v) = 2 /\ v[1] = x /\ v[2] = y
    BY <2>1
  <2>3. Len(u) = Len(v) /\ \A k \in 1..Len(u) : u[k] = v[k]
    BY <1>5, <1>6, <2>2
  <2>4. u = v
    BY <2>3, SeqEqual
  <2> QED BY <2>1, <2>4
<1> QED BY <1>3, <1>4, <1>6, <1>7 DEF Cat

(* A byte of a read when a prefix is held back. *)
LEMMA PassArmed ==
  ASSUME NEW read \in Seq(Byte), NEW at, NEW l \in Loops(Len(read)), LoopInv(read, at, l),
         l.at = "armed", l.i <= Len(read)
  PROVE  /\ Pass(read, l) \in Loops(Len(read)) /\ LoopInv(read, at, Pass(read, l))
         /\ Pass(read, l).i = l.i + 1
<1> DEFINE n == Len(read)
           i == l.i
           byte == read[i]
           new == Pass(read, l)
           D == Detaching(read, at)
<1>1. n \in Nat /\ i \in 1..n /\ l.sends \in Seq(Byte) /\ byte \in Byte
  BY DEF Loops
<1>2. SubSeq(read, i, i) = <<byte>> /\ <<byte>> \in Seq(Byte) /\ <<Prefix>> \in Seq(Byte)
  <2>1. Prefix \in Byte
    BY DEF Byte
  <2> QED BY <1>1, <2>1, PieceOne
<1>3. Cat(Held(at), SubSeq(read, 1, i)) = Cat(l.sends, Cat(<<Prefix>>, <<byte>>))
  <2>1. Cat(Held(at), SubSeq(read, 1, i - 1)) = Cat(l.sends, <<Prefix>>)
    BY DEF LoopInv, Held
  <2>2. i \in 1..n + 1 /\ i \in i - 1..n
    BY <1>1
  <2>3. ASSUME NEW k \in 1..n + 1, NEW sends \in Seq(Byte), NEW held \in Seq(Byte),
               k \in k - 1..n, Cat(Held(at), SubSeq(read, 1, k - 1)) = Cat(sends, held)
        PROVE  Cat(Held(at), SubSeq(read, 1, k)) = Cat(sends, Cat(held, SubSeq(read, k, k)))
    BY <2>3, SentMore
  <2>4. Cat(Held(at), SubSeq(read, 1, i)) = Cat(l.sends, Cat(<<Prefix>>, SubSeq(read, i, i)))
    BY <1>1, <1>2, <2>1, <2>2, <2>3
  <2> QED BY <1>2, <2>4
<1>4. Cat(<<Prefix>>, <<byte>>) = <<Prefix, byte>>
  BY CatTwo
<1>5. BehindPrefix(read, at, i) /\ \A j \in 1..i - 1 : j \notin D
  BY DEF LoopInv
<1>6. i + 1 \in 1..n + 1 /\ i + 1 # 1 /\ (i + 1) - 1 = i /\ (i + 1) - 2 = i - 1
  BY <1>1
<1>7. BehindPrefix(read, at, i + 1) <=> byte = Prefix
  BY <1>6 DEF BehindPrefix
<1>8. i \in D <=> byte = DetachKey
  BY <1>1, <1>5 DEF Detaching
<1>9. Prefix # DetachKey
  BY AttachAssumption
<1>10. new = CASE byte = DetachKey -> Loop(i + 1, "detached", l.sends)
               [] byte = Prefix    -> Loop(i + 1, "armed", l.sends \o <<Prefix>>)
               [] OTHER            -> Loop(i + 1, "plain", l.sends \o <<Prefix, byte>>)
  <2>1. ~(l.at = "detached" \/ i > n) /\ l.at # "plain" /\ l.at = "armed" /\ i <= n
    BY <1>1
  <2> QED BY <2>1 DEF Pass
<1> HIDE DEF new, D, byte
<1>11. CASE byte = DetachKey
  <2>1. new = Loop(i + 1, "detached", l.sends)
    BY <1>9, <1>10, <1>11
  <2>2. new.i = i + 1 /\ new.at = "detached" /\ new.sends = l.sends
    BY <2>1, LoopFacts
  <2>3. Held("detached") = <<Prefix, byte>>
    BY <1>11 DEF Held
  <2>4. new \in Loops(n)
    BY <1>1, <1>6, <2>1 DEF Loop, Loops
  <2>5. LoopInv(read, at, new)
    BY <1>3, <1>4, <1>5, <1>6, <1>8, <1>11, <2>2, <2>3 DEF LoopInv, D
  <2> QED BY <2>2, <2>4, <2>5 DEF new
<1>12. CASE byte = Prefix
  <2>1. new = Loop(i + 1, "armed", l.sends \o <<Prefix>>)
    BY <1>9, <1>10, <1>12
  <2>2. new.i = i + 1 /\ new.at = "armed" /\ new.sends = Cat(l.sends, <<Prefix>>)
    BY <2>1 DEF Cat, Loop
  <2>3. Held("armed") = <<byte>> /\ Cat(l.sends, <<Prefix>>) \in Seq(Byte)
    BY <1>1, <1>2, <1>12, Grouping DEF Held
  <2>4. new \in Loops(n)
    BY <1>6, <2>1, <2>3 DEF Loop, Loops, Cat
  <2>5. Cat(l.sends, Cat(<<Prefix>>, <<byte>>)) = Cat(new.sends, Held("armed"))
    <3>1. PICK s \in Seq(Byte), t \in Seq(Byte), u \in Seq(Byte) : s = l.sends /\ t = <<Prefix>> /\ u = <<byte>>
      BY <1>1, <1>2
    <3>2. Cat(Cat(s, t), u) = Cat(s, Cat(t, u))
      BY Grouping
    <3> QED BY <2>2, <2>3, <3>1, <3>2
  <2>6. \A j \in 1..i : j \notin D
    BY <1>1, <1>5, <1>8, <1>9, <1>12
  <2>7. LoopInv(read, at, new)
    BY <1>3, <1>6, <1>7, <1>12, <2>2, <2>5, <2>6 DEF LoopInv, D
  <2> QED BY <2>2, <2>4, <2>7 DEF new
<1>13. CASE byte # Prefix /\ byte # DetachKey
  <2>1. new = Loop(i + 1, "plain", l.sends \o <<Prefix, byte>>)
    BY <1>10, <1>13
  <2>2. new.i = i + 1 /\ new.at = "plain" /\ new.sends = Cat(l.sends, <<Prefix, byte>>)
    BY <2>1 DEF Cat, Loop
  <2>3. Held("plain") = <<>> /\ new.sends \in Seq(Byte)
    <3>1. <<Prefix, byte>> \in Seq(Byte)
      BY <1>2, <1>4, Grouping
    <3> QED BY <1>1, <2>2, <3>1, Grouping DEF Held
  <2>4. new \in Loops(n)
    <3>1. new = [i |-> i + 1, at |-> "plain", sends |-> new.sends]
      BY <2>1, <2>2 DEF Loop
    <3> QED BY <1>6, <2>3, <3>1 DEF Loops
  <2>5. Cat(l.sends, Cat(<<Prefix>>, <<byte>>)) = Cat(new.sends, Held("plain"))
    BY <1>4, <2>2, <2>3, CatFacts
  <2>6. \A j \in 1..i : j \notin D
    BY <1>1, <1>5, <1>8, <1>13
  <2>7. LoopInv(read, at, new)
    BY <1>3, <1>6, <1>7, <1>13, <2>2, <2>5, <2>6 DEF LoopInv, D
  <2> QED BY <2>2, <2>4, <2>7 DEF new
<1> QED BY <1>11, <1>12, <1>13

(* A stretch without a prefix. *)
LEMMA PassPlain ==
  ASSUME NEW read \in Seq(Byte), NEW at, NEW l \in Loops(Len(read)), LoopInv(read, at, l),
         l.at = "plain", l.i <= Len(read)
  PROVE  /\ Pass(read, l) \in Loops(Len(read)) /\ LoopInv(read, at, Pass(read, l))
         /\ Pass(read, l).i > l.i
<1> DEFINE n == Len(read)
           i == l.i
           ahead == {j \in i..n : read[j] = Prefix}
           new == Pass(read, l)
           D == Detaching(read, at)
<1>1. n \in Nat /\ i \in 1..n /\ l.sends \in Seq(Byte)
  BY DEF Loops
<1>2. ~BehindPrefix(read, at, i) /\ \A j \in 1..i - 1 : j \notin D
  BY DEF LoopInv
<1>3. Cat(Held(at), SubSeq(read, 1, i - 1)) = Cat(l.sends, <<>>)
  BY DEF LoopInv, Held
<1>4. new = IF ahead = {} THEN Loop(n + 1, "plain", l.sends \o SubSeq(read, i, n))
            ELSE Loop(Behind(Min(ahead)), "armed", l.sends \o SubSeq(read, i, Min(ahead) - 1))
  <2>1. ~(l.at = "detached" \/ i > n) /\ l.at # "armed" /\ l.at = "plain" /\ i <= n
    BY <1>1
  <2> QED BY <2>1 DEF Pass
<1>5. ASSUME NEW m \in i - 1..n
      PROVE  /\ Cat(Held(at), SubSeq(read, 1, m)) = Cat(l.sends, SubSeq(read, i, m))
             /\ SubSeq(read, i, m) \in Seq(Byte) /\ Cat(l.sends, SubSeq(read, i, m)) \in Seq(Byte)
  <2>1. SubSeq(read, i, m) \in Seq(Byte) /\ i \in 1..n + 1 /\ <<>> \in Seq(Byte)
    BY <1>1, PieceMore
  <2>2. PICK sends \in Seq(Byte), held \in Seq(Byte) : sends = l.sends /\ held = <<>>
    BY <1>1, <2>1
  <2>3. Cat(Held(at), SubSeq(read, 1, i - 1)) = Cat(sends, held)
    BY <1>3, <2>2
  <2>4. Cat(Held(at), SubSeq(read, 1, m)) = Cat(sends, Cat(held, SubSeq(read, i, m)))
    <3> HIDE DEF i
    <3> QED BY <2>1, <2>3, SentMore
  <2>5. PICK piece \in Seq(Byte) : piece = SubSeq(read, i, m)
    BY <2>1
  <2>6. Cat(held, piece) = piece /\ Cat(sends, piece) \in Seq(Byte)
    BY <2>2, CatFacts, Grouping
  <2> QED BY <2>2, <2>4, <2>5, <2>6
(* No d counts where no prefix is. *)
<1>6. ASSUME NEW m \in i..n + 1, \A j \in i..m - 1 : read[j] # Prefix
      PROVE  \A j \in i..m : j \notin D
  <2> SUFFICES ASSUME NEW j \in i..m PROVE ~BehindPrefix(read, at, j) \/ j \notin 1..n
    BY DEF Detaching
  <2>1. CASE j = i
    BY <1>2, <2>1
  <2>2. CASE j # i
    <3>1. j - 1 \in i..m - 1 /\ j # 1
      BY <1>1, <2>2
    <3>2. read[j - 1] # Prefix
      BY <1>6, <3>1
    <3> QED BY <3>1, <3>2 DEF BehindPrefix
  <2> QED BY <2>1, <2>2
<1> HIDE DEF new, D
<1>7. CASE ahead = {}
  <2>1. new = Loop(n + 1, "plain", Cat(l.sends, SubSeq(read, i, n)))
    BY <1>4, <1>7 DEF Cat
  <2>2. new.i = n + 1 /\ new.at = "plain" /\ new.sends = Cat(l.sends, SubSeq(read, i, n))
    BY <2>1, LoopFacts
  <2>3. n \in i - 1..n /\ n + 1 \in i..n + 1 /\ (n + 1) - 1 = n /\ n + 1 # 1
    BY <1>1
  <2>4. new.sends \in Seq(Byte) /\ Cat(Held(at), SubSeq(read, 1, n)) = new.sends
    BY <1>5, <2>2, <2>3
  <2>5. new \in Loops(n)
    BY <1>1, <2>1, <2>2, <2>4 DEF Loop, Loops
  <2>6. \A j \in i..n : read[j] # Prefix
    BY <1>7
  <2>7. \A j \in i..n + 1 : j \notin D
    BY <1>6, <2>3, <2>6
  <2>8. \A j \in 1..n : j \notin D
    BY <1>1, <1>2, <2>7
  <2>9. ~BehindPrefix(read, at, n + 1)
    BY <1>1, <2>3, <2>6 DEF BehindPrefix
  <2>10. Cat(new.sends, Held("plain")) = new.sends
    BY <2>4, CatFacts DEF Held
  <2>11. LoopInv(read, at, new)
    BY <2>2, <2>3, <2>4, <2>8, <2>9, <2>10 DEF LoopInv, D
  <2>12. new.i > i
    BY <1>1, <2>2
  <2> QED BY <2>5, <2>11, <2>12 DEF new
<1>8. CASE ahead # {}
  <2> DEFINE p == Min(ahead)
  <2>1. p \in i..n /\ read[p] = Prefix /\ \A j \in i..p - 1 : read[j] # Prefix
    <3>1. ahead \subseteq Nat
      BY <1>1
    <3>2. p \in ahead /\ \A m \in ahead : p <= m
      <4> HIDE DEF ahead
      <4> QED BY <1>8, <3>1, FirstOf
    <3>3. p \in i..n /\ read[p] = Prefix
      BY <3>2
    <3>4. ASSUME NEW j \in i..p - 1
          PROVE  read[j] # Prefix
      <4>1. j \in i..n /\ j < p
        BY <1>1, <3>3
      <4>2. j \notin ahead
        <5> HIDE DEF ahead, p
        <5> QED BY <1>1, <3>2, <3>3, <4>1
      <4> QED BY <4>1, <4>2
    <3> QED BY <3>3, <3>4
  <2>2. new = Loop(p + 1, "armed", Cat(l.sends, SubSeq(read, i, p - 1)))
    BY <1>4, <1>8 DEF Cat, Behind
  <2> HIDE DEF p, ahead
  <2>3. new.i = p + 1 /\ new.at = "armed" /\ new.sends = Cat(l.sends, SubSeq(read, i, p - 1))
    BY <2>2, LoopFacts
  <2>4. /\ p - 1 \in i - 1..n /\ p \in 1..n /\ p \in i..n + 1 /\ p + 1 \in 1..n + 1 /\ (p + 1) - 1 = p /\ p + 1 # 1
        /\ p \in p - 1..n /\ p \in 1..n + 1
    BY <1>1, <2>1
  <2>5. new.sends \in Seq(Byte) /\ Cat(Held(at), SubSeq(read, 1, p - 1)) = new.sends
    BY <1>5, <2>3, <2>4
  <2>6. new \in Loops(n)
    BY <1>1, <2>2, <2>3, <2>4, <2>5 DEF Loop, Loops
  <2>7. Cat(Held(at), SubSeq(read, 1, p)) = Cat(new.sends, Held("armed"))
    <3>1. Cat(Held(at), SubSeq(read, 1, p - 1)) = Cat(new.sends, <<>>) /\ <<>> \in Seq(Byte)
      BY <2>5, CatFacts
    <3>2. Cat(Held(at), SubSeq(read, 1, p)) = Cat(new.sends, Cat(<<>>, SubSeq(read, p, p)))
      <4>1. PICK sends \in Seq(Byte), held \in Seq(Byte) : sends = new.sends /\ held = <<>>
        BY <2>5, <3>1
      <4>2. Cat(Held(at), SubSeq(read, 1, p - 1)) = Cat(sends, held)
        BY <3>1, <4>1
      <4>3. Cat(Held(at), SubSeq(read, 1, p)) = Cat(sends, Cat(held, SubSeq(read, p, p)))
        BY <2>4, <4>2, SentMore
      <4> QED BY <4>1, <4>3
    <3>3. SubSeq(read, p, p) = <<Prefix>> /\ <<Prefix>> \in Seq(Byte)
      <4>1. Prefix \in Byte
        BY DEF Byte
      <4> QED BY <2>1, <2>4, <4>1, PieceOne
    <3>4. Cat(<<>>, <<Prefix>>) = <<Prefix>>
      BY <3>3, CatFacts
    <3> QED BY <3>2, <3>3, <3>4 DEF Held
  <2>8. \A j \in i..p : j \notin D
    BY <1>6, <2>1, <2>4
  <2>9. \A j \in 1..p : j \notin D
    BY <1>1, <1>2, <2>1, <2>8
  <2>10. BehindPrefix(read, at, p + 1)
    BY <2>1, <2>4 DEF BehindPrefix
  <2>11. LoopInv(read, at, new)
    BY <2>3, <2>4, <2>7, <2>9, <2>10 DEF LoopInv, D
  <2>12. new.i > i
    BY <1>1, <2>1, <2>3
  <2> QED BY <2>6, <2>11, <2>12 DEF new
<1> QED BY <1>7, <1>8

(* The loop of onData, as far as it is, and where it has come to its end.   *)
Scanned(read, at) == {l \in Loops(Len(read)) : LoopInv(read, at, l)}

Ended(read, l) == l.at = "detached" \/ l.i = Len(read) + 1

(* A pass keeps what the loop has reached, and comes forward.               *)
LEMMA PassKeeps ==
  ASSUME NEW read \in Seq(Byte), NEW at, NEW l \in Scanned(read, at)
  PROVE  /\ Pass(read, l) \in Scanned(read, at)
         /\ Ended(read, l) => Pass(read, l) = l
         /\ ~Ended(read, l) => Pass(read, l).i > l.i
<1>1. l \in Loops(Len(read)) /\ LoopInv(read, at, l) /\ Len(read) \in Nat
  BY DEF Scanned
<1>2. l.i \in 1..Len(read) + 1 /\ l.at \in {"plain", "armed", "detached"}
  BY <1>1 DEF Loops
<1>3. CASE Ended(read, l)
  <2>1. l.at = "detached" \/ l.i > Len(read)
    BY <1>1, <1>2, <1>3 DEF Ended
  <2>2. Pass(read, l) = l
    <3>1. ~(l.at = "armed" /\ l.i <= Len(read)) /\ ~(l.at = "plain" /\ l.i <= Len(read))
      BY <1>1, <1>2, <2>1
    <3> QED BY <2>1, <3>1 DEF Pass
  <2> QED BY <1>3, <2>2
<1>4. CASE ~Ended(read, l)
  <2>1. l.i <= Len(read) /\ l.i \in Nat /\ (l.at = "armed" \/ l.at = "plain")
    BY <1>1, <1>2, <1>4 DEF Ended
  <2>2. CASE l.at = "armed"
    BY <1>1, <1>4, <2>1, <2>2, PassArmed DEF Scanned
  <2>3. CASE l.at = "plain"
    BY <1>1, <1>4, <2>1, <2>3, PassPlain DEF Scanned
  <2> QED BY <2>1, <2>2, <2>3
<1> QED BY <1>3, <1>4

(* Before the first pass nothing is sent. *)
LEMMA LoopBegins ==
  ASSUME NEW read \in Seq(Byte), NEW at \in {"plain", "armed"}
  PROVE  Loop(1, at, <<>>) \in Scanned(read, at)
<1> DEFINE l == Loop(1, at, <<>>)
<1>1. Len(read) \in Nat /\ <<>> \in Seq(Byte) /\ 1 \in 1..Len(read) + 1
  OBVIOUS
<1>2. l.i = 1 /\ l.at = at /\ l.sends = <<>> /\ at # "detached"
  BY DEF Loop
<1>3. l \in Loops(Len(read))
  BY <1>1 DEF Loop, Loops
<1>4. Cat(Held(at), SubSeq(read, 1, 0)) = Cat(<<>>, Held(at))
  <2>1. SubSeq(read, 1, 0) = <<>>
    OBVIOUS
  <2>2. Held(at) \in Seq(Byte)
    BY HeldType
  <2> QED BY <2>1, <2>2, CatFacts
<1>5. at = "armed" <=> BehindPrefix(read, at, 1)
  BY DEF BehindPrefix
<1> HIDE DEF l
<1>6. LoopInv(read, at, l)
  BY <1>2, <1>4, <1>5 DEF LoopInv
<1> QED BY <1>3, <1>6 DEF Scanned, l

(* The passes that Scan counts. *)
Passes(read, at, g) ==
  g = [k \in 0..Len(read) |-> IF k = 0 THEN Loop(1, at, <<>>) ELSE Pass(read, g[k - 1])]

(* They are defined, and at the last of them the loop has ended. *)
LEMMA PassesExist ==
  ASSUME NEW read \in Seq(Byte), NEW at \in {"plain", "armed"}
  PROVE  \E g : Passes(read, at, g)
<1> DEFINE V == Scanned(read, at)
           x == Loop(1, at, <<>>)
           step == [l \in V |-> Pass(read, l)]
           n == Len(read)
<1>1. x \in V /\ step \in [V -> V] /\ n \in Nat
  BY LoopBegins, PassKeeps
<1>2. \E g : Repeats(g, V, x, step, n)
  <2> HIDE DEF V, x, step, n
  <2> QED BY <1>1, ItRepeats
<1>3. PICK g : Repeats(g, V, x, step, n)
  BY <1>2
<1>4. g \in [0..n -> V] /\ g[0] = x /\ \A k \in 1..n : g[k] = step[g[k - 1]]
  BY <1>3 DEF Repeats
<1>5. \A k \in 1..n : g[k] = Pass(read, g[k - 1])
  <2> TAKE k \in 1..n
  <2>1. k - 1 \in 0..n
    BY <1>1
  <2>2. g[k - 1] \in V
    <3> HIDE DEF V
    <3> QED BY <1>4, <2>1
  <2> QED BY <1>4, <2>2
<1>6. \A k \in 0..n : g[k] = IF k = 0 THEN x ELSE Pass(read, g[k - 1])
  <2> HIDE DEF V, x, step
  <2> QED BY <1>1, <1>4, <1>5
<1>7. g = [k \in 0..n |-> g[k]]
  <2> HIDE DEF V, x, step
  <2> QED BY <1>4
<1> QED BY <1>6, <1>7 DEF Passes

LEMMA PassesEnd ==
  ASSUME NEW read \in Seq(Byte), NEW at \in {"plain", "armed"}, NEW g, Passes(read, at, g)
  PROVE  g[Len(read)] \in Scanned(read, at) /\ Ended(read, g[Len(read)])
<1> DEFINE n == Len(read)
           V == Scanned(read, at)
           T == {k \in 0..n : g[k] \in V /\ (Ended(read, g[k]) \/ g[k].i > k)}
<1>1. n \in Nat
  OBVIOUS
<1>2. \A k \in 0..n : g[k] = IF k = 0 THEN Loop(1, at, <<>>) ELSE Pass(read, g[k - 1])
  BY DEF Passes
<1>3. 0 \in T
  <2>1. g[0] = Loop(1, at, <<>>) /\ Loop(1, at, <<>>).i = 1
    BY <1>1, <1>2 DEF Loop
  <2> QED BY <1>1, <2>1, LoopBegins
<1>4. ASSUME NEW k \in 1..n, k - 1 \in T
      PROVE  k \in T
  <2>1. k \in 0..n /\ k # 0
    BY <1>1
  <2>2. g[k] = Pass(read, g[k - 1])
    BY <1>2, <2>1
  <2>3. g[k - 1] \in V /\ (Ended(read, g[k - 1]) \/ g[k - 1].i > k - 1)
    BY <1>4
  <2>4. PICK l \in V : l = g[k - 1]
    BY <2>3
  <2>5. g[k] \in V /\ (Ended(read, l) => g[k] = l) /\ (~Ended(read, l) => g[k].i > l.i)
    BY <2>2, <2>4, PassKeeps
  <2>6. l.i \in Nat /\ g[k].i \in Nat
    BY <1>1, <2>4, <2>5 DEF Scanned, Loops
  <2>7. Ended(read, g[k]) \/ g[k].i > k
    BY <2>3, <2>4, <2>5, <2>6
  <2> HIDE DEF V
  <2> QED BY <2>1, <2>5, <2>7
<1>5. \A k \in 0..n : k \in T
  <2> HIDE DEF T, n
  <2> QED BY <1>1, <1>3, <1>4, UpTo
<1>6. n \in T
  <2>1. n \in 0..n
    BY <1>1
  <2> QED BY <1>5, <2>1
<1>7. g[n].i \in 1..n + 1
  BY <1>6 DEF Scanned, Loops
<1>8. g[n].i > n => g[n].i = n + 1
  BY <1>1, <1>7
<1> QED BY <1>6, <1>8 DEF Ended

LEMMA ScanEnds ==
  ASSUME NEW read \in Seq(Byte), NEW at \in {"plain", "armed"}
  PROVE  Scan(read, at) \in Scanned(read, at) /\ Ended(read, Scan(read, at))
<1> DEFINE g == CHOOSE f : f = [k \in 0..Len(read) |-> IF k = 0 THEN Loop(1, at, <<>>) ELSE Pass(read, f[k - 1])]
<1>1. Passes(read, at, g)
  BY PassesExist DEF Passes
<1>2. Scan(read, at) = g[Len(read)]
  BY DEF Scan
<1> HIDE DEF g
<1> QED BY <1>1, <1>2, PassesEnd

(* What counts of a read, told from where the scan of it ended.             *)
LEMMA CountsTo ==
  ASSUME NEW read \in Seq(Byte), NEW at, NEW l \in Scanned(read, at), Ended(read, l)
  PROVE  Counts(read, at) = SubSeq(read, 1, l.i - 1)
<1> DEFINE n == Len(read)
           D == Detaching(read, at)
<1>1. n \in Nat /\ l.i \in 1..n + 1 /\ LoopInv(read, at, l) /\ DOMAIN read = 1..n
  BY DEF Scanned, Loops
<1>2. Counts(read, at) = IF D = {} THEN read ELSE SubSeq(read, 1, Min(D))
  <2>1. D = {i \in DOMAIN read : read[i] = DetachKey /\ IF i = 1 THEN at = "armed" ELSE read[i - 1] = Prefix}
    BY <1>1 DEF Detaching, BehindPrefix
  <2> HIDE DEF D
  <2> QED BY <2>1 DEF Counts
<1>3. D \subseteq 1..n
  BY DEF Detaching
<1>4. CASE l.at = "detached"
  <2>1. l.i - 1 \in D /\ \A j \in 1..l.i - 2 : j \notin D
    BY <1>1, <1>4 DEF LoopInv
  <2>2. D \subseteq Nat /\ D # {}
    BY <1>1, <1>3, <2>1
  <2> HIDE DEF D
  <2>3. PICK m : m = Min(D)
    OBVIOUS
  <2>4. m \in D /\ \A j \in D : m <= j
    BY <2>2, <2>3, FirstOf
  <2>5. m = l.i - 1
    BY <1>1, <1>3, <2>1, <2>4
  <2> QED BY <1>2, <2>2, <2>3, <2>5
<1>5. CASE l.at # "detached"
  <2>1. l.i = n + 1 /\ l.i - 1 = n
    BY <1>1, <1>5 DEF Ended
  <2>2. \A j \in 1..n : j \notin D
    BY <1>1, <1>5, <2>1 DEF LoopInv
  <2>3. D = {}
    BY <1>3, <2>2
  <2>4. SubSeq(read, 1, n) = read
    OBVIOUS
  <2> QED BY <1>2, <2>1, <2>3, <2>4
<1> QED BY <1>4, <1>5

(* What is held back before a read, and what counts of it, are what the     *)
(* read makes onData send and what is held back behind it.                  *)
LEMMA ScanExact ==
  ASSUME NEW read \in Seq(Byte), NEW at \in {"plain", "armed"}
  PROVE  \E l : /\ l = Scan(read, at)
                /\ l.at \in {"plain", "armed", "detached"} /\ l.sends \in Seq(Byte)
                /\ Counts(read, at) \in Seq(Byte)
                /\ Cat(Held(at), Counts(read, at)) = Cat(l.sends, Held(l.at))
<1>1. PICK l : l = Scan(read, at)
  OBVIOUS
<1>2. l \in Scanned(read, at) /\ Ended(read, l)
  BY <1>1, ScanEnds
<1>3. l \in Loops(Len(read)) /\ LoopInv(read, at, l) /\ Len(read) \in Nat
  BY <1>2 DEF Scanned
<1>4. l.i \in 1..Len(read) + 1 /\ l.at \in {"plain", "armed", "detached"} /\ l.sends \in Seq(Byte)
  BY <1>3 DEF Loops
<1>5. Counts(read, at) = SubSeq(read, 1, l.i - 1)
  BY <1>2, CountsTo
<1>6. SubSeq(read, 1, l.i - 1) \in Seq(Byte)
  BY <1>3, <1>4
<1>7. Cat(Held(at), SubSeq(read, 1, l.i - 1)) = Cat(l.sends, Held(l.at))
  BY <1>3 DEF LoopInv
<1> QED BY <1>1, <1>4, <1>5, <1>6, <1>7

(* What was typed is what was sent and what is held back; nothing is held   *)
(* back behind the d that detached, and who is attached has not ended.      *)
HeldBack == IF armed THEN "armed" ELSE IF result = "detached" THEN "detached" ELSE "plain"

InputInv ==
  /\ typed \in Seq(Byte) /\ sent \in Seq(Byte) /\ armed \in BOOLEAN /\ result \in Result
  /\ stage = "attached" => result = "none"
  /\ result = "detached" => ~armed
  /\ typed = Cat(sent, Held(HeldBack))

(* Of a doubled prefix, too, both bytes are sent or held back. *)
LEMMA OutcomeIsTyped == InputInv => typed = Outcome
<1> SUFFICES ASSUME InputInv
             PROVE  typed = Outcome
  OBVIOUS
<1>1. <<>> \in Seq(Byte) /\ <<Prefix>> \in Seq(Byte) /\ <<Prefix, DetachKey>> \in Seq(Byte)
  BY DEF Byte
<1>2. PICK s \in Seq(Byte), p \in Seq(Byte), d \in Seq(Byte) : s = sent /\ p = <<Prefix>> /\ d = <<Prefix, DetachKey>>
  BY <1>1 DEF InputInv
<1>3. s \o <<>> = s /\ Cat(s, p) \in Seq(Byte) /\ Cat(s, d) \in Seq(Byte)
  BY ConcatEmptySeq, Grouping
<1>4. Cat(s, p) \o <<>> = Cat(s, p)
  BY <1>3, ConcatEmptySeq
<1>5. CASE armed
  <2>1. typed = Cat(s, p) /\ result # "detached"
    BY <1>2, <1>5 DEF InputInv, HeldBack, Held
  <2> QED BY <1>2, <1>4, <1>5, <2>1 DEF Outcome, Cat
<1>6. CASE ~armed /\ result = "detached"
  <2>1. typed = Cat(s, d)
    BY <1>2, <1>6 DEF InputInv, HeldBack, Held
  <2> QED BY <1>2, <1>3, <1>6, <2>1 DEF Outcome, Cat
<1>7. CASE ~armed /\ result # "detached"
  <2>1. typed = Cat(s, <<>>)
    BY <1>2, <1>7 DEF InputInv, HeldBack, Held
  <2> QED BY <1>2, <1>3, <1>7, <2>1 DEF Outcome, Cat
<1> QED BY <1>5, <1>6, <1>7

LEMMA InputInvGives == InputInv => InputExact
<1> SUFFICES ASSUME InputInv
             PROVE  InputExact
  OBVIOUS
<1>1. PICK t \in Seq(Byte) : t = typed /\ t = Outcome
  BY OutcomeIsTyped DEF InputInv
<1>2. ASSUME NEW i \in DOMAIN t, NEW j \in i..Len(t)
      PROVE  \E n \in DOMAIN t : SubSeq(t, i, j) = SubSeq(t, n, n + j - i)
  <2>1. i \in Int /\ j \in Int
    BY <1>2
  <2>2. i + j - i = j
    BY <2>1
  <2> QED BY <2>2
<1> QED BY <1>1, <1>2 DEF InputExact

(* What a step does to the input: nothing, a new attachSession, its end by  *)
(* an exit, or a read.                                                      *)
InputKept ==
  /\ UNCHANGED <<armed, typed, sent, result>>
  /\ stage' = "attached" => stage = "attached" \/ result = "none"

InputEnds == UNCHANGED <<armed, typed, sent>> /\ Finish("exited") /\ stage' # "attached"

InputRead == OnData /\ stage = "attached" /\ (stage' = "attached" => result' = "none")

InputStep == InputKept \/ BeginAttach \/ InputEnds \/ InputRead

LEMMA StopsInput == Stops => BeginAttach
BY DEF Stops

LEMMA MainInput ==
  ASSUME NEW call, NEW ok, NEW data, MainGoesOn(call, ok, data)
  PROVE  InputStep
<1> USE DEF InputStep
<1>1. \/ Stops
      \/ Returns({call.rid})
      \/ Attaches(call.id, {call.rid})
      \/ Picks(data, {call.rid})
      \/ Acts(data, {call.rid})
      \/ Subscribed({call.rid})
  <2>1. CASE ~ok /\ stage # "leaving"
    BY <2>1 DEF MainGoesOn
  <2>2. CASE stage = "leaving"
    BY <2>2 DEF MainGoesOn
  <2>3. CASE ok /\ stage # "leaving"
    BY <2>3 DEF MainGoesOn
  <2> QED BY <2>1, <2>2, <2>3
<1>2. CASE Stops
  BY <1>2, StopsInput
<1>3. CASE Returns({call.rid})
  BY <1>3 DEF Returns
<1>4. CASE Attaches(call.id, {call.rid})
  BY <1>4 DEF Attaches
<1>5. CASE Picks(data, {call.rid})
  BY <1>5 DEF Picks, InputKept
<1>6. CASE Acts(data, {call.rid})
  <2>1. Stops \/ (\E id : Attaches(id, {call.rid})) \/ (UNCHANGED attachVars /\ stage' = "acting")
    BY <1>6 DEF Acts
  <2>2. CASE \E id : Attaches(id, {call.rid})
    BY <2>2 DEF Attaches
  <2>3. CASE UNCHANGED attachVars /\ stage' = "acting"
    BY <2>3 DEF attachVars, InputKept
  <2> QED BY <2>1, <2>2, <2>3, StopsInput
<1>7. CASE Subscribed({call.rid})
  <2>1. UNCHANGED <<armed, typed, sent, result>>
    BY <1>7 DEF Subscribed, TakeTerminal
  <2>2. CASE result # "none"
    BY <1>7, <2>1, <2>2 DEF Subscribed, Leaves, InputKept
  <2>3. CASE result = "none"
    BY <2>1, <2>3 DEF InputKept
  <2> QED BY <2>2, <2>3
<1> QED BY <1>1, <1>2, <1>3, <1>4, <1>5, <1>6, <1>7

LEMMA GoesOnInput ==
  ASSUME NEW call, NEW ok, NEW data, GoesOn(call, ok, data)
  PROVE  InputStep
<1>1. CASE call.by = "main"
  BY <1>1, MainInput DEF GoesOn
<1>2. CASE call.by # "main"
  BY <1>2 DEF GoesOn, PickerGoesOn, InputStep, InputKept, attachVars, commandVars
<1> QED BY <1>1, <1>2

LEMMA EveryStepInput == CommandNext => InputStep
<1> SUFFICES ASSUME CommandNext
             PROVE  InputStep
  OBVIOUS
<1> USE DEF InputStep, attachVars, commandVars
<1>1. CASE OtherChange \/ Serve
  BY <1>1 DEF OtherChange, Serve, InputKept
<1>2. CASE Connect
  BY <1>2 DEF Connect, InputKept
<1>3. CASE Answered
  <2>1. CASE \E call \in pending : call.rid = Head(replies).call.rid
    <3>1. \E call \in pending : GoesOn([call EXCEPT !.id = Head(replies).call.id], Head(replies).is = "answer", Head(replies).list)
      BY <1>3, <2>1 DEF Answered
    <3> QED BY <3>1, GoesOnInput
  <2>2. CASE ~\E call \in pending : call.rid = Head(replies).call.rid
    BY <1>3, <2>2 DEF Answered, InputKept
  <2> QED BY <2>1, <2>2
<1>4. CASE Notified
  <2>1. \/ UNCHANGED attachVars /\ UNCHANGED commandVars
        \/ /\ Finish("exited") /\ UNCHANGED <<armed, typed, sent>>
           /\ IF stage = "attached" THEN Leaves({}) ELSE UNCHANGED <<commandVars, link, requests, pending>>
    BY <1>4 DEF Notified
  <2>2. CASE UNCHANGED attachVars /\ UNCHANGED commandVars
    BY <2>2 DEF InputKept
  <2>3. CASE /\ Finish("exited") /\ UNCHANGED <<armed, typed, sent>>
             /\ IF stage = "attached" THEN Leaves({}) ELSE UNCHANGED <<commandVars, link, requests, pending>>
    BY <2>3 DEF InputEnds, Leaves
  <2> QED BY <2>1, <2>2, <2>3
<1>5. CASE LinkCloses
  <2>1. CASE stage = "picking"
    BY <1>5, <2>1 DEF LinkCloses, InputKept
  <2>2. CASE stage # "picking"
    BY <1>5, <2>2, StopsInput DEF LinkCloses
  <2> QED BY <2>1, <2>2
<1>6. CASE \E call \in pending : TimeOut(call)
  BY <1>6, GoesOnInput DEF TimeOut
<1>7. CASE TypesAttached
  <2>1. OnData /\ stage = "attached"
    BY <1>7 DEF TypesAttached
  <2>2. CASE result' = "none"
    BY <2>1, <2>2 DEF InputRead
  <2>3. CASE result' # "none"
    BY <1>7, <2>1, <2>3 DEF TypesAttached, Leaves, InputRead
  <2> QED BY <2>2, <2>3
<1>8. CASE TypesPicking
  BY <1>8 DEF TypesPicking, InputKept
<1>9. CASE Poll
  <2>1. Attaches(wanted, {}) \/ Stops
    BY <1>9 DEF Poll
  <2> QED BY <2>1, StopsInput DEF Attaches
<1> QED BY <1>1, <1>2, <1>3, <1>4, <1>5, <1>6, <1>7, <1>8, <1>9 DEF CommandNext

LEMMA ReadKeepsInput == InputInv /\ InputRead => InputInv'
<1> SUFFICES ASSUME InputInv, InputRead
             PROVE  InputInv'
  OBVIOUS
<1> DEFINE at == IF armed THEN "armed" ELSE "plain"
<1>1. PICK read \in Reads :
        /\ typed' = typed \o Counts(read, at)
        /\ sent' = sent \o Scan(read, at).sends
        /\ armed' = (Scan(read, at).at = "armed")
        /\ IF Scan(read, at).at = "detached" THEN Finish("detached") ELSE UNCHANGED <<raw, result>>
  BY DEF InputRead, OnData
<1>2. result = "none" /\ at \in {"plain", "armed"} /\ HeldBack = at
  BY DEF InputInv, InputRead, HeldBack
<1>3. read \in Seq(Byte)
  BY AttachAssumption DEF Reads
<1> HIDE DEF at
<1>4. PICK l : /\ l = Scan(read, at)
               /\ l.at \in {"plain", "armed", "detached"} /\ l.sends \in Seq(Byte)
               /\ Counts(read, at) \in Seq(Byte)
               /\ Cat(Held(at), Counts(read, at)) = Cat(l.sends, Held(l.at))
  BY <1>2, <1>3, ScanExact
<1>5. PICK s \in Seq(Byte), h \in Seq(Byte), c \in Seq(Byte), m \in Seq(Byte), k \in Seq(Byte) :
        s = sent /\ h = Held(at) /\ c = Counts(read, at) /\ m = l.sends /\ k = Held(l.at)
  BY <1>4, HeldType DEF InputInv
<1>6. typed = Cat(s, h) /\ typed' = Cat(typed, c) /\ sent' = Cat(s, m)
  BY <1>1, <1>2, <1>4, <1>5 DEF InputInv, Cat
<1>7. Cat(h, c) = Cat(m, k)
  BY <1>4, <1>5
<1>8. Cat(Cat(s, h), c) = Cat(s, Cat(h, c)) /\ Cat(Cat(s, m), k) = Cat(s, Cat(m, k)) /\ Cat(s, m) \in Seq(Byte)
  BY Grouping
<1>9. typed' = Cat(sent', k) /\ sent' \in Seq(Byte)
  BY <1>6, <1>7, <1>8
<1>10. typed' \in Seq(Byte)
  BY <1>9, Grouping
<1>11. armed' \in BOOLEAN /\ (armed' <=> l.at = "armed")
  BY <1>1, <1>4
<1>12. result' = IF l.at = "detached" THEN "detached" ELSE "none"
  BY <1>1, <1>2, <1>4 DEF Finish
<1>13. HeldBack' = l.at
  BY <1>4, <1>11, <1>12 DEF HeldBack
<1>14. stage' = "attached" => result' = "none"
  BY DEF InputRead
<1>15. Held(HeldBack') = k
  BY <1>5, <1>13
<1>16. typed' = Cat(sent', Held(HeldBack'))
  BY <1>9, <1>15
<1> QED BY <1>9, <1>10, <1>11, <1>12, <1>14, <1>16 DEF InputInv, Result, Held, HeldBack, Cat

LEMMA InputInvInductive == InputInv /\ [CommandNext]_commandLineVars => InputInv'
<1> SUFFICES ASSUME InputInv, [CommandNext]_commandLineVars
             PROVE  InputInv'
  OBVIOUS
<1>1. CASE InputKept
  BY <1>1 DEF InputKept, InputInv, HeldBack, Held, Cat
<1>2. CASE BeginAttach
  <2>1. typed' = <<>> /\ sent' = <<>> /\ result' = "none" /\ armed' = FALSE
    BY <1>2 DEF BeginAttach
  <2>2. <<>> \in Seq(Byte) /\ <<>> = <<>> \o <<>>
    OBVIOUS
  <2> QED BY <2>1, <2>2 DEF InputInv, HeldBack, Held, Cat, Result
<1>3. CASE InputEnds
  BY <1>3 DEF InputEnds, Finish, InputInv, HeldBack, Held, Cat, Result
<1>4. CASE UNCHANGED commandLineVars
  BY <1>4 DEF commandLineVars, attachVars, commandVars, InputInv, HeldBack, Held, Cat
<1> QED BY <1>1, <1>2, <1>3, <1>4, EveryStepInput, ReadKeepsInput DEF InputStep

LEMMA InputInvStarts == CommandInit => InputInv
<1> SUFFICES ASSUME CommandInit
             PROVE  InputInv
  OBVIOUS
<1>1. typed = <<>> /\ sent = <<>> /\ result = "none" /\ armed = FALSE /\ stage = "start"
  BY DEF CommandInit, AttachInit
<1>2. <<>> \in Seq(Byte) /\ <<>> = <<>> \o <<>>
  OBVIOUS
<1> QED BY <1>1, <1>2 DEF InputInv, HeldBack, Held, Cat, Result

(* What is typed on a terminal that is attached, in stretches without the   *)
(* prefix twice in a row, reaches the session, but for the prefix and d     *)
(* that detach and a prefix whose next byte has not come, however the reads *)
(* cut it and whichever way attachSession begins and ends around it (onData *)
(* of src/cli/attach.ts).                                                   *)
THEOREM InputAlwaysExact == CommandSpec => []InputExact
BY InputInvStarts, InputInvInductive, InputInvGives, PTL DEF CommandSpec

-----------------------------------------------------------------------------
(* The connection of a command: a rid names one call from request to        *)
(* answer, and its message is under way once.                               *)

(* Sequences of whatever. *)
IsSeq(s) == \E M : s \in Seq(M)

LEMMA NoneYet == IsSeq(<<>>) /\ Len(<<>>) = 0
<1>1. <<>> \in Seq({})
  OBVIOUS
<1> QED BY <1>1 DEF IsSeq

LEMMA OneMore ==
  ASSUME NEW s, IsSeq(s), NEW x
  PROVE  /\ IsSeq(Append(s, x)) /\ Len(s) \in Nat /\ Len(Append(s, x)) = Len(s) + 1
         /\ \A k \in 1..Len(s) : Append(s, x)[k] = s[k]
         /\ Append(s, x)[Len(s) + 1] = x
<1>1. PICK M : s \in Seq(M)
  BY DEF IsSeq
<1>2. s \in Seq(M \cup {x}) /\ x \in M \cup {x}
  BY <1>1
<1>3. Append(s, x) \in Seq(M \cup {x})
  BY <1>2
<1> QED BY <1>2, <1>3 DEF IsSeq

LEMMA OneLess ==
  ASSUME NEW s, IsSeq(s), s # <<>>
  PROVE  /\ IsSeq(Tail(s)) /\ Len(s) \in Nat \ {0} /\ Len(Tail(s)) = Len(s) - 1 /\ Head(s) = s[1]
         /\ \A k \in 1..Len(s) - 1 : Tail(s)[k] = s[k + 1]
<1>1. PICK M : s \in Seq(M)
  BY DEF IsSeq
<1>2. Tail(s) \in Seq(M) /\ Len(s) \in Nat \ {0} /\ Len(Tail(s)) = Len(s) - 1 /\ Head(s) = s[1]
  BY <1>1
<1>3. \A k \in 1..Len(s) - 1 : Tail(s)[k] = s[k + 1]
  BY <1>1, <1>2
<1> QED BY <1>2, <1>3 DEF IsSeq

LEMMA TwoMore ==
  ASSUME NEW s, IsSeq(s), NEW x, NEW y
  PROVE  s \o <<x>> = Append(s, x) /\ s \o <<x, y>> = Append(Append(s, x), y)
<1>1. PICK M : s \in Seq(M)
  BY DEF IsSeq
<1>2. PICK S : s \in Seq(S) /\ x \in S /\ y \in S
  <2>1. s \in Seq(M \cup {x, y}) /\ x \in M \cup {x, y} /\ y \in M \cup {x, y}
    BY <1>1
  <2> QED BY <2>1
<1>3. s \o <<x>> = Append(s, x)
  BY <1>2
<1>4. PICK u : u = Append(Append(s, x), y)
  OBVIOUS
<1>5. PICK v : v = s \o <<x, y>>
  OBVIOUS
<1>6. <<x, y>> \in Seq(S) /\ Len(<<x, y>>) = 2 /\ <<x, y>>[1] = x /\ <<x, y>>[2] = y
  BY <1>2
<1>7. u \in Seq(S) /\ Len(u) = Len(s) + 2 /\ (\A k \in 1..Len(s) : u[k] = s[k]) /\ u[Len(s) + 1] = x /\ u[Len(s) + 2] = y
  BY <1>2, <1>4
<1>8. v \in Seq(S) /\ Len(v) = Len(s) + 2 /\ (\A k \in 1..Len(s) : v[k] = s[k]) /\ v[Len(s) + 1] = x /\ v[Len(s) + 2] = y
  <2>1. PICK t \in Seq(S) : t = <<x, y>>
    BY <1>6
  <2>2. Len(t) = 2 /\ t[1] = x /\ t[2] = y
    BY <1>6, <2>1
  <2>3. v = s \o t
    BY <1>5, <2>1
  <2>4. v \in Seq(S) /\ Len(v) = Len(s) + Len(t) /\ Len(s) \in Nat
    BY <1>2, <2>3
  <2>5. \A k \in 1..Len(s) + Len(t) : v[k] = IF k <= Len(s) THEN s[k] ELSE t[k - Len(s)]
    BY <1>2, <2>3
  <2>6. Len(s) + 1 \in 1..Len(s) + Len(t) /\ Len(s) + 2 \in 1..Len(s) + Len(t)
    BY <2>2, <2>4
  <2>7. (Len(s) + 1) - Len(s) = 1 /\ (Len(s) + 2) - Len(s) = 2
    BY <2>4
  <2>8. v[Len(s) + 1] = x /\ v[Len(s) + 2] = y
    BY <2>2, <2>4, <2>5, <2>6, <2>7
  <2>9. \A k \in 1..Len(s) : v[k] = s[k]
    BY <2>2, <2>4, <2>5
  <2> QED BY <2>2, <2>4, <2>8, <2>9
<1>9. \A k \in 1..Len(u) : u[k] = v[k]
  <2>1. Len(s) \in Nat
    BY <1>2
  <2>2. \A k \in 1..Len(s) + 2 : k \in 1..Len(s) \/ k = Len(s) + 1 \/ k = Len(s) + 2
    BY <2>1
  <2> QED BY <1>7, <1>8, <2>2
<1>10. u = v
  BY <1>7, <1>8, <1>9, SeqEqual
<1> QED BY <1>3, <1>4, <1>5, <1>10

-----------------------------------------------------------------------------
Op == {"list", "create", "subscribe", "unsubscribe", "rename", "lock", "unlock", "kill", "force"}

By == {"main", "picker"}

IsCall(c) == c = [rid |-> c.rid, op |-> c.op, id |-> c.id, by |-> c.by] /\ c.op \in Op /\ c.by \in By

(* The calls that are pending, the requests and the replies on their way: a *)
(* rid is of one call, and its message is under way once.                   *)
Typed(P, Q, R) ==
  /\ IsFiniteSet(P) /\ IsSeq(Q) /\ IsSeq(R)
  /\ \A p \in P : IsCall(p)
  /\ \A k \in 1..Len(Q) : IsCall(Q[k])
  /\ \A k \in 1..Len(R) : R[k].is # "event" => IsCall(R[k].call)

Once(P, Q, R) ==
  /\ \A p, q \in P : p.rid = q.rid => p = q
  /\ \A j, k \in 1..Len(Q) : Q[j].rid = Q[k].rid => j = k
  /\ \A j, k \in 1..Len(R) : R[j].is # "event" /\ R[k].is # "event" /\ R[j].call.rid = R[k].call.rid => j = k
  /\ \A j \in 1..Len(Q), k \in 1..Len(R) : R[k].is # "event" => Q[j].rid # R[k].call.rid

Same(c, p) == c.rid = p.rid => c.op = p.op /\ c.by = p.by

Matches(P, Q, R) ==
  \A p \in P : /\ \A j \in 1..Len(Q) : Same(Q[j], p)
               /\ \A k \in 1..Len(R) : R[k].is # "event" => Same(R[k].call, p)

Orderly(P, Q, R) == Typed(P, Q, R) /\ Once(P, Q, R) /\ Matches(P, Q, R)

Rids(P, Q, R) ==
  {p.rid : p \in P} \cup {Q[k].rid : k \in 1..Len(Q)}
    \cup {R[k].call.rid : k \in {k \in 1..Len(R) : R[k].is # "event"}}

LEMMA OrderlyEmpty == Orderly({}, <<>>, <<>>)
BY NoneYet, FS_EmptySet DEF Orderly, Typed, Once, Matches

LEMMA OrderlyFewer ==
  ASSUME NEW P, NEW Q, NEW R, Orderly(P, Q, R), NEW S, S \subseteq P
  PROVE  Orderly(S, Q, R)
<1>1. IsFiniteSet(S)
  BY FS_Subset DEF Orderly, Typed
<1> QED BY <1>1 DEF Orderly, Typed, Once, Matches

LEMMA OrderlySend ==
  ASSUME NEW P, NEW Q, NEW R, Orderly(P, Q, R), NEW c, IsCall(c), c.rid \notin Rids(P, Q, R)
  PROVE  Orderly(P \cup {c}, Append(Q, c), R)
<1>1. PICK Q2 : Q2 = Append(Q, c)
  OBVIOUS
<1>2. /\ IsSeq(Q2) /\ Len(Q) \in Nat /\ Len(Q2) = Len(Q) + 1
      /\ \A k \in 1..Len(Q) : Q2[k] = Q[k]
      /\ Q2[Len(Q) + 1] = c
  BY <1>1, OneMore DEF Orderly, Typed
<1>3. \A k \in 1..Len(Q2) : k \in 1..Len(Q) \/ k = Len(Q) + 1
  BY <1>2
<1>4. IsFiniteSet(P \cup {c})
  BY FS_AddElement DEF Orderly, Typed
<1>5. /\ \A p \in P : p.rid # c.rid
      /\ \A k \in 1..Len(Q) : Q[k].rid # c.rid
      /\ \A k \in 1..Len(R) : R[k].is # "event" => R[k].call.rid # c.rid
  BY DEF Rids
<1>6. Typed(P \cup {c}, Q2, R)
  BY <1>2, <1>3, <1>4 DEF Orderly, Typed
<1>7. Once(P \cup {c}, Q2, R)
  <2>1. \A p, q \in P \cup {c} : p.rid = q.rid => p = q
    BY <1>5 DEF Orderly, Once
  <2>2. \A j, k \in 1..Len(Q2) : Q2[j].rid = Q2[k].rid => j = k
    <3> SUFFICES ASSUME NEW j \in 1..Len(Q2), NEW k \in 1..Len(Q2), Q2[j].rid = Q2[k].rid
                 PROVE  j = k
      OBVIOUS
    <3>1. \A i \in 1..Len(Q2) : (i \in 1..Len(Q) /\ Q2[i] = Q[i]) \/ (i = Len(Q) + 1 /\ Q2[i] = c)
      BY <1>2, <1>3
    <3>2. CASE j \in 1..Len(Q) /\ k \in 1..Len(Q)
      BY <1>2, <3>2 DEF Orderly, Once
    <3>3. CASE ~(j \in 1..Len(Q) /\ k \in 1..Len(Q))
      BY <1>5, <3>1, <3>3
    <3> QED BY <3>2, <3>3
  <2>3. \A j, k \in 1..Len(R) : R[j].is # "event" /\ R[k].is # "event" /\ R[j].call.rid = R[k].call.rid => j = k
    BY DEF Orderly, Once
  <2>4. \A j \in 1..Len(Q2), k \in 1..Len(R) : R[k].is # "event" => Q2[j].rid # R[k].call.rid
    <3> SUFFICES ASSUME NEW j \in 1..Len(Q2), NEW k \in 1..Len(R), R[k].is # "event"
                 PROVE  Q2[j].rid # R[k].call.rid
      OBVIOUS
    <3>1. CASE j \in 1..Len(Q)
      BY <1>2, <3>1 DEF Orderly, Once
    <3>2. CASE j = Len(Q) + 1
      BY <1>2, <1>5, <3>2
    <3> QED BY <1>3, <3>1, <3>2
  <2> QED BY <2>1, <2>2, <2>3, <2>4 DEF Once
<1>8. Matches(P \cup {c}, Q2, R)
  BY <1>2, <1>3, <1>5 DEF Orderly, Matches, Same
<1> QED BY <1>1, <1>6, <1>7, <1>8 DEF Orderly

LEMMA OrderlyTold ==
  ASSUME NEW P, NEW Q, NEW R, Orderly(P, Q, R), NEW e, e.is = "event"
  PROVE  Orderly(P, Q, Append(R, e))
<1>1. PICK R2 : R2 = Append(R, e)
  OBVIOUS
<1>2. /\ IsSeq(R2) /\ Len(R) \in Nat /\ Len(R2) = Len(R) + 1
      /\ \A k \in 1..Len(R) : R2[k] = R[k]
      /\ R2[Len(R) + 1] = e
  BY <1>1, OneMore DEF Orderly, Typed
<1>3. \A k \in 1..Len(R2) : R2[k].is # "event" => k \in 1..Len(R)
  BY <1>2
<1>4. Typed(P, Q, R2)
  BY <1>2, <1>3 DEF Orderly, Typed
<1>5. Once(P, Q, R2)
  BY <1>2, <1>3 DEF Orderly, Once
<1>6. Matches(P, Q, R2)
  BY <1>2, <1>3 DEF Orderly, Matches
<1> QED BY <1>1, <1>4, <1>5, <1>6 DEF Orderly

LEMMA OrderlyRead ==
  ASSUME NEW P, NEW Q, NEW R, Orderly(P, Q, R), R # <<>>
  PROVE  Orderly(P, Q, Tail(R))
<1>1. PICK R2 : R2 = Tail(R)
  OBVIOUS
<1>2. /\ IsSeq(R2) /\ Len(R) \in Nat \ {0} /\ Len(R2) = Len(R) - 1
      /\ \A k \in 1..Len(R) - 1 : R2[k] = R[k + 1]
  BY <1>1, OneLess DEF Orderly, Typed
<1>3. \A k \in 1..Len(R2) : k + 1 \in 1..Len(R) /\ R2[k] = R[k + 1]
  BY <1>2
<1>4. Typed(P, Q, R2)
  BY <1>2, <1>3 DEF Orderly, Typed
<1>5. Once(P, Q, R2)
  <2>2. ASSUME NEW j \in 1..Len(R2), NEW k \in 1..Len(R2),
               R2[j].is # "event", R2[k].is # "event", R2[j].call.rid = R2[k].call.rid
        PROVE  j = k
    <3>1. PICK j1 \in 1..Len(R), k1 \in 1..Len(R) : j1 = j + 1 /\ k1 = k + 1 /\ R2[j] = R[j1] /\ R2[k] = R[k1]
      BY <1>3
    <3>2. j1 = k1
      BY <2>2, <3>1 DEF Orderly, Once
    <3> QED BY <1>2, <3>1, <3>2
  <2> QED BY <1>3, <2>2 DEF Orderly, Once
<1>6. Matches(P, Q, R2)
  BY <1>3 DEF Orderly, Matches
<1> QED BY <1>1, <1>4, <1>5, <1>6 DEF Orderly

LEMMA OrderlyServe ==
  ASSUME NEW P, NEW Q, NEW R, Orderly(P, Q, R), Q # <<>>,
         NEW m, m.is # "event", IsCall(m.call),
         m.call.rid = Head(Q).rid, m.call.op = Head(Q).op, m.call.by = Head(Q).by
  PROVE  Orderly(P, Tail(Q), Append(R, m))
<1>1. PICK Q2, R2 : Q2 = Tail(Q) /\ R2 = Append(R, m)
  OBVIOUS
<1>2. /\ IsSeq(Q2) /\ Len(Q) \in Nat \ {0} /\ Len(Q2) = Len(Q) - 1 /\ Head(Q) = Q[1]
      /\ \A k \in 1..Len(Q) - 1 : Q2[k] = Q[k + 1]
  BY <1>1, OneLess DEF Orderly, Typed
<1>3. /\ IsSeq(R2) /\ Len(R) \in Nat /\ Len(R2) = Len(R) + 1
      /\ \A k \in 1..Len(R) : R2[k] = R[k]
      /\ R2[Len(R) + 1] = m
  BY <1>1, OneMore DEF Orderly, Typed
<1>4. \A k \in 1..Len(Q2) : k + 1 \in 1..Len(Q) /\ k + 1 # 1 /\ Q2[k] = Q[k + 1]
  BY <1>2
<1>5. \A k \in 1..Len(R2) : k \in 1..Len(R) \/ k = Len(R) + 1
  BY <1>3
<1>6. 1 \in 1..Len(Q)
  BY <1>2
<1>7. Typed(P, Q2, R2)
  BY <1>2, <1>3, <1>4, <1>5 DEF Orderly, Typed
<1>8. Once(P, Q2, R2)
  <2>2. \A j, k \in 1..Len(Q2) : Q2[j].rid = Q2[k].rid => j = k
    <3> SUFFICES ASSUME NEW j \in 1..Len(Q2), NEW k \in 1..Len(Q2), Q2[j].rid = Q2[k].rid
                 PROVE  j = k
      OBVIOUS
    <3>1. PICK j1 \in 1..Len(Q), k1 \in 1..Len(Q) : j1 = j + 1 /\ k1 = k + 1 /\ Q2[j] = Q[j1] /\ Q2[k] = Q[k1]
      BY <1>4
    <3>2. j1 = k1
      BY <3>1 DEF Orderly, Once
    <3> QED BY <1>2, <3>1, <3>2
  <2>3. \A k \in 1..Len(R) : R[k].is # "event" => R[k].call.rid # m.call.rid
    BY <1>2, <1>6 DEF Orderly, Once
  <2>4. \A j, k \in 1..Len(R2) : R2[j].is # "event" /\ R2[k].is # "event" /\ R2[j].call.rid = R2[k].call.rid => j = k
    BY <1>3, <1>5, <2>3 DEF Orderly, Once
  <2>5. \A j \in 1..Len(Q2) : Q2[j].rid # m.call.rid
    BY <1>2, <1>4, <1>6 DEF Orderly, Once
  <2>6. \A j \in 1..Len(Q2), k \in 1..Len(R2) : R2[k].is # "event" => Q2[j].rid # R2[k].call.rid
    <3> SUFFICES ASSUME NEW j \in 1..Len(Q2), NEW k \in 1..Len(R2), R2[k].is # "event"
                 PROVE  Q2[j].rid # R2[k].call.rid
      OBVIOUS
    <3>1. PICK j1 \in 1..Len(Q) : Q2[j] = Q[j1]
      BY <1>4
    <3>2. CASE k \in 1..Len(R)
      BY <1>3, <3>1, <3>2 DEF Orderly, Once
    <3>3. CASE k = Len(R) + 1
      BY <1>3, <2>5, <3>3
    <3> QED BY <1>5, <3>2, <3>3
  <2> QED BY <2>2, <2>4, <2>6 DEF Orderly, Once
<1>9. Matches(P, Q2, R2)
  <2> SUFFICES ASSUME NEW p \in P
               PROVE  /\ \A j \in 1..Len(Q2) : Same(Q2[j], p)
                      /\ \A k \in 1..Len(R2) : R2[k].is # "event" => Same(R2[k].call, p)
    BY DEF Matches
  <2>1. \A j \in 1..Len(Q2) : Same(Q2[j], p)
    BY <1>4 DEF Orderly, Matches
  <2>2. Same(m.call, p)
    BY <1>2, <1>6 DEF Orderly, Matches, Same
  <2> QED BY <1>3, <1>5, <2>1, <2>2 DEF Orderly, Matches
<1> QED BY <1>1, <1>7, <1>8, <1>9 DEF Orderly

LEMMA ImageFits ==
  ASSUME NEW S, IsFiniteSet(S), NEW f
  PROVE  IsFiniteSet({f[x] : x \in S}) /\ Cardinality({f[x] : x \in S}) <= Cardinality(S)
<1> DEFINE T == {f[x] : x \in S}
           g == [x \in S |-> f[x]]
<1>1. g \in Surjection(S, T)
  BY DEF Surjection
<1> HIDE DEF T, g
<1>2. IsFiniteSet(T) /\ Cardinality(T) <= Cardinality(S)
  BY <1>1, FS_Surjection
<1> QED BY <1>2 DEF T

(* A call gets a rid of its own. *)
LEMMA FreshIsNew ==
  ASSUME Orderly(pending, requests, replies)
  PROVE  Fresh \notin Rids(pending, requests, replies)
<1> DEFINE U == UnderWay
           Used == {c.rid : c \in U}
           N == Cardinality(U)
           Free == 1..N + 1 \ Used
           messages == {r \in Range(replies) : r.is # "event"}
<1>1. IsFiniteSet(pending) /\ Len(requests) \in Nat /\ Len(replies) \in Nat
      /\ DOMAIN requests = 1..Len(requests) /\ DOMAIN replies = 1..Len(replies)
  BY DEF Orderly, Typed, IsSeq
<1>2. IsFiniteSet(Range(requests)) /\ IsFiniteSet(Range(replies))
  <2>1. IsFiniteSet(1..Len(requests)) /\ IsFiniteSet(1..Len(replies))
    BY <1>1, FS_Interval
  <2> QED BY <1>1, <2>1, ImageFits DEF Range
<1>3. IsFiniteSet({m.call : m \in messages})
  <2> DEFINE f == [m \in messages |-> m.call]
  <2>1. IsFiniteSet(messages)
    BY <1>2, FS_Subset
  <2>2. IsFiniteSet({f[m] : m \in messages})
    <3> HIDE DEF f, messages
    <3> QED BY <2>1, ImageFits
  <2>3. {f[m] : m \in messages} = {m.call : m \in messages}
    OBVIOUS
  <2> QED BY <2>2, <2>3
<1>4. IsFiniteSet(U)
  <2>1. IsFiniteSet(pending \cup Range(requests))
    BY <1>1, <1>2, FS_Union
  <2>2. IsFiniteSet((pending \cup Range(requests)) \cup {m.call : m \in messages})
    <3> HIDE DEF messages
    <3> QED BY <1>3, <2>1, FS_Union
  <2> QED BY <2>2 DEF UnderWay
<1>5. IsFiniteSet(Used) /\ Cardinality(Used) <= N /\ N \in Nat
  <2> DEFINE f == [c \in U |-> c.rid]
  <2>1. IsFiniteSet({f[c] : c \in U}) /\ Cardinality({f[c] : c \in U}) <= Cardinality(U)
    <3> HIDE DEF f, U
    <3> QED BY <1>4, ImageFits
  <2>2. {f[c] : c \in U} = {c.rid : c \in U}
    OBVIOUS
  <2>3. Cardinality(U) \in Nat
    <3> HIDE DEF U
    <3> QED BY <1>4, FS_CardinalityType
  <2> QED BY <2>1, <2>2, <2>3
<1>6. Free # {}
  <2> SUFFICES ASSUME Free = {}
               PROVE  FALSE
    OBVIOUS
  <2> HIDE DEF Used, N
  <2>1. 1..N + 1 \subseteq Used
    OBVIOUS
  <2>2. Cardinality(1..N + 1) = N + 1
    BY <1>5, FS_Interval
  <2>3. Cardinality(1..N + 1) <= Cardinality(Used)
    BY <1>5, <2>1, FS_Subset
  <2>4. Cardinality(Used) \in Nat
    BY <1>5, FS_CardinalityType
  <2> QED BY <1>5, <2>2, <2>3, <2>4
<1>7. Min(Free) \in Free
  <2>1. Free \subseteq Nat
    BY <1>5
  <2> HIDE DEF Free
  <2> QED BY <1>6, <2>1, FirstOf
<1>8. Fresh = Min(Free)
  BY DEF Fresh
<1>9. Rids(pending, requests, replies) \subseteq Used
  <2> SUFFICES ASSUME NEW r \in Rids(pending, requests, replies)
               PROVE  \E c \in U : c.rid = r
    OBVIOUS
  <2>1. CASE \E p \in pending : r = p.rid
    BY <2>1 DEF UnderWay
  <2>2. CASE \E k \in 1..Len(requests) : r = requests[k].rid
    <3>1. PICK k \in 1..Len(requests) : r = requests[k].rid
      BY <2>2
    <3>2. requests[k] \in Range(requests)
      BY <1>1 DEF Range
    <3> QED BY <3>1, <3>2 DEF UnderWay
  <2>3. CASE \E k \in 1..Len(replies) : replies[k].is # "event" /\ r = replies[k].call.rid
    <3>1. PICK k \in 1..Len(replies) : replies[k].is # "event" /\ r = replies[k].call.rid
      BY <2>3
    <3>2. replies[k] \in messages
      BY <1>1, <3>1 DEF Range
    <3>3. replies[k].call \in U
      BY <3>2 DEF UnderWay
    <3> QED BY <3>1, <3>3
  <2> QED BY <2>1, <2>2, <2>3 DEF Rids
<1> HIDE DEF Used, Free
<1>10. Min(Free) \notin Used
  BY <1>7 DEF Free
<1> QED BY <1>8, <1>9, <1>10

(* What a request does. *)
NewCall(c, S, op, by) ==
  /\ IsCall(c) /\ c.op = op /\ c.by = by
  /\ pending' = Unsettled(S) \cup {c} /\ requests' = Append(requests, c)
  /\ Orderly(pending', requests', replies)

LEMMA SendsGives ==
  ASSUME Orderly(pending, requests, replies), NEW S, NEW op \in Op, NEW id, NEW by \in By, Sends(S, op, id, by)
  PROVE  \E c : NewCall(c, S, op, by)
<1>1. PICK c : c = [rid |-> Fresh, op |-> op, id |-> id, by |-> by]
  OBVIOUS
<1>2. IsCall(c) /\ c.op = op /\ c.by = by /\ c.rid = Fresh
  BY <1>1 DEF IsCall
<1>3. pending' = Unsettled(S) \cup {c} /\ requests' = Append(requests, c)
  BY <1>1 DEF Sends
<1>4. c.rid \notin Rids(pending, requests, replies)
  BY <1>2, FreshIsNew
<1>5. Orderly(pending \cup {c}, Append(requests, c), replies)
  BY <1>2, <1>4, OrderlySend
<1>6. Unsettled(S) \cup {c} \subseteq pending \cup {c}
  BY DEF Unsettled
<1>7. Orderly(pending', requests', replies)
  BY <1>3, <1>5, <1>6, OrderlyFewer
<1>8. NewCall(c, S, op, by)
  BY <1>2, <1>3, <1>7 DEF NewCall
<1> QED BY <1>8

-----------------------------------------------------------------------------
(* The invariant behind ShowsPtyd, and what a step of the command takes     *)
(* from the connection and sends on it.                                     *)

IsList(m)    == m.is # "event" /\ m.call.op = "list"
Exited(m, i) == m = Event("exited", i)

TableFits == table \in [Session -> {"unborn", "alive", "exited", "gone"}] /\ command \in Command

LinkFits ==
  /\ link # "up" => pending = {} /\ requests = <<>> /\ replies = <<>>
  /\ stage \in {"looking", "acting", "subscribing", "attached", "leaving", "returning"} => link = "up"
  /\ stage \in {"start", "over"} => link # "up"

(* What main awaits. *)
Awaits == CASE stage = "looking" -> IF command = "new" THEN {"create"} ELSE {"list"}
            [] stage = "acting" -> {command}
            [] stage = "subscribing" -> {"subscribe"}
            [] stage = "leaving" -> {"unsubscribe"}
            [] stage = "returning" -> {"list"}
            [] OTHER -> {}

MainInv ==
  /\ \A p, q \in pending : p.by = "main" /\ q.by = "main" => p = q
  /\ \A p \in pending : p.by = "main" => p.op \in Awaits
  /\ stage \in {"picking", "returning"} => command = "pick"
  /\ stage \in {"start", "looking"} => \A p \in pending : p.by = "main"

(* Who asked for the list still waits for it. *)
ListsAwaited ==
  ~gaveUp =>
    /\ \A j \in 1..Len(requests) : requests[j].op = "list" => \E p \in pending : p.rid = requests[j].rid
    /\ \A k \in 1..Len(replies) : IsList(replies[k]) =>
                                     replies[k].is = "answer" /\ \E p \in pending : p.rid = replies[k].call.rid

(* An exit is told behind every answer in which the session lives.          *)
ExitFollows ==
  \A k \in 1..Len(replies) : replies[k].is = "answer" =>
    /\ replies[k].call.op = "list" =>
         \A i \in DOMAIN replies[k].list : i \in Session /\ (replies[k].list[i] = "alive" /\ table[i] = "exited" =>
            \E j \in k + 1..Len(replies) : Exited(replies[j], i))
    /\ replies[k].call.op = "create" =>
         replies[k].call.id \in Session /\ (table[replies[k].call.id] = "exited" =>
            \E j \in k + 1..Len(replies) : Exited(replies[j], replies[k].call.id))

ExitNoticed ==
  command \in {"new", "attach"} /\ stage \in Listening =>
    target \in Session /\ (table[target] = "exited" /\ result = "none" =>
      \E j \in 1..Len(replies) : Exited(replies[j], target))

(* The picker's list is ptyd's, or it is on its way, or asked for, or an    *)
(* event will have the picker ask.                                          *)
Asked  == \E j \in 1..Len(requests) : requests[j].op = "list"
Stirs  == \E k \in 1..Len(replies) : replies[k].is = "event" /\ (stage = "looking" => \E i \in 1..k - 1 : IsList(replies[i]))
Comes  == \E k \in 1..Len(replies) : /\ IsList(replies[k]) /\ replies[k].list = Listed(table)
                                     /\ \A j \in k + 1..Len(replies) : ~IsList(replies[j])
Here   == stage # "looking" /\ list = Listed(table) /\ \A j \in 1..Len(replies) : ~IsList(replies[j])

ListComes ==
  command = "pick" /\ stage \in {"looking", "picking", "returning"} /\ link = "up" /\ ~gaveUp =>
    Asked \/ Stirs \/ Comes \/ Here

ShowInv ==
  /\ Orderly(pending, requests, replies)
  /\ TableFits /\ LinkFits /\ MainInv /\ ListsAwaited /\ ExitFollows /\ ExitNoticed /\ ListComes
  /\ InputInv

-----------------------------------------------------------------------------
(* What main, or the picker, takes from the connection when it goes on.     *)
HeadIs(p) == replies # <<>> /\ Head(replies).is # "event" /\ Head(replies).call.rid = p.rid

ReadsNothing == replies' = replies /\ gaveUp' = gaveUp
ReadsEvent   == replies # <<>> /\ Head(replies).is = "event" /\ replies' = Tail(replies) /\ gaveUp' = gaveUp
ReadsStray   == /\ replies # <<>> /\ Head(replies).is # "event" /\ ~\E p \in pending : p.rid = Head(replies).call.rid
                /\ replies' = Tail(replies) /\ gaveUp' = gaveUp
ReadsAnswer(p) == HeadIs(p) /\ replies' = Tail(replies) /\ gaveUp' = gaveUp
GivesUp(p)     == /\ replies' = replies
                  /\ (p.by = "picker" /\ gaveUp') \/ (p.by # "picker" /\ p.op # "list" /\ (gaveUp => gaveUp'))

Takes(S) ==
  \/ S = {} /\ (ReadsNothing \/ ReadsEvent \/ ReadsStray)
  \/ \E p \in pending : S = {p.rid} /\ (ReadsAnswer(p) \/ GivesUp(p))

Halts ==
  /\ pending' = {} /\ requests' = <<>> /\ replies' = <<>>
  /\ link' = "closed" /\ UNCHANGED <<tableVars, command>>
  /\ stage' = "over" \/ (stage = "picking" /\ stage' = "picking")

MainMoves(S) ==
  /\ \A p \in Unsettled(S) : p.by # "main"
  /\ \/ \E op \in Op : \E id : Sends(S, op, id, "main") /\ op \in Awaits' /\ link' = "up"
     \/ SendsNothing(S) /\ stage' \in {"picking", "attached"} /\ link' = "up" /\ link = "up"
     \/ S = {} /\ SendsNothing(S) /\ stage = "start" /\ stage' = "over" /\ link' = link
  /\ stage' \in {"picking", "returning"} => command = "pick"
  /\ stage' = "looking" => pending = {}
  /\ stage' # "start"

PickerMoves(S) ==
  /\ UNCHANGED <<stage, link>>
  /\ \/ \E op \in Op : \E id : Sends(S, op, id, "picker") /\ link = "up" /\ stage \notin {"start", "looking"}
     \/ SendsNothing(S)

Moves(S) == Takes(S) /\ (MainMoves(S) \/ PickerMoves(S)) /\ UNCHANGED <<tableVars, command>>

LEMMA UnsettledFacts ==
  ASSUME NEW S
  PROVE  Unsettled(S) \subseteq pending /\ Unsettled({}) = pending
BY DEF Unsettled

LEMMA NothingMoves ==
  ASSUME Orderly(pending, requests, replies), NEW S, SendsNothing(S)
  PROVE  Orderly(pending', requests', replies) /\ pending' = Unsettled(S) /\ requests' = requests
BY UnsettledFacts, OrderlyFewer DEF SendsNothing

LEMMA MovesOrderly ==
  ASSUME Orderly(pending, requests, replies), NEW S, Moves(S)
  PROVE  Orderly(pending', requests', replies')
<1>1. Orderly(pending', requests', replies)
  <2>1. (\E op \in Op, by \in By : \E id : Sends(S, op, id, by)) \/ SendsNothing(S)
    BY DEF Moves, MainMoves, PickerMoves, By
  <2>2. CASE \E op \in Op, by \in By : \E id : Sends(S, op, id, by)
    BY <2>2, SendsGives DEF NewCall
  <2>3. CASE SendsNothing(S)
    BY <2>3, NothingMoves
  <2> QED BY <2>1, <2>2, <2>3
<1>2. replies' = replies \/ (replies # <<>> /\ replies' = Tail(replies))
  BY DEF Moves, Takes, ReadsNothing, ReadsEvent, ReadsStray, ReadsAnswer, GivesUp, HeadIs
<1>3. CASE replies' = replies
  BY <1>1, <1>3
<1>4. CASE replies # <<>> /\ replies' = Tail(replies)
  BY <1>1, <1>4, OrderlyRead
<1> QED BY <1>2, <1>3, <1>4

(* How replies and requests go on, position for position. *)
LEMMA RepliesMove ==
  ASSUME Orderly(pending, requests, replies), NEW S, Takes(S)
  PROVE  /\ Len(replies) \in Nat
         /\ \E d \in 0..1 :
              /\ d = 0 => replies' = replies
              /\ d = 1 => replies # <<>> /\ replies' = Tail(replies) /\ Head(replies) = replies[1] /\ 1 \in 1..Len(replies)
              /\ Len(replies') = Len(replies) - d
              /\ \A k \in 1..Len(replies') : k + d \in 1..Len(replies) /\ replies'[k] = replies[k + d]
<1>1. Len(replies) \in Nat
  BY DEF Orderly, Typed, IsSeq
<1>2. replies' = replies \/ (replies # <<>> /\ replies' = Tail(replies))
  BY DEF Takes, ReadsNothing, ReadsEvent, ReadsStray, ReadsAnswer, GivesUp, HeadIs
<1>3. CASE replies' = replies
  <2>1. \E d \in 0..1 :
              /\ d = 0 => replies' = replies
              /\ d = 1 => replies # <<>> /\ replies' = Tail(replies) /\ Head(replies) = replies[1] /\ 1 \in 1..Len(replies)
              /\ Len(replies') = Len(replies) - d
              /\ \A k \in 1..Len(replies') : k + d \in 1..Len(replies) /\ replies'[k] = replies[k + d]
    <3> WITNESS 0 \in 0..1
    <3> QED BY <1>1, <1>3
  <2> QED BY <1>1, <2>1
<1>4. CASE replies # <<>> /\ replies' = Tail(replies)
  <2>1. PICK R : R = replies'
    OBVIOUS
  <2>2. /\ Len(replies) \in Nat \ {0} /\ Len(R) = Len(replies) - 1 /\ Head(replies) = replies[1]
        /\ \A k \in 1..Len(replies) - 1 : R[k] = replies[k + 1]
    BY <1>4, <2>1, OneLess DEF Orderly, Typed
  <2>3. \A k \in 1..Len(R) : k + 1 \in 1..Len(replies) /\ R[k] = replies[k + 1]
    BY <2>2
  <2>4. 1 \in 1..Len(replies)
    BY <2>2
  <2>5. \E d \in 0..1 :
              /\ d = 0 => R = replies
              /\ d = 1 => replies # <<>> /\ R = Tail(replies) /\ Head(replies) = replies[1] /\ 1 \in 1..Len(replies)
              /\ Len(R) = Len(replies) - d
              /\ \A k \in 1..Len(R) : k + d \in 1..Len(replies) /\ R[k] = replies[k + d]
    <3> WITNESS 1 \in 0..1
    <3> QED BY <1>4, <2>1, <2>2, <2>3, <2>4
  <2> QED BY <1>1, <2>1, <2>5
<1> QED BY <1>1, <1>2, <1>3, <1>4

LEMMA RequestsMove ==
  ASSUME Orderly(pending, requests, replies), NEW S, Moves(S)
  PROVE  /\ Len(requests) \in Nat
         /\ \/ requests' = requests /\ pending' = Unsettled(S)
            \/ \E c : /\ IsCall(c) /\ pending' = Unsettled(S) \cup {c} /\ Len(requests') = Len(requests) + 1
                      /\ \A k \in 1..Len(requests) : requests'[k] = requests[k]
                      /\ requests'[Len(requests) + 1] = c
<1>1. Len(requests) \in Nat
  BY DEF Orderly, Typed, IsSeq
<1>2. (\E op \in Op, by \in By : \E id : Sends(S, op, id, by)) \/ SendsNothing(S)
  BY DEF Moves, MainMoves, PickerMoves, By
<1>3. CASE \E op \in Op, by \in By : \E id : Sends(S, op, id, by)
  <2>1. PICK c : IsCall(c) /\ pending' = Unsettled(S) \cup {c} /\ requests' = Append(requests, c)
    BY <1>3, SendsGives DEF NewCall
  <2>2. PICK Q : Q = requests'
    OBVIOUS
  <2>3. Len(Q) = Len(requests) + 1 /\ (\A k \in 1..Len(requests) : Q[k] = requests[k]) /\ Q[Len(requests) + 1] = c
    BY <2>1, <2>2, OneMore DEF Orderly, Typed
  <2> QED BY <1>1, <2>1, <2>2, <2>3
<1>4. CASE SendsNothing(S)
  BY <1>1, <1>4, NothingMoves
<1> QED BY <1>2, <1>3, <1>4

LEMMA MovesMain ==
  ASSUME ShowInv, NEW S, Moves(S)
  PROVE  MainInv'
<1>1. Orderly(pending, requests, replies) /\ MainInv /\ UNCHANGED command
  BY DEF ShowInv, Moves
<1>2. CASE MainMoves(S)
  <2>1. PICK A : A = Awaits'
    OBVIOUS
  <2>2. CASE \E op \in Op : \E id : Sends(S, op, id, "main") /\ op \in Awaits'
    <3>1. PICK c : IsCall(c) /\ c.op \in A /\ c.by = "main" /\ pending' = Unsettled(S) \cup {c}
      <4>1. PICK op \in Op : (\E id : Sends(S, op, id, "main")) /\ op \in A
        BY <2>1, <2>2
      <4>2. PICK c : NewCall(c, S, op, "main")
        BY <1>1, <4>1, SendsGives DEF By
      <4> QED BY <4>1, <4>2 DEF NewCall
    <3>2. \A p \in pending' : p.by = "main" => p = c
      BY <1>2, <3>1 DEF MainMoves
    <3>3. stage' = "looking" => pending' = {c}
      BY <1>2, <3>1, UnsettledFacts DEF MainMoves
    <3>4. stage' \in {"picking", "returning"} => command' = "pick"
      BY <1>1, <1>2 DEF MainMoves
    <3>5. stage' # "start"
      BY <1>2 DEF MainMoves
    <3> QED BY <2>1, <3>1, <3>2, <3>3, <3>4, <3>5 DEF MainInv
  <2>3. CASE SendsNothing(S) /\ stage' # "looking"
    <3>1. \A p \in pending' : p.by # "main"
      BY <1>1, <1>2, <2>3, NothingMoves DEF MainMoves
    <3> QED BY <1>1, <1>2, <2>3, <3>1 DEF MainInv, MainMoves
  <2> QED BY <1>2, <2>2, <2>3 DEF MainMoves
<1>3. CASE PickerMoves(S)
  <2>1. Awaits' = Awaits
    BY <1>1, <1>3 DEF Awaits, PickerMoves
  <2>2. CASE \E op \in Op : \E id : Sends(S, op, id, "picker") /\ stage \notin {"start", "looking"}
    <3>1. PICK c : IsCall(c) /\ c.by = "picker" /\ pending' = Unsettled(S) \cup {c}
      BY <1>1, <2>2, SendsGives DEF NewCall, By
    <3>2. \A p \in pending' : p.by = "main" => p \in pending
      BY <3>1, UnsettledFacts
    <3> QED BY <1>1, <1>3, <2>1, <2>2, <3>2 DEF MainInv, PickerMoves
  <2>3. CASE SendsNothing(S)
    <3>1. \A p \in pending' : p \in pending
      BY <1>1, <2>3, NothingMoves, UnsettledFacts
    <3> QED BY <1>1, <1>3, <2>1, <3>1 DEF MainInv, PickerMoves
  <2> QED BY <1>3, <2>2, <2>3 DEF PickerMoves
<1> QED BY <1>2, <1>3 DEF Moves

LEMMA MovesLink ==
  ASSUME ShowInv, NEW S, Moves(S)
  PROVE  LinkFits'
<1>1. Orderly(pending, requests, replies) /\ LinkFits /\ MainInv
  BY DEF ShowInv
<1>2. link # "up" => S = {} /\ replies' = <<>>
  BY <1>1 DEF Moves, Takes, LinkFits, ReadsNothing, ReadsEvent, ReadsStray
<1>3. SendsNothing(S) /\ link # "up" => pending' = {} /\ requests' = <<>>
  BY <1>1 DEF SendsNothing, Unsettled, LinkFits
<1>4. CASE MainMoves(S)
  BY <1>1, <1>2, <1>3, <1>4 DEF MainMoves, LinkFits, Awaits
<1>5. CASE PickerMoves(S)
  BY <1>1, <1>2, <1>3, <1>5 DEF PickerMoves, LinkFits
<1> QED BY <1>4, <1>5 DEF Moves

LEMMA MovesAwaited ==
  ASSUME ShowInv, NEW S, Moves(S)
  PROVE  ListsAwaited'
<1> SUFFICES ASSUME ~gaveUp'
             PROVE  /\ \A j \in 1..Len(requests') : requests'[j].op = "list" => \E p \in pending' : p.rid = requests'[j].rid
                    /\ \A k \in 1..Len(replies') : IsList(replies'[k]) =>
                          replies'[k].is = "answer" /\ \E p \in pending' : p.rid = replies'[k].call.rid
  BY DEF ListsAwaited, IsList
<1>1. Orderly(pending, requests, replies) /\ ListsAwaited /\ Takes(S)
  BY DEF ShowInv, Moves
<1>2. PICK d \in 0..1 :
              /\ d = 0 => replies' = replies
              /\ d = 1 => replies # <<>> /\ replies' = Tail(replies) /\ Head(replies) = replies[1] /\ 1 \in 1..Len(replies)
              /\ Len(replies') = Len(replies) - d
              /\ \A k \in 1..Len(replies') : k + d \in 1..Len(replies) /\ replies'[k] = replies[k + d]
  BY <1>1, RepliesMove
<1>3. PICK R, Q, P : R = replies' /\ Q = requests' /\ P = pending'
  OBVIOUS
<1>4. ~gaveUp
  BY <1>1 DEF Takes, ReadsNothing, ReadsEvent, ReadsStray, ReadsAnswer, GivesUp
(* A list that is still to come is of a call that has not settled. *)
<1>5. ASSUME NEW p \in pending, p.rid \in S, p.op = "list"
      PROVE  d = 1 /\ Head(replies).is # "event" /\ Head(replies).call.rid = p.rid
  <2>1. PICK q \in pending : S = {q.rid} /\ (ReadsAnswer(q) \/ GivesUp(q))
    BY <1>1, <1>5 DEF Takes
  <2>2. q = p
    BY <1>1, <1>5, <2>1 DEF Orderly, Once
  <2>3. ReadsAnswer(p)
    BY <1>5, <2>1, <2>2 DEF GivesUp
  <2>4. replies' # replies
    <3>1. Len(Tail(replies)) = Len(replies) - 1 /\ Len(replies) \in Nat
      BY <1>1, <2>3, OneLess DEF ReadsAnswer, HeadIs, Orderly, Typed
    <3> QED BY <2>3, <3>1 DEF ReadsAnswer
  <2> QED BY <1>2, <2>3, <2>4 DEF ReadsAnswer, HeadIs
<1>6. ASSUME NEW p \in pending, p \notin P
      PROVE  p.rid \in S
  <2>1. Unsettled(S) \subseteq P
    BY <1>1, <1>3, RequestsMove
  <2> QED BY <1>6, <2>1 DEF Unsettled
<1>7. ASSUME NEW j \in 1..Len(Q), Q[j].op = "list"
      PROVE  \E p \in P : p.rid = Q[j].rid
  <2>1. CASE j \in 1..Len(requests) /\ Q[j] = requests[j]
    <3>1. PICK p \in pending : p.rid = requests[j].rid
      BY <1>1, <1>4, <1>7, <2>1 DEF ListsAwaited
    <3>2. p.op = "list"
      BY <1>1, <1>7, <2>1, <3>1 DEF Orderly, Matches, Same
    <3>3. p.rid \notin S
      BY <1>1, <1>2, <1>5, <2>1, <3>1, <3>2 DEF Orderly, Once
    <3> QED BY <1>6, <2>1, <3>1, <3>3
  <2>2. CASE Q[j] \in P
    BY <2>2
  <2>3. (j \in 1..Len(requests) /\ Q[j] = requests[j]) \/ Q[j] \in P
    <3>1. Len(requests) \in Nat /\ (Q = requests \/
            \E c : /\ c \in P /\ Len(Q) = Len(requests) + 1
                   /\ \A k \in 1..Len(requests) : Q[k] = requests[k]
                   /\ Q[Len(requests) + 1] = c)
      BY <1>1, <1>3, RequestsMove
    <3> QED BY <1>7, <3>1
  <2> QED BY <2>1, <2>2, <2>3
<1>8. ASSUME NEW k \in 1..Len(R), IsList(R[k])
      PROVE  R[k].is = "answer" /\ \E p \in P : p.rid = R[k].call.rid
  <2>1. PICK i \in 1..Len(replies) : i = k + d /\ R[k] = replies[i]
    BY <1>2, <1>3, <1>8
  <2>2. R[k].is = "answer" /\ \E p \in pending : p.rid = R[k].call.rid
    BY <1>1, <1>4, <1>8, <2>1 DEF ListsAwaited
  <2>3. PICK p \in pending : p.rid = R[k].call.rid
    BY <2>2
  <2>4. p.op = "list"
    BY <1>1, <1>8, <2>1, <2>3 DEF Orderly, Matches, Same, IsList
  <2>5. p.rid \notin S
    <3> SUFFICES ASSUME p.rid \in S
                 PROVE  FALSE
      OBVIOUS
    <3>1. d = 1 /\ Head(replies).is # "event" /\ Head(replies).call.rid = p.rid
      BY <1>5, <2>4
    <3>2. i # 1 /\ 1 \in 1..Len(replies) /\ Head(replies) = replies[1]
      BY <1>2, <1>3, <1>8, <2>1, <3>1
    <3> QED BY <1>1, <1>8, <2>1, <2>3, <3>1, <3>2 DEF Orderly, Once, IsList
  <2> QED BY <1>6, <2>2, <2>3, <2>5
<1> QED BY <1>3, <1>7, <1>8

(* What follows in replies still does when one has been read. *)
LEMMA ExitFollowsRead ==
  ASSUME ShowInv, NEW S, Takes(S), UNCHANGED tableVars
  PROVE  ExitFollows'
<1>1. PICK d \in 0..1 :
              /\ Len(replies') = Len(replies) - d
              /\ \A k \in 1..Len(replies') : k + d \in 1..Len(replies) /\ replies'[k] = replies[k + d]
  BY RepliesMove DEF ShowInv
<1>2. Len(replies) \in Nat /\ table' = table
  BY RepliesMove DEF ShowInv, tableVars
<1>3. PICK R : R = replies'
  OBVIOUS
<1>4. ASSUME NEW k \in 1..Len(R), NEW i, \E j \in k + d + 1..Len(replies) : Exited(replies[j], i)
      PROVE  \E j \in k + 1..Len(R) : Exited(R[j], i)
  <2>1. PICK j \in k + d + 1..Len(replies) : Exited(replies[j], i)
    BY <1>4
  <2>2. j - d \in k + 1..Len(R) /\ j - d \in 1..Len(R) /\ (j - d) + d = j
    BY <1>1, <1>2, <1>3
  <2>3. R[j - d] = replies[j]
    BY <1>1, <1>3, <2>2
  <2> QED BY <2>1, <2>2, <2>3
<1>5. ASSUME NEW k \in 1..Len(R), R[k].is = "answer"
      PROVE  /\ R[k].call.op = "list" =>
                  \A i \in DOMAIN R[k].list : i \in Session /\ (R[k].list[i] = "alive" /\ table[i] = "exited" =>
                      \E j \in k + 1..Len(R) : Exited(R[j], i))
             /\ R[k].call.op = "create" =>
                  R[k].call.id \in Session /\ (table[R[k].call.id] = "exited" =>
                  \E j \in k + 1..Len(R) : Exited(R[j], R[k].call.id))
  <2>1. PICK m \in 1..Len(replies) : m = k + d /\ R[k] = replies[m]
    BY <1>1, <1>3
  <2>2. /\ R[k].call.op = "list" =>
                  \A i \in DOMAIN R[k].list : i \in Session /\ (R[k].list[i] = "alive" /\ table[i] = "exited" =>
                      \E j \in m + 1..Len(replies) : Exited(replies[j], i))
        /\ R[k].call.op = "create" =>
                  R[k].call.id \in Session /\ (table[R[k].call.id] = "exited" =>
                  \E j \in m + 1..Len(replies) : Exited(replies[j], R[k].call.id))
    BY <1>5, <2>1 DEF ShowInv, ExitFollows
  <2>3. m + 1 = k + d + 1
    BY <2>1
  <2> QED BY <1>4, <2>2, <2>3
<1> QED BY <1>2, <1>3, <1>5 DEF ExitFollows, Exited, Event

(* What a step of the command leaves to be noticed of an exit, and of the   *)
(* list.                                                                    *)
(* No exit of the target is read. *)
Quiet == replies' = replies \/ ~Exited(Head(replies), target)

Notices ==
  \/ stage' \notin Listening \/ command \notin {"new", "attach"}
  \/ stage \in Listening /\ target' = target /\ (result' # "none" \/ (result' = result /\ Quiet))
  \/ /\ replies # <<>> /\ Head(replies).is = "answer" /\ replies' = Tail(replies)
     /\ \/ Head(replies).call.op = "create" /\ target' = Head(replies).call.id
        \/ /\ Head(replies).call.op = "list" /\ target' \in DOMAIN Head(replies).list
           /\ Head(replies).list[target'] = "alive"

Lists ==
  \/ stage' \notin {"looking", "picking", "returning"} \/ command # "pick" \/ gaveUp' \/ Asked'
  \/ /\ stage \in {"looking", "picking", "returning"} /\ stage' # "looking"
     /\ replies # <<>> /\ IsList(Head(replies)) /\ replies' = Tail(replies) /\ list' = Head(replies).list
  \/ /\ UNCHANGED <<stage, list>>
     /\ \/ replies' = replies
        \/ ~IsList(Head(replies)) /\ (stage = "looking" \/ Head(replies).is # "event")

LEMMA MovesNotice ==
  ASSUME ShowInv, NEW S, Moves(S), Notices
  PROVE  ExitNoticed'
<1> SUFFICES ASSUME command' \in {"new", "attach"}, stage' \in Listening
             PROVE  target' \in Session /\ (table'[target'] = "exited" /\ result' = "none" =>
                      \E j \in 1..Len(replies') : Exited(replies'[j], target'))
  BY DEF ExitNoticed, Listening, Exited, Event
<1>1. Takes(S) /\ command' = command /\ table' = table
  BY DEF Moves, tableVars
<1>2. PICK d \in 0..1 :
              /\ d = 0 => replies' = replies
              /\ d = 1 => replies # <<>> /\ replies' = Tail(replies) /\ Head(replies) = replies[1] /\ 1 \in 1..Len(replies)
              /\ Len(replies') = Len(replies) - d
              /\ \A k \in 1..Len(replies') : k + d \in 1..Len(replies) /\ replies'[k] = replies[k + d]
  BY <1>1, RepliesMove DEF ShowInv
<1>3. PICK R, t : R = replies' /\ t = target'
  OBVIOUS
<1>4. Len(replies) \in Nat
  BY <1>1, RepliesMove DEF ShowInv
<1>5. ASSUME NEW j \in 1..Len(replies), Exited(replies[j], t), j # d
      PROVE  \E k \in 1..Len(R) : Exited(R[k], t)
  <2>1. j - d \in 1..Len(R) /\ (j - d) + d = j
    BY <1>2, <1>3, <1>4, <1>5
  <2>2. R[j - d] = replies[j]
    BY <1>2, <1>3, <2>1
  <2> QED BY <1>5, <2>1, <2>2
<1>6. CASE stage \in Listening /\ target' = target /\ (result' # "none" \/ (result' = result /\ Quiet))
  <2>0. SUFFICES ASSUME table'[target'] = "exited", result' = "none"
                 PROVE  \E j \in 1..Len(replies') : Exited(replies'[j], target')
    BY <1>1, <1>6 DEF ShowInv, ExitNoticed
  <2>1. PICK j \in 1..Len(replies) : Exited(replies[j], t)
    BY <1>1, <1>3, <1>6, <2>0 DEF ShowInv, ExitNoticed
  <2>2. j # d
    <3>1. CASE d = 0
      BY <3>1
    <3>2. CASE d = 1 /\ replies' = replies
      BY <1>2, <1>4, <3>2
    <3>3. CASE d = 1 /\ replies' # replies
      BY <1>2, <1>3, <1>6, <2>0, <2>1, <3>3 DEF Quiet
    <3> QED BY <3>1, <3>2, <3>3
  <2> QED BY <1>3, <1>5, <2>1, <2>2
<1>7. CASE /\ replies # <<>> /\ Head(replies).is = "answer" /\ replies' = Tail(replies)
           /\ \/ Head(replies).call.op = "create" /\ target' = Head(replies).call.id
              \/ /\ Head(replies).call.op = "list" /\ target' \in DOMAIN Head(replies).list
                 /\ Head(replies).list[target'] = "alive"
  <2>1. Len(Tail(replies)) = Len(replies) - 1 /\ Head(replies) = replies[1] /\ 1 \in 1..Len(replies)
    BY <1>4, <1>7, OneLess DEF ShowInv, Orderly, Typed
  <2>2. d = 1
    <3>1. PICK T : T = Tail(replies)
      OBVIOUS
    <3>2. Len(T) = Len(replies) - 1 /\ replies' = T /\ (d = 0 => replies' = replies)
      BY <1>2, <1>7, <2>1, <3>1
    <3>3. T # replies
      BY <1>4, <3>2
    <3> QED BY <3>2, <3>3
  <2>0. t \in Session /\ (table[t] = "exited" => \E j \in 2..Len(replies) : Exited(replies[j], t))
    BY <1>3, <1>7, <2>1 DEF ShowInv, ExitFollows
  <2> SUFFICES ASSUME table[t] = "exited"
               PROVE  \E k \in 1..Len(R) : Exited(R[k], t)
    BY <1>1, <1>3, <2>0
  <2>3. PICK j \in 2..Len(replies) : Exited(replies[j], t)
    BY <2>0
  <2>4. j \in 1..Len(replies) /\ j # d
    BY <2>2, <2>3
  <2> QED BY <1>3, <1>5, <2>3, <2>4
<1> QED BY <1>1, <1>6, <1>7 DEF Notices

LEMMA MovesList ==
  ASSUME ShowInv, NEW S, Moves(S), Lists
  PROVE  ListComes'
<1> SUFFICES ASSUME command' = "pick", stage' \in {"looking", "picking", "returning"}, link' = "up", ~gaveUp', ~Asked'
             PROVE  Stirs' \/ Comes' \/ Here'
  BY DEF ListComes
<1>1. Takes(S) /\ command' = command /\ table' = table /\ ~gaveUp
  <2>1. gaveUp => gaveUp'
    BY DEF Moves, Takes, ReadsNothing, ReadsEvent, ReadsStray, ReadsAnswer, GivesUp
  <2> QED BY <2>1 DEF Moves, tableVars
<1>2. PICK d \in 0..1 :
              /\ d = 0 => replies' = replies
              /\ d = 1 => replies # <<>> /\ replies' = Tail(replies) /\ Head(replies) = replies[1] /\ 1 \in 1..Len(replies)
              /\ Len(replies') = Len(replies) - d
              /\ \A k \in 1..Len(replies') : k + d \in 1..Len(replies) /\ replies'[k] = replies[k + d]
  BY <1>1, RepliesMove DEF ShowInv
<1>3. PICK R : R = replies'
  OBVIOUS
<1>4. Len(replies) \in Nat
  BY <1>1, RepliesMove DEF ShowInv
<1>5. ~Asked
  <2> SUFFICES ASSUME NEW j \in 1..Len(requests), requests[j].op = "list"
               PROVE  \E k \in 1..Len(requests') : requests'[k].op = "list"
    BY DEF Asked
  <2>1. PICK Q : Q = requests'
    OBVIOUS
  <2>2. j \in 1..Len(Q) /\ Q[j] = requests[j]
    <3>1. Len(requests) \in Nat /\ (Q = requests \/
            (Len(Q) = Len(requests) + 1 /\ \A k \in 1..Len(requests) : Q[k] = requests[k]))
      BY <2>1, RequestsMove DEF ShowInv
    <3> QED BY <3>1
  <2> QED BY <2>1, <2>2
<1>6. ASSUME NEW j \in 1..Len(replies), j > d
      PROVE  j - d \in 1..Len(R) /\ (j - d) + d = j /\ R[j - d] = replies[j]
  <2>1. j - d \in 1..Len(R) /\ (j - d) + d = j
    BY <1>2, <1>3, <1>4, <1>6
  <2> QED BY <1>2, <1>3, <2>1
<1>7. ASSUME NEW k \in 1..Len(R)
      PROVE  k + d \in 1..Len(replies) /\ R[k] = replies[k + d]
  BY <1>2, <1>3
(* The list that has come is shown. *)
<1>8. CASE /\ stage \in {"looking", "picking", "returning"} /\ stage' # "looking"
           /\ replies # <<>> /\ IsList(Head(replies)) /\ replies' = Tail(replies) /\ list' = Head(replies).list
  <2>1. link = "up"
    BY <1>8 DEF ShowInv, LinkFits
  <2>2. Len(Tail(replies)) = Len(replies) - 1 /\ Head(replies) = replies[1] /\ 1 \in 1..Len(replies)
    BY <1>4, <1>8, OneLess DEF ShowInv, Orderly, Typed
  <2>3. d = 1
    <3>1. PICK T : T = Tail(replies)
      OBVIOUS
    <3>2. Len(T) = Len(replies) - 1 /\ replies' = T /\ (d = 0 => replies' = replies)
      BY <1>2, <1>8, <2>2, <3>1
    <3>3. T # replies
      BY <1>4, <3>2
    <3> QED BY <3>2, <3>3
  <2>4. Stirs \/ Comes \/ Here
    BY <1>1, <1>5, <1>8, <2>1 DEF ShowInv, ListComes
  <2>5. CASE Stirs
    <3>1. PICK k \in 1..Len(replies) : replies[k].is = "event"
      BY <2>5 DEF Stirs
    <3>2. k > d
      BY <1>8, <2>2, <2>3, <3>1 DEF IsList
    <3>3. \E i \in 1..Len(R) : R[i].is = "event"
      BY <1>6, <3>1, <3>2
    <3> QED BY <1>3, <1>8, <3>3 DEF Stirs
  <2>6. CASE Comes
    <3>1. PICK k \in 1..Len(replies) : /\ IsList(replies[k]) /\ replies[k].list = Listed(table)
                                       /\ \A j \in k + 1..Len(replies) : ~IsList(replies[j])
      BY <2>6 DEF Comes
    <3>2. CASE k = 1
      <4>1. \A j \in 1..Len(R) : j + 1 \in k + 1..Len(replies)
        BY <1>7, <2>3, <3>2
      <4>2. \A j \in 1..Len(R) : ~IsList(R[j])
        BY <1>7, <2>3, <3>1, <4>1
      <4>3. list' = Listed(table')
        BY <1>1, <1>8, <2>2, <3>1, <3>2
      <4> QED BY <1>3, <1>8, <4>2, <4>3 DEF Here, IsList
    <3>3. CASE k # 1
      <4>1. k > d
        BY <2>3, <3>3
      <4>2. PICK i \in 1..Len(R) : i = k - d /\ R[i] = replies[k]
        BY <1>6, <4>1
      <4>3. \A j \in i + 1..Len(R) : j \in 1..Len(R) /\ j + d \in k + 1..Len(replies)
        BY <1>7, <2>3, <4>2
      <4>4. \A j \in i + 1..Len(R) : ~IsList(R[j])
        BY <1>7, <3>1, <4>3
      <4>5. \E n \in 1..Len(R) : /\ IsList(R[n]) /\ R[n].list = Listed(table')
                                 /\ \A j \in n + 1..Len(R) : ~IsList(R[j])
        BY <1>1, <3>1, <4>2, <4>4
      <4> QED BY <1>3, <4>5 DEF Comes, IsList
    <3> QED BY <3>2, <3>3
  <2>7. CASE Here
    BY <1>8, <2>2, <2>7 DEF Here
  <2> QED BY <2>4, <2>5, <2>6, <2>7
(* What was read is no list. *)
<1>9. CASE /\ UNCHANGED <<stage, list>>
           /\ \/ replies' = replies
              \/ ~IsList(Head(replies)) /\ (stage = "looking" \/ Head(replies).is # "event")
  <2>1. link = "up"
    <3>1. stage \in {"looking", "returning"} => link = "up"
      BY DEF ShowInv, LinkFits
    <3>2. MainMoves(S) /\ stage' = "picking" => link = "up"
      <4>1. Awaits' = {} \/ stage' # "picking"
        BY DEF Awaits
      <4> QED BY <4>1 DEF MainMoves
    <3>3. PickerMoves(S) => link = link'
      BY DEF PickerMoves
    <3> QED BY <1>9, <3>1, <3>2, <3>3 DEF Moves
  <2>2. Stirs \/ Comes \/ Here
    BY <1>1, <1>5, <1>9, <2>1 DEF ShowInv, ListComes
  <2>3. d = 1 => ~IsList(replies[1]) /\ (stage = "looking" \/ replies[1].is # "event")
    <3>1. d = 1 => replies' # replies
      BY <1>2, <1>4
    <3> QED BY <1>2, <1>9, <3>1
  <2>4. CASE Stirs
    <3>1. PICK k \in 1..Len(replies) : replies[k].is = "event" /\ (stage = "looking" => \E i \in 1..k - 1 : IsList(replies[i]))
      BY <2>4 DEF Stirs
    <3>2. CASE stage # "looking"
      <4>1. k > d
        BY <2>3, <3>1, <3>2
      <4>2. \E i \in 1..Len(R) : R[i].is = "event"
        BY <1>6, <3>1, <4>1
      <4> QED BY <1>3, <1>9, <3>2, <4>2 DEF Stirs
    <3>3. CASE stage = "looking"
      <4>1. PICK i \in 1..k - 1 : IsList(replies[i])
        BY <3>1, <3>3
      <4>2. i \in 1..Len(replies) /\ i > d /\ k > d
        BY <2>3, <4>1
      <4>3. k - d \in 1..Len(R) /\ R[k - d] = replies[k] /\ i - d \in 1..Len(R) /\ R[i - d] = replies[i]
        BY <1>6, <4>2
      <4>4. i - d \in 1..(k - d) - 1
        BY <1>4, <4>1, <4>2
      <4>5. \E n \in 1..Len(R) : R[n].is = "event" /\ \E m \in 1..n - 1 : IsList(R[m])
        BY <3>1, <4>1, <4>3, <4>4
      <4> QED BY <1>3, <4>5 DEF Stirs, IsList
    <3> QED BY <3>2, <3>3
  <2>5. CASE Comes
    <3>1. PICK k \in 1..Len(replies) : /\ IsList(replies[k]) /\ replies[k].list = Listed(table)
                                       /\ \A j \in k + 1..Len(replies) : ~IsList(replies[j])
      BY <2>5 DEF Comes
    <3>2. k > d
      BY <2>3, <3>1
    <3>3. PICK i \in 1..Len(R) : i = k - d /\ R[i] = replies[k]
      BY <1>6, <3>2
    <3>4. \A j \in i + 1..Len(R) : j \in 1..Len(R) /\ j + d \in k + 1..Len(replies)
      BY <1>7, <3>3
    <3>5. \A j \in i + 1..Len(R) : ~IsList(R[j])
      BY <1>7, <3>1, <3>4
    <3>6. \E n \in 1..Len(R) : /\ IsList(R[n]) /\ R[n].list = Listed(table')
                               /\ \A j \in n + 1..Len(R) : ~IsList(R[j])
      BY <1>1, <3>1, <3>3, <3>5
    <3> QED BY <1>3, <3>6 DEF Comes, IsList
  <2>6. CASE Here
    <3>1. \A j \in 1..Len(R) : ~IsList(R[j])
      BY <1>7, <2>6 DEF Here
    <3> QED BY <1>1, <1>3, <1>9, <2>6, <3>1 DEF Here, IsList
  <2> QED BY <2>2, <2>4, <2>5, <2>6
<1> QED BY <1>1, <1>8, <1>9 DEF Lists

-----------------------------------------------------------------------------
(* What ptyd does to the invariant: other changes, and the requests.        *)

(* What ptyd tells comes behind what it has told. *)
Extends(n) ==
  /\ Len(replies) \in Nat /\ Len(replies') = Len(replies) + n
  /\ \A k \in 1..Len(replies) : replies'[k] = replies[k]

(* Exits are told, and no answer speaks of life behind one. *)
TellsExits ==
  /\ \A i \in Session : table'[i] = "exited" =>
              table[i] = "exited" \/ \E j \in Len(replies) + 1..Len(replies') : Exited(replies'[j], i)
  /\ \A k \in Len(replies) + 1..Len(replies') : replies'[k].is = "answer" =>
        /\ replies'[k].call.op = "list" =>
             \A i \in DOMAIN replies'[k].list : i \in Session /\ (replies'[k].list[i] = "alive" => table'[i] # "exited")
        /\ replies'[k].call.op = "create" => replies'[k].call.id \in Session /\ table'[replies'[k].call.id] # "exited"

LEMMA ToldExitFollows ==
  ASSUME ShowInv, NEW n \in 0..2, Extends(n), TellsExits
  PROVE  ExitFollows'
<1>1. PICK R, t : R = replies' /\ t = table'
  OBVIOUS
<1>2. /\ Len(replies) \in Nat /\ Len(R) = Len(replies) + n
      /\ \A k \in 1..Len(replies) : R[k] = replies[k]
  BY <1>1 DEF Extends
<1>3. \A i \in Session : t[i] = "exited" => table[i] = "exited" \/ \E j \in Len(replies) + 1..Len(R) : Exited(R[j], i)
  BY <1>1 DEF TellsExits
<1>4. \A k \in Len(replies) + 1..Len(R) : R[k].is = "answer" =>
        /\ R[k].call.op = "list" => \A i \in DOMAIN R[k].list : i \in Session /\ (R[k].list[i] = "alive" => t[i] # "exited")
        /\ R[k].call.op = "create" => R[k].call.id \in Session /\ t[R[k].call.id] # "exited"
  BY <1>1 DEF TellsExits
<1>5. ASSUME NEW k \in 1..Len(replies), NEW i \in Session, t[i] = "exited",
             table[i] = "exited" => \E j \in k + 1..Len(replies) : Exited(replies[j], i)
      PROVE  \E j \in k + 1..Len(R) : Exited(R[j], i)
  <2>1. CASE table[i] = "exited"
    <3>1. PICK j \in k + 1..Len(replies) : Exited(replies[j], i)
      BY <1>5, <2>1
    <3>2. j \in k + 1..Len(R) /\ R[j] = replies[j]
      BY <1>2, <3>1
    <3> QED BY <3>1, <3>2
  <2>2. CASE table[i] # "exited"
    <3>1. PICK j \in Len(replies) + 1..Len(R) : Exited(R[j], i)
      BY <1>3, <1>5, <2>2
    <3>2. j \in k + 1..Len(R)
      BY <1>2, <3>1
    <3> QED BY <3>1, <3>2
  <2> QED BY <2>1, <2>2
<1>6. ASSUME NEW k \in 1..Len(R), R[k].is = "answer"
      PROVE  /\ R[k].call.op = "list" =>
                  \A i \in DOMAIN R[k].list : i \in Session /\ (R[k].list[i] = "alive" /\ t[i] = "exited" =>
                      \E j \in k + 1..Len(R) : Exited(R[j], i))
             /\ R[k].call.op = "create" =>
                  R[k].call.id \in Session /\ (t[R[k].call.id] = "exited" =>
                  \E j \in k + 1..Len(R) : Exited(R[j], R[k].call.id))
  <2>1. CASE k \in 1..Len(replies)
    <3>1. R[k] = replies[k]
      BY <1>2, <2>1
    <3>2. ASSUME R[k].call.op = "list", NEW i \in DOMAIN R[k].list
          PROVE  i \in Session /\ (R[k].list[i] = "alive" /\ t[i] = "exited" => \E j \in k + 1..Len(R) : Exited(R[j], i))
      <4>1. i \in Session /\ (R[k].list[i] = "alive" /\ table[i] = "exited" => \E j \in k + 1..Len(replies) : Exited(replies[j], i))
        BY <1>6, <2>1, <3>1, <3>2 DEF ShowInv, ExitFollows
      <4> QED BY <1>5, <2>1, <3>2, <4>1
    <3>3. ASSUME R[k].call.op = "create"
          PROVE  R[k].call.id \in Session /\ (t[R[k].call.id] = "exited" => \E j \in k + 1..Len(R) : Exited(R[j], R[k].call.id))
      <4>1. R[k].call.id \in Session /\ (table[R[k].call.id] = "exited" => \E j \in k + 1..Len(replies) : Exited(replies[j], R[k].call.id))
        BY <1>6, <2>1, <3>1, <3>3 DEF ShowInv, ExitFollows
      <4> QED BY <1>5, <2>1, <3>3, <4>1
    <3> QED BY <3>2, <3>3
  <2>2. CASE k \in Len(replies) + 1..Len(R)
    BY <1>4, <1>6, <2>2
  <2> QED BY <1>2, <2>1, <2>2
<1> QED BY <1>1, <1>6 DEF ExitFollows, Exited, Event

LEMMA ToldExitNoticed ==
  ASSUME ShowInv, NEW n \in 0..2, Extends(n), TellsExits, UNCHANGED <<command, stage, target, result>>
  PROVE  ExitNoticed'
<1>0. ASSUME command \in {"new", "attach"}, stage \in Listening
      PROVE  target \in Session
  BY <1>0 DEF ShowInv, ExitNoticed
<1> SUFFICES ASSUME command \in {"new", "attach"}, stage \in Listening, target \in Session,
                    table'[target] = "exited", result = "none"
             PROVE  \E j \in 1..Len(replies') : Exited(replies'[j], target')
  BY <1>0 DEF ExitNoticed, Listening, Exited, Event
<1>1. PICK R, t : R = replies' /\ t = target'
  OBVIOUS
<1>2. /\ Len(replies) \in Nat /\ Len(R) = Len(replies) + n
      /\ \A k \in 1..Len(replies) : R[k] = replies[k]
  BY <1>1 DEF Extends
<1>3. CASE table[target] = "exited"
  <2>1. PICK j \in 1..Len(replies) : Exited(replies[j], t)
    BY <1>1, <1>3 DEF ShowInv, ExitNoticed
  <2>2. j \in 1..Len(R) /\ R[j] = replies[j]
    BY <1>2
  <2> QED BY <1>1, <2>1, <2>2
<1>4. CASE table[target] # "exited"
  <2>1. PICK j \in Len(replies) + 1..Len(R) : Exited(R[j], t)
    BY <1>1, <1>4 DEF TellsExits
  <2>2. j \in 1..Len(R)
    BY <1>2, <2>1
  <2> QED BY <1>1, <2>1, <2>2
<1> QED BY <1>3, <1>4

(* A change of the table is told, and a list is what the table is.          *)
TellsChanges ==
  \/ /\ \/ table' = table
        \/ \E j \in Len(replies) + 1..Len(replies') : replies'[j].is = "event"
     /\ \A j \in Len(replies) + 1..Len(replies') : ~IsList(replies'[j])
     /\ Asked => Asked'
  \/ /\ Len(replies') = Len(replies) + 1 /\ IsList(replies'[Len(replies')])
     /\ replies'[Len(replies')].list = Listed(table')

LEMMA ToldListComes ==
  ASSUME ShowInv, NEW n \in 0..2, Extends(n), TellsChanges, UNCHANGED <<command, stage, list, link, gaveUp>>
  PROVE  ListComes'
<1> SUFFICES ASSUME command = "pick", stage \in {"looking", "picking", "returning"}, link = "up", ~gaveUp, ~Asked'
             PROVE  Stirs' \/ Comes' \/ Here'
  BY DEF ListComes
<1>1. PICK R : R = replies'
  OBVIOUS
<1>2. /\ Len(replies) \in Nat /\ Len(R) = Len(replies) + n
      /\ \A k \in 1..Len(replies) : k \in 1..Len(R) /\ R[k] = replies[k]
  BY <1>1 DEF Extends
<1>3. CASE /\ Len(R) = Len(replies) + 1 /\ IsList(R[Len(R)])
           /\ R[Len(R)].list = Listed(table')
  <2>1. Len(R) \in 1..Len(R) /\ \A j \in Len(R) + 1..Len(R) : FALSE
    BY <1>2, <1>3
  <2>2. \E k \in 1..Len(R) : IsList(R[k]) /\ R[k].list = Listed(table') /\ \A j \in k + 1..Len(R) : ~IsList(R[j])
    BY <1>3, <2>1
  <2> QED BY <1>1, <2>2 DEF Comes, IsList
<1>4. CASE /\ \/ table' = table
              \/ \E j \in Len(replies) + 1..Len(R) : R[j].is = "event"
           /\ \A j \in Len(replies) + 1..Len(R) : ~IsList(R[j])
           /\ Asked => Asked'
  <2>1. Stirs \/ Comes \/ Here
    BY <1>4 DEF ShowInv, ListComes
  <2>2. CASE Stirs
    <3>1. PICK k \in 1..Len(replies) : replies[k].is = "event" /\ (stage = "looking" => \E i \in 1..k - 1 : IsList(replies[i]))
      BY <2>2 DEF Stirs
    <3>2. \A i \in 1..k - 1 : i \in 1..Len(replies)
      BY <1>2
    <3>3. R[k].is = "event" /\ (stage = "looking" => \E i \in 1..k - 1 : IsList(R[i]))
      BY <1>2, <3>1, <3>2
    <3>4. k \in 1..Len(R)
      BY <1>2
    <3> QED BY <1>1, <3>3, <3>4 DEF Stirs, IsList
  <2>3. CASE (Comes \/ Here) /\ \E j \in Len(replies) + 1..Len(R) : R[j].is = "event"
    <3>1. PICK j \in Len(replies) + 1..Len(R) : R[j].is = "event"
      BY <2>3
    <3>2. j \in 1..Len(R) /\ \A i \in 1..Len(replies) : i \in 1..j - 1
      BY <1>2, <3>1
    <3>3. stage = "looking" => \E i \in 1..Len(replies) : IsList(replies[i])
      BY <2>3 DEF Comes, Here
    <3>4. stage = "looking" => \E i \in 1..j - 1 : IsList(R[i])
      BY <1>2, <3>2, <3>3
    <3> QED BY <1>1, <3>1, <3>2, <3>4 DEF Stirs, IsList
  <2>4. CASE Comes /\ table' = table
    <3>1. PICK k \in 1..Len(replies) : /\ IsList(replies[k]) /\ replies[k].list = Listed(table)
                                       /\ \A j \in k + 1..Len(replies) : ~IsList(replies[j])
      BY <2>4 DEF Comes
    <3>2. k \in 1..Len(R) /\ R[k] = replies[k]
      BY <1>2
    <3>3. \A j \in k + 1..Len(R) : (j \in k + 1..Len(replies) /\ j \in 1..Len(replies)) \/ j \in Len(replies) + 1..Len(R)
      BY <1>2
    <3>4. \A j \in k + 1..Len(R) : ~IsList(R[j])
      BY <1>2, <1>4, <3>1, <3>3
    <3>5. \E i \in 1..Len(R) : IsList(R[i]) /\ R[i].list = Listed(table') /\ \A j \in i + 1..Len(R) : ~IsList(R[j])
      BY <2>4, <3>1, <3>2, <3>4
    <3> QED BY <1>1, <3>5 DEF Comes, IsList
  <2>5. CASE Here /\ table' = table
    <3>1. \A j \in 1..Len(R) : j \in 1..Len(replies) \/ j \in Len(replies) + 1..Len(R)
      BY <1>2
    <3>2. \A j \in 1..Len(R) : ~IsList(R[j])
      BY <1>2, <1>4, <2>5, <3>1 DEF Here
    <3> QED BY <1>1, <2>5, <3>2 DEF Here, IsList
  <2> QED BY <1>4, <2>1, <2>2, <2>3, <2>4, <2>5
<1> QED BY <1>1, <1>3, <1>4 DEF TellsChanges

(* ptyd's side: the pieces of the invariant. *)
LEMMA Listens ==
  ASSUME TableFits
  PROVE  \A i \in DOMAIN Listed(table) : Listed(table)[i] = table[i]
BY DEF Listed

(* Who is unborn first. *)
LEMMA FirstUnborn ==
  ASSUME TableFits, Unborn # {}
  PROVE  Min(Unborn) \in Session /\ table[Min(Unborn)] = "unborn"
<1>1. Unborn \subseteq Nat
  <2>1. PICK n : n = Cardinality(Session)
    OBVIOUS
  <2>2. Session = 1..n
    BY <2>1, CommandLineAssumption
  <2> QED BY <2>2 DEF Unborn
<1>2. Min(Unborn) \in Unborn
  BY <1>1, FirstOf
<1> QED BY <1>2 DEF Unborn

(* All but what is told of the input. *)
ShowParts ==
  /\ Orderly(pending, requests, replies)
  /\ TableFits /\ LinkFits /\ MainInv /\ ListsAwaited /\ ExitFollows /\ ExitNoticed /\ ListComes

LEMMA TellsOne ==
  ASSUME Orderly(pending, requests, replies), link = "up", NEW m, Tells(<<m>>)
  PROVE  /\ replies' = Append(replies, m) /\ Extends(1)
         /\ \A k \in Len(replies) + 1..Len(replies') : replies'[k] = m
         /\ Len(replies') \in Len(replies) + 1..Len(replies')
<1>1. PICK R : R = replies'
  OBVIOUS
<1>2. R = Append(replies, m)
  BY <1>1, TwoMore DEF Tells, Orderly, Typed
<1>3. /\ Len(replies) \in Nat /\ Len(R) = Len(replies) + 1
      /\ \A k \in 1..Len(replies) : R[k] = replies[k]
      /\ R[Len(replies) + 1] = m
  BY <1>2, OneMore DEF Orderly, Typed
<1>4. \A k \in Len(replies) + 1..Len(R) : k = Len(replies) + 1
  BY <1>3
<1> QED BY <1>1, <1>2, <1>3, <1>4 DEF Extends

LEMMA TellsTwo ==
  ASSUME Orderly(pending, requests, replies), link = "up", NEW e, NEW m, Tells(<<e, m>>)
  PROVE  /\ replies' = Append(Append(replies, e), m) /\ Extends(2)
         /\ \A k \in Len(replies) + 1..Len(replies') : replies'[k] = e \/ replies'[k] = m
         /\ \E k \in Len(replies) + 1..Len(replies') : replies'[k] = e
<1>1. PICK R, T : R = replies' /\ T = Append(replies, e)
  OBVIOUS
<1>2. R = Append(T, m)
  BY <1>1, TwoMore DEF Tells, Orderly, Typed
<1>3. /\ IsSeq(T) /\ Len(replies) \in Nat /\ Len(T) = Len(replies) + 1
      /\ \A k \in 1..Len(replies) : T[k] = replies[k]
      /\ T[Len(replies) + 1] = e
  BY <1>1, OneMore DEF Orderly, Typed
<1>4. /\ Len(R) = Len(T) + 1
      /\ \A k \in 1..Len(T) : R[k] = T[k]
      /\ R[Len(T) + 1] = m
  BY <1>2, <1>3, OneMore
<1>5. /\ Len(R) = Len(replies) + 2 /\ \A k \in 1..Len(replies) : R[k] = replies[k]
      /\ R[Len(replies) + 1] = e /\ R[Len(replies) + 2] = m
  BY <1>3, <1>4
<1>6. \A k \in Len(replies) + 1..Len(R) : k = Len(replies) + 1 \/ k = Len(replies) + 2
  BY <1>3, <1>5
<1>7. Len(replies) + 1 \in Len(replies) + 1..Len(R)
  BY <1>3, <1>5
<1> QED BY <1>1, <1>2, <1>3, <1>5, <1>6, <1>7 DEF Extends

LEMMA EventFacts ==
  ASSUME NEW ev, NEW i
  PROVE  Event(ev, i).is = "event" /\ ~IsList(Event(ev, i))
BY DEF Event, IsList

LEMMA OtherKeeps ==
  ASSUME ShowInv, OtherChange
  PROVE  ShowParts'
<1>1. /\ UNCHANGED <<pending, requests, stage, command, target, result, list, link, gaveUp>>
      /\ Orderly(pending, requests, replies)
  BY DEF OtherChange, attachVars, pickerVars, commandVars, ShowInv
<1>2. PICK id \in Session, ev \in {"exited", "removed", "created"}, status \in {"alive", "exited", "gone"} :
        /\ table' = [table EXCEPT ![id] = status] /\ Tells(<<Event(ev, id)>>)
        /\ status = "exited" => ev = "exited"
  <2>1. ASSUME NEW i \in Session, Becomes(i, "exited"), Tells(<<Event("exited", i)>>)
        PROVE  \E id \in Session, ev \in {"exited", "removed", "created"}, status \in {"alive", "exited", "gone"} :
                 /\ table' = [table EXCEPT ![id] = status] /\ Tells(<<Event(ev, id)>>)
                 /\ status = "exited" => ev = "exited"
    <3> WITNESS i \in Session, "exited" \in {"exited", "removed", "created"}, "exited" \in {"alive", "exited", "gone"}
    <3> QED BY <2>1 DEF Becomes
  <2>2. ASSUME NEW i \in Session, Becomes(i, "gone"), Tells(<<Event("removed", i)>>)
        PROVE  \E id \in Session, ev \in {"exited", "removed", "created"}, status \in {"alive", "exited", "gone"} :
                 /\ table' = [table EXCEPT ![id] = status] /\ Tells(<<Event(ev, id)>>)
                 /\ status = "exited" => ev = "exited"
    <3> WITNESS i \in Session, "removed" \in {"exited", "removed", "created"}, "gone" \in {"alive", "exited", "gone"}
    <3> QED BY <2>2 DEF Becomes
  <2>3. ASSUME NEW i \in Session, Becomes(i, "alive"), Tells(<<Event("created", i)>>)
        PROVE  \E id \in Session, ev \in {"exited", "removed", "created"}, status \in {"alive", "exited", "gone"} :
                 /\ table' = [table EXCEPT ![id] = status] /\ Tells(<<Event(ev, id)>>)
                 /\ status = "exited" => ev = "exited"
    <3> WITNESS i \in Session, "created" \in {"exited", "removed", "created"}, "alive" \in {"alive", "exited", "gone"}
    <3> QED BY <2>3 DEF Becomes
  <2>4. Unborn # {} => Min(Unborn) \in Session
    BY FirstUnborn DEF ShowInv
  <2>5. \/ \E i \in Session : Becomes(i, "exited") /\ Tells(<<Event("exited", i)>>)
        \/ \E i \in Session : Becomes(i, "gone") /\ Tells(<<Event("removed", i)>>)
        \/ Unborn # {} /\ Becomes(Min(Unborn), "alive") /\ Tells(<<Event("created", Min(Unborn))>>)
    BY DEF OtherChange
  <2> QED BY <2>1, <2>2, <2>3, <2>4, <2>5
<1>3. TableFits'
  BY <1>1, <1>2 DEF ShowInv, TableFits
<1>4. \A i \in Session : table'[i] = "exited" => table[i] = "exited" \/ (i = id /\ ev = "exited")
  BY <1>2 DEF ShowInv, TableFits
<1>5. MainInv'
  BY <1>1 DEF ShowInv, MainInv, Awaits
<1>6. CASE link = "up"
  <2>1. /\ replies' = Append(replies, Event(ev, id)) /\ Extends(1)
        /\ \A k \in Len(replies) + 1..Len(replies') : replies'[k] = Event(ev, id)
        /\ Len(replies') \in Len(replies) + 1..Len(replies')
    BY <1>1, <1>2, <1>6, TellsOne
  <2>2. Orderly(pending', requests', replies')
    BY <1>1, <2>1, OrderlyTold, EventFacts
  <2>3. LinkFits'
    BY <1>1, <1>6 DEF ShowInv, LinkFits
  <2>4. TellsExits
    <3>1. \A i \in Session : table'[i] = "exited" => table[i] = "exited" \/ \E j \in Len(replies) + 1..Len(replies') : Exited(replies'[j], i)
      BY <1>4, <2>1 DEF Exited
    <3>2. \A k \in Len(replies) + 1..Len(replies') : replies'[k].is # "answer"
      BY <2>1, EventFacts
    <3> QED BY <3>1, <3>2 DEF TellsExits
  <2>5. TellsChanges
    <3>1. \E j \in Len(replies) + 1..Len(replies') : replies'[j].is = "event"
      BY <2>1, EventFacts
    <3>2. \A j \in Len(replies) + 1..Len(replies') : ~IsList(replies'[j])
      BY <2>1, EventFacts
    <3>3. Asked => Asked'
      BY <1>1 DEF Asked
    <3> QED BY <3>1, <3>2, <3>3 DEF TellsChanges
  <2>6. ListsAwaited'
    <3>1. PICK R : R = replies'
      OBVIOUS
    <3>2. \A k \in 1..Len(R) : IsList(R[k]) => k \in 1..Len(replies) /\ R[k] = replies[k]
      <4>1. \A k \in 1..Len(R) : k \in 1..Len(replies) \/ k \in Len(replies) + 1..Len(R)
        BY <2>1, <3>1 DEF Extends
      <4> QED BY <2>1, <3>1, <4>1, EventFacts DEF Extends
    <3> QED BY <1>1, <3>1, <3>2 DEF ShowInv, ListsAwaited, IsList
  <2>7. ExitFollows' /\ ExitNoticed' /\ ListComes'
    BY <1>1, <2>1, <2>4, <2>5, ToldExitFollows, ToldExitNoticed, ToldListComes
  <2> QED BY <1>3, <1>5, <2>2, <2>3, <2>6, <2>7 DEF ShowParts
<1>7. CASE link # "up"
  <2>1. replies' = replies /\ replies = <<>> /\ requests = <<>>
    BY <1>2, <1>7 DEF Tells, ShowInv, LinkFits
  <2>2. Orderly(pending', requests', replies') /\ LinkFits' /\ ListsAwaited'
    BY <1>1, <2>1 DEF ShowInv, LinkFits, ListsAwaited, IsList
  <2>3. Len(replies') = 0
    BY <2>1, NoneYet
  <2>4. ExitFollows'
    BY <2>3 DEF ExitFollows
  <2>5. ExitNoticed'
    BY <1>1, <1>7 DEF ShowInv, LinkFits, ExitNoticed, Listening
  <2>6. ListComes'
    BY <1>1, <1>7 DEF ListComes
  <2> QED BY <1>3, <1>5, <2>2, <2>4, <2>5, <2>6 DEF ShowParts
<1> QED BY <1>6, <1>7

-----------------------------------------------------------------------------
(* An answer to the first request, behind what is told of what it did.      *)
Answering(h, m) ==
  /\ m.is \in {"answer", "refusal"} /\ IsCall(m.call)
  /\ m.call.rid = h.rid /\ m.call.op = h.op /\ m.call.by = h.by
  /\ h.op = "list" => m.is = "answer" /\ m.list = Listed(table) /\ table' = table
  /\ h.op = "create" /\ m.is = "answer" => m.call.id \in Session /\ table'[m.call.id] # "exited"

Served(h) ==
  \/ \E m : Answering(h, m) /\ Tells(<<m>>) /\ table' = table
  \/ \E e, m : Answering(h, m) /\ Tells(<<e, m>>) /\ e.is = "event" /\ h.op # "list"

LEMMA ServeGives ==
  ASSUME ShowInv, Serve
  PROVE  /\ Served(Head(requests)) /\ TableFits'
         /\ \A i \in Session : table'[i] = "exited" => table[i] = "exited"
<1> DEFINE h == Head(requests)
<1>1. IsCall(h)
  <2>1. h = requests[1] /\ 1 \in 1..Len(requests)
    BY OneLess DEF Serve, ShowInv, Orderly, Typed
  <2> QED BY <2>1 DEF ShowInv, Orderly, Typed
<1>2. PICK c : c = h
  OBVIOUS
<1>3. IsCall(c) /\ TableFits
  BY <1>1, <1>2 DEF ShowInv
<1> DEFINE Told(event) == Tells(<<event, Answer(c, Listed(table'))>>)
           Succeeds    == Tells(<<Answer(c, Listed(table))>>) /\ UNCHANGED tableVars
           Refused     == Tells(<<Refusal(c)>>) /\ UNCHANGED tableVars
<1>4. /\ c.op \in {"list", "unsubscribe"} => Succeeds
      /\ c.op = "create" /\ Unborn = {} => Refused
      /\ c.op = "create" /\ Unborn # {} =>
           /\ Becomes(Min(Unborn), "alive")
           /\ Tells(<<Event("created", Min(Unborn)), Answer([c EXCEPT !.id = Min(Unborn)], <<>>)>>)
      /\ ~Exists(c.id) /\ c.op \notin {"list", "unsubscribe", "create"} => Refused
      /\ Exists(c.id) /\ c.op = "subscribe" => Succeeds
      /\ Exists(c.id) /\ c.op = "rename" => UNCHANGED tableVars /\ Told(Event("renamed", c.id))
      /\ Exists(c.id) /\ c.op \in {"lock", "unlock"} =>
           UNCHANGED table /\ (Tells(<<Answer(c, Listed(table))>>) \/ Told(Event("locked", c.id)))
      /\ Exists(c.id) /\ c.op \in {"kill", "force"} =>
           \/ Refused
           \/ Becomes(c.id, "gone") /\ Told(Event("removed", c.id))
  BY <1>2 DEF Serve
<1>5. UNCHANGED command
  BY DEF Serve, commandVars
<1>6. UNCHANGED tableVars => table' = table
  BY DEF tableVars
<1>7. /\ Answer(c, Listed(table)).is = "answer" /\ Answer(c, Listed(table)).call = c
      /\ Answer(c, Listed(table)).list = Listed(table)
      /\ Refusal(c).is = "refusal" /\ Refusal(c).call = c
      /\ Answer(c, Listed(table')).is = "answer" /\ Answer(c, Listed(table')).call = c
  BY DEF Answer, Refusal
<1>8. c.op \in Op
  BY <1>3 DEF IsCall
<1> HIDE DEF h
<1>9. CASE c.op \in {"list", "unsubscribe"} \/ (Exists(c.id) /\ c.op = "subscribe")
  <2>1. Tells(<<Answer(c, Listed(table))>>) /\ table' = table
    BY <1>4, <1>6, <1>9
  <2>2. Answering(c, Answer(c, Listed(table)))
    BY <1>3, <1>7, <1>9, <2>1 DEF Answering
  <2> QED BY <1>2, <1>3, <1>5, <2>1, <2>2 DEF Served, TableFits, h
<1>10. CASE Refused /\ c.op # "list"
  <2>1. Tells(<<Refusal(c)>>) /\ table' = table
    BY <1>6, <1>10
  <2>2. Answering(c, Refusal(c))
    BY <1>3, <1>7, <1>10, <2>1 DEF Answering
  <2> QED BY <1>2, <1>3, <1>5, <2>1, <2>2 DEF Served, TableFits, h
<1>11. CASE c.op = "create" /\ Unborn # {}
  <2>1. PICK i \in Session : i = Min(Unborn) /\ table[i] = "unborn"
    BY <1>3, <1>11, FirstUnborn
  <2>2. table' = [table EXCEPT ![i] = "alive"]
    BY <1>4, <1>11, <2>1 DEF Becomes
  <2>3. PICK a : a = [c EXCEPT !.id = i]
    OBVIOUS
  <2>4. IsCall(a) /\ a.rid = c.rid /\ a.op = c.op /\ a.by = c.by /\ a.id = i
    BY <1>3, <2>3 DEF IsCall
  <2>5. PICK m : m = Answer(a, <<>>)
    OBVIOUS
  <2>6. m.is = "answer" /\ m.call = a
    BY <2>5 DEF Answer
  <2>7. Tells(<<Event("created", i), m>>)
    BY <1>4, <1>11, <2>1, <2>3, <2>5
  <2>8. table'[i] # "exited"
    BY <1>3, <2>2 DEF TableFits
  <2>9. Answering(c, m)
    BY <1>11, <2>4, <2>6, <2>8 DEF Answering
  <2>10. Served(c)
    BY <1>11, <2>7, <2>9, EventFacts DEF Served
  <2> QED BY <1>2, <1>3, <1>5, <2>2, <2>10 DEF TableFits, h
<1>12. CASE /\ Exists(c.id) /\ c.op \in {"rename", "lock", "unlock", "kill", "force"}
            /\ \E ev \in {"renamed", "locked", "removed"} : Told(Event(ev, c.id))
            /\ table' = table \/ table' = [table EXCEPT ![c.id] = "gone"]
  <2>1. PICK e, m : m = Answer(c, Listed(table')) /\ e.is = "event" /\ Tells(<<e, m>>)
    BY <1>12, EventFacts
  <2>2. Answering(c, m)
    BY <1>3, <1>7, <1>12, <2>1 DEF Answering
  <2>3. Served(c)
    BY <1>12, <2>1, <2>2 DEF Served
  <2>4. c.id \in Session
    BY <1>12 DEF Exists
  <2>5. TableFits'
    BY <1>3, <1>5, <1>12, <2>4 DEF TableFits
  <2>6. \A i \in Session : table'[i] = "exited" => table[i] = "exited"
    BY <1>3, <1>12, <2>4 DEF TableFits
  <2> QED BY <1>2, <2>3, <2>5, <2>6 DEF h
<1>13. CASE Tells(<<Answer(c, Listed(table))>>) /\ table' = table /\ c.op \in {"lock", "unlock"}
  <2>2. Answering(c, Answer(c, Listed(table)))
    BY <1>3, <1>7, <1>13 DEF Answering
  <2> QED BY <1>2, <1>3, <1>5, <1>13, <2>2 DEF Served, TableFits, h
<1>14. CASE c.op = "create"
  BY <1>4, <1>10, <1>11, <1>14
<1>15. CASE c.op \notin {"list", "unsubscribe", "create"} /\ ~Exists(c.id)
  BY <1>4, <1>10, <1>15
<1>16. CASE c.op = "rename" /\ Exists(c.id)
  BY <1>4, <1>6, <1>12, <1>16
<1>17. CASE c.op \in {"lock", "unlock"} /\ Exists(c.id)
  BY <1>4, <1>6, <1>12, <1>13, <1>17
<1>18. CASE c.op \in {"kill", "force"} /\ Exists(c.id)
  BY <1>4, <1>10, <1>12, <1>18 DEF Becomes
<1> QED BY <1>8, <1>9, <1>14, <1>15, <1>16, <1>17, <1>18 DEF Op

Answers(h, n, m) ==
  /\ Answering(h, m) /\ Extends(n)
  /\ \A k \in Len(replies) + 1..Len(replies') : replies'[k].is = "event" \/ replies'[k] = m
  /\ \/ n = 1 /\ table' = table /\ replies'[Len(replies')] = m
     \/ h.op # "list" /\ \E k \in Len(replies) + 1..Len(replies') : replies'[k].is = "event"

LEMMA ServeAnswers ==
  ASSUME ShowInv, Serve
  PROVE  /\ Orderly(pending', requests', replies')
         /\ \E n \in 1..2 : \E m : Answers(Head(requests), n, m)
<1>1. Orderly(pending, requests, replies) /\ link = "up" /\ requests # <<>> /\ requests' = Tail(requests) /\ pending' = pending
  BY DEF ShowInv, LinkFits, Serve
<1>2. PICK h : h = Head(requests)
  OBVIOUS
<1>3. ASSUME NEW m, Answering(h, m), Tells(<<m>>), table' = table
      PROVE  Orderly(pending', requests', replies') /\ Answers(h, 1, m)
  <2>1. /\ replies' = Append(replies, m) /\ Extends(1)
        /\ \A k \in Len(replies) + 1..Len(replies') : replies'[k] = m
        /\ Len(replies') \in Len(replies) + 1..Len(replies')
    BY <1>1, <1>3, TellsOne
  <2>2. Answers(h, 1, m)
    BY <1>3, <2>1 DEF Answers
  <2>3. m.is # "event" /\ IsCall(m.call) /\ m.call.rid = h.rid /\ m.call.op = h.op /\ m.call.by = h.by
    BY <1>3 DEF Answering
  <2>4. Orderly(pending, Tail(requests), Append(replies, m))
    BY <1>1, <1>2, <2>3, OrderlyServe
  <2> QED BY <1>1, <2>1, <2>2, <2>4
<1>4. ASSUME NEW e, NEW m, Answering(h, m), Tells(<<e, m>>), e.is = "event", h.op # "list"
      PROVE  Orderly(pending', requests', replies') /\ Answers(h, 2, m)
  <2>1. /\ replies' = Append(Append(replies, e), m) /\ Extends(2)
        /\ \A k \in Len(replies) + 1..Len(replies') : replies'[k] = e \/ replies'[k] = m
        /\ \E k \in Len(replies) + 1..Len(replies') : replies'[k] = e
    BY <1>1, <1>4, TellsTwo
  <2>2. Answers(h, 2, m)
    BY <1>4, <2>1 DEF Answers
  <2>3. m.is # "event" /\ IsCall(m.call) /\ m.call.rid = h.rid /\ m.call.op = h.op /\ m.call.by = h.by
    BY <1>4 DEF Answering
  <2>4. PICK R : R = Append(replies, e)
    OBVIOUS
  <2>5. Orderly(pending, requests, R)
    BY <1>1, <1>4, <2>4, OrderlyTold
  <2>6. Orderly(pending, Tail(requests), Append(R, m))
    BY <1>1, <1>2, <2>3, <2>5, OrderlyServe
  <2> QED BY <1>1, <2>1, <2>2, <2>4, <2>6
<1>5. Served(h)
  BY <1>2, ServeGives
<1>6. 1 \in 1..2 /\ 2 \in 1..2
  OBVIOUS
<1>7. CASE \E m : Answering(h, m) /\ Tells(<<m>>) /\ table' = table
  <2>1. PICK m : Orderly(pending', requests', replies') /\ Answers(h, 1, m)
    BY <1>3, <1>7
  <2> QED BY <1>2, <1>6, <2>1
<1>8. CASE \E e, m : Answering(h, m) /\ Tells(<<e, m>>) /\ e.is = "event" /\ h.op # "list"
  <2>1. PICK m : Orderly(pending', requests', replies') /\ Answers(h, 2, m)
    BY <1>4, <1>8
  <2> QED BY <1>2, <1>6, <2>1
<1> QED BY <1>5, <1>7, <1>8 DEF Served

LEMMA ServeKeeps ==
  ASSUME ShowInv, Serve
  PROVE  ShowParts'
<1>1. /\ UNCHANGED <<pending, stage, command, target, result, list, link, gaveUp>>
      /\ requests # <<>> /\ requests' = Tail(requests)
  BY DEF Serve, attachVars, pickerVars, commandVars
<1>2. Orderly(pending, requests, replies) /\ link = "up"
  BY <1>1 DEF ShowInv, LinkFits
<1>3. PICK h : h = Head(requests)
  OBVIOUS
<1>0. PICK n \in 1..2 : \E m : Answers(h, n, m)
  BY <1>3, ServeAnswers
<1>4. PICK m : Answers(h, n, m)
  BY <1>0
<1>5. PICK Q : Q = requests'
  OBVIOUS
<1>6. /\ Len(requests) \in Nat \ {0} /\ Len(Q) = Len(requests) - 1 /\ h = requests[1]
      /\ \A k \in 1..Len(requests) - 1 : Q[k] = requests[k + 1]
  BY <1>1, <1>2, <1>3, <1>5, OneLess DEF Orderly, Typed
<1>7. PICK R : R = replies'
  OBVIOUS
<1>8. /\ Len(replies) \in Nat /\ Len(R) = Len(replies) + n
      /\ \A k \in 1..Len(replies) : R[k] = replies[k]
      /\ \A k \in Len(replies) + 1..Len(R) : R[k].is = "event" \/ R[k] = m
      /\ \A k \in 1..Len(R) : k \in 1..Len(replies) \/ k \in Len(replies) + 1..Len(R)
  <2>1. /\ Len(replies) \in Nat /\ Len(R) = Len(replies) + n
        /\ \A k \in 1..Len(replies) : R[k] = replies[k]
        /\ \A k \in Len(replies) + 1..Len(R) : R[k].is = "event" \/ R[k] = m
    BY <1>4, <1>7 DEF Answers, Extends
  <2> QED BY <2>1
<1>9. /\ m.is \in {"answer", "refusal"} /\ m.call.rid = h.rid /\ m.call.op = h.op
      /\ h.op = "list" => m.is = "answer" /\ m.list = Listed(table) /\ table' = table
      /\ h.op = "create" /\ m.is = "answer" => m.call.id \in Session /\ table'[m.call.id] # "exited"
  BY <1>4 DEF Answers, Answering
<1>10. TableFits' /\ \A i \in Session : table'[i] = "exited" => table[i] = "exited"
  BY ServeGives
<1>11. MainInv'
  BY <1>1 DEF ShowInv, MainInv, Awaits
<1>12. LinkFits'
  BY <1>1, <1>2 DEF ShowInv, LinkFits
<1>13. ListsAwaited'
  <2> SUFFICES ASSUME ~gaveUp
               PROVE  /\ \A j \in 1..Len(Q) : Q[j].op = "list" => \E p \in pending : p.rid = Q[j].rid
                      /\ \A k \in 1..Len(R) : IsList(R[k]) =>
                           R[k].is = "answer" /\ \E p \in pending : p.rid = R[k].call.rid
    BY <1>1, <1>5, <1>7 DEF ListsAwaited, IsList
  <2>1. /\ \A j \in 1..Len(requests) : requests[j].op = "list" => \E p \in pending : p.rid = requests[j].rid
        /\ \A k \in 1..Len(replies) : IsList(replies[k]) =>
                           replies[k].is = "answer" /\ \E p \in pending : p.rid = replies[k].call.rid
    BY DEF ShowInv, ListsAwaited
  <2>2. ASSUME NEW j \in 1..Len(Q), Q[j].op = "list"
        PROVE  \E p \in pending : p.rid = Q[j].rid
    <3>1. j \in 1..Len(requests) - 1 /\ j + 1 \in 1..Len(requests)
      BY <1>6
    <3>2. Q[j] = requests[j + 1]
      BY <1>6, <3>1
    <3> QED BY <2>1, <2>2, <3>1, <3>2
  <2>3. ASSUME NEW k \in 1..Len(R), IsList(R[k])
        PROVE  R[k].is = "answer" /\ \E p \in pending : p.rid = R[k].call.rid
    <3>1. CASE k \in 1..Len(replies)
      BY <1>8, <2>1, <2>3, <3>1
    <3>2. CASE k \in Len(replies) + 1..Len(R)
      <4>1. R[k] = m /\ h.op = "list"
        BY <1>8, <1>9, <2>3, <3>2 DEF IsList
      <4>2. 1 \in 1..Len(requests)
        BY <1>6
      <4> QED BY <1>6, <1>9, <2>1, <4>1, <4>2
    <3> QED BY <1>8, <3>1, <3>2
  <2> QED BY <2>2, <2>3
<1>14. TellsExits
  <2>1. ASSUME NEW k \in Len(replies) + 1..Len(R), R[k].is = "answer"
        PROVE  /\ R[k].call.op = "list" =>
                    \A i \in DOMAIN R[k].list : i \in Session /\ (R[k].list[i] = "alive" => table'[i] # "exited")
               /\ R[k].call.op = "create" => R[k].call.id \in Session /\ table'[R[k].call.id] # "exited"
    <3>1. R[k] = m
      BY <1>8, <2>1
    <3>2. m.call.op = "list" => m.list = Listed(table) /\ table' = table
      BY <1>9
    <3>3. \A i \in DOMAIN Listed(table) : i \in Session /\ Listed(table)[i] = table[i]
      BY DEF Listed
    <3> QED BY <1>9, <2>1, <3>1, <3>2, <3>3
  <2> QED BY <1>7, <1>10, <2>1 DEF TellsExits
<1>15. TellsChanges
  <2>1. CASE h.op = "list"
    <3>1. n = 1 /\ R[Len(R)] = m
      BY <1>4, <1>7, <2>1 DEF Answers
    <3>2. IsList(m) /\ m.list = Listed(table')
      BY <1>9, <2>1 DEF IsList
    <3> QED BY <1>7, <1>8, <3>1, <3>2 DEF TellsChanges
  <2>2. CASE h.op # "list"
    <3>1. \A j \in Len(replies) + 1..Len(R) : ~IsList(R[j])
      BY <1>8, <1>9, <2>2 DEF IsList
    <3>2. table' = table \/ \E j \in Len(replies) + 1..Len(R) : R[j].is = "event"
      BY <1>4, <1>7 DEF Answers
    <3>3. Asked => Asked'
      <4> SUFFICES ASSUME NEW j \in 1..Len(requests), requests[j].op = "list"
                   PROVE  \E k \in 1..Len(Q) : Q[k].op = "list"
        BY <1>5 DEF Asked
      <4>1. j # 1
        BY <1>6, <2>2
      <4>2. j - 1 \in 1..Len(requests) - 1 /\ j - 1 \in 1..Len(Q) /\ (j - 1) + 1 = j
        BY <1>6, <4>1
      <4>3. Q[j - 1] = requests[j]
        BY <1>6, <4>2
      <4> QED BY <4>2, <4>3
    <3> QED BY <1>7, <3>1, <3>2, <3>3 DEF TellsChanges
  <2> QED BY <2>1, <2>2
<1>16. n \in 0..2 /\ Extends(n)
  BY <1>4 DEF Answers
<1>17. ExitFollows' /\ ExitNoticed' /\ ListComes'
  BY <1>1, <1>14, <1>15, <1>16, ToldExitFollows, ToldExitNoticed, ToldListComes
<1> QED BY <1>10, <1>11, <1>12, <1>13, <1>17, ServeAnswers DEF ShowParts

-----------------------------------------------------------------------------
(* What each step of the command does to it.                                *)

LEMMA HaltsKeeps ==
  ASSUME ShowInv, Halts
  PROVE  ShowParts'
<1>1. /\ pending' = {} /\ requests' = <<>> /\ replies' = <<>> /\ link' = "closed" /\ command' = command /\ table' = table
      /\ stage' = "over" \/ (stage = "picking" /\ stage' = "picking")
  BY DEF Halts, tableVars
<1>2. Orderly(pending', requests', replies')
  BY <1>1, OrderlyEmpty
<1>3. Len(replies') = 0 /\ Len(requests') = 0
  BY <1>1, NoneYet
<1>4. TableFits' /\ LinkFits'
  BY <1>1 DEF ShowInv, TableFits, LinkFits
<1>5. MainInv'
  BY <1>1 DEF ShowInv, MainInv
<1>6. ListsAwaited' /\ ExitFollows'
  BY <1>3 DEF ListsAwaited, ExitFollows
<1>7. ExitNoticed' /\ ListComes'
  BY <1>1 DEF ExitNoticed, ListComes, Listening
<1> QED BY <1>2, <1>4, <1>5, <1>6, <1>7 DEF ShowParts

LEMMA MovesKeep ==
  ASSUME ShowInv, NEW S, Moves(S), Notices, Lists
  PROVE  ShowParts'
<1>1. Orderly(pending', requests', replies')
  BY MovesOrderly DEF ShowInv
<1>2. TableFits'
  BY DEF ShowInv, TableFits, Moves, tableVars
<1>3. LinkFits' /\ MainInv' /\ ListsAwaited'
  BY MovesMain, MovesLink, MovesAwaited
<1>4. ExitFollows'
  BY ExitFollowsRead DEF Moves
<1>5. ExitNoticed' /\ ListComes'
  BY MovesNotice, MovesList
<1> QED BY <1>1, <1>2, <1>3, <1>4, <1>5 DEF ShowParts

(* What a step of the command is. *)
ShowStep == Halts \/ \E S : Moves(S) /\ Notices /\ Lists

LEMMA StopsHalts == Stops /\ UNCHANGED tableVars => Halts
BY DEF Stops, Halts

LEMMA SendsAsked ==
  ASSUME Orderly(pending, requests, replies), NEW S, NEW id, NEW by \in By, Sends(S, "list", id, by)
  PROVE  Asked'
<1>1. "list" \in Op
  BY DEF Op
<1>2. PICK c : NewCall(c, S, "list", by)
  BY <1>1, SendsGives
<1>3. PICK Q : Q = requests'
  OBVIOUS
<1>4. Q = Append(requests, c) /\ c.op = "list"
  BY <1>2, <1>3 DEF NewCall
<1>5. Len(requests) \in Nat /\ Len(Q) = Len(requests) + 1 /\ Q[Len(requests) + 1] = c
  BY <1>4, OneMore DEF Orderly, Typed
<1>6. Len(requests) + 1 \in 1..Len(Q)
  BY <1>5
<1> QED BY <1>3, <1>4, <1>5, <1>6 DEF Asked

(* The call that settles is answered, or its time is up. *)
AnswerRead(p, c, ok, data) ==
  /\ HeadIs(p) /\ Head(replies).call.op = p.op
  /\ c.id = Head(replies).call.id /\ data = Head(replies).list /\ (ok <=> Head(replies).is = "answer")
  /\ replies' = (IF stage' = "over" THEN <<>> ELSE Tail(replies)) /\ gaveUp' = gaveUp
Expires(p, ok) ==
  /\ ~ok
  /\ replies' = (IF stage' = "over" THEN <<>> ELSE replies)
  /\ p.by = "picker" => gaveUp'
  /\ gaveUp => gaveUp'

LEMMA MainFlow ==
  ASSUME NEW call, NEW ok, NEW data, MainGoesOn(call, ok, data)
  PROVE  \/ Stops
         \/ stage = "leaving" /\ command = "pick" /\ Returns({call.rid})
         \/ ok /\ stage = "looking" /\ command = "new" /\ Attaches(call.id, {call.rid})
         \/ ok /\ stage \in {"looking", "returning"} /\ Picks(data, {call.rid}) /\ (stage = "looking" => command = "pick")
         \/ ok /\ stage = "looking" /\ command \notin {"ls", "new", "pick"} /\ Acts(data, {call.rid})
         \/ ok /\ stage = "subscribing" /\ Subscribed({call.rid})
<1>1. CASE ~ok /\ stage # "leaving"
  BY <1>1 DEF MainGoesOn
<1>2. CASE stage = "leaving"
  BY <1>2 DEF MainGoesOn
<1>3. CASE ok /\ stage # "leaving"
  <2>1. CASE stage = "looking"
    BY <1>3, <2>1 DEF MainGoesOn
  <2>2. CASE stage = "subscribing"
    BY <1>3, <2>2 DEF MainGoesOn
  <2>3. CASE stage = "returning"
    BY <1>3, <2>3 DEF MainGoesOn
  <2>4. CASE stage \notin {"looking", "subscribing", "returning", "leaving"}
    BY <1>3, <2>4 DEF MainGoesOn
  <2> QED BY <1>3, <2>1, <2>2, <2>3, <2>4
<1> QED BY <1>1, <1>2, <1>3

LEMMA MainSettles ==
  ASSUME ShowInv, NEW p \in pending, p.by = "main", NEW c, c.rid = p.rid, NEW ok, NEW data,
         MainGoesOn(c, ok, data), UNCHANGED tableVars, AnswerRead(p, c, ok, data) \/ Expires(p, ok)
  PROVE  ShowStep
<1> DEFINE S == {c.rid}
<1>1. Orderly(pending, requests, replies) /\ MainInv /\ p.op \in Awaits /\ link = "up"
  <2>1. Orderly(pending, requests, replies) /\ MainInv /\ LinkFits
    BY DEF ShowInv
  <2> QED BY <2>1 DEF MainInv, LinkFits
<1>2. \A q \in Unsettled(S) : q.by # "main"
  BY <1>1 DEF MainInv, Unsettled
<1>3. ASSUME stage' # "over", ok
      PROVE  /\ Takes(S) /\ replies # <<>> /\ Head(replies).is = "answer" /\ replies' = Tail(replies)
             /\ Head(replies).call.op = p.op /\ c.id = Head(replies).call.id /\ data = Head(replies).list
  BY <1>3 DEF AnswerRead, Expires, Takes, ReadsAnswer, HeadIs
<1>4. ASSUME stage' # "over", stage = "leaving"
      PROVE  Takes(S)
  <2>1. p.op # "list"
    BY <1>1, <1>4 DEF Awaits
  <2>2. CASE AnswerRead(p, c, ok, data)
    BY <1>4, <2>2 DEF AnswerRead, Takes, ReadsAnswer
  <2>3. CASE Expires(p, ok)
    BY <1>4, <2>1, <2>3 DEF Expires, Takes, GivesUp
  <2> QED BY <2>2, <2>3
<1>5. CASE Stops
  BY <1>5, StopsHalts DEF ShowStep
<1>6. CASE stage = "leaving" /\ command = "pick" /\ Returns(S)
  <2>1. /\ stage' = "returning" /\ Sends(S, "list", NoSession, "main") /\ UNCHANGED <<command, link>>
    BY <1>6 DEF Returns
  <2>2. Asked'
    BY <1>1, <2>1, SendsAsked DEF By
  <2>3. "list" \in Op /\ "list" \in Awaits'
    BY <2>1 DEF Op, Awaits
  <2>4. MainMoves(S)
    BY <1>1, <1>2, <1>6, <2>1, <2>3 DEF MainMoves
  <2>5. Moves(S)
    BY <1>4, <1>6, <2>1, <2>4 DEF Moves
  <2>6. Notices /\ Lists
    BY <2>1, <2>2 DEF Notices, Lists, Listening
  <2> QED BY <2>5, <2>6 DEF ShowStep
<1>7. ASSUME NEW id, Attaches(id, S), ok,
             \/ p.op = "create" /\ id = c.id
             \/ p.op = "list" /\ id \in DOMAIN data /\ data[id] = "alive"
      PROVE  ShowStep
  <2>1. /\ stage' = "subscribing" /\ Sends(S, "subscribe", id, "main") /\ UNCHANGED <<command, link>> /\ target' = id
    BY <1>7 DEF Attaches
  <2>2. "subscribe" \in Op /\ "subscribe" \in Awaits'
    BY <2>1 DEF Op, Awaits
  <2>3. MainMoves(S)
    BY <1>1, <1>2, <2>1, <2>2 DEF MainMoves
  <2>4. /\ Takes(S) /\ replies # <<>> /\ Head(replies).is = "answer" /\ replies' = Tail(replies)
        /\ Head(replies).call.op = p.op /\ c.id = Head(replies).call.id /\ data = Head(replies).list
    BY <1>3, <1>7, <2>1
  <2>5. Moves(S)
    BY <2>1, <2>3, <2>4 DEF Moves
  <2>6. Notices
    BY <1>7, <2>1, <2>4 DEF Notices
  <2>7. Lists
    BY <2>1 DEF Lists
  <2> QED BY <2>5, <2>6, <2>7 DEF ShowStep
<1>8. CASE ok /\ stage = "looking" /\ command = "new" /\ Attaches(c.id, S)
  <2>1. p.op = "create"
    BY <1>1, <1>8 DEF Awaits
  <2> QED BY <1>7, <1>8, <2>1
<1>9. CASE ok /\ stage \in {"looking", "returning"} /\ Picks(data, S) /\ (stage = "looking" => command = "pick")
  <2>1. /\ stage' = "picking" /\ SendsNothing(S) /\ UNCHANGED <<command, link>> /\ list' = data
    BY <1>9 DEF Picks, Draws
  <2>2. command = "pick"
    BY <1>1, <1>9 DEF MainInv
  <2>3. p.op = "list"
    BY <1>1, <1>9, <2>2 DEF Awaits
  <2>4. MainMoves(S)
    BY <1>1, <1>2, <2>1, <2>2 DEF MainMoves
  <2>5. /\ Takes(S) /\ replies # <<>> /\ Head(replies).is = "answer" /\ replies' = Tail(replies)
        /\ Head(replies).call.op = p.op /\ data = Head(replies).list
    BY <1>3, <1>9, <2>1
  <2>6. Moves(S)
    BY <2>1, <2>4, <2>5 DEF Moves
  <2>7. Notices
    BY <2>1 DEF Notices, Listening
  <2>8. IsList(Head(replies))
    BY <2>3, <2>5 DEF IsList
  <2>9. Lists
    BY <1>9, <2>1, <2>5, <2>8 DEF Lists
  <2> QED BY <2>6, <2>7, <2>9 DEF ShowStep
<1>10. CASE ok /\ stage = "looking" /\ command \notin {"ls", "new", "pick"} /\ Acts(data, S)
  <2>1. p.op = "list"
    BY <1>1, <1>10 DEF Awaits
  <2>2. PICK needle \in Needle :
          LET found == Resolved(data, needle)
              able  == {id \in found : command = "attach" => data[id] = "alive"}
          IN IF able = {} THEN Stops
             ELSE \E id \in able :
               /\ UNCHANGED pickerVars
               /\ IF command = "attach" THEN Attaches(id, S)
                  ELSE /\ stage' = "acting" /\ target' = id
                       /\ Sends(S, command, id, "main")
                       /\ UNCHANGED <<attachVars, command, link>>
    BY <1>10 DEF Acts
  <2>3. \/ Stops
        \/ command = "attach" /\ \E id \in Resolved(data, needle) : data[id] = "alive" /\ Attaches(id, S)
        \/ command # "attach" /\ \E id : stage' = "acting" /\ Sends(S, command, id, "main") /\ UNCHANGED <<command, link>>
    BY <2>2
  <2>4. Resolved(data, needle) \subseteq DOMAIN data
    BY DEF Resolved
  <2>5. CASE command # "attach" /\ \E id : stage' = "acting" /\ Sends(S, command, id, "main") /\ UNCHANGED <<command, link>>
    <3>1. command \in {"kill", "force", "lock", "unlock", "rename"}
      BY <1>10, <2>5, CommandLineAssumption DEF ShowInv, TableFits
    <3>2. command \in Op /\ command \in Awaits'
      BY <2>5, <3>1 DEF Op, Awaits
    <3>3. MainMoves(S)
      BY <1>1, <1>2, <2>5, <3>2 DEF MainMoves
    <3>4. Moves(S)
      BY <1>3, <1>10, <2>5, <3>3 DEF Moves
    <3>5. Notices /\ Lists
      BY <2>5 DEF Notices, Lists, Listening
    <3> QED BY <3>4, <3>5 DEF ShowStep
  <2>6. CASE command = "attach" /\ \E id \in Resolved(data, needle) : data[id] = "alive" /\ Attaches(id, S)
    BY <1>7, <1>10, <2>1, <2>4, <2>6
  <2> QED BY <1>5, <2>3, <2>5, <2>6
<1>11. CASE ok /\ stage = "subscribing" /\ Subscribed(S)
  <2>1. result' = result /\ UNCHANGED <<command, target, link>>
    BY <1>11 DEF Subscribed, TakeTerminal, Leaves
  <2>2. CASE stage' = "leaving" /\ Sends(S, "unsubscribe", target, "main")
    <3>1. "unsubscribe" \in Op /\ "unsubscribe" \in Awaits'
      BY <2>2 DEF Op, Awaits
    <3>2. MainMoves(S)
      BY <1>1, <1>2, <2>1, <2>2, <3>1 DEF MainMoves
    <3>3. Moves(S)
      BY <1>3, <1>11, <2>1, <2>2, <3>2 DEF Moves
    <3>4. Notices /\ Lists
      BY <2>2 DEF Notices, Lists, Listening
    <3> QED BY <3>3, <3>4 DEF ShowStep
  <2>3. CASE stage' = "attached" /\ SendsNothing(S)
    <3>1. MainMoves(S)
      BY <1>1, <1>2, <2>1, <2>3 DEF MainMoves
    <3>2. Takes(S) /\ Head(replies).is = "answer"
      BY <1>3, <1>11, <2>3
    <3>3. Moves(S)
      BY <2>1, <3>1, <3>2 DEF Moves
    <3>4. Quiet
      BY <3>2 DEF Quiet, Exited, Event
    <3>5. Notices /\ Lists
      BY <1>11, <2>1, <2>3, <3>4 DEF Notices, Lists, Listening
    <3> QED BY <3>3, <3>5 DEF ShowStep
  <2> QED BY <1>11, <2>2, <2>3 DEF Subscribed, Leaves
<1>12. \/ Stops
       \/ stage = "leaving" /\ command = "pick" /\ Returns(S)
       \/ ok /\ stage = "looking" /\ command = "new" /\ Attaches(c.id, S)
       \/ ok /\ stage \in {"looking", "returning"} /\ Picks(data, S) /\ (stage = "looking" => command = "pick")
       \/ ok /\ stage = "looking" /\ command \notin {"ls", "new", "pick"} /\ Acts(data, S)
       \/ ok /\ stage = "subscribing" /\ Subscribed(S)
  BY MainFlow
<1> QED BY <1>5, <1>6, <1>8, <1>9, <1>10, <1>11, <1>12

LEMMA PickerSettles ==
  ASSUME ShowInv, NEW p \in pending, p.by # "main", NEW c, c.rid = p.rid, c.op = p.op, NEW ok, NEW data,
         PickerGoesOn(c, ok, data), UNCHANGED tableVars, AnswerRead(p, c, ok, data) \/ Expires(p, ok)
  PROVE  ShowStep
<1> DEFINE S == {c.rid}
<1>1. /\ UNCHANGED <<stage, command, target, result, link>>
      /\ \/ ok /\ p.op = "list" /\ SendsNothing(S) /\ list' = data
         \/ ok /\ p.op # "list" /\ Sends(S, "list", NoSession, "picker")
         \/ ~ok /\ SendsNothing(S) /\ list' = list
  <2>1. UNCHANGED <<stage, command, target, result, link>>
    BY DEF PickerGoesOn, commandVars, attachVars
  <2>2. CASE ok /\ p.op = "list"
    BY <2>1, <2>2 DEF PickerGoesOn, Draws
  <2>3. CASE ok /\ p.op # "list"
    BY <2>1, <2>3 DEF PickerGoesOn
  <2>4. CASE ~ok
    BY <2>1, <2>4 DEF PickerGoesOn
  <2> QED BY <2>2, <2>3, <2>4
<1>2. Orderly(pending, requests, replies) /\ MainInv /\ ListsAwaited
  BY DEF ShowInv
<1>3. link = "up" /\ stage \notin {"start", "looking", "over"}
  BY DEF ShowInv, LinkFits, MainInv
<1>4. p.by = "picker"
  BY <1>2 DEF Orderly, Typed, IsCall, By
<1>5. CASE Expires(p, ok)
  <2>1. replies' = replies /\ gaveUp'
    BY <1>1, <1>3, <1>4, <1>5 DEF Expires
  <2>2. Takes(S)
    BY <1>4, <2>1 DEF Takes, GivesUp
  <2>3. PickerMoves(S)
    BY <1>1, <1>5 DEF Expires, PickerMoves
  <2>4. Moves(S)
    BY <1>1, <2>2, <2>3 DEF Moves
  <2>5. Notices
    BY <1>1, <2>1 DEF Notices, Quiet
  <2>6. Lists
    BY <2>1 DEF Lists
  <2> QED BY <2>4, <2>5, <2>6 DEF ShowStep
<1>6. CASE AnswerRead(p, c, ok, data)
  <2>1. /\ HeadIs(p) /\ Head(replies).call.op = p.op /\ data = Head(replies).list /\ (ok <=> Head(replies).is = "answer")
        /\ replies' = Tail(replies) /\ gaveUp' = gaveUp
    BY <1>1, <1>3, <1>6 DEF AnswerRead
  <2>2. Takes(S)
    BY <2>1 DEF Takes, ReadsAnswer
  <2>3. PickerMoves(S)
    <3>1. "list" \in Op
      BY DEF Op
    <3> QED BY <1>1, <1>3, <3>1 DEF PickerMoves
  <2>4. Moves(S)
    BY <1>1, <2>2, <2>3 DEF Moves
  <2>5. Notices
    <3>1. Quiet
      BY <2>1 DEF Quiet, Exited, Event, HeadIs
    <3> QED BY <1>1, <3>1 DEF Notices
  <2>6. Lists
    <3>1. CASE ok /\ p.op = "list" /\ list' = data
      <4>1. IsList(Head(replies)) /\ replies # <<>>
        BY <2>1, <3>1 DEF IsList, HeadIs
      <4> QED BY <1>1, <1>3, <2>1, <3>1, <4>1 DEF Lists
    <3>2. CASE ok /\ Sends(S, "list", NoSession, "picker")
      <4>1. Asked'
        BY <1>2, <3>2, SendsAsked DEF By
      <4> QED BY <4>1 DEF Lists
    <3>3. CASE ~ok /\ list' = list
      <4>1. CASE IsList(Head(replies))
        <5>1. 1 \in 1..Len(replies) /\ Head(replies) = replies[1]
          BY <1>2, <2>1, OneLess DEF HeadIs, Orderly, Typed
        <5>2. gaveUp
          BY <1>2, <2>1, <3>3, <4>1, <5>1 DEF ListsAwaited
        <5> QED BY <2>1, <5>2 DEF Lists
      <4>2. CASE ~IsList(Head(replies))
        BY <1>1, <2>1, <3>3, <4>2 DEF Lists, HeadIs
      <4> QED BY <4>1, <4>2
    <3> QED BY <1>1, <3>1, <3>2, <3>3
  <2> QED BY <2>4, <2>5, <2>6 DEF ShowStep
<1> QED BY <1>5, <1>6

LEMMA Settles ==
  ASSUME ShowInv, NEW p \in pending, NEW c, c.rid = p.rid, c.op = p.op, c.by = p.by, NEW ok, NEW data,
         GoesOn(c, ok, data), UNCHANGED tableVars, AnswerRead(p, c, ok, data) \/ Expires(p, ok)
  PROVE  ShowStep
<1>1. CASE p.by = "main"
  <2>1. MainGoesOn(c, ok, data)
    BY <1>1 DEF GoesOn
  <2> QED BY <1>1, <2>1, MainSettles
<1>2. CASE p.by # "main"
  <2>1. PickerGoesOn(c, ok, data)
    BY <1>2 DEF GoesOn
  <2> QED BY <1>2, <2>1, PickerSettles
<1> QED BY <1>1, <1>2

LEMMA AnsweredShows == ShowInv /\ Answered => ShowStep
<1> SUFFICES ASSUME ShowInv, Answered
             PROVE  ShowStep
  OBVIOUS
<1>1. /\ replies # <<>> /\ Head(replies).is # "event" /\ UNCHANGED tableVars /\ gaveUp' = gaveUp
      /\ Orderly(pending, requests, replies)
  BY DEF Answered, ShowInv
<1>2. 1 \in 1..Len(replies) /\ Head(replies) = replies[1]
  BY <1>1, OneLess DEF Orderly, Typed
<1>3. CASE \E p \in pending : p.rid = Head(replies).call.rid
  <2>1. PICK p \in pending :
          /\ p.rid = Head(replies).call.rid
          /\ GoesOn([p EXCEPT !.id = Head(replies).call.id], Head(replies).is = "answer", Head(replies).list)
    BY <1>3 DEF Answered
  <2>2. replies' = IF stage' = "over" THEN <<>> ELSE Tail(replies)
    BY <1>3 DEF Answered
  <2>3. IsCall(p) /\ Head(replies).call.op = p.op
    BY <1>1, <1>2, <2>1 DEF Orderly, Typed, Matches, Same
  <2>4. PICK c : c = [p EXCEPT !.id = Head(replies).call.id]
    OBVIOUS
  <2>5. c.rid = p.rid /\ c.op = p.op /\ c.by = p.by /\ c.id = Head(replies).call.id
    BY <2>3, <2>4 DEF IsCall
  <2>6. GoesOn(c, Head(replies).is = "answer", Head(replies).list)
    BY <2>1, <2>4
  <2>7. AnswerRead(p, c, Head(replies).is = "answer", Head(replies).list)
    BY <1>1, <2>1, <2>2, <2>3, <2>5 DEF AnswerRead, HeadIs
  <2> QED BY <1>1, <2>5, <2>6, <2>7, Settles
<1>4. CASE ~\E p \in pending : p.rid = Head(replies).call.rid
  <2>1. replies' = Tail(replies) /\ UNCHANGED <<attachVars, pickerVars, commandVars, link, requests, pending>>
    BY <1>4 DEF Answered
  <2>2. UNCHANGED <<stage, command, target, result, link, list, requests, pending>>
    BY <2>1 DEF attachVars, pickerVars, commandVars
  <2>3. SendsNothing({})
    BY <2>2, UnsettledFacts DEF SendsNothing
  <2>4. Takes({})
    BY <1>1, <1>4, <2>1 DEF Takes, ReadsStray
  <2>5. Moves({})
    BY <1>1, <2>2, <2>3, <2>4 DEF Moves, PickerMoves
  <2>6. Quiet
    BY <1>1 DEF Quiet, Exited, Event
  <2>7. Notices
    BY <2>2, <2>6 DEF Notices
  <2>8. IsList(Head(replies)) => gaveUp
    BY <1>2, <1>4 DEF ShowInv, ListsAwaited
  <2>9. Lists
    BY <1>1, <2>2, <2>8 DEF Lists
  <2> QED BY <2>5, <2>7, <2>9 DEF ShowStep
<1> QED BY <1>3, <1>4

LEMMA TimeOutShows == ShowInv /\ (\E p \in pending : TimeOut(p)) => ShowStep
<1> SUFFICES ASSUME ShowInv, NEW p \in pending, TimeOut(p)
             PROVE  ShowStep
  OBVIOUS
<1>1. /\ GoesOn(p, FALSE, <<>>) /\ UNCHANGED tableVars
      /\ replies' = IF stage' = "over" THEN <<>> ELSE replies
      /\ gaveUp' = (gaveUp \/ p.by = "picker")
  BY DEF TimeOut
<1>2. PICK ok : ok = FALSE
  OBVIOUS
<1>3. GoesOn(p, ok, <<>>)
  BY <1>1, <1>2
<1>4. Expires(p, ok)
  BY <1>1, <1>2 DEF Expires
<1> QED BY <1>1, <1>3, <1>4, Settles

(* No one else awaits a call. *)
LEMMA MainFree ==
  ASSUME ShowInv, stage \in {"attached", "picking"}
  PROVE  \A q \in Unsettled({}) : q.by # "main"
BY UnsettledFacts DEF ShowInv, MainInv, Awaits

LEMMA LeavesShows ==
  ASSUME ShowInv, stage = "attached", Leaves({}), Takes({}), UNCHANGED tableVars
  PROVE  ShowStep
<1>1. stage' = "leaving" /\ Sends({}, "unsubscribe", target, "main") /\ UNCHANGED <<command, link>> /\ link = "up"
  BY DEF Leaves, ShowInv, LinkFits
<1>2. "unsubscribe" \in Op /\ "unsubscribe" \in Awaits'
  BY <1>1 DEF Op, Awaits
<1>3. MainMoves({})
  BY <1>1, <1>2, MainFree DEF MainMoves
<1>4. Moves({})
  BY <1>1, <1>3 DEF Moves
<1>5. Notices /\ Lists
  BY <1>1 DEF Notices, Lists, Listening
<1> QED BY <1>4, <1>5 DEF ShowStep

LEMMA NotifiedShows == ShowInv /\ Notified => ShowStep
<1> SUFFICES ASSUME ShowInv, Notified
             PROVE  ShowStep
  OBVIOUS
<1>1. /\ replies # <<>> /\ Head(replies).is = "event" /\ replies' = Tail(replies)
      /\ UNCHANGED <<tableVars, gaveUp, list>> /\ Orderly(pending, requests, replies) /\ link = "up"
  BY DEF Notified, pickerVars, ShowInv, LinkFits
<1>2. Takes({})
  BY <1>1 DEF Takes, ReadsEvent
<1>3. CASE command = "pick" /\ stage \in {"picking", "returning"}
  <2>0. Sends({}, "list", NoSession, "picker") /\ UNCHANGED <<attachVars, commandVars, link>>
    BY <1>3 DEF Notified, Listening
  <2>1. Sends({}, "list", NoSession, "picker") /\ UNCHANGED <<stage, command, target, link>>
    BY <2>0 DEF commandVars
  <2>2. "list" \in Op
    BY DEF Op
  <2>3. Asked'
    BY <1>1, <2>1, SendsAsked DEF By
  <2>4. PickerMoves({})
    BY <1>1, <1>3, <2>1, <2>2 DEF PickerMoves
  <2>5. Moves({})
    BY <1>1, <1>2, <2>1, <2>4 DEF Moves
  <2>6. Notices /\ Lists
    BY <1>3, <2>1, <2>3 DEF Notices, Lists, Listening
  <2> QED BY <2>5, <2>6 DEF ShowStep
<1>4. CASE stage \in Listening /\ Head(replies) = Event("exited", target)
  <2>1. /\ Finish("exited")
        /\ IF stage = "attached" THEN Leaves({})
           ELSE UNCHANGED <<commandVars, link, requests, pending>>
    BY <1>4 DEF Notified, Listening
  <2>2. result' # "none"
    BY <2>1 DEF Finish
  <2>3. CASE stage = "attached"
    BY <1>1, <1>2, <2>1, <2>3, LeavesShows
  <2>4. CASE stage # "attached"
    <3>1. UNCHANGED <<stage, command, target, link, requests, pending>>
      BY <2>1, <2>4 DEF commandVars
    <3>2. SendsNothing({})
      BY <3>1, UnsettledFacts DEF SendsNothing
    <3>3. Moves({})
      BY <1>1, <1>2, <3>1, <3>2 DEF Moves, PickerMoves
    <3>4. Notices /\ Lists
      BY <1>4, <2>2, <3>1 DEF Notices, Lists, Listening
    <3> QED BY <3>3, <3>4 DEF ShowStep
  <2> QED BY <2>3, <2>4
<1>5. CASE /\ ~(command = "pick" /\ stage \in {"picking", "returning"})
           /\ ~(stage \in Listening /\ Head(replies) = Event("exited", target))
  <2>1. UNCHANGED <<attachVars, commandVars, link, requests, pending>>
    BY <1>5 DEF Notified
  <2>2. UNCHANGED <<stage, command, target, result, link, requests, pending>>
    BY <2>1 DEF attachVars, commandVars
  <2>3. SendsNothing({})
    BY <2>2, UnsettledFacts DEF SendsNothing
  <2>4. Moves({})
    BY <1>1, <1>2, <2>2, <2>3 DEF Moves, PickerMoves
  <2>5. Notices
    BY <1>5, <2>2 DEF Notices, Quiet, Exited
  <2>6. Lists
    BY <1>1, <1>5, <2>2 DEF Lists, IsList
  <2> QED BY <2>4, <2>5, <2>6 DEF ShowStep
<1> QED BY <1>3, <1>4, <1>5

LEMMA TypesAttachedShows == ShowInv /\ TypesAttached => ShowStep
<1> SUFFICES ASSUME ShowInv, TypesAttached
             PROVE  ShowStep
  OBVIOUS
<1>1. /\ stage = "attached" /\ UNCHANGED <<tableVars, replies, gaveUp>>
      /\ IF result' # "none" THEN Leaves({}) ELSE UNCHANGED <<commandVars, link, requests, pending>>
  BY DEF TypesAttached
<1>2. Takes({})
  BY <1>1 DEF Takes, ReadsNothing
<1>3. CASE result' # "none"
  BY <1>1, <1>2, <1>3, LeavesShows
<1>4. CASE result' = "none"
  <2>1. UNCHANGED <<stage, command, target, link, requests, pending>>
    BY <1>1, <1>4 DEF commandVars
  <2>2. SendsNothing({})
    BY <2>1, UnsettledFacts DEF SendsNothing
  <2>3. Moves({})
    BY <1>1, <1>2, <2>1, <2>2 DEF Moves, PickerMoves
  <2>4. result = "none"
    BY <1>1 DEF ShowInv, InputInv
  <2>5. Notices /\ Lists
    BY <1>1, <1>4, <2>1, <2>4 DEF Notices, Quiet, Lists, Listening
  <2> QED BY <2>3, <2>5 DEF ShowStep
<1> QED BY <1>3, <1>4

LEMMA TypesPickingShows == ShowInv /\ TypesPicking => ShowStep
<1> SUFFICES ASSUME ShowInv, TypesPicking
             PROVE  ShowStep
  OBVIOUS
<1>1. /\ stage = "picking" /\ UNCHANGED <<tableVars, replies, gaveUp>>
      /\ UNCHANGED <<stage, command, target, result, link>>
  BY DEF TypesPicking, attachVars, commandVars
<1>2. list' = list
  BY DEF TypesPicking, ListKey, PromptKey, Draws
<1>3. SendsNothing({}) \/ \E op \in {"kill", "create", "rename"} : \E id : Asks(op, id)
  <2>1. CASE ListKey
    BY <2>1 DEF ListKey
  <2>2. CASE PromptKey
    BY <2>2 DEF PromptKey
  <2> QED BY <2>1, <2>2 DEF TypesPicking
<1>4. PickerMoves({})
  <2>1. CASE SendsNothing({})
    BY <1>1, <2>1 DEF PickerMoves
  <2>2. ASSUME NEW op \in {"kill", "create", "rename"}, NEW id, Asks(op, id)
        PROVE  PickerMoves({})
    <3>1. op \in Op
      BY DEF Op
    <3>2. (link = "up" /\ Sends({}, op, id, "picker")) \/ SendsNothing({})
      BY <2>2 DEF Asks
    <3> QED BY <1>1, <3>1, <3>2 DEF PickerMoves
  <2> QED BY <1>3, <2>1, <2>2
<1>5. Moves({})
  BY <1>1, <1>4 DEF Moves, Takes, ReadsNothing
<1>6. Notices /\ Lists
  BY <1>1, <1>2 DEF Notices, Lists, Listening
<1> QED BY <1>5, <1>6 DEF ShowStep

LEMMA PollShows == ShowInv /\ Poll => ShowStep
<1> SUFFICES ASSUME ShowInv, Poll
             PROVE  ShowStep
  OBVIOUS
<1>1. stage = "picking" /\ UNCHANGED <<tableVars, gaveUp>> /\ command = "pick"
  BY DEF Poll, ShowInv, MainInv
<1>2. CASE wanted # NoSession /\ link = "up"
  <2>1. /\ stage' = "subscribing" /\ Sends({}, "subscribe", wanted, "main") /\ UNCHANGED <<command, link, replies>>
    BY <1>2 DEF Poll, Attaches
  <2>2. "subscribe" \in Op /\ "subscribe" \in Awaits'
    BY <2>1 DEF Op, Awaits
  <2>3. MainMoves({})
    BY <1>1, <1>2, <2>1, <2>2, MainFree DEF MainMoves
  <2>4. Moves({})
    BY <1>1, <2>1, <2>3 DEF Moves, Takes, ReadsNothing
  <2>5. Notices /\ Lists
    BY <1>1, <2>1 DEF Notices, Lists
  <2> QED BY <2>4, <2>5 DEF ShowStep
<1>3. CASE ~(wanted # NoSession /\ link = "up")
  BY <1>1, <1>3, StopsHalts DEF Poll, ShowStep
<1> QED BY <1>2, <1>3

LEMMA ConnectShows == ShowInv /\ Connect => ShowStep
<1> SUFFICES ASSUME ShowInv, Connect
             PROVE  ShowStep
  OBVIOUS
<1>1. stage = "start" /\ UNCHANGED <<tableVars, gaveUp, replies, command>>
  BY DEF Connect
<1>2. pending = {} /\ Orderly(pending, requests, replies)
  BY <1>1 DEF ShowInv, LinkFits
<1>3. \A q \in Unsettled({}) : q.by # "main"
  BY <1>2, UnsettledFacts
<1>4. Takes({})
  BY <1>1 DEF Takes, ReadsNothing
<1>5. CASE stage' = "over" /\ UNCHANGED <<link, requests, pending>>
  <2>1. SendsNothing({})
    BY <1>5, UnsettledFacts DEF SendsNothing
  <2>2. MainMoves({})
    BY <1>1, <1>3, <1>5, <2>1 DEF MainMoves
  <2>3. Moves({})
    BY <1>1, <1>4, <2>2 DEF Moves
  <2>4. Notices /\ Lists
    BY <1>5 DEF Notices, Lists, Listening
  <2> QED BY <2>3, <2>4 DEF ShowStep
<1>6. ASSUME NEW op, op = IF command = "new" THEN "create" ELSE "list",
             stage' = "looking", link' = "up", Sends({}, op, NoSession, "main")
      PROVE  ShowStep
  <2>1. op \in Op /\ op \in Awaits'
    BY <1>1, <1>6 DEF Op, Awaits
  <2>2. MainMoves({})
    BY <1>2, <1>3, <1>6, <2>1 DEF MainMoves
  <2>3. Moves({})
    BY <1>1, <1>4, <2>2 DEF Moves
  <2>4. Notices
    BY <1>6 DEF Notices, Listening
  <2>5. Lists
    <3>1. CASE command = "new"
      BY <3>1 DEF Lists
    <3>2. CASE command # "new"
      <4>1. Asked'
        BY <1>2, <1>6, <3>2, SendsAsked DEF By
      <4> QED BY <4>1 DEF Lists
    <3> QED BY <3>1, <3>2
  <2> QED BY <2>3, <2>4, <2>5 DEF ShowStep
<1> QED BY <1>5, <1>6 DEF Connect

LEMMA LinkClosesShows == ShowInv /\ LinkCloses => ShowStep
<1> SUFFICES ASSUME ShowInv, LinkCloses
             PROVE  ShowStep
  OBVIOUS
<1>1. CASE stage = "picking"
  BY <1>1 DEF LinkCloses, Halts, commandVars, ShowStep
<1>2. CASE stage # "picking"
  BY <1>2, StopsHalts DEF LinkCloses, ShowStep
<1> QED BY <1>1, <1>2

LEMMA ShowInvInductive == ShowInv /\ [CommandNext]_commandLineVars => ShowInv'
<1> SUFFICES ASSUME ShowInv, [CommandNext]_commandLineVars
             PROVE  ShowInv'
  OBVIOUS
<1>1. InputInv'
  BY InputInvInductive DEF ShowInv
<1>2. CASE OtherChange \/ Serve
  BY <1>1, <1>2, OtherKeeps, ServeKeeps DEF ShowInv, ShowParts
<1>3. CASE ShowStep
  BY <1>1, <1>3, HaltsKeeps, MovesKeep DEF ShowStep, ShowInv, ShowParts
<1>4. CASE UNCHANGED commandLineVars
  <2>1. UNCHANGED <<table, link, requests, replies, pending, stage, command, target, list, gaveUp, result>>
    BY <1>4 DEF commandLineVars, attachVars, pickerVars, tableVars, commandVars
  <2>2. TableFits' /\ LinkFits' /\ MainInv'
    BY <2>1 DEF ShowInv, TableFits, LinkFits, MainInv, Awaits
  <2>3. ListsAwaited' /\ ExitFollows' /\ ExitNoticed'
    BY <2>1 DEF ShowInv, ListsAwaited, ExitFollows, ExitNoticed, IsList, Exited, Event, Listening
  <2>4. ListComes'
    BY <2>1 DEF ShowInv, ListComes, Asked, Stirs, Comes, Here, IsList, Listed
  <2> QED BY <1>1, <2>1, <2>2, <2>3, <2>4 DEF ShowInv
<1> QED BY <1>2, <1>3, <1>4, AnsweredShows, NotifiedShows, TimeOutShows, TypesAttachedShows, TypesPickingShows,
           PollShows, ConnectShows, LinkClosesShows DEF CommandNext

LEMMA ShowInvStarts == CommandInit => ShowInv
<1> SUFFICES ASSUME CommandInit
             PROVE  ShowInv
  OBVIOUS
<1>1. /\ link = "none" /\ requests = <<>> /\ replies = <<>> /\ pending = {} /\ stage = "start"
      /\ table \in [Session -> {"unborn", "alive"}] /\ command \in Command
  BY DEF CommandInit
<1>2. Orderly(pending, requests, replies)
  BY <1>1, OrderlyEmpty
<1>3. Len(replies) = 0 /\ Len(requests) = 0
  BY <1>1, NoneYet
<1>4. TableFits /\ LinkFits /\ MainInv
  BY <1>1 DEF TableFits, LinkFits, MainInv
<1>5. ListsAwaited /\ ExitFollows /\ ExitNoticed /\ ListComes
  BY <1>1, <1>3 DEF ListsAwaited, ExitFollows, ExitNoticed, ListComes, Listening
<1>6. InputInv
  BY InputInvStarts
<1> QED BY <1>2, <1>4, <1>5, <1>6 DEF ShowInv

LEMMA ShowInvGives == ShowInv => ShowsPtyd
<1> SUFFICES ASSUME ShowInv
             PROVE  ShowsPtyd
  OBVIOUS
<1>1. Len(<<>>) = 0
  BY NoneYet
<1>2. ASSUME command \in {"new", "attach"}, stage = "attached", replies = <<>>
      PROVE  table[target] # "exited"
  <2>1. result = "none"
    BY <1>2 DEF ShowInv, InputInv
  <2> QED BY <1>1, <1>2, <2>1 DEF ShowInv, ExitNoticed, Listening
<1>3. ASSUME command = "pick", stage = "picking", link = "up", ~gaveUp, pending = {}, replies = <<>>
      PROVE  list = Listed(table)
  <2>1. ~Asked
    BY <1>3 DEF ShowInv, ListsAwaited, Asked
  <2>2. Stirs \/ Comes \/ Here
    BY <1>3, <2>1 DEF ShowInv, ListComes
  <2> QED BY <1>1, <1>3, <2>2 DEF Stirs, Comes, Here
<1> QED BY <1>2, <1>3 DEF ShowsPtyd

(* What a command shows is what ptyd has: a terminal that `new` or `attach` *)
(* has taken over is not in front of a shell that has ended, and the picker *)
(* shows ptyd's list when nothing is under way - for any number of sessions *)
(* and other clients, keys and messages under way, whatever is refused, and *)
(* with answers that come after their deadline (src/cli/attach.ts, tui.ts,  *)
(* src/shared/ptyd-client.ts).                                              *)
THEOREM ShowsAlwaysPtyd == CommandSpec => []ShowsPtyd
BY ShowInvStarts, ShowInvInductive, ShowInvGives, PTL DEF CommandSpec
===============================================================================
