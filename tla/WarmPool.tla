------------------------------- MODULE WarmPool -------------------------------
(***************************************************************************)
(* Where sessions come from: Registry.create, the pool of shells spawned   *)
(* ahead of demand, its refill one shell per turn of the event loop, the   *)
(* periodic sweep, and Registry.stop (src/ptyd/registry.ts).               *)
(*                                                                         *)
(* Ids are random and an id that is free again may be drawn again.  A      *)
(* shell is known here by its id and by what its Session knows of it.      *)
(***************************************************************************)
EXTENDS Integers, FiniteSets

CONSTANTS
  Id,               \* session ids
  warmPoolEnabled,  \* Config.warmPoolEnabled
  warmPoolSize,     \* Config.warmPoolSize
  warmPoolMaxIdle,  \* Config.warmPoolMaxIdleMs, in ticks
  MaxSessions,      \* bound of the model: sessions in the table at once
  MaxNow            \* bound of the model: the last tick of the clock

ASSUME WarmPoolAssumption ==
  /\ warmPoolEnabled \in BOOLEAN
  /\ warmPoolSize \in Int
  /\ warmPoolMaxIdle \in Nat
  /\ MaxSessions \in Nat
  /\ MaxNow \in Nat

VARIABLES
  running,   \* Registry.running
  sessions,  \* keys of Registry.sessions
  warmPool,  \* Registry.warmPool
  poolFill,  \* how many setImmediate callbacks are scheduled to refill it
  shell,     \* Session.alive of each undisposed Session, "none" if there is none
  now        \* Date.now()

vars == <<running, sessions, warmPool, poolFill, shell, now>>

WarmShell == [id : Id, bornAt : Nat]

Target == IF warmPoolSize < 0 THEN 0 ELSE IF warmPoolSize > 32 THEN 32 ELSE warmPoolSize

Parked(pool) == {w.id : w \in pool}

(* freshId: neither a session nor a parked shell has it.  An id discarded a *)
(* moment ago in the same call could be drawn again, one time in 2^60; that *)
(* coincidence is left out.                                                 *)
FreshIds == Id \ (sessions \cup Parked(warmPool))

RoomInTable == Cardinality(sessions) < MaxSessions

(* Fault: a refill that is scheduled already is not noticed. *)
FilledTwice(pool, scheduled) ==
  IF running /\ warmPoolEnabled /\ Cardinality(pool) < Target
  THEN scheduled + 1 ELSE scheduled

(* Fault: only an empty pool is filled. *)
FilledWhenEmpty(pool, scheduled) ==
  IF running /\ warmPoolEnabled /\ scheduled = 0 /\ pool = {} /\ Target > 0
  THEN 1 ELSE scheduled

(* fillPool: how many refills are scheduled after a call of it. *)
Filled(pool, scheduled) ==
  IF running /\ warmPoolEnabled /\ scheduled = 0 /\ Cardinality(pool) < Target
  THEN 1 ELSE scheduled

(* Fault: a shell that exited while it was parked counts as usable. *)
YoungEnough(w) == w.bornAt >= now - warmPoolMaxIdle

(* discardUnusableWarm: what stays, and the shells once the rest is disposed. *)
Usable(w) == shell[w.id] = "alive" /\ w.bornAt >= now - warmPoolMaxIdle
Kept      == {w \in warmPool : Usable(w)}
Disposed(pool) == [i \in Id |-> IF i \in Parked(pool) THEN "none" ELSE shell[i]]

(* Fault: an unusable shell is dropped from the pool and forgotten. *)
Forgotten == shell

Discarded == Disposed(warmPool \ Kept)

(* warmPool.shift(): the shell that was parked first. *)
Oldest(pool) == {w \in pool : \A x \in pool : w.bornAt <= x.bornAt}

-----------------------------------------------------------------------------
(* Registry.start, before the socket listens. *)
Init ==
  /\ running = TRUE
  /\ sessions = {}
  /\ warmPool = {}
  /\ poolFill = IF warmPoolEnabled /\ Target > 0 THEN 1 ELSE 0
  /\ shell = [i \in Id |-> "none"]
  /\ now = 0

(* A default `create` finds a parked shell: claimWarm. *)
Claim(w) ==
  /\ running /\ warmPoolEnabled /\ RoomInTable
  /\ w \in Oldest(Kept)
  /\ warmPool' = Kept \ {w}
  /\ sessions' = sessions \cup {w.id}
  /\ poolFill' = Filled(Kept \ {w}, poolFill)
  /\ shell' = Discarded
  /\ UNCHANGED <<running, now>>

(* A default `create` finds none, or the pool is off: a refill is scheduled *)
(* and a shell is spawned, which may throw.                                 *)
CreateFresh ==
  /\ running /\ RoomInTable
  /\ warmPoolEnabled => Kept = {}
  /\ warmPool' = IF warmPoolEnabled THEN Kept ELSE warmPool
  /\ poolFill' = Filled(warmPool', poolFill)
  /\ LET left == IF warmPoolEnabled THEN Discarded ELSE shell IN
     \/ \E i \in FreshIds :
          /\ sessions' = sessions \cup {i}
          /\ shell' = [left EXCEPT ![i] = "alive"]
     \/ shell' = left /\ UNCHANGED sessions
  /\ UNCHANGED <<running, now>>

(* A `create` with its own command, directory or environment never touches the pool. *)
CreateCustom(i) ==
  /\ running /\ RoomInTable
  /\ i \in FreshIds
  /\ sessions' = sessions \cup {i}
  /\ shell' = [shell EXCEPT ![i] = "alive"]
  /\ UNCHANGED <<running, warmPool, poolFill, now>>

(* A shell with the default directory, environment and size, under an id of *)
(* its own, which is nobody's session yet.                                  *)
spawnWarm(i) == [id |-> i, bornAt |-> now]

(* The setImmediate callback of fillPool: one more shell, and again. *)
Refill(i) ==
  /\ poolFill > 0 /\ running
  /\ i \in FreshIds
  /\ warmPool' = warmPool \cup {spawnWarm(i)}
  /\ shell' = [shell EXCEPT ![i] = "alive"]
  /\ poolFill' = Filled(warmPool', poolFill - 1)
  /\ UNCHANGED <<running, sessions, now>>

(* The same callback when the spawn throws: nothing is retried before the sweep. *)
RefillFails ==
  /\ poolFill > 0
  /\ poolFill' = poolFill - 1
  /\ UNCHANGED <<running, sessions, warmPool, shell, now>>

(* procTimer: sweepPool. *)
Sweep ==
  /\ running
  /\ warmPool' = Kept
  /\ shell' = Discarded
  /\ poolFill' = Filled(Kept, poolFill)
  /\ UNCHANGED <<running, sessions, now>>

(* The shell exited by itself (Session.onExit). *)
Exit(i) ==
  /\ shell[i] = "alive"
  /\ shell' = [shell EXCEPT ![i] = "exited"]
  /\ UNCHANGED <<running, sessions, warmPool, poolFill, now>>

(* Registry.remove *)
RemoveSession(i) ==
  /\ i \in sessions
  /\ sessions' = sessions \ {i}
  /\ shell' = [shell EXCEPT ![i] = "none"]
  /\ UNCHANGED <<running, warmPool, poolFill, now>>

Tick ==
  /\ now < MaxNow
  /\ now' = now + 1
  /\ UNCHANGED <<running, sessions, warmPool, poolFill, shell>>

(* Registry.stop *)
Stop ==
  /\ running
  /\ running' = FALSE
  /\ poolFill' = 0
  /\ shell' = [i \in Id |-> IF i \in sessions \cup Parked(warmPool) THEN "none" ELSE shell[i]]
  /\ sessions' = {}
  /\ warmPool' = {}
  /\ UNCHANGED now

Create == CreateFresh \/ (\E w \in warmPool : Claim(w)) \/ (\E i \in Id : CreateCustom(i))

Next ==
  \/ \E w \in warmPool : Claim(w)
  \/ CreateFresh
  \/ \E i \in Id : CreateCustom(i) \/ Refill(i) \/ Exit(i) \/ RemoveSession(i)
  \/ RefillFails \/ Sweep \/ Tick \/ Stop

Spec == Init /\ [][Next]_vars

(* The process timer and scheduled immediates run.  That a spawn tried over *)
(* and over succeeds in the end is assumed of the operating system.         *)
Fairness ==
  /\ WF_vars(Sweep)
  /\ WF_vars(RefillFails \/ \E i \in Id : Refill(i))
  /\ SF_vars(\E i \in Id : Refill(i))

FairSpec == Spec /\ Fairness

-----------------------------------------------------------------------------
TypeOK ==
  /\ running \in BOOLEAN
  /\ sessions \subseteq Id
  /\ warmPool \subseteq WarmShell
  /\ poolFill \in Nat
  /\ shell \in [Id -> {"none", "alive", "exited"}]
  /\ now \in Nat

(* Refills never overshoot: at most one is scheduled, only while the pool   *)
(* is short, so the pool holds at most the configured number of shells      *)
(* whatever creates, sweeps and refills interleave.                         *)
PoolBounded ==
  /\ Cardinality(warmPool) <= Target
  /\ poolFill <= 1
  /\ poolFill = 1 => Cardinality(warmPool) < Target

(* No shell is lost: each one that lives is a session or parked, so removal *)
(* and Registry.stop reach it, and after stop there is none.                *)
NoOrphanShell ==
  /\ \A i \in Id : shell[i] # "none" => i \in sessions \cup Parked(warmPool)
  /\ ~running => \A i \in Id : shell[i] = "none"

(* "Never hand out an exited shell, or one with an excessively old          *)
(* environment": what a create takes from the pool is neither, at the       *)
(* moment it takes it.                                                      *)
ClaimsUsable ==
  [][\A w \in warmPool : w.id \in sessions' \ sessions => shell[w.id] = "alive"
                                                   /\ now - w.bornAt <= warmPoolMaxIdle]_vars

(* When nothing is created and no parked shell dies any more, the pool      *)
(* fills up for good.                                                       *)
Churn == Create \/ Tick \/ \E i \in Id : Exit(i) \/ RemoveSession(i)

FillsWhenQuiet ==
  <>[][~Churn]_vars =>
    <>[](~running \/ ~warmPoolEnabled
         \/ (Cardinality(warmPool) = Target /\ \A w \in warmPool : Usable(w)))
=============================================================================
