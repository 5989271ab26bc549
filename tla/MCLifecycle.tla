----------------------------- MODULE MCLifecycle -----------------------------
(***************************************************************************)
(* Instances of PtydStartup, WarmPool and CommandLine for TLC: a behaviour *)
(* is of one of them, while the others wait in an initial state.           *)
(***************************************************************************)
EXTENDS PtydStartup, WarmPool, CommandLine

CONSTANTS p1, p2, p3, i1, i2, i3, i4, prefix, d, x

ThreeProcesses == {p1, p2, p3}
FourIds == {i1, i2, i3, i4}

Letters  == {x}
Sessions == 1..2
Second   == {2}
Commands == {"ls", "new", "attach", "kill", "force", "lock", "unlock", "rename", "pick"}

(* The pool when nothing is to happen in it: Registry.stop has come at once. *)
Stopped ==
  /\ ~running /\ sessions = {} /\ warmPool = {} /\ poolFill = 0 /\ now = 0
  /\ \A i \in Id : shell[i] = "none"

CommandWaits == CommandInit /\ command = "ls" /\ \A i \in Session : table[i] = "unborn"

LifecycleInit ==
  /\ StartupInit /\ CommandInit
  /\ \/ Init
     \/ /\ running = FALSE /\ sessions = {} /\ warmPool = {} /\ poolFill = 0 /\ now = 0
        /\ shell = [i \in Id |-> "none"]

(* Nothing of either fairness is enabled while its module waits. *)
LifecycleNext ==
  \/ Stopped /\ CommandWaits /\ StartupNext /\ UNCHANGED <<vars, commandLineVars>>
  \/ StartupInit /\ CommandWaits /\ Next /\ UNCHANGED <<startupVars, commandLineVars>>
  \/ StartupInit /\ Stopped /\ CommandNext /\ UNCHANGED <<startupVars, vars>>

LifecycleSpec ==
  /\ LifecycleInit /\ [][LifecycleNext]_<<startupVars, vars, commandLineVars>>
  /\ Fairness /\ CommandFairness
=============================================================================
