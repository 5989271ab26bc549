------------------------------ MODULE PtydStartup ------------------------------
(***************************************************************************)
(* Processes that want to be ptyd: clearStaleSocket, main and shutdown of  *)
(* src/ptyd/index.ts around one socket file and one session file.  Each    *)
(* system call is a step; processes die at any point.                      *)
(*                                                                         *)
(* Closing a server that listens on a file unlinks the file (Node).        *)
(***************************************************************************)
CONSTANTS
  Process,
  None,    \* no socket file, nobody's sessions
  Debris   \* a socket file nobody listens on

ASSUME PtydStartupAssumption == None # Debris /\ {None, Debris} \cap Process = {}

VARIABLES
  pc,      \* how far each process has come
  socket,  \* who listens on the socket file
  record,  \* whose sessions the session file lists
  crossed  \* history: who listened or wrote its sessions across a start or a stop

startupVars == <<pc, socket, record, crossed>>

Starting == {"refused", "clear", "started"}
Stopping == {"closing", "stopped"}

Others(p)   == Process \ {p}
At(p, from, to) == pc[p] = from /\ pc' = [pc EXCEPT ![p] = to]

StartupInit ==
  /\ pc = [p \in Process |-> "off"]
  /\ socket = None
  /\ record = None
  /\ crossed = {}

(* p acts on a file at a point of another process where that one counts on  *)
(* what it has found or written there, or is about to remove it.            *)
Crossing(p, where) ==
  crossed' = IF \E q \in Others(p) : pc[q] \in where THEN crossed \cup {p} ELSE crossed

(* What a probe of the socket file makes of a process. *)
Found ==
  IF socket = None THEN "clear" ELSE IF socket = Debris THEN "refused" ELSE "failed"

(* Fault: the sessions of a previous ptyd are cleared first of all. *)
ProbeAfterStart(p) ==
  /\ At(p, "off", Found)
  /\ record' = p
  /\ UNCHANGED <<socket, crossed>>

(* The socket file is looked for and connected to: no file, a refusal, or   *)
(* an answer.                                                               *)
Probe(p) ==
  /\ At(p, "off", Found)
  /\ UNCHANGED <<socket, record, crossed>>

(* Fault: debris is left where it is. *)
LeaveDebris(p) ==
  /\ At(p, "refused", "clear")
  /\ UNCHANGED <<socket, record, crossed>>

(* The file that was refused goes, or the one that is there by now. *)
Unlink(p) ==
  /\ At(p, "refused", "clear")
  /\ socket' = None
  /\ UNCHANGED <<record, crossed>>

(* Registry.start: a clean session file. *)
StartRegistry(p) ==
  /\ At(p, "clear", "started")
  /\ record' = p
  /\ Crossing(p, {"started"})
  /\ UNCHANGED socket

(* startIpcServer: listen() fails where there is a file. *)
Listen(p) ==
  /\ \/ /\ socket = None
        /\ At(p, "started", "serving")
        /\ socket' = p
        /\ Crossing(p, Starting \cup Stopping)
     \/ /\ socket # None
        /\ At(p, "started", "failed")
        /\ UNCHANGED <<socket, crossed>>
  /\ UNCHANGED record

(* Registry.persistNow after changes. *)
Persist(p) ==
  /\ pc[p] = "serving"
  /\ record' = p
  /\ UNCHANGED <<pc, socket, crossed>>

(* shutdown: server.close(). *)
ShutDown(p) ==
  /\ At(p, "serving", "closing")
  /\ socket' = None
  /\ UNCHANGED <<record, crossed>>

StopRegistry(p) ==
  /\ At(p, "closing", "stopped")
  /\ record' = p
  /\ Crossing(p, {"started"})
  /\ UNCHANGED socket

(* unlinkSync again, and exit. *)
ExitProcess(p) ==
  /\ At(p, "stopped", "off")
  /\ socket' = None
  /\ UNCHANGED <<record, crossed>>

(* A process that failed to start is started again after RestartSec. *)
Restart(p) ==
  /\ At(p, "failed", "off")
  /\ UNCHANGED <<socket, record, crossed>>

(* Killed, or a signal before the handlers are there. *)
Crash(p) ==
  /\ pc[p] \in Starting \cup Stopping \cup {"serving"}
  /\ pc' = [pc EXCEPT ![p] = "off"]
  /\ socket' = IF socket = p THEN Debris ELSE socket
  /\ UNCHANGED <<record, crossed>>

StartupNext == \E p \in Process :
  \/ Probe(p) \/ Unlink(p) \/ StartRegistry(p) \/ Listen(p) \/ Persist(p)
  \/ ShutDown(p) \/ StopRegistry(p) \/ ExitProcess(p) \/ Restart(p) \/ Crash(p)

StartupSpec == StartupInit /\ [][StartupNext]_startupVars

-----------------------------------------------------------------------------
Serving == {p \in Process : pc[p] = "serving"}

(* Only a ptyd that serves listens. *)
StartupTypeOK ==
  /\ pc \in [Process -> {"off", "failed", "serving"} \cup Starting \cup Stopping]
  /\ socket \in Serving \cup {None, Debris}
  /\ record \in Process \cup {None}
  /\ crossed \subseteq Process

(* A ptyd that serves can be reached: the socket file is its own, so no two *)
(* of them serve, each with half of the user's sessions; and so is the      *)
(* session file: an attempt to start a second one does not clear it.  Until *)
(* a process has listened while another was between its look at the socket  *)
(* file and its own listen, or between its close and its exit; or has       *)
(* written its sessions over those of one that was about to listen.         *)
FilesAreOwn == crossed = {} => \A p \in Serving : socket = p /\ record = p

(* "A socket file left behind by a crashed ptyd would block listen()"       *)
(* (src/ptyd/index.ts): a start fails only because another ptyd serves,     *)
(* with the same reservation.                                               *)
FailsForAnother ==
  [][\A p \in Process :
        pc'[p] = "failed" /\ pc[p] # "failed" /\ crossed = {} => Serving \ {p} # {}]_startupVars

(* "if something answers, another ptyd is live and we must not start"       *)
(* (src/ptyd/index.ts).                                                     *)
OneServing == \A p, q \in Serving : p = q
=============================================================================
