----------------------------- MODULE DeviceSockets -----------------------------
(***************************************************************************)
(* The web sockets of the gateway and the devices they belong to           *)
(* (attachWebSockets, handleEvents and the connection that handleTerminal  *)
(* keeps to ptyd, src/web/ws.ts), with the removals of src/web/auth.ts     *)
(* that cut them and a gateway that is stopped or dies.                    *)
(*                                                                         *)
(* A socket that is terminated or closed is `closing` until its close      *)
(* event.  DeviceAuth has the secrets a device is known by, TerminalView   *)
(* what a terminal's socket carries.  On a trusted network sockets have no *)
(* device, and nothing of this cuts them but the heartbeat.                *)
(***************************************************************************)
EXTENDS Integers, FiniteSets

CONSTANTS
  Device, \* device ids
  Ws      \* web sockets, used again when nothing is left of them

VARIABLES
  devices,     \* Auth.devices
  devicesFile, \* the devices file
  ws,          \* the sockets: state and identity
  groups,      \* the sockets of each device, {} for none
  answered,    \* `alive`: sockets that have answered the last ping
  listening,   \* sockets with handlers of control's events
  handler,     \* handleTerminal: where it waits, whether it has a client
  stopped,     \* shutdown() was called
  silent,      \* history: pings a socket has not answered
  untold       \* history: devices whose removal no heartbeat has followed, and was not announced

socketVars == <<devices, devicesFile, ws, groups, answered, listening, handler, stopped, silent, untold>>
deviceVars == <<devices, devicesFile, untold>>

Waits   == {"nothing", "connect", "connected", "get", "subscribe"}
NoWs    == [state |-> "none"]
Idle    == [at |-> "nothing", client |-> FALSE, ended |-> FALSE]

Of(s, id)    == ws[s].state # "none" /\ ws[s].device = id
IsOpen(s)    == ws[s].state = "open"

(* authorised(), as long as it does not terminate the socket. *)
Authorised(s) == ws[s].device \in devices

(* active() *)
Active(s) == ~handler[s].ended /\ IsOpen(s) /\ Authorised(s)

(* ws.terminate(), ws.close() *)
Cut(sockets) == [s \in Ws |-> IF s \in sockets /\ IsOpen(s) THEN [ws[s] EXCEPT !.state = "closing"] ELSE ws[s]]

(* cleanup() *)
CleanedUp(h) == [h EXCEPT !.client = FALSE, !.ended = TRUE]

SocketsInit ==
  /\ devices = {} /\ devicesFile = {}
  /\ ws = [s \in Ws |-> NoWs]
  /\ groups = [id \in Device |-> {}]
  /\ answered = {} /\ listening = {}
  /\ handler = [s \in Ws |-> Idle]
  /\ stopped = FALSE
  /\ silent = [s \in Ws |-> 0]
  /\ untold = {}

-----------------------------------------------------------------------------
(* Devices. *)

(* issueDevice.  Ids are not used twice. *)
Issue(id, saved) ==
  /\ id \notin devices \cup untold /\ \A s \in Ws : ~Of(s, id)
  /\ devices' = devices \cup {id}
  /\ devicesFile' = IF saved THEN devices' ELSE devicesFile
  /\ UNCHANGED <<ws, groups, answered, listening, handler, stopped, silent, untold>>

(* announceRevocation is heard until shutdown(). *)
Announced(sockets) == ws' = IF stopped THEN ws ELSE Cut(sockets)

(* removeDevice, by logout, by a request of another device, for a secret    *)
(* that was retired; pruneDevices.  Nobody is told when the write fails.    *)
RemoveThese(ids, saved) ==
  /\ ids \subseteq devices /\ ids # {}
  /\ devices' = devices \ ids
  /\ IF saved
     THEN devicesFile' = devices' /\ Announced(UNION {groups[id] : id \in ids}) /\ UNCHANGED untold
     ELSE untold' = untold \cup ids /\ UNCHANGED <<devicesFile, ws>>
  /\ UNCHANGED <<groups, answered, listening, handler, stopped, silent>>

RevokeAll(saved) ==
  /\ devices' = {}
  /\ IF saved
     THEN devicesFile' = {} /\ Announced(UNION {groups[id] : id \in Device}) /\ UNCHANGED untold
     ELSE untold' = untold \cup devices /\ UNCHANGED <<devicesFile, ws>>
  /\ UNCHANGED <<groups, answered, listening, handler, stopped, silent>>

(* saveDevicesSoon, and the writes of a rotation. *)
SavedLater ==
  /\ devicesFile # devices
  /\ devicesFile' = devices
  /\ UNCHANGED <<devices, ws, groups, answered, listening, handler, stopped, silent, untold>>

-----------------------------------------------------------------------------
(* Sockets. *)

(* upgrade(): the request's origin is allowed and its device is known, else *)
(* it is answered with an error.  track(), and then handleEvents or         *)
(* handleTerminal up to its first await.                                    *)
Upgrade(s, id, kind) ==
  /\ ~stopped /\ id \in devices
  /\ ws[s] = NoWs /\ handler[s].at = "nothing"
  /\ ws' = [ws EXCEPT ![s] = [state |-> "open", device |-> id]]
  /\ groups' = [groups EXCEPT ![id] = @ \cup {s}]
  /\ answered' = answered \cup {s}
  /\ silent' = [silent EXCEPT ![s] = 0]
  /\ listening' = IF kind = "events" THEN listening \cup {s} ELSE listening
  /\ handler' = [handler EXCEPT ![s] = IF kind = "terminal" THEN [Idle EXCEPT !.at = "connect"] ELSE Idle]
  /\ UNCHANGED <<deviceVars, stopped>>

(* The other end closes it, or it fails, which handleTerminal hears first.  *)
Ends(s, fails) ==
  /\ IsOpen(s)
  /\ ws' = Cut({s})
  /\ handler' = IF fails THEN [handler EXCEPT ![s] = CleanedUp(@)] ELSE handler
  /\ UNCHANGED <<deviceVars, groups, answered, listening, stopped, silent>>

(* Fault: the first socket of a device that goes takes its group with it.   *)
UntrackedAll(s) == [groups EXCEPT ![ws[s].device] = {}]

Untracked(s) == [groups EXCEPT ![ws[s].device] = @ \ {s}]

(* The handlers of close: of track, of handleEvents, of handleTerminal. *)
Closed(s) ==
  /\ ws[s].state = "closing"
  /\ ws' = [ws EXCEPT ![s] = NoWs]
  /\ groups' = Untracked(s)
  /\ answered' = answered \ {s}
  /\ listening' = listening \ {s}
  /\ handler' = [handler EXCEPT ![s] = CleanedUp(@)]
  /\ silent' = [silent EXCEPT ![s] = 0]
  /\ UNCHANGED <<deviceVars, stopped>>

(* A message of a device that is gone ends the socket; see TerminalView for *)
(* what others do.                                                          *)
MessageOfNone(s) ==
  /\ IsOpen(s) /\ ~Authorised(s)
  /\ ws' = Cut({s})
  /\ UNCHANGED <<deviceVars, groups, answered, listening, handler, stopped, silent>>

Pong(s) ==
  /\ IsOpen(s) /\ silent[s] > 0
  /\ answered' = answered \cup {s}
  /\ silent' = [silent EXCEPT ![s] = 0]
  /\ UNCHANGED <<deviceVars, ws, groups, listening, handler, stopped>>

(* The interval of HEARTBEAT_MS *)
Beat ==
  /\ ~stopped
  /\ LET bad == {s \in Ws : IsOpen(s) /\ (~Authorised(s) \/ s \notin answered)}
     IN /\ ws' = Cut(bad)
        /\ answered' = answered \cap bad
        /\ silent' = [s \in Ws |-> IF IsOpen(s) /\ s \notin bad THEN silent[s] + 1 ELSE silent[s]]
  /\ untold' = {}
  /\ UNCHANGED <<devices, devicesFile, groups, listening, handler, stopped>>

-----------------------------------------------------------------------------
(* handleTerminal, and its connection to ptyd. *)

Handles(s, h) == handler' = [handler EXCEPT ![s] = h]

(* PtydClient.connect resolves; once aborted, it rejects. *)
Connects(s) ==
  /\ handler[s].at = "connect" /\ ~handler[s].ended
  /\ Handles(s, [handler[s] EXCEPT !.at = "connected"])
  /\ UNCHANGED <<deviceVars, ws, groups, answered, listening, stopped, silent>>

(* After an await: on to the next one, or the end of it.  authorised()      *)
(* terminates a socket whose device is gone.                                *)
GoesOn(s) ==
  /\ handler[s].at = "connected" \/ (handler[s].at \in {"get", "subscribe"} /\ handler[s].client)
  /\ LET h == [handler[s] EXCEPT !.client = TRUE,
                 !.at = CASE @ = "connected" -> "get" [] @ = "get" -> "subscribe" [] OTHER -> "nothing"]
     IN Handles(s, IF Active(s) THEN h ELSE CleanedUp([h EXCEPT !.at = "nothing"]))
  /\ ws' = IF IsOpen(s) /\ ~handler[s].ended /\ ~Authorised(s) THEN Cut({s}) ELSE ws
  /\ UNCHANGED <<deviceVars, groups, answered, listening, stopped, silent>>

(* It rejects; without a connection there is nothing to clean up yet. *)
Fails(s) ==
  /\ handler[s].at \in {"connect", "get", "subscribe"}
  /\ LET over == [handler[s] EXCEPT !.at = "nothing"]
     IN Handles(s, IF handler[s].at = "connect" THEN over ELSE CleanedUp(over))
  /\ ws' = IF handler[s].ended THEN ws ELSE Cut({s})
  /\ UNCHANGED <<deviceVars, groups, answered, listening, stopped, silent>>

(* onClose: ptyd goes.  The client that is left is a closed one.            *)
PtydGoes(s) ==
  /\ handler[s].client /\ ~handler[s].ended /\ IsOpen(s)
  /\ ws' = Cut({s})
  /\ UNCHANGED <<deviceVars, groups, answered, listening, handler, stopped, silent>>

-----------------------------------------------------------------------------
(* shutdown(): what attachWebSockets returned is called. *)
Stop ==
  /\ ~stopped
  /\ stopped' = TRUE
  /\ ws' = Cut(Ws)
  /\ UNCHANGED <<deviceVars, groups, answered, listening, handler, silent>>

(* The gateway exits or dies, and another one starts. *)
StartsAgain ==
  /\ devices' = devicesFile
  /\ ws' = [s \in Ws |-> NoWs]
  /\ groups' = [id \in Device |-> {}]
  /\ answered' = {} /\ listening' = {}
  /\ handler' = [s \in Ws |-> Idle]
  /\ stopped' = FALSE
  /\ silent' = [s \in Ws |-> 0]
  /\ untold' = {}
  /\ UNCHANGED devicesFile

SocketsNext ==
  \/ SavedLater \/ Beat \/ Stop \/ StartsAgain
  \/ \E saved \in BOOLEAN :
       \/ RevokeAll(saved)
       \/ \E id \in Device : Issue(id, saved)
       \/ \E ids \in SUBSET devices : RemoveThese(ids, saved)
  \/ \E s \in Ws :
       \/ Closed(s) \/ MessageOfNone(s) \/ Pong(s)
       \/ Connects(s) \/ GoesOn(s) \/ Fails(s) \/ PtydGoes(s)
       \/ \E fails \in BOOLEAN : Ends(s, fails)
       \/ \E id \in devices, kind \in {"events", "terminal"} : Upgrade(s, id, kind)

SocketsSpec == SocketsInit /\ [][SocketsNext]_socketVars

-----------------------------------------------------------------------------
SocketsTypeOK ==
  /\ devices \subseteq Device /\ devicesFile \subseteq Device /\ untold \subseteq Device
  /\ \A s \in Ws : ws[s] = NoWs \/ (ws[s].state \in {"open", "closing"} /\ ws[s].device \in Device)
  /\ groups \in [Device -> SUBSET Ws]
  /\ answered \subseteq Ws /\ listening \subseteq Ws
  /\ handler \in [Ws -> [at : Waits, client : BOOLEAN, ended : BOOLEAN]]
  /\ stopped \in BOOLEAN /\ silent \in [Ws -> Nat]

(* A removal reaches every socket of the device, however its other sockets  *)
(* came and went; one whose write failed does so with the next heartbeat at *)
(* the latest, and a socket that has stopped answering goes with the second *)
(* ("Heartbeats reap those", ws.ts).  A socket that is gone leaves neither  *)
(* handlers nor a connection to ptyd, wherever its handler was waiting.     *)
SocketsFollow ==
  \A s \in Ws :
    /\ IsOpen(s) => ws[s].device \in devices \cup untold /\ silent[s] <= 1
    /\ ws[s] = NoWs => s \notin listening /\ (handler[s].at = "nothing" => ~handler[s].client)
=============================================================================
