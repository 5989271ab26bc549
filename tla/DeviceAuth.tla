------------------------------ MODULE DeviceAuth ------------------------------
(***************************************************************************)
(* The credential of one browser: how the gateway accepts, rotates and     *)
(* retires its secret (authenticate and maybeRotate of src/web/auth.ts, as *)
(* handleRequest of src/web/index.ts and upgrade of src/web/ws.ts call     *)
(* them), with requests and responses that overlap, take time or are lost, *)
(* writes of the device file that fail, and restarts of the gateway.       *)
(*                                                                         *)
(* Only equality of secrets matters, so a new one is any that nobody holds *)
(* any more.  Times are kept as ages: what is compared with the clock is   *)
(* how long ago the secret was rotated and how long the previous one still *)
(* counts.                                                                 *)
(***************************************************************************)
EXTENDS Integers, FiniteSets

CONSTANTS
  Secret,      \* secrets
  NoSecret,    \* prevHash of a device that was never rotated
  Gone,        \* no record of the device
  RotateAfter, \* ROTATE_AFTER_MS
  Grace,       \* ROTATION_GRACE_MS
  Delay,       \* the longest time a request or a response is under way
  MaxTraffic   \* bound of the model: requests, and responses, under way

ASSUME DeviceAuthAssumption ==
  /\ NoSecret \notin Secret
  /\ {RotateAfter, Grace, Delay, MaxTraffic} \subseteq Nat
  /\ Grace < RotateAfter
  /\ 2 * Delay <= Grace

VARIABLES
  device,    \* the DeviceRecord, or Gone
  file,      \* that of the devices file
  saveTimer, \* Auth.saveTimer is armed
  socket,    \* a WebSocket of the device is open
  cookie,    \* the secret in the browser's cookie
  requests,  \* under way to the gateway
  responses, \* under way to the browser, with a Set-Cookie
  refused,   \* history: a request of the browser was refused
  over       \* history: "no", or the device was logged out, revoked or has
             \* expired, and the file says so ("saved") or not ("unsaved")

vars == <<device, file, saveTimer, socket, cookie, requests, responses, refused, over>>

gateway == <<device, file, saveTimer, socket, refused, over>>

Age    == 0..(RotateAfter + 1)
Record == [hash : Secret, prevHash : Secret \cup {NoSecret}, confirmed : BOOLEAN,
           rotated : Age,              \* ticks since rotatedAt, as far as compared
           prevLeft : -1..Grace]       \* ticks to prevExpiresAt, -1 once it is past

ASSUME GoneAssumption == Gone \notin Record

Traffic == [secret : Secret, age : 0..Delay]

(* What a request asks for: a page or font, the API, or an upgrade. *)
Kind == {"page", "api", "socket"}
Request == [secret : Secret, age : 0..Delay, kind : Kind]

-----------------------------------------------------------------------------
(* issueDevice, and the browser has its cookie. *)
Init ==
  /\ \E s \in Secret :
       /\ cookie = s
       /\ device = [hash |-> s, prevHash |-> NoSecret, confirmed |-> TRUE,
                    rotated |-> 0, prevLeft |-> -1]
  /\ file = device
  /\ saveTimer = FALSE
  /\ socket = FALSE
  /\ requests = {}
  /\ responses = {}
  /\ refused = FALSE
  /\ over = "no"

-----------------------------------------------------------------------------
(* The browser. *)

Send(kind) ==
  /\ Cardinality(requests) < MaxTraffic
  /\ requests' = requests \cup {[secret |-> cookie, age |-> 0, kind |-> kind]}
  /\ UNCHANGED gateway
  /\ UNCHANGED <<cookie, responses>>

Receive(res) ==
  /\ cookie' = res.secret
  /\ responses' = responses \ {res}
  /\ UNCHANGED gateway
  /\ UNCHANGED requests

(* A request or a response never arrives. *)
Lose ==
  /\ \/ /\ \E req \in requests : requests' = requests \ {req}
        /\ UNCHANGED responses
     \/ /\ \E res \in responses : responses' = responses \ {res}
        /\ UNCHANGED requests
  /\ UNCHANGED gateway
  /\ UNCHANGED cookie

-----------------------------------------------------------------------------
(* The gateway. *)

(* authenticate(): what it makes of a secret. *)
Current(s)  == device # Gone /\ s = device.hash
Previous(s) == device # Gone /\ s # device.hash /\ s = device.prevHash
StillCounts == ~device.confirmed \/ device.prevLeft >= 0

Accepted(s) == Current(s) \/ (Previous(s) /\ StillCounts)

(* The browser holds the new secret: the previous one starts to run out. *)
Confirms(s) == Current(s) /\ ~device.confirmed

Confirmed(d) == [d EXCEPT !.confirmed = TRUE, !.prevLeft = Grace]

(* Fault: a secret that was not picked up is sent again at once. *)
StaleAtOnce(s) == Previous(s) /\ ~device.confirmed

(* staleSecret: the new secret would have been used by now, so it was lost. *)
Stale(s) == Previous(s) /\ ~device.confirmed /\ device.rotated > Grace

(* maybeRotate() *)
RotationDue(s) == Stale(s) \/ device.rotated >= RotateAfter

Rotated(d, s, new) ==
  [d EXCEPT !.prevHash = IF Stale(s) THEN @ ELSE d.hash,
            !.hash = new, !.confirmed = FALSE, !.rotated = 0]

Held == {device.hash, device.prevHash, cookie, file.hash, file.prevHash}
          \cup {r.secret : r \in requests \cup responses}

Fresh == Secret \ Held

(* A request that is served.  Each of the two writes of the device file may *)
(* fail: the request fails with it, and what memory holds stays.            *)
Serve(req, confirmSaved, rotateSaved) ==
  LET s      == req.secret
      known  == IF Confirms(s) THEN Confirmed(device) ELSE device
      stops  == Confirms(s) /\ ~confirmSaved
      kept   == IF Confirms(s) /\ confirmSaved THEN known ELSE file
      rotate == req.kind = "api" /\ ~stops /\ RotationDue(s)
  IN /\ Accepted(s)
     /\ Confirms(s) \/ confirmSaved
     /\ rotate \/ rotateSaved
     /\ saveTimer' = (saveTimer \/ (~Confirms(s) /\ (Current(s) \/ ~device.confirmed)))
     /\ socket' = (socket \/ (req.kind = "socket" /\ ~stops))
     /\ IF rotate
        THEN \E new \in Fresh :
               /\ device' = Rotated(known, s, new)
               /\ file' = IF rotateSaved THEN device' ELSE kept
               /\ responses' = IF rotateSaved
                               THEN responses \cup {[secret |-> new, age |-> 0]}
                               ELSE responses
        ELSE device' = known /\ file' = kept /\ UNCHANGED responses
     /\ requests' = requests \ {req}
     /\ UNCHANGED <<cookie, refused, over>>

(* Fault: the file is left to the next save. *)
RemovedLater(saved) ==
  device' = Gone /\ socket' = FALSE /\ saveTimer' = TRUE /\ UNCHANGED file

(* removeDevice(): when the write fails, the device's sockets are not told. *)
Removed(saved) ==
  /\ device' = Gone
  /\ IF saved THEN file' = Gone /\ socket' = FALSE ELSE UNCHANGED <<file, socket>>
  /\ UNCHANGED saveTimer

(* A request that is not served.  A retired secret revokes the device. *)
Refuse(req, saved) ==
  /\ ~Accepted(req.secret)
  /\ refused' = TRUE
  /\ IF Previous(req.secret) THEN Removed(saved)
     ELSE saved /\ UNCHANGED <<device, file, socket, saveTimer>>
  /\ requests' = requests \ {req}
  /\ UNCHANGED <<cookie, responses, over>>

(* The timer of saveDevicesSoon.  If its write fails the gateway dies.      *)
SaveTimerFires ==
  /\ saveTimer
  /\ saveTimer' = FALSE
  /\ file' = device
  /\ UNCHANGED <<device, socket, cookie, requests, responses, refused, over>>

Restart ==
  /\ saveTimer' = FALSE
  /\ device' = file
  /\ socket' = FALSE
  /\ UNCHANGED <<file, cookie, requests, responses, refused, over>>

(* Logout, revocation, expiry: logout, revokeAll, pruneDevices. *)
Remove(saved) ==
  /\ device # Gone
  /\ Removed(saved)
  /\ over' = IF saved THEN "saved" ELSE "unsaved"
  /\ UNCHANGED <<cookie, requests, responses, refused>>

(* The heartbeat of ws.ts, and any message of the socket: authorised(). *)
Heartbeat ==
  /\ socket /\ device = Gone
  /\ socket' = FALSE
  /\ UNCHANGED <<device, file, saveTimer, cookie, requests, responses, refused, over>>

-----------------------------------------------------------------------------
Older(d) ==
  IF d = Gone THEN Gone
  ELSE [d EXCEPT !.rotated = IF @ <= RotateAfter THEN @ + 1 ELSE @,
                 !.prevLeft = IF @ >= 0 THEN @ - 1 ELSE @]

Tick ==
  /\ \A r \in requests \cup responses : r.age < Delay
  /\ device' = Older(device)
  /\ file' = Older(file)
  /\ requests' = {[r EXCEPT !.age = @ + 1] : r \in requests}
  /\ responses' = {[r EXCEPT !.age = @ + 1] : r \in responses}
  /\ UNCHANGED <<saveTimer, socket, cookie, refused, over>>

Next ==
  \/ \E kind \in Kind : Send(kind)
  \/ \E res \in responses : Receive(res)
  \/ Lose
  \/ \E req \in requests, c, r \in BOOLEAN : Serve(req, c, r)
  \/ SaveTimerFires \/ Restart \/ Heartbeat \/ Tick
  \/ \E saved \in BOOLEAN : Remove(saved) \/ \E req \in requests : Refuse(req, saved)

Spec == Init /\ [][Next]_vars

-----------------------------------------------------------------------------
TypeOK ==
  /\ device \in Record \cup {Gone}
  /\ file \in Record \cup {Gone}
  /\ {saveTimer, socket, refused} \subseteq BOOLEAN
  /\ cookie \in Secret
  /\ requests \subseteq Request
  /\ responses \subseteq Traffic
  /\ over \in {"no", "saved", "unsaved"}

(* A legitimate browser is never locked out: whatever is lost, overlaps,    *)
(* fails to be written or is forgotten in a restart, every request it makes *)
(* is served until the device is removed -- if an answer takes no longer    *)
(* than the grace period, there and back.                                   *)
NeverRefused == over = "no" => ~refused

(* A removal that was written is final: no save that comes late, no restart *)
(* and no request under way brings the device or a socket of it back.       *)
RemovedForGood == over = "saved" => device = Gone /\ ~socket
=============================================================================
