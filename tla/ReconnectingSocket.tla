-------------------------- MODULE ReconnectingSocket --------------------------
(***************************************************************************)
(* The browser's WebSocket that keeps itself alive, behind every terminal  *)
(* and the session list (web/src/reconnecting-socket.ts): timeouts while   *)
(* it connects and synchronises, pings that prove the way to the gateway   *)
(* still works, retries, the browser going offline and a page that wakes.  *)
(*                                                                         *)
(* Time passes in ticks.  A timer whose time has come fires before the     *)
(* next tick.  What delays depend on (round-trip estimates, backoff,       *)
(* jitter) is left open: a delay is any member of a set.                   *)
(***************************************************************************)
EXTENDS Integers, Sequences

CONSTANTS
  ConnectTimeout,  \* CONNECT_TIMEOUT_MS
  SyncTimeout,     \* SYNC_TIMEOUT_MS
  PingInterval,    \* PING_INTERVAL_MS
  PongTimeout,     \* the timeouts probe() may choose
  RetryDelay,      \* the delays schedule() may choose
  MaxNetEvents     \* bound of the model: online/offline events not dispatched yet

ASSUME ReconnectingSocketAssumption ==
  /\ {ConnectTimeout, SyncTimeout, PingInterval} \subseteq Nat
  /\ PongTimeout \subseteq Nat /\ PongTimeout # {}
  /\ RetryDelay \subseteq Nat /\ RetryDelay # {}
  /\ MaxNetEvents \in Nat

VARIABLES
  running,      \* ReconnectingSocket.running
  onLine,       \* navigator.onLine
  netEvents,    \* "online" and "offline" events the page has not handled yet
  socket,       \* the current WebSocket: "none", "connecting", "open", or
                \* "dead" when its route is and nobody was told
  usable,       \* ReconnectingSocket.usable
  timer,        \* ReconnectingSocket.timer: what it does, and in how many ticks
  retry,        \* ReconnectingSocket.retry: ticks to go, or Unarmed
  pendingPing,  \* ReconnectingSocket.pendingPing is set
  echoes,       \* pings of this socket not answered yet; the newest of them is
                \* the pending one, if any is
  resumeProbe,  \* ReconnectingSocket.resumeProbe
  applying,     \* a message is being applied, ready() will be called: for the
                \* current socket ("own") or one that was replaced ("late")
  reported      \* the last state given to handlers.state

vars == <<running, onLine, netEvents, socket, usable, timer, retry, pendingPing,
          echoes, resumeProbe, applying, reported>>

network == <<onLine, netEvents>>

Unarmed == -1
NoTimer == [does |-> "nothing", ticks |-> Unarmed]
FailIn(n)  == [does |-> "fail", ticks |-> n]
ProbeIn(n) == [does |-> "probe", ticks |-> n]

Due == timer.ticks = 0 \/ retry = 0

-----------------------------------------------------------------------------
Init ==
  /\ running = FALSE
  /\ onLine \in BOOLEAN
  /\ netEvents = <<>>
  /\ socket = "none"
  /\ usable = FALSE
  /\ timer = NoTimer
  /\ retry = Unarmed
  /\ pendingPing = FALSE
  /\ echoes = 0
  /\ resumeProbe = FALSE
  /\ applying = {}
  /\ reported = "closed"

(* connect(), when there is no socket. *)
Connect ==
  IF onLine
  THEN socket' = "connecting" /\ timer' = FailIn(ConnectTimeout) /\ UNCHANGED reported
  ELSE reported' = "reconnecting" /\ UNCHANGED <<socket, timer>>

(* probe(), when no ping is pending. *)
Probe ==
  /\ pendingPing' = TRUE
  /\ echoes' = echoes + 1
  /\ \E n \in PongTimeout : timer' = FailIn(n)

(* release(): what is still being applied belongs to a replaced socket now. *)
Release ==
  /\ socket' = "none"
  /\ usable' = FALSE
  /\ timer' = NoTimer
  /\ pendingPing' = FALSE
  /\ echoes' = 0
  /\ resumeProbe' = FALSE
  /\ applying' = IF applying = {} THEN {} ELSE {"late"}

(* Fault: the retry is forgotten when one failure follows another. *)
FailedOnce ==
  /\ Release
  /\ reported' = "reconnecting"
  /\ IF reported # "reconnecting" /\ onLine THEN \E n \in RetryDelay : retry' = n
     ELSE UNCHANGED retry

(* failed(), schedule(): offline, the online event is waited for instead. *)
FailedNow ==
  /\ Release
  /\ reported' = "reconnecting"
  /\ IF retry = Unarmed /\ onLine THEN \E n \in RetryDelay : retry' = n
     ELSE UNCHANGED retry

-----------------------------------------------------------------------------
Start ==
  /\ ~running
  /\ running' = TRUE
  /\ IF onLine
     THEN socket' = "connecting" /\ timer' = FailIn(ConnectTimeout) /\ reported' = "connecting"
     ELSE reported' = "reconnecting" /\ UNCHANGED <<socket, timer>>
  /\ UNCHANGED network
  /\ UNCHANGED <<usable, retry, pendingPing, echoes, resumeProbe, applying>>

Stop ==
  /\ running
  /\ running' = FALSE
  /\ Release
  /\ retry' = Unarmed
  /\ reported' = "closed"
  /\ UNCHANGED network

(* socket.onopen *)
Opened ==
  /\ socket = "connecting"
  /\ socket' = "open"
  /\ timer' = FailIn(SyncTimeout)
  /\ UNCHANGED network
  /\ UNCHANGED <<running, usable, retry, pendingPing, echoes, resumeProbe, applying, reported>>

(* socket.onclose, socket.onerror *)
Closed ==
  /\ socket # "none"
  /\ FailedNow
  /\ UNCHANGED network
  /\ UNCHANGED running

(* The route breaks, and no event says so. *)
RouteDies ==
  /\ socket \in {"connecting", "open"}
  /\ socket' = "dead"
  /\ UNCHANGED network
  /\ UNCHANGED <<running, usable, timer, retry, pendingPing, echoes, resumeProbe,
                 applying, reported>>

(* socket.onmessage, any message but a pong: the synchronisation goes on,   *)
(* and ready() is called once the message has been applied, if at all.      *)
Message ==
  /\ socket = "open"
  /\ timer' = IF usable THEN timer ELSE FailIn(SyncTimeout)
  /\ applying' \in {applying, applying \cup {"own"}}
  /\ UNCHANGED network
  /\ UNCHANGED <<running, socket, usable, retry, pendingPing, echoes, resumeProbe, reported>>

(* ready() checks that the connection it was made for is still the one. *)
ReadyFor(whose) == whose = "own" /\ socket # "none" /\ running

Ready(whose) ==
  /\ whose \in applying
  /\ applying' = applying \ {whose}
  /\ IF ReadyFor(whose) /\ ~usable
     THEN usable' = TRUE /\ reported' = "open" /\ Probe
     ELSE UNCHANGED <<usable, reported, pendingPing, echoes, timer>>
  /\ UNCHANGED network
  /\ UNCHANGED <<running, socket, retry, resumeProbe>>

(* The gateway answers the oldest ping.  An answer to a ping that is not    *)
(* the pending one is ignored.                                              *)
Pong ==
  /\ socket = "open" /\ echoes > 0
  /\ echoes' = echoes - 1
  /\ IF pendingPing /\ echoes = 1
     THEN pendingPing' = FALSE /\ resumeProbe' = FALSE /\ timer' = ProbeIn(PingInterval)
     ELSE UNCHANGED <<pendingPing, resumeProbe, timer>>
  /\ UNCHANGED network
  /\ UNCHANGED <<running, socket, usable, retry, applying, reported>>

(* The timer fires. *)
TimerFires ==
  /\ timer.ticks = 0
  /\ \/ timer.does = "fail" /\ FailedNow
     \/ /\ timer.does = "probe"
        /\ IF usable /\ ~pendingPing THEN Probe
           ELSE timer' = NoTimer /\ UNCHANGED <<pendingPing, echoes>>
        /\ UNCHANGED <<socket, usable, retry, resumeProbe, applying, reported>>
  /\ UNCHANGED network
  /\ UNCHANGED running

(* The retry timer fires. *)
RetryFires ==
  /\ retry = 0
  /\ retry' = Unarmed
  /\ IF socket = "none" THEN Connect ELSE UNCHANGED <<socket, timer, reported>>
  /\ UNCHANGED network
  /\ UNCHANGED <<running, usable, pendingPing, echoes, resumeProbe, applying>>

(* Fault: every nudge starts the probe over. *)
NudgeAgain ==
  IF ~running \/ ~onLine
  THEN UNCHANGED <<socket, timer, retry, reported, pendingPing, echoes, resumeProbe>>
  ELSE IF socket = "none"
  THEN retry' = Unarmed /\ Connect /\ UNCHANGED <<pendingPing, echoes, resumeProbe>>
  ELSE IF usable
  THEN /\ pendingPing' = TRUE /\ resumeProbe' = TRUE
       /\ echoes' = IF echoes < 3 THEN echoes + 1 ELSE echoes
       /\ \E n \in PongTimeout : timer' = FailIn(n)
       /\ UNCHANGED <<socket, retry, reported>>
  ELSE UNCHANGED <<socket, timer, retry, reported, pendingPing, echoes, resumeProbe>>

(* nudge() *)
Nudged ==
  IF ~running \/ ~onLine
  THEN UNCHANGED <<socket, timer, retry, reported, pendingPing, echoes, resumeProbe>>
  ELSE IF socket = "none"
  THEN retry' = Unarmed /\ Connect /\ UNCHANGED <<pendingPing, echoes, resumeProbe>>
  ELSE IF usable /\ ~resumeProbe
  THEN resumeProbe' = TRUE /\ Probe /\ UNCHANGED <<socket, retry, reported>>
  ELSE UNCHANGED <<socket, timer, retry, reported, pendingPing, echoes, resumeProbe>>

(* A woken page nudges. *)
Wake ==
  /\ Nudged
  /\ UNCHANGED network
  /\ UNCHANGED <<running, usable, applying>>

(***************************************************************************)
(* navigator.onLine changes first, the event is dispatched later.          *)
(***************************************************************************)
NetworkFlips ==
  /\ Len(netEvents) < MaxNetEvents
  /\ onLine' = ~onLine
  /\ netEvents' = Append(netEvents, IF onLine THEN "offline" ELSE "online")
  /\ UNCHANGED <<running, socket, usable, timer, retry, pendingPing, echoes,
                 resumeProbe, applying, reported>>

(* The page handles it, if it listens (between start and stop). *)
NetEvent ==
  /\ netEvents # <<>>
  /\ netEvents' = Tail(netEvents)
  /\ IF running /\ Head(netEvents) = "offline"
     THEN retry' = Unarmed /\ Release /\ reported' = "reconnecting"
     ELSE IF running /\ Head(netEvents) = "online"
     THEN Nudged /\ UNCHANGED <<usable, applying>>
     ELSE UNCHANGED <<socket, usable, timer, retry, pendingPing, echoes,
                      resumeProbe, applying, reported>>
  /\ UNCHANGED <<running, onLine>>

Later(n) == IF n > 0 THEN n - 1 ELSE n

Tick ==
  /\ ~Due /\ (timer # NoTimer \/ retry # Unarmed)
  /\ timer' = [timer EXCEPT !.ticks = Later(@)]
  /\ retry' = Later(retry)
  /\ UNCHANGED network
  /\ UNCHANGED <<running, socket, usable, pendingPing, echoes, resumeProbe, applying, reported>>

Next ==
  \/ Start \/ Stop \/ Opened \/ Closed \/ RouteDies \/ Message
  \/ \E whose \in {"own", "late"} : Ready(whose)
  \/ Pong \/ TimerFires \/ RetryFires \/ Wake \/ NetworkFlips \/ NetEvent \/ Tick

Spec == Init /\ [][Next]_vars

(* Time passes, timers that are due fire and events are dispatched, in the  *)
(* browser as long as the page is awake.                                    *)
Fairness ==
  /\ WF_vars(Tick) /\ WF_vars(TimerFires) /\ WF_vars(RetryFires)
  /\ WF_vars(NetEvent)

FairSpec == Spec /\ Fairness

-----------------------------------------------------------------------------
Delays == {Unarmed} \cup (0..(ConnectTimeout + SyncTimeout + PingInterval))
            \cup UNION {0..n : n \in PongTimeout \cup RetryDelay}

TypeOK ==
  /\ {running, onLine, usable, pendingPing, resumeProbe} \subseteq BOOLEAN
  /\ netEvents \in Seq({"online", "offline"})
  /\ socket \in {"none", "connecting", "open", "dead"}
  /\ timer \in [does : {"nothing", "fail", "probe"}, ticks : Delays]
  /\ retry \in Delays
  /\ echoes \in 0..2
  /\ applying \subseteq {"own", "late"}
  /\ reported \in {"connecting", "open", "reconnecting", "closed"}

(* No state is without a way on: a socket is always under a deadline or     *)
(* about to be probed, and where there is none a retry is scheduled, unless *)
(* the browser is offline or about to handle that it came back.             *)
NeverStranded ==
  running =>
    /\ socket # "none" => timer # NoTimer /\ retry = Unarmed
    /\ socket = "none" /\ onLine =>
         retry # Unarmed \/ \E i \in DOMAIN netEvents : netEvents[i] = "online"

(* A dead route is noticed although its socket never says so ("onclose      *)
(* alone is not sufficient"), however often the page is nudged.             *)
DeadRouteNoticed == (socket = "dead") ~> (socket # "dead")

=============================================================================
