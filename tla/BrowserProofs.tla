---------------------------- MODULE BrowserProofs ----------------------------
(***************************************************************************)
(* Proofs about the page: ReconnectingSocket for any timeouts and delays,   *)
(* PageEntry, Keyboard for any keymaps, keys and time of the leader, Panes  *)
(* for any sessions and panes, Shortcuts for any old file, keys and         *)
(* actions, TerminalMounts for any sessions, slots and lengths of scroll.   *)
(***************************************************************************)
EXTENDS ReconnectingSocket, PageEntry, Keyboard, Panes, Shortcuts, TerminalMounts,
        FiniteSetTheorems, SequenceTheorems, WellFoundedInduction, TLAPS

-----------------------------------------------------------------------------
(* The way to the workspace. *)

(* A load that runs is awaited by somebody, who starts the stream after it; *)
(* the first session is made when the workspace has been taken over.        *)
Awaited ==
  /\ booting # "no" => afterBoot # {}
  /\ afterBoot \subseteq Boots
  /\ booting = "first" => loaded

LEMMA EntryStep ==
  ASSUME WorkspaceLive, Awaited, [EntryNext]_entryVars
  PROVE  WorkspaceLive' /\ Awaited'
<1>1. CASE Status
  BY <1>1 DEF Status, Ends, Starts, Boots, WorkspaceLive, Awaited
<1>2. CASE Reads
  BY <1>2 DEF Reads, SignsOut, Served, Ends, Starts, Boots, WorkspaceLive, Awaited
<1>3. CASE First
  BY <1>3 DEF First, SignsOut, Served, Ends, Starts, Boots, WorkspaceLive, Awaited
<1>4. CASE Redeemed \/ Open \/ Visible
  BY <1>4 DEF Redeemed, Open, Visible, Boot, Boots, WorkspaceLive, Awaited
<1>5. CASE Submit \/ SubmitSettles \/ Rejected
  BY <1>5 DEF Submit, SubmitSettles, Rejected, Boot, Boots, WorkspaceLive, Awaited
<1>6. CASE Elsewhere \/ UNCHANGED entryVars
  BY <1>6 DEF Elsewhere, pageVars, entryVars, WorkspaceLive, Awaited
<1> QED BY <1>1, <1>2, <1>3, <1>4, <1>5, <1>6 DEF EntryNext

(* However loads fail, overlap, are refused or repeated, and whatever let   *)
(* the page in: when it shows the workspace it has loaded it and listens.   *)
THEOREM WorkspaceAlwaysLive == EntrySpec => []WorkspaceLive
<1>1. EntryInit => WorkspaceLive /\ Awaited
  BY DEF EntryInit, WorkspaceLive, Awaited, Boots
<1>2. WorkspaceLive /\ Awaited /\ [EntryNext]_entryVars => (WorkspaceLive /\ Awaited)'
  BY EntryStep
<1> QED BY <1>1, <1>2, PTL DEF EntrySpec

-----------------------------------------------------------------------------
(* The leader. *)

(* The timeout that runs is the one of the leader that is armed, and fires  *)
(* when its time is over.                                                   *)
OneTimeout ==
  /\ armed \in BOOLEAN
  /\ timeouts = IF armed THEN {handle} ELSE {}
  /\ armed => handle \in 1..LeaderTimeout /\ age + handle = LeaderTimeout /\ age \in Nat

LEMMA LeaderInit == KeyboardInit => OneTimeout
BY DEF KeyboardInit, OneTimeout

LEMMA DisarmStep == OneTimeout /\ Disarm => OneTimeout'
BY DEF OneTimeout, Disarm

LEMMA ArmStep == OneTimeout /\ Arm => OneTimeout'
BY KeyboardAssumption DEF OneTimeout, Arm

LEMMA LeaderStep ==
  ASSUME OneTimeout, [KeyboardNext]_keyboardVars
  PROVE  OneTimeout'
<1>1. ASSUME UNCHANGED leader
      PROVE  OneTimeout'
  BY <1>1 DEF leader, OneTimeout
<1>2. ASSUME NEW event \in Pressed, KeyDown(event)
      PROVE  OneTimeout'
  BY <1>1, <1>2, DisarmStep, ArmStep DEF KeyDown, Handled
<1>3. CASE LeaderTimesOut
  BY <1>3 DEF LeaderTimesOut, OneTimeout
<1>4. CASE Blur
  BY <1>4, DisarmStep DEF Blur
<1>5. CASE KeyboardTick
  <2>1. armed /\ armed' = armed /\ handle # 1 /\ handle' = handle - 1 /\ age' = age + 1
    BY <1>5 DEF KeyboardTick, OneTimeout
  <2>2. timeouts' = {handle'}
    BY <1>5, <2>1 DEF KeyboardTick, OneTimeout
  <2> QED BY <2>1, <2>2, KeyboardAssumption DEF OneTimeout
<1>6. CASE Click \/ OtherKeymap \/ BarKey
  BY <1>1, <1>6 DEF Click, OtherKeymap, BarKey
<1>7. CASE KeyboardReload \/ UNCHANGED keyboardVars
  BY <1>1, <1>7 DEF KeyboardReload, keyboardVars, leader, OneTimeout
<1> QED BY <1>2, <1>3, <1>4, <1>5, <1>6, <1>7 DEF KeyboardNext

(* No timeout of a leader that was pressed before lets go of this one.      *)
LEMMA HeldStep ==
  ASSUME OneTimeout, [KeyboardNext]_keyboardVars, armed, ~armed'
  PROVE  (\E event \in Pressed : KeyDown(event)) \/ Blur \/ KeyboardReload \/ age + 1 = LeaderTimeout
<1>1. CASE LeaderTimesOut
  BY <1>1, KeyboardAssumption DEF LeaderTimesOut, OneTimeout
<1>2. ~KeyboardTick /\ ~Click /\ ~OtherKeymap /\ ~BarKey /\ ~UNCHANGED keyboardVars
  BY DEF KeyboardTick, Click, OtherKeymap, BarKey, leader, keyboardVars
<1> QED BY <1>1, <1>2 DEF KeyboardNext

(* For every keymap and every time given to the leader, it is let go of by  *)
(* a key, by leaving the page or its window, or when its own time is over.  *)
THEOREM LeaderIsHeld == KeyboardSpec => LeaderHeld
<1>1. OneTimeout /\ [KeyboardNext]_keyboardVars
        => [armed /\ ~armed' =>
              (\E event \in Pressed : KeyDown(event)) \/ Blur \/ KeyboardReload \/ age + 1 = LeaderTimeout]_keyboardVars
  BY HeldStep
<1>2. OneTimeout /\ [KeyboardNext]_keyboardVars => OneTimeout'
  BY LeaderStep
<1> QED BY <1>1, <1>2, LeaderInit, PTL DEF KeyboardSpec, LeaderHeld

-----------------------------------------------------------------------------
(* The socket. *)

SocketTypes ==
  /\ {running, onLine, usable, pendingPing} \subseteq BOOLEAN
  /\ netEvents \in Seq({"online", "offline"})
  /\ timer \in [does : {"nothing", "fail", "probe"}, ticks : Int]
  /\ retry \in Nat \cup {Unarmed}

(* The last event that waits says how it is now. *)
EventsCurrent ==
  netEvents # <<>> => netEvents[Len(netEvents)] = IF onLine THEN "online" ELSE "offline"

(* A timer that probes does so for a socket that is in use and owes no      *)
(* answer, so that it is followed by a deadline.                            *)
ProbesInUse ==
  /\ timer.does = "probe" => usable /\ ~pendingPing
  /\ pendingPing => usable

WayOn ==
  /\ running /\ socket # "none" => timer.does # "nothing" /\ retry = Unarmed
  /\ running /\ socket = "none" /\ onLine =>
       retry # Unarmed \/ \E i \in DOMAIN netEvents : netEvents[i] = "online"
  /\ socket = "none" => timer.does = "nothing"
  /\ ~running => socket = "none" /\ retry = Unarmed

SocketIInv == SocketTypes /\ EventsCurrent /\ ProbesInUse /\ WayOn

LEMMA SocketInit == Init => SocketIInv
<1> SUFFICES ASSUME Init
             PROVE  SocketIInv
  OBVIOUS
<1>1. SocketTypes
  <2>1. timer \in [does : {"nothing", "fail", "probe"}, ticks : Int]
    BY DEF Init, NoTimer, Unarmed
  <2>2. netEvents \in Seq({"online", "offline"}) /\ retry \in Nat \cup {Unarmed}
    BY DEF Init
  <2>3. {running, onLine, usable, pendingPing} \subseteq BOOLEAN
    BY DEF Init
  <2> QED BY <2>1, <2>2, <2>3 DEF SocketTypes
<1> QED BY <1>1 DEF Init, NoTimer, Unarmed, SocketIInv, EventsCurrent, ProbesInUse, WayOn

LEMMA TimersTyped ==
  /\ NoTimer \in [does : {"nothing", "fail", "probe"}, ticks : Int] /\ NoTimer.does = "nothing"
  /\ \A n \in Nat :
       /\ FailIn(n) \in [does : {"nothing", "fail", "probe"}, ticks : Int] /\ FailIn(n).does = "fail"
       /\ ProbeIn(n) \in [does : {"nothing", "fail", "probe"}, ticks : Int] /\ ProbeIn(n).does = "probe"
BY DEF NoTimer, FailIn, ProbeIn, Unarmed

(* A socket that fails is followed by a retry, or by the event that waits   *)
(* or is to come.                                                           *)
LEMMA FailedStep ==
  ASSUME SocketIInv, FailedNow, running, UNCHANGED <<running, onLine, netEvents>>
  PROVE  SocketIInv'
<1>1. /\ socket' = "none" /\ ~usable' /\ usable' = FALSE /\ timer' = NoTimer /\ pendingPing' = FALSE
      /\ IF retry = Unarmed /\ onLine THEN retry' \in RetryDelay ELSE retry' = retry
  BY DEF FailedNow, Release
<1>2. retry' \in Nat \cup {Unarmed} /\ (onLine => retry' # Unarmed)
  <2>1. CASE retry = Unarmed /\ onLine
    <3>1. retry' \in RetryDelay
      BY <1>1, <2>1, Zenon
    <3>2. retry' \in Nat /\ retry' # Unarmed
      BY <3>1, ReconnectingSocketAssumption DEF Unarmed
    <3> QED BY <3>2
  <2>2. CASE ~(retry = Unarmed /\ onLine)
    <3>1. retry' = retry
      BY <1>1, <2>2
    <3>2. retry \in Nat \cup {Unarmed}
      BY DEF SocketIInv, SocketTypes
    <3>3. retry' \in Nat \cup {Unarmed}
      BY <3>1, <3>2
    <3>4. onLine => retry' # Unarmed
      BY <2>2, <3>1
    <3> QED BY <3>3, <3>4
  <2> QED BY <2>1, <2>2
<1> QED BY <1>1, <1>2, TimersTyped DEF SocketIInv, SocketTypes, EventsCurrent, ProbesInUse, WayOn

(* A ping is followed by its deadline. *)
LEMMA ProbeStep ==
  ASSUME SocketIInv, Probe, usable', usable' \in BOOLEAN, socket # "none", running,
         netEvents' \in Seq({"online", "offline"}), EventsCurrent',
         UNCHANGED <<running, onLine, socket, retry>>
  PROVE  SocketIInv'
<1>1. timer'.does = "fail" /\ timer' \in [does : {"nothing", "fail", "probe"}, ticks : Int]
  BY TimersTyped, ReconnectingSocketAssumption DEF Probe
<1> QED BY <1>1 DEF Probe, SocketIInv, SocketTypes, ProbesInUse, WayOn

(* So is an attempt to connect.  Offline, the online event is to come.      *)
LEMMA ConnectStep ==
  ASSUME SocketIInv, Connect, running' = TRUE, socket = "none", retry' = Unarmed,
         netEvents' \in Seq({"online", "offline"}), EventsCurrent',
         UNCHANGED <<onLine, usable, pendingPing>>
  PROVE  SocketIInv'
<1>1. CASE onLine
  <2>1. timer' = FailIn(ConnectTimeout) /\ socket' = "connecting"
    BY <1>1 DEF Connect
  <2>2. timer'.does = "fail" /\ timer' \in [does : {"nothing", "fail", "probe"}, ticks : Int]
    BY <2>1, TimersTyped, ReconnectingSocketAssumption
  <2> QED BY <2>1, <2>2 DEF SocketIInv, SocketTypes, ProbesInUse, WayOn
<1>2. CASE ~onLine
  BY <1>2 DEF Connect, SocketIInv, SocketTypes, ProbesInUse, WayOn
<1> QED BY <1>1, <1>2

LEMMA NudgedStep ==
  ASSUME SocketIInv, Nudged, UNCHANGED <<running, onLine, usable>>,
         netEvents' \in Seq({"online", "offline"}), EventsCurrent'
  PROVE  SocketIInv'
<1>1. CASE UNCHANGED <<socket, timer, retry, pendingPing>> /\ ~(running /\ onLine /\ socket = "none")
  BY <1>1 DEF SocketIInv, SocketTypes, ProbesInUse, WayOn
<1>2. CASE running /\ onLine /\ socket = "none"
  BY <1>2, ConnectStep DEF Nudged
<1>3. CASE running /\ socket # "none" /\ usable /\ ~resumeProbe /\ onLine
  BY <1>3, ProbeStep DEF Nudged, SocketIInv, SocketTypes
<1> QED BY <1>1, <1>2, <1>3 DEF Nudged

LEMMA SocketStep ==
  ASSUME SocketIInv, [Next]_vars
  PROVE  SocketIInv'
<1> USE DEF SocketIInv
<1>1. CASE Start
  <2>1. CASE onLine
    BY <1>1, <2>1, TimersTyped, ReconnectingSocketAssumption
       DEF Start, network, SocketTypes, EventsCurrent, ProbesInUse, WayOn
  <2>2. CASE ~onLine
    BY <1>1, <2>2 DEF Start, network, SocketTypes, EventsCurrent, ProbesInUse, WayOn
  <2> QED BY <2>1, <2>2
<1>2. CASE Stop
  BY <1>2, TimersTyped DEF Stop, Release, network, SocketTypes, EventsCurrent, ProbesInUse, WayOn
<1>3. CASE Opened
  <2>1. timer'.does = "fail" /\ timer' \in [does : {"nothing", "fail", "probe"}, ticks : Int]
    BY <1>3, TimersTyped, ReconnectingSocketAssumption DEF Opened
  <2> QED BY <1>3, <2>1 DEF Opened, network, SocketTypes, EventsCurrent, ProbesInUse, WayOn
<1>4. CASE Closed
  BY <1>4, FailedStep DEF Closed, network, WayOn
<1>5. CASE RouteDies
  BY <1>5 DEF RouteDies, network, SocketTypes, EventsCurrent, ProbesInUse, WayOn
<1>6. CASE Message
  <2>1. timer' = timer \/ (~usable /\ timer'.does = "fail")
    BY <1>6, TimersTyped, ReconnectingSocketAssumption DEF Message
  <2>2. timer' \in [does : {"nothing", "fail", "probe"}, ticks : Int]
    BY <1>6, TimersTyped, ReconnectingSocketAssumption DEF Message, SocketTypes
  <2> QED BY <1>6, <2>1, <2>2 DEF Message, network, SocketTypes, EventsCurrent, ProbesInUse, WayOn
<1>7. ASSUME NEW whose \in {"own", "late"}, Ready(whose)
      PROVE  SocketIInv'
  <2>1. CASE ReadyFor(whose) /\ ~usable
    BY <1>7, <2>1, ProbeStep DEF Ready, ReadyFor, network, SocketTypes, EventsCurrent
  <2>2. CASE ~(ReadyFor(whose) /\ ~usable)
    BY <1>7, <2>2 DEF Ready, network, SocketTypes, EventsCurrent, ProbesInUse, WayOn
  <2> QED BY <2>1, <2>2
<1>8. CASE Pong
  <2>1. CASE pendingPing /\ echoes = 1
    <3>1. timer'.does = "probe" /\ timer' \in [does : {"nothing", "fail", "probe"}, ticks : Int]
      BY <1>8, <2>1, TimersTyped, ReconnectingSocketAssumption DEF Pong
    <3> QED BY <1>8, <2>1, <3>1 DEF Pong, network, SocketTypes, EventsCurrent, ProbesInUse, WayOn
  <2>2. CASE ~(pendingPing /\ echoes = 1)
    BY <1>8, <2>2 DEF Pong, network, SocketTypes, EventsCurrent, ProbesInUse, WayOn
  <2> QED BY <2>1, <2>2
<1>9. CASE TimerFires
  <2>1. running /\ socket # "none"
    BY <1>9 DEF TimerFires, WayOn
  <2>2. CASE timer.does = "fail"
    BY <1>9, <2>1, <2>2, FailedStep DEF TimerFires, network
  <2>3. CASE timer.does = "probe"
    BY <1>9, <2>1, <2>3, ProbeStep DEF TimerFires, network, ProbesInUse, SocketTypes, EventsCurrent
  <2> QED BY <1>9, <2>2, <2>3 DEF TimerFires
<1>10. CASE RetryFires
  <2>1. running /\ socket = "none"
    BY <1>10 DEF RetryFires, WayOn, Unarmed
  <2> QED BY <1>10, <2>1, ConnectStep DEF RetryFires, network, SocketTypes, EventsCurrent
<1>11. CASE Wake
  BY <1>11, NudgedStep DEF Wake, network, SocketTypes, EventsCurrent
<1>12. CASE NetworkFlips
  <2>1. /\ onLine' = ~onLine
        /\ netEvents' = Append(netEvents, IF onLine THEN "offline" ELSE "online")
        /\ UNCHANGED <<running, socket, usable, timer, retry, pendingPing>>
    BY <1>12 DEF NetworkFlips
  <2>2. /\ netEvents' \in Seq({"online", "offline"})
        /\ Len(netEvents') = Len(netEvents) + 1 /\ Len(netEvents) \in Nat
        /\ netEvents'[Len(netEvents')] = IF onLine THEN "offline" ELSE "online"
    BY <2>1 DEF SocketTypes
  <2>3. onLine' => \E i \in DOMAIN netEvents' : netEvents'[i] = "online"
    <3>1. Len(netEvents') \in DOMAIN netEvents'
      BY <2>2
    <3> QED BY <2>1, <2>2, <3>1 DEF SocketTypes
  <2> QED BY <2>1, <2>2, <2>3 DEF SocketTypes, EventsCurrent, ProbesInUse, WayOn
<1>13. CASE NetEvent
  <2>1. /\ netEvents # <<>> /\ netEvents' = Tail(netEvents)
        /\ UNCHANGED <<running, onLine>>
    BY <1>13 DEF NetEvent
  <2>2. /\ netEvents' \in Seq({"online", "offline"})
        /\ Len(netEvents') = Len(netEvents) - 1 /\ Len(netEvents) \in Nat
        /\ \A i \in 1..Len(netEvents') : netEvents'[i] = netEvents[i + 1]
    BY <2>1 DEF SocketTypes
  <2>3. EventsCurrent'
    BY <2>1, <2>2 DEF EventsCurrent
  <2>4. CASE running /\ Head(netEvents) = "offline"
    <3>1. /\ socket' = "none" /\ usable' = FALSE /\ timer' = NoTimer /\ pendingPing' = FALSE
          /\ retry' = Unarmed
      BY <1>13, <2>4 DEF NetEvent, Release
    <3>2. onLine => \E i \in DOMAIN netEvents' : netEvents'[i] = "online"
      <4>1. ASSUME onLine
            PROVE  netEvents[Len(netEvents)] = "online" /\ netEvents[1] = "offline"
        BY <2>1, <2>4, <4>1 DEF EventsCurrent
      <4>2. ASSUME onLine
            PROVE  Len(netEvents) - 1 \in 1..Len(netEvents') /\ netEvents'[Len(netEvents) - 1] = "online"
        BY <2>1, <2>2, <4>1, <4>2 DEF SocketTypes
      <4>3. DOMAIN netEvents' = 1..Len(netEvents')
        BY <2>2
      <4> QED BY <4>2, <4>3
    <3> QED BY <2>1, <2>2, <2>3, <2>4, <3>1, <3>2, TimersTyped DEF SocketTypes, ProbesInUse, WayOn
  <2>5. CASE running /\ Head(netEvents) = "online"
    BY <1>13, <2>1, <2>2, <2>3, <2>5, NudgedStep DEF NetEvent
  <2>6. CASE ~running \/ Head(netEvents) \notin {"online", "offline"}
    BY <1>13, <2>1, <2>2, <2>3, <2>6 DEF NetEvent, SocketTypes, ProbesInUse, WayOn
  <2> QED BY <2>4, <2>5, <2>6
<1>14. CASE Tick
  <2>1. /\ timer'.does = timer.does
        /\ timer' \in [does : {"nothing", "fail", "probe"}, ticks : Int]
    BY <1>14 DEF Tick, Later, SocketTypes
  <2>2. retry' \in Nat \cup {Unarmed} /\ (retry' = Unarmed <=> retry = Unarmed)
    BY <1>14 DEF Tick, Due, Later, SocketTypes, Unarmed
  <2> QED BY <1>14, <2>1, <2>2 DEF Tick, network, SocketTypes, EventsCurrent, ProbesInUse, WayOn
<1>15. CASE UNCHANGED vars
  BY <1>15 DEF vars, SocketTypes, EventsCurrent, ProbesInUse, WayOn
<1> QED BY <1>1, <1>2, <1>3, <1>4, <1>5, <1>6, <1>7, <1>8, <1>9, <1>10, <1>11, <1>12, <1>13, <1>14, <1>15
        DEF Next

(* For any timeouts, delays and number of events that wait: a socket that   *)
(* was started is always under a deadline, about to be probed or retried.   *)
THEOREM NeverIsStranded == Spec => []NeverStranded
<1>1. SocketIInv => NeverStranded
  BY DEF SocketIInv, WayOn, SocketTypes, NeverStranded, NoTimer
<1>2. SocketIInv /\ [Next]_vars => SocketIInv'
  BY SocketStep
<1> QED BY <1>1, <1>2, SocketInit, PTL DEF Spec

-----------------------------------------------------------------------------
(* The panes. *)

IsSeq(s) == \E S : s \in Seq(S)

(* Panes have different ids, and a session is in one of them, or in one     *)
(* beside a pane that is about to show another.                             *)
OneId(ps) == \A j, k \in 1..Len(ps) : ps[j].id = ps[k].id => j = k
OneViewBut(pane, ps) ==
  \A j, k \in 1..Len(ps) :
    ps[j].sessionId = ps[k].sessionId =>
      j = k \/ ps[j].sessionId = None \/ ps[j].id = pane \/ ps[k].id = pane
OneView(ps) ==
  \A j, k \in 1..Len(ps) : ps[j].sessionId = ps[k].sessionId => j = k \/ ps[j].sessionId = None

Window(ps) == IsSeq(ps) /\ Len(ps) > 0 /\ OneId(ps) /\ OneView(ps)

LEMMA SeqFacts ==
  ASSUME NEW s, IsSeq(s)
  PROVE  Len(s) \in Nat /\ DOMAIN s = 1..Len(s)
BY DEF IsSeq

LEMMA Made ==
  ASSUME NEW n \in Nat, NEW f, f = [k \in 1..n |-> f[k]]
  PROVE  IsSeq(f) /\ Len(f) = n
<1> DEFINE T == {f[k] : k \in 1..n}
<1>1. f \in [1..n -> T]
  OBVIOUS
<1> HIDE DEF T
<1>2. f \in Seq(T)
  BY <1>1, SeqDef
<1>3. DOMAIN f = 1..n
  BY <1>1
<1>4. Len(f) = n
  <2>1. DOMAIN f = 1..Len(f) /\ Len(f) \in Nat
    BY <1>2
  <2> QED BY <1>3, <2>1
<1> QED BY <1>2, <1>4 DEF IsSeq

LEMMA SetFits ==
  ASSUME NEW ps, IsSeq(ps), Len(ps) > 0, OneId(ps), NEW pane, OneViewBut(pane, ps), NEW session
  PROVE  Window(SetPaneSession(ps, pane, session)) /\ Len(SetPaneSession(ps, pane, session)) = Len(ps)
<1> DEFINE n == Len(ps)
           t == SetPaneSession(ps, pane, session)
<1>1. n \in Nat /\ DOMAIN ps = 1..n
  BY SeqFacts
<1>2. t = [k \in 1..n |-> t[k]]
  BY <1>1 DEF SetPaneSession
<1>3. IsSeq(t) /\ Len(t) = n
  <2> HIDE DEF t, n
  <2> QED BY <1>1, <1>2, Made
<1>4. \A k \in 1..n :
        /\ t[k].id = ps[k].id
        /\ ps[k].id = pane => t[k].sessionId = session
        /\ ps[k].id # pane => /\ ps[k].sessionId = session => t[k].sessionId = None
                              /\ ps[k].sessionId # session => t[k].sessionId = ps[k].sessionId
  BY <1>1 DEF SetPaneSession, Leaf
<1> HIDE DEF t, n
<1>5. OneId(t)
  BY <1>3, <1>4 DEF OneId, n
<1>6. OneView(t)
  <2> SUFFICES ASSUME NEW j \in 1..n, NEW k \in 1..n, t[j].sessionId = t[k].sessionId, t[j].sessionId # None
      PROVE  j = k
    BY <1>3 DEF OneView
  <2>1. CASE ps[j].id = pane /\ ps[k].id = pane
    BY <2>1 DEF OneId, n
  <2>2. CASE ps[j].id = pane /\ ps[k].id # pane
    BY <1>4, <2>2
  <2>3. CASE ps[j].id # pane /\ ps[k].id = pane
    BY <1>4, <2>3
  <2>4. CASE ps[j].id # pane /\ ps[k].id # pane
    <3>1. ps[j].sessionId = ps[k].sessionId /\ ps[j].sessionId # None
      BY <1>4, <2>4
    <3> QED BY <2>4, <3>1 DEF OneViewBut, n
  <2> QED BY <2>1, <2>2, <2>3, <2>4
<1>7. Len(t) > 0
  BY <1>3 DEF n
<1> QED BY <1>3, <1>5, <1>6, <1>7 DEF Window, t, n

LEMMA OneViewIs ==
  ASSUME NEW ps, OneView(ps), NEW pane
  PROVE  OneViewBut(pane, ps)
BY DEF OneView, OneViewBut

LEMMA SetKeeps ==
  ASSUME NEW ps, Window(ps), NEW pane, NEW session
  PROVE  Window(SetPaneSession(ps, pane, session)) /\ Len(SetPaneSession(ps, pane, session)) = Len(ps)
BY SetFits, OneViewIs DEF Window

-----------------------------------------------------------------------------
LEMMA LeastIndex ==
  ASSUME NEW T, T \subseteq Nat, T # {}
  PROVE  \E n \in T : \A m \in T : n <= m
<1>1. PICK n \in T : \A m \in T : ~(<<m, n>> \in OpToRel(<, Nat))
  BY NatLessThanWellFounded, WFMin
<1>2. \A m \in T : n <= m
  <2> TAKE m \in T
  <2>1. m \in Nat /\ n \in Nat
    OBVIOUS
  <2>2. CASE m < n
    <3>1. <<m, n>> \in OpToRel(<, Nat)
      BY <2>1, <2>2 DEF OpToRel
    <3> QED BY <3>1, <1>1
  <2> QED BY <2>1, <2>2
<1> QED BY <1>2

(* Where a pane is, or 0. *)
At(ps, pane) ==
  LET I == {i \in 1..Len(ps) : ps[i].id = pane}
  IN IF I # {} THEN Min(I) ELSE 0

LEMMA Finds ==
  ASSUME NEW ps, Len(ps) \in Nat, NEW pane
  PROVE  At(ps, pane) \in 0..Len(ps) /\ \A k \in 1..Len(ps) : ps[k].id = pane => At(ps, pane) # 0
<1> DEFINE I == {i \in 1..Len(ps) : ps[i].id = pane}
<1>1. At(ps, pane) = IF I # {} THEN Min(I) ELSE 0
  BY DEF At
<1>2. I \subseteq 1..Len(ps) /\ I \subseteq Nat
  OBVIOUS
<1>3. \A k \in 1..Len(ps) : ps[k].id = pane => k \in I
  OBVIOUS
<1> HIDE DEF I
<1>4. CASE I = {}
  BY <1>1, <1>3, <1>4
<1>5. CASE I # {}
  <2>1. PICK m \in I : \A k \in I : m <= k
    BY <1>2, <1>5, LeastIndex
  <2>2. Min(I) \in I
    <3>1. \A k \in I : m =< k
      BY <2>1
    <3> QED BY <3>1 DEF Min
  <2>3. Min(I) \in 1..Len(ps)
    BY <1>2, <2>2, Zenon
  <2>4. \A k \in 1..Len(ps) : k # 0 /\ k \in 0..Len(ps)
    OBVIOUS
  <2>5. At(ps, pane) = Min(I)
    BY <1>1, <1>5
  <2> QED BY <2>3, <2>4, <2>5, Zenon
<1> QED BY <1>4, <1>5

LEMMA Joined ==
  ASSUME NEW T, NEW a \in Seq(T), NEW b \in Seq(T)
  PROVE  /\ a \o b \in Seq(T) /\ Len(a) \in Nat /\ Len(b) \in Nat /\ Len(a \o b) = Len(a) + Len(b)
         /\ \A k \in 1..Len(a) : (a \o b)[k] = a[k]
         /\ \A k \in 1..Len(b) : (a \o b)[Len(a) + k] = b[k]
OBVIOUS

(* A pane is put in. *)
LEMMA Inserted ==
  ASSUME NEW s, IsSeq(s), NEW i \in 1..Len(s) + 1, NEW e
  PROVE  /\ IsSeq(InsertAt(s, i, e)) /\ Len(InsertAt(s, i, e)) = Len(s) + 1
         /\ \A k \in 1..Len(s) + 1 : InsertAt(s, i, e)[k] = IF k < i THEN s[k] ELSE IF k = i THEN e ELSE s[k - 1]
<1>1. PICK S : s \in Seq(S)
  BY DEF IsSeq
<1> DEFINE T == S \cup {e}
           n == Len(s)
<1>2. s \in Seq(T) /\ e \in T /\ n \in Nat
  BY <1>1
<1> HIDE DEF T
<1> DEFINE a == SubSeq(s, 1, i - 1)
           b == <<e>>
           c == SubSeq(s, i, n)
<1>3. a \in Seq(T) /\ Len(a) = i - 1 /\ \A k \in 1..i - 1 : a[k] = s[k]
  BY <1>2
<1>4. b \in Seq(T) /\ Len(b) = 1 /\ b[1] = e
  BY <1>2
<1>5. c \in Seq(T) /\ Len(c) = n - i + 1 /\ \A k \in 1..n - i + 1 : c[k] = s[k + i - 1]
  BY <1>2
<1>6. InsertAt(s, i, e) = (a \o b) \o c
  BY DEF InsertAt
<1>10. i \in 1..n + 1
  OBVIOUS
<1> HIDE DEF a, b, c, n
<1> DEFINE ab == a \o b
<1>7. ab \in Seq(T) /\ Len(ab) = i /\ \A k \in 1..i : ab[k] = IF k < i THEN s[k] ELSE e
  <2>6. /\ ab \in Seq(T) /\ Len(ab) = Len(a) + Len(b)
        /\ \A k \in 1..Len(a) : ab[k] = a[k]
        /\ \A k \in 1..Len(b) : ab[Len(a) + k] = b[k]
    <3> HIDE DEF ab
    <3>1. a \in Seq(T) /\ b \in Seq(T)
      BY <1>3, <1>4
    <3>2. ab = a \o b
      BY DEF ab
    <3> QED BY <3>1, <3>2, Joined
  <2> HIDE DEF ab
  <2>1. ab \in Seq(T) /\ Len(ab) = (i - 1) + 1
    BY <1>3, <1>4, <2>6
  <2>2. \A k \in 1..i - 1 : ab[k] = a[k]
    BY <1>3, <2>6
  <2>3. ab[i] = b[1]
    <3>1. 1 \in 1..1 /\ (i - 1) + 1 = i
      BY <1>2, <1>10
    <3> QED BY <1>3, <1>4, <2>6, <3>1
  <2>4. \A k \in 1..i : k = i \/ (k \in 1..i - 1 /\ k < i)
    BY <1>2, <1>10
  <2>5. (i - 1) + 1 = i /\ ~(i < i)
    BY <1>2, <1>10
  <2> QED BY <1>3, <1>4, <2>1, <2>2, <2>3, <2>4, <2>5
<1> HIDE DEF ab
<1> DEFINE t == ab \o c
<1>8. t \in Seq(T) /\ Len(t) = n + 1 /\ (\A k \in 1..i : t[k] = ab[k]) /\ \A k \in 1..n - i + 1 : t[i + k] = c[k]
  <2>1. /\ t \in Seq(T) /\ Len(t) = Len(ab) + Len(c)
        /\ \A k \in 1..Len(ab) : t[k] = ab[k]
        /\ \A k \in 1..Len(c) : t[Len(ab) + k] = c[k]
    <3>1. c \in Seq(T) /\ ab \in Seq(T)
      BY <1>5, <1>7
    <3> HIDE DEF t
    <3>2. t = ab \o c
      BY DEF t
    <3> QED BY <3>1, <3>2, Joined
  <2> HIDE DEF t
  <2>2. i + (n - i + 1) = n + 1
    BY <1>2, <1>10
  <2> QED BY <1>5, <1>7, <2>1, <2>2
<1> HIDE DEF t
<1>9. \A k \in 1..n + 1 : t[k] = IF k < i THEN s[k] ELSE IF k = i THEN e ELSE s[k - 1]
  <2> TAKE k \in 1..n + 1
  <2>1. CASE k <= i
    <3>1. k \in 1..i /\ (k < i \/ (k = i /\ ~(k < i)))
      BY <1>2, <1>10, <2>1
    <3> QED BY <1>7, <1>8, <3>1
  <2>2. CASE k > i
    <3>1. k - i \in 1..n - i + 1 /\ (k - i) + i - 1 = k - 1 /\ i + (k - i) = k /\ ~(k < i) /\ k # i
      BY <1>2, <1>10, <2>2
    <3>2. c[k - i] = s[k - 1]
      BY <1>5, <3>1
    <3>3. t[k] = c[k - i]
      BY <1>8, <3>1
    <3> QED BY <3>1, <3>2, <3>3
  <2> QED BY <1>2, <1>10, <2>1, <2>2
<1> QED BY <1>6, <1>8, <1>9 DEF IsSeq, t, ab, n

(* A pane is taken out. *)
LEMMA Removed ==
  ASSUME NEW s, IsSeq(s), NEW i \in 1..Len(s)
  PROVE  /\ IsSeq(RemoveAt(s, i)) /\ Len(RemoveAt(s, i)) = Len(s) - 1
         /\ \A k \in 1..Len(s) - 1 : RemoveAt(s, i)[k] = IF k < i THEN s[k] ELSE s[k + 1]
<1>1. PICK S : s \in Seq(S)
  BY DEF IsSeq
<1> DEFINE n == Len(s)
           a == SubSeq(s, 1, i - 1)
           c == SubSeq(s, i + 1, n)
<1>2. n \in Nat /\ i \in 1..n
  BY <1>1
<1>3. a \in Seq(S) /\ Len(a) = i - 1 /\ \A k \in 1..i - 1 : a[k] = s[k]
  BY <1>1
<1>5. c \in Seq(S) /\ Len(c) = n - i /\ \A k \in 1..n - i : c[k] = s[k + i]
  BY <1>1
<1>6. RemoveAt(s, i) = a \o c
  BY DEF RemoveAt
<1> HIDE DEF a, c, n
<1> DEFINE t == a \o c
<1>8. t \in Seq(S) /\ Len(t) = n - 1 /\ \A k \in 1..n - 1 : t[k] = IF k <= i - 1 THEN a[k] ELSE c[k - (i - 1)]
  <2>1. /\ t \in Seq(S) /\ Len(t) = Len(a) + Len(c)
        /\ \A k \in 1..Len(a) : t[k] = a[k]
        /\ \A k \in 1..Len(c) : t[Len(a) + k] = c[k]
    <3> HIDE DEF t
    <3>1. a \in Seq(S) /\ c \in Seq(S)
      BY <1>3, <1>5
    <3>2. t = a \o c
      BY DEF t
    <3> QED BY <3>1, <3>2, Joined
  <2> HIDE DEF t
  <2>2. (i - 1) + (n - i) = n - 1
    BY <1>2
  <2>3. t \in Seq(S) /\ Len(t) = n - 1
    BY <1>3, <1>5, <2>1, <2>2
  <2>4. \A k \in 1..n - 1 : t[k] = IF k <= i - 1 THEN a[k] ELSE c[k - (i - 1)]
    <3> TAKE k \in 1..n - 1
    <3>1. CASE k <= i - 1
      BY <1>2, <1>3, <2>1, <3>1
    <3>2. CASE ~(k <= i - 1)
      <4>1. k - (i - 1) \in 1..n - i /\ (i - 1) + (k - (i - 1)) = k
        BY <1>2, <3>2
      <4> QED BY <1>3, <1>5, <2>1, <3>2, <4>1
    <3> QED BY <3>1, <3>2
  <2> QED BY <2>3, <2>4
<1> HIDE DEF t
<1>9. \A k \in 1..n - 1 : t[k] = IF k < i THEN s[k] ELSE s[k + 1]
  <2> TAKE k \in 1..n - 1
  <2>1. CASE k < i
    BY <1>2, <1>3, <1>8, <2>1
  <2>2. CASE k >= i
    <3>1. k - (i - 1) \in 1..n - i /\ (k - (i - 1)) + i = k + 1 /\ ~(k <= i - 1) /\ ~(k < i)
      BY <1>2, <2>2
    <3> QED BY <1>5, <1>8, <3>1
  <2> QED BY <1>2, <2>1, <2>2
<1> QED BY <1>6, <1>8, <1>9 DEF IsSeq, t, n

(* next[k] of Pruned from next[k - 1]. *)
Refilled(before, k, stale, spare) ==
  IF k > Len(stale) THEN before
  ELSE SetPaneSession(before, stale[k].id, IF k <= Len(spare) THEN spare[k] ELSE None)

Prunes(g, n, ps, stale, spare) ==
  g[0] = ps /\ \A k \in 1..n : g[k] = Refilled(g[k - 1], k, stale, spare)

LEMMA PruneRuns ==
  ASSUME NEW n \in Nat, NEW ps, NEW stale, NEW spare
  PROVE  \E g : Prunes(g, n, ps, stale, spare)
<1> DEFINE Upto(m) == \E g : Prunes(g, m, ps, stale, spare)
           T == {m \in 0..n : ~Upto(m)}
<1>1. SUFFICES ASSUME T # {} PROVE FALSE
  OBVIOUS
<1>2. PICK m \in T : \A k \in T : m <= k
  <2>1. T \subseteq Nat
    OBVIOUS
  <2> HIDE DEF T
  <2> QED BY <1>1, <2>1, LeastIndex
<1>3. m # 0
  <2>1. Upto(0)
    <3> DEFINE g == [i \in 0..0 |-> ps]
    <3>1. Prunes(g, 0, ps, stale, spare)
      BY DEF Prunes
    <3> HIDE DEF g
    <3> QED BY <3>1
  <2> QED BY <2>1, <1>2
<1>4. m - 1 \in 0..n /\ m \in 1..n
  BY <1>2, <1>3
<1>5. Upto(m - 1)
  BY <1>2, <1>4
<1>6. PICK g : Prunes(g, m - 1, ps, stale, spare)
  BY <1>5
<1> DEFINE h == [i \in 0..m |-> IF i < m THEN g[i] ELSE Refilled(g[m - 1], m, stale, spare)]
<1>7. h[0] = ps /\ h[m] = Refilled(g[m - 1], m, stale, spare) /\ \A i \in 0..m - 1 : h[i] = g[i]
  BY <1>4, <1>6 DEF Prunes
<1> HIDE DEF h
<1>8. \A i \in 1..m : h[i] = Refilled(h[i - 1], i, stale, spare)
  <2> TAKE i \in 1..m
  <2>1. CASE i = m
    BY <1>4, <1>7, <2>1
  <2>2. CASE i # m
    <3>1. i \in 1..m - 1 /\ h[i] = g[i] /\ h[i - 1] = g[i - 1]
      BY <1>4, <1>7, <2>2
    <3> QED BY <1>6, <3>1 DEF Prunes
  <2> QED BY <2>1, <2>2
<1>9. Prunes(h, m, ps, stale, spare)
  BY <1>7, <1>8 DEF Prunes
<1> QED BY <1>2, <1>9

LEMMA PruneKeeps ==
  ASSUME NEW n \in Nat, NEW ps, Window(ps), NEW stale, NEW spare, NEW g, Prunes(g, n, ps, stale, spare)
  PROVE  Window(g[n]) /\ Len(g[n]) = Len(ps)
<1> DEFINE Fit(m) == Window(g[m]) /\ Len(g[m]) = Len(ps)
           T == {m \in 0..n : ~Fit(m)}
<1>1. SUFFICES ASSUME T # {} PROVE FALSE
  OBVIOUS
<1>2. PICK m \in T : \A k \in T : m <= k
  <2>1. T \subseteq Nat
    OBVIOUS
  <2> HIDE DEF T
  <2> QED BY <1>1, <2>1, LeastIndex
<1>3. m # 0
  BY <1>2 DEF Prunes
<1>4. m - 1 \in 0..n /\ m \in 1..n /\ ~(m <= m - 1)
  BY <1>2, <1>3
<1>5. Fit(m - 1)
  BY <1>2, <1>4
<1>6. g[m] = Refilled(g[m - 1], m, stale, spare)
  BY <1>4 DEF Prunes
<1> DEFINE before == g[m - 1]
<1>7. Window(before) /\ Len(before) = Len(ps)
  BY <1>5
<1>8. Window(Refilled(before, m, stale, spare)) /\ Len(Refilled(before, m, stale, spare)) = Len(ps)
  <2> HIDE DEF before
  <2>1. \A pane, session : /\ Window(SetPaneSession(before, pane, session))
                           /\ Len(SetPaneSession(before, pane, session)) = Len(before)
    BY <1>7, SetKeeps
  <2> QED BY <1>7, <2>1 DEF Refilled
<1> QED BY <1>2, <1>6, <1>8

Stale(ps, ids) == Only(ps, {leaf \in Range(ps) : leaf.sessionId \notin Range(ids) \cup {None}})

LEMMA PrunedIs ==
  ASSUME NEW ps, Window(ps), NEW ids, NEW preferred
  PROVE  \E g : /\ Prunes(g, Len(ps), ps, Stale(ps, ids), Spare(ps, ids, preferred))
               /\ Pruned(ps, ids, preferred) = g[Len(ps)]
<1> DEFINE stale == Stale(ps, ids)
           spare == Spare(ps, ids, preferred)
           n == Len(ps)
           next == CHOOSE g : g = [k \in 0..n |->
                     IF k = 0 THEN ps
                     ELSE IF k > Len(stale) THEN g[k - 1]
                     ELSE SetPaneSession(g[k - 1], stale[k].id, IF k <= Len(spare) THEN spare[k] ELSE None)]
<1>1. Pruned(ps, ids, preferred) = next[n]
  BY DEF Pruned, Stale
<1>2. n \in Nat
  BY SeqFacts DEF Window
<1> HIDE DEF stale, spare, n
<1>3. next = [k \in 0..n |-> IF k = 0 THEN ps ELSE Refilled(next[k - 1], k, stale, spare)]
  <2>1. PICK g : Prunes(g, n, ps, stale, spare)
    BY <1>2, PruneRuns
  <2> DEFINE h == [i \in 0..n |-> g[i]]
  <2>2. h = [k \in 0..n |->
              IF k = 0 THEN ps
              ELSE IF k > Len(stale) THEN h[k - 1]
              ELSE SetPaneSession(h[k - 1], stale[k].id, IF k <= Len(spare) THEN spare[k] ELSE None)]
    <3>1. \A k \in 0..n : k # 0 => k \in 1..n /\ k - 1 \in 0..n
      BY <1>2
    <3> QED BY <2>1, <3>1 DEF Prunes, Refilled
  <2> HIDE DEF h
  <2>3. next = [k \in 0..n |->
              IF k = 0 THEN ps
              ELSE IF k > Len(stale) THEN next[k - 1]
              ELSE SetPaneSession(next[k - 1], stale[k].id, IF k <= Len(spare) THEN spare[k] ELSE None)]
    BY <2>2
  <2> HIDE DEF next
  <2> QED BY <2>3 DEF Refilled
<1> HIDE DEF next
<1>4. Prunes(next, n, ps, stale, spare)
  BY <1>2, <1>3 DEF Prunes
<1> QED BY <1>1, <1>4 DEF stale, spare, n

(* Panes are emptied and filled, none is added or removed. *)
LEMMA PrunedFits ==
  ASSUME NEW ps, Window(ps), NEW ids, NEW preferred
  PROVE  Window(Pruned(ps, ids, preferred)) /\ Len(Pruned(ps, ids, preferred)) = Len(ps)
<1>1. PICK g : /\ Prunes(g, Len(ps), ps, Stale(ps, ids), Spare(ps, ids, preferred))
               /\ Pruned(ps, ids, preferred) = g[Len(ps)]
  BY PrunedIs
<1>2. Len(ps) \in Nat
  BY SeqFacts DEF Window
<1> QED BY <1>1, <1>2, PruneKeeps

-----------------------------------------------------------------------------
(* A new pane, and one that is closed. *)

LEMMA SplitFits ==
  ASSUME NEW ps, Window(ps), NEW pane, NEW fresh, fresh \notin PaneIds(ps), NEW session, NEW first \in BOOLEAN
  PROVE  LET t == SplitPane(ps, pane, fresh, session, first)
         IN IsSeq(t) /\ Len(t) > 0 /\ OneId(t) /\ OneViewBut(fresh, t)
<1> DEFINE at == At(ps, pane)
           n == Len(ps)
           e == Leaf(fresh, session)
           t == SplitPane(ps, pane, fresh, session, first)
<1>1. n \in Nat /\ n > 0 /\ DOMAIN ps = 1..n
  BY SeqFacts DEF Window
<1>2. at \in 0..n
  BY <1>1, Finds
<1>3. \A k \in 1..n : ps[k].id # fresh
  BY <1>1 DEF PaneIds
<1>4. OneView(ps) /\ OneId(ps) /\ IsSeq(ps)
  BY DEF Window
<1>5. CASE at = 0
  <2>1. t = ps
    BY <1>5 DEF SplitPane, SelectInSeq, At
  <2> QED BY <1>1, <1>4, <2>1, OneViewIs
<1>6. CASE at # 0
  <2> DEFINE i == IF first THEN at ELSE at + 1
  <2>1. t = InsertAt(ps, i, e)
    BY <1>6 DEF SplitPane, SelectInSeq, At
  <2>2. i \in 1..n + 1
    BY <1>1, <1>2, <1>6
  <2> HIDE DEF i, at
  <2>3. /\ IsSeq(t) /\ Len(t) = n + 1
        /\ \A k \in 1..n + 1 : t[k] = IF k < i THEN ps[k] ELSE IF k = i THEN e ELSE ps[k - 1]
    BY <1>4, <2>1, <2>2, Inserted DEF n
  <2>4. e.id = fresh
    BY DEF Leaf
  <2> HIDE DEF t, e
  (* Where a pane of t was. *)
  <2> DEFINE was(k) == IF k < i THEN k ELSE k - 1
  <2>5. \A k \in 1..n + 1 : k # i => was(k) \in 1..n /\ t[k] = ps[was(k)]
    BY <1>1, <2>2, <2>3
  <2>6. \A j, k \in 1..n + 1 : j # i /\ k # i /\ was(j) = was(k) => j = k
    BY <1>1, <2>2
  <2>7. t[i].id = fresh
    BY <1>1, <2>2, <2>3, <2>4
  <2> HIDE DEF was, n
  <2>8. OneId(t)
    <3> SUFFICES ASSUME NEW j \in 1..n + 1, NEW k \in 1..n + 1, t[j].id = t[k].id PROVE j = k
      BY <2>3 DEF OneId
    <3> QED BY <1>3, <1>4, <2>5, <2>6, <2>7 DEF OneId, n
  <2>9. OneViewBut(fresh, t)
    <3> SUFFICES ASSUME NEW j \in 1..n + 1, NEW k \in 1..n + 1, t[j].sessionId = t[k].sessionId
        PROVE j = k \/ t[j].sessionId = None \/ t[j].id = fresh \/ t[k].id = fresh
      BY <2>3 DEF OneViewBut
    <3> QED BY <1>4, <2>5, <2>6, <2>7 DEF OneView, n
  <2>10. Len(t) > 0
    BY <1>1, <2>3
  <2> QED BY <2>3, <2>8, <2>9, <2>10 DEF t
<1> QED BY <1>5, <1>6

(* A fresh pane that shows nothing leaves the rest as it is. *)
LEMMA SplitEmpty ==
  ASSUME NEW ps, Window(ps), NEW pane, NEW fresh, fresh \notin PaneIds(ps)
  PROVE  Window(SplitPane(ps, pane, fresh, None, FALSE))
<1> DEFINE at == At(ps, pane)
           n == Len(ps)
           e == Leaf(fresh, None)
           t == SplitPane(ps, pane, fresh, None, FALSE)
           i == at + 1
<1>1. IsSeq(t) /\ Len(t) > 0 /\ OneId(t)
  BY SplitFits
<1>2. n \in Nat /\ IsSeq(ps) /\ OneView(ps)
  BY SeqFacts DEF Window
<1>3. at \in 0..n
  BY <1>2, Finds
<1>4. CASE at = 0
  BY <1>4 DEF SplitPane, SelectInSeq, At
<1>5. CASE at # 0
  <2>1. t = InsertAt(ps, i, e)
    BY <1>5 DEF SplitPane, SelectInSeq, At
  <2>2. i \in 1..n + 1
    BY <1>2, <1>3
  <2> HIDE DEF i, at
  <2>3. /\ IsSeq(t) /\ Len(t) = n + 1
        /\ \A k \in 1..n + 1 : t[k] = IF k < i THEN ps[k] ELSE IF k = i THEN e ELSE ps[k - 1]
    <3> HIDE DEF t, e
    <3>1. IsSeq(ps) /\ i \in 1..Len(ps) + 1
      BY <1>2, <2>2
    <3> QED BY <2>1, <3>1, Inserted
  <2>4. e.sessionId = None
    BY DEF Leaf
  <2> HIDE DEF t, e
  <2> DEFINE was(k) == IF k < i THEN k ELSE k - 1
  <2>5. \A k \in 1..n + 1 : k # i => was(k) \in 1..n /\ t[k] = ps[was(k)]
    BY <1>2, <2>2, <2>3
  <2>6. \A j, k \in 1..n + 1 : j # i /\ k # i /\ was(j) = was(k) => j = k
    BY <1>2, <2>2
  <2>7. t[i].sessionId = None
    BY <1>2, <2>2, <2>3, <2>4
  <2> HIDE DEF was, n
  <2>8. OneView(t)
    <3> SUFFICES ASSUME NEW j \in 1..n + 1, NEW k \in 1..n + 1, t[j].sessionId = t[k].sessionId
        PROVE j = k \/ t[j].sessionId = None
      BY <2>3 DEF OneView
    <3> QED BY <1>2, <2>5, <2>6, <2>7 DEF OneView, n
  <2> QED BY <1>1, <2>8 DEF Window, t
<1> QED BY <1>4, <1>5

LEMMA CloseFits ==
  ASSUME NEW ps, Window(ps), NEW pane
  PROVE  Window(ClosePane(ps, pane))
<1> DEFINE at == At(ps, pane)
           n == Len(ps)
           t == ClosePane(ps, pane)
<1>1. n \in Nat /\ n > 0 /\ IsSeq(ps) /\ OneView(ps) /\ OneId(ps)
  BY SeqFacts DEF Window
<1>2. at \in 0..n
  BY <1>1, Finds
<1> DEFINE found == \E k \in 1..n : ps[k].id = pane
<1>3. CASE n = 1 \/ ~found
  BY <1>3 DEF ClosePane, RemoveFirstMatch
<1>4. CASE n # 1 /\ found
  <2>1. t = RemoveAt(ps, at)
    BY <1>4 DEF ClosePane, RemoveFirstMatch, SelectInSeq, At
  <2>9. at # 0
    BY <1>1, <1>4, Finds
  <2>2. at \in 1..n
    BY <1>1, <1>2, <2>9
  <2> HIDE DEF at
  <2>3. IsSeq(t) /\ Len(t) = n - 1 /\ \A k \in 1..n - 1 : t[k] = IF k < at THEN ps[k] ELSE ps[k + 1]
    BY <1>1, <2>1, <2>2, Removed DEF n
  <2> HIDE DEF t
  <2> DEFINE was(k) == IF k < at THEN k ELSE k + 1
  <2>4. \A k \in 1..n - 1 : was(k) \in 1..n /\ t[k] = ps[was(k)]
    BY <1>1, <2>2, <2>3
  <2>5. \A j, k \in 1..n - 1 : was(j) = was(k) => j = k
    BY <1>1, <2>2
  <2>6. Len(t) > 0
    BY <1>1, <1>4, <2>3
  <2> HIDE DEF was, n
  <2>7. OneId(t)
    <3> SUFFICES ASSUME NEW j \in 1..n - 1, NEW k \in 1..n - 1, t[j].id = t[k].id PROVE j = k
      BY <2>3 DEF OneId
    <3> QED BY <1>1, <2>4, <2>5 DEF OneId, n
  <2>8. OneView(t)
    <3> SUFFICES ASSUME NEW j \in 1..n - 1, NEW k \in 1..n - 1, t[j].sessionId = t[k].sessionId
        PROVE j = k \/ t[j].sessionId = None
      BY <2>3 DEF OneView
    <3> QED BY <1>1, <2>4, <2>5 DEF OneView, n
  <2> QED BY <2>3, <2>6, <2>7, <2>8 DEF Window, t
<1> QED BY <1>3, <1>4

(* The layout that is saved can be restored: it never has a session twice. *)
SavedFits ==
  /\ IsSeq(saved) /\ Len(saved) > 0
  /\ \A j, k \in 1..Len(saved) : saved[j] = saved[k] => j = k \/ saved[j] = None

WindowInv == Window(panes) /\ SavedFits

LEMMA PersistFits ==
  ASSUME Window(panes'), Persist
  PROVE  SavedFits'
<1>1. PICK now : now = panes'
  OBVIOUS
<1>2. PICK written : written = saved'
  OBVIOUS
<1> DEFINE n == Len(now)
<1>3. IsSeq(now) /\ n \in Nat /\ n > 0 /\ DOMAIN now = 1..n /\ OneView(now)
  BY <1>1, SeqFacts DEF Window
<1>4. written = [k \in 1..n |-> now[k].sessionId]
  BY <1>1, <1>2, <1>3 DEF Persist
<1>5. IsSeq(written) /\ Len(written) = n
  <2>1. written = [k \in 1..n |-> written[k]]
    BY <1>4
  <2> HIDE DEF n
  <2> QED BY <1>3, <2>1, Made
<1>6. \A k \in 1..n : written[k] = now[k].sessionId
  BY <1>4
<1>7. \A j, k \in 1..Len(written) : written[j] = written[k] => j = k \/ written[j] = None
  BY <1>3, <1>5, <1>6 DEF OneView
<1>8. Len(written) > 0
  BY <1>3, <1>5
<1> HIDE DEF n
<1> QED BY <1>2, <1>5, <1>7, <1>8 DEF SavedFits

LEMMA RestoredFits ==
  ASSUME SavedFits, NEW name \in [1..Len(saved) -> Pane], IsInjective(name)
  PROVE  Window(Deserialized(name))
<1> DEFINE n == Len(saved)
           ps == Deserialized(name)
<1>1. n \in Nat /\ n > 0 /\ DOMAIN saved = 1..n
  BY SeqFacts DEF SavedFits
<1>2. ps = [k \in 1..n |-> Leaf(name[k], saved[k])]
  BY <1>1 DEF Deserialized
<1> HIDE DEF ps, n
<1>3. IsSeq(ps) /\ Len(ps) = n
  <2>1. ps = [k \in 1..n |-> ps[k]]
    BY <1>2
  <2> QED BY <1>1, <2>1, Made
<1>4. \A k \in 1..n : ps[k].id = name[k] /\ ps[k].sessionId = saved[k]
  BY <1>2 DEF Leaf
<1>5. \A j, k \in 1..n : name[j] = name[k] => j = k
  BY DEF IsInjective, n
<1>6. OneId(ps)
  BY <1>3, <1>4, <1>5 DEF OneId
<1>7. \A j, k \in 1..n : saved[j] = saved[k] => j = k \/ saved[j] = None
  BY DEF SavedFits, n
<1>8. OneView(ps)
  BY <1>3, <1>4, <1>7 DEF OneView
<1> QED BY <1>1, <1>3, <1>6, <1>8 DEF Window, ps

LEMMA ReconciledFits ==
  ASSUME Window(panes), NEW ids, NEW living
  PROVE  Window(Reconciled(ids, living).panes)
<1> DEFINE recent == Only(mru, Range(ids))
           preferred == ByRecency(recent, Only(ids, living))
<1>1. Reconciled(ids, living) = [mru |-> recent, panes |-> Pruned(panes, ids, preferred)]
  BY DEF Reconciled
<1> HIDE DEF recent, preferred
<1>2. Reconciled(ids, living).panes = Pruned(panes, ids, preferred)
  BY <1>1
<1> QED BY <1>2, PrunedFits

-----------------------------------------------------------------------------
LEMMA Alone ==
  ASSUME NEW x
  PROVE  IsSeq(<<x>>) /\ Len(<<x>>) = 1
<1>1. <<x>> \in Seq({x}) /\ Len(<<x>>) = 1
  OBVIOUS
<1> QED BY <1>1 DEF IsSeq

LEMMA WindowInit == PanesInit => WindowInv
<1> SUFFICES ASSUME PanesInit PROVE WindowInv
  OBVIOUS
<1>1. PICK pane : panes = <<Leaf(pane, None)>>
  BY DEF PanesInit
<1>2. IsSeq(panes) /\ Len(panes) = 1
  BY <1>1, Alone
<1>3. IsSeq(saved) /\ Len(saved) = 1
  BY Alone DEF PanesInit
<1>4. OneId(panes) /\ OneView(panes)
  BY <1>2 DEF OneId, OneView
<1> QED BY <1>2, <1>3, <1>4 DEF WindowInv, Window, SavedFits

LEMMA WindowStep ==
  ASSUME WindowInv, [PanesNext]_paneVars
  PROVE  WindowInv'
<1>1. Window(panes) /\ SavedFits
  BY DEF WindowInv
<1>2. ASSUME Window(panes'), Persist
      PROVE  WindowInv'
  BY <1>2, PersistFits DEF WindowInv, Window, IsSeq, OneId, OneView
<1>3. ASSUME Window(panes'), UNCHANGED saved
      PROVE  WindowInv'
  BY <1>1, <1>3 DEF WindowInv, SavedFits, Window, IsSeq, OneId, OneView
<1>4. ASSUME UNCHANGED <<panes, saved>>
      PROVE  WindowInv'
  BY <1>1, <1>4 DEF WindowInv, SavedFits, Window, IsSeq, OneId, OneView
<1>5. ASSUME NEW pane, NEW id, panes' = SetPaneSession(panes, pane, id), Persist
      PROVE  WindowInv'
  <2>1. Window(SetPaneSession(panes, pane, id))
    BY <1>1, SetKeeps
  <2> QED BY <1>2, <1>5, <2>1
<1>6. ASSUME NEW ids, NEW living, ListChanges(ids, living)
      PROVE  WindowInv'
  <2>1. panes' = Reconciled(ids, living).panes /\ UNCHANGED saved
    BY <1>6 DEF ListChanges
  <2>2. Window(Reconciled(ids, living).panes)
    BY <1>1, ReconciledFits
  <2> QED BY <1>3, <2>1, <2>2
<1>7. ASSUME NEW id, Created(id)
      PROVE  WindowInv'
  <2>1. PICK ids, living : ids = list' /\ living = alive'
    OBVIOUS
  <2> DEFINE after == Reconciled(ids, living).panes
  <2>2. panes' = SetPaneSession(after, active, id) /\ Persist
    BY <1>7, <2>1 DEF Created
  <2>3. Window(after)
    BY <1>1, ReconciledFits
  <2> HIDE DEF after
  <2>4. Window(SetPaneSession(after, active, id))
    BY <2>3, SetKeeps
  <2> QED BY <1>2, <2>2, <2>4
<1>8. ASSUME NEW id, FocusSession(id)
      PROVE  WindowInv'
  BY <1>5, <1>8 DEF FocusSession
<1>9. ASSUME NEW pane, FocusPane(pane)
      PROVE  WindowInv'
  BY <1>4, <1>9 DEF FocusPane
<1>10. ASSUME NEW step, CyclePane(step)
       PROVE  WindowInv'
  BY <1>9, <1>10 DEF CyclePane
<1>11. ASSUME NEW step, CycleSession(step)
       PROVE  WindowInv'
  BY <1>8, <1>11 DEF CycleSession
<1>12. ASSUME NEW pane, NEW id, AssignSessionToPane(pane, id)
       PROVE  WindowInv'
  BY <1>5, <1>12 DEF AssignSessionToPane
<1>13. ASSUME NEW fresh, SplitActive(fresh)
       PROVE  WindowInv'
  <2>1. panes' = SplitPane(panes, active, fresh, None, FALSE) /\ fresh \notin PaneIds(panes) /\ Persist
    BY <1>13 DEF SplitActive
  <2>2. Window(SplitPane(panes, active, fresh, None, FALSE))
    BY <1>1, <2>1, SplitEmpty
  <2> QED BY <1>2, <2>1, <2>2
<1>14. ASSUME NEW pane, ClosePaneById(pane)
       PROVE  WindowInv'
  <2>1. panes' = ClosePane(panes, pane) /\ Persist
    BY <1>14 DEF ClosePaneById
  <2>2. Window(ClosePane(panes, pane))
    BY <1>1, CloseFits
  <2> QED BY <1>2, <2>1, <2>2
<1>15. ASSUME NEW pane, DropInCenter(pane)
       PROVE  WindowInv'
  BY <1>5, <1>15 DEF DropInCenter
<1>16. ASSUME NEW pane, NEW fresh, NEW first \in BOOLEAN, DropOnEdge(pane, fresh, first)
       PROVE  WindowInv'
  <2> DEFINE split == SplitPane(panes, pane, fresh, dragged, first)
  <2>1. panes' = SetPaneSession(split, fresh, dragged) /\ fresh \notin PaneIds(panes) /\ Persist
    BY <1>16 DEF DropOnEdge
  <2>2. IsSeq(split) /\ Len(split) > 0 /\ OneId(split) /\ OneViewBut(fresh, split)
    BY <1>1, <2>1, SplitFits
  <2> HIDE DEF split
  <2>3. Window(SetPaneSession(split, fresh, dragged))
    BY <2>2, SetFits
  <2> QED BY <1>2, <2>1, <2>3
<1>17. CASE Restore
  <2>1. PICK name \in [1..Len(saved) -> Pane], recent \in {<<>>, mru} :
          LET restored == Pruned(Deserialized(name), list, <<>>)
          IN /\ IsInjective(name)
             /\ active' = name[1]
             /\ IF restored[1].sessionId # None \/ alive = {}
                THEN panes' = restored /\ mru' = recent /\ UNCHANGED saved
                ELSE \E id \in alive :
                       /\ panes' = SetPaneSession(restored, name[1], id)
                       /\ mru' = Touched(recent, id)
                       /\ Persist
    BY <1>17 DEF Restore
  <2> DEFINE restored == Pruned(Deserialized(name), list, <<>>)
  <2>2. Window(Deserialized(name))
    BY <1>1, <2>1, RestoredFits
  <2>3. Window(restored)
    BY <2>2, PrunedFits
  <2>4. (panes' = restored /\ UNCHANGED saved)
          \/ \E id \in alive : panes' = SetPaneSession(restored, name[1], id) /\ Persist
    BY <2>1
  <2> HIDE DEF restored
  <2>5. CASE panes' = restored /\ UNCHANGED saved
    BY <1>3, <2>3, <2>5
  <2>6. ASSUME NEW id \in alive, panes' = SetPaneSession(restored, name[1], id), Persist
        PROVE  WindowInv'
    <3>1. Window(SetPaneSession(restored, name[1], id))
      BY <2>3, SetKeeps
    <3> QED BY <1>2, <2>6, <3>1
  <2> QED BY <2>4, <2>5, <2>6
<1>18. ASSUME NEW id, BeginTabDrag(id)
       PROVE  WindowInv'
  BY <1>4, <1>18 DEF BeginTabDrag
<1>19. CASE EndTabDrag
  BY <1>4, <1>19 DEF EndTabDrag
<1>20. CASE UNCHANGED paneVars
  BY <1>4, <1>20 DEF paneVars
<1> QED BY <1>6, <1>7, <1>8, <1>9, <1>10, <1>11, <1>12, <1>13, <1>14, <1>15, <1>16, <1>17, <1>18, <1>19, <1>20
        DEF PanesNext

(* Whatever lists arrive, panes are split, filled, closed, dropped on or    *)
(* restored from a saved layout: a session is in one pane at most, so that  *)
(* the one DOM node of its terminal has one place (layout.ts).              *)
THEOREM OneViewAlways == PanesSpec => []OneViewEach
<1>1. PanesInit => WindowInv
  BY WindowInit
<1>2. WindowInv /\ [PanesNext]_paneVars => WindowInv'
  BY WindowStep
<1>3. WindowInv => OneViewEach
  <2> SUFFICES ASSUME WindowInv PROVE OneViewEach
    OBVIOUS
  <2>1. DOMAIN panes = 1..Len(panes) /\ OneView(panes)
    BY SeqFacts DEF WindowInv, Window
  <2> QED BY <2>1 DEF OneView, OneViewEach
<1> QED BY <1>1, <1>2, <1>3, PTL DEF PanesSpec

-----------------------------------------------------------------------------
(* A pane is emptied only when there is nothing left to show. *)

Distinct(s) == \A j, k \in 1..Len(s) : s[j] = s[k] => j = k

(* t has those of the first k elements of s that are in S. *)
Chosen(t, s, k, S) ==
  /\ IsSeq(t) /\ Len(t) <= k
  /\ \A i \in 1..Len(t) : t[i] \in S /\ \E j \in 1..k : t[i] = s[j]
  /\ \A j \in 1..k : s[j] \in S => \E i \in 1..Len(t) : t[i] = s[j]
  /\ Distinct(s) => Distinct(t)

(* upto of Only. *)
Chooses(g, n, s, S) ==
  /\ g[0] = <<>>
  /\ \A k \in 1..n : g[k] = IF s[k] \in S THEN Append(g[k - 1], s[k]) ELSE g[k - 1]

LEMMA ChooseRuns ==
  ASSUME NEW n \in Nat, NEW s, NEW S
  PROVE  \E g : Chooses(g, n, s, S)
<1> DEFINE Upto(m) == \E g : Chooses(g, m, s, S)
           T == {m \in 0..n : ~Upto(m)}
           F(t, k) == IF s[k] \in S THEN Append(t, s[k]) ELSE t
<1>1. SUFFICES ASSUME T # {} PROVE FALSE
  OBVIOUS
<1>2. PICK m \in T : \A k \in T : m <= k
  <2>1. T \subseteq Nat
    OBVIOUS
  <2> HIDE DEF T
  <2> QED BY <1>1, <2>1, LeastIndex
<1>3. m # 0
  <2>1. Upto(0)
    <3> DEFINE g == [i \in 0..0 |-> <<>>]
    <3>1. Chooses(g, 0, s, S)
      BY DEF Chooses
    <3> HIDE DEF g
    <3> QED BY <3>1
  <2> QED BY <2>1, <1>2
<1>4. m - 1 \in 0..n /\ m \in 1..n
  BY <1>2, <1>3
<1>5. Upto(m - 1)
  BY <1>2, <1>4
<1>6. PICK g : Chooses(g, m - 1, s, S)
  BY <1>5
<1> DEFINE h == [i \in 0..m |-> IF i < m THEN g[i] ELSE F(g[m - 1], m)]
<1>7. h[0] = <<>> /\ h[m] = F(g[m - 1], m) /\ \A i \in 0..m - 1 : h[i] = g[i]
  BY <1>4, <1>6 DEF Chooses
<1>10. \A i \in 1..m - 1 : g[i] = F(g[i - 1], i)
  BY <1>6 DEF Chooses
<1> HIDE DEF h, F
<1>8. \A i \in 1..m : h[i] = F(h[i - 1], i)
  <2> TAKE i \in 1..m
  <2>1. CASE i = m
    BY <1>4, <1>7, <2>1
  <2>2. CASE i # m
    <3>1. i \in 1..m - 1 /\ h[i] = g[i] /\ h[i - 1] = g[i - 1]
      BY <1>4, <1>7, <2>2
    <3> QED BY <1>10, <3>1
  <2> QED BY <2>1, <2>2
<1>9. Chooses(h, m, s, S)
  BY <1>7, <1>8 DEF Chooses, F
<1> QED BY <1>2, <1>9

LEMMA OnlyRuns ==
  ASSUME NEW s, Len(s) \in Nat, NEW S
  PROVE  \E g : Chooses(g, Len(s), s, S) /\ Only(s, S) = g[Len(s)]
<1> DEFINE n == Len(s)
           F(f, k) == IF k = 0 THEN <<>> ELSE IF s[k] \in S THEN Append(f[k - 1], s[k]) ELSE f[k - 1]
<1>1. n \in Nat
  OBVIOUS
<1>2. PICK g : Chooses(g, n, s, S)
  BY ChooseRuns
<1> DEFINE h == [i \in 0..n |-> g[i]]
<1>3. h = [k \in 0..n |-> F(h, k)]
  <2>1. \A k \in 0..n : k # 0 => k \in 1..n /\ k - 1 \in 0..n
    BY <1>1
  <2>2. \A k \in 0..n : g[k] = F(h, k)
    BY <1>2, <2>1 DEF Chooses
  <2> QED BY <2>2
<1> HIDE DEF h
<1> DEFINE f == CHOOSE f : f = [k \in 0..n |-> F(f, k)]
<1>4. f = [k \in 0..n |-> F(f, k)]
  BY <1>3
<1>5. Only(s, S) = f[n]
  BY DEF Only
<1> HIDE DEF f
<1>6. Chooses(f, n, s, S)
  <2>1. \A k \in 0..n : f[k] = F(f, k)
    BY <1>4
  <2>2. \A k \in 1..n : k \in 0..n /\ k # 0
    BY <1>1
  <2>3. 0 \in 0..n
    BY <1>1
  <2> QED BY <2>1, <2>2, <2>3 DEF Chooses
<1> QED BY <1>5, <1>6

LEMMA ChosenNext ==
  ASSUME NEW s, IsSeq(s), NEW k \in 1..Len(s), NEW S, NEW t, Chosen(t, s, k - 1, S)
  PROVE  Chosen(IF s[k] \in S THEN Append(t, s[k]) ELSE t, s, k, S)
<1>1. Len(s) \in Nat /\ k \in Nat /\ k >= 1
  BY SeqFacts
<1>2. \A j \in 1..k : j = k \/ j \in 1..k - 1
  BY <1>1
<1>3. \A j \in 1..k - 1 : j \in 1..k /\ j \in 1..Len(s) /\ j # k
  BY <1>1
<1>4. IsSeq(t) /\ Len(t) \in Nat /\ Len(t) <= k - 1
  BY SeqFacts DEF Chosen
<1>5. CASE s[k] \notin S
  <2>1. Chosen(t, s, k, S)
    BY <1>1, <1>2, <1>3, <1>4, <1>5 DEF Chosen
  <2> QED BY <1>5, <2>1
<1>6. CASE s[k] \in S
  <2> DEFINE u == Append(t, s[k])
             m == Len(t)
  <2>1. IsSeq(u) /\ Len(u) = m + 1 /\ u[m + 1] = s[k] /\ \A i \in 1..m : u[i] = t[i]
    <3>1. PICK T : t \in Seq(T)
      BY <1>4 DEF IsSeq
    <3> DEFINE U == T \cup {s[k]}
    <3>2. t \in Seq(U) /\ s[k] \in U
      BY <3>1
    <3> HIDE DEF U
    <3>3. u \in Seq(U) /\ Len(u) = m + 1 /\ u[m + 1] = s[k] /\ \A i \in 1..m : u[i] = t[i]
      BY <3>2
    <3> QED BY <3>3 DEF IsSeq
  <2>2. \A i \in 1..m + 1 : i = m + 1 \/ i \in 1..m
    BY <1>4
  <2>3. \A i \in 1..m : i \in 1..m + 1
    BY <1>4
  <2>4. m + 1 \in 1..m + 1 /\ k \in 1..k
    BY <1>1, <1>4
  <2>5. m \in Nat /\ m + 1 <= k
    BY <1>1, <1>4
  <2> HIDE DEF u, m
  <2>6. \A i \in 1..Len(u) : u[i] \in S /\ \E j \in 1..k : u[i] = s[j]
    BY <1>3, <1>6, <2>1, <2>2, <2>4 DEF Chosen, m
  <2>7. \A j \in 1..k : s[j] \in S => \E i \in 1..Len(u) : u[i] = s[j]
    BY <1>2, <2>1, <2>3, <2>4 DEF Chosen, m
  <2>8. ASSUME Distinct(s)
        PROVE  Distinct(u)
    <3>1. \A i \in 1..m : t[i] # s[k]
      <4> SUFFICES ASSUME NEW i \in 1..m, t[i] = s[k] PROVE FALSE
        OBVIOUS
      <4>1. PICK j \in 1..k - 1 : t[i] = s[j]
        BY DEF Chosen, m
      <4> QED BY <1>3, <2>8, <4>1 DEF Distinct
    <3>2. Distinct(t)
      BY <2>8 DEF Chosen
    <3> QED BY <2>1, <2>2, <3>1, <3>2 DEF Distinct, m
  <2>9. Chosen(u, s, k, S)
    BY <2>1, <2>5, <2>6, <2>7, <2>8 DEF Chosen
  <2> QED BY <1>6, <2>9 DEF u
<1> QED BY <1>5, <1>6

LEMMA OnlyIs ==
  ASSUME NEW s, IsSeq(s), NEW S
  PROVE  Chosen(Only(s, S), s, Len(s), S)
<1> DEFINE n == Len(s)
<1>1. n \in Nat
  BY SeqFacts
<1>2. PICK g : Chooses(g, n, s, S) /\ Only(s, S) = g[n]
  BY <1>1, OnlyRuns
<1> DEFINE T == {m \in 0..n : ~Chosen(g[m], s, m, S)}
<1>3. SUFFICES ASSUME T # {} PROVE FALSE
  BY <1>1, <1>2
<1> HIDE DEF n
<1>4. PICK m \in T : \A k \in T : m <= k
  <2>1. T \subseteq Nat
    BY <1>1
  <2> HIDE DEF T
  <2> QED BY <1>3, <2>1, LeastIndex
<1>5. m # 0
  <2>1. Chosen(<<>>, s, 0, S)
    <3>1. <<>> \in Seq({}) /\ Len(<<>>) = 0
      OBVIOUS
    <3>2. IsSeq(<<>>)
      BY <3>1 DEF IsSeq
    <3>3. 1..0 = {}
      OBVIOUS
    <3> QED BY <3>1, <3>2, <3>3 DEF Chosen, Distinct
  <2> QED BY <1>2, <1>4, <2>1 DEF Chooses
<1>6. m - 1 \in 0..n /\ m \in 1..n /\ ~(m <= m - 1)
  BY <1>1, <1>4, <1>5
<1>7. Chosen(g[m - 1], s, m - 1, S)
  BY <1>4, <1>6
<1>8. g[m] = IF s[m] \in S THEN Append(g[m - 1], s[m]) ELSE g[m - 1]
  BY <1>2, <1>6 DEF Chooses
<1>9. Chosen(g[m], s, m, S)
  <2> DEFINE t == g[m - 1]
  <2> HIDE DEF t
  <2>1. Chosen(t, s, m - 1, S) /\ m \in 1..Len(s)
    BY <1>6, <1>7 DEF t, n
  <2>2. Chosen(IF s[m] \in S THEN Append(t, s[m]) ELSE t, s, m, S)
    BY <2>1, ChosenNext
  <2> QED BY <1>8, <2>2 DEF t
<1> QED BY <1>4, <1>9

(* What Only leaves: the elements in the set, and none twice that was not.  *)
LEMMA OnlyHas ==
  ASSUME NEW s, IsSeq(s), NEW S
  PROVE  /\ IsSeq(Only(s, S)) /\ Len(Only(s, S)) <= Len(s)
         /\ Range(Only(s, S)) = Range(s) \cap S
         /\ Distinct(s) => Distinct(Only(s, S))
<1> DEFINE t == Only(s, S)
<1>1. Chosen(t, s, Len(s), S)
  BY OnlyIs
<1> HIDE DEF t
<1>2. IsSeq(t)
  BY <1>1 DEF Chosen
<1>3. DOMAIN t = 1..Len(t) /\ DOMAIN s = 1..Len(s)
  BY <1>2, SeqFacts
<1>4. Range(t) = Range(s) \cap S
  <2>1. Range(t) = {t[i] : i \in 1..Len(t)} /\ Range(s) = {s[j] : j \in 1..Len(s)}
    BY <1>3 DEF Range
  <2>2. \A i \in 1..Len(t) : t[i] \in S /\ t[i] \in Range(s)
    BY <1>1, <2>1 DEF Chosen
  <2>3. \A j \in 1..Len(s) : s[j] \in S => s[j] \in Range(t)
    BY <1>1, <2>1 DEF Chosen
  <2> QED BY <2>1, <2>2, <2>3
<1> QED BY <1>1, <1>4 DEF Chosen, t

LEMMA JoinedHas ==
  ASSUME NEW a, IsSeq(a), Distinct(a), NEW b, IsSeq(b), Distinct(b), Range(a) \cap Range(b) = {}
  PROVE  IsSeq(a \o b) /\ Distinct(a \o b) /\ Range(a \o b) = Range(a) \cup Range(b)
<1>1. PICK A, B : a \in Seq(A) /\ b \in Seq(B)
  BY DEF IsSeq
<1> DEFINE T == A \cup B
           c == a \o b
           m == Len(a)
           n == Len(b)
<1>2. a \in Seq(T) /\ b \in Seq(T)
  BY <1>1
<1> HIDE DEF T
<1>3. /\ c \in Seq(T) /\ m \in Nat /\ n \in Nat /\ Len(c) = m + n
      /\ \A k \in 1..m : c[k] = a[k]
      /\ \A k \in 1..n : c[m + k] = b[k]
  BY <1>2, Joined
<1>4. DOMAIN a = 1..m /\ DOMAIN b = 1..n /\ DOMAIN c = 1..m + n
  <2>1. DOMAIN c = 1..Len(c)
    BY <1>3
  <2> QED BY <1>1, <1>3, <2>1
<1> HIDE DEF c, m, n
<1>5. \A k \in 1..m + n : k \in 1..m \/ (k - m \in 1..n /\ k = m + (k - m))
  BY <1>3
<1>6. \A k \in 1..m : k \in 1..m + n
  BY <1>3
<1>7. \A k \in 1..n : m + k \in 1..m + n
  BY <1>3
<1>8. (\A k \in 1..m : a[k] \in Range(a)) /\ (\A k \in 1..n : b[k] \in Range(b))
  BY <1>4 DEF Range
<1>9. \A k \in 1..m + n : (k \in 1..m /\ c[k] = a[k]) \/ (k - m \in 1..n /\ c[k] = b[k - m])
  <2> TAKE k \in 1..m + n
  <2>1. CASE k \in 1..m
    BY <1>3, <2>1
  <2>2. CASE k - m \in 1..n /\ k = m + (k - m)
    <3>1. c[m + (k - m)] = b[k - m]
      BY <1>3, <2>2
    <3> QED BY <2>2, <3>1
  <2> QED BY <1>5, <2>1, <2>2
<1>10. \A j, k \in 1..m + n : c[j] = c[k] => j = k
  <2> SUFFICES ASSUME NEW j \in 1..m + n, NEW k \in 1..m + n, c[j] = c[k] PROVE j = k
    OBVIOUS
  <2>1. CASE j \in 1..m /\ c[j] = a[j] /\ k \in 1..m /\ c[k] = a[k]
    BY <2>1 DEF Distinct, m
  <2>2. CASE j - m \in 1..n /\ c[j] = b[j - m] /\ k - m \in 1..n /\ c[k] = b[k - m]
    <3>1. j - m = k - m
      BY <2>2 DEF Distinct, n
    <3> QED BY <1>3, <3>1
  <2>3. CASE (j \in 1..m /\ c[j] = a[j] /\ k - m \in 1..n /\ c[k] = b[k - m])
             \/ (k \in 1..m /\ c[k] = a[k] /\ j - m \in 1..n /\ c[j] = b[j - m])
    BY <1>8, <2>3
  <2> QED BY <1>9, <2>1, <2>2, <2>3
<1>11. Range(c) = Range(a) \cup Range(b)
  <2>1. \A k \in 1..m + n : c[k] \in Range(a) \cup Range(b)
    BY <1>8, <1>9
  <2>2. \A x \in Range(a) : \E k \in 1..m + n : c[k] = x
    BY <1>3, <1>4, <1>6 DEF Range
  <2>3. \A x \in Range(b) : \E k \in 1..m + n : c[k] = x
    BY <1>3, <1>4, <1>7 DEF Range
  <2>4. Range(c) = {c[k] : k \in 1..m + n}
    BY <1>4 DEF Range
  <2> QED BY <2>1, <2>2, <2>3, <2>4
<1> QED BY <1>3, <1>10, <1>11 DEF c, IsSeq, Distinct

(* What a pane shows is found again. *)
LEMMA Views ==
  ASSUME NEW ps, IsSeq(ps), OneId(ps)
  PROVE  /\ \A k \in 1..Len(ps) : ps[k].id \in PaneIds(ps) /\ In(ps, ps[k].id) = ps[k].sessionId
         /\ \A k \in 1..Len(ps) : ps[k].sessionId # None => ps[k].sessionId \in Shown(ps)
         /\ \A pane \in PaneIds(ps) : \E k \in 1..Len(ps) : ps[k].id = pane
         /\ \A id \in Shown(ps) : id # None /\ \E k \in 1..Len(ps) : ps[k].sessionId = id
<1>1. DOMAIN ps = 1..Len(ps)
  BY SeqFacts
<1>2. PaneIds(ps) = {ps[k].id : k \in 1..Len(ps)} /\ Shown(ps) = {ps[k].sessionId : k \in 1..Len(ps)} \ {None}
  BY <1>1 DEF PaneIds, Shown
<1>3. ASSUME NEW k \in 1..Len(ps)
      PROVE  In(ps, ps[k].id) = ps[k].sessionId
  <2>1. Range(ps) = {ps[j] : j \in 1..Len(ps)}
    BY <1>1 DEF Range
  <2> DEFINE leaf == CHOOSE l \in Range(ps) : l.id = ps[k].id
  <2>2. leaf \in Range(ps) /\ leaf.id = ps[k].id
    <3>1. ps[k] \in Range(ps)
      BY <2>1
    <3> QED BY <3>1
  <2>3. In(ps, ps[k].id) = leaf.sessionId
    BY <1>2 DEF In
  <2> HIDE DEF leaf
  <2>4. PICK j \in 1..Len(ps) : leaf = ps[j]
    BY <2>1, <2>2
  <2>5. j = k
    BY <2>2, <2>4 DEF OneId
  <2> QED BY <2>3, <2>4, <2>5
<1> QED BY <1>2, <1>3

LEMMA SetIs ==
  ASSUME NEW ps, IsSeq(ps), NEW pane, NEW session
  PROVE  \A k \in 1..Len(ps) :
           LET leaf == SetPaneSession(ps, pane, session)[k]
           IN /\ leaf.id = ps[k].id
              /\ ps[k].id = pane => leaf.sessionId = session
              /\ ps[k].id # pane =>
                   leaf.sessionId = IF ps[k].sessionId = session THEN None ELSE ps[k].sessionId
<1>1. DOMAIN ps = 1..Len(ps)
  BY SeqFacts
<1> QED BY <1>1 DEF SetPaneSession, Leaf

(* What the sessions to show are. *)
LEMMA SpareHas ==
  ASSUME NEW ps, NEW ids, IsSeq(ids), Distinct(ids), NEW preferred, IsSeq(preferred), Distinct(preferred)
  PROVE  /\ IsSeq(Spare(ps, ids, preferred)) /\ Distinct(Spare(ps, ids, preferred))
         /\ Range(Spare(ps, ids, preferred)) = Range(ids) \ Shown(ps)
<1> DEFINE hidden == Range(ids) \ Shown(ps)
           a == Only(preferred, hidden)
           b == Only(ids, hidden \ Range(preferred))
<1>1. IsSeq(a) /\ Distinct(a) /\ Range(a) = Range(preferred) \cap hidden
  BY OnlyHas
<1>2. IsSeq(b) /\ Distinct(b) /\ Range(b) = Range(ids) \cap (hidden \ Range(preferred))
  BY OnlyHas
<1>3. Spare(ps, ids, preferred) = a \o b
  BY DEF Spare
<1> HIDE DEF a, b
<1>4. Range(a) \cap Range(b) = {} /\ Range(a) \cup Range(b) = hidden
  BY <1>1, <1>2
<1>5. IsSeq(a \o b) /\ Distinct(a \o b) /\ Range(a \o b) = hidden
  BY <1>1, <1>2, <1>4, JoinedHas
<1> QED BY <1>3, <1>5

(* What the j-th stale pane is given. *)
Given(spare, j) == IF j <= Len(spare) THEN spare[j] ELSE None

(* After k stale panes: they have what they are given, the others what they had. *)
RefilledTo(q, k, ps, stale, spare) ==
  /\ Window(q) /\ Len(q) = Len(ps)
  /\ \A i \in 1..Len(ps) :
       /\ q[i].id = ps[i].id
       /\ \A j \in 1..Len(stale) : j <= k /\ stale[j] = ps[i] => q[i].sessionId = Given(spare, j)
       /\ (\A j \in 1..Len(stale) : j <= k => stale[j] # ps[i]) => q[i].sessionId = ps[i].sessionId

LEMMA RefilledNext ==
  ASSUME NEW ps, Window(ps),
         NEW stale, IsSeq(stale), Distinct(stale), \A j \in 1..Len(stale) : \E i \in 1..Len(ps) : stale[j] = ps[i],
         NEW spare, IsSeq(spare), Distinct(spare), \A j \in 1..Len(spare) : spare[j] # None /\ spare[j] \notin Shown(ps),
         NEW k \in Nat, k > 0, NEW q, RefilledTo(q, k - 1, ps, stale, spare)
  PROVE  RefilledTo(Refilled(q, k, stale, spare), k, ps, stale, spare)
<1> DEFINE m == Len(stale)
           n == Len(ps)
<1>1. m \in Nat /\ n \in Nat /\ Len(spare) \in Nat /\ IsSeq(ps) /\ OneId(ps)
  BY SeqFacts DEF Window
<1>2. /\ Window(q) /\ Len(q) = n
      /\ \A i \in 1..n :
           /\ q[i].id = ps[i].id
           /\ \A j \in 1..m : j <= k - 1 /\ stale[j] = ps[i] => q[i].sessionId = Given(spare, j)
           /\ (\A j \in 1..m : j <= k - 1 => stale[j] # ps[i]) => q[i].sessionId = ps[i].sessionId
  BY DEF RefilledTo
<1>3. CASE k > m
  <2>1. Refilled(q, k, stale, spare) = q
    BY <1>3 DEF Refilled
  <2>2. \A j \in 1..m : j <= k /\ j <= k - 1
    BY <1>1, <1>3
  <2> HIDE DEF m, n
  <2>3. RefilledTo(q, k, ps, stale, spare)
    BY <1>2, <2>2 DEF RefilledTo, m, n
  <2> QED BY <2>1, <2>3
<1>4. CASE ~(k > m)
  <2> DEFINE v == Given(spare, k)
             pane == stale[k].id
             r == SetPaneSession(q, pane, v)
  <2>1. k \in 1..m
    BY <1>1, <1>4
  <2>2. Refilled(q, k, stale, spare) = r
    BY <1>4 DEF Refilled, Given
  <2>3. PICK at \in 1..n : stale[k] = ps[at]
    BY <2>1
  <2>4. Window(r) /\ Len(r) = n
    BY <1>2, SetKeeps
  <2>5. \A i \in 1..n : /\ r[i].id = q[i].id
                        /\ q[i].id = pane => r[i].sessionId = v
                        /\ q[i].id # pane => r[i].sessionId = IF q[i].sessionId = v THEN None ELSE q[i].sessionId
    <3>1. IsSeq(q)
      BY <1>2 DEF Window
    <3> HIDE DEF n
    <3>2. SetPaneSession(q, pane, v) = r
      OBVIOUS
    <3> HIDE DEF r, v, pane
    <3>3. \A i \in 1..Len(q) : /\ r[i].id = q[i].id
                               /\ q[i].id = pane => r[i].sessionId = v
                               /\ q[i].id # pane => r[i].sessionId = IF q[i].sessionId = v THEN None ELSE q[i].sessionId
      BY <3>1, <3>2, SetIs
    <3> QED BY <1>2, <3>3
  <2>6. \A i \in 1..n : q[i].id = pane <=> ps[i] = stale[k]
    BY <1>1, <1>2, <2>3 DEF OneId
  <2>7. \A j \in 1..m : j <= k - 1 /\ j # k /\ Given(spare, j) = v => v = None
    <3> SUFFICES ASSUME NEW j \in 1..m, j <= k - 1, Given(spare, j) = v, v # None PROVE FALSE
      OBVIOUS
    <3>1. k \in 1..Len(spare) /\ v = spare[k]
      BY <1>1, <2>1 DEF Given
    <3>2. j \in 1..Len(spare) /\ Given(spare, j) = spare[j]
      BY <1>1, <2>1, <3>1 DEF Given
    <3>3. j # k
      BY <2>1
    <3> QED BY <3>1, <3>2, <3>3 DEF Distinct
  <2>8. \A i \in 1..n : ps[i].sessionId = v => v = None
    <3> SUFFICES ASSUME NEW i \in 1..n, ps[i].sessionId = v, v # None PROVE FALSE
      OBVIOUS
    <3>1. k \in 1..Len(spare) /\ v = spare[k]
      BY <1>1, <2>1 DEF Given
    <3>2. ps[i].sessionId \in Shown(ps)
      BY <1>1, Views
    <3> QED BY <3>1, <3>2
  <2>9. \A j \in 1..m : j <= k <=> j = k \/ j <= k - 1
    BY <1>1, <2>1
  <2> HIDE DEF v, pane, r, m, n
  <2>10. ASSUME NEW i \in 1..n, ps[i] # stale[k]
         PROVE  r[i].sessionId = q[i].sessionId
    <3>1. q[i].id # pane
      BY <2>6, <2>10
    <3>2. q[i].sessionId = v => v = None
      <4>1. CASE \E j \in 1..m : j <= k - 1 /\ stale[j] = ps[i]
        <5>1. PICK j \in 1..m : j <= k - 1 /\ stale[j] = ps[i]
          BY <4>1
        <5>2. q[i].sessionId = Given(spare, j)
          BY <1>2, <5>1
        <5>3. j # k
          BY <2>10, <5>1
        <5> QED BY <2>7, <5>1, <5>2, <5>3
      <4>2. CASE ~\E j \in 1..m : j <= k - 1 /\ stale[j] = ps[i]
        <5>1. q[i].sessionId = ps[i].sessionId
          BY <1>2, <4>2
        <5> QED BY <2>8, <5>1
      <4> QED BY <4>1, <4>2
    <3> QED BY <2>5, <3>1, <3>2
  <2>11. ASSUME NEW i \in 1..n
         PROVE  /\ r[i].id = ps[i].id
                /\ \A j \in 1..m : j <= k /\ stale[j] = ps[i] => r[i].sessionId = Given(spare, j)
                /\ (\A j \in 1..m : j <= k => stale[j] # ps[i]) => r[i].sessionId = ps[i].sessionId
    <3>1. r[i].id = ps[i].id
      BY <1>2, <2>5
    <3>2. CASE ps[i] = stale[k]
      <4>1. r[i].sessionId = v
        BY <2>5, <2>6, <3>2
      <4>2. \A j \in 1..m : stale[j] = ps[i] => j = k
        BY <2>1, <3>2 DEF Distinct, m
      <4>3. k <= k
        OBVIOUS
      <4> QED BY <2>1, <3>1, <3>2, <4>1, <4>2, <4>3 DEF v
    <3>3. CASE ps[i] # stale[k]
      <4>1. r[i].sessionId = q[i].sessionId
        BY <2>10, <3>3
      <4>2. \A j \in 1..m : j <= k /\ stale[j] = ps[i] => j <= k - 1
        BY <2>9, <3>3
      <4>3. \A j \in 1..m : j <= k - 1 => j <= k
        BY <2>9
      <4> QED BY <1>2, <3>1, <4>1, <4>2, <4>3
    <3> QED BY <3>2, <3>3
  <2>12. RefilledTo(r, k, ps, stale, spare)
    BY <2>4, <2>11 DEF RefilledTo, m, n
  <2> QED BY <2>2, <2>12
<1> QED BY <1>3, <1>4

LEMMA RefilledAll ==
  ASSUME NEW ps, Window(ps),
         NEW stale, IsSeq(stale), Distinct(stale), \A j \in 1..Len(stale) : \E i \in 1..Len(ps) : stale[j] = ps[i],
         NEW spare, IsSeq(spare), Distinct(spare), \A j \in 1..Len(spare) : spare[j] # None /\ spare[j] \notin Shown(ps),
         NEW n \in Nat, NEW g, Prunes(g, n, ps, stale, spare)
  PROVE  RefilledTo(g[n], n, ps, stale, spare)
<1> DEFINE T == {m \in 0..n : ~RefilledTo(g[m], m, ps, stale, spare)}
<1>1. SUFFICES ASSUME T # {} PROVE FALSE
  OBVIOUS
<1>2. PICK m \in T : \A k \in T : m <= k
  <2>1. T \subseteq Nat
    OBVIOUS
  <2> HIDE DEF T
  <2> QED BY <1>1, <2>1, LeastIndex
<1>3. m # 0
  <2>1. RefilledTo(ps, 0, ps, stale, spare)
    <3>1. \A j \in 1..Len(stale) : ~(j <= 0)
      <4>1. Len(stale) \in Nat
        BY SeqFacts
      <4> QED BY <4>1
    <3> QED BY <3>1 DEF RefilledTo
  <2> QED BY <1>2, <2>1 DEF Prunes
<1>4. m - 1 \in 0..n /\ m \in 1..n /\ ~(m <= m - 1) /\ m \in Nat /\ m > 0
  BY <1>2, <1>3
<1>5. RefilledTo(g[m - 1], m - 1, ps, stale, spare)
  BY <1>2, <1>4
<1>6. g[m] = Refilled(g[m - 1], m, stale, spare)
  BY <1>4 DEF Prunes
<1>7. RefilledTo(g[m], m, ps, stale, spare)
  <2> DEFINE q == g[m - 1]
  <2> HIDE DEF q
  <2>1. RefilledTo(q, m - 1, ps, stale, spare)
    BY <1>5 DEF q
  <2>2. RefilledTo(Refilled(q, m, stale, spare), m, ps, stale, spare)
    BY <1>4, <2>1, RefilledNext
  <2> QED BY <1>6, <2>2 DEF q
<1> QED BY <1>2, <1>7

(* A pane keeps a session that is listed; one that loses its session and    *)
(* gets none stays empty because all that are listed are shown.             *)
LEMMA PrunedHoles ==
  ASSUME NEW ps, Window(ps), NEW ids, IsSeq(ids), Distinct(ids), None \notin Range(ids),
         NEW preferred, IsSeq(preferred), Distinct(preferred)
  PROVE  LET r == Pruned(ps, ids, preferred)
         IN /\ Window(r) /\ Len(r) = Len(ps)
            /\ \A i \in 1..Len(ps) :
                 /\ r[i].id = ps[i].id
                 /\ ps[i].sessionId \in Range(ids) => r[i].sessionId = ps[i].sessionId
                 /\ ps[i].sessionId # None /\ r[i].sessionId = None => Range(ids) \subseteq Shown(r)
<1> DEFINE stale == Stale(ps, ids)
           spare == Spare(ps, ids, preferred)
           n == Len(ps)
           Gone(leaf) == leaf.sessionId \notin Range(ids) \cup {None}
           r == Pruned(ps, ids, preferred)
<1>1. IsSeq(ps) /\ OneId(ps) /\ n \in Nat /\ DOMAIN ps = 1..n
  BY SeqFacts DEF Window
<1>2. Range(ps) = {ps[i] : i \in 1..n}
  BY <1>1 DEF Range
<1>3. /\ IsSeq(stale) /\ Len(stale) <= n /\ Distinct(stale)
      /\ Range(stale) = {leaf \in Range(ps) : Gone(leaf)}
  <2> DEFINE S == {leaf \in Range(ps) : Gone(leaf)}
  <2>1. Distinct(ps)
    BY <1>1 DEF OneId, Distinct
  <2>2. stale = Only(ps, S)
    BY DEF Stale
  <2>3. Range(ps) \cap S = S
    OBVIOUS
  <2> HIDE DEF S, stale
  <2>4. IsSeq(stale) /\ Len(stale) <= n /\ Distinct(stale) /\ Range(stale) = Range(ps) \cap S
    BY <1>1, <2>1, <2>2, OnlyHas
  <2> QED BY <2>3, <2>4 DEF S
<1>4. IsSeq(spare) /\ Distinct(spare) /\ Range(spare) = Range(ids) \ Shown(ps)
  BY SpareHas
<1>5. PICK g : Prunes(g, n, ps, stale, spare) /\ r = g[n]
  BY PrunedIs
<1>6. Window(r) /\ Len(r) = n
  BY PrunedFits
<1> HIDE DEF stale, spare, r, Gone
<1>7. Len(stale) \in Nat /\ Len(spare) \in Nat /\ DOMAIN stale = 1..Len(stale) /\ DOMAIN spare = 1..Len(spare)
  BY <1>3, <1>4, SeqFacts
<1>8. /\ Range(stale) = {stale[j] : j \in 1..Len(stale)}
      /\ Range(spare) = {spare[j] : j \in 1..Len(spare)}
  BY <1>7 DEF Range
<1>9. \A j \in 1..Len(stale) : \E i \in 1..n : stale[j] = ps[i]
  BY <1>2, <1>3, <1>8
<1>10. \A j \in 1..Len(spare) : spare[j] # None /\ spare[j] \notin Shown(ps) /\ spare[j] \in Range(ids)
  BY <1>4, <1>8
<1>11. RefilledTo(r, n, ps, stale, spare)
  <2> HIDE DEF n
  <2>1. n \in Nat /\ \A j \in 1..Len(stale) : \E i \in 1..Len(ps) : stale[j] = ps[i]
    BY <1>1, <1>9 DEF n
  <2> QED BY <1>3, <1>4, <1>5, <1>10, <2>1, RefilledAll
<1>12. \A j \in 1..Len(stale) : j <= n
  BY <1>1, <1>3, <1>7
<1>13. \A i \in 1..n :
         /\ r[i].id = ps[i].id
         /\ \A j \in 1..Len(stale) : stale[j] = ps[i] => r[i].sessionId = Given(spare, j)
         /\ (\A j \in 1..Len(stale) : stale[j] # ps[i]) => r[i].sessionId = ps[i].sessionId
  BY <1>11, <1>12 DEF RefilledTo
<1>14. \A i \in 1..n : (\E j \in 1..Len(stale) : stale[j] = ps[i]) <=> Gone(ps[i])
  BY <1>2, <1>3, <1>8
<1>15. \A i \in 1..n : ps[i].sessionId \in Range(ids) => r[i].sessionId = ps[i].sessionId
  BY <1>13, <1>14 DEF Gone
<1>16. \A i \in 1..n : r[i].sessionId # None => r[i].sessionId \in Shown(r)
  BY <1>6, Views DEF Window
<1>17. ASSUME NEW i \in 1..n, ps[i].sessionId # None, r[i].sessionId = None, NEW x \in Range(ids)
       PROVE  x \in Shown(r)
  <2>1. Gone(ps[i])
    BY <1>13, <1>14, <1>17
  <2>2. PICK j \in 1..Len(stale) : stale[j] = ps[i]
    BY <1>14, <2>1
  <2>3. j > Len(spare)
    <3>1. Given(spare, j) = None
      BY <1>13, <1>17, <2>2
    <3>2. j <= Len(spare) => j \in 1..Len(spare) /\ Given(spare, j) = spare[j]
      BY <1>7 DEF Given
    <3>3. ~(j <= Len(spare))
      BY <1>10, <3>1, <3>2
    <3> QED BY <1>7, <3>3
  <2>4. CASE x \in Shown(ps)
    <3>1. PICK k \in 1..n : ps[k].sessionId = x
      BY <1>1, <2>4, Views
    <3>2. r[k].sessionId = x /\ x # None
      BY <1>15, <3>1
    <3> QED BY <1>16, <3>2
  <2>5. CASE x \notin Shown(ps)
    <3>1. PICK l \in 1..Len(spare) : spare[l] = x
      BY <1>4, <1>8, <2>5
    <3>2. l \in 1..Len(stale) /\ l <= Len(spare)
      BY <1>7, <2>3
    <3>3. PICK k \in 1..n : stale[l] = ps[k]
      BY <1>9, <3>2
    <3>4. r[k].sessionId = x
      BY <1>13, <3>1, <3>2, <3>3 DEF Given
    <3> QED BY <1>16, <3>4
  <2> QED BY <2>4, <2>5
<1> QED BY <1>6, <1>13, <1>15, <1>17 DEF r

(* No pane is emptied for nothing. *)
NoHole == \A pane \in Pane : ~EmptiedForNothing(pane)

(* A pane that is empty in the end has lost its session to another, or all  *)
(* sessions are shown.                                                      *)
LEMMA HolesBy ==
  ASSUME Window(panes), Window(panes'),
         \A i \in 1..Len(panes), k \in 1..Len(panes') :
           /\ panes[i].id = panes'[k].id /\ panes'[k].sessionId = None
           /\ panes[i].sessionId # None /\ panes[i].sessionId \in Range(list)
           => panes[i].sessionId \in Shown(panes') \/ Range(list') \subseteq Shown(panes')
  PROVE  NoHole
<1> SUFFICES ASSUME NEW pane \in Pane, EmptiedForNothing(pane) PROVE FALSE
  BY DEF NoHole
<1>1. PICK ps, qs : ps = panes /\ qs = panes'
  OBVIOUS
<1>2. /\ pane \in PaneIds(ps) /\ pane \in PaneIds(qs)
      /\ In(ps, pane) # None /\ In(qs, pane) = None /\ In(ps, pane) \in Range(list)
      /\ In(ps, pane) \notin Shown(qs) /\ ~(Range(list') \subseteq Shown(qs))
  BY <1>1 DEF EmptiedForNothing, Emptied
<1>3. IsSeq(ps) /\ OneId(ps) /\ IsSeq(qs) /\ OneId(qs)
  BY <1>1 DEF Window
<1>4. PICK i \in 1..Len(ps) : ps[i].id = pane
  BY <1>2, <1>3, Views
<1>5. PICK k \in 1..Len(qs) : qs[k].id = pane
  BY <1>2, <1>3, Views
<1>6. In(ps, pane) = ps[i].sessionId /\ In(qs, pane) = qs[k].sessionId
  BY <1>3, <1>4, <1>5, Views
<1> QED BY <1>1, <1>2, <1>4, <1>5, <1>6

(* A session is moved to a pane that is there. *)
LEMMA SetHoles ==
  ASSUME NEW ps, IsSeq(ps), Len(ps) > 0, OneId(ps), NEW target \in PaneIds(ps), OneViewBut(target, ps), NEW id, id # None
  PROVE  LET qs == SetPaneSession(ps, target, id)
         IN /\ Window(qs) /\ PaneIds(qs) = PaneIds(ps) /\ id \in Shown(qs)
            /\ \A i \in 1..Len(ps), k \in 1..Len(qs) :
                 ps[i].id = qs[k].id /\ qs[k].sessionId = None /\ ps[i].sessionId # None => ps[i].sessionId = id
<1> DEFINE qs == SetPaneSession(ps, target, id)
           n == Len(ps)
<1>1. IsSeq(ps) /\ OneId(ps)
  OBVIOUS
<1>2. Window(qs) /\ Len(qs) = n
  BY SetFits
<1>3. IsSeq(qs) /\ OneId(qs)
  BY <1>2 DEF Window
<1>4. \A k \in 1..n :
        /\ qs[k].id = ps[k].id
        /\ ps[k].id = target => qs[k].sessionId = id
        /\ ps[k].id # target => qs[k].sessionId = IF ps[k].sessionId = id THEN None ELSE ps[k].sessionId
  BY <1>1, SetIs
<1> HIDE DEF qs
<1>5. PICK t \in 1..n : ps[t].id = target
  BY <1>1, Views
<1>6. id \in Shown(qs)
  BY <1>2, <1>3, <1>4, <1>5, Views
<1>7. DOMAIN ps = 1..n /\ DOMAIN qs = 1..n
  BY <1>1, <1>2, <1>3, SeqFacts
<1>8. PaneIds(qs) = PaneIds(ps)
  BY <1>4, <1>7 DEF PaneIds
<1>9. \A i, k \in 1..n : ps[i].id = qs[k].id => i = k
  BY <1>1, <1>4 DEF OneId
<1> HIDE DEF n
<1>10. \A i \in 1..n, k \in 1..n :
         ps[i].id = qs[k].id /\ qs[k].sessionId = None /\ ps[i].sessionId # None => ps[i].sessionId = id
  BY <1>4, <1>9
<1> QED BY <1>2, <1>6, <1>8, <1>10 DEF qs, n

(* A pane is put beside another: it is new, the rest are as they were. *)
LEMMA SplitHas ==
  ASSUME NEW ps, Window(ps), NEW pane \in PaneIds(ps), NEW fresh, fresh \notin PaneIds(ps), NEW session, NEW first \in BOOLEAN
  PROVE  LET t == SplitPane(ps, pane, fresh, session, first)
         IN /\ fresh \in PaneIds(t)
            /\ \A k \in 1..Len(t) : t[k] = Leaf(fresh, session) \/ \E i \in 1..Len(ps) : t[k] = ps[i]
<1> DEFINE at == At(ps, pane)
           n == Len(ps)
           e == Leaf(fresh, session)
           t == SplitPane(ps, pane, fresh, session, first)
           i == IF first THEN at ELSE at + 1
<1>1. n \in Nat /\ IsSeq(ps) /\ OneId(ps)
  BY SeqFacts DEF Window
<1>2. at \in 0..n /\ at # 0
  <2>1. PICK k \in 1..n : ps[k].id = pane
    BY <1>1, Views
  <2> QED BY <1>1, <2>1, Finds
<1>3. t = InsertAt(ps, i, e)
  BY <1>2 DEF SplitPane, SelectInSeq, At
<1>4. i \in 1..n + 1
  BY <1>1, <1>2
<1> HIDE DEF i, at
<1>5. /\ IsSeq(t) /\ Len(t) = n + 1
      /\ \A k \in 1..n + 1 : t[k] = IF k < i THEN ps[k] ELSE IF k = i THEN e ELSE ps[k - 1]
  BY <1>1, <1>3, <1>4, Inserted DEF n
<1> HIDE DEF t
<1>6. \A k \in 1..n + 1 : (k < i => k \in 1..n) /\ (k > i => k - 1 \in 1..n) /\ (k < i \/ k = i \/ k > i) /\ ~(k > i /\ (k < i \/ k = i))
  BY <1>1, <1>4
<1> HIDE DEF n
<1>7. \A k \in 1..n + 1 : t[k] = e \/ \E j \in 1..n : t[k] = ps[j]
  <2> TAKE k \in 1..n + 1
  <2>1. CASE k < i
    BY <1>5, <1>6, <2>1
  <2>2. CASE k = i
    <3>1. ~(i < i)
      BY <1>4
    <3> QED BY <1>4, <1>5, <2>2, <3>1
  <2>3. CASE k > i
    <3>1. t[k] = ps[k - 1] /\ k - 1 \in 1..n
      BY <1>5, <1>6, <2>3
    <3> QED BY <3>1
  <2> QED BY <1>6, <2>1, <2>2, <2>3
<1>8. t[i] = e /\ e.id = fresh
  <2>1. ~(i < i)
    BY <1>4
  <2> QED BY <1>4, <1>5, <2>1 DEF Leaf
<1>9. fresh \in PaneIds(t)
  <2>1. DOMAIN t = 1..n + 1
    BY <1>5, SeqFacts
  <2> HIDE DEF e
  <2> QED BY <1>4, <1>8, <2>1 DEF PaneIds
<1> QED BY <1>5, <1>7, <1>9 DEF t, n

LEMMA CloseHas ==
  ASSUME NEW ps, Window(ps), NEW pane
  PROVE  \A k \in 1..Len(ClosePane(ps, pane)) : \E i \in 1..Len(ps) : ClosePane(ps, pane)[k] = ps[i]
<1> DEFINE at == At(ps, pane)
           n == Len(ps)
           t == ClosePane(ps, pane)
           found == \E k \in 1..n : ps[k].id = pane
<1>1. n \in Nat /\ IsSeq(ps)
  BY SeqFacts DEF Window
<1>3. CASE n = 1 \/ ~found
  <2>1. t = ps
    BY <1>3 DEF ClosePane, RemoveFirstMatch
  <2> QED BY <2>1
<1>4. CASE n # 1 /\ found
  <2>1. t = RemoveAt(ps, at)
    BY <1>4 DEF ClosePane, RemoveFirstMatch, SelectInSeq, At
  <2>2. at \in 1..n
    BY <1>1, <1>4, Finds
  <2> HIDE DEF at
  <2>3. IsSeq(t) /\ Len(t) = n - 1 /\ \A k \in 1..n - 1 : t[k] = IF k < at THEN ps[k] ELSE ps[k + 1]
    BY <1>1, <2>1, <2>2, Removed DEF n
  <2>4. \A k \in 1..n - 1 : k \in 1..n /\ k + 1 \in 1..n
    BY <1>1
  <2> HIDE DEF t, n
  <2>5. \A k \in 1..n - 1 : \E i \in 1..n : t[k] = ps[i]
    BY <2>3, <2>4
  <2> QED BY <2>3, <2>5 DEF t, n
<1> QED BY <1>3, <1>4

-----------------------------------------------------------------------------
(* Lists and recencies have nothing twice, and there is a pane to act on.   *)
Listed(ids, living) == IsSeq(ids) /\ Distinct(ids) /\ Range(ids) \subseteq Session /\ living \subseteq Session
Recents(ids) == IsSeq(ids) /\ Distinct(ids)

HolesInv == WindowInv /\ Listed(list, alive) /\ Recents(mru) /\ active \in PaneIds(panes)

LEMMA ListsFit ==
  ASSUME NEW ids \in Lists
  PROVE  IsSeq(ids) /\ Distinct(ids) /\ Range(ids) \subseteq Session
<1>1. PICK n \in 0..Cardinality(Session) : ids \in [1..n -> Session]
  BY DEF Lists
<1>2. n \in Nat
  OBVIOUS
<1>3. ids \in Seq(Session) /\ DOMAIN ids = 1..n /\ Len(ids) = n
  BY <1>1, <1>2
<1>4. Distinct(ids)
  BY <1>3 DEF Lists, IsInjective, Distinct
<1>5. Range(ids) \subseteq Session
  BY <1>1 DEF Range
<1> QED BY <1>3, <1>4, <1>5 DEF IsSeq

LEMMA TouchedFits ==
  ASSUME NEW ids, Recents(ids), NEW id
  PROVE  Recents(Touched(ids, id))
<1>1. CASE id = None
  BY <1>1 DEF Touched
<1>2. CASE id # None
  <2> DEFINE a == <<id>>
             b == Only(ids, Range(ids) \ {id})
  <2>1. IsSeq(a) /\ Len(a) = 1 /\ a[1] = id
    BY Alone
  <2>2. Distinct(a) /\ Range(a) = {id}
    <3>1. DOMAIN a = 1..1
      BY <2>1, SeqFacts
    <3> HIDE DEF a
    <3> QED BY <2>1, <3>1 DEF Distinct, Range
  <2>3. IsSeq(b) /\ Distinct(b) /\ Range(b) = Range(ids) \cap (Range(ids) \ {id})
    BY OnlyHas DEF Recents
  <2>4. Touched(ids, id) = a \o b
    BY <1>2 DEF Touched
  <2> HIDE DEF a, b
  <2>5. Range(a) \cap Range(b) = {}
    BY <2>2, <2>3
  <2>6. IsSeq(a \o b) /\ Distinct(a \o b)
    BY <2>1, <2>2, <2>3, <2>5, JoinedHas
  <2> QED BY <2>4, <2>6 DEF Recents
<1> QED BY <1>1, <1>2

(* reconcileLayout: sessions that are listed stay where they are. *)
LEMMA ReconciledHoles ==
  ASSUME Window(panes), Recents(mru), NEW ids, NEW living, IsSeq(ids), Distinct(ids), None \notin Range(ids)
  PROVE  /\ Recents(Reconciled(ids, living).mru)
         /\ LET r == Reconciled(ids, living).panes
            IN /\ Window(r) /\ Len(r) = Len(panes)
               /\ \A i \in 1..Len(panes) :
                    /\ r[i].id = panes[i].id
                    /\ panes[i].sessionId \in Range(ids) => r[i].sessionId = panes[i].sessionId
                    /\ panes[i].sessionId # None /\ r[i].sessionId = None => Range(ids) \subseteq Shown(r)
<1> DEFINE recent == Only(mru, Range(ids))
           lives  == Only(ids, living)
           a == Only(recent, Range(lives))
           b == Only(lives, Range(lives) \ Range(recent))
           preferred == ByRecency(recent, lives)
<1>1. IsSeq(recent) /\ Distinct(recent)
  BY OnlyHas DEF Recents
<1>2. IsSeq(lives) /\ Distinct(lives)
  BY OnlyHas
<1>3. Reconciled(ids, living).mru = recent /\ Reconciled(ids, living).panes = Pruned(panes, ids, preferred)
  BY DEF Reconciled
<1> HIDE DEF recent, lives
<1>4. IsSeq(a) /\ Distinct(a) /\ Range(a) = Range(recent) \cap Range(lives)
  BY <1>1, OnlyHas
<1>5. IsSeq(b) /\ Distinct(b) /\ Range(b) = Range(lives) \cap (Range(lives) \ Range(recent))
  BY <1>2, OnlyHas
<1>6. preferred = a \o b
  BY DEF ByRecency
<1> HIDE DEF a, b, preferred
<1>7. Range(a) \cap Range(b) = {}
  BY <1>4, <1>5
<1>8. IsSeq(preferred) /\ Distinct(preferred)
  BY <1>4, <1>5, <1>6, <1>7, JoinedHas
<1>9. LET r == Pruned(panes, ids, preferred)
      IN /\ Window(r) /\ Len(r) = Len(panes)
         /\ \A i \in 1..Len(panes) :
              /\ r[i].id = panes[i].id
              /\ panes[i].sessionId \in Range(ids) => r[i].sessionId = panes[i].sessionId
              /\ panes[i].sessionId # None /\ r[i].sessionId = None => Range(ids) \subseteq Shown(r)
  BY <1>8, PrunedHoles
<1> QED BY <1>1, <1>3, <1>9 DEF Recents

LEMMA SameIds ==
  ASSUME NEW ps, IsSeq(ps), NEW qs, IsSeq(qs), Len(qs) = Len(ps), \A i \in 1..Len(ps) : qs[i].id = ps[i].id
  PROVE  PaneIds(qs) = PaneIds(ps)
<1>1. DOMAIN ps = 1..Len(ps) /\ DOMAIN qs = 1..Len(ps)
  BY SeqFacts
<1> QED BY <1>1 DEF PaneIds

-----------------------------------------------------------------------------
LEMMA HolesFrom ==
  ASSUME WindowInv', IsSeq(list'), Distinct(list'), Range(list') \subseteq Session, alive' \subseteq Session,
         Recents(mru'), active' \in PaneIds(panes')
  PROVE  HolesInv'
BY DEF HolesInv, Listed

LEMMA HolesStay ==
  ASSUME HolesInv, WindowInv', UNCHANGED <<list, alive>>, Recents(mru'), active' \in PaneIds(panes')
  PROVE  HolesInv'
<1>1. IsSeq(list') /\ Distinct(list') /\ Range(list') \subseteq Session /\ alive' \subseteq Session
  BY DEF HolesInv, Listed, IsSeq, Distinct, Range
<1> QED BY <1>1, HolesFrom

(* No pane changes. *)
LEMMA QuietHoles ==
  ASSUME UNCHANGED panes
  PROVE  NoHole
BY DEF NoHole, EmptiedForNothing, Emptied, In, PaneIds

(* A session is put in a pane: the one it comes from is emptied for it. *)
LEMMA MovedHoles ==
  ASSUME HolesInv, WindowInv', NEW target \in PaneIds(panes), NEW id, id # None,
         panes' = SetPaneSession(panes, target, id)
  PROVE  NoHole /\ PaneIds(panes') = PaneIds(panes)
<1>1. PICK ps, qs : ps = panes /\ qs = panes'
  OBVIOUS
<1>2. Window(ps) /\ Window(qs) /\ target \in PaneIds(ps) /\ qs = SetPaneSession(ps, target, id)
  BY <1>1 DEF HolesInv, WindowInv
<1>3. IsSeq(ps) /\ Len(ps) > 0 /\ OneId(ps) /\ OneViewBut(target, ps)
  BY <1>2, OneViewIs DEF Window
<1>4. /\ PaneIds(qs) = PaneIds(ps) /\ id \in Shown(qs)
      /\ \A i \in 1..Len(ps), k \in 1..Len(qs) :
           ps[i].id = qs[k].id /\ qs[k].sessionId = None /\ ps[i].sessionId # None => ps[i].sessionId = id
  BY <1>2, <1>3, SetHoles
<1>5. NoHole
  <2>1. Window(panes) /\ Window(panes')
    BY <1>1, <1>2
  <2> QED BY <1>1, <1>4, <2>1, HolesBy
<1> QED BY <1>1, <1>4, <1>5

LEMMA NoneIsNoSession == None \notin Session
BY PanesAssumption

LEMMA HolesInit == PanesInit => HolesInv
<1> SUFFICES ASSUME PanesInit PROVE HolesInv
  OBVIOUS
<1>1. WindowInv
  BY WindowInit
<1>2. list \in Lists /\ alive = Range(list) /\ mru = <<>>
  BY DEF PanesInit
<1>3. Listed(list, alive)
  BY <1>2, ListsFit DEF Listed
<1>4. Recents(mru)
  <2>1. <<>> \in Seq({}) /\ Len(<<>>) = 0
    OBVIOUS
  <2> QED BY <1>2, <2>1 DEF Recents, IsSeq, Distinct
<1>5. PICK pane : panes = <<Leaf(pane, None)>> /\ active = pane
  BY DEF PanesInit
<1>6. active \in PaneIds(panes)
  BY <1>5 DEF PaneIds, Leaf
<1> QED BY <1>1, <1>3, <1>4, <1>6 DEF HolesInv

LEMMA ListHoles ==
  ASSUME HolesInv, WindowInv', NEW ids \in Lists, NEW living, ListChanges(ids, living)
  PROVE  HolesInv' /\ NoHole
<1>1. IsSeq(ids) /\ Distinct(ids) /\ Range(ids) \subseteq Session
  BY ListsFit
<1>2. None \notin Range(ids)
  BY <1>1, NoneIsNoSession
<1>3. Window(panes) /\ Recents(mru) /\ active \in PaneIds(panes)
  BY DEF HolesInv, WindowInv
<1> DEFINE r == Reconciled(ids, living).panes
<1>4. /\ list' = ids /\ alive' = living /\ living \subseteq Range(ids) /\ active' = active
      /\ panes' = r /\ mru' = Reconciled(ids, living).mru
  BY DEF ListChanges
<1>5. /\ Recents(Reconciled(ids, living).mru)
      /\ Window(r) /\ Len(r) = Len(panes)
      /\ \A i \in 1..Len(panes) :
           /\ r[i].id = panes[i].id
           /\ panes[i].sessionId \in Range(ids) => r[i].sessionId = panes[i].sessionId
           /\ panes[i].sessionId # None /\ r[i].sessionId = None => Range(ids) \subseteq Shown(r)
  BY <1>1, <1>2, <1>3, ReconciledHoles
<1> HIDE DEF r
<1>6. IsSeq(panes) /\ IsSeq(r) /\ OneId(panes) /\ OneId(r)
  BY <1>3, <1>5 DEF Window
<1>7. PaneIds(r) = PaneIds(panes)
  BY <1>5, <1>6, SameIds
<1>8. HolesInv'
  <2>1. IsSeq(list') /\ Distinct(list') /\ Range(list') \subseteq Session /\ alive' \subseteq Session
    BY <1>1, <1>4
  <2>2. Recents(mru') /\ active' \in PaneIds(panes')
    BY <1>3, <1>4, <1>5, <1>7
  <2> QED BY <2>1, <2>2, HolesFrom
<1>9. NoHole
  <2>1. Window(panes') /\ Len(panes') = Len(panes)
    BY <1>4, <1>5
  <2>2. \A i, k \in 1..Len(panes) : panes[i].id = r[k].id => i = k
    BY <1>5, <1>6 DEF OneId
  <2>3. \A i \in 1..Len(panes), k \in 1..Len(panes') :
          panes[i].id = panes'[k].id /\ panes'[k].sessionId = None /\ panes[i].sessionId # None
          => Range(list') \subseteq Shown(panes')
    BY <1>4, <1>5, <2>1, <2>2
  <2> QED BY <1>3, <2>1, <2>3, HolesBy
<1> QED BY <1>8, <1>9

LEMMA AppendFits ==
  ASSUME NEW ids, IsSeq(ids), Distinct(ids), NEW id, id \notin Range(ids)
  PROVE  LET t == Append(ids, id) IN IsSeq(t) /\ Distinct(t) /\ Range(t) = Range(ids) \cup {id}
<1>1. PICK S : ids \in Seq(S)
  BY DEF IsSeq
<1> DEFINE T == S \cup {id}
           n == Len(ids)
           t == Append(ids, id)
<1>2. ids \in Seq(T) /\ id \in T /\ n \in Nat /\ DOMAIN ids = 1..n
  BY <1>1
<1> HIDE DEF T
<1>3. /\ t \in Seq(T) /\ Len(t) = n + 1 /\ DOMAIN t = 1..n + 1
      /\ t[n + 1] = id /\ \A k \in 1..n : t[k] = ids[k]
  BY <1>2
<1>4. \A k \in 1..n + 1 : k = n + 1 \/ k \in 1..n
  BY <1>2
<1>5. n + 1 \in 1..n + 1 /\ \A k \in 1..n : k \in 1..n + 1
  BY <1>2
<1>6. \A k \in 1..n : ids[k] # id
  BY <1>2 DEF Range
<1> HIDE DEF t, n
<1>7. \A j, k \in 1..n + 1 : t[j] = t[k] => j = k
  BY <1>3, <1>4, <1>6 DEF Distinct, n
<1>8. Range(t) = Range(ids) \cup {id}
  BY <1>2, <1>3, <1>4, <1>5 DEF Range
<1> QED BY <1>3, <1>7, <1>8 DEF IsSeq, Distinct, t

(* All panes keep what they show, but the active one and, for a session     *)
(* that was there already, the one that had it.                             *)
LEMMA CreatedHoles ==
  ASSUME HolesInv, WindowInv', NEW id \in Session, Created(id)
  PROVE  HolesInv' /\ NoHole
<1>1. PICK ids, living : ids = list' /\ living = alive'
  OBVIOUS
<1>2. /\ Window(panes) /\ Recents(mru) /\ active \in PaneIds(panes)
      /\ IsSeq(list) /\ Distinct(list) /\ Range(list) \subseteq Session /\ alive \subseteq Session
  BY DEF HolesInv, WindowInv, Listed
<1>3. ids = (IF id \in Range(list) THEN list ELSE Append(list, id)) /\ living = alive \cup {id}
  BY <1>1 DEF Created
<1>4. IsSeq(ids) /\ Distinct(ids) /\ Range(ids) \subseteq Session /\ Range(list) \subseteq Range(ids)
  <2>1. CASE id \in Range(list)
    BY <1>2, <1>3, <2>1
  <2>2. CASE id \notin Range(list)
    <3>1. ids = Append(list, id)
      BY <1>3, <2>2
    <3>2. IsSeq(ids) /\ Distinct(ids) /\ Range(ids) = Range(list) \cup {id}
      BY <1>2, <2>2, <3>1, AppendFits
    <3> QED BY <1>2, <3>2
  <2> QED BY <2>1, <2>2
<1>5. None \notin Range(ids) /\ id # None
  BY <1>4, NoneIsNoSession
<1> DEFINE r == Reconciled(ids, living).panes
           recent == Reconciled(ids, living).mru
<1>6. panes' = SetPaneSession(r, active, id) /\ mru' = Touched(recent, id) /\ active' = active
  BY <1>1 DEF Created
<1>7. /\ Recents(recent)
      /\ Window(r) /\ Len(r) = Len(panes)
      /\ \A i \in 1..Len(panes) :
           /\ r[i].id = panes[i].id
           /\ panes[i].sessionId \in Range(ids) => r[i].sessionId = panes[i].sessionId
  BY <1>2, <1>4, <1>5, ReconciledHoles
<1> HIDE DEF r, recent
<1>8. IsSeq(panes) /\ IsSeq(r) /\ Len(r) > 0 /\ OneId(r) /\ OneViewBut(active, r)
  BY <1>2, <1>7, OneViewIs DEF Window
<1>9. active \in PaneIds(r)
  BY <1>2, <1>7, <1>8, SameIds
<1> DEFINE qs == SetPaneSession(r, active, id)
<1>10. /\ Window(qs) /\ PaneIds(qs) = PaneIds(r) /\ id \in Shown(qs)
       /\ \A i \in 1..Len(r), k \in 1..Len(qs) :
            r[i].id = qs[k].id /\ qs[k].sessionId = None /\ r[i].sessionId # None => r[i].sessionId = id
  BY <1>5, <1>8, <1>9, SetHoles
<1> HIDE DEF qs
<1>11. panes' = qs
  BY <1>6 DEF qs
<1>12. HolesInv'
  <2>1. IsSeq(list') /\ Distinct(list') /\ Range(list') \subseteq Session /\ alive' \subseteq Session
    BY <1>1, <1>2, <1>3, <1>4
  <2>2. Recents(mru')
    BY <1>6, <1>7, TouchedFits
  <2>3. active' \in PaneIds(panes')
    BY <1>6, <1>9, <1>10, <1>11
  <2> QED BY <2>1, <2>2, <2>3, HolesFrom
<1>13. NoHole
  <2>1. \A i \in 1..Len(panes), k \in 1..Len(qs) :
          /\ panes[i].id = qs[k].id /\ qs[k].sessionId = None
          /\ panes[i].sessionId # None /\ panes[i].sessionId \in Range(list)
          => panes[i].sessionId \in Shown(qs)
    BY <1>4, <1>7, <1>10
  <2>2. Window(panes')
    BY <1>10, <1>11
  <2>3. \A i \in 1..Len(panes), k \in 1..Len(panes') :
          /\ panes[i].id = panes'[k].id /\ panes'[k].sessionId = None
          /\ panes[i].sessionId # None /\ panes[i].sessionId \in Range(list)
          => panes[i].sessionId \in Shown(panes')
    BY <1>11, <2>1
  <2> QED BY <1>2, <2>2, <2>3, HolesBy
<1> QED BY <1>12, <1>13

LEMMA FocusHoles ==
  ASSUME HolesInv, WindowInv', NEW id, FocusSession(id)
  PROVE  HolesInv' /\ NoHole
<1>1. /\ id \in Range(list) /\ panes' = SetPaneSession(panes, active, id) /\ mru' = Touched(mru, id)
      /\ UNCHANGED <<list, alive, active>>
  BY DEF FocusSession
<1>2. Range(list) \subseteq Session /\ Recents(mru) /\ active \in PaneIds(panes)
  BY DEF HolesInv, Listed
<1>3. id # None
  BY <1>1, <1>2, NoneIsNoSession
<1>4. NoHole /\ PaneIds(panes') = PaneIds(panes)
  BY <1>1, <1>2, <1>3, MovedHoles
<1>5. Recents(mru') /\ active' \in PaneIds(panes')
  BY <1>1, <1>2, <1>4, TouchedFits
<1> QED BY <1>1, <1>4, <1>5, HolesStay

LEMMA FocusPaneHoles ==
  ASSUME HolesInv, WindowInv', NEW pane, FocusPane(pane)
  PROVE  HolesInv' /\ NoHole
<1>1. /\ pane \in PaneIds(panes) /\ active' = pane /\ mru' = Touched(mru, In(panes, pane))
      /\ UNCHANGED <<list, alive, panes>>
  BY DEF FocusPane
<1>2. Recents(mru')
  BY <1>1, TouchedFits DEF HolesInv
<1>3. active' \in PaneIds(panes')
  BY <1>1 DEF PaneIds
<1> QED BY <1>1, <1>2, <1>3, HolesStay, QuietHoles

LEMMA AssignHoles ==
  ASSUME HolesInv, WindowInv', NEW pane, NEW id \in Session, AssignSessionToPane(pane, id)
  PROVE  HolesInv' /\ NoHole
<1>1. pane \in PaneIds(panes) /\ panes' = SetPaneSession(panes, pane, id) /\ UNCHANGED <<list, alive, active, mru>>
  BY DEF AssignSessionToPane
<1>2. Recents(mru) /\ active \in PaneIds(panes) /\ id # None
  BY NoneIsNoSession DEF HolesInv
<1>3. NoHole /\ PaneIds(panes') = PaneIds(panes)
  BY <1>1, <1>2, MovedHoles
<1>4. Recents(mru') /\ active' \in PaneIds(panes')
  BY <1>1, <1>2, <1>3
<1> QED BY <1>1, <1>3, <1>4, HolesStay

LEMMA CenterHoles ==
  ASSUME HolesInv, WindowInv', NEW pane, DropInCenter(pane)
  PROVE  HolesInv' /\ NoHole
<1>1. /\ dragged # None /\ pane \in PaneIds(panes) /\ panes' = SetPaneSession(panes, pane, dragged)
      /\ active' = pane /\ mru' = Touched(mru, dragged) /\ UNCHANGED <<list, alive>>
  BY DEF DropInCenter
<1>2. NoHole /\ PaneIds(panes') = PaneIds(panes)
  BY <1>1, MovedHoles
<1>3. Recents(mru') /\ active' \in PaneIds(panes')
  BY <1>1, <1>2, TouchedFits DEF HolesInv
<1> QED BY <1>1, <1>2, <1>3, HolesStay

LEMMA SplitHoles ==
  ASSUME HolesInv, WindowInv', NEW fresh, SplitActive(fresh)
  PROVE  HolesInv' /\ NoHole
<1>1. PICK qs : qs = panes'
  OBVIOUS
<1>2. /\ fresh \notin PaneIds(panes) /\ qs = SplitPane(panes, active, fresh, None, FALSE)
      /\ active' = fresh /\ UNCHANGED <<list, alive, mru>>
  BY <1>1 DEF SplitActive
<1>3. Window(panes) /\ active \in PaneIds(panes) /\ Recents(mru) /\ Window(qs)
  BY <1>1 DEF HolesInv, WindowInv
<1>4. /\ fresh \in PaneIds(qs)
      /\ \A k \in 1..Len(qs) : qs[k] = Leaf(fresh, None) \/ \E i \in 1..Len(panes) : qs[k] = panes[i]
  <2> DEFINE t == SplitPane(panes, active, fresh, None, FALSE)
  <2>1. /\ fresh \in PaneIds(t)
        /\ \A k \in 1..Len(t) : t[k] = Leaf(fresh, None) \/ \E i \in 1..Len(panes) : t[k] = panes[i]
    <3>1. active \in PaneIds(panes) /\ Window(panes) /\ fresh \notin PaneIds(panes) /\ FALSE \in BOOLEAN
      BY <1>2, <1>3
    <3>2. fresh \in PaneIds(t)
      BY <3>1, SplitHas
    <3>3. \A f \in BOOLEAN : \A k \in 1..Len(SplitPane(panes, active, fresh, None, f)) :
            \/ SplitPane(panes, active, fresh, None, f)[k] = Leaf(fresh, None)
            \/ \E i \in 1..Len(panes) : SplitPane(panes, active, fresh, None, f)[k] = panes[i]
      BY <3>1, SplitHas
    <3>4. \A k \in 1..Len(t) : t[k] = Leaf(fresh, None) \/ \E i \in 1..Len(panes) : t[k] = panes[i]
      BY <3>3, Zenon
    <3> QED BY <3>2, <3>4
  <2> HIDE DEF t
  <2>2. qs = t
    BY <1>2 DEF t
  <2> QED BY <2>1, <2>2
<1>5. IsSeq(panes) /\ OneId(panes)
  BY <1>3 DEF Window
<1>6. \A i \in 1..Len(panes) : panes[i].id # fresh
  BY <1>2, <1>5, Views
<1>7. \A i \in 1..Len(panes), k \in 1..Len(qs) :
        panes[i].id = qs[k].id => panes[i].sessionId = qs[k].sessionId
  <2> SUFFICES ASSUME NEW i \in 1..Len(panes), NEW k \in 1..Len(qs), panes[i].id = qs[k].id
      PROVE  panes[i].sessionId = qs[k].sessionId
    OBVIOUS
  <2>1. qs[k] # Leaf(fresh, None)
    BY <1>6 DEF Leaf
  <2>2. PICK j \in 1..Len(panes) : qs[k] = panes[j]
    BY <1>4, <2>1
  <2> QED BY <1>5, <2>2 DEF OneId
<1>8. NoHole
  <2>1. Window(panes) /\ Window(panes')
    BY <1>1, <1>3
  <2> QED BY <1>1, <1>7, <2>1, HolesBy
<1>9. Recents(mru') /\ active' \in PaneIds(panes')
  BY <1>1, <1>2, <1>3, <1>4
<1> QED BY <1>2, <1>8, <1>9, HolesStay

LEMMA EdgeHoles ==
  ASSUME HolesInv, WindowInv', NEW pane, NEW fresh, NEW first \in BOOLEAN, DropOnEdge(pane, fresh, first)
  PROVE  HolesInv' /\ NoHole
<1> DEFINE split == SplitPane(panes, pane, fresh, dragged, first)
<1>1. PICK qs : qs = panes'
  OBVIOUS
<1>2. /\ dragged # None /\ pane \in PaneIds(panes) /\ fresh \notin PaneIds(panes)
      /\ qs = SetPaneSession(split, fresh, dragged)
      /\ active' = fresh /\ UNCHANGED <<list, alive, mru>>
  BY <1>1 DEF DropOnEdge
<1>3. Window(panes) /\ Recents(mru) /\ Window(qs)
  BY <1>1 DEF HolesInv, WindowInv
<1>4. IsSeq(panes) /\ OneId(panes)
  BY <1>3 DEF Window
<1>5. IsSeq(split) /\ Len(split) > 0 /\ OneId(split) /\ OneViewBut(fresh, split)
  BY <1>2, <1>3, SplitFits
<1>6. /\ fresh \in PaneIds(split)
      /\ \A k \in 1..Len(split) : split[k] = Leaf(fresh, dragged) \/ \E i \in 1..Len(panes) : split[k] = panes[i]
  BY <1>2, <1>3, SplitHas
<1> HIDE DEF split
<1>7. /\ PaneIds(qs) = PaneIds(split) /\ dragged \in Shown(qs)
      /\ Len(qs) = Len(split)
      /\ \A k \in 1..Len(split) :
           /\ qs[k].id = split[k].id
           /\ split[k].id # fresh =>
                qs[k].sessionId = IF split[k].sessionId = dragged THEN None ELSE split[k].sessionId
  BY <1>2, <1>5, <1>6, SetHoles, SetIs, SetFits
<1>8. \A i \in 1..Len(panes) : panes[i].id # fresh
  BY <1>2, <1>4, Views
<1>9. \A i \in 1..Len(panes), k \in 1..Len(qs) :
        panes[i].id = qs[k].id /\ qs[k].sessionId = None /\ panes[i].sessionId # None
        => panes[i].sessionId = dragged
  <2> SUFFICES ASSUME NEW i \in 1..Len(panes), NEW k \in 1..Len(qs),
                      panes[i].id = qs[k].id, qs[k].sessionId = None, panes[i].sessionId # None
      PROVE  panes[i].sessionId = dragged
    OBVIOUS
  <2>1. split[k].id = panes[i].id /\ k \in 1..Len(split)
    BY <1>7
  <2>2. split[k].id # fresh
    BY <1>8, <2>1
  <2>3. PICK j \in 1..Len(panes) : split[k] = panes[j]
    BY <1>6, <2>1, <2>2 DEF Leaf
  <2>4. split[k].sessionId = panes[i].sessionId
    BY <1>4, <2>1, <2>3 DEF OneId
  <2> QED BY <1>7, <2>1, <2>2, <2>4
<1>10. NoHole
  <2>1. Window(panes) /\ Window(panes')
    BY <1>1, <1>3
  <2> QED BY <1>1, <1>7, <1>9, <2>1, HolesBy
<1>11. Recents(mru') /\ active' \in PaneIds(panes')
  BY <1>1, <1>2, <1>3, <1>6, <1>7
<1> QED BY <1>2, <1>10, <1>11, HolesStay

LEMMA CloseHoles ==
  ASSUME HolesInv, WindowInv', NEW pane, ClosePaneById(pane)
  PROVE  HolesInv' /\ NoHole
<1>1. PICK qs : qs = panes'
  OBVIOUS
<1>2. /\ qs = ClosePane(panes, pane)
      /\ active' = IF active \in PaneIds(qs) THEN active ELSE qs[1].id
      /\ UNCHANGED <<list, alive, mru>>
  BY <1>1 DEF ClosePaneById
<1>3. Window(panes) /\ Recents(mru) /\ Window(qs)
  BY <1>1 DEF HolesInv, WindowInv
<1>4. IsSeq(panes) /\ OneId(panes) /\ IsSeq(qs) /\ OneId(qs) /\ Len(qs) \in Nat /\ Len(qs) > 0
  BY <1>3, SeqFacts DEF Window
<1>5. \A k \in 1..Len(qs) : \E i \in 1..Len(panes) : qs[k] = panes[i]
  BY <1>2, <1>3, CloseHas
<1>6. \A i \in 1..Len(panes), k \in 1..Len(qs) :
        panes[i].id = qs[k].id => panes[i].sessionId = qs[k].sessionId
  BY <1>4, <1>5 DEF OneId
<1>7. NoHole
  <2>1. Window(panes) /\ Window(panes')
    BY <1>1, <1>3
  <2> QED BY <1>1, <1>6, <2>1, HolesBy
<1>8. active' \in PaneIds(panes')
  <2>1. 1 \in 1..Len(qs)
    BY <1>4
  <2>2. qs[1].id \in PaneIds(qs)
    BY <1>4, <2>1, Views
  <2> QED BY <1>1, <1>2, <2>2
<1>9. Recents(mru')
  BY <1>2, <1>3
<1> QED BY <1>2, <1>7, <1>8, <1>9, HolesStay

LEMMA RestoreHoles ==
  ASSUME HolesInv, WindowInv', Restore
  PROVE  HolesInv'
<1>1. SavedFits /\ Recents(mru)
  BY DEF HolesInv, WindowInv
<1>2. PICK name \in [1..Len(saved) -> Pane], recent \in {<<>>, mru} :
        LET restored == Pruned(Deserialized(name), list, <<>>)
        IN /\ IsInjective(name)
           /\ active' = name[1]
           /\ IF restored[1].sessionId # None \/ alive = {}
              THEN panes' = restored /\ mru' = recent /\ UNCHANGED saved
              ELSE \E id \in alive :
                     /\ panes' = SetPaneSession(restored, name[1], id)
                     /\ mru' = Touched(recent, id)
                     /\ Persist
  BY DEF Restore
<1> DEFINE ps == Deserialized(name)
           r == Pruned(ps, list, <<>>)
           n == Len(saved)
<1>3. IsSeq(<<>>) /\ Distinct(<<>>)
  <2>1. <<>> \in Seq({}) /\ Len(<<>>) = 0
    OBVIOUS
  <2> QED BY <2>1 DEF IsSeq, Distinct
<1>4. Recents(recent)
  BY <1>1, <1>3 DEF Recents
<1>5. Window(ps)
  BY <1>1, <1>2, RestoredFits
<1>6. IsSeq(list) /\ Distinct(list) /\ None \notin Range(list)
  BY NoneIsNoSession DEF HolesInv, Listed
<1>7. n \in Nat /\ n > 0 /\ DOMAIN saved = 1..n
  BY <1>1, SeqFacts DEF SavedFits
<1>8. Len(ps) = n /\ ps[1].id = name[1] /\ 1 \in 1..n
  <2>1. ps = [k \in 1..n |-> Leaf(name[k], saved[k])]
    BY <1>7 DEF Deserialized
  <2> HIDE DEF ps, n
  <2>2. ps = [k \in 1..n |-> ps[k]]
    BY <2>1
  <2>3. Len(ps) = n
    BY <1>7, <2>2, Made
  <2>4. 1 \in 1..n
    BY <1>7
  <2> QED BY <2>1, <2>3, <2>4 DEF Leaf
<1> HIDE DEF ps
<1>9. Window(r) /\ Len(r) = Len(ps) /\ \A i \in 1..Len(ps) : r[i].id = ps[i].id
  BY <1>3, <1>5, <1>6, PrunedHoles
<1>10. \/ panes' = r /\ mru' = recent
       \/ \E id \in alive : panes' = SetPaneSession(r, name[1], id) /\ mru' = Touched(recent, id)
  BY <1>2 DEF ps
<1> HIDE DEF r, n
<1>11. name[1] \in PaneIds(r) /\ IsSeq(r) /\ OneId(r) /\ Len(r) > 0 /\ OneViewBut(name[1], r)
  <2>1. IsSeq(r) /\ OneId(r) /\ Len(r) > 0 /\ OneViewBut(name[1], r)
    BY <1>9, OneViewIs DEF Window
  <2>2. r[1].id = name[1] /\ 1 \in 1..Len(r)
    BY <1>8, <1>9
  <2> QED BY <2>1, <2>2, Views
<1>12. Recents(mru') /\ active' \in PaneIds(panes')
  <2>1. active' = name[1]
    BY <1>2
  <2>2. CASE panes' = r /\ mru' = recent
    BY <1>4, <1>11, <2>1, <2>2
  <2>3. ASSUME NEW id \in alive, panes' = SetPaneSession(r, name[1], id), mru' = Touched(recent, id)
        PROVE  Recents(mru') /\ active' \in PaneIds(panes')
    <3>1. id # None
      BY NoneIsNoSession DEF HolesInv, Listed
    <3>2. PaneIds(SetPaneSession(r, name[1], id)) = PaneIds(r)
      BY <1>11, <3>1, SetHoles
    <3>3. Recents(Touched(recent, id))
      BY <1>4, TouchedFits
    <3> QED BY <1>11, <2>1, <2>3, <3>2, <3>3
  <2> QED BY <1>10, <2>2, <2>3
<1>13. UNCHANGED <<list, alive>>
  BY DEF Restore
<1> QED BY <1>12, <1>13, HolesStay

LEMMA HolesStep ==
  ASSUME HolesInv, [PanesNext]_paneVars
  PROVE  HolesInv' /\ (NoHole \/ Restore)
<1>1. WindowInv'
  BY WindowStep DEF HolesInv
<1>2. ASSUME UNCHANGED <<list, alive, panes, active, mru>>
      PROVE  HolesInv' /\ NoHole
  <2>1. Recents(mru') /\ active' \in PaneIds(panes')
    BY <1>2 DEF HolesInv, PaneIds
  <2> QED BY <1>1, <1>2, <2>1, HolesStay, QuietHoles
<1>3. ASSUME NEW ids \in Lists, NEW living \in SUBSET Session, ListChanges(ids, living)
      PROVE  HolesInv' /\ NoHole
  BY <1>1, <1>3, ListHoles
<1>4. ASSUME NEW id \in Session, Created(id) \/ FocusSession(id) \/ BeginTabDrag(id)
      PROVE  HolesInv' /\ NoHole
  <2>1. CASE Created(id)
    BY <1>1, <2>1, CreatedHoles
  <2>2. CASE FocusSession(id)
    BY <1>1, <2>2, FocusHoles
  <2>3. CASE BeginTabDrag(id)
    BY <1>2, <2>3 DEF BeginTabDrag
  <2> QED BY <1>4, <2>1, <2>2, <2>3
<1>5. ASSUME NEW pane \in Pane,
             FocusPane(pane) \/ SplitActive(pane) \/ ClosePaneById(pane) \/ DropInCenter(pane)
      PROVE  HolesInv' /\ NoHole
  <2>1. CASE FocusPane(pane)
    BY <1>1, <2>1, FocusPaneHoles
  <2>2. CASE SplitActive(pane)
    BY <1>1, <2>2, SplitHoles
  <2>3. CASE ClosePaneById(pane)
    BY <1>1, <2>3, CloseHoles
  <2>4. CASE DropInCenter(pane)
    BY <1>1, <2>4, CenterHoles
  <2> QED BY <1>5, <2>1, <2>2, <2>3, <2>4
<1>6. ASSUME NEW pane \in Pane, NEW id \in Session, AssignSessionToPane(pane, id)
      PROVE  HolesInv' /\ NoHole
  BY <1>1, <1>6, AssignHoles
<1>7. ASSUME NEW pane \in Pane, NEW fresh \in Pane, NEW first \in BOOLEAN, DropOnEdge(pane, fresh, first)
      PROVE  HolesInv' /\ NoHole
  BY <1>1, <1>7, EdgeHoles
<1>8. ASSUME NEW step, CyclePane(step)
      PROVE  HolesInv' /\ NoHole
  BY <1>1, <1>8, FocusPaneHoles DEF CyclePane
<1>9. ASSUME NEW step, CycleSession(step)
      PROVE  HolesInv' /\ NoHole
  BY <1>1, <1>9, FocusHoles DEF CycleSession
<1>10. CASE EndTabDrag
  BY <1>2, <1>10 DEF EndTabDrag
<1>11. CASE Restore
  BY <1>1, <1>11, RestoreHoles
<1>12. CASE UNCHANGED paneVars
  BY <1>2, <1>12 DEF paneVars
<1> QED BY <1>3, <1>4, <1>5, <1>6, <1>7, <1>8, <1>9, <1>10, <1>11, <1>12 DEF PanesNext

(* Whatever lists arrive and whatever the user does to the panes, but for a *)
(* layout that is restored: a pane is emptied only when all sessions are    *)
(* shown or its own has been moved to another pane (pruneMissingSessions    *)
(* and setPaneSession of layout.ts, reconcileLayout of state.ts).           *)
THEOREM HolesAreNeeded == PanesSpec => NoNeedlessHole
<1>1. PanesInit => HolesInv
  BY HolesInit
<1>2. HolesInv /\ [PanesNext]_paneVars => HolesInv' /\ [NoHole \/ Restore]_paneVars
  BY HolesStep
<1>3. NoHole <=> \A pane \in Pane : ~EmptiedForNothing(pane)
  BY DEF NoHole
<1> QED BY <1>1, <1>2, <1>3, PTL DEF PanesSpec, NoNeedlessHole, NoHole

-----------------------------------------------------------------------------
(* What the user recorded. *)

(* A keymap of this version. *)
Table(t) == t = [k \in DOMAIN t |-> t[k]] /\ \A k \in DOMAIN t : t[k] \in ActionId

Fit(km) ==
  /\ km = [version |-> Newest, leader |-> km.leader, bindings |-> km.bindings, direct |-> km.direct]
  /\ Table(km.bindings) /\ Table(km.direct)

(* What was recorded: an action has a key behind the leader, or nothing is  *)
(* said of it.                                                              *)
Record(k) ==
  /\ k = [leader |-> k.leader, sub |-> k.sub, direct |-> k.direct]
  /\ k.sub = [a \in DOMAIN k.sub |-> k.sub[a]] /\ k.direct = [a \in DOMAIN k.direct |-> k.direct[a]]
  /\ \A a \in DOMAIN k.sub : k.sub[a] # {}

Keeping(k, km) ==
  /\ k.leader \subseteq {km.leader}
  /\ \A a \in DOMAIN k.sub : Held(km.bindings, a) = k.sub[a]
  /\ \A a \in DOMAIN k.direct : Held(km.direct, a) = k.direct[a]

Holding(k, km) == Fit(km) /\ Keeping(k, km) /\ DOMAIN km.direct # {}

(* Every request that may still reach the gateway. *)
Puts == keymapStrays \cup ({unsaved, saving} \ {Nothing})

(* Requests carry what was recorded no later than now; what waits to be     *)
(* sent is the newest; and the file has had the newest once the page has    *)
(* nothing left to save, or an answer that is not late was read.            *)
Numbered ==
  /\ recordings \in Nat /\ fileMade \in Nat /\ taken \in Nat
  /\ fileMade <= taken /\ taken <= recordings
  /\ \A put \in Puts : put.made \in Nat /\ put.made <= recordings
  /\ unsaved # Nothing => unsaved.made = recordings
  /\ saving # Nothing /\ unsaved = Nothing => saving.made = recordings
  /\ saving = Nothing => ~handled
  /\ handled => saving.made <= taken
  /\ kept # NothingKept /\ reading = NotReading /\ unsaved = Nothing /\ saving = Nothing => taken = recordings
  /\ kept # NothingKept /\ reading.now = "read" /\ ~late => taken = recordings

Counted == kept # NothingKept /\ shared.direct # <<>>

(* Whatever was made by the last change has what the user recorded. *)
RecordedInv ==
  /\ Fit(shared) /\ Record(kept)
  /\ reading.now = "read" => Fit(reading.read)
  /\ reading = NotReading => Keeping(kept, shared)
  /\ Counted =>
       /\ \A put \in Puts : put.made = recordings => Holding(kept, put.keymap)
       /\ fileMade = recordings => Holding(kept, keymapFile)
       /\ reading.now = "read" /\ ~late => Holding(kept, reading.read)

-----------------------------------------------------------------------------
LEMMA NothingIsKept ==
  ASSUME NEW km
  PROVE  Keeping(NothingKept, km) /\ Record(NothingKept)
BY DEF Keeping, NothingKept, Record

LEMMA NonEmpty ==
  ASSUME NEW t, Table(t), t # <<>>
  PROVE  DOMAIN t # {}
BY DEF Table

LEMMA DefaultFits == Fit(DefaultKeymap) /\ DOMAIN DefaultKeymap.direct # {} /\ DOMAIN DefaultKeymap.bindings # {}
<1>1. Table([key \in {",", "k"} |-> IF key = "," THEN "settings" ELSE "command-palette"])
  BY DEF Table, ActionId
<1>2. Table([chord \in {CmdComma, CmdJ} |-> IF chord = CmdJ THEN "insert-newline" ELSE "settings"])
  BY DEF Table, ActionId
<1> QED BY <1>1, <1>2 DEF Fit, DefaultKeymap

LEMMA KnownTable ==
  ASSUME NEW t
  PROVE  Table(Known(t))
BY DEF Table, Known, Restrict

LEMMA WithoutTwinsTable ==
  ASSUME NEW t, Table(t)
  PROVE  Table(WithoutTwins(t))
BY DEF Table, WithoutTwins, Restrict

LEMMA WithCmdJTable ==
  ASSUME NEW t, Table(t)
  PROVE  Table(WithCmdJ(t))
BY DEF Table, WithCmdJ, ActionId

LEMMA OrDefaultTable ==
  ASSUME NEW t, Table(t), NEW d, Table(d), DOMAIN d # {}
  PROVE  Table(OrDefault(t, d)) /\ DOMAIN OrDefault(t, d) # {}
BY DEF OrDefault

LEMMA NormalizedFits ==
  ASSUME NEW raw
  PROVE  Fit(Normalized(raw)) /\ DOMAIN Normalized(raw).direct # {}
<1> DEFINE older == Known(raw.direct)
           fourth == IF raw.version < 4 THEN WithoutTwins(older) ELSE older
           fifth  == IF raw.version < 5 THEN WithCmdJ(fourth) ELSE fourth
           prefix == IF raw.version < 2 /\ RetiredLeader(raw.leader) THEN DefaultLeader ELSE raw.leader
           bindings == OrDefault(Known(raw.bindings), DefaultKeymap.bindings)
           chords == OrDefault(fifth, DefaultKeymap.direct)
<1>1. Table(older) /\ Table(Known(raw.bindings))
  BY KnownTable
<1>2. Table(fourth)
  BY <1>1, WithoutTwinsTable
<1>3. Table(fifth)
  BY <1>2, WithCmdJTable
<1>4. Table(DefaultKeymap.bindings) /\ Table(DefaultKeymap.direct)
  BY DefaultFits DEF Fit
<1>5. Table(bindings) /\ Table(chords) /\ DOMAIN chords # {}
  <2> HIDE DEF fifth
  <2> QED BY <1>1, <1>3, <1>4, DefaultFits, OrDefaultTable
<1>6. Normalized(raw) = [version |-> Newest, leader |-> prefix, bindings |-> bindings, direct |-> chords]
  BY DEF Normalized
<1> HIDE DEF prefix, bindings, chords
<1> QED BY <1>5, <1>6 DEF Fit

(* The gateway changes nothing in a keymap of this version, but for tables  *)
(* that are empty.                                                          *)
LEMMA NormalizedKeeps ==
  ASSUME NEW km, Fit(km), NEW k, Record(k), Keeping(k, km), DOMAIN km.direct # {}
  PROVE  Keeping(k, Normalized(km))
<1> DEFINE n == Normalized(km)
<1>1. \A t : Table(t) => Known(t) = t
  BY DEF Table, Known, Restrict
<1>2. Table(km.bindings) /\ Table(km.direct) /\ km.version = 5
  BY DEF Fit, Newest
<1>3. n = [version |-> Newest, leader |-> km.leader,
           bindings |-> OrDefault(km.bindings, DefaultKeymap.bindings),
           direct |-> OrDefault(km.direct, DefaultKeymap.direct)]
  BY <1>1, <1>2 DEF Normalized
<1>4. n.leader = km.leader /\ n.direct = km.direct
  BY <1>3 DEF OrDefault
<1>5. n.bindings = km.bindings \/ DOMAIN km.bindings = {}
  BY <1>3 DEF OrDefault
<1>6. DOMAIN km.bindings = {} => DOMAIN k.sub = {}
  BY DEF Keeping, Held, Record
<1> HIDE DEF n
<1>7. Keeping(k, n)
  BY <1>4, <1>5, <1>6 DEF Keeping
<1> QED BY <1>7 DEF n

-----------------------------------------------------------------------------
(* What the user records. *)

LEMMA ReboundTable ==
  ASSUME NEW t, Table(t), NEW action \in ActionId, NEW at
  PROVE  /\ Table(Rebound(t, action, at))
         /\ Held(Rebound(t, action, at), action) = {at}
         /\ \A a : a # action => Held(Rebound(t, action, at), a) = Held(t, a) \ {at}
<1> DEFINE r == Rebound(t, action, at)
<1>1. /\ r = [k \in DOMAIN r |-> r[k]]
      /\ DOMAIN r = {l \in DOMAIN t : t[l] # action} \cup {at}
      /\ \A k \in DOMAIN r : r[k] = IF k = at THEN action ELSE t[k]
  BY DEF Rebound
<1> HIDE DEF r
<1>2. Table(r)
  BY <1>1 DEF Table
<1>3. Held(r, action) = {at}
  BY <1>1 DEF Held
<1>4. ASSUME NEW a, a # action
      PROVE  Held(r, a) = Held(t, a) \ {at}
  BY <1>1, <1>4 DEF Held
<1> QED BY <1>2, <1>3, <1>4 DEF r

LEMMA KeepsTable ==
  ASSUME NEW table, NEW action, NEW at
  PROVE  LET now == Keeps(table, action, at)
         IN /\ now = [a \in DOMAIN now |-> now[a]]
            /\ action \in DOMAIN now /\ now[action] = {at}
            /\ \A a \in DOMAIN now : a # action => a \in DOMAIN table /\ at \notin table[a] /\ now[a] = table[a]
BY DEF Keeps, Without, Restrict

LEMMA RecordingFits ==
  ASSUME RecordedInv, reading = NotReading
  PROVE  /\ \A chord : LET km == [shared EXCEPT !.leader = chord]
                           keeps  == [kept EXCEPT !.leader = {chord}]
                       IN Fit(km) /\ Record(keeps) /\ Keeping(keeps, km)
         /\ \A action \in ActionId : \A at :
              /\ LET km == [shared EXCEPT !.bindings = Rebound(@, action, at)]
                     keeps  == [kept EXCEPT !.sub = Keeps(@, action, at)]
                 IN Fit(km) /\ Record(keeps) /\ Keeping(keeps, km)
              /\ LET km == [shared EXCEPT !.direct = Rebound(@, action, at)]
                     keeps  == [kept EXCEPT !.direct = Keeps(@, action, at)]
                 IN Fit(km) /\ Record(keeps) /\ Keeping(keeps, km)
         /\ \A action :
              LET km == [shared EXCEPT !.direct = Cleared(@, action)]
                  keeps  == [kept EXCEPT !.direct = [a \in DOMAIN @ \cup {action} |-> IF a = action THEN {} ELSE @[a]]]
              IN Fit(km) /\ Record(keeps) /\ Keeping(keeps, km)
<1>1. /\ shared = [version |-> Newest, leader |-> shared.leader, bindings |-> shared.bindings, direct |-> shared.direct]
      /\ Table(shared.bindings) /\ Table(shared.direct)
      /\ kept = [leader |-> kept.leader, sub |-> kept.sub, direct |-> kept.direct]
      /\ kept.sub = [a \in DOMAIN kept.sub |-> kept.sub[a]] /\ kept.direct = [a \in DOMAIN kept.direct |-> kept.direct[a]]
      /\ \A a \in DOMAIN kept.sub : kept.sub[a] # {}
  BY DEF RecordedInv, Fit, Record
<1>2. /\ kept.leader \subseteq {shared.leader}
      /\ \A a \in DOMAIN kept.sub : Held(shared.bindings, a) = kept.sub[a]
      /\ \A a \in DOMAIN kept.direct : Held(shared.direct, a) = kept.direct[a]
  BY DEF RecordedInv, Keeping
<1>3. ASSUME NEW prefix, NEW bindings, Table(bindings), NEW chords, Table(chords),
             NEW l, l \subseteq {prefix},
             NEW s, s = [a \in DOMAIN s |-> s[a]], \A a \in DOMAIN s : s[a] # {} /\ Held(bindings, a) = s[a],
             NEW d, d = [a \in DOMAIN d |-> d[a]], \A a \in DOMAIN d : Held(chords, a) = d[a]
      PROVE  LET km == [version |-> Newest, leader |-> prefix, bindings |-> bindings, direct |-> chords]
                 keeps  == [leader |-> l, sub |-> s, direct |-> d]
             IN Fit(km) /\ Record(keeps) /\ Keeping(keeps, km)
  BY <1>3 DEF Fit, Record, Keeping
<1>4. ASSUME NEW chord
      PROVE  LET km == [shared EXCEPT !.leader = chord]
                 keeps  == [kept EXCEPT !.leader = {chord}]
             IN Fit(km) /\ Record(keeps) /\ Keeping(keeps, km)
  <2>1. [shared EXCEPT !.leader = chord]
          = [version |-> Newest, leader |-> chord, bindings |-> shared.bindings, direct |-> shared.direct]
    BY <1>1
  <2>2. [kept EXCEPT !.leader = {chord}] = [leader |-> {chord}, sub |-> kept.sub, direct |-> kept.direct]
    BY <1>1
  <2> QED BY <1>1, <1>2, <1>3, <2>1, <2>2
<1>5. ASSUME NEW action \in ActionId, NEW at
      PROVE  LET km == [shared EXCEPT !.bindings = Rebound(@, action, at)]
                 keeps  == [kept EXCEPT !.sub = Keeps(@, action, at)]
             IN Fit(km) /\ Record(keeps) /\ Keeping(keeps, km)
  <2> DEFINE b == Rebound(shared.bindings, action, at)
             s == Keeps(kept.sub, action, at)
  <2>1. /\ [shared EXCEPT !.bindings = Rebound(@, action, at)]
             = [version |-> Newest, leader |-> shared.leader, bindings |-> b, direct |-> shared.direct]
        /\ [kept EXCEPT !.sub = Keeps(@, action, at)] = [leader |-> kept.leader, sub |-> s, direct |-> kept.direct]
    BY <1>1
  <2>2. Table(b) /\ Held(b, action) = {at} /\ \A a : a # action => Held(b, a) = Held(shared.bindings, a) \ {at}
    BY <1>1, ReboundTable
  <2>3. /\ s = [a \in DOMAIN s |-> s[a]]
        /\ action \in DOMAIN s /\ s[action] = {at}
        /\ \A a \in DOMAIN s : a # action => a \in DOMAIN kept.sub /\ at \notin kept.sub[a] /\ s[a] = kept.sub[a]
    BY KeepsTable
  <2> HIDE DEF b, s
  <2>4. \A a \in DOMAIN s : s[a] # {} /\ Held(b, a) = s[a]
    <3> TAKE a \in DOMAIN s
    <3>1. CASE a = action
      BY <2>2, <2>3, <3>1
    <3>2. CASE a # action
      <4>1. s[a] = kept.sub[a] /\ kept.sub[a] # {} /\ at \notin kept.sub[a] /\ Held(shared.bindings, a) = kept.sub[a]
        BY <1>1, <1>2, <2>3, <3>2
      <4>2. Held(b, a) = kept.sub[a] \ {at}
        BY <2>2, <3>2, <4>1
      <4> QED BY <4>1, <4>2
    <3> QED BY <3>1, <3>2
  <2>5. kept.leader \subseteq {shared.leader} /\ Table(shared.direct)
        /\ kept.direct = [a \in DOMAIN kept.direct |-> kept.direct[a]]
        /\ \A a \in DOMAIN kept.direct : Held(shared.direct, a) = kept.direct[a]
    BY <1>1, <1>2
  <2>6. LET km == [version |-> Newest, leader |-> shared.leader, bindings |-> b, direct |-> shared.direct]
            keeps  == [leader |-> kept.leader, sub |-> s, direct |-> kept.direct]
        IN Fit(km) /\ Record(keeps) /\ Keeping(keeps, km)
    BY <1>3, <2>2, <2>3, <2>4, <2>5
  <2> QED BY <2>1, <2>6
<1>6. ASSUME NEW action \in ActionId, NEW at
      PROVE  LET km == [shared EXCEPT !.direct = Rebound(@, action, at)]
                 keeps  == [kept EXCEPT !.direct = Keeps(@, action, at)]
             IN Fit(km) /\ Record(keeps) /\ Keeping(keeps, km)
  <2> DEFINE b == Rebound(shared.direct, action, at)
             s == Keeps(kept.direct, action, at)
  <2>1. /\ [shared EXCEPT !.direct = Rebound(@, action, at)]
             = [version |-> Newest, leader |-> shared.leader, bindings |-> shared.bindings, direct |-> b]
        /\ [kept EXCEPT !.direct = Keeps(@, action, at)] = [leader |-> kept.leader, sub |-> kept.sub, direct |-> s]
    BY <1>1
  <2>2. Table(b) /\ Held(b, action) = {at} /\ \A a : a # action => Held(b, a) = Held(shared.direct, a) \ {at}
    BY <1>1, ReboundTable
  <2>3. /\ s = [a \in DOMAIN s |-> s[a]]
        /\ action \in DOMAIN s /\ s[action] = {at}
        /\ \A a \in DOMAIN s : a # action => a \in DOMAIN kept.direct /\ at \notin kept.direct[a] /\ s[a] = kept.direct[a]
    BY KeepsTable
  <2> HIDE DEF b, s
  <2>4. \A a \in DOMAIN s : Held(b, a) = s[a]
    <3> TAKE a \in DOMAIN s
    <3>1. CASE a = action
      BY <2>2, <2>3, <3>1
    <3>2. CASE a # action
      <4>1. s[a] = kept.direct[a] /\ at \notin kept.direct[a] /\ Held(shared.direct, a) = kept.direct[a]
        BY <1>1, <1>2, <2>3, <3>2
      <4>2. Held(b, a) = kept.direct[a] \ {at}
        BY <2>2, <3>2, <4>1
      <4> QED BY <4>1, <4>2
    <3> QED BY <3>1, <3>2
  <2> QED BY <1>1, <1>2, <1>3, <2>1, <2>2, <2>3, <2>4
<1>7. ASSUME NEW action
      PROVE  LET km == [shared EXCEPT !.direct = Cleared(@, action)]
                 keeps  == [kept EXCEPT !.direct = [a \in DOMAIN @ \cup {action} |-> IF a = action THEN {} ELSE @[a]]]
             IN Fit(km) /\ Record(keeps) /\ Keeping(keeps, km)
  <2> DEFINE old == shared.direct
             was == kept.direct
             b == Cleared(old, action)
             s == [a \in DOMAIN was \cup {action} |-> IF a = action THEN {} ELSE was[a]]
  <2>1. /\ [shared EXCEPT !.direct = Cleared(@, action)]
             = [version |-> Newest, leader |-> shared.leader, bindings |-> shared.bindings, direct |-> b]
        /\ [kept EXCEPT !.direct = [a \in DOMAIN @ \cup {action} |-> IF a = action THEN {} ELSE @[a]]]
             = [leader |-> kept.leader, sub |-> kept.sub, direct |-> s]
    BY <1>1
  <2> HIDE DEF old, was
  <2>2. Table(old) /\ \A a \in DOMAIN was : Held(old, a) = was[a]
    BY <1>1, <1>2 DEF old, was
  <2>3. b = [k \in {l \in DOMAIN old : old[l] # action} |-> old[k]]
    BY DEF Cleared, Restrict
  <2>4. Table(b)
    BY <2>2, <2>3 DEF Table
  <2>5. Held(b, action) = {} /\ \A a : a # action => Held(b, a) = Held(old, a)
    BY <2>3 DEF Held
  <2>6. s = [a \in DOMAIN s |-> s[a]] /\ DOMAIN s = DOMAIN was \cup {action}
        /\ \A a \in DOMAIN s : s[a] = IF a = action THEN {} ELSE was[a]
    OBVIOUS
  <2> HIDE DEF b, s
  <2>7. \A a \in DOMAIN s : Held(b, a) = s[a]
    BY <2>2, <2>5, <2>6
  <2> QED BY <1>1, <1>2, <1>3, <2>1, <2>4, <2>6, <2>7
<1> QED BY <1>4, <1>5, <1>6, <1>7

(* What the gateway makes of a keymap that has it, has it. *)
LEMMA NormalizedHolds ==
  ASSUME NEW k, Record(k), NEW km, Holding(k, km)
  PROVE  Holding(k, Normalized(km))
<1>1. Fit(Normalized(km)) /\ DOMAIN Normalized(km).direct # {}
  BY NormalizedFits
<1>2. Keeping(k, Normalized(km))
  BY NormalizedKeeps DEF Holding
<1> QED BY <1>1, <1>2 DEF Holding

LEMMA RecordedInit == ShortcutsInit => Numbered /\ RecordedInv
<1> SUFFICES ASSUME ShortcutsInit PROVE Numbered /\ RecordedInv
  OBVIOUS
<1>1. Fit(shared) /\ Record(kept)
  BY DefaultFits, NothingIsKept DEF ShortcutsInit
<1>2. reading = Asks /\ reading # NotReading /\ reading.now # "read" /\ kept = NothingKept
  BY DEF ShortcutsInit, Asks, NotReading
<1>3. Puts = {} /\ unsaved = Nothing /\ saving = Nothing /\ ~handled
  BY DEF ShortcutsInit, Puts
<1>4. recordings = 0 /\ fileMade = 0 /\ taken = 0
  BY DEF ShortcutsInit
<1> QED BY <1>1, <1>2, <1>3, <1>4 DEF RecordedInv, Numbered, Counted

LEMMA NumbersStep ==
  ASSUME Numbered, [ShortcutsNext]_shortcutVars
  PROVE  Numbered'
<1>1. ASSUME NEW km, NEW keeps, SaveShared(km, keeps)
      PROVE  Numbered'
  <2>1. /\ recordings' = recordings + 1 /\ unsaved' = [made |-> recordings + 1, keymap |-> km]
        /\ UNCHANGED <<fileMade, taken, saving, handled, reading, keymapStrays>>
        /\ reading # NotReading => kept' = NothingKept
    BY <1>1 DEF SaveShared, Change, gatewayKeymap
  <2>2. unsaved' # Nothing /\ unsaved'.made = recordings + 1
    BY <2>1 DEF Numbered, Nothing
  <2>3. Puts' \subseteq Puts \cup {unsaved'}
    BY <2>1 DEF Puts
  <2>4. NotReading.now # "read"
    BY DEF NotReading
  <2> QED BY <2>1, <2>2, <2>3, <2>4 DEF Numbered
<1>2. ASSUME FlushKeymap \/ ServeKeymap \/ KeymapSaved \/ KeymapSaveFails
      PROVE  Numbered'
  <2>1. Puts' \subseteq Puts
    BY <1>2 DEF FlushKeymap, ServeKeymap, KeymapSaved, KeymapSaveFails, Puts
  <2>2. UNCHANGED <<recordings, reading, late, kept>>
    BY <1>2 DEF FlushKeymap, ServeKeymap, KeymapSaved, KeymapSaveFails, history
  <2>3. CASE FlushKeymap
    <3>1. saving' = unsaved /\ unsaved' = Nothing /\ saving' # Nothing /\ UNCHANGED <<fileMade, taken, handled>> /\ ~handled
      BY <2>3 DEF FlushKeymap, gatewayKeymap, Numbered
    <3> QED BY <2>1, <2>2, <2>3, <3>1 DEF FlushKeymap, Numbered
  <2>4. CASE ServeKeymap
    <3>1. saving \in Puts /\ fileMade' = saving.made /\ taken' = IF saving.made > taken THEN saving.made ELSE taken
      BY <2>4 DEF ServeKeymap, Put, Puts
    <3>2. UNCHANGED <<saving, unsaved>> /\ saving # Nothing
      BY <2>4 DEF ServeKeymap
    <3> QED BY <2>1, <2>2, <3>1, <3>2 DEF Numbered
  <2>5. CASE KeymapSaved
    <3>1. /\ saving # Nothing /\ saving' = Nothing /\ ~handled' /\ handled
          /\ UNCHANGED <<fileMade, taken, unsaved>>
      BY <2>5 DEF KeymapSaved, gatewayKeymap
    <3>2. saving \in Puts
      BY <3>1 DEF Puts
    <3> QED BY <2>1, <2>2, <3>1, <3>2 DEF Numbered
  <2>6. CASE KeymapSaveFails
    <3>1. /\ saving # Nothing /\ saving' = Nothing /\ ~handled'
          /\ UNCHANGED <<fileMade, taken>>
          /\ unsaved' = IF unsaved = Nothing THEN saving ELSE unsaved
      BY <2>6 DEF KeymapSaveFails, gatewayKeymap
    <3> QED BY <2>1, <2>2, <3>1 DEF Numbered
  <2> QED BY <1>2, <2>3, <2>4, <2>5, <2>6
<1>3. ASSUME StrayKeymapArrives
      PROVE  Numbered'
  <2>1. PICK put \in keymapStrays : Put(put) /\ keymapStrays' = keymapStrays \ {put}
    BY <1>3 DEF StrayKeymapArrives
  <2>2. UNCHANGED <<unsaved, saving, handled, reading, late, kept, recordings>>
    BY <1>3 DEF StrayKeymapArrives, history
  <2>3. Puts' \subseteq Puts /\ put \in Puts
    BY <2>1, <2>2 DEF Puts
  <2>4. /\ fileMade' \in Nat /\ taken' \in Nat /\ fileMade' <= taken'
        /\ taken <= taken' /\ taken' <= recordings
    BY <2>1, <2>3 DEF Put, Numbered
  <2>5. handled => saving.made \in Nat
    <3>1. saving = Nothing \/ saving \in Puts
      BY DEF Puts
    <3> QED BY <3>1 DEF Numbered
  <2> QED BY <2>2, <2>3, <2>4, <2>5 DEF Numbered
<1>4. ASSUME BootAgain \/ BootGivesUp \/ Reload
      PROVE  Numbered'
  <2>1. /\ reading' \in {Asks, Failed} /\ kept' \in {NothingKept, kept}
        /\ UNCHANGED <<fileMade, taken, recordings>>
    BY <1>4 DEF BootAgain, BootGivesUp, Reload, gatewayKeymap, history
  <2>2. reading' # NotReading /\ reading'.now # "read"
    BY <2>1 DEF Asks, Failed, NotReading
  <2>3. Puts' \subseteq Puts
    BY <1>4 DEF BootAgain, BootGivesUp, Reload, KeymapSnapshot, Puts
  <2>4. \/ UNCHANGED <<unsaved, saving, handled>>
        \/ unsaved' = Nothing /\ saving' = Nothing /\ ~handled'
    BY <1>4 DEF BootAgain, BootGivesUp, Reload
  <2> QED BY <2>1, <2>2, <2>3, <2>4 DEF Numbered
<1>5. CASE BootReadsKeymap
  <2>1. /\ reading'.now = "read" /\ reading' # NotReading
        /\ ~late' => fileMade = recordings
        /\ UNCHANGED <<unsaved, saving, handled, keymapStrays, fileMade, taken, kept, recordings>>
    BY <1>5 DEF BootReadsKeymap, NotReading
  <2>2. Puts' = Puts
    BY <2>1 DEF Puts
  <2> QED BY <2>1, <2>2 DEF Numbered
<1>6. CASE BootAppliesKeymap
  <2>1. /\ reading.now = "read" /\ reading'.now # "read"
        /\ kept' # NothingKept => kept' = kept /\ ~late
        /\ UNCHANGED <<unsaved, saving, handled, keymapStrays, fileMade, taken, recordings>>
    BY <1>6 DEF BootAppliesKeymap, NotReading, gatewayKeymap
  <2>2. Puts' = Puts
    BY <2>1 DEF Puts
  <2> QED BY <2>1, <2>2 DEF Numbered
<1>7. CASE LeavingPage
  <2>1. UNCHANGED <<unsaved, saving, handled, reading, late, kept, recordings, fileMade, taken>>
    BY <1>7 DEF LeavingPage, gatewayKeymap, history
  <2>2. Puts' = Puts
    BY <1>7 DEF LeavingPage, KeymapSnapshot, Puts
  <2> QED BY <2>1, <2>2 DEF Numbered
<1>8. CASE UNCHANGED shortcutVars
  <2>1. UNCHANGED <<unsaved, saving, handled, keymapStrays, reading, late, kept, recordings, fileMade, taken>>
    BY <1>8 DEF shortcutVars
  <2>2. Puts' = Puts
    BY <2>1 DEF Puts
  <2> QED BY <2>1, <2>2 DEF Numbered
<1> QED BY <1>1, <1>2, <1>3, <1>4, <1>5, <1>6, <1>7, <1>8
      DEF ShortcutsNext, RecordLeader, RecordSub, RecordDirect, ClearDirect, ResetToDefaults

LEMMA SaveSharedStep ==
  ASSUME Numbered, RecordedInv, NEW km, NEW keeps, SaveShared(km, keeps), Fit(km),
         reading = NotReading => Record(keeps) /\ Keeping(keeps, km)
  PROVE  RecordedInv'
<1>1. /\ shared' = km /\ unsaved' = [made |-> recordings + 1, keymap |-> km] /\ recordings' = recordings + 1
      /\ kept' = IF reading = NotReading THEN keeps ELSE NothingKept
      /\ UNCHANGED <<keymapFile, fileMade, saving, reading, keymapStrays, late>>
  BY DEF SaveShared, Change, gatewayKeymap
<1>2. Record(kept') /\ Keeping(kept', km)
  BY <1>1, NothingIsKept
<1>3. kept' # NothingKept => reading.now # "read"
  BY <1>1 DEF NotReading
<1>4. Puts' \subseteq Puts \cup {unsaved'}
  BY <1>1 DEF Puts
<1>5. km.direct # <<>> => Holding(kept', km)
  BY <1>2, NonEmpty DEF Fit, Holding
<1>6. \A put \in Puts : put.made # recordings'
  BY <1>1 DEF Numbered
<1>7. fileMade' # recordings'
  BY <1>1 DEF Numbered
<1>8. \A put \in Puts' : put.made = recordings' => put.keymap = km
  BY <1>1, <1>4, <1>6
<1>9. PICK k, s, r, f, n, m, l, puts : /\ k = kept' /\ s = shared' /\ r = reading' /\ f = keymapFile' /\ n = recordings'
                                       /\ m = fileMade' /\ l = late' /\ puts = Puts'
  OBVIOUS
<1>10. /\ Fit(s) /\ Record(k) /\ (r.now = "read" => Fit(r.read)) /\ Keeping(k, s)
       /\ k # NothingKept => r.now # "read"
  BY <1>1, <1>2, <1>3, <1>9 DEF RecordedInv
<1>11. s.direct # <<>> => \A put \in puts : put.made = n => Holding(k, put.keymap)
  BY <1>1, <1>5, <1>8, <1>9
<1>12. m # n
  BY <1>7, <1>9
<1> QED BY <1>9, <1>10, <1>11, <1>12 DEF RecordedInv, Counted, Fit, Record, Keeping, Holding

LEMMA RecordsStep ==
  ASSUME Numbered, RecordedInv, NEW action \in ActionId, NEW chord
  PROVE  /\ RecordLeader(chord) => RecordedInv'
         /\ RecordSub(action, chord) => RecordedInv'
         /\ RecordDirect(action, chord) => RecordedInv'
         /\ ClearDirect(action) => RecordedInv'
         /\ ResetToDefaults => RecordedInv'
<1>1. /\ shared = [version |-> Newest, leader |-> shared.leader, bindings |-> shared.bindings, direct |-> shared.direct]
      /\ Table(shared.bindings) /\ Table(shared.direct)
  BY DEF RecordedInv, Fit
<1>2. ASSUME NEW prefix, NEW bindings, Table(bindings), NEW chords, Table(chords)
      PROVE  Fit([version |-> Newest, leader |-> prefix, bindings |-> bindings, direct |-> chords])
  BY <1>2 DEF Fit
<1>3. Fit([shared EXCEPT !.leader = chord])
  <2>1. [shared EXCEPT !.leader = chord]
          = [version |-> Newest, leader |-> chord, bindings |-> shared.bindings, direct |-> shared.direct]
    BY <1>1
  <2> QED BY <1>1, <1>2, <2>1
<1>4. Fit([shared EXCEPT !.bindings = Rebound(@, action, chord.key)])
  <2>1. [shared EXCEPT !.bindings = Rebound(@, action, chord.key)]
          = [version |-> Newest, leader |-> shared.leader, bindings |-> Rebound(shared.bindings, action, chord.key),
             direct |-> shared.direct]
    BY <1>1
  <2>2. Table(Rebound(shared.bindings, action, chord.key))
    BY <1>1, ReboundTable
  <2> QED BY <1>1, <1>2, <2>1, <2>2
<1>5. Fit([shared EXCEPT !.direct = Rebound(@, action, chord)])
  <2>1. [shared EXCEPT !.direct = Rebound(@, action, chord)]
          = [version |-> Newest, leader |-> shared.leader, bindings |-> shared.bindings,
             direct |-> Rebound(shared.direct, action, chord)]
    BY <1>1
  <2>2. Table(Rebound(shared.direct, action, chord))
    BY <1>1, ReboundTable
  <2> QED BY <1>1, <1>2, <2>1, <2>2
<1>6. Fit([shared EXCEPT !.direct = Cleared(@, action)])
  <2>1. [shared EXCEPT !.direct = Cleared(@, action)]
          = [version |-> Newest, leader |-> shared.leader, bindings |-> shared.bindings,
             direct |-> Cleared(shared.direct, action)]
    BY <1>1
  <2>2. Table(Cleared(shared.direct, action))
    BY <1>1 DEF Table, Cleared, Restrict
  <2> QED BY <1>1, <1>2, <2>1, <2>2
<1>7. ASSUME RecordLeader(chord) PROVE RecordedInv'
  BY <1>3, <1>7, RecordingFits, SaveSharedStep DEF RecordLeader
<1>8. ASSUME RecordSub(action, chord) PROVE RecordedInv'
  BY <1>4, <1>8, RecordingFits, SaveSharedStep DEF RecordSub
<1>9. ASSUME RecordDirect(action, chord) PROVE RecordedInv'
  BY <1>5, <1>9, RecordingFits, SaveSharedStep DEF RecordDirect
<1>10. ASSUME ClearDirect(action) PROVE RecordedInv'
  BY <1>6, <1>10, RecordingFits, SaveSharedStep DEF ClearDirect
<1>11. ASSUME ResetToDefaults PROVE RecordedInv'
  BY <1>11, DefaultFits, NothingIsKept, SaveSharedStep DEF ResetToDefaults
<1> QED BY <1>7, <1>8, <1>9, <1>10, <1>11

(* A step that makes no request anew, and writes to the file what a request *)
(* has, or what the file had: who was made by the last change still has it. *)
LEMMA StillHave ==
  ASSUME RecordedInv, Counted, kept' = kept, recordings' = recordings, Puts' \subseteq Puts,
         \/ UNCHANGED <<keymapFile, fileMade>>
         \/ keymapFile' = Normalized(keymapFile) /\ UNCHANGED fileMade
         \/ \E put \in Puts : keymapFile' = Normalized(put.keymap) /\ fileMade' = put.made
  PROVE  /\ \A put \in Puts' : put.made = recordings' => Holding(kept', put.keymap)
         /\ fileMade' = recordings' => Holding(kept', keymapFile')
<1>1. /\ Record(kept)
      /\ \A put \in Puts : put.made = recordings => Holding(kept, put.keymap)
      /\ fileMade = recordings => Holding(kept, keymapFile)
  BY DEF RecordedInv
<1>2. PICK k, f, m, n, puts : k = kept' /\ f = keymapFile' /\ m = fileMade' /\ n = recordings' /\ puts = Puts'
  OBVIOUS
<1>3. k = kept /\ n = recordings /\ puts \subseteq Puts
  BY <1>2
<1>4. \A put \in puts : put.made = n => Holding(k, put.keymap)
  BY <1>1, <1>3
<1>5. m = n => Holding(k, f)
  <2>1. CASE UNCHANGED <<keymapFile, fileMade>>
    BY <1>1, <1>2, <1>3, <2>1
  <2>2. CASE keymapFile' = Normalized(keymapFile) /\ UNCHANGED fileMade
    <3>1. f = Normalized(keymapFile) /\ m = fileMade
      BY <1>2, <2>2
    <3> QED BY <1>1, <1>3, <3>1, NormalizedHolds
  <2>3. CASE \E put \in Puts : keymapFile' = Normalized(put.keymap) /\ fileMade' = put.made
    <3>1. PICK put \in Puts : f = Normalized(put.keymap) /\ m = put.made
      BY <1>2, <2>3
    <3> QED BY <1>1, <1>3, <3>1, NormalizedHolds
  <2> QED BY <2>1, <2>2, <2>3
<1> QED BY <1>2, <1>4, <1>5

LEMMA SavesStep ==
  ASSUME RecordedInv, FlushKeymap \/ ServeKeymap \/ KeymapSaved \/ KeymapSaveFails \/ StrayKeymapArrives \/ LeavingPage
                      \/ UNCHANGED shortcutVars
  PROVE  RecordedInv'
<1> USE DEF history, gatewayKeymap, shortcutVars
<1>1. UNCHANGED <<shared, reading, late, kept, recordings>>
  BY DEF FlushKeymap, ServeKeymap, KeymapSaved, KeymapSaveFails, StrayKeymapArrives, LeavingPage
<1>2. Puts' \subseteq Puts
  BY DEF FlushKeymap, ServeKeymap, KeymapSaved, KeymapSaveFails, StrayKeymapArrives, LeavingPage, KeymapSnapshot, Puts
<1>3. \/ UNCHANGED <<keymapFile, fileMade>>
      \/ \E put \in Puts : keymapFile' = Normalized(put.keymap) /\ fileMade' = put.made
  <2>1. CASE ServeKeymap
    <3>1. saving \in Puts
      BY <2>1 DEF ServeKeymap, Puts
    <3> QED BY <2>1, <3>1 DEF ServeKeymap, Put
  <2>2. CASE StrayKeymapArrives
    <3>1. PICK put \in keymapStrays : Put(put)
      BY <2>2 DEF StrayKeymapArrives
    <3>2. put \in Puts
      BY DEF Puts
    <3> QED BY <3>1, <3>2 DEF Put
  <2>3. CASE FlushKeymap \/ KeymapSaved \/ KeymapSaveFails \/ LeavingPage \/ UNCHANGED shortcutVars
    BY <2>3 DEF FlushKeymap, KeymapSaved, KeymapSaveFails, LeavingPage
  <2> QED BY <2>1, <2>2, <2>3
<1>4. Counted => /\ \A put \in Puts' : put.made = recordings' => Holding(kept', put.keymap)
                 /\ fileMade' = recordings' => Holding(kept', keymapFile')
  BY <1>1, <1>2, <1>3, StillHave
<1>5. /\ Fit(shared) /\ Record(kept) /\ (reading.now = "read" => Fit(reading.read))
      /\ reading = NotReading => Keeping(kept, shared)
      /\ Counted => (reading.now = "read" /\ ~late => Holding(kept, reading.read))
  BY DEF RecordedInv
<1>6. PICK k, s, r, f, n, m, l, puts : /\ k = kept' /\ s = shared' /\ r = reading' /\ f = keymapFile' /\ n = recordings'
                                       /\ m = fileMade' /\ l = late' /\ puts = Puts'
  OBVIOUS
<1>7. k = kept /\ s = shared /\ r = reading /\ l = late
  BY <1>1, <1>6
<1>8. /\ Fit(s) /\ Record(k) /\ (r.now = "read" => Fit(r.read))
      /\ r = NotReading => Keeping(k, s)
      /\ k # NothingKept /\ s.direct # <<>> =>
           /\ \A put \in puts : put.made = n => Holding(k, put.keymap)
           /\ m = n => Holding(k, f)
           /\ r.now = "read" /\ ~l => Holding(k, r.read)
  BY <1>4, <1>5, <1>6, <1>7 DEF Counted
<1> QED BY <1>6, <1>8 DEF RecordedInv, Counted, Fit, Record, Keeping, Holding

LEMMA BootsStep ==
  ASSUME Numbered, RecordedInv, BootAgain \/ BootReadsKeymap \/ BootAppliesKeymap \/ BootGivesUp \/ Reload
  PROVE  RecordedInv'
<1> USE DEF history, gatewayKeymap
<1>1. Puts' \subseteq Puts /\ recordings' = recordings
  BY DEF BootAgain, BootReadsKeymap, BootAppliesKeymap, BootGivesUp, Reload, KeymapSnapshot, Puts
<1>2. NotReading # Asks /\ NotReading # Failed /\ Asks.now # "read" /\ Failed.now # "read" /\ NotReading.now # "read"
  BY DEF NotReading, Asks, Failed
<1>3. Fit(shared) /\ Record(kept)
  BY DEF RecordedInv
<1>4. PICK k, s, r, f, n, m, l, puts : /\ k = kept' /\ s = shared' /\ r = reading' /\ f = keymapFile' /\ n = recordings'
                                       /\ m = fileMade' /\ l = late' /\ puts = Puts'
  OBVIOUS
<1>5. ASSUME Fit(s), Record(k), r.now = "read" => Fit(r.read), r = NotReading => Keeping(k, s),
             k # NothingKept /\ s.direct # <<>> =>
               /\ \A put \in puts : put.made = n => Holding(k, put.keymap)
               /\ m = n => Holding(k, f)
               /\ r.now = "read" /\ ~l => Holding(k, r.read)
      PROVE  RecordedInv'
  BY <1>4, <1>5 DEF RecordedInv, Counted, Fit, Record, Keeping, Holding
<1>6. ASSUME Counted, k = kept,
             (UNCHANGED <<keymapFile, fileMade>>) \/ (keymapFile' = Normalized(keymapFile) /\ UNCHANGED fileMade)
      PROVE  (\A put \in puts : put.made = n => Holding(k, put.keymap)) /\ (m = n => Holding(k, f))
  BY <1>1, <1>4, <1>6, StillHave
<1>7. CASE BootAgain \/ BootGivesUp
  <2>1. reading' \in {Asks, Failed} /\ UNCHANGED <<keymapFile, fileMade, shared, kept>>
    BY <1>7 DEF BootAgain, BootGivesUp
  <2>2. r # NotReading /\ r.now # "read" /\ s = shared /\ k = kept
    BY <1>2, <1>4, <2>1
  <2> QED BY <1>3, <1>5, <1>6, <2>1, <2>2 DEF Counted
<1>8. CASE Reload
  <2>1. /\ reading' = Asks /\ shared' = DefaultKeymap /\ UNCHANGED <<keymapFile, fileMade>>
        /\ kept' = IF shared.direct = <<>> THEN NothingKept ELSE kept
    BY <1>8 DEF Reload
  <2>2. /\ r # NotReading /\ r.now # "read" /\ s = DefaultKeymap
        /\ k = NothingKept \/ k = kept
        /\ k # NothingKept => k = kept /\ Counted
    BY <1>2, <1>4, <2>1 DEF Counted
  <2>3. Fit(s) /\ Record(k)
    BY <1>3, <2>2, DefaultFits, NothingIsKept
  <2> QED BY <1>5, <1>6, <2>1, <2>2, <2>3
<1>9. CASE BootReadsKeymap
  <2>1. /\ reading' = [now |-> "read", read |-> Normalized(keymapFile)]
        /\ keymapFile' \in {keymapFile, Normalized(keymapFile)}
        /\ late' = (fileMade # recordings)
        /\ UNCHANGED <<fileMade, shared, kept>>
    BY <1>9 DEF BootReadsKeymap
  <2>2. r.now = "read" /\ r.read = Normalized(keymapFile) /\ r # NotReading /\ s = shared /\ k = kept
    BY <1>2, <1>4, <2>1
  <2>3. Fit(r.read)
    BY <2>2, NormalizedFits
  <2>4. ASSUME Counted, ~l
        PROVE  Holding(k, r.read)
    <3>1. Holding(kept, keymapFile)
      BY <1>4, <2>1, <2>4 DEF RecordedInv
    <3> QED BY <1>3, <2>2, <3>1, NormalizedHolds
  <2> QED BY <1>3, <1>5, <1>6, <2>1, <2>2, <2>3, <2>4 DEF Counted
<1>10. CASE BootAppliesKeymap
  <2>1. /\ reading.now = "read"
        /\ reading' = NotReading /\ shared' = reading.read
        /\ kept' = IF late \/ shared.direct = <<>> THEN NothingKept ELSE kept
        /\ UNCHANGED <<keymapFile, fileMade>>
    BY <1>10 DEF BootAppliesKeymap
  <2>2. /\ r = NotReading /\ r.now # "read" /\ s = reading.read
        /\ k # NothingKept => k = kept /\ Counted /\ ~late
    BY <1>2, <1>4, <2>1 DEF Counted
  <2>3. Fit(s) /\ Record(k)
    BY <1>3, <1>4, <2>1, <2>2, NothingIsKept DEF RecordedInv
  <2>4. Keeping(k, s)
    <3>1. CASE k = NothingKept
      BY <3>1, NothingIsKept
    <3>2. CASE k # NothingKept
      BY <2>1, <2>2, <3>2 DEF RecordedInv, Holding
    <3> QED BY <3>1, <3>2
  <2> QED BY <1>5, <1>6, <2>1, <2>2, <2>3, <2>4
<1> QED BY <1>7, <1>8, <1>9, <1>10

(* Whatever is recorded, saved, given up, reloaded or migrated, in whatever *)
(* order, and however late the requests that were given up arrive: what the *)
(* user recorded stays so on the page and, once saved, in the file, as long *)
(* as no older request overtakes it; for any old file, keys and actions     *)
(* (keymapSync of state.ts, /api/keymap).                                   *)
THEOREM RecordedAlwaysStays == ShortcutsSpec => []RecordedStays
<1>1. Numbered /\ RecordedInv => RecordedStays
  <2> SUFFICES ASSUME Numbered, RecordedInv, reading = NotReading
      PROVE  /\ Obeys(shared)
             /\ unsaved = Nothing /\ saving = Nothing /\ shared.direct # <<>> /\ ~Overtaken => Obeys(keymapFile)
    BY DEF RecordedStays
  <2>1. Obeys(shared)
    BY DEF RecordedInv, Keeping, Obeys
  <2>2. ASSUME unsaved = Nothing, saving = Nothing, shared.direct # <<>>, ~Overtaken
        PROVE  Obeys(keymapFile)
    <3>1. CASE kept = NothingKept
      BY <3>1 DEF Obeys, NothingKept
    <3>2. CASE kept # NothingKept
      <4>1. fileMade = recordings
        BY <2>2, <3>2 DEF Numbered, Overtaken
      <4>2. Holding(kept, keymapFile)
        BY <2>2, <3>2, <4>1 DEF RecordedInv, Counted
      <4> QED BY <4>2 DEF Holding, Keeping, Obeys
    <3> QED BY <3>1, <3>2
  <2> QED BY <2>1, <2>2
<1>2. Numbered /\ RecordedInv /\ [ShortcutsNext]_shortcutVars => Numbered' /\ RecordedInv'
  <2> SUFFICES ASSUME Numbered, RecordedInv, [ShortcutsNext]_shortcutVars PROVE RecordedInv'
    BY NumbersStep
  <2>1. ASSUME NEW action \in Recordable, NEW chord,
               RecordLeader(chord) \/ RecordSub(action, chord) \/ RecordDirect(action, chord) \/ ClearDirect(action)
        PROVE  RecordedInv'
    <3>1. action \in ActionId
      BY ShortcutsAssumption
    <3> QED BY <2>1, <3>1, RecordsStep
  <2>2. ASSUME NEW chord, RecordLeader(chord)
        PROVE  RecordedInv'
    <3>1. "settings" \in ActionId
      BY DEF ActionId
    <3> QED BY <2>2, <3>1, RecordsStep
  <2>3. CASE ResetToDefaults
    <3>1. "settings" \in ActionId
      BY DEF ActionId
    <3> QED BY <2>3, <3>1, RecordsStep
  <2> QED BY <2>1, <2>2, <2>3, SavesStep, BootsStep DEF ShortcutsNext
<1> QED BY <1>1, <1>2, RecordedInit, PTL DEF ShortcutsSpec

-----------------------------------------------------------------------------
(* Where terminals are, and where their views. *)

Scroll == {NoScroll, Fresh} \cup [is : {"line"}, line : Nat]
Terminal == [is : {"absent", "live"}, at : Slot \cup {Nowhere}, base : Nat, view : Nat, top : Nat,
             saved : Scroll, frame : Scroll, left : Scroll]

(* A terminal whose view is where the user left it, or that knows where     *)
(* that was: in what it saved when it was taken out, then in the frame that *)
(* has been asked for.                                                      *)
Kept(t) ==
  /\ t \in Terminal
  /\ t.view <= t.base /\ t.top \in {0, t.view}
  /\ t.at # Nowhere => t.is = "live"
  /\ t.left = Fresh => t.view = t.base /\ t.frame.is # "line"
  /\ t.left.is = "line" => t.view = t.left.line /\ t.view < t.base /\ t.frame \in {NoScroll, t.left}
  /\ t.at # Nowhere /\ t.frame = NoScroll => t.top = t.view
  /\ t.at = Nowhere => (t.left = Fresh => t.saved.is # "line") /\ (t.left.is = "line" => t.saved = t.left)

EachOnce(ps) == \A p, q \in ps : p.slot = q.slot \/ p.shows = q.shows => p = q

PanesFit == rendered \subseteq [slot : Slot, shows : existing] /\ IsFiniteSet(rendered) /\ EachOnce(rendered) /\ existing \subseteq Shell

(* The effects are of different slots: of panes that are rendered, or of    *)
(* slots that are none's any more.                                          *)
EffectsFit ==
  /\ effects \in Seq([slot : Slot, shows : Shell \cup {Nowhere}])
  /\ \A j, k \in 1..Len(effects) : effects[j].slot = effects[k].slot => j = k
  /\ \A k \in 1..Len(effects) : IF effects[k].shows = Nowhere THEN effects[k].slot \notin SlotsOf(rendered)
                                ELSE effects[k] \in rendered

(* The pane has its terminal: its effect has run. *)
InPlace(s, p) == s.mounted[p.slot] = p.shows /\ s.term[p.shows].at = p.slot

(* A terminal is in the slot whose cleanup takes it out.  A slot may hold   *)
(* on to one that another has taken since: PaneShows rests on who comes     *)
(* last.                                                                    *)
StateFits(s) ==
  /\ s.mounted \in [Slot -> Shell \cup {Nowhere}]
  /\ s.term \in [Shell -> Terminal]
  /\ \A id \in Shell : Kept(s.term[id]) /\ (s.term[id].at # Nowhere => s.mounted[s.term[id].at] = id)

(* A pane whose effect is not due has its terminal, and a slot that nobody  *)
(* is to use holds none.                                                    *)
MountsInv ==
  /\ PanesFit /\ EffectsFit /\ StateFits(Unchanged)
  /\ \A slot \in Slot : slot \notin SlotsOf(rendered) \cup SlotsOf(Range(effects)) => mounted[slot] = Nowhere
  /\ \A p \in rendered : p \notin Range(effects) => InPlace(Unchanged, p)

-----------------------------------------------------------------------------
(* What a terminal goes through. *)
LEMMA AbsentKept == Kept(Absent) /\ Absent.at = Nowhere
<1>1. Absent \in Terminal
  BY DEF Absent, Terminal, Scroll, NoScroll, Fresh
<1> QED BY <1>1 DEF Absent, Kept, NoScroll, Fresh

LEMMA GotKept ==
  ASSUME NEW t, Kept(t)
  PROVE  Kept(Got(t)) /\ Got(t).at = t.at /\ Got(t).is = "live"
<1>1. Got(t) \in Terminal /\ Got(t).is = "live"
  BY DEF Got, Kept, Terminal
<1> QED BY <1>1 DEF Got, Kept, Terminal

LEMMA AttachedKept ==
  ASSUME NEW t, Kept(t), t.is = "live", NEW slot \in Slot
  PROVE  Kept(AttachedTo(t, slot)) /\ AttachedTo(t, slot).at = slot /\ AttachedTo(t, slot).is = "live"
<1> DEFINE frame == IF t.saved = NoScroll THEN Fresh ELSE t.saved
           left  == IF t.at = Nowhere THEN t.left ELSE NoScroll
           u     == [t EXCEPT !.at = slot, !.top = 0, !.frame = frame, !.left = left]
<1>1. CASE t.at = slot
  BY <1>1 DEF AttachedTo
<1>2. CASE t.at # slot
  <2>1. t \in Terminal /\ frame \in Scroll /\ left \in Scroll
    BY DEF Kept, Terminal, Scroll, NoScroll, Fresh
  <2>2. frame # NoScroll
    BY DEF NoScroll, Fresh
  <2>3. t.at = Nowhere => (t.left = Fresh => frame.is # "line") /\ (t.left.is = "line" => frame = t.left)
    BY DEF Kept, NoScroll, Fresh
  <2>4. (left # Fresh /\ left.is # "line") \/ (t.at = Nowhere /\ left = t.left)
    <3>1. NoScroll # Fresh /\ NoScroll.is # "line"
      BY DEF NoScroll, Fresh
    <3>2. CASE t.at = Nowhere
      BY <3>2
    <3>3. CASE t.at # Nowhere
      <4>1. left = NoScroll
        BY <3>3
      <4> HIDE DEF left
      <4> QED BY <3>1, <4>1
    <3> QED BY <3>2, <3>3
  <2> HIDE DEF frame, left
  <2>5. /\ u \in Terminal /\ u.at = slot /\ u.is = "live" /\ u.frame = frame /\ u.left = left
        /\ u.top = 0 /\ u.view = t.view /\ u.base = t.base /\ u.saved = t.saved
    BY <2>1 DEF Terminal
  <2> HIDE DEF u
  <2>6. Kept(u)
    BY <2>2, <2>3, <2>4, <2>5, TerminalMountsAssumption DEF Kept
  <2>7. AttachedTo(t, slot) = u
    BY <1>2 DEF AttachedTo, u, frame, left
  <2> QED BY <2>5, <2>6, <2>7
<1> QED BY <1>1, <1>2

LEMMA UnmountedKept ==
  ASSUME NEW t, Kept(t)
  PROVE  Kept(Unmounted(t)) /\ Unmounted(t).at = Nowhere
<1> DEFINE scroll == IF t.view = t.base THEN Fresh ELSE SavedAt(t.view)
           u     == [t EXCEPT !.at = Nowhere, !.top = 0, !.saved = scroll]
<1>1. t \in Terminal /\ t.view \in Nat /\ t.base \in Nat
  BY DEF Kept, Terminal
<1>2. scroll \in Scroll
  BY <1>1 DEF Scroll, Fresh, SavedAt
<1>3. t.left = Fresh => scroll.is # "line"
  BY DEF Kept, Fresh
<1>4. t.left.is = "line" => scroll = t.left
  <2>1. ASSUME t.left.is = "line" PROVE scroll = t.left
    <3>1. t.left \in Scroll /\ t.left = [is |-> "line", line |-> t.left.line]
      BY <1>1, <2>1 DEF Terminal, Scroll, NoScroll, Fresh
    <3>2. t.view = t.left.line /\ t.view < t.base
      BY <2>1 DEF Kept
    <3> QED BY <1>1, <3>1, <3>2 DEF SavedAt
  <2> QED BY <2>1
<1> HIDE DEF scroll
<1>5. /\ u \in Terminal /\ u.at = Nowhere /\ u.frame = t.frame /\ u.left = t.left
      /\ u.top = 0 /\ u.view = t.view /\ u.base = t.base /\ u.saved = scroll
  BY <1>1, <1>2 DEF Terminal
<1> HIDE DEF u
<1>6. Kept(u)
  BY <1>3, <1>4, <1>5 DEF Kept
<1>7. Unmounted(t) = u
  BY DEF Unmounted, u, scroll
<1> QED BY <1>5, <1>6, <1>7

(* A terminal stays where it is, as live as it was. *)
Stays(u, t) == Kept(u) /\ u.at = t.at /\ u.is = t.is

LEMMA MovedIs ==
  ASSUME NEW t \in Terminal, NEW line \in Nat
  PROVE  /\ MovedTo(t, line) \in Terminal
         /\ MovedTo(t, line).view = line /\ MovedTo(t, line).top = (IF t.at = Nowhere THEN 0 ELSE line)
         /\ MovedTo(t, line).at = t.at /\ MovedTo(t, line).is = t.is /\ MovedTo(t, line).base = t.base
         /\ MovedTo(t, line).saved = t.saved /\ MovedTo(t, line).frame = t.frame /\ MovedTo(t, line).left = t.left
<1> DEFINE top == IF t.at = Nowhere THEN 0 ELSE line
<1>1. top \in Nat
  OBVIOUS
<1> HIDE DEF top
<1>2. MovedTo(t, line) = [t EXCEPT !.view = line, !.top = top]
  BY DEF MovedTo, top
<1>3. [t EXCEPT !.view = line, !.top = top] \in Terminal
  BY <1>1 DEF Terminal
<1> QED BY <1>1, <1>2, <1>3 DEF Terminal, top

LEMMA Bottoms == NoScroll # Fresh /\ NoScroll.is # "line" /\ Fresh.is # "line" /\ NoScroll \in Scroll /\ Fresh \in Scroll
BY DEF NoScroll, Fresh, Scroll

LEMMA LineIs ==
  ASSUME NEW line \in Nat
  PROVE  SavedAt(line) \in Scroll /\ SavedAt(line).is = "line" /\ SavedAt(line).line = line /\ SavedAt(line) # Fresh
BY DEF SavedAt, Scroll, Fresh

LEMMA MinTwo ==
  ASSUME NEW a \in Nat, NEW b \in Nat
  PROVE  Min({a, b}) \in Nat /\ Min({a, b}) <= b /\ (a <= b => Min({a, b}) = a)
<1> DEFINE m == IF a <= b THEN a ELSE b
<1>1. m \in {a, b} /\ \A y \in {a, b} : m <= y
  OBVIOUS
<1>2. Min({a, b}) \in {a, b} /\ \A y \in {a, b} : Min({a, b}) <= y
  BY <1>1 DEF Min
<1> QED BY <1>2

LEMMA FrameKept ==
  ASSUME NEW t, Kept(t), t.frame # NoScroll,
         NEW target, target = IF t.frame.is = "line" THEN Min({t.frame.line, t.base}) ELSE t.base
  PROVE  Stays([(IF t.base = 0 THEN t ELSE MovedTo(t, target)) EXCEPT !.frame = NoScroll], t)
<1> DEFINE v == IF t.base = 0 THEN t ELSE MovedTo(t, target)
           u == [v EXCEPT !.frame = NoScroll]
<1>1. t \in Terminal /\ t.view \in Nat /\ t.base \in Nat /\ t.top \in Nat /\ t.frame \in Scroll /\ t.left \in Scroll
  BY DEF Kept, Terminal
<1>2. t.frame.is = "line" => t.frame.line \in Nat
  BY <1>1 DEF Scroll, NoScroll, Fresh
<1>3. target \in Nat /\ target <= t.base /\ (t.frame.is = "line" /\ t.frame.line <= t.base => target = t.frame.line)
  BY <1>1, <1>2, MinTwo
<1>4. t.left = Fresh => target = t.base
  BY DEF Kept
<1>5. t.left.is = "line" => target = t.left.line /\ target = t.view /\ t.view < t.base
  BY <1>1, <1>3 DEF Kept
<1>6. /\ v \in Terminal /\ v.at = t.at /\ v.is = t.is /\ v.base = t.base /\ v.saved = t.saved /\ v.left = t.left
      /\ v.view <= v.base /\ v.top \in {0, v.view} /\ (t.at # Nowhere => v.top = v.view)
      /\ (t.left = Fresh => v.view = v.base)
      /\ (t.left.is = "line" => v.view = v.left.line /\ v.view < v.base)
  <2>1. CASE t.base = 0
    <3>1. t.view = 0 /\ t.top = 0 /\ t.left.is # "line"
      BY <1>1, <2>1 DEF Kept
    <3> QED BY <1>1, <2>1, <3>1
  <2>2. CASE t.base # 0
    <3>1. v = MovedTo(t, target)
      BY <2>2
    <3> HIDE DEF v
    <3>2. /\ v \in Terminal /\ v.at = t.at /\ v.is = t.is /\ v.base = t.base /\ v.saved = t.saved /\ v.left = t.left
          /\ v.view = target /\ v.top = (IF t.at = Nowhere THEN 0 ELSE target)
      BY <1>1, <1>3, <3>1, MovedIs
    <3>3. v.view <= v.base /\ v.top \in {0, v.view} /\ (t.at # Nowhere => v.top = v.view)
      BY <1>3, <3>2
    <3>4. t.left.is = "line" => v.view = v.left.line /\ v.view < v.base
      BY <1>5, <3>2
    <3> QED BY <1>4, <3>2, <3>3, <3>4
  <2> QED BY <2>1, <2>2
<1> HIDE DEF v
<1>7. /\ u \in Terminal /\ u.frame = NoScroll /\ u.at = v.at /\ u.is = v.is /\ u.base = v.base /\ u.saved = v.saved
      /\ u.left = v.left /\ u.view = v.view /\ u.top = v.top
  BY <1>6, Bottoms DEF Terminal
<1> HIDE DEF u
<1>8. Kept(u)
  BY <1>6, <1>7, Bottoms DEF Kept
<1>9. Stays(u, t)
  BY <1>6, <1>7, <1>8 DEF Stays
<1> QED BY <1>9 DEF u, v

LEMMA OutputKept ==
  ASSUME NEW t, Kept(t)
  PROVE  Stays(MovedTo([t EXCEPT !.base = @ + 1], IF t.view = t.base THEN t.base + 1 ELSE t.view), t)
<1> DEFINE v    == [t EXCEPT !.base = t.base + 1]
           line == IF t.view = t.base THEN t.base + 1 ELSE t.view
           u    == MovedTo(v, line)
<1>1. t \in Terminal /\ t.view \in Nat /\ t.base \in Nat /\ t.top \in Nat
  BY DEF Kept, Terminal
<1>2. /\ v \in Terminal /\ v.base = t.base + 1 /\ v.at = t.at /\ v.is = t.is /\ v.saved = t.saved /\ v.left = t.left
      /\ v.view = t.view /\ v.top = t.top /\ v.frame = t.frame
  BY <1>1 DEF Terminal
<1>3. line \in Nat /\ line <= t.base + 1 /\ (t.view = t.base => line = t.base + 1) /\ (t.view # t.base => line = t.view)
  BY <1>1 DEF Kept
<1> HIDE DEF v, line
<1>4. /\ u \in Terminal /\ u.view = line /\ u.top = (IF t.at = Nowhere THEN 0 ELSE line)
      /\ u.at = t.at /\ u.is = t.is /\ u.base = t.base + 1
      /\ u.saved = t.saved /\ u.frame = t.frame /\ u.left = t.left
  BY <1>2, <1>3, MovedIs
<1> HIDE DEF u
<1>5. Kept(u)
  BY <1>1, <1>3, <1>4 DEF Kept
<1>6. Stays(u, t)
  BY <1>4, <1>5 DEF Stays
<1> QED BY <1>6 DEF u, v, line

LEMMA WheelKept ==
  ASSUME NEW t, Kept(t), t.at # Nowhere, t.frame = NoScroll, NEW to \in 0..t.base
  PROVE  Stays([MovedTo(t, to) EXCEPT !.left = IF to = t.base THEN Fresh ELSE SavedAt(to)], t)
<1> DEFINE v    == MovedTo(t, to)
           left == IF to = t.base THEN Fresh ELSE SavedAt(to)
           u    == [v EXCEPT !.left = left]
<1>1. t \in Terminal /\ t.base \in Nat /\ to \in Nat /\ to <= t.base
  BY DEF Kept, Terminal
<1>2. /\ v \in Terminal /\ v.view = to /\ v.top = to /\ v.at = t.at /\ v.is = t.is /\ v.base = t.base
      /\ v.saved = t.saved /\ v.frame = NoScroll
  BY <1>1, MovedIs
<1>3. /\ left \in Scroll
      /\ left = Fresh => to = t.base
      /\ left.is = "line" => to = left.line /\ to < t.base
  BY <1>1, Bottoms, LineIs
<1> HIDE DEF v, left
<1>4. /\ u \in Terminal /\ u.left = left /\ u.view = to /\ u.top = to /\ u.at = t.at /\ u.is = t.is /\ u.base = t.base
      /\ u.saved = t.saved /\ u.frame = NoScroll
  BY <1>2, <1>3 DEF Terminal
<1> HIDE DEF u
<1>5. Kept(u)
  <2>1. u.is = "live"
    BY <1>4 DEF Kept
  <2> QED BY <1>1, <1>3, <1>4, <2>1, Bottoms DEF Kept
<1>6. Stays(u, t)
  BY <1>4, <1>5 DEF Stays
<1> QED BY <1>6 DEF u, v, left

LEMMA ReplayedKept ==
  ASSUME NEW t, Kept(t), t.is = "live", NEW base \in Nat
  PROVE  Stays(MovedTo([t EXCEPT !.base = base, !.saved = NoScroll, !.frame = Fresh, !.left = Fresh], base), t)
<1> DEFINE v == [t EXCEPT !.base = base, !.saved = NoScroll, !.frame = Fresh, !.left = Fresh]
           u == MovedTo(v, base)
<1>1. t \in Terminal
  BY DEF Kept
<1>2. /\ v \in Terminal /\ v.base = base /\ v.at = t.at /\ v.is = t.is /\ v.saved = NoScroll /\ v.left = Fresh
      /\ v.frame = Fresh
  BY <1>1, Bottoms DEF Terminal
<1> HIDE DEF v
<1>3. /\ u \in Terminal /\ u.view = base /\ u.top = (IF t.at = Nowhere THEN 0 ELSE base)
      /\ u.at = t.at /\ u.is = t.is /\ u.base = base /\ u.saved = NoScroll /\ u.frame = Fresh /\ u.left = Fresh
  BY <1>2, MovedIs
<1> HIDE DEF u
<1>4. Kept(u)
  BY <1>3, Bottoms DEF Kept
<1>5. Stays(u, t)
  BY <1>3, <1>4 DEF Stays
<1> QED BY <1>5 DEF u, v

-----------------------------------------------------------------------------
ShellPane == [slot : Slot, shows : Shell]

(* What a cleanup and an effect do. *)
LEMMA CleanedFits ==
  ASSUME NEW s, StateFits(s), NEW slots, slots \subseteq Slot
  PROVE  /\ Cleaned(s, slots) \in [Shell -> Terminal]
         /\ \A id \in Shell :
              /\ Kept(Cleaned(s, slots)[id])
              /\ Cleaned(s, slots)[id].at # Nowhere =>
                   Cleaned(s, slots)[id] = s.term[id] /\ s.term[id].at \notin slots
              /\ s.term[id].at \notin slots => Cleaned(s, slots)[id] = s.term[id]
<1> DEFINE c == Cleaned(s, slots)
           Out(id) == \E slot \in slots : s.mounted[slot] = id /\ s.term[id].at = slot
<1>1. c = [id \in Shell |-> IF Out(id) THEN Unmounted(s.term[id]) ELSE s.term[id]]
  BY DEF Cleaned
<1> HIDE DEF c
<1>2. ASSUME NEW id \in Shell
      PROVE  /\ Kept(c[id])
             /\ c[id].at # Nowhere => c[id] = s.term[id] /\ s.term[id].at \notin slots
             /\ s.term[id].at \notin slots => c[id] = s.term[id]
  <2>1. Kept(s.term[id]) /\ (s.term[id].at # Nowhere => s.mounted[s.term[id].at] = id)
    BY DEF StateFits
  <2>2. CASE Out(id)
    <3>1. c[id] = Unmounted(s.term[id])
      BY <1>1, <2>2
    <3>2. Kept(c[id]) /\ c[id].at = Nowhere
      BY <2>1, <3>1, UnmountedKept
    <3> QED BY <2>2, <3>2
  <2>3. CASE ~Out(id)
    <3>1. c[id] = s.term[id]
      BY <1>1, <2>3
    <3>2. s.term[id].at # Nowhere => s.term[id].at \notin slots
      BY <2>1, <2>3
    <3> QED BY <2>1, <3>1, <3>2
  <2> QED BY <2>2, <2>3
<1>3. c \in [Shell -> Terminal]
  <2>1. \A id \in Shell : c[id] \in Terminal
    BY <1>2 DEF Kept
  <2> QED BY <1>1, <2>1
<1> QED BY <1>2, <1>3 DEF c

LEMMA EffectFits ==
  ASSUME NEW s, StateFits(s), NEW pane \in [slot : Slot, shows : Shell \cup {Nowhere}]
  PROVE  /\ StateFits(Effect(s, pane))
         /\ Effect(s, pane).mounted[pane.slot] = pane.shows
         /\ pane \in ShellPane => InPlace(Effect(s, pane), pane)
         /\ \A slot \in Slot : slot # pane.slot => Effect(s, pane).mounted[slot] = s.mounted[slot]
         /\ \A q \in ShellPane : q.slot # pane.slot /\ q.shows # pane.shows /\ InPlace(s, q) => InPlace(Effect(s, pane), q)
<1> DEFINE e == Effect(s, pane)
           c == Cleaned(s, {pane.slot})
<1>1. pane.slot \in Slot /\ pane.shows \in Shell \cup {Nowhere} /\ Nowhere \notin Slot \cup Shell
  BY TerminalMountsAssumption
<1>2. /\ c \in [Shell -> Terminal]
      /\ \A id \in Shell :
           /\ Kept(c[id])
           /\ c[id].at # Nowhere => c[id] = s.term[id] /\ s.term[id].at # pane.slot
           /\ s.term[id].at # pane.slot => c[id] = s.term[id]
  <2>1. {pane.slot} \subseteq Slot
    BY <1>1
  <2>2. \A x : x \notin {pane.slot} <=> x # pane.slot
    OBVIOUS
  <2> QED BY <2>1, <2>2, CleanedFits
<1>3. /\ e.mounted = [s.mounted EXCEPT ![pane.slot] = pane.shows]
      /\ e.term = IF pane.shows = Nowhere THEN c
                  ELSE [c EXCEPT ![pane.shows] = AttachedTo(Got(c[pane.shows]), pane.slot)]
  BY DEF Effect
<1> HIDE DEF e, c
<1>4. s.mounted \in [Slot -> Shell \cup {Nowhere}] /\ \A id \in Shell : s.term[id].at # Nowhere => s.mounted[s.term[id].at] = id
  BY DEF StateFits
<1>5. /\ e.mounted \in [Slot -> Shell \cup {Nowhere}] /\ e.mounted[pane.slot] = pane.shows
      /\ \A slot \in Slot : slot # pane.slot => e.mounted[slot] = s.mounted[slot]
  BY <1>1, <1>3, <1>4
<1>6. \A id \in Shell : id # pane.shows => e.term[id] = c[id]
  BY <1>2, <1>3
<1>7. pane.shows # Nowhere => Kept(e.term[pane.shows]) /\ e.term[pane.shows].at = pane.slot
  <2>1. ASSUME pane.shows # Nowhere
        PROVE  Kept(e.term[pane.shows]) /\ e.term[pane.shows].at = pane.slot
    <3>1. pane.shows \in Shell /\ e.term[pane.shows] = AttachedTo(Got(c[pane.shows]), pane.slot)
      BY <1>1, <1>2, <1>3, <2>1
    <3> DEFINE t == Got(c[pane.shows])
    <3>2. Kept(t) /\ t.is = "live"
      BY <1>2, <3>1, GotKept
    <3> HIDE DEF t
    <3>3. Kept(AttachedTo(t, pane.slot)) /\ AttachedTo(t, pane.slot).at = pane.slot
      BY <1>1, <3>2, AttachedKept
    <3> QED BY <3>1, <3>3 DEF t
  <2> QED BY <2>1
<1>8. ASSUME NEW id \in Shell
      PROVE  Kept(e.term[id]) /\ (e.term[id].at # Nowhere => e.mounted[e.term[id].at] = id)
  <2>1. CASE id = pane.shows
    BY <1>1, <1>5, <1>7, <2>1
  <2>2. CASE id # pane.shows
    <3>1. e.term[id] = c[id] /\ Kept(c[id])
      BY <1>2, <1>6, <2>2
    <3>2. ASSUME c[id].at # Nowhere
          PROVE  e.mounted[c[id].at] = id
      <4>1. c[id] = s.term[id] /\ s.term[id].at # pane.slot
        BY <1>2, <3>2
      <4>2. c[id].at \in Slot
        <5>1. c[id].at \in Slot \cup {Nowhere}
          BY <3>1 DEF Kept, Terminal
        <5> QED BY <3>2, <5>1
      <4>3. s.mounted[s.term[id].at] = id
        BY <1>4, <3>2, <4>1
      <4> QED BY <1>5, <4>1, <4>2, <4>3
    <3> QED BY <3>1, <3>2
  <2> QED BY <2>1, <2>2
<1>9. e.term \in [Shell -> Terminal]
  <2>1. \A id \in Shell : e.term[id] \in Terminal
    BY <1>8 DEF Kept
  <2>2. e.term = [id \in Shell |-> e.term[id]]
    <3>1. CASE pane.shows = Nowhere
      BY <1>2, <1>3, <3>1
    <3>2. CASE pane.shows # Nowhere
      <4> DEFINE t == AttachedTo(Got(c[pane.shows]), pane.slot)
      <4>1. e.term = [c EXCEPT ![pane.shows] = t]
        BY <1>3, <3>2
      <4> HIDE DEF t
      <4> QED BY <1>2, <4>1
    <3> QED BY <3>1, <3>2
  <2> HIDE DEF e
  <2> QED BY <2>1, <2>2
<1>10. StateFits(e)
  BY <1>5, <1>8, <1>9 DEF StateFits
<1>11. pane \in ShellPane => InPlace(e, pane)
  <2>1. pane \in ShellPane => pane.shows # Nowhere
    BY <1>1 DEF ShellPane
  <2> QED BY <1>5, <1>7, <2>1 DEF InPlace
<1>12. ASSUME NEW q \in ShellPane, q.slot # pane.slot, q.shows # pane.shows, InPlace(s, q)
       PROVE  InPlace(e, q)
  <2>1. q.slot \in Slot /\ q.shows \in Shell
    BY DEF ShellPane
  <2>2. s.mounted[q.slot] = q.shows /\ s.term[q.shows].at = q.slot
    BY <1>12 DEF InPlace
  <2>3. c[q.shows] = s.term[q.shows]
    BY <1>2, <1>12, <2>1, <2>2
  <2>4. e.term[q.shows].at = q.slot
    BY <1>6, <1>12, <2>1, <2>2, <2>3
  <2>5. e.mounted[q.slot] = q.shows
    BY <1>5, <1>12, <2>1, <2>2
  <2> QED BY <2>4, <2>5 DEF InPlace
<1> QED BY <1>5, <1>10, <1>11, <1>12 DEF e

(* g is the state after each of the effects. *)
WithEffect(s, slots, pane) == IF pane.slot \in slots THEN Effect(s, pane) ELSE s

RunOfEffects(g, s, slots) == g[0] = s /\ \A k \in 1..Len(effects) : g[k] = WithEffect(g[k - 1], slots, effects[k])

LEMMA EffectsRun ==
  ASSUME NEW s, NEW slots, Len(effects) \in Nat
  PROVE  \E g : RunOfEffects(g, s, slots)
<1> DEFINE n == Len(effects)
           To(m) == \E g : g[0] = s /\ \A k \in 1..m : g[k] = WithEffect(g[k - 1], slots, effects[k])
           T == {m \in 0..n : ~To(m)}
<1>1. n \in Nat
  OBVIOUS
<1> HIDE DEF n
<1>2. SUFFICES ASSUME T # {} PROVE FALSE
  BY <1>1 DEF RunOfEffects, n
<1>3. PICK m \in T : \A k \in T : m <= k
  <2>1. T \subseteq Nat
    BY <1>1
  <2> HIDE DEF T
  <2> QED BY <1>2, <2>1, LeastIndex
<1>4. m # 0
  <2>1. To(0)
    <3> DEFINE g == [i \in 0..0 |-> s]
    <3>1. g[0] = s /\ 1..0 = {}
      OBVIOUS
    <3> HIDE DEF g
    <3> QED BY <3>1
  <2> QED BY <2>1, <1>3
<1>5. m - 1 \in 0..n /\ m \in 1..n /\ m - 1 \notin T
  <2>1. m \in 0..n
    BY <1>3
  <2>2. m \in Nat /\ m - 1 \in 0..n /\ m \in 1..n /\ ~(m <= m - 1)
    BY <1>1, <1>4, <2>1
  <2> HIDE DEF T
  <2> QED BY <1>3, <2>2
<1>6. PICK g : g[0] = s /\ \A k \in 1..m - 1 : g[k] = WithEffect(g[k - 1], slots, effects[k])
  BY <1>5
<1> DEFINE last == WithEffect(g[m - 1], slots, effects[m])
           h == [i \in 0..m |-> IF i < m THEN g[i] ELSE last]
<1>7. h[0] = s /\ h[m] = last /\ \A i \in 0..m - 1 : h[i] = g[i]
  BY <1>5, <1>6
<1> HIDE DEF h
<1>8. \A i \in 1..m : h[i] = WithEffect(h[i - 1], slots, effects[i])
  <2> TAKE i \in 1..m
  <2>1. CASE i = m
    BY <1>5, <1>7, <2>1
  <2>2. CASE i # m
    <3>1. i \in 1..m - 1 /\ h[i] = g[i] /\ h[i - 1] = g[i - 1]
      BY <1>5, <1>7, <2>2
    <3> QED BY <1>6, <3>1
  <2> QED BY <2>1, <2>2
<1>9. To(m)
  BY <1>7, <1>8
<1> QED BY <1>3, <1>9

LEMMA RanIs ==
  ASSUME NEW s, NEW slots, Len(effects) \in Nat
  PROVE  \E g : RunOfEffects(g, s, slots) /\ Ran(s, slots) = g[Len(effects)]
<1> DEFINE n == Len(effects)
           F(f, k) == IF k = 0 THEN s
                      ELSE IF effects[k].slot \in slots THEN Effect(f[k - 1], effects[k]) ELSE f[k - 1]
<1>1. n \in Nat
  OBVIOUS
<1>2. PICK g : RunOfEffects(g, s, slots)
  BY EffectsRun
<1> DEFINE h == [i \in 0..n |-> g[i]]
<1>3. h = [k \in 0..n |-> F(h, k)]
  <2>1. \A k \in 0..n : k # 0 => k \in 1..n /\ k - 1 \in 0..n
    BY <1>1
  <2>2. \A k \in 0..n : g[k] = F(h, k)
    BY <1>2, <2>1 DEF RunOfEffects, WithEffect
  <2> QED BY <2>2
<1> HIDE DEF h
<1> DEFINE f == CHOOSE f : f = [k \in 0..n |-> F(f, k)]
<1>4. f = [k \in 0..n |-> F(f, k)]
  BY <1>3
<1>5. Ran(s, slots) = f[n]
  BY DEF Ran
<1> HIDE DEF f
<1>6. RunOfEffects(f, s, slots)
  <2>1. \A k \in 0..n : f[k] = F(f, k)
    BY <1>4
  <2>2. \A k \in 1..n : k \in 0..n /\ k # 0
    BY <1>1
  <2>3. 0 \in 0..n
    BY <1>1
  <2> QED BY <2>1, <2>2, <2>3 DEF RunOfEffects, WithEffect
<1> QED BY <1>5, <1>6

(* What running the effects of `slots` has done by the i-th. *)
RanTo(r, i, s, slots) ==
  /\ StateFits(r)
  /\ \A slot \in Slot : (\A k \in 1..i : effects[k].slot = slot => slot \notin slots) => r.mounted[slot] = s.mounted[slot]
  /\ \A k \in 1..i : effects[k].slot \in slots => r.mounted[effects[k].slot] = effects[k].shows
  /\ \A p \in rendered :
       (InPlace(s, p) /\ \A k \in 1..Len(effects) : effects[k] # p) \/ (\E k \in 1..i : effects[k] = p /\ p.slot \in slots)
          => InPlace(r, p)

LEMMA RanFits ==
  ASSUME NEW s, StateFits(s), NEW slots, PanesFit, EffectsFit
  PROVE  RanTo(Ran(s, slots), Len(effects), s, slots)
<1> DEFINE n == Len(effects)
<1>1. n \in Nat /\ (\A k \in 1..n : effects[k] \in [slot : Slot, shows : Shell \cup {Nowhere}])
  <2>1. effects \in Seq([slot : Slot, shows : Shell \cup {Nowhere}])
    BY DEF EffectsFit
  <2> DEFINE P == [slot : Slot, shows : Shell \cup {Nowhere}]
  <2> HIDE DEF P
  <2>2. effects \in Seq(P)
    BY <2>1 DEF P
  <2>3. n \in Nat /\ \A k \in 1..n : effects[k] \in P
    BY <2>2
  <2> QED BY <2>3 DEF P
<1>2. PICK g : RunOfEffects(g, s, slots) /\ Ran(s, slots) = g[n]
  BY <1>1, RanIs
<1>3. g[0] = s /\ \A k \in 1..n : g[k] = WithEffect(g[k - 1], slots, effects[k])
  BY <1>2 DEF RunOfEffects
<1>4. /\ \A j, k \in 1..n : effects[j].slot = effects[k].slot => j = k
      /\ \A k \in 1..n : IF effects[k].shows = Nowhere THEN effects[k].slot \notin SlotsOf(rendered) ELSE effects[k] \in rendered
  BY DEF EffectsFit
<1>5. /\ \A p \in rendered : p \in ShellPane /\ p.slot \in SlotsOf(rendered) /\ p.shows # Nowhere
      /\ \A p, q \in rendered : p.slot = q.slot \/ p.shows = q.shows => p = q
  BY TerminalMountsAssumption DEF PanesFit, EachOnce, ShellPane, SlotsOf
<1> HIDE DEF n
<1> DEFINE T == {m \in 0..n : ~RanTo(g[m], m, s, slots)}
<1>6. SUFFICES ASSUME T # {} PROVE FALSE
  BY <1>1, <1>2 DEF n
<1>7. PICK m \in T : \A k \in T : m <= k
  <2>1. T \subseteq Nat
    BY <1>1
  <2> HIDE DEF T
  <2> QED BY <1>6, <2>1, LeastIndex
<1>8. m # 0
  <2>1. 1..0 = {} /\ g[0] = s
    BY <1>3
  <2>2. RanTo(s, 0, s, slots)
    BY <2>1 DEF RanTo
  <2> QED BY <2>1, <2>2, <1>7
<1>9. m \in 1..n /\ m - 1 \in 0..n /\ m - 1 \notin T /\ m \in Nat
  BY <1>1, <1>7, <1>8
<1> DEFINE r == g[m - 1]
           pane == effects[m]
<1>10. RanTo(r, m - 1, s, slots)
  BY <1>9
<1>11. g[m] = WithEffect(r, slots, pane)
  BY <1>3, <1>9
<1>12. \A k \in 1..m : k = m \/ k \in 1..m - 1
  BY <1>9
<1>13. \A k \in 1..m - 1 : k \in 1..n /\ k # m /\ k \in 1..m
  BY <1>1, <1>9
<1>14. m \in 1..m
  BY <1>9
<1>15. pane \in [slot : Slot, shows : Shell \cup {Nowhere}]
  BY <1>1, <1>9
<1>16. StateFits(r)
  BY <1>10 DEF RanTo
<1> HIDE DEF T, r
<1>17. RanTo(g[m], m, s, slots)
  <2>1. CASE pane.slot \notin slots
    <3>1. g[m] = r
      BY <1>11, <2>1 DEF WithEffect
    <3>2. \A slot \in Slot : (\A k \in 1..m : effects[k].slot = slot => slot \notin slots)
                             => \A k \in 1..m - 1 : effects[k].slot = slot => slot \notin slots
      BY <1>13
    <3>3. \A k \in 1..m : effects[k].slot \in slots => k \in 1..m - 1
      BY <1>12, <2>1
    <3>4. \A p : (\E k \in 1..m : effects[k] = p /\ p.slot \in slots) => \E k \in 1..m - 1 : effects[k] = p /\ p.slot \in slots
      BY <3>3
    <3> HIDE DEF pane
    <3> QED BY <1>10, <3>1, <3>2, <3>3, <3>4 DEF RanTo, n
  <2>2. CASE pane.slot \in slots
    <3> DEFINE e == g[m]
    <3>1. e = Effect(r, pane)
      BY <1>11, <2>2 DEF WithEffect
    <3> HIDE DEF e, pane
    <3>2. /\ StateFits(e)
          /\ e.mounted[pane.slot] = pane.shows
          /\ pane \in ShellPane => InPlace(e, pane)
          /\ \A slot \in Slot : slot # pane.slot => e.mounted[slot] = r.mounted[slot]
          /\ \A q \in ShellPane : q.slot # pane.slot /\ q.shows # pane.shows /\ InPlace(r, q) => InPlace(e, q)
      BY <1>15, <1>16, <3>1, EffectFits
    <3>3. ASSUME NEW slot \in Slot, \A k \in 1..m : effects[k].slot = slot => slot \notin slots
          PROVE  e.mounted[slot] = s.mounted[slot]
      <4>1. slot # pane.slot
        BY <1>14, <2>2, <3>3 DEF pane
      <4>2. r.mounted[slot] = s.mounted[slot]
        BY <1>10, <1>13, <3>3 DEF RanTo
      <4> QED BY <3>2, <4>1, <4>2
    <3>4. ASSUME NEW k \in 1..m, effects[k].slot \in slots
          PROVE  e.mounted[effects[k].slot] = effects[k].shows
      <4>1. CASE k = m
        BY <3>2, <4>1 DEF pane
      <4>2. CASE k # m
        <5>1. k \in 1..m - 1 /\ k \in 1..n
          BY <1>12, <1>13, <4>2
        <5>2. r.mounted[effects[k].slot] = effects[k].shows
          BY <1>10, <3>4, <5>1 DEF RanTo
        <5>3. effects[k].slot \in Slot
          BY <1>1, <5>1
        <5>4. effects[k].slot # pane.slot
          BY <1>4, <1>9, <4>2, <5>1 DEF pane
        <5> QED BY <3>2, <5>2, <5>3, <5>4
      <4> QED BY <4>1, <4>2
    <3>5. ASSUME NEW p \in rendered,
                 (InPlace(s, p) /\ \A k \in 1..n : effects[k] # p) \/ (\E k \in 1..m : effects[k] = p /\ p.slot \in slots)
          PROVE  InPlace(e, p)
      <4>1. CASE p = pane
        BY <1>5, <3>2, <4>1
      <4>2. CASE p # pane
        <5>1. (\E k \in 1..m : effects[k] = p /\ p.slot \in slots) => \E k \in 1..m - 1 : effects[k] = p /\ p.slot \in slots
          BY <1>12, <4>2 DEF pane
        <5>2. InPlace(r, p)
          BY <1>10, <3>5, <5>1 DEF RanTo, n
        <5>3. p.slot # pane.slot /\ p.shows # pane.shows
          <6>1. CASE pane.shows = Nowhere
            BY <1>4, <1>5, <1>9, <6>1 DEF pane
          <6>2. CASE pane.shows # Nowhere
            <7>1. pane \in rendered
              BY <1>4, <1>9, <6>2 DEF pane
            <7> QED BY <1>5, <4>2, <7>1
          <6> QED BY <6>1, <6>2
        <5>4. p \in ShellPane
          BY <1>5
        <5> QED BY <3>2, <5>2, <5>3, <5>4
      <4> QED BY <4>1, <4>2
    <3> QED BY <3>2, <3>3, <3>4, <3>5 DEF RanTo, n, e
  <2> QED BY <2>1, <2>2
<1> QED BY <1>7, <1>17 DEF T

-----------------------------------------------------------------------------
(* The orders of a finite set have each of its members, once. *)
LEMMA OrderOf ==
  ASSUME NEW S, IsFiniteSet(S), NEW e \in SetToSeqs(S)
  PROVE  /\ e \in Seq(S) /\ Range(e) = S /\ Len(e) \in Nat
         /\ \A k \in 1..Len(e) : e[k] \in S
         /\ \A j, k \in 1..Len(e) : e[j] = e[k] => j = k
         /\ \A p \in S : \E k \in 1..Len(e) : e[k] = p
<1> DEFINE n == Cardinality(S)
           D == 1..n
<1>1. n \in Nat
  BY FS_CardinalityType
<1>2. e \in [D -> S] /\ \A i, j \in D : i # j => e[i] # e[j]
  BY DEF SetToSeqs
<1> HIDE DEF n
<1>3. e \in Injection(D, S)
  BY <1>2 DEF Injection, IsInjective
<1>4. Cardinality(D) = n
  <2>1. IF 1 > n THEN Cardinality(1..n) = 0 ELSE Cardinality(1..n) = n - 1 + 1
    BY <1>1, FS_Interval
  <2> QED BY <1>1, <2>1
<1>5. e \in Surjection(D, S)
  BY <1>3, <1>4, FS_Injection DEF n
<1>6. \A p \in S : \E k \in D : e[k] = p
  BY <1>5 DEF Surjection
<1>7. e \in Seq(S) /\ Len(e) = n /\ DOMAIN e = D
  BY <1>1, <1>2
<1>8. Range(e) = S
  BY <1>2, <1>6, <1>7 DEF Range
<1> QED BY <1>1, <1>2, <1>6, <1>7, <1>8

LEMMA SlotsFinite ==
  ASSUME NEW ps, IsFiniteSet(ps)
  PROVE  IsFiniteSet(SlotsOf(ps))
<1> DEFINE f == [p \in ps |-> p.slot]
<1>1. f \in Surjection(ps, SlotsOf(ps))
  BY DEF Surjection, SlotsOf
<1> QED BY <1>1, FS_Surjection

LEMMA PanesFinite ==
  ASSUME NEW slots, IsFiniteSet(slots), NEW shows
  PROVE  IsFiniteSet({PaneOf(slot, shows) : slot \in slots})
<1> DEFINE T == {PaneOf(slot, shows) : slot \in slots}
           f == [slot \in slots |-> PaneOf(slot, shows)]
<1>1. f \in Surjection(slots, T)
  BY DEF Surjection
<1> QED BY <1>1, FS_Surjection

(* The panes there may be next, and what a rendering needs of the state before it. *)
PanesMay(ps, ids) == ps \subseteq [slot : Slot, shows : ids] /\ IsFiniteSet(ps) /\ EachOnce(ps) /\ ids \subseteq Shell

(* A rendering, of any panes, with any effects still due. *)
LEMMA RenderKeeps ==
  ASSUME PanesFit, EffectsFit, NEW before, StateFits(before),
         NEW next, PanesMay(next, existing'),
         NEW emptied, emptied \subseteq SlotsOf(rendered) \ SlotsOf(next), NEW again,
         \A p \in next \cap rendered : p \notin Range(effects) => InPlace(before, p),
         Render(next, emptied, again, before)
  PROVE  MountsInv'
<1> DEFINE stays   == SlotsOf(next) \cup emptied
           flushed == Ran(before, stays)
           changed == {p \in next : p \notin rendered \/ p.slot \in again}
           blanks  == {PaneOf(slot, Nowhere) : slot \in emptied}
           due     == changed \cup blanks
<1>1. /\ rendered' = next
      /\ term' = Cleaned(flushed, Slot \ stays)
      /\ mounted' = [slot \in Slot |-> IF slot \in stays THEN flushed.mounted[slot] ELSE Nowhere]
      /\ effects' \in SetToSeqs(due)
  BY DEF Render
<1>2. RanTo(flushed, Len(effects), before, stays)
  BY RanFits
<1>3. StateFits(flushed)
  BY <1>2 DEF RanTo
<1>4. rendered \subseteq ShellPane /\ next \subseteq ShellPane /\ IsFiniteSet(rendered) /\ IsFiniteSet(next)
  <2>1. /\ rendered \subseteq [slot : Slot, shows : existing] /\ existing \subseteq Shell
        /\ next \subseteq [slot : Slot, shows : existing'] /\ existing' \subseteq Shell
        /\ IsFiniteSet(rendered) /\ IsFiniteSet(next)
    BY DEF PanesFit, PanesMay
  <2>2. [slot : Slot, shows : existing] \subseteq ShellPane /\ [slot : Slot, shows : existing'] \subseteq ShellPane
    BY <2>1 DEF ShellPane
  <2> QED BY <2>1, <2>2
<1>5. \A slot \in emptied : slot \in Slot /\ slot \notin SlotsOf(next)
  BY <1>4 DEF SlotsOf, ShellPane
<1>6. IsFiniteSet(due)
  <2>1. IsFiniteSet(emptied)
    <3>1. IsFiniteSet(SlotsOf(rendered)) /\ emptied \in SUBSET SlotsOf(rendered)
      BY <1>4, SlotsFinite
    <3> QED BY <3>1, FS_Subset
  <2>2. IsFiniteSet(blanks)
    BY <2>1, PanesFinite
  <2>3. IsFiniteSet(changed)
    <3>1. changed \in SUBSET next
      OBVIOUS
    <3> QED BY <1>4, <3>1, FS_Subset
  <2> QED BY <2>2, <2>3, FS_Union
<1>7. /\ \A p \in changed : p \in next /\ p \in ShellPane /\ p.shows \in Shell /\ p.shows # Nowhere /\ p.slot \in SlotsOf(next)
      /\ \A p \in blanks : p.shows = Nowhere /\ p.slot \in emptied /\ p \in [slot : Slot, shows : Shell \cup {Nowhere}]
  <2>1. ASSUME NEW p \in changed
        PROVE  p \in next /\ p \in ShellPane /\ p.shows \in Shell /\ p.shows # Nowhere /\ p.slot \in SlotsOf(next)
    <3>1. p \in next /\ p \in ShellPane
      BY <1>4
    <3> QED BY <3>1, TerminalMountsAssumption DEF ShellPane, SlotsOf
  <2>2. ASSUME NEW p \in blanks
        PROVE  p.shows = Nowhere /\ p.slot \in emptied /\ p \in [slot : Slot, shows : Shell \cup {Nowhere}]
    BY <1>5 DEF PaneOf
  <2> QED BY <2>1, <2>2
<1> HIDE DEF stays, flushed, changed
<1>8. /\ effects' \in Seq(due) /\ Range(effects)' = due /\ Len(effects') \in Nat
      /\ \A k \in 1..Len(effects') : effects'[k] \in due
      /\ \A j, k \in 1..Len(effects') : effects'[j] = effects'[k] => j = k
  <2> HIDE DEF due
  <2>1. PICK e : e = effects'
    OBVIOUS
  <2>2. e \in SetToSeqs(due)
    BY <1>1, <2>1
  <2>3. /\ e \in Seq(due) /\ Range(e) = due /\ Len(e) \in Nat
        /\ \A k \in 1..Len(e) : e[k] \in due
        /\ \A j, k \in 1..Len(e) : e[j] = e[k] => j = k
    BY <1>6, <2>2, OrderOf
  <2> QED BY <2>1, <2>3
<1>9. PanesFit'
  BY <1>1 DEF PanesFit, PanesMay
<1>10. EffectsFit'
  <2>1. due \subseteq [slot : Slot, shows : Shell \cup {Nowhere}]
    <3>1. ShellPane \subseteq [slot : Slot, shows : Shell \cup {Nowhere}]
      BY DEF ShellPane
    <3> HIDE DEF blanks
    <3> QED BY <1>7, <3>1
  <2>2. effects' \in Seq([slot : Slot, shows : Shell \cup {Nowhere}])
    <3> DEFINE P == [slot : Slot, shows : Shell \cup {Nowhere}]
    <3> HIDE DEF P, due
    <3>1. due \subseteq P
      BY <2>1 DEF P
    <3>2. effects' \in Seq(P)
      BY <1>8, <3>1
    <3> QED BY <3>2 DEF P
  <2>3. \A p, q \in due : p.slot = q.slot => p = q
    <3>1. \A p, q \in changed : p.slot = q.slot => p = q
      BY <1>7 DEF PanesMay, EachOnce
    <3>2. \A p, q \in blanks : p.slot = q.slot => p = q
      BY DEF PaneOf
    <3>3. \A p \in changed, q \in blanks : p.slot # q.slot
      BY <1>5, <1>7
    <3> HIDE DEF blanks
    <3> QED BY <3>1, <3>2, <3>3
  <2>4. \A p \in due : IF p.shows = Nowhere THEN p.slot \notin SlotsOf(next) ELSE p \in next
    <3> HIDE DEF blanks
    <3> QED BY <1>5, <1>7
  <2> HIDE DEF due
  <2>5. \A j, k \in 1..Len(effects') : effects'[j].slot = effects'[k].slot => j = k
    BY <1>8, <2>3
  <2>6. \A k \in 1..Len(effects') : IF effects'[k].shows = Nowhere THEN effects'[k].slot \notin SlotsOf(rendered')
                                    ELSE effects'[k] \in rendered'
    BY <1>1, <1>8, <2>4
  <2> QED BY <2>2, <2>5, <2>6 DEF EffectsFit
<1> DEFINE gone == Slot \ stays
<1>11. /\ term' \in [Shell -> Terminal]
       /\ \A id \in Shell :
            /\ Kept(term'[id])
            /\ term'[id].at # Nowhere => term'[id] = flushed.term[id] /\ flushed.term[id].at \notin gone
            /\ flushed.term[id].at \notin gone => term'[id] = flushed.term[id]
  <2>1. gone \subseteq Slot
    OBVIOUS
  <2> HIDE DEF gone
  <2>2. term' = Cleaned(flushed, gone)
    BY <1>1 DEF gone
  <2> QED BY <1>3, <2>1, <2>2, CleanedFits
<1>12. /\ flushed.mounted \in [Slot -> Shell \cup {Nowhere}]
       /\ \A id \in Shell : flushed.term[id].at # Nowhere => flushed.mounted[flushed.term[id].at] = id
  BY <1>3 DEF StateFits
<1>13. \A slot \in Slot : mounted'[slot] = IF slot \in stays THEN flushed.mounted[slot] ELSE Nowhere
  BY <1>1
<1>14. StateFits(Unchanged)'
  <2>1. mounted' \in [Slot -> Shell \cup {Nowhere}]
    BY <1>1, <1>12
  <2>2. ASSUME NEW id \in Shell, term'[id].at # Nowhere
        PROVE  mounted'[term'[id].at] = id
    <3>1. term'[id] = flushed.term[id] /\ flushed.term[id].at \notin gone
      BY <1>11, <2>2
    <3>2. term'[id].at \in Slot
      <4>1. term'[id] \in Terminal
        BY <1>11
      <4>2. term'[id].at \in Slot \cup {Nowhere}
        BY <4>1 DEF Terminal
      <4> QED BY <2>2, <4>2
    <3>3. term'[id].at \in stays
      BY <3>1, <3>2
    <3>4. flushed.mounted[term'[id].at] = id
      BY <1>12, <2>2, <3>1
    <3> QED BY <1>13, <3>2, <3>3, <3>4
  <2>3. Unchanged'.term = term' /\ Unchanged'.mounted = mounted'
    BY DEF Unchanged
  <2> QED BY <1>11, <2>1, <2>2, <2>3 DEF StateFits
<1>15. ASSUME NEW slot \in Slot, slot \notin SlotsOf(rendered') \cup SlotsOf(Range(effects)')
       PROVE  mounted'[slot] = Nowhere
  <2>1. slot \notin SlotsOf(next)
    BY <1>1, <1>15
  <2>2. slot \notin emptied
    <3>1. ASSUME slot \in emptied PROVE FALSE
      <4>1. PaneOf(slot, Nowhere) \in due /\ PaneOf(slot, Nowhere).slot = slot
        BY <3>1 DEF PaneOf
      <4> HIDE DEF due
      <4>2. slot \in SlotsOf(due)
        BY <4>1 DEF SlotsOf
      <4> QED BY <1>8, <1>15, <4>2
    <3> QED BY <3>1
  <2>3. slot \notin stays
    BY <2>1, <2>2 DEF stays
  <2> QED BY <1>13, <2>3
<1>16. ASSUME NEW p \in rendered', p \notin Range(effects)'
       PROVE  InPlace(Unchanged, p)'
  <2>1. p \in next /\ p \notin changed /\ p \in ShellPane
    BY <1>1, <1>4, <1>8, <1>16
  <2>2. p \in rendered /\ p.slot \in stays
    BY <2>1 DEF changed, stays, SlotsOf
  <2>3. InPlace(flushed, p)
    <3>1. effects \in Seq([slot : Slot, shows : Shell \cup {Nowhere}])
      BY DEF EffectsFit
    <3>2. Range(effects) = {effects[k] : k \in 1..Len(effects)}
      BY <3>1 DEF Range
    <3>3. p \notin Range(effects) => InPlace(before, p) /\ \A k \in 1..Len(effects) : effects[k] # p
      BY <2>1, <2>2, <3>2
    <3>4. p \in Range(effects) => \E k \in 1..Len(effects) : effects[k] = p /\ p.slot \in stays
      BY <2>2, <3>2
    <3> QED BY <1>2, <2>2, <3>3, <3>4 DEF RanTo
  <2>4. flushed.mounted[p.slot] = p.shows /\ flushed.term[p.shows].at = p.slot
    BY <2>3 DEF InPlace
  <2>5. p.slot \in Slot /\ p.shows \in Shell
    BY <2>1 DEF ShellPane
  <2>6. mounted'[p.slot] = p.shows
    BY <1>13, <2>2, <2>4, <2>5
  <2>7. term'[p.shows].at = p.slot
    BY <1>11, <2>2, <2>4, <2>5
  <2> QED BY <2>6, <2>7 DEF InPlace, Unchanged
<1> QED BY <1>9, <1>10, <1>14, <1>15, <1>16 DEF MountsInv

-----------------------------------------------------------------------------
LEMMA DisposedFits ==
  ASSUME NEW s, StateFits(s), NEW ids, ids \subseteq Shell
  PROVE  /\ StateFits(Disposed(s, ids))
         /\ \A p \in ShellPane : p.shows \notin ids /\ InPlace(s, p) => InPlace(Disposed(s, ids), p)
         /\ \A slot \in Slot : s.mounted[slot] = Nowhere => Disposed(s, ids).mounted[slot] = Nowhere
<1> DEFINE d == Disposed(s, ids)
<1>1. /\ d.term = [id \in Shell |-> IF id \in ids THEN Absent ELSE s.term[id]]
      /\ d.mounted = [slot \in Slot |-> IF s.mounted[slot] \in ids THEN Nowhere ELSE s.mounted[slot]]
  BY DEF Disposed
<1> HIDE DEF d
<1>2. /\ s.mounted \in [Slot -> Shell \cup {Nowhere}] /\ s.term \in [Shell -> Terminal]
      /\ \A id \in Shell : Kept(s.term[id]) /\ (s.term[id].at # Nowhere => s.mounted[s.term[id].at] = id)
  BY DEF StateFits
<1>3. d.mounted \in [Slot -> Shell \cup {Nowhere}]
  BY <1>1, <1>2
<1>4. ASSUME NEW id \in Shell
      PROVE  d.term[id] \in Terminal /\ Kept(d.term[id]) /\ (d.term[id].at # Nowhere => d.mounted[d.term[id].at] = id)
  <2>1. CASE id \in ids
    <3>1. d.term[id] = Absent
      BY <1>1, <2>1
    <3> QED BY <3>1, AbsentKept DEF Kept
  <2>2. CASE id \notin ids
    <3>1. d.term[id] = s.term[id]
      BY <1>1, <2>2
    <3>2. ASSUME s.term[id].at # Nowhere
          PROVE  d.mounted[s.term[id].at] = id
      <4>1. s.term[id].at \in Slot
        <5>1. s.term[id] \in Terminal
          BY <1>2
        <5>2. s.term[id].at \in Slot \cup {Nowhere}
          BY <5>1 DEF Terminal
        <5> QED BY <3>2, <5>2
      <4>2. s.mounted[s.term[id].at] = id
        BY <1>2, <3>2
      <4> QED BY <1>1, <2>2, <4>1, <4>2
    <3> QED BY <1>2, <3>1, <3>2
  <2> QED BY <2>1, <2>2
<1>5. d.term \in [Shell -> Terminal]
  BY <1>1, <1>4
<1>6. StateFits(d)
  BY <1>3, <1>4, <1>5 DEF StateFits
<1>7. ASSUME NEW p \in ShellPane, p.shows \notin ids, InPlace(s, p)
      PROVE  InPlace(d, p)
  <2>1. p.slot \in Slot /\ p.shows \in Shell
    BY DEF ShellPane
  <2> QED BY <1>1, <1>7, <2>1 DEF InPlace
<1>8. \A slot \in Slot : s.mounted[slot] = Nowhere => d.mounted[slot] = Nowhere
  BY <1>1
<1> QED BY <1>6, <1>7, <1>8 DEF d

(* A terminal becomes another where it is. *)
LEMMA BecomesKeeps ==
  ASSUME MountsInv, NEW id \in Shell, NEW u, Kept(u), u.at = term[id].at,
         term' = [term EXCEPT ![id] = u], UNCHANGED <<existing, rendered, effects, mounted>>
  PROVE  MountsInv'
<1>1. PanesFit /\ EffectsFit /\ StateFits(Unchanged)
  BY DEF MountsInv
<1>2. PanesFit' /\ EffectsFit'
  BY <1>1 DEF PanesFit, EffectsFit
<1>3. /\ mounted \in [Slot -> Shell \cup {Nowhere}] /\ term \in [Shell -> Terminal]
      /\ \A i \in Shell : Kept(term[i]) /\ (term[i].at # Nowhere => mounted[term[i].at] = i)
  BY <1>1 DEF StateFits, Unchanged
<1>4. u \in Terminal
  BY DEF Kept
<1>5. term' \in [Shell -> Terminal] /\ \A i \in Shell : Kept(term'[i]) /\ term'[i].at = term[i].at
  BY <1>3, <1>4
<1>6. StateFits(Unchanged)'
  <2>1. Unchanged'.term = term' /\ Unchanged'.mounted = mounted
    BY DEF Unchanged
  <2> QED BY <1>3, <1>5, <2>1 DEF StateFits
<1>7. \A p \in rendered : p \notin Range(effects) => InPlace(Unchanged, p)'
  <2> TAKE p \in rendered
  <2>1. p.shows \in Shell
    BY <1>1 DEF PanesFit
  <2>2. InPlace(Unchanged, p) => InPlace(Unchanged, p)'
    BY <1>5, <2>1 DEF InPlace, Unchanged
  <2> QED BY <2>2 DEF MountsInv
<1>8. Range(effects)' = Range(effects)
  BY DEF Range
<1> QED BY <1>2, <1>6, <1>7, <1>8 DEF MountsInv

LEMMA LayoutStep ==
  ASSUME MountsInv, LayoutChanges
  PROVE  MountsInv'
<1>1. PICK next \in Layouts(existing) :
        \E emptied \in SUBSET (SlotsOf(rendered) \ SlotsOf(next)), again \in SUBSET SlotsOf(next \cap rendered) :
          Render(next, emptied, again, Unchanged)
  BY DEF LayoutChanges
<1>2. PICK emptied \in SUBSET (SlotsOf(rendered) \ SlotsOf(next)), again \in SUBSET SlotsOf(next \cap rendered) :
        Render(next, emptied, again, Unchanged)
  BY <1>1
<1>3. existing' = existing
  BY DEF LayoutChanges
<1>4. PanesFit /\ EffectsFit /\ StateFits(Unchanged) /\ \A p \in rendered : p \notin Range(effects) => InPlace(Unchanged, p)
  BY DEF MountsInv
<1>5. PanesMay(next, existing')
  BY <1>3, <1>4 DEF Layouts, PanesMay, EachOnce, PanesFit
<1> QED BY <1>2, <1>4, <1>5, RenderKeeps

LEMMA GoesStep ==
  ASSUME MountsInv, NEW id \in Shell, SessionGoes(id)
  PROVE  MountsInv'
<1> DEFINE left == {p \in rendered : p.shows = id}
<1>1. PICK other \in (existing' \ ShellsOf(rendered)) \cup {Nowhere} :
        LET next == (rendered \ left) \cup {p \in {PaneOf(slot, other) : slot \in SlotsOf(left)} : other # Nowhere}
        IN Render(next, SlotsOf(rendered) \ SlotsOf(next), {}, Disposed(Unchanged, Shell \ existing'))
  BY DEF SessionGoes
<1> DEFINE new  == {p \in {PaneOf(slot, other) : slot \in SlotsOf(left)} : other # Nowhere}
           next == (rendered \ left) \cup new
           before == Disposed(Unchanged, Shell \ existing')
<1>2. Render(next, SlotsOf(rendered) \ SlotsOf(next), {}, before)
  BY <1>1
<1>3. existing' = existing \ {id}
  BY DEF SessionGoes
<1>4. PanesFit /\ EffectsFit /\ StateFits(Unchanged) /\ \A p \in rendered : p \notin Range(effects) => InPlace(Unchanged, p)
  BY DEF MountsInv
<1>5. /\ rendered \subseteq [slot : Slot, shows : existing] /\ IsFiniteSet(rendered) /\ existing \subseteq Shell
      /\ \A p, q \in rendered : p.slot = q.slot \/ p.shows = q.shows => p = q
  BY <1>4 DEF PanesFit, EachOnce
<1>6. ASSUME NEW p \in new
      PROVE  /\ p \in [slot : Slot, shows : existing'] /\ p.shows = other /\ other \in existing'
             /\ \E q \in left : p.slot = q.slot
  <2>1. PICK slot \in SlotsOf(left) : p = PaneOf(slot, other) /\ other # Nowhere
    OBVIOUS
  <2>2. PICK q \in left : slot = q.slot
    BY <2>1 DEF SlotsOf
  <2>3. slot \in Slot /\ other \in existing'
    BY <1>5, <2>1, <2>2
  <2> QED BY <2>1, <2>2, <2>3 DEF PaneOf
<1>7. \A p \in rendered \ left : p \in [slot : Slot, shows : existing']
  BY <1>3, <1>5
<1>8. IsFiniteSet(next)
  <2>1. IsFiniteSet(left)
    <3>1. left \in SUBSET rendered
      OBVIOUS
    <3> QED BY <1>5, <3>1, FS_Subset
  <2>2. IsFiniteSet({PaneOf(slot, other) : slot \in SlotsOf(left)})
    BY <2>1, SlotsFinite, PanesFinite
  <2>3. new \in SUBSET {PaneOf(slot, other) : slot \in SlotsOf(left)}
    OBVIOUS
  <2>4. IsFiniteSet(new)
    BY <2>2, <2>3, FS_Subset
  <2>5. rendered \ left \in SUBSET rendered
    OBVIOUS
  <2>6. IsFiniteSet(rendered \ left)
    BY <1>5, <2>5, FS_Subset
  <2> QED BY <2>4, <2>6, FS_Union
<1>9. EachOnce(next)
  <2>1. ASSUME NEW p \in new, NEW q \in new
        PROVE  p = q
    <3>1. PICK a \in left : p.slot = a.slot
      BY <1>6
    <3>2. PICK b \in left : q.slot = b.slot
      BY <1>6
    <3>3. a = b
      BY <1>5
    <3>4. p \in [slot : Slot, shows : existing'] /\ q \in [slot : Slot, shows : existing'] /\ p.shows = q.shows /\ p.slot = q.slot
      BY <1>6, <3>1, <3>2, <3>3
    <3> HIDE DEF new
    <3> QED BY <3>4
  <2>2. ASSUME NEW p \in new, NEW q \in rendered \ left
        PROVE  p.slot # q.slot /\ p.shows # q.shows
    <3>1. PICK a \in left : p.slot = a.slot
      BY <1>6
    <3>2. a.slot # q.slot
      BY <1>5
    <3>3. q.shows \in ShellsOf(rendered) /\ other \notin ShellsOf(rendered)
      <4>1. other # Nowhere
        OBVIOUS
      <4> QED BY <4>1 DEF ShellsOf
    <3>4. p.shows = other
      BY <1>6
    <3> QED BY <3>1, <3>2, <3>3, <3>4
  <2> HIDE DEF new
  <2> QED BY <1>5, <2>1, <2>2 DEF EachOnce
<1>10. PanesMay(next, existing')
  <2>1. next \subseteq [slot : Slot, shows : existing']
    <3> HIDE DEF new
    <3> QED BY <1>6, <1>7
  <2>2. existing' \subseteq Shell
    BY <1>3, <1>5
  <2> QED BY <1>8, <1>9, <2>1, <2>2 DEF PanesMay
<1>11. StateFits(before) /\ \A p \in ShellPane : p.shows \notin Shell \ existing' /\ InPlace(Unchanged, p) => InPlace(before, p)
  <2>1. Shell \ existing' \subseteq Shell
    OBVIOUS
  <2> QED BY <1>4, <2>1, DisposedFits
<1>12. \A p \in next \cap rendered : p \notin Range(effects) => InPlace(before, p)
  <2> TAKE p \in next \cap rendered
  <2>1. p \in [slot : Slot, shows : existing'] /\ existing' \subseteq Shell
    BY <1>10 DEF PanesMay
  <2>2. p \in ShellPane /\ p.shows \notin Shell \ existing'
    BY <2>1 DEF ShellPane
  <2> HIDE DEF before
  <2> QED BY <1>4, <1>11, <2>2
<1> HIDE DEF next, before
<1> QED BY <1>2, <1>4, <1>10, <1>11, <1>12, RenderKeeps

LEMMA ComesStep ==
  ASSUME MountsInv, NEW id \in Shell, SessionComes(id)
  PROVE  MountsInv'
<1> DEFINE ids == Shell \ existing
           d   == Disposed(Unchanged, ids)
<1>1. term' = d.term /\ mounted' = d.mounted /\ existing' = existing \cup {id} /\ UNCHANGED <<rendered, effects>>
  BY DEF SessionComes
<1>2. PanesFit /\ EffectsFit /\ StateFits(Unchanged) /\ (\A p \in rendered : p \notin Range(effects) => InPlace(Unchanged, p))
  BY DEF MountsInv
<1>3. /\ StateFits(d)
      /\ \A p \in ShellPane : p.shows \notin ids /\ InPlace(Unchanged, p) => InPlace(d, p)
      /\ \A slot \in Slot : Unchanged.mounted[slot] = Nowhere => d.mounted[slot] = Nowhere
  BY <1>2, DisposedFits
<1> HIDE DEF d
<1>4. PanesFit' /\ EffectsFit'
  BY <1>1, <1>2 DEF PanesFit, EffectsFit
<1>5. Unchanged'.term = d.term /\ Unchanged'.mounted = d.mounted /\ Unchanged.mounted = mounted
  BY <1>1 DEF Unchanged
<1>6. StateFits(Unchanged)'
  BY <1>3, <1>5 DEF StateFits
<1>7. Range(effects)' = Range(effects)
  BY <1>1 DEF Range
<1>8. \A p \in rendered : p \notin Range(effects) => InPlace(Unchanged, p)'
  <2> TAKE p \in rendered
  <2>1. p \in ShellPane /\ p.shows \notin ids
    BY <1>2 DEF PanesFit, ShellPane
  <2>2. InPlace(Unchanged, p) => InPlace(d, p)
    BY <1>3, <2>1
  <2>3. InPlace(d, p) => InPlace(Unchanged, p)'
    BY <1>5 DEF InPlace
  <2> QED BY <1>2, <2>2, <2>3
<1> QED BY <1>1, <1>3, <1>4, <1>5, <1>6, <1>7, <1>8 DEF MountsInv

LEMMA PaintStep ==
  ASSUME MountsInv, AfterPaint
  PROVE  MountsInv'
<1> DEFINE r == Ran(Unchanged, Slot)
<1>1. term' = r.term /\ mounted' = r.mounted /\ effects' = <<>> /\ UNCHANGED <<existing, rendered>>
  BY DEF AfterPaint
<1>2. PanesFit /\ EffectsFit /\ StateFits(Unchanged) /\ (\A p \in rendered : p \notin Range(effects) => InPlace(Unchanged, p))
  BY DEF MountsInv
<1>3. RanTo(r, Len(effects), Unchanged, Slot)
  BY <1>2, RanFits
<1> HIDE DEF r
<1>4. effects \in Seq([slot : Slot, shows : Shell \cup {Nowhere}])
  BY <1>2 DEF EffectsFit
<1>5. Range(effects) = {effects[k] : k \in 1..Len(effects)}
  BY <1>4 DEF Range
<1>6. Unchanged'.term = r.term /\ Unchanged'.mounted = r.mounted /\ Unchanged.mounted = mounted
  BY <1>1 DEF Unchanged
<1>7. PanesFit' /\ EffectsFit'
  BY <1>1, <1>2 DEF PanesFit, EffectsFit
<1>8. StateFits(Unchanged)'
  <2>1. StateFits(r)
    BY <1>3 DEF RanTo
  <2> QED BY <1>6, <2>1 DEF StateFits
<1>9. ASSUME NEW slot \in Slot, slot \notin SlotsOf(rendered)
      PROVE  r.mounted[slot] = Nowhere
  <2>1. CASE \E k \in 1..Len(effects) : effects[k].slot = slot
    <3>1. PICK k \in 1..Len(effects) : effects[k].slot = slot
      BY <2>1
    <3>2. effects[k].shows = Nowhere
      <4>1. effects[k].shows # Nowhere => effects[k] \in rendered
        BY <1>2 DEF EffectsFit
      <4> QED BY <1>9, <3>1, <4>1 DEF SlotsOf
    <3> QED BY <1>3, <3>1, <3>2 DEF RanTo
  <2>2. CASE ~\E k \in 1..Len(effects) : effects[k].slot = slot
    <3>1. r.mounted[slot] = mounted[slot]
      BY <1>3, <1>6, <2>2 DEF RanTo
    <3>2. slot \notin SlotsOf(Range(effects))
      BY <1>5, <2>2 DEF SlotsOf
    <3> QED BY <1>9, <3>1, <3>2 DEF MountsInv
  <2> QED BY <2>1, <2>2
<1>10. ASSUME NEW p \in rendered
       PROVE  InPlace(Unchanged, p)'
  <2>1. p.slot \in Slot
    BY <1>2 DEF PanesFit
  <2>2. (InPlace(Unchanged, p) /\ \A k \in 1..Len(effects) : effects[k] # p) \/ (\E k \in 1..Len(effects) : effects[k] = p /\ p.slot \in Slot)
    BY <1>2, <1>5, <2>1
  <2>3. InPlace(r, p)
    BY <1>3, <2>2 DEF RanTo
  <2> QED BY <1>6, <2>3 DEF InPlace
<1> QED BY <1>1, <1>6, <1>7, <1>8, <1>9, <1>10 DEF MountsInv

LEMMA TerminalStep ==
  ASSUME MountsInv, NEW id \in Shell,
         MakesTerminal(id) \/ FrameOf(id) \/ Output(id) \/ \E line \in 0..MaxLine : Wheel(id, line) \/ Replayed(id, line)
  PROVE  MountsInv'
<1> DEFINE t == term[id]
<1>1. Kept(t) /\ t \in Terminal /\ t.base \in Nat
  BY DEF MountsInv, StateFits, Unchanged, Kept, Terminal
<1>2. ASSUME NEW u, Stays(u, t), Becomes(id, u)
      PROVE  MountsInv'
  BY <1>2, BecomesKeeps DEF Stays, Becomes
<1>3. CASE MakesTerminal(id)
  BY <1>1, <1>3, GotKept, BecomesKeeps DEF MakesTerminal
<1>4. CASE FrameOf(id)
  <2> DEFINE target == IF t.frame.is = "line" THEN Min({t.frame.line, t.base}) ELSE t.base
             u == [(IF t.base = 0 THEN t ELSE MovedTo(t, target)) EXCEPT !.frame = NoScroll]
  <2>1. t.frame # NoScroll /\ Becomes(id, u)
    BY <1>4 DEF FrameOf
  <2>2. Stays(u, t)
    <3> PICK aim : aim = target
      OBVIOUS
    <3> QED BY <1>1, <2>1, FrameKept
  <2> HIDE DEF u
  <2> QED BY <1>2, <2>1, <2>2
<1>5. CASE Output(id)
  <2> DEFINE u == MovedTo([t EXCEPT !.base = @ + 1], IF t.view = t.base THEN t.base + 1 ELSE t.view)
  <2>1. Becomes(id, u)
    BY <1>5 DEF Output
  <2>2. Stays(u, t)
    BY <1>1, OutputKept
  <2> HIDE DEF u
  <2> QED BY <1>2, <2>1, <2>2
<1>6. ASSUME NEW line \in 0..MaxLine, Wheel(id, line)
      PROVE  MountsInv'
  <2> DEFINE u == [MovedTo(t, line) EXCEPT !.left = IF line = t.base THEN Fresh ELSE SavedAt(line)]
  <2>1. Becomes(id, u) /\ t.at # Nowhere /\ t.frame = NoScroll /\ line \in 0..t.base
    BY <1>6 DEF Wheel
  <2>2. Stays(u, t)
    BY <1>1, <2>1, WheelKept
  <2> HIDE DEF u
  <2> QED BY <1>2, <2>1, <2>2
<1>7. ASSUME NEW line \in 0..MaxLine, Replayed(id, line)
      PROVE  MountsInv'
  <2> DEFINE u == MovedTo([t EXCEPT !.base = line, !.saved = NoScroll, !.frame = Fresh, !.left = Fresh], line)
  <2>1. Becomes(id, u) /\ t.is = "live" /\ line \in Nat
    <3> DEFINE v == [t EXCEPT !.base = line, !.saved = NoScroll, !.frame = Fresh, !.left = Fresh]
    <3>1. v.is = "live" /\ Becomes(id, u)
      BY <1>7 DEF Replayed
    <3>2. v.is = t.is
      BY <1>1 DEF Terminal
    <3>3. line \in Nat
      BY TerminalMountsAssumption
    <3> QED BY <3>1, <3>2, <3>3
  <2>2. Stays(u, t)
    BY <1>1, <2>1, ReplayedKept
  <2> HIDE DEF u
  <2> QED BY <1>2, <2>1, <2>2
<1> QED BY <1>3, <1>4, <1>5, <1>6, <1>7

LEMMA MountsStart == MountsInit => MountsInv
<1> SUFFICES ASSUME MountsInit PROVE MountsInv
  OBVIOUS
<1>1. existing = Shell /\ rendered = {} /\ effects = <<>> /\ mounted = [slot \in Slot |-> Nowhere] /\ term = [id \in Shell |-> Absent]
  BY DEF MountsInit
<1>2. PanesFit
  BY <1>1, FS_EmptySet DEF PanesFit, EachOnce
<1>3. EffectsFit
  BY <1>1 DEF EffectsFit
<1>4. StateFits(Unchanged)
  <2>1. Unchanged.term = term /\ Unchanged.mounted = mounted
    BY DEF Unchanged
  <2>2. \A id \in Shell : Kept(term[id]) /\ term[id].at = Nowhere /\ term[id] \in Terminal
    BY <1>1, AbsentKept DEF Kept
  <2> QED BY <1>1, <2>1, <2>2 DEF StateFits
<1> QED BY <1>1, <1>2, <1>3, <1>4 DEF MountsInv

LEMMA MountsStep == MountsInv /\ [MountsNext]_mountVars => MountsInv'
<1> SUFFICES ASSUME MountsInv, [MountsNext]_mountVars PROVE MountsInv'
  OBVIOUS
<1>1. CASE LayoutChanges
  BY <1>1, LayoutStep
<1>2. CASE AfterPaint
  BY <1>2, PaintStep
<1>3. ASSUME NEW id \in Shell, SessionGoes(id)
      PROVE  MountsInv'
  BY <1>3, GoesStep
<1>4. ASSUME NEW id \in Shell, SessionComes(id)
      PROVE  MountsInv'
  BY <1>4, ComesStep
<1>5. ASSUME NEW id \in Shell,
             MakesTerminal(id) \/ FrameOf(id) \/ Output(id) \/ \E line \in 0..MaxLine : Wheel(id, line) \/ Replayed(id, line)
      PROVE  MountsInv'
  BY <1>5, TerminalStep
<1>6. CASE UNCHANGED mountVars
  BY <1>6 DEF mountVars, MountsInv, PanesFit, EffectsFit, StateFits, InPlace, Unchanged, Range
<1> QED BY <1>1, <1>2, <1>3, <1>4, <1>5, <1>6 DEF MountsNext

LEMMA MountsShow == MountsInv => PaneShows
<1> SUFFICES ASSUME MountsInv, effects = <<>> PROVE PaneShows
  BY DEF PaneShows
<1>1. /\ PanesFit /\ \A p \in rendered : InPlace(Unchanged, p)
      /\ \A slot \in Slot : slot \notin SlotsOf(rendered) => mounted[slot] = Nowhere
  <2>1. Range(effects) = {}
    BY DEF Range
  <2>2. SlotsOf(Range(effects)) = {}
    BY <2>1 DEF SlotsOf
  <2> QED BY <2>1, <2>2 DEF MountsInv
<1>2. \A id \in Shell : Kept(term[id]) /\ (term[id].at # Nowhere => mounted[term[id].at] = id)
  BY DEF MountsInv, StateFits, Unchanged
<1>3. \A p \in rendered : p \in ShellPane /\ mounted[p.slot] = p.shows /\ term[p.shows].at = p.slot
  BY <1>1 DEF PanesFit, ShellPane, InPlace, Unchanged
<1>4. ASSUME NEW p \in rendered
      PROVE  LET t == term[p.shows] IN t.is = "live" /\ t.at = p.slot /\ (t.frame = NoScroll => Settled(t))
  <2> DEFINE t == term[p.shows]
  <2>1. p.slot \in Slot /\ p.shows \in Shell /\ t.at = p.slot
    BY <1>3 DEF ShellPane
  <2>2. Kept(t) /\ t.at # Nowhere
    BY <1>2, <2>1, TerminalMountsAssumption
  <2> HIDE DEF t
  <2>3. t.is = "live" /\ (t.frame = NoScroll => Settled(t))
    BY <2>2 DEF Kept, Settled
  <2> QED BY <2>1, <2>3 DEF t
<1>5. ASSUME NEW id \in Shell, term[id].at # Nowhere
      PROVE  PaneOf(term[id].at, id) \in rendered
  <2>1. term[id].at \in Slot /\ mounted[term[id].at] = id
    <3>1. term[id] \in Terminal
      BY <1>2 DEF Kept
    <3>2. term[id].at \in Slot \cup {Nowhere}
      BY <3>1 DEF Terminal
    <3> QED BY <1>2, <1>5, <3>2
  <2>2. id # Nowhere
    BY TerminalMountsAssumption
  <2>3. PICK p \in rendered : p.slot = term[id].at
    BY <1>1, <2>1, <2>2 DEF SlotsOf
  <2>4. p = PaneOf(term[id].at, id)
    BY <1>3, <2>1, <2>3 DEF PaneOf, ShellPane
  <2> QED BY <2>4
<1> QED BY <1>4, <1>5 DEF PaneShows

(* Whatever sessions, panes and slots there are, in whichever order the     *)
(* effects run, and whatever a rendering finds still to be run: once they   *)
(* have run each pane has the live terminal of its session, its view where  *)
(* the user left it, and no terminal is in a pane of another.               *)
THEOREM PanesAlwaysShow == MountsSpec => []PaneShows
<1>1. MountsInit => MountsInv
  BY MountsStart
<1>2. MountsInv /\ [MountsNext]_mountVars => MountsInv'
  BY MountsStep
<1>3. MountsInv => PaneShows
  BY MountsShow
<1> QED BY <1>1, <1>2, <1>3, PTL DEF MountsSpec
=============================================================================
