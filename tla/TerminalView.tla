------------------------------ MODULE TerminalView ------------------------------
(***************************************************************************)
(* One terminal in a browser, from ptyd to its screen: a session, the      *)
(* connection the gateway keeps to ptyd for it (handleTerminal,            *)
(* src/web/ws.ts), its web socket, and the write queue, size and input of  *)
(* SessionTerminal (web/src/terminal/session-terminal.ts).                 *)
(*                                                                         *)
(* Output is numbered; a size is one number.  The other viewers of the     *)
(* session are as one.  See SessionOutput for how a snapshot is exact,     *)
(* ReconnectingSocket for when a socket is given up.                       *)
(***************************************************************************)
EXTENDS Integers, Sequences, SequencesExt

CONSTANTS
  Size,          \* sizes a viewer may want, numbers from 1
  MaxSize,       \* MAX_COLS, MAX_ROWS
  resizePolicy,  \* Config.resizePolicy
  MAX_WS_BACKLOG,\* messages on the web socket after which output is not sent
  MaxOutput,     \* bound of the model: output of the session
  MaxInput,      \* bound of the model: inputs for each connection
  MaxConnections,\* bound of the model: sockets the browser opens
  MaxFlight      \* bound of the model: what is under way when something new happens

ASSUME TerminalViewAssumption ==
  /\ Size \subseteq Nat \ {0} /\ MaxSize \in Size
  /\ resizePolicy \in {"active", "min"}
  /\ {MAX_WS_BACKLOG, MaxOutput, MaxInput, MaxConnections, MaxFlight} \subseteq Nat

VARIABLES
  out,       \* ptyd: how much output there was
  size,      \* ptyd: Session.cols, rows
  votes,     \* ptyd: what this viewer and the others declared, and who was last
  request,   \* frames from the gateway to ptyd
  frames,    \* frames from ptyd to the gateway
  handler,   \* handleTerminal: how far it has come
  wire,      \* messages from the gateway to the browser
  up,        \* messages from the browser to the gateway
  socket,    \* ReconnectingSocket: which connection, whether usable
  term,      \* SessionTerminal: term.cols, what the pane has room for, what was proposed
  queue,     \* what xterm has been given and not parsed
  screen,    \* how much output the screen shows, the last that wrote the clipboard, a mess
  replaying, \* SessionTerminal.replaying
  input,     \* SessionTerminal: sentInput, and whether inputNotice is shown
  accepted,  \* history: inputs this connection took from the user
  typed,     \* history: inputs of it that ptyd wrote to the PTY
  lost       \* history: an input went with its connection, and none was sent since

ptydVars    == <<out, size, votes>>
browserVars == <<socket, term, queue, screen, replaying, input>>
history     == <<accepted, typed, lost>>
vars == <<ptydVars, request, frames, handler, wire, up, browserVars, history>>

None == 0
NoHandler == [stage |-> "none", attached |-> FALSE, size |-> None, meta |-> None]

RoomInFlight == Len(request) + Len(frames) + Len(wire) + Len(up) + Len(queue) < MaxFlight

-----------------------------------------------------------------------------
(* ptyd (src/ptyd/session.ts, src/ptyd/ipc-server.ts). *)

Least(a, b) == IF a < b THEN a ELSE b

(* clampCols, clampRows; no viewer asks for less than the least. *)
Clamped(s) == Least(s, MaxSize)
Fitting    == {s \in Size : s <= MaxSize}

(* reconcileSize *)
Reconciled(v) ==
  IF v.mine = None /\ v.others = None THEN size
  ELSE IF v.mine = None THEN v.others
  ELSE IF v.others = None THEN v.mine
  ELSE IF resizePolicy = "min" THEN Least(v.mine, v.others)
  ELSE IF v.last = "mine" THEN v.mine ELSE v.others

Resized(v) == IF Reconciled(v) = size THEN <<>> ELSE <<[t |-> "resized", size |-> Reconciled(v)]>>

(* Events go to every connection. *)
Heard(msgs) == frames' = IF handler.stage = "none" THEN frames ELSE frames \o msgs

Voted(v) == votes' = v /\ size' = Reconciled(v)

Emit ==
  /\ out < MaxOutput /\ RoomInFlight
  /\ out' = out + 1
  /\ frames' = IF votes.attached THEN Append(frames, [t |-> "out", at |-> out + 1]) ELSE frames
  /\ UNCHANGED <<size, votes, request, handler, wire, up, browserVars, history>>

OthersDeclare(s) ==
  /\ RoomInFlight
  /\ LET v == [votes EXCEPT !.others = Clamped(s), !.last = "others"]
     IN Voted(v) /\ Heard(Resized(v))
  /\ UNCHANGED <<out, request, handler, wire, up, browserVars, history>>

OthersLeave ==
  /\ votes.others # None /\ RoomInFlight
  /\ LET v == [votes EXCEPT !.others = None, !.last = "mine"]
     IN Voted(v) /\ Heard(Resized(v))
  /\ UNCHANGED <<out, request, handler, wire, up, browserVars, history>>

(* A viewer that has not measured itself declares no size. *)
Subscribe(s) ==
  LET v == [votes EXCEPT !.attached = TRUE,
                         !.mine = IF s = None THEN None ELSE Clamped(s),
                         !.last = IF s = None THEN @ ELSE "mine"]
      snapshot == IF out = 0 THEN <<>> ELSE <<[t |-> "snapshot", at |-> out, size |-> Reconciled(v)]>>
  IN /\ Voted(v)
     /\ Heard(Resized(v) \o <<[t |-> "subscribed"]>> \o snapshot
                \o <<[t |-> "ready", size |-> Reconciled(v)]>>)
     /\ UNCHANGED typed

Resize(s) ==
  LET v == [votes EXCEPT !.mine = Clamped(s), !.last = "mine"]
  IN Voted(v) /\ Heard(Resized(v)) /\ UNCHANGED typed

(* Session.write: who types is active, and takes the size it has declared. *)
Write(what) ==
  LET v == [votes EXCEPT !.last = IF votes.mine = None THEN @ ELSE "mine"]
  IN Voted(v) /\ Heard(Resized(v)) /\ typed' = Append(typed, what)

PtydServes ==
  /\ request # <<>>
  /\ request' = Tail(request)
  /\ LET req == Head(request)
     IN \/ /\ req.op = "get"
           /\ Heard(<<[t |-> "meta", size |-> size]>>)
           /\ UNCHANGED <<size, votes, typed>>
        \/ req.op = "subscribe" /\ Subscribe(req.size)
        \/ req.op = "resize" /\ Resize(req.size)
        \/ req.op = "input" /\ Write(req.what)
  /\ UNCHANGED <<out, handler, wire, up, browserVars, accepted, lost>>

-----------------------------------------------------------------------------
(* The gateway (src/web/ws.ts). *)

(* The web socket goes, and with it what was on it; ptyd detaches the       *)
(* viewer now, or counts it among the others until they leave.  The user is *)
(* told that input may have been on it.                                     *)
Gone ==
  /\ socket' = [socket EXCEPT !.open = FALSE, !.usable = FALSE]
  /\ handler' = NoHandler
  /\ request' = <<>> /\ frames' = <<>> /\ wire' = <<>> /\ up' = <<>>
  /\ \/ Voted([votes EXCEPT !.attached = FALSE, !.mine = None, !.last = "others"])
     \/ /\ votes.mine # None
        /\ Voted([attached |-> FALSE, mine |-> None, others |-> votes.mine, last |-> "others"])
  /\ input' = [sent |-> FALSE, notice |-> input.notice \/ input.sent]
  /\ lost' = (lost \/ accepted # typed)
  /\ UNCHANGED <<out, term, queue, screen, replaying, accepted, typed>>

(* Fault: output is left out while the web socket is backed up. *)
OutputSkips ==
  /\ frames # <<>> /\ Head(frames).t \in {"out", "snapshot"}
  /\ frames' = Tail(frames)
  /\ wire' = IF Len(wire) > MAX_WS_BACKLOG THEN wire ELSE Append(wire, Head(frames))
  /\ UNCHANGED <<ptydVars, request, handler, up, browserVars, history>>

(* onOutput: sent, or the end of a web socket that does not drain (the last *)
(* one of the model does).                                                  *)
Output ==
  /\ frames # <<>> /\ Head(frames).t \in {"out", "snapshot"}
  /\ \/ /\ Len(wire) > MAX_WS_BACKLOG /\ socket.id < MaxConnections
        /\ Gone
     \/ /\ Len(wire) <= MAX_WS_BACKLOG
        /\ frames' = Tail(frames)
        /\ wire' = Append(wire, Head(frames))
        /\ UNCHANGED <<ptydVars, request, handler, up, browserVars, history>>

(* Fault: input is taken from the next event on. *)
EventAttachesLate ==
  /\ frames # <<>> /\ Head(frames).t \in {"ready", "resized"}
  /\ frames' = Tail(frames)
  /\ wire' = Append(wire, Head(frames))
  /\ handler' = [handler EXCEPT !.attached = @ \/ (votes.attached /\ Head(frames).t = "resized")]
  /\ UNCHANGED <<ptydVars, request, up, browserVars, history>>

(* onEvent *)
Event ==
  /\ frames # <<>> /\ Head(frames).t \in {"ready", "resized"}
  /\ frames' = Tail(frames)
  /\ wire' = Append(wire, Head(frames))
  /\ handler' = [handler EXCEPT !.attached = @ \/ Head(frames).t = "ready"]
  /\ UNCHANGED <<ptydVars, request, up, browserVars, history>>

(* An answer only resolves a promise; frames behind it may be handled       *)
(* before the function goes on.                                             *)
Answer ==
  /\ frames # <<>> /\ Head(frames).t \in {"meta", "subscribed"}
  /\ frames' = Tail(frames)
  /\ handler' = IF Head(frames).t = "meta"
                THEN [handler EXCEPT !.stage = "got", !.meta = Head(frames).size] ELSE handler
  /\ UNCHANGED <<ptydVars, request, wire, up, browserVars, history>>

(* After get(): hello, then subscribe(). *)
Hello ==
  /\ handler.stage = "got"
  /\ handler' = [handler EXCEPT !.stage = "subscribing"]
  /\ wire' = Append(wire, [t |-> "hello", size |-> handler.meta])
  /\ request' = Append(request, [op |-> "subscribe", size |-> handler.size])
  /\ UNCHANGED <<ptydVars, frames, up, browserVars, history>>

(* ws.on('message') *)
FromBrowser ==
  /\ up # <<>>
  /\ up' = Tail(up)
  /\ request' = IF handler.attached THEN Append(request, Head(up)) ELSE request
  /\ UNCHANGED <<ptydVars, frames, handler, wire, browserVars, history>>

-----------------------------------------------------------------------------
(* The browser. *)

(* A socket is opened with the size proposed last, if there is one and the  *)
(* page is in use.                                                          *)
Connect ==
  /\ ~socket.open /\ socket.id < MaxConnections
  /\ socket' = [id |-> socket.id + 1, open |-> TRUE, usable |-> FALSE]
  /\ \E s \in {None, term.proposed} :
       handler' = [stage |-> "getting", attached |-> FALSE, size |-> s, meta |-> None]
  /\ request' = <<[op |-> "get"]>>
  /\ accepted' = <<>> /\ typed' = <<>>
  /\ UNCHANGED <<ptydVars, frames, wire, up, term, queue, screen, replaying, input, lost>>

Disconnect == socket.open /\ socket.id < MaxConnections /\ Gone

(* Fault: the terminal is reset at once. *)
ReceivedResetting(msg) ==
  CASE msg.t = "hello" ->
         screen' = [screen EXCEPT !.at = 0] /\ replaying' = TRUE /\ UNCHANGED queue
    [] msg.t = "ready" -> queue' = Append(queue, [t |-> "ready", of |-> socket.id]) /\ UNCHANGED <<screen, replaying>>
    [] msg.t \in {"out", "snapshot"} -> queue' = Append(queue, msg) /\ UNCHANGED <<screen, replaying>>
    [] OTHER -> UNCHANGED <<queue, screen, replaying>>

(* handleControl and output: what goes through the write queue. *)
Received(msg) ==
  CASE msg.t = "hello" -> queue' = Append(queue, [t |-> "reset"]) /\ UNCHANGED <<screen, replaying>>
    [] msg.t = "ready" -> queue' = Append(queue, [t |-> "ready", of |-> socket.id]) /\ UNCHANGED <<screen, replaying>>
    [] msg.t \in {"out", "snapshot"} -> queue' = Append(queue, msg) /\ UNCHANGED <<screen, replaying>>
    [] OTHER -> UNCHANGED <<queue, screen, replaying>>

(* Fault: only hello and ready set the size. *)
SizedByHello(msg) == IF msg.t \in {"hello", "ready"} THEN [term EXCEPT !.cols = msg.size] ELSE term

(* applyServerSize, at once *)
Sized(msg) == IF msg.t \in {"hello", "ready", "resized"} THEN [term EXCEPT !.cols = msg.size] ELSE term

Receive ==
  /\ wire # <<>>
  /\ wire' = Tail(wire)
  /\ Received(Head(wire))
  /\ term' = Sized(Head(wire))
  /\ UNCHANGED <<ptydVars, request, frames, handler, up, socket, input, history>>

(* Output that is parsed; any of it may ask for the clipboard, which is not *)
(* given to what is replayed (handleClipboardWrite).  It is a mess to have  *)
(* a gap or to act on the same output twice.                                *)
Parsed(item, follows) ==
  [at |-> item.at,
   copied |-> IF replaying THEN screen.copied ELSE item.at,
   mess |-> screen.mess \/ screen.at # follows \/ (~replaying /\ follows < screen.copied)]

(* xterm parses what was written first. *)
Parse ==
  /\ queue # <<>>
  /\ queue' = Tail(queue)
  /\ LET item == Head(queue)
     IN \/ /\ item.t = "reset"
           /\ screen' = [screen EXCEPT !.at = 0]
           /\ replaying' = TRUE
           /\ UNCHANGED socket
        \/ /\ item.t = "snapshot"
           /\ screen' = Parsed(item, 0)
           /\ UNCHANGED <<replaying, socket>>
        \/ /\ item.t = "out"
           /\ screen' = Parsed(item, item.at - 1)
           /\ UNCHANGED <<replaying, socket>>
        \/ /\ item.t = "ready"
           /\ IF socket.open /\ socket.id = item.of
              THEN replaying' = FALSE /\ socket' = [socket EXCEPT !.usable = TRUE]
              ELSE UNCHANGED <<replaying, socket>>
           /\ UNCHANGED screen
  /\ UNCHANGED <<ptydVars, request, frames, handler, wire, up, term, input, history>>

(* The pane or, by refreshGlyphs or applyOptions, the cells change their    *)
(* size.  The latter forget the size proposed last: Connect may have none.  *)
PaneChanges(s) ==
  /\ term' = [term EXCEPT !.room = s]
  /\ UNCHANGED <<ptydVars, request, frames, handler, wire, up, socket, queue, screen, replaying, input, history>>

(* measure, where this viewer drives the size and is in use: proposed, and  *)
(* if it could be sent, taken at once.                                      *)
Unmeasured == [term |-> term, sent |-> <<>>]
Measured ==
  IF socket.usable
  THEN [term |-> [term EXCEPT !.proposed = term.room, !.cols = term.room],
        sent |-> <<[op |-> "resize", size |-> term.room]>>]
  ELSE [term |-> [term EXCEPT !.proposed = term.room], sent |-> <<>>]

MayMeasure == term.room # term.cols /\ (socket.usable => RoomInFlight)

Measure ==
  /\ MayMeasure
  /\ term' = Measured.term /\ up' = up \o Measured.sent
  /\ UNCHANGED <<ptydVars, request, frames, handler, wire, socket, queue, screen, replaying, input, history>>

(* sendInput: claimSize, which measures unless it just has, and sendBytes.  *)
Type ==
  /\ Len(accepted) < MaxInput /\ (IF socket.usable THEN RoomInFlight ELSE socket.id > 0)
  /\ \E m \in {Unmeasured} \cup (IF MayMeasure THEN {Measured} ELSE {}) :
       /\ term' = m.term
       /\ IF socket.usable
          THEN /\ up' = up \o m.sent \o <<[op |-> "input", what |-> Len(accepted) + 1]>>
               /\ accepted' = Append(accepted, Len(accepted) + 1)
               /\ input' = [sent |-> TRUE, notice |-> FALSE]
               /\ lost' = FALSE
          ELSE /\ input' = [input EXCEPT !.notice = TRUE]
               /\ UNCHANGED <<up, accepted, lost>>
  /\ UNCHANGED <<ptydVars, request, frames, handler, wire, socket, queue, screen, replaying, typed>>

(* The button beside the notice. *)
Dismiss ==
  /\ input.notice
  /\ input' = [input EXCEPT !.notice = FALSE] /\ lost' = FALSE
  /\ UNCHANGED <<ptydVars, request, frames, handler, wire, up, socket, term, queue, screen, replaying, accepted, typed>>

-----------------------------------------------------------------------------
Init ==
  /\ out = 0
  /\ size \in Fitting
  /\ votes = [attached |-> FALSE, mine |-> None, others |-> None, last |-> "others"]
  /\ request = <<>> /\ frames = <<>> /\ wire = <<>> /\ up = <<>>
  /\ handler = NoHandler
  /\ socket = [id |-> 0, open |-> FALSE, usable |-> FALSE]
  /\ \E c \in Size : term = [cols |-> c, room |-> c, proposed |-> None]
  /\ queue = <<>>
  /\ screen = [at |-> 0, copied |-> 0, mess |-> FALSE]
  /\ replaying = FALSE
  /\ input = [sent |-> FALSE, notice |-> FALSE]
  /\ accepted = <<>> /\ typed = <<>> /\ lost = FALSE

FromPtyd == Output \/ Event \/ Answer

Next ==
  \/ Emit \/ PtydServes \/ OthersLeave
  \/ FromPtyd \/ Hello \/ FromBrowser
  \/ Connect \/ Disconnect \/ Receive \/ Parse \/ Measure \/ Type \/ Dismiss
  \/ \E s \in Size : OthersDeclare(s) \/ PaneChanges(s)

Spec == Init /\ [][Next]_vars

(* Sockets are opened again, and what is under way arrives and is parsed.   *)
Fairness ==
  /\ WF_vars(PtydServes) /\ WF_vars(FromPtyd) /\ WF_vars(Hello) /\ WF_vars(FromBrowser)
  /\ WF_vars(Connect) /\ WF_vars(Receive) /\ WF_vars(Parse)

FairSpec == Spec /\ Fairness

-----------------------------------------------------------------------------
Maybe(set) == set \cup {None}

TypeOK ==
  /\ out \in 0..MaxOutput /\ size \in Fitting
  /\ votes \in [attached : BOOLEAN, mine : Maybe(Fitting), others : Maybe(Fitting), last : {"mine", "others"}]
  /\ votes.mine # None => votes.attached
  /\ votes.attached => handler.stage = "subscribing"
  /\ handler.attached => votes.attached
  /\ socket.usable => socket.open
  /\ term \in [cols : Size, room : Size, proposed : Maybe(Size)]
  /\ {screen.at, screen.copied} \subseteq 0..MaxOutput /\ {replaying, lost} \subseteq BOOLEAN
  /\ input \in [sent : BOOLEAN, notice : BOOLEAN]
  /\ Range(accepted) \cup Range(typed) \subseteq 1..MaxInput

(* The bytes a terminal parses are a snapshot on a terminal that was reset  *)
(* and the output after it, each once and in order: what an earlier socket  *)
(* left in the write queue does not land on the new screen, and "old output *)
(* cannot overwrite whatever was copied since" (session-terminal.ts).       *)
ScreenExact == ~screen.mess

Inputs(msgs) ==
  LET inputs[k \in 0..Len(msgs)] ==
        IF k = 0 THEN <<>>
        ELSE IF msgs[k].op = "input" THEN Append(inputs[k - 1], msgs[k].what) ELSE inputs[k - 1]
  IN inputs[Len(msgs)]

(* "its first input must not vanish" (handleTerminal): every input a        *)
(* connection took is on its way or was written to the PTY, in order.  What *)
(* was on a connection that is lost is not sent again, and the user is told *)
(* until more is typed or the notice is dismissed.                          *)
InputKept ==
  /\ socket.open => accepted = typed \o Inputs(request) \o Inputs(up)
  /\ lost => input.notice

(* Nothing is under way. *)
Quiet ==
  /\ socket.usable
  /\ request = <<>> /\ frames = <<>> /\ wire = <<>> /\ up = <<>> /\ queue = <<>>

(* "ptyd decides the authoritative size ... and tells us what it picked"    *)
(* (session-terminal.ts): the terminal has the session's size, after sizes  *)
(* that crossed each other on their way, or a larger one than ptyd allows   *)
(* where the session has the largest.                                       *)
SizesAgree == Quiet => Clamped(term.cols) = size

(* A terminal comes back after every lost socket and shows all output.      *)
CatchesUp == <>[](socket.usable /\ screen.at = out)

-----------------------------------------------------------------------------
(* What the code claims and does not keep (README, "Deviations").           *)

(* "Don't change geometry while a snapshot is still being parsed" (measure  *)
(* of session-terminal.ts), "or the restored screen would wrap wrong".      *)
SnapshotFits == queue # <<>> /\ Head(queue).t = "snapshot" => term.cols = Head(queue).size

(* "ptyd decides the authoritative size ... and tells us what it picked":   *)
(* not where it picks the size it has, for one that is too large.           *)
SizesEqual == Quiet => term.cols = size
=============================================================================
