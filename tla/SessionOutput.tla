---------------------------- MODULE SessionOutput ----------------------------
(***************************************************************************)
(* The output path of one ptyd session: what `Session.onOutput` does with  *)
(* every chunk the PTY produces, how the headless xterm catches up with it *)
(* later, when reads from the PTY are paused and resumed, and what a       *)
(* viewer that subscribes in the middle of all this receives               *)
(* (src/ptyd/session.ts, and `Connection` of src/ptyd/ipc-server.ts as far *)
(* as it touches output).                                                  *)
(*                                                                         *)
(* The output of the program is an unbounded text of bytes.  A chunk is    *)
(* the interval [from, to) it occupies in that text; its bytes play no     *)
(* part.  A terminal that has been fed all of [0, p) and nothing else is   *)
(* at position p, one that missed or repeated a byte is Diverged for good. *)
(*                                                                         *)
(* ptyd runs on one thread.  A request that takes several calls keeps the  *)
(* thread until it returns: `turn` names the request being served, and     *)
(* callbacks of the PTY, of the parser and of other sockets wait for       *)
(* "idle".                                                                 *)
(***************************************************************************)
EXTENDS Integers, Sequences

CONSTANTS
  Viewer,       \* the connections that may watch the session
  ChunkLen,     \* the lengths a chunk read from the PTY may have
  HighWater,    \* PARSER_HIGH_WATER
  LowWater,     \* PARSER_LOW_WATER
  MaxRead       \* bound of the model: bytes read from the PTY

ASSUME SessionOutputAssumption ==
  /\ ChunkLen \subseteq Nat \ {0}
  /\ HighWater \in Nat
  /\ LowWater \in Nat
  /\ LowWater < HighWater
  /\ MaxRead \in Nat
  /\ "idle" \notin Viewer

VARIABLES
  read,         \* bytes onOutput has handled
  queue,        \* chunks given to term.write and not parsed yet (xterm's own queue)
  parsed,       \* position of the headless terminal
  pending,      \* Session.pending
  pendingBytes, \* Session.pendingBytes
  outputPaused, \* Session.outputPaused
  flowing,      \* the PTY stream delivers data (pty.pause / pty.resume)
  disposed,     \* Session.disposed
  attached,     \* the keys of Session.attached
  screen,       \* position of the terminal behind each viewer
  turn          \* "idle", or the viewer whose `subscribe` is being served

vars == <<read, queue, parsed, pending, pendingBytes, outputPaused, flowing,
          disposed, attached, screen, turn>>

Chunk    == [from : Nat, to : Nat]
Diverged == -1
Blank    == 0    \* a terminal that was just reset
Absent   == -2   \* of a viewer that is not shown the session

-----------------------------------------------------------------------------
(* The chunks of s continue the text from position p without gap or overlap. *)
Continues(p, s) ==
  \A i \in 1..Len(s) : s[i].from = IF i = 1 THEN p ELSE s[i-1].to

EndOf(p, s) == IF s = <<>> THEN p ELSE s[Len(s)].to

(* Where a terminal at position p is after being fed the chunks of s. *)
Fed(p, s) ==
  IF p # Diverged /\ Continues(p, s) THEN EndOf(p, s) ELSE Diverged

(* Fault: the serializer alone, without what waits for the parser. *)
SnapshotOfParsed == Fed(parsed, <<>>)

(* Session.snapshot: what the serializer makes of the parsed text, followed *)
(* by the chunks the parser has not caught up on.  It rebuilds the screen   *)
(* "on a freshly reset terminal" only: fed to one that has drawn something  *)
(* already, it draws it twice.                                              *)
SnapshotScreen == Fed(parsed, pending)
Redrawn(p) == IF p = Blank THEN SnapshotScreen ELSE Diverged

LengthOf(chunk) == chunk.to - chunk.from

(* Fault: the mark itself is let through. *)
PauseAbove(n) == ~outputPaused /\ n > HighWater

(* onOutput pauses the PTY when n bytes wait for the parser. *)
PauseDue(n) == ~outputPaused /\ n >= HighWater

(* Fault: the low mark has to be undercut. *)
ResumeBelow(n) == outputPaused /\ n < LowWater

(* Fault: the count from before this chunk was parsed is looked at. *)
ResumeLate(n) == outputPaused /\ pendingBytes <= LowWater

(* The write callback resumes it when n bytes are left. *)
ResumeDue(n) == outputPaused /\ n <= LowWater

(* Fault: `subscribe` awaits between attach() and the snapshot. *)
Awaiting == TRUE

(* A callback of the event loop may run. *)
LoopIdle == turn = "idle"

-----------------------------------------------------------------------------
Init ==
  /\ read = 0
  /\ queue = <<>>
  /\ parsed = 0
  /\ pending = <<>>
  /\ pendingBytes = 0
  /\ outputPaused = FALSE
  /\ flowing = TRUE
  /\ disposed = FALSE
  /\ attached = {}
  /\ screen = [v \in Viewer |-> Blank]
  /\ turn = "idle"

(* pty.onData -> Session.onOutput.  The chunk joins the parser's queue, the *)
(* PTY is paused once too much is unparsed, and the chunk goes to every     *)
(* viewer; a viewer whose socket does not drain is closed instead and so    *)
(* leaves `attached` (writeFrame, close, detach).                           *)
Output ==
  /\ LoopIdle /\ flowing /\ ~disposed
  /\ \E n \in ChunkLen, stalled \in SUBSET attached :
       LET chunk == [from |-> read, to |-> read + n]
           now   == pendingBytes + n
       IN /\ read + n <= MaxRead
          /\ read' = read + n
          /\ queue' = Append(queue, chunk)
          /\ pending' = Append(pending, chunk)
          /\ pendingBytes' = now
          /\ IF PauseDue(now)
             THEN outputPaused' = TRUE /\ flowing' = FALSE
             ELSE UNCHANGED <<outputPaused, flowing>>
          /\ attached' = attached \ stalled
          /\ screen' = [v \in Viewer |->
                          IF v \in attached \ stalled
                          THEN Fed(screen[v], <<chunk>>) ELSE screen[v]]
  /\ UNCHANGED <<parsed, disposed, turn>>

(* xterm parses its oldest chunk and runs that write's callback. *)
Parse ==
  /\ LoopIdle /\ ~disposed
  /\ queue # <<>>
  /\ parsed' = Fed(parsed, <<Head(queue)>>)
  /\ queue' = Tail(queue)
  /\ LET shifted == IF pending = <<>> THEN 0 ELSE LengthOf(Head(pending))
         left    == pendingBytes - shifted
     IN /\ pending' = IF pending = <<>> THEN pending ELSE Tail(pending)
        /\ pendingBytes' = left
        /\ IF ResumeDue(left)
           THEN outputPaused' = FALSE /\ flowing' = TRUE
           ELSE UNCHANGED <<outputPaused, flowing>>
  /\ UNCHANGED <<read, disposed, attached, screen, turn>>

-----------------------------------------------------------------------------
(* `subscribe`: session.attach(this).  The browser resets its terminal      *)
(* before it draws what follows.  attach() broadcasts, and a viewer that    *)
(* does not drain is closed inside that broadcast: the request then ends.   *)
Attach(v) ==
  /\ LoopIdle /\ ~disposed
  /\ screen' = [screen EXCEPT ![v] = Blank]
  /\ \/ attached' = attached \cup {v} /\ turn' = v
     \/ attached' = attached \ {v} /\ turn' = "idle"
  /\ UNCHANGED <<read, queue, parsed, pending, pendingBytes, outputPaused,
                 flowing, disposed>>

(* The rest of `subscribe`, in the same turn: ok, then the snapshot.        *)
SendSnapshot(v) ==
  /\ turn = v
  /\ turn' = "idle"
  /\ \/ /\ screen' = [screen EXCEPT ![v] = Redrawn(screen[v])]
        /\ UNCHANGED attached
     \/ /\ attached' = attached \ {v}
        /\ UNCHANGED screen
  /\ UNCHANGED <<read, queue, parsed, pending, pendingBytes, outputPaused,
                 flowing, disposed>>

(* `unsubscribe`, a closed socket, a protocol error: Session.detach. *)
Detach(v) ==
  /\ LoopIdle /\ v \in attached
  /\ attached' = attached \ {v}
  /\ UNCHANGED <<read, queue, parsed, pending, pendingBytes, outputPaused,
                 flowing, disposed, screen, turn>>

(* Session.dispose.  The parser is disposed with its queue, and nothing     *)
(* resumes the PTY: its process is being hung up.                           *)
Dispose ==
  /\ LoopIdle /\ ~disposed
  /\ disposed' = TRUE
  /\ attached' = {}
  /\ pending' = <<>>
  /\ pendingBytes' = 0
  /\ outputPaused' = FALSE
  /\ queue' = <<>>
  /\ UNCHANGED <<read, parsed, flowing, screen, turn>>

Next ==
  \/ Output
  \/ Parse
  \/ \E v \in Viewer : Attach(v) \/ SendSnapshot(v) \/ Detach(v)
  \/ Dispose

Spec == Init /\ [][Next]_vars

(* The event loop keeps running the parser's write callbacks, and a request *)
(* that has begun is finished.                                              *)
Fairness ==
  /\ SF_vars(Parse)
  /\ \A v \in Viewer : WF_vars(SendSnapshot(v))

FairSpec == Spec /\ Fairness

-----------------------------------------------------------------------------
TypeOK ==
  /\ read \in Nat
  /\ queue \in Seq(Chunk)
  /\ parsed \in Nat \cup {Diverged}
  /\ pending \in Seq(Chunk)
  /\ pendingBytes \in Nat
  /\ outputPaused \in BOOLEAN
  /\ flowing \in BOOLEAN
  /\ disposed \in BOOLEAN
  /\ attached \subseteq Viewer
  /\ screen \in [Viewer -> Nat \cup {Diverged}]
  /\ turn \in Viewer \cup {"idle"}

(* A viewer's terminal shows exactly what ptyd has read, once its           *)
(* subscription is complete: nothing is lost or repeated between the        *)
(* snapshot, which may be taken while the parser lags, and the live stream  *)
(* ("Everything below happens in one tick so live output cannot slip in     *)
(* between the snapshot and the start of the live stream", ipc-server.ts).  *)
ScreensExact == \A v \in attached : turn # v => screen[v] = read

(* A snapshot taken at any time rebuilds all of the output so far, however  *)
(* far the headless parser is behind ("Append whatever the parser has not   *)
(* caught up on yet, in arrival order", session.ts).                        *)
SnapshotExact == ~disposed => SnapshotScreen = read

(* The unparsed backlog is bounded: while the PTY flows it is below the     *)
(* high-water mark, and it never exceeds the mark by more than the chunk    *)
(* that crossed it, so the parser's queue cannot grow without limit.        *)
BacklogBounded ==
  /\ flowing => pendingBytes < HighWater
  /\ pending # <<>> =>
       LET newest == pending[Len(pending)]
       IN pendingBytes - LengthOf(newest) < HighWater

(* A paused PTY always has a parser callback to come that can resume it:    *)
(* no pause survives the draining of the backlog, and no live session is    *)
(* left paused with an empty queue.                                         *)
PauseHasWakeup ==
  ~disposed /\ ~flowing =>
    /\ outputPaused
    /\ pendingBytes > LowWater
    /\ queue # <<>>

-----------------------------------------------------------------------------
(* What a viewer sees of the session once his subscription is complete.     *)
Subscribed == {v \in attached : turn # v}
Sees == [v \in Viewer |-> IF v \in Subscribed THEN screen[v] ELSE Absent]

Promise == INSTANCE LiveScreen WITH
  None <- Absent, printed <- read, sees <- Sees, held <- ~flowing, ended <- disposed

(* onOutput, the parser, `subscribe` and dispose implement LiveScreen: a    *)
(* subscription shows everything so far or is none, whatever goes wrong in  *)
(* its middle; every later byte is shown once; and back-pressure is         *)
(* temporary, the program is let go on unless the session is disposed.      *)
KeepsPromise == Promise!FairSpec
=============================================================================
