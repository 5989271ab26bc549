-------------------------- MODULE SessionStreamProofs --------------------------
(***************************************************************************)
(* Proofs about SessionOutput, for any set of viewers, any chunk lengths   *)
(* and any pair of water marks with LowWater < HighWater; about RingBuffer,*)
(* for every capacity and all chunk lengths; and about SessionStream: a    *)
(* session with its ring is a session and a ring (every step is one of     *)
(* each), so what is proved of either holds of it.                         *)
(***************************************************************************)
EXTENDS SessionStream, SequenceTheorems, TLAPS

(* The inductive strengthening.  While the session lives, the daemon's own  *)
(* account of unparsed chunks is xterm's queue, that queue spans exactly    *)
(* the text between the parser's position and what was read, and the byte   *)
(* counter is the width of that span.  From this follow the snapshot's      *)
(* exactness, the hysteresis of the pause, and the viewers' screens.        *)
QueueSpansBacklog ==
  /\ pending = queue
  /\ parsed \in Nat
  /\ Continues(parsed, queue)
  /\ EndOf(parsed, queue) = read
  /\ \A i \in 1..Len(queue) : queue[i].from < queue[i].to /\ queue[i].to <= read
  /\ \A i, j \in 1..Len(queue) : i < j => queue[i].to <= queue[j].from
  /\ parsed <= read

CounterExact == pendingBytes = read - parsed

Hysteresis ==
  /\ outputPaused <=> ~flowing
  /\ flowing => pendingBytes < HighWater
  /\ ~flowing => pendingBytes > LowWater
  /\ queue # <<>> =>
       pendingBytes - (queue[Len(queue)].to - queue[Len(queue)].from) < HighWater

ServedViewer == turn # "idle" => turn \in Viewer /\ ~disposed /\ screen[turn] = Blank

IInv ==
  /\ TypeOK
  /\ ~disposed => QueueSpansBacklog /\ CounterExact /\ Hysteresis
  /\ disposed => pending = <<>> /\ pendingBytes = 0 /\ attached = {}
  /\ ServedViewer
  /\ ScreensExact

-----------------------------------------------------------------------------
(* Appending the chunk that starts where the others end keeps them contiguous. *)
LEMMA AppendContinues ==
  ASSUME NEW s \in Seq(Chunk), NEW p \in Nat, NEW c \in Chunk,
         Continues(p, s), c.from = EndOf(p, s)
  PROVE  /\ Continues(p, Append(s, c))
         /\ EndOf(p, Append(s, c)) = c.to
<1> DEFINE t == Append(s, c)
<1>1. /\ Len(t) = Len(s) + 1
      /\ t[Len(s) + 1] = c
      /\ \A i \in 1..Len(s) : t[i] = s[i]
      /\ t # <<>>
  BY AppendProperties
<1>2. Continues(p, t)
  <2> SUFFICES ASSUME NEW i \in 1..Len(t)
               PROVE  t[i].from = IF i = 1 THEN p ELSE t[i-1].to
    BY DEF Continues
  <2>1. CASE i \in 1..Len(s)
    <3>1. i # 1 => i - 1 \in 1..Len(s)
      BY <2>1
    <3>2. QED BY <1>1, <2>1, <3>1 DEF Continues
  <2>2. CASE i = Len(s) + 1
    <3>1. CASE s = <<>>
      BY <1>1, <2>2, <3>1 DEF EndOf
    <3>2. CASE s # <<>>
      <4>1. Len(s) \in 1..Len(s) /\ i # 1 /\ i - 1 = Len(s)
        BY <2>2, <3>2
      <4>2. QED BY <1>1, <2>2, <3>2, <4>1 DEF EndOf
    <3>3. QED BY <3>1, <3>2
  <2>3. QED BY <1>1, <2>1, <2>2
<1>3. EndOf(p, t) = c.to
  BY <1>1 DEF EndOf
<1>4. QED BY <1>2, <1>3

(* Consuming the oldest chunk moves the position to its end and leaves the  *)
(* rest contiguous from there.                                              *)
LEMMA TailContinues ==
  ASSUME NEW s \in Seq(Chunk), NEW p \in Nat, s # <<>>, Continues(p, s)
  PROVE  /\ Head(s) \in Chunk
         /\ Head(s).from = p
         /\ Continues(Head(s).to, Tail(s))
         /\ EndOf(Head(s).to, Tail(s)) = EndOf(p, s)
<1>1. /\ Head(s) = s[1]
      /\ Head(s) \in Chunk
      /\ Len(Tail(s)) = Len(s) - 1
      /\ \A i \in 1..Len(Tail(s)) : Tail(s)[i] = s[i+1]
      /\ Len(s) \in Nat \ {0}
  OBVIOUS
<1>2. Head(s).from = p
  BY <1>1 DEF Continues
<1>3. Continues(Head(s).to, Tail(s))
  <2> SUFFICES ASSUME NEW i \in 1..Len(Tail(s))
               PROVE  Tail(s)[i].from = IF i = 1 THEN Head(s).to ELSE Tail(s)[i-1].to
    BY DEF Continues
  <2>1. i + 1 \in 1..Len(s) /\ i + 1 # 1 /\ (i + 1) - 1 = i
    BY <1>1
  <2>2. s[i+1].from = s[i].to
    BY <2>1 DEF Continues
  <2>3. i # 1 => i - 1 \in 1..Len(Tail(s)) /\ Tail(s)[i-1] = s[i]
    BY <1>1
  <2>4. QED BY <1>1, <2>2, <2>3
<1>4. EndOf(Head(s).to, Tail(s)) = EndOf(p, s)
  <2>1. CASE Len(s) = 1
    <3>1. Tail(s) = <<>>
      <4>1. Tail(s) \in Seq(Chunk) /\ Len(Tail(s)) = 0
        BY <1>1, <2>1
      <4>2. QED BY <4>1, EmptySeq
    <3>2. QED BY <1>1, <2>1, <3>1 DEF EndOf
  <2>2. CASE Len(s) > 1
    <3>1. Len(Tail(s)) \in 1..Len(Tail(s)) /\ Tail(s) # <<>>
      BY <1>1, <2>2
    <3>2. Tail(s)[Len(Tail(s))] = s[Len(s)]
      BY <1>1, <3>1
    <3>3. QED BY <3>1, <3>2 DEF EndOf
  <2>3. QED BY <1>1, <2>1, <2>2
<1>5. QED BY <1>1, <1>2, <1>3, <1>4
-----------------------------------------------------------------------------
LEMMA FedContinuation ==
  ASSUME NEW p \in Nat, NEW c \in Chunk, c.from = p
  PROVE  Fed(p, <<c>>) = c.to
<1>1. Continues(p, <<c>>) /\ EndOf(p, <<c>>) = c.to
  BY DEF Continues, EndOf
<1>2. QED BY <1>1 DEF Fed, Diverged

LEMMA SnapshotOfBacklog ==
  ASSUME QueueSpansBacklog
  PROVE  SnapshotScreen = read
BY DEF QueueSpansBacklog, SnapshotScreen, Fed, Diverged

-----------------------------------------------------------------------------
(* The strengthening is inductive: one step per action. *)
LEMMA InitIInv == Init => IInv
<1> SUFFICES ASSUME Init PROVE IInv
  OBVIOUS
<1> USE SessionOutputAssumption DEF Init
<1>1. TypeOK
  <2>1. /\ outputPaused \in BOOLEAN
        /\ flowing \in BOOLEAN
        /\ disposed \in BOOLEAN
    BY Zenon
  <2>2. screen \in [Viewer -> Nat \cup {Diverged}]
    BY DEF Blank
  <2>3. QED BY <2>1, <2>2 DEF TypeOK
<1>2. QueueSpansBacklog
  BY DEF QueueSpansBacklog, Continues, EndOf
<1>3. CounterExact
  BY DEF CounterExact
<1>4. Hysteresis
  <2>1. flowing /\ ~outputPaused
    BY Zenon
  <2>2. QED BY <2>1 DEF Hysteresis
<1>5. ServedViewer /\ ScreensExact
  BY DEF ServedViewer, ScreensExact
<1>6. QED BY <1>1, <1>2, <1>3, <1>4, <1>5 DEF IInv

LEMMA OutputIInv == IInv /\ Output => IInv'
<1> SUFFICES ASSUME IInv, Output PROVE IInv'
  OBVIOUS
<1> USE SessionOutputAssumption
<1>1. PICK n \in ChunkLen, stalled \in SUBSET attached :
        /\ read' = read + n
        /\ queue' = Append(queue, [from |-> read, to |-> read + n])
        /\ pending' = Append(pending, [from |-> read, to |-> read + n])
        /\ pendingBytes' = pendingBytes + n
        /\ IF ~outputPaused /\ pendingBytes + n >= HighWater
           THEN outputPaused' = TRUE /\ flowing' = FALSE
           ELSE UNCHANGED <<outputPaused, flowing>>
        /\ attached' = attached \ stalled
        /\ screen' = [v \in Viewer |->
                        IF v \in attached \ stalled
                        THEN Fed(screen[v], <<[from |-> read, to |-> read + n]>>)
                        ELSE screen[v]]
  BY DEF Output, LoopIdle, PauseDue
<1>2. /\ turn = "idle" /\ flowing /\ ~disposed
      /\ UNCHANGED <<parsed, disposed, turn>>
  BY DEF Output, LoopIdle, PauseDue
<1> DEFINE c == [from |-> read, to |-> read + n]
<1>3. /\ TypeOK /\ QueueSpansBacklog /\ CounterExact /\ Hysteresis
      /\ n \in Nat /\ n > 0 /\ c \in Chunk /\ c.from = read /\ c.to = read + n
  BY <1>2 DEF IInv, TypeOK, Chunk
<1>4. Continues(parsed, Append(queue, c)) /\ EndOf(parsed, Append(queue, c)) = c.to
  BY <1>3, AppendContinues DEF TypeOK, QueueSpansBacklog
<1>5. /\ queue' = Append(queue, c)
      /\ Append(queue, c) \in Seq(Chunk)
      /\ Append(pending, c) \in Seq(Chunk)
      /\ Len(Append(queue, c)) = Len(queue) + 1
      /\ Append(queue, c)[Len(queue) + 1] = c
      /\ \A i \in 1..Len(queue) : Append(queue, c)[i] = queue[i]
  BY <1>1, <1>3 DEF TypeOK
<1>6. \A v \in attached \ stalled : screen'[v] = read'
  <2> SUFFICES ASSUME NEW v \in attached \ stalled
               PROVE  screen'[v] = read'
    OBVIOUS
  <2>1. v \in Viewer /\ screen[v] = read
    BY <1>2, <1>3 DEF IInv, ScreensExact, TypeOK
  <2>2. Fed(read, <<c>>) = c.to
    BY <1>3, FedContinuation DEF TypeOK
  <2>3. QED BY <1>1, <1>3, <2>1, <2>2
<1>7. TypeOK'
  <2>1. screen' \in [Viewer -> Nat \cup {Diverged}]
    <3>1. \A v \in attached \ stalled : screen'[v] \in Nat
      <4>1. read' \in Nat
        BY <1>1, <1>3 DEF TypeOK
      <4>2. QED BY <1>6, <4>1
    <3>2. \A v \in Viewer \ (attached \ stalled) : screen'[v] = screen[v]
      BY <1>1
    <3>3. screen' = [v \in Viewer |-> screen'[v]]
      BY <1>1
    <3>4. QED BY <1>3, <3>1, <3>2, <3>3 DEF TypeOK
  <2>2. outputPaused' \in BOOLEAN /\ flowing' \in BOOLEAN
    BY <1>1, <1>3, Zenon DEF TypeOK
  <2>3. /\ read' \in Nat
        /\ queue' \in Seq(Chunk)
        /\ pending' \in Seq(Chunk)
        /\ pendingBytes' \in Nat
    BY <1>1, <1>3, <1>5 DEF TypeOK
  <2>4. attached' \subseteq Viewer
    BY <1>1, <1>3 DEF TypeOK
  <2>5. QED BY <1>2, <1>3, <2>1, <2>2, <2>3, <2>4 DEF TypeOK
<1>8. QueueSpansBacklog'
  <2>1. /\ read \in Nat /\ Len(queue) \in Nat
        /\ \A i \in 1..Len(queue) : queue[i].from \in Nat /\ queue[i].to \in Nat
    <3>1. \A i \in 1..Len(queue) : queue[i] \in Chunk
      BY <1>3, ElementOfSeq DEF TypeOK
    <3>2. read \in Nat /\ Len(queue) \in Nat
      BY <1>3, LenProperties DEF TypeOK
    <3>3. QED BY <3>1, <3>2 DEF Chunk
  <2>2. \A i \in 1..Len(queue') : queue'[i].from < queue'[i].to /\ queue'[i].to <= read'
    <3> SUFFICES ASSUME NEW i \in 1..Len(queue')
                 PROVE  queue'[i].from < queue'[i].to /\ queue'[i].to <= read'
      OBVIOUS
    <3>1. CASE i \in 1..Len(queue)
      <4>1. queue'[i] = queue[i] /\ read' = read + n
        BY <1>1, <1>5, <3>1
      <4>2. queue[i].from < queue[i].to /\ queue[i].to <= read
        BY <1>3, <3>1 DEF QueueSpansBacklog
      <4>3. QED BY <1>3, <2>1, <3>1, <4>1, <4>2
    <3>2. CASE i = Len(queue) + 1
      <4>1. queue'[i].from = read /\ queue'[i].to = read + n /\ read' = read + n
        BY <1>1, <1>3, <1>5, <3>2
      <4>2. QED BY <1>3, <2>1, <4>1
    <3>3. QED BY <1>5, <2>1, <3>1, <3>2
  <2>3. \A i, j \in 1..Len(queue') : i < j => queue'[i].to <= queue'[j].from
    <3> SUFFICES ASSUME NEW i \in 1..Len(queue'), NEW j \in 1..Len(queue'), i < j
                 PROVE  queue'[i].to <= queue'[j].from
      OBVIOUS
    <3>1. i \in 1..Len(queue) /\ queue'[i] = queue[i]
      BY <1>5, <2>1
    <3>2. CASE j \in 1..Len(queue)
      BY <1>3, <1>5, <3>1, <3>2 DEF QueueSpansBacklog
    <3>3. CASE j = Len(queue) + 1
      <4>1. queue'[j].from = read
        BY <1>3, <1>5, <3>3
      <4>2. queue[i].to <= read
        BY <1>3, <3>1 DEF QueueSpansBacklog
      <4>3. QED BY <3>1, <4>1, <4>2
    <3>4. QED BY <1>5, <2>1, <3>2, <3>3
  <2>4. parsed' <= read'
    BY <1>1, <1>2, <1>3, <2>1 DEF QueueSpansBacklog
  <2>5. QED BY <1>1, <1>2, <1>3, <1>4, <2>2, <2>3, <2>4 DEF QueueSpansBacklog
<1>9. CounterExact'
  BY <1>1, <1>2, <1>3 DEF CounterExact, TypeOK, QueueSpansBacklog
<1>10. Hysteresis'
  <2>1. pendingBytes \in Int /\ pendingBytes < HighWater /\ ~outputPaused
    BY <1>2, <1>3 DEF Hysteresis, TypeOK
  <2>2. queue'[Len(queue')].to - queue'[Len(queue')].from = n
    BY <1>3, <1>5 DEF TypeOK
  <2>3. n \in Nat /\ HighWater \in Nat /\ LowWater \in Nat /\ LowWater < HighWater
    BY <1>3
  <2>4. /\ outputPaused' <=> ~flowing'
        /\ flowing' => pendingBytes + n < HighWater
        /\ ~flowing' => pendingBytes + n >= HighWater
    <3>1. CASE pendingBytes + n >= HighWater
      <4>1. outputPaused' /\ ~flowing'
        BY <1>1, <2>1, <3>1, Zenon
      <4>2. QED BY <3>1, <4>1
    <3>2. CASE ~(pendingBytes + n >= HighWater)
      <4>1. ~outputPaused' /\ flowing'
        BY <1>1, <1>2, <2>1, <3>2, Zenon
      <4>2. QED BY <2>1, <2>3, <3>2, <4>1
    <3>3. QED BY <3>1, <3>2
  <2>5. QED BY <1>1, <2>1, <2>2, <2>3, <2>4 DEF Hysteresis
<1>11. ServedViewer' /\ ScreensExact'
  BY <1>1, <1>2, <1>6 DEF ServedViewer, ScreensExact
<1>12. QED BY <1>2, <1>7, <1>8, <1>9, <1>10, <1>11 DEF IInv

LEMMA ParseIInv == IInv /\ Parse => IInv'
<1> SUFFICES ASSUME IInv, Parse PROVE IInv'
  OBVIOUS
<1> USE SessionOutputAssumption
<1> DEFINE h == Head(queue)
           left == pendingBytes - (h.to - h.from)
<1>1. /\ ~disposed /\ turn = "idle" /\ queue # <<>>
      /\ TypeOK /\ QueueSpansBacklog /\ CounterExact /\ Hysteresis
      /\ UNCHANGED <<read, disposed, attached, screen, turn>>
  BY DEF Parse, LoopIdle, IInv
<1>2. pending = queue /\ parsed \in Nat
  BY <1>1 DEF QueueSpansBacklog
<1>3. /\ h \in Chunk /\ h.from = parsed /\ h.from \in Nat /\ h.to \in Nat
      /\ Continues(h.to, Tail(queue))
      /\ EndOf(h.to, Tail(queue)) = read
  BY <1>1, <1>2, TailContinues DEF TypeOK, QueueSpansBacklog, Chunk
<1>4. /\ queue' = Tail(queue)
      /\ pending' = Tail(queue)
      /\ parsed' = h.to
  BY <1>1, <1>2, <1>3, FedContinuation DEF Parse
<1>5. /\ pendingBytes' = left
      /\ IF outputPaused /\ left <= LowWater
         THEN outputPaused' = FALSE /\ flowing' = TRUE
         ELSE UNCHANGED <<outputPaused, flowing>>
  BY <1>1, <1>2 DEF Parse, LengthOf, ResumeDue
<1>6. /\ Tail(queue) \in Seq(Chunk)
      /\ Len(Tail(queue)) = Len(queue) - 1
      /\ \A i \in 1..Len(Tail(queue)) : Tail(queue)[i] = queue[i+1]
      /\ h = queue[1] /\ Len(queue) \in Nat \ {0}
  BY <1>1 DEF TypeOK
<1>7. h.from < h.to
  BY <1>1, <1>6 DEF QueueSpansBacklog
<1>8. TypeOK'
  <2>1. outputPaused' \in BOOLEAN /\ flowing' \in BOOLEAN
    BY <1>1, <1>5, Zenon DEF TypeOK
  <2>2. /\ queue' \in Seq(Chunk)
        /\ pending' \in Seq(Chunk)
        /\ parsed' \in Nat
    BY <1>1, <1>3, <1>4, <1>5, <1>6 DEF TypeOK
  <2>3. pendingBytes' \in Nat
    BY <1>1, <1>3, <1>5, <1>6, <1>7 DEF QueueSpansBacklog, CounterExact, TypeOK
  <2>4. QED BY <1>1, <2>1, <2>2, <2>3 DEF TypeOK
<1>9. QueueSpansBacklog'
  <2>1. \A i \in 1..Len(queue') : queue'[i].from < queue'[i].to /\ queue'[i].to <= read'
    BY <1>1, <1>4, <1>6 DEF QueueSpansBacklog
  <2>2. \A i, j \in 1..Len(queue') : i < j => queue'[i].to <= queue'[j].from
    BY <1>1, <1>4, <1>6 DEF QueueSpansBacklog
  <2>3. parsed' <= read'
    BY <1>1, <1>4, <1>6 DEF QueueSpansBacklog
  <2>4. QED BY <1>1, <1>3, <1>4, <2>1, <2>2, <2>3 DEF QueueSpansBacklog
<1>10. CounterExact'
  BY <1>1, <1>2, <1>3, <1>4, <1>5 DEF CounterExact, TypeOK
<1>11. Hysteresis'
  <2>1. left < pendingBytes /\ left \in Int /\ pendingBytes \in Int
    BY <1>1, <1>3, <1>7 DEF TypeOK
  <2>2. queue' # <<>> => queue'[Len(queue')] = queue[Len(queue)]
    BY <1>4, <1>6
  <2>3. queue' # <<>> =>
          pendingBytes' - (queue'[Len(queue')].to - queue'[Len(queue')].from) < HighWater
    <3>1. queue[Len(queue)] \in Chunk
      BY <1>1, <1>6 DEF TypeOK
    <3>2. QED BY <1>1, <1>5, <2>1, <2>2, <3>1 DEF Hysteresis, Chunk
  <2>4. /\ outputPaused' <=> ~flowing'
        /\ flowing' => left < HighWater
        /\ ~flowing' => left > LowWater
    <3>1. CASE outputPaused /\ left <= LowWater
      <4>1. ~outputPaused' /\ flowing'
        BY <1>5, <3>1, Zenon
      <4>2. QED BY <2>1, <3>1, <4>1
    <3>2. CASE ~(outputPaused /\ left <= LowWater)
      <4>1. (outputPaused' <=> outputPaused) /\ (flowing' <=> flowing)
        BY <1>5, <3>2, Zenon
      <4>2. QED BY <1>1, <2>1, <3>2, <4>1 DEF Hysteresis
    <3>3. QED BY <3>1, <3>2
  <2>5. QED BY <1>5, <2>3, <2>4 DEF Hysteresis
<1>12. ServedViewer' /\ ScreensExact'
  BY <1>1 DEF IInv, ServedViewer, ScreensExact
<1>13. QED BY <1>1, <1>8, <1>9, <1>10, <1>11, <1>12 DEF IInv

LEMMA AttachIInv == ASSUME NEW v \in Viewer, IInv, Attach(v) PROVE IInv'
<1> USE SessionOutputAssumption
<1>1. /\ turn = "idle" /\ ~disposed /\ TypeOK
      /\ screen' = [screen EXCEPT ![v] = Blank]
      /\ \/ attached' = attached \cup {v} /\ turn' = v
         \/ attached' = attached \ {v} /\ turn' = "idle"
      /\ UNCHANGED <<read, queue, parsed, pending, pendingBytes, outputPaused,
                     flowing, disposed>>
  BY DEF Attach, LoopIdle, IInv
<1>2. v # "idle" /\ screen'[v] = Blank
      /\ \A w \in Viewer : w # v => screen'[w] = screen[w]
  BY <1>1 DEF TypeOK
<1>3. TypeOK'
  <2>1. screen' \in [Viewer -> Nat \cup {Diverged}]
    BY <1>1 DEF TypeOK, Blank
  <2>2. attached' \subseteq Viewer /\ turn' \in Viewer \cup {"idle"}
    BY <1>1 DEF TypeOK
  <2>3. QED BY <1>1, <2>1, <2>2 DEF TypeOK
<1>4. ~disposed' /\ QueueSpansBacklog' /\ CounterExact' /\ Hysteresis'
  BY <1>1 DEF IInv, QueueSpansBacklog, CounterExact, Hysteresis
<1>5. ServedViewer'
  BY <1>1, <1>2 DEF ServedViewer
<1>6. ScreensExact'
  <2> SUFFICES ASSUME NEW w \in attached', turn' # w
               PROVE  screen'[w] = read'
    BY DEF ScreensExact
  <2>1. w # v
    BY <1>1
  <2>2. w \in attached /\ w \in Viewer
    BY <1>1, <2>1 DEF TypeOK
  <2>3. turn # w
    BY <1>1, <2>2
  <2>4. QED BY <1>1, <1>2, <2>1, <2>2, <2>3 DEF IInv, ScreensExact
<1>7. QED BY <1>3, <1>4, <1>5, <1>6 DEF IInv

LEMMA SendSnapshotIInv == ASSUME NEW v \in Viewer, IInv, SendSnapshot(v) PROVE IInv'
<1> USE SessionOutputAssumption
<1>1. /\ turn = v /\ turn' = "idle" /\ v # "idle" /\ TypeOK
      /\ UNCHANGED <<read, queue, parsed, pending, pendingBytes, outputPaused,
                     flowing, disposed>>
      /\ \/ /\ screen' = [screen EXCEPT ![v] = Redrawn(screen[v])]
            /\ UNCHANGED attached
         \/ /\ attached' = attached \ {v}
            /\ UNCHANGED screen
  BY DEF SendSnapshot, IInv
<1>2. ~disposed /\ screen[v] = Blank
  BY <1>1 DEF IInv, ServedViewer
<1>3. QueueSpansBacklog /\ CounterExact /\ Hysteresis
  BY <1>2 DEF IInv
<1>4. Redrawn(screen[v]) = read
  BY <1>2, <1>3, SnapshotOfBacklog DEF Redrawn
<1>5. TypeOK'
  <2>1. read \in Nat
    BY <1>1 DEF TypeOK
  <2>2. screen' \in [Viewer -> Nat \cup {Diverged}]
    BY <1>1, <1>4, <2>1 DEF TypeOK
  <2>3. attached' \subseteq Viewer
    BY <1>1 DEF TypeOK
  <2>4. QED BY <1>1, <2>2, <2>3 DEF TypeOK
<1>6. ~disposed' /\ QueueSpansBacklog' /\ CounterExact' /\ Hysteresis' /\ ServedViewer'
  BY <1>1, <1>2, <1>3
     DEF QueueSpansBacklog, CounterExact, Hysteresis, ServedViewer
<1>7. ScreensExact'
  <2> SUFFICES ASSUME NEW w \in attached', turn' # w
               PROVE  screen'[w] = read'
    BY DEF ScreensExact
  <2>1. w \in attached /\ w \in Viewer
    BY <1>1 DEF TypeOK
  <2>2. CASE w = v
    BY <1>1, <1>4, <2>1, <2>2 DEF TypeOK
  <2>3. CASE w # v
    <3>1. screen[w] = read
      BY <1>1, <2>1, <2>3 DEF IInv, ScreensExact
    <3>2. QED BY <1>1, <2>1, <2>3, <3>1 DEF TypeOK
  <2>4. QED BY <2>2, <2>3
<1>8. QED BY <1>5, <1>6, <1>7 DEF IInv

LEMMA DetachIInv == ASSUME NEW v \in Viewer, IInv, Detach(v) PROVE IInv'
BY DEF Detach, IInv, TypeOK, QueueSpansBacklog, CounterExact, Hysteresis,
       ServedViewer, ScreensExact

LEMMA DisposeIInv == IInv /\ Dispose => IInv'
<1> SUFFICES ASSUME IInv, Dispose PROVE IInv'
  OBVIOUS
<1>1. /\ disposed' = TRUE /\ outputPaused' = FALSE
      /\ attached' = {} /\ pending' = <<>> /\ pendingBytes' = 0 /\ queue' = <<>>
      /\ turn = "idle" /\ TypeOK
      /\ UNCHANGED <<read, parsed, flowing, screen, turn>>
  BY DEF Dispose, LoopIdle, IInv
<1>2. disposed' /\ disposed' \in BOOLEAN /\ outputPaused' \in BOOLEAN
  BY <1>1, Zenon
<1>3. TypeOK'
  BY <1>1, <1>2 DEF TypeOK
<1>4. ServedViewer' /\ ScreensExact'
  BY <1>1 DEF ServedViewer, ScreensExact
<1>5. QED BY <1>1, <1>2, <1>3, <1>4 DEF IInv

LEMMA StutterIInv == IInv /\ UNCHANGED vars => IInv'
BY DEF vars, IInv, TypeOK, QueueSpansBacklog, CounterExact, Hysteresis,
       ServedViewer, ScreensExact

LEMMA StepIInv == IInv /\ [Next]_vars => IInv'
<1> SUFFICES ASSUME IInv, [Next]_vars PROVE IInv'
  OBVIOUS
<1>1. CASE Output BY <1>1, OutputIInv
<1>2. CASE Parse BY <1>2, ParseIInv
<1>3. ASSUME NEW v \in Viewer, Attach(v) PROVE IInv'
  BY <1>3, AttachIInv
<1>4. ASSUME NEW v \in Viewer, SendSnapshot(v) PROVE IInv'
  BY <1>4, SendSnapshotIInv
<1>5. ASSUME NEW v \in Viewer, Detach(v) PROVE IInv'
  BY <1>5, DetachIInv
<1>6. CASE Dispose BY <1>6, DisposeIInv
<1>7. CASE UNCHANGED vars BY <1>7, StutterIInv
<1>8. QED BY <1>1, <1>2, <1>3, <1>4, <1>5, <1>6, <1>7 DEF Next

(* The strengthening holds in every reachable state. *)
THEOREM Invariance == Spec => []IInv
BY StepIInv, InitIInv, PTL DEF Spec

-----------------------------------------------------------------------------
(* Every variable keeps its type: in particular the counter is an integer   *)
(* and no screen is anything but a position or Diverged.                    *)
THEOREM TypeCorrect == Spec => []TypeOK
<1>1. IInv => TypeOK
  BY DEF IInv
<1>2. QED BY <1>1, Invariance, PTL

(* A subscribed viewer's terminal shows exactly the output ptyd has read.   *)
THEOREM ScreensAlwaysExact == Spec => []ScreensExact
<1>1. IInv => ScreensExact
  BY DEF IInv
<1>2. QED BY <1>1, Invariance, PTL

(* A snapshot of a live session rebuilds all of its output at any time.     *)
THEOREM SnapshotAlwaysExact == Spec => []SnapshotExact
<1>1. IInv => SnapshotExact
  BY SnapshotOfBacklog DEF IInv, SnapshotExact
<1>2. QED BY <1>1, Invariance, PTL

(* The parser's backlog stays below the high-water mark while the PTY       *)
(* flows, and exceeds it by less than the last chunk.                       *)
THEOREM BacklogAlwaysBounded == Spec => []BacklogBounded
<1>1. IInv => BacklogBounded
  <2> SUFFICES ASSUME IInv PROVE BacklogBounded
    OBVIOUS
  <2>1. CASE disposed
    BY <2>1, SessionOutputAssumption DEF IInv, BacklogBounded
  <2>2. CASE ~disposed
    BY <2>2 DEF IInv, BacklogBounded, LengthOf, Hysteresis, QueueSpansBacklog
  <2>3. QED BY <2>1, <2>2
<1>2. QED BY <1>1, Invariance, PTL

(* No live session is left paused without a parser callback to resume it.   *)
THEOREM PauseAlwaysHasWakeup == Spec => []PauseHasWakeup
<1>1. IInv => PauseHasWakeup
  <2> SUFFICES ASSUME IInv, ~disposed, ~flowing
               PROVE  outputPaused /\ pendingBytes > LowWater /\ queue # <<>>
    BY DEF PauseHasWakeup
  <2>1. outputPaused /\ pendingBytes > LowWater
    BY DEF IInv, Hysteresis
  <2>2. ASSUME queue = <<>> PROVE FALSE
    <3>1. parsed = read
      BY <2>2 DEF IInv, QueueSpansBacklog, EndOf
    <3>2. pendingBytes = 0
      BY <3>1 DEF IInv, CounterExact, TypeOK
    <3>3. QED BY <2>1, <3>2, SessionOutputAssumption
  <2>3. QED BY <2>1, <2>2
<1>2. QED BY <1>1, Invariance, PTL

-----------------------------------------------------------------------------
(* What LiveScreen calls watching is a complete subscription. *)
LEMMA WatchingIsSubscribed ==
  ASSUME IInv
  PROVE  /\ Promise!Watching = Subscribed
         /\ \A v \in Subscribed : Sees[v] = read
         /\ read \in Nat
<1>1. \A v \in Subscribed : v \in Viewer /\ screen[v] = read
  BY DEF IInv, TypeOK, ScreensExact, Subscribed
<1>2. read \in Nat /\ read # Absent
  BY DEF IInv, TypeOK, Absent
<1>3. QED BY <1>1, <1>2 DEF Promise!Watching, Sees, Subscribed

LEMMA OutputPrints == IInv /\ Output => Promise!Prints
<1> SUFFICES ASSUME IInv, Output PROVE Promise!Prints
  OBVIOUS
<1>1. PICK n \in ChunkLen, stalled \in SUBSET attached :
        /\ read' = read + n
        /\ attached' = attached \ stalled
        /\ screen' = [v \in Viewer |->
                        IF v \in attached \ stalled
                        THEN Fed(screen[v], <<[from |-> read, to |-> read + n]>>)
                        ELSE screen[v]]
  BY DEF Output
<1>2. turn = "idle" /\ flowing /\ ~disposed /\ UNCHANGED <<disposed, turn>>
  BY DEF Output, LoopIdle
<1>3. n \in Nat /\ n > 0 /\ read \in Nat /\ attached \subseteq Viewer
  BY SessionOutputAssumption DEF IInv, TypeOK
<1>4. read' \in Nat /\ read' > read
  BY <1>1, <1>3
<1>5. Subscribed = attached /\ Subscribed' = attached \ stalled
  BY <1>1, <1>2, <1>3, SessionOutputAssumption DEF Subscribed
<1>6. \A v \in attached \ stalled : screen'[v] = read'
  <2> SUFFICES ASSUME NEW v \in attached \ stalled PROVE screen'[v] = read'
    OBVIOUS
  <2> DEFINE c == [from |-> read, to |-> read + n]
  <2>1. screen[v] = read
    BY <1>2, <1>3, SessionOutputAssumption DEF IInv, ScreensExact
  <2>2. c \in Chunk /\ c.from = read /\ c.to = read + n
    BY <1>3 DEF Chunk
  <2>3. Fed(read, <<c>>) = read + n
    BY <1>3, <2>2, FedContinuation
  <2>4. QED BY <1>1, <1>3, <2>1, <2>3
<1>7. Sees' = [v \in Viewer |->
                IF v \in Promise!Watching \ stalled THEN read' ELSE Absent]
  BY <1>5, <1>6, WatchingIsSubscribed DEF Sees
<1>8. stalled \in SUBSET Promise!Watching
  BY <1>5, WatchingIsSubscribed
<1>9. (~flowing)' \in BOOLEAN
  OBVIOUS
<1>10. QED BY <1>2, <1>4, <1>7, <1>8, <1>9 DEF Promise!Prints

LEMMA ParseReleases ==
  IInv /\ Parse => Promise!Release \/ UNCHANGED <<read, Sees, ~flowing, disposed>>
<1> SUFFICES ASSUME IInv, Parse
             PROVE  Promise!Release \/ UNCHANGED <<read, Sees, ~flowing, disposed>>
  OBVIOUS
<1>1. ~disposed /\ UNCHANGED <<read, disposed, attached, screen, turn>>
  BY DEF Parse
<1>2. Sees' = Sees
  BY <1>1 DEF Sees, Subscribed
<1>3. (flowing' = TRUE) \/ flowing' = flowing
  BY DEF Parse
<1>4. flowing \in BOOLEAN
  BY DEF IInv, TypeOK
<1>5. CASE flowing' = flowing
  BY <1>1, <1>2, <1>5
<1>6. CASE flowing' = TRUE /\ ~flowing
  BY <1>1, <1>2, <1>6 DEF Promise!Release
<1>7. QED BY <1>3, <1>4, <1>5, <1>6

(* A step that only takes v's subscription away. *)
LEMMA GoneIsLeave ==
  ASSUME NEW v \in Viewer, UNCHANGED <<read, flowing, disposed>>,
         Subscribed' = Subscribed \ {v},
         \A w \in Viewer \ {v} : screen'[w] = screen[w]
  PROVE  Promise!Leave(v)
<1>1. Sees' = [Sees EXCEPT ![v] = Absent]
  BY DEF Sees
<1>2. QED BY <1>1 DEF Promise!Leave

LEMMA AttachLeaves ==
  ASSUME NEW v \in Viewer, IInv, Attach(v)
  PROVE  Promise!Leave(v)
<1>1. /\ turn = "idle" /\ UNCHANGED <<read, flowing, disposed>>
      /\ screen' = [screen EXCEPT ![v] = Blank]
      /\ \/ attached' = attached \cup {v} /\ turn' = v
         \/ attached' = attached \ {v} /\ turn' = "idle"
  BY DEF Attach, LoopIdle
<1>2. Subscribed' = Subscribed \ {v}
  BY <1>1, SessionOutputAssumption DEF Subscribed, IInv, TypeOK
<1>3. \A w \in Viewer \ {v} : screen'[w] = screen[w]
  BY <1>1 DEF IInv, TypeOK
<1>4. QED BY <1>1, <1>2, <1>3, GoneIsLeave

LEMMA SnapshotJoins ==
  ASSUME NEW v \in Viewer, IInv, SendSnapshot(v)
  PROVE  Promise!Join(v) \/ Promise!Leave(v)
<1>1. /\ turn = v /\ turn' = "idle" /\ ~disposed
      /\ UNCHANGED <<read, flowing, disposed>>
      /\ screen[v] = Blank
  BY SessionOutputAssumption DEF SendSnapshot, IInv, ServedViewer
<1>2. CASE screen' = [screen EXCEPT ![v] = Redrawn(screen[v])] /\ UNCHANGED attached
  <2>1. Redrawn(screen[v]) = read
    BY <1>1, SnapshotOfBacklog DEF Redrawn, IInv
  <2>2. screen' = [screen EXCEPT ![v] = read]
    BY <1>2, <2>1
  <2>3. CASE v \in attached
    <3>1. Subscribed' = Subscribed \cup {v}
      BY <1>1, <1>2, <2>3, SessionOutputAssumption DEF Subscribed, IInv, TypeOK
    <3>2. Sees' = [Sees EXCEPT ![v] = read]
      BY <2>2, <3>1 DEF Sees, IInv, TypeOK
    <3>3. QED BY <1>1, <3>2 DEF Promise!Join
  <2>4. CASE v \notin attached
    <3>1. Subscribed' = Subscribed \ {v}
      BY <1>1, <1>2, <2>4, SessionOutputAssumption DEF Subscribed, IInv, TypeOK
    <3>2. \A w \in Viewer \ {v} : screen'[w] = screen[w]
      BY <2>2 DEF IInv, TypeOK
    <3>3. QED BY <1>1, <3>1, <3>2, GoneIsLeave
  <2>5. QED BY <2>3, <2>4
<1>3. CASE attached' = attached \ {v} /\ UNCHANGED screen
  <2>1. Subscribed' = Subscribed \ {v}
    BY <1>1, <1>3, SessionOutputAssumption DEF Subscribed, IInv, TypeOK
  <2>2. QED BY <1>1, <1>3, <2>1, GoneIsLeave
<1>4. QED BY <1>2, <1>3 DEF SendSnapshot

LEMMA DetachLeaves ==
  ASSUME NEW v \in Viewer, IInv, Detach(v)
  PROVE  Promise!Leave(v)
<1>1. attached' = attached \ {v} /\ UNCHANGED <<read, flowing, disposed, screen, turn>>
  BY DEF Detach
<1>2. Subscribed' = Subscribed \ {v}
  BY <1>1 DEF Subscribed
<1>3. QED BY <1>1, <1>2, GoneIsLeave

LEMMA DisposeEnds == Dispose => Promise!End
<1> SUFFICES ASSUME Dispose PROVE Promise!End
  OBVIOUS
<1>1. ~disposed /\ disposed' = TRUE /\ attached' = {} /\ UNCHANGED <<read, flowing>>
  BY DEF Dispose
<1>2. Sees' = [v \in Viewer |-> Absent]
  BY <1>1 DEF Sees, Subscribed
<1>3. QED BY <1>1, <1>2 DEF Promise!End

(* A session implements what LiveScreen promises its viewers, for any of    *)
(* them, any chunks and any marks; that a held program goes on is left to   *)
(* the run.                                                                 *)
THEOREM ImplementsLiveScreen == Spec => Promise!Spec
<1>1. Init => Promise!Init
  BY Zenon DEF Init, Promise!Init, Sees, Subscribed
<1>2. IInv /\ [Next]_vars => [Promise!Next]_(Promise!vars)
  <2> SUFFICES ASSUME IInv, [Next]_vars
               PROVE  Promise!Next \/ UNCHANGED Promise!vars
    OBVIOUS
  <2>1. CASE Output
    BY <2>1, OutputPrints DEF Promise!Next
  <2>2. CASE Parse
    BY <2>2, ParseReleases DEF Promise!Next, Promise!vars
  <2>3. ASSUME NEW v \in Viewer, Attach(v) PROVE Promise!Next
    BY <2>3, AttachLeaves DEF Promise!Next
  <2>4. ASSUME NEW v \in Viewer, SendSnapshot(v) PROVE Promise!Next
    BY <2>4, SnapshotJoins DEF Promise!Next
  <2>5. ASSUME NEW v \in Viewer, Detach(v) PROVE Promise!Next
    BY <2>5, DetachLeaves DEF Promise!Next
  <2>6. CASE Dispose
    BY <2>6, DisposeEnds DEF Promise!Next
  <2>7. CASE UNCHANGED vars
    BY <2>7 DEF vars, Promise!vars, Sees, Subscribed
  <2>8. QED BY <2>1, <2>2, <2>3, <2>4, <2>5, <2>6, <2>7 DEF Next
<1>3. QED BY <1>1, <1>2, Invariance, PTL DEF Spec, Promise!Spec

-----------------------------------------------------------------------------
(* The ring. *)

(* Where the k-th byte of the contents lies. *)
Wrap(x) == IF x < capacity THEN x ELSE x - capacity

(* The contents are the last `length` bytes written, in order from `start`. *)
Contents == \A k \in 0..(length - 1) : buf[Wrap(start + k)] = written - length + k

RingIInv ==
  /\ RingTypeOK
  /\ length = Lesser(capacity, written - cleared)
  /\ Contents

-----------------------------------------------------------------------------
(* An index that runs past the end by less than a turn is brought back by   *)
(* one subtraction.                                                         *)
LEMMA ModIsWrap ==
  ASSUME NEW c \in Nat \ {0}, NEW x \in Nat, x < 2 * c
  PROVE  x % c = IF x < c THEN x ELSE x - c
<1>1. CASE x < c
  BY <1>1
<1>2. CASE x >= c
  <2> DEFINE y == x - c
  <2>1. y \in Nat /\ y < c /\ x = c * 1 + y
    BY <1>2
  <2>2. y % c = y
    BY <2>1
  <2>3. x % c = y
    BY <2>1
  <2>4. QED BY <1>2, <2>3
<1>3. QED BY <1>1, <1>2

-----------------------------------------------------------------------------
LEMMA RingInitIInv == RingInit => RingIInv
BY RingBufferAssumption DEF RingInit, RingIInv, RingTypeOK, Contents, Lesser

LEMMA WholeIInv == ASSUME NEW n \in Nat, RingIInv, WriteWhole(n) PROVE RingIInv'
<1> USE RingBufferAssumption
<1>1. /\ n > 0 /\ n >= capacity
      /\ buf' = [p \in Index |-> written + (n - capacity) + p]
      /\ start' = 0 /\ length' = capacity /\ written' = written + n /\ cleared' = cleared
      /\ written \in Nat /\ cleared \in Nat /\ cleared <= written
  BY DEF WriteWhole, RingIInv, RingTypeOK
<1>2. RingTypeOK'
  BY <1>1 DEF RingTypeOK, Index
<1>3. length' = Lesser(capacity, written' - cleared')
  BY <1>1 DEF Lesser
<1>4. Contents'
  BY <1>1 DEF Contents, Wrap, Index
<1>5. QED BY <1>2, <1>3, <1>4 DEF RingIInv

(* A short write: first where its bytes land and which bytes stay, then the *)
(* two ways the bounds move.                                                *)
LEMMA PartIInv == ASSUME NEW n \in Nat, RingIInv, WritePart(n) PROVE RingIInv'
<1> USE RingBufferAssumption
<1> DEFINE end       == (start + length) % capacity
           firstPart == Lesser(n, capacity - end)
           overflow  == length + n - capacity
<1>1. /\ n > 0 /\ n < capacity
      /\ buf' = [p \in Index |->
                   IF end <= p /\ p < end + firstPart THEN written + (p - end)
                   ELSE IF p < n - firstPart THEN written + firstPart + p
                   ELSE buf[p]]
      /\ IF overflow > 0
         THEN start' = (start + overflow) % capacity /\ length' = capacity
         ELSE start' = start /\ length' = length + n
      /\ written' = written + n /\ cleared' = cleared
  BY DEF WritePart, Wrapped, Overflow
<1>2. /\ start \in Nat /\ start < capacity /\ length \in Nat /\ length <= capacity
      /\ written \in Nat /\ cleared \in Nat /\ cleared <= written
      /\ buf \in [Index -> Nat \cup {NoByte}]
      /\ length = Lesser(capacity, written - cleared)
  BY <1>1 DEF RingIInv, RingTypeOK
<1>3. end = Wrap(start + length) /\ end \in Nat /\ end < capacity
  <2>1. end = Wrap(start + length)
    <3>1. start + length \in Nat /\ start + length < 2 * capacity /\ capacity \in Nat \ {0}
      BY <1>1, <1>2
    <3>2. QED BY <3>1, ModIsWrap DEF Wrap
  <2>2. QED BY <1>2, <2>1 DEF Wrap
<1>4. firstPart \in Nat /\ firstPart <= n /\ (firstPart = n \/ firstPart = capacity - end)
  BY <1>1, <1>3 DEF Lesser
<1> HIDE DEF end, firstPart
<1>5. \A j \in 0..(n-1) : buf'[Wrap(end + j)] = written + j
  <2> SUFFICES ASSUME NEW j \in 0..(n-1)
               PROVE  buf'[Wrap(end + j)] = written + j
    OBVIOUS
  <2>1. CASE end + j < capacity
    <3>1. Wrap(end + j) = end + j /\ end + j \in Index
      BY <1>3, <2>1 DEF Wrap, Index
    <3>2. j < firstPart
      BY <1>1, <1>3, <1>4, <2>1
    <3>3. QED BY <1>1, <1>2, <1>3, <1>4, <3>1, <3>2
  <2>2. CASE end + j >= capacity
    <3> DEFINE p == end + j - capacity
    <3>1. Wrap(end + j) = p /\ p \in Index /\ p < end
      BY <1>1, <1>3, <2>2 DEF Wrap, Index
    <3>2. firstPart = capacity - end
      BY <1>1, <1>3, <1>4, <2>2 DEF firstPart, Lesser
    <3>3. p < n - firstPart /\ written + firstPart + p = written + j
      BY <1>1, <1>2, <1>3, <2>2, <3>2
    <3>4. QED BY <1>1, <1>3, <3>1, <3>3
  <2>3. QED BY <1>1, <1>3, <2>1, <2>2
<1>6. \A k \in 0..(length-1) :
        k + capacity >= length + n => buf'[Wrap(start + k)] = written - length + k
  <2> SUFFICES ASSUME NEW k \in 0..(length-1), k + capacity >= length + n
               PROVE  buf'[Wrap(start + k)] = written - length + k
    OBVIOUS
  <2> DEFINE p == Wrap(start + k)
  <2>1. p \in Index /\ p \in Nat /\ buf[p] = written - length + k
    BY <1>2 DEF Wrap, Index, RingIInv, Contents
  <2>2. ~(end <= p /\ p < end + firstPart)
    BY <1>1, <1>2, <1>3, <1>4 DEF Wrap
  <2>3. ~(p < n - firstPart)
    BY <1>1, <1>2, <1>3, <1>4 DEF Wrap, firstPart, Lesser
  <2>4. QED BY <1>1, <2>1, <2>2, <2>3
<1>7. overflow \in Int /\ overflow < capacity
  BY <1>1, <1>2
<1>8. buf' \in [Index -> Nat \cup {NoByte}]
  <2>1. ASSUME NEW p \in Index
        PROVE  buf'[p] \in Nat \cup {NoByte}
    <3>1. /\ p \in Nat
          /\ buf[p] \in Nat \cup {NoByte}
          /\ end <= p => written + (p - end) \in Nat
          /\ written + firstPart + p \in Nat
      BY <1>2, <1>3, <1>4 DEF Index
    <3>2. buf'[p] = IF end <= p /\ p < end + firstPart THEN written + (p - end)
                    ELSE IF p < n - firstPart THEN written + firstPart + p
                    ELSE buf[p]
      BY <1>1
    <3>3. QED BY <3>1, <3>2
  <2>2. buf' = [p \in Index |-> buf'[p]]
    BY <1>1
  <2>3. QED BY <2>1, <2>2
<1>9. CASE overflow > 0
  <2>1. /\ start' = Wrap(start + overflow) /\ length' = capacity
        /\ start' \in Nat /\ start' < capacity
    <3>1. start + overflow \in Nat /\ start + overflow < 2 * capacity
      BY <1>2, <1>7, <1>9
    <3>2. start' = (start + overflow) % capacity /\ length' = capacity
      BY <1>1, <1>9
    <3>3. start' = Wrap(start + overflow)
      BY <1>1, <3>1, <3>2, ModIsWrap DEF Wrap
    <3>4. QED BY <3>1, <3>2, <3>3 DEF Wrap
  <2>2. RingTypeOK'
    BY <1>1, <1>2, <1>8, <2>1 DEF RingTypeOK
  <2>3. length' = Lesser(capacity, written' - cleared')
    BY <1>1, <1>2, <1>9, <2>1 DEF Lesser
  <2>4. Contents'
    <3> SUFFICES ASSUME NEW k \in 0..(capacity-1)
                 PROVE  buf'[Wrap(start' + k)] = written + n - capacity + k
      <4>1. written' - length' = written + n - capacity /\ 0..(length'-1) = 0..(capacity-1)
        BY <1>1, <1>2, <2>1
      <4>2. \A k \in 0..(length'-1) : buf'[Wrap(start' + k)] = written' - length' + k
        BY <4>1
      <4>3. QED BY <4>2 DEF Contents, Wrap
    <3>1. CASE k + overflow < length
      <4>1. k + overflow \in 0..(length-1) /\ k + overflow + capacity >= length + n
        BY <1>2, <1>7, <1>9, <3>1
      <4>2. Wrap(start + (k + overflow)) = Wrap(start' + k)
        BY <1>2, <1>7, <1>9, <2>1, <3>1 DEF Wrap
      <4>3. buf'[Wrap(start + (k + overflow))] = written - length + (k + overflow)
        BY <1>6, <4>1
      <4>4. QED BY <1>1, <1>2, <4>2, <4>3
    <3>2. CASE k + overflow >= length
      <4> DEFINE j == k + overflow - length
      <4>1. j \in 0..(n-1)
        BY <1>1, <1>2, <1>7, <1>9, <3>2
      <4>2. Wrap(end + j) = Wrap(start' + k)
        <5>1. end + j = IF start + length < capacity THEN start + overflow + k
                        ELSE start + overflow + k - capacity
          BY <1>2, <1>3, <1>7 DEF Wrap
        <5>2. start' + k = IF start + overflow < capacity THEN start + overflow + k
                           ELSE start + overflow + k - capacity
          BY <1>2, <1>7, <2>1 DEF Wrap
        <5> DEFINE q == start + overflow + k
        <5>3. q \in Int /\ overflow < length /\ overflow + k < length + n
          BY <1>1, <1>2, <1>7, <4>1
        <5>4. CASE start + length < capacity
          <6>1. start + overflow < capacity
            BY <1>2, <1>7, <5>3, <5>4
          <6>2. end + j = start' + k
            BY <5>1, <5>2, <5>4, <6>1
          <6>3. QED BY <6>2
        <5>5. CASE start + length >= capacity
          <6>1. end + j = q - capacity
            BY <1>2, <5>1, <5>5
          <6>2. CASE start + overflow >= capacity
            <7>1. start' + k = q - capacity
              BY <1>2, <1>7, <5>2, <6>2
            <7>2. QED BY <6>1, <7>1
          <6>3. CASE start + overflow < capacity
            <7>1. start' + k = q
              BY <5>2, <6>3
            <7>2. q >= capacity /\ q - capacity < capacity
              BY <1>2, <1>7, <3>2, <5>5, <6>3
            <7>3. QED BY <1>2, <5>3, <6>1, <7>1, <7>2 DEF Wrap
          <6>4. QED BY <1>2, <1>7, <6>2, <6>3
        <5>6. QED BY <1>2, <5>4, <5>5
      <4>3. buf'[Wrap(end + j)] = written + j
        BY <1>5, <4>1
      <4>4. QED BY <1>1, <1>2, <4>2, <4>3
    <3>3. QED BY <1>2, <1>7, <3>1, <3>2
  <2>5. QED BY <2>2, <2>3, <2>4 DEF RingIInv
<1>10. CASE ~(overflow > 0)
  <2>1. start' = start /\ length' = length + n /\ length + n <= capacity
    BY <1>1, <1>2, <1>7, <1>10
  <2>2. RingTypeOK'
    BY <1>1, <1>2, <1>8, <2>1 DEF RingTypeOK
  <2>3. length' = Lesser(capacity, written' - cleared')
    BY <1>1, <1>2, <2>1 DEF Lesser
  <2>4. Contents'
    <3> SUFFICES ASSUME NEW k \in 0..(length + n - 1)
                 PROVE  buf'[Wrap(start + k)] = written - length + k
      BY <1>1, <1>2, <2>1 DEF Contents, Wrap
    <3>1. CASE k < length
      BY <1>2, <1>6, <2>1, <3>1
    <3>2. CASE k >= length
      <4> DEFINE j == k - length
      <4>1. j \in 0..(n-1)
        BY <1>1, <1>2, <3>2
      <4>2. Wrap(end + j) = Wrap(start + k)
        BY <1>1, <1>2, <1>3, <2>1, <3>2 DEF Wrap
      <4>3. QED BY <1>2, <1>5, <4>1, <4>2
    <3>3. QED BY <1>2, <3>1, <3>2
  <2>5. QED BY <2>2, <2>3, <2>4 DEF RingIInv
<1>11. QED BY <1>9, <1>10

LEMMA ClearIInv == RingIInv /\ Clear => RingIInv'
BY RingBufferAssumption DEF RingIInv, Clear, RingTypeOK, Contents, Lesser

THEOREM RingInvariance == RingSpec => []RingIInv
<1>1. RingIInv /\ [RingNext]_ringVars => RingIInv'
  <2> SUFFICES ASSUME RingIInv, [RingNext]_ringVars PROVE RingIInv'
    OBVIOUS
  <2>1. ASSUME NEW n \in WriteLen, Write(n) PROVE RingIInv'
    <3>1. n \in Nat
      BY RingBufferAssumption
    <3>2. CASE WriteWhole(n) BY <3>1, <3>2, WholeIInv
    <3>3. CASE WritePart(n) BY <3>1, <3>3, PartIInv
    <3>4. QED BY <2>1, <3>2, <3>3 DEF Write
  <2>2. CASE Clear BY <2>2, ClearIInv
  <2>3. CASE UNCHANGED ringVars
    BY <2>3 DEF ringVars, RingIInv, RingTypeOK, Contents
  <2>4. QED BY <2>1, <2>2, <2>3 DEF RingNext
<1>2. QED BY <1>1, RingInitIInv, PTL DEF RingSpec

-----------------------------------------------------------------------------
(* The bounds stay within the ring. *)
THEOREM RingTypeCorrect == RingSpec => []RingTypeOK
<1>1. RingIInv => RingTypeOK
  BY DEF RingIInv
<1>2. QED BY <1>1, RingInvariance, PTL

(* A read returns exactly the latest bytes, for every capacity. *)
THEOREM AlwaysReadsRecent == RingSpec => []ReadsRecent
<1>1. RingIInv => ReadsRecent
  <2> SUFFICES ASSUME RingIInv, NEW k \in 0..(length - 1)
               PROVE  ReadByte(k) = written - length + k
    BY DEF RingIInv, ReadsRecent
  <2>1. /\ start \in Nat /\ start < capacity /\ length \in Nat /\ length <= capacity
        /\ capacity \in Nat
    BY RingBufferAssumption DEF RingIInv, RingTypeOK
  <2>2. ReadByte(k) = buf[Wrap(start + k)]
    BY <2>1 DEF ReadByte, Lesser, Wrap
  <2>3. QED BY <2>2 DEF RingIInv, Contents
<1>2. QED BY <1>1, RingInvariance, PTL

-----------------------------------------------------------------------------
(* Both. *)

(* All of the output is in the ring, since the session began. *)
InStep == ~disposed => written = read /\ cleared = 0

-----------------------------------------------------------------------------
LEMMA OutputWrites ==
  ASSUME TypeOK, StreamOutput
  PROVE  /\ read' \in Nat /\ \E n \in ChunkLen : read' = read + n /\ Write(n)
         /\ disposed' = disposed
<1>1. PICK n \in ChunkLen : read' = read + n
  BY DEF StreamOutput, Output
<1>2. n \in Nat /\ read \in Nat
  BY SessionOutputAssumption DEF TypeOK
<1>3. read' - read = n
  BY <1>1, <1>2
<1>4. Write(n) /\ disposed' = disposed
  BY <1>3 DEF StreamOutput, Output
<1>5. QED BY <1>1, <1>2, <1>4

(* A step of the whole is a step of each part. *)
LEMMA StepOfEach ==
  ASSUME TypeOK, [StreamNext]_streamVars
  PROVE  [Next]_vars /\ [RingNext]_ringVars
<1>1. CASE StreamOutput
  <2>1. Output
    BY <1>1 DEF StreamOutput
  <2>2. \E n \in WriteLen : Write(n)
    BY <1>1, OutputWrites, SessionStreamAssumption
  <2>3. QED BY <2>1, <2>2 DEF Next, RingNext
<1>2. CASE StreamDispose
  BY <1>2 DEF StreamDispose, Next, RingNext
<1>3. CASE Parse /\ UNCHANGED ringVars
  BY <1>3 DEF Next
<1>4. CASE \E v \in Viewer : (Attach(v) \/ SendSnapshot(v) \/ Detach(v)) /\ UNCHANGED ringVars
  BY <1>4 DEF Next
<1>5. CASE UNCHANGED streamVars
  BY <1>5 DEF streamVars
<1>6. QED BY <1>1, <1>2, <1>3, <1>4, <1>5 DEF StreamNext

LEMMA StreamIsBoth == StreamSpec => Spec /\ RingSpec
<1>1. StreamInit => Init /\ RingInit
  BY DEF StreamInit
<1>2. TypeOK /\ [StreamNext]_streamVars => [Next]_vars /\ [RingNext]_ringVars
  BY StepOfEach
<1>3. Init => TypeOK
  BY InitIInv DEF IInv
<1>4. StreamSpec => []TypeOK
  <2>1. StreamInit => IInv
    BY <1>1, InitIInv
  <2>2. IInv /\ [StreamNext]_streamVars => IInv'
    <3>1. IInv /\ [StreamNext]_streamVars => [Next]_vars
      BY <1>2 DEF IInv
    <3>2. QED BY <3>1, StepIInv
  <2>3. IInv => TypeOK
    BY DEF IInv
  <2>4. QED BY <2>1, <2>2, <2>3, PTL DEF StreamSpec
<1>5. QED BY <1>1, <1>2, <1>4, PTL DEF StreamSpec, Spec, RingSpec

LEMMA StreamInStep == StreamSpec => []InStep
<1>1. StreamInit => InStep
  BY DEF StreamInit, Init, RingInit, InStep
<1>2. TypeOK /\ InStep /\ [StreamNext]_streamVars => InStep'
  <2> SUFFICES ASSUME TypeOK, InStep, [StreamNext]_streamVars PROVE InStep'
    OBVIOUS
  <2>1. CASE StreamOutput
    <3>1. PICK n \in ChunkLen : read' = read + n /\ Write(n) /\ disposed' = disposed
      BY <2>1, OutputWrites
    <3>2. written' = written + n /\ cleared' = cleared
      BY <3>1 DEF Write, WriteWhole, WritePart
    <3>3. QED BY <3>1, <3>2 DEF InStep
  <2>2. CASE StreamDispose
    <3>1. disposed'
      BY <2>2, Zenon DEF StreamDispose, Dispose
    <3>2. QED BY <3>1 DEF InStep
  <2>3. CASE Parse /\ UNCHANGED ringVars
    BY <2>3 DEF Parse, ringVars, InStep
  <2>4. ASSUME NEW v \in Viewer, Attach(v) \/ SendSnapshot(v) \/ Detach(v), UNCHANGED ringVars
        PROVE  InStep'
    BY <2>4 DEF Attach, SendSnapshot, Detach, ringVars, InStep
  <2>5. CASE UNCHANGED streamVars
    BY <2>5 DEF streamVars, vars, ringVars, InStep
  <2>6. QED BY <2>1, <2>2, <2>3, <2>4, <2>5 DEF StreamNext
<1>3. QED BY <1>1, <1>2, StreamIsBoth, TypeCorrect, PTL DEF StreamSpec

-----------------------------------------------------------------------------
(* The ring returns the latest output of the session, as much as it holds:  *)
(* onOutput and dispose keep it in step with what viewers are shown.        *)
THEOREM ReplayAlwaysRecent == StreamSpec => []ReplayIsRecent
<1>1. TypeOK /\ InStep /\ ReadsRecent => ReplayIsRecent
  BY DEF TypeOK, InStep, ReadsRecent, ReplayIsRecent
<1>2. QED BY <1>1, StreamIsBoth, StreamInStep, TypeCorrect, AlwaysReadsRecent, PTL
=============================================================================
