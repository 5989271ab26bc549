---------------------------- MODULE PtydConnection ----------------------------
(***************************************************************************)
(* One connection to ptyd: the frames on its byte stream, which is cut     *)
(* anywhere (encodeJson, encodeData and FrameDecoder of                    *)
(* src/shared/protocol.ts), and the calls that are settled by them         *)
(* (src/shared/ptyd-client.ts; src/ptyd/ipc-server.ts up to where a        *)
(* request is carried out, which is Ptyd).                                 *)
(*                                                                         *)
(* A byte is its place in its frame, so that a decoder which lost the      *)
(* frames' borders would read garbage.  What frames say is left out but    *)
(* for which call they belong to.                                          *)
(***************************************************************************)
EXTENDS Integers, Sequences, SequencesExt

CONSTANTS
  LengthBytes, \* bytes of a frame's length field
  MaxAsked,    \* bound of the model: calls, and frames of the client
  MaxTold      \* bound of the model: events and output of ptyd

ASSUME PtydConnectionAssumption ==
  /\ LengthBytes \in Nat \ {0}
  /\ MaxAsked \in Nat /\ MaxTold \in Nat

VARIABLES
  calls,     \* PtydClient.pending and what became of the calls before: rid is the index
  clientEnd, \* "open" or "closed" (PtydClient.closed)
  ptydEnd,   \* the same of Connection.closed
  up, down,  \* bytes under way to ptyd and from it
  ptydBuf,   \* FrameDecoder.buf of ptyd's end
  clientBuf, \* and of the client's
  requested, \* history: frames that were sent to ptyd
  served,    \* history: those ptyd has acted on
  told,      \* history: frames ptyd sent
  given      \* history: those the client has acted on

toPtyd   == <<up, ptydEnd, ptydBuf, requested, served>>
toClient == <<down, clientEnd, clientBuf, told, given>>

connectionVars == <<calls, up, ptydEnd, ptydBuf, requested, served, down, clientEnd, clientBuf, told, given>>

(* Frames; `length` counts the type byte and the payload.  A fault is one   *)
(* the decoder sees in the length, one it sees in the content, or an        *)
(* envelope only the server refuses.                                        *)
Frame(type, length, body, fault) == [type |-> type, length |-> length, body |-> body, fault |-> fault]

request(rid)  == Frame("Json", 1, [t |-> "req", rid |-> rid], "none")
response(rid) == Frame("Json", 1, [t |-> "res", rid |-> rid], "none")
event(ends)   == Frame("Json", 1, [t |-> "evt", ends |-> ends], "none")
input         == Frame("In", 2, [t |-> "data"], "none")
output        == Frame("Out", 2, [t |-> "data"], "none")
odd(fault)    == Frame("Json", 1, [t |-> "odd"], fault)

Encoded(f) == [k \in 1..(LengthBytes + f.length) |-> [of |-> f, at |-> k]]

EncodedAll(fs) ==
  LET bytes[k \in 0..Len(fs)] == IF k = 0 THEN <<>> ELSE bytes[k - 1] \o Encoded(fs[k])
  IN bytes[Len(fs)]

-----------------------------------------------------------------------------
(* FrameDecoder *)

(* readUInt32BE at the front, 0 for what is out of range or no length.      *)
LengthAt(buf) ==
  IF buf[1].of.fault # "length" /\ \A k \in 1..LengthBytes : buf[k].at = k THEN buf[1].of.length ELSE 0

(* One pass of push()'s loop; nothing is left to do once it has stopped.    *)
DecodeOne(d) ==
  IF d.fault # "none" \/ Len(d.buf) < LengthBytes THEN d
  ELSE LET len == LengthAt(d.buf)
           end == LengthBytes + len
       IN IF len < 1 THEN [d EXCEPT !.fault = "thrown"]
          ELSE IF Len(d.buf) < end THEN d
          ELSE IF d.buf[1].of.fault = "content" THEN [d EXCEPT !.fault = "thrown"]
          ELSE [d EXCEPT !.frames = Append(@, d.buf[1].of), !.buf = SubSeq(@, end + 1, Len(@))]

(* Fault: one frame for one chunk. *)
PushOne(buf, chunk) == DecodeOne([buf |-> buf \o chunk, frames |-> <<>>, fault |-> "none"])

(* push().  The loop makes fewer passes than there are bytes.  When it      *)
(* throws, the frames it had are lost with it.                              *)
Push(buf, chunk) ==
  LET bytes == buf \o chunk
      after[k \in 0..Len(bytes)] ==
        IF k = 0 THEN [buf |-> bytes, frames |-> <<>>, fault |-> "none"] ELSE DecodeOne(after[k - 1])
  IN after[Len(bytes)]

-----------------------------------------------------------------------------
ConnectionInit ==
  /\ calls = <<>>
  /\ clientEnd = "open" /\ ptydEnd = "open"
  /\ up = <<>> /\ down = <<>>
  /\ ptydBuf = <<>> /\ clientBuf = <<>>
  /\ requested = <<>> /\ served = <<>>
  /\ told = <<>> /\ given = <<>>

(* teardown(): what is pending is rejected. *)
TornDown(cs) == [rid \in DOMAIN cs |-> IF cs[rid] = "pending" THEN "closed" ELSE cs[rid]]

Count(frames, t) == Len(SelectSeq(frames, LAMBDA f : f.body.t = t))

SendUp(f) == up' = up \o Encoded(f) /\ requested' = Append(requested, f)

(* request(): a closed connection rejects at once. *)
Call ==
  /\ Len(calls) < MaxAsked /\ Len(requested) < MaxAsked
  /\ IF clientEnd = "open"
     THEN SendUp(request(Len(calls) + 1)) /\ calls' = Append(calls, "pending")
     ELSE UNCHANGED <<up, requested>> /\ calls' = Append(calls, "closed")
  /\ UNCHANGED <<ptydEnd, ptydBuf, served>> /\ UNCHANGED toClient

SendInput ==
  /\ clientEnd = "open" /\ Len(requested) < MaxAsked
  /\ SendUp(input)
  /\ UNCHANGED <<calls, ptydEnd, ptydBuf, served>> /\ UNCHANGED toClient

(* A client of another version, or none of this program's. *)
SendOdd(fault) ==
  /\ clientEnd = "open" /\ Len(requested) < MaxAsked
  /\ SendUp(odd(fault))
  /\ UNCHANGED <<calls, ptydEnd, ptydBuf, served>> /\ UNCHANGED toClient

(* The deadline of a call. *)
CallTimesOut(rid) ==
  /\ calls[rid] = "pending"
  /\ calls' = [calls EXCEPT ![rid] = "timeout"]
  /\ UNCHANGED toPtyd /\ UNCHANGED toClient

ClientCloses ==
  /\ clientEnd = "open"
  /\ clientEnd' = "closed"
  /\ calls' = TornDown(calls)
  /\ UNCHANGED toPtyd /\ UNCHANGED <<down, clientBuf, told, given>>

-----------------------------------------------------------------------------
(* Connection.onData: frames are acted on up to one with a bad envelope.    *)

Acceptable(frames) ==
  LET bad == SelectInSeq(frames, LAMBDA f : f.fault = "envelope")
  IN IF bad = 0 THEN frames ELSE SubSeq(frames, 1, bad - 1)

Answering(answers, f) == IF f.body.t = "req" THEN Append(answers, response(f.body.rid)) ELSE answers

Answers(frames) ==
  LET after[k \in 0..Len(frames)] == IF k = 0 THEN <<>> ELSE Answering(after[k - 1], frames[k])
  IN after[Len(frames)]

Tell(frames) == down' = down \o EncodedAll(frames) /\ told' = told \o frames

PtydReads(n) ==
  /\ ptydEnd = "open"
  /\ LET d    == Push(ptydBuf, SubSeq(up, 1, n))
         done == IF d.fault # "none" THEN <<>> ELSE Acceptable(d.frames)
     IN /\ ptydBuf' = d.buf
        /\ served' = served \o done
        /\ ptydEnd' = IF d.fault # "none" \/ done # d.frames THEN "closed" ELSE "open"
        /\ Tell(Answers(done))
  /\ up' = SubSeq(up, n + 1, Len(up))
  /\ UNCHANGED <<calls, requested, clientEnd, clientBuf, given>>

(* sendEvent, sendOut; an event may be one that its reader closes on.       *)
PtydTells(f) ==
  /\ ptydEnd = "open" /\ Len(told) - Count(told, "res") < MaxTold
  /\ Tell(<<f>>)
  /\ UNCHANGED calls /\ UNCHANGED toPtyd /\ UNCHANGED <<clientEnd, clientBuf, given>>

(* A reader that does not drain, or ptyd's end: what was not sent yet is    *)
(* thrown away.                                                             *)
PtydCloses(n) ==
  /\ ptydEnd = "open"
  /\ ptydEnd' = "closed"
  /\ down' = SubSeq(down, 1, n)
  /\ UNCHANGED <<calls, up, ptydBuf, requested, served>> /\ UNCHANGED <<clientEnd, clientBuf, told, given>>

-----------------------------------------------------------------------------
(* PtydClient.onData: one frame.  An event's handler may close the client;  *)
(* the frames that came with it are acted on all the same.                  *)

Settled(c, f) ==
  CASE f.body.t = "res" ->
         [c EXCEPT !.calls = IF @[f.body.rid] = "pending" THEN [@ EXCEPT ![f.body.rid] = "answered"] ELSE @]
    [] f.body.t = "evt" /\ f.body.ends -> [end |-> "closed", calls |-> TornDown(c.calls)]
    [] OTHER -> c

Handled(c, frames) ==
  LET after[k \in 0..Len(frames)] == IF k = 0 THEN c ELSE Settled(after[k - 1], frames[k])
  IN after[Len(frames)]

ClientReads(n) ==
  /\ clientEnd = "open"
  /\ LET d == Push(clientBuf, SubSeq(down, 1, n))
         c == Handled([end |-> "open", calls |-> calls], d.frames)
     IN /\ clientBuf' = d.buf
        /\ given' = IF d.fault # "none" THEN given ELSE given \o d.frames
        /\ clientEnd' = IF d.fault # "none" THEN "closed" ELSE c.end
        /\ calls' = IF d.fault # "none" THEN TornDown(calls) ELSE c.calls
  /\ down' = SubSeq(down, n + 1, Len(down))
  /\ UNCHANGED toPtyd /\ UNCHANGED told

(* 'error' and 'close' of the sockets, once what was sent has been read.    *)
ClientNotices ==
  /\ clientEnd = "open" /\ ptydEnd = "closed" /\ down = <<>>
  /\ clientEnd' = "closed"
  /\ calls' = TornDown(calls)
  /\ UNCHANGED toPtyd /\ UNCHANGED <<down, clientBuf, told, given>>

PtydNotices ==
  /\ ptydEnd = "open" /\ clientEnd = "closed" /\ up = <<>>
  /\ ptydEnd' = "closed"
  /\ UNCHANGED <<calls, up, ptydBuf, requested, served>> /\ UNCHANGED toClient

ConnectionNext ==
  \/ Call \/ SendInput \/ ClientCloses \/ ClientNotices \/ PtydNotices
  \/ \E fault \in {"length", "content", "envelope"} : SendOdd(fault)
  \/ \E rid \in DOMAIN calls : CallTimesOut(rid)
  \/ \E f \in {event(TRUE), event(FALSE), output} : PtydTells(f)
  \/ \E n \in 1..Len(up) : PtydReads(n)
  \/ \E n \in 1..Len(down) : ClientReads(n)
  \/ \E n \in 0..Len(down) : PtydCloses(n)

ConnectionSpec == ConnectionInit /\ [][ConnectionNext]_connectionVars

-----------------------------------------------------------------------------
(* The frames that end within the bytes. *)
Closing(frames, byte) == IF byte.at = LengthBytes + byte.of.length THEN Append(frames, byte.of) ELSE frames

Ending(bytes) ==
  LET after[k \in 0..Len(bytes)] == IF k = 0 THEN <<>> ELSE Closing(after[k - 1], bytes[k])
  IN after[Len(bytes)]

(* "Feed it socket chunks, get back whole frames" (protocol.ts): however    *)
(* the stream is cut, each end that is open has acted on just the frames    *)
(* that have come in, in order and once; no whole frame waits for the next  *)
(* chunk, so no call waits for an answer that is there; and only a frame    *)
(* that is none makes an end give up.                                       *)
FramesExact ==
  /\ ptydEnd = "open" => served \o Ending(up) = requested /\ Ending(ptydBuf) = <<>>
  /\ clientEnd = "open" /\ ptydEnd = "open" => given \o Ending(down) = told
  /\ clientEnd = "open" =>
       /\ Ending(clientBuf) = <<>>
       /\ \A rid \in DOMAIN calls : calls[rid] = "pending" => \A k \in DOMAIN given : given[k] # response(rid)
  /\ clientEnd = "closed" => \A rid \in DOMAIN calls : calls[rid] # "pending"
=============================================================================
