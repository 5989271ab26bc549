------------------------------ MODULE RingBuffer ------------------------------
(***************************************************************************)
(* The fixed-capacity byte ring behind a session's raw output              *)
(* (src/ptyd/ringbuffer.ts), which is what a reconnecting client gets when *)
(* the headless terminal is switched off.                                  *)
(*                                                                         *)
(* A byte is represented by its position in the text written since the     *)
(* ring was created, so what a read returns can be compared with what was  *)
(* written.  SessionStream has the ring in its session.                    *)
(***************************************************************************)
EXTENDS Integers

CONSTANTS
  capacity,   \* RingBuffer.capacity
  WriteLen,   \* lengths of the chunks written
  MaxWritten  \* bound of the model: bytes written in all

ASSUME RingBufferAssumption ==
  /\ capacity \in Nat
  /\ WriteLen \subseteq Nat
  /\ MaxWritten \in Nat

VARIABLES
  buf,      \* RingBuffer.buf
  start,    \* RingBuffer.start
  length,   \* RingBuffer.length
  written,  \* history: bytes written so far
  cleared   \* history: bytes written when clear() was last called

ringVars == <<buf, start, length, written, cleared>>

Index == 0..(capacity - 1)
NoByte == -1

Lesser(a, b) == IF a <= b THEN a ELSE b

Wrapped(p) == p % capacity

(* Fault: one byte of room too few. *)
OverflowPlusOne(n) == length + n - capacity + 1

(* How many of the oldest bytes n more push out. *)
Overflow(n) == length + n - capacity

-----------------------------------------------------------------------------
RingInit ==
  /\ buf = [p \in Index |-> NoByte]
  /\ start = 0
  /\ length = 0
  /\ written = 0
  /\ cleared = 0

(* write() of a chunk at least as long as the ring: only its tail is kept. *)
WriteWhole(n) ==
  /\ n > 0 /\ n >= capacity
  /\ buf' = [p \in Index |-> written + (n - capacity) + p]
  /\ start' = 0
  /\ length' = capacity
  /\ written' = written + n
  /\ UNCHANGED cleared

(* write() of a shorter one: copied from the end of the contents on, the    *)
(* part that does not fit wrapped to the front, the oldest bytes given up.  *)
WritePart(n) ==
  /\ n > 0 /\ n < capacity
  /\ LET end       == Wrapped(start + length)
         firstPart == Lesser(n, capacity - end)
     IN /\ buf' = [p \in Index |->
                     IF end <= p /\ p < end + firstPart THEN written + (p - end)
                     ELSE IF p < n - firstPart THEN written + firstPart + p
                     ELSE buf[p]]
        /\ IF Overflow(n) > 0
           THEN start' = Wrapped(start + Overflow(n)) /\ length' = capacity
           ELSE start' = start /\ length' = length + n
  /\ written' = written + n
  /\ UNCHANGED cleared

Write(n) == written + n <= MaxWritten /\ (WriteWhole(n) \/ WritePart(n))

(* clear() *)
Clear ==
  /\ start' = 0
  /\ length' = 0
  /\ cleared' = written
  /\ UNCHANGED <<buf, written>>

RingNext == (\E n \in WriteLen : Write(n)) \/ Clear

RingSpec == RingInit /\ [][RingNext]_ringVars

-----------------------------------------------------------------------------
(* read(): byte k of the result, which is `length` bytes long. *)
ReadByte(k) ==
  LET firstPart == Lesser(length, capacity - start)
  IN IF k < firstPart THEN buf[start + k] ELSE buf[k - firstPart]

RingTypeOK ==
  /\ buf \in [Index -> Nat \cup {NoByte}]
  /\ start \in Nat /\ (start < capacity \/ start = 0)
  /\ length \in 0..capacity
  /\ written \in Nat
  /\ cleared \in 0..written

(* A read returns the most recent bytes, in order and as many as the ring   *)
(* can hold: no byte is stale, missing or out of place, however the writes  *)
(* wrapped around.                                                          *)
ReadsRecent ==
  /\ length = Lesser(capacity, written - cleared)
  /\ \A k \in 0..(length - 1) : ReadByte(k) = written - length + k
=============================================================================
