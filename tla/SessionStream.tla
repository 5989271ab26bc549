----------------------------- MODULE SessionStream -----------------------------
(***************************************************************************)
(* A session with both of its copies of the output: the headless terminal  *)
(* (SessionOutput) and the raw ring (RingBuffer), which onOutput and       *)
(* dispose of src/ptyd/session.ts keep in step.                            *)
(***************************************************************************)
EXTENDS SessionOutput, RingBuffer

ASSUME SessionStreamAssumption == WriteLen = ChunkLen

streamVars == <<vars, ringVars>>

StreamInit == Init /\ RingInit

(* onOutput: the chunk goes to the ring as well. *)
StreamOutput == Output /\ Write(read' - read)

(* dispose *)
StreamDispose == Dispose /\ Clear

StreamNext ==
  \/ StreamOutput
  \/ StreamDispose
  \/ Parse /\ UNCHANGED ringVars
  \/ \E v \in Viewer : (Attach(v) \/ SendSnapshot(v) \/ Detach(v)) /\ UNCHANGED ringVars

StreamSpec == StreamInit /\ [][StreamNext]_streamVars

FairStreamSpec == StreamSpec /\ Fairness

-----------------------------------------------------------------------------
(* "The fallback path for screen restore when `reviveScreen` is off"        *)
(* (ringbuffer.ts): what the ring returns is the end of what the viewers    *)
(* were shown, at most a ring of it.                                        *)
ReplayIsRecent ==
  ~disposed =>
    /\ length = Lesser(capacity, read)
    /\ \A k \in 0..(length - 1) : ReadByte(k) = read - length + k
=============================================================================
