-------------------------------- MODULE Attach --------------------------------
(***************************************************************************)
(* A terminal that is attached to a session (attachSession of              *)
(* src/cli/attach.ts): which of the bytes typed on it reach the session,   *)
(* however the terminal cuts them into reads, when they are read at all,   *)
(* and when attachSession comes to its end.                                *)
(***************************************************************************)
EXTENDS Naturals, Sequences, SequencesExt, FiniteSetsExt

CONSTANTS
  Prefix,    \* the detach prefix, Ctrl+\
  DetachKey, \* d
  Letter,    \* every other byte
  MaxTyped   \* bound of the model: bytes typed

ASSUME AttachAssumption ==
  /\ Prefix # DetachKey /\ {Prefix, DetachKey} \cap Letter = {}
  /\ MaxTyped \in Nat

VARIABLES
  raw,    \* the terminal is in raw mode
  armed,  \* the last byte was a prefix
  typed,  \* what onData was given, up to the d that detached
  sent,   \* what it gave sendInput
  result  \* of the promise `done`, "none" before

attachVars == <<raw, armed, typed, sent, result>>

Byte   == Letter \cup {Prefix, DetachKey}
Reads  == UNION {[1..n -> Byte] : n \in 1..MaxTyped}
Result == {"none", "detached", "exited", "lost"}

AttachInit ==
  /\ raw = FALSE
  /\ armed = FALSE
  /\ typed = <<>>
  /\ sent = <<>>
  /\ result = "none"

-----------------------------------------------------------------------------
(* The loop of onData: where it is, what went before (nothing that counts,  *)
(* a prefix, or the d that detached), and what it has sent.                 *)
Loop(i, at, sends) == [i |-> i, at |-> at, sends |-> sends]

(* Fault: the byte after the prefix is skipped with it. *)
BehindNext(i) == i + 2

(* Where the loop goes on behind the prefix at i. *)
Behind(i) == i + 1

(* One pass of it.  Up to the next prefix bytes are sent in one write.      *)
Pass(read, l) ==
  LET byte  == read[l.i]
      ahead == {j \in l.i..Len(read) : read[j] = Prefix}
  IN CASE l.at = "detached" \/ l.i > Len(read) -> l
       [] l.at = "armed" /\ l.i <= Len(read) ->
            CASE byte = DetachKey -> Loop(l.i + 1, "detached", l.sends)
              [] byte = Prefix    -> Loop(l.i + 1, "armed", l.sends \o <<Prefix>>)
              [] OTHER            -> Loop(l.i + 1, "plain", l.sends \o <<Prefix, byte>>)
       [] l.at = "plain" /\ l.i <= Len(read) ->
            IF ahead = {} THEN Loop(Len(read) + 1, "plain", l.sends \o SubSeq(read, l.i, Len(read)))
            ELSE Loop(Behind(Min(ahead)), "armed", l.sends \o SubSeq(read, l.i, Min(ahead) - 1))

(* The loop makes fewer passes than there are bytes, or as many. *)
Scan(read, at) ==
  LET after[k \in 0..Len(read)] == IF k = 0 THEN Loop(1, at, <<>>) ELSE Pass(read, after[k - 1])
  IN after[Len(read)]

(* How much of a read counts as typed: nothing behind the first d that      *)
(* comes after a prefix.                                                    *)
Counts(read, at) ==
  LET behindPrefix(i) == IF i = 1 THEN at = "armed" ELSE read[i - 1] = Prefix
      ends == {i \in DOMAIN read : read[i] = DetachKey /\ behindPrefix(i)}
  IN IF ends = {} THEN read ELSE SubSeq(read, 1, Min(ends))

(* finish: the first call decides.  attachSession goes on at once: restore. *)
Finish(why) ==
  /\ result' = IF result = "none" THEN why ELSE result
  /\ raw' = FALSE

(* attachSession up to its first await. *)
BeginAttach ==
  /\ armed' = FALSE /\ typed' = <<>> /\ sent' = <<>> /\ result' = "none"

(* It is subscribed: the terminal is taken over unless it ended meanwhile.  *)
TakeTerminal ==
  /\ raw' = (result = "none")
  /\ UNCHANGED <<armed, typed, sent, result>>

(* onData *)
OnData ==
  /\ raw
  /\ \E read \in Reads :
       LET at      == IF armed THEN "armed" ELSE "plain"
           scanned == Scan(read, at)
       IN /\ Len(typed) + Len(read) <= MaxTyped
          /\ typed' = typed \o Counts(read, at)
          /\ sent' = sent \o scanned.sends
          /\ armed' = (scanned.at = "armed")
          /\ IF scanned.at = "detached" THEN Finish("detached") ELSE UNCHANGED <<raw, result>>

-----------------------------------------------------------------------------
(* What became of what was typed: it was sent, or is a prefix held back, or *)
(* is the prefix and d that detached.                                       *)
Outcome ==
  sent \o (IF armed THEN <<Prefix>> ELSE <<>>)
       \o (IF result = "detached" THEN <<Prefix, DetachKey>> ELSE <<>>)

Doubled(i) == typed[i] = Prefix /\ typed[i + 1] = Prefix

(* "Scan for the detach sequence without disturbing anything else"          *)
(* (attach.ts): however the reads cut it, all that is typed without         *)
(* pressing the prefix twice in a row reaches the session, once and in      *)
(* order, but for the prefix that is held back and the prefix and d that    *)
(* detached; and so does every stretch of it around a doubled prefix.       *)
InputExact ==
  /\ (\A k \in 1..Len(typed) - 1 : ~Doubled(k)) => typed = Outcome
  /\ \A i \in DOMAIN typed : \A j \in i..Len(typed) :
       (\A k \in i..j - 1 : ~Doubled(k)) =>
         \E n \in DOMAIN Outcome : SubSeq(typed, i, j) = SubSeq(Outcome, n, n + j - i)

(* "Prefix pressed twice sends one literal prefix byte through" (attach.ts, *)
(* and README.md of the code).  The second one stays held back, and is sent *)
(* with the next byte.                                                      *)
DoubledIsOne ==
  Len(typed) >= 2 /\ Doubled(1) /\ (\A k \in 3..Len(typed) : typed[k] \in Letter) => sent = Tail(typed)
=============================================================================
