---------------------------- MODULE TerminalProofs ----------------------------
(***************************************************************************)
(* Proofs about TerminalView, for any sizes, any amount of output and      *)
(* input and any length of what is under way: the bytes a terminal parses  *)
(* are a snapshot and the output after it, no input vanishes unsaid, and,  *)
(* where the viewer that was active last decides, its size is the          *)
(* session's.                                                              *)
(***************************************************************************)
EXTENDS TerminalView, SequenceTheorems, WellFoundedInduction, TLAPS

IsSeq(s) == \E S : s \in Seq(S)

-----------------------------------------------------------------------------
(* Queues of messages. *)

LEMMA Grown ==
  ASSUME NEW s, IsSeq(s), NEW m
  PROVE  /\ IsSeq(Append(s, m)) /\ Len(s) \in Nat /\ Len(Append(s, m)) = Len(s) + 1
         /\ Append(s, m)[Len(s) + 1] = m /\ \A i \in 1..Len(s) : Append(s, m)[i] = s[i]
         /\ s \o <<m>> = Append(s, m) /\ s \o <<>> = s
<1>1. PICK S : s \in Seq(S)
  BY DEF IsSeq
<1> DEFINE T == S \cup {m}
<1>2. s \in Seq(T) /\ m \in T
  BY <1>1
<1> HIDE DEF T
<1>3. Append(s, m) \in Seq(T) /\ <<m>> \in Seq(T) /\ Len(<<m>>) = 1 /\ <<m>>[1] = m
  BY <1>2
<1>4. IsSeq(Append(s, m))
  BY <1>3 DEF IsSeq
<1>5. Len(s) \in Nat /\ Len(Append(s, m)) = Len(s) + 1 /\ Append(s, m)[Len(s) + 1] = m
  BY <1>2
<1>6. \A i \in 1..Len(s) : Append(s, m)[i] = s[i]
  BY <1>2
<1>7. s \o <<m>> = Append(s, m)
  BY <1>2
<1>8. s \o <<>> = s
  BY <1>1
<1> QED BY <1>4, <1>5, <1>6, <1>7, <1>8

LEMMA Shortened ==
  ASSUME NEW s, IsSeq(s), s # <<>>
  PROVE  /\ IsSeq(Tail(s)) /\ Len(s) \in Nat \ {0} /\ Len(Tail(s)) = Len(s) - 1 /\ Head(s) = s[1]
         /\ \A i \in 1..Len(s) - 1 : Tail(s)[i] = s[i + 1]
<1>1. PICK S : s \in Seq(S)
  BY DEF IsSeq
<1>2. Tail(s) \in Seq(S) /\ Len(s) \in Nat \ {0} /\ Len(Tail(s)) = Len(s) - 1 /\ Head(s) = s[1]
      /\ \A i \in 1..Len(s) - 1 : Tail(s)[i] = s[i + 1]
  BY <1>1
<1> QED BY <1>2 DEF IsSeq

-----------------------------------------------------------------------------
(* What a terminal at output a, with no more than p ever on the clipboard,  *)
(* makes of a message without a mess: it is at output b, and q bounds it.   *)
Takes(a, p, m, b, q) ==
  CASE m.t \in {"reset", "hello"} -> b = 0 /\ q = p
    [] m.t = "snapshot" -> a = 0 /\ b = m.at /\ p <= q /\ b <= q
    [] m.t = "out" -> a = m.at - 1 /\ b = m.at /\ p <= q /\ b <= q
    [] m.t = "ready" -> p <= a /\ b = a /\ q = p
    [] OTHER -> b = a /\ q = p

(* The same of messages in order. *)
Along(g, h, a, p, s, b, q) ==
  /\ g[0] = a /\ h[0] = p /\ g[Len(s)] = b /\ h[Len(s)] = q
  /\ \A i \in 0..Len(s) : g[i] \in Nat /\ h[i] \in Nat /\ h[i] <= q
  /\ \A i \in 1..Len(s) : Takes(g[i - 1], h[i - 1], s[i], g[i], h[i])

Leads(a, p, s, b, q) == \E g, h : Along(g, h, a, p, s, b, q)

LEMMA LeadsNowhere ==
  ASSUME NEW a, NEW p, NEW b, NEW q
  PROVE  /\ Leads(a, p, <<>>, b, q) => a = b /\ p = q /\ a \in Nat /\ p \in Nat
         /\ a \in Nat /\ p \in Nat => Leads(a, p, <<>>, a, p)
<1>1. ASSUME Leads(a, p, <<>>, b, q) PROVE a = b /\ p = q /\ a \in Nat /\ p \in Nat
  BY <1>1 DEF Leads, Along
<1>2. ASSUME a \in Nat, p \in Nat PROVE Leads(a, p, <<>>, a, p)
  <2> DEFINE g == [i \in {0} |-> a]
             h == [i \in {0} |-> p]
  <2>1. g[0] = a /\ h[0] = p /\ 0..0 = {0} /\ 1..0 = {} /\ Len(<<>>) = 0
    OBVIOUS
  <2> HIDE DEF g, h
  <2>2. Along(g, h, a, p, <<>>, a, p)
    BY <1>2, <2>1 DEF Along
  <2> QED BY <2>2 DEF Leads
<1> QED BY <1>1, <1>2

LEMMA LeadsOn ==
  ASSUME NEW a, NEW p, NEW s, NEW b, NEW q, NEW m, NEW c \in Nat, NEW r \in Nat,
         IsSeq(s), Leads(a, p, s, b, q), Takes(b, q, m, c, r)
  PROVE  Leads(a, p, Append(s, m), c, r) /\ q <= r
<1> DEFINE n == Len(s)
           t == Append(s, m)
<1>1. PICK g, h : Along(g, h, a, p, s, b, q)
  BY DEF Leads
<1>2. n \in Nat /\ Len(t) = n + 1 /\ t[n + 1] = m /\ \A i \in 1..n : t[i] = s[i]
  BY Grown
<1> DEFINE g1 == [i \in 0..n + 1 |-> IF i = n + 1 THEN c ELSE g[i]]
           h1 == [i \in 0..n + 1 |-> IF i = n + 1 THEN r ELSE h[i]]
<1>3. /\ g[0] = a /\ h[0] = p /\ g[n] = b /\ h[n] = q
      /\ \A i \in 0..n : g[i] \in Nat /\ h[i] \in Nat /\ h[i] <= q
      /\ \A i \in 1..n : Takes(g[i - 1], h[i - 1], s[i], g[i], h[i])
  BY <1>1 DEF Along
<1> HIDE DEF n, t
<1>4. g1[n + 1] = c /\ h1[n + 1] = r /\ \A i \in 0..n : g1[i] = g[i] /\ h1[i] = h[i]
  BY <1>2
<1> HIDE DEF g1, h1
<1>5. \A i \in 1..n + 1 : Takes(g1[i - 1], h1[i - 1], t[i], g1[i], h1[i])
  <2> TAKE i \in 1..n + 1
  <2>1. CASE i = n + 1
    <3>1. i - 1 = n /\ n \in 0..n
      BY <1>2, <2>1
    <3> QED BY <1>2, <1>3, <1>4, <2>1, <3>1
  <2>2. CASE i # n + 1
    <3>1. i \in 1..n /\ i \in 0..n /\ i - 1 \in 0..n
      BY <1>2, <2>2
    <3> QED BY <1>2, <1>3, <1>4, <3>1
  <2> QED BY <2>1, <2>2
<1>9. q \in Nat /\ q <= r
  <2>1. q \in Nat
    BY <1>2, <1>3
  <2> QED BY <2>1 DEF Takes
<1>6. \A i \in 0..n + 1 : g1[i] \in Nat /\ h1[i] \in Nat /\ h1[i] <= r
  <2> TAKE i \in 0..n + 1
  <2>1. i = n + 1 \/ i \in 0..n
    BY <1>2
  <2> QED BY <1>3, <1>4, <1>9, <2>1
<1>7. g1[0] = a /\ h1[0] = p
  BY <1>2, <1>3, <1>4
<1>8. Along(g1, h1, a, p, t, c, r)
  BY <1>2, <1>4, <1>5, <1>6, <1>7 DEF Along
<1> QED BY <1>8, <1>9 DEF Leads, t

LEMMA LeadsAfterOne ==
  ASSUME NEW a, NEW p, NEW s, NEW b, NEW q, IsSeq(s), s # <<>>, Leads(a, p, s, b, q)
  PROVE  \E c, r \in Nat : Takes(a, p, Head(s), c, r) /\ Leads(c, r, Tail(s), b, q) /\ p <= r /\ r <= q
<1> DEFINE n == Len(s)
           t == Tail(s)
<1>1. PICK g, h : Along(g, h, a, p, s, b, q)
  BY DEF Leads
<1>2. n \in Nat \ {0} /\ Len(t) = n - 1 /\ Head(s) = s[1] /\ \A i \in 1..n - 1 : t[i] = s[i + 1]
  BY Shortened
<1>3. /\ g[0] = a /\ h[0] = p /\ g[n] = b /\ h[n] = q
      /\ \A i \in 0..n : g[i] \in Nat /\ h[i] \in Nat /\ h[i] <= q
      /\ \A i \in 1..n : Takes(g[i - 1], h[i - 1], s[i], g[i], h[i])
  BY <1>1 DEF Along
<1> DEFINE g1 == [i \in 0..n - 1 |-> g[i + 1]]
           h1 == [i \in 0..n - 1 |-> h[i + 1]]
<1> HIDE DEF n, t
<1>4. \A i \in 0..n - 1 : g1[i] = g[i + 1] /\ h1[i] = h[i + 1]
  OBVIOUS
<1> HIDE DEF g1, h1
<1>5. \A i \in 1..n - 1 : Takes(g1[i - 1], h1[i - 1], t[i], g1[i], h1[i])
  <2> TAKE i \in 1..n - 1
  <2>1. i + 1 \in 1..n /\ i \in 0..n - 1 /\ i - 1 \in 0..n - 1 /\ (i + 1) - 1 = i /\ (i - 1) + 1 = i
    BY <1>2
  <2>2. Takes(g[i], h[i], s[i + 1], g[i + 1], h[i + 1])
    BY <1>3, <2>1
  <2> QED BY <1>2, <1>4, <2>1, <2>2
<1>6. \A i \in 0..n - 1 : g1[i] \in Nat /\ h1[i] \in Nat /\ h1[i] <= q
  <2> TAKE i \in 0..n - 1
  <2>1. i + 1 \in 0..n
    BY <1>2
  <2> QED BY <1>3, <1>4, <2>1
<1>7. g1[0] = g[1] /\ h1[0] = h[1] /\ g1[n - 1] = b /\ h1[n - 1] = q
  <2>1. 0 \in 0..n - 1 /\ n - 1 \in 0..n - 1 /\ (n - 1) + 1 = n /\ 0 + 1 = 1
    BY <1>2
  <2> QED BY <1>3, <1>4, <2>1
<1>8. Along(g1, h1, g[1], h[1], t, b, q)
  BY <1>2, <1>5, <1>6, <1>7 DEF Along
<1>9. Leads(g[1], h[1], t, b, q)
  BY <1>8 DEF Leads
<1>10. Takes(a, p, Head(s), g[1], h[1]) /\ g[1] \in Nat /\ h[1] \in Nat /\ p \in Nat /\ h[1] <= q
  <2>1. 1 \in 1..n /\ 1 \in 0..n /\ 0 \in 0..n /\ 1 - 1 = 0
    BY <1>2
  <2> QED BY <1>2, <1>3, <2>1
<1>11. p <= h[1]
  BY <1>10 DEF Takes
<1> QED BY <1>9, <1>10, <1>11 DEF t

LEMMA LeadsThrough ==
  ASSUME NEW a \in Nat, NEW p \in Nat, NEW s, IsSeq(s), \A i \in 1..Len(s) : s[i].t \in {"resized", "meta"}
  PROVE  Leads(a, p, s, a, p)
<1> DEFINE n == Len(s)
           g == [i \in 0..n |-> a]
           h == [i \in 0..n |-> p]
<1>1. n \in Nat
  BY Grown
<1> HIDE DEF n
<1>2. \A i \in 0..n : g[i] = a /\ h[i] = p
  OBVIOUS
<1> HIDE DEF g, h
<1>3. \A i \in 1..n : Takes(g[i - 1], h[i - 1], s[i], g[i], h[i])
  <2> TAKE i \in 1..n
  <2>1. g[i - 1] = a /\ h[i - 1] = p /\ g[i] = a /\ h[i] = p
    BY <1>1, <1>2
  <2>2. s[i].t \in {"resized", "meta"}
    BY DEF n
  <2> QED BY <2>1, <2>2 DEF Takes
<1>4. g[0] = a /\ h[0] = p /\ g[n] = a /\ h[n] = p
  BY <1>1, <1>2
<1>5. \A i \in 0..n : g[i] \in Nat /\ h[i] \in Nat /\ h[i] <= p
  BY <1>2
<1>6. Along(g, h, a, p, s, a, p)
  BY <1>3, <1>4, <1>5 DEF Along, n
<1> QED BY <1>6 DEF Leads

LEMMA LeadsUp ==
  ASSUME NEW a, NEW p, NEW s, NEW b, NEW q, IsSeq(s), Leads(a, p, s, b, q)
  PROVE  a \in Nat /\ p \in Nat /\ b \in Nat /\ q \in Nat /\ p <= q
<1>1. Len(s) \in Nat
  BY Grown
<1>2. 0 \in 0..Len(s) /\ Len(s) \in 0..Len(s)
  BY <1>1
<1> QED BY <1>2 DEF Leads, Along

-----------------------------------------------------------------------------
(* Everything has its type. *)

Request == [op : {"get"}] \cup [op : {"subscribe"}, size : Maybe(Size)]
             \cup [op : {"resize"}, size : Size] \cup [op : {"input"}, what : Nat]
Up      == [op : {"resize"}, size : Size] \cup [op : {"input"}, what : Nat]
Content == [t : {"out"}, at : Nat] \cup [t : {"snapshot"}, at : Nat, size : Size]
Frame   == Content \cup [t : {"subscribed"}] \cup [t : {"ready", "resized", "meta"}, size : Size]
Message == Content \cup [t : {"hello", "ready", "resized"}, size : Size]
Item    == Content \cup [t : {"reset"}] \cup [t : {"ready"}, of : Nat]
Vote    == [attached : BOOLEAN, mine : Maybe(Fitting), others : Maybe(Fitting), last : {"mine", "others"}]

TypeInv ==
  /\ out \in Nat /\ size \in Fitting /\ votes \in Vote
  /\ request \in Seq(Request) /\ up \in Seq(Up) /\ frames \in Seq(Frame)
  /\ wire \in Seq(Message) /\ queue \in Seq(Item)
  /\ handler \in [stage : {"none", "getting", "got", "subscribing"}, attached : BOOLEAN,
                  size : Maybe(Size), meta : Maybe(Size)]
  /\ handler.stage \in {"got", "subscribing"} => handler.meta \in Size
  /\ socket \in [id : Nat, open : BOOLEAN, usable : BOOLEAN]
  /\ term \in [cols : Size, room : Size, proposed : Maybe(Size)]
  /\ screen \in [at : Nat, copied : Nat, mess : BOOLEAN] /\ replaying \in BOOLEAN
  /\ input \in [sent : BOOLEAN, notice : BOOLEAN] /\ lost \in BOOLEAN
  /\ accepted \in Seq(Nat) /\ typed \in Seq(Nat)

(* What is clamped fits, and what fits is clamped already. *)
LEMMA FittingSizes ==
  /\ Fitting \subseteq Size /\ None \notin Size
  /\ \A s \in Size : Clamped(s) \in Fitting
  /\ \A s \in Fitting : Clamped(s) = s
BY TerminalViewAssumption DEF Fitting, Clamped, Least, None

LEMMA TypeInit == Init => TypeInv
<1> SUFFICES ASSUME Init PROVE TypeInv
  OBVIOUS
<1>1. \A S : <<>> \in Seq(S)
  OBVIOUS
<1>2. PICK c \in Size : term = [cols |-> c, room |-> c, proposed |-> None]
  BY DEF Init
<1>3. term \in [cols : Size, room : Size, proposed : Maybe(Size)]
  BY <1>2 DEF Maybe
<1>4. votes \in Vote /\ size \in Fitting /\ out \in Nat
  BY DEF Init, Vote, Maybe
<1>5. handler \in [stage : {"none", "getting", "got", "subscribing"}, attached : BOOLEAN,
                  size : Maybe(Size), meta : Maybe(Size)] /\ handler.stage = "none"
  BY DEF Init, NoHandler, Maybe
<1>6. /\ request \in Seq(Request) /\ up \in Seq(Up) /\ frames \in Seq(Frame)
      /\ wire \in Seq(Message) /\ queue \in Seq(Item) /\ accepted \in Seq(Nat) /\ typed \in Seq(Nat)
  BY <1>1 DEF Init
<1>7. /\ socket \in [id : Nat, open : BOOLEAN, usable : BOOLEAN]
      /\ screen \in [at : Nat, copied : Nat, mess : BOOLEAN] /\ replaying \in BOOLEAN
      /\ input \in [sent : BOOLEAN, notice : BOOLEAN] /\ lost \in BOOLEAN
  BY DEF Init
<1> QED BY <1>3, <1>4, <1>5, <1>6, <1>7 DEF TypeInv

LEMMA VoteTypes ==
  ASSUME NEW v \in Vote, size \in Fitting
  PROVE  /\ Reconciled(v) \in Fitting /\ Reconciled(v) \in Size
         /\ Resized(v) \in Seq(Frame)
<1>1. Reconciled(v) \in Fitting
  BY DEF Reconciled, Vote, Maybe, Least
<1>2. Reconciled(v) \in Size
  BY <1>1, FittingSizes
<1>3. [t |-> "resized", size |-> Reconciled(v)] \in Frame
  BY <1>2 DEF Frame
<1> QED BY <1>1, <1>2, <1>3 DEF Resized

(* The votes that subscribing, resizing and typing leave. *)
Joined(s) == [votes EXCEPT !.attached = TRUE, !.mine = IF s = None THEN None ELSE Clamped(s),
                           !.last = IF s = None THEN @ ELSE "mine"]
Asks(s) == [votes EXCEPT !.mine = Clamped(s), !.last = "mine"]
Types   == [votes EXCEPT !.last = IF votes.mine = None THEN @ ELSE "mine"]

LEMMA NewVotes ==
  ASSUME votes \in Vote
  PROVE  /\ \A s \in Maybe(Size) : Joined(s) \in Vote /\ Joined(s).attached
         /\ \A s \in Size : Asks(s) \in Vote /\ Asks(s).attached = votes.attached
         /\ Types \in Vote /\ Types.attached = votes.attached
<1>1. ASSUME NEW s \in Maybe(Size) PROVE Joined(s) \in Vote /\ Joined(s).attached
  <2>1. (IF s = None THEN None ELSE Clamped(s)) \in Maybe(Fitting)
    BY FittingSizes DEF Maybe
  <2> QED BY <2>1 DEF Joined, Vote
<1>2. ASSUME NEW s \in Size PROVE Asks(s) \in Vote /\ Asks(s).attached = votes.attached
  <2>1. Clamped(s) \in Maybe(Fitting)
    BY FittingSizes DEF Maybe
  <2> QED BY <2>1 DEF Asks, Vote
<1>3. Types \in Vote /\ Types.attached = votes.attached
  BY DEF Types, Vote
<1> QED BY <1>1, <1>2, <1>3

LEMMA HeardTypes ==
  ASSUME frames \in Seq(Frame), NEW msgs \in Seq(Frame), Heard(msgs)
  PROVE  frames' \in Seq(Frame)
BY DEF Heard

LEMMA TypeStep ==
  ASSUME TypeInv, [Next]_vars
  PROVE  TypeInv'
<1> USE DEF TypeInv
<1>1. CASE UNCHANGED vars
  BY <1>1 DEF vars, ptydVars, browserVars, history
<1>2. CASE Emit
  <2>1. [t |-> "out", at |-> out + 1] \in Frame
    BY DEF Frame, Content
  <2>2. frames' \in Seq(Frame) /\ out' \in Nat
    BY <1>2, <2>1 DEF Emit
  <2> QED BY <1>2, <2>2 DEF Emit, browserVars, history
<1>3. CASE PtydServes
  <2>1. /\ request' \in Seq(Request) /\ Head(request) \in Request
        /\ UNCHANGED <<out, handler, wire, up, browserVars, accepted, lost>>
    BY <1>3 DEF PtydServes
  <2>2. CASE Head(request).op = "get" /\ Heard(<<[t |-> "meta", size |-> size]>>) /\ UNCHANGED <<size, votes, typed>>
    <3>1. <<[t |-> "meta", size |-> size]>> \in Seq(Frame)
      BY FittingSizes DEF Frame
    <3>2. frames' \in Seq(Frame)
      BY <2>2, <3>1, HeardTypes
    <3> QED BY <2>1, <2>2, <3>2 DEF browserVars
  <2>3. CASE Head(request).op = "subscribe" /\ Subscribe(Head(request).size)
    <3> DEFINE s == Head(request).size
               v == Joined(s)
               snapshot == IF out = 0 THEN <<>> ELSE <<[t |-> "snapshot", at |-> out, size |-> Reconciled(v)]>>
               msgs == Resized(v) \o <<[t |-> "subscribed"]>> \o snapshot \o <<[t |-> "ready", size |-> Reconciled(v)]>>
    <3>1. s \in Maybe(Size)
      BY <2>1, <2>3 DEF Request
    <3>2. v \in Vote
      BY <3>1, NewVotes
    <3>3. Subscribe(s)
      BY <2>3
    <3> HIDE DEF s
    <3>4. votes' = v /\ size' = Reconciled(v) /\ Heard(msgs) /\ UNCHANGED typed
      BY <3>3 DEF Subscribe, Voted, Joined
    <3> HIDE DEF v
    <3>5. Reconciled(v) \in Size /\ Reconciled(v) \in Fitting /\ Resized(v) \in Seq(Frame)
      BY <3>2, VoteTypes
    <3>6. /\ <<[t |-> "subscribed"]>> \in Seq(Frame) /\ snapshot \in Seq(Frame)
          /\ <<[t |-> "ready", size |-> Reconciled(v)]>> \in Seq(Frame)
      <4>1. [t |-> "subscribed"] \in Frame /\ [t |-> "ready", size |-> Reconciled(v)] \in Frame
        BY <3>5 DEF Frame
      <4>2. [t |-> "snapshot", at |-> out, size |-> Reconciled(v)] \in Frame
        BY <3>5 DEF Frame, Content
      <4>3. \A f \in Frame : <<f>> \in Seq(Frame)
        OBVIOUS
      <4>4. snapshot \in Seq(Frame)
        BY <4>2
      <4> QED BY <4>1, <4>3, <4>4
    <3>7. msgs \in Seq(Frame)
      <4> HIDE DEF snapshot
      <4> QED BY <3>5, <3>6
    <3> HIDE DEF msgs
    <3>8. frames' \in Seq(Frame)
      BY <3>4, <3>7, HeardTypes
    <3> QED BY <2>1, <3>2, <3>4, <3>5, <3>8 DEF browserVars
  <2>4. CASE Head(request).op = "resize" /\ Resize(Head(request).size)
    <3> DEFINE s == Head(request).size
               v == Asks(s)
    <3>1. s \in Size
      BY <2>1, <2>4 DEF Request
    <3>2. v \in Vote
      BY <3>1, NewVotes
    <3>3. Resize(s)
      BY <2>4
    <3> HIDE DEF s
    <3>4. votes' = v /\ size' = Reconciled(v) /\ Heard(Resized(v)) /\ UNCHANGED typed
      BY <3>3 DEF Resize, Voted, Asks
    <3> HIDE DEF v
    <3>5. Reconciled(v) \in Fitting /\ Resized(v) \in Seq(Frame)
      BY <3>2, VoteTypes
    <3>6. frames' \in Seq(Frame)
      BY <3>4, <3>5, HeardTypes
    <3> QED BY <2>1, <3>2, <3>4, <3>5, <3>6 DEF browserVars
  <2>5. CASE Head(request).op = "input" /\ Write(Head(request).what)
    <3>1. Head(request).what \in Nat
      BY <2>1, <2>5 DEF Request
    <3>2. votes' = Types /\ size' = Reconciled(Types) /\ Heard(Resized(Types))
          /\ typed' = Append(typed, Head(request).what)
      BY <2>5 DEF Write, Voted, Types
    <3>3. typed' \in Seq(Nat)
      BY <3>1, <3>2
    <3>4. Types \in Vote
      BY NewVotes
    <3>5. Reconciled(Types) \in Fitting /\ Resized(Types) \in Seq(Frame)
      BY <3>4, VoteTypes
    <3>6. frames' \in Seq(Frame)
      BY <3>2, <3>5, HeardTypes
    <3> QED BY <2>1, <3>2, <3>3, <3>4, <3>5, <3>6 DEF browserVars
  <2> QED BY <1>3, <2>2, <2>3, <2>4, <2>5 DEF PtydServes
<1>4. CASE OthersLeave
  <2> DEFINE v == [votes EXCEPT !.others = None, !.last = "mine"]
  <2>1. v \in Vote
    BY DEF Vote, Maybe
  <2>2. /\ votes' = v /\ size' = Reconciled(v) /\ Heard(Resized(v))
        /\ UNCHANGED <<out, request, handler, wire, up, browserVars, history>>
    BY <1>4 DEF OthersLeave, Voted
  <2> HIDE DEF v
  <2>3. Reconciled(v) \in Fitting /\ Resized(v) \in Seq(Frame)
    BY <2>1, VoteTypes
  <2>4. frames' \in Seq(Frame)
    BY <2>2, <2>3, HeardTypes
  <2> QED BY <2>1, <2>2, <2>3, <2>4 DEF browserVars, history
<1>5. ASSUME NEW s \in Size, OthersDeclare(s)
      PROVE  TypeInv'
  <2> DEFINE v == [votes EXCEPT !.others = Clamped(s), !.last = "others"]
  <2>1. v \in Vote
    BY FittingSizes DEF Vote, Maybe
  <2>2. /\ votes' = v /\ size' = Reconciled(v) /\ Heard(Resized(v))
        /\ UNCHANGED <<out, request, handler, wire, up, browserVars, history>>
    BY <1>5 DEF OthersDeclare, Voted
  <2> HIDE DEF v
  <2>3. Reconciled(v) \in Fitting /\ Resized(v) \in Seq(Frame)
    BY <2>1, VoteTypes
  <2>4. frames' \in Seq(Frame)
    BY <2>2, <2>3, HeardTypes
  <2> QED BY <2>1, <2>2, <2>3, <2>4 DEF browserVars, history
<1>6. ASSUME Gone PROVE TypeInv'
  <2>1. /\ socket' = [socket EXCEPT !.open = FALSE, !.usable = FALSE] /\ handler' = NoHandler
        /\ request' = <<>> /\ frames' = <<>> /\ wire' = <<>> /\ up' = <<>>
        /\ input' = [sent |-> FALSE, notice |-> input.notice \/ input.sent]
        /\ lost' = (lost \/ accepted # typed)
        /\ UNCHANGED <<out, term, queue, screen, replaying, accepted, typed>>
    BY <1>6 DEF Gone
  <2>2. PICK v \in Vote : votes' = v /\ size' = Reconciled(v)
    <3>1. [votes EXCEPT !.attached = FALSE, !.mine = None, !.last = "others"] \in Vote
      BY DEF Vote, Maybe
    <3>2. [attached |-> FALSE, mine |-> None, others |-> votes.mine, last |-> "others"] \in Vote
      BY DEF Vote, Maybe
    <3> QED BY <1>6, <3>1, <3>2 DEF Gone, Voted
  <2>3. size' \in Fitting
    BY <2>2, VoteTypes
  <2>4. handler' \in [stage : {"none", "getting", "got", "subscribing"}, attached : BOOLEAN,
                  size : Maybe(Size), meta : Maybe(Size)] /\ handler'.stage = "none"
    BY <2>1 DEF NoHandler, Maybe
  <2>5. socket' \in [id : Nat, open : BOOLEAN, usable : BOOLEAN] /\ input' \in [sent : BOOLEAN, notice : BOOLEAN]
    BY <2>1
  <2> QED BY <2>1, <2>2, <2>3, <2>4, <2>5
<1>7. ASSUME frames # <<>>, frames' = Tail(frames) PROVE frames' \in Seq(Frame) /\ Head(frames) \in Frame
  BY <1>7
<1>8. CASE Output
  <2>1. CASE Gone
    BY <1>6, <2>1
  <2>2. CASE /\ frames # <<>> /\ Head(frames).t \in {"out", "snapshot"}
             /\ frames' = Tail(frames)
             /\ wire' = Append(wire, Head(frames))
             /\ UNCHANGED <<ptydVars, request, handler, up, browserVars, history>>
    <3>1. Head(frames) \in Message
      BY <1>7, <2>2 DEF Frame, Message
    <3> QED BY <1>7, <2>2, <3>1 DEF ptydVars, browserVars, history
  <2> QED BY <1>8, <2>1, <2>2 DEF Output
<1>9. CASE Event
  <2>1. Head(frames) \in Message /\ frames' \in Seq(Frame)
    BY <1>7, <1>9 DEF Event, Frame, Message, Content
  <2>2. wire' \in Seq(Message)
    BY <1>9, <2>1 DEF Event
  <2>3. handler' \in [stage : {"none", "getting", "got", "subscribing"}, attached : BOOLEAN,
                  size : Maybe(Size), meta : Maybe(Size)] /\ handler'.stage = handler.stage /\ handler'.meta = handler.meta
    BY <1>9 DEF Event
  <2> QED BY <1>9, <2>1, <2>2, <2>3 DEF Event, ptydVars, browserVars, history
<1>10. CASE Answer
  <2>1. frames' \in Seq(Frame) /\ Head(frames) \in Frame
    BY <1>7, <1>10 DEF Answer
  <2>2. handler' \in [stage : {"none", "getting", "got", "subscribing"}, attached : BOOLEAN,
                  size : Maybe(Size), meta : Maybe(Size)] /\ (handler'.stage \in {"got", "subscribing"} => handler'.meta \in Size)
    <3>1. CASE Head(frames).t = "meta"
      <4>1. Head(frames).size \in Size
        BY <2>1, <3>1 DEF Frame, Content
      <4>2. handler' = [handler EXCEPT !.stage = "got", !.meta = Head(frames).size]
        BY <1>10, <3>1 DEF Answer
      <4> QED BY <4>1, <4>2 DEF Maybe
    <3>2. CASE Head(frames).t # "meta"
      BY <1>10, <3>2 DEF Answer
    <3> QED BY <3>1, <3>2
  <2> QED BY <1>10, <2>1, <2>2 DEF Answer, ptydVars, browserVars, history
<1>11. CASE Hello
  <2>1. [t |-> "hello", size |-> handler.meta] \in Message /\ [op |-> "subscribe", size |-> handler.size] \in Request
    BY <1>11 DEF Hello, Message, Request, Content
  <2>2. wire' \in Seq(Message) /\ request' \in Seq(Request)
    BY <1>11, <2>1 DEF Hello
  <2>3. handler' \in [stage : {"none", "getting", "got", "subscribing"}, attached : BOOLEAN,
                  size : Maybe(Size), meta : Maybe(Size)] /\ handler'.meta \in Size
    BY <1>11 DEF Hello
  <2> QED BY <1>11, <2>2, <2>3 DEF Hello, ptydVars, browserVars, history
<1>12. CASE FromBrowser
  <2>1. up' \in Seq(Up) /\ Head(up) \in Up
    BY <1>12 DEF FromBrowser
  <2>2. Head(up) \in Request
    BY <2>1 DEF Up, Request
  <2>3. request' \in Seq(Request)
    BY <1>12, <2>2 DEF FromBrowser
  <2> QED BY <1>12, <2>1, <2>3 DEF FromBrowser, ptydVars, browserVars, history
<1>13. CASE Connect
  <2>1. PICK s \in {None, term.proposed} : handler' = [stage |-> "getting", attached |-> FALSE, size |-> s, meta |-> None]
    BY <1>13 DEF Connect
  <2>2. handler' \in [stage : {"none", "getting", "got", "subscribing"}, attached : BOOLEAN,
                  size : Maybe(Size), meta : Maybe(Size)] /\ handler'.stage = "getting"
    BY <2>1 DEF Maybe
  <2>3. request' \in Seq(Request)
    <3>1. [op |-> "get"] \in Request
      BY DEF Request
    <3> QED BY <1>13, <3>1 DEF Connect
  <2>4. socket' \in [id : Nat, open : BOOLEAN, usable : BOOLEAN]
    BY <1>13 DEF Connect
  <2>5. accepted' = <<>> /\ typed' = <<>>
    BY <1>13 DEF Connect
  <2> QED BY <1>13, <2>2, <2>3, <2>4, <2>5 DEF Connect, ptydVars
<1>14. CASE Disconnect
  BY <1>6, <1>14 DEF Disconnect
<1>15. CASE Receive
  <2>1. wire' \in Seq(Message) /\ Head(wire) \in Message
    BY <1>15 DEF Receive
  <2> DEFINE m == Head(wire)
  <2>2. queue' \in Seq(Item) /\ UNCHANGED <<screen, replaying>>
    <3>1. [t |-> "reset"] \in Item /\ [t |-> "ready", of |-> socket.id] \in Item
      BY DEF Item
    <3>2. m.t \in {"out", "snapshot"} => m \in Item
      BY <2>1 DEF Message, Item
    <3>3. Received(m)
      BY <1>15 DEF Receive
    <3> HIDE DEF m
    <3>4. /\ UNCHANGED <<screen, replaying>>
          /\ \/ queue' = Append(queue, [t |-> "reset"]) \/ queue' = Append(queue, [t |-> "ready", of |-> socket.id])
             \/ m.t \in {"out", "snapshot"} /\ queue' = Append(queue, m)
             \/ queue' = queue
      BY <3>3 DEF Received
    <3>5. \A i \in Item : Append(queue, i) \in Seq(Item)
      OBVIOUS
    <3>6. CASE m.t \in {"out", "snapshot"} /\ queue' = Append(queue, m)
      BY <3>2, <3>4, <3>5, <3>6
    <3>7. CASE queue' = queue
      BY <3>4, <3>7
    <3> QED BY <3>1, <3>4, <3>5, <3>6, <3>7
  <2>3. term' \in [cols : Size, room : Size, proposed : Maybe(Size)]
    <3>1. m.t \in {"hello", "ready", "resized"} => m.size \in Size
      BY <2>1 DEF Message, Content
    <3>2. term' = Sized(m)
      BY <1>15 DEF Receive
    <3> HIDE DEF m
    <3> QED BY <3>1, <3>2 DEF Sized
  <2> QED BY <1>15, <2>1, <2>2, <2>3 DEF Receive, ptydVars, history
<1>16. CASE Parse
  <2>1. queue' \in Seq(Item) /\ Head(queue) \in Item
    BY <1>16 DEF Parse
  <2> DEFINE m == Head(queue)
  <2>2. m.t \in {"out", "snapshot"} => m.at \in Nat
    BY <2>1 DEF Item, Content
  <2>3. /\ screen' \in [at : Nat, copied : Nat, mess : BOOLEAN] /\ replaying' \in BOOLEAN
        /\ socket' \in [id : Nat, open : BOOLEAN, usable : BOOLEAN]
    <3>1. CASE m.t = "reset" /\ screen' = [screen EXCEPT !.at = 0] /\ replaying' = TRUE /\ UNCHANGED socket
      BY <3>1
    <3>2. ASSUME m.t \in {"out", "snapshot"}, NEW k, screen' = Parsed(m, k), UNCHANGED <<replaying, socket>>
          PROVE  <2>3!1
      <4> HIDE DEF m
      <4> QED BY <2>2, <3>2 DEF Parsed
    <3>3. CASE /\ IF socket.open /\ socket.id = m.of
                  THEN replaying' = FALSE /\ socket' = [socket EXCEPT !.usable = TRUE]
                  ELSE UNCHANGED <<replaying, socket>>
               /\ UNCHANGED screen
      BY <3>3
    <3> HIDE DEF m
    <3>4. \/ m.t = "reset" /\ screen' = [screen EXCEPT !.at = 0] /\ replaying' = TRUE /\ UNCHANGED socket
          \/ m.t = "snapshot" /\ screen' = Parsed(m, 0) /\ UNCHANGED <<replaying, socket>>
          \/ m.t = "out" /\ screen' = Parsed(m, m.at - 1) /\ UNCHANGED <<replaying, socket>>
          \/ /\ IF socket.open /\ socket.id = m.of
                  THEN replaying' = FALSE /\ socket' = [socket EXCEPT !.usable = TRUE]
                  ELSE UNCHANGED <<replaying, socket>>
             /\ UNCHANGED screen
      BY <1>16 DEF Parse, m
    <3> QED BY <3>1, <3>2, <3>3, <3>4
  <2> QED BY <1>16, <2>1, <2>3 DEF Parse, ptydVars, history
<1>17. ASSUME NEW s \in Size, PaneChanges(s) PROVE TypeInv'
  <2>1. term' \in [cols : Size, room : Size, proposed : Maybe(Size)]
    BY <1>17 DEF PaneChanges
  <2> QED BY <1>17, <2>1 DEF PaneChanges, ptydVars, history
<1>18. Measured.term \in [cols : Size, room : Size, proposed : Maybe(Size)] /\ Measured.sent \in Seq(Up)
  <2>1. [op |-> "resize", size |-> term.room] \in Up
    BY DEF Up
  <2>2. /\ Measured.term = [term EXCEPT !.proposed = term.room, !.cols = term.room]
           \/ Measured.term = [term EXCEPT !.proposed = term.room]
        /\ Measured.sent = <<[op |-> "resize", size |-> term.room]>> \/ Measured.sent = <<>>
    BY DEF Measured
  <2>3. /\ [term EXCEPT !.proposed = term.room, !.cols = term.room] \in [cols : Size, room : Size, proposed : Maybe(Size)]
        /\ [term EXCEPT !.proposed = term.room] \in [cols : Size, room : Size, proposed : Maybe(Size)]
    BY DEF Maybe
  <2>4. <<[op |-> "resize", size |-> term.room]>> \in Seq(Up) /\ <<>> \in Seq(Up)
    BY <2>1
  <2> QED BY <2>2, <2>3, <2>4
<1>19. CASE Measure
  <2>1. up' \in Seq(Up) /\ term' \in [cols : Size, room : Size, proposed : Maybe(Size)]
    BY <1>18, <1>19 DEF Measure
  <2> QED BY <1>19, <2>1 DEF Measure, ptydVars, history
<1>20. CASE Type
  <2>1. PICK m \in {Unmeasured} \cup (IF MayMeasure THEN {Measured} ELSE {}) :
       /\ term' = m.term
       /\ IF socket.usable
          THEN /\ up' = up \o m.sent \o <<[op |-> "input", what |-> Len(accepted) + 1]>>
               /\ accepted' = Append(accepted, Len(accepted) + 1)
               /\ input' = [sent |-> TRUE, notice |-> FALSE]
               /\ lost' = FALSE
          ELSE /\ input' = [input EXCEPT !.notice = TRUE]
               /\ UNCHANGED <<up, accepted, lost>>
    BY <1>20 DEF Type
  <2>2. m.term \in [cols : Size, room : Size, proposed : Maybe(Size)] /\ m.sent \in Seq(Up)
    <3>1. m = Unmeasured \/ m = Measured
      BY <2>1
    <3>2. Unmeasured.term = term /\ Unmeasured.sent = <<>> /\ <<>> \in Seq(Up)
      BY DEF Unmeasured
    <3> QED BY <1>18, <3>1, <3>2
  <2>3. [op |-> "input", what |-> Len(accepted) + 1] \in Up /\ Len(accepted) + 1 \in Nat
    BY DEF Up
  <2>4. up' \in Seq(Up)
    <3>1. up \o m.sent \o <<[op |-> "input", what |-> Len(accepted) + 1]>> \in Seq(Up)
      BY <2>2, <2>3
    <3> QED BY <2>1, <3>1
  <2>5. accepted' \in Seq(Nat) /\ input' \in [sent : BOOLEAN, notice : BOOLEAN] /\ lost' \in BOOLEAN
    <3>1. CASE socket.usable
      <4>1. accepted' = Append(accepted, Len(accepted) + 1) /\ input' = [sent |-> TRUE, notice |-> FALSE] /\ lost' = FALSE
        BY <2>1, <3>1
      <4>2. accepted \in Seq(Nat)
        OBVIOUS
      <4>3. accepted' \in Seq(Nat)
        BY <2>3, <4>1, <4>2
      <4>4. input' \in [sent : BOOLEAN, notice : BOOLEAN] /\ lost' \in BOOLEAN
        BY <4>1
      <4> QED BY <4>3, <4>4
    <3>2. CASE ~socket.usable
      <4>1. accepted' = accepted /\ input' = [input EXCEPT !.notice = TRUE] /\ lost' = lost
        BY <2>1, <3>2
      <4> QED BY <4>1
    <3> QED BY <3>1, <3>2
  <2> QED BY <1>20, <2>1, <2>2, <2>4, <2>5 DEF Type, ptydVars
<1>21. CASE Dismiss
  BY <1>21 DEF Dismiss, ptydVars
<1> QED BY <1>1, <1>2, <1>3, <1>4, <1>5, <1>8, <1>9, <1>10, <1>11, <1>12, <1>13, <1>14, <1>15, <1>16, <1>17, <1>19, <1>20, <1>21
     DEF Next, FromPtyd

-----------------------------------------------------------------------------
(* What ptyd sends when a size may have changed, and when it is subscribed. *)

ResizedTo(s) == [t |-> "resized", size |-> s]

LEMMA HeardResized ==
  ASSUME IsSeq(frames), NEW v, Heard(Resized(v))
  PROVE  /\ Reconciled(v) = size \/ handler.stage = "none" => frames' = frames
         /\ Reconciled(v) # size /\ handler.stage # "none" => frames' = Append(frames, ResizedTo(Reconciled(v)))
<1>1. CASE handler.stage = "none"
  BY <1>1 DEF Heard
<1>2. CASE handler.stage # "none" /\ Reconciled(v) = size
  BY <1>2, Grown DEF Heard, Resized
<1>3. CASE handler.stage # "none" /\ Reconciled(v) # size
  <2>1. frames' = frames \o <<ResizedTo(Reconciled(v))>>
    BY <1>3 DEF Heard, Resized, ResizedTo
  <2> QED BY <1>3, <2>1, Grown
<1> QED BY <1>1, <1>2, <1>3

LEMMA OneFirst ==
  ASSUME NEW S, NEW a \in Seq(S), NEW b \in Seq(S), NEW c \in Seq(S)
  PROVE  a \o (b \o c) = (a \o b) \o c
OBVIOUS

LEMMA TwoFirst ==
  ASSUME NEW S, NEW s \in Seq(S), NEW a \in Seq(S), NEW b \in Seq(S), NEW c \in Seq(S)
  PROVE  s \o (a \o b \o c) = ((s \o a) \o b) \o c
<1>1. a \o b \in Seq(S)
  OBVIOUS
<1>2. s \o ((a \o b) \o c) = (s \o (a \o b)) \o c
  BY <1>1, OneFirst
<1>3. s \o (a \o b) = (s \o a) \o b
  BY OneFirst
<1> QED BY <1>2, <1>3

LEMMA HeardSubscribed ==
  ASSUME frames \in Seq(Frame), NEW s, Subscribe(s), handler.stage # "none", size \in Fitting, out \in Nat,
         votes \in Vote, s \in Maybe(Size)
  PROVE  /\ votes'.attached /\ votes' \in Vote /\ size' \in Size
         /\ \E f1, f2, f3 \in Seq(Frame) :
              /\ f1 = frames \/ f1 = Append(frames, ResizedTo(size'))
              /\ f2 = Append(f1, [t |-> "subscribed"])
              /\ f3 = IF out = 0 THEN f2 ELSE Append(f2, [t |-> "snapshot", at |-> out, size |-> size'])
              /\ frames' = Append(f3, [t |-> "ready", size |-> size'])
<1> DEFINE v == Joined(s)
           sub == [t |-> "subscribed"]
           ss == [t |-> "snapshot", at |-> out, size |-> Reconciled(v)]
           ready == [t |-> "ready", size |-> Reconciled(v)]
           snapshot == IF out = 0 THEN <<>> ELSE <<ss>>
<1>1. v \in Vote /\ v.attached
  BY NewVotes
<1>2. votes' = v /\ size' = Reconciled(v) /\ Heard(Resized(v) \o <<sub>> \o snapshot \o <<ready>>)
  BY DEF Subscribe, Voted, Joined
<1> HIDE DEF v
<1>3. Reconciled(v) \in Size /\ Resized(v) \in Seq(Frame)
  BY <1>1, VoteTypes
<1>4. sub \in Frame /\ ss \in Frame /\ ready \in Frame
  BY <1>3 DEF Frame, Content
<1> HIDE DEF sub, ss, ready
<1>5. <<sub>> \in Seq(Frame) /\ snapshot \in Seq(Frame) /\ <<ready>> \in Seq(Frame)
  <2>1. \A f \in Frame : <<f>> \in Seq(Frame)
    OBVIOUS
  <2>2. snapshot \in Seq(Frame)
    BY <1>4, <2>1
  <2> QED BY <1>4, <2>1, <2>2
<1> HIDE DEF snapshot
<1>6. frames' = frames \o (Resized(v) \o <<sub>> \o snapshot \o <<ready>>)
  BY <1>2 DEF Heard
<1> DEFINE x == Resized(v) \o <<sub>>
<1>17. x \in Seq(Frame)
  BY <1>3, <1>5
<1>18. frames \o x = (frames \o Resized(v)) \o <<sub>>
  BY <1>3, <1>5, OneFirst
<1> HIDE DEF x
<1>19. frames' = frames \o (x \o snapshot \o <<ready>>)
  BY <1>6 DEF x
<1>20. frames \o (x \o snapshot \o <<ready>>) = (frames \o x) \o snapshot \o <<ready>>
  BY <1>5, <1>17, TwoFirst
<1>7. frames' = ((frames \o Resized(v)) \o <<sub>>) \o snapshot \o <<ready>>
  BY <1>18, <1>19, <1>20
<1> DEFINE f1 == frames \o Resized(v)
           f2 == f1 \o <<sub>>
           f3 == f2 \o snapshot
<1>8. f1 \in Seq(Frame) /\ f2 \in Seq(Frame) /\ f3 \in Seq(Frame)
  BY <1>3, <1>5
<1>9. frames' = f3 \o <<ready>>
  BY <1>7
<1>10. f1 = frames \/ f1 = Append(frames, ResizedTo(Reconciled(v)))
  <2>1. IsSeq(frames)
    BY DEF IsSeq
  <2>2. Resized(v) = <<>> \/ Resized(v) = <<ResizedTo(Reconciled(v))>>
    BY DEF Resized, ResizedTo
  <2> QED BY <2>1, <2>2, Grown
<1> HIDE DEF f1
<1>11. f2 = Append(f1, sub)
  <2>1. IsSeq(f1)
    BY <1>8 DEF IsSeq
  <2> QED BY <2>1, Grown
<1> HIDE DEF f2
<1>12. f3 = IF out = 0 THEN f2 ELSE Append(f2, ss)
  <2>1. IsSeq(f2)
    BY <1>8 DEF IsSeq
  <2>2. CASE out = 0
    <3>1. snapshot = <<>>
      BY <2>2 DEF snapshot
    <3> QED BY <2>1, <2>2, <3>1, Grown
  <2>3. CASE out # 0
    <3>1. snapshot = <<ss>>
      BY <2>3 DEF snapshot
    <3> QED BY <2>1, <2>3, <3>1, Grown
  <2> QED BY <2>2, <2>3
<1> HIDE DEF f3
<1>13. frames' = Append(f3, ready)
  <2>1. IsSeq(f3)
    BY <1>8 DEF IsSeq
  <2> QED BY <1>9, <2>1, Grown
<1>14. ss = [t |-> "snapshot", at |-> out, size |-> size'] /\ ready = [t |-> "ready", size |-> size']
       /\ sub = [t |-> "subscribed"]
  BY <1>2 DEF ss, ready, sub
<1>15. votes'.attached /\ votes' \in Vote /\ size' \in Size
  BY <1>1, <1>2, <1>3
<1>16. f1 = frames \/ f1 = Append(frames, ResizedTo(size'))
  BY <1>2, <1>10
<1> QED BY <1>8, <1>11, <1>12, <1>13, <1>14, <1>15, <1>16

-----------------------------------------------------------------------------
(* How far a connection has come: only one that has its answer asks to be   *)
(* subscribed, once; only one that is subscribed hears output and its       *)
(* `ready`; and only after that does it take input.                         *)

EarlyFrame == {f \in Frame : f.t \in {"resized", "meta"}}
LaterFrame == {f \in Frame : f.t # "meta"}
Unready    == {m \in Message : m.t # "ready"}
Stale(n)   == {i \in Item : i.t = "ready" => i.of < n}

PhaseInv ==
  /\ socket.open <=> handler.stage # "none"
  /\ socket.usable => socket.open
  /\ handler.stage = "none" => request = <<>> /\ frames = <<>> /\ wire = <<>> /\ up = <<>>
  /\ handler.stage = "getting" =>
       \/ request = <<[op |-> "get"]>> /\ frames \in Seq(LaterFrame)
       \/ /\ request = <<>>
          /\ \A i, j \in 1..Len(frames) : frames[i].t = "meta" /\ frames[j].t = "meta" => i = j
  /\ handler.stage = "got" => request = <<>>
  /\ handler.stage = "subscribing" /\ ~votes.attached => \E s \in Maybe(Size) : request = <<[op |-> "subscribe", size |-> s]>>
  /\ votes.attached => request \in Seq(Up) /\ handler.stage = "subscribing"
  /\ ~votes.attached => frames \in Seq(EarlyFrame)
  /\ handler.stage # "getting" => frames \in Seq(LaterFrame)
  /\ handler.attached => votes.attached
  /\ handler.attached \/ (~socket.usable /\ up = <<>> /\ wire \in Seq(Unready))
  /\ handler.attached \/ ~socket.open \/ queue \in Seq(Stale(socket.id))
  /\ queue \in Seq(Stale(socket.id + 1))

LEMMA SeqGrows ==
  ASSUME NEW S, NEW T, S \subseteq T, NEW s \in Seq(S)
  PROVE  s \in Seq(T)
OBVIOUS

LEMMA AppendIn ==
  ASSUME NEW S, NEW s \in Seq(S), NEW m \in S
  PROVE  Append(s, m) \in Seq(S)
OBVIOUS

LEMMA TailIn ==
  ASSUME NEW S, NEW s \in Seq(S), s # <<>>
  PROVE  Tail(s) \in Seq(S) /\ Head(s) \in S
OBVIOUS

LEMMA PhaseInit == Init => PhaseInv
<1> SUFFICES ASSUME Init PROVE PhaseInv
  OBVIOUS
<1>1. \A S : <<>> \in Seq(S)
  OBVIOUS
<1> QED BY <1>1 DEF Init, PhaseInv, NoHandler

(* A size that changed is told; nothing else happens. *)
LEMMA PhaseResized ==
  ASSUME TypeInv, PhaseInv, NEW v \in Vote, Heard(Resized(v)), votes'.attached = votes.attached,
         UNCHANGED <<handler, wire, up, socket, queue>>,
         \/ request' = request
         \/ votes.attached /\ request' \in Seq(Up)
  PROVE  PhaseInv'
<1>1. IsSeq(frames) /\ frames \in Seq(Frame) /\ votes.attached \in BOOLEAN
  BY DEF TypeInv, IsSeq, Vote
<1>2. PICK r : r = ResizedTo(Reconciled(v))
  OBVIOUS
<1>3. r \in EarlyFrame /\ r \in LaterFrame /\ r.t = "resized"
  <2>1. Reconciled(v) \in Size
    BY VoteTypes DEF TypeInv
  <2> QED BY <1>2, <2>1 DEF EarlyFrame, LaterFrame, Frame, ResizedTo
<1>4. CASE frames' = frames
  BY <1>4 DEF PhaseInv
<1>5. CASE frames' = Append(frames, r) /\ handler.stage # "none"
  <2>1. \A S : frames \in Seq(S) /\ r \in S => frames' \in Seq(S)
    BY <1>5, AppendIn
  <2>2. /\ frames \in Seq(EarlyFrame) => frames' \in Seq(EarlyFrame)
        /\ frames \in Seq(LaterFrame) => frames' \in Seq(LaterFrame)
    BY <1>3, <2>1
  <2>3. ASSUME \A i, j \in 1..Len(frames) : frames[i].t = "meta" /\ frames[j].t = "meta" => i = j
        PROVE  \A i, j \in 1..Len(frames') : frames'[i].t = "meta" /\ frames'[j].t = "meta" => i = j
    <3>1. Len(frames) \in Nat /\ Len(frames') = Len(frames) + 1 /\ frames'[Len(frames) + 1] = r
          /\ \A i \in 1..Len(frames) : frames'[i] = frames[i]
      BY <1>1, <1>5, Grown
    <3>2. \A i \in 1..Len(frames') : frames'[i].t = "meta" => i \in 1..Len(frames) /\ frames[i].t = "meta"
      BY <1>3, <3>1
    <3> QED BY <2>3, <3>2
  <2> QED BY <1>5, <2>2, <2>3 DEF PhaseInv
<1> QED BY <1>1, <1>2, <1>4, <1>5, HeardResized

LEMMA AtMostOneMeta ==
  ASSUME NEW s \in Seq(LaterFrame), NEW m
  PROVE  \A i, j \in 1..Len(Append(s, m)) : Append(s, m)[i].t = "meta" /\ Append(s, m)[j].t = "meta" => i = j
<1>1. IsSeq(s)
  BY DEF IsSeq
<1>2. /\ Len(s) \in Nat /\ Len(Append(s, m)) = Len(s) + 1
      /\ \A i \in 1..Len(s) : Append(s, m)[i] = s[i] /\ s[i] \in LaterFrame
  BY <1>1, Grown
<1>3. \A i \in 1..Len(Append(s, m)) : Append(s, m)[i].t = "meta" => i = Len(s) + 1
  BY <1>2 DEF LaterFrame
<1> QED BY <1>3

LEMMA NoMoreMeta ==
  ASSUME NEW s \in Seq(Frame), s # <<>>,
         \A i, j \in 1..Len(s) : s[i].t = "meta" /\ s[j].t = "meta" => i = j
  PROVE  /\ \A i, j \in 1..Len(Tail(s)) : Tail(s)[i].t = "meta" /\ Tail(s)[j].t = "meta" => i = j
         /\ Head(s).t = "meta" => Tail(s) \in Seq(LaterFrame)
<1>1. IsSeq(s)
  BY DEF IsSeq
<1>2. /\ Tail(s) \in Seq(Frame) /\ Len(s) \in Nat \ {0} /\ Len(Tail(s)) = Len(s) - 1 /\ Head(s) = s[1]
      /\ \A i \in 1..Len(s) - 1 : Tail(s)[i] = s[i + 1]
  BY <1>1, Shortened, TailIn
<1> DEFINE t == Tail(s)
           n == Len(s)
<1> HIDE DEF t, n
<1>3. /\ t \in Seq(Frame) /\ n \in Nat \ {0} /\ Len(t) = n - 1 /\ Head(s) = s[1]
      /\ \A i \in 1..n - 1 : t[i] = s[i + 1]
  BY <1>2 DEF t, n
<1>4. \A i \in 1..n - 1 : i + 1 \in 1..n /\ i + 1 # 1 /\ 1 \in 1..n
  BY <1>3
<1>5. \A i, j \in 1..Len(t) : t[i].t = "meta" /\ t[j].t = "meta" => i = j
  <2> TAKE i, j \in 1..Len(t)
  <2>1. i \in 1..n - 1 /\ j \in 1..n - 1 /\ (i + 1 = j + 1 => i = j)
    BY <1>3
  <2>2. t[i] = s[i + 1] /\ t[j] = s[j + 1] /\ i + 1 \in 1..n /\ j + 1 \in 1..n
    BY <1>3, <1>4, <2>1
  <2> QED BY <2>1, <2>2 DEF n
<1>6. ASSUME Head(s).t = "meta" PROVE t \in Seq(LaterFrame)
  <2>1. \A i \in 1..Len(t) : t[i].t # "meta"
    <3> TAKE i \in 1..Len(t)
    <3>1. i \in 1..n - 1
      BY <1>3
    <3>2. t[i] = s[i + 1] /\ i + 1 \in 1..n /\ 1 \in 1..n /\ i + 1 # 1
      BY <1>3, <1>4, <3>1
    <3> QED BY <1>3, <1>6, <3>2 DEF n
  <2>2. \A i \in 1..Len(t) : t[i] \in LaterFrame
    BY <1>3, <2>1 DEF LaterFrame
  <2> QED BY <1>3, <2>2
<1> QED BY <1>5, <1>6 DEF t

LEMMA PhaseGone ==
  ASSUME TypeInv, PhaseInv, Gone
  PROVE  PhaseInv'
<1>1. /\ socket' = [socket EXCEPT !.open = FALSE, !.usable = FALSE] /\ handler' = NoHandler
      /\ request' = <<>> /\ frames' = <<>> /\ wire' = <<>> /\ up' = <<>> /\ UNCHANGED queue
  BY DEF Gone
<1>2. ~votes'.attached
  <2>1. PICK v : votes' = v /\ (v = [votes EXCEPT !.attached = FALSE, !.mine = None, !.last = "others"]
                               \/ v = [attached |-> FALSE, mine |-> None, others |-> votes.mine, last |-> "others"])
    BY DEF Gone, Voted
  <2>2. ~[votes EXCEPT !.attached = FALSE, !.mine = None, !.last = "others"].attached
    BY DEF TypeInv, Vote
  <2>3. ~[attached |-> FALSE, mine |-> None, others |-> votes.mine, last |-> "others"].attached
    OBVIOUS
  <2> QED BY <2>1, <2>2, <2>3
<1>3. ~socket'.open /\ ~socket'.usable /\ socket'.id = socket.id
  BY <1>1 DEF TypeInv
<1>4. \A S : <<>> \in Seq(S)
  OBVIOUS
<1> QED BY <1>1, <1>2, <1>3, <1>4 DEF PhaseInv, NoHandler

LEMMA PhaseServes ==
  ASSUME TypeInv, PhaseInv, PtydServes
  PROVE  PhaseInv'
<1> DEFINE r == Head(request)
<1>1. /\ request # <<>> /\ request' = Tail(request)
      /\ UNCHANGED <<out, handler, wire, up, browserVars, accepted, lost>>
  BY DEF PtydServes
<1>2. handler.stage # "none" /\ handler.stage # "got"
  BY <1>1 DEF PhaseInv
<1>3. CASE r.op = "get" /\ Heard(<<[t |-> "meta", size |-> size]>>) /\ UNCHANGED <<size, votes, typed>>
  <2>1. ~votes.attached
    <3>1. request \in Seq(Up) => r \in Up
      BY <1>1, TailIn
    <3>2. \A u \in Up : u.op # "get"
      BY DEF Up
    <3> QED BY <1>3, <3>1, <3>2 DEF PhaseInv
  <2>2. handler.stage = "getting"
    <3>1. ~\E s : request = <<[op |-> "subscribe", size |-> s]>>
      BY <1>3
    <3> QED BY <1>2, <2>1, <3>1 DEF PhaseInv, TypeInv
  <2>3. request = <<[op |-> "get"]>> /\ frames \in Seq(LaterFrame)
    BY <1>1, <2>2 DEF PhaseInv
  <2>4. request' = <<>>
    BY <1>1, <2>3
  <2>5. PICK m : m = [t |-> "meta", size |-> size]
    OBVIOUS
  <2>6. frames' = Append(frames, m)
    <3>1. IsSeq(frames)
      BY DEF TypeInv, IsSeq
    <3> QED BY <1>2, <1>3, <2>5, <3>1, Grown DEF Heard
  <2>7. frames' \in Seq(EarlyFrame)
    <3>1. m \in EarlyFrame
      BY <2>5, FittingSizes DEF TypeInv, EarlyFrame, Frame
    <3> QED BY <2>1, <2>6, <3>1, AppendIn DEF PhaseInv
  <2>8. \A i, j \in 1..Len(frames') : frames'[i].t = "meta" /\ frames'[j].t = "meta" => i = j
    BY <2>3, <2>6, AtMostOneMeta
  <2> QED BY <1>1, <1>3, <2>1, <2>2, <2>4, <2>7, <2>8 DEF PhaseInv, browserVars
<1>4. CASE r.op = "subscribe" /\ Subscribe(r.size)
  <2>1. ~votes.attached
    <3>1. request \in Seq(Up) => r \in Up
      BY <1>1, TailIn
    <3>2. \A u \in Up : u.op # "subscribe"
      BY DEF Up
    <3> QED BY <1>4, <3>1, <3>2 DEF PhaseInv
  <2>2. handler.stage = "subscribing"
    <3>1. request # <<[op |-> "get"]>>
      BY <1>4
    <3> QED BY <1>1, <1>2, <3>1 DEF PhaseInv, TypeInv
  <2>3. PICK s \in Maybe(Size) : request = <<[op |-> "subscribe", size |-> s]>>
    BY <2>1, <2>2 DEF PhaseInv
  <2>4. request' = <<>> /\ r.size = s
    BY <1>1, <2>3
  <2>5. Subscribe(s)
    BY <1>4, <2>4
  <2>6. votes'.attached /\ size' \in Size
        /\ \E f1, f2, f3 \in Seq(Frame) :
              /\ f1 = frames \/ f1 = Append(frames, ResizedTo(size'))
              /\ f2 = Append(f1, [t |-> "subscribed"])
              /\ f3 = IF out = 0 THEN f2 ELSE Append(f2, [t |-> "snapshot", at |-> out, size |-> size'])
              /\ frames' = Append(f3, [t |-> "ready", size |-> size'])
    BY <2>2, <2>5, HeardSubscribed DEF TypeInv
  <2>7. PICK z : z = size'
    OBVIOUS
  <2>8. PICK f1, f2, f3 :
              /\ f1 = frames \/ f1 = Append(frames, ResizedTo(z))
              /\ f2 = Append(f1, [t |-> "subscribed"])
              /\ f3 = IF out = 0 THEN f2 ELSE Append(f2, [t |-> "snapshot", at |-> out, size |-> z])
              /\ frames' = Append(f3, [t |-> "ready", size |-> z])
    BY <2>6, <2>7
  <2>9. /\ ResizedTo(z) \in LaterFrame /\ [t |-> "subscribed"] \in LaterFrame
        /\ [t |-> "snapshot", at |-> out, size |-> z] \in LaterFrame /\ [t |-> "ready", size |-> z] \in LaterFrame
    BY <2>6, <2>7 DEF LaterFrame, Frame, Content, ResizedTo, TypeInv
  <2>10. frames \in Seq(LaterFrame)
    BY <2>2 DEF PhaseInv
  <2>11. f1 \in Seq(LaterFrame)
    BY <2>8, <2>9, <2>10, AppendIn
  <2>12. f2 \in Seq(LaterFrame)
    BY <2>8, <2>9, <2>11, AppendIn
  <2>13. f3 \in Seq(LaterFrame)
    BY <2>8, <2>9, <2>12, AppendIn
  <2>14. frames' \in Seq(LaterFrame)
    BY <2>8, <2>9, <2>13, AppendIn
  <2>15. <<>> \in Seq(Up)
    OBVIOUS
  <2> QED BY <1>1, <2>2, <2>4, <2>6, <2>14, <2>15 DEF PhaseInv, browserVars
<1>5. votes.attached => request' \in Seq(Up)
  BY <1>1, TailIn DEF PhaseInv
<1>6. ASSUME ~votes.attached PROVE r.op \in {"get", "subscribe"}
  <2>1. request = <<[op |-> "get"]>> \/ \E s : request = <<[op |-> "subscribe", size |-> s]>>
    BY <1>1, <1>2, <1>6 DEF PhaseInv, TypeInv
  <2> QED BY <2>1
<1>7. CASE r.op = "resize" /\ Resize(r.size)
  <2> DEFINE s == r.size
             v == Asks(s)
  <2>1. votes.attached /\ r \in Request
    BY <1>1, <1>6, <1>7, TailIn DEF TypeInv
  <2>2. s \in Size
    BY <1>7, <2>1 DEF Request
  <2>3. Resize(s)
    BY <1>7
  <2> HIDE DEF s
  <2>4. v \in Vote /\ v.attached = votes.attached
    BY <2>2, NewVotes DEF TypeInv
  <2>5. votes' = v /\ Heard(Resized(v))
    BY <2>3 DEF Resize, Voted, Asks
  <2> HIDE DEF v
  <2> QED BY <1>1, <1>5, <2>1, <2>4, <2>5, PhaseResized DEF browserVars
<1>8. CASE r.op = "input" /\ Write(r.what)
  <2>1. votes.attached
    BY <1>6, <1>8
  <2>2. Types \in Vote /\ Types.attached = votes.attached
    BY NewVotes DEF TypeInv
  <2>3. votes' = Types /\ Heard(Resized(Types))
    BY <1>8 DEF Write, Voted, Types
  <2> QED BY <1>1, <1>5, <2>1, <2>2, <2>3, PhaseResized DEF browserVars
<1> QED BY <1>3, <1>4, <1>7, <1>8 DEF PtydServes

LEMMA PhaseFromPtyd ==
  ASSUME TypeInv, PhaseInv, FromPtyd
  PROVE  PhaseInv'
<1> DEFINE f == Head(frames)
<1>1. ASSUME frames # <<>>, frames' = Tail(frames)
      PROVE  /\ f \in Frame /\ handler.stage # "none"
             /\ \A S : frames \in Seq(S) => frames' \in Seq(S) /\ f \in S
             /\ (\A i, j \in 1..Len(frames) : frames[i].t = "meta" /\ frames[j].t = "meta" => i = j) =>
                  /\ \A i, j \in 1..Len(frames') : frames'[i].t = "meta" /\ frames'[j].t = "meta" => i = j
                  /\ f.t = "meta" => frames' \in Seq(LaterFrame)
  <2>1. f \in Frame
    BY <1>1, TailIn DEF TypeInv
  <2>2. handler.stage # "none"
    BY <1>1 DEF PhaseInv
  <2>3. \A S : frames \in Seq(S) => frames' \in Seq(S) /\ f \in S
    BY <1>1, TailIn
  <2> QED BY <1>1, <2>1, <2>2, <2>3, NoMoreMeta DEF TypeInv
<1>2. CASE Output
  <2>1. CASE Gone
    BY <2>1, PhaseGone
  <2>2. CASE /\ frames # <<>> /\ f.t \in {"out", "snapshot"}
             /\ frames' = Tail(frames) /\ wire' = Append(wire, f)
             /\ UNCHANGED <<ptydVars, request, handler, up, browserVars, history>>
    <3>1. f \in Unready
      BY <1>1, <2>2 DEF Frame, Message, Unready
    <3>2. wire \in Seq(Unready) => wire' \in Seq(Unready)
      BY <2>2, <3>1, AppendIn
    <3> HIDE DEF f
    <3>3. UNCHANGED <<votes, request, handler, up, socket, queue>>
      BY <2>2 DEF ptydVars, browserVars
    <3>4. handler.attached \/ (~socket.usable /\ up = <<>> /\ wire' \in Seq(Unready))
      BY <3>2 DEF PhaseInv
    <3>5. frames # <<>> /\ frames' = Tail(frames)
      BY <2>2
    <3> QED BY <1>1, <3>3, <3>4, <3>5 DEF PhaseInv
  <2> QED BY <1>2, <2>1, <2>2 DEF Output
<1>3. CASE Event
  <2>1. /\ frames # <<>> /\ f.t \in {"ready", "resized"}
        /\ frames' = Tail(frames) /\ wire' = Append(wire, f)
        /\ handler' = [handler EXCEPT !.attached = @ \/ f.t = "ready"]
        /\ UNCHANGED <<ptydVars, request, up, browserVars, history>>
    BY <1>3 DEF Event
  <2>2. /\ handler'.stage = handler.stage /\ (f.t = "ready" => handler'.attached)
        /\ (handler'.attached => handler.attached \/ f.t = "ready") /\ (handler.attached => handler'.attached)
    BY <2>1 DEF TypeInv
  <2>3. f.t = "ready" => votes.attached
    <3>1. \A e \in EarlyFrame : e.t # "ready"
      BY DEF EarlyFrame
    <3> QED BY <1>1, <2>1, <3>1 DEF PhaseInv
  <2>4. f.t = "resized" /\ wire \in Seq(Unready) => wire' \in Seq(Unready)
    <3>1. f.t = "resized" => f \in Unready
      BY <1>1, <2>1 DEF Frame, Message, Unready, Content
    <3> QED BY <2>1, <3>1, AppendIn
  <2> HIDE DEF f
  <2> QED BY <1>1, <2>1, <2>2, <2>3, <2>4 DEF PhaseInv, ptydVars, browserVars
<1>4. CASE Answer
  <2>1. /\ frames # <<>> /\ f.t \in {"meta", "subscribed"}
        /\ frames' = Tail(frames)
        /\ handler' = (IF f.t = "meta" THEN [handler EXCEPT !.stage = "got", !.meta = f.size] ELSE handler)
        /\ UNCHANGED <<ptydVars, request, wire, up, browserVars, history>>
    BY <1>4 DEF Answer
  <2>2. CASE f.t = "meta"
    <3>1. frames \notin Seq(LaterFrame)
      <4>1. f \notin LaterFrame
        BY <2>2 DEF LaterFrame
      <4> QED BY <1>1, <2>1, <4>1
    <3>2. handler.stage = "getting" /\ ~votes.attached
      BY <3>1 DEF PhaseInv
    <3>3. request = <<>> /\ frames' \in Seq(LaterFrame)
      BY <1>1, <2>1, <2>2, <3>1, <3>2 DEF PhaseInv
    <3>4. handler'.stage = "got" /\ handler'.attached = handler.attached
      BY <2>1, <2>2 DEF TypeInv
    <3>5. frames' \in Seq(EarlyFrame)
      BY <1>1, <2>1, <3>2 DEF PhaseInv
    <3> HIDE DEF f
    <3> QED BY <1>1, <2>1, <3>2, <3>3, <3>4, <3>5 DEF PhaseInv, ptydVars, browserVars
  <2>3. CASE f.t # "meta"
    <3> HIDE DEF f
    <3> QED BY <1>1, <2>1, <2>3 DEF PhaseInv, ptydVars, browserVars
  <2> QED BY <2>2, <2>3
<1> QED BY <1>2, <1>3, <1>4 DEF FromPtyd

LEMMA PhaseBrowser ==
  ASSUME TypeInv, PhaseInv, Receive \/ Parse \/ Measure \/ Type \/ FromBrowser
  PROVE  PhaseInv'
<1>1. CASE Receive
  <2> DEFINE m == Head(wire)
  <2>1. /\ wire # <<>> /\ wire' = Tail(wire) /\ Received(m)
        /\ UNCHANGED <<ptydVars, request, frames, handler, up, socket, input, history>>
    BY <1>1 DEF Receive
  <2>2. m \in Message /\ (wire \in Seq(Unready) => wire' \in Seq(Unready) /\ m \in Unready)
    BY <2>1, TailIn DEF TypeInv
  <2>3. m.t = "ready" => handler.attached
    <3>1. \A u \in Unready : u.t # "ready"
      BY DEF Unready
    <3> QED BY <2>2, <3>1 DEF PhaseInv
  <2>4. [t |-> "reset"] \in Stale(socket.id) /\ [t |-> "reset"] \in Stale(socket.id + 1)
        /\ [t |-> "ready", of |-> socket.id] \in Stale(socket.id + 1)
    BY DEF Stale, Item, TypeInv
  <2>5. m.t \in {"out", "snapshot"} => m \in Stale(socket.id) /\ m \in Stale(socket.id + 1)
    BY <2>2 DEF Stale, Item, Message
  <2> HIDE DEF m
  <2>6. \/ m.t = "ready" /\ queue' = Append(queue, [t |-> "ready", of |-> socket.id])
        \/ queue' = Append(queue, [t |-> "reset"])
        \/ m.t \in {"out", "snapshot"} /\ queue' = Append(queue, m)
        \/ queue' = queue
    BY <2>1 DEF Received
  <2>7. queue' \in Seq(Stale(socket.id + 1))
    BY <2>4, <2>5, <2>6, AppendIn DEF PhaseInv
  <2>8. handler.attached \/ ~socket.open \/ queue' \in Seq(Stale(socket.id))
    BY <2>3, <2>4, <2>5, <2>6, AppendIn DEF PhaseInv
  <2> QED BY <2>1, <2>2, <2>7, <2>8 DEF PhaseInv, ptydVars
<1>2. CASE Parse
  <2> DEFINE m == Head(queue)
  <2>1. /\ queue # <<>> /\ queue' = Tail(queue)
        /\ UNCHANGED <<ptydVars, request, frames, handler, wire, up, term, input, history>>
        /\ \/ UNCHANGED socket
           \/ m.t = "ready" /\ socket.open /\ socket.id = m.of /\ socket' = [socket EXCEPT !.usable = TRUE]
    BY <1>2 DEF Parse
  <2>2. \A S : queue \in Seq(S) => queue' \in Seq(S) /\ m \in S
    BY <2>1, TailIn
  <2>3. m.t = "ready" /\ socket.open /\ socket.id = m.of => handler.attached
    <3>1. m.t = "ready" /\ socket.id = m.of => m \notin Stale(socket.id)
      BY DEF Stale, TypeInv
    <3> QED BY <2>2, <3>1 DEF PhaseInv
  <2> HIDE DEF m
  <2>4. socket'.id = socket.id /\ socket'.open = socket.open
        /\ (socket'.usable => socket.usable \/ (handler.attached /\ socket.open))
    <3>1. CASE UNCHANGED socket
      BY <3>1
    <3>2. CASE m.t = "ready" /\ socket.open /\ socket.id = m.of /\ socket' = [socket EXCEPT !.usable = TRUE]
      <4>1. socket'.id = socket.id /\ socket'.open = socket.open
        BY <3>2 DEF TypeInv
      <4> QED BY <2>3, <3>2, <4>1
    <3> QED BY <2>1, <3>1, <3>2
  <2> QED BY <2>1, <2>2, <2>4 DEF PhaseInv, ptydVars
<1>3. CASE Measure
  <2>1. socket.usable \/ up' = up
    <3>1. up \o <<>> = up
      BY DEF TypeInv
    <3> QED BY <1>3, <3>1 DEF Measure, Measured
  <2>2. socket.usable => handler.attached
    BY DEF PhaseInv
  <2>3. UNCHANGED <<votes, request, frames, handler, wire, socket, queue>>
    BY <1>3 DEF Measure, ptydVars
  <2>4. handler.attached \/ (~socket.usable /\ up' = <<>> /\ wire \in Seq(Unready))
    BY <2>1, <2>2 DEF PhaseInv
  <2>5. handler.stage = "none" => up' = <<>>
    BY <2>1 DEF PhaseInv
  <2> QED BY <2>3, <2>4, <2>5 DEF PhaseInv
<1>4. CASE Type
  <2>1. socket.usable \/ up' = up
    BY <1>4 DEF Type
  <2>2. socket.usable => handler.attached
    BY DEF PhaseInv
  <2>3. UNCHANGED <<votes, request, frames, handler, wire, socket, queue>>
    BY <1>4 DEF Type, ptydVars
  <2>4. handler.attached \/ (~socket.usable /\ up' = <<>> /\ wire \in Seq(Unready))
    BY <2>1, <2>2 DEF PhaseInv
  <2>5. handler.stage = "none" => up' = <<>>
    BY <2>1 DEF PhaseInv
  <2> QED BY <2>3, <2>4, <2>5 DEF PhaseInv
<1>5. CASE FromBrowser
  <2>1. up # <<>> /\ up' = Tail(up)
        /\ request' = (IF handler.attached THEN Append(request, Head(up)) ELSE request)
        /\ UNCHANGED <<ptydVars, frames, handler, wire, browserVars, history>>
    BY <1>5 DEF FromBrowser
  <2>2. handler.attached /\ votes.attached /\ handler.stage = "subscribing"
    BY <2>1 DEF PhaseInv
  <2>3. request' \in Seq(Up)
    BY <2>1, <2>2, TailIn, AppendIn DEF PhaseInv, TypeInv
  <2> QED BY <2>1, <2>2, <2>3 DEF PhaseInv, ptydVars, browserVars
<1> QED BY <1>1, <1>2, <1>3, <1>4, <1>5

LEMMA PhaseStep ==
  ASSUME TypeInv, PhaseInv, [Next]_vars
  PROVE  PhaseInv'
<1>1. CASE UNCHANGED vars
  BY <1>1 DEF vars, ptydVars, browserVars, history, PhaseInv
<1>2. CASE Emit
  <2>1. votes.attached => frames' \in Seq(LaterFrame)
    <3>1. [t |-> "out", at |-> out + 1] \in LaterFrame
      BY DEF TypeInv, LaterFrame, Frame, Content
    <3>2. votes.attached => frames \in Seq(LaterFrame) /\ frames' = Append(frames, [t |-> "out", at |-> out + 1])
      BY <1>2 DEF Emit, PhaseInv
    <3> QED BY <3>1, <3>2, AppendIn
  <2>2. ~votes.attached => frames' = frames
    BY <1>2 DEF Emit
  <2>3. UNCHANGED <<votes, request, handler, wire, up, socket, queue>>
    BY <1>2 DEF Emit, browserVars
  <2>4. CASE votes.attached
    BY <2>1, <2>3, <2>4 DEF PhaseInv
  <2>5. CASE ~votes.attached
    BY <2>2, <2>3, <2>5 DEF PhaseInv
  <2> QED BY <2>4, <2>5
<1>3. CASE OthersLeave
  <2> DEFINE v == [votes EXCEPT !.others = None, !.last = "mine"]
  <2>1. v \in Vote /\ v.attached = votes.attached
    BY DEF Vote, Maybe, TypeInv
  <2>2. votes' = v /\ Heard(Resized(v)) /\ UNCHANGED <<request, handler, wire, up, socket, queue>>
    BY <1>3 DEF OthersLeave, Voted, browserVars
  <2> HIDE DEF v
  <2> QED BY <2>1, <2>2, PhaseResized
<1>4. ASSUME NEW s \in Size, OthersDeclare(s) PROVE PhaseInv'
  <2> DEFINE v == [votes EXCEPT !.others = Clamped(s), !.last = "others"]
  <2>1. v \in Vote /\ v.attached = votes.attached
    BY FittingSizes DEF Vote, Maybe, TypeInv
  <2>2. votes' = v /\ Heard(Resized(v)) /\ UNCHANGED <<request, handler, wire, up, socket, queue>>
    BY <1>4 DEF OthersDeclare, Voted, browserVars
  <2> HIDE DEF v
  <2> QED BY <2>1, <2>2, PhaseResized
<1>5. CASE Hello
  <2>1. /\ handler.stage = "got" /\ handler' = [handler EXCEPT !.stage = "subscribing"]
        /\ wire' = Append(wire, [t |-> "hello", size |-> handler.meta])
        /\ request' = Append(request, [op |-> "subscribe", size |-> handler.size])
        /\ UNCHANGED <<ptydVars, frames, up, browserVars, history>>
    BY <1>5 DEF Hello
  <2>2. handler'.stage = "subscribing" /\ handler'.attached = handler.attached /\ handler.size \in Maybe(Size)
    BY <2>1 DEF TypeInv
  <2>3. ~votes.attached /\ request = <<>> /\ socket.open
    BY <2>1 DEF PhaseInv
  <2>4. request' = <<[op |-> "subscribe", size |-> handler.size]>>
    BY <2>1, <2>3
  <2>5. wire \in Seq(Unready) => wire' \in Seq(Unready)
    <3>1. [t |-> "hello", size |-> handler.meta] \in Unready
      BY <2>1 DEF TypeInv, Unready, Message
    <3> QED BY <2>1, <3>1, AppendIn
  <2> QED BY <2>1, <2>2, <2>3, <2>4, <2>5 DEF PhaseInv, ptydVars, browserVars
<1>6. CASE Connect
  <2>1. /\ ~socket.open /\ socket' = [id |-> socket.id + 1, open |-> TRUE, usable |-> FALSE]
        /\ handler'.stage = "getting" /\ ~handler'.attached
        /\ request' = <<[op |-> "get"]>>
        /\ UNCHANGED <<ptydVars, frames, wire, up, term, queue, screen, replaying, input, lost>>
    BY <1>6 DEF Connect
  <2>2. socket'.id = socket.id + 1 /\ socket'.open /\ ~socket'.usable /\ socket.id \in Nat
    BY <2>1 DEF TypeInv
  <2>3. frames = <<>> /\ wire = <<>> /\ up = <<>> /\ ~votes.attached
    BY <2>1 DEF PhaseInv
  <2>4. queue \in Seq(Stale(socket'.id + 1))
    <3>1. Stale(socket.id + 1) \subseteq Stale(socket'.id + 1)
      <4>1. ASSUME NEW i \in Item, i.t = "ready" => i.of < socket.id + 1, i.t = "ready"
            PROVE  i.of < (socket.id + 1) + 1
        <5>1. i.of \in Nat
          BY <4>1 DEF Item, Content
        <5> QED BY <2>2, <4>1, <5>1
      <4> QED BY <2>2, <4>1 DEF Stale
    <3>2. queue \in Seq(Stale(socket.id + 1))
      BY DEF PhaseInv
    <3> QED BY <3>1, <3>2, SeqGrows
  <2>5. queue \in Seq(Stale(socket'.id))
    BY <2>2 DEF PhaseInv
  <2>6. \A S : <<>> \in Seq(S)
    OBVIOUS
  <2> QED BY <2>1, <2>2, <2>3, <2>4, <2>5, <2>6 DEF PhaseInv, ptydVars
<1>7. CASE Disconnect
  BY <1>7, PhaseGone DEF Disconnect
<1>8. CASE Dismiss
  BY <1>8 DEF Dismiss, PhaseInv, ptydVars
<1>9. ASSUME NEW s \in Size, PaneChanges(s) PROVE PhaseInv'
  BY <1>9 DEF PaneChanges, PhaseInv, ptydVars
<1> QED BY <1>1, <1>2, <1>3, <1>4, <1>5, <1>6, <1>7, <1>8, <1>9, PhaseServes, PhaseFromPtyd, PhaseBrowser DEF Next

-----------------------------------------------------------------------------
(* What is under way takes the screen to all output once it is subscribed,  *)
(* and to a reset one before.                                               *)

Coming(d) ==
  \E p, b, q, c, r, u \in Nat :
    /\ screen.copied <= p /\ Leads(screen.at, p, queue, b, q)
    /\ Leads(b, q, wire, c, r) /\ Leads(c, r, frames, d, u) /\ u <= out

ScreenInv ==
  /\ ~screen.mess
  /\ ~replaying => screen.copied <= screen.at
  /\ \E d \in Nat :
       /\ Coming(d)
       /\ votes.attached => d = out
       /\ handler.stage = "subscribing" /\ ~votes.attached => d = 0

LEMMA ScreenInit == Init => ScreenInv
<1> SUFFICES ASSUME Init PROVE ScreenInv
  OBVIOUS
<1>1. screen.at = 0 /\ screen.copied = 0 /\ ~screen.mess /\ out = 0
      /\ queue = <<>> /\ wire = <<>> /\ frames = <<>> /\ ~votes.attached
  BY DEF Init
<1>2. Leads(0, 0, <<>>, 0, 0)
  BY LeadsNowhere
<1>3. Coming(0)
  BY <1>1, <1>2 DEF Coming
<1> QED BY <1>1, <1>3 DEF ScreenInv

LEMMA AllSeqs ==
  ASSUME TypeInv
  PROVE  IsSeq(frames) /\ IsSeq(wire) /\ IsSeq(queue) /\ out \in Nat
BY DEF TypeInv, IsSeq

(* Frames that are not output are added. *)
LEMMA ComingToo ==
  ASSUME TypeInv, NEW d \in Nat, Coming(d), out' = out, UNCHANGED <<screen, queue, wire>>,
         \/ UNCHANGED frames
         \/ \E f : f.t \in {"resized", "meta"} /\ frames' = Append(frames, f)
  PROVE  Coming(d)'
<1>1. PICK p, b, q, c, r, u \in Nat :
        /\ screen.copied <= p /\ Leads(screen.at, p, queue, b, q)
        /\ Leads(b, q, wire, c, r) /\ Leads(c, r, frames, d, u) /\ u <= out
  BY DEF Coming
<1>2. Leads(c, r, frames', d, u)
  <2>1. CASE UNCHANGED frames
    BY <1>1, <2>1
  <2>2. ASSUME NEW f, f.t \in {"resized", "meta"}, frames' = Append(frames, f)
        PROVE  Leads(c, r, frames', d, u)
    <3>1. Takes(d, u, f, d, u)
      BY <2>2 DEF Takes
    <3> QED BY <1>1, <2>2, <3>1, AllSeqs, LeadsOn
  <2> QED BY <2>1, <2>2
<1> QED BY <1>1, <1>2 DEF Coming

LEMMA ScreenResized ==
  ASSUME TypeInv, PhaseInv, ScreenInv, NEW v, Heard(Resized(v)), votes'.attached = votes.attached,
         UNCHANGED <<out, handler, wire, queue, screen, replaying>>
  PROVE  ScreenInv'
<1>1. PICK d \in Nat : /\ Coming(d)
                       /\ votes.attached => d = out
                       /\ handler.stage = "subscribing" /\ ~votes.attached => d = 0
  BY DEF ScreenInv
<1>2. frames' = frames \/ frames' = Append(frames, ResizedTo(Reconciled(v)))
  BY HeardResized, AllSeqs
<1>3. ResizedTo(Reconciled(v)).t = "resized"
  BY DEF ResizedTo
<1>4. Coming(d)'
  BY <1>1, <1>2, <1>3, ComingToo
<1> QED BY <1>1, <1>4 DEF ScreenInv

LEMMA ScreenGone ==
  ASSUME TypeInv, PhaseInv, ScreenInv, Gone
  PROVE  ScreenInv'
<1>1. PICK d \in Nat : Coming(d)
  BY DEF ScreenInv
<1>2. PICK p, b, q, c, r, u \in Nat :
        /\ screen.copied <= p /\ Leads(screen.at, p, queue, b, q)
        /\ Leads(b, q, wire, c, r) /\ Leads(c, r, frames, d, u) /\ u <= out
  BY <1>1 DEF Coming
<1>3. q <= out
  <2>1. q <= r /\ r <= u
    BY <1>2, AllSeqs, LeadsUp
  <2> QED BY <1>2, <2>1, AllSeqs
<1>4. Leads(b, q, <<>>, b, q)
  BY LeadsNowhere
<1>5. frames' = <<>> /\ wire' = <<>> /\ UNCHANGED <<out, queue, screen, replaying>> /\ handler'.stage = "none"
  BY DEF Gone, NoHandler
<1>6. Coming(b)'
  BY <1>2, <1>3, <1>4, <1>5 DEF Coming
<1>7. ~votes'.attached
  BY <1>5, PhaseGone DEF PhaseInv
<1> QED BY <1>5, <1>6, <1>7 DEF ScreenInv

(* From a reset screen, to all output. *)
LEMMA ScreenSubscribed ==
  ASSUME TypeInv, Coming(0), NEW z, NEW f1 \in Seq(Frame), NEW f2 \in Seq(Frame), NEW f3 \in Seq(Frame),
         UNCHANGED <<out, screen, queue, wire>>,
         f1 = frames \/ f1 = Append(frames, ResizedTo(z)),
         f2 = Append(f1, [t |-> "subscribed"]),
         f3 = IF out = 0 THEN f2 ELSE Append(f2, [t |-> "snapshot", at |-> out, size |-> z]),
         frames' = Append(f3, [t |-> "ready", size |-> z])
  PROVE  Coming(out)'
<1>1. PICK p, b, q, c, r, u \in Nat :
        /\ screen.copied <= p /\ Leads(screen.at, p, queue, b, q)
        /\ Leads(b, q, wire, c, r) /\ Leads(c, r, frames, 0, u) /\ u <= out
  BY DEF Coming
<1>2. IsSeq(f1) /\ IsSeq(f2) /\ IsSeq(f3) /\ out \in Nat
  BY DEF TypeInv, IsSeq
<1>3. Leads(c, r, f1, 0, u)
  <2>1. Takes(0, u, ResizedTo(z), 0, u)
    BY DEF Takes, ResizedTo
  <2>2. Leads(c, r, Append(frames, ResizedTo(z)), 0, u)
    BY <1>1, <2>1, AllSeqs, LeadsOn
  <2> QED BY <1>1, <2>2
<1>4. Leads(c, r, f2, 0, u)
  <2>1. Takes(0, u, [t |-> "subscribed"], 0, u)
    BY DEF Takes
  <2> QED BY <1>1, <1>2, <1>3, <2>1, LeadsOn
<1>5. Leads(c, r, f3, out, out)
  <2>1. CASE out = 0
    <3>1. u = 0
      BY <1>1, <2>1
    <3> QED BY <1>4, <2>1, <3>1
  <2>2. CASE out # 0
    <3>1. Takes(0, u, [t |-> "snapshot", at |-> out, size |-> z], out, out)
      BY <1>1, <1>2 DEF Takes
    <3> QED BY <1>1, <1>2, <1>4, <2>2, <3>1, LeadsOn
  <2> QED BY <2>1, <2>2
<1>6. Leads(c, r, frames', out, out)
  <2>1. Takes(out, out, [t |-> "ready", size |-> z], out, out)
    BY <1>2 DEF Takes
  <2> QED BY <1>2, <1>5, <2>1, LeadsOn
<1>7. PICK o \in Nat : o = out /\ o = out'
  BY <1>2
<1>8. /\ screen'.copied <= p /\ Leads(screen'.at, p, queue', b, q)
      /\ Leads(b, q, wire', c, r) /\ Leads(c, r, frames', o, o) /\ o <= out'
  BY <1>1, <1>6, <1>7
<1>9. Coming(o)'
  BY <1>7, <1>8 DEF Coming
<1> QED BY <1>7, <1>9

LEMMA ScreenStays ==
  ASSUME ScreenInv, UNCHANGED <<out, votes, frames, handler, wire, queue, screen, replaying>>
  PROVE  ScreenInv'
<1>1. PICK d \in Nat : /\ Coming(d)
                       /\ votes.attached => d = out
                       /\ handler.stage = "subscribing" /\ ~votes.attached => d = 0
  BY DEF ScreenInv
<1>2. Coming(d)'
  BY <1>1 DEF Coming
<1> QED BY <1>1, <1>2 DEF ScreenInv

LEMMA ScreenServes ==
  ASSUME TypeInv, PhaseInv, ScreenInv, PtydServes
  PROVE  ScreenInv'
<1> DEFINE m == Head(request)
<1>1. /\ request # <<>> /\ handler.stage # "none"
      /\ UNCHANGED <<out, handler, wire, queue, screen, replaying>>
  BY DEF PtydServes, browserVars, PhaseInv
<1>2. CASE m.op = "get" /\ Heard(<<[t |-> "meta", size |-> size]>>) /\ UNCHANGED <<size, votes, typed>>
  <2>1. PICK d \in Nat : /\ Coming(d)
                         /\ votes.attached => d = out
                         /\ handler.stage = "subscribing" /\ ~votes.attached => d = 0
    BY DEF ScreenInv
  <2>2. PICK f : f = [t |-> "meta", size |-> size]
    OBVIOUS
  <2>3. frames' = Append(frames, f) /\ f.t = "meta"
    BY <1>1, <1>2, <2>2, Grown, AllSeqs DEF Heard
  <2>4. Coming(d)'
    BY <1>1, <2>1, <2>3, ComingToo
  <2> QED BY <1>1, <1>2, <2>1, <2>4 DEF ScreenInv
<1>3. CASE m.op = "subscribe" /\ Subscribe(m.size)
  <2>1. ~votes.attached
    <3>1. request \in Seq(Up) => m \in Up
      BY <1>1, TailIn
    <3>2. \A u \in Up : u.op # "subscribe"
      BY DEF Up
    <3> QED BY <1>3, <3>1, <3>2 DEF PhaseInv
  <2>2. handler.stage = "subscribing"
    <3>1. request # <<[op |-> "get"]>>
      BY <1>3
    <3> QED BY <1>1, <3>1 DEF PhaseInv, TypeInv
  <2>3. Coming(0)
    BY <2>1, <2>2 DEF ScreenInv
  <2>4. m \in Request
    BY <1>1, TailIn DEF TypeInv
  <2>5. PICK s : s = m.size
    OBVIOUS
  <2>6. s \in Maybe(Size)
    BY <1>3, <2>4, <2>5 DEF Request
  <2>7. votes'.attached
        /\ \E f1, f2, f3 \in Seq(Frame) :
              /\ f1 = frames \/ f1 = Append(frames, ResizedTo(size'))
              /\ f2 = Append(f1, [t |-> "subscribed"])
              /\ f3 = IF out = 0 THEN f2 ELSE Append(f2, [t |-> "snapshot", at |-> out, size |-> size'])
              /\ frames' = Append(f3, [t |-> "ready", size |-> size'])
    BY <1>1, <1>3, <2>5, <2>6, HeardSubscribed DEF TypeInv
  <2>8. Coming(out)'
    BY <1>1, <2>3, <2>7, ScreenSubscribed
  <2>9. out' \in Nat
    BY <1>1 DEF TypeInv
  <2> QED BY <1>1, <2>7, <2>8, <2>9 DEF ScreenInv
<1>4. CASE m.op = "resize" /\ Resize(m.size)
  <2>1. PICK v : v = Asks(m.size)
    OBVIOUS
  <2>2. votes' = v /\ Heard(Resized(v))
    BY <1>4, <2>1 DEF Resize, Voted, Asks
  <2>3. v.attached = votes.attached
    BY <2>1 DEF TypeInv, Vote, Asks
  <2> QED BY <1>1, <2>2, <2>3, ScreenResized
<1>5. CASE m.op = "input" /\ Write(m.what)
  <2>1. PICK v : v = Types
    OBVIOUS
  <2>2. votes' = v /\ Heard(Resized(v))
    BY <1>5, <2>1 DEF Write, Voted, Types
  <2>3. v.attached = votes.attached
    BY <2>1, NewVotes DEF TypeInv
  <2> QED BY <1>1, <2>2, <2>3, ScreenResized
<1> QED BY <1>2, <1>3, <1>4, <1>5 DEF PtydServes

(* A frame is passed on. *)
LEMMA ScreenFromPtyd ==
  ASSUME TypeInv, PhaseInv, ScreenInv, FromPtyd
  PROVE  ScreenInv'
<1>1. CASE Output /\ Gone
  BY <1>1, ScreenGone
<1>2. CASE (Output /\ ~Gone) \/ Event \/ Answer
  <2> DEFINE f == Head(frames)
  <2>1. PICK d \in Nat : /\ Coming(d)
                         /\ votes.attached => d = out
                         /\ handler.stage = "subscribing" /\ ~votes.attached => d = 0
    BY DEF ScreenInv
  <2>2. PICK p, b, q, c, r, u \in Nat :
        /\ screen.copied <= p /\ Leads(screen.at, p, queue, b, q)
        /\ Leads(b, q, wire, c, r) /\ Leads(c, r, frames, d, u) /\ u <= out
    BY <2>1 DEF Coming
  <2>3. frames # <<>> /\ frames' = Tail(frames) /\ UNCHANGED <<out, votes, screen, replaying, queue>>
    BY <1>2 DEF Output, Event, Answer, ptydVars, browserVars
  <2>4. PICK c1, r1 \in Nat : Takes(c, r, f, c1, r1) /\ Leads(c1, r1, Tail(frames), d, u)
    BY <2>2, <2>3, AllSeqs, LeadsAfterOne
  <2>5. Leads(b, q, wire', c1, r1)
    <3>1. CASE wire' = Append(wire, f)
      BY <2>2, <2>4, <3>1, AllSeqs, LeadsOn
    <3>2. CASE UNCHANGED wire /\ f.t \in {"meta", "subscribed"}
      <4>1. c1 = c /\ r1 = r
        BY <2>4, <3>2 DEF Takes
      <4> QED BY <2>2, <3>2, <4>1
    <3> QED BY <1>2, <3>1, <3>2 DEF Output, Event, Answer
  <2> HIDE DEF f
  <2>6. Coming(d)'
    BY <2>2, <2>3, <2>4, <2>5 DEF Coming
  <2>7. handler'.stage = "subscribing" => handler.stage = "subscribing"
    BY <1>2 DEF Output, Event, Answer, TypeInv
  <2> QED BY <2>1, <2>3, <2>6, <2>7 DEF ScreenInv
<1> QED BY <1>1, <1>2 DEF FromPtyd

LEMMA ScreenHello ==
  ASSUME TypeInv, PhaseInv, ScreenInv, Hello
  PROVE  ScreenInv'
<1>1. /\ handler.stage = "got" /\ handler' = [handler EXCEPT !.stage = "subscribing"]
      /\ wire' = Append(wire, [t |-> "hello", size |-> handler.meta])
      /\ UNCHANGED <<votes, out, frames, screen, replaying, queue>>
  BY DEF Hello, ptydVars, browserVars
<1>2. PICK d \in Nat : Coming(d)
  BY DEF ScreenInv
<1>3. PICK p, b, q, c, r, u \in Nat :
        /\ screen.copied <= p /\ Leads(screen.at, p, queue, b, q)
        /\ Leads(b, q, wire, c, r) /\ Leads(c, r, frames, d, u) /\ u <= out
  BY <1>2 DEF Coming
<1>4. Takes(c, r, [t |-> "hello", size |-> handler.meta], 0, r)
  BY DEF Takes
<1>5. Leads(b, q, wire', 0, r)
  BY <1>1, <1>3, <1>4, AllSeqs, LeadsOn
<1>6. ~votes.attached /\ frames \in Seq(EarlyFrame)
  BY <1>1 DEF PhaseInv
<1>7. \A i \in 1..Len(frames) : frames[i].t \in {"resized", "meta"}
  <2>1. \A i \in 1..Len(frames) : frames[i] \in EarlyFrame
    BY <1>6
  <2> QED BY <2>1 DEF EarlyFrame
<1>8. Leads(0, r, frames, 0, r)
  BY <1>3, <1>7, AllSeqs, LeadsThrough
<1>9. r <= out
  <2>1. r <= u
    BY <1>3, AllSeqs, LeadsUp
  <2> QED BY <1>3, <2>1, AllSeqs
<1>10. Coming(0)'
  BY <1>1, <1>3, <1>5, <1>8, <1>9 DEF Coming
<1> QED BY <1>1, <1>6, <1>10 DEF ScreenInv

LEMMA ScreenReceive ==
  ASSUME TypeInv, PhaseInv, ScreenInv, Receive
  PROVE  ScreenInv'
<1> DEFINE m == Head(wire)
<1>1. PICK d \in Nat : /\ Coming(d)
                       /\ votes.attached => d = out
                       /\ handler.stage = "subscribing" /\ ~votes.attached => d = 0
  BY DEF ScreenInv
<1>2. PICK p, b, q, c, r, u \in Nat :
        /\ screen.copied <= p /\ Leads(screen.at, p, queue, b, q)
        /\ Leads(b, q, wire, c, r) /\ Leads(c, r, frames, d, u) /\ u <= out
  BY <1>1 DEF Coming
<1>3. wire # <<>> /\ wire' = Tail(wire) /\ Received(m) /\ UNCHANGED <<out, votes, handler, frames>>
  BY DEF Receive, ptydVars
<1>4. PICK b1, q1 \in Nat : Takes(b, q, m, b1, q1) /\ Leads(b1, q1, Tail(wire), c, r)
  BY <1>2, <1>3, AllSeqs, LeadsAfterOne
<1>5. m \in Message
  BY <1>3, TailIn DEF TypeInv
<1> HIDE DEF m
<1>6. Leads(screen.at, p, queue', b1, q1) /\ UNCHANGED <<screen, replaying>>
  <2>1. CASE m.t = "hello"
    <3>1. Takes(b, q, [t |-> "reset"], b1, q1)
      BY <1>4, <2>1 DEF Takes
    <3>2. queue' = Append(queue, [t |-> "reset"]) /\ UNCHANGED <<screen, replaying>>
      BY <1>3, <2>1 DEF Received
    <3> QED BY <1>2, <3>1, <3>2, AllSeqs, LeadsOn
  <2>2. CASE m.t = "ready"
    <3>1. Takes(b, q, [t |-> "ready", of |-> socket.id], b1, q1)
      BY <1>4, <2>2 DEF Takes
    <3>2. queue' = Append(queue, [t |-> "ready", of |-> socket.id]) /\ UNCHANGED <<screen, replaying>>
      BY <1>3, <2>2 DEF Received
    <3> QED BY <1>2, <3>1, <3>2, AllSeqs, LeadsOn
  <2>3. CASE m.t \in {"out", "snapshot"}
    <3>1. queue' = Append(queue, m) /\ UNCHANGED <<screen, replaying>>
      BY <1>3, <2>3 DEF Received
    <3> QED BY <1>2, <1>4, <3>1, AllSeqs, LeadsOn
  <2>4. CASE m.t = "resized"
    <3>1. UNCHANGED <<queue, screen, replaying>>
      BY <1>3, <2>4 DEF Received
    <3>2. b1 = b /\ q1 = q
      BY <1>4, <2>4 DEF Takes
    <3> QED BY <1>2, <3>1, <3>2
  <2>5. m.t \in {"hello", "ready", "out", "snapshot", "resized"}
    BY <1>5 DEF Message, Content
  <2> QED BY <2>1, <2>2, <2>3, <2>4, <2>5
<1>7. Coming(d)'
  BY <1>2, <1>3, <1>4, <1>6 DEF Coming
<1> QED BY <1>1, <1>3, <1>6, <1>7 DEF ScreenInv

LEMMA ScreenParse ==
  ASSUME TypeInv, PhaseInv, ScreenInv, Parse
  PROVE  ScreenInv'
<1> DEFINE i == Head(queue)
<1>1. PICK d \in Nat : /\ Coming(d)
                       /\ votes.attached => d = out
                       /\ handler.stage = "subscribing" /\ ~votes.attached => d = 0
  BY DEF ScreenInv
<1>2. PICK p, b, q, c, r, u \in Nat :
        /\ screen.copied <= p /\ Leads(screen.at, p, queue, b, q)
        /\ Leads(b, q, wire, c, r) /\ Leads(c, r, frames, d, u) /\ u <= out
  BY <1>1 DEF Coming
<1>3. queue # <<>> /\ queue' = Tail(queue) /\ UNCHANGED <<out, votes, handler, wire, frames>>
  BY DEF Parse, ptydVars
<1>4. PICK a1, p1 \in Nat : Takes(screen.at, p, i, a1, p1) /\ Leads(a1, p1, Tail(queue), b, q)
  BY <1>2, <1>3, AllSeqs, LeadsAfterOne
<1>5. i \in Item
  BY <1>3, TailIn DEF TypeInv
<1>6. /\ screen \in [at : Nat, copied : Nat, mess : BOOLEAN] /\ ~screen.mess /\ replaying \in BOOLEAN
      /\ ~replaying => screen.copied <= screen.at
  BY DEF TypeInv, ScreenInv
<1>7. \/ i.t = "reset" /\ screen' = [screen EXCEPT !.at = 0] /\ replaying' = TRUE
      \/ i.t = "snapshot" /\ screen' = Parsed(i, 0) /\ UNCHANGED replaying
      \/ i.t = "out" /\ screen' = Parsed(i, i.at - 1) /\ UNCHANGED replaying
      \/ i.t = "ready" /\ UNCHANGED screen /\ (replaying' = FALSE \/ UNCHANGED replaying)
  BY DEF Parse
<1> HIDE DEF i
<1>8. screen'.at = a1 /\ screen'.copied <= p1 /\ ~screen'.mess /\ (~replaying' => screen'.copied <= screen'.at)
  <2>1. CASE i.t = "reset" /\ screen' = [screen EXCEPT !.at = 0] /\ replaying' = TRUE
    <3>1. a1 = 0 /\ p1 = p
      BY <1>4, <2>1 DEF Takes
    <3> QED BY <1>2, <1>6, <2>1, <3>1
  <2>2. ASSUME NEW follows \in Int, i.t \in {"out", "snapshot"}, screen' = Parsed(i, follows), UNCHANGED replaying,
               follows = screen.at, i.at = a1, p <= p1, a1 <= p1
        PROVE  screen'.at = a1 /\ screen'.copied <= p1 /\ ~screen'.mess /\ (~replaying' => screen'.copied <= screen'.at)
    <3>1. /\ screen'.at = a1
          /\ screen'.copied = (IF replaying THEN screen.copied ELSE a1)
          /\ screen'.mess = (screen.mess \/ screen.at # follows \/ (~replaying /\ follows < screen.copied))
      BY <2>2 DEF Parsed
    <3>2. ~screen'.mess
      <4>1. screen.copied \in Nat /\ screen.at \in Nat
        BY <1>6
      <4>2. ~(~replaying /\ follows < screen.copied)
        BY <1>6, <2>2, <4>1
      <4> QED BY <1>6, <2>2, <3>1, <4>2
    <3> QED BY <1>2, <1>4, <1>6, <2>2, <3>1, <3>2
  <2>3. CASE i.t = "snapshot" /\ screen' = Parsed(i, 0) /\ UNCHANGED replaying
    <3>1. screen.at = 0 /\ a1 = i.at /\ p <= p1 /\ a1 <= p1
      BY <1>4, <2>3 DEF Takes
    <3> QED BY <2>2, <2>3, <3>1
  <2>4. CASE i.t = "out" /\ screen' = Parsed(i, i.at - 1) /\ UNCHANGED replaying
    <3>1. screen.at = i.at - 1 /\ a1 = i.at /\ p <= p1 /\ a1 <= p1
      BY <1>4, <2>4 DEF Takes
    <3>2. i.at - 1 \in Int
      BY <1>4, <3>1
    <3> QED BY <2>2, <2>4, <3>1, <3>2
  <2>5. CASE i.t = "ready" /\ UNCHANGED screen /\ (replaying' = FALSE \/ UNCHANGED replaying)
    <3>1. p <= screen.at /\ a1 = screen.at /\ p1 = p
      BY <1>4, <2>5 DEF Takes
    <3> QED BY <1>2, <1>6, <2>5, <3>1
  <2> QED BY <1>7, <2>1, <2>3, <2>4, <2>5
<1>9. Coming(d)'
  BY <1>2, <1>3, <1>4, <1>8 DEF Coming
<1> QED BY <1>1, <1>3, <1>8, <1>9 DEF ScreenInv

LEMMA ScreenStep ==
  ASSUME TypeInv, PhaseInv, ScreenInv, [Next]_vars
  PROVE  ScreenInv'
<1>1. CASE UNCHANGED <<out, votes, frames, handler, wire, queue, screen, replaying>>
  BY <1>1, ScreenStays
<1>2. CASE Emit
  <2>1. PICK d \in Nat : /\ Coming(d)
                         /\ votes.attached => d = out
                         /\ handler.stage = "subscribing" /\ ~votes.attached => d = 0
    BY DEF ScreenInv
  <2>2. PICK p, b, q, c, r, u \in Nat :
        /\ screen.copied <= p /\ Leads(screen.at, p, queue, b, q)
        /\ Leads(b, q, wire, c, r) /\ Leads(c, r, frames, d, u) /\ u <= out
    BY <2>1 DEF Coming
  <2>3. UNCHANGED <<votes, handler, wire, queue, screen, replaying>> /\ out' = out + 1 /\ out \in Nat
    BY <1>2, AllSeqs DEF Emit, browserVars
  <2>4. CASE votes.attached
    <3>1. frames' = Append(frames, [t |-> "out", at |-> out + 1]) /\ d = out
      BY <1>2, <2>1, <2>4 DEF Emit
    <3>2. Takes(d, u, [t |-> "out", at |-> out + 1], out + 1, out + 1)
      BY <2>2, <2>3, <3>1 DEF Takes
    <3>3. Leads(c, r, frames', out + 1, out + 1)
      BY <2>2, <2>3, <3>1, <3>2, AllSeqs, LeadsOn
    <3>4. out + 1 \in Nat /\ out + 1 <= out'
      BY <2>3
    <3>5. PICK o \in Nat : o = out + 1 /\ o = out'
      BY <2>3
    <3>6. /\ screen'.copied <= p /\ Leads(screen'.at, p, queue', b, q)
          /\ Leads(b, q, wire', c, r) /\ Leads(c, r, frames', o, o) /\ o <= out'
      BY <2>2, <2>3, <3>3, <3>5
    <3>7. Coming(o)'
      BY <2>2, <3>5, <3>6 DEF Coming
    <3> QED BY <2>3, <2>4, <3>5, <3>7 DEF ScreenInv
  <2>5. CASE ~votes.attached
    <3>1. frames' = frames
      BY <1>2, <2>5 DEF Emit
    <3>2. u <= out'
      BY <2>2, <2>3
    <3>3. Coming(d)'
      BY <2>2, <2>3, <3>1, <3>2 DEF Coming
    <3> QED BY <2>1, <2>3, <2>5, <3>3 DEF ScreenInv
  <2> QED BY <2>4, <2>5
<1>3. CASE OthersLeave
  <2>1. PICK v : v = [votes EXCEPT !.others = None, !.last = "mine"]
    OBVIOUS
  <2>2. v.attached = votes.attached
    BY <2>1 DEF TypeInv, Vote
  <2>3. votes' = v /\ Heard(Resized(v)) /\ UNCHANGED <<out, handler, wire, queue, screen, replaying>>
    BY <1>3, <2>1 DEF OthersLeave, Voted, browserVars
  <2> QED BY <2>2, <2>3, ScreenResized
<1>4. ASSUME NEW s \in Size, OthersDeclare(s) PROVE ScreenInv'
  <2>1. PICK v : v = [votes EXCEPT !.others = Clamped(s), !.last = "others"]
    OBVIOUS
  <2>2. v.attached = votes.attached
    BY <2>1 DEF TypeInv, Vote
  <2>3. votes' = v /\ Heard(Resized(v)) /\ UNCHANGED <<out, handler, wire, queue, screen, replaying>>
    BY <1>4, <2>1 DEF OthersDeclare, Voted, browserVars
  <2> QED BY <2>2, <2>3, ScreenResized
<1>5. CASE Connect
  <2>1. handler'.stage = "getting" /\ ~votes.attached
        /\ UNCHANGED <<out, votes, frames, wire, queue, screen, replaying>>
    BY <1>5 DEF Connect, PhaseInv, ptydVars
  <2>2. PICK d \in Nat : Coming(d)
    BY DEF ScreenInv
  <2>3. Coming(d)'
    BY <2>1, <2>2 DEF Coming
  <2> QED BY <2>1, <2>3 DEF ScreenInv
<1>6. CASE Disconnect
  BY <1>6, ScreenGone DEF Disconnect
<1>7. CASE FromBrowser \/ Measure \/ Type \/ Dismiss \/ \E s \in Size : PaneChanges(s)
  <2>1. UNCHANGED <<out, votes, frames, handler, wire, queue, screen, replaying>>
    BY <1>7 DEF FromBrowser, Measure, Type, Dismiss, PaneChanges, ptydVars, browserVars
  <2> QED BY <1>1, <2>1
<1>8. CASE UNCHANGED vars
  BY <1>1, <1>8 DEF vars, ptydVars, browserVars
<1> QED BY <1>2, <1>3, <1>4, <1>5, <1>6, <1>7, <1>8, ScreenServes, ScreenFromPtyd, ScreenHello, ScreenReceive, ScreenParse DEF Next

-----------------------------------------------------------------------------
(* The inputs among some messages. *)

(* The least of some numbers: induction, for tlapm. *)
LEMMA LeastNumber ==
  ASSUME NEW T, T \subseteq Nat, T # {}
  PROVE  \E n \in T : \A m \in T : n <= m
<1>1. PICK n \in T : \A m \in T : ~(<<m, n>> \in OpToRel(<, Nat))
  BY NatLessThanWellFounded, WFMin
<1>2. \A m \in T : n <= m
  <2> TAKE m \in T
  <2>1. m \in Nat /\ n \in Nat
    OBVIOUS
  <2>2. CASE m < n
    <3>1. <<m, n>> \in OpToRel(<, Nat)
      BY <2>1, <2>2 DEF OpToRel
    <3> QED BY <3>1, <1>1
  <2> QED BY <2>1, <2>2
<1> QED BY <1>2

With(s, m) == IF m.op = "input" THEN Append(s, m.what) ELSE s

(* g is what the inputs were after each message. *)
Course(g, msgs) ==
  /\ g[0] = <<>>
  /\ \A i \in 1..Len(msgs) : g[i] = With(g[i - 1], msgs[i])
  /\ \A i \in 0..Len(msgs) : g[i] \in Seq(Nat)

LEMMA WithType ==
  ASSUME NEW s \in Seq(Nat), NEW m \in Request
  PROVE  With(s, m) \in Seq(Nat)
BY DEF With, Request

LEMMA CourseRuns ==
  ASSUME NEW msgs \in Seq(Request)
  PROVE  \E g : Course(g, msgs)
<1> DEFINE n == Len(msgs)
           To(m) == \E g : /\ g[0] = <<>>
                           /\ \A i \in 1..m : g[i] = With(g[i - 1], msgs[i])
                           /\ \A i \in 0..m : g[i] \in Seq(Nat)
           T == {m \in 0..n : ~To(m)}
<1>1. n \in Nat /\ \A i \in 1..n : msgs[i] \in Request
  OBVIOUS
<1> HIDE DEF n
<1>2. SUFFICES ASSUME T # {} PROVE FALSE
  BY <1>1 DEF Course, n
<1>3. PICK m \in T : \A k \in T : m <= k
  <2>1. T \subseteq Nat
    BY <1>1
  <2> HIDE DEF T
  <2> QED BY <1>2, <2>1, LeastNumber
<1>4. m # 0
  <2>1. To(0)
    <3> DEFINE g == [i \in 0..0 |-> <<>>]
    <3>1. g[0] = <<>> /\ <<>> \in Seq(Nat) /\ 0..0 = {0} /\ 1..0 = {}
      OBVIOUS
    <3> HIDE DEF g
    <3> QED BY <3>1
  <2> QED BY <2>1, <1>3
<1>5. m - 1 \in 0..n /\ m \in 1..n
  BY <1>1, <1>3, <1>4
<1>6. To(m - 1)
  BY <1>3, <1>5
<1>7. PICK g : /\ g[0] = <<>>
               /\ \A i \in 1..m - 1 : g[i] = With(g[i - 1], msgs[i])
               /\ \A i \in 0..m - 1 : g[i] \in Seq(Nat)
  BY <1>6
<1> DEFINE last == With(g[m - 1], msgs[m])
           h == [i \in 0..m |-> IF i < m THEN g[i] ELSE last]
<1>8. h[0] = <<>> /\ h[m] = last /\ \A i \in 0..m - 1 : h[i] = g[i]
  BY <1>5, <1>7
<1> HIDE DEF h
<1>9. \A i \in 1..m : h[i] = With(h[i - 1], msgs[i])
  <2> TAKE i \in 1..m
  <2>1. CASE i = m
    BY <1>5, <1>8, <2>1
  <2>2. CASE i # m
    <3>1. i \in 1..m - 1 /\ h[i] = g[i] /\ h[i - 1] = g[i - 1]
      BY <1>5, <1>8, <2>2
    <3> QED BY <1>7, <3>1
  <2> QED BY <2>1, <2>2
<1>10. \A i \in 0..m : h[i] \in Seq(Nat)
  <2>1. last \in Seq(Nat)
    <3>1. g[m - 1] \in Seq(Nat)
      BY <1>5, <1>7
    <3>2. msgs[m] \in Request
      BY <1>1, <1>5
    <3> QED BY <3>1, <3>2, WithType
  <2>2. \A i \in 0..m : i = m \/ i \in 0..m - 1
    BY <1>5
  <2> HIDE DEF last
  <2> QED BY <1>7, <1>8, <2>1, <2>2
<1>11. To(m)
  BY <1>8, <1>9, <1>10
<1> QED BY <1>3, <1>11

LEMMA InputsCourse ==
  ASSUME NEW msgs \in Seq(Request)
  PROVE  \E g : Course(g, msgs) /\ Inputs(msgs) = g[Len(msgs)]
<1> DEFINE n == Len(msgs)
           F(f, k) == IF k = 0 THEN <<>>
                      ELSE IF msgs[k].op = "input" THEN Append(f[k - 1], msgs[k].what) ELSE f[k - 1]
<1>1. n \in Nat
  OBVIOUS
<1>2. PICK g : Course(g, msgs)
  BY CourseRuns
<1> DEFINE h == [i \in 0..n |-> g[i]]
<1>3. h = [k \in 0..n |-> F(h, k)]
  <2>1. \A k \in 0..n : k # 0 => k \in 1..n /\ k - 1 \in 0..n
    BY <1>1
  <2>2. \A k \in 0..n : g[k] = F(h, k)
    BY <1>2, <2>1 DEF Course, With
  <2> QED BY <2>2
<1> HIDE DEF h
<1> DEFINE f == CHOOSE f : f = [k \in 0..n |-> F(f, k)]
<1>4. f = [k \in 0..n |-> F(f, k)]
  BY <1>3
<1>5. Inputs(msgs) = f[n]
  BY DEF Inputs
<1> HIDE DEF f
<1>6. /\ f[0] = <<>>
      /\ \A i \in 1..n : f[i] = With(f[i - 1], msgs[i])
  <2>1. \A k \in 0..n : f[k] = F(f, k)
    BY <1>4
  <2>2. \A k \in 1..n : k \in 0..n /\ k # 0
    BY <1>1
  <2>3. 0 \in 0..n
    BY <1>1
  <2> QED BY <2>1, <2>2, <2>3 DEF With
<1>7. \A i \in 0..n : f[i] = g[i]
  <2> DEFINE T == {m \in 0..n : f[m] # g[m]}
  <2>1. ASSUME T # {}
        PROVE  FALSE
    <3>1. PICK m \in T : \A k \in T : m <= k
      <4>1. T \subseteq Nat
        BY <1>1
      <4> HIDE DEF T
      <4> QED BY <2>1, <4>1, LeastNumber
    <3>2. m # 0
      BY <1>2, <1>6, <3>1 DEF Course
    <3>3. m \in 1..n /\ m - 1 \in 0..n /\ m - 1 \notin T
      BY <1>1, <3>1, <3>2
    <3>4. f[m - 1] = g[m - 1]
      BY <3>3
    <3> QED BY <1>2, <1>6, <3>1, <3>3, <3>4 DEF Course
  <2> QED BY <2>1
<1>8. n \in 0..n
  BY <1>1
<1> QED BY <1>2, <1>5, <1>7, <1>8

LEMMA InputsIs ==
  ASSUME NEW msgs \in Seq(Request), NEW g, Course(g, msgs)
  PROVE  Inputs(msgs) = g[Len(msgs)]
<1>1. PICK h : Course(h, msgs) /\ Inputs(msgs) = h[Len(msgs)]
  BY InputsCourse
<1> DEFINE n == Len(msgs)
           T == {m \in 0..n : g[m] # h[m]}
<1>2. n \in Nat
  OBVIOUS
<1>3. ASSUME T # {}
      PROVE  FALSE
  <2>1. PICK m \in T : \A k \in T : m <= k
    <3>1. T \subseteq Nat
      BY <1>2
    <3> HIDE DEF T
    <3> QED BY <1>3, <3>1, LeastNumber
  <2>2. m # 0
    BY <1>1, <2>1 DEF Course
  <2>3. m \in 1..n /\ m - 1 \in 0..n /\ m - 1 \notin T
    BY <1>2, <2>1, <2>2
  <2>4. g[m - 1] = h[m - 1]
    BY <2>3
  <2> QED BY <1>1, <2>1, <2>3, <2>4 DEF Course
<1> QED BY <1>1, <1>2, <1>3

LEMMA InputsType ==
  ASSUME NEW msgs \in Seq(Request)
  PROVE  Inputs(msgs) \in Seq(Nat)
<1>1. PICK g : Course(g, msgs) /\ Inputs(msgs) = g[Len(msgs)]
  BY InputsCourse
<1>2. Len(msgs) \in 0..Len(msgs)
  OBVIOUS
<1> QED BY <1>1, <1>2 DEF Course

LEMMA NoInputs == Inputs(<<>>) = <<>>
<1> DEFINE g == [i \in {0} |-> <<>>]
<1>1. g[0] = <<>> /\ 0..0 = {0} /\ 1..0 = {} /\ Len(<<>>) = 0 /\ <<>> \in Seq(Nat) /\ <<>> \in Seq(Request)
  OBVIOUS
<1> HIDE DEF g
<1>2. Course(g, <<>>)
  BY <1>1 DEF Course
<1> QED BY <1>1, <1>2, InputsIs

LEMMA InputsOneMore ==
  ASSUME NEW msgs \in Seq(Request), NEW m \in Request
  PROVE  Inputs(Append(msgs, m)) = With(Inputs(msgs), m)
<1> DEFINE n == Len(msgs)
           t == Append(msgs, m)
<1>1. n \in Nat /\ t \in Seq(Request) /\ Len(t) = n + 1 /\ t[n + 1] = m /\ \A i \in 1..n : t[i] = msgs[i]
  OBVIOUS
<1>2. PICK g : Course(g, msgs)
  BY CourseRuns
<1>3. Inputs(msgs) = g[n] /\ Inputs(msgs) \in Seq(Nat)
  BY <1>2, InputsIs, InputsType
<1> DEFINE last == With(g[n], m)
           h == [i \in 0..n + 1 |-> IF i = n + 1 THEN last ELSE g[i]]
<1>4. last \in Seq(Nat)
  BY <1>3, WithType
<1> HIDE DEF n, t, last
<1>5. h[n + 1] = last /\ \A i \in 0..n : h[i] = g[i]
  BY <1>1
<1> HIDE DEF h
<1>6. g[0] = <<>> /\ (\A i \in 1..n : g[i] = With(g[i - 1], msgs[i])) /\ \A i \in 0..n : g[i] \in Seq(Nat)
  BY <1>2 DEF Course, n
<1>7. \A i \in 1..n + 1 : h[i] = With(h[i - 1], t[i])
  <2> TAKE i \in 1..n + 1
  <2>1. CASE i = n + 1
    <3>1. i - 1 = n /\ n \in 0..n
      BY <1>1, <2>1
    <3> QED BY <1>1, <1>5, <2>1, <3>1 DEF last
  <2>2. CASE i # n + 1
    <3>1. i \in 1..n /\ i \in 0..n /\ i - 1 \in 0..n
      BY <1>1, <2>2
    <3> QED BY <1>1, <1>5, <1>6, <3>1
  <2> QED BY <2>1, <2>2
<1>8. \A i \in 0..n + 1 : h[i] \in Seq(Nat)
  <2> TAKE i \in 0..n + 1
  <2>1. i = n + 1 \/ i \in 0..n
    BY <1>1
  <2> QED BY <1>4, <1>5, <1>6, <2>1
<1>9. 0 \in 0..n
  BY <1>1
<1>10. Course(h, t)
  BY <1>1, <1>5, <1>6, <1>7, <1>8, <1>9 DEF Course
<1>11. Inputs(t) = h[n + 1]
  BY <1>1, <1>10, InputsIs
<1> QED BY <1>3, <1>5, <1>11 DEF t, last, n

LEMMA WithAfter ==
  ASSUME NEW a \in Seq(Nat), NEW s \in Seq(Nat), NEW m \in Request
  PROVE  a \o With(s, m) = With(a \o s, m)
<1>1. CASE m.op = "input"
  <2>1. m.what \in Nat
    BY <1>1 DEF Request
  <2>2. \A w \in Nat : a \o Append(s, w) = Append(a \o s, w)
    OBVIOUS
  <2> QED BY <1>1, <2>1, <2>2 DEF With
<1>2. CASE m.op # "input"
  BY <1>2 DEF With
<1> QED BY <1>1, <1>2

LEMMA InputsTail ==
  ASSUME NEW msgs \in Seq(Request), msgs # <<>>
  PROVE  Inputs(msgs) = With(<<>>, Head(msgs)) \o Inputs(Tail(msgs))
<1> DEFINE n == Len(msgs)
           t == Tail(msgs)
           first == With(<<>>, Head(msgs))
<1>1. /\ n \in Nat \ {0} /\ t \in Seq(Request) /\ Len(t) = n - 1 /\ Head(msgs) = msgs[1] /\ Head(msgs) \in Request
      /\ \A i \in 1..n - 1 : t[i] = msgs[i + 1]
  OBVIOUS
<1>2. PICK g : Course(g, t)
  BY <1>1, CourseRuns
<1>3. Inputs(t) = g[n - 1]
  BY <1>1, <1>2, InputsIs
<1>4. first \in Seq(Nat)
  <2>1. <<>> \in Seq(Nat)
    OBVIOUS
  <2> QED BY <1>1, <2>1, WithType
<1> DEFINE h == [i \in 0..n |-> IF i = 0 THEN <<>> ELSE first \o g[i - 1]]
<1>5. \A i \in 1..n : msgs[i] \in Request
  OBVIOUS
<1> HIDE DEF n, t, first
<1>6. h[0] = <<>> /\ \A i \in 1..n : h[i] = first \o g[i - 1]
  BY <1>1
<1> HIDE DEF h
<1>7. g[0] = <<>> /\ (\A i \in 1..n - 1 : g[i] = With(g[i - 1], t[i])) /\ \A i \in 0..n - 1 : g[i] \in Seq(Nat)
  BY <1>1, <1>2 DEF Course
<1>8. \A i \in 1..n : h[i] = With(h[i - 1], msgs[i])
  <2> TAKE i \in 1..n
  <2>1. CASE i = 1
    <3>1. h[1] = first \o g[0] /\ first \o <<>> = first
      BY <1>1, <1>4, <1>6
    <3> QED BY <1>1, <1>6, <1>7, <2>1, <3>1 DEF first
  <2>2. CASE i # 1
    <3>1. i - 1 \in 1..n - 1 /\ i - 1 \in 1..n /\ (i - 1) + 1 = i /\ (i - 1) - 1 \in 0..n - 1
      BY <1>1, <2>2
    <3>2. g[i - 1] = With(g[(i - 1) - 1], msgs[i])
      BY <1>1, <1>7, <3>1
    <3>3. first \o g[i - 1] = With(first \o g[(i - 1) - 1], msgs[i])
      <4>1. g[(i - 1) - 1] \in Seq(Nat)
        BY <1>7, <3>1
      <4> QED BY <1>4, <1>5, <3>2, <4>1, WithAfter
    <3> QED BY <1>6, <3>1, <3>3
  <2> QED BY <2>1, <2>2
<1>9. \A i \in 0..n : h[i] \in Seq(Nat)
  <2> TAKE i \in 0..n
  <2>1. CASE i = 0
    <3>1. <<>> \in Seq(Nat)
      OBVIOUS
    <3> QED BY <1>6, <2>1, <3>1
  <2>2. CASE i # 0
    <3>1. i \in 1..n /\ i - 1 \in 0..n - 1
      BY <1>1, <2>2
    <3>2. g[i - 1] \in Seq(Nat)
      BY <1>7, <3>1
    <3>3. \A x \in Seq(Nat) : first \o x \in Seq(Nat)
      BY <1>4
    <3> QED BY <1>6, <3>1, <3>2, <3>3
  <2> QED BY <2>1, <2>2
<1>10. Course(h, msgs)
  BY <1>6, <1>8, <1>9 DEF Course, n
<1>11. Inputs(msgs) = h[n] /\ h[n] = first \o g[n - 1]
  <2>1. n \in 1..n
    BY <1>1
  <2> QED BY <1>6, <1>10, <2>1, InputsIs DEF n
<1> QED BY <1>3, <1>11 DEF first, t

-----------------------------------------------------------------------------
(* What a connection took was sent on it. *)

InputInv ==
  /\ InputKept
  /\ socket.open /\ accepted # <<>> => input.sent

LEMMA InputInit == Init => InputInv
<1> SUFFICES ASSUME Init PROVE InputInv
  OBVIOUS
<1> QED BY DEF Init, InputInv, InputKept

(* The equation of InputKept when a message moves. *)
LEMMA OneTyped ==
  ASSUME NEW t \in Seq(Nat), NEW x \in Nat, NEW r \in Seq(Nat), NEW u \in Seq(Nat)
  PROVE  t \o (<<x>> \o r) \o u = Append(t, x) \o r \o u
<1>1. <<x>> \in Seq(Nat) /\ t \o <<x>> = Append(t, x)
  OBVIOUS
<1>2. t \o (<<x>> \o r) = (t \o <<x>>) \o r
  BY <1>1, OneFirst
<1> QED BY <1>1, <1>2

LEMMA AppendAfter ==
  ASSUME NEW s \in Seq(Nat), NEW u \in Seq(Nat), NEW x \in Nat
  PROVE  Append(s \o u, x) = s \o Append(u, x)
<1>1. \A w \in Nat : s \o Append(u, w) = Append(s \o u, w)
  OBVIOUS
<1> QED BY <1>1

LEMMA OneSent ==
  ASSUME NEW t \in Seq(Nat), NEW x \in Nat, NEW r \in Seq(Nat), NEW u \in Seq(Nat)
  PROVE  t \o r \o (<<x>> \o u) = t \o Append(r, x) \o u
<1>1. <<x>> \in Seq(Nat) /\ r \o <<x>> = Append(r, x)
  OBVIOUS
<1>2. (t \o r) \o (<<x>> \o u) = ((t \o r) \o <<x>>) \o u
  <2>1. PICK s \in Seq(Nat) : s = t \o r
    <3>1. t \o r \in Seq(Nat)
      OBVIOUS
    <3> QED BY <3>1
  <2>2. s \o (<<x>> \o u) = (s \o <<x>>) \o u
    BY <1>1, OneFirst
  <2> QED BY <2>1, <2>2
<1>3. (t \o r) \o <<x>> = t \o (r \o <<x>>)
  BY <1>1, OneFirst
<1> QED BY <1>1, <1>2, <1>3

LEMMA OneTaken ==
  ASSUME NEW t \in Seq(Nat), NEW x \in Nat, NEW r \in Seq(Nat), NEW u \in Seq(Nat)
  PROVE  Append(t \o r \o u, x) = t \o r \o Append(u, x)
<1>1. t \o r \in Seq(Nat)
  OBVIOUS
<1> QED BY <1>1, AppendAfter

LEMMA InputTypes ==
  ASSUME TypeInv
  PROVE  /\ typed \in Seq(Nat) /\ Inputs(request) \in Seq(Nat) /\ Inputs(up) \in Seq(Nat)
         /\ up \in Seq(Request) /\ request \in Seq(Request) /\ Up \subseteq Request
         /\ \A m \in Request : m.op # "input" => With(<<>>, m) = <<>> /\ \A s : With(s, m) = s
         /\ \A m \in Request : m.op = "input" => m.what \in Nat /\ With(<<>>, m) = <<m.what>>
                                                 /\ \A s : With(s, m) = Append(s, m.what)
<1>1. Up \subseteq Request
  BY DEF Up, Request
<1>2. up \in Seq(Request) /\ request \in Seq(Request)
  BY <1>1, SeqGrows DEF TypeInv
<1>3. \A m \in Request : m.op = "input" => m.what \in Nat
  BY DEF Request
<1>4. \A x : Append(<<>>, x) = <<x>>
  OBVIOUS
<1> QED BY <1>1, <1>2, <1>3, <1>4, InputsType DEF TypeInv, With

LEMMA InputServes ==
  ASSUME TypeInv, PhaseInv, InputInv, PtydServes
  PROVE  InputInv'
<1> DEFINE m == Head(request)
<1>1. request # <<>> /\ request' = Tail(request) /\ UNCHANGED <<up, socket, input, accepted, lost>>
  BY DEF PtydServes, browserVars
<1>2. m \in Request /\ request' \in Seq(Request)
  BY <1>1, InputTypes, TailIn
<1>3. Inputs(request) = With(<<>>, m) \o Inputs(request')
  BY <1>1, InputTypes, InputsTail
<1>4. socket.open => accepted = typed' \o Inputs(request') \o Inputs(up)
  <2>1. CASE m.op = "input" /\ typed' = Append(typed, m.what)
    <3>1. m.what \in Nat /\ Inputs(request) = <<m.what>> \o Inputs(request')
      BY <1>2, <1>3, <2>1, InputTypes
    <3>2. Inputs(request') \in Seq(Nat)
      BY <1>2, InputsType
    <3>3. typed \o (<<m.what>> \o Inputs(request')) \o Inputs(up) = Append(typed, m.what) \o Inputs(request') \o Inputs(up)
      <4>1. PICK t, x, r, u : t = typed /\ x = m.what /\ r = Inputs(request') /\ u = Inputs(up)
        OBVIOUS
      <4>2. t \in Seq(Nat) /\ x \in Nat /\ r \in Seq(Nat) /\ u \in Seq(Nat)
        BY <3>1, <3>2, <4>1, InputTypes
      <4>3. t \o (<<x>> \o r) \o u = Append(t, x) \o r \o u
        BY <4>2, OneTyped
      <4> QED BY <4>1, <4>3
    <3> QED BY <2>1, <3>1, <3>3 DEF InputInv, InputKept
  <2>2. CASE m.op # "input" /\ UNCHANGED typed
    <3>1. Inputs(request) = <<>> \o Inputs(request')
      BY <1>2, <1>3, <2>2, InputTypes
    <3>2. Inputs(request') \in Seq(Nat)
      BY <1>2, InputsType
    <3>3. <<>> \o Inputs(request') = Inputs(request')
      BY <3>2
    <3> QED BY <2>2, <3>1, <3>3 DEF InputInv, InputKept
  <2> QED BY <2>1, <2>2 DEF PtydServes, Subscribe, Resize, Write
<1> QED BY <1>1, <1>4 DEF InputInv, InputKept

LEMMA InputFromBrowser ==
  ASSUME TypeInv, PhaseInv, InputInv, FromBrowser
  PROVE  InputInv'
<1> DEFINE m == Head(up)
<1>1. up # <<>> /\ up' = Tail(up) /\ request' = (IF handler.attached THEN Append(request, m) ELSE request)
      /\ UNCHANGED <<socket, input, accepted, typed, lost>>
  BY DEF FromBrowser, browserVars, history
<1>2. request' = Append(request, m)
  BY <1>1 DEF PhaseInv
<1>3. m \in Request /\ up' \in Seq(Request)
  BY <1>1, InputTypes, TailIn
<1>4. Inputs(up) = With(<<>>, m) \o Inputs(up') /\ Inputs(request') = With(Inputs(request), m)
  BY <1>1, <1>2, <1>3, InputTypes, InputsTail, InputsOneMore
<1>5. Inputs(up') \in Seq(Nat)
  BY <1>3, InputsType
<1>6. typed \o Inputs(request) \o Inputs(up) = typed \o Inputs(request') \o Inputs(up')
  <2>1. CASE m.op = "input"
    <3>1. m.what \in Nat /\ Inputs(up) = <<m.what>> \o Inputs(up') /\ Inputs(request') = Append(Inputs(request), m.what)
      BY <1>3, <1>4, <2>1, InputTypes
    <3>2. typed \o Inputs(request) \o (<<m.what>> \o Inputs(up')) = typed \o Append(Inputs(request), m.what) \o Inputs(up')
      BY <1>5, <3>1, InputTypes, OneSent
    <3> QED BY <3>1, <3>2
  <2>2. CASE m.op # "input"
    <3>1. Inputs(up) = <<>> \o Inputs(up') /\ Inputs(request') = Inputs(request)
      BY <1>3, <1>4, <2>2, InputTypes
    <3>2. <<>> \o Inputs(up') = Inputs(up')
      BY <1>5
    <3> QED BY <3>1, <3>2
  <2> QED BY <2>1, <2>2
<1> QED BY <1>1, <1>6 DEF InputInv, InputKept

LEMMA InputGone ==
  ASSUME TypeInv, InputInv, Gone, socket.open
  PROVE  InputInv'
<1>1. /\ socket' = [socket EXCEPT !.open = FALSE, !.usable = FALSE]
      /\ input' = [sent |-> FALSE, notice |-> input.notice \/ input.sent]
      /\ lost' = (lost \/ accepted # typed)
  BY DEF Gone
<1>2. ~socket'.open
  BY <1>1 DEF TypeInv
<1>3. accepted # typed => accepted # <<>>
  <2>1. ASSUME accepted = <<>> PROVE typed = <<>>
    <3>1. typed \o Inputs(request) \o Inputs(up) = <<>>
      BY <2>1 DEF InputInv, InputKept
    <3>2. \A a, b, c \in Seq(Nat) : a \o b \o c = <<>> => a = <<>>
      <4> TAKE a, b, c \in Seq(Nat)
      <4> HAVE a \o b \o c = <<>>
      <4>1. Len(a \o b \o c) = Len(a) + Len(b) + Len(c) /\ Len(a \o b \o c) = 0
        OBVIOUS
      <4>2. Len(a) \in Nat /\ Len(b) \in Nat /\ Len(c) \in Nat
        OBVIOUS
      <4>3. Len(a) = 0
        BY <4>1, <4>2
      <4> QED BY <4>3
    <3> QED BY <3>1, <3>2, InputTypes
  <2> QED BY <2>1
<1>4. lost' => input'.notice
  BY <1>1, <1>3 DEF InputInv, InputKept
<1> QED BY <1>2, <1>4 DEF InputInv, InputKept

LEMMA InputSends ==
  ASSUME TypeInv, InputInv, NEW w, w = up \/ \E z : w = Append(up, [op |-> "resize", size |-> z]) /\ z \in Size
  PROVE  w \in Seq(Request) /\ Inputs(w) = Inputs(up)
<1>1. CASE w = up
  BY <1>1, InputTypes
<1>2. ASSUME NEW z \in Size, w = Append(up, [op |-> "resize", size |-> z])
      PROVE  w \in Seq(Request) /\ Inputs(w) = Inputs(up)
  <2>1. PICK m : m = [op |-> "resize", size |-> z]
    OBVIOUS
  <2>2. m \in Request /\ m.op # "input"
    BY <2>1 DEF Request
  <2>3. Inputs(w) = With(Inputs(up), m)
    BY <1>2, <2>1, <2>2, InputTypes, InputsOneMore
  <2> QED BY <1>2, <2>1, <2>2, <2>3, InputTypes, AppendIn
<1> QED BY <1>1, <1>2

LEMMA InputBrowser ==
  ASSUME TypeInv, PhaseInv, InputInv, Measure \/ Type
  PROVE  InputInv'
<1>1. ASSUME NEW m, m = Unmeasured \/ m = Measured
      PROVE  /\ up \o m.sent \in Seq(Request) /\ Inputs(up \o m.sent) = Inputs(up)
  <2>1. m.sent = <<>> \/ m.sent = <<[op |-> "resize", size |-> term.room]>>
    BY <1>1 DEF Unmeasured, Measured
  <2>2. IsSeq(up)
    BY DEF TypeInv, IsSeq
  <2>3. up \o m.sent = up \/ up \o m.sent = Append(up, [op |-> "resize", size |-> term.room])
    BY <2>1, <2>2, Grown
  <2>4. term.room \in Size
    BY DEF TypeInv
  <2> QED BY <2>3, <2>4, InputSends
<1>2. CASE Measure
  <2>1. Inputs(up') = Inputs(up)
    BY <1>1, <1>2 DEF Measure
  <2>2. UNCHANGED <<request, socket, input, accepted, typed, lost>>
    BY <1>2 DEF Measure, history
  <2> QED BY <2>1, <2>2 DEF InputInv, InputKept
<1>3. CASE Type
  <2>1. PICK m : /\ m = Unmeasured \/ m = Measured
                 /\ IF socket.usable
                    THEN /\ up' = up \o m.sent \o <<[op |-> "input", what |-> Len(accepted) + 1]>>
                         /\ accepted' = Append(accepted, Len(accepted) + 1)
                         /\ input' = [sent |-> TRUE, notice |-> FALSE]
                         /\ lost' = FALSE
                    ELSE /\ input' = [input EXCEPT !.notice = TRUE]
                         /\ UNCHANGED <<up, accepted, lost>>
    BY <1>3 DEF Type
  <2>2. UNCHANGED <<request, socket, typed>>
    BY <1>3 DEF Type
  <2>3. CASE socket.usable
    <3>1. PICK w : w = up \o m.sent
      OBVIOUS
    <3>2. w \in Seq(Request) /\ Inputs(w) = Inputs(up)
      BY <1>1, <2>1, <3>1
    <3>3. PICK x \in Nat : x = Len(accepted) + 1
      <4>1. Len(accepted) + 1 \in Nat
        BY DEF TypeInv
      <4> QED BY <4>1
    <3>4. PICK i : i = [op |-> "input", what |-> x]
      OBVIOUS
    <3>5. i \in Request /\ i.op = "input" /\ i.what = x
      BY <3>3, <3>4 DEF Request
    <3>6. up' = Append(w, i)
      <4>1. IsSeq(w)
        BY <3>2 DEF IsSeq
      <4>2. up' = w \o <<i>>
        BY <2>1, <2>3, <3>1, <3>3, <3>4
      <4> QED BY <4>1, <4>2, Grown
    <3>7. Inputs(up') = Append(Inputs(up), x)
      BY <3>2, <3>5, <3>6, InputsOneMore, InputTypes
    <3>8. socket.open
      BY <2>3 DEF PhaseInv
    <3>9. accepted = typed \o Inputs(request) \o Inputs(up)
      BY <3>8 DEF InputInv, InputKept
    <3>10. Append(typed \o Inputs(request) \o Inputs(up), x) = typed \o Inputs(request) \o Append(Inputs(up), x)
      BY <3>3, InputTypes, OneTaken
    <3>11. accepted' = Append(accepted, x) /\ input'.sent /\ ~lost'
      BY <2>1, <2>3, <3>3
    <3> QED BY <2>2, <3>7, <3>9, <3>10, <3>11 DEF InputInv, InputKept
  <2>4. CASE ~socket.usable
    <3>1. UNCHANGED <<up, accepted, lost>> /\ input'.sent = input.sent /\ input'.notice
      BY <2>1, <2>4 DEF TypeInv
    <3> QED BY <2>2, <3>1 DEF InputInv, InputKept
  <2> QED BY <2>3, <2>4
<1> QED BY <1>2, <1>3

LEMMA InputStep ==
  ASSUME TypeInv, PhaseInv, InputInv, [Next]_vars
  PROVE  InputInv'
<1>1. CASE UNCHANGED <<request, up, input, accepted, typed, lost>> /\ socket'.open = socket.open
  BY <1>1 DEF InputInv, InputKept
<1>2. CASE Emit \/ OthersLeave \/ Event \/ Answer \/ Receive \/ UNCHANGED vars
           \/ \E s \in Size : OthersDeclare(s) \/ PaneChanges(s)
  BY <1>1, <1>2 DEF Emit, OthersLeave, Event, Answer, Receive, OthersDeclare, PaneChanges, vars, browserVars, history
<1>3. CASE Parse
  <2>1. socket' = socket \/ socket' = [socket EXCEPT !.usable = TRUE]
    BY <1>3 DEF Parse
  <2>2. socket'.open = socket.open
    BY <2>1 DEF TypeInv
  <2> QED BY <1>1, <1>3, <2>2 DEF Parse, history
<1>4. CASE Output
  <2>1. CASE Gone
    <3>1. socket.open
      BY <1>4 DEF Output, PhaseInv
    <3> QED BY <2>1, <3>1, InputGone
  <2>2. CASE UNCHANGED <<ptydVars, request, handler, up, browserVars, history>>
    BY <1>1, <2>2 DEF browserVars, history
  <2> QED BY <1>4, <2>1, <2>2 DEF Output
<1>5. CASE Disconnect
  BY <1>5, InputGone DEF Disconnect
<1>6. CASE Hello
  <2>1. handler.size \in Maybe(Size)
    BY DEF TypeInv
  <2>2. PICK m : m = [op |-> "subscribe", size |-> handler.size]
    OBVIOUS
  <2>3. m \in Request /\ m.op # "input"
    BY <2>1, <2>2 DEF Request
  <2>4. request' = Append(request, m) /\ UNCHANGED <<up, socket, input, accepted, typed, lost>>
    BY <1>6, <2>2 DEF Hello, browserVars, history
  <2>5. Inputs(request') = Inputs(request)
    BY <2>3, <2>4, InputTypes, InputsOneMore
  <2> QED BY <2>4, <2>5 DEF InputInv, InputKept
<1>7. CASE Connect
  <2>1. /\ ~socket.open /\ request' = <<[op |-> "get"]>> /\ accepted' = <<>> /\ typed' = <<>>
        /\ UNCHANGED <<up, lost, input>>
    BY <1>7 DEF Connect
  <2>2. up = <<>>
    BY <2>1 DEF PhaseInv
  <2>3. Inputs(<<[op |-> "get"]>>) = <<>>
    <3>1. PICK m : m = [op |-> "get"]
      OBVIOUS
    <3>2. m \in Request /\ m.op # "input" /\ <<>> \in Seq(Request) /\ <<m>> = Append(<<>>, m)
      BY <3>1 DEF Request
    <3>3. Inputs(<<m>>) = With(Inputs(<<>>), m)
      BY <3>2, InputsOneMore
    <3> QED BY <3>1, <3>2, <3>3, NoInputs DEF With
  <2>4. <<>> = <<>> \o <<>> \o <<>>
    OBVIOUS
  <2> QED BY <2>1, <2>2, <2>3, <2>4, NoInputs DEF InputInv, InputKept
<1>8. CASE Dismiss
  <2>1. UNCHANGED <<request, up, socket, accepted, typed>> /\ ~lost' /\ input'.sent = input.sent
    BY <1>8 DEF Dismiss, TypeInv
  <2> QED BY <2>1 DEF InputInv, InputKept
<1> QED BY <1>2, <1>3, <1>4, <1>5, <1>6, <1>7, <1>8, InputServes, InputFromBrowser, InputBrowser DEF Next, FromPtyd

-----------------------------------------------------------------------------
(* The last size told and the last size asked for, where the viewer that    *)
(* was active last decides.                                                 *)

LatestIn(S, s, z) ==
  \E i \in 1..Len(s) : s[i] \in S /\ s[i].size = z /\ \A j \in 1..Len(s) : j > i => s[j] \notin S
NoneIn(S, s) == \A i \in 1..Len(s) : s[i] \notin S

Sizing == [t : {"hello", "ready", "resized"}, size : Size]
Asking == [op : {"resize"}, size : Size]

Asked(z) == LatestIn(Asking, up, z) \/ (NoneIn(Asking, up) /\ LatestIn(Asking, request, z))

SizeInv ==
  votes.attached =>
    \/ LatestIn(Sizing, frames, size)
    \/ NoneIn(Sizing, frames) /\ LatestIn(Sizing, wire, size)
    \/ NoneIn(Sizing, frames) /\ NoneIn(Sizing, wire)
       /\ (Clamped(term.cols) = size \/ Asked(term.cols))

LEMMA LatestOneMore ==
  ASSUME NEW S, NEW s, IsSeq(s), NEW m
  PROVE  /\ m \in S => LatestIn(S, Append(s, m), m.size)
         /\ m \notin S /\ NoneIn(S, s) => NoneIn(S, Append(s, m))
         /\ \A z : m \notin S /\ LatestIn(S, s, z) => LatestIn(S, Append(s, m), z)
<1> DEFINE n == Len(s)
           t == Append(s, m)
<1>1. n \in Nat /\ Len(t) = n + 1 /\ t[n + 1] = m /\ \A i \in 1..n : t[i] = s[i]
  BY Grown
<1> HIDE DEF n, t
<1>2. \A i \in 1..n + 1 : i = n + 1 \/ i \in 1..n
  BY <1>1
<1>3. n + 1 \in 1..n + 1 /\ \A i \in 1..n : i \in 1..n + 1
  BY <1>1
<1>4. ASSUME m \in S PROVE LatestIn(S, t, m.size)
  <2>1. \A j \in 1..n + 1 : ~(j > n + 1)
    BY <1>1
  <2> QED BY <1>1, <1>3, <1>4, <2>1 DEF LatestIn
<1>5. ASSUME m \notin S, NoneIn(S, s) PROVE NoneIn(S, t)
  BY <1>1, <1>2, <1>5 DEF NoneIn, n
<1>6. ASSUME NEW z, m \notin S, LatestIn(S, s, z) PROVE LatestIn(S, t, z)
  <2>1. PICK i \in 1..n : s[i] \in S /\ s[i].size = z /\ \A j \in 1..n : j > i => s[j] \notin S
    BY <1>6 DEF LatestIn, n
  <2>2. t[i] \in S /\ t[i].size = z /\ \A j \in 1..n + 1 : j > i => t[j] \notin S
    BY <1>1, <1>2, <1>6, <2>1
  <2> QED BY <1>1, <1>3, <2>1, <2>2 DEF LatestIn
<1> QED BY <1>4, <1>5, <1>6 DEF t

LEMMA LatestOneLess ==
  ASSUME NEW S, NEW s, IsSeq(s), s # <<>>
  PROVE  /\ NoneIn(S, s) => NoneIn(S, Tail(s)) /\ Head(s) \notin S
         /\ \A z : LatestIn(S, s, z) =>
              \/ LatestIn(S, Tail(s), z)
              \/ NoneIn(S, Tail(s)) /\ Head(s) \in S /\ Head(s).size = z
<1> DEFINE n == Len(s)
           t == Tail(s)
<1>1. n \in Nat \ {0} /\ Len(t) = n - 1 /\ Head(s) = s[1] /\ \A i \in 1..n - 1 : t[i] = s[i + 1]
  BY Shortened
<1> HIDE DEF n, t
<1>2. 1 \in 1..n /\ \A i \in 1..n - 1 : i + 1 \in 1..n
  BY <1>1
<1>3. ASSUME NoneIn(S, s) PROVE NoneIn(S, t) /\ Head(s) \notin S
  BY <1>1, <1>2, <1>3 DEF NoneIn, n
<1>4. ASSUME NEW z, LatestIn(S, s, z)
      PROVE  LatestIn(S, t, z) \/ (NoneIn(S, t) /\ Head(s) \in S /\ Head(s).size = z)
  <2>1. PICK i \in 1..n : s[i] \in S /\ s[i].size = z /\ \A j \in 1..n : j > i => s[j] \notin S
    BY <1>4 DEF LatestIn, n
  <2>2. CASE i = 1
    <3>1. \A j \in 1..n - 1 : t[j] \notin S
      <4> TAKE j \in 1..n - 1
      <4>1. j + 1 > i /\ j + 1 \in 1..n
        BY <1>1, <2>2
      <4> QED BY <1>1, <2>1, <4>1
    <3> QED BY <1>1, <2>1, <2>2, <3>1 DEF NoneIn
  <2>3. CASE i # 1
    <3>1. i - 1 \in 1..n - 1 /\ (i - 1) + 1 = i
      BY <1>1, <2>1, <2>3
    <3>2. t[i - 1] = s[i]
      BY <1>1, <3>1
    <3>3. \A j \in 1..n - 1 : j > i - 1 => t[j] \notin S
      <4> TAKE j \in 1..n - 1
      <4> HAVE j > i - 1
      <4>1. j + 1 > i /\ j + 1 \in 1..n
        BY <1>1, <2>1
      <4> QED BY <1>1, <2>1, <4>1
    <3> QED BY <1>1, <2>1, <3>1, <3>2, <3>3 DEF LatestIn
  <2> QED BY <2>2, <2>3
<1> QED BY <1>3, <1>4 DEF t

LEMMA NoneYet == \A S : NoneIn(S, <<>>) /\ \A z : ~LatestIn(S, <<>>, z)
<1>1. 1..Len(<<>>) = {}
  OBVIOUS
<1> QED BY <1>1 DEF NoneIn, LatestIn

LEMMA SizeSeqs ==
  ASSUME TypeInv
  PROVE  IsSeq(frames) /\ IsSeq(wire) /\ IsSeq(up) /\ IsSeq(request)
BY DEF TypeInv, IsSeq

LEMMA SizeInit == Init => SizeInv
BY DEF Init, SizeInv

(* A size that changed is told. *)
LEMMA SizeTold ==
  ASSUME TypeInv, PhaseInv, NEW v \in Vote, Heard(Resized(v)), size' = Reconciled(v), votes.attached
  PROVE  /\ size' # size => LatestIn(Sizing, frames', size')
         /\ size' = size => frames' = frames
<1>1. handler.stage # "none"
  BY DEF PhaseInv
<1>2. Reconciled(v) \in Size
  BY VoteTypes DEF TypeInv
<1>3. PICK r : r = ResizedTo(Reconciled(v))
  OBVIOUS
<1>4. r \in Sizing /\ r.size = size'
  BY <1>2, <1>3 DEF Sizing, ResizedTo
<1>5. size' # size => frames' = Append(frames, r)
  BY <1>1, <1>3, HeardResized, SizeSeqs
<1>6. LatestIn(Sizing, Append(frames, r), r.size)
  BY <1>4, LatestOneMore, SizeSeqs
<1>7. size' = size => frames' = frames
  BY HeardResized, SizeSeqs
<1> QED BY <1>4, <1>5, <1>6, <1>7

LEMMA SizeOthers ==
  ASSUME TypeInv, PhaseInv, SizeInv, NEW v \in Vote, v.attached = votes.attached, Voted(v), Heard(Resized(v)),
         UNCHANGED <<wire, up, term>>,
         \/ UNCHANGED request
         \/ request # <<>> /\ request' = Tail(request) /\ Head(request) \notin Asking
  PROVE  SizeInv'
<1>1. votes' = v /\ size' = Reconciled(v)
  BY DEF Voted
<1>2. CASE ~votes.attached
  BY <1>1, <1>2 DEF SizeInv
<1>3. CASE votes.attached /\ size' # size
  <2>1. LatestIn(Sizing, frames', size')
    BY <1>1, <1>3, SizeTold
  <2> QED BY <2>1 DEF SizeInv
<1>4. CASE votes.attached /\ size' = size
  <2>1. frames' = frames
    BY <1>1, <1>4, SizeTold
  <2>2. Asked(term.cols) => (Asked(term.cols))'
    <3>1. CASE UNCHANGED request
      BY <3>1 DEF Asked
    <3>2. CASE request # <<>> /\ request' = Tail(request) /\ Head(request) \notin Asking
      <4>1. LatestIn(Asking, request, term.cols) => LatestIn(Asking, Tail(request), term.cols)
        BY <3>2, LatestOneLess, SizeSeqs
      <4> QED BY <3>2, <4>1 DEF Asked
    <3> QED BY <3>1, <3>2
  <2> QED BY <1>1, <1>4, <2>1, <2>2 DEF SizeInv
<1> QED BY <1>2, <1>3, <1>4

LEMMA SizeServes ==
  ASSUME TypeInv, PhaseInv, SizeInv, PtydServes, resizePolicy = "active"
  PROVE  SizeInv'
<1> DEFINE m == Head(request)
<1>1. /\ request # <<>> /\ handler.stage # "none" /\ request' = Tail(request)
      /\ UNCHANGED <<out, handler, wire, up, term>>
  BY DEF PtydServes, browserVars, PhaseInv
<1>2. m \in Request
  BY <1>1, TailIn DEF TypeInv
<1>3. votes.attached => m \in Up
  BY <1>1, TailIn DEF PhaseInv
<1>4. CASE m.op = "get" /\ Heard(<<[t |-> "meta", size |-> size]>>) /\ UNCHANGED <<size, votes, typed>>
  <2>1. ~votes.attached
    BY <1>3, <1>4 DEF Up
  <2> QED BY <1>4, <2>1 DEF SizeInv
<1>5. CASE m.op = "subscribe" /\ Subscribe(m.size)
  <2>1. PICK s : s = m.size
    OBVIOUS
  <2>2. s \in Maybe(Size)
    BY <1>2, <1>5, <2>1 DEF Request
  <2>3. size' \in Size
        /\ \E f1, f2, f3 \in Seq(Frame) :
              /\ f1 = frames \/ f1 = Append(frames, ResizedTo(size'))
              /\ f2 = Append(f1, [t |-> "subscribed"])
              /\ f3 = IF out = 0 THEN f2 ELSE Append(f2, [t |-> "snapshot", at |-> out, size |-> size'])
              /\ frames' = Append(f3, [t |-> "ready", size |-> size'])
    BY <1>1, <1>5, <2>1, <2>2, HeardSubscribed DEF TypeInv
  <2>4. PICK r, f3 : r = [t |-> "ready", size |-> size'] /\ frames' = Append(f3, r) /\ f3 \in Seq(Frame)
    BY <2>3
  <2>5. IsSeq(f3) /\ r \in Sizing /\ r.size = size'
    BY <2>3, <2>4 DEF IsSeq, Sizing
  <2>6. LatestIn(Sizing, frames', size')
    BY <2>4, <2>5, LatestOneMore
  <2> QED BY <2>6 DEF SizeInv
<1>6. CASE m.op = "resize" /\ Resize(m.size)
  <2>1. PICK v, s : s = m.size /\ v = Asks(s) /\ Voted(v) /\ Heard(Resized(v))
    BY <1>6 DEF Resize, Asks
  <2>2. s \in Size /\ m \in Asking
    BY <1>2, <1>6, <2>1 DEF Request, Asking
  <2>3. v \in Vote /\ v.attached = votes.attached /\ v.mine = Clamped(s) /\ v.last = "mine"
    BY <2>1, <2>2, NewVotes DEF Asks, Vote, TypeInv
  <2>4. Reconciled(v) = Clamped(s)
    <3>1. Clamped(s) # None
      BY <2>2, FittingSizes
    <3> QED BY <2>3, <3>1 DEF Reconciled
  <2>5. votes' = v /\ size' = Clamped(s)
    BY <2>1, <2>4 DEF Voted
  <2>6. CASE ~votes.attached
    BY <2>3, <2>5, <2>6 DEF SizeInv
  <2>7. CASE votes.attached /\ size' # size
    <3>1. LatestIn(Sizing, frames', size')
      BY <2>1, <2>3, <2>4, <2>5, <2>7, SizeTold
    <3> QED BY <3>1 DEF SizeInv
  <2>8. CASE votes.attached /\ size' = size
    <3>1. frames' = frames
      BY <2>1, <2>3, <2>4, <2>5, <2>8, SizeTold
    <3>2. Asked(term.cols) => term.cols = s \/ (Asked(term.cols))'
      <4>1. LatestIn(Asking, request, term.cols) => LatestIn(Asking, Tail(request), term.cols) \/ m.size = term.cols
        BY <1>1, LatestOneLess, SizeSeqs
      <4> QED BY <1>1, <2>1, <4>1 DEF Asked
    <3> QED BY <1>1, <2>5, <2>8, <3>1, <3>2 DEF SizeInv
  <2> QED BY <2>6, <2>7, <2>8
<1>7. CASE m.op = "input" /\ Write(m.what)
  <2>1. m \notin Asking
    BY <1>7 DEF Asking
  <2>2. PICK v : v = Types
    OBVIOUS
  <2>3. Voted(v) /\ Heard(Resized(v)) /\ v \in Vote /\ v.attached = votes.attached
    BY <1>7, <2>2, NewVotes DEF Write, Types, TypeInv
  <2> QED BY <1>1, <2>1, <2>3, SizeOthers
<1> QED BY <1>4, <1>5, <1>6, <1>7 DEF PtydServes

LEMMA SizeFromPtyd ==
  ASSUME TypeInv, PhaseInv, SizeInv, FromPtyd
  PROVE  SizeInv'
<1> DEFINE f == Head(frames)
<1>1. CASE Gone
  BY <1>1, PhaseGone DEF SizeInv, PhaseInv, Gone, NoHandler
<1>2. CASE ~Gone
  <2>1. /\ frames # <<>> /\ frames' = Tail(frames) /\ UNCHANGED <<size, votes, request, up, term>>
        /\ \/ wire' = Append(wire, f)
           \/ wire' = wire /\ f.t \in {"meta", "subscribed"}
    BY <1>2 DEF FromPtyd, Output, Event, Answer, ptydVars, browserVars
  <2>2. f.t \in {"meta", "subscribed"} => f \notin Sizing
    BY DEF Sizing
  <2> HIDE DEF f
  <2>3. /\ NoneIn(Sizing, frames) => NoneIn(Sizing, frames') /\ f \notin Sizing
        /\ \A z : LatestIn(Sizing, frames, z) =>
             \/ LatestIn(Sizing, frames', z)
             \/ NoneIn(Sizing, frames') /\ f \in Sizing /\ f.size = z
    BY <2>1, SizeSeqs, LatestOneLess DEF f
  <2>4. /\ f \in Sizing => LatestIn(Sizing, wire', f.size)
        /\ f \notin Sizing /\ NoneIn(Sizing, wire) => NoneIn(Sizing, wire')
        /\ \A z : f \notin Sizing /\ LatestIn(Sizing, wire, z) => LatestIn(Sizing, wire', z)
    <3>1. CASE wire' = Append(wire, f)
      BY <3>1, SizeSeqs, LatestOneMore
    <3>2. CASE wire' = wire /\ f.t \in {"meta", "subscribed"}
      BY <2>2, <3>2
    <3> QED BY <2>1, <3>1, <3>2
  <2>5. votes' = votes /\ size' = size /\ term' = term /\ request' = request /\ up' = up
    BY <2>1
  <2> QED BY <2>3, <2>4, <2>5 DEF SizeInv, Asked
<1> QED BY <1>1, <1>2

LEMMA SizeBrowser ==
  ASSUME TypeInv, PhaseInv, SizeInv, Receive \/ FromBrowser \/ Measure \/ Type
  PROVE  SizeInv'
<1>1. CASE Receive
  <2> DEFINE m == Head(wire)
  <2>1. /\ wire # <<>> /\ wire' = Tail(wire) /\ term' = Sized(m)
        /\ UNCHANGED <<size, votes, frames, request, up>>
    BY <1>1 DEF Receive, ptydVars
  <2>2. m \in Message /\ term \in [cols : Size, room : Size, proposed : Maybe(Size)]
    BY <2>1, TailIn DEF TypeInv
  <2> HIDE DEF m
  <2>3. /\ NoneIn(Sizing, wire) => NoneIn(Sizing, wire') /\ m \notin Sizing
        /\ \A z : LatestIn(Sizing, wire, z) =>
             \/ LatestIn(Sizing, wire', z)
             \/ NoneIn(Sizing, wire') /\ m \in Sizing /\ m.size = z
    BY <2>1, SizeSeqs, LatestOneLess DEF m
  <2>4. m \in Sizing => term'.cols = m.size
    BY <2>1, <2>2 DEF Sized, Sizing
  <2>5. m \notin Sizing => term' = term
    <3>1. m \notin Sizing => m.t \notin {"hello", "ready", "resized"}
      BY <2>2 DEF Sizing, Message, Content
    <3> QED BY <2>1, <3>1 DEF Sized
  <2>6. Clamped(size) = size
    BY FittingSizes DEF TypeInv
  <2> QED BY <2>1, <2>3, <2>4, <2>5, <2>6 DEF SizeInv, Asked
<1>2. CASE FromBrowser
  <2> DEFINE m == Head(up)
  <2>1. up # <<>> /\ up' = Tail(up) /\ request' = (IF handler.attached THEN Append(request, m) ELSE request)
        /\ UNCHANGED <<size, votes, frames, wire, term>>
    BY <1>2 DEF FromBrowser, ptydVars, browserVars
  <2>2. request' = Append(request, m)
    BY <2>1 DEF PhaseInv
  <2> HIDE DEF m
  <2>3. /\ NoneIn(Asking, up) => NoneIn(Asking, up') /\ m \notin Asking
        /\ \A z : LatestIn(Asking, up, z) =>
             \/ LatestIn(Asking, up', z)
             \/ NoneIn(Asking, up') /\ m \in Asking /\ m.size = z
    BY <2>1, SizeSeqs, LatestOneLess DEF m
  <2>4. /\ m \in Asking => LatestIn(Asking, request', m.size)
        /\ \A z : m \notin Asking /\ LatestIn(Asking, request, z) => LatestIn(Asking, request', z)
    BY <2>2, SizeSeqs, LatestOneMore
  <2>5. \A z : Asked(z) => LatestIn(Asking, up', z) \/ (NoneIn(Asking, up') /\ LatestIn(Asking, request', z))
    BY <2>3, <2>4 DEF Asked
  <2> QED BY <2>1, <2>5 DEF SizeInv, Asked
<1>3. ASSUME NEW m, m = Unmeasured \/ m = Measured, NEW w, w = up \o m.sent
      PROVE  /\ IsSeq(w) /\ term.room \in Size /\ m.term.cols \in Size
             /\ \/ w = up /\ m.term.cols = term.cols
                \/ LatestIn(Asking, w, m.term.cols)
  <2>1. term \in [cols : Size, room : Size, proposed : Maybe(Size)]
    BY DEF TypeInv
  <2>2. CASE m.sent = <<>> /\ m.term.cols = term.cols
    <3>1. w = up
      BY <1>3, <2>2, SizeSeqs, Grown
    <3> QED BY <2>1, <2>2, <3>1, SizeSeqs
  <2>3. CASE m.sent = <<[op |-> "resize", size |-> term.room]>> /\ m.term.cols = term.room
    <3>1. PICK r : r = [op |-> "resize", size |-> term.room]
      OBVIOUS
    <3>2. w = Append(up, r)
      BY <1>3, <2>3, <3>1, SizeSeqs, Grown
    <3>3. r \in Asking /\ r.size = term.room
      BY <2>1, <3>1 DEF Asking
    <3>4. LatestIn(Asking, w, term.room) /\ IsSeq(w)
      BY <3>2, <3>3, SizeSeqs, LatestOneMore, Grown
    <3> QED BY <2>1, <2>3, <3>4
  <2>4. \/ m.sent = <<>> /\ m.term.cols = term.cols
        \/ m.sent = <<[op |-> "resize", size |-> term.room]>> /\ m.term.cols = term.room
    <3>1. [term EXCEPT !.proposed = term.room].cols = term.cols
          /\ [term EXCEPT !.proposed = term.room, !.cols = term.room].cols = term.room
      BY <2>1
    <3>2. CASE m = Unmeasured
      BY <3>2 DEF Unmeasured
    <3>3. CASE m = Measured /\ socket.usable
      BY <3>1, <3>3 DEF Measured
    <3>4. CASE m = Measured /\ ~socket.usable
      BY <3>1, <3>4 DEF Measured
    <3> QED BY <1>3, <3>2, <3>3, <3>4
  <2> QED BY <2>2, <2>3, <2>4
<1>4. CASE Measure
  <2>1. PICK m : m = Measured
    OBVIOUS
  <2>2. term' = m.term /\ up' = up \o m.sent /\ UNCHANGED <<size, votes, frames, wire, request>>
    BY <1>4, <2>1 DEF Measure, ptydVars
  <2>3. \/ up' = up /\ term'.cols = term.cols
        \/ LatestIn(Asking, up', term'.cols)
    BY <1>3, <2>1, <2>2
  <2> QED BY <2>2, <2>3 DEF SizeInv, Asked
<1>5. CASE Type
  <2>1. PICK m : /\ m = Unmeasured \/ m = Measured
                 /\ term' = m.term
                 /\ IF socket.usable
                    THEN up' = up \o m.sent \o <<[op |-> "input", what |-> Len(accepted) + 1]>>
                    ELSE UNCHANGED up
    BY <1>5 DEF Type
  <2>2. UNCHANGED <<size, votes, frames, wire, request>>
    BY <1>5 DEF Type, ptydVars
  <2>3. CASE socket.usable
    <3>1. PICK w, i : w = up \o m.sent /\ i = [op |-> "input", what |-> Len(accepted) + 1]
      OBVIOUS
    <3>2. IsSeq(w) /\ ((w = up /\ term'.cols = term.cols) \/ LatestIn(Asking, w, term'.cols))
      BY <1>3, <2>1, <3>1
    <3>3. up' = Append(w, i) /\ i \notin Asking
      <4>1. up' = w \o <<i>>
        BY <2>1, <2>3, <3>1
      <4>2. i \notin Asking
        BY <3>1 DEF Asking
      <4> QED BY <3>2, <4>1, <4>2, Grown
    <3>4. /\ NoneIn(Asking, w) => NoneIn(Asking, up')
          /\ \A z : LatestIn(Asking, w, z) => LatestIn(Asking, up', z)
      BY <3>2, <3>3, LatestOneMore
    <3>5. Asked(term.cols) /\ w = up => LatestIn(Asking, up', term.cols) \/ (NoneIn(Asking, up') /\ LatestIn(Asking, request, term.cols))
      BY <3>4 DEF Asked
    <3> QED BY <2>2, <3>2, <3>4, <3>5 DEF SizeInv, Asked
  <2>4. CASE ~socket.usable
    <3>1. term'.cols = term.cols
      <4>1. term \in [cols : Size, room : Size, proposed : Maybe(Size)]
        BY DEF TypeInv
      <4> QED BY <2>1, <2>4, <4>1 DEF Unmeasured, Measured
    <3>2. up' = up
      BY <2>1, <2>4
    <3> QED BY <2>2, <3>1, <3>2 DEF SizeInv, Asked
  <2> QED BY <2>3, <2>4
<1> QED BY <1>1, <1>2, <1>4, <1>5

LEMMA SizeStep ==
  ASSUME TypeInv, PhaseInv, SizeInv, [Next]_vars, resizePolicy = "active"
  PROVE  SizeInv'
<1>1. CASE UNCHANGED <<size, votes, frames, wire, request, up>> /\ term'.cols = term.cols
  BY <1>1 DEF SizeInv, Asked
<1>2. CASE Parse \/ Dismiss \/ UNCHANGED vars
  BY <1>1, <1>2 DEF Parse, Dismiss, vars, ptydVars, browserVars
<1>3. ASSUME NEW s \in Size, PaneChanges(s) PROVE SizeInv'
  <2>1. term'.cols = term.cols
    BY <1>3 DEF PaneChanges, TypeInv
  <2> QED BY <1>1, <1>3, <2>1 DEF PaneChanges, ptydVars
<1>4. CASE Emit
  <2>1. PICK f : f = [t |-> "out", at |-> out + 1]
    OBVIOUS
  <2>2. f \notin Sizing
    BY <2>1 DEF Sizing
  <2>3. (frames' = Append(frames, f) \/ frames' = frames) /\ UNCHANGED <<size, votes, wire, request, up, term>>
    BY <1>4, <2>1 DEF Emit, browserVars
  <2>4. /\ NoneIn(Sizing, frames) => NoneIn(Sizing, frames')
        /\ \A z : LatestIn(Sizing, frames, z) => LatestIn(Sizing, frames', z)
    BY <2>2, <2>3, SizeSeqs, LatestOneMore
  <2> QED BY <2>3, <2>4 DEF SizeInv, Asked
<1>5. CASE OthersLeave
  <2>1. PICK v : v = [votes EXCEPT !.others = None, !.last = "mine"]
    OBVIOUS
  <2>2. v \in Vote /\ v.attached = votes.attached
    BY <2>1 DEF TypeInv, Vote, Maybe
  <2>3. Voted(v) /\ Heard(Resized(v)) /\ UNCHANGED <<wire, up, request, term>>
    BY <1>5, <2>1 DEF OthersLeave, browserVars
  <2> QED BY <2>2, <2>3, SizeOthers
<1>6. ASSUME NEW s \in Size, OthersDeclare(s) PROVE SizeInv'
  <2>1. PICK v : v = [votes EXCEPT !.others = Clamped(s), !.last = "others"]
    OBVIOUS
  <2>2. v \in Vote /\ v.attached = votes.attached
    BY <2>1, FittingSizes DEF TypeInv, Vote, Maybe
  <2>3. Voted(v) /\ Heard(Resized(v)) /\ UNCHANGED <<wire, up, request, term>>
    BY <1>6, <2>1 DEF OthersDeclare, browserVars
  <2> QED BY <2>2, <2>3, SizeOthers
<1>7. CASE Hello \/ Connect
  <2>1. ~votes.attached /\ votes' = votes
    BY <1>7 DEF Hello, Connect, PhaseInv, ptydVars
  <2> QED BY <2>1 DEF SizeInv
<1>8. CASE Disconnect
  BY <1>8, PhaseGone DEF Disconnect, SizeInv, PhaseInv, Gone, NoHandler
<1> QED BY <1>2, <1>3, <1>4, <1>5, <1>6, <1>7, <1>8, SizeServes, SizeFromPtyd, SizeBrowser DEF Next

-----------------------------------------------------------------------------
(* Every variable keeps its type, and every connection its order of steps. *)
LEMMA TypesHold == Spec => [](TypeInv /\ PhaseInv)
<1>1. TypeInv /\ PhaseInv /\ [Next]_vars => (TypeInv /\ PhaseInv)'
  BY TypeStep, PhaseStep
<1> QED BY TypeInit, PhaseInit, <1>1, PTL DEF Spec

(* However sockets are lost and opened and whatever of an earlier one is    *)
(* still to be parsed: output is parsed once, in order and on a screen that *)
(* was reset for it, and what is replayed does not reach the clipboard.     *)
THEOREM ScreenAlwaysExact == Spec => []ScreenExact
<1>1. ScreenInv => ScreenExact
  BY DEF ScreenInv, ScreenExact
<1>2. TypeInv /\ PhaseInv /\ ScreenInv /\ [Next]_vars => ScreenInv'
  BY ScreenStep
<1> QED BY <1>1, <1>2, ScreenInit, TypesHold, PTL DEF Spec

(* An input that a connection took is on its way or was written to the PTY, *)
(* in order; one that went with its connection is said to be lost.          *)
THEOREM InputAlwaysKept == Spec => []InputKept
<1>1. InputInv => InputKept
  BY DEF InputInv
<1>2. TypeInv /\ PhaseInv /\ InputInv /\ [Next]_vars => InputInv'
  BY InputStep
<1> QED BY <1>1, <1>2, InputInit, TypesHold, PTL DEF Spec

(* Where the viewer that was active last decides, the browser and ptyd      *)
(* agree on the size once nothing is under way, whatever crossed before and *)
(* whoever typed: up to the largest size ptyd allows, to which it takes     *)
(* what is larger.                                                          *)
THEOREM SizesAlwaysAgree ==
  ASSUME resizePolicy = "active"
  PROVE  Spec => []SizesAgree
<1>1. TypeInv /\ PhaseInv /\ SizeInv => SizesAgree
  <2> SUFFICES ASSUME TypeInv, PhaseInv, SizeInv, Quiet PROVE Clamped(term.cols) = size
    BY DEF SizesAgree
  <2>1. votes.attached
    BY DEF Quiet, PhaseInv
  <2>2. frames = <<>> /\ wire = <<>> /\ up = <<>> /\ request = <<>>
    BY DEF Quiet
  <2> QED BY <2>1, <2>2, NoneYet DEF SizeInv, Asked
<1>2. TypeInv /\ PhaseInv /\ SizeInv /\ [Next]_vars => SizeInv'
  BY SizeStep
<1> QED BY <1>1, <1>2, SizeInit, TypesHold, PTL DEF Spec
===============================================================================
