---------------------------- MODULE ControlProofs ----------------------------
(***************************************************************************)
(* Proofs about PtydControl, for any sessions and for any length of what   *)
(* is on the wire: the gateway's cache catches up with ptyd's table, and   *)
(* its browsers' lists with the cache.  And about PtydConnection, for any  *)
(* frames and any cut of the stream: each end acts on just the frames that *)
(* have come in.                                                           *)
(***************************************************************************)
EXTENDS PtydControl, PtydConnection, SequenceTheorems, WellFoundedInduction, TLAPS

(* The least of some numbers: induction, for tlapm. *)
LEMMA Least ==
  ASSUME NEW T, T \subseteq Nat, T # {}
  PROVE  \E n \in T : \A m \in T : n <= m
<1>1. PICK n \in T : \A m \in T : ~(<<m, n>> \in OpToRel(<, Nat))
  BY NatLessThanWellFounded, WFMin
<1>2. \A m \in T : n <= m
  <2> TAKE m \in T
  <2>1. m \in Nat /\ n \in Nat OBVIOUS
  <2>2. CASE m < n
    <3>1. <<m, n>> \in OpToRel(<, Nat) BY <2>1, <2>2 DEF OpToRel
    <3> QED BY <3>1, <1>1
  <2> QED BY <2>1, <2>2
<1> QED BY <1>2

-----------------------------------------------------------------------------
(* A list after some frames: g is what it was after each of them. *)
Course(g, l, frames) == g[0] = l /\ \A i \in 1..Len(frames) : g[i] = Heard(g[i - 1], frames[i])

IsSeq(s) == \E S : s \in Seq(S)

LEMMA CourseRuns ==
  ASSUME NEW l, NEW frames, IsSeq(frames)
  PROVE  \E g : Course(g, l, frames)
<1> DEFINE n == Len(frames)
           To(m) == \E g : g[0] = l /\ \A i \in 1..m : g[i] = Heard(g[i - 1], frames[i])
           T == {m \in 0..n : ~To(m)}
<1>1. n \in Nat
  BY DEF IsSeq
<1> HIDE DEF n
<1>2. SUFFICES ASSUME T # {} PROVE FALSE
  BY <1>1 DEF Course, n
<1>3. PICK m \in T : \A k \in T : m <= k
  <2>1. T \subseteq Nat
    BY <1>1
  <2> HIDE DEF T
  <2> QED BY <1>2, <2>1, Least
<1>4. m # 0
  <2>1. To(0)
    <3> DEFINE g == [i \in 0..0 |-> l]
    <3>1. g[0] = l /\ \A i \in 1..0 : g[i] = Heard(g[i - 1], frames[i])
      OBVIOUS
    <3> HIDE DEF g
    <3> QED BY <3>1
  <2> QED BY <2>1, <1>3
<1>5. m - 1 \in 0..n /\ m \in 1..n
  BY <1>1, <1>3, <1>4
<1>6. To(m - 1)
  BY <1>3, <1>5
<1>7. PICK g : g[0] = l /\ \A i \in 1..m - 1 : g[i] = Heard(g[i - 1], frames[i])
  BY <1>6
<1> DEFINE h == [i \in 0..m |-> IF i < m THEN g[i] ELSE Heard(g[m - 1], frames[m])]
<1>8. h[0] = l /\ h[m] = Heard(g[m - 1], frames[m]) /\ \A i \in 0..m - 1 : h[i] = g[i]
  BY <1>5, <1>7
<1> HIDE DEF h
<1>9. \A i \in 1..m : h[i] = Heard(h[i - 1], frames[i])
  <2> TAKE i \in 1..m
  <2>1. CASE i = m
    BY <1>5, <1>8, <2>1
  <2>2. CASE i # m
    <3>1. i \in 1..m - 1 /\ h[i] = g[i] /\ h[i - 1] = g[i - 1]
      BY <1>5, <1>8, <2>2
    <3> QED BY <1>7, <3>1
  <2> QED BY <2>1, <2>2
<1>10. To(m)
  BY <1>8, <1>9
<1> QED BY <1>3, <1>10

LEMMA AfterCourse ==
  ASSUME NEW l, NEW frames, IsSeq(frames)
  PROVE  \E g : Course(g, l, frames) /\ AfterEvents(l, frames) = g[Len(frames)]
<1> DEFINE n == Len(frames)
<1>1. n \in Nat
  BY DEF IsSeq
<1>2. PICK g : Course(g, l, frames)
  BY CourseRuns
<1> DEFINE h == [i \in 0..n |-> g[i]]
<1>3. h = [i \in 0..n |-> IF i = 0 THEN l ELSE Heard(h[i - 1], frames[i])]
  <2>1. \A i \in 0..n : i # 0 => i \in 1..n /\ i - 1 \in 0..n
    BY <1>1
  <2> QED BY <1>2, <2>1 DEF Course
<1> HIDE DEF h
<1> DEFINE after == CHOOSE f : f = [i \in 0..n |-> IF i = 0 THEN l ELSE Heard(f[i - 1], frames[i])]
<1>4. after = [i \in 0..n |-> IF i = 0 THEN l ELSE Heard(after[i - 1], frames[i])]
  BY <1>3
<1>5. AfterEvents(l, frames) = after[n]
  BY DEF AfterEvents
<1> HIDE DEF after
<1>6. Course(after, l, frames)
  BY <1>1, <1>4 DEF Course
<1> QED BY <1>5, <1>6

LEMMA AfterIs ==
  ASSUME NEW l, NEW frames, IsSeq(frames), NEW g, Course(g, l, frames)
  PROVE  AfterEvents(l, frames) = g[Len(frames)]
<1>1. PICK h : Course(h, l, frames) /\ AfterEvents(l, frames) = h[Len(frames)]
  BY AfterCourse
<1> DEFINE n == Len(frames)
           T == {m \in 0..n : g[m] # h[m]}
<1>2. n \in Nat
  BY DEF IsSeq
<1>3. ASSUME T # {}
      PROVE  FALSE
  <2>1. PICK m \in T : \A k \in T : m <= k
    <3>1. T \subseteq Nat
      BY <1>2
    <3> HIDE DEF T
    <3> QED BY <1>3, <3>1, Least
  <2>2. m # 0
    BY <1>1, <2>1 DEF Course
  <2>3. m \in 1..n /\ m - 1 \in 0..n /\ m - 1 \notin T
    BY <1>2, <2>1, <2>2
  <2>4. g[m - 1] = h[m - 1]
    BY <2>3
  <2> QED BY <1>1, <2>1, <2>3, <2>4 DEF Course
<1> QED BY <1>1, <1>2, <1>3

LEMMA AfterNone ==
  ASSUME NEW l
  PROVE  AfterEvents(l, <<>>) = l
<1> DEFINE g == [i \in 0..0 |-> l]
<1>1. IsSeq(<<>>) /\ Course(g, l, <<>>) /\ g[Len(<<>>)] = l
  BY DEF IsSeq, Course
<1> HIDE DEF g
<1> QED BY <1>1, AfterIs

LEMMA AfterOneMore ==
  ASSUME NEW l, NEW frames, IsSeq(frames), NEW f
  PROVE  AfterEvents(l, Append(frames, f)) = Heard(AfterEvents(l, frames), f) /\ IsSeq(Append(frames, f))
<1>1. PICK S : frames \in Seq(S)
  BY DEF IsSeq
<1> DEFINE n == Len(frames)
           new == Append(frames, f)
<1>2. n \in Nat /\ new \in Seq(S \cup {f}) /\ Len(new) = n + 1 /\ new[n + 1] = f /\ \A i \in 1..n : new[i] = frames[i]
  BY <1>1
<1>3. PICK g : Course(g, l, frames) /\ AfterEvents(l, frames) = g[n]
  BY AfterCourse
<1> HIDE DEF n, new
<1> DEFINE h == [i \in 0..n + 1 |-> IF i <= n THEN g[i] ELSE Heard(g[n], f)]
<1>4. h[n + 1] = Heard(g[n], f) /\ \A i \in 0..n : h[i] = g[i]
  BY <1>2
<1> HIDE DEF h
<1>5. Course(h, l, new)
  <2>1. h[0] = l
    BY <1>2, <1>3, <1>4 DEF Course
  <2>2. ASSUME NEW i \in 1..n + 1
        PROVE  h[i] = Heard(h[i - 1], new[i])
    <3>1. CASE i = n + 1
      <4>1. h[i] = Heard(g[n], f) /\ h[i - 1] = g[n] /\ new[i] = f
        BY <1>2, <1>4, <3>1
      <4> QED BY <4>1
    <3>2. CASE i # n + 1
      <4>1. i \in 1..n /\ h[i] = g[i] /\ h[i - 1] = g[i - 1] /\ new[i] = frames[i]
        BY <1>2, <1>4, <3>2
      <4> QED BY <1>3, <4>1 DEF Course, n
    <3> QED BY <3>1, <3>2
  <2> QED BY <1>2, <2>1, <2>2 DEF Course
<1>6. IsSeq(new)
  BY <1>2 DEF IsSeq
<1>7. AfterEvents(l, new) = h[n + 1]
  BY <1>2, <1>5, <1>6, AfterIs
<1> QED BY <1>3, <1>4, <1>6, <1>7 DEF new

LEMMA Cut ==
  ASSUME NEW s, IsSeq(s), NEW k \in 0..Len(s)
  PROVE  /\ IsSeq(SubSeq(s, 1, k)) /\ Len(SubSeq(s, 1, k)) = k /\ \A i \in 1..k : SubSeq(s, 1, k)[i] = s[i]
         /\ IsSeq(SubSeq(s, k + 1, Len(s))) /\ Len(SubSeq(s, k + 1, Len(s))) = Len(s) - k
         /\ \A i \in 1..Len(s) - k : SubSeq(s, k + 1, Len(s))[i] = s[i + k]
         /\ Len(s) \in Nat
<1>1. PICK S : s \in Seq(S)
  BY DEF IsSeq
<1>2. /\ SubSeq(s, 1, k) \in Seq(S) /\ Len(SubSeq(s, 1, k)) = k /\ \A i \in 1..k : SubSeq(s, 1, k)[i] = s[i]
  BY <1>1
<1>3. /\ SubSeq(s, k + 1, Len(s)) \in Seq(S) /\ Len(SubSeq(s, k + 1, Len(s))) = Len(s) - k
      /\ \A i \in 1..Len(s) - k : SubSeq(s, k + 1, Len(s))[i] = s[i + k]
  BY <1>1
<1>4. IsSeq(SubSeq(s, 1, k))
  BY <1>2 DEF IsSeq
<1>5. IsSeq(SubSeq(s, k + 1, Len(s)))
  BY <1>3 DEF IsSeq
<1>6. Len(s) \in Nat
  BY <1>1
<1> QED BY <1>2, <1>3, <1>4, <1>5, <1>6

LEMMA RestOf ==
  ASSUME NEW S, NEW s \in Seq(S), NEW n, n = Len(s), NEW k \in 0..n
  PROVE  /\ SubSeq(s, k + 1, n) \in Seq(S) /\ Len(SubSeq(s, k + 1, n)) = n - k
         /\ \A i \in 1..n - k : SubSeq(s, k + 1, n)[i] = s[i + k]
OBVIOUS

(* Two lists with the same entries. *)
LEMMA SameList ==
  ASSUME NEW S, NEW s \in Seq(S), NEW t \in Seq(S), Len(s) = Len(t), \A i \in 1..Len(s) : s[i] = t[i]
  PROVE  s = t
OBVIOUS

(* A frame is sent: it is the last of what follows an earlier one. *)
LEMMA TailGrows ==
  ASSUME NEW S, NEW s \in Seq(S), NEW f, NEW p \in 0..Len(s)
  PROVE  /\ IsSeq(SubSeq(s, p + 1, Len(s)))
         /\ SubSeq(Append(s, f), p + 1, Len(s) + 1) = Append(SubSeq(s, p + 1, Len(s)), f)
<1> DEFINE T == S \cup {f}
           n == Len(s)
           t == Append(s, f)
           b == SubSeq(s, p + 1, n)
           c == SubSeq(t, p + 1, n + 1)
           d == Append(b, f)
<1>1. n \in Nat /\ p \in 0..n
  OBVIOUS
<1>2. t \in Seq(T) /\ Len(t) = n + 1 /\ t[n + 1] = f /\ \A i \in 1..n : t[i] = s[i]
  BY <1>1
<1>3. b \in Seq(S) /\ Len(b) = n - p /\ \A i \in 1..n - p : b[i] = s[i + p]
  BY <1>1
<1>4. c \in Seq(T) /\ Len(c) = n + 1 - p /\ \A i \in 1..n + 1 - p : c[i] = t[i + p]
  <2>1. p \in 0..n + 1 /\ n + 1 = Len(t) /\ t \in Seq(T)
    BY <1>1, <1>2
  <2> HIDE DEF t, n, T
  <2> DEFINE m == n + 1
  <2>2. m = Len(t) /\ p \in 0..m
    BY <2>1
  <2> HIDE DEF m
  <2>3. SubSeq(t, p + 1, m) \in Seq(T) /\ Len(SubSeq(t, p + 1, m)) = m - p
        /\ \A i \in 1..m - p : SubSeq(t, p + 1, m)[i] = t[i + p]
    <3>1. PICK u \in Seq(T) : u = t
      BY <2>1
    <3>2. SubSeq(u, p + 1, m) \in Seq(T) /\ Len(SubSeq(u, p + 1, m)) = m - p
          /\ \A i \in 1..m - p : SubSeq(u, p + 1, m)[i] = u[i + p]
      <4>1. m = Len(u) /\ p \in 0..m
        BY <2>2, <3>1
      <4> QED BY <4>1, RestOf
    <3> QED BY <3>1, <3>2
  <2>4. c = SubSeq(t, p + 1, m) /\ m = n + 1
    BY DEF m
  <2> HIDE DEF c
  <2>5. c \in Seq(T) /\ Len(c) = m - p /\ \A i \in 1..m - p : c[i] = t[i + p]
    BY <2>3, <2>4
  <2>6. m - p = n + 1 - p
    BY <1>1, <2>4
  <2> QED BY <2>5, <2>6
<1>5. d \in Seq(T) /\ Len(d) = n + 1 - p /\ d[n + 1 - p] = f /\ \A i \in 1..n - p : d[i] = b[i]
  BY <1>1, <1>3
<1> HIDE DEF b, c, d, t, T
<1>6. \A i \in 1..n + 1 - p : c[i] = d[i]
  <2> TAKE i \in 1..n + 1 - p
  <2>1. CASE i = n + 1 - p
    <3>1. i + p = n + 1
      BY <1>1, <2>1
    <3> QED BY <1>1, <1>2, <1>4, <1>5, <2>1, <3>1
  <2>2. CASE i # n + 1 - p
    <3>1. i \in 1..n - p /\ i + p \in 1..n
      BY <1>1, <2>2
    <3> QED BY <1>1, <1>2, <1>3, <1>4, <1>5, <3>1
  <2> QED BY <2>1, <2>2
<1>7. c = d
  BY <1>4, <1>5, <1>6, SameList
<1>8. IsSeq(b)
  BY <1>3 DEF IsSeq
<1> QED BY <1>7, <1>8 DEF b, c, d, t

(* Frames that are read in two parts. *)
LEMMA AfterParts ==
  ASSUME NEW l, NEW frames, IsSeq(frames), NEW k \in 0..Len(frames)
  PROVE  AfterEvents(l, frames)
         = AfterEvents(AfterEvents(l, SubSeq(frames, 1, k)), SubSeq(frames, k + 1, Len(frames)))
<1> DEFINE n == Len(frames)
           a == SubSeq(frames, 1, k)
           b == SubSeq(frames, k + 1, n)
<1>1. /\ IsSeq(a) /\ Len(a) = k /\ \A i \in 1..k : a[i] = frames[i]
      /\ IsSeq(b) /\ Len(b) = n - k /\ \A i \in 1..n - k : b[i] = frames[i + k]
      /\ n \in Nat
  BY Cut
<1>2. PICK g : Course(g, l, frames) /\ AfterEvents(l, frames) = g[n]
  BY AfterCourse
<1> HIDE DEF n, a, b
<1>3. AfterEvents(l, a) = g[k]
  <2>1. Course(g, l, a)
    BY <1>1, <1>2 DEF Course, n
  <2> QED BY <1>1, <2>1, AfterIs
<1>4. AfterEvents(g[k], b) = g[n]
  <2> DEFINE h == [i \in 0..n - k |-> g[i + k]]
  <2>1. h[0] = g[k] /\ h[n - k] = g[n] /\ \A i \in 1..n - k : h[i] = g[i + k] /\ h[i - 1] = g[i + k - 1]
    BY <1>1 DEF n
  <2> HIDE DEF h
  <2>2. Course(h, g[k], b)
    <3>1. ASSUME NEW i \in 1..n - k
          PROVE  h[i] = Heard(h[i - 1], b[i])
      <4>1. i + k \in 1..n
        BY <1>1
      <4>2. g[i + k] = Heard(g[i + k - 1], frames[i + k])
        BY <1>2, <4>1 DEF Course, n
      <4> QED BY <1>1, <2>1, <4>2
    <3> QED BY <1>1, <2>1, <3>1 DEF Course
  <2> QED BY <1>1, <2>1, <2>2, AfterIs
<1> QED BY <1>2, <1>3, <1>4 DEF n, a, b

-----------------------------------------------------------------------------
IsGot == listing.is = "got"

(* What the gateway has, with what is on the wire, makes up ptyd's table;   *)
(* while it waits for the list, that list does, once it is sent.            *)
SyncInv ==
  /\ IsSeq(wire) /\ table \in List
  /\ listing \in {NoListing, Waiting, Failed} \/ \E l : listing = Got(l)
  /\ listing = Failed => cutOff
  /\ link = "open" /\ ~raced /\ ~cutOff =>
       /\ listing = NoListing => AfterEvents(sessions, wire) = table
       /\ IsGot => AfterEvents(listing.list, wire) = table
       /\ listing = Waiting =>
            \/ asked /\ \A i \in DOMAIN wire : IsEvent(wire[i])
            \/ ~asked /\ \E p \in DOMAIN wire :
                 /\ ~IsEvent(wire[p]) /\ \A i \in DOMAIN wire : ~IsEvent(wire[i]) => i = p
                 /\ AfterEvents(wire[p].val, SubSeq(wire, p + 1, Len(wire))) = table

LEMMA SyncInit == Init => SyncInv
<1>1. IsSeq(<<>>)
  BY DEF IsSeq
<1> QED BY <1>1 DEF Init, SyncInv, NoListing, Waiting, Failed

(* A frame that ptyd sends. *)
LEMMA SentSync ==
  ASSUME SyncInv, NEW f, wire' = Append(wire, f), link = "open",
         Heard(table, f) = table', table' \in List, UNCHANGED <<link, listing, sessions, raced, cutOff>>,
         \/ IsEvent(f) /\ UNCHANGED asked
         \/ ~IsEvent(f) /\ asked /\ ~asked' /\ f.val = table'
  PROVE  SyncInv'
<1> DEFINE n == Len(wire)
<1>1. PICK S : wire \in Seq(S)
  BY DEF SyncInv, IsSeq
<1>2. /\ n \in Nat /\ DOMAIN wire = 1..n /\ DOMAIN wire' = 1..n + 1 /\ Len(wire') = n + 1
      /\ wire'[n + 1] = f /\ \A i \in 1..n : wire'[i] = wire[i]
  BY <1>1
<1>3. IsSeq(wire) /\ IsSeq(wire') /\ \A l : AfterEvents(l, wire') = Heard(AfterEvents(l, wire), f)
  BY AfterOneMore DEF SyncInv
<1> HIDE DEF n
<1>4. ASSUME ~raced, ~cutOff, listing = Waiting
      PROVE  \/ asked' /\ \A i \in DOMAIN wire' : IsEvent(wire'[i])
             \/ ~asked' /\ \E p \in DOMAIN wire' :
                  /\ ~IsEvent(wire'[p]) /\ \A i \in DOMAIN wire' : ~IsEvent(wire'[i]) => i = p
                  /\ AfterEvents(wire'[p].val, SubSeq(wire', p + 1, Len(wire'))) = table'
  <2>1. CASE asked
    <3>1. \A i \in DOMAIN wire : IsEvent(wire[i])
      BY <1>4, <2>1 DEF SyncInv
    <3>2. CASE IsEvent(f)
      BY <1>2, <2>1, <3>1, <3>2
    <3>3. CASE ~IsEvent(f)
      <4> DEFINE b == SubSeq(wire', n + 2, n + 1)
      <4>1. b = <<>>
        BY <1>1, <1>2
      <4>2. AfterEvents(f.val, b) = table'
        <5> HIDE DEF b
        <5> QED BY <3>3, <4>1, AfterNone
      <4>3. /\ n + 1 \in DOMAIN wire' /\ ~IsEvent(wire'[n + 1])
            /\ \A i \in DOMAIN wire' : ~IsEvent(wire'[i]) => i = n + 1
            /\ (n + 1) + 1 = n + 2
        BY <1>2, <3>1, <3>3
      <4> QED BY <1>2, <3>3, <4>2, <4>3
    <3> QED BY <3>2, <3>3
  <2>2. CASE ~asked
    <3>1. IsEvent(f) /\ ~asked'
      BY <2>2
    <3>2. PICK p \in DOMAIN wire :
            /\ ~IsEvent(wire[p]) /\ \A i \in DOMAIN wire : ~IsEvent(wire[i]) => i = p
            /\ AfterEvents(wire[p].val, SubSeq(wire, p + 1, n)) = table
      BY <1>4, <2>2 DEF SyncInv, n
    <3> DEFINE b == SubSeq(wire, p + 1, n)
               c == SubSeq(wire', p + 1, n + 1)
    <3>3. p \in 0..n
      BY <1>2
    <3>4. IsSeq(b) /\ c = Append(b, f)
      BY <1>1, <3>3, TailGrows DEF n
    <3> HIDE DEF b, c
    <3>5. AfterEvents(wire[p].val, c) = table'
      <4>1. AfterEvents(wire[p].val, b) = table
        BY <3>2 DEF b
      <4> QED BY <3>4, <4>1, AfterOneMore
    <3>6. /\ p \in DOMAIN wire' /\ wire'[p] = wire[p]
          /\ \A i \in DOMAIN wire' : ~IsEvent(wire'[i]) => i = p
      <4>1. p \in DOMAIN wire' /\ wire'[p] = wire[p]
        BY <1>2
      <4>2. ASSUME NEW i \in DOMAIN wire', ~IsEvent(wire'[i])
            PROVE  i = p
        BY <1>2, <3>1, <3>2, <4>2
      <4> QED BY <4>1, <4>2
    <3> QED BY <1>2, <3>1, <3>2, <3>5, <3>6 DEF c
  <2> QED BY <2>1, <2>2
<1>5. ASSUME ~raced, ~cutOff, listing = NoListing
      PROVE  AfterEvents(sessions, wire') = table'
  BY <1>3, <1>5 DEF SyncInv
<1>6. ASSUME ~raced, ~cutOff, IsGot
      PROVE  AfterEvents(listing.list, wire') = table'
  BY <1>3, <1>6 DEF SyncInv
<1> QED BY <1>3, <1>4, <1>5, <1>6 DEF SyncInv, IsGot

LEMMA ReadSync ==
  ASSUME SyncInv, ReadChunk
  PROVE  SyncInv'
<1> DEFINE n == Len(wire)
<1>1. PICK k \in 1..n : LET chunk == SubSeq(wire, 1, k)
                            at    == {i \in 1..k : ~IsEvent(chunk[i])}
                        IN /\ wire' = SubSeq(wire, k + 1, n)
                           /\ sessions' = AfterEvents(sessions, chunk)
                           /\ IF at # {} /\ listing = Waiting
                              THEN \E i \in at : listing' = Got(chunk[i].val) /\ raced' = (raced \/ i < k)
                              ELSE UNCHANGED <<listing, raced>>
  BY DEF ReadChunk
<1> DEFINE chunk == SubSeq(wire, 1, k)
           at == {i \in 1..k : ~IsEvent(chunk[i])}
           rest == SubSeq(wire, k + 1, n)
<1>2. /\ wire' = rest /\ sessions' = AfterEvents(sessions, chunk)
      /\ UNCHANGED <<table, asked, link, cutOff>> /\ LoopIdle
      /\ at # {} /\ listing = Waiting => \E i \in at : listing' = Got(chunk[i].val) /\ raced' = (raced \/ i < k)
      /\ ~(at # {} /\ listing = Waiting) => UNCHANGED <<listing, raced>>
  BY <1>1 DEF ReadChunk
<1>3. IsSeq(wire) /\ n \in Nat /\ DOMAIN wire = 1..n /\ k \in 0..n
  <2>1. PICK S : wire \in Seq(S)
    BY DEF SyncInv, IsSeq
  <2> QED BY <2>1 DEF SyncInv
<1>4. /\ \A i \in 1..k : chunk[i] = wire[i]
      /\ IsSeq(rest) /\ Len(rest) = n - k /\ \A i \in 1..n - k : rest[i] = wire[i + k]
  BY <1>3, Cut
<1>5. AfterEvents(AfterEvents(sessions, chunk), rest) = AfterEvents(sessions, wire)
  BY <1>3, AfterParts
<1>6. DOMAIN rest = 1..n - k
  <2>1. PICK S : rest \in Seq(S)
    BY <1>4 DEF IsSeq
  <2> HIDE DEF rest
  <2> QED BY <1>4, <2>1
<1>7. ASSUME NEW p \in k + 1..n
      PROVE  SubSeq(wire, p + 1, n) = SubSeq(rest, p - k + 1, n - k)
  <2>1. PICK S : wire \in Seq(S)
    BY DEF SyncInv, IsSeq
  <2> DEFINE b == SubSeq(wire, p + 1, n)
             c == SubSeq(rest, p - k + 1, n - k)
  <2>2. p \in 0..n /\ p - k \in 0..n - k
    BY <1>3
  <2>3. b \in Seq(S) /\ Len(b) = n - p /\ \A i \in 1..n - p : b[i] = wire[i + p]
    BY <2>1, <2>2, RestOf
  <2>4. rest \in Seq(S)
    BY <1>3, <2>1
  <2> HIDE DEF rest
  <2>5. c \in Seq(S) /\ Len(c) = (n - k) - (p - k) /\ \A i \in 1..(n - k) - (p - k) : c[i] = rest[i + (p - k)]
    <3> DEFINE m == n - k
               q == p - k
    <3>1. m = Len(rest) /\ q \in 0..m
      BY <1>4, <2>2
    <3> HIDE DEF m, q
    <3>2. SubSeq(rest, q + 1, m) \in Seq(S) /\ Len(SubSeq(rest, q + 1, m)) = m - q
          /\ \A i \in 1..m - q : SubSeq(rest, q + 1, m)[i] = rest[i + q]
      BY <2>4, <3>1, RestOf
    <3> QED BY <3>2 DEF m, q
  <2>6. (n - k) - (p - k) = n - p
    BY <1>3, <2>2
  <2> HIDE DEF b, c
  <2>7. \A i \in 1..n - p : c[i] = b[i]
    <3> TAKE i \in 1..n - p
    <3>1. i + (p - k) \in 1..n - k /\ (i + (p - k)) + k = i + p
      BY <1>3, <2>2
    <3> QED BY <1>4, <2>3, <2>5, <2>6, <3>1
  <2>8. b = c
    BY <2>3, <2>5, <2>6, <2>7, SameList
  <2> QED BY <2>8 DEF b, c
<1> HIDE DEF chunk, rest, n
<1>8. IsSeq(wire') /\ table' \in List /\ (listing' \in {NoListing, Waiting, Failed} \/ \E l : listing' = Got(l))
      /\ (listing' = Failed => cutOff')
  BY <1>2, <1>4 DEF SyncInv, Got, Failed
<1>9. CASE listing = NoListing
  <2>1. UNCHANGED <<listing, raced>> /\ ~IsGot /\ listing # Waiting
    BY <1>2, <1>9 DEF NoListing, Waiting, IsGot
  <2>2. ~IsGot' /\ listing' # Waiting
    BY <2>1 DEF IsGot
  <2>3. link' = "open" /\ ~raced' /\ ~cutOff' => AfterEvents(sessions', wire') = table'
    BY <1>2, <1>5, <1>9, <2>1 DEF SyncInv
  <2> QED BY <1>8, <2>2, <2>3 DEF SyncInv
<1>10. CASE listing = Waiting /\ at = {}
  <2>1. UNCHANGED <<listing, raced>> /\ ~IsGot' /\ listing' # NoListing
    BY <1>2, <1>10 DEF NoListing, Waiting, IsGot
  <2>2. ASSUME link = "open", ~raced, ~cutOff
        PROVE  \/ asked' /\ \A i \in DOMAIN wire' : IsEvent(wire'[i])
               \/ ~asked' /\ \E p \in DOMAIN wire' :
                    /\ ~IsEvent(wire'[p]) /\ \A i \in DOMAIN wire' : ~IsEvent(wire'[i]) => i = p
                    /\ AfterEvents(wire'[p].val, SubSeq(wire', p + 1, Len(wire'))) = table'
    <3>1. CASE asked
      <4>1. \A i \in DOMAIN wire : IsEvent(wire[i])
        BY <1>10, <2>2, <3>1 DEF SyncInv
      <4>2. \A i \in 1..n - k : i + k \in 1..n
        BY <1>3
      <4> QED BY <1>2, <1>3, <1>4, <1>6, <3>1, <4>1, <4>2
    <3>2. CASE ~asked
      <4>1. PICK p \in DOMAIN wire :
              /\ ~IsEvent(wire[p]) /\ \A i \in DOMAIN wire : ~IsEvent(wire[i]) => i = p
              /\ AfterEvents(wire[p].val, SubSeq(wire, p + 1, n)) = table
        BY <1>10, <2>2, <3>2 DEF SyncInv, n
      <4>2. p \notin 1..k
        BY <1>4, <1>10, <4>1
      <4>3. p \in k + 1..n
        BY <1>3, <4>2
      <4>4. p - k \in 1..n - k /\ (p - k) + k = p
        BY <1>3, <4>3
      <4>5. rest[p - k] = wire[p]
        BY <1>4, <4>4
      <4>6. \A i \in 1..n - k : ~IsEvent(rest[i]) => i = p - k
        <5> TAKE i \in 1..n - k
        <5>1. i + k \in 1..n /\ rest[i] = wire[i + k]
          BY <1>3, <1>4
        <5>2. i + k = p => i = p - k
          BY <1>3
        <5> QED BY <1>3, <4>1, <5>1, <5>2
      <4>7. AfterEvents(rest[p - k].val, SubSeq(rest, (p - k) + 1, n - k)) = table
        BY <1>7, <4>1, <4>3, <4>5
      <4> QED BY <1>2, <1>4, <1>6, <3>2, <4>1, <4>4, <4>5, <4>6, <4>7
    <3> QED BY <3>1, <3>2
  <2> QED BY <1>2, <1>8, <2>1, <2>2 DEF SyncInv
<1>11. CASE listing = Waiting /\ at # {}
  <2>1. PICK i \in at : listing' = Got(chunk[i].val) /\ raced' = (raced \/ i < k)
    BY <1>2, <1>11
  <2>2. i \in 1..k /\ ~IsEvent(chunk[i]) /\ chunk[i] = wire[i] /\ i \in DOMAIN wire
    BY <1>3, <1>4
  <2>3. listing'.is = "got" /\ listing'.list = wire[i].val /\ listing' # NoListing /\ listing' # Waiting
    BY <2>1, <2>2 DEF Got, NoListing, Waiting
  <2>4. ASSUME link = "open", ~raced', ~cutOff
        PROVE  AfterEvents(listing'.list, wire') = table'
    <3>1. ~raced /\ i = k
      <4>1. ~(i < k) /\ ~raced
        BY <2>1, <2>4
      <4>2. i <= k /\ i \in Int /\ k \in Int
        BY <2>2
      <4> QED BY <4>1, <4>2
    <3>2. AfterEvents(wire[i].val, SubSeq(wire, i + 1, n)) = table
      <4>1. \E p \in DOMAIN wire :
              /\ \A j \in DOMAIN wire : ~IsEvent(wire[j]) => j = p
              /\ AfterEvents(wire[p].val, SubSeq(wire, p + 1, n)) = table
        BY <1>11, <2>2, <2>4, <3>1 DEF SyncInv, n
      <4> QED BY <2>2, <4>1
    <3> QED BY <1>2, <2>3, <3>1, <3>2 DEF rest
  <2> QED BY <1>2, <1>8, <2>3, <2>4 DEF SyncInv, IsGot
<1>12. listing \in {NoListing, Waiting}
  BY <1>2 DEF SyncInv, LoopIdle, Got, Failed
<1> QED BY <1>9, <1>10, <1>11, <1>12

LEMMA SyncStep ==
  ASSUME SyncInv, [Next]_vars
  PROVE  SyncInv'
<1>1. CASE UNCHANGED <<wire, table, listing, cutOff, link, raced, sessions, asked>>
  BY <1>1 DEF SyncInv, IsGot
<1>2. CASE PtydChange
  <2>1. PICK id \in Id, m \in Meta \cup {NoSession} :
          /\ m # table[id] /\ table' = [table EXCEPT ![id] = m]
          /\ Announce(IF m = NoSession THEN removed(id)
                      ELSE IF table[id] = NoSession THEN created(id, m)
                      ELSE changed(id, m))
    BY <1>2 DEF PtydChange
  <2> DEFINE f == IF m = NoSession THEN removed(id)
                  ELSE IF table[id] = NoSession THEN created(id, m)
                  ELSE changed(id, m)
  <2>2. table' \in List
    BY <2>1 DEF SyncInv, List
  <2>3. IsEvent(f) /\ Heard(table, f) = table'
    BY <2>1 DEF Heard, Patched, IsEvent, removed, created, changed
  <2>4. UNCHANGED <<asked, link, listing, sessions, raced, cutOff>>
    BY <1>2 DEF PtydChange, gateway
  <2>5. Announce(f)
    BY <2>1
  <2> HIDE DEF f
  <2>6. CASE link = "open"
    <3>1. wire' = Append(wire, f)
      BY <2>5, <2>6 DEF Announce
    <3> QED BY <2>2, <2>3, <2>4, <2>6, <3>1, SentSync
  <2>7. CASE link # "open"
    <3>1. wire' = wire
      BY <2>5, <2>7 DEF Announce
    <3> QED BY <2>2, <2>4, <2>7, <3>1 DEF SyncInv
  <2> QED BY <2>6, <2>7
<1>3. CASE PtydAnswer
  <2> DEFINE f == listed(table)
  <2>1. f.val = table /\ ~IsEvent(f) /\ Heard(table, f) = table
    BY DEF listed, IsEvent, Heard
  <2>2. /\ wire' = Append(wire, f) /\ asked /\ ~asked'
        /\ UNCHANGED <<table, link, listing, sessions, raced, cutOff>>
    BY <1>3 DEF PtydAnswer, gateway
  <2> HIDE DEF f
  <2>3. CASE link = "open"
    <3>1. table' \in List /\ Heard(table, f) = table' /\ f.val = table'
      BY <2>1, <2>2 DEF SyncInv
    <3> QED BY <2>1, <2>2, <2>3, <3>1, SentSync
  <2>4. CASE link # "open"
    <3>1. IsSeq(wire')
      BY <2>2, AfterOneMore DEF SyncInv
    <3> QED BY <2>2, <2>4, <3>1 DEF SyncInv
  <2> QED BY <2>3, <2>4
<1>4. CASE PtydHangsUp
  <2>1. PICK k \in 0..Len(wire) : wire' = SubSeq(wire, 1, k)
    BY <1>4 DEF PtydHangsUp
  <2>2. IsSeq(wire')
    BY <2>1, Cut DEF SyncInv
  <2>3. /\ link' = "cut" /\ table' \in {table, [id \in Id |-> NoSession]}
        /\ UNCHANGED <<listing, cutOff>>
    BY <1>4 DEF PtydHangsUp, gateway
  <2>4. table' \in List
    BY <2>3 DEF SyncInv, List
  <2> QED BY <2>2, <2>3, <2>4 DEF SyncInv
<1>5. CASE Connected
  <2>1. /\ wire' = <<>> /\ asked' = TRUE /\ listing' = Waiting /\ UNCHANGED <<table, cutOff>>
    BY <1>5 DEF Connected
  <2>2. IsSeq(<<>>) /\ DOMAIN <<>> = {}
    BY DEF IsSeq
  <2>3. listing' # NoListing /\ listing' # Failed /\ ~IsGot'
    BY <2>1 DEF NoListing, Failed, Waiting, IsGot
  <2> QED BY <2>1, <2>2, <2>3 DEF SyncInv
<1>6. CASE ReadChunk
  BY <1>6, ReadSync
<1>7. CASE Synced
  <2>1. /\ listing' = NoListing /\ sessions' = (IF listing = Failed THEN sessions ELSE listing.list)
        /\ UNCHANGED <<table, wire, asked, link, raced, cutOff>> /\ ~LoopIdle
    BY <1>7 DEF Synced
  <2>2. listing' # Waiting /\ ~IsGot' /\ listing' # Failed
    BY <2>1 DEF NoListing, Failed, Waiting, IsGot
  <2>3. listing = Failed \/ IsGot
    BY <2>1 DEF SyncInv, LoopIdle, NoListing, Waiting, Got, IsGot
  <2>4. listing # Failed /\ link = "open" /\ ~raced /\ ~cutOff => AfterEvents(sessions', wire') = table'
    BY <2>1, <2>3 DEF SyncInv
  <2> QED BY <2>1, <2>2, <2>4 DEF SyncInv
<1>8. CASE ListTimesOut
  BY <1>8 DEF ListTimesOut, SyncInv
<1>9. CASE NoticeClose
  <2>1. /\ link' = "none" /\ UNCHANGED <<table, wire>> /\ cutOff' = (cutOff \/ listing = Waiting)
        /\ listing' = IF listing = Waiting THEN Failed ELSE listing
    BY <1>9 DEF NoticeClose
  <2> QED BY <2>1 DEF SyncInv
<1>10. CASE Stop
  <2>1. CASE client
    <3>1. /\ link' = "none" /\ UNCHANGED table /\ wire' = <<>> /\ cutOff' = (cutOff \/ listing = Waiting)
          /\ listing' = IF listing = Waiting THEN Failed ELSE listing
      BY <1>10, <2>1 DEF Stop
    <3>2. IsSeq(wire')
      BY <3>1 DEF IsSeq
    <3> QED BY <3>1, <3>2 DEF SyncInv
  <2>2. CASE ~client
    BY <1>1, <1>10, <2>2 DEF Stop
  <2> QED BY <2>1, <2>2
<1>11. CASE ConnectFails \/ Retry \/ BrowserJoins
  BY <1>1, <1>11 DEF ConnectFails, Retry, BrowserJoins
<1> QED BY <1>1, <1>2, <1>3, <1>4, <1>5, <1>6, <1>7, <1>8, <1>9, <1>10, <1>11 DEF Next, vars

(* For any sessions and however the wire is cut into chunks: what the       *)
(* gateway has not read is exactly what its cache lacks, unless the list    *)
(* call failed or its answer shared a chunk with what came after it.        *)
THEOREM CacheAlwaysCatchesUp == Spec => []CacheCatchesUp
<1>1. SyncInv => CacheCatchesUp
  BY DEF SyncInv, CacheCatchesUp
<1>2. SyncInv /\ [Next]_vars => SyncInv'
  BY SyncStep
<1> QED BY <1>1, <1>2, SyncInit, PTL DEF Spec

-----------------------------------------------------------------------------
(* While it dials, is going to, or waits for the list, the gateway does not *)
(* report that it is connected; once it does, its browsers have its list.   *)
FollowInv ==
  ~cutOff /\ ~stopped =>
    /\ dialing \/ retryTimer \/ listing # NoListing => status # "connected"
    /\ dialing \/ retryTimer => link = "none" /\ listing = NoListing
    /\ ~(dialing /\ retryTimer)
    /\ listing # NoListing => client /\ listing # Failed
    /\ status = "connected" => client /\ shown = sessions

LEMMA FollowInit == Init => FollowInv
BY DEF Init, FollowInv, NoListing

LEMMA FollowStep ==
  ASSUME SyncInv, FollowInv, [Next]_vars
  PROVE  FollowInv'
<1> USE DEF FollowInv
<1>1. CASE UNCHANGED vars
  BY <1>1 DEF vars
<1>2. CASE PtydChange \/ PtydAnswer
  BY <1>2 DEF PtydChange, PtydAnswer, gateway
<1>3. CASE PtydHangsUp
  BY <1>3 DEF PtydHangsUp, gateway
<1>4. CASE Connected
  BY <1>4 DEF Connected, Waiting, Failed, NoListing
<1>5. CASE ConnectFails
  BY <1>5 DEF ConnectFails, SetStatus
<1>6. CASE ReadChunk
  <2>1. /\ UNCHANGED <<link, client, dialing, retryTimer, stopped, status, cutOff>>
        /\ sessions = shown => sessions' = shown'
        /\ listing' = listing \/ (listing = Waiting /\ \E l : listing' = Got(l))
    BY <1>6 DEF ReadChunk
  <2>2. listing = NoListing => listing' = NoListing
    BY <2>1 DEF Waiting, NoListing
  <2>3. listing' # NoListing => listing # NoListing
    BY <2>2
  <2>4. listing # Failed => listing' # Failed
    BY <2>1 DEF Got, Failed
  <2> QED BY <2>1, <2>2, <2>3, <2>4
<1>7. CASE ListTimesOut
  BY <1>7 DEF ListTimesOut
<1>8. CASE Synced
  <2>1. /\ listing' = NoListing /\ sessions' = (IF listing = Failed THEN sessions ELSE listing.list)
        /\ SetStatus("connected", sessions')
        /\ UNCHANGED <<link, client, dialing, retryTimer, stopped, cutOff>> /\ listing # NoListing
    BY <1>8 DEF Synced, LoopIdle, NoListing
  <2> QED BY <2>1 DEF SetStatus
<1>9. CASE NoticeClose
  <2>1. /\ link = "cut" /\ link' = "none" /\ cutOff' = (cutOff \/ listing = Waiting)
        /\ listing' = (IF listing = Waiting THEN Failed ELSE listing)
        /\ LoopIdle /\ UNCHANGED <<dialing, stopped, sessions>>
        /\ ~stopped => SetStatus("down", sessions)
    BY <1>9 DEF NoticeClose
  <2>2. ASSUME ~cutOff', ~stopped'
        PROVE  /\ ~cutOff /\ ~stopped /\ listing' = listing /\ listing # Waiting
               /\ status' = "down" /\ listing.is \in {"none", "waiting"}
    BY <2>1, <2>2 DEF SetStatus, LoopIdle
  <2>3. ASSUME ~cutOff', ~stopped'
        PROVE  listing' = NoListing /\ ~dialing'
    BY <2>1, <2>2, <2>3 DEF SyncInv, Got, Failed, Waiting
  <2> QED BY <2>1, <2>2, <2>3
<1>10. CASE Retry
  <2>1. /\ retryTimer /\ dialing' /\ ~retryTimer' /\ UNCHANGED <<link, client, listing, stopped, sessions, cutOff>>
        /\ status' = (IF client THEN "connecting" ELSE status)
    BY <1>10 DEF Retry, SetStatus
  <2>2. ~cutOff' /\ ~stopped' => status' # "connected"
    BY <2>1
  <2> QED BY <2>1, <2>2
<1>11. CASE Stop
  BY <1>11 DEF Stop
<1>12. CASE BrowserJoins
  BY <1>12 DEF BrowserJoins
<1> QED BY <1>1, <1>2, <1>3, <1>4, <1>5, <1>6, <1>7, <1>8, <1>9, <1>10, <1>11, <1>12 DEF Next

(* For any sessions: unless a list call was ever cut off, a gateway that    *)
(* reports "connected" has a connection, and its browsers hold its list.    *)
THEOREM BrowsersAlwaysFollow == Spec => []BrowsersFollow
<1>1. FollowInv => BrowsersFollow
  BY DEF FollowInv, BrowsersFollow
<1>2. SyncInv /\ FollowInv /\ [Next]_vars => FollowInv'
  BY FollowStep
<1>3. SyncInv /\ [Next]_vars => SyncInv'
  BY SyncStep
<1> QED BY <1>1, <1>2, <1>3, SyncInit, FollowInit, PTL DEF Spec
-----------------------------------------------------------------------------
(* PtydConnection.  Recursions first: EncodedAll, Push, Answers, Handled    *)
(* and Ending are defined for every sequence because what they pass on     *)
(* stays in a set (ItRuns), and appending an element adds one pass.         *)

(* Induction, for the sets of which it shows that they are all. *)
LEMMA UpTo ==
  ASSUME NEW n \in Nat, NEW T, 0 \in T, \A k \in 1..n : k - 1 \in T => k \in T
  PROVE  \A k \in 0..n : k \in T
<1> DEFINE Out == {k \in 0..n : k \notin T}
<1>1. ASSUME Out # {}
      PROVE  FALSE
  <2>1. PICK m \in Out : \A k \in Out : m <= k
    <3>1. Out \subseteq Nat
      OBVIOUS
    <3> HIDE DEF Out
    <3> QED BY <1>1, <3>1, Least
  <2>2. m # 0 /\ m \in 0..n
    BY <2>1
  <2>3. m \in 1..n /\ m - 1 \in 0..n /\ m - 1 \notin Out
    BY <2>1, <2>2
  <2> QED BY <2>1, <2>3
<1> QED BY <1>1

LEMMA Parted ==
  ASSUME NEW S, NEW s \in Seq(S), NEW k \in 1..Len(s)
  PROVE  SubSeq(s, 1, k - 1) \in Seq(S) /\ s[k] \in S /\ SubSeq(s, 1, k) = Append(SubSeq(s, 1, k - 1), s[k])
<1>1. Len(s) \in Nat
  BY LenProperties
<1>2. SubSeq(s, 1, k - 1) \in Seq(S) /\ s[k] \in S
  BY <1>1
<1>3. SubSeq(s, 1, k) = SubSeq(s, 1, k - 1) \o <<s[k]>>
  BY <1>1, SubSeqRecursiveSecond
<1> QED BY <1>2, <1>3, AppendIsConcat

LEMMA AllSequences ==
  ASSUME NEW S, NEW T, <<>> \in T, \A s \in Seq(S), e \in S : s \in T => Append(s, e) \in T
  PROVE  \A s \in Seq(S) : s \in T
<1> SUFFICES ASSUME NEW s \in Seq(S) PROVE s \in T
  OBVIOUS
<1> DEFINE n == Len(s)
           Into == {k \in 0..n : SubSeq(s, 1, k) \in T}
<1>1. n \in Nat /\ s = SubSeq(s, 1, n)
  BY SubSeqFull, LenProperties
<1>2. 0 \in Into
  <2>1. SubSeq(s, 1, 0) \in T
    <3>1. SubSeq(s, 1, 0) = <<>>
      OBVIOUS
    <3> QED BY <3>1
  <2> HIDE DEF n
  <2> QED BY <1>1, <2>1
<1>3. ASSUME NEW k \in 1..n, k - 1 \in Into
      PROVE  k \in Into
  <2>1. SubSeq(s, 1, k - 1) \in T
    BY <1>3
  <2>2. SubSeq(s, 1, k - 1) \in Seq(S) /\ s[k] \in S /\ SubSeq(s, 1, k) = Append(SubSeq(s, 1, k - 1), s[k])
    BY <1>1, Parted
  <2>3. SubSeq(s, 1, k) \in T
    BY <2>1, <2>2
  <2> QED BY <1>1, <2>3
<1> HIDE DEF Into, n
<1>4. \A k \in 0..n : k \in Into
  BY <1>1, <1>2, <1>3, UpTo
<1>5. n \in Into
  BY <1>1, <1>4
<1> QED BY <1>1, <1>5 DEF Into

(* A recursion over a sequence is the same for what comes before its end.  *)
LEMMA SameCourse ==
  ASSUME NEW n \in Nat, NEW f, NEW g, f[0] = g[0], \A k \in 1..n : f[k - 1] = g[k - 1] => f[k] = g[k]
  PROVE  f[n] = g[n]
<1> DEFINE T == {k \in 0..n : f[k] = g[k]}
<1>1. 0 \in T /\ \A k \in 1..n : k - 1 \in T => k \in T
  OBVIOUS
<1> HIDE DEF T
<1>2. \A k \in 0..n : k \in T
  BY <1>1, UpTo
<1> QED BY <1>2 DEF T

LEMMA AppendFacts ==
  ASSUME NEW S, NEW s \in Seq(S), NEW e \in S
  PROVE  /\ Append(s, e) \in Seq(S) /\ Len(Append(s, e)) = Len(s) + 1 /\ Append(s, e)[Len(s) + 1] = e
         /\ \A k \in 1..Len(s) : Append(s, e)[k] = s[k]
         /\ Len(s) \in Nat
OBVIOUS

(* A recursion over a sequence whose values stay in a set is defined.      *)
Runs(g, V, x, step, s) ==
  /\ g \in [0..Len(s) -> V] /\ g[0] = x
  /\ \A k \in 1..Len(s) : g[k] = step[<<g[k - 1], s[k]>>]

LEMMA RunsOn ==
  ASSUME NEW S, NEW V, NEW x \in V, NEW step \in [V \X S -> V], NEW s \in Seq(S), NEW e \in S,
         NEW g, Runs(g, V, x, step, s)
  PROVE  \E h : Runs(h, V, x, step, Append(s, e))
<1> DEFINE n == Len(s)
           more == Append(s, e)
<1>1. n \in Nat /\ more \in Seq(S) /\ Len(more) = n + 1 /\ more[n + 1] = e /\ \A k \in 1..n : more[k] = s[k]
  BY AppendFacts
<1>2. g \in [0..n -> V] /\ g[0] = x /\ \A k \in 1..n : g[k] = step[<<g[k - 1], s[k]>>]
  BY DEF Runs
<1> HIDE DEF n, more
<1> DEFINE h == [k \in 0..n + 1 |-> IF k <= n THEN g[k] ELSE step[<<g[n], e>>]]
<1>3. h \in [0..n + 1 -> V] /\ h[n + 1] = step[<<g[n], e>>] /\ \A k \in 0..n : h[k] = g[k]
  <2>1. step[<<g[n], e>>] \in V
    BY <1>1, <1>2
  <2> QED BY <1>1, <1>2, <2>1
<1> HIDE DEF h
<1>4. ASSUME NEW k \in 1..n + 1
      PROVE  h[k] = step[<<h[k - 1], more[k]>>]
  <2>1. CASE k = n + 1
    <3>1. h[k - 1] = g[n] /\ more[k] = e /\ h[k] = step[<<g[n], e>>]
      BY <1>1, <1>3, <2>1
    <3> QED BY <3>1
  <2>2. CASE k \in 1..n
    <3>1. h[k] = g[k] /\ h[k - 1] = g[k - 1] /\ more[k] = s[k]
      BY <1>1, <1>3, <2>2
    <3> QED BY <1>2, <2>2, <3>1
  <2> QED BY <1>1, <2>1, <2>2
<1>5. h[0] = x
  BY <1>1, <1>2, <1>3
<1>6. Runs(h, V, x, step, more)
  BY <1>1, <1>3, <1>4, <1>5 DEF Runs
<1> QED BY <1>6 DEF more

LEMMA ItRuns ==
  ASSUME NEW S, NEW V, NEW x \in V, NEW step \in [V \X S -> V]
  PROVE  \A s \in Seq(S) : \E g : Runs(g, V, x, step, s)
<1> DEFINE T == {s \in Seq(S) : \E g : Runs(g, V, x, step, s)}
<1>1. <<>> \in T
  <2> DEFINE g == [k \in 0..0 |-> x]
  <2>1. Runs(g, V, x, step, <<>>)
    BY DEF Runs
  <2> HIDE DEF g
  <2> QED BY <2>1
<1>2. ASSUME NEW s \in Seq(S), NEW e \in S, s \in T
      PROVE  Append(s, e) \in T
  <2>1. PICK g : Runs(g, V, x, step, s)
    BY <1>2
  <2>2. \E h : Runs(h, V, x, step, Append(s, e))
    BY <2>1, RunsOn
  <2> QED BY <2>2, AppendFacts
<1> HIDE DEF T
<1>3. \A s \in Seq(S) : s \in T
  BY <1>1, <1>2, AllSequences
<1> QED BY <1>3 DEF T

-----------------------------------------------------------------------------
(* Frames and their bytes. *)
Lengths(S) == \A f \in S : f.length \in Nat \ {0}

BytesOf(S) == {[of |-> f, at |-> k] : f \in S, k \in Nat}

LEMMA EncodedBytes ==
  ASSUME NEW S, Lengths(S), NEW f \in S
  PROVE  /\ Encoded(f) \in Seq(BytesOf(S)) /\ Len(Encoded(f)) = LengthBytes + f.length
         /\ \A k \in 1..LengthBytes + f.length : Encoded(f)[k] = [of |-> f, at |-> k]
         /\ LengthBytes \in Nat \ {0} /\ f.length \in Nat \ {0}
<1> DEFINE n == LengthBytes + f.length
           e(k) == [of |-> f, at |-> k]
<1>1. n \in Nat /\ LengthBytes \in Nat \ {0} /\ f.length \in Nat \ {0}
  BY PtydConnectionAssumption DEF Lengths
<1>2. \A k \in 1..n : e(k) \in BytesOf(S)
  BY <1>1 DEF BytesOf
<1>3. Encoded(f) = [k \in 1..n |-> e(k)]
  BY DEF Encoded
<1> HIDE DEF n, e
<1>4. [k \in 1..n |-> e(k)] \in Seq(BytesOf(S)) /\ Len([k \in 1..n |-> e(k)]) = n
  BY <1>1, <1>2
<1> QED BY <1>1, <1>3, <1>4 DEF n, e

EncodedCourse(g, fs) == g = [k \in 0..Len(fs) |-> IF k = 0 THEN <<>> ELSE g[k - 1] \o Encoded(fs[k])]

LEMMA EncodedIs ==
  ASSUME NEW S, Lengths(S), NEW fs \in Seq(S)
  PROVE  \E g : EncodedCourse(g, fs) /\ EncodedAll(fs) = g[Len(fs)]
<1> DEFINE V == Seq(BytesOf(S))
           step == [p \in V \X S |-> p[1] \o Encoded(p[2])]
           n == Len(fs)
           g == CHOOSE f : f = [k \in 0..n |-> IF k = 0 THEN <<>> ELSE f[k - 1] \o Encoded(fs[k])]
<1>1. n \in Nat /\ \A k \in 1..n : fs[k] \in S
  OBVIOUS
<1>2. \A v \in V, f \in S : v \o Encoded(f) \in V
  BY EncodedBytes
<1>3. step \in [V \X S -> V] /\ <<>> \in V
  BY <1>2
<1>4. \A v \in V, f \in S : step[<<v, f>>] = v \o Encoded(f)
  OBVIOUS
<1> HIDE DEF step
<1>5. PICK h : Runs(h, V, <<>>, step, fs)
  BY <1>3, ItRuns
<1> HIDE DEF V
<1>6. h = [k \in 0..n |-> IF k = 0 THEN <<>> ELSE h[k - 1] \o Encoded(fs[k])]
  <2>1. h = [k \in 0..n |-> h[k]]
    BY <1>5 DEF Runs
  <2>2. ASSUME NEW k \in 0..n
        PROVE  h[k] = IF k = 0 THEN <<>> ELSE h[k - 1] \o Encoded(fs[k])
    <3>1. CASE k # 0
      <4>1. k \in 1..n /\ h[k - 1] \in V
        BY <1>1, <1>5, <3>1 DEF Runs
      <4> QED BY <1>1, <1>4, <1>5, <3>1, <4>1 DEF Runs
    <3> QED BY <1>5, <3>1 DEF Runs
  <2> QED BY <2>1, <2>2
<1>7. EncodedCourse(g, fs)
  BY <1>6 DEF EncodedCourse
<1>8. EncodedAll(fs) = g[n]
  BY DEF EncodedAll
<1> HIDE DEF g
<1> QED BY <1>7, <1>8

LEMMA EncodedEmpty == EncodedAll(<<>>) = <<>>
<1>1. PICK g : EncodedCourse(g, <<>>) /\ EncodedAll(<<>>) = g[Len(<<>>)]
  <2>1. <<>> \in Seq({}) /\ Lengths({})
    BY DEF Lengths
  <2> QED BY <2>1, EncodedIs
<1> QED BY <1>1 DEF EncodedCourse

LEMMA EncodedAppend ==
  ASSUME NEW S, Lengths(S), NEW s \in Seq(S), NEW e \in S
  PROVE  EncodedAll(Append(s, e)) = EncodedAll(s) \o Encoded(e)
<1> DEFINE n == Len(s)
           more == Append(s, e)
<1>1. n \in Nat /\ more \in Seq(S) /\ Len(more) = n + 1 /\ more[n + 1] = e /\ \A k \in 1..n : more[k] = s[k]
  BY AppendFacts
<1>2. PICK g : EncodedCourse(g, s) /\ EncodedAll(s) = g[n]
  BY EncodedIs
<1> HIDE DEF more
<1>3. PICK h : EncodedCourse(h, more) /\ EncodedAll(more) = h[Len(more)]
  BY <1>1, EncodedIs
<1> HIDE DEF n
<1>4. g = [k \in 0..n |-> IF k = 0 THEN <<>> ELSE g[k - 1] \o Encoded(s[k])]
  BY <1>2 DEF EncodedCourse, n
<1>5. h = [k \in 0..n + 1 |-> IF k = 0 THEN <<>> ELSE h[k - 1] \o Encoded(more[k])]
  BY <1>1, <1>3 DEF EncodedCourse
<1>6. g[0] = h[0]
  BY <1>1, <1>4, <1>5
<1>7. ASSUME NEW k \in 1..n, g[k - 1] = h[k - 1]
      PROVE  g[k] = h[k]
  <2>1. k \in 0..n /\ k \in 0..n + 1 /\ k # 0 /\ more[k] = s[k]
    BY <1>1
  <2> QED BY <1>4, <1>5, <1>7, <2>1
<1>8. g[n] = h[n]
  BY <1>1, <1>6, <1>7, SameCourse
<1>9. h[n + 1] = h[n] \o Encoded(e)
  BY <1>1, <1>5
<1> QED BY <1>1, <1>2, <1>3, <1>8, <1>9 DEF more

(* What is told of one more element is told of any that follow. *)
OneMore(H, one, S, R) ==
  /\ H \in [Seq(S) -> Seq(R)] /\ one \in [S -> Seq(R)] /\ H[<<>>] = <<>>
  /\ \A s \in Seq(S), e \in S : H[Append(s, e)] = H[s] \o one[e]

Adds(H, S) == \A a, b \in Seq(S) : H[a \o b] = H[a] \o H[b]

LEMMA OneByOne ==
  ASSUME NEW S, NEW R, NEW H, NEW one, OneMore(H, one, S, R)
  PROVE  Adds(H, S)
<1> SUFFICES ASSUME NEW a \in Seq(S) PROVE \A b \in Seq(S) : H[a \o b] = H[a] \o H[b]
  BY DEF Adds
<1>0. /\ H \in [Seq(S) -> Seq(R)] /\ one \in [S -> Seq(R)] /\ H[<<>>] = <<>>
      /\ \A s \in Seq(S), e \in S : H[Append(s, e)] = H[s] \o one[e]
  BY DEF OneMore
<1> DEFINE T == {b \in Seq(S) : H[a \o b] = H[a] \o H[b]}
<1>1. <<>> \in T
  <2>1. a \o <<>> = a /\ H[a] \in Seq(R)
    BY <1>0, ConcatEmptySeq
  <2>2. H[a] \o <<>> = H[a]
    BY <2>1, ConcatEmptySeq
  <2> QED BY <1>0, <2>1, <2>2
<1>2. ASSUME NEW s \in Seq(S), NEW e \in S, s \in T
      PROVE  Append(s, e) \in T
  <2>1. a \o s \in Seq(S) /\ Append(s, e) \in Seq(S) /\ a \o Append(s, e) = Append(a \o s, e)
    <3>1. a \o s \in Seq(S) /\ <<e>> \in Seq(S) /\ Append(s, e) \in Seq(S)
      OBVIOUS
    <3>2. Append(s, e) = s \o <<e>> /\ Append(a \o s, e) = (a \o s) \o <<e>>
      BY <3>1, AppendIsConcat
    <3>3. a \o (s \o <<e>>) = (a \o s) \o <<e>>
      BY <3>1, ConcatAssociative
    <3> QED BY <3>1, <3>2, <3>3
  <2>2. H[a \o Append(s, e)] = H[a \o s] \o one[e]
    BY <1>0, <2>1
  <2>3. H[a \o s] = H[a] \o H[s]
    BY <1>2
  <2>4. (H[a] \o H[s]) \o one[e] = H[a] \o (H[s] \o one[e])
    <3>1. H[a] \in Seq(R) /\ H[s] \in Seq(R) /\ one[e] \in Seq(R)
      BY <1>0
    <3>2. \A x, y, z \in Seq(R) : (x \o y) \o z = x \o (y \o z)
      BY ConcatAssociative
    <3> QED BY <3>1, <3>2
  <2>5. H[Append(s, e)] = H[s] \o one[e]
    BY <1>0
  <2> QED BY <2>1, <2>2, <2>3, <2>4, <2>5
<1> HIDE DEF T
<1>3. \A s \in Seq(S) : s \in T
  BY <1>1, <1>2, AllSequences
<1> QED BY <1>3 DEF T

LEMMA EncodedType ==
  ASSUME NEW S, Lengths(S)
  PROVE  \A fs \in Seq(S) : EncodedAll(fs) \in Seq(BytesOf(S))
<1> DEFINE T == {fs \in Seq(S) : EncodedAll(fs) \in Seq(BytesOf(S))}
<1>1. <<>> \in T
  <2>1. <<>> \in Seq(S) /\ <<>> \in Seq(BytesOf(S))
    OBVIOUS
  <2> QED BY <2>1, EncodedEmpty
<1>2. ASSUME NEW s \in Seq(S), NEW e \in S, s \in T
      PROVE  Append(s, e) \in T
  <2>1. EncodedAll(s) \in Seq(BytesOf(S)) /\ Encoded(e) \in Seq(BytesOf(S))
    BY <1>2, EncodedBytes
  <2>2. EncodedAll(Append(s, e)) = EncodedAll(s) \o Encoded(e) /\ Append(s, e) \in Seq(S)
    BY EncodedAppend
  <2>3. EncodedAll(s) \o Encoded(e) \in Seq(BytesOf(S))
    BY <2>1, ConcatProperties
  <2> QED BY <2>2, <2>3
<1> HIDE DEF T
<1>3. \A s \in Seq(S) : s \in T
  BY <1>1, <1>2, AllSequences
<1> QED BY <1>3 DEF T

LEMMA EncodedConcat ==
  ASSUME NEW S, Lengths(S), NEW a \in Seq(S), NEW b \in Seq(S)
  PROVE  EncodedAll(a \o b) = EncodedAll(a) \o EncodedAll(b)
<1> DEFINE H   == [fs \in Seq(S) |-> EncodedAll(fs)]
           one == [f \in S |-> Encoded(f)]
           R   == BytesOf(S)
<1>1. H \in [Seq(S) -> Seq(R)]
  BY EncodedType
<1>2. one \in [S -> Seq(R)]
  BY EncodedBytes
<1>3. H[<<>>] = <<>>
  BY EncodedEmpty
<1>4. \A s \in Seq(S), e \in S : H[Append(s, e)] = H[s] \o one[e]
  BY EncodedAppend, AppendFacts
<1>5. \A s \in Seq(S) : H[s] = EncodedAll(s)
  OBVIOUS
<1>6. a \o b \in Seq(S)
  OBVIOUS
<1> HIDE DEF H, one, R
<1>7. OneMore(H, one, S, R)
  BY <1>1, <1>2, <1>3, <1>4 DEF OneMore
<1>8. Adds(H, S)
  BY <1>7, OneByOne
<1>9. H[a \o b] = H[a] \o H[b]
  BY <1>8 DEF Adds
<1> QED BY <1>5, <1>6, <1>9

LEMMA EncodedOne ==
  ASSUME NEW S, Lengths(S), NEW f \in S
  PROVE  EncodedAll(<<f>>) = Encoded(f)
<1>1. <<>> \in Seq(S) /\ <<f>> = Append(<<>>, f)
  OBVIOUS
<1>2. EncodedAll(<<f>>) = <<>> \o Encoded(f)
  BY <1>1, EncodedAppend, EncodedEmpty
<1> QED BY <1>2, EncodedBytes, ConcatEmptySeq

LEMMA EncodedFirst ==
  ASSUME NEW S, Lengths(S), NEW fs \in Seq(S), fs # <<>>
  PROVE  /\ Head(fs) \in S /\ Tail(fs) \in Seq(S) /\ fs = <<Head(fs)>> \o Tail(fs) /\ Head(fs) = fs[1]
         /\ EncodedAll(fs) = Encoded(Head(fs)) \o EncodedAll(Tail(fs))
<1>1. Head(fs) \in S /\ Tail(fs) \in Seq(S) /\ fs = <<Head(fs)>> \o Tail(fs) /\ Head(fs) = fs[1] /\ <<Head(fs)>> \in Seq(S)
  OBVIOUS
<1> QED BY <1>1, EncodedConcat, EncodedOne

-----------------------------------------------------------------------------
(* Ending *)
Ofs(B) == {b.of : b \in B}

EndingCourse(g, bytes) == g = [k \in 0..Len(bytes) |-> IF k = 0 THEN <<>> ELSE Closing(g[k - 1], bytes[k])]

LEMMA EndingIs ==
  ASSUME NEW B, NEW bytes \in Seq(B)
  PROVE  \E g : EndingCourse(g, bytes) /\ Ending(bytes) = g[Len(bytes)]
<1> DEFINE V == Seq(Ofs(B))
           step == [p \in V \X B |-> Closing(p[1], p[2])]
           n == Len(bytes)
           g == CHOOSE f : f = [k \in 0..n |-> IF k = 0 THEN <<>> ELSE Closing(f[k - 1], bytes[k])]
<1>1. n \in Nat /\ \A k \in 1..n : bytes[k] \in B
  OBVIOUS
<1>2. \A v \in V, b \in B : Closing(v, b) \in V
  BY DEF Closing, Ofs
<1>3. step \in [V \X B -> V] /\ <<>> \in V
  BY <1>2
<1>4. \A v \in V, b \in B : step[<<v, b>>] = Closing(v, b)
  OBVIOUS
<1> HIDE DEF step
<1>5. PICK h : Runs(h, V, <<>>, step, bytes)
  BY <1>3, ItRuns
<1> HIDE DEF V
<1>6. h = [k \in 0..n |-> IF k = 0 THEN <<>> ELSE Closing(h[k - 1], bytes[k])]
  <2>1. h = [k \in 0..n |-> h[k]]
    BY <1>5 DEF Runs
  <2>2. ASSUME NEW k \in 0..n
        PROVE  h[k] = IF k = 0 THEN <<>> ELSE Closing(h[k - 1], bytes[k])
    <3>1. CASE k # 0
      <4>1. k \in 1..n /\ h[k - 1] \in V
        BY <1>1, <1>5, <3>1 DEF Runs
      <4> QED BY <1>1, <1>4, <1>5, <3>1, <4>1 DEF Runs
    <3> QED BY <1>5, <3>1 DEF Runs
  <2> QED BY <2>1, <2>2
<1>7. EndingCourse(g, bytes)
  BY <1>6 DEF EndingCourse
<1>8. Ending(bytes) = g[n]
  BY DEF Ending
<1> HIDE DEF g
<1> QED BY <1>7, <1>8

LEMMA EndingEmpty == Ending(<<>>) = <<>>
<1>1. PICK g : EndingCourse(g, <<>>) /\ Ending(<<>>) = g[Len(<<>>)]
  <2>1. <<>> \in Seq({})
    OBVIOUS
  <2> QED BY <2>1, EndingIs
<1> QED BY <1>1 DEF EndingCourse

LEMMA EndingAppend ==
  ASSUME NEW B, NEW s \in Seq(B), NEW e \in B
  PROVE  Ending(Append(s, e)) = Closing(Ending(s), e)
<1> DEFINE n == Len(s)
           more == Append(s, e)
<1>1. n \in Nat /\ more \in Seq(B) /\ Len(more) = n + 1 /\ more[n + 1] = e /\ \A k \in 1..n : more[k] = s[k]
  BY AppendFacts
<1>2. PICK g : EndingCourse(g, s) /\ Ending(s) = g[n]
  BY EndingIs
<1> HIDE DEF more
<1>3. PICK h : EndingCourse(h, more) /\ Ending(more) = h[Len(more)]
  BY <1>1, EndingIs
<1> HIDE DEF n
<1>4. g = [k \in 0..n |-> IF k = 0 THEN <<>> ELSE Closing(g[k - 1], s[k])]
  BY <1>2 DEF EndingCourse, n
<1>5. h = [k \in 0..n + 1 |-> IF k = 0 THEN <<>> ELSE Closing(h[k - 1], more[k])]
  BY <1>1, <1>3 DEF EndingCourse
<1>6. g[0] = h[0]
  BY <1>1, <1>4, <1>5
<1>7. ASSUME NEW k \in 1..n, g[k - 1] = h[k - 1]
      PROVE  g[k] = h[k]
  <2>1. k \in 0..n /\ k \in 0..n + 1 /\ k # 0 /\ more[k] = s[k]
    BY <1>1
  <2> QED BY <1>4, <1>5, <1>7, <2>1
<1>8. g[n] = h[n]
  BY <1>1, <1>6, <1>7, SameCourse
<1>9. h[n + 1] = Closing(h[n], e)
  BY <1>1, <1>5
<1> QED BY <1>1, <1>2, <1>3, <1>8, <1>9 DEF more

LEMMA EndingType ==
  ASSUME NEW B
  PROVE  \A bytes \in Seq(B) : Ending(bytes) \in Seq(Ofs(B))
<1> DEFINE T == {bytes \in Seq(B) : Ending(bytes) \in Seq(Ofs(B))}
<1>1. <<>> \in T
  <2>1. <<>> \in Seq(B) /\ <<>> \in Seq(Ofs(B))
    OBVIOUS
  <2> QED BY <2>1, EndingEmpty
<1>2. ASSUME NEW s \in Seq(B), NEW e \in B, s \in T
      PROVE  Append(s, e) \in T
  <2>1. e.of \in Ofs(B) /\ Append(s, e) \in Seq(B)
    BY DEF Ofs
  <2>2. Closing(Ending(s), e) \in Seq(Ofs(B))
    BY <1>2, <2>1 DEF Closing
  <2> QED BY <2>1, <2>2, EndingAppend
<1> HIDE DEF T
<1>3. \A s \in Seq(B) : s \in T
  BY <1>1, <1>2, AllSequences
<1> QED BY <1>3 DEF T

LEMMA EndingConcat ==
  ASSUME NEW B, NEW a \in Seq(B), NEW b \in Seq(B)
  PROVE  Ending(a \o b) = Ending(a) \o Ending(b)
<1> DEFINE H   == [bytes \in Seq(B) |-> Ending(bytes)]
           one == [e \in B |-> Closing(<<>>, e)]
           R   == Ofs(B)
<1>1. H \in [Seq(B) -> Seq(R)]
  BY EndingType
<1>2. one \in [B -> Seq(R)]
  <2>1. ASSUME NEW e \in B
        PROVE  Closing(<<>>, e) \in Seq(R)
    <3>1. e.of \in R
      BY DEF Ofs
    <3> HIDE DEF R
    <3>2. <<>> \in Seq(R) /\ Append(<<>>, e.of) \in Seq(R)
      BY <3>1
    <3> QED BY <3>2 DEF Closing
  <2> QED BY <2>1
<1>3. H[<<>>] = <<>>
  BY EndingEmpty
<1>4. ASSUME NEW s \in Seq(B), NEW e \in B
      PROVE  H[Append(s, e)] = H[s] \o one[e]
  <2>1. H[Append(s, e)] = Closing(Ending(s), e)
    BY EndingAppend, AppendFacts
  <2>2. Ending(s) \in Seq(R) /\ e.of \in R
    BY EndingType DEF Ofs
  <2> HIDE DEF R
  <2>3. Closing(Ending(s), e) = Ending(s) \o Closing(<<>>, e)
    BY <2>2, AppendIsConcat, ConcatEmptySeq DEF Closing
  <2> QED BY <2>1, <2>3
<1>5. \A s \in Seq(B) : H[s] = Ending(s)
  OBVIOUS
<1>6. a \o b \in Seq(B)
  OBVIOUS
<1> HIDE DEF H, one, R
<1>7. OneMore(H, one, B, R)
  BY <1>1, <1>2, <1>3, <1>4 DEF OneMore
<1>8. Adds(H, B)
  BY <1>7, OneByOne
<1>9. H[a \o b] = H[a] \o H[b]
  BY <1>8 DEF Adds
<1> QED BY <1>5, <1>6, <1>9

(* Bytes none of which ends a frame. *)
Open(bytes) == \A k \in 1..Len(bytes) : bytes[k].at # LengthBytes + bytes[k].of.length

LEMMA NoneEnds ==
  ASSUME NEW B
  PROVE  \A bytes \in Seq(B) : Open(bytes) => Ending(bytes) = <<>>
<1> DEFINE T == {bytes \in Seq(B) : Open(bytes) => Ending(bytes) = <<>>}
<1>1. <<>> \in T
  BY EndingEmpty
<1>2. ASSUME NEW s \in Seq(B), NEW e \in B, s \in T
      PROVE  Append(s, e) \in T
  <2>1. ASSUME Open(Append(s, e))
        PROVE  Open(s) /\ e.at # LengthBytes + e.of.length
    BY <2>1, AppendFacts DEF Open
  <2>2. Append(s, e) \in Seq(B) /\ (Open(s) => Ending(s) = <<>>)
    BY <1>2
  <2>3. Ending(Append(s, e)) = Closing(Ending(s), e)
    BY EndingAppend
  <2> QED BY <2>1, <2>2, <2>3 DEF Closing
<1> HIDE DEF T
<1>3. \A s \in Seq(B) : s \in T
  BY <1>1, <1>2, AllSequences
<1> QED BY <1>3 DEF T

LEMMA EndingOne ==
  ASSUME NEW S, Lengths(S), NEW f \in S
  PROVE  Ending(Encoded(f)) = <<f>>
<1> DEFINE n == LengthBytes + f.length
           B == BytesOf(S)
           code == Encoded(f)
           front == SubSeq(code, 1, n - 1)
<1>1. /\ code \in Seq(B) /\ Len(code) = n /\ n \in Nat \ {0}
      /\ \A k \in 1..n : code[k] = [of |-> f, at |-> k]
  BY EncodedBytes
<1> HIDE DEF code, n, B
<1>2. front \in Seq(B) /\ Len(front) = n - 1 /\ \A k \in 1..n - 1 : front[k] = code[k]
  BY <1>1
<1>3. code = Append(front, code[n]) /\ code[n] \in B
  <2>1. n \in 1..Len(code) /\ SubSeq(code, 1, n) = code
    BY <1>1, SubSeqFull
  <2> QED BY <1>1, <2>1, Parted
<1>4. Open(front)
  <2> HIDE DEF front
  <2>1. ASSUME NEW k \in 1..Len(front)
        PROVE  front[k].at # LengthBytes + front[k].of.length
    <3>1. front[k] = [of |-> f, at |-> k] /\ k # n
      BY <1>1, <1>2
    <3> QED BY <3>1 DEF n
  <2> QED BY <2>1 DEF Open
<1>5. Ending(front) = <<>>
  BY <1>2, <1>4, NoneEnds
<1> HIDE DEF front
<1>6. Ending(code) = Closing(<<>>, code[n])
  BY <1>2, <1>3, <1>5, EndingAppend
<1>7. code[n] = [of |-> f, at |-> n]
  BY <1>1
<1> QED BY <1>6, <1>7 DEF Closing, n, code

LEMMA EndingWhole ==
  ASSUME NEW S, Lengths(S)
  PROVE  \A fs \in Seq(S) : Ending(EncodedAll(fs)) = fs
<1> DEFINE T == {fs \in Seq(S) : Ending(EncodedAll(fs)) = fs}
<1>1. <<>> \in T
  BY EncodedEmpty, EndingEmpty
<1>2. ASSUME NEW s \in Seq(S), NEW e \in S, s \in T
      PROVE  Append(s, e) \in T
  <2>1. EncodedAll(Append(s, e)) = EncodedAll(s) \o Encoded(e)
    BY EncodedAppend
  <2>2. EncodedAll(s) \in Seq(BytesOf(S)) /\ Encoded(e) \in Seq(BytesOf(S))
    BY EncodedType, EncodedBytes
  <2>3. Ending(EncodedAll(s) \o Encoded(e)) = Ending(EncodedAll(s)) \o Ending(Encoded(e))
    BY <2>2, EndingConcat
  <2>4. Ending(EncodedAll(Append(s, e))) = s \o <<e>>
    BY <1>2, <2>1, <2>3, EndingOne
  <2> QED BY <2>4, AppendIsConcat, AppendFacts
<1> HIDE DEF T
<1>3. \A s \in Seq(S) : s \in T
  BY <1>1, <1>2, AllSequences
<1> QED BY <1>3 DEF T

(* What is at the decoder is less than a frame. *)
Short(buf, rest) == rest # <<>> => Len(buf) < LengthBytes + rest[1].length

LEMMA ShortIsOpen ==
  ASSUME NEW S, Lengths(S), NEW rest \in Seq(S), NEW buf \in Seq(BytesOf(S)), NEW more \in Seq(BytesOf(S)),
         buf \o more = EncodedAll(rest), Short(buf, rest)
  PROVE  Ending(buf) = <<>> /\ Ending(more) = rest
<1>1. Ending(buf) = <<>>
  <2>1. CASE rest = <<>>
    <3>1. buf \o more = <<>>
      BY <2>1, EncodedEmpty
    <3>2. buf = <<>>
      BY <3>1, ConcatEqualIffEmpty
    <3> QED BY <3>2, EndingEmpty
  <2>2. CASE rest # <<>>
    <3> DEFINE f == Head(rest)
               code == Encoded(f)
               others == EncodedAll(Tail(rest))
               n == LengthBytes + f.length
    <3>1. f \in S /\ rest[1] = f /\ buf \o more = code \o others /\ others \in Seq(BytesOf(S))
      BY <2>2, EncodedFirst, EncodedType
    <3>2. /\ code \in Seq(BytesOf(S)) /\ Len(code) = n /\ n \in Nat
          /\ \A k \in 1..n : code[k] = [of |-> f, at |-> k]
      <4> HIDE DEF f
      <4> QED BY <3>1, EncodedBytes
    <3>3. Len(buf) < n /\ Len(buf) \in Nat
      BY <2>2, <3>1 DEF Short
    <3> HIDE DEF f, code, others, n
    <3>4. ASSUME NEW k \in 1..Len(buf)
          PROVE  buf[k] = [of |-> f, at |-> k] /\ k < n
      <4>1. (buf \o more)[k] = buf[k]
        BY ConcatProperties
      <4>2. k \in 1..n /\ k \in 1..Len(code) + Len(others) /\ k <= Len(code)
        BY <3>1, <3>2, <3>3
      <4>3. (code \o others)[k] = code[k]
        BY <3>1, <3>2, <4>2, ConcatProperties
      <4> QED BY <3>1, <3>2, <3>3, <4>1, <4>2, <4>3
    <3>5. ASSUME NEW k \in 1..Len(buf)
          PROVE  buf[k].at # LengthBytes + buf[k].of.length
      <4>1. buf[k] = [of |-> f, at |-> k] /\ k # n
        BY <3>2, <3>3, <3>4
      <4> QED BY <4>1 DEF n
    <3>6. Open(buf)
      BY <3>5 DEF Open
    <3> QED BY <3>6, NoneEnds
  <2> QED BY <2>1, <2>2
<1>2. Ending(buf \o more) = Ending(buf) \o Ending(more)
  BY EndingConcat
<1>3. Ending(buf \o more) = rest
  BY EndingWhole
<1>4. Ending(more) \in Seq(Ofs(BytesOf(S)))
  BY EndingType
<1>5. <<>> \o Ending(more) = Ending(more)
  BY <1>4, ConcatEmptySeq
<1> QED BY <1>1, <1>2, <1>3, <1>5

(* What the decoder is given: less than, or the front of, whole frames.     *)
LEMMA FrontIs ==
  ASSUME NEW S, Lengths(S), NEW r \in Seq(S), r # <<>>, NEW buf \in Seq(BytesOf(S)), NEW more \in Seq(BytesOf(S)),
         buf \o more = EncodedAll(r)
  PROVE  /\ \A k \in 1..Len(buf) : k <= LengthBytes + r[1].length => buf[k] = [of |-> r[1], at |-> k]
         /\ r[1] \in S /\ r[1].length \in Nat \ {0} /\ LengthBytes \in Nat \ {0} /\ Len(buf) \in Nat
<1> DEFINE f == Head(r)
           code == Encoded(f)
           others == EncodedAll(Tail(r))
           n == LengthBytes + f.length
<1>1. f \in S /\ r[1] = f /\ buf \o more = code \o others /\ others \in Seq(BytesOf(S))
  BY EncodedFirst, EncodedType
<1> HIDE DEF f
<1>2. /\ code \in Seq(BytesOf(S)) /\ Len(code) = n /\ \A k \in 1..n : code[k] = [of |-> f, at |-> k]
      /\ LengthBytes \in Nat \ {0} /\ f.length \in Nat \ {0}
  <2> HIDE DEF others
  <2> QED BY <1>1, EncodedBytes
<1> HIDE DEF code, others
<1>3. Len(buf) \in Nat
  OBVIOUS
<1>4. ASSUME NEW k \in 1..Len(buf), k <= n
      PROVE  buf[k] = [of |-> f, at |-> k]
  <2>1. (buf \o more)[k] = buf[k]
    BY ConcatProperties
  <2>2. k \in 1..n /\ k \in 1..Len(code) + Len(others) /\ k <= Len(code)
    <3>1. Len(others) \in Nat /\ n \in Nat
      BY <1>1, <1>2
    <3> QED BY <1>2, <1>3, <1>4, <3>1
  <2>3. (code \o others)[k] = code[k]
    BY <1>1, <1>2, <2>2, ConcatProperties
  <2> QED BY <1>1, <1>2, <2>1, <2>2, <2>3
<1> QED BY <1>1, <1>2, <1>3, <1>4

LEMMA SameFront ==
  ASSUME NEW S, NEW s \in Seq(S), NEW t \in Seq(S), NEW u \in Seq(S), s \o t = s \o u
  PROVE  t = u
BY ConcatSimplifications

LEMMA Regroup ==
  ASSUME NEW S, NEW s \in Seq(S), NEW t \in Seq(S), NEW u \in Seq(S)
  PROVE  (s \o t) \o u = s \o (t \o u) /\ t \o u \in Seq(S)
BY ConcatAssociative, ConcatProperties

LEMMA InTwo ==
  ASSUME NEW S, NEW s \in Seq(S), NEW n \in 0..Len(s)
  PROVE  /\ SubSeq(s, 1, n) \in Seq(S) /\ Len(SubSeq(s, 1, n)) = n /\ \A k \in 1..n : SubSeq(s, 1, n)[k] = s[k]
         /\ SubSeq(s, n + 1, Len(s)) \in Seq(S) /\ Len(SubSeq(s, n + 1, Len(s))) = Len(s) - n
         /\ SubSeq(s, 1, n) \o SubSeq(s, n + 1, Len(s)) = s
<1>1. Len(s) \in Nat
  BY LenProperties
<1>2. SubSeq(s, 1, n) \in Seq(S) /\ Len(SubSeq(s, 1, n)) = n /\ \A k \in 1..n : SubSeq(s, 1, n)[k] = s[k]
  BY <1>1
<1>3. SubSeq(s, n + 1, Len(s)) \in Seq(S) /\ Len(SubSeq(s, n + 1, Len(s))) = Len(s) - n
  BY <1>1
<1>4. SubSeq(s, 1, n) \o SubSeq(s, n + 1, Len(s)) = SubSeq(s, 1, Len(s))
  <2>1. 1 \in 1..Len(s) + 1 /\ n \in 1 - 1..Len(s) /\ Len(s) \in n..Len(s)
    BY <1>1
  <2> QED BY <2>1, ConcatAdjacentSubSeq
<1> QED BY <1>2, <1>3, <1>4, SubSeqFull

(* A frame is there and is taken off. *)
LEMMA FrontOff ==
  ASSUME NEW S, Lengths(S), NEW r \in Seq(S), r # <<>>, NEW buf \in Seq(BytesOf(S)), NEW more \in Seq(BytesOf(S)),
         buf \o more = EncodedAll(r), NEW n, n = LengthBytes + r[1].length, Len(buf) >= n
  PROVE  /\ SubSeq(buf, n + 1, Len(buf)) \in Seq(BytesOf(S)) /\ Len(SubSeq(buf, n + 1, Len(buf))) < Len(buf)
         /\ SubSeq(buf, n + 1, Len(buf)) \o more = EncodedAll(Tail(r))
<1> DEFINE B == BytesOf(S)
           front == SubSeq(buf, 1, n)
           back == SubSeq(buf, n + 1, Len(buf))
           code == Encoded(r[1])
           others == EncodedAll(Tail(r))
<1>1. /\ \A k \in 1..Len(buf) : k <= n => buf[k] = [of |-> r[1], at |-> k]
      /\ r[1] \in S /\ n \in Nat \ {0} /\ Len(buf) \in Nat
  BY FrontIs
<1>2. code \in Seq(B) /\ Len(code) = n /\ \A k \in 1..n : code[k] = [of |-> r[1], at |-> k]
  BY <1>1, EncodedBytes
<1>3. others \in Seq(B) /\ buf \o more = code \o others
  BY EncodedFirst, EncodedType
<1> HIDE DEF B, code, others
<1>4. /\ front \in Seq(B) /\ Len(front) = n /\ \A k \in 1..n : front[k] = buf[k]
      /\ back \in Seq(B) /\ Len(back) = Len(buf) - n /\ front \o back = buf
  <2>1. buf \in Seq(B) /\ n \in 0..Len(buf)
    BY <1>1 DEF B
  <2> QED BY <2>1, InTwo
<1> HIDE DEF front, back
<1>5. ASSUME NEW k \in 1..n
      PROVE  front[k] = code[k]
  <2>1. k \in 1..Len(buf) /\ k <= n
    BY <1>1
  <2>2. buf[k] = [of |-> r[1], at |-> k]
    BY <1>1, <2>1
  <2> QED BY <1>2, <1>4, <2>2
<1>6. front = code
  BY <1>2, <1>4, <1>5, SeqEqual
<1>7. more \in Seq(B)
  BY DEF B
<1>8. (front \o back) \o more = front \o (back \o more) /\ back \o more \in Seq(B)
  BY <1>4, <1>7, Regroup
<1>9. front \o (back \o more) = front \o others
  BY <1>3, <1>4, <1>6, <1>8
<1>10. back \o more = others
  BY <1>3, <1>4, <1>8, <1>9, SameFront
<1>11. Len(back) < Len(buf)
  BY <1>1, <1>4
<1>12. back \in Seq(B) /\ Len(back) < Len(buf) /\ back \o more = others
  BY <1>4, <1>10, <1>11
<1> QED BY <1>12 DEF B, back, others

-----------------------------------------------------------------------------
(* FrameDecoder: some of `rest` is decoded; so much is left as m allows,    *)
(* or less than a frame.                                                    *)
Decoded(d, rest, more, S, m) ==
  \/ d.fault = "thrown"
  \/ \E b \in Seq(BytesOf(S)), f \in Seq(S), r \in Seq(S) :
       /\ d = [buf |-> b, frames |-> f, fault |-> "none"]
       /\ rest = f \o r /\ b \o more = EncodedAll(r)
       /\ Short(b, r) \/ Len(b) <= m

LEMMA DecodeCases ==
  ASSUME NEW b, NEW f
  PROVE  DecodeOne([buf |-> b, frames |-> f, fault |-> "none"])
           = IF Len(b) < LengthBytes THEN [buf |-> b, frames |-> f, fault |-> "none"]
             ELSE IF LengthAt(b) < 1 THEN [buf |-> b, frames |-> f, fault |-> "thrown"]
             ELSE IF Len(b) < LengthBytes + LengthAt(b) THEN [buf |-> b, frames |-> f, fault |-> "none"]
             ELSE IF b[1].of.fault = "content" THEN [buf |-> b, frames |-> f, fault |-> "thrown"]
             ELSE [buf |-> SubSeq(b, LengthBytes + LengthAt(b) + 1, Len(b)), frames |-> Append(f, b[1].of), fault |-> "none"]
<1> DEFINE d == [buf |-> b, frames |-> f, fault |-> "none"]
<1>1. d.buf = b /\ d.frames = f /\ d.fault = "none"
  OBVIOUS
<1>2. [d EXCEPT !.fault = "thrown"] = [buf |-> b, frames |-> f, fault |-> "thrown"]
  OBVIOUS
<1>3. ASSUME NEW x, NEW y
      PROVE  [d EXCEPT !.frames = x, !.buf = y] = [buf |-> y, frames |-> x, fault |-> "none"]
  <2>1. [d EXCEPT !.frames = x] = [buf |-> b, frames |-> x, fault |-> "none"]
    OBVIOUS
  <2>2. [d EXCEPT !.frames = x, !.buf = y] = [[d EXCEPT !.frames = x] EXCEPT !.buf = y]
    OBVIOUS
  <2>3. [[buf |-> b, frames |-> x, fault |-> "none"] EXCEPT !.buf = y] = [buf |-> y, frames |-> x, fault |-> "none"]
    OBVIOUS
  <2> QED BY <2>1, <2>2, <2>3
<1>4. d = [buf |-> b, frames |-> f, fault |-> "none"]
  OBVIOUS
<1> HIDE DEF d
<1>5. DecodeOne(d)
        = IF Len(b) < LengthBytes THEN d
          ELSE IF LengthAt(b) < 1 THEN [d EXCEPT !.fault = "thrown"]
          ELSE IF Len(b) < LengthBytes + LengthAt(b) THEN d
          ELSE IF b[1].of.fault = "content" THEN [d EXCEPT !.fault = "thrown"]
          ELSE [d EXCEPT !.frames = Append(f, b[1].of), !.buf = SubSeq(b, (LengthBytes + LengthAt(b)) + 1, Len(b))]
  BY <1>1 DEF DecodeOne
<1> QED BY <1>2, <1>3, <1>4, <1>5

DecodedOne(d, next, b, f, r) ==
  \/ next.fault = "thrown"
  \/ next = d /\ Short(b, r)
  \/ /\ r # <<>> /\ next = [buf |-> SubSeq(b, LengthBytes + r[1].length + 1, Len(b)),
                            frames |-> Append(f, r[1]), fault |-> "none"]
     /\ Len(b) >= LengthBytes + r[1].length

LEMMA DecodesOne ==
  ASSUME NEW S, Lengths(S), NEW b \in Seq(BytesOf(S)), NEW more \in Seq(BytesOf(S)), NEW f \in Seq(S), NEW r \in Seq(S),
         b \o more = EncodedAll(r), NEW d, d = [buf |-> b, frames |-> f, fault |-> "none"]
  PROVE  DecodedOne(d, DecodeOne(d), b, f, r)
<1> DEFINE next == DecodeOne(d)
<1> SUFFICES \/ next.fault = "thrown"
             \/ next = d /\ Short(b, r)
             \/ /\ r # <<>> /\ next = [buf |-> SubSeq(b, LengthBytes + r[1].length + 1, Len(b)),
                                       frames |-> Append(f, r[1]), fault |-> "none"]
                /\ Len(b) >= LengthBytes + r[1].length
  BY DEF DecodedOne
<1>0. LengthBytes \in Nat \ {0} /\ Len(b) \in Nat
  BY PtydConnectionAssumption
<1> DEFINE wrong == [buf |-> b, frames |-> f, fault |-> "thrown"]
<1>00. next = IF Len(b) < LengthBytes THEN d
              ELSE IF LengthAt(b) < 1 THEN wrong
              ELSE IF Len(b) < LengthBytes + LengthAt(b) THEN d
              ELSE IF b[1].of.fault = "content" THEN wrong
              ELSE [buf |-> SubSeq(b, LengthBytes + LengthAt(b) + 1, Len(b)), frames |-> Append(f, b[1].of), fault |-> "none"]
  BY DecodeCases
<1> HIDE DEF next
<1>01. wrong.fault = "thrown"
  OBVIOUS
<1> HIDE DEF wrong
<1>1. CASE r = <<>>
  <2>1. b = <<>>
    BY <1>1, EncodedEmpty, ConcatEqualIffEmpty
  <2>2. Len(b) < LengthBytes
    BY <1>0, <2>1
  <2> QED BY <1>00, <1>1, <2>2 DEF Short
<1>2. CASE r # <<>>
  <2> DEFINE g == r[1]
             n == LengthBytes + g.length
  <2>0. g.length \in Nat \ {0} /\ \A k \in 1..Len(b) : k <= n => b[k] = [of |-> g, at |-> k]
    BY <1>2, FrontIs
  <2>1. n \in Nat /\ n > LengthBytes
    BY <1>0, <2>0
  <2> HIDE DEF n, g
  <2>2. CASE Len(b) < LengthBytes
    <3>1. Len(b) < n
      BY <1>0, <2>1, <2>2
    <3> QED BY <1>00, <2>2, <3>1 DEF Short, n, g
  <2>3. CASE Len(b) >= LengthBytes
    <3>1. b[1].of = g /\ \A k \in 1..LengthBytes : b[k].at = k
      <4>1. 1 \in 1..Len(b) /\ 1 <= n /\ \A k \in 1..LengthBytes : k \in 1..Len(b) /\ k <= n
        BY <1>0, <2>1, <2>3
      <4>2. \A k \in 1..LengthBytes : b[k] = [of |-> g, at |-> k]
        BY <2>0, <4>1
      <4>3. b[1] = [of |-> g, at |-> 1]
        BY <2>0, <4>1
      <4>4. b[1].of = g
        BY <4>3
      <4>5. ASSUME NEW k \in 1..LengthBytes
            PROVE  b[k].at = k
        <5>1. b[k] = [of |-> g, at |-> k]
          BY <4>2
        <5> QED BY <5>1
      <4> QED BY <4>4, <4>5
    <3>2. LengthAt(b) = IF g.fault # "length" THEN g.length ELSE 0
      BY <3>1 DEF LengthAt
    <3>3. CASE g.fault = "length"
      <4>1. LengthAt(b) < 1
        BY <3>2, <3>3
      <4> QED BY <1>0, <1>00, <1>01, <2>3, <4>1
    <3>4. CASE g.fault # "length" /\ Len(b) < n
      <4>1. LengthAt(b) = g.length
        BY <3>2, <3>4
      <4>2. next = d
        BY <1>0, <1>00, <2>0, <2>3, <3>4, <4>1 DEF n
      <4>3. Short(b, r)
        BY <3>4 DEF Short, n, g
      <4> QED BY <4>2, <4>3
    <3>5. CASE g.fault # "length" /\ ~(Len(b) < n)
      <4>1. LengthAt(b) = g.length
        BY <3>2, <3>5
      <4>2. CASE g.fault = "content"
        <5>1. next = wrong
          BY <1>0, <1>00, <2>0, <2>3, <3>1, <3>5, <4>1, <4>2 DEF n
        <5> QED BY <1>01, <5>1
      <4>3. CASE g.fault # "content"
        <5>2. next = [buf |-> SubSeq(b, n + 1, Len(b)), frames |-> Append(f, g), fault |-> "none"]
          <6>1. /\ ~(Len(b) < LengthBytes) /\ ~(LengthAt(b) < 1) /\ b[1].of.fault # "content"
                /\ LengthBytes + LengthAt(b) = n
            BY <1>0, <2>0, <2>3, <3>1, <4>1, <4>3 DEF n
          <6>2. next = [buf |-> SubSeq(b, LengthBytes + LengthAt(b) + 1, Len(b)), frames |-> Append(f, b[1].of), fault |-> "none"]
            BY <1>00, <3>5, <6>1
          <6> QED BY <3>1, <6>1, <6>2
        <5>3. Len(b) >= n
          BY <1>0, <2>1, <3>5
        <5> QED BY <1>2, <5>2, <5>3 DEF n, g
      <4> QED BY <4>2, <4>3
    <3> QED BY <3>3, <3>4, <3>5
  <2> QED BY <1>0, <2>2, <2>3
<1> QED BY <1>1, <1>2

LEMMA DecodesOn ==
  ASSUME NEW S, Lengths(S), NEW more \in Seq(BytesOf(S)), NEW rest \in Seq(S), NEW m \in Nat, NEW d,
         Decoded(d, rest, more, S, m + 1)
  PROVE  Decoded(DecodeOne(d), rest, more, S, m)
<1>1. CASE d.fault = "thrown"
  <2>1. DecodeOne(d) = d
    BY <1>1 DEF DecodeOne
  <2> QED BY <1>1, <2>1 DEF Decoded
<1>2. CASE d.fault # "thrown"
  <2>1. PICK b \in Seq(BytesOf(S)), f \in Seq(S), r \in Seq(S) :
          /\ d = [buf |-> b, frames |-> f, fault |-> "none"]
          /\ rest = f \o r /\ b \o more = EncodedAll(r)
          /\ Short(b, r) \/ Len(b) <= m + 1
    BY <1>2 DEF Decoded
  <2>2. PICK next : next = DecodeOne(d)
    OBVIOUS
  <2>3. CASE next.fault = "thrown"
    BY <2>2, <2>3 DEF Decoded
  <2>4. CASE next = d /\ Short(b, r)
    BY <2>1, <2>2, <2>4 DEF Decoded
  <2>5. CASE /\ r # <<>> /\ next = [buf |-> SubSeq(b, LengthBytes + r[1].length + 1, Len(b)),
                                    frames |-> Append(f, r[1]), fault |-> "none"]
             /\ Len(b) >= LengthBytes + r[1].length
    <3> DEFINE n == LengthBytes + r[1].length
               left == SubSeq(b, n + 1, Len(b))
    <3>1. left \in Seq(BytesOf(S)) /\ Len(left) < Len(b) /\ left \o more = EncodedAll(Tail(r))
      <4>1. r # <<>> /\ b \o more = EncodedAll(r) /\ Len(b) >= n
        BY <2>1, <2>5
      <4>2. PICK m2 : m2 = LengthBytes + r[1].length
        OBVIOUS
      <4>3. /\ SubSeq(b, m2 + 1, Len(b)) \in Seq(BytesOf(S)) /\ Len(SubSeq(b, m2 + 1, Len(b))) < Len(b)
            /\ SubSeq(b, m2 + 1, Len(b)) \o more = EncodedAll(Tail(r))
        <5>1. Len(b) >= m2
          BY <4>1, <4>2
        <5> HIDE DEF left, n
        <5> QED BY <4>1, <4>2, <5>1, FrontOff
      <4> QED BY <4>2, <4>3
    <3>2. r[1] \in S /\ Tail(r) \in Seq(S) /\ Append(f, r[1]) \in Seq(S) /\ rest = Append(f, r[1]) \o Tail(r)
      <4>1. r[1] \in S /\ Tail(r) \in Seq(S) /\ r = <<r[1]>> \o Tail(r)
        BY <2>5, EncodedFirst
      <4>2. Append(f, r[1]) = f \o <<r[1]>> /\ Append(f, r[1]) \in Seq(S) /\ <<r[1]>> \in Seq(S)
        BY <4>1, AppendIsConcat
      <4>3. (f \o <<r[1]>>) \o Tail(r) = f \o (<<r[1]>> \o Tail(r))
        BY <4>1, <4>2, ConcatAssociative
      <4> QED BY <2>1, <4>1, <4>2, <4>3
    <3>3. Short(left, Tail(r)) \/ Len(left) <= m
      <4>1. CASE Short(b, r)
        <5>1. Len(b) < n /\ Len(b) >= n
          BY <2>5, <4>1 DEF Short
        <5>2. LengthBytes \in Nat /\ r[1].length \in Nat /\ Len(b) \in Nat
          BY <2>1, <2>5, FrontIs
        <5> QED BY <5>1, <5>2
      <4>2. CASE Len(b) <= m + 1
        <5>1. Len(left) \in Nat /\ Len(b) \in Nat
          BY <3>1, LenProperties
        <5> HIDE DEF left
        <5> QED BY <3>1, <4>2, <5>1
      <4> QED BY <2>1, <4>1, <4>2
    <3>4. next = [buf |-> left, frames |-> Append(f, r[1]), fault |-> "none"]
      BY <2>5
    <3> HIDE DEF n, left
    <3> QED BY <2>2, <3>1, <3>2, <3>3, <3>4 DEF Decoded
  <2>6. \/ next.fault = "thrown"
        \/ next = d /\ Short(b, r)
        \/ /\ r # <<>> /\ next = [buf |-> SubSeq(b, LengthBytes + r[1].length + 1, Len(b)),
                                    frames |-> Append(f, r[1]), fault |-> "none"]
           /\ Len(b) >= LengthBytes + r[1].length
    <3>1. b \o more = EncodedAll(r) /\ d = [buf |-> b, frames |-> f, fault |-> "none"]
      BY <2>1
    <3>2. DecodedOne(d, DecodeOne(d), b, f, r)
      BY <3>1, DecodesOne
    <3> QED BY <2>2, <3>2 DEF DecodedOne
  <2> QED BY <2>3, <2>4, <2>5, <2>6
<1> QED BY <1>1, <1>2

-----------------------------------------------------------------------------
PushCourse(g, bytes) ==
  g = [k \in 0..Len(bytes) |-> IF k = 0 THEN [buf |-> bytes, frames |-> <<>>, fault |-> "none"] ELSE DecodeOne(g[k - 1])]

Decoders(S) == [buf : Seq(BytesOf(S)), frames : Seq(S), fault : {"none", "thrown"}]

LEMMA DecodeType ==
  ASSUME NEW S, Lengths(S), NEW d \in Decoders(S)
  PROVE  DecodeOne(d) \in Decoders(S)
<1>1. /\ d.buf \in Seq(BytesOf(S)) /\ d.frames \in Seq(S) /\ d.fault \in {"none", "thrown"}
      /\ d = [buf |-> d.buf, frames |-> d.frames, fault |-> d.fault] /\ LengthBytes \in Nat \ {0} /\ Len(d.buf) \in Nat
  BY PtydConnectionAssumption DEF Decoders
<1> DEFINE len == LengthAt(d.buf)
           end == LengthBytes + len
<1>2. CASE DecodeOne(d) = d
  BY <1>2
<1>3. CASE DecodeOne(d) = [d EXCEPT !.fault = "thrown"]
  <2>1. DecodeOne(d) = [buf |-> d.buf, frames |-> d.frames, fault |-> "thrown"]
    BY <1>1, <1>3
  <2> QED BY <1>1, <2>1 DEF Decoders
<1>4. CASE /\ Len(d.buf) >= LengthBytes
           /\ DecodeOne(d) = [d EXCEPT !.frames = Append(@, d.buf[1].of), !.buf = SubSeq(@, end + 1, Len(@))]
  <2>1. d.buf[1] \in BytesOf(S)
    BY <1>1, <1>4
  <2>2. d.buf[1].of \in S
    BY <2>1 DEF BytesOf
  <2>3. end \in Nat
    BY <1>1, <2>2 DEF LengthAt, Lengths
  <2> HIDE DEF end
  <2>4. SubSeq(d.buf, end + 1, Len(d.buf)) \in Seq(BytesOf(S)) /\ Append(d.frames, d.buf[1].of) \in Seq(S)
    BY <1>1, <2>2, <2>3
  <2>5. DecodeOne(d) = [buf |-> SubSeq(d.buf, end + 1, Len(d.buf)), frames |-> Append(d.frames, d.buf[1].of), fault |-> d.fault]
    BY <1>1, <1>4
  <2> QED BY <1>1, <2>4, <2>5 DEF Decoders
<1>5. \/ DecodeOne(d) = d
      \/ DecodeOne(d) = [d EXCEPT !.fault = "thrown"]
      \/ /\ ~(Len(d.buf) < LengthBytes)
         /\ DecodeOne(d) = [d EXCEPT !.frames = Append(@, d.buf[1].of), !.buf = SubSeq(@, end + 1, Len(@))]
  BY DEF DecodeOne
<1> HIDE DEF end, len
<1> QED BY <1>1, <1>2, <1>3, <1>4, <1>5

LEMMA PushIs ==
  ASSUME NEW S, Lengths(S), NEW buf \in Seq(BytesOf(S)), NEW chunk \in Seq(BytesOf(S)), NEW bytes, bytes = buf \o chunk
  PROVE  \E g : PushCourse(g, bytes) /\ Push(buf, chunk) = g[Len(bytes)]
<1> DEFINE V == Decoders(S)
           B == BytesOf(S)
           x == [buf |-> bytes, frames |-> <<>>, fault |-> "none"]
           step == [p \in V \X B |-> DecodeOne(p[1])]
           n == Len(bytes)
           g == CHOOSE f : f = [k \in 0..n |-> IF k = 0 THEN x ELSE DecodeOne(f[k - 1])]
<1>0. bytes \in Seq(B)
  OBVIOUS
<1>1. n \in Nat /\ \A k \in 1..n : bytes[k] \in B
  BY <1>0
<1>2. x \in V
  BY <1>0 DEF Decoders
<1>3. step \in [V \X B -> V]
  BY DecodeType
<1>4. \A v \in V, b \in B : step[<<v, b>>] = DecodeOne(v)
  OBVIOUS
<1> HIDE DEF step
<1> HIDE DEF V, B, x
<1>6. PICK h : Runs(h, V, x, step, bytes)
  BY <1>0, <1>2, <1>3, ItRuns
<1>7. h = [k \in 0..n |-> IF k = 0 THEN x ELSE DecodeOne(h[k - 1])]
  <2>1. h = [k \in 0..n |-> h[k]]
    BY <1>6 DEF Runs
  <2>2. ASSUME NEW k \in 0..n
        PROVE  h[k] = IF k = 0 THEN x ELSE DecodeOne(h[k - 1])
    <3>1. CASE k # 0
      <4>1. k \in 1..n /\ k - 1 \in 0..n
        BY <1>1, <3>1
      <4>2. h[k - 1] \in V
        BY <1>6, <4>1 DEF Runs
      <4> QED BY <1>1, <1>4, <1>6, <3>1, <4>1, <4>2 DEF Runs
    <3> QED BY <1>6, <3>1 DEF Runs
  <2> QED BY <2>1, <2>2
<1>8. PushCourse(g, bytes)
  BY <1>7 DEF PushCourse, x
<1>9. Push(buf, chunk) = g[n]
  BY DEF Push, x
<1> HIDE DEF g
<1> QED BY <1>8, <1>9

(* However the stream was cut: what is whole is decoded. *)
Pushed(d, rest, more, S) ==
  \/ d.fault = "thrown"
  \/ \E r \in Seq(S) :
       /\ d.fault = "none" /\ d.frames \in Seq(S) /\ rest = d.frames \o r
       /\ d.buf \in Seq(BytesOf(S)) /\ d.buf \o more = EncodedAll(r) /\ Short(d.buf, r)

LEMMA PushDecodes ==
  ASSUME NEW S, Lengths(S), NEW rest \in Seq(S), NEW buf \in Seq(BytesOf(S)), NEW chunk \in Seq(BytesOf(S)),
         NEW more \in Seq(BytesOf(S)), (buf \o chunk) \o more = EncodedAll(rest)
  PROVE  Pushed(Push(buf, chunk), rest, more, S)
<1>0. PICK bytes : bytes = buf \o chunk
  OBVIOUS
<1>00. bytes \in Seq(BytesOf(S)) /\ bytes \o more = EncodedAll(rest)
  BY <1>0
<1>1. PICK g : PushCourse(g, bytes) /\ Push(buf, chunk) = g[Len(bytes)]
  BY <1>0, PushIs
<1> DEFINE n == Len(bytes)
           x == [buf |-> bytes, frames |-> <<>>, fault |-> "none"]
<1>2. n \in Nat
  BY <1>00
<1>3. g[0] = x /\ \A k \in 1..n : g[k] = DecodeOne(g[k - 1])
  <2>1. g = [k \in 0..n |-> IF k = 0 THEN x ELSE DecodeOne(g[k - 1])]
    BY <1>1 DEF PushCourse
  <2> HIDE DEF n, x
  <2> QED BY <1>2, <2>1
<1> DEFINE T == {k \in 0..n : Decoded(g[k], rest, more, S, n - k)}
<1>4. 0 \in T
  <2>1. <<>> \in Seq(S) /\ rest = <<>> \o rest /\ Len(bytes) <= n
    BY <1>2, ConcatEmptySeq
  <2>2. Decoded(x, rest, more, S, n)
    BY <1>00, <2>1 DEF Decoded
  <2> HIDE DEF x
  <2> QED BY <1>2, <1>3, <2>2
<1> HIDE DEF n, x
<1>5. ASSUME NEW k \in 1..n, k - 1 \in T
      PROVE  k \in T
  <2>1. Decoded(g[k - 1], rest, more, S, n - (k - 1)) /\ n - k \in Nat /\ n - (k - 1) = (n - k) + 1
    BY <1>2, <1>5
  <2>2. Decoded(g[k], rest, more, S, n - k)
    BY <1>3, <2>1, DecodesOn
  <2> QED BY <1>2, <2>2
<1> HIDE DEF T
<1>6. \A k \in 0..n : k \in T
  BY <1>2, <1>4, <1>5, UpTo
<1>7. Decoded(g[n], rest, more, S, 0)
  <2>1. n \in T
    BY <1>2, <1>6
  <2>2. n - n = 0
    BY <1>2
  <2> QED BY <2>1, <2>2 DEF T
<1>8. PICK d : d = Push(buf, chunk)
  OBVIOUS
<1>9. Decoded(d, rest, more, S, 0)
  BY <1>1, <1>7, <1>8 DEF n
<1>10. CASE d.fault # "thrown"
  <2>1. PICK b \in Seq(BytesOf(S)), f \in Seq(S), r \in Seq(S) :
          /\ d = [buf |-> b, frames |-> f, fault |-> "none"]
          /\ rest = f \o r /\ b \o more = EncodedAll(r)
          /\ Short(b, r) \/ Len(b) <= 0
    BY <1>9, <1>10 DEF Decoded
  <2>2. Short(b, r)
    <3>1. ASSUME Len(b) <= 0, r # <<>>
          PROVE  Len(b) < LengthBytes + r[1].length
      <4>1. LengthBytes \in Nat \ {0} /\ r[1].length \in Nat /\ Len(b) \in Nat
        BY <2>1, <3>1, FrontIs
      <4> QED BY <3>1, <4>1
    <3> QED BY <2>1, <3>1 DEF Short
  <2>3. d.buf = b /\ d.frames = f /\ d.fault = "none"
    BY <2>1
  <2> QED BY <1>8, <2>1, <2>2, <2>3 DEF Pushed
<1> QED BY <1>8, <1>10 DEF Pushed

LEMMA Grouping ==
  ASSUME NEW S
  PROVE  \A s, t, u \in Seq(S) : (s \o t) \o u = s \o (t \o u)
BY ConcatAssociative

LEMMA Joined ==
  ASSUME NEW S
  PROVE  \A s, t \in Seq(S) : s \o t \in Seq(S)
BY ConcatProperties

(* One direction: all that was sent is acted on already or still to come;   *)
(* what is to come is less than a frame at the decoder, bytes on their way, *)
(* and what was thrown away behind them.                                    *)
Leg(S, done, buf, way, lost, rest, all) ==
  /\ done \in Seq(S) /\ rest \in Seq(S) /\ all = done \o rest
  /\ buf \in Seq(BytesOf(S)) /\ way \in Seq(BytesOf(S)) /\ lost \in Seq(BytesOf(S))
  /\ (buf \o way) \o lost = EncodedAll(rest)
  /\ Short(buf, rest)

LEMMA LegStarts ==
  ASSUME NEW S
  PROVE  Leg(S, <<>>, <<>>, <<>>, <<>>, <<>>, <<>>)
<1>1. <<>> \in Seq(S) /\ <<>> \in Seq(BytesOf(S)) /\ <<>> = <<>> \o <<>>
  OBVIOUS
<1>2. (<<>> \o <<>>) \o <<>> = <<>>
  BY <1>1
<1> QED BY <1>1, <1>2, EncodedEmpty DEF Leg, Short

LEMMA LegGrows ==
  ASSUME NEW S, NEW S2, S \subseteq S2,
         NEW done, NEW buf, NEW way, NEW lost, NEW rest, NEW all, Leg(S, done, buf, way, lost, rest, all)
  PROVE  Leg(S2, done, buf, way, lost, rest, all)
<1>1. BytesOf(S) \subseteq BytesOf(S2)
  BY DEF BytesOf
<1>2. done \in Seq(S2) /\ rest \in Seq(S2)
  BY SeqMonotonic DEF Leg
<1>3. buf \in Seq(BytesOf(S2)) /\ way \in Seq(BytesOf(S2)) /\ lost \in Seq(BytesOf(S2))
  BY <1>1, SeqMonotonic DEF Leg
<1> QED BY <1>2, <1>3 DEF Leg

LEMMA LegTakes ==
  ASSUME NEW S, Lengths(S), NEW done, NEW buf, NEW way, NEW rest, NEW all, Leg(S, done, buf, way, <<>>, rest, all),
         NEW fs \in Seq(S)
  PROVE  Leg(S, done, buf, way \o EncodedAll(fs), <<>>, rest \o fs, all \o fs)
<1> DEFINE B == BytesOf(S)
           code == EncodedAll(fs)
           old == EncodedAll(rest)
<1>1. /\ done \in Seq(S) /\ rest \in Seq(S) /\ all = done \o rest
      /\ buf \in Seq(B) /\ way \in Seq(B) /\ <<>> \in Seq(B)
      /\ (buf \o way) \o <<>> = old /\ Short(buf, rest)
  BY DEF Leg
<1>2. code \in Seq(B) /\ old \in Seq(B) /\ EncodedAll(rest \o fs) = old \o code
  BY <1>1, EncodedType, EncodedConcat
<1> HIDE DEF B, code, old
<1>3. buf \o way = old
  BY <1>1, ConcatProperties, ConcatEmptySeq
<1>4. (buf \o way) \o code = buf \o (way \o code) /\ way \o code \in Seq(B)
  <2>1. \A s, t, u \in Seq(B) : (s \o t) \o u = s \o (t \o u)
    BY Grouping
  <2> QED BY <1>1, <1>2, <2>1, Joined
<1>5. (buf \o (way \o code)) \o <<>> = buf \o (way \o code)
  BY <1>1, <1>4, ConcatProperties, ConcatEmptySeq
<1>6. (buf \o (way \o code)) \o <<>> = EncodedAll(rest \o fs)
  BY <1>2, <1>3, <1>4, <1>5
<1>7. all \o fs = done \o (rest \o fs) /\ rest \o fs \in Seq(S)
  <2>1. \A s, t, u \in Seq(S) : (s \o t) \o u = s \o (t \o u)
    BY Grouping
  <2> QED BY <1>1, <2>1, Joined
<1>8. Short(buf, rest \o fs)
  <2>1. CASE rest = <<>>
    <3>1. old = <<>>
      BY <2>1, EncodedEmpty DEF old
    <3>2. buf = <<>>
      BY <1>1, <1>3, <3>1, ConcatEqualIffEmpty
    <3>3. ASSUME rest \o fs # <<>>
          PROVE  LengthBytes \in Nat \ {0} /\ (rest \o fs)[1].length \in Nat
      <4>1. (rest \o fs)[1] \in S
        BY <1>7, <3>3
      <4> QED BY <4>1, PtydConnectionAssumption DEF Lengths
    <3> QED BY <3>2, <3>3 DEF Short
  <2>2. CASE rest # <<>>
    <3>1. (rest \o fs)[1] = rest[1]
      BY <1>1, <2>2
    <3> QED BY <1>1, <2>2, <3>1 DEF Short
  <2> QED BY <2>1, <2>2
<1> QED BY <1>1, <1>4, <1>6, <1>7, <1>8 DEF Leg, B, code

LEMMA LegTakesOne ==
  ASSUME NEW S, Lengths(S), NEW done, NEW buf, NEW way, NEW rest, NEW all, Leg(S, done, buf, way, <<>>, rest, all),
         NEW f \in S
  PROVE  \E r : Leg(S, done, buf, way \o Encoded(f), <<>>, r, Append(all, f))
<1>1. <<f>> \in Seq(S) /\ EncodedAll(<<f>>) = Encoded(f)
  BY EncodedOne
<1>2. Leg(S, done, buf, way \o EncodedAll(<<f>>), <<>>, rest \o <<f>>, all \o <<f>>)
  BY <1>1, LegTakes
<1>3. all \in Seq(S)
  BY ConcatProperties DEF Leg
<1>4. Append(all, f) = all \o <<f>>
  BY <1>3, AppendIsConcat
<1> QED BY <1>1, <1>2, <1>4

LEMMA LegIsCut ==
  ASSUME NEW S, NEW done, NEW buf, NEW way, NEW rest, NEW all, Leg(S, done, buf, way, <<>>, rest, all),
         NEW n \in 0..Len(way)
  PROVE  Leg(S, done, buf, SubSeq(way, 1, n), SubSeq(way, n + 1, Len(way)), rest, all)
<1> DEFINE B == BytesOf(S)
           a == SubSeq(way, 1, n)
           b == SubSeq(way, n + 1, Len(way))
<1>1. buf \in Seq(B) /\ way \in Seq(B) /\ (buf \o way) \o <<>> = EncodedAll(rest)
  BY DEF Leg
<1>2. a \in Seq(B) /\ b \in Seq(B) /\ a \o b = way
  BY <1>1, InTwo
<1> HIDE DEF B, a, b
<1>3. (buf \o way) \o <<>> = buf \o way
  BY <1>1, ConcatProperties, ConcatEmptySeq
<1>4. (buf \o a) \o b = buf \o (a \o b)
  <2>1. \A s, t, u \in Seq(B) : (s \o t) \o u = s \o (t \o u)
    BY Grouping
  <2> QED BY <1>1, <1>2, <2>1
<1>5. (buf \o a) \o b = EncodedAll(rest)
  BY <1>1, <1>2, <1>3, <1>4
<1> QED BY <1>2, <1>5 DEF Leg, a, b, B

LEMMA LegIsRead ==
  ASSUME NEW S, Lengths(S), NEW done, NEW buf, NEW way, NEW lost, NEW rest, NEW all,
         Leg(S, done, buf, way, lost, rest, all), NEW n \in 1..Len(way), NEW d, d = Push(buf, SubSeq(way, 1, n))
  PROVE  \/ d.fault = "thrown"
         \/ /\ d.fault = "none" /\ d.frames \in Seq(S)
            /\ \E r : Leg(S, done \o d.frames, d.buf, SubSeq(way, n + 1, Len(way)), lost, r, all)
<1> DEFINE B == BytesOf(S)
           a == SubSeq(way, 1, n)
           b == SubSeq(way, n + 1, Len(way))
<1>1. /\ buf \in Seq(B) /\ way \in Seq(B) /\ lost \in Seq(B) /\ (buf \o way) \o lost = EncodedAll(rest)
      /\ done \in Seq(S) /\ rest \in Seq(S) /\ all = done \o rest
  BY DEF Leg
<1>2. n \in 0..Len(way)
  OBVIOUS
<1>3. a \in Seq(B) /\ b \in Seq(B) /\ a \o b = way
  BY <1>1, <1>2, InTwo
<1>4. d = Push(buf, a)
  OBVIOUS
<1> HIDE DEF a, b, B
<1>0. \A s, t, u \in Seq(B) : (s \o t) \o u = s \o (t \o u)
  BY Grouping
<1>00. \A s, t \in Seq(B) : s \o t \in Seq(B)
  BY Joined
<1>5. (buf \o a) \o b = buf \o way /\ buf \o a \in Seq(B) /\ b \o lost \in Seq(B)
  <2>1. (buf \o a) \o b = buf \o (a \o b)
    BY <1>0, <1>1, <1>3
  <2>2. buf \o a \in Seq(B)
    BY <1>00, <1>1, <1>3
  <2>3. b \o lost \in Seq(B)
    BY <1>00, <1>1, <1>3
  <2> QED BY <1>3, <2>1, <2>2, <2>3
<1>6. ((buf \o a) \o b) \o lost = (buf \o a) \o (b \o lost)
  <2>1. PICK x : x = buf \o a
    OBVIOUS
  <2>2. x \in Seq(B)
    BY <1>5, <2>1
  <2>3. (x \o b) \o lost = x \o (b \o lost)
    BY <1>0, <1>1, <1>3, <2>2
  <2> QED BY <2>1, <2>3
<1>7. PICK more : more = b \o lost
  OBVIOUS
<1>8. more \in Seq(B) /\ (buf \o a) \o more = EncodedAll(rest)
  BY <1>1, <1>5, <1>6, <1>7
<1>9. \/ d.fault = "thrown"
      \/ \E r \in Seq(S) :
           /\ d.fault = "none" /\ d.frames \in Seq(S) /\ rest = d.frames \o r
           /\ d.buf \in Seq(B) /\ d.buf \o more = EncodedAll(r) /\ Short(d.buf, r)
  <2>1. Pushed(Push(buf, a), rest, more, S)
    BY <1>1, <1>3, <1>8, PushDecodes DEF B
  <2> QED BY <1>4, <2>1 DEF Pushed, B
<1>10. CASE d.fault # "thrown"
  <2>1. PICK r \in Seq(S) :
           /\ d.fault = "none" /\ d.frames \in Seq(S) /\ rest = d.frames \o r
           /\ d.buf \in Seq(B) /\ d.buf \o more = EncodedAll(r) /\ Short(d.buf, r)
    BY <1>9, <1>10
  <2>2. (d.buf \o b) \o lost = EncodedAll(r)
    <3>1. PICK x : x = d.buf
      OBVIOUS
    <3>2. x \in Seq(B)
      BY <2>1, <3>1
    <3>3. (x \o b) \o lost = x \o (b \o lost)
      BY <1>0, <1>1, <1>3, <3>2
    <3> QED BY <1>7, <2>1, <3>1, <3>3
  <2>3. done \o d.frames \in Seq(S) /\ all = (done \o d.frames) \o r
    <3>1. \A s, t, u \in Seq(S) : (s \o t) \o u = s \o (t \o u)
      BY Grouping
    <3>2. \A s, t \in Seq(S) : s \o t \in Seq(S)
      BY Joined
    <3>3. done \o d.frames \in Seq(S)
      BY <1>1, <2>1, <3>2
    <3>4. (done \o d.frames) \o r = done \o (d.frames \o r)
      <4>1. PICK x : x = d.frames
        OBVIOUS
      <4>2. x \in Seq(S)
        BY <2>1, <4>1
      <4>3. (done \o x) \o r = done \o (x \o r)
        BY <1>1, <3>1, <4>2
      <4> QED BY <4>1, <4>3
    <3> QED BY <1>1, <2>1, <3>3, <3>4
  <2>4. Leg(S, done \o d.frames, d.buf, b, lost, r, all)
    BY <1>1, <1>3, <2>1, <2>2, <2>3 DEF Leg, B
  <2> QED BY <2>1, <2>4 DEF b
<1> QED BY <1>10

LEMMA LegIsSeen ==
  ASSUME NEW S, Lengths(S), NEW done, NEW buf, NEW way, NEW lost, NEW rest, NEW all,
         Leg(S, done, buf, way, lost, rest, all)
  PROVE  Ending(buf) = <<>> /\ (lost = <<>> => done \o Ending(way) = all)
<1> DEFINE B == BytesOf(S)
<1>1. /\ buf \in Seq(B) /\ way \in Seq(B) /\ lost \in Seq(B) /\ (buf \o way) \o lost = EncodedAll(rest)
      /\ rest \in Seq(S) /\ all = done \o rest /\ Short(buf, rest)
  BY DEF Leg
<1>2. buf \o (way \o lost) = EncodedAll(rest) /\ way \o lost \in Seq(B)
  <2> HIDE DEF B
  <2>1. \A s, t, u \in Seq(B) : (s \o t) \o u = s \o (t \o u)
    BY Grouping
  <2>2. \A s, t \in Seq(B) : s \o t \in Seq(B)
    BY Joined
  <2> QED BY <1>1, <2>1, <2>2
<1>3. PICK more : more = way \o lost
  OBVIOUS
<1>4. Ending(buf) = <<>> /\ Ending(more) = rest
  BY <1>1, <1>2, <1>3, ShortIsOpen
<1>5. lost = <<>> => more = way
  BY <1>1, <1>3, ConcatEmptySeq
<1> QED BY <1>1, <1>4, <1>5

(* What each end may send when n calls were made. *)
Sent(n) == {request(rid) : rid \in 1..n} \cup {input, odd("length"), odd("content"), odd("envelope")}

Answered(n) == {response(rid) : rid \in 1..n} \cup {event(TRUE), event(FALSE), output}

LEMMA SentFacts ==
  ASSUME NEW n \in Nat
  PROVE  /\ Lengths(Sent(n)) /\ \A m \in Nat : n <= m => Sent(n) \subseteq Sent(m)
         /\ \A f \in Sent(n) : f.body.t = "req" => f.body.rid \in 1..n
<1>1. ASSUME NEW f \in Sent(n)
      PROVE  f.length \in Nat \ {0} /\ (f.body.t = "req" => f.body.rid \in 1..n)
  <2>1. CASE f = input
    BY <2>1 DEF input, Frame
  <2>2. CASE f = odd("length") \/ f = odd("content") \/ f = odd("envelope")
    BY <2>2 DEF odd, Frame
  <2>3. CASE f \in {request(rid) : rid \in 1..n}
    <3>1. PICK rid \in 1..n : f = request(rid)
      BY <2>3
    <3>2. f.length = 1 /\ f.body.rid = rid
      BY <3>1 DEF request, Frame
    <3> QED BY <3>2
  <2> QED BY <2>1, <2>2, <2>3 DEF Sent
<1>2. ASSUME NEW m \in Nat, n <= m
      PROVE  Sent(n) \subseteq Sent(m)
  <2>1. 1..n \subseteq 1..m
    BY <1>2
  <2> QED BY <2>1 DEF Sent
<1> QED BY <1>1, <1>2 DEF Lengths

LEMMA AnsweredFacts ==
  ASSUME NEW n \in Nat
  PROVE  /\ Lengths(Answered(n)) /\ \A m \in Nat : n <= m => Answered(n) \subseteq Answered(m)
         /\ \A f \in Answered(n) : f.body.t = "res" => f.body.rid \in 1..n /\ f = response(f.body.rid)
         /\ \A rid : response(rid) \in Answered(n) => rid \in 1..n
         /\ \A rid : response(rid).body.t = "res" /\ response(rid).body.rid = rid
<1>1. \A rid : response(rid).length = 1 /\ response(rid).body.t = "res" /\ response(rid).body.rid = rid
  BY DEF response, Frame
<1>2. \A f \in {event(TRUE), event(FALSE), output} : f.length \in Nat \ {0} /\ f.body.t # "res"
  <2>0. \A ends : event(ends).length \in Nat \ {0} /\ event(ends).body.t # "res"
    <3> TAKE ends
    <3>1. event(ends).length = 1 /\ event(ends).body.t = "evt"
      BY DEF event, Frame
    <3> QED BY <3>1
  <2>1. event(TRUE).length \in Nat \ {0} /\ event(TRUE).body.t # "res"
    BY <2>0, Zenon
  <2>2. event(FALSE).length \in Nat \ {0} /\ event(FALSE).body.t # "res"
    BY <2>0, Zenon
  <2>3. output.length = 2 /\ output.body.t = "data"
    BY DEF output, Frame
  <2>4. \A f : f = event(TRUE) => f.length \in Nat \ {0} /\ f.body.t # "res"
    BY <2>1, Zenon
  <2>5. \A f : f = event(FALSE) => f.length \in Nat \ {0} /\ f.body.t # "res"
    BY <2>2, Zenon
  <2>6. \A f : f = output => f.length \in Nat \ {0} /\ f.body.t # "res"
    BY <2>3
  <2>7. \A f \in {event(TRUE), event(FALSE), output} : f = event(TRUE) \/ f = event(FALSE) \/ f = output
    BY Zenon
  <2> QED BY <2>4, <2>5, <2>6, <2>7, Zenon
<1>3. ASSUME NEW f \in Answered(n)
      PROVE  f.length \in Nat \ {0} /\ (f.body.t = "res" => f.body.rid \in 1..n /\ f = response(f.body.rid))
  <2>1. CASE f \in {response(rid) : rid \in 1..n}
    <3>1. PICK rid \in 1..n : f = response(rid)
      BY <2>1
    <3>2. f.length = 1 /\ f.body.rid = rid
      BY <1>1, <3>1
    <3> QED BY <3>1, <3>2
  <2>2. CASE f \in {event(TRUE), event(FALSE), output}
    BY <1>2, <2>2
  <2> QED BY <2>1, <2>2 DEF Answered
<1>4. ASSUME NEW rid, response(rid) \in Answered(n)
      PROVE  rid \in 1..n
  <2>1. response(rid).body.rid \in 1..n
    BY <1>1, <1>3, <1>4
  <2> QED BY <1>1, <2>1
<1>5. ASSUME NEW m \in Nat, n <= m
      PROVE  Answered(n) \subseteq Answered(m)
  <2>1. 1..n \subseteq 1..m
    BY <1>5
  <2> QED BY <2>1 DEF Answered
<1> QED BY <1>1, <1>3, <1>4, <1>5 DEF Lengths

LEMMA AnswersType ==
  ASSUME NEW n \in Nat, NEW frames \in Seq(Sent(n))
  PROVE  Answers(frames) \in Seq(Answered(n))
<1> DEFINE S == Sent(n)
           V == Seq(Answered(n))
           step == [p \in V \X S |-> Answering(p[1], p[2])]
           last == Len(frames)
           g == CHOOSE f : f = [k \in 0..last |-> IF k = 0 THEN <<>> ELSE Answering(f[k - 1], frames[k])]
<1>1. last \in Nat /\ \A k \in 1..last : frames[k] \in S
  OBVIOUS
<1>2. ASSUME NEW v \in V, NEW f \in S
      PROVE  Answering(v, f) \in V
  <2>1. CASE f.body.t = "req"
    <3>1. f.body.rid \in 1..n
      BY <2>1, SentFacts
    <3>2. response(f.body.rid) \in Answered(n)
      BY <3>1 DEF Answered
    <3>3. Append(v, response(f.body.rid)) \in V
      BY <3>2
    <3> QED BY <2>1, <3>3 DEF Answering
  <2>2. CASE f.body.t # "req"
    BY <2>2 DEF Answering
  <2> QED BY <2>1, <2>2
<1>3. step \in [V \X S -> V] /\ <<>> \in V
  BY <1>2
<1>4. \A v \in V, f \in S : step[<<v, f>>] = Answering(v, f)
  OBVIOUS
<1>00. frames \in Seq(S)
  OBVIOUS
<1> HIDE DEF step, S
<1>5. PICK h : Runs(h, V, <<>>, step, frames)
  BY <1>00, <1>3, ItRuns
<1>6. h = [k \in 0..last |-> IF k = 0 THEN <<>> ELSE Answering(h[k - 1], frames[k])]
  <2> HIDE DEF V
  <2>1. h = [k \in 0..last |-> h[k]]
    BY <1>5 DEF Runs
  <2>2. ASSUME NEW k \in 0..last
        PROVE  h[k] = IF k = 0 THEN <<>> ELSE Answering(h[k - 1], frames[k])
    <3>1. CASE k # 0
      <4>1. k \in 1..last /\ h[k - 1] \in V
        BY <1>1, <1>5, <3>1 DEF Runs
      <4> QED BY <1>1, <1>4, <1>5, <3>1, <4>1 DEF Runs
    <3> QED BY <1>5, <3>1 DEF Runs
  <2> QED BY <2>1, <2>2
<1>7. g = [k \in 0..last |-> IF k = 0 THEN <<>> ELSE Answering(g[k - 1], frames[k])]
  BY <1>6
<1>8. Answers(frames) = g[last]
  BY DEF Answers
<1> HIDE DEF g
<1> DEFINE T == {k \in 0..last : g[k] \in V}
<1>9. 0 \in T
  BY <1>1, <1>3, <1>7
<1>10. ASSUME NEW k \in 1..last, k - 1 \in T
       PROVE  k \in T
  <2>1. g[k - 1] \in V /\ frames[k] \in S /\ k \in 0..last /\ k # 0
    BY <1>1, <1>10
  <2>2. g[k] = Answering(g[k - 1], frames[k])
    BY <1>7, <2>1
  <2>3. Answering(g[k - 1], frames[k]) \in V
    BY <1>2, <2>1
  <2> QED BY <2>1, <2>2, <2>3
<1> HIDE DEF T, last
<1>11. \A k \in 0..last : k \in T
  BY <1>1, <1>9, <1>10, UpTo
<1>12. last \in T
  BY <1>1, <1>11
<1> QED BY <1>8, <1>12 DEF T

LEMMA AcceptableType ==
  ASSUME NEW S, NEW frames \in Seq(S)
  PROVE  Acceptable(frames) \in Seq(S)
<1> DEFINE bad == SelectInSeq(frames, LAMBDA f : f.fault = "envelope")
<1>1. bad = 0 \/ bad \in 1..Len(frames)
  <2> DEFINE I == {i \in 1..Len(frames) : frames[i].fault = "envelope"}
  <2>1. bad = IF I # {} THEN Min(I) ELSE 0
    BY DEF SelectInSeq
  <2>2. ASSUME I # {}
        PROVE  Min(I) \in 1..Len(frames)
    <3>1. I \subseteq 1..Len(frames) /\ I \subseteq Nat
      OBVIOUS
    <3> HIDE DEF I
    <3>2. Min(I) \in I
      BY <2>2, <3>1, Least DEF Min
    <3> QED BY <3>1, <3>2
  <2> HIDE DEF I, bad
  <2> QED BY <2>1, <2>2
<1>2. Acceptable(frames) = IF bad = 0 THEN frames ELSE SubSeq(frames, 1, bad - 1)
  BY DEF Acceptable
<1> HIDE DEF bad
<1>3. CASE bad \in 1..Len(frames)
  <2>1. SubSeq(frames, 1, bad - 1) \in Seq(S)
    BY <1>3, Parted
  <2> QED BY <1>2, <2>1
<1> QED BY <1>1, <1>2, <1>3

States == {"pending", "closed", "timeout", "answered"}

NonePending(cs) == \A rid \in DOMAIN cs : cs[rid] # "pending"

LEMMA TornDownFacts ==
  ASSUME NEW cs \in Seq(States)
  PROVE  /\ TornDown(cs) \in Seq(States) /\ Len(TornDown(cs)) = Len(cs) /\ DOMAIN TornDown(cs) = DOMAIN cs
         /\ NonePending(TornDown(cs))
<1> DEFINE n == Len(cs)
           x(rid) == IF cs[rid] = "pending" THEN "closed" ELSE cs[rid]
<1>1. n \in Nat /\ DOMAIN cs = 1..n
  BY LenProperties
<1>2. \A rid \in 1..n : x(rid) \in States /\ x(rid) # "pending"
  BY <1>1 DEF States
<1>3. TornDown(cs) = [rid \in 1..n |-> x(rid)]
  BY <1>1 DEF TornDown
<1> HIDE DEF n, x
<1>4. [rid \in 1..n |-> x(rid)] \in Seq(States) /\ Len([rid \in 1..n |-> x(rid)]) = n
  BY <1>1, <1>2
<1> QED BY <1>1, <1>2, <1>3, <1>4 DEF NonePending, n

(* What the client made of the frames up to the k-th. *)
Readers(n) == [end : {"open", "closed"}, calls : [1..n -> States]]

SettledAs(next, n, e, cs, f) ==
  \/ /\ f.body.t = "res" /\ f.body.rid \in 1..n /\ f = response(f.body.rid)
     /\ next = [end |-> e, calls |-> IF cs[f.body.rid] = "pending"
                                       THEN [cs EXCEPT ![f.body.rid] = "answered"] ELSE cs]
  \/ f.body.t # "res" /\ next = [end |-> "closed", calls |-> TornDown(cs)]
  \/ f.body.t # "res" /\ next = [end |-> e, calls |-> cs]

LEMMA SettledCases ==
  ASSUME NEW n \in Nat, NEW e \in {"open", "closed"}, NEW cs \in [1..n -> States], NEW f \in Answered(n)
  PROVE  SettledAs(Settled([end |-> e, calls |-> cs], f), n, e, cs, f)
<1> DEFINE c == [end |-> e, calls |-> cs]
<1>1. c.end = e /\ c.calls = cs
  OBVIOUS
<1>2. CASE f.body.t = "res"
  <2>1. f.body.rid \in 1..n /\ f = response(f.body.rid)
    BY <1>2, AnsweredFacts
  <2>2. Settled(c, f) = [c EXCEPT !.calls = IF @[f.body.rid] = "pending" THEN [@ EXCEPT ![f.body.rid] = "answered"] ELSE @]
    BY <1>2 DEF Settled
  <2>3. [c EXCEPT !.calls = IF @[f.body.rid] = "pending" THEN [@ EXCEPT ![f.body.rid] = "answered"] ELSE @]
          = [end |-> e, calls |-> IF cs[f.body.rid] = "pending" THEN [cs EXCEPT ![f.body.rid] = "answered"] ELSE cs]
    OBVIOUS
  <2> QED BY <1>2, <2>1, <2>2, <2>3 DEF SettledAs
<1>3. CASE f.body.t # "res"
  <2> HIDE DEF c
  <2>1. Settled(c, f) = [end |-> "closed", calls |-> TornDown(c.calls)] \/ Settled(c, f) = c
    BY <1>3, Zenon DEF Settled
  <2>2. CASE Settled(c, f) = [end |-> "closed", calls |-> TornDown(c.calls)]
    BY <1>1, <1>3, <2>2 DEF c, SettledAs
  <2>3. CASE Settled(c, f) = c
    BY <1>3, <2>3 DEF c, SettledAs
  <2> QED BY <2>1, <2>2, <2>3
<1> QED BY <1>2, <1>3

LEMMA SettledType ==
  ASSUME NEW n \in Nat, NEW c \in Readers(n), NEW f \in Answered(n)
  PROVE  /\ Settled(c, f) \in Readers(n)
         /\ (c.end = "closed" => NonePending(c.calls)) => (Settled(c, f).end = "closed" => NonePending(Settled(c, f).calls))
         /\ \A rid \in 1..n : Settled(c, f).calls[rid] = "pending" => c.calls[rid] = "pending" /\ f # response(rid)
<1>1. PICK e \in {"open", "closed"}, cs \in [1..n -> States] : c = [end |-> e, calls |-> cs]
  BY DEF Readers
<1>2. PICK next : next = Settled(c, f)
  OBVIOUS
<1>3. cs \in Seq(States) /\ Len(cs) = n
  OBVIOUS
<1>4. TornDown(cs) \in [1..n -> States] /\ NonePending(TornDown(cs))
  BY <1>3, TornDownFacts
<1>5. \/ /\ f.body.t = "res" /\ f.body.rid \in 1..n /\ f = response(f.body.rid)
         /\ next = [end |-> e, calls |-> IF cs[f.body.rid] = "pending"
                                           THEN [cs EXCEPT ![f.body.rid] = "answered"] ELSE cs]
      \/ f.body.t # "res" /\ next = [end |-> "closed", calls |-> TornDown(cs)]
      \/ f.body.t # "res" /\ next = [end |-> e, calls |-> cs]
  <2>1. SettledAs(Settled([end |-> e, calls |-> cs], f), n, e, cs, f)
    BY SettledCases
  <2> QED BY <1>1, <1>2, <2>1 DEF SettledAs
<1>0. \A rid : response(rid).body.t = "res" /\ response(rid).body.rid = rid
  BY AnsweredFacts
<1> SUFFICES /\ next \in Readers(n)
             /\ (e = "closed" => NonePending(cs)) => (next.end = "closed" => NonePending(next.calls))
             /\ \A rid \in 1..n : next.calls[rid] = "pending" => cs[rid] = "pending" /\ f # response(rid)
  BY <1>1, <1>2
<1>6. CASE /\ f.body.t = "res" /\ f.body.rid \in 1..n /\ f = response(f.body.rid)
           /\ next = [end |-> e, calls |-> IF cs[f.body.rid] = "pending"
                                             THEN [cs EXCEPT ![f.body.rid] = "answered"] ELSE cs]
  <2>1. PICK r \in 1..n : r = f.body.rid
    BY <1>6
  <2>2. PICK ds : ds = IF cs[r] = "pending" THEN [cs EXCEPT ![r] = "answered"] ELSE cs
    OBVIOUS
  <2>3. ds \in [1..n -> States] /\ \A rid \in 1..n : ds[rid] = "pending" => cs[rid] = "pending" /\ rid # r
    BY <2>2 DEF States
  <2>4. next = [end |-> e, calls |-> ds]
    BY <1>6, <2>1, <2>2
  <2>5. \A rid \in 1..n : rid # r => f # response(rid)
    BY <1>0, <1>6, <2>1
  <2>6. NonePending(cs) => NonePending(ds)
    BY <2>3 DEF NonePending
  <2>7. next \in Readers(n) /\ next.end = e /\ next.calls = ds
    BY <2>3, <2>4 DEF Readers
  <2> QED BY <2>3, <2>5, <2>6, <2>7
<1>7. CASE f.body.t # "res" /\ next = [end |-> "closed", calls |-> TornDown(cs)]
  <2>1. next \in Readers(n) /\ next.calls = TornDown(cs)
    BY <1>4, <1>7 DEF Readers
  <2>2. \A rid \in 1..n : next.calls[rid] # "pending"
    BY <1>4, <2>1 DEF NonePending
  <2> QED BY <1>4, <2>1, <2>2
<1>8. CASE f.body.t # "res" /\ next = [end |-> e, calls |-> cs]
  <2>1. next \in Readers(n) /\ next.end = e /\ next.calls = cs
    BY <1>8 DEF Readers
  <2>2. \A rid : f # response(rid)
    BY <1>0, <1>8
  <2> QED BY <2>1, <2>2
<1> QED BY <1>5, <1>6, <1>7, <1>8

LEMMA HandledFacts ==
  ASSUME NEW n \in Nat, NEW cs \in [1..n -> States], NEW frames \in Seq(Answered(n)),
         NEW c, c = Handled([end |-> "open", calls |-> cs], frames)
  PROVE  /\ c.end \in {"open", "closed"} /\ c.calls \in [1..n -> States]
         /\ c.end = "closed" => NonePending(c.calls)
         /\ \A rid \in 1..n : c.calls[rid] = "pending" =>
              cs[rid] = "pending" /\ \A k \in 1..Len(frames) : frames[k] # response(rid)
<1> DEFINE S == Answered(n)
           V == Readers(n)
           x == [end |-> "open", calls |-> cs]
           step == [p \in V \X S |-> Settled(p[1], p[2])]
           last == Len(frames)
           g == CHOOSE f : f = [k \in 0..last |-> IF k = 0 THEN x ELSE Settled(f[k - 1], frames[k])]
<1>1. last \in Nat /\ \A k \in 1..last : frames[k] \in S
  OBVIOUS
<1>2. \A v \in V, f \in S : Settled(v, f) \in V
  BY SettledType
<1>3. step \in [V \X S -> V] /\ x \in V /\ x.end = "open" /\ x.calls = cs
  BY <1>2 DEF Readers
<1>4. \A v \in V, f \in S : step[<<v, f>>] = Settled(v, f)
  OBVIOUS
<1>00. frames \in Seq(S)
  OBVIOUS
<1> HIDE DEF step, S, V
<1>5. PICK h : Runs(h, V, x, step, frames)
  BY <1>00, <1>3, ItRuns
<1> HIDE DEF x
<1>6. h = [k \in 0..last |-> IF k = 0 THEN x ELSE Settled(h[k - 1], frames[k])]
  <2>1. h = [k \in 0..last |-> h[k]]
    BY <1>5 DEF Runs
  <2>2. ASSUME NEW k \in 0..last
        PROVE  h[k] = IF k = 0 THEN x ELSE Settled(h[k - 1], frames[k])
    <3>1. CASE k # 0
      <4>1. k \in 1..last /\ h[k - 1] \in V
        BY <1>1, <1>5, <3>1 DEF Runs
      <4> QED BY <1>1, <1>4, <1>5, <3>1, <4>1 DEF Runs
    <3> QED BY <1>5, <3>1 DEF Runs
  <2> QED BY <2>1, <2>2
<1>7. g = [k \in 0..last |-> IF k = 0 THEN x ELSE Settled(g[k - 1], frames[k])]
  BY <1>6
<1>8. c = g[last]
  BY DEF Handled, x
<1> HIDE DEF g
<1> DEFINE T == {k \in 0..last : /\ g[k] \in V /\ (g[k].end = "closed" => NonePending(g[k].calls))
                                 /\ \A rid \in 1..n : g[k].calls[rid] = "pending" =>
                                      cs[rid] = "pending" /\ \A j \in 1..k : frames[j] # response(rid)}
<1>9. 0 \in T
  <2>1. g[0] = x
    BY <1>1, <1>7
  <2> QED BY <1>1, <1>3, <2>1
<1>10. ASSUME NEW k \in 1..last, k - 1 \in T
       PROVE  k \in T
  <2>1. /\ g[k - 1] \in V /\ (g[k - 1].end = "closed" => NonePending(g[k - 1].calls))
        /\ \A rid \in 1..n : g[k - 1].calls[rid] = "pending" =>
             cs[rid] = "pending" /\ \A j \in 1..k - 1 : frames[j] # response(rid)
    BY <1>10
  <2>2. PICK v \in V : v = g[k - 1]
    BY <2>1
  <2>3. PICK f \in S : f = frames[k]
    BY <1>1
  <2>4. k \in 0..last /\ k # 0 /\ 1..k = (1..k - 1) \cup {k}
    BY <1>1
  <2>5. g[k] = Settled(v, f)
    BY <1>7, <2>2, <2>3, <2>4
  <2>6. /\ Settled(v, f) \in V
        /\ (v.end = "closed" => NonePending(v.calls)) => (Settled(v, f).end = "closed" => NonePending(Settled(v, f).calls))
        /\ \A rid \in 1..n : Settled(v, f).calls[rid] = "pending" => v.calls[rid] = "pending" /\ f # response(rid)
    BY SettledType DEF S, V
  <2>7. ASSUME NEW rid \in 1..n, g[k].calls[rid] = "pending"
        PROVE  cs[rid] = "pending" /\ \A j \in 1..k : frames[j] # response(rid)
    <3>1. v.calls[rid] = "pending" /\ f # response(rid)
      BY <2>5, <2>6, <2>7
    <3> QED BY <2>1, <2>2, <2>3, <2>4, <3>1
  <2>8. g[k] \in V /\ (g[k].end = "closed" => NonePending(g[k].calls))
    BY <2>1, <2>2, <2>5, <2>6
  <2> QED BY <2>4, <2>7, <2>8
<1> HIDE DEF T
<1>11. \A k \in 0..last : k \in T
  <2> HIDE DEF last
  <2> QED BY <1>1, <1>9, <1>10, UpTo
<1>12. last \in T
  BY <1>1, <1>11
<1>13. /\ c \in V /\ (c.end = "closed" => NonePending(c.calls))
       /\ \A rid \in 1..n : c.calls[rid] = "pending" =>
            cs[rid] = "pending" /\ \A j \in 1..last : frames[j] # response(rid)
  BY <1>8, <1>12 DEF T
<1>14. c.end \in {"open", "closed"} /\ c.calls \in [1..n -> States]
  BY <1>13 DEF V, Readers
<1> QED BY <1>13, <1>14

(* What is on its way is exactly what was sent and not acted on, while the  *)
(* end that acts on it is open.                                             *)
UpLeg ==
  ptydEnd = "open" => \E rest : Leg(Sent(Len(calls)), served, ptydBuf, up, <<>>, rest, requested)

DownLeg ==
  clientEnd = "open" =>
    \E rest, lost :
      /\ Leg(Answered(Len(calls)), given, clientBuf, down, lost, rest, told)
      /\ ptydEnd = "open" => lost = <<>>

CallsWait ==
  /\ clientEnd = "open" =>
       \A rid \in 1..Len(calls) : calls[rid] = "pending" => \A k \in 1..Len(given) : given[k] # response(rid)
  /\ clientEnd = "closed" => NonePending(calls)

EndsTyped ==
  calls \in Seq(States) /\ clientEnd \in {"open", "closed"} /\ ptydEnd \in {"open", "closed"}

FramesInv == EndsTyped /\ UpLeg /\ DownLeg /\ CallsWait

LEMMA FramesInit == ConnectionInit => FramesInv
<1> SUFFICES ASSUME ConnectionInit PROVE FramesInv
  OBVIOUS
<1>1. EndsTyped
  BY DEF ConnectionInit, EndsTyped
<1>2. UpLeg
  BY LegStarts DEF ConnectionInit, UpLeg
<1>3. DownLeg
  BY LegStarts DEF ConnectionInit, DownLeg
<1>4. CallsWait
  BY DEF ConnectionInit, CallsWait
<1> QED BY <1>1, <1>2, <1>3, <1>4 DEF FramesInv

LEMMA FramesHold == FramesInv => FramesExact
<1> SUFFICES ASSUME FramesInv PROVE FramesExact
  OBVIOUS
<1>0. Len(calls) \in Nat /\ DOMAIN calls = 1..Len(calls) /\ clientEnd \in {"open", "closed"}
  BY DEF FramesInv, EndsTyped
<1>1. Lengths(Sent(Len(calls))) /\ Lengths(Answered(Len(calls)))
  BY <1>0, SentFacts, AnsweredFacts
<1>2. ptydEnd = "open" => served \o Ending(up) = requested /\ Ending(ptydBuf) = <<>>
  <2> SUFFICES ASSUME ptydEnd = "open" PROVE served \o Ending(up) = requested /\ Ending(ptydBuf) = <<>>
    OBVIOUS
  <2>1. PICK rest : Leg(Sent(Len(calls)), served, ptydBuf, up, <<>>, rest, requested)
    BY DEF FramesInv, UpLeg
  <2> QED BY <1>1, <2>1, LegIsSeen
<1>3. ASSUME clientEnd = "open"
      PROVE  /\ Ending(clientBuf) = <<>> /\ (ptydEnd = "open" => given \o Ending(down) = told)
             /\ DOMAIN given = 1..Len(given)
  <2>1. PICK rest, lost : /\ Leg(Answered(Len(calls)), given, clientBuf, down, lost, rest, told)
                          /\ ptydEnd = "open" => lost = <<>>
    BY <1>3 DEF FramesInv, DownLeg
  <2>2. given \in Seq(Answered(Len(calls)))
    BY <2>1 DEF Leg
  <2>3. DOMAIN given = 1..Len(given)
    BY <2>2
  <2> QED BY <1>1, <2>1, <2>3, LegIsSeen
<1>4. clientEnd = "open" => \A rid \in DOMAIN calls : calls[rid] = "pending" => \A k \in DOMAIN given : given[k] # response(rid)
  BY <1>0, <1>3 DEF FramesInv, CallsWait
<1>5. clientEnd = "closed" => \A rid \in DOMAIN calls : calls[rid] # "pending"
  BY DEF FramesInv, CallsWait, NonePending
<1> QED BY <1>2, <1>3, <1>4, <1>5 DEF FramesExact

(* A direction the step leaves alone; the end that reads may have closed.   *)
LEMMA UpKept ==
  ASSUME UpLeg, EndsTyped, Len(calls') \in Nat, Len(calls) <= Len(calls'),
         up' = up /\ ptydBuf' = ptydBuf /\ requested' = requested /\ served' = served,
         ptydEnd' = "open" => ptydEnd = "open"
  PROVE  UpLeg'
<1> SUFFICES ASSUME ptydEnd = "open"
             PROVE  \E rest : Leg(Sent(Len(calls')), served, ptydBuf, up, <<>>, rest, requested)
  BY DEF UpLeg
<1>1. Len(calls) \in Nat
  BY DEF EndsTyped
<1>2. PICK rest : Leg(Sent(Len(calls)), served, ptydBuf, up, <<>>, rest, requested)
  BY DEF UpLeg
<1>3. Sent(Len(calls)) \subseteq Sent(Len(calls'))
  BY <1>1, SentFacts
<1>4. Leg(Sent(Len(calls')), served, ptydBuf, up, <<>>, rest, requested)
  BY <1>2, <1>3, LegGrows
<1> QED BY <1>4

LEMMA DownKept ==
  ASSUME DownLeg, EndsTyped, Len(calls') \in Nat, Len(calls) <= Len(calls'),
         down' = down /\ clientBuf' = clientBuf /\ told' = told /\ given' = given,
         clientEnd' = "open" => clientEnd = "open", ptydEnd' = "open" => ptydEnd = "open"
  PROVE  DownLeg'
<1> SUFFICES ASSUME clientEnd = "open"
             PROVE  \E rest, lost : /\ Leg(Answered(Len(calls')), given, clientBuf, down, lost, rest, told)
                                    /\ ptydEnd' = "open" => lost = <<>>
  BY DEF DownLeg
<1>1. Len(calls) \in Nat
  BY DEF EndsTyped
<1>2. PICK rest, lost : /\ Leg(Answered(Len(calls)), given, clientBuf, down, lost, rest, told)
                        /\ ptydEnd = "open" => lost = <<>>
  BY DEF DownLeg
<1>3. Answered(Len(calls)) \subseteq Answered(Len(calls'))
  BY <1>1, AnsweredFacts
<1>4. Leg(Answered(Len(calls')), given, clientBuf, down, lost, rest, told)
  BY <1>2, <1>3, LegGrows
<1> QED BY <1>2, <1>4

(* A frame of the client's. *)
LEMMA UpTakes ==
  ASSUME UpLeg, EndsTyped, Len(calls') \in Nat, Len(calls) <= Len(calls'), NEW f \in Sent(Len(calls')), SendUp(f),
         ptydBuf' = ptydBuf /\ served' = served, ptydEnd' = ptydEnd
  PROVE  UpLeg'
<1> SUFFICES ASSUME ptydEnd = "open"
             PROVE  \E rest : Leg(Sent(Len(calls')), served, ptydBuf, up \o Encoded(f), <<>>, rest, Append(requested, f))
  BY DEF UpLeg, SendUp
<1>1. Len(calls) \in Nat
  BY DEF EndsTyped
<1>2. PICK rest : Leg(Sent(Len(calls)), served, ptydBuf, up, <<>>, rest, requested)
  BY DEF UpLeg
<1>3. Sent(Len(calls)) \subseteq Sent(Len(calls')) /\ Lengths(Sent(Len(calls')))
  BY <1>1, SentFacts
<1>4. Leg(Sent(Len(calls')), served, ptydBuf, up, <<>>, rest, requested)
  BY <1>2, <1>3, LegGrows
<1> QED BY <1>3, <1>4, LegTakesOne

(* What ptyd tells. *)
LEMMA DownTakes ==
  ASSUME DownLeg, EndsTyped, ptydEnd = "open", NEW fs \in Seq(Answered(Len(calls))), Tell(fs),
         clientBuf' = clientBuf /\ given' = given, clientEnd' = clientEnd, calls' = calls
  PROVE  DownLeg'
<1> SUFFICES ASSUME clientEnd = "open"
             PROVE  \E rest, lost :
                      /\ Leg(Answered(Len(calls)), given, clientBuf, down \o EncodedAll(fs), lost, rest, told \o fs)
                      /\ ptydEnd' = "open" => lost = <<>>
  BY DEF DownLeg, Tell
<1>1. PICK rest : Leg(Answered(Len(calls)), given, clientBuf, down, <<>>, rest, told)
  BY DEF DownLeg
<1>2. Lengths(Answered(Len(calls)))
  BY AnsweredFacts DEF EndsTyped
<1>3. Leg(Answered(Len(calls)), given, clientBuf, down \o EncodedAll(fs), <<>>, rest \o fs, told \o fs)
  BY <1>1, <1>2, LegTakes
<1> QED BY <1>3

(* A call ends otherwise than by an answer. *)
LEMMA WaitLess ==
  ASSUME CallsWait, EndsTyped, calls' \in Seq(States), Len(calls') = Len(calls), given' = given,
         clientEnd' = clientEnd,
         \A rid \in 1..Len(calls) : calls'[rid] = "pending" => calls[rid] = "pending"
  PROVE  CallsWait'
<1>1. DOMAIN calls = 1..Len(calls) /\ DOMAIN calls' = 1..Len(calls)
  BY DEF EndsTyped
<1> QED BY <1>1 DEF CallsWait, NonePending

LEMMA AllRejected ==
  ASSUME EndsTyped, calls' = TornDown(calls), clientEnd' = "closed"
  PROVE  CallsWait' /\ calls' \in Seq(States) /\ Len(calls') = Len(calls)
<1>1. TornDown(calls) \in Seq(States) /\ Len(TornDown(calls)) = Len(calls) /\ NonePending(TornDown(calls))
  BY TornDownFacts DEF EndsTyped
<1> QED BY <1>1 DEF CallsWait

LEMMA CallKeeps == FramesInv /\ Call => FramesInv'
<1> SUFFICES ASSUME FramesInv, Call PROVE FramesInv'
  OBVIOUS
<1> DEFINE n == Len(calls)
<1>0. n \in Nat /\ calls \in Seq(States) /\ UpLeg /\ DownLeg /\ CallsWait /\ EndsTyped
  BY DEF FramesInv, EndsTyped
<1>1. /\ ptydEnd' = ptydEnd /\ ptydBuf' = ptydBuf /\ served' = served
      /\ down' = down /\ clientEnd' = clientEnd /\ clientBuf' = clientBuf /\ told' = told /\ given' = given
  BY DEF Call, toClient
<1>2. PICK s \in {"pending", "closed"} : calls' = Append(calls, s) /\ (s = "pending" <=> clientEnd = "open")
  BY <1>0 DEF Call, EndsTyped
<1>3. s \in States
  BY DEF States
<1>4. /\ calls' \in Seq(States) /\ Len(calls') = n + 1 /\ calls'[n + 1] = s
      /\ \A rid \in 1..n : calls'[rid] = calls[rid]
  BY <1>0, <1>2, <1>3, AppendFacts
<1>5. n <= Len(calls') /\ Len(calls') \in Nat
  BY <1>0, <1>4
<1>6. EndsTyped'
  BY <1>0, <1>1, <1>4 DEF EndsTyped
<1>7. UpLeg'
  <2>1. CASE clientEnd = "open"
    <3>1. SendUp(request(n + 1))
      BY <2>1 DEF Call
    <3>2. request(n + 1) \in Sent(Len(calls'))
      <4>1. n + 1 \in 1..Len(calls')
        BY <1>0, <1>4
      <4> QED BY <4>1 DEF Sent
    <3> QED BY <1>0, <1>1, <1>5, <3>1, <3>2, UpTakes
  <2>2. CASE clientEnd # "open"
    <3>1. up' = up /\ requested' = requested
      BY <2>2 DEF Call
    <3> QED BY <1>0, <1>1, <1>5, <3>1, UpKept
  <2> QED BY <2>1, <2>2
<1>8. DownLeg'
  BY <1>0, <1>1, <1>5, DownKept
<1>9. CallsWait'
  <2>1. CASE clientEnd = "open"
    <3>1. given \in Seq(Answered(n))
      <4>1. PICK rest, lost : Leg(Answered(n), given, clientBuf, down, lost, rest, told)
        BY <1>0, <2>1 DEF DownLeg
      <4> QED BY <4>1 DEF Leg
    <3>2. \A k \in 1..Len(given) : given[k] \in Answered(n)
      BY <3>1
    <3>3. response(n + 1) \notin Answered(n)
      <4>1. n + 1 \notin 1..n
        BY <1>0
      <4> QED BY <1>0, <4>1, AnsweredFacts
    <3>4. \A k \in 1..Len(given) : given[k] # response(n + 1)
      BY <3>2, <3>3
    <3>5. \A rid \in 1..n : calls[rid] = "pending" => \A k \in 1..Len(given) : given[k] # response(rid)
      BY <1>0, <2>1 DEF CallsWait
    <3>6. \A rid \in 1..Len(calls') : calls'[rid] = "pending" => \A k \in 1..Len(given) : given[k] # response(rid)
      <4>1. \A rid \in 1..Len(calls') : rid \in 1..n \/ rid = n + 1
        BY <1>0, <1>4
      <4> HIDE DEF n
      <4> QED BY <1>4, <3>4, <3>5, <4>1
    <3>7. clientEnd' = "open" /\ given' = given
      BY <1>1, <2>1
    <3> QED BY <3>6, <3>7 DEF CallsWait
  <2>2. CASE clientEnd = "closed"
    <3>1. s = "closed"
      BY <1>2, <2>2
    <3>2. \A rid \in 1..n : calls[rid] # "pending"
      <4>1. DOMAIN calls = 1..n
        BY <1>0
      <4> QED BY <1>0, <2>2, <4>1 DEF CallsWait, NonePending
    <3>3. DOMAIN calls' = 1..n + 1 /\ \A rid \in 1..n + 1 : rid \in 1..n \/ rid = n + 1
      <4>1. DOMAIN calls' = 1..Len(calls')
        BY <1>4
      <4> QED BY <1>0, <1>4, <4>1
    <3>4. NonePending(calls')
      <4> HIDE DEF n
      <4> QED BY <1>4, <3>1, <3>2, <3>3 DEF NonePending
    <3>5. clientEnd' = "closed"
      BY <1>1, <2>2
    <3> QED BY <3>4, <3>5 DEF CallsWait
  <2> QED BY <1>0, <2>1, <2>2 DEF EndsTyped
<1> QED BY <1>6, <1>7, <1>8, <1>9 DEF FramesInv

LEMMA SendKeeps ==
  ASSUME FramesInv, NEW f \in {input, odd("length"), odd("content"), odd("envelope")}, SendUp(f),
         UNCHANGED <<calls, ptydEnd, ptydBuf, served>>, UNCHANGED toClient
  PROVE  FramesInv'
<1>0. Len(calls) \in Nat /\ UpLeg /\ DownLeg /\ CallsWait /\ EndsTyped
  BY DEF FramesInv, EndsTyped
<1>1. /\ calls' = calls /\ ptydEnd' = ptydEnd /\ ptydBuf' = ptydBuf /\ served' = served
      /\ down' = down /\ clientEnd' = clientEnd /\ clientBuf' = clientBuf /\ told' = told /\ given' = given
  BY DEF toClient
<1>2. Len(calls') \in Nat /\ Len(calls) <= Len(calls')
  BY <1>0, <1>1
<1>3. f \in Sent(Len(calls'))
  BY DEF Sent
<1>4. UpLeg'
  BY <1>0, <1>1, <1>2, <1>3, UpTakes
<1>5. DownLeg'
  BY <1>0, <1>1, <1>2, DownKept
<1>6. CallsWait' /\ EndsTyped'
  BY <1>0, <1>1 DEF CallsWait, EndsTyped
<1> QED BY <1>4, <1>5, <1>6 DEF FramesInv

LEMMA TimeoutKeeps ==
  ASSUME FramesInv, NEW rid \in DOMAIN calls, CallTimesOut(rid)
  PROVE  FramesInv'
<1>0. Len(calls) \in Nat /\ UpLeg /\ DownLeg /\ CallsWait /\ EndsTyped /\ calls \in Seq(States)
  BY DEF FramesInv, EndsTyped
<1>1. /\ calls' = [calls EXCEPT ![rid] = "timeout"] /\ up' = up /\ requested' = requested
      /\ ptydEnd' = ptydEnd /\ ptydBuf' = ptydBuf /\ served' = served
      /\ down' = down /\ clientEnd' = clientEnd /\ clientBuf' = clientBuf /\ told' = told /\ given' = given
  BY DEF CallTimesOut, toPtyd, toClient
<1>2. /\ calls' \in Seq(States) /\ Len(calls') = Len(calls)
      /\ \A r \in 1..Len(calls) : calls'[r] = "pending" => calls[r] = "pending"
  BY <1>0, <1>1 DEF States
<1>3. Len(calls') \in Nat /\ Len(calls) <= Len(calls')
  BY <1>0, <1>2
<1>4. UpLeg'
  BY <1>0, <1>1, <1>3, UpKept
<1>5. DownLeg'
  BY <1>0, <1>1, <1>3, DownKept
<1>6. CallsWait'
  BY <1>0, <1>1, <1>2, WaitLess
<1>7. EndsTyped'
  BY <1>0, <1>1, <1>2 DEF EndsTyped
<1> QED BY <1>4, <1>5, <1>6, <1>7 DEF FramesInv

(* ClientCloses and ClientNotices. *)
LEMMA ClosingKeeps ==
  ASSUME FramesInv, clientEnd' = "closed", calls' = TornDown(calls), UNCHANGED toPtyd
  PROVE  FramesInv'
<1>0. Len(calls) \in Nat /\ UpLeg /\ EndsTyped
  BY DEF FramesInv, EndsTyped
<1>1. CallsWait' /\ calls' \in Seq(States) /\ Len(calls') = Len(calls)
  BY <1>0, AllRejected
<1>2. up' = up /\ requested' = requested /\ ptydEnd' = ptydEnd /\ ptydBuf' = ptydBuf /\ served' = served
  BY DEF toPtyd
<1>3. Len(calls') \in Nat /\ Len(calls) <= Len(calls')
  BY <1>0, <1>1
<1>4. UpLeg'
  BY <1>0, <1>2, <1>3, UpKept
<1>5. DownLeg'
  BY DEF DownLeg
<1>6. EndsTyped'
  BY <1>0, <1>1, <1>2 DEF EndsTyped
<1> QED BY <1>1, <1>4, <1>5, <1>6 DEF FramesInv

LEMMA PtydNoticesKeeps == FramesInv /\ PtydNotices => FramesInv'
<1> SUFFICES ASSUME FramesInv, PtydNotices PROVE FramesInv'
  OBVIOUS
<1>0. Len(calls) \in Nat /\ DownLeg /\ CallsWait /\ EndsTyped
  BY DEF FramesInv, EndsTyped
<1>1. /\ ptydEnd' = "closed" /\ ptydEnd = "open" /\ calls' = calls
      /\ down' = down /\ clientEnd' = clientEnd /\ clientBuf' = clientBuf /\ told' = told /\ given' = given
  BY DEF PtydNotices, toClient
<1>2. Len(calls') \in Nat /\ Len(calls) <= Len(calls')
  BY <1>0, <1>1
<1>3. UpLeg'
  BY <1>1 DEF UpLeg
<1>4. DownLeg'
  BY <1>0, <1>1, <1>2, DownKept
<1>5. CallsWait' /\ EndsTyped'
  BY <1>0, <1>1 DEF CallsWait, EndsTyped
<1> QED BY <1>3, <1>4, <1>5 DEF FramesInv

LEMMA PtydClosesKeeps ==
  ASSUME FramesInv, NEW n \in 0..Len(down), PtydCloses(n)
  PROVE  FramesInv'
<1>0. DownLeg /\ CallsWait /\ EndsTyped
  BY DEF FramesInv
<1>1. /\ ptydEnd' = "closed" /\ ptydEnd = "open" /\ calls' = calls /\ down' = SubSeq(down, 1, n)
      /\ clientEnd' = clientEnd /\ clientBuf' = clientBuf /\ told' = told /\ given' = given
  BY DEF PtydCloses
<1>2. UpLeg'
  BY <1>1 DEF UpLeg
<1>3. DownLeg'
  <2> SUFFICES ASSUME clientEnd = "open"
               PROVE  \E rest, lost :
                        Leg(Answered(Len(calls)), given, clientBuf, SubSeq(down, 1, n), lost, rest, told)
    BY <1>1 DEF DownLeg
  <2>1. PICK rest : Leg(Answered(Len(calls)), given, clientBuf, down, <<>>, rest, told)
    BY <1>0, <1>1 DEF DownLeg
  <2>2. Leg(Answered(Len(calls)), given, clientBuf, SubSeq(down, 1, n), SubSeq(down, n + 1, Len(down)), rest, told)
    BY <2>1, LegIsCut
  <2> QED BY <2>2
<1>4. CallsWait' /\ EndsTyped'
  BY <1>0, <1>1 DEF CallsWait, EndsTyped
<1> QED BY <1>2, <1>3, <1>4 DEF FramesInv

LEMMA PtydTellsKeeps ==
  ASSUME FramesInv, NEW f \in {event(TRUE), event(FALSE), output}, PtydTells(f)
  PROVE  FramesInv'
<1>0. Len(calls) \in Nat /\ UpLeg /\ DownLeg /\ CallsWait /\ EndsTyped
  BY DEF FramesInv, EndsTyped
<1>1. /\ ptydEnd = "open" /\ Tell(<<f>>) /\ calls' = calls
      /\ up' = up /\ requested' = requested /\ ptydEnd' = ptydEnd /\ ptydBuf' = ptydBuf /\ served' = served
      /\ clientEnd' = clientEnd /\ clientBuf' = clientBuf /\ given' = given
  BY DEF PtydTells, toPtyd
<1>2. Len(calls') \in Nat /\ Len(calls) <= Len(calls')
  BY <1>0, <1>1
<1>3. <<f>> \in Seq(Answered(Len(calls)))
  <2>1. f \in Answered(Len(calls))
    BY Zenon DEF Answered
  <2> HIDE DEF Answered
  <2> QED BY <2>1
<1>4. UpLeg'
  BY <1>0, <1>1, <1>2, UpKept
<1>5. DownLeg'
  BY <1>0, <1>1, <1>3, DownTakes
<1>6. CallsWait' /\ EndsTyped'
  BY <1>0, <1>1 DEF CallsWait, EndsTyped
<1> QED BY <1>4, <1>5, <1>6 DEF FramesInv

LEMMA PtydReadsKeeps ==
  ASSUME FramesInv, NEW n \in 1..Len(up), PtydReads(n)
  PROVE  FramesInv'
<1> DEFINE S == Sent(Len(calls))
<1>0. Len(calls) \in Nat /\ UpLeg /\ DownLeg /\ CallsWait /\ EndsTyped
  BY DEF FramesInv, EndsTyped
<1>1. PICK d : d = Push(ptydBuf, SubSeq(up, 1, n))
  OBVIOUS
<1>2. PICK done : done = IF d.fault # "none" THEN <<>> ELSE Acceptable(d.frames)
  OBVIOUS
<1>3. /\ ptydEnd = "open" /\ ptydBuf' = d.buf /\ served' = served \o done
      /\ ptydEnd' = (IF d.fault # "none" \/ done # d.frames THEN "closed" ELSE "open")
      /\ Tell(Answers(done)) /\ up' = SubSeq(up, n + 1, Len(up))
      /\ calls' = calls /\ requested' = requested /\ clientEnd' = clientEnd /\ clientBuf' = clientBuf /\ given' = given
  BY <1>1, <1>2 DEF PtydReads
<1>4. PICK rest : Leg(S, served, ptydBuf, up, <<>>, rest, requested)
  BY <1>0, <1>3 DEF UpLeg
<1>5. Lengths(S)
  BY <1>0, SentFacts
<1> HIDE DEF S
<1>6. \/ d.fault = "thrown"
      \/ /\ d.fault = "none" /\ d.frames \in Seq(S)
         /\ \E r : Leg(S, served \o d.frames, d.buf, SubSeq(up, n + 1, Len(up)), <<>>, r, requested)
  BY <1>1, <1>4, <1>5, LegIsRead
<1>7. done \in Seq(S)
  <2>1. CASE d.fault = "thrown"
    BY <1>2, <2>1
  <2>2. CASE d.fault = "none" /\ d.frames \in Seq(S)
    <3>1. Acceptable(d.frames) \in Seq(S)
      BY <2>2, AcceptableType
    <3> QED BY <1>2, <2>2, <3>1
  <2> QED BY <1>6, <2>1, <2>2
<1>8. Answers(done) \in Seq(Answered(Len(calls)))
  BY <1>0, <1>7, AnswersType DEF S
<1>9. DownLeg'
  BY <1>0, <1>3, <1>8, DownTakes
<1>10. UpLeg'
  <2> SUFFICES ASSUME ptydEnd' = "open"
               PROVE  \E r : Leg(S, served \o done, d.buf, SubSeq(up, n + 1, Len(up)), <<>>, r, requested)
    BY <1>3 DEF UpLeg, S
  <2>1. d.fault = "none" /\ done = d.frames
    BY <1>3
  <2> QED BY <1>6, <2>1
<1>11. CallsWait' /\ EndsTyped'
  BY <1>0, <1>3 DEF CallsWait, EndsTyped
<1> QED BY <1>9, <1>10, <1>11 DEF FramesInv

LEMMA ClientReadsKeeps ==
  ASSUME FramesInv, NEW n \in 1..Len(down), ClientReads(n)
  PROVE  FramesInv'
<1> DEFINE S == Answered(Len(calls))
<1>0. Len(calls) \in Nat /\ UpLeg /\ DownLeg /\ CallsWait /\ EndsTyped /\ calls \in [1..Len(calls) -> States]
  BY DEF FramesInv, EndsTyped
<1>1. PICK d : d = Push(clientBuf, SubSeq(down, 1, n))
  OBVIOUS
<1>2. PICK c : c = Handled([end |-> "open", calls |-> calls], d.frames)
  OBVIOUS
<1>3. /\ clientEnd = "open" /\ clientBuf' = d.buf
      /\ given' = (IF d.fault # "none" THEN given ELSE given \o d.frames)
      /\ clientEnd' = (IF d.fault # "none" THEN "closed" ELSE c.end)
      /\ calls' = (IF d.fault # "none" THEN TornDown(calls) ELSE c.calls)
      /\ down' = SubSeq(down, n + 1, Len(down)) /\ UNCHANGED toPtyd /\ told' = told
  BY <1>1, <1>2 DEF ClientReads
<1>4. PICK rest, lost : /\ Leg(S, given, clientBuf, down, lost, rest, told)
                        /\ ptydEnd = "open" => lost = <<>>
  BY <1>0, <1>3 DEF DownLeg
<1>5. Lengths(S) /\ given \in Seq(S)
  BY <1>0, <1>4, AnsweredFacts DEF Leg
<1> HIDE DEF S
<1>6. \/ d.fault = "thrown"
      \/ /\ d.fault = "none" /\ d.frames \in Seq(S)
         /\ \E r : Leg(S, given \o d.frames, d.buf, SubSeq(down, n + 1, Len(down)), lost, r, told)
  BY <1>1, <1>4, <1>5, LegIsRead
<1>7. CASE d.fault = "thrown"
  <2>1. clientEnd' = "closed" /\ calls' = TornDown(calls)
    BY <1>3, <1>7
  <2> QED BY <1>3, <2>1, ClosingKeeps
<1>8. CASE /\ d.fault = "none" /\ d.frames \in Seq(S)
           /\ \E r : Leg(S, given \o d.frames, d.buf, SubSeq(down, n + 1, Len(down)), lost, r, told)
  <2>1. PICK frames \in Seq(S) : frames = d.frames
    BY <1>8
  <2>2. given' = given \o frames /\ clientEnd' = c.end /\ calls' = c.calls
    BY <1>3, <1>8, <2>1
  <2>3. /\ c.end \in {"open", "closed"} /\ c.calls \in [1..Len(calls) -> States]
        /\ c.end = "closed" => NonePending(c.calls)
        /\ \A rid \in 1..Len(calls) : c.calls[rid] = "pending" =>
             calls[rid] = "pending" /\ \A k \in 1..Len(frames) : frames[k] # response(rid)
    BY <1>0, <1>2, <2>1, HandledFacts DEF S
  <2>4. calls' \in Seq(States) /\ Len(calls') = Len(calls) /\ Len(calls') \in Nat /\ Len(calls) <= Len(calls')
    <3>1. PICK m \in Nat : m = Len(calls)
      BY <1>0
    <3>2. \A cs \in [1..m -> States] : cs \in Seq(States) /\ Len(cs) = m
      OBVIOUS
    <3>3. c.calls \in Seq(States) /\ Len(c.calls) = m
      BY <2>3, <3>1, <3>2
    <3> QED BY <2>2, <3>1, <3>3
  <2>5. up' = up /\ requested' = requested /\ ptydEnd' = ptydEnd /\ ptydBuf' = ptydBuf /\ served' = served
    BY <1>3 DEF toPtyd
  <2>6. UpLeg'
    BY <1>0, <2>4, <2>5, UpKept
  <2>7. DownLeg'
    <3>1. PICK r : Leg(S, given \o d.frames, d.buf, SubSeq(down, n + 1, Len(down)), lost, r, told)
      BY <1>8
    <3>2. Leg(Answered(Len(calls')), given', clientBuf', down', lost, r, told')
      BY <1>3, <2>1, <2>2, <2>4, <3>1 DEF S
    <3> QED BY <1>4, <2>5, <3>2 DEF DownLeg
  <2>8. EndsTyped'
    BY <1>0, <2>2, <2>3, <2>4, <2>5 DEF EndsTyped
  <2>9. CallsWait'
    <3>1. \A k \in 1..Len(given \o frames) :
            \/ k \in 1..Len(given) /\ (given \o frames)[k] = given[k]
            \/ \E j \in 1..Len(frames) : (given \o frames)[k] = frames[j]
      BY <1>5, <2>1
    <3>2. ASSUME NEW rid \in 1..Len(calls), c.calls[rid] = "pending"
          PROVE  \A k \in 1..Len(given \o frames) : (given \o frames)[k] # response(rid)
      <4>1. calls[rid] = "pending" /\ \A k \in 1..Len(frames) : frames[k] # response(rid)
        BY <2>3, <3>2
      <4>2. \A k \in 1..Len(given) : given[k] # response(rid)
        BY <1>0, <1>3, <4>1 DEF CallsWait
      <4> QED BY <3>1, <4>1, <4>2
    <3> QED BY <2>2, <2>3, <2>4, <3>2 DEF CallsWait
  <2> QED BY <2>6, <2>7, <2>8, <2>9 DEF FramesInv
<1> QED BY <1>6, <1>7, <1>8

LEMMA FramesStep == FramesInv /\ [ConnectionNext]_connectionVars => FramesInv'
<1> SUFFICES ASSUME FramesInv, [ConnectionNext]_connectionVars PROVE FramesInv'
  OBVIOUS
<1>1. CASE Call
  BY <1>1, CallKeeps
<1>2. CASE SendInput
  BY <1>2, SendKeeps DEF SendInput
<1>3. CASE ClientCloses
  BY <1>3, ClosingKeeps DEF ClientCloses
<1>4. CASE ClientNotices
  BY <1>4, ClosingKeeps DEF ClientNotices
<1>5. CASE PtydNotices
  BY <1>5, PtydNoticesKeeps
<1>6. ASSUME NEW fault \in {"length", "content", "envelope"}, SendOdd(fault)
      PROVE  FramesInv'
  BY <1>6, SendKeeps DEF SendOdd
<1>7. ASSUME NEW rid \in DOMAIN calls, CallTimesOut(rid)
      PROVE  FramesInv'
  BY <1>7, TimeoutKeeps
<1>8. ASSUME NEW f \in {event(TRUE), event(FALSE), output}, PtydTells(f)
      PROVE  FramesInv'
  BY <1>8, PtydTellsKeeps, Zenon
<1>9. ASSUME NEW n \in 1..Len(up), PtydReads(n)
      PROVE  FramesInv'
  BY <1>9, PtydReadsKeeps
<1>10. ASSUME NEW n \in 1..Len(down), ClientReads(n)
       PROVE  FramesInv'
  BY <1>10, ClientReadsKeeps
<1>11. ASSUME NEW n \in 0..Len(down), PtydCloses(n)
       PROVE  FramesInv'
  BY <1>11, PtydClosesKeeps
<1>12. CASE UNCHANGED connectionVars
  <2>1. EndsTyped' /\ UpLeg' /\ DownLeg' /\ CallsWait'
    BY <1>12 DEF FramesInv, EndsTyped, UpLeg, DownLeg, CallsWait, connectionVars
  <2> QED BY <2>1 DEF FramesInv
<1> QED BY <1>1, <1>2, <1>3, <1>4, <1>5, <1>6, <1>7, <1>8, <1>9, <1>10, <1>11, <1>12, Zenon DEF ConnectionNext

(* For any length field, any number of calls and frames and however the    *)
(* stream is cut into chunks, lost behind a place or ended by a frame that *)
(* is none (FrameDecoder of protocol.ts, PtydClient.onData and             *)
(* Connection.onData): an end that is open has acted on just the frames    *)
(* that have come in whole, once and in order, and no call waits for an    *)
(* answer that is there, or for a connection that is not.                  *)
THEOREM FramesAlwaysExact == ConnectionSpec => []FramesExact
<1>1. ConnectionInit => FramesInv
  BY FramesInit
<1>2. FramesInv /\ [ConnectionNext]_connectionVars => FramesInv'
  BY FramesStep
<1>3. FramesInv => FramesExact
  BY FramesHold
<1> QED BY <1>1, <1>2, <1>3, PTL DEF ConnectionSpec
=============================================================================
