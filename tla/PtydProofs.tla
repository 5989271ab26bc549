------------------------------ MODULE PtydProofs ------------------------------
(***************************************************************************)
(* Proofs about Ptyd, for any connections, sessions, windows and policies, *)
(* and however deep its calls nest.  In this order: who is attached is     *)
(* owned (IInv); the window sizes follow the viewers (SizesInv); every     *)
(* client that has heard what is due to it and queued knows the sessions   *)
(* as they are (CInv, on top of the other two).                            *)
(***************************************************************************)
EXTENDS Ptyd, SequenceTheorems, WellFoundedInduction, TLAPS

(* A call in progress is closing c. *)
Leaving(c, calls) == \E i \in DOMAIN calls : calls[i] = Leave(c)

(* What a call puts on the stack plays no part here, but for closes. *)
Nest(calls) == \E Calls : calls \in Seq(Calls)

(* Who watches session id owns that, and listens or is being closed. *)
Held(id) ==
  \A c \in Watching(session[id]) :
    c \in Conn /\ id \in subscribed[c] /\ (c \in listeners \/ Leaving(c, stack))

Shape ==
  /\ table \subseteq Id /\ listeners \subseteq Conn
  /\ DOMAIN session = Id /\ \A id \in Id : "att" \in DOMAIN session[id]
  /\ subscribed \in [Conn -> SUBSET Id]
  /\ Nest(stack)

IInv == Shape /\ \A id \in table : Held(id)

-----------------------------------------------------------------------------
(* The stack. *)

LEMMA PushedCall ==
  ASSUME NEW calls, Nest(calls), NEW f
  PROVE  /\ Nest(<<f>> \o calls)
         /\ \A c : Leaving(c, <<f>> \o calls) <=> Leaving(c, calls) \/ f = Leave(c)
<1>1. PICK Calls : calls \in Seq(Calls)
  BY DEF Nest
<1> DEFINE all == Calls \cup {f}
           new == <<f>> \o calls
<1>2. calls \in Seq(all) /\ <<f>> \in Seq(all)
  BY <1>1
<1>3. new \in Seq(all) /\ Len(new) = Len(calls) + 1 /\ new[1] = f
  BY <1>2
<1>4. \A i \in 1..Len(calls) : new[i + 1] = calls[i]
  BY <1>2
<1>5. DOMAIN new = 1..Len(new) /\ DOMAIN calls = 1..Len(calls) /\ Len(calls) \in Nat
  BY <1>2, <1>3
<1> HIDE DEF new
<1>6. ASSUME NEW c
      PROVE  Leaving(c, new) <=> Leaving(c, calls) \/ f = Leave(c)
  <2>1. ASSUME NEW i \in DOMAIN new, new[i] = Leave(c), f # Leave(c)
        PROVE  i - 1 \in DOMAIN calls /\ calls[i - 1] = Leave(c)
    BY <1>3, <1>4, <1>5, <2>1
  <2>2. ASSUME NEW i \in DOMAIN calls, calls[i] = Leave(c)
        PROVE  i + 1 \in DOMAIN new /\ new[i + 1] = Leave(c)
    BY <1>3, <1>4, <1>5, <2>2
  <2>3. 1 \in DOMAIN new
    BY <1>3, <1>5
  <2> QED BY <1>3, <2>1, <2>2, <2>3 DEF Leaving
<1> QED BY <1>3, <1>6 DEF Nest, new

LEMMA PoppedCall ==
  ASSUME NEW calls, Nest(calls), calls # <<>>
  PROVE  /\ Nest(Tail(calls))
         /\ \A c : Leaving(c, calls) <=> Leaving(c, Tail(calls)) \/ Head(calls) = Leave(c)
<1>1. PICK Calls : calls \in Seq(Calls)
  BY DEF Nest
<1> DEFINE old == Tail(calls)
<1>2. old \in Seq(Calls) /\ Len(old) = Len(calls) - 1 /\ Len(calls) \in Nat \ {0}
  BY <1>1
<1>3. \A i \in 1..Len(old) : old[i] = calls[i + 1]
  BY <1>1
<1>4. DOMAIN old = 1..Len(old) /\ DOMAIN calls = 1..Len(calls) /\ Head(calls) = calls[1]
  BY <1>1, <1>2
<1> HIDE DEF old
<1>5. ASSUME NEW c
      PROVE  Leaving(c, calls) <=> Leaving(c, old) \/ Head(calls) = Leave(c)
  <2>1. ASSUME NEW i \in DOMAIN calls, calls[i] = Leave(c), Head(calls) # Leave(c)
        PROVE  i - 1 \in DOMAIN old /\ old[i - 1] = Leave(c)
    BY <1>2, <1>3, <1>4, <2>1
  <2>2. ASSUME NEW i \in DOMAIN old, old[i] = Leave(c)
        PROVE  i + 1 \in DOMAIN calls /\ calls[i + 1] = Leave(c)
    BY <1>2, <1>3, <1>4, <2>2
  <2>3. 1 \in DOMAIN calls
    BY <1>2, <1>4
  <2> QED BY <1>4, <2>1, <2>2, <2>3 DEF Leaving
<1> QED BY <1>2, <1>5 DEF Nest, old

(* A call other than a close ends, or goes on as another one. *)
LEMMA OtherTop ==
  ASSUME Nest(stack), NEW op, op # "leave", Top(op)
  PROVE  Nest(Rest) /\ \A c : Leaving(c, stack) <=> Leaving(c, Rest)
<1>1. \A c : Head(stack) # Leave(c)
  BY DEF Top, Leave
<1> QED BY <1>1, PoppedCall DEF Top, Idle, Rest

LEMMA BroadcastCalls ==
  ASSUME NEW e, NEW rest, Nest(rest), Broadcast(e, rest)
  PROVE  Nest(stack') /\ \A c : Leaving(c, rest) => Leaving(c, stack')
<1>1. CASE stack' = rest
  BY <1>1
<1>2. CASE stack' = <<Fan(NoEvent, {})>> \o rest
  <2> DEFINE f == Fan(NoEvent, {})
  <2>1. Nest(<<f>> \o rest) /\ \A c : Leaving(c, rest) => Leaving(c, <<f>> \o rest)
    <3> HIDE DEF f
    <3> QED BY PushedCall
  <2> QED BY <1>2, <2>1
<1> QED BY <1>1, <1>2 DEF Broadcast

LEMMA BecomeCalls ==
  ASSUME NEW id, NEW s, NEW rest, Nest(rest), Become(id, s, rest)
  PROVE  Nest(stack') /\ \A c : Leaving(c, rest) => Leaving(c, stack')
<1>1. CASE Broadcast(resized(id, s.size), rest)
  <2> DEFINE e == resized(id, s.size)
  <2>1. Broadcast(e, rest)
    BY <1>1
  <2> HIDE DEF e
  <2> QED BY <2>1, BroadcastCalls
<1>2. CASE Continue(rest)
  BY <1>2 DEF Continue
<1> QED BY <1>1, <1>2 DEF Become

(* A connection that a write closes goes on being closed. *)
LEMMA WriteCalls ==
  ASSUME NEW c, NEW told, NEW rest, Nest(rest), Write(c, told, rest)
  PROVE  /\ UNCHANGED <<session, subscribed>> /\ listeners' \subseteq listeners
         /\ Nest(stack')
         /\ \A d : Leaving(d, rest) => Leaving(d, stack')
         /\ \A d \in listeners : d \in listeners' \/ Leaving(d, stack')
<1>1. CASE Continue(rest) /\ UNCHANGED <<listeners, session, subscribed>>
  BY <1>1 DEF Continue
<1>2. CASE Close(c, rest)
  <2> DEFINE f == Leave(c)
  <2>1. Nest(<<f>> \o rest) /\ \A d : Leaving(d, <<f>> \o rest) <=> Leaving(d, rest) \/ f = Leave(d)
    <3> HIDE DEF f
    <3> QED BY PushedCall
  <2>2. stack' = <<f>> \o rest /\ listeners' = listeners \ {c} /\ UNCHANGED <<session, subscribed>>
    BY <1>2 DEF Close
  <2> QED BY <2>1, <2>2
<1> QED BY <1>1, <1>2 DEF Write

-----------------------------------------------------------------------------
(* Who watches. *)

LEMMA Watchers ==
  ASSUME NEW s, "att" \in DOMAIN s, NEW c, NEW size
  PROVE  /\ "att" \in DOMAIN Touch(s, c, size) /\ Watching(Touch(s, c, size)) = Watching(s) \cup {c}
         /\ "att" \in DOMAIN Drop(s, c) /\ Watching(Drop(s, c)) = Watching(s) \ {c}
         /\ "att" \in DOMAIN Reconciled(s) /\ Watching(Reconciled(s)) = Watching(s)
<1>1. "att" \in DOMAIN Touch(s, c, size) /\ Watching(Touch(s, c, size)) = Watching(s) \cup {c}
  BY DEF Touch, Watching
<1>2. "att" \in DOMAIN Drop(s, c) /\ Watching(Drop(s, c)) = Watching(s) \ {c}
  BY DEF Drop, Watching
<1>3. "att" \in DOMAIN Reconciled(s) /\ Watching(Reconciled(s)) = Watching(s)
  <2> DEFINE size2 == Winner(s)
             r == [s EXCEPT !.size = size2, !.direct = FALSE]
  <2>1. "att" \in DOMAIN r /\ Watching(r) = Watching(s)
    <3> HIDE DEF size2
    <3> QED BY DEF Watching
  <2>2. Reconciled(s) = s \/ Reconciled(s) = r
    <3> HIDE DEF size2
    <3> QED BY DEF Reconciled, size2
  <2> HIDE DEF r
  <2> QED BY <2>1, <2>2
<1> QED BY <1>1, <1>2, <1>3

LEMMA BlankWatchers ==
  ASSUME NEW size, NEW policy
  PROVE  /\ "att" \in DOMAIN Fresh(size, policy) /\ Watching(Fresh(size, policy)) = {}
         /\ "att" \in DOMAIN Gone(policy) /\ Watching(Gone(policy)) = {}
<1>1. "att" \in DOMAIN Fresh(size, policy) /\ Watching(Fresh(size, policy)) = {}
  BY DEF Fresh, Watching
<1>2. "att" \in DOMAIN Gone(policy) /\ Watching(Gone(policy)) = {}
  BY DEF Fresh, Gone, Watching
<1> QED BY <1>1, <1>2

-----------------------------------------------------------------------------
(* What keeps the invariant: nobody new watches, and who watches goes on to *)
(* own it and to listen, or is being closed.                                *)
Fewer ==
  \A id \in table' : \A c \in Watching(session'[id]) : id \in table /\ c \in Watching(session[id])

Heard ==
  \A c : c \in listeners \/ Leaving(c, stack) => c \in listeners' \/ Leaving(c, stack')

LEMMA Kept ==
  ASSUME IInv, Shape', Fewer, Heard, subscribed' = subscribed
  PROVE  IInv'
<1>1. ASSUME NEW id \in table', NEW c \in Watching(session'[id])
      PROVE  c \in Conn /\ id \in subscribed'[c] /\ (c \in listeners' \/ Leaving(c, stack'))
  BY <1>1 DEF IInv, Held, Fewer, Heard
<1> QED BY <1>1 DEF IInv, Held

(* Between callbacks everyone who watches listens. *)
LEMMA AllListen ==
  ASSUME IInv, Idle
  PROVE  /\ \A c : ~Leaving(c, stack)
         /\ \A id \in table : \A c \in Watching(session[id]) :
              c \in Conn /\ id \in subscribed[c] /\ c \in listeners
<1>1. \A c : ~Leaving(c, stack)
  BY DEF Idle, Leaving
<1> QED BY <1>1 DEF IInv, Held

(* A callback that leaves the sessions alone. *)
LEMMA Undisturbed ==
  ASSUME IInv, Idle, Nest(stack'), UNCHANGED <<table, session, listeners, subscribed>>
  PROVE  IInv'
<1>1. Shape'
  BY DEF IInv, Shape
<1>2. Fewer /\ Heard
  BY AllListen DEF Fewer, Heard
<1> QED BY <1>1, <1>2, Kept

(* A callback after which fewer watch one session. *)
LEMMA OneChanges ==
  ASSUME IInv, Idle, Nest(stack'), UNCHANGED <<listeners, subscribed>>,
         NEW id \in Id, NEW s, "att" \in DOMAIN s,
         session' = [session EXCEPT ![id] = s], table' \subseteq table \cup {id},
         \A c \in Watching(s) : id \in table /\ c \in Watching(session[id])
  PROVE  IInv'
<1>1. Shape'
  BY DEF IInv, Shape
<1>2. session'[id] = s /\ \A other \in Id \ {id} : session'[other] = session[other]
  BY DEF IInv, Shape
<1>3. Fewer /\ Heard
  BY <1>2, AllListen DEF Fewer, Heard, IInv, Shape
<1> QED BY <1>1, <1>3, Kept

-----------------------------------------------------------------------------
(* The callbacks. *)

LEMMA InitIInv == Init => IInv
<1> SUFFICES ASSUME Init PROVE IInv
  OBVIOUS
<1>1. PICK p \in Policy : session = [id \in Id |-> Fresh(DefaultSize, p)]
  BY DEF Init
<1>2. \A id \in Id : "att" \in DOMAIN session[id]
  BY <1>1, BlankWatchers
<1>3. Nest(<<>>)
  <2>1. <<>> \in Seq({})
    OBVIOUS
  <2> QED BY <2>1 DEF Nest
<1> QED BY <1>1, <1>2, <1>3 DEF Init, IInv, Shape

LEMMA ConnectIInv ==
  ASSUME IInv, NEW c \in Conn, Connect(c)
  PROVE  IInv'
<1>1. Shape'
  BY DEF IInv, Shape, Connect
<1>2. \A id \in table : \A d \in Watching(session[id]) : d \in Conn /\ id \in subscribed[d] /\ d \in listeners /\ d # c
  BY AllListen DEF Connect
<1>3. \A id \in table' : \A d \in Watching(session'[id]) : d \in Conn /\ id \in subscribed'[d] /\ d \in listeners'
  BY <1>2 DEF Connect, IInv, Shape
<1> QED BY <1>1, <1>3 DEF IInv, Held

LEMMA DisconnectIInv ==
  ASSUME IInv, NEW c \in Conn, Disconnect(c)
  PROVE  IInv'
<1> DEFINE f == Leave(c)
<1>1. Nest(<<f>> \o stack) /\ \A d : Leaving(d, <<f>> \o stack) <=> Leaving(d, stack) \/ f = Leave(d)
  <2>1. Nest(stack)
    BY DEF IInv, Shape
  <2> HIDE DEF f
  <2> QED BY <2>1, PushedCall
<1>2. /\ stack' = <<f>> \o stack /\ listeners' = listeners \ {c}
      /\ UNCHANGED <<session, subscribed, table>>
  BY DEF Disconnect, Close
<1> HIDE DEF f
<1>3. Shape'
  BY <1>1, <1>2 DEF IInv, Shape
<1>4. Fewer
  BY <1>2 DEF Fewer
<1>5. Heard
  BY <1>1, <1>2 DEF Heard, f
<1> QED BY <1>2, <1>3, <1>4, <1>5, Kept

LEMMA SomeCalls ==
  ASSUME NEW f
  PROVE  /\ Nest(<<f>>)
         /\ \A g : Nest(<<f, g>>)
         /\ \A g, h, k : Nest(<<f, g, h, k>>)
<1>1. <<f>> \in Seq({f})
  OBVIOUS
<1>2. \A g : <<f, g>> \in Seq({f, g})
  OBVIOUS
<1>3. \A g, h, k : <<f, g, h, k>> \in Seq({f, g, h, k})
  OBVIOUS
<1> QED BY <1>1, <1>2, <1>3 DEF Nest

LEMMA AnsweredIInv ==
  ASSUME IInv, NEW c, NEW what, Answered(c, what)
  PROVE  IInv'
BY SomeCalls, Undisturbed DEF Answered, Request

LEMMA BecomeNest ==
  ASSUME NEW id, NEW s, NEW rest, Nest(rest), Become(id, s, rest)
  PROVE  Nest(stack') /\ session' = [session EXCEPT ![id] = s]
BY BecomeCalls DEF Become

LEMMA CreateIInv ==
  ASSUME IInv, NEW c \in Conn, NEW id \in Id, NEW size, Create(c, id, size)
  PROVE  IInv'
<1> DEFINE s == Fresh(Clamped(size), session[id].policy)
<1>1. "att" \in DOMAIN s /\ Watching(s) = {}
  BY BlankWatchers
<1>2. session' = [session EXCEPT ![id] = s] /\ table' = table \cup {id}
  BY DEF Create
<1>3. Nest(stack')
  <2> DEFINE e == created(id, MetaOf(session'[id]))
             rest == <<Send(c, "meta", id)>>
  <2>1. Broadcast(e, rest)
    BY DEF Create
  <2>2. Nest(rest)
    BY SomeCalls
  <2> HIDE DEF e, rest
  <2> QED BY <2>1, <2>2, BroadcastCalls
<1>4. Idle /\ UNCHANGED <<listeners, subscribed>>
  BY DEF Create, Request
<1> HIDE DEF s
<1> QED BY <1>1, <1>2, <1>3, <1>4, OneChanges

LEMMA KillIInv ==
  ASSUME IInv, NEW c \in Conn, NEW id \in Id, NEW force, Kill(c, id, force)
  PROVE  IInv'
<1>1. Idle /\ id \in table /\ UNCHANGED <<listeners, subscribed>>
  BY DEF Kill, Request
<1>2. CASE session[id].locked /\ ~force
  <2>1. stack' = <<SendTo(c, "fail")>> /\ UNCHANGED <<table, session>>
    BY <1>2 DEF Kill, Continue
  <2> QED BY <1>1, <2>1, SomeCalls, Undisturbed
<1>3. CASE ~(session[id].locked /\ ~force)
  <2> DEFINE s == Gone(session[id].policy)
             rest == <<SendTo(c, "ok")>>
             e == removed(id)
  <2>1. "att" \in DOMAIN s /\ Watching(s) = {}
    BY BlankWatchers
  <2>2. session' = [session EXCEPT ![id] = s] /\ table' = table \ {id} /\ Broadcast(e, rest)
    BY <1>3 DEF Kill
  <2>3. Nest(rest)
    BY SomeCalls
  <2> HIDE DEF s, rest, e
  <2>4. Nest(stack')
    BY <2>2, <2>3, BroadcastCalls
  <2> QED BY <1>1, <2>1, <2>2, <2>4, OneChanges
<1> QED BY <1>2, <1>3

LEMMA SetLockIInv ==
  ASSUME IInv, NEW c \in Conn, NEW id \in Id, NEW b, SetLock(c, id, b)
  PROVE  IInv'
<1> DEFINE s == [session[id] EXCEPT !.locked = b]
           rest == <<Send(c, "meta", id)>>
           e == lockedEvt(id, b)
<1>1. "att" \in DOMAIN s /\ Watching(s) = Watching(session[id])
  BY DEF Watching, IInv, Shape
<1>2. session' = [session EXCEPT ![id] = s] /\ id \in table /\ Idle /\ UNCHANGED <<table, listeners, subscribed>>
  BY DEF SetLock, Request, IInv, Shape
<1>3. Nest(rest)
  BY SomeCalls
<1>4. Broadcast(e, rest) \/ stack' = rest
  BY DEF SetLock, Continue
<1> HIDE DEF s, rest, e
<1>5. Nest(stack')
  BY <1>3, <1>4, BroadcastCalls
<1> QED BY <1>1, <1>2, <1>5, OneChanges

LEMMA RenameIInv ==
  ASSUME IInv, NEW c \in Conn, NEW id \in Id, Rename(c, id)
  PROVE  IInv'
<1> DEFINE rest == <<Send(c, "meta", id)>>
           e == labelled(id)
<1>1. Broadcast(e, rest) /\ Nest(rest) /\ Idle /\ UNCHANGED <<table, session, listeners, subscribed>>
  BY SomeCalls DEF Rename, Request
<1> HIDE DEF rest, e
<1> QED BY <1>1, BroadcastCalls, Undisturbed

LEMMA NoticedIInv ==
  ASSUME IInv, NEW id, NEW e, Noticed(id, e)
  PROVE  IInv'
<1>1. Broadcast(e, <<>>) /\ Idle /\ UNCHANGED <<table, session, listeners, subscribed>>
  BY DEF Noticed
<1>2. Nest(<<>>)
  BY <1>1 DEF Idle, IInv, Shape
<1> QED BY <1>1, <1>2, BroadcastCalls, Undisturbed

LEMMA ExitIInv ==
  ASSUME IInv, NEW id \in Id, Exit(id)
  PROVE  IInv'
<1> DEFINE s == [session[id] EXCEPT !.alive = FALSE]
           e == exited(id)
<1>1. "att" \in DOMAIN s /\ Watching(s) = Watching(session[id])
  BY DEF Watching, IInv, Shape
<1>2. /\ session' = [session EXCEPT ![id] = s] /\ id \in table /\ Idle
      /\ UNCHANGED <<table, listeners, subscribed>>
      /\ Broadcast(e, <<>>)
  BY DEF Exit, IInv, Shape
<1>3. Nest(<<>>)
  BY <1>2 DEF Idle, IInv, Shape
<1> HIDE DEF s, e
<1>4. Nest(stack')
  BY <1>2, <1>3, BroadcastCalls
<1> QED BY <1>1, <1>2, <1>4, OneChanges

LEMMA OutputIInv ==
  ASSUME IInv, NEW id, Output(id)
  PROVE  IInv'
BY SomeCalls, Undisturbed DEF Output

(* A viewer that is there already resizes or types. *)
LEMMA ResizeIInv ==
  ASSUME IInv, NEW c \in Conn, NEW id \in Id, NEW raw, Resize(c, id, raw)
  PROVE  IInv'
<1> DEFINE size == Clamped(raw)
           typed == Touch(session[id], c, size)
           direct == [session[id] EXCEPT !.size = size, !.direct = TRUE]
           s == IF ~isUsableSize(raw) THEN session[id]
                ELSE IF c \in Watching(session[id]) THEN Reconciled(typed)
                ELSE direct
           rest == <<Send(c, "size", id)>>
<1>1. /\ Become(id, s, rest) /\ Nest(rest) /\ id \in table /\ Idle
      /\ UNCHANGED <<table, listeners, subscribed>>
  BY SomeCalls DEF Resize, Request
<1>2. "att" \in DOMAIN session[id]
  BY DEF IInv, Shape
<1>3. "att" \in DOMAIN direct /\ Watching(direct) = Watching(session[id])
  <2> HIDE DEF size
  <2> QED BY <1>2 DEF Watching
<1>4. "att" \in DOMAIN Reconciled(typed) /\ Watching(Reconciled(typed)) = Watching(session[id]) \cup {c}
  <2> HIDE DEF size
  <2>1. "att" \in DOMAIN typed /\ Watching(typed) = Watching(session[id]) \cup {c}
    BY <1>2, Watchers
  <2> HIDE DEF typed
  <2> QED BY <2>1, Watchers
<1> HIDE DEF direct, typed, rest
<1>5. "att" \in DOMAIN s /\ Watching(s) = Watching(session[id])
  <2>1. s = session[id] \/ s = direct \/ (c \in Watching(session[id]) /\ s = Reconciled(typed))
    OBVIOUS
  <2> HIDE DEF s
  <2>2. c \in Watching(session[id]) => Watching(session[id]) \cup {c} = Watching(session[id])
    OBVIOUS
  <2>3. CASE s = session[id]
    BY <1>2, <2>3
  <2>4. CASE s = direct
    BY <1>3, <2>4
  <2>5. CASE c \in Watching(session[id]) /\ s = Reconciled(typed)
    BY <1>4, <2>2, <2>5
  <2> QED BY <2>1, <2>3, <2>4, <2>5
<1> HIDE DEF s
<1>6. Nest(stack') /\ session' = [session EXCEPT ![id] = s]
  BY <1>1, BecomeNest
<1> QED BY <1>1, <1>5, <1>6, OneChanges

LEMMA InputIInv ==
  ASSUME IInv, NEW c \in Conn, NEW id \in Id, Input(c, id)
  PROVE  IInv'
<1> DEFINE size == session[id].att[c]
           typed == Touch(session[id], c, size)
           s == IF c \in Sized(session[id]) THEN Reconciled(typed) ELSE typed
<1>1. /\ Become(id, s, stack) /\ id \in table /\ Idle /\ c \in Watching(session[id])
      /\ UNCHANGED <<table, listeners, subscribed>>
  BY DEF Input, Request
<1>2. "att" \in DOMAIN session[id] /\ Nest(stack)
  BY DEF IInv, Shape
<1>3. "att" \in DOMAIN typed /\ Watching(typed) = Watching(session[id]) \cup {c}
  <2> HIDE DEF size
  <2> QED BY <1>2, Watchers
<1> HIDE DEF typed
<1>4. "att" \in DOMAIN s /\ Watching(s) = Watching(session[id])
  <2>1. c \in Watching(session[id]) => Watching(session[id]) \cup {c} = Watching(session[id])
    OBVIOUS
  <2>2. s = typed \/ s = Reconciled(typed)
    OBVIOUS
  <2>3. "att" \in DOMAIN Reconciled(typed) /\ Watching(Reconciled(typed)) = Watching(typed)
    BY <1>3, Watchers
  <2> HIDE DEF s
  <2> QED BY <1>1, <1>3, <2>1, <2>2, <2>3
<1> HIDE DEF s
<1>5. Nest(stack') /\ session' = [session EXCEPT ![id] = s]
  BY <1>1, <1>2, BecomeNest
<1> QED BY <1>1, <1>4, <1>5, OneChanges

LEMMA PersistIInv ==
  ASSUME IInv, PersistNow
  PROVE  IInv'
<1>1. Nest(stack')
  BY DEF PersistNow, IInv, Shape
<1> QED BY <1>1, Undisturbed DEF PersistNow

(* The viewer that comes is a client that listens, and owns the session     *)
(* from the first moment.                                                   *)
LEMMA SubscribeIInv ==
  ASSUME IInv, NEW c \in Conn, NEW id \in Id, NEW raw, Subscribe(c, id, raw)
  PROVE  IInv'
<1> DEFINE size == Declared(raw)
           joined == Touch(session[id], c, size)
           waits == [joined EXCEPT !.direct = @ \/ c \in Sized(session[id])]
           s == IF isUsableSize(raw) THEN Reconciled(joined) ELSE waits
           rest == <<Announce(id), Send(c, "meta", id), Send(c, "snapshot", id), Send(c, "ready", id)>>
<1>1. /\ Become(id, s, rest) /\ id \in table /\ Idle /\ c \in listeners
      /\ UNCHANGED <<table, listeners>>
      /\ subscribed' = [subscribed EXCEPT ![c] = @ \cup {id}]
  BY DEF Subscribe, Request
<1>2. Nest(rest)
  BY SomeCalls
<1>3. "att" \in DOMAIN session[id]
  BY DEF IInv, Shape
<1>4. "att" \in DOMAIN joined /\ Watching(joined) = Watching(session[id]) \cup {c}
  <2> HIDE DEF size
  <2> QED BY <1>3, Watchers
<1>5. "att" \in DOMAIN Reconciled(joined) /\ Watching(Reconciled(joined)) = Watching(joined)
  <2> HIDE DEF joined
  <2> QED BY <1>4, Watchers
<1>6. "att" \in DOMAIN waits /\ Watching(waits) = Watching(joined)
  <2> HIDE DEF joined
  <2> QED BY <1>4 DEF Watching
<1> HIDE DEF joined, waits, rest
<1>7. "att" \in DOMAIN s /\ Watching(s) = Watching(session[id]) \cup {c}
  <2>1. s = Reconciled(joined) \/ s = waits
    OBVIOUS
  <2> HIDE DEF s
  <2> QED BY <1>4, <1>5, <1>6, <2>1
<1> HIDE DEF s
<1>8. Nest(stack') /\ session' = [session EXCEPT ![id] = s]
  BY <1>1, <1>2, BecomeNest
<1>9. Shape'
  BY <1>1, <1>7, <1>8 DEF IInv, Shape
<1>10. ASSUME NEW other \in table', NEW d \in Watching(session'[other])
       PROVE  d \in Conn /\ other \in subscribed'[d] /\ d \in listeners'
  <2>1. other \in table /\ (d \in Watching(session[other]) \/ (other = id /\ d = c))
    <3>1. other \in table /\ other \in Id
      BY <1>1 DEF IInv, Shape
    <3>2. session'[id] = s /\ (other # id => session'[other] = session[other])
      BY <1>1, <1>8, <3>1 DEF IInv, Shape
    <3>3. CASE other = id
      BY <1>7, <1>10, <3>1, <3>2, <3>3
    <3>4. CASE other # id
      BY <1>10, <3>1, <3>2, <3>4
    <3> QED BY <3>3, <3>4
  <2>2. CASE d \in Watching(session[other])
    <3>1. d \in Conn /\ other \in subscribed[d] /\ d \in listeners
      BY <1>1, <2>1, <2>2, AllListen
    <3> QED BY <1>1, <3>1 DEF IInv, Shape
  <2>3. CASE other = id /\ d = c
    BY <1>1, <2>3 DEF IInv, Shape
  <2> QED BY <2>1, <2>2, <2>3
<1> QED BY <1>9, <1>10 DEF IInv, Held

(* Who leaves a session does not watch it, and owns the others still. *)
LEMMA LeftIInv ==
  ASSUME IInv, Shape', NEW c, NEW id \in Id, UNCHANGED <<table, listeners>>,
         subscribed' = [subscribed EXCEPT ![c] = @ \ {id}],
         \A other \in Id : Watching(session'[other]) \subseteq Watching(session[other]),
         id \in table => c \notin Watching(session'[id]),
         \A d : Leaving(d, stack) => Leaving(d, stack')
  PROVE  IInv'
<1>1. ASSUME NEW other \in table', NEW d \in Watching(session'[other])
      PROVE  d \in Conn /\ other \in subscribed'[d] /\ (d \in listeners' \/ Leaving(d, stack'))
  <2>1. other \in table /\ other \in Id /\ d \in Watching(session[other]) /\ (other # id \/ d # c)
    BY <1>1 DEF IInv, Shape
  <2>2. d \in Conn /\ other \in subscribed[d] /\ (d \in listeners \/ Leaving(d, stack))
    BY <2>1 DEF IInv, Held
  <2> QED BY <2>1, <2>2 DEF IInv, Shape
<1> QED BY <1>1 DEF IInv, Held

(* The viewer is taken off, if it is there: what unsubscribe and close do.  *)
LEMMA DropIInv ==
  ASSUME IInv, NEW c, NEW id \in Id, NEW rest, Nest(rest),
         \A d : Leaving(d, stack) => Leaving(d, rest),
         UNCHANGED <<table, listeners>>, subscribed' = [subscribed EXCEPT ![c] = @ \ {id}],
         id \in table /\ c \in Watching(session[id]),
         Become(id, Reconciled(Drop(session[id], c)), rest)
  PROVE  IInv'
<1> DEFINE left == Drop(session[id], c)
           s == Reconciled(left)
<1>1. "att" \in DOMAIN left /\ Watching(left) = Watching(session[id]) \ {c}
  BY Watchers DEF IInv, Shape
<1> HIDE DEF left
<1>2. "att" \in DOMAIN s /\ Watching(s) = Watching(session[id]) \ {c}
  BY <1>1, Watchers
<1>3. Become(id, s, rest)
  BY DEF left
<1> HIDE DEF s
<1>4. session' = [session EXCEPT ![id] = s]
  BY <1>3 DEF Become
<1>5. Nest(stack') /\ \A d : Leaving(d, rest) => Leaving(d, stack')
  BY <1>3, BecomeCalls
<1>6. Shape'
  BY <1>2, <1>4, <1>5 DEF IInv, Shape
<1>7. \A other \in Id : Watching(session'[other]) \subseteq Watching(session[other])
  BY <1>2, <1>4 DEF IInv, Shape
<1>8. c \notin Watching(session'[id])
  BY <1>2, <1>4 DEF IInv, Shape
<1> QED BY <1>5, <1>6, <1>7, <1>8, LeftIInv

LEMMA NoDropIInv ==
  ASSUME IInv, NEW c, NEW id \in Id, NEW rest, Nest(rest),
         \A d : Leaving(d, stack) => Leaving(d, rest),
         UNCHANGED <<table, listeners, session>>, subscribed' = [subscribed EXCEPT ![c] = @ \ {id}],
         ~(id \in table /\ c \in Watching(session[id])),
         stack' = rest
  PROVE  IInv'
<1>1. Shape'
  BY DEF IInv, Shape
<1> QED BY <1>1, LeftIInv

LEMMA UnsubscribeIInv ==
  ASSUME IInv, NEW c \in Conn, NEW id \in Id, Unsubscribe(c, id)
  PROVE  IInv'
<1>1. /\ Idle /\ UNCHANGED <<table, listeners>>
      /\ subscribed' = [subscribed EXCEPT ![c] = @ \ {id}]
  BY DEF Unsubscribe, Request
<1>2. \A d : ~Leaving(d, stack)
  BY <1>1, AllListen
<1>3. CASE id \in table /\ c \in Watching(session[id])
  <2> DEFINE rest == <<Announce(id), SendTo(c, "ok")>>
  <2>1. Become(id, Reconciled(Drop(session[id], c)), rest)
    BY <1>3 DEF Unsubscribe
  <2>2. Nest(rest)
    BY SomeCalls
  <2> HIDE DEF rest
  <2> QED BY <1>1, <1>2, <1>3, <2>1, <2>2, DropIInv
<1>4. CASE ~(id \in table /\ c \in Watching(session[id]))
  <2> DEFINE rest == <<SendTo(c, "ok")>>
  <2>1. stack' = rest /\ UNCHANGED session
    BY <1>4 DEF Unsubscribe, Continue
  <2>2. Nest(rest)
    BY SomeCalls
  <2> HIDE DEF rest
  <2> QED BY <1>1, <1>2, <1>4, <2>1, <2>2, NoDropIInv
<1> QED BY <1>3, <1>4

-----------------------------------------------------------------------------
(* The innermost call. *)

(* It goes on with a write, and as what is left of it. *)
LEMMA WriteIInv ==
  ASSUME IInv, NEW c, NEW told, NEW rest, Nest(rest), Write(c, told, rest),
         \A d : Leaving(d, stack) => Leaving(d, rest), table' = table
  PROVE  IInv'
<1>1. /\ UNCHANGED <<session, subscribed>> /\ listeners' \subseteq listeners
      /\ Nest(stack')
      /\ \A d : Leaving(d, rest) => Leaving(d, stack')
      /\ \A d \in listeners : d \in listeners' \/ Leaving(d, stack')
  BY WriteCalls
<1>2. Shape'
  BY <1>1 DEF IInv, Shape
<1>3. Fewer /\ Heard
  BY <1>1 DEF Fewer, Heard
<1> QED BY <1>1, <1>2, <1>3, Kept

(* It goes on without one. *)
LEMMA GoesOnIInv ==
  ASSUME IInv, Nest(stack'), \A d : Leaving(d, stack) => Leaving(d, stack'),
         UNCHANGED <<table, session, listeners, subscribed>>
  PROVE  IInv'
<1>1. Shape' /\ Fewer /\ Heard
  BY DEF IInv, Shape, Fewer, Heard
<1> QED BY <1>1, Kept

(* Another call takes its place. *)
LEMMA Replaced ==
  ASSUME IInv, NEW op, op # "leave", Top(op), NEW f
  PROVE  /\ Nest(Rest) /\ Nest(<<f>> \o Rest)
         /\ \A d : Leaving(d, stack) => Leaving(d, Rest) /\ Leaving(d, <<f>> \o Rest)
<1>1. Nest(Rest) /\ \A d : Leaving(d, stack) <=> Leaving(d, Rest)
  BY OtherTop DEF IInv, Shape
<1> DEFINE rest == Rest
<1> HIDE DEF rest
<1>2. Nest(<<f>> \o rest) /\ \A d : Leaving(d, rest) => Leaving(d, <<f>> \o rest)
  BY <1>1, PushedCall DEF rest
<1> QED BY <1>1, <1>2 DEF rest

LEMMA DeliverIInv ==
  ASSUME IInv, Deliver
  PROVE  IInv'
<1> DEFINE f == Head(stack)
<1>1. PICK c \in f.to : Write(c, Told(view[c], f.evt), <<Fan(f.evt, f.to \ {c})>> \o Rest)
  BY DEF Deliver
<1> DEFINE told == Told(view[c], f.evt)
           next == Fan(f.evt, f.to \ {c})
           rest == <<next>> \o Rest
<1>2. Write(c, told, rest) /\ table' = table /\ Top("fan")
  BY <1>1 DEF Deliver
<1> HIDE DEF told, next
<1>3. Nest(rest) /\ \A d : Leaving(d, stack) => Leaving(d, rest)
  BY <1>2, Replaced
<1> HIDE DEF rest
<1> QED BY <1>2, <1>3, WriteIInv

LEMMA NextEventIInv ==
  ASSUME IInv, NextEvent
  PROVE  IInv'
<1> DEFINE next == Fan(Head(queue), listeners)
<1>1. /\ Top("fan") /\ UNCHANGED <<table, session, listeners, subscribed>>
      /\ stack' = Rest \/ stack' = <<next>> \o Rest
  BY DEF NextEvent
<1> HIDE DEF next
<1>2. Nest(stack') /\ \A d : Leaving(d, stack) => Leaving(d, stack')
  BY <1>1, Replaced
<1> QED BY <1>1, <1>2, GoesOnIInv

LEMMA AnnounceIInv ==
  ASSUME IInv, AnnounceViewers
  PROVE  IInv'
<1> DEFINE e == viewers(Head(stack).id, Cardinality(Watching(session[Head(stack).id])))
           rest == Rest
<1>1. Top("announce") /\ Broadcast(e, rest) /\ UNCHANGED <<table, session, listeners, subscribed>>
  BY DEF AnnounceViewers
<1>2. Nest(rest) /\ \A d : Leaving(d, stack) => Leaving(d, rest)
  BY <1>1, Replaced
<1> HIDE DEF e, rest
<1>3. Nest(stack') /\ \A d : Leaving(d, rest) => Leaving(d, stack')
  BY <1>1, <1>2, BroadcastCalls
<1> QED BY <1>1, <1>2, <1>3, GoesOnIInv

LEMMA SendOutIInv ==
  ASSUME IInv, SendOut
  PROVE  IInv'
<1> DEFINE f == Head(stack)
           left == f.to \cap Watching(session[f.id])
<1>1. Top("out") /\ table' = table
  BY DEF SendOut
<1>2. ASSUME NEW c \in left, Write(c, view[c], <<Out(f.id, f.to \ {c})>> \o Rest)
      PROVE  IInv'
  <2> DEFINE told == view[c]
             next == Out(f.id, f.to \ {c})
             rest == <<next>> \o Rest
  <2>1. Write(c, told, rest)
    BY <1>2
  <2> HIDE DEF told, next
  <2>2. Nest(rest) /\ \A d : Leaving(d, stack) => Leaving(d, rest)
    BY <1>1, Replaced
  <2> HIDE DEF rest
  <2> QED BY <1>1, <2>1, <2>2, WriteIInv
<1>3. CASE Continue(Rest) /\ UNCHANGED <<session, listeners, subscribed, view>>
  <2>1. stack' = Rest
    BY <1>3 DEF Continue
  <2>2. Nest(stack') /\ \A d : Leaving(d, stack) => Leaving(d, stack')
    BY <1>1, <2>1, Replaced
  <2> QED BY <1>1, <1>3, <2>2, GoesOnIInv
<1> QED BY <1>2, <1>3 DEF SendOut

LEMMA ReplyIInv ==
  ASSUME IInv, Reply
  PROVE  IInv'
<1> DEFINE f == Head(stack)
           k == view[f.conn]
           told == CASE f.what = "list" -> [id \in Id |-> IF id \in table THEN MetaOf(session[id])
                                                          ELSE Unknown]
                     [] f.what = "meta" -> [k EXCEPT ![f.id] = MetaOf(session[f.id])]
                     [] f.what \in {"size", "ready"} ->
                          IF k[f.id] = Unknown THEN k
                          ELSE [k EXCEPT ![f.id].size = session[f.id].size]
                     [] OTHER -> k
           c == f.conn
           rest == Rest
<1>1. Top("send") /\ table' = table /\ Write(c, told, rest)
  BY DEF Reply
<1>2. Nest(rest) /\ \A d : Leaving(d, stack) => Leaving(d, rest)
  BY <1>1, Replaced
<1> HIDE DEF c, told, rest
<1> QED BY <1>1, <1>2, WriteIInv

(* close() goes on while c owns something, so that what it returns to needs *)
(* not know of it.                                                          *)
LEMMA LeaveOneIInv ==
  ASSUME IInv, LeaveOne
  PROVE  IInv'
<1> DEFINE c == Head(stack).conn
<1>1. Top("leave") /\ UNCHANGED <<table, listeners>>
  BY DEF LeaveOne
<1>2. Nest(stack) /\ stack # <<>>
  BY <1>1 DEF Top, Idle, IInv, Shape
<1>3. ASSUME NEW id \in subscribed[c],
             subscribed' = [subscribed EXCEPT ![c] = @ \ {id}],
             IF id \in table /\ c \in Watching(session[id])
             THEN Become(id, Reconciled(Drop(session[id], c)), <<Announce(id)>> \o stack)
             ELSE Continue(stack) /\ UNCHANGED session
      PROVE  IInv'
  <2>1. id \in table /\ c \in Watching(session[id]) => c \in Conn
    BY DEF IInv, Held
  <2>2. CASE id \in table /\ c \in Watching(session[id])
    <3> DEFINE next == Announce(id)
               rest == <<next>> \o stack
    <3>1. Become(id, Reconciled(Drop(session[id], c)), rest)
      BY <1>3, <2>2
    <3> HIDE DEF next
    <3>2. Nest(rest) /\ \A d : Leaving(d, stack) => Leaving(d, rest)
      BY <1>2, PushedCall
    <3>3. id \in Id
      BY <2>2 DEF IInv, Shape
    <3> HIDE DEF rest, c
    <3> QED BY <1>1, <1>3, <2>2, <3>1, <3>2, <3>3, DropIInv
  <2>3. CASE ~(id \in table /\ c \in Watching(session[id]))
    <3>1. stack' = stack /\ UNCHANGED session
      BY <1>3, <2>3 DEF Continue
    <3> HIDE DEF c
    <3>2. CASE c \in Conn
      <4>1. id \in Id
        BY <1>3, <3>2 DEF IInv, Shape
      <4> QED BY <1>1, <1>2, <1>3, <2>3, <3>1, <4>1, NoDropIInv
    <3>3. CASE c \notin Conn
      <4>1. subscribed' = subscribed
        BY <1>3, <3>3 DEF IInv, Shape
      <4> QED BY <1>1, <1>2, <3>1, <4>1, GoesOnIInv
    <3> QED BY <3>2, <3>3
  <2> QED BY <2>2, <2>3
<1>4. CASE subscribed[c] = {} /\ Continue(Rest) /\ UNCHANGED <<session, subscribed>>
  <2>1. Nest(Rest) /\ \A d : Leaving(d, stack) <=> Leaving(d, Rest) \/ Head(stack) = Leave(d)
    BY <1>2, PoppedCall DEF Rest
  <2>2. \A d : Head(stack) = Leave(d) => d = c
    BY DEF Leave
  <2>3. stack' = Rest
    BY <1>4 DEF Continue
  <2>4. Shape'
    BY <1>1, <1>4, <2>1, <2>3 DEF IInv, Shape
  <2>5. ASSUME NEW id \in table', NEW d \in Watching(session'[id])
        PROVE  d \in Conn /\ id \in subscribed'[d] /\ (d \in listeners' \/ Leaving(d, stack'))
    <3>1. d \in Conn /\ id \in subscribed[d] /\ (d \in listeners \/ Leaving(d, stack))
      BY <1>1, <1>4, <2>5 DEF IInv, Held
    <3>2. d # c
      BY <1>4, <3>1
    <3> QED BY <1>1, <1>4, <2>1, <2>2, <2>3, <3>1, <3>2
  <2> QED BY <2>4, <2>5 DEF IInv, Held
<1> QED BY <1>3, <1>4 DEF LeaveOne

-----------------------------------------------------------------------------
LEMMA CallbackIInv ==
  ASSUME IInv, Callback
  PROVE  IInv'
<1>1. ASSUME NEW c \in Conn, Connect(c) \/ Disconnect(c) \/ List(c) \/ Query(c) \/ Refuse(c)
      PROVE  IInv'
  BY <1>1, ConnectIInv, DisconnectIInv, AnsweredIInv DEF List, Query, Refuse
<1>2. ASSUME NEW c \in Conn, NEW id \in Id, NEW raw \in RawSize,
             Create(c, id, raw) \/ Resize(c, id, raw) \/ Subscribe(c, id, raw)
      PROVE  IInv'
  BY <1>2, CreateIInv, ResizeIInv, SubscribeIInv
<1>3. ASSUME NEW c \in Conn, NEW id \in Id, NEW b \in BOOLEAN, Kill(c, id, b) \/ SetLock(c, id, b)
      PROVE  IInv'
  BY <1>3, KillIInv, SetLockIInv
<1>4. ASSUME NEW c \in Conn, NEW id \in Id, Rename(c, id) \/ Unsubscribe(c, id) \/ Input(c, id)
      PROVE  IInv'
  BY <1>4, RenameIInv, UnsubscribeIInv, InputIInv
<1>5. ASSUME NEW id \in Id, Output(id) \/ Exit(id) \/ TitleChanges(id) \/ PollForeground(id)
      PROVE  IInv'
  BY <1>5, OutputIInv, ExitIInv, NoticedIInv DEF TitleChanges, PollForeground
<1> QED BY <1>1, <1>2, <1>3, <1>4, <1>5 DEF Callback

LEMMA StepIInv == IInv /\ [Next]_vars => IInv'
<1> SUFFICES ASSUME IInv, [Next]_vars PROVE IInv'
  OBVIOUS
<1>1. CASE Callback
  BY <1>1, CallbackIInv
<1>2. CASE Step
  BY <1>2, DeliverIInv, NextEventIInv, LeaveOneIInv, AnnounceIInv, SendOutIInv, ReplyIInv DEF Step
<1>3. CASE PersistNow
  BY <1>3, PersistIInv
<1>4. CASE UNCHANGED vars
  <2>1. Nest(stack') /\ UNCHANGED <<stack, table, session, listeners, subscribed>>
    BY <1>4 DEF vars, IInv, Shape
  <2> QED BY <2>1, GoesOnIInv
<1> QED BY <1>1, <1>2, <1>3, <1>4 DEF Next

(* For any number of clients and sessions, and however deep the calls nest: *)
(* whoever is attached to a session is a client that listens and owns the   *)
(* attachment, or is being closed by a call in progress.                    *)
THEOREM ViewersAreOwned == Spec => []OwnedViewers
<1>1. IInv => OwnedViewers
  BY DEF IInv, Held, Leaving, OwnedViewers
<1> QED BY <1>1, InitIInv, StepIInv, PTL DEF Spec

-----------------------------------------------------------------------------
(* The least and the greatest of some numbers, and lists without an entry. *)
LEMMA Least ==
  ASSUME NEW T, T \subseteq Nat, T # {}
  PROVE  \E n \in T : \A m \in T : n <= m
<1>1. PICK n \in T : \A m \in T : ~(<<m, n>> \in OpToRel(<, Nat))
  BY NatLessThanWellFounded, WFMin
<1>2. \A m \in T : n <= m
  <2> TAKE m \in T
  <2>1. m \in Nat /\ n \in Nat
    OBVIOUS
  <2>2. CASE m < n
    <3>1. <<m, n>> \in OpToRel(<, Nat)
      BY <2>1, <2>2 DEF OpToRel
    <3> QED BY <1>1, <3>1
  <2> QED BY <2>1, <2>2
<1> QED BY <1>2

LEMMA Greatest ==
  ASSUME NEW n \in Nat, NEW T, T \subseteq 0..n, T # {}
  PROVE  \E g \in T : \A m \in T : m <= g
<1> DEFINE R == {n - m : m \in T}
<1>1. R \subseteq Nat /\ R # {}
  <2>1. \A m \in T : n - m \in Nat
    OBVIOUS
  <2> QED BY <2>1
<1>2. PICK k \in R : \A j \in R : k <= j
  <2> HIDE DEF R
  <2> QED BY <1>1, Least
<1>3. PICK g \in T : k = n - g
  OBVIOUS
<1>4. \A m \in T : m <= g
  <2> TAKE m \in T
  <2>1. n - m \in R
    OBVIOUS
  <2>2. k <= n - m
    BY <1>2, <2>1
  <2> QED BY <1>3, <2>2
<1> QED BY <1>4

(* A list of distinct members of S. *)
Distinct(list) == \A i, j \in DOMAIN list : list[i] = list[j] => i = j

LEMMA FirstIndex ==
  ASSUME NEW n \in Nat, NEW I, I \subseteq 1..n, I # {}
  PROVE  Min(I) \in I /\ Max(I) \in I /\ \A i \in I : Min(I) <= i /\ i <= Max(I)
<1>1. \E i \in I : \A j \in I : i <= j
  <2>1. I \subseteq Nat OBVIOUS
  <2> QED BY <2>1, Least
<1>2. \E i \in I : \A j \in I : j <= i
  <2>1. I \subseteq 0..n OBVIOUS
  <2> QED BY <2>1, Greatest
<1>3. \E i \in I : \A j \in I : i >= j
  BY <1>2
<1> QED BY <1>1, <1>3 DEF Min, Max

LEMMA Concatenated ==
  ASSUME NEW S, NEW a \in Seq(S), NEW b \in Seq(S)
  PROVE  /\ (a \o b) \in Seq(S) /\ DOMAIN (a \o b) = 1..Len(a) + Len(b) /\ Len(a \o b) = Len(a) + Len(b)
         /\ \A i \in 1..Len(a) + Len(b) : (a \o b)[i] = IF i <= Len(a) THEN a[i] ELSE b[i - Len(a)]
OBVIOUS

LEMMA RemovedAt ==
  ASSUME NEW S, NEW list \in Seq(S), NEW k \in 1..Len(list)
  PROVE  RemoveAt(list, k) = [i \in 1..Len(list) - 1 |-> IF i < k THEN list[i] ELSE list[i + 1]]
<1> DEFINE a == SubSeq(list, 1, k - 1)
           b == SubSeq(list, k + 1, Len(list))
           f == [i \in 1..Len(list) - 1 |-> IF i < k THEN list[i] ELSE list[i + 1]]
<1>1. a \in Seq(S) /\ Len(a) = k - 1 /\ \A i \in 1..k - 1 : a[i] = list[i]
  OBVIOUS
<1>2. b \in Seq(S) /\ Len(b) = Len(list) - k /\ \A i \in 1..Len(list) - k : b[i] = list[i + k]
  OBVIOUS
<1>3. PICK r : r = a \o b
  OBVIOUS
<1> HIDE DEF a, b
<1>4. r \in Seq(S) /\ DOMAIN r = 1..Len(a) + Len(b)
  BY <1>1, <1>2, <1>3, Concatenated
<1>5. \A i \in 1..Len(a) + Len(b) : r[i] = IF i <= Len(a) THEN a[i] ELSE b[i - Len(a)]
  BY <1>1, <1>2, <1>3, Concatenated
<1>6. Len(list) \in Nat
  OBVIOUS
<1>7. ASSUME NEW i \in 1..Len(list) - 1
      PROVE  r[i] = f[i]
  <2>1. r[i] = IF i <= k - 1 THEN a[i] ELSE b[i - (k - 1)]
    BY <1>1, <1>2, <1>5, <1>6
  <2>2. CASE i < k
    BY <1>1, <2>1, <2>2
  <2>3. CASE i >= k
    BY <1>2, <1>6, <2>1, <2>3
  <2> QED BY <2>2, <2>3
<1>8. r = f
  <2>1. DOMAIN r = 1..Len(list) - 1
    BY <1>1, <1>2, <1>4, <1>6
  <2>2. r = [i \in DOMAIN r |-> r[i]]
    BY <1>4
  <2> QED BY <1>7, <2>1, <2>2
<1> QED BY <1>3, <1>8 DEF RemoveAt, a, b

(* Without c, the others keep their order. *)
LEMMA Forgotten ==
  ASSUME NEW S, NEW list \in Seq(S), Distinct(list), NEW c, NEW left, left = RemoveFirst(list, c)
  PROVE  /\ left \in Seq(S \ {c}) /\ Distinct(left)
         /\ \A i \in DOMAIN list : list[i] # c => \E j \in DOMAIN left : left[j] = list[i]
         /\ \A i, j \in DOMAIN left : i < j =>
              \E k, l \in DOMAIN list : k < l /\ list[k] = left[i] /\ list[l] = left[j]
<1>1. DOMAIN list = 1..Len(list) /\ Len(list) \in Nat /\ \A i \in 1..Len(list) : list[i] \in S
  OBVIOUS
<1>2. CASE \A i \in 1..Len(list) : list[i] # c
  <2>1. left = list
    BY <1>2 DEF RemoveFirst
  <2>2. list \in Seq(S \ {c})
    BY <1>1, <1>2
  <2> QED BY <1>1, <1>2, <2>1, <2>2
<1>3. CASE \E i \in 1..Len(list) : list[i] = c
  <2> DEFINE I == {i \in 1..Len(list) : list[i] = c}
             k == Min(I)
  <2>1. k \in I
    <3>1. I \subseteq 1..Len(list) /\ I # {}
      BY <1>3
    <3> HIDE DEF I
    <3> QED BY <1>1, <3>1, FirstIndex
  <2>2. left = RemoveAt(list, k)
    BY <1>3 DEF RemoveFirst, SelectInSeq
  <2> HIDE DEF k
  <2>3. k \in 1..Len(list) /\ list[k] = c /\ \A i \in 1..Len(list) : list[i] = c => i = k
    BY <2>1, <1>1 DEF Distinct
  <2>4. left = [i \in 1..Len(list) - 1 |-> IF i < k THEN list[i] ELSE list[i + 1]]
    BY <2>2, <2>3, RemovedAt
  <2>5. DOMAIN left = 1..Len(list) - 1 /\ \A i \in 1..Len(list) - 1 : left[i] = IF i < k THEN list[i] ELSE list[i + 1]
    BY <2>4
  <2>6. \A i \in 1..Len(list) - 1 : left[i] \in S \ {c}
    BY <1>1, <2>3, <2>5
  <2>7. left \in Seq(S \ {c})
    <3>1. left \in [1..Len(list) - 1 -> S \ {c}] /\ Len(list) - 1 \in Nat
      BY <1>1, <2>3, <2>4, <2>6
    <3> QED BY <3>1
  <2>8. Distinct(left)
    <3> SUFFICES ASSUME NEW i \in DOMAIN left, NEW j \in DOMAIN left, left[i] = left[j] PROVE i = j
      BY DEF Distinct
    <3> DEFINE at(n) == IF n < k THEN n ELSE n + 1
    <3>1. at(i) \in DOMAIN list /\ at(j) \in DOMAIN list /\ left[i] = list[at(i)] /\ left[j] = list[at(j)]
      BY <1>1, <2>3, <2>5
    <3>2. at(i) = at(j)
      <4> HIDE DEF at
      <4> QED BY <3>1 DEF Distinct
    <3> QED BY <2>3, <2>5, <1>1, <3>2
  <2>9. ASSUME NEW i \in DOMAIN list, list[i] # c
        PROVE  \E j \in DOMAIN left : left[j] = list[i]
    <3>1. CASE i < k
      <4>1. i \in DOMAIN left /\ left[i] = list[i]
        BY <1>1, <2>3, <2>5, <3>1
      <4> QED BY <4>1
    <3>2. CASE i > k
      <4>1. i - 1 \in DOMAIN left /\ left[i - 1] = list[i]
        BY <1>1, <2>3, <2>5, <3>2
      <4> QED BY <4>1
    <3> QED BY <1>1, <2>3, <2>9, <3>1, <3>2
  <2>10. ASSUME NEW i \in DOMAIN left, NEW j \in DOMAIN left, i < j
         PROVE  \E m, l \in DOMAIN list : m < l /\ list[m] = left[i] /\ list[l] = left[j]
    <3> DEFINE m == IF i < k THEN i ELSE i + 1
               l == IF j < k THEN j ELSE j + 1
    <3>1. m \in DOMAIN list /\ l \in DOMAIN list /\ m < l /\ list[m] = left[i] /\ list[l] = left[j]
      BY <1>1, <2>3, <2>5, <2>10
    <3> QED BY <3>1
  <2> QED BY <2>7, <2>8, <2>9, <2>10
<1> QED BY <1>1, <1>2, <1>3

-----------------------------------------------------------------------------
(* The order of activity lists the viewers, each of them once. *)
Ranked(s) ==
  /\ s.recent \in Seq(Watching(s)) /\ Distinct(s.recent)
  /\ \A c \in Watching(s) : \E i \in DOMAIN s.recent : s.recent[i] = c

(* The size is the one that the policy picks. *)
Chosen(s) ==
  IF s.policy = "min"
  THEN /\ \A c \in Sized(s) : s.size.cols <= s.att[c].cols /\ s.size.rows <= s.att[c].rows
       /\ \E c, d \in Sized(s) : s.size = [cols |-> s.att[c].cols, rows |-> s.att[d].rows]
  ELSE \E i \in DOMAIN s.recent :
         /\ s.recent[i] \in Sized(s) /\ s.att[s.recent[i]] = s.size
         /\ \A j \in DOMAIN s.recent : i < j => s.recent[j] \notin Sized(s)

Fields == {"size", "att", "recent", "policy", "locked", "alive", "direct"}

Attached(s) ==
  /\ Fields \subseteq DOMAIN s
  /\ \A c \in Watching(s) : s.att[c] \in SizeRecord
  /\ Ranked(s)

Follows(s) == Sized(s) # {} /\ ~s.direct => Chosen(s)

LEMMA ReconciledChosen ==
  ASSUME NEW s, Attached(s)
  PROVE  Attached(Reconciled(s)) /\ Follows(Reconciled(s))
<1>1. CASE Sized(s) = {}
  BY <1>1 DEF Reconciled, Follows
<1>2. CASE Sized(s) # {}
  <2> DEFINE w == Winner(s)
             r == [s EXCEPT !.size = w, !.direct = FALSE]
  <2>1. Reconciled(s) = r
    BY <1>2 DEF Reconciled
  <2>2. /\ r.size = w /\ r.att = s.att /\ r.recent = s.recent /\ r.policy = s.policy
        /\ Fields \subseteq DOMAIN r
    <3> HIDE DEF w
    <3> QED BY DEF Attached, Fields
  <2> HIDE DEF r
  <2>3. Sized(r) = Sized(s) /\ Watching(r) = Watching(s)
    BY <2>2 DEF Sized, Watching
  <2>4. Attached(r)
    BY <2>2, <2>3 DEF Attached, Ranked
  <2>5. Chosen(r)
    <3>1. CASE s.policy = "min"
      <4> DEFINE Cols == {s.att[c].cols : c \in Sized(s)}
                 Rows == {s.att[c].rows : c \in Sized(s)}
                 small(T) == CHOOSE n \in T : \A m \in T : n <= m
      <4>1. w = [cols |-> small(Cols), rows |-> small(Rows)]
        BY <3>1 DEF Winner
      <4> HIDE DEF w
      <4>2. Cols \subseteq Nat /\ Cols # {} /\ Rows \subseteq Nat /\ Rows # {}
        BY <1>2 DEF Attached, Sized, Watching, SizeRecord
      <4>3. ASSUME NEW T, T \subseteq Nat, T # {}
            PROVE  small(T) \in T /\ \A m \in T : small(T) <= m
        <5>1. \E n \in T : \A m \in T : n <= m
          BY <4>3, Least
        <5> QED BY <5>1
      <4> HIDE DEF small
      <4>4. small(Cols) \in Cols /\ small(Rows) \in Rows
        <5> HIDE DEF Cols, Rows
        <5> QED BY <4>2, <4>3
      <4>5. \A m \in Cols : small(Cols) <= m
        <5> HIDE DEF Cols, Rows
        <5> QED BY <4>2, <4>3
      <4>6. \A m \in Rows : small(Rows) <= m
        <5> HIDE DEF Cols, Rows
        <5> QED BY <4>2, <4>3
      <4>7. PICK c, d \in Sized(s) : w = [cols |-> s.att[c].cols, rows |-> s.att[d].rows]
        BY <4>1, <4>4
      <4>8. \A e \in Sized(s) : w.cols <= s.att[e].cols /\ w.rows <= s.att[e].rows
        BY <4>1, <4>5, <4>6
      <4> QED BY <2>2, <2>3, <3>1, <4>7, <4>8 DEF Chosen
    <3>2. CASE s.policy # "min"
      <4> DEFINE I == {i \in 1..Len(s.recent) : s.recent[i] \in Sized(s)}
      <4>1. /\ DOMAIN s.recent = 1..Len(s.recent) /\ Len(s.recent) \in Nat
        BY DEF Attached, Ranked
      <4>2. I \subseteq 1..Len(s.recent) /\ I # {}
        BY <1>2, <4>1 DEF Attached, Ranked, Sized, Watching
      <4>3. w = s.att[s.recent[Max(I)]]
        BY <3>2, <4>2 DEF Winner, SelectLastInSeq
      <4>4. Max(I) \in I /\ \A i \in I : i <= Max(I)
        <5> HIDE DEF I
        <5> QED BY <4>1, <4>2, FirstIndex
      <4> HIDE DEF w
      <4> DEFINE last == Max(I)
      <4>5. last \in DOMAIN s.recent /\ s.recent[last] \in Sized(s) /\ s.att[s.recent[last]] = w
        BY <4>1, <4>3, <4>4
      <4>6. \A j \in DOMAIN s.recent : last < j => s.recent[j] \notin Sized(s)
        <5> TAKE j \in DOMAIN s.recent
        <5>1. j \in 1..Len(s.recent) /\ last \in 1..Len(s.recent)
          BY <4>1, <4>4
        <5>2. s.recent[j] \in Sized(s) => j <= last
          BY <4>4, <5>1
        <5> HIDE DEF last
        <5> QED BY <5>1, <5>2, <4>1
      <4> HIDE DEF last
      <4> QED BY <2>2, <2>3, <3>2, <4>5, <4>6 DEF Chosen
    <3> QED BY <3>1, <3>2
  <2> QED BY <2>1, <2>4, <2>5 DEF Follows
<1> QED BY <1>1, <1>2

(* c becomes the last of the list, and the others keep their places. *)
LEMMA TouchedAttached ==
  ASSUME NEW s, Attached(s), NEW c, NEW size \in SizeRecord
  PROVE  /\ Attached(Touch(s, c, size))
         /\ size = Unsized /\ c \notin Sized(s) /\ Follows(s) => Follows(Touch(s, c, size))
<1> DEFINE t == Touch(s, c, size)
<1>1. PICK left : left = RemoveFirst(s.recent, c)
  OBVIOUS
<1>2. /\ Fields \subseteq DOMAIN t /\ t.recent = Append(left, c)
      /\ t.att = [d \in DOMAIN s.att \cup {c} |-> IF d = c THEN size ELSE s.att[d]]
      /\ t.size = s.size /\ t.policy = s.policy /\ t.direct = s.direct
  BY <1>1 DEF Touch, Attached, Fields
<1> HIDE DEF t
<1>3. Watching(t) = Watching(s) \cup {c}
  BY <1>2 DEF Watching
<1>4. t.att[c] = size /\ \A d \in Watching(s) : d # c => t.att[d] = s.att[d]
  BY <1>2 DEF Watching
<1>5. /\ left \in Seq(Watching(s) \ {c}) /\ Distinct(left)
      /\ \A i \in DOMAIN s.recent : s.recent[i] # c => \E j \in DOMAIN left : left[j] = s.recent[i]
      /\ \A i, j \in DOMAIN left : i < j =>
           \E k, l \in DOMAIN s.recent : k < l /\ s.recent[k] = left[i] /\ s.recent[l] = left[j]
  <2>1. s.recent \in Seq(Watching(s)) /\ Distinct(s.recent)
    BY DEF Attached, Ranked
  <2> DEFINE list == s.recent
             W == Watching(s)
  <2>2. list \in Seq(W) /\ Distinct(list) /\ left = RemoveFirst(list, c)
    BY <1>1, <2>1
  <2> HIDE DEF list, W
  <2>3. /\ left \in Seq(W \ {c}) /\ Distinct(left)
        /\ \A i \in DOMAIN list : list[i] # c => \E j \in DOMAIN left : left[j] = list[i]
        /\ \A i, j \in DOMAIN left : i < j =>
             \E k, l \in DOMAIN list : k < l /\ list[k] = left[i] /\ list[l] = left[j]
    BY <2>2, Forgotten
  <2> QED BY <2>3 DEF list, W
<1>6. /\ Len(left) \in Nat /\ DOMAIN left = 1..Len(left)
      /\ \A i \in 1..Len(left) : left[i] \in Watching(s) \ {c}
  BY <1>5
<1>7. /\ t.recent \in Seq(Watching(t)) /\ DOMAIN t.recent = 1..Len(left) + 1
      /\ \A i \in 1..Len(left) : t.recent[i] = left[i]
      /\ t.recent[Len(left) + 1] = c
  <2>1. left \in Seq(Watching(t)) /\ c \in Watching(t)
    BY <1>3, <1>5, <1>6
  <2> QED BY <1>2, <2>1
<1>8. Distinct(t.recent)
  BY <1>5, <1>6, <1>7 DEF Distinct
<1>9. ASSUME NEW d \in Watching(t)
      PROVE  \E i \in DOMAIN t.recent : t.recent[i] = d
  <2>1. CASE d = c
    BY <1>6, <1>7, <2>1
  <2>2. CASE d # c
    <3>1. PICK i \in DOMAIN s.recent : s.recent[i] = d
      BY <1>3, <1>9, <2>2 DEF Attached, Ranked
    <3>2. PICK j \in DOMAIN left : left[j] = d
      BY <1>5, <2>2, <3>1
    <3> QED BY <1>6, <1>7, <3>2
  <2> QED BY <2>1, <2>2
<1>10. Attached(t)
  BY <1>2, <1>3, <1>4, <1>7, <1>8, <1>9 DEF Attached, Ranked
<1>11. ASSUME size = Unsized, c \notin Sized(s), Follows(s)
       PROVE  Follows(t)
  <2>1. Sized(t) = Sized(s) /\ c \notin Sized(t) /\ \A d \in Sized(s) : t.att[d] = s.att[d]
    BY <1>2, <1>4, <1>11 DEF Sized, Watching
  <2> SUFFICES ASSUME Sized(t) # {}, ~t.direct
               PROVE  Chosen(t)
    BY DEF Follows
  <2>2. Chosen(s)
    BY <1>2, <1>11, <2>1 DEF Follows
  <2>3. CASE s.policy = "min"
    BY <1>2, <2>1, <2>2, <2>3 DEF Chosen
  <2>4. CASE s.policy # "min"
    <3>1. PICK i \in DOMAIN s.recent :
                 /\ s.recent[i] \in Sized(s) /\ s.att[s.recent[i]] = s.size
                 /\ \A j \in DOMAIN s.recent : i < j => s.recent[j] \notin Sized(s)
      BY <2>2, <2>4 DEF Chosen
    <3>2. PICK k \in DOMAIN left : left[k] = s.recent[i]
      BY <1>5, <1>11, <3>1
    <3>3. k \in DOMAIN t.recent /\ t.recent[k] = s.recent[i]
      BY <1>6, <1>7, <3>2
    <3>4. ASSUME NEW j \in DOMAIN t.recent, k < j
          PROVE  t.recent[j] \notin Sized(t)
      <4>1. CASE j = Len(left) + 1
        BY <1>7, <2>1, <4>1
      <4>2. CASE j # Len(left) + 1
        <5>1. j \in DOMAIN left /\ t.recent[j] = left[j]
          BY <1>6, <1>7, <3>4, <4>2
        <5>2. PICK m \in DOMAIN s.recent, l \in DOMAIN s.recent :
                     m < l /\ s.recent[m] = left[k] /\ s.recent[l] = left[j]
          BY <1>5, <3>2, <3>4, <5>1
        <5>3. m = i
          BY <3>2, <5>2 DEF Attached, Ranked, Distinct
        <5> QED BY <2>1, <3>1, <5>1, <5>2, <5>3
      <4> QED BY <4>1, <4>2
    <3> QED BY <1>2, <2>1, <2>4, <3>1, <3>3, <3>4 DEF Chosen
  <2> QED BY <2>3, <2>4
<1> QED BY <1>10, <1>11 DEF t

LEMMA DroppedAttached ==
  ASSUME NEW s, Attached(s), NEW c
  PROVE  Attached(Drop(s, c))
<1> DEFINE t == Drop(s, c)
<1>1. PICK left : left = RemoveFirst(s.recent, c)
  OBVIOUS
<1>2. /\ Fields \subseteq DOMAIN t /\ t.recent = left
      /\ t.att = [d \in DOMAIN s.att \ {c} |-> s.att[d]]
  BY <1>1 DEF Drop, Attached, Fields
<1> HIDE DEF t
<1>3. Watching(t) = Watching(s) \ {c} /\ \A d \in Watching(t) : t.att[d] = s.att[d]
  BY <1>2 DEF Watching
<1>4. /\ left \in Seq(Watching(s) \ {c}) /\ Distinct(left)
      /\ \A i \in DOMAIN s.recent : s.recent[i] # c => \E j \in DOMAIN left : left[j] = s.recent[i]
  <2>1. s.recent \in Seq(Watching(s)) /\ Distinct(s.recent)
    BY DEF Attached, Ranked
  <2> DEFINE list == s.recent
             W == Watching(s)
  <2>2. list \in Seq(W) /\ Distinct(list) /\ left = RemoveFirst(list, c)
    BY <1>1, <2>1
  <2> HIDE DEF list, W
  <2>3. /\ left \in Seq(W \ {c}) /\ Distinct(left)
        /\ \A i \in DOMAIN list : list[i] # c => \E j \in DOMAIN left : left[j] = list[i]
    BY <2>2, Forgotten
  <2> QED BY <2>3 DEF list, W
<1>5. Ranked(t)
  <2>1. \A d \in Watching(t) : \E i \in DOMAIN left : left[i] = d
    BY <1>3, <1>4 DEF Attached, Ranked
  <2> QED BY <1>2, <1>3, <1>4, <2>1 DEF Ranked
<1>6. Attached(t)
  BY <1>2, <1>3, <1>5 DEF Attached
<1> QED BY <1>6 DEF t

-----------------------------------------------------------------------------
SizesInv == \A id \in Id : Attached(session[id]) /\ Follows(session[id])

LEMMA ClientSizes ==
  ASSUME NEW raw \in RawSize
  PROVE  Clamped(raw) \in SizeRecord /\ Declared(raw) \in SizeRecord /\ Unsized \in SizeRecord
<1>1. raw \in SizeRecord /\ MinSize \in SizeRecord /\ MaxSize \in SizeRecord
  BY PtydAssumption
<1>2. \A n, lo, hi \in Nat : Clamp(n, lo, hi) \in Nat
  BY DEF Clamp
<1>3. Clamped(raw) \in SizeRecord
  BY <1>1, <1>2 DEF Clamped, SizeRecord
<1>4. Unsized \in SizeRecord
  BY DEF Unsized, SizeRecord
<1> QED BY <1>3, <1>4 DEF Declared

LEMMA BlankFollows ==
  ASSUME NEW size, NEW policy
  PROVE  /\ Attached(Fresh(size, policy)) /\ Follows(Fresh(size, policy))
         /\ Attached(Gone(policy)) /\ Follows(Gone(policy))
<1>1. ASSUME NEW s, Fields \subseteq DOMAIN s, s.att = [c \in {} |-> Unsized], s.recent = <<>>
      PROVE  Attached(s) /\ Follows(s)
  <2>1. Watching(s) = {} /\ Sized(s) = {}
    BY <1>1 DEF Watching, Sized
  <2>2. s.recent \in Seq(Watching(s)) /\ DOMAIN s.recent = {}
    BY <1>1
  <2> QED BY <1>1, <2>1, <2>2 DEF Attached, Ranked, Distinct, Follows
<1>2. /\ Fields \subseteq DOMAIN Fresh(size, policy)
      /\ Fresh(size, policy).att = [c \in {} |-> Unsized] /\ Fresh(size, policy).recent = <<>>
  BY DEF Fresh, Fields
<1>3. /\ Fields \subseteq DOMAIN Gone(policy)
      /\ Gone(policy).att = [c \in {} |-> Unsized] /\ Gone(policy).recent = <<>>
  BY DEF Gone, Fresh, Fields
<1> QED BY <1>1, <1>2, <1>3

(* Nothing but the viewers and their windows matters. *)
LEMMA SameSizes ==
  ASSUME NEW s, Attached(s), NEW t, Fields \subseteq DOMAIN t,
         t.att = s.att, t.recent = s.recent, t.policy = s.policy
  PROVE  /\ Attached(t)
         /\ t.direct => Follows(t)
         /\ t.size = s.size /\ (s.direct => t.direct) /\ Follows(s) => Follows(t)
<1>1. Sized(t) = Sized(s) /\ Watching(t) = Watching(s)
  BY DEF Sized, Watching
<1>2. Attached(t)
  BY <1>1 DEF Attached, Ranked
<1>3. t.size = s.size => (Chosen(t) <=> Chosen(s))
  BY <1>1 DEF Chosen
<1> QED BY <1>1, <1>2, <1>3 DEF Follows

LEMMA OneFollows ==
  ASSUME SizesInv, Shape, NEW id \in Id, NEW s, Attached(s), Follows(s),
         session' = [session EXCEPT ![id] = s]
  PROVE  SizesInv'
BY DEF SizesInv, Shape

LEMMA StepFollows ==
  ASSUME IInv, SizesInv, [Next]_vars
  PROVE  SizesInv'
<1>1. ASSUME NEW id \in Id
      PROVE  Attached(session[id]) /\ Follows(session[id]) /\ Fields \subseteq DOMAIN session[id]
  BY DEF SizesInv, Attached
<1>2. Shape
  BY DEF IInv
<1>3. CASE UNCHANGED session
  BY <1>3 DEF SizesInv
<1>4. ASSUME NEW c \in Conn, NEW id \in Id, NEW raw \in RawSize, Create(c, id, raw)
      PROVE  SizesInv'
  <2>1. session' = [session EXCEPT ![id] = Fresh(Clamped(raw), session[id].policy)]
    BY <1>4 DEF Create
  <2> QED BY <1>2, <2>1, BlankFollows, OneFollows
<1>5. ASSUME NEW c \in Conn, NEW id \in Id, NEW force, Kill(c, id, force)
      PROVE  SizesInv'
  <2>1. UNCHANGED session \/ session' = [session EXCEPT ![id] = Gone(session[id].policy)]
    BY <1>5 DEF Kill
  <2> QED BY <1>2, <1>3, <2>1, BlankFollows, OneFollows
<1>6. ASSUME NEW c \in Conn, NEW id \in Id, NEW b, SetLock(c, id, b)
      PROVE  SizesInv'
  <2> DEFINE t == [session[id] EXCEPT !.locked = b]
  <2>1. /\ Fields \subseteq DOMAIN t /\ t.att = session[id].att /\ t.recent = session[id].recent
        /\ t.policy = session[id].policy /\ t.size = session[id].size /\ t.direct = session[id].direct
    BY <1>1 DEF Fields
  <2>2. session' = [session EXCEPT ![id] = t]
    BY <1>6 DEF SetLock
  <2> HIDE DEF t
  <2>3. Attached(t) /\ Follows(t)
    BY <1>1, <2>1, SameSizes
  <2> QED BY <1>2, <2>2, <2>3, OneFollows
<1>7. ASSUME NEW id \in Id, Exit(id)
      PROVE  SizesInv'
  <2> DEFINE t == [session[id] EXCEPT !.alive = FALSE]
  <2>1. /\ Fields \subseteq DOMAIN t /\ t.att = session[id].att /\ t.recent = session[id].recent
        /\ t.policy = session[id].policy /\ t.size = session[id].size /\ t.direct = session[id].direct
    BY <1>1 DEF Fields
  <2>2. session' = [session EXCEPT ![id] = t]
    BY <1>7 DEF Exit
  <2> HIDE DEF t
  <2>3. Attached(t) /\ Follows(t)
    BY <1>1, <2>1, SameSizes
  <2> QED BY <1>2, <2>2, <2>3, OneFollows
<1>8. ASSUME NEW c \in Conn, NEW id \in Id, NEW raw \in RawSize, Resize(c, id, raw)
      PROVE  SizesInv'
  <2> DEFINE size == Clamped(raw)
             typed == Touch(session[id], c, size)
             direct == [session[id] EXCEPT !.size = size, !.direct = TRUE]
  <2>1. \/ UNCHANGED session /\ ~isUsableSize(raw)
        \/ session' = [session EXCEPT ![id] = session[id]]
        \/ session' = [session EXCEPT ![id] = Reconciled(typed)]
        \/ session' = [session EXCEPT ![id] = direct]
    BY <1>8 DEF Resize, Become
  <2>2. size \in SizeRecord
    BY ClientSizes
  <2> HIDE DEF size
  <2>3. Attached(typed)
    BY <1>1, <2>2, TouchedAttached
  <2>4. Attached(Reconciled(typed)) /\ Follows(Reconciled(typed))
    BY <2>3, ReconciledChosen
  <2>5. /\ Fields \subseteq DOMAIN direct /\ direct.att = session[id].att /\ direct.recent = session[id].recent
        /\ direct.policy = session[id].policy /\ direct.direct
    BY <1>1 DEF Fields
  <2> HIDE DEF direct, typed
  <2>6. Attached(direct) /\ Follows(direct)
    BY <1>1, <2>5, SameSizes
  <2> QED BY <1>1, <1>2, <1>3, <2>1, <2>4, <2>6, OneFollows
<1>9. ASSUME NEW c \in Conn, NEW id \in Id, NEW raw \in RawSize, Subscribe(c, id, raw)
      PROVE  SizesInv'
  <2> DEFINE size == Declared(raw)
             joined == Touch(session[id], c, size)
             waits == [joined EXCEPT !.direct = @ \/ c \in Sized(session[id])]
  <2>1. \/ session' = [session EXCEPT ![id] = Reconciled(joined)]
        \/ ~isUsableSize(raw) /\ session' = [session EXCEPT ![id] = waits]
    BY <1>9 DEF Subscribe, Become
  <2>2. size \in SizeRecord /\ (~isUsableSize(raw) => size = Unsized)
    BY ClientSizes DEF Declared
  <2> HIDE DEF size
  <2>3. Attached(joined) /\ (size = Unsized /\ c \notin Sized(session[id]) => Follows(joined))
    BY <1>1, <2>2, TouchedAttached
  <2> HIDE DEF joined
  <2>4. Attached(Reconciled(joined)) /\ Follows(Reconciled(joined))
    BY <2>3, ReconciledChosen
  <2>5. /\ Fields \subseteq DOMAIN waits /\ waits.att = joined.att /\ waits.recent = joined.recent
        /\ waits.policy = joined.policy /\ waits.size = joined.size
        /\ waits.direct = (joined.direct \/ c \in Sized(session[id]))
    BY <2>3 DEF Attached, Fields
  <2> HIDE DEF waits
  <2>6. Attached(waits) /\ (size = Unsized => Follows(waits))
    BY <2>3, <2>5, SameSizes
  <2> QED BY <1>2, <2>1, <2>2, <2>4, <2>6, OneFollows
<1>10. ASSUME NEW c \in Conn, NEW id \in Id, Input(c, id)
       PROVE  SizesInv'
  <2> DEFINE size == session[id].att[c]
             typed == Touch(session[id], c, size)
  <2>1. \/ c \in Sized(session[id]) /\ session' = [session EXCEPT ![id] = Reconciled(typed)]
        \/ c \notin Sized(session[id]) /\ session' = [session EXCEPT ![id] = typed]
    BY <1>10 DEF Input, Become
  <2>2. size \in SizeRecord /\ (c \notin Sized(session[id]) => size = Unsized)
    BY <1>1, <1>10 DEF Input, Attached, Watching, Sized
  <2> HIDE DEF size
  <2>3. Attached(typed) /\ (c \notin Sized(session[id]) => Follows(typed))
    BY <1>1, <2>2, TouchedAttached
  <2> HIDE DEF typed
  <2>4. Attached(Reconciled(typed)) /\ Follows(Reconciled(typed))
    BY <2>3, ReconciledChosen
  <2> QED BY <1>2, <2>1, <2>3, <2>4, OneFollows
<1>11. ASSUME NEW c, NEW id \in table, session' = [session EXCEPT ![id] = Reconciled(Drop(session[id], c))]
       PROVE  SizesInv'
  <2>1. id \in Id
    BY <1>2, <1>11 DEF Shape
  <2>2. Attached(Drop(session[id], c))
    BY <1>1, <2>1, DroppedAttached
  <2>3. Attached(Reconciled(Drop(session[id], c))) /\ Follows(Reconciled(Drop(session[id], c)))
    BY <2>2, ReconciledChosen
  <2> QED BY <1>2, <1>11, <2>1, <2>3, OneFollows
<1>12. ASSUME NEW c \in Conn, NEW id \in Id, Unsubscribe(c, id)
       PROVE  SizesInv'
  BY <1>3, <1>11, <1>12 DEF Unsubscribe, Become
<1>13. ASSUME LeaveOne
       PROVE  SizesInv'
  BY <1>3, <1>11, <1>13 DEF LeaveOne, Become
<1>14. ASSUME NEW c \in Conn, \/ Connect(c) \/ Disconnect(c) \/ List(c) \/ Query(c) \/ Refuse(c)
                              \/ \E id \in Id : Rename(c, id)
       PROVE  SizesInv'
  BY <1>3, <1>14 DEF Connect, Disconnect, Close, List, Query, Refuse, Answered, Rename
<1>15. ASSUME NEW id \in Id, Output(id) \/ TitleChanges(id) \/ PollForeground(id)
       PROVE  SizesInv'
  BY <1>3, <1>15 DEF Output, TitleChanges, PollForeground, Noticed
<1>16. ASSUME Deliver \/ NextEvent \/ AnnounceViewers \/ SendOut \/ Reply
       PROVE  SizesInv'
  BY <1>3, <1>16 DEF Deliver, NextEvent, AnnounceViewers, SendOut, Reply, Write, Close
<1>17. ASSUME PersistNow \/ UNCHANGED vars
       PROVE  SizesInv'
  BY <1>3, <1>17 DEF PersistNow, vars
<1>18. CASE Callback
  BY <1>4, <1>5, <1>6, <1>7, <1>8, <1>9, <1>10, <1>12, <1>14, <1>15, <1>18 DEF Callback
<1>19. CASE Step
  BY <1>13, <1>16, <1>19 DEF Step
<1> QED BY <1>17, <1>18, <1>19 DEF Next

LEMMA InitSizes == Init => SizesInv
<1> SUFFICES ASSUME Init PROVE SizesInv
  OBVIOUS
<1>1. PICK p \in Policy : session = [id \in Id |-> Fresh(DefaultSize, p)]
  BY DEF Init
<1> QED BY <1>1, BlankFollows DEF SizesInv

(* Whatever the viewers do in whatever order, however many sessions and     *)
(* clients there are, and under either policy: once a viewer with a window  *)
(* joined, left, resized or typed, the session has the size its policy      *)
(* picks among the viewers that are there and have one.                     *)
THEOREM SizesFollowViewers == Spec => []SizeFollowsViewers
<1>1. IInv /\ SizesInv => SizeFollowsViewers
  <2> SUFFICES ASSUME IInv, SizesInv, NEW id \in table,
                      Sized(session[id]) # {}, ~session[id].direct
               PROVE  LET s == session[id] IN
                      IF s.policy = "min"
                      THEN /\ \A c \in Sized(s) : s.size.cols <= s.att[c].cols /\ s.size.rows <= s.att[c].rows
                           /\ \E c, d \in Sized(s) : s.size = [cols |-> s.att[c].cols, rows |-> s.att[d].rows]
                      ELSE \E i \in DOMAIN s.recent :
                             /\ s.att[s.recent[i]] = s.size
                             /\ \A j \in (i+1)..Len(s.recent) : s.recent[j] \notin Sized(s)
    BY DEF SizeFollowsViewers
  <2> DEFINE s == session[id]
  <2>1. Chosen(s) /\ DOMAIN s.recent = 1..Len(s.recent) /\ Len(s.recent) \in Nat
    BY DEF SizesInv, Follows, Attached, Ranked, IInv, Shape
  <2> HIDE DEF s
  <2>2. CASE s.policy = "min"
    BY <2>1, <2>2 DEF Chosen, s
  <2>3. CASE s.policy # "min"
    <3>1. PICK i \in DOMAIN s.recent :
                 /\ s.recent[i] \in Sized(s) /\ s.att[s.recent[i]] = s.size
                 /\ \A j \in DOMAIN s.recent : i < j => s.recent[j] \notin Sized(s)
      BY <2>1, <2>3 DEF Chosen
    <3>2. \A j \in (i+1)..Len(s.recent) : j \in DOMAIN s.recent /\ i < j
      BY <2>1
    <3> QED BY <2>3, <3>1, <3>2 DEF s
  <2> QED BY <2>2, <2>3
<1> QED BY <1>1, InitSizes, InitIInv, StepIInv, StepFollows, PTL DEF Spec

-----------------------------------------------------------------------------
(* The calls in progress, without their order. *)
Frames(calls) == {calls[i] : i \in DOMAIN calls}

(* Only closes, and what they announce, are nested in a fan-out. *)
Ordered(calls) ==
  \A i, j \in DOMAIN calls : i < j /\ calls[j].op = "fan" => calls[i].op \in {"leave", "announce"}

Fanless(calls) == \A f \in Frames(calls) : f.op # "fan"

(* The event that is being fanned out and has not reached c yet. *)
Due(c, calls) == {f.evt : f \in {g \in Frames(calls) : g.op = "fan" /\ c \in g.to}}

LEMMA PushedFrames ==
  ASSUME NEW calls, Nest(calls), NEW f
  PROVE  /\ Frames(<<f>> \o calls) = {f} \cup Frames(calls)
         /\ Ordered(calls) /\ (f.op \in {"leave", "announce"} \/ Fanless(calls))
              => Ordered(<<f>> \o calls)
<1>1. PICK S : calls \in Seq(S)
  BY DEF Nest
<1> DEFINE all == S \cup {f}
           new == <<f>> \o calls
<1>2. calls \in Seq(all) /\ <<f>> \in Seq(all)
  BY <1>1
<1>3. new \in Seq(all) /\ Len(new) = Len(calls) + 1 /\ new[1] = f
  BY <1>2
<1>4. \A i \in 1..Len(calls) : new[i + 1] = calls[i]
  BY <1>2
<1>5. DOMAIN new = 1..Len(new) /\ DOMAIN calls = 1..Len(calls) /\ Len(calls) \in Nat
  BY <1>2, <1>3
<1> HIDE DEF new
<1>6. \A i \in DOMAIN new : i = 1 \/ (i - 1 \in DOMAIN calls /\ new[i] = calls[i - 1])
  BY <1>3, <1>4, <1>5
<1>7. Frames(new) = {f} \cup Frames(calls)
  <2>1. \A i \in DOMAIN new : new[i] \in {f} \cup Frames(calls)
    BY <1>3, <1>6 DEF Frames
  <2>2. f \in Frames(new)
    BY <1>3, <1>5 DEF Frames
  <2>3. \A i \in DOMAIN calls : i + 1 \in DOMAIN new /\ new[i + 1] = calls[i]
    BY <1>3, <1>4, <1>5
  <2> QED BY <2>1, <2>2, <2>3 DEF Frames
<1>8. ASSUME Ordered(calls), f.op \in {"leave", "announce"} \/ Fanless(calls),
             NEW i \in DOMAIN new, NEW j \in DOMAIN new, i < j, new[j].op = "fan"
      PROVE  new[i].op \in {"leave", "announce"}
  <2>1. j - 1 \in DOMAIN calls /\ new[j] = calls[j - 1]
    BY <1>3, <1>5, <1>6, <1>8
  <2>2. CASE i = 1
    BY <1>3, <1>8, <2>1, <2>2 DEF Fanless, Frames
  <2>3. CASE i # 1
    BY <1>5, <1>6, <1>8, <2>1, <2>3 DEF Ordered
  <2> QED BY <2>2, <2>3
<1>9. Ordered(calls) /\ (f.op \in {"leave", "announce"} \/ Fanless(calls)) => Ordered(new)
  BY <1>8 DEF Ordered
<1> QED BY <1>7, <1>9 DEF new

LEMMA PoppedFrames ==
  ASSUME NEW calls, Nest(calls), calls # <<>>
  PROVE  /\ Frames(calls) = {Head(calls)} \cup Frames(Tail(calls))
         /\ Ordered(calls) =>
              /\ Ordered(Tail(calls))
              /\ Head(calls).op \in {"leave", "announce"} \/ Fanless(Tail(calls))
<1>1. PICK S : calls \in Seq(S)
  BY DEF Nest
<1> DEFINE old == Tail(calls)
<1>2. old \in Seq(S) /\ Len(old) = Len(calls) - 1 /\ Len(calls) \in Nat \ {0}
  BY <1>1
<1>3. \A i \in 1..Len(old) : old[i] = calls[i + 1]
  BY <1>1
<1>4. DOMAIN old = 1..Len(old) /\ DOMAIN calls = 1..Len(calls) /\ Head(calls) = calls[1]
  BY <1>1, <1>2
<1> HIDE DEF old
<1>5. \A i \in DOMAIN old : i + 1 \in DOMAIN calls /\ old[i] = calls[i + 1]
  BY <1>2, <1>3, <1>4
<1>6. \A i \in DOMAIN calls : i = 1 \/ (i - 1 \in DOMAIN old /\ calls[i] = old[i - 1])
  BY <1>2, <1>3, <1>4
<1>7. Frames(calls) = {Head(calls)} \cup Frames(old)
  <2>1. \A i \in DOMAIN calls : calls[i] \in {Head(calls)} \cup Frames(old)
    BY <1>4, <1>6 DEF Frames
  <2>2. Head(calls) \in Frames(calls)
    BY <1>2, <1>4 DEF Frames
  <2> QED BY <1>5, <2>1, <2>2 DEF Frames
<1>8. ASSUME Ordered(calls)
      PROVE  Ordered(old) /\ (Head(calls).op \in {"leave", "announce"} \/ Fanless(old))
  <2>1. Ordered(old)
    <3> SUFFICES ASSUME NEW i \in DOMAIN old, NEW j \in DOMAIN old, i < j, old[j].op = "fan"
                 PROVE  old[i].op \in {"leave", "announce"}
      BY DEF Ordered
    <3>1. i + 1 < j + 1 /\ calls[j + 1].op = "fan" /\ i + 1 \in DOMAIN calls /\ j + 1 \in DOMAIN calls
      BY <1>4, <1>5
    <3> QED BY <1>5, <1>8, <3>1 DEF Ordered
  <2>2. ASSUME NEW j \in DOMAIN old, old[j].op = "fan"
        PROVE  Head(calls).op \in {"leave", "announce"}
    <3>1. 1 < j + 1 /\ calls[j + 1].op = "fan" /\ 1 \in DOMAIN calls /\ j + 1 \in DOMAIN calls
      BY <1>2, <1>4, <1>5, <2>2
    <3> QED BY <1>4, <1>8, <3>1 DEF Ordered
  <2> QED BY <2>1, <2>2 DEF Fanless, Frames
<1> QED BY <1>7, <1>8 DEF old

LEMMA NoFrames == Frames(<<>>) = {} /\ Ordered(<<>>)
BY DEF Frames, Ordered

LEMMA FewFrames ==
  ASSUME NEW f
  PROVE  /\ Frames(<<f>>) = {f} /\ Ordered(<<f>>)
         /\ \A g : /\ Frames(<<f, g>>) = {f, g}
                   /\ g.op # "fan" => Ordered(<<f, g>>)
<1>1. Frames(<<f>>) = {f} /\ Ordered(<<f>>)
  BY DEF Frames, Ordered
<1>2. ASSUME NEW g
      PROVE  Frames(<<f, g>>) = {f, g} /\ (g.op # "fan" => Ordered(<<f, g>>))
  BY DEF Frames, Ordered
<1> QED BY <1>1, <1>2

LEMMA FourFrames ==
  ASSUME NEW f, NEW g, NEW h, NEW k, g.op # "fan", h.op # "fan", k.op # "fan"
  PROVE  Frames(<<f, g, h, k>>) = {f, g, h, k} /\ Ordered(<<f, g, h, k>>)
BY DEF Frames, Ordered

LEMMA Dispatching == dispatching <=> ~Fanless(stack)
BY DEF dispatching, Fanless, Frames

-----------------------------------------------------------------------------
(* A client that knows v knows k once it has heard what is due to it and    *)
(* what is queued.                                                          *)
Ends(due, q, v, k) ==
  \E g : /\ g[Len(q)] = k
         /\ IF due = {} THEN g[0] = v ELSE \E e \in due : g[0] = Told(v, e)
         /\ \A i \in 1..Len(q) : g[i] = Told(g[i - 1], q[i])

LEMMA EndsEmpty ==
  ASSUME NEW v, NEW k
  PROVE  Ends({}, <<>>, v, k) <=> k = v
<1>1. ASSUME Ends({}, <<>>, v, k)
      PROVE  k = v
  BY <1>1 DEF Ends
<1>2. Ends({}, <<>>, v, v)
  <2> DEFINE g == [i \in 0..0 |-> v]
  <2>1. g[Len(<<>>)] = v /\ g[0] = v /\ \A i \in 1..Len(<<>>) : g[i] = Told(g[i - 1], <<>>[i])
    OBVIOUS
  <2> HIDE DEF g
  <2> QED BY <2>1 DEF Ends
<1> QED BY <1>1, <1>2

LEMMA EndsRaised ==
  ASSUME NEW due, NEW q, Nest(q), NEW v, NEW k, Ends(due, q, v, k), NEW e
  PROVE  Ends(due, Append(q, e), v, Told(k, e))
<1>1. PICK S : q \in Seq(S)
  BY DEF Nest
<1> DEFINE n == Len(q)
           q2 == Append(q, e)
<1>2. n \in Nat /\ Len(q2) = n + 1 /\ q2[n + 1] = e /\ \A i \in 1..n : q2[i] = q[i]
  BY <1>1
<1> HIDE DEF q2
<1>3. PICK g : /\ g[n] = k
               /\ IF due = {} THEN g[0] = v ELSE \E d \in due : g[0] = Told(v, d)
               /\ \A i \in 1..n : g[i] = Told(g[i - 1], q[i])
  BY DEF Ends
<1> DEFINE h == [i \in 0..n + 1 |-> IF i <= n THEN g[i] ELSE Told(k, e)]
<1> HIDE DEF n
<1>4. h[n + 1] = Told(k, e) /\ h[0] = g[0] /\ \A i \in 0..n : h[i] = g[i]
  BY <1>2
<1>5. ASSUME NEW i \in 1..n + 1
      PROVE  h[i] = Told(h[i - 1], q2[i])
  <2>1. CASE i = n + 1
    <3>1. h[i] = Told(k, e) /\ h[i - 1] = k /\ q2[i] = e
      BY <1>2, <1>3, <1>4, <2>1
    <3> QED BY <3>1
  <2>2. CASE i # n + 1
    <3>1. i \in 1..n /\ h[i] = g[i] /\ h[i - 1] = g[i - 1] /\ q2[i] = q[i]
      BY <1>2, <1>4, <2>2
    <3> QED BY <1>3, <3>1
  <2> QED BY <2>1, <2>2
<1> HIDE DEF h
<1>6. Ends(due, q2, v, Told(k, e))
  BY <1>2, <1>3, <1>4, <1>5 DEF Ends
<1> QED BY <1>6 DEF q2

LEMMA EndsNext ==
  ASSUME NEW q, Nest(q), q # <<>>, NEW v, NEW k, Ends({}, q, v, k)
  PROVE  Ends({Head(q)}, Tail(q), v, k)
<1>1. PICK S : q \in Seq(S)
  BY DEF Nest
<1> DEFINE n == Len(q)
           q2 == Tail(q)
<1>2. n \in Nat \ {0} /\ Len(q2) = n - 1 /\ Head(q) = q[1] /\ \A i \in 1..n - 1 : q2[i] = q[i + 1]
  BY <1>1
<1> HIDE DEF q2
<1>3. PICK g : /\ g[n] = k /\ g[0] = v
               /\ \A i \in 1..n : g[i] = Told(g[i - 1], q[i])
  BY DEF Ends
<1> HIDE DEF n
<1> DEFINE h == [i \in 0..n - 1 |-> g[i + 1]]
<1>4. h[n - 1] = k /\ h[0] = g[1] /\ \A i \in 1..n - 1 : h[i] = g[i + 1] /\ h[i - 1] = g[i]
  BY <1>2, <1>3
<1>5. h[0] = Told(v, Head(q))
  BY <1>2, <1>3, <1>4
<1>6. \A i \in 1..n - 1 : h[i] = Told(h[i - 1], q2[i])
  <2> TAKE i \in 1..n - 1
  <2>1. i + 1 \in 1..n /\ (i + 1) - 1 = i
    BY <1>2
  <2>2. g[i + 1] = Told(g[i], q[i + 1])
    BY <1>3, <2>1
  <2> QED BY <1>2, <1>4, <2>2
<1> HIDE DEF h
<1>7. Ends({Head(q)}, q2, v, k)
  BY <1>2, <1>4, <1>5, <1>6 DEF Ends
<1> QED BY <1>7 DEF q2

LEMMA EndsTold ==
  ASSUME NEW e, NEW q, NEW v, NEW k, Ends({e}, q, v, k)
  PROVE  Ends({}, q, Told(v, e), k)
BY DEF Ends

-----------------------------------------------------------------------------
(* What a client knows. *)
IsView(k) == k = [id \in Id |-> k[id]]

(* m is what session s is like, but for the number of its viewers. *)
Near(m, s) == m = [size |-> s.size, viewers |-> m.viewers, locked |-> s.locked, alive |-> s.alive]

Known(m, id, tab, s, calls) ==
  \/ m = Unknown
  \/ /\ id \in tab /\ Near(m, s)
     /\ m.viewers = Cardinality(Watching(s)) \/ Announce(id) \in Frames(calls)

Agrees(k, tab, ses, calls) == IsView(k) /\ \A id \in Id : Known(k[id], id, tab, ses[id], calls)

LEMMA ToldCases ==
  ASSUME NEW k, NEW e
  PROVE  /\ e.ev = "created" => Told(k, e) = [k EXCEPT ![e.id] = e.val]
         /\ e.ev = "removed" => Told(k, e) = [k EXCEPT ![e.id] = Unknown]
         /\ e.ev \notin {"created", "removed"} /\ k[e.id] = Unknown => Told(k, e) = k
         /\ k[e.id] # Unknown =>
              /\ e.ev = "resized" => Told(k, e) = [k EXCEPT ![e.id].size = e.val]
              /\ e.ev = "viewers" => Told(k, e) = [k EXCEPT ![e.id].viewers = e.val]
              /\ e.ev = "locked" => Told(k, e) = [k EXCEPT ![e.id].locked = e.val]
              /\ e.ev = "exited" => Told(k, e) = [k EXCEPT ![e.id].alive = FALSE]
         /\ e.ev \notin {"created", "removed", "resized", "viewers", "locked", "exited"} => Told(k, e) = k
<1>1. CASE e.ev = "created" BY <1>1 DEF Told
<1>2. CASE e.ev = "removed" BY <1>2 DEF Told
<1>3. CASE e.ev \notin {"created", "removed"} /\ k[e.id] = Unknown BY <1>3 DEF Told
<1>4. CASE e.ev = "resized" /\ k[e.id] # Unknown BY <1>4 DEF Told
<1>5. CASE e.ev = "viewers" /\ k[e.id] # Unknown BY <1>5 DEF Told
<1>6. CASE e.ev = "locked" /\ k[e.id] # Unknown BY <1>6 DEF Told
<1>7. CASE e.ev = "exited" /\ k[e.id] # Unknown BY <1>7 DEF Told
<1>8. CASE e.ev \notin {"created", "removed", "resized", "viewers", "locked", "exited"} BY <1>8 DEF Told
<1> QED BY <1>1, <1>2, <1>3, <1>4, <1>5, <1>6, <1>7, <1>8

LEMMA ToldView ==
  ASSUME NEW k, IsView(k), NEW e
  PROVE  /\ IsView(Told(k, e))
         /\ \A id \in Id : id # e.id => Told(k, e)[id] = k[id]
<1>1. ASSUME NEW x
      PROVE  /\ IsView([k EXCEPT ![e.id] = x])
             /\ \A id \in Id : id # e.id => [k EXCEPT ![e.id] = x][id] = k[id]
  BY DEF IsView
<1>2. Told(k, e) = k \/ \E x : Told(k, e) = [k EXCEPT ![e.id] = x]
  <2>1. CASE k[e.id] = Unknown /\ e.ev \notin {"created", "removed"}
    BY <2>1, ToldCases
  <2>2. CASE e.ev \in {"created", "removed"}
    <3>1. Told(k, e) = [k EXCEPT ![e.id] = e.val] \/ Told(k, e) = [k EXCEPT ![e.id] = Unknown]
      BY <2>2, ToldCases
    <3> QED BY <3>1
  <2>3. CASE k[e.id] # Unknown /\ e.ev \in {"resized", "viewers", "locked", "exited"}
    <3>1. \/ Told(k, e) = [k EXCEPT ![e.id] = [k[e.id] EXCEPT !.size = e.val]]
          \/ Told(k, e) = [k EXCEPT ![e.id] = [k[e.id] EXCEPT !.viewers = e.val]]
          \/ Told(k, e) = [k EXCEPT ![e.id] = [k[e.id] EXCEPT !.locked = e.val]]
          \/ Told(k, e) = [k EXCEPT ![e.id] = [k[e.id] EXCEPT !.alive = FALSE]]
      BY <2>3, ToldCases
    <3> QED BY <3>1
  <2>4. CASE e.ev \notin {"created", "removed", "resized", "viewers", "locked", "exited"}
    BY <2>4, ToldCases
  <2> QED BY <2>1, <2>2, <2>3, <2>4
<1>3. CASE Told(k, e) = k
  BY <1>3
<1>4. ASSUME NEW x, Told(k, e) = [k EXCEPT ![e.id] = x]
      PROVE  IsView(Told(k, e)) /\ \A id \in Id : id # e.id => Told(k, e)[id] = k[id]
  BY <1>1, <1>4
<1> QED BY <1>2, <1>3, <1>4

(* What one event does to what is known of its session. *)
LEMMA ToldCreated ==
  ASSUME NEW k, IsView(k), NEW id \in Id, NEW x
  PROVE  Told(k, created(id, x))[id] = x
<1>1. created(id, x).id = id /\ created(id, x).ev = "created" /\ created(id, x).val = x
  BY DEF created
<1>2. Told(k, created(id, x)) = [k EXCEPT ![id] = x]
  BY <1>1, ToldCases
<1> QED BY <1>2 DEF IsView

LEMMA ToldRemoved ==
  ASSUME NEW k, IsView(k), NEW id \in Id
  PROVE  Told(k, removed(id))[id] = Unknown
<1>1. removed(id).id = id /\ removed(id).ev = "removed"
  BY DEF removed
<1>2. Told(k, removed(id)) = [k EXCEPT ![id] = Unknown]
  <2>1. Told(k, removed(id)) = [k EXCEPT ![removed(id).id] = Unknown]
    BY <1>1, ToldCases
  <2> QED BY <1>1, <2>1
<1> QED BY <1>2 DEF IsView

LEMMA ToldNothing ==
  ASSUME NEW k, NEW id
  PROVE  Told(k, labelled(id)) = k /\ Told(k, proc(id)) = k
<1>1. labelled(id).ev = "label" /\ proc(id).ev = "proc"
  BY DEF labelled, proc
<1> QED BY <1>1, ToldCases

(* A change of one field of a session that is known of. *)
Changes(e) == e.ev \in {"resized", "viewers", "locked", "exited"}

LEMMA ToldUnknown ==
  ASSUME NEW k, NEW e, Changes(e), k[e.id] = Unknown
  PROVE  Told(k, e) = k
BY ToldCases DEF Changes

LEMMA ToldField ==
  ASSUME NEW k, IsView(k), NEW e, e.id \in Id, Changes(e), e.ev # "exited", k[e.id] # Unknown,
         NEW s, Near(k[e.id], s), NEW a, NEW b, NEW c,
         a = IF e.ev = "resized" THEN e.val ELSE s.size,
         b = IF e.ev = "viewers" THEN e.val ELSE k[e.id].viewers,
         c = IF e.ev = "locked" THEN e.val ELSE s.locked
  PROVE  Told(k, e)[e.id] = [size |-> a, viewers |-> b, locked |-> c, alive |-> s.alive]
<1> DEFINE id == e.id
           m == k[id]
           x == e.val
<1>1. \A y : [k EXCEPT ![id] = y][id] = y
  BY DEF IsView
<1>2. m = [size |-> s.size, viewers |-> m.viewers, locked |-> s.locked, alive |-> s.alive]
  BY DEF Near
<1>3. CASE e.ev = "resized"
  <2>1. Told(k, e) = [k EXCEPT ![id] = [m EXCEPT !.size = x]]
    BY <1>3, ToldCases
  <2>2. [m EXCEPT !.size = x] = [size |-> x, viewers |-> m.viewers, locked |-> s.locked, alive |-> s.alive]
    BY <1>2
  <2> QED BY <1>1, <1>3, <2>1, <2>2
<1>4. CASE e.ev = "viewers"
  <2>1. Told(k, e) = [k EXCEPT ![id] = [m EXCEPT !.viewers = x]]
    BY <1>4, ToldCases
  <2>2. [m EXCEPT !.viewers = x] = [size |-> s.size, viewers |-> x, locked |-> s.locked, alive |-> s.alive]
    BY <1>2
  <2> QED BY <1>1, <1>4, <2>1, <2>2
<1>5. CASE e.ev = "locked"
  <2>1. Told(k, e) = [k EXCEPT ![id] = [m EXCEPT !.locked = x]]
    BY <1>5, ToldCases
  <2>2. [m EXCEPT !.locked = x] = [size |-> s.size, viewers |-> m.viewers, locked |-> x, alive |-> s.alive]
    BY <1>2
  <2> QED BY <1>1, <1>5, <2>1, <2>2
<1> QED BY <1>3, <1>4, <1>5 DEF Changes

LEMMA ToldExited ==
  ASSUME NEW k, IsView(k), NEW e, e.id \in Id, e.ev = "exited", k[e.id] # Unknown,
         NEW s, Near(k[e.id], s)
  PROVE  Told(k, e)[e.id] = [size |-> s.size, viewers |-> k[e.id].viewers, locked |-> s.locked, alive |-> FALSE]
<1> DEFINE id == e.id
           m == k[id]
<1>1. Told(k, e) = [k EXCEPT ![id] = [m EXCEPT !.alive = FALSE]]
  BY ToldCases
<1>2. m = [size |-> s.size, viewers |-> m.viewers, locked |-> s.locked, alive |-> s.alive]
  BY DEF Near
<1>3. \A y : [m EXCEPT !.alive = y] = [size |-> s.size, viewers |-> m.viewers, locked |-> s.locked, alive |-> y]
  BY <1>2
<1>4. [m EXCEPT !.alive = FALSE] = [size |-> s.size, viewers |-> m.viewers, locked |-> s.locked, alive |-> FALSE]
  BY <1>3
<1> QED BY <1>1, <1>4 DEF IsView

-----------------------------------------------------------------------------
(* A session is described in a reply only while it is there. *)
MetaSends(calls, tab) ==
  \A f \in Frames(calls) : f.op = "send" => (f.what = "meta" => f.id \in tab)

CInv ==
  /\ Nest(queue)
  /\ Ordered(stack)
  /\ ~dispatching => queue = <<>>
  /\ MetaSends(stack, table)
  /\ view = [c \in Conn |-> view[c]] /\ \A c \in Conn : IsView(view[c])
  /\ \A c \in Conn \ listeners : \A id \in Id : view[c][id] = Unknown
  /\ \A c \in listeners : \E k : /\ Ends(Due(c, stack), queue, view[c], k)
                                 /\ Agrees(k, table, session, stack)

(* What is nested in calls, of the kinds that matter here. *)
Keeps(old, new) ==
  /\ Nest(new) /\ Ordered(new)
  /\ Fanless(new) <=> Fanless(old)
  /\ \A c : Due(c, new) = Due(c, old)

(* Broadcast puts the event behind what is due and queued. *)
LEMMA RaisedEnds ==
  ASSUME CInv, NEW rest, Keeps(stack, rest), NEW e, Broadcast(e, rest)
  PROVE  /\ Nest(queue') /\ Nest(stack') /\ Ordered(stack') /\ dispatching'
         /\ Frames(rest) \subseteq Frames(stack')
         /\ Frames(stack') \subseteq Frames(rest) \cup {Fan(NoEvent, {})}
         /\ \A c : Due(c, stack') = Due(c, stack)
         /\ \A c, v, k : Ends(Due(c, stack), queue, v, k) => Ends(Due(c, stack'), queue', v, Told(k, e))
<1>1. queue' = Append(queue, e) /\ Nest(queue)
  BY DEF Broadcast, CInv
<1>2. Nest(queue')
  <2>1. PICK S : queue \in Seq(S)
    BY <1>1 DEF Nest
  <2>2. Append(queue, e) \in Seq(S \cup {e})
    BY <2>1
  <2> QED BY <1>1, <2>2 DEF Nest
<1>3. /\ Nest(stack') /\ Ordered(stack') /\ dispatching' /\ Frames(rest) \subseteq Frames(stack')
      /\ Frames(stack') \subseteq Frames(rest) \cup {Fan(NoEvent, {})}
      /\ \A c : Due(c, stack') = Due(c, stack)
  <2>1. CASE dispatching
    <3>1. stack' = rest /\ ~Fanless(rest)
      BY <2>1, Dispatching DEF Broadcast, Keeps
    <3>2. dispatching'
      BY <3>1 DEF dispatching, Fanless, Frames
    <3> QED BY <3>1, <3>2 DEF Keeps
  <2>2. CASE ~dispatching
    <3> DEFINE f == Fan(NoEvent, {})
    <3>1. stack' = <<f>> \o rest /\ Fanless(rest)
      BY <2>2, Dispatching DEF Broadcast, Keeps
    <3>2. f.op = "fan" /\ f.to = {}
      BY DEF Fan
    <3>3. f \in Frames(stack')
      <4> HIDE DEF f
      <4> QED BY <3>1, PushedFrames DEF Keeps
    <3>4. Nest(stack') /\ Ordered(stack') /\ Frames(stack') = {f} \cup Frames(rest)
      <4> HIDE DEF f
      <4> QED BY <3>1, PushedCall, PushedFrames DEF Keeps
    <3> HIDE DEF f
    <3>5. dispatching'
      BY <3>2, <3>3 DEF dispatching, Frames
    <3>6. \A c : Due(c, stack') = Due(c, rest)
      BY <3>2, <3>4 DEF Due
    <3> QED BY <3>4, <3>5, <3>6 DEF Keeps, f
  <2> QED BY <2>1, <2>2
<1>4. ASSUME NEW c, NEW v, NEW k, Ends(Due(c, stack), queue, v, k)
      PROVE  Ends(Due(c, stack'), queue', v, Told(k, e))
  BY <1>1, <1>3, <1>4, EndsRaised
<1> QED BY <1>2, <1>3, <1>4

LEMMA AgreesOn ==
  ASSUME NEW k, NEW tab, NEW ses, NEW old, NEW new, Agrees(k, tab, ses, old),
         \A id \in Id : Announce(id) \in Frames(old) => Announce(id) \in Frames(new)
  PROVE  Agrees(k, tab, ses, new)
BY DEF Agrees, Known

(* A session changes, and the event that tells of it is raised, or the      *)
(* announcement of its viewers is still to come.                            *)
LEMMA ChangeAgrees ==
  ASSUME NEW tab, NEW ses, NEW ses2, NEW old, NEW new, NEW e, Changes(e), e.id \in Id,
         \A other \in Id \ {e.id} : ses2[other] = ses[other],
         \A other \in Id \ {e.id} : Announce(other) \in Frames(old) => Announce(other) \in Frames(new),
         ses2[e.id].size = IF e.ev = "resized" THEN e.val ELSE ses[e.id].size,
         ses2[e.id].locked = IF e.ev = "locked" THEN e.val ELSE ses[e.id].locked,
         e.ev = "exited" => ses2[e.id].alive = FALSE,
         e.ev # "exited" => ses2[e.id].alive = ses[e.id].alive,
         \/ e.ev = "viewers" /\ e.val = Cardinality(Watching(ses2[e.id]))
         \/ e.ev # "viewers" /\ Announce(e.id) \in Frames(new)
         \/ /\ e.ev # "viewers" /\ Announce(e.id) \notin Frames(old)
            /\ Watching(ses2[e.id]) = Watching(ses[e.id]),
         NEW k, Agrees(k, tab, ses, old)
  PROVE  Agrees(Told(k, e), tab, ses2, new)
<1> DEFINE id == e.id
           s == ses[id]
           t == ses2[id]
<1>1. IsView(k) /\ Known(k[id], id, tab, s, old)
  BY DEF Agrees
<1>2. IsView(Told(k, e)) /\ \A other \in Id : other # id => Told(k, e)[other] = k[other]
  BY <1>1, ToldView
<1>3. \A other \in Id : other # id => Known(Told(k, e)[other], other, tab, ses2[other], new)
  BY <1>2 DEF Agrees, Known
<1>4. Known(Told(k, e)[id], id, tab, t, new)
  <2>1. CASE k[id] = Unknown
    BY <2>1, ToldUnknown DEF Known
  <2>2. CASE k[id] # Unknown
    <3>1. /\ id \in tab /\ Near(k[id], s)
          /\ k[id].viewers = Cardinality(Watching(s)) \/ Announce(id) \in Frames(old)
      BY <1>1, <2>2 DEF Known
    <3> DEFINE n == IF e.ev = "viewers" THEN e.val ELSE k[id].viewers
               m == [size |-> t.size, viewers |-> n, locked |-> t.locked, alive |-> t.alive]
    <3>2. Told(k, e)[id] = m
      <4>1. CASE e.ev = "exited"
        <5>1. Told(k, e)[id] = [size |-> s.size, viewers |-> k[id].viewers, locked |-> s.locked, alive |-> FALSE]
          BY <1>1, <2>2, <3>1, <4>1, ToldExited
        <5>2. t.size = s.size /\ t.locked = s.locked /\ t.alive = FALSE /\ n = k[id].viewers
          BY <4>1
        <5> QED BY <5>1, <5>2
      <4>2. CASE e.ev # "exited"
        <5>1. /\ t.size = IF e.ev = "resized" THEN e.val ELSE s.size
              /\ t.locked = IF e.ev = "locked" THEN e.val ELSE s.locked
              /\ t.alive = s.alive
          BY <4>2
        <5> QED BY <1>1, <2>2, <3>1, <4>2, <5>1, ToldField
      <4> QED BY <4>1, <4>2
    <3>3. n = Cardinality(Watching(t)) \/ Announce(id) \in Frames(new)
      <4>1. CASE e.ev = "viewers"
        BY <4>1
      <4>2. CASE e.ev # "viewers" /\ Announce(id) \notin Frames(new)
        BY <3>1, <4>2
      <4> QED BY <4>1, <4>2
    <3>4. m.viewers = n /\ Near(m, t)
      BY DEF Near
    <3> HIDE DEF m, n, id, s, t
    <3> QED BY <3>1, <3>2, <3>3, <3>4 DEF Known
  <2> QED BY <2>1, <2>2
<1> QED BY <1>2, <1>3, <1>4 DEF Agrees

(* A step that raises an event. *)
LEMMA RaisedCInv ==
  ASSUME CInv, NEW rest, Keeps(stack, rest), NEW e, Broadcast(e, rest), UNCHANGED <<listeners, view>>,
         MetaSends(rest, table'),
         \A k : Agrees(k, table, session, stack) => Agrees(Told(k, e), table', session', rest)
  PROVE  CInv'
<1>1. /\ Nest(queue') /\ Nest(stack') /\ Ordered(stack') /\ dispatching'
      /\ Frames(rest) \subseteq Frames(stack')
      /\ Frames(stack') \subseteq Frames(rest) \cup {Fan(NoEvent, {})}
      /\ \A c, v, k : Ends(Due(c, stack), queue, v, k) => Ends(Due(c, stack'), queue', v, Told(k, e))
  BY RaisedEnds
<1>2. MetaSends(stack', table')
  BY <1>1 DEF MetaSends, Fan
<1>3. ASSUME NEW c \in listeners
      PROVE  \E k : Ends(Due(c, stack'), queue', view'[c], k) /\ Agrees(k, table', session', stack')
  <2>1. PICK k : Ends(Due(c, stack), queue, view[c], k) /\ Agrees(k, table, session, stack)
    BY DEF CInv
  <2>2. Ends(Due(c, stack'), queue', view'[c], Told(k, e))
    BY <1>1, <2>1
  <2>3. Agrees(Told(k, e), table', session', rest)
    BY <2>1
  <2>4. Agrees(Told(k, e), table', session', stack')
    BY <1>1, <2>3, AgreesOn
  <2> QED BY <2>2, <2>4
<1> QED BY <1>1, <1>2, <1>3 DEF CInv

(* A step that raises none. *)
LEMMA QuietCInv ==
  ASSUME CInv, Keeps(stack, stack'), UNCHANGED <<queue, listeners, view>>,
         MetaSends(stack', table'),
         \A k : Agrees(k, table, session, stack) => Agrees(k, table', session', stack')
  PROVE  CInv'
<1>1. dispatching' => dispatching
  BY Dispatching DEF Keeps, dispatching, Fanless, Frames
<1>2. dispatching => dispatching'
  BY Dispatching DEF Keeps, dispatching, Fanless, Frames
<1>3. ASSUME NEW c \in listeners
      PROVE  \E k : Ends(Due(c, stack'), queue', view'[c], k) /\ Agrees(k, table', session', stack')
  BY DEF CInv, Keeps
<1> QED BY <1>1, <1>2, <1>3 DEF CInv, Keeps

(* A session's viewers or size change: a new size is raised, another number *)
(* of viewers is going to be announced.                                     *)
LEMMA BecomeCInv ==
  ASSUME CInv, Shape, NEW id \in table, NEW s, NEW rest, Keeps(stack, rest), MetaSends(rest, table),
         Become(id, s, rest), UNCHANGED <<table, listeners, view>>,
         s.locked = session[id].locked, s.alive = session[id].alive,
         \A other \in Id : Announce(other) \in Frames(stack) => Announce(other) \in Frames(rest),
         Announce(id) \in Frames(rest) \/ Watching(s) = Watching(session[id])
  PROVE  CInv'
<1>1. id \in Id /\ session' = [session EXCEPT ![id] = s]
  BY DEF Shape, Become
<1>2. session'[id] = s /\ \A other \in Id \ {id} : session'[other] = session[other]
  BY <1>1 DEF Shape
<1>3. ASSUME NEW k, Agrees(k, table, session, stack), NEW other \in Id, other # id
      PROVE  Known(k[other], other, table', session'[other], rest)
  BY <1>2, <1>3 DEF Agrees, Known
<1>4. CASE s.size # session[id].size
  <2> DEFINE e == resized(id, s.size)
  <2>1. Broadcast(e, rest) /\ e.id = id /\ e.ev = "resized" /\ e.val = s.size
    BY <1>4 DEF Become, resized
  <2> HIDE DEF e
  <2>2. ASSUME NEW k, Agrees(k, table, session, stack)
        PROVE  Agrees(Told(k, e), table', session', rest)
    <3>1. Changes(e) /\ e.id \in Id
      BY <1>1, <2>1 DEF Changes
    <3>2. \/ e.ev # "viewers" /\ Announce(e.id) \in Frames(rest)
          \/ /\ e.ev # "viewers" /\ Announce(e.id) \notin Frames(stack)
             /\ Watching(session'[e.id]) = Watching(session[e.id])
      BY <1>1, <1>2, <2>1
    <3>3. /\ session'[e.id].size = IF e.ev = "resized" THEN e.val ELSE session[e.id].size
          /\ session'[e.id].locked = IF e.ev = "locked" THEN e.val ELSE session[e.id].locked
          /\ e.ev # "exited" /\ session'[e.id].alive = session[e.id].alive
      BY <1>2, <2>1
    <3>4. \A other \in Id \ {e.id} :
            /\ session'[other] = session[other]
            /\ Announce(other) \in Frames(stack) => Announce(other) \in Frames(rest)
      BY <1>2, <2>1
    <3>5. Agrees(Told(k, e), table, session', rest)
      BY <2>2, <3>1, <3>2, <3>3, <3>4, ChangeAgrees
    <3> QED BY <3>5
  <2> QED BY <2>1, <2>2, RaisedCInv
<1>5. CASE s.size = session[id].size
  <2>1. stack' = rest /\ UNCHANGED queue
    BY <1>5 DEF Become, Continue
  <2>2. ASSUME NEW k, Agrees(k, table, session, stack)
        PROVE  Agrees(k, table', session', rest)
    <3>1. IsView(k) /\ Known(k[id], id, table, session[id], stack)
      BY <1>1, <2>2 DEF Agrees
    <3>2. Known(k[id], id, table', session'[id], rest)
      BY <1>1, <1>2, <1>5, <3>1 DEF Known, Near
    <3> QED BY <1>3, <2>2, <3>1, <3>2 DEF Agrees
  <2> QED BY <2>1, <2>2, QuietCInv
<1> QED BY <1>4, <1>5

(* A write: the client reads the frame, or is closed, or is gone already. *)
LEMMA WriteCInv ==
  ASSUME CInv, Shape, NEW c, NEW told, NEW rest, Write(c, told, rest), UNCHANGED table,
         Nest(rest), Ordered(rest), Fanless(rest) <=> Fanless(stack), MetaSends(rest, table),
         \A d : d # c => Due(d, rest) = Due(d, stack),
         \A id \in Id : Announce(id) \in Frames(stack) => Announce(id) \in Frames(rest),
         c \in listeners =>
           \E k : Ends(Due(c, rest), queue, told, k) /\ Agrees(k, table, session, rest) /\ IsView(told)
  PROVE  CInv'
<1>1. UNCHANGED <<session, queue>> /\ Nest(queue)
  BY DEF Write, Close, Continue, CInv
<1>2. dispatching <=> ~Fanless(rest)
  BY Dispatching
<1>3. ASSUME NEW d \in listeners, d # c
      PROVE  \E k : Ends(Due(d, rest), queue, view[d], k) /\ Agrees(k, table, session, rest)
  BY <1>3, AgreesOn DEF CInv
<1>4. CASE c \in listeners /\ view' = [view EXCEPT ![c] = told] /\ stack' = rest /\ UNCHANGED listeners
  <2>1. c \in Conn
    BY <1>4 DEF Shape
  <2>2. /\ view' = [d \in Conn |-> view'[d]] /\ view'[c] = told
        /\ \A d \in Conn : d # c => view'[d] = view[d]
    BY <1>4, <2>1 DEF CInv
  <2>3. \A d \in Conn : IsView(view'[d])
    BY <1>4, <2>2 DEF CInv
  <2>4. \A d \in listeners : \E k : Ends(Due(d, stack'), queue', view'[d], k) /\ Agrees(k, table', session', stack')
    BY <1>1, <1>3, <1>4, <2>2 DEF Shape
  <2>5. ~dispatching' => queue' = <<>>
    BY <1>1, <1>2, <1>4 DEF CInv, dispatching, Fanless, Frames
  <2>6. \A d \in Conn \ listeners' : \A id \in Id : view'[d][id] = Unknown
    BY <1>4, <2>2 DEF CInv
  <2> QED BY <1>1, <1>4, <2>2, <2>3, <2>4, <2>5, <2>6 DEF CInv
<1>5. CASE c \in listeners /\ Close(c, rest)
  <2> DEFINE f == Leave(c)
  <2>1. c \in Conn /\ listeners' = listeners \ {c} /\ f.op = "leave"
    BY <1>5 DEF Close, Shape, Leave
  <2>2. /\ view' = [d \in Conn |-> view'[d]] /\ view'[c] = [id \in Id |-> Unknown]
        /\ \A d \in Conn : d # c => view'[d] = view[d]
    BY <1>5, <2>1 DEF CInv, Close
  <2>3. stack' = <<f>> \o rest
    BY <1>5 DEF Close
  <2> HIDE DEF f
  <2>4. Nest(stack') /\ Ordered(stack') /\ Frames(stack') = {f} \cup Frames(rest)
    BY <2>1, <2>3, PushedCall, PushedFrames
  <2>5. \A d : Due(d, stack') = Due(d, rest)
    BY <2>1, <2>4 DEF Due
  <2>6. ~dispatching' => queue' = <<>>
    <3>1. ~dispatching' => Fanless(rest)
      BY <2>4 DEF dispatching, Fanless, Frames
    <3> QED BY <1>1, <1>2, <3>1 DEF CInv
  <2>7. MetaSends(stack', table')
    BY <2>1, <2>4 DEF MetaSends
  <2>8. \A d \in Conn : IsView(view'[d])
    BY <2>2 DEF CInv, IsView
  <2>9. ASSUME NEW d \in listeners'
        PROVE  \E k : Ends(Due(d, stack'), queue', view'[d], k) /\ Agrees(k, table', session', stack')
    <3>1. PICK k : Ends(Due(d, rest), queue, view[d], k) /\ Agrees(k, table, session, rest)
      BY <1>3, <2>1, <2>9
    <3>2. Agrees(k, table, session, stack')
      BY <2>4, <3>1, AgreesOn
    <3>3. view'[d] = view[d]
      BY <2>1, <2>2, <2>9 DEF Shape
    <3> QED BY <1>1, <2>5, <3>1, <3>2, <3>3
  <2>10. \A d \in Conn \ listeners' : \A id \in Id : view'[d][id] = Unknown
    BY <2>1, <2>2 DEF CInv
  <2> QED BY <1>1, <2>2, <2>4, <2>6, <2>7, <2>8, <2>9, <2>10 DEF CInv
<1>6. CASE c \notin listeners /\ stack' = rest /\ UNCHANGED <<listeners, view>>
  <2>1. \A d \in listeners : \E k : Ends(Due(d, stack'), queue', view'[d], k) /\ Agrees(k, table', session', stack')
    BY <1>1, <1>3, <1>6
  <2>2. ~dispatching' => queue' = <<>>
    BY <1>1, <1>2, <1>6 DEF CInv, dispatching, Fanless, Frames
  <2> QED BY <1>1, <1>6, <2>1, <2>2 DEF CInv
<1> QED BY <1>4, <1>5, <1>6 DEF Write, Continue

-----------------------------------------------------------------------------
(* The stack when a call ends, goes on or calls another. *)

LEMMA IdleKeeps ==
  ASSUME Idle, NEW rest, Nest(rest), Ordered(rest), Fanless(rest)
  PROVE  Keeps(stack, rest) /\ Frames(stack) = {} /\ Fanless(stack)
<1>1. Frames(stack) = {} /\ Fanless(stack)
  BY NoFrames DEF Idle, Fanless
<1> QED BY <1>1 DEF Keeps, Due, Fanless

LEMMA PushedKeeps ==
  ASSUME Nest(stack), Ordered(stack), NEW f, f.op \in {"leave", "announce"}
  PROVE  /\ Keeps(stack, <<f>> \o stack)
         /\ Frames(<<f>> \o stack) = {f} \cup Frames(stack)
<1>1. /\ Nest(<<f>> \o stack) /\ Frames(<<f>> \o stack) = {f} \cup Frames(stack)
      /\ Ordered(<<f>> \o stack)
  BY PushedCall, PushedFrames
<1> DEFINE new == <<f>> \o stack
<1> HIDE DEF new
<1>2. Keeps(stack, new)
  BY <1>1 DEF Keeps, Fanless, Due, new
<1> QED BY <1>1, <1>2 DEF new

LEMMA TopCall ==
  ASSUME Nest(stack), Ordered(stack), NEW op, Top(op)
  PROVE  /\ Nest(Rest) /\ Ordered(Rest) /\ Frames(stack) = {Head(stack)} \cup Frames(Rest)
         /\ Head(stack).op = op
         /\ op \notin {"leave", "announce"} => Fanless(Rest)
         /\ op # "fan" => Keeps(stack, Rest)
<1>1. stack # <<>> /\ Head(stack).op = op
  BY DEF Top, Idle
<1>2. Nest(Rest)
  BY <1>1, PoppedCall DEF Rest
<1>3. /\ Frames(stack) = {Head(stack)} \cup Frames(Rest) /\ Ordered(Rest)
      /\ Head(stack).op \in {"leave", "announce"} \/ Fanless(Rest)
  BY <1>1, PoppedFrames DEF Rest
<1>4. op # "fan" => Keeps(stack, Rest)
  BY <1>1, <1>2, <1>3 DEF Keeps, Fanless, Due
<1> QED BY <1>1, <1>2, <1>3, <1>4

(* The call that a step goes on as is no close and no fan-out. *)
LEMMA TopGoesOn ==
  ASSUME Nest(stack), Ordered(stack), NEW op, Top(op), op \notin {"leave", "announce", "fan"}, NEW f, f.op # "fan"
  PROVE  /\ Keeps(stack, <<f>> \o Rest)
         /\ Frames(<<f>> \o Rest) = {f} \cup Frames(Rest)
<1> DEFINE old == Rest
           new == <<f>> \o old
<1>1. /\ Nest(old) /\ Ordered(old) /\ Frames(stack) = {Head(stack)} \cup Frames(old)
      /\ Fanless(old) /\ Head(stack).op = op
  BY TopCall
<1> HIDE DEF old
<1>2. Nest(new) /\ Frames(new) = {f} \cup Frames(old) /\ Ordered(new)
  BY <1>1, PushedCall, PushedFrames
<1> HIDE DEF new
<1>3. Keeps(stack, new)
  BY <1>1, <1>2 DEF Keeps, Fanless, Due
<1> QED BY <1>2, <1>3 DEF new, old

LEMMA SendFrames ==
  ASSUME NEW c, NEW what, NEW id
  PROVE  /\ Send(c, what, id).op = "send" /\ Send(c, what, id).id = id /\ Send(c, what, id).what = what
         /\ SendTo(c, what).op = "send" /\ SendTo(c, what).what = what
         /\ Announce(id).op = "announce"
         /\ \A to : Out(id, to).op = "out"
BY DEF Send, SendTo, Announce, Out

LEMMA OneCall ==
  ASSUME Idle, NEW f, f.op # "fan"
  PROVE  Keeps(stack, <<f>>) /\ Frames(<<f>>) = {f} /\ Frames(stack) = {}
<1>1. Nest(<<f>>) /\ Frames(<<f>>) = {f} /\ Ordered(<<f>>)
  BY SomeCalls, FewFrames
<1>2. Fanless(<<f>>)
  BY <1>1 DEF Fanless
<1> QED BY <1>1, <1>2, IdleKeeps

(* A session keeps what it is locked by and whether its shell lives. *)
LEMMA SameFlags ==
  ASSUME NEW s, NEW c, NEW size
  PROVE  /\ Touch(s, c, size).locked = s.locked /\ Touch(s, c, size).alive = s.alive
         /\ Drop(s, c).locked = s.locked /\ Drop(s, c).alive = s.alive
         /\ Reconciled(s).locked = s.locked /\ Reconciled(s).alive = s.alive
<1>1. Touch(s, c, size).locked = s.locked /\ Touch(s, c, size).alive = s.alive
  BY DEF Touch
<1>2. Drop(s, c).locked = s.locked /\ Drop(s, c).alive = s.alive
  BY DEF Drop
<1>3. Reconciled(s).locked = s.locked /\ Reconciled(s).alive = s.alive
  <2> DEFINE w == Winner(s)
             r == [s EXCEPT !.size = w, !.direct = FALSE]
  <2>1. r.locked = s.locked /\ r.alive = s.alive
    <3> HIDE DEF w
    <3> QED OBVIOUS
  <2>2. Reconciled(s) = s \/ Reconciled(s) = r
    BY DEF Reconciled
  <2> HIDE DEF r
  <2> QED BY <2>1, <2>2
<1> QED BY <1>1, <1>2, <1>3

-----------------------------------------------------------------------------
(* The callbacks. *)

LEMMA ConnectCInv ==
  ASSUME IInv, CInv, NEW c \in Conn, Connect(c)
  PROVE  CInv'
<1>1. /\ Idle /\ c \notin listeners /\ listeners' = listeners \cup {c}
      /\ UNCHANGED <<table, session, queue, stack, view>>
  BY DEF Connect
<1>2. queue = <<>> /\ Frames(stack) = {} /\ \A d : Due(d, stack) = {}
  <2>1. Frames(stack) = {}
    BY <1>1, NoFrames DEF Idle
  <2>2. ~dispatching
    BY <2>1, Dispatching DEF Fanless
  <2> QED BY <2>1, <2>2 DEF CInv, Due
<1>3. Ends(Due(c, stack), queue, view[c], view[c])
  BY <1>2, EndsEmpty
<1>4. Agrees(view[c], table, session, stack)
  BY <1>1 DEF Agrees, Known, CInv
<1>5. dispatching' = dispatching
  BY <1>1 DEF dispatching
<1> QED BY <1>1, <1>3, <1>4, <1>5 DEF CInv

LEMMA DisconnectCInv ==
  ASSUME IInv, CInv, NEW c \in Conn, Disconnect(c)
  PROVE  CInv'
<1>1. Close(c, stack) /\ c \in listeners /\ UNCHANGED table
  BY DEF Disconnect
<1>2. Write(c, view[c], stack)
  BY <1>1 DEF Write
<1>3. Shape /\ Nest(stack)
  BY DEF IInv, Shape
<1>4. \E k : Ends(Due(c, stack), queue, view[c], k) /\ Agrees(k, table, session, stack) /\ IsView(view[c])
  BY <1>1 DEF CInv
<1> DEFINE rest == stack
<1>5. Write(c, view[c], rest) /\ Nest(rest) /\ Ordered(rest) /\ (Fanless(rest) <=> Fanless(stack)) /\ MetaSends(rest, table)
  BY <1>2, <1>3 DEF CInv
<1>6. \A d : Due(d, rest) = Due(d, stack)
  OBVIOUS
<1> QED BY <1>1, <1>3, <1>4, <1>5, <1>6, WriteCInv

LEMMA AnsweredCInv ==
  ASSUME IInv, CInv, NEW c, NEW what, what # "meta", Answered(c, what)
  PROVE  CInv'
<1> DEFINE f == SendTo(c, what)
<1>1. Idle /\ stack' = <<f>> /\ UNCHANGED <<table, session, listeners, queue, view>>
  BY DEF Answered, Request
<1>2. f.op = "send" /\ f.what = what
  BY DEF SendTo
<1> HIDE DEF f
<1>3. Keeps(stack, stack') /\ Frames(stack') = {f} /\ Frames(stack) = {}
  BY <1>1, <1>2, OneCall
<1>4. MetaSends(stack', table')
  BY <1>2, <1>3 DEF MetaSends
<1>5. ASSUME NEW k, Agrees(k, table, session, stack)
      PROVE  Agrees(k, table', session', stack')
  BY <1>1, <1>3, <1>5 DEF Agrees, Known
<1> QED BY <1>1, <1>3, <1>4, <1>5, QuietCInv

(* Between callbacks a client is told of a session what it is like. *)
LEMMA ExactAtRest ==
  ASSUME Idle, NEW k, Agrees(k, table, session, stack)
  PROVE  /\ IsView(k) /\ Frames(stack) = {}
         /\ \A id \in Id : k[id] = Unknown \/ (id \in table /\ k[id] = MetaOf(session[id]))
<1>1. Frames(stack) = {}
  BY NoFrames DEF Idle
<1> QED BY <1>1 DEF Agrees, Known, Near, MetaOf

LEMMA CreateCInv ==
  ASSUME IInv, CInv, NEW c \in Conn, NEW id \in Id, NEW size, Create(c, id, size)
  PROVE  CInv'
<1> DEFINE s == Fresh(Clamped(size), session[id].policy)
           m == MetaOf(session'[id])
           e == created(id, m)
           f == Send(c, "meta", id)
           rest == <<f>>
<1>1. /\ Idle /\ id \notin table /\ table' = table \cup {id} /\ session' = [session EXCEPT ![id] = s]
      /\ Broadcast(e, rest) /\ UNCHANGED <<listeners, view>>
  BY DEF Create, Request
<1>2. f.op = "send" /\ f.id = id
  BY SendFrames
<1> HIDE DEF f
<1>3. Keeps(stack, rest) /\ Frames(rest) = {f} /\ Frames(stack) = {}
  BY <1>1, <1>2, OneCall
<1>4. MetaSends(rest, table')
  BY <1>1, <1>2, <1>3 DEF MetaSends
<1>5. session'[id] = s /\ \A other \in Id \ {id} : session'[other] = session[other]
  BY <1>1 DEF IInv, Shape
<1>6. e.id = id
  BY DEF created
<1> HIDE DEF rest, s
<1>7. ASSUME NEW k, Agrees(k, table, session, stack)
      PROVE  Agrees(Told(k, e), table', session', rest)
  <2>1. IsView(k)
    BY <1>7 DEF Agrees
  <2>2. Told(k, e)[id] = m
    <3> HIDE DEF m
    <3> QED BY <2>1, ToldCreated
  <2>3. IsView(Told(k, e)) /\ \A other \in Id : other # id => Told(k, e)[other] = k[other]
    <3> HIDE DEF e
    <3> QED BY <1>6, <2>1, ToldView
  <2>4. Known(m, id, table', session'[id], rest)
    <3>1. id \in table'
      BY <1>1
    <3>2. m.viewers = Cardinality(Watching(session'[id])) /\ Near(m, session'[id])
      BY DEF MetaOf, Near
    <3> HIDE DEF m
    <3> QED BY <3>1, <3>2 DEF Known
  <2>5. ASSUME NEW other \in Id, other # id
        PROVE  Known(k[other], other, table', session'[other], rest)
    BY <1>1, <1>3, <1>5, <1>7, <2>5 DEF Agrees, Known
  <2> HIDE DEF e, m
  <2> QED BY <2>2, <2>3, <2>4, <2>5 DEF Agrees
<1> HIDE DEF e
<1> QED BY <1>1, <1>3, <1>4, <1>7, RaisedCInv

LEMMA KillCInv ==
  ASSUME IInv, CInv, NEW c \in Conn, NEW id \in Id, NEW force, Kill(c, id, force)
  PROVE  CInv'
<1>1. Idle /\ id \in table /\ UNCHANGED <<listeners, view>>
  BY DEF Kill, Request
<1>2. CASE session[id].locked /\ ~force
  <2> DEFINE f == SendTo(c, "fail")
  <2>1. stack' = <<f>> /\ UNCHANGED <<table, session, queue>>
    BY <1>2 DEF Kill, Continue
  <2>2. f.op = "send" /\ f.what = "fail"
    BY DEF SendTo
  <2> HIDE DEF f
  <2>3. Keeps(stack, stack') /\ Frames(stack') = {f} /\ Frames(stack) = {}
    BY <1>1, <2>1, <2>2, OneCall
  <2>4. MetaSends(stack', table')
    BY <2>2, <2>3 DEF MetaSends
  <2>5. ASSUME NEW k, Agrees(k, table, session, stack)
        PROVE  Agrees(k, table', session', stack')
    BY <2>1, <2>3, <2>5 DEF Agrees, Known
  <2> QED BY <1>1, <2>1, <2>3, <2>4, <2>5, QuietCInv
<1>3. CASE ~(session[id].locked /\ ~force)
  <2> DEFINE f == SendTo(c, "ok")
             rest == <<f>>
             e == removed(id)
  <2>1. /\ session' = [session EXCEPT ![id] = Gone(session[id].policy)] /\ table' = table \ {id}
        /\ Broadcast(e, rest)
    BY <1>3 DEF Kill
  <2>2. f.op = "send" /\ f.what = "ok"
    BY DEF SendTo
  <2> HIDE DEF f
  <2>3. Keeps(stack, rest) /\ Frames(rest) = {f} /\ Frames(stack) = {}
    BY <1>1, <2>2, OneCall
  <2>4. MetaSends(rest, table')
    BY <2>2, <2>3 DEF MetaSends
  <2>5. \A other \in Id \ {id} : session'[other] = session[other]
    BY <2>1 DEF IInv, Shape
  <2>6. e.id = id
    BY DEF removed
  <2> HIDE DEF rest
  <2>7. ASSUME NEW k, Agrees(k, table, session, stack)
        PROVE  Agrees(Told(k, e), table', session', rest)
    <3>1. IsView(k)
      BY <2>7 DEF Agrees
    <3>2. Told(k, e)[id] = Unknown
      BY <3>1, ToldRemoved
    <3>3. IsView(Told(k, e)) /\ \A other \in Id : other # id => Told(k, e)[other] = k[other]
      <4> HIDE DEF e
      <4> QED BY <2>6, <3>1, ToldView
    <3>4. ASSUME NEW other \in Id, other # id
          PROVE  Known(k[other], other, table', session'[other], rest)
      BY <2>1, <2>3, <2>5, <2>7, <3>4 DEF Agrees, Known
    <3> HIDE DEF e
    <3> QED BY <3>2, <3>3, <3>4 DEF Agrees, Known
  <2> HIDE DEF e
  <2> QED BY <1>1, <2>1, <2>3, <2>4, <2>7, RaisedCInv
<1> QED BY <1>2, <1>3

(* One session's flag changes, and an event tells of it. *)
LEMMA FlagCInv ==
  ASSUME IInv, SizesInv, CInv, Idle, NEW id \in table, NEW s, NEW rest, Keeps(stack, rest), MetaSends(rest, table),
         session' = [session EXCEPT ![id] = s], UNCHANGED <<table, listeners, view>>,
         s.size = session[id].size, Watching(s) = Watching(session[id]),
         NEW e, e.id = id, e.ev \in {"locked", "exited"}, Broadcast(e, rest),
         s.locked = IF e.ev = "locked" THEN e.val ELSE session[id].locked,
         e.ev = "exited" => s.alive = FALSE,
         e.ev # "exited" => s.alive = session[id].alive
  PROVE  CInv'
<1>1. id \in Id /\ Frames(stack) = {}
  BY NoFrames DEF Idle, IInv, Shape
<1>2. session'[id] = s /\ \A other \in Id \ {id} : session'[other] = session[other]
  BY <1>1 DEF IInv, Shape
<1>3. ASSUME NEW k, Agrees(k, table, session, stack)
      PROVE  Agrees(Told(k, e), table', session', rest)
  <2>1. Changes(e) /\ e.ev \notin {"viewers", "resized"}
    BY DEF Changes
  <2>2. /\ session'[e.id].size = session[e.id].size
        /\ session'[e.id].locked = IF e.ev = "locked" THEN e.val ELSE session[e.id].locked
        /\ e.ev = "exited" => session'[e.id].alive = FALSE
        /\ e.ev # "exited" => session'[e.id].alive = session[e.id].alive
        /\ Watching(session'[e.id]) = Watching(session[e.id])
    BY <1>2
  <2>3. \A other \in Id \ {e.id} :
          /\ session'[other] = session[other]
          /\ Announce(other) \in Frames(stack) => Announce(other) \in Frames(rest)
    BY <1>1, <1>2
  <2>4. Agrees(Told(k, e), table, session', rest)
    BY <1>1, <1>3, <2>1, <2>2, <2>3, ChangeAgrees
  <2> QED BY <2>4
<1> QED BY <1>3, RaisedCInv

LEMMA SetLockCInv ==
  ASSUME IInv, SizesInv, CInv, NEW c \in Conn, NEW id \in Id, NEW b, SetLock(c, id, b)
  PROVE  CInv'
<1> DEFINE s == [session[id] EXCEPT !.locked = b]
           f == Send(c, "meta", id)
           rest == <<f>>
           e == lockedEvt(id, b)
<1>1. /\ Idle /\ id \in table /\ session' = [session EXCEPT ![id] = s] /\ UNCHANGED <<table, listeners, view>>
      /\ IF session[id].locked # b THEN Broadcast(e, rest) ELSE Continue(rest)
  BY DEF SetLock, Request
<1>2. f.op = "send" /\ f.id = id
  BY DEF Send
<1> HIDE DEF f
<1>3. Keeps(stack, rest) /\ Frames(rest) = {f} /\ Frames(stack) = {}
  BY <1>1, <1>2, OneCall
<1>4. MetaSends(rest, table)
  BY <1>1, <1>2, <1>3 DEF MetaSends
<1>5. "locked" \in DOMAIN session[id]
  BY DEF SizesInv, Attached, Fields
<1>6. /\ s.size = session[id].size /\ s.alive = session[id].alive /\ s.locked = b
      /\ Watching(s) = Watching(session[id])
  BY <1>5 DEF Watching
<1> HIDE DEF rest, s
<1>7. CASE session[id].locked # b
  <2>1. e.id = id /\ e.ev = "locked" /\ e.val = b
    BY DEF lockedEvt
  <2>2. Broadcast(e, rest)
    BY <1>1, <1>7
  <2> HIDE DEF e
  <2>3. /\ s.locked = IF e.ev = "locked" THEN e.val ELSE session[id].locked
        /\ e.ev \in {"locked", "exited"} /\ e.ev # "exited"
    BY <1>6, <2>1
  <2> QED BY <1>1, <1>3, <1>4, <1>6, <2>1, <2>2, <2>3, FlagCInv
<1>8. CASE session[id].locked = b
  <2>1. stack' = rest /\ UNCHANGED queue
    BY <1>1, <1>8 DEF Continue
  <2>2. session'[id] = s /\ \A other \in Id \ {id} : session'[other] = session[other]
    BY <1>1 DEF IInv, Shape
  <2>3. ASSUME NEW k, Agrees(k, table, session, stack)
        PROVE  Agrees(k, table', session', stack')
    <3>1. Known(k[id], id, table', session'[id], stack')
      BY <1>1, <1>3, <1>6, <1>8, <2>1, <2>2, <2>3 DEF Agrees, Known, Near
    <3>2. \A other \in Id : other # id => Known(k[other], other, table', session'[other], stack')
      BY <1>1, <1>3, <2>1, <2>2, <2>3 DEF Agrees, Known
    <3> QED BY <2>3, <3>1, <3>2 DEF Agrees
  <2> QED BY <1>1, <1>3, <1>4, <2>1, <2>3, QuietCInv
<1> QED BY <1>7, <1>8

LEMMA ExitCInv ==
  ASSUME IInv, SizesInv, CInv, NEW id \in Id, Exit(id)
  PROVE  CInv'
<1> DEFINE s == [session[id] EXCEPT !.alive = FALSE]
           e == exited(id)
<1>1. /\ Idle /\ id \in table /\ session' = [session EXCEPT ![id] = s] /\ UNCHANGED <<table, listeners, view>>
      /\ Broadcast(e, <<>>)
  BY DEF Exit
<1>2. "alive" \in DOMAIN session[id]
  BY DEF SizesInv, Attached, Fields
<1>3. s.size = session[id].size /\ s.locked = session[id].locked /\ Watching(s) = Watching(session[id])
  BY DEF Watching
<1>4. s.alive = FALSE
  BY <1>2
<1>5. e.id = id /\ e.ev = "exited"
  BY DEF exited
<1>6. Keeps(stack, <<>>) /\ MetaSends(<<>>, table)
  <2>1. Nest(<<>>) /\ Ordered(<<>>) /\ Frames(<<>>) = {}
    BY <1>1, NoFrames DEF Idle, IInv, Shape
  <2>2. Fanless(<<>>) /\ MetaSends(<<>>, table)
    BY <2>1 DEF Fanless, MetaSends
  <2> QED BY <1>1, <2>1, <2>2, IdleKeeps
<1> HIDE DEF s, e
<1>7. PICK rest : rest = <<>>
  OBVIOUS
<1>8. /\ Broadcast(e, rest) /\ Keeps(stack, rest) /\ MetaSends(rest, table)
      /\ s.locked = IF e.ev = "locked" THEN e.val ELSE session[id].locked
      /\ e.ev \in {"locked", "exited"} /\ (e.ev # "exited" => s.alive = session[id].alive)
  BY <1>1, <1>3, <1>5, <1>6, <1>7
<1> QED BY <1>1, <1>3, <1>4, <1>5, <1>8, FlagCInv

(* An event that tells nothing of what is modelled. *)
LEMMA NoticeCInv ==
  ASSUME IInv, CInv, NEW rest, Keeps(stack, rest), MetaSends(rest, table), NEW e, Broadcast(e, rest),
         UNCHANGED <<table, session, listeners, view>>, Idle,
         \A k : Told(k, e) = k
  PROVE  CInv'
<1>1. Frames(stack) = {}
  BY NoFrames DEF Idle
<1>2. ASSUME NEW k, Agrees(k, table, session, stack)
      PROVE  Agrees(Told(k, e), table', session', rest)
  BY <1>1, <1>2 DEF Agrees, Known
<1> QED BY <1>2, RaisedCInv

LEMMA RenameCInv ==
  ASSUME IInv, CInv, NEW c \in Conn, NEW id \in Id, Rename(c, id)
  PROVE  CInv'
<1> DEFINE f == Send(c, "meta", id)
           rest == <<f>>
           e == labelled(id)
<1>1. /\ Broadcast(e, rest) /\ Idle /\ id \in table /\ UNCHANGED <<table, session, listeners, view>>
  BY DEF Rename, Request
<1>2. f.op = "send" /\ f.id = id
  BY DEF Send
<1>3. \A k : Told(k, e) = k
  BY ToldNothing
<1> HIDE DEF f, e
<1>4. Keeps(stack, rest) /\ Frames(rest) = {f}
  BY <1>1, <1>2, OneCall
<1>5. MetaSends(rest, table)
  BY <1>1, <1>2, <1>4 DEF MetaSends
<1> HIDE DEF rest
<1> QED BY <1>1, <1>3, <1>4, <1>5, NoticeCInv

LEMMA NoticedCInv ==
  ASSUME IInv, CInv, NEW id, NEW e, Noticed(id, e), \A k : Told(k, e) = k
  PROVE  CInv'
<1>1. /\ Broadcast(e, <<>>) /\ Idle /\ UNCHANGED <<table, session, listeners, view>>
  BY DEF Noticed
<1>2. Keeps(stack, <<>>) /\ MetaSends(<<>>, table)
  <2>1. Nest(<<>>) /\ Ordered(<<>>) /\ Frames(<<>>) = {}
    BY <1>1, NoFrames DEF Idle, IInv, Shape
  <2>2. Fanless(<<>>) /\ MetaSends(<<>>, table)
    BY <2>1 DEF Fanless, MetaSends
  <2> QED BY <1>1, <2>1, <2>2, IdleKeeps
<1> QED BY <1>1, <1>2, NoticeCInv

LEMMA OutputCInv ==
  ASSUME IInv, CInv, NEW id, Output(id)
  PROVE  CInv'
<1> DEFINE f == Out(id, Watching(session[id]))
<1>1. Idle /\ stack' = <<f>> /\ UNCHANGED <<table, session, listeners, queue, view>>
  BY DEF Output
<1>2. f.op = "out"
  BY DEF Out
<1> HIDE DEF f
<1>3. Keeps(stack, stack') /\ Frames(stack') = {f} /\ Frames(stack) = {}
  BY <1>1, <1>2, OneCall
<1>4. MetaSends(stack', table')
  BY <1>2, <1>3 DEF MetaSends
<1>5. ASSUME NEW k, Agrees(k, table, session, stack)
      PROVE  Agrees(k, table', session', stack')
  BY <1>1, <1>3, <1>5 DEF Agrees, Known
<1> QED BY <1>1, <1>3, <1>4, <1>5, QuietCInv

-----------------------------------------------------------------------------
(* Between callbacks: the sizes or viewers of a session change, and a call  *)
(* in rest announces the viewers if they may have changed.                  *)
LEMMA RestingBecome ==
  ASSUME IInv, CInv, Idle, NEW id \in table, NEW s, NEW rest, Nest(rest), Ordered(rest),
         Fanless(rest), MetaSends(rest, table), Become(id, s, rest), UNCHANGED <<table, listeners, view>>,
         s.locked = session[id].locked, s.alive = session[id].alive,
         Announce(id) \in Frames(rest) \/ Watching(s) = Watching(session[id])
  PROVE  CInv'
<1>1. Keeps(stack, rest) /\ Frames(stack) = {}
  BY IdleKeeps
<1>2. \A other \in Id : Announce(other) \in Frames(stack) => Announce(other) \in Frames(rest)
  BY <1>1
<1>3. Shape
  BY DEF IInv
<1> QED BY <1>1, <1>2, <1>3, BecomeCInv

LEMMA RestingSends ==
  ASSUME NEW id, NEW c, NEW rest, id \in table,
         \/ rest = <<Send(c, "size", id)>>
         \/ rest = <<Announce(id), Send(c, "meta", id), Send(c, "snapshot", id), Send(c, "ready", id)>>
         \/ rest = <<Announce(id), SendTo(c, "ok")>>
  PROVE  /\ Nest(rest) /\ Ordered(rest) /\ Fanless(rest) /\ MetaSends(rest, table)
         /\ rest # <<Send(c, "size", id)>> => Announce(id) \in Frames(rest)
<1>1. CASE rest = <<Send(c, "size", id)>>
  <2> DEFINE f == Send(c, "size", id)
  <2>1. f.op = "send" /\ f.id = id
    BY SendFrames
  <2> HIDE DEF f
  <2>2. rest = <<f>>
    BY <1>1 DEF f
  <2>3. Nest(rest) /\ Frames(rest) = {f} /\ Ordered(rest)
    BY <2>2, SomeCalls, FewFrames
  <2>4. Fanless(rest) /\ MetaSends(rest, table)
    BY <2>1, <2>3 DEF Fanless, MetaSends
  <2> QED BY <1>1, <2>3, <2>4
<1>2. CASE rest = <<Announce(id), Send(c, "meta", id), Send(c, "snapshot", id), Send(c, "ready", id)>>
  <2> DEFINE f == Announce(id)
             g == Send(c, "meta", id)
             h == Send(c, "snapshot", id)
             k == Send(c, "ready", id)
  <2>1. /\ f.op = "announce" /\ g.op = "send" /\ h.op = "send" /\ k.op = "send"
        /\ g.id = id /\ h.id = id /\ k.id = id
    BY SendFrames
  <2>2. rest = <<f, g, h, k>>
    BY <1>2
  <2> HIDE DEF f, g, h, k
  <2>3. Nest(rest)
    BY <2>2, SomeCalls
  <2>4. Frames(rest) = {f, g, h, k} /\ Ordered(rest)
    BY <2>1, <2>2, FourFrames
  <2>5. Fanless(rest) /\ MetaSends(rest, table)
    BY <2>1, <2>4 DEF Fanless, MetaSends
  <2> QED BY <2>3, <2>4, <2>5 DEF f
<1>3. CASE rest = <<Announce(id), SendTo(c, "ok")>>
  <2> DEFINE f == Announce(id)
             g == SendTo(c, "ok")
  <2>1. f.op = "announce" /\ g.op = "send" /\ g.what = "ok"
    BY DEF Announce, SendTo
  <2>2. rest = <<f, g>>
    BY <1>3
  <2> HIDE DEF f, g
  <2>3. Nest(rest) /\ Frames(rest) = {f, g} /\ Ordered(rest)
    BY <2>1, <2>2, SomeCalls, FewFrames
  <2>4. Fanless(rest) /\ MetaSends(rest, table)
    BY <2>1, <2>3 DEF Fanless, MetaSends
  <2> QED BY <2>3, <2>4 DEF f
<1> QED BY <1>1, <1>2, <1>3

LEMMA SameWatchers ==
  ASSUME NEW s, NEW c, c \in Watching(s), NEW size, "att" \in DOMAIN s
  PROVE  /\ Watching(Touch(s, c, size)) = Watching(s)
         /\ Watching(Reconciled(Touch(s, c, size))) = Watching(s)
<1> DEFINE t == Touch(s, c, size)
<1>1. "att" \in DOMAIN t /\ Watching(t) = Watching(s) \cup {c}
  BY Watchers
<1> HIDE DEF t
<1>2. Watching(Reconciled(t)) = Watching(t)
  BY <1>1, Watchers
<1> QED BY <1>1, <1>2 DEF t

LEMMA ResizeCInv ==
  ASSUME IInv, SizesInv, CInv, NEW c \in Conn, NEW id \in Id, NEW raw, Resize(c, id, raw)
  PROVE  CInv'
<1> DEFINE s == session[id]
           t == Touch(s, c, Clamped(raw))
           u == [s EXCEPT !.size = Clamped(raw), !.direct = TRUE]
           next == IF ~isUsableSize(raw) THEN s
                   ELSE IF c \in Watching(s) THEN Reconciled(t) ELSE u
           rest == <<Send(c, "size", id)>>
<1>1. Become(id, next, rest) /\ Idle /\ id \in table /\ UNCHANGED <<table, listeners, view>>
  BY DEF Resize, Request
<1>2. Nest(rest) /\ Ordered(rest) /\ Fanless(rest) /\ MetaSends(rest, table)
  BY <1>1, RestingSends
<1>3. u.locked = s.locked /\ u.alive = s.alive /\ Watching(u) = Watching(s)
  BY DEF Watching
<1>4. c \in Watching(s) => Watching(Reconciled(t)) = Watching(s)
  BY SameWatchers DEF IInv, Shape
<1>5. Reconciled(t).locked = s.locked /\ Reconciled(t).alive = s.alive
  <2>1. t.locked = s.locked /\ t.alive = s.alive
    BY SameFlags
  <2> HIDE DEF t
  <2> QED BY <2>1, SameFlags
<1> HIDE DEF u, t, rest
<1>6. next.locked = s.locked /\ next.alive = s.alive /\ Watching(next) = Watching(s)
  BY <1>3, <1>4, <1>5
<1> HIDE DEF next
<1> QED BY <1>1, <1>2, <1>6, RestingBecome

LEMMA SubscribeCInv ==
  ASSUME IInv, SizesInv, CInv, NEW c \in Conn, NEW id \in Id, NEW raw, Subscribe(c, id, raw)
  PROVE  CInv'
<1> DEFINE s == session[id]
           t == Touch(s, c, Declared(raw))
           u == [t EXCEPT !.direct = t.direct \/ c \in Sized(s)]
           next == IF isUsableSize(raw) THEN Reconciled(t) ELSE u
           rest == <<Announce(id), Send(c, "meta", id), Send(c, "snapshot", id), Send(c, "ready", id)>>
<1>1. Become(id, next, rest) /\ Idle /\ id \in table /\ UNCHANGED <<table, listeners, view>>
  BY DEF Subscribe, Request
<1>2. Nest(rest) /\ Ordered(rest) /\ Fanless(rest) /\ MetaSends(rest, table)
  BY <1>1, RestingSends
<1>3. Announce(id) \in Frames(rest)
  <2>1. rest # <<Send(c, "size", id)>>
    OBVIOUS
  <2> QED BY <1>1, <2>1, RestingSends
<1>4. u.locked = t.locked /\ u.alive = t.alive
  <2> HIDE DEF t
  <2> QED OBVIOUS
<1>5. /\ Reconciled(t).locked = t.locked /\ Reconciled(t).alive = t.alive
      /\ t.locked = s.locked /\ t.alive = s.alive
  <2>1. t.locked = s.locked /\ t.alive = s.alive
    BY SameFlags
  <2> HIDE DEF t
  <2> QED BY <2>1, SameFlags
<1> HIDE DEF u, t, rest
<1>6. next.locked = s.locked /\ next.alive = s.alive
  BY <1>4, <1>5
<1> HIDE DEF next
<1> QED BY <1>1, <1>2, <1>3, <1>6, RestingBecome

LEMMA UnsubscribeCInv ==
  ASSUME IInv, CInv, NEW c \in Conn, NEW id \in Id, Unsubscribe(c, id)
  PROVE  CInv'
<1>1. Idle /\ UNCHANGED <<table, listeners, view>>
  BY DEF Unsubscribe, Request
<1>2. CASE id \in table /\ c \in Watching(session[id])
  <2> DEFINE s == session[id]
             next == Reconciled(Drop(s, c))
             rest == <<Announce(id), SendTo(c, "ok")>>
  <2>1. Become(id, next, rest)
    BY <1>2 DEF Unsubscribe
  <2>2. Nest(rest) /\ Ordered(rest) /\ Fanless(rest) /\ MetaSends(rest, table)
    BY <1>2, RestingSends
  <2>3. Announce(id) \in Frames(rest)
    <3>1. rest # <<Send(c, "size", id)>>
      OBVIOUS
    <3> QED BY <1>2, <3>1, RestingSends
  <2>4. next.locked = s.locked /\ next.alive = s.alive
    BY SameFlags
  <2> HIDE DEF next, rest
  <2> QED BY <1>1, <1>2, <2>1, <2>2, <2>3, <2>4, RestingBecome
<1>3. CASE ~(id \in table /\ c \in Watching(session[id]))
  <2> DEFINE f == SendTo(c, "ok")
  <2>1. stack' = <<f>> /\ UNCHANGED <<session, queue>>
    BY <1>3 DEF Unsubscribe, Continue
  <2>2. f.op = "send" /\ f.what = "ok"
    BY DEF SendTo
  <2> HIDE DEF f
  <2>3. Keeps(stack, stack') /\ Frames(stack') = {f} /\ Frames(stack) = {}
    BY <1>1, <2>1, <2>2, OneCall
  <2>4. MetaSends(stack', table')
    BY <2>2, <2>3 DEF MetaSends
  <2>5. ASSUME NEW k, Agrees(k, table, session, stack)
        PROVE  Agrees(k, table', session', stack')
    BY <1>1, <2>1, <2>3, <2>5 DEF Agrees, Known
  <2> QED BY <1>1, <2>1, <2>3, <2>4, <2>5, QuietCInv
<1> QED BY <1>2, <1>3

LEMMA InputCInv ==
  ASSUME IInv, CInv, NEW c \in Conn, NEW id \in Id, Input(c, id)
  PROVE  CInv'
<1> DEFINE s == session[id]
           t == Touch(s, c, s.att[c])
           next == IF c \in Sized(s) THEN Reconciled(t) ELSE t
           rest == stack
<1>1. Become(id, next, rest) /\ Idle /\ id \in table /\ c \in Watching(s) /\ UNCHANGED <<table, listeners, view>>
  BY DEF Input, Request
<1>2. Nest(rest) /\ Ordered(rest) /\ Fanless(rest) /\ MetaSends(rest, table)
  <2>1. Nest(rest) /\ Ordered(rest) /\ MetaSends(rest, table)
    BY DEF IInv, Shape, CInv
  <2> QED BY <1>1, <2>1, NoFrames DEF Idle, Fanless
<1>3. Watching(Reconciled(t)) = Watching(s) /\ Watching(t) = Watching(s)
  BY <1>1, SameWatchers DEF IInv, Shape
<1>4. /\ Reconciled(t).locked = s.locked /\ Reconciled(t).alive = s.alive
      /\ t.locked = s.locked /\ t.alive = s.alive
  <2>1. t.locked = s.locked /\ t.alive = s.alive
    BY SameFlags
  <2> HIDE DEF t
  <2> QED BY <2>1, SameFlags
<1> HIDE DEF t, rest
<1>5. next.locked = s.locked /\ next.alive = s.alive /\ Watching(next) = Watching(s)
  BY <1>3, <1>4
<1> HIDE DEF next
<1> QED BY <1>1, <1>2, <1>5, RestingBecome

-----------------------------------------------------------------------------
(* The calls in progress go on. *)

LEMMA DeliverCInv ==
  ASSUME IInv, CInv, Deliver
  PROVE  CInv'
<1> DEFINE f == Head(stack)
           evt == f.evt
           old == Rest
<1>1. PICK c \in f.to : Write(c, Told(view[c], f.evt), <<Fan(f.evt, f.to \ {c})>> \o Rest)
  BY DEF Deliver
<1> DEFINE g == Fan(evt, f.to \ {c})
           told == Told(view[c], evt)
           rest == <<g>> \o old
<1>2. Write(c, told, rest) /\ Top("fan") /\ UNCHANGED table
  BY <1>1 DEF Deliver
<1>3. /\ Nest(old) /\ Ordered(old) /\ Frames(stack) = {f} \cup Frames(old) /\ f.op = "fan"
      /\ Fanless(old)
  BY <1>2, TopCall DEF IInv, Shape, CInv
<1>4. g.op = "fan" /\ g.evt = evt /\ g.to = f.to \ {c}
  BY DEF Fan
<1> HIDE DEF g, told, old
<1>5. Nest(rest) /\ Frames(rest) = {g} \cup Frames(old) /\ Ordered(rest)
  BY <1>3, PushedCall, PushedFrames
<1> HIDE DEF rest
<1>6. Shape /\ ~Fanless(rest) /\ ~Fanless(stack)
  BY <1>3, <1>4, <1>5 DEF Fanless, IInv
<1>7. MetaSends(rest, table)
  BY <1>3, <1>4, <1>5 DEF MetaSends, CInv
<1>8. \A d : Due(d, stack) = (IF d \in f.to THEN {evt} ELSE {}) /\ Due(d, rest) = (IF d \in g.to THEN {evt} ELSE {})
  BY <1>3, <1>4, <1>5 DEF Due, Fanless
<1>9. \A d : d # c => Due(d, rest) = Due(d, stack)
  BY <1>4, <1>8
<1>10. ASSUME NEW id \in Id, Announce(id) \in Frames(stack)
       PROVE  Announce(id) \in Frames(rest)
  <2>1. Announce(id).op = "announce"
    BY DEF Announce
  <2> QED BY <1>3, <1>5, <1>10, <2>1
<1>11. ASSUME c \in listeners
       PROVE  \E k : Ends(Due(c, rest), queue, told, k) /\ Agrees(k, table, session, rest) /\ IsView(told)
  <2>1. PICK k : Ends(Due(c, stack), queue, view[c], k) /\ Agrees(k, table, session, stack)
    BY <1>11 DEF CInv
  <2>2. Due(c, stack) = {evt} /\ Due(c, rest) = {}
    BY <1>4, <1>8
  <2>3. Ends(Due(c, rest), queue, told, k)
    BY <2>1, <2>2, EndsTold DEF told
  <2>4. Agrees(k, table, session, rest)
    BY <1>10, <2>1, AgreesOn
  <2>5. IsView(told)
    <3>1. IsView(view[c])
      BY <1>11 DEF CInv, IInv, Shape
    <3> QED BY <3>1, ToldView DEF told
  <2> QED BY <2>3, <2>4, <2>5
<1> QED BY <1>2, <1>5, <1>6, <1>7, <1>9, <1>10, <1>11, WriteCInv

LEMMA NextEventCInv ==
  ASSUME IInv, CInv, NextEvent
  PROVE  CInv'
<1> DEFINE f == Head(stack)
           old == Rest
<1>1. /\ Top("fan") /\ f.to = {} /\ UNCHANGED <<table, session, listeners, view>>
      /\ IF queue = <<>>
         THEN stack' = old /\ UNCHANGED queue
         ELSE queue' = Tail(queue) /\ stack' = <<Fan(Head(queue), listeners)>> \o old
  BY DEF NextEvent
<1>2. /\ Nest(old) /\ Ordered(old) /\ Frames(stack) = {f} \cup Frames(old) /\ f.op = "fan"
      /\ Fanless(old)
  BY <1>1, TopCall DEF IInv, Shape, CInv
<1> HIDE DEF old
<1>3. \A d : Due(d, stack) = {} /\ Due(d, old) = {}
  BY <1>1, <1>2 DEF Due, Fanless
<1>4. MetaSends(old, table)
  BY <1>2 DEF MetaSends, CInv
<1>5. \A id \in Id : Announce(id) \in Frames(stack) => Announce(id) \in Frames(old)
  <2>1. \A id : Announce(id).op = "announce"
    BY DEF Announce
  <2> QED BY <1>2, <2>1
<1>6. ASSUME NEW c \in listeners
      PROVE  \E k : Ends({}, queue, view[c], k) /\ Agrees(k, table, session, old)
  <2>1. PICK k : Ends(Due(c, stack), queue, view[c], k) /\ Agrees(k, table, session, stack)
    BY DEF CInv
  <2>2. Agrees(k, table, session, old)
    BY <1>5, <2>1, AgreesOn
  <2> QED BY <1>3, <2>1, <2>2
<1>7. CASE queue = <<>>
  <2>1. stack' = old /\ queue' = <<>>
    BY <1>1, <1>7
  <2>2. \A c \in listeners : \E k : Ends(Due(c, stack'), queue', view'[c], k) /\ Agrees(k, table', session', stack')
    BY <1>1, <1>3, <1>6, <1>7, <2>1
  <2> QED BY <1>1, <1>2, <1>4, <1>7, <2>1, <2>2 DEF CInv
<1>8. CASE queue # <<>>
  <2> DEFINE g == Fan(Head(queue), listeners)
  <2>1. stack' = <<g>> \o old /\ queue' = Tail(queue)
    BY <1>1, <1>8
  <2>2. g.op = "fan" /\ g.evt = Head(queue) /\ g.to = listeners
    BY DEF Fan
  <2> HIDE DEF g
  <2>3. Nest(stack') /\ Frames(stack') = {g} \cup Frames(old) /\ Ordered(stack')
    BY <1>2, <2>1, PushedCall, PushedFrames
  <2>4. dispatching'
    BY <2>2, <2>3 DEF dispatching, Frames
  <2>5. MetaSends(stack', table')
    BY <1>1, <1>4, <2>2, <2>3 DEF MetaSends
  <2>6. Nest(queue) /\ Nest(queue')
    BY <1>8, <2>1, PoppedCall DEF CInv
  <2>7. ASSUME NEW c \in listeners
        PROVE  \E k : Ends(Due(c, stack'), queue', view'[c], k) /\ Agrees(k, table', session', stack')
    <3>1. PICK k : Ends({}, queue, view[c], k) /\ Agrees(k, table, session, old)
      BY <1>6
    <3>2. Due(c, stack') = {Head(queue)}
      BY <1>2, <2>2, <2>3 DEF Due, Fanless
    <3>3. Ends({Head(queue)}, Tail(queue), view[c], k)
      BY <1>8, <2>6, <3>1, EndsNext
    <3>4. Agrees(k, table, session, stack')
      BY <2>3, <3>1, AgreesOn
    <3> QED BY <1>1, <2>1, <3>2, <3>3, <3>4
  <2> QED BY <1>1, <2>3, <2>4, <2>5, <2>6, <2>7 DEF CInv
<1> QED BY <1>7, <1>8

LEMMA LeaveOneCInv ==
  ASSUME IInv, CInv, LeaveOne
  PROVE  CInv'
<1> DEFINE c == Head(stack).conn
<1>1. Top("leave") /\ UNCHANGED <<table, listeners, view>>
  BY DEF LeaveOne
<1>2. Nest(stack) /\ Ordered(stack) /\ MetaSends(stack, table) /\ Shape
  BY DEF CInv, IInv, Shape
<1>3. ASSUME NEW id \in table, Become(id, Reconciled(Drop(session[id], c)), <<Announce(id)>> \o stack)
      PROVE  CInv'
  <2> DEFINE s == Reconciled(Drop(session[id], c))
             f == Announce(id)
             rest == <<f>> \o stack
  <2>1. f.op = "announce"
    BY DEF Announce
  <2>2. Become(id, s, rest)
    BY <1>3
  <2>3. s.locked = session[id].locked /\ s.alive = session[id].alive
    BY SameFlags
  <2> HIDE DEF f, s
  <2>4. Keeps(stack, rest) /\ Frames(rest) = {f} \cup Frames(stack)
    BY <1>2, <2>1, PushedKeeps
  <2> HIDE DEF rest
  <2>5. MetaSends(rest, table)
    BY <1>2, <2>1, <2>4 DEF MetaSends
  <2>6. Announce(id) \in Frames(rest) /\ \A other \in Id : Announce(other) \in Frames(stack) => Announce(other) \in Frames(rest)
    BY <2>4 DEF f
  <2> QED BY <1>1, <1>2, <2>2, <2>3, <2>4, <2>5, <2>6, BecomeCInv
<1>4. CASE Continue(stack) /\ UNCHANGED session
  <2>1. stack' = stack /\ UNCHANGED queue
    BY <1>4 DEF Continue
  <2> QED BY <1>1, <1>4, <2>1 DEF CInv, dispatching
<1>5. CASE Continue(Rest) /\ UNCHANGED session
  <2>1. stack' = Rest /\ UNCHANGED queue
    BY <1>5 DEF Continue
  <2>2. /\ Frames(stack) = {Head(stack)} \cup Frames(Rest) /\ Keeps(stack, Rest)
        /\ Head(stack).op = "leave"
    BY <1>1, <1>2, TopCall
  <2>3. MetaSends(stack', table')
    BY <1>1, <1>2, <2>1, <2>2 DEF MetaSends
  <2>4. \A id \in Id : Announce(id) \in Frames(stack) => Announce(id) \in Frames(stack')
    <3>1. \A id : Announce(id).op = "announce"
      BY DEF Announce
    <3> QED BY <2>1, <2>2, <3>1
  <2>5. ASSUME NEW k, Agrees(k, table, session, stack)
        PROVE  Agrees(k, table', session', stack')
    BY <1>1, <1>5, <2>4, <2>5, AgreesOn
  <2> QED BY <1>1, <2>1, <2>2, <2>3, <2>5, QuietCInv
<1> QED BY <1>3, <1>4, <1>5 DEF LeaveOne

LEMMA AnnounceCInv ==
  ASSUME IInv, CInv, AnnounceViewers
  PROVE  CInv'
<1> DEFINE f == Head(stack)
           id == f.id
           n == Cardinality(Watching(session[id]))
           e == viewers(id, n)
           old == Rest
<1>1. Top("announce") /\ Broadcast(e, old) /\ UNCHANGED <<table, session, listeners, view>>
  BY DEF AnnounceViewers
<1>2. Nest(stack) /\ Ordered(stack) /\ MetaSends(stack, table)
  BY DEF CInv, IInv, Shape
<1>3. Keeps(stack, old) /\ Frames(stack) = {f} \cup Frames(old)
  BY <1>1, <1>2, TopCall
<1>4. e.id = id /\ e.ev = "viewers" /\ e.val = n
  BY DEF viewers
<1> HIDE DEF e, old
<1>5. MetaSends(old, table')
  BY <1>1, <1>2, <1>3 DEF MetaSends
<1>6. \A other : other # id /\ Announce(other) \in Frames(stack) => Announce(other) \in Frames(old)
  BY <1>3 DEF Announce
<1>7. ASSUME NEW k, Agrees(k, table, session, stack)
      PROVE  Agrees(Told(k, e), table', session', old)
  <2>1. CASE id \in Id
    <3>1. Changes(e) /\ e.ev # "exited"
      BY <1>4 DEF Changes
    <3>2. Agrees(Told(k, e), table, session, old)
      BY <1>4, <1>6, <1>7, <2>1, <3>1, ChangeAgrees DEF n
    <3> QED BY <1>1, <3>2
  <2>2. CASE id \notin Id
    <3>1. IsView(k) /\ IsView(Told(k, e)) /\ \A other \in Id : other # id => Told(k, e)[other] = k[other]
      BY <1>4, <1>7, ToldView DEF Agrees
    <3>2. \A other \in Id : Announce(other) \in Frames(stack) => Announce(other) \in Frames(old)
      BY <1>6, <2>2
    <3>3. \A other \in Id : Known(k[other], other, table, session[other], old)
      BY <1>7, <3>2 DEF Agrees, Known
    <3> QED BY <1>1, <2>2, <3>1, <3>3 DEF Agrees
  <2> QED BY <2>1, <2>2
<1> QED BY <1>1, <1>3, <1>5, <1>7, RaisedCInv

LEMMA SendOutCInv ==
  ASSUME IInv, CInv, SendOut
  PROVE  CInv'
<1> DEFINE f == Head(stack)
           left == f.to \cap Watching(session[f.id])
           old == Rest
<1>1. Top("out") /\ UNCHANGED table
  BY DEF SendOut
<1>2. Nest(stack) /\ Ordered(stack) /\ MetaSends(stack, table) /\ Shape
  BY DEF CInv, IInv, Shape
<1>3. /\ Frames(stack) = {f} \cup Frames(old) /\ f.op = "out" /\ Keeps(stack, old)
  BY <1>1, <1>2, TopCall
<1>4. \A id : Announce(id).op = "announce"
  BY DEF Announce
<1>5. ASSUME NEW c \in left, Write(c, view[c], <<Out(f.id, f.to \ {c})>> \o Rest)
      PROVE  CInv'
  <2> DEFINE told == view[c]
             g == Out(f.id, f.to \ {c})
             rest == <<g>> \o Rest
  <2>1. g.op = "out"
    BY DEF Out
  <2>2. Write(c, told, rest)
    BY <1>5
  <2> HIDE DEF g
  <2>3. Keeps(stack, rest) /\ Frames(rest) = {g} \cup Frames(old)
    BY <1>1, <1>2, <2>1, TopGoesOn
  <2> HIDE DEF rest, old
  <2>4. MetaSends(rest, table)
    BY <1>2, <1>3, <2>1, <2>3 DEF MetaSends
  <2>5. \A id \in Id : Announce(id) \in Frames(stack) => Announce(id) \in Frames(rest)
    BY <1>3, <1>4, <2>3
  <2>6. ASSUME c \in listeners
        PROVE  \E k : Ends(Due(c, rest), queue, told, k) /\ Agrees(k, table, session, rest) /\ IsView(told)
    <3>1. PICK k : Ends(Due(c, stack), queue, view[c], k) /\ Agrees(k, table, session, stack)
      BY <2>6 DEF CInv
    <3>2. Agrees(k, table, session, rest)
      BY <2>5, <3>1, AgreesOn
    <3>3. IsView(told)
      BY <1>2, <2>6 DEF CInv, Shape
    <3> QED BY <2>3, <3>1, <3>2, <3>3 DEF Keeps
  <2>7. Nest(rest) /\ Ordered(rest) /\ (Fanless(rest) <=> Fanless(stack)) /\ \A d : Due(d, rest) = Due(d, stack)
    BY <2>3 DEF Keeps
  <2> HIDE DEF told
  <2> QED BY <1>1, <1>2, <2>2, <2>4, <2>5, <2>6, <2>7, WriteCInv
<1>6. CASE Continue(Rest) /\ UNCHANGED <<session, listeners, view>>
  <2>1. stack' = old /\ UNCHANGED queue
    BY <1>6 DEF Continue
  <2> HIDE DEF old
  <2>2. MetaSends(stack', table')
    BY <1>1, <1>2, <1>3, <2>1 DEF MetaSends
  <2>3. \A id \in Id : Announce(id) \in Frames(stack) => Announce(id) \in Frames(stack')
    BY <1>3, <1>4, <2>1
  <2>4. ASSUME NEW k, Agrees(k, table, session, stack)
        PROVE  Agrees(k, table', session', stack')
    BY <1>1, <1>6, <2>3, <2>4, AgreesOn
  <2> QED BY <1>3, <1>6, <2>1, <2>2, <2>4, QuietCInv
<1> QED BY <1>5, <1>6 DEF SendOut

(* A reply says what is so: nothing is due or queued when it is written. *)
LEMMA ReplyCInv ==
  ASSUME IInv, CInv, Reply
  PROVE  CInv'
<1> DEFINE f == Head(stack)
           c == f.conn
           k == view[c]
           old == Rest
           told == CASE f.what = "list" -> [id \in Id |-> IF id \in table THEN MetaOf(session[id])
                                                          ELSE Unknown]
                     [] f.what = "meta" -> [k EXCEPT ![f.id] = MetaOf(session[f.id])]
                     [] f.what \in {"size", "ready"} ->
                          IF k[f.id] = Unknown THEN k
                          ELSE [k EXCEPT ![f.id].size = session[f.id].size]
                     [] OTHER -> k
<1>1. Top("send") /\ UNCHANGED table /\ Write(c, told, old)
  BY DEF Reply
<1>2. Nest(stack) /\ Ordered(stack) /\ MetaSends(stack, table) /\ Shape
  BY DEF CInv, IInv, Shape
<1>3. /\ Frames(stack) = {f} \cup Frames(old) /\ f.op = "send" /\ Keeps(stack, old) /\ Fanless(old)
  BY <1>1, <1>2, TopCall
<1> HIDE DEF old
<1>4. MetaSends(old, table) /\ (f.what = "meta" => f.id \in table)
  BY <1>2, <1>3 DEF MetaSends
<1>5. \A id \in Id : Announce(id) \in Frames(stack) => Announce(id) \in Frames(old)
  BY <1>3 DEF Announce
<1>6. queue = <<>> /\ \A d : Due(d, stack) = {} /\ Due(d, old) = {}
  <2>1. Fanless(stack)
    BY <1>3 DEF Keeps
  <2>2. \A d : Due(d, stack) = {} /\ Due(d, old) = {}
    BY <1>3, <2>1 DEF Due, Fanless
  <2> QED BY <2>1, <2>2, Dispatching DEF CInv
<1>7. ASSUME c \in listeners
      PROVE  \E j : Ends(Due(c, old), queue, told, j) /\ Agrees(j, table, session, old) /\ IsView(told)
  <2>1. Agrees(k, table, session, old)
    <3>1. PICK j : Ends(Due(c, stack), queue, k, j) /\ Agrees(j, table, session, stack)
      BY <1>7 DEF CInv
    <3>2. j = k
      BY <1>6, <3>1, EndsEmpty
    <3> QED BY <1>5, <3>1, <3>2, AgreesOn
  <2> HIDE DEF k
  <2>2. \A id \in Id : id \in table => Known(MetaOf(session[id]), id, table, session[id], old)
    <3> TAKE id \in Id
    <3> DEFINE m == MetaOf(session[id])
    <3>1. m.viewers = Cardinality(Watching(session[id])) /\ Near(m, session[id])
      BY DEF MetaOf, Near
    <3> HIDE DEF m
    <3> QED BY <3>1 DEF Known, m
  <2>3. CASE f.what = "list"
    <3>1. told = [id \in Id |-> IF id \in table THEN MetaOf(session[id]) ELSE Unknown]
      BY <2>3
    <3> HIDE DEF told
    <3>2. IsView(told) /\ \A id \in Id : told[id] = IF id \in table THEN MetaOf(session[id]) ELSE Unknown
      BY <3>1 DEF IsView
    <3>3. \A id \in Id : Known(told[id], id, table, session[id], old)
      <4> TAKE id \in Id
      <4>1. CASE id \in table
        BY <2>2, <3>2, <4>1
      <4>2. CASE id \notin table
        BY <3>2, <4>2 DEF Known
      <4> QED BY <4>1, <4>2
    <3>4. Agrees(told, table, session, old)
      BY <3>2, <3>3 DEF Agrees
    <3> QED BY <1>6, <3>2, <3>4, EndsEmpty
  <2>4. CASE f.what = "meta"
    <3> DEFINE id == f.id
               m == MetaOf(session[id])
    <3>1. told = [k EXCEPT ![id] = m] /\ id \in table /\ id \in Id
      BY <1>2, <1>4, <2>4 DEF Shape
    <3>2. Known(m, id, table, session[id], old)
      BY <2>2, <3>1
    <3> HIDE DEF told, m, id
    <3>3. IsView(told) /\ told[id] = m /\ \A other \in Id : other # id => told[other] = k[other]
      BY <2>1, <3>1 DEF Agrees, IsView
    <3>4. Agrees(told, table, session, old)
      BY <2>1, <3>2, <3>3 DEF Agrees
    <3> QED BY <1>6, <3>3, <3>4, EndsEmpty
  <2>5. CASE f.what \notin {"list", "meta"}
    <3> DEFINE id == f.id
               x == [k[id] EXCEPT !.size = session[id].size]
    <3>1. told = k \/ (k[id] # Unknown /\ told = [k EXCEPT ![id] = x])
      <4>1. CASE f.what \in {"size", "ready"} /\ k[id] = Unknown
        BY <4>1
      <4>2. CASE f.what \in {"size", "ready"} /\ k[id] # Unknown
        BY <4>2
      <4>3. CASE f.what \notin {"size", "ready"}
        BY <2>5, <4>3
      <4> QED BY <4>1, <4>2, <4>3
    <3>2. CASE k[id] # Unknown /\ told = [k EXCEPT ![id] = x] /\ id \in Id
      <4>1. Near(k[id], session[id])
        BY <2>1, <3>2 DEF Agrees, Known
      <4>2. x = k[id]
        BY <4>1 DEF Near
      <4> HIDE DEF told, x, id
      <4>3. told = k
        BY <2>1, <3>2, <4>2 DEF Agrees, IsView
      <4> QED BY <1>6, <2>1, <4>3, EndsEmpty DEF Agrees
    <3>3. CASE told = [k EXCEPT ![id] = x] /\ id \notin Id
      <4> HIDE DEF told, x, id
      <4>1. told = k
        BY <2>1, <3>3 DEF Agrees, IsView
      <4> QED BY <1>6, <2>1, <4>1, EndsEmpty DEF Agrees
    <3>4. CASE told = k
      <4> HIDE DEF told
      <4> QED BY <1>6, <2>1, <3>4, EndsEmpty DEF Agrees
    <3> HIDE DEF told, x
    <3> QED BY <3>1, <3>2, <3>3, <3>4
  <2> QED BY <2>3, <2>4, <2>5
<1>8. Nest(old) /\ Ordered(old) /\ (Fanless(old) <=> Fanless(stack)) /\ \A d : Due(d, old) = Due(d, stack)
  BY <1>3 DEF Keeps
<1> HIDE DEF told, c
<1> QED BY <1>1, <1>2, <1>4, <1>5, <1>7, <1>8, WriteCInv

-----------------------------------------------------------------------------
LEMMA StepCInv ==
  ASSUME IInv, SizesInv, CInv, [Next]_vars
  PROVE  CInv'
<1>1. CASE Callback
  <2>1. ASSUME NEW c \in Conn, Connect(c) \/ Disconnect(c) \/ List(c) \/ Query(c) \/ Refuse(c)
        PROVE  CInv'
    BY <2>1, ConnectCInv, DisconnectCInv, AnsweredCInv DEF List, Query, Refuse
  <2>2. ASSUME NEW c \in Conn, NEW id \in Id, NEW raw \in RawSize,
               Create(c, id, raw) \/ Resize(c, id, raw) \/ Subscribe(c, id, raw)
        PROVE  CInv'
    BY <2>2, CreateCInv, ResizeCInv, SubscribeCInv
  <2>3. ASSUME NEW c \in Conn, NEW id \in Id, NEW b \in BOOLEAN, Kill(c, id, b) \/ SetLock(c, id, b)
        PROVE  CInv'
    BY <2>3, KillCInv, SetLockCInv
  <2>4. ASSUME NEW c \in Conn, NEW id \in Id, Rename(c, id) \/ Unsubscribe(c, id) \/ Input(c, id)
        PROVE  CInv'
    BY <2>4, RenameCInv, UnsubscribeCInv, InputCInv
  <2>5. ASSUME NEW id \in Id, Output(id) \/ Exit(id) \/ TitleChanges(id) \/ PollForeground(id)
        PROVE  CInv'
    BY <2>5, OutputCInv, ExitCInv, NoticedCInv, ToldNothing DEF TitleChanges, PollForeground
  <2> QED BY <1>1, <2>1, <2>2, <2>3, <2>4, <2>5 DEF Callback
<1>2. CASE Step
  BY <1>2, DeliverCInv, NextEventCInv, LeaveOneCInv, AnnounceCInv, SendOutCInv, ReplyCInv DEF Step
<1>3. CASE UNCHANGED <<table, session, listeners, queue, stack, view>>
  BY <1>3 DEF CInv, dispatching
<1> QED BY <1>1, <1>2, <1>3 DEF Next, PersistNow, vars

LEMMA InitCInv == Init => CInv
<1> SUFFICES ASSUME Init PROVE CInv
  OBVIOUS
<1>1. /\ queue = <<>> /\ stack = <<>> /\ listeners = {}
      /\ view = [c \in Conn |-> [id \in Id |-> Unknown]]
  BY DEF Init
<1>2. Frames(stack) = {} /\ Ordered(stack)
  BY <1>1, NoFrames
<1>3. Nest(queue)
  BY <1>1 DEF Nest
<1>4. MetaSends(stack, table)
  BY <1>2 DEF MetaSends
<1> QED BY <1>1, <1>2, <1>3, <1>4 DEF CInv, IsView

(* For any number of clients and sessions, and however deep the calls nest: *)
(* between callbacks every client that follows the events knows the current *)
(* state of every session it has heard of, and of none that is gone.        *)
THEOREM ClientsAreCurrent == Spec => []ClientsCurrent
<1>1. CInv => ClientsCurrent
  <2> SUFFICES ASSUME CInv, Idle, NEW c \in listeners, NEW id \in Id
               PROVE  view[c][id] \in {Unknown, IF id \in table THEN MetaOf(session[id]) ELSE Unknown}
    BY DEF ClientsCurrent
  <2>1. PICK k : Ends(Due(c, stack), queue, view[c], k) /\ Agrees(k, table, session, stack)
    BY DEF CInv
  <2>2. Frames(stack) = {}
    BY NoFrames DEF Idle
  <2>3. Due(c, stack) = {} /\ queue = <<>>
    BY <2>2, Dispatching DEF Due, Fanless, CInv
  <2>4. k = view[c]
    BY <2>1, <2>3, EndsEmpty
  <2>5. view[c][id] = Unknown \/ (id \in table /\ view[c][id] = MetaOf(session[id]))
    BY <2>1, <2>4, ExactAtRest
  <2> QED BY <2>5
<1>2. IInv /\ SizesInv /\ CInv /\ [Next]_vars => CInv'
  BY StepCInv
<1>3. IInv /\ SizesInv /\ [Next]_vars => SizesInv'
  BY StepFollows
<1>4. Init => SizesInv
  BY InitSizes
<1> QED BY <1>1, <1>2, <1>3, <1>4, InitIInv, StepIInv, InitCInv, PTL DEF Spec
=============================================================================
