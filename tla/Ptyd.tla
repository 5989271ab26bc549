--------------------------------- MODULE Ptyd ---------------------------------
(***************************************************************************)
(* The control plane of the ptyd daemon: the table of sessions, who is     *)
(* attached to them, which window size each one has, and how changes are   *)
(* announced to every connected client (src/ptyd/registry.ts,              *)
(* src/ptyd/session.ts, src/ptyd/ipc-server.ts).                           *)
(*                                                                         *)
(* ptyd runs on one thread, but its calls nest: announcing a change writes *)
(* to every connection, a write may find a connection that does not drain  *)
(* and close it, closing it detaches it from its sessions, and detaching   *)
(* changes sizes and viewer counts, which is announced in turn -- all of   *)
(* it inside the call that made the first change.  `stack` is that nest of *)
(* calls, innermost first; a new callback of the event loop runs only when *)
(* it is empty.  `Registry.broadcast` flattens the nest again: while one   *)
(* fan-out is under way, further events wait in `queue`.                   *)
(*                                                                         *)
(* Where a session comes from (a fresh spawn or the warm pool) is          *)
(* WarmPool's subject, what it prints SessionOutput's.                     *)
(***************************************************************************)
EXTENDS Integers, Sequences, FiniteSets, SequencesExt

CONSTANTS
  Conn,         \* connections to the Unix socket
  Id,           \* session ids that may be allocated
  RawSize,      \* sizes a client may declare, records [cols, rows]
  DefaultSize,  \* cfg.defaultCols, cfg.defaultRows
  Policy,       \* values cfg.resizePolicy may have: "active", "min"
  MinSize, MaxSize  \* MIN_COLS/MIN_ROWS and MAX_COLS/MAX_ROWS

SizeRecord == [cols : Nat, rows : Nat]

ASSUME PtydAssumption ==
  /\ RawSize \subseteq SizeRecord
  /\ {DefaultSize, MinSize, MaxSize} \subseteq SizeRecord
  /\ 0 < MinSize.cols /\ MinSize.cols <= DefaultSize.cols /\ DefaultSize.cols <= MaxSize.cols
  /\ 0 < MinSize.rows /\ MinSize.rows <= DefaultSize.rows /\ DefaultSize.rows <= MaxSize.rows
  /\ Policy \subseteq {"active", "min"}

VARIABLES
  table,        \* ids in Registry.sessions
  session,      \* what each of them is
  listeners,    \* Registry.listeners: the connections not closed yet
  subscribed,   \* Connection.subscribed
  queue,        \* Registry.events
  stack,        \* calls in progress, innermost first
  persistTimer, \* Registry.persistTimer is armed
  stale,        \* history: the file no longer shows the table
  view          \* history: what each client was told of each session

vars == <<table, session, listeners, subscribed, queue, stack, persistTimer,
          stale, view>>

-----------------------------------------------------------------------------
(* Window sizes. *)
Unsized == [cols |-> 0, rows |-> 0]     \* no size, or one that is not usable

isUsableSize(s) == s.cols >= MinSize.cols /\ s.rows >= MinSize.rows

Clamp(n, lo, hi) == IF n < lo THEN lo ELSE IF n > hi THEN hi ELSE n

Clamped(s) == [cols |-> Clamp(s.cols, MinSize.cols, MaxSize.cols),
               rows |-> Clamp(s.rows, MinSize.rows, MaxSize.rows)]

Declared(s) == IF isUsableSize(s) THEN Clamped(s) ELSE Unsized

(* A session.  `att` maps each attached connection to the size it declared  *)
(* (Session.attached); `recent` lists them by activity, the latest last:    *)
(* `activity` and `activitySeq` only ever serve to compare two attachments. *)
(* `direct` is history: the size in force was not chosen among the sizes of *)
(* the viewers that are attached now.                                       *)
Fresh(size, policy) ==
  [size |-> size, att |-> [c \in {} |-> Unsized], recent |-> <<>>, policy |-> policy,
   locked |-> FALSE, alive |-> TRUE, direct |-> FALSE]
Gone(policy) == [Fresh(DefaultSize, policy) EXCEPT !.alive = FALSE]

Watching(s) == DOMAIN s.att
Sized(s)    == {c \in DOMAIN s.att : s.att[c] # Unsized}

(* Fault: an older activity of c is not forgotten. *)
TouchAgain(s, c, size) ==
  [s EXCEPT !.att = [d \in DOMAIN s.att \cup {c} |-> IF d = c THEN size ELSE s.att[d]],
            !.recent = Append(s.recent, c)]

(* c attaches, resizes or types: it is the most active viewer from now on. *)
Touch(s, c, size) ==
  [s EXCEPT !.att = [d \in DOMAIN s.att \cup {c} |-> IF d = c THEN size ELSE s.att[d]],
            !.recent = Append(RemoveFirst(s.recent, c), c)]

Drop(s, c) ==
  [s EXCEPT !.att = [d \in DOMAIN s.att \ {c} |-> s.att[d]],
            !.recent = RemoveFirst(s.recent, c)]

(* Fault: the viewer that has been quiet longest drives the size. *)
WinnerOldest(s) == s.att[s.recent[SelectInSeq(s.recent, LAMBDA c : c \in Sized(s))]]

(* Session.reconcileSize: the size that wins among the viewers that have    *)
(* declared one.                                                            *)
Winner(s) ==
  LET Least(S) == CHOOSE n \in S : \A m \in S : n <= m
      latest   == SelectLastInSeq(s.recent, LAMBDA c : c \in Sized(s))
  IN IF s.policy = "min"
     THEN [cols |-> Least({s.att[c].cols : c \in Sized(s)}),
           rows |-> Least({s.att[c].rows : c \in Sized(s)})]
     ELSE s.att[s.recent[latest]]

Reconciled(s) ==
  IF Sized(s) = {} THEN s ELSE [s EXCEPT !.size = Winner(s), !.direct = FALSE]

(* What clients are told of a session (SessionMeta). *)
MetaOf(s) == [size |-> s.size, viewers |-> Cardinality(Watching(s)),
              locked |-> s.locked, alive |-> s.alive]

Unknown == [size |-> Unsized, viewers |-> 0, locked |-> FALSE, alive |-> FALSE]

Metas == [id \in table |-> MetaOf(session[id])]

-----------------------------------------------------------------------------
(* Events, and the calls that may be on the stack. *)
NoEvent == [ev |-> "none"]

created(id, m)  == [ev |-> "created", id |-> id, val |-> m]
removed(id)     == [ev |-> "removed", id |-> id]
resized(id, s)  == [ev |-> "resized", id |-> id, val |-> s]
viewers(id, n)  == [ev |-> "viewers", id |-> id, val |-> n]
lockedEvt(id, b) == [ev |-> "locked", id |-> id, val |-> b]
exited(id)      == [ev |-> "exited", id |-> id]
proc(id)        == [ev |-> "proc", id |-> id]
labelled(id)    == [ev |-> "label", id |-> id]    \* renamed, title

Fan(e, to)     == [op |-> "fan", evt |-> e, to |-> to]         \* broadcast's loop
Leave(c)       == [op |-> "leave", conn |-> c]                 \* close(), after unlisten
Announce(id)   == [op |-> "announce", id |-> id]               \* announceViewers()
Out(id, to)    == [op |-> "out", id |-> id, to |-> to]         \* onOutput's last loop
Send(c, w, id) == [op |-> "send", conn |-> c, what |-> w, id |-> id]
SendTo(c, w)   == [op |-> "send", conn |-> c, what |-> w]

Idle        == stack = <<>>
dispatching == \E i \in DOMAIN stack : stack[i].op = "fan"
Rest        == Tail(stack)
Top(op)     == ~Idle /\ Head(stack).op = op

Continue(rest) == stack' = rest /\ UNCHANGED queue

(* Fault: an event raised inside a fan-out is delivered at once. *)
BroadcastNested(e, rest) ==
  /\ stack' = <<Fan(e, listeners)>> \o rest
  /\ UNCHANGED queue

(* Registry.broadcast. *)
Broadcast(e, rest) ==
  /\ queue' = Append(queue, e)
  /\ stack' = IF dispatching THEN rest ELSE <<Fan(NoEvent, {})>> \o rest

(* Session `id` becomes s; Session.applySize announces a size that differs. *)
Become(id, s, rest) ==
  /\ session' = [session EXCEPT ![id] = s]
  /\ IF s.size # session[id].size
     THEN Broadcast(resized(id, s.size), rest)
     ELSE Continue(rest)

(* Fault: a closed connection leaves none of its sessions. *)
CloseWithoutLeaving(c, rest) ==
  /\ listeners' = listeners \ {c}
  /\ view' = [view EXCEPT ![c] = [id \in Id |-> Unknown]]
  /\ stack' = rest
  /\ UNCHANGED <<queue, session, subscribed>>

(* Connection.close: no event reaches c from here on; its sessions are left *)
(* one by one in the frame that is pushed.                                  *)
Close(c, rest) ==
  /\ listeners' = listeners \ {c}
  /\ view' = [view EXCEPT ![c] = [id \in Id |-> Unknown]]
  /\ stack' = <<Leave(c)>> \o rest
  /\ UNCHANGED <<queue, session, subscribed>>

(* Connection.writeFrame.  `told` is what the client knows of the sessions  *)
(* once it has read the frame.  The socket may be destroyed, or have more   *)
(* than MAX_SOCKET_BACKLOG waiting: that closes the connection.             *)
Write(c, told, rest) ==
  \/ /\ c \in listeners
     /\ view' = [view EXCEPT ![c] = told]
     /\ Continue(rest)
     /\ UNCHANGED <<listeners, session, subscribed>>
  \/ c \in listeners /\ Close(c, rest)
  \/ /\ c \notin listeners
     /\ Continue(rest)
     /\ UNCHANGED <<listeners, view, session, subscribed>>

(* What a client that knows k of the sessions knows after event e. *)
Told(k, e) ==
  IF e.ev = "created" THEN [k EXCEPT ![e.id] = e.val]
  ELSE IF e.ev = "removed" THEN [k EXCEPT ![e.id] = Unknown]
  ELSE IF k[e.id] = Unknown THEN k
  ELSE CASE e.ev = "resized" -> [k EXCEPT ![e.id].size = e.val]
         [] e.ev = "viewers" -> [k EXCEPT ![e.id].viewers = e.val]
         [] e.ev = "locked"  -> [k EXCEPT ![e.id].locked = e.val]
         [] e.ev = "exited"  -> [k EXCEPT ![e.id].alive = FALSE]
         [] OTHER -> k

(* History: the file goes stale with every change of what it shows, names   *)
(* and titles included.                                                     *)
Relabelled == \E id \in Id : queue = <<>> /\ queue' = <<labelled(id)>>

Track == stale' = (stale \/ Metas' # Metas \/ Relabelled)

-----------------------------------------------------------------------------
Init ==
  /\ table = {}
  /\ \E p \in Policy : session = [id \in Id |-> Fresh(DefaultSize, p)]
  /\ listeners = {}
  /\ subscribed = [c \in Conn |-> {}]
  /\ queue = <<>>
  /\ stack = <<>>
  /\ persistTimer = FALSE
  /\ stale = FALSE
  /\ view = [c \in Conn |-> [id \in Id |-> Unknown]]

(***************************************************************************)
(* Callbacks of the event loop.                                            *)
(***************************************************************************)

(* A client connects: a new Connection that listens to all events. *)
Connect(c) ==
  /\ Idle /\ c \notin listeners
  /\ listeners' = listeners \cup {c}
  /\ subscribed' = [subscribed EXCEPT ![c] = {}]
  /\ UNCHANGED <<table, session, queue, stack, persistTimer, view>>
  /\ Track

(* The socket closes or errs, or sends what is not a frame or a request. *)
Disconnect(c) ==
  /\ Idle /\ c \in listeners
  /\ Close(c, stack)
  /\ UNCHANGED <<table, persistTimer>>
  /\ Track

Request(c) == Idle /\ c \in listeners

(* A request that is only answered. *)
Answered(c, what) ==
  /\ Request(c)
  /\ stack' = <<SendTo(c, what)>>
  /\ UNCHANGED <<table, session, listeners, subscribed, queue, persistTimer, view>>
  /\ Track

List(c) == Answered(c, "list")

(* `get`, `snapshot` and `stats`; or there is no such session or operation. *)
Query(c) == Answered(c, "ok")

(* A request whose fields have not the types they should (invalidRequest). *)
Refuse(c) == Answered(c, "fail")

(* `create`: the session joins the table before it is announced.  An id is  *)
(* random, so one that was used before is not met again.                    *)
Create(c, id, s) ==
  /\ Request(c) /\ id \notin table /\ session[id].alive
  /\ table' = table \cup {id}
  /\ session' = [session EXCEPT ![id] = Fresh(Clamped(s), @.policy)]
  /\ Broadcast(created(id, MetaOf(session'[id])), <<Send(c, "meta", id)>>)
  /\ UNCHANGED <<listeners, subscribed, persistTimer, view>>
  /\ Track

(* `kill`: refused for a locked session unless forced; otherwise the shell  *)
(* is hung up and Registry.remove disposes the session.                     *)
Kill(c, id, force) ==
  /\ Request(c) /\ id \in table
  /\ IF session[id].locked /\ ~force
     THEN /\ Continue(<<SendTo(c, "fail")>>)
          /\ UNCHANGED <<table, session>>
     ELSE /\ session' = [session EXCEPT ![id] = Gone(@.policy)]
          /\ table' = table \ {id}
          /\ Broadcast(removed(id), <<SendTo(c, "ok")>>)
  /\ UNCHANGED <<listeners, subscribed, persistTimer, view>>
  /\ Track

(* `setLock`: only a change is announced. *)
SetLock(c, id, b) ==
  /\ Request(c) /\ id \in table
  /\ session' = [session EXCEPT ![id].locked = b]
  /\ IF session[id].locked # b
     THEN Broadcast(lockedEvt(id, b), <<Send(c, "meta", id)>>)
     ELSE Continue(<<Send(c, "meta", id)>>)
  /\ UNCHANGED <<table, listeners, subscribed, persistTimer, view>>
  /\ Track

(* `rename` by a client: the name itself plays no part. *)
Rename(c, id) ==
  /\ Request(c) /\ id \in table
  /\ Broadcast(labelled(id), <<Send(c, "meta", id)>>)
  /\ UNCHANGED <<table, session, listeners, subscribed, persistTimer, view>>
  /\ Track

(* `resize`: an attached client declares its own size, any other sets the   *)
(* session's directly.  A size that is not usable changes nothing.          *)
Resize(c, id, raw) ==
  /\ Request(c) /\ id \in table
  /\ LET s == session[id]
     IN Become(id, IF ~isUsableSize(raw) THEN s
                   ELSE IF c \in Watching(s) THEN Reconciled(Touch(s, c, Clamped(raw)))
                   ELSE [s EXCEPT !.size = Clamped(raw), !.direct = TRUE],
               <<Send(c, "size", id)>>)
  /\ UNCHANGED <<table, listeners, subscribed, persistTimer, view>>
  /\ Track

(* `subscribe`: ownership first, then Session.attach (which reconciles only *)
(* if the client brought a size), then ok, snapshot and `ready`.            *)
Subscribe(c, id, raw) ==
  /\ Request(c) /\ id \in table
  /\ subscribed' = [subscribed EXCEPT ![c] = @ \cup {id}]
  /\ LET s == session[id]
         joined == Touch(s, c, Declared(raw))
     IN Become(id, IF isUsableSize(raw) THEN Reconciled(joined)
                   ELSE [joined EXCEPT !.direct = @ \/ c \in Sized(s)],
               <<Announce(id), Send(c, "meta", id), Send(c, "snapshot", id),
                 Send(c, "ready", id)>>)
  /\ UNCHANGED <<table, listeners, persistTimer, view>>
  /\ Track

(* `unsubscribe`: Session.detach, then ok.  The id leaves `subscribed` only *)
(* after detach returned; no one looks at it there in between, since detach *)
(* takes c off the attachments before it announces anything.                *)
Unsubscribe(c, id) ==
  /\ Request(c)
  /\ subscribed' = [subscribed EXCEPT ![c] = @ \ {id}]
  /\ IF id \in table /\ c \in Watching(session[id])
     THEN Become(id, Reconciled(Drop(session[id], c)), <<Announce(id), SendTo(c, "ok")>>)
     ELSE Continue(<<SendTo(c, "ok")>>) /\ UNCHANGED session
  /\ UNCHANGED <<table, listeners, persistTimer, view>>
  /\ Track

(* An In frame: Session.write.  Typing makes c the most active viewer. *)
Input(c, id) ==
  /\ Request(c) /\ id \in table
  /\ LET s == session[id] IN
     /\ s.alive /\ c \in Watching(s)
     /\ LET typed == Touch(s, c, s.att[c])
        IN Become(id, IF c \in Sized(s) THEN Reconciled(typed) ELSE typed, stack)
  /\ UNCHANGED <<table, listeners, subscribed, persistTimer, view>>
  /\ Track

(* The PTY produced output: Session.onOutput sends it to every viewer. *)
Output(id) ==
  /\ Idle /\ id \in table /\ Watching(session[id]) # {}
  /\ stack' = <<Out(id, Watching(session[id]))>>
  /\ UNCHANGED <<table, session, listeners, subscribed, queue, persistTimer, view>>
  /\ Track

(* The shell exited by itself: Session.onExit. *)
Exit(id) ==
  /\ Idle /\ id \in table /\ session[id].alive
  /\ session' = [session EXCEPT ![id].alive = FALSE]
  /\ Broadcast(exited(id), <<>>)
  /\ UNCHANGED <<table, listeners, subscribed, persistTimer, view>>
  /\ Track

Noticed(id, e) ==
  /\ Idle /\ id \in table /\ session[id].alive
  /\ Broadcast(e, <<>>)
  /\ UNCHANGED <<table, session, listeners, subscribed, persistTimer, view>>
  /\ Track

(* A title escape was parsed. *)
TitleChanges(id) == Noticed(id, labelled(id))

(* The poll found another foreground process. *)
PollForeground(id) == Noticed(id, proc(id))

(* persistTimer fires: Registry.persistNow. *)
PersistNow ==
  /\ Idle /\ persistTimer
  /\ persistTimer' = FALSE
  /\ stale' = FALSE
  /\ UNCHANGED <<table, session, listeners, subscribed, queue, stack, view>>

(***************************************************************************)
(* The innermost call in progress takes a step.                            *)
(***************************************************************************)

(* The dispatch loop hands the current event to one more listener. *)
Deliver ==
  /\ Top("fan")
  /\ LET f == Head(stack) IN
     \E c \in f.to :
       Write(c, Told(view[c], f.evt), <<Fan(f.evt, f.to \ {c})>> \o Rest)
  /\ UNCHANGED <<table, persistTimer>>
  /\ Track

(* Fault: a new name or title does not arm it. *)
PersistsUnlabelled(e) == e.ev \notin {"none", "proc", "label"}

(* The events after which the dispatch loop calls persistSoon. *)
Persists(e) == e.ev \notin {"none", "proc"}

(* It is through with an event, arms the timer for it, and takes the next   *)
(* one, or returns.                                                         *)
NextEvent ==
  /\ Top("fan") /\ Head(stack).to = {}
  /\ persistTimer' = (persistTimer \/ Persists(Head(stack).evt))
  /\ IF queue = <<>>
     THEN stack' = Rest /\ UNCHANGED queue
     ELSE /\ queue' = Tail(queue)
          /\ stack' = <<Fan(Head(queue), listeners)>> \o Rest
  /\ UNCHANGED <<table, session, listeners, subscribed, view>>
  /\ Track

(* close() leaves one more session, or is done. *)
LeaveOne ==
  /\ Top("leave")
  /\ LET c == Head(stack).conn IN
     \/ \E id \in subscribed[c] :
          /\ subscribed' = [subscribed EXCEPT ![c] = @ \ {id}]
          /\ IF id \in table /\ c \in Watching(session[id])
             THEN Become(id, Reconciled(Drop(session[id], c)), <<Announce(id)>> \o stack)
             ELSE Continue(stack) /\ UNCHANGED session
     \/ /\ subscribed[c] = {}
        /\ Continue(Rest)
        /\ UNCHANGED <<session, subscribed>>
  /\ UNCHANGED <<table, listeners, persistTimer, view>>
  /\ Track

(* announceViewers *)
AnnounceViewers ==
  /\ Top("announce")
  /\ LET id == Head(stack).id IN 
       Broadcast(viewers(id, Cardinality(Watching(session[id]))), Rest)
  /\ UNCHANGED <<table, session, listeners, subscribed, persistTimer, view>>
  /\ Track

(* onOutput writes to one more viewer. *)
SendOut ==
  /\ Top("out")
  /\ LET f == Head(stack)
         left == f.to \cap Watching(session[f.id]) IN
     \/ \E c \in left : Write(c, view[c], <<Out(f.id, f.to \ {c})>> \o Rest)
     \/ /\ left = {}
        /\ Continue(Rest)
        /\ UNCHANGED <<session, listeners, subscribed, view>>
  /\ UNCHANGED <<table, persistTimer>>
  /\ Track

(* A response, a snapshot or `ready` is written to the client that asked. *)
Reply ==
  /\ Top("send")
  /\ LET f == Head(stack)
         k == view[f.conn]
     IN Write(f.conn,
              CASE f.what = "list" -> [id \in Id |-> IF id \in table THEN MetaOf(session[id])
                                                     ELSE Unknown]
                [] f.what = "meta" -> [k EXCEPT ![f.id] = MetaOf(session[f.id])]
                [] f.what \in {"size", "ready"} ->
                     IF k[f.id] = Unknown THEN k
                     ELSE [k EXCEPT ![f.id].size = session[f.id].size]
                [] OTHER -> k,
              Rest)
  /\ UNCHANGED <<table, persistTimer>>
  /\ Track

-----------------------------------------------------------------------------
Callback ==
  \/ \E c \in Conn : Connect(c) \/ Disconnect(c) \/ List(c) \/ Query(c) \/ Refuse(c)
  \/ \E c \in Conn, id \in Id :
       \/ \E raw \in RawSize : Create(c, id, raw) \/ Resize(c, id, raw) \/ Subscribe(c, id, raw)
       \/ \E b \in BOOLEAN : Kill(c, id, b) \/ SetLock(c, id, b)
       \/ Rename(c, id) \/ Unsubscribe(c, id) \/ Input(c, id)
  \/ \E id \in Id : Output(id) \/ Exit(id) \/ TitleChanges(id) \/ PollForeground(id)

Step == Deliver \/ NextEvent \/ LeaveOne \/ AnnounceViewers \/ SendOut \/ Reply

Next ==
  \/ Callback
  \/ Step
  \/ PersistNow

Spec == Init /\ [][Next]_vars

(* A synchronous call runs on to its end, and the event loop gets to its    *)
(* timers between callbacks, however many of those there are.               *)
Fairness == WF_vars(Step) /\ SF_vars(PersistNow)

FairSpec == Spec /\ Fairness

-----------------------------------------------------------------------------
Sizes == {[cols |-> c, rows |-> r] : c \in MinSize.cols..MaxSize.cols,
                                    r \in MinSize.rows..MaxSize.rows}
Meta  == [size : Sizes, viewers : 0..Cardinality(Conn), locked : BOOLEAN, alive : BOOLEAN]

EventOK(e) ==
  /\ e.ev \in {"created", "removed", "resized", "viewers", "locked", "exited", "proc", "label"}
  /\ e.id \in Id

FrameOK(f) ==
  CASE f.op = "fan"      -> f.to \subseteq Conn /\ (f.evt = NoEvent \/ EventOK(f.evt))
    [] f.op = "leave"    -> f.conn \in Conn
    [] f.op = "announce" -> f.id \in Id
    [] f.op = "out"      -> f.id \in Id /\ f.to \subseteq Conn
    [] f.op = "send"     -> f.conn \in Conn

TypeOK ==
  /\ table \subseteq Id
  /\ DOMAIN session = Id
  /\ \A id \in Id :
       LET s == session[id] IN
       /\ s.size \in Sizes /\ s.policy \in Policy
       /\ \A c \in Watching(s) : c \in Conn /\ s.att[c] \in Sizes \cup {Unsized}
       /\ ToSet(s.recent) = Watching(s) /\ Len(s.recent) = Cardinality(Watching(s))
       /\ {s.locked, s.alive, s.direct} \subseteq BOOLEAN
  /\ listeners \subseteq Conn
  /\ subscribed \in [Conn -> SUBSET Id]
  /\ \A i \in DOMAIN queue : EventOK(queue[i])
  /\ \A i \in DOMAIN stack : FrameOK(stack[i])
  /\ {persistTimer, stale} \subseteq BOOLEAN
  /\ view \in [Conn -> [Id -> Meta \cup {Unknown}]]

(* No session keeps a viewer that is gone: whoever is attached is a         *)
(* connection that still listens and knows that it owns the attachment, or  *)
(* is being closed by a call in progress, which will detach it -- also when *)
(* it is closed inside the very broadcast its own attach() made ("Register  *)
(* ownership first", ipc-server.ts).                                        *)
OwnedViewers ==
  \A id \in table : \A c \in Watching(session[id]) :
    /\ id \in subscribed[c]
    /\ c \in listeners \/ \E i \in DOMAIN stack : stack[i] = Leave(c)

(* After every callback, whatever closed in the middle of it, each client   *)
(* that follows the events knows the current state of every session it has  *)
(* heard of ("so every client observes the same order and ends on the       *)
(* current state", registry.ts).                                            *)
ClientsCurrent ==
  Idle => \A c \in listeners, id \in Id :
            view[c][id] \in {Unknown, IF id \in table THEN MetaOf(session[id]) ELSE Unknown}

(* Once a viewer with a window has joined, left, resized or typed, the      *)
(* session has the size the policy picks among the viewers that are still   *)
(* attached and have one; a viewer that never measured itself has no say    *)
(* ("a viewer that has not measured itself yet must not be able to squeeze  *)
(* a real shell", session.ts).                                              *)
SizeFollowsViewers ==
  \A id \in table :
    LET s == session[id] IN
    Sized(s) # {} /\ ~s.direct =>
      IF s.policy = "min"
      THEN /\ \A c \in Sized(s) : s.size.cols <= s.att[c].cols /\ s.size.rows <= s.att[c].rows
           /\ \E c, d \in Sized(s) : s.size = [cols |-> s.att[c].cols, rows |-> s.att[d].rows]
      ELSE \E i \in DOMAIN s.recent :
             /\ s.att[s.recent[i]] = s.size
             /\ \A j \in (i+1)..Len(s.recent) : s.recent[j] \notin Sized(s)

(* A change reaches the file, however busy the daemon stays. *)
FileCatchesUp == stale ~> ~stale
=============================================================================
