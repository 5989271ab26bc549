------------------------------ MODULE CommandLine ------------------------------
(***************************************************************************)
(* One run of the command line (src/cli/index.ts) against ptyd: commands   *)
(* that look a session up and act on it, `new` and `attach`, which take    *)
(* over the terminal, and the picker (src/cli/tui.ts), which lists, acts   *)
(* and attaches again and again over one connection.                       *)
(*                                                                         *)
(* Requests, answers and events are in order on the connection (PtydClient *)
(* of src/shared/ptyd-client.ts); an answer may come after its deadline.   *)
(* Other clients and the shells change the sessions at any time.           *)
(***************************************************************************)
EXTENDS Attach, FiniteSets

CONSTANTS
  Session,  \* 1..n, in the order of their creation
  Matching, \* those whose text matches the picker's filter
  Command,  \* what the user may run
  MaxKeys,  \* bound of the model: keys typed in the picker
  MaxQueue  \* bound of the model: messages under way when another is caused

ASSUME CommandLineAssumption ==
  /\ Session = 1..Cardinality(Session)
  /\ Command \subseteq {"ls", "new", "attach", "kill", "force", "lock", "unlock", "rename", "pick"}

VARIABLES
  table,    \* ptyd: each session is "unborn", "alive", "exited" or "gone"
  locked,   \* ptyd: the locked sessions
  link,     \* the connection: "none", "up", "closed"
  requests, \* on their way to ptyd
  replies,  \* answers and events on their way back
  pending,  \* PtydClient.pending
  stage,    \* what the command awaits, or "picking", "attached", "over"
  command,
  target,   \* the session it acts on
  list,     \* the picker's sessions
  cursor,   \* its cursor, 1 is the first row
  filter,   \* its filter is set
  prompt,   \* its mode: what is asked for, and for which session
  wanted,   \* its attachRequest
  tuiRunning,
  gaveUp,   \* a call of the picker's has timed out
  keys      \* of the bound

pickerVars  == <<list, cursor, filter, prompt, wanted, tuiRunning>>
tableVars   == <<table, locked>>
commandVars == <<stage, command, target>>
commandLineVars == <<attachVars, pickerVars, tableVars, commandVars, link, requests, replies, pending, gaveUp, keys>>

NoSession == 0
NoPrompt  == [asks |-> "nothing", id |-> NoSession]

(* An answer, one that is an error, and an event. *)
Answer(call, data) == [is |-> "answer", call |-> call, list |-> data]
Refusal(call)      == [is |-> "refusal", call |-> call, list |-> <<>>]
Event(ev, id)      == [is |-> "event", ev |-> ev, id |-> id]

Exists(id)  == id \in Session /\ table[id] \in {"alive", "exited"}
Unborn      == {id \in Session : table[id] = "unborn"}
Listed(t)   == [id \in {i \in Session : t[i] \in {"alive", "exited"}} |-> t[id]]
Rows(l)     == SetToSortSeq(DOMAIN l, <)

CommandInit ==
  /\ AttachInit
  /\ table \in [Session -> {"unborn", "alive"}]
  /\ \A a, b \in Session : a < b /\ table[b] = "alive" => table[a] = "alive"
  /\ locked \in SUBSET DOMAIN Listed(table)
  /\ link = "none" /\ requests = <<>> /\ replies = <<>> /\ pending = {}
  /\ command \in Command /\ stage = "start" /\ target = NoSession
  /\ list = <<>> /\ cursor = 1 /\ filter = FALSE /\ prompt = NoPrompt
  /\ wanted = NoSession /\ tuiRunning = TRUE /\ gaveUp = FALSE /\ keys = 0

QueueBound == Len(requests) <= MaxQueue /\ Len(replies) < MaxQueue

-----------------------------------------------------------------------------
(* ptyd. *)

Tells(messages) == replies' = IF link = "up" THEN replies \o messages ELSE replies

Becomes(id, status) == table' = [table EXCEPT ![id] = status]

(* Another client, or a shell.  A session that is killed is disposed before *)
(* its shell ends: only its removal is told.                                *)
OtherChange ==
  /\ QueueBound
  /\ \/ \E id \in Session :
          \/ table[id] = "alive" /\ Becomes(id, "exited") /\ Tells(<<Event("exited", id)>>)
          \/ Exists(id) /\ id \notin locked /\ Becomes(id, "gone") /\ Tells(<<Event("removed", id)>>)
     \/ /\ Unborn # {}
        /\ Becomes(Min(Unborn), "alive") /\ Tells(<<Event("created", Min(Unborn))>>)
  /\ UNCHANGED <<attachVars, pickerVars, commandVars, link, requests, pending, locked, gaveUp, keys>>

(* Connection.handleRequest. *)
Serve ==
  /\ requests # <<>>
  /\ LET call == Head(requests)
         id   == call.id
         Told(event) == Tells(<<event, Answer(call, Listed(table'))>>)
         Succeeds    == Tells(<<Answer(call, Listed(table))>>) /\ UNCHANGED tableVars
         Refused     == Tells(<<Refusal(call)>>) /\ UNCHANGED tableVars
     IN CASE call.op \in {"list", "unsubscribe"} -> Succeeds
          [] call.op = "create" /\ Unborn = {} -> Refused
          [] call.op = "create" /\ Unborn # {} ->
               /\ Becomes(Min(Unborn), "alive") /\ UNCHANGED locked
               /\ Tells(<<Event("created", Min(Unborn)), Answer([call EXCEPT !.id = Min(Unborn)], <<>>)>>)
          [] ~Exists(id) /\ call.op \notin {"list", "unsubscribe", "create"} -> Refused
          [] Exists(id) /\ call.op = "subscribe" -> Succeeds
          [] Exists(id) /\ call.op = "rename" ->
               UNCHANGED tableVars /\ Told(Event("renamed", id))
          [] Exists(id) /\ call.op \in {"lock", "unlock"} ->
               /\ locked' = IF call.op = "lock" THEN locked \cup {id} ELSE locked \ {id}
               /\ UNCHANGED table
               /\ IF locked' = locked THEN Succeeds ELSE Told(Event("locked", id))
          [] Exists(id) /\ call.op \in {"kill", "force"} ->
               IF id \in locked /\ call.op = "kill" THEN Refused
               ELSE /\ Becomes(id, "gone") /\ locked' = locked \ {id}
                    /\ Told(Event("removed", id))
  /\ requests' = Tail(requests)
  /\ UNCHANGED <<attachVars, pickerVars, commandVars, link, pending, gaveUp, keys>>

-----------------------------------------------------------------------------
(* PtydClient.  A rid is used once: here, by no other call under way.       *)
UnderWay == pending \cup Range(requests)
              \cup {m.call : m \in {r \in Range(replies) : r.is # "event"}}
Fresh    == Min((1..(Cardinality(UnderWay) + 1)) \ {c.rid : c \in UnderWay})

(* The calls that are pending but for those whose rid is in `settled`.      *)
Unsettled(settled) == {c \in pending : c.rid \notin settled}

(* request.  `by` is who goes on when it settles: what main awaits, or a    *)
(* then the picker left behind.                                             *)
Sends(settled, op, id, by) ==
  LET call == [rid |-> Fresh, op |-> op, id |-> id, by |-> by]
  IN /\ pending' = Unsettled(settled) \cup {call}
     /\ requests' = Append(requests, call)

SendsNothing(settled) == pending' = Unsettled(settled) /\ UNCHANGED requests

(* The command is over, its connection with it; the picker leaves the       *)
(* terminal as it was.                                                      *)
Stops ==
  /\ stage' = "over" /\ link' = "closed"
  /\ requests' = <<>> /\ replies' = <<>> /\ pending' = {}
  /\ raw' = FALSE
  /\ BeginAttach
  /\ UNCHANGED <<pickerVars, command, target>>

-----------------------------------------------------------------------------
(* attachSession, as main awaits it.                                        *)

(* Up to the subscribe. *)
Attaches(id, settled) ==
  /\ stage' = "subscribing" /\ target' = id /\ raw' = FALSE
  /\ BeginAttach
  /\ Sends(settled, "subscribe", id, "main")
  /\ UNCHANGED <<command, link>>

(* From the end of `done` to the unsubscribe. *)
Leaves(settled) ==
  /\ stage' = "leaving"
  /\ Sends(settled, "unsubscribe", target, "main")
  /\ UNCHANGED <<command, target, link>>

Subscribed(settled) ==
  /\ TakeTerminal
  /\ IF result # "none" THEN Leaves(settled)
     ELSE stage' = "attached" /\ SendsNothing(settled) /\ UNCHANGED <<command, target, link>>

(* Fault: the picker relies on the events it saw. *)
ReturnsAsItWas(settled) ==
  /\ stage' = "picking" /\ raw' = TRUE
  /\ SendsNothing(settled)
  /\ UNCHANGED <<armed, typed, sent, result, command, target, link>>

(* runTui gets its handlers back and reads the list again. *)
Returns(settled) ==
  /\ stage' = "returning" /\ target' = NoSession
  /\ BeginAttach /\ UNCHANGED raw
  /\ Sends(settled, "list", NoSession, "main")
  /\ UNCHANGED <<command, link>>

TypesAttached ==
  /\ stage = "attached"
  /\ OnData
  /\ IF result' # "none" THEN Leaves({})
     ELSE UNCHANGED <<commandVars, link, requests, pending>>
  /\ UNCHANGED <<pickerVars, tableVars, replies, gaveUp, keys>>

-----------------------------------------------------------------------------
(* The picker's screen and keys. *)
Visible(l, f) == Rows([id \in DOMAIN l \cap (IF f THEN Matching ELSE Session) |-> l[id]])

Selected == LET rows == Visible(list, filter)
            IN IF cursor \in DOMAIN rows THEN rows[cursor] ELSE NoSession

(* draw: the cursor is kept on the list. *)
Draws(l, f, c) ==
  /\ list' = l /\ filter' = f
  /\ cursor' = Max({1, Min({c, Cardinality(DOMAIN Visible(l, f))})})

Prompts(what, id) == prompt' = [asks |-> what, id |-> id]
Asks(op, id) ==
  /\ QueueBound
  /\ IF link = "up" THEN Sends({}, op, id, "picker") ELSE SendsNothing({})

(* handleKey in the list. *)
ListKey ==
  /\ prompt = NoPrompt
  /\ \/ /\ \E c \in {cursor - 1, cursor + 1} : Draws(list, filter, c)
        /\ SendsNothing({}) /\ UNCHANGED <<prompt, wanted, tuiRunning>>
     \/ /\ Draws(list, FALSE, cursor)
        /\ SendsNothing({}) /\ UNCHANGED <<prompt, wanted, tuiRunning>>
     \/ /\ tuiRunning' = FALSE
        /\ SendsNothing({}) /\ UNCHANGED <<list, cursor, filter, prompt, wanted>>
     \/ /\ \/ Prompts("filter", NoSession) \/ Prompts("create", NoSession)
           \/ Selected # NoSession /\ Prompts("rename", Selected)
        /\ SendsNothing({}) /\ UNCHANGED <<list, cursor, filter, wanted, tuiRunning>>
     \/ /\ Selected # NoSession /\ Asks("kill", Selected)
        /\ UNCHANGED <<list, cursor, filter, prompt, wanted, tuiRunning>>
     \/ /\ Selected # NoSession /\ wanted' = Selected
        /\ SendsNothing({}) /\ UNCHANGED <<list, cursor, filter, prompt, tuiRunning>>

(* handleKey in a prompt: Escape, or Enter with or without a text. *)
PromptKey ==
  /\ prompt # NoPrompt
  /\ prompt' = NoPrompt
  /\ \/ SendsNothing({}) /\ UNCHANGED <<list, cursor, filter>>
     \/ /\ prompt.asks = "filter" /\ \E f \in BOOLEAN : Draws(list, f, 1)
        /\ SendsNothing({})
     \/ /\ prompt.asks \in {"create", "rename"} /\ Asks(prompt.asks, prompt.id)
        /\ UNCHANGED <<list, cursor, filter>>
  /\ UNCHANGED <<wanted, tuiRunning>>

TypesPicking ==
  /\ stage = "picking"
  /\ keys < MaxKeys /\ keys' = keys + 1
  /\ ListKey \/ PromptKey
  /\ UNCHANGED <<attachVars, tableVars, commandVars, link, replies, gaveUp>>

(* The loop of runTui, every 40 ms. *)
Poll ==
  /\ stage = "picking"
  /\ IF wanted # NoSession /\ link = "up"
     THEN /\ wanted' = NoSession
          /\ Attaches(wanted, {})
          /\ UNCHANGED <<list, cursor, filter, prompt, tuiRunning, replies>>
     ELSE /\ wanted # NoSession \/ ~tuiRunning
          /\ Stops
  /\ UNCHANGED <<tableVars, gaveUp, keys>>

-----------------------------------------------------------------------------
(* The commands. *)

(* connect, and the first call. *)
Connect ==
  /\ stage = "start"
  /\ \/ stage' = "over" /\ UNCHANGED <<link, requests, pending>>
     \/ /\ stage' = "looking" /\ link' = "up"
        /\ Sends({}, IF command = "new" THEN "create" ELSE "list", NoSession, "main")
  /\ UNCHANGED <<attachVars, pickerVars, tableVars, replies, command, target, gaveUp, keys>>

(* "Accept a full id, an id prefix, or an exact session name": what the     *)
(* user wrote is the id of one session at most, the name of some, and the   *)
(* beginning of the ids of some.                                            *)
Needle == {n \in [id : SUBSET Session, name : SUBSET Session, begins : SUBSET Session] :
             Cardinality(n.id) <= 1 /\ n.id \subseteq n.begins}

(* resolveSession: nothing unless one session is left. *)
Resolved(l, needle) ==
  LET among(ids) == ids \cap DOMAIN l
      found == IF among(needle.id) # {} THEN among(needle.id)
               ELSE IF among(needle.name) # {} THEN among(needle.name)
               ELSE among(needle.begins)
  IN IF Cardinality(found) = 1 THEN found ELSE {}

(* The list has come: a command other than `ls`, `new` and the picker.      *)
Acts(data, settled) ==
  \E needle \in Needle :
    LET found == Resolved(data, needle)
        able  == {id \in found : command = "attach" => data[id] = "alive"}
    IN IF able = {} THEN Stops
       ELSE \E id \in able :
         /\ UNCHANGED pickerVars
         /\ IF command = "attach" THEN Attaches(id, settled)
            ELSE /\ stage' = "acting" /\ target' = id
                 /\ Sends(settled, command, id, "main")
                 /\ UNCHANGED <<attachVars, command, link>>

(* The picker has its list, first or again: enter. *)
Picks(data, settled) ==
  /\ Draws(data, filter, cursor)
  /\ stage' = "picking" /\ raw' = TRUE
  /\ SendsNothing(settled)
  /\ UNCHANGED <<armed, typed, sent, result, prompt, wanted, tuiRunning, command, target, link>>

(* What main awaits has settled. *)
MainGoesOn(call, ok, data) ==
  LET settled == {call.rid} IN
      CASE ~ok /\ stage # "leaving" -> Stops
       [] stage = "leaving" ->
            IF command = "pick" THEN Returns(settled) /\ UNCHANGED pickerVars ELSE Stops
       [] ok /\ stage = "looking" /\ command = "new" ->
            \/ Attaches(call.id, settled) /\ UNCHANGED pickerVars
            \/ Stops
       [] ok /\ stage = "looking" /\ command = "pick" -> Picks(data, settled)
       [] ok /\ stage = "looking" /\ command \notin {"ls", "new", "pick"} -> Acts(data, settled)
       [] ok /\ stage = "subscribing" -> Subscribed(settled) /\ UNCHANGED pickerVars
       [] ok /\ stage = "returning" /\ tuiRunning -> Picks(data, settled)
       [] OTHER -> Stops

(* A call the picker left behind has: after a change the list is read.      *)
PickerGoesOn(call, ok, data) ==
  /\ IF ok /\ call.op = "list" THEN Draws(data, filter, cursor) ELSE UNCHANGED <<list, filter, cursor>>
  /\ IF ok /\ call.op # "list" THEN Sends({call.rid}, "list", NoSession, "picker") ELSE SendsNothing({call.rid})
  /\ UNCHANGED <<attachVars, prompt, wanted, tuiRunning, commandVars, link>>

GoesOn(call, ok, data) ==
  IF call.by = "main" THEN MainGoesOn(call, ok, data) ELSE PickerGoesOn(call, ok, data)

-----------------------------------------------------------------------------
(* PtydClient.onData: an answer to a call that is pending. *)
Answered ==
  /\ replies # <<>> /\ Head(replies).is # "event"
  /\ LET answer == Head(replies) IN
     IF \E call \in pending : call.rid = answer.call.rid
     THEN /\ \E call \in pending :
               /\ call.rid = answer.call.rid
               /\ GoesOn([call EXCEPT !.id = answer.call.id], answer.is = "answer", answer.list)
          /\ replies' = IF stage' = "over" THEN <<>> ELSE Tail(replies)
     ELSE /\ replies' = Tail(replies)
          /\ UNCHANGED <<attachVars, pickerVars, commandVars, link, requests, pending>>
  /\ UNCHANGED <<tableVars, gaveUp, keys>>

(* When attachSession's handlers are set. *)
Listening == {"subscribing", "attached"}

(* An event, for the handler that attachSession or runTui has set. *)
Notified ==
  /\ replies # <<>> /\ Head(replies).is = "event"
  /\ replies' = Tail(replies)
  /\ LET event == Head(replies) IN
     CASE command = "pick" /\ stage \in {"picking", "returning"} ->
            Sends({}, "list", NoSession, "picker") /\ UNCHANGED <<attachVars, commandVars, link>>
       [] stage \in Listening /\ event = Event("exited", target) ->
            /\ Finish("exited") /\ UNCHANGED <<armed, typed, sent>>
            /\ IF stage = "attached" THEN Leaves({})
               ELSE UNCHANGED <<commandVars, link, requests, pending>>
       [] OTHER -> UNCHANGED <<attachVars, commandVars, link, requests, pending>>
  /\ UNCHANGED <<pickerVars, tableVars, gaveUp, keys>>

(* Fault: only what is quick to answer is given a deadline. *)
LookupDeadline(call) == call.op # "subscribe"

(* request gives every call one. *)
HasDeadline(call) == TRUE

(* request's timer. *)
TimeOut(call) ==
  /\ HasDeadline(call)
  /\ GoesOn(call, FALSE, <<>>)
  /\ replies' = IF stage' = "over" THEN <<>> ELSE replies
  /\ gaveUp' = (gaveUp \/ call.by = "picker")
  /\ UNCHANGED <<tableVars, keys>>

(* teardown: ptyd is gone, or has closed a connection that does not drain.  *)
(* All calls fail; of the flows that await one, or `done`, only the         *)
(* picker's list goes on.                                                   *)
LinkCloses ==
  /\ link = "up"
  /\ IF stage = "picking"
     THEN /\ link' = "closed" /\ requests' = <<>> /\ replies' = <<>> /\ pending' = {}
          /\ UNCHANGED <<attachVars, pickerVars, commandVars>>
     ELSE Stops
  /\ UNCHANGED <<tableVars, gaveUp, keys>>

CommandNext ==
  \/ OtherChange \/ Serve
  \/ Connect \/ Answered \/ Notified \/ LinkCloses
  \/ \E call \in pending : TimeOut(call)
  \/ TypesAttached \/ TypesPicking \/ Poll

(* What is due happens, except that nobody has to type and ptyd, which may  *)
(* hang, need not answer.                                                   *)
CommandFairness ==
  /\ WF_commandLineVars(Answered) /\ WF_commandLineVars(Notified) /\ WF_commandLineVars(Poll)
  /\ WF_commandLineVars(\E call \in pending : TimeOut(call))

CommandSpec == CommandInit /\ [][CommandNext]_commandLineVars /\ CommandFairness

-----------------------------------------------------------------------------
(* What a command shows is what ptyd has.  A terminal that it attached does *)
(* not sit in front of a shell that has ended, the exit is noticed whenever *)
(* it comes, the time between the lookup and the subscription included; and *)
(* the picker ("It is tiny and always correct", tui.ts) shows ptyd's list   *)
(* when nothing is under way, although it hears nothing while it is         *)
(* attached.                                                                *)
ShowsPtyd ==
  /\ command \in {"new", "attach"} /\ stage = "attached" /\ replies = <<>> => table[target] # "exited"
  /\ command = "pick" /\ stage = "picking" /\ link = "up" /\ ~gaveUp /\ pending = {} /\ replies = <<>>
       => list = Listed(table)

(* Whatever ptyd does, a command does not wait for it for ever: it comes to *)
(* an end or gives the keys back.                                           *)
NeverHangs == stage = "looking" ~> stage \in {"over", "picking", "attached"}
=============================================================================
