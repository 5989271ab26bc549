------------------------------ MODULE SessionList ------------------------------
(***************************************************************************)
(* The list of sessions a browser shows (`sessions` of web/src/state.ts):  *)
(* what the /ws/events channel (web/src/events.ts) and the answers of REST *)
(* calls make of it while other clients change the same sessions.          *)
(*                                                                         *)
(* The channel is in order; the answers come beside it.  A call that fails *)
(* may have been carried out, or may still be.  The gateway is taken to be *)
(* in step with ptyd (see PtydControl for when it is not).                 *)
(***************************************************************************)
EXTENDS Integers, FiniteSets, Sequences, SequencesExt, TLC

CONSTANTS
  Session,    \* ids, never used twice
  Name,       \* names
  DefaultName,
  MaxChannel, \* bound of the model: messages under way to the browser
  MaxCalls    \* bound of the model: calls under way, given up or not

(* DefaultName \in Name, MaxChannel and MaxCalls \in Nat. *)

VARIABLES
  born,    \* ids in the order of creation, removed ones included
  table,   \* ptyd's sessions: a function of their ids
  open,    \* the browser's /ws/events socket is
  channel, \* messages on it
  list,    \* sessions.value
  calls,   \* REST calls the browser waits for
  strays   \* requests it has given up that may still be carried out

vars == <<born, table, open, channel, list, calls, strays>>

ptyd == <<born, table>>

Meta == [name : Name, locked : BOOLEAN]

(* An entry of the list. *)
Entry(id, meta) == [id |-> id, name |-> meta.name, locked |-> meta.locked]

(* The list ptyd gives: metas(). *)
Listed ==
  LET alive == SelectSeq(born, LAMBDA id : id \in DOMAIN table)
  IN [k \in DOMAIN alive |-> Entry(alive[k], table[alive[k]])]

(* Messages on the channel. *)
created(id, meta) == [ev |-> "created", entry |-> Entry(id, meta)]
removed(id)       == [ev |-> "removed", id |-> id]
renamed(id, name) == [ev |-> "renamed", id |-> id, name |-> name]
locked(id, is)    == [ev |-> "locked", id |-> id, locked |-> is]
snapshot          == [ev |-> "snapshot", entries |-> Listed]

Announce(msg) ==
  /\ open => Len(channel) < MaxChannel
  /\ channel' = IF open THEN Append(channel, msg) ELSE channel

(* What a call asks for; a session is not named back. *)
creation          == [op |-> "create"]
renaming(id, n)   == [op |-> "rename", id |-> id, name |-> n]
locking(id, is)   == [op |-> "lock", id |-> id, locked |-> is]
closing(id, hard) == [op |-> "close", id |-> id, force |-> hard]

Request ==
  {creation} \cup {renaming(id, n) : id \in Session, n \in Name \ {DefaultName}}
    \cup {locking(id, is) : id \in Session, is \in BOOLEAN}
    \cup {closing(id, hard) : id \in Session, hard \in BOOLEAN}

(* How a call stands. *)
Waiting   == [is |-> "waiting"]
Refused   == [is |-> "refused"]
Done(e)   == [is |-> "done", entry |-> e]
Closed    == [is |-> "closed"]

-----------------------------------------------------------------------------
(* state.ts and events.ts: what the list becomes. *)

Has(l, id) == \E k \in DOMAIN l : l[k].id = id

(* map(s => s.id === id ? session : s) *)
Replaced(l, e) == [k \in DOMAIN l |-> IF l[k].id = e.id THEN e ELSE l[k]]

(* upsertSession *)
Upserted(l, e) == IF Has(l, e.id) THEN Replaced(l, e) ELSE Append(l, e)

Without(l, id) == SelectSeq(l, LAMBDA e : e.id # id)

(* handle: after a message of the channel. *)
After(l, msg) ==
  CASE msg.ev = "created"  -> Upserted(l, msg.entry)
    [] msg.ev = "removed"  -> Without(l, msg.id)
    [] msg.ev = "renamed"  -> [k \in DOMAIN l |->
                                 IF l[k].id = msg.id THEN [l[k] EXCEPT !.name = msg.name] ELSE l[k]]
    [] msg.ev = "locked"   -> [k \in DOMAIN l |->
                                 IF l[k].id = msg.id THEN [l[k] EXCEPT !.locked = msg.locked] ELSE l[k]]
    [] msg.ev = "snapshot" -> msg.entries

-----------------------------------------------------------------------------
Init ==
  /\ born = <<>>
  /\ table = <<>>
  /\ open = TRUE
  /\ channel = <<>>
  /\ list = <<>>
  /\ calls = {}
  /\ strays = {}

-----------------------------------------------------------------------------
(* ptyd carries out a request of anyone.                                    *)

Create(id) ==
  /\ id \notin Range(born)
  /\ born' = Append(born, id)
  /\ table' = table @@ (id :> [name |-> DefaultName, locked |-> FALSE])
  /\ Announce(created(id, table'[id]))

Rename(id, name) ==
  /\ table' = [table EXCEPT ![id].name = name]
  /\ UNCHANGED born
  /\ Announce(renamed(id, name))

SetLock(id, is) ==
  /\ table' = [table EXCEPT ![id].locked = is]
  /\ UNCHANGED born
  /\ IF table[id].locked = is THEN UNCHANGED channel ELSE Announce(locked(id, is))

Kill(id) ==
  /\ table' = [i \in DOMAIN table \ {id} |-> table[i]]
  /\ UNCHANGED born
  /\ Announce(removed(id))

(* An unknown session, or a locked one that is closed without force. *)
Refuses(req) ==
  /\ req.op # "create"
  /\ \/ req.id \notin DOMAIN table
     \/ req.op = "close" /\ table[req.id].locked /\ ~req.force

Performs(req, id) ==
  CASE req.op = "create" -> Create(id)
    [] req.op = "rename" -> id = req.id /\ Rename(id, req.name)
    [] req.op = "lock"   -> id = req.id /\ SetLock(id, req.locked)
    [] req.op = "close"  -> id = req.id /\ Kill(id)

(* Another client's request. *)
OtherClient ==
  \E req \in Request, id \in Session :
    /\ ~Refuses(req) /\ Performs(req, id)
    /\ UNCHANGED <<open, list, calls, strays>>

-----------------------------------------------------------------------------
(* The browser's calls. *)

(* createSession, renameSession, setSessionLock: up to the await. *)
Ask(req) ==
  /\ Cardinality(calls) + Cardinality(strays) < MaxCalls /\ \A c \in calls : c.req # req
  /\ req.op # "close"
  /\ req.op # "create" => Has(list, req.id)
  /\ calls' = calls \cup {[req |-> req, answer |-> Waiting, previous |-> <<>>]}
  /\ UNCHANGED ptyd
  /\ UNCHANGED <<open, channel, list, strays>>

(* closeSession up to the await: the list it was called with is kept. *)
Close(id, force) ==
  /\ Cardinality(calls) + Cardinality(strays) < MaxCalls
  /\ \E k \in DOMAIN list : list[k].id = id /\ (~list[k].locked \/ force)
  /\ calls' = calls \cup {[req |-> closing(id, force), answer |-> Waiting, previous |-> list]}
  /\ list' = Without(list, id)
  /\ UNCHANGED ptyd
  /\ UNCHANGED <<open, channel, strays>>

(* The request reaches ptyd. *)
Serve(call) ==
  /\ call.answer = Waiting
  /\ IF Refuses(call.req)
     THEN /\ calls' = (calls \ {call}) \cup {[call EXCEPT !.answer = Refused]}
          /\ UNCHANGED ptyd
          /\ UNCHANGED channel
     ELSE \E id \in Session :
            /\ Performs(call.req, id)
            /\ LET answer == IF call.req.op = "close" THEN Closed ELSE Done(Entry(id, table'[id]))
               IN calls' = (calls \ {call}) \cup {[call EXCEPT !.answer = answer]}
  /\ UNCHANGED <<open, list, strays>>

StrayServed(req) ==
  /\ strays' = strays \ {req}
  /\ IF Refuses(req) THEN UNCHANGED ptyd /\ UNCHANGED channel
     ELSE \E id \in Session : Performs(req, id)
  /\ UNCHANGED <<open, list, calls>>

(* The answer arrives. *)
Succeeds(call) ==
  /\ call.answer.is \in {"done", "closed"}
  /\ calls' = calls \ {call}
  /\ list' = CASE call.req.op = "create" -> Upserted(list, call.answer.entry)
               [] call.req.op = "close"  -> list
               [] OTHER                  -> Replaced(list, call.answer.entry)
  /\ UNCHANGED ptyd
  /\ UNCHANGED <<open, channel, strays>>

(* It was refused, or it did not arrive in time; then the request, if it    *)
(* was not carried out yet, may be later.                                   *)
Fails(call) ==
  /\ calls' = calls \ {call}
  /\ strays' \in {strays, IF call.answer = Waiting THEN strays \cup {call.req} ELSE strays}
  /\ list' = IF call.req.op = "close" THEN call.previous ELSE list
  /\ UNCHANGED ptyd
  /\ UNCHANGED <<open, channel>>

-----------------------------------------------------------------------------
(* The channel. *)

Receive ==
  /\ channel # <<>>
  /\ list' = After(list, Head(channel))
  /\ channel' = Tail(channel)
  /\ UNCHANGED ptyd
  /\ UNCHANGED <<open, calls, strays>>

Disconnect ==
  /\ open
  /\ open' = FALSE
  /\ channel' = <<>>
  /\ UNCHANGED ptyd
  /\ UNCHANGED <<list, calls, strays>>

(* handleEvents: a snapshot first. *)
Connect ==
  /\ ~open
  /\ open' = TRUE
  /\ channel' = <<snapshot>>
  /\ UNCHANGED ptyd
  /\ UNCHANGED <<list, calls, strays>>

Next ==
  \/ OtherClient
  \/ \E req \in Request : Ask(req)
  \/ \E id \in Session, force \in BOOLEAN : Close(id, force)
  \/ \E call \in calls : Serve(call) \/ Succeeds(call) \/ Fails(call)
  \/ \E req \in strays : StrayServed(req)
  \/ Receive \/ Disconnect \/ Connect

Spec == Init /\ [][Next]_vars

-----------------------------------------------------------------------------
Message(msg) ==
  CASE msg.ev = "created"  -> msg.entry \in {Entry(id, m) : id \in Session, m \in Meta}
    [] msg.ev = "removed"  -> msg.id \in Session
    [] msg.ev = "renamed"  -> msg.id \in Session /\ msg.name \in Name
    [] msg.ev = "locked"   -> msg.id \in Session /\ msg.locked \in BOOLEAN
    [] msg.ev = "snapshot" -> \A k \in DOMAIN msg.entries : msg.entries[k].id \in Session

TypeOK ==
  /\ born \in Seq(Session) /\ IsInjective(born)
  /\ DOMAIN table \subseteq Range(born) /\ \A id \in DOMAIN table : table[id] \in Meta
  /\ open \in BOOLEAN
  /\ \A k \in DOMAIN channel : Message(channel[k])
  /\ channel # <<>> => open
  /\ \A k \in DOMAIN list : list[k] \in {Entry(id, m) : id \in Session, m \in Meta}
  /\ \A c \in calls : c.req \in Request /\ c.answer.is \in {"waiting", "refused", "done", "closed"}
  /\ strays \subseteq Request

-----------------------------------------------------------------------------
(* What the code claims and does not keep, when nothing is under way.       *)
Quiet == open /\ channel = <<>> /\ calls = {} /\ strays = {}

(* "Put it back: the session is still there" (state.ts): a session of the   *)
(* list is one of ptyd's.                                                   *)
NoGhost == Quiet => \A k \in DOMAIN list : list[k].id \in DOMAIN table

(* "pretending otherwise would hide a running shell from the only UI that   *)
(* can reach it" (state.ts): every session of ptyd is in the list.          *)
NoneHidden == Quiet => \A id \in DOMAIN table : Has(list, id)
=============================================================================
