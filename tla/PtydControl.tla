----------------------------- MODULE PtydControl -----------------------------
(***************************************************************************)
(* The gateway's control connection to ptyd, its cache of the session list *)
(* and what a browser on /ws/events is told of both                        *)
(* (src/web/ptyd-control.ts, src/shared/ptyd-client.ts, handleEvents of    *)
(* src/web/ws.ts).                                                         *)
(*                                                                         *)
(* ptyd answers and announces in order on one stream.  The gateway reads   *)
(* it in chunks: all the frames of a chunk are handled in one callback,    *)
(* and a promise that one of them settles continues only after it.  Such a *)
(* continuation runs before any other callback does.                       *)
(***************************************************************************)
EXTENDS Integers, Sequences

CONSTANTS
  Id,        \* session ids
  Meta,      \* what is shown of a session
  NoSession, \* there is none of this id
  MaxWire    \* bound of the model: frames on their way from ptyd

ASSUME PtydControlAssumption ==
  /\ NoSession \notin Meta
  /\ MaxWire \in Nat \ {0}

VARIABLES
  table,      \* ptyd's sessions
  wire,       \* frames ptyd sent on the connection and the gateway has not read
  asked,      \* ptyd has a `list` of the gateway to answer
  link,       \* the socket: "none", "open", or "cut" when ptyd's end is gone
  client,     \* PtydControl.client is set
  listing,    \* the `list` call of connect()
  dialing,    \* PtydClient.connect has not settled
  retryTimer, \* PtydControl.retryTimer is armed
  stopped,    \* PtydControl.stopped
  status,     \* PtydControl.status
  sessions,   \* PtydControl.sessions
  shown,      \* the list of a browser that is connected to /ws/events
  raced,      \* history: an event shared a chunk with the list it came after
  cutOff      \* history: a `list` of connect() has failed

vars == <<table, wire, asked, link, client, listing, dialing, retryTimer,
          stopped, status, sessions, shown, raced, cutOff>>

gateway == <<client, listing, dialing, retryTimer, stopped, status, sessions,
             shown, raced, cutOff>>

List == [Id -> Meta \cup {NoSession}]

-----------------------------------------------------------------------------
(* Frames. *)
created(id, m) == [frame |-> "created", id |-> id, val |-> m]
changed(id, m) == [frame |-> "changed", id |-> id, val |-> m]  \* renamed, resized, locked, ...
removed(id)    == [frame |-> "removed", id |-> id, val |-> NoSession]
listed(l)      == [frame |-> "listed", val |-> l]

IsEvent(f) == f.frame # "listed"

(* Fault: a removed session stays in the list. *)
NeverRemoved(l, f) ==
  IF f.frame = "removed" \/ (f.frame = "changed" /\ l[f.id] = NoSession)
  THEN l ELSE [l EXCEPT ![f.id] = f.val]

(* handleEvent, patch: a list after an event. *)
Patched(l, f) ==
  IF f.frame = "changed" /\ l[f.id] = NoSession THEN l ELSE [l EXCEPT ![f.id] = f.val]

(* A list after the events among some frames. *)
Heard(l, f) == IF IsEvent(f) THEN Patched(l, f) ELSE l

AfterEvents(l, frames) ==
  LET after[i \in 0..Len(frames)] == IF i = 0 THEN l ELSE Heard(after[i - 1], frames[i])
  IN after[Len(frames)]

(* The `list` call: not made or over, unanswered, or settled and about to   *)
(* be continued with the list or with an error.                             *)
NoListing == [is |-> "none"]
Waiting   == [is |-> "waiting"]
Failed    == [is |-> "failed"]
Got(l)    == [is |-> "got", list |-> l]

LoopIdle == listing.is \in {"none", "waiting"}

(* Fault: browsers are told the status only. *)
StatusOnly(s, l) == status' = s /\ UNCHANGED shown

(* setStatus, once the cache is l: a change is told to the browsers, and    *)
(* with "connected" comes the whole list.                                   *)
SetStatus(s, l) ==
  /\ status' = s
  /\ shown' = IF s # status /\ s = "connected" THEN l ELSE shown

-----------------------------------------------------------------------------
Init ==
  /\ table \in List
  /\ wire = <<>>
  /\ asked = FALSE
  /\ link = "none"
  /\ client = FALSE
  /\ listing = NoListing
  /\ dialing = TRUE            \* start()
  /\ retryTimer = FALSE
  /\ stopped = FALSE
  /\ status = "connecting"
  /\ sessions = [id \in Id |-> NoSession]
  /\ shown = [id \in Id |-> NoSession]
  /\ raced = FALSE
  /\ cutOff = FALSE

(***************************************************************************)
(* ptyd, as Ptyd describes it.                                             *)
(***************************************************************************)
RoomOnWire == link = "open" => Len(wire) < MaxWire

Announce(f) == wire' = IF link = "open" THEN Append(wire, f) ELSE wire

PtydChange ==
  /\ RoomOnWire
  /\ \E id \in Id, m \in Meta \cup {NoSession} :
       /\ m # table[id]
       /\ table' = [table EXCEPT ![id] = m]
       /\ Announce(IF m = NoSession THEN removed(id)
                   ELSE IF table[id] = NoSession THEN created(id, m)
                   ELSE changed(id, m))
  /\ UNCHANGED <<asked, link>>
  /\ UNCHANGED gateway

PtydAnswer ==
  /\ asked /\ RoomOnWire
  /\ asked' = FALSE
  /\ wire' = Append(wire, listed(table))
  /\ UNCHANGED <<table, link>>
  /\ UNCHANGED gateway

(* ptyd closes the connection, or dies and takes its sessions along.  Some  *)
(* of what it sent may still arrive.                                        *)
PtydHangsUp ==
  /\ link = "open"
  /\ link' = "cut"
  /\ asked' = FALSE
  /\ \E k \in 0..Len(wire) : wire' = SubSeq(wire, 1, k)
  /\ table' \in {table, [id \in Id |-> NoSession]}
  /\ UNCHANGED gateway

(***************************************************************************)
(* The gateway.                                                            *)
(***************************************************************************)

(* PtydClient.connect resolves; its continuation asks for the list. *)
Connected ==
  /\ LoopIdle /\ dialing
  /\ dialing' = FALSE
  /\ link' = "open"
  /\ client' = TRUE
  /\ wire' = <<>>
  /\ asked' = TRUE
  /\ listing' = Waiting
  /\ raced' = FALSE
  /\ UNCHANGED <<table, retryTimer, stopped, status, sessions, shown, cutOff>>

(* Fault: a refused connection is not retried. *)
ConnectGivesUp ==
  /\ LoopIdle /\ dialing
  /\ dialing' = FALSE
  /\ client' = FALSE
  /\ SetStatus("down", sessions)
  /\ UNCHANGED <<table, wire, asked, link, listing, retryTimer, stopped, sessions, raced, cutOff>>

(* It rejects: retried unless the gateway is stopping. *)
ConnectFails ==
  /\ LoopIdle /\ dialing
  /\ dialing' = FALSE
  /\ client' = FALSE
  /\ SetStatus("down", sessions)
  /\ retryTimer' = ~stopped
  /\ UNCHANGED <<table, wire, asked, link, listing, stopped, sessions, raced, cutOff>>

(* PtydClient.onData: one chunk.  An answer nobody waits for is ignored. *)
ReadChunk ==
  /\ LoopIdle
  /\ \E k \in 1..Len(wire) :
       LET chunk == SubSeq(wire, 1, k)
           at    == {i \in 1..k : ~IsEvent(chunk[i])}
       IN /\ wire' = SubSeq(wire, k + 1, Len(wire))
          /\ sessions' = AfterEvents(sessions, chunk)
          /\ shown' = AfterEvents(shown, chunk)
          /\ IF at # {} /\ listing = Waiting
             THEN \E i \in at : listing' = Got(chunk[i].val) /\ raced' = (raced \/ i < k)
             ELSE UNCHANGED <<listing, raced>>
  /\ UNCHANGED <<table, asked, link, client, dialing, retryTimer, stopped, status, cutOff>>

(* The request times out; the connection stays. *)
ListTimesOut ==
  /\ LoopIdle /\ listing = Waiting
  /\ listing' = Failed
  /\ cutOff' = TRUE
  /\ UNCHANGED <<table, wire, asked, link, client, dialing, retryTimer,
                 stopped, status, sessions, shown, raced>>

(* The rest of connect() after `await client.list()`. *)
Synced ==
  /\ ~LoopIdle
  /\ listing' = NoListing
  /\ sessions' = IF listing = Failed THEN sessions ELSE listing.list
  /\ SetStatus("connected", sessions')
  /\ UNCHANGED <<table, wire, asked, link, client, dialing, retryTimer,
                 stopped, raced, cutOff>>

(* teardown, handleClose: the close of the socket is noticed. *)
NoticeClose ==
  /\ LoopIdle /\ link = "cut" /\ wire = <<>>
  /\ link' = "none"
  /\ listing' = IF listing = Waiting THEN Failed ELSE listing
  /\ cutOff' = (cutOff \/ listing = Waiting)
  /\ IF stopped THEN UNCHANGED <<client, status, shown, retryTimer>>
     ELSE /\ client' = FALSE
          /\ SetStatus("down", sessions)
          /\ retryTimer' = TRUE
  /\ UNCHANGED <<table, wire, asked, dialing, stopped, sessions, raced>>

(* retryTimer fires: connect() again. *)
Retry ==
  /\ LoopIdle /\ retryTimer
  /\ retryTimer' = FALSE
  /\ dialing' = TRUE
  /\ SetStatus(IF client THEN "connecting" ELSE status, sessions)
  /\ UNCHANGED <<table, wire, asked, link, client, listing, stopped, sessions, raced, cutOff>>

(* stop(), when the gateway shuts down. *)
Stop ==
  /\ LoopIdle /\ ~stopped
  /\ stopped' = TRUE
  /\ retryTimer' = FALSE
  /\ client' = FALSE
  /\ IF client
     THEN /\ link' = "none" /\ wire' = <<>> /\ asked' = FALSE
          /\ listing' = IF listing = Waiting THEN Failed ELSE listing
          /\ cutOff' = (cutOff \/ listing = Waiting)
     ELSE UNCHANGED <<link, wire, asked, listing, cutOff>>
  /\ UNCHANGED <<table, dialing, status, sessions, shown, raced>>

(* A browser connects to /ws/events: handleEvents. *)
BrowserJoins ==
  /\ LoopIdle
  /\ shown' = sessions
  /\ UNCHANGED <<table, wire, asked, link, client, listing, dialing, retryTimer,
                 stopped, status, sessions, raced, cutOff>>

Next ==
  \/ PtydChange \/ PtydAnswer \/ PtydHangsUp
  \/ Connected \/ ConnectFails \/ ReadChunk \/ ListTimesOut \/ Synced
  \/ NoticeClose \/ Retry \/ Stop \/ BrowserJoins

Spec == Init /\ [][Next]_vars

(* Timers fire, sockets are read, and a connection that is tried over and   *)
(* over is accepted in the end.                                             *)
Fairness ==
  /\ WF_vars(Retry) /\ WF_vars(Synced) /\ WF_vars(ReadChunk) /\ WF_vars(NoticeClose)
  /\ WF_vars(ListTimesOut \/ PtydAnswer)
  /\ WF_vars(Connected \/ ConnectFails) /\ SF_vars(Connected)

FairSpec == Spec /\ Fairness

-----------------------------------------------------------------------------
TypeOK ==
  /\ table \in List
  /\ \A i \in DOMAIN wire : wire[i].frame \in {"created", "changed", "removed", "listed"}
  /\ link \in {"none", "open", "cut"}
  /\ listing \in {NoListing, Waiting, Failed} \cup {Got(l) : l \in List}
  /\ {asked, client, dialing, retryTimer, stopped, raced, cutOff} \subseteq BOOLEAN
  /\ status \in {"connected", "connecting", "down"}
  /\ sessions \in List
  /\ shown \in List

(* The cache is ptyd's table as of the frames read so far: what is still on *)
(* the wire is exactly what it lacks.  That holds from the first list on,   *)
(* whatever was missed while the link was down -- unless the list call      *)
(* failed, or the list shared a chunk with an event that followed it.       *)
CacheCatchesUp ==
  link = "open" /\ listing = NoListing /\ ~raced /\ ~cutOff
    => AfterEvents(sessions, wire) = table

(* Unless a list call was ever cut off, a gateway that reports "connected"  *)
(* has a connection, and its browsers hold the list it has cached, also     *)
(* after a reconnect to a ptyd with other sessions ("A reconnected ptyd may *)
(* have a completely different session list", ws.ts).                       *)
BrowsersFollow ==
  ~cutOff /\ ~stopped /\ status = "connected" => client /\ shown = sessions

(* The gateway comes back: whenever it has no working connection it gets    *)
(* one again, unless it is stopped.                                         *)
ComesBack == (link # "open") ~> (stopped \/ link = "open")

-----------------------------------------------------------------------------
(* What the code claims and does not keep (README, "Deviations"). *)

(* "Cached session list; authoritative as long as the control link is up"   *)
(* (ptyd-control.ts): once the list has arrived and every frame is read,    *)
(* the cache shows ptyd's sessions.                                         *)
Authoritative ==
  link = "open" /\ client /\ status = "connected" /\ LoopIdle /\ ~asked /\ wire = <<>> /\ ~cutOff
    => sessions = table

(* "Health of the gateway's own connection to ptyd" (protocol.ts): a        *)
(* gateway with no connection does not report itself connected.             *)
StatusIsHealth == LoopIdle /\ ~stopped /\ status = "connected" => client

(* "A reconnected ptyd may have a completely different session list"        *)
(* (ws.ts): once the gateway is in sync again, its browsers are.            *)
ReconnectRefreshes ==
  LoopIdle /\ listing = NoListing /\ link = "open" /\ status = "connected" => shown = sessions
=============================================================================
