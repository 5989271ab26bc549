------------------------------- MODULE PrefsSync -------------------------------
(***************************************************************************)
(* The browser's queue of preference edits (web/src/prefs-sync.ts), with   *)
(* what feeds it and competes with it in web/src/state.ts: edits, boot()   *)
(* and the save of a page that is left.  The gateway merges a patch into   *)
(* its preferences in one step (src/web/prefs-store.ts).                   *)
(*                                                                         *)
(* A preference holds the number of the edit that set it, so a larger      *)
(* value is a later edit.  One device edits.                               *)
(***************************************************************************)
EXTENDS Integers

CONSTANTS
  Key,       \* preferences
  MaxEdits   \* bound of the model: edits

ASSUME PrefsSyncAssumption == MaxEdits \in Nat

VARIABLES
  onLine,    \* navigator.onLine
  onlineDue, \* an "online" event the page has not handled yet
  running,   \* PendingSave.running
  blocked,   \* PendingSave.blocked
  pending,   \* PendingSave.pending, a patch
  inFlight,  \* PendingSave.inFlight, a patch
  served,    \* the gateway has handled the request in flight
  timer,     \* PendingSave.timer is armed
  page,      \* prefs.value
  booting,   \* boot(): the preferences it has read, once it has
  server,    \* PrefsStore.cache
  strays,    \* requests the page does not wait for that may still arrive
  overtaken, \* history: one arrived after a later edit of the same preference
  edited,    \* history: the preferences as the user last set them
  edits      \* history: how many edits there were

vars == <<onLine, onlineDue, running, blocked, pending, inFlight, served, timer,
          page, booting, server, strays, overtaken, edited, edits>>

network == <<onLine, onlineDue>>
device == <<page, booting, edited, edits>>

Unset   == -1
Prefs   == [Key -> 0..MaxEdits]
Patch   == [Key -> {Unset} \cup 0..MaxEdits]
NoPatch == [k \in Key |-> Unset]

(* Fault: what was there already wins. *)
MergeOlder(older, newer) == [k \in Key |-> IF older[k] # Unset THEN older[k] ELSE newer[k]]

(* mergePrefs *)
Merge(older, newer) == [k \in Key |-> IF newer[k] # Unset THEN newer[k] ELSE older[k]]

(* Fault: the patch replaces what there is. *)
Replaced(prefs, patch) == patch

(* PrefsStore.update *)
Updated(prefs, patch) == [k \in Key |-> IF patch[k] # Unset THEN patch[k] ELSE prefs[k]]

(* snapshot() *)
Snapshot == Merge(inFlight, pending)

NotBooting == [is |-> "no"]
Asking     == [is |-> "asking"]
Answered(p) == [is |-> "answered", prefs |-> p]
Applied    == [is |-> "applied"]

(* Fault: a rejected save is not waited for. *)
ScheduleBlocked(run, block, pend, flight) ==
  timer' = IF run /\ pend # NoPatch /\ flight = NoPatch THEN onLine ELSE timer

(* schedule(), in the state it leaves behind.  Offline, the timer is        *)
(* cancelled and the online event schedules the next attempt.               *)
Schedule(run, block, pend, flight) ==
  timer' = IF run /\ ~block /\ pend # NoPatch /\ flight = NoPatch THEN onLine ELSE timer

-----------------------------------------------------------------------------
Init ==
  /\ onLine \in BOOLEAN
  /\ onlineDue = FALSE
  /\ running = FALSE
  /\ blocked = FALSE
  /\ pending = NoPatch
  /\ inFlight = NoPatch
  /\ served = FALSE
  /\ timer = FALSE
  /\ page = [k \in Key |-> 0]
  /\ booting = NotBooting
  /\ server = [k \in Key |-> 0]
  /\ strays = {}
  /\ overtaken = FALSE
  /\ edited = [k \in Key |-> 0]
  /\ edits = 0

Start ==
  /\ ~running
  /\ running' = TRUE
  /\ Schedule(TRUE, blocked, pending, inFlight)
  /\ UNCHANGED network
  /\ UNCHANGED device
  /\ UNCHANGED <<blocked, pending, inFlight, served, server, strays, overtaken>>

Stop ==
  /\ running
  /\ running' = FALSE
  /\ timer' = FALSE
  /\ UNCHANGED network
  /\ UNCHANGED device
  /\ UNCHANGED <<blocked, pending, inFlight, served, server, strays, overtaken>>

(* updatePrefs, updateFontPrefs, persistLayoutSoon: shown and enqueued. *)
Edit(k) ==
  /\ edits < MaxEdits
  /\ edits' = edits + 1
  /\ page' = [page EXCEPT ![k] = edits']
  /\ edited' = [edited EXCEPT ![k] = edits']
  /\ pending' = Merge(pending, [NoPatch EXCEPT ![k] = edits'])
  /\ Schedule(running, blocked, pending', inFlight)
  /\ UNCHANGED network
  /\ UNCHANGED <<running, blocked, inFlight, served, booting, server, strays, overtaken>>

(* The timer fires: flush() up to its await. *)
Flush ==
  /\ timer
  /\ timer' = FALSE
  /\ IF running /\ ~blocked /\ pending # NoPatch /\ inFlight = NoPatch
     THEN inFlight' = pending /\ pending' = NoPatch /\ served' = FALSE
     ELSE UNCHANGED <<inFlight, pending, served>>
  /\ UNCHANGED network
  /\ UNCHANGED device
  /\ UNCHANGED <<running, blocked, server, strays, overtaken>>

(* The gateway handles the request in flight: PrefsStore.update. *)
Serve ==
  /\ inFlight # NoPatch /\ ~served
  /\ served' = TRUE
  /\ server' = Updated(server, inFlight)
  /\ UNCHANGED network
  /\ UNCHANGED device
  /\ UNCHANGED <<running, blocked, pending, inFlight, timer, strays, overtaken>>

(* The rest of flush() after a save that succeeded. *)
Saved ==
  /\ inFlight # NoPatch /\ served
  /\ inFlight' = NoPatch
  /\ Schedule(running, blocked, pending, NoPatch)
  /\ UNCHANGED network
  /\ UNCHANGED device
  /\ UNCHANGED <<running, blocked, pending, served, server, strays, overtaken>>

(* What is pending after a save failed. *)
Requeued(older, newer) == Merge(older, newer)

(* Fault: a failed save is not scheduled again. *)
SaveFailsSilently ==
  /\ inFlight # NoPatch
  /\ inFlight' = NoPatch
  /\ pending' = Requeued(inFlight, pending)
  /\ \E transient \in BOOLEAN : blocked' = ~transient
  /\ UNCHANGED timer
  /\ strays' \in {strays, IF ~served THEN strays \cup {inFlight} ELSE strays}
  /\ UNCHANGED network
  /\ UNCHANGED device
  /\ UNCHANGED <<running, served, server, overtaken>>

(* After one that failed: a lost or late answer and an overloaded gateway   *)
(* are transient, a rejection is permanent.  The request itself may still   *)
(* arrive if the page gave it up.                                           *)
SaveFails ==
  /\ inFlight # NoPatch
  /\ inFlight' = NoPatch
  /\ pending' = Requeued(inFlight, pending)
  /\ \E transient \in BOOLEAN :
       /\ blocked' = ~transient
       /\ strays' \in {strays, IF transient /\ ~served THEN strays \cup {inFlight}
                                                       ELSE strays}
  /\ Schedule(running, blocked', pending', NoPatch)
  /\ UNCHANGED network
  /\ UNCHANGED device
  /\ UNCHANGED <<running, served, server, overtaken>>

(* flushPrefs, when the page is left or hidden: a save of all that is not   *)
(* confirmed, beside the queue.  It may be lost.                            *)
PageHide ==
  /\ Snapshot # NoPatch
  /\ strays' = strays \cup {Snapshot}
  /\ UNCHANGED network
  /\ UNCHANGED device
  /\ UNCHANGED <<running, blocked, pending, inFlight, served, timer, server, overtaken>>

(* Such a request reaches the gateway, at any time or never. *)
StrayArrives ==
  \E patch \in strays :
    /\ strays' = strays \ {patch}
    /\ server' = Updated(server, patch)
    /\ overtaken' = (overtaken \/ \E k \in Key : patch[k] # Unset /\ patch[k] < server[k])
    /\ UNCHANGED network
    /\ UNCHANGED device
    /\ UNCHANGED <<running, blocked, pending, inFlight, served, timer>>

(***************************************************************************)
(* boot(), at the start and after a login.                                 *)
(***************************************************************************)
Boot ==
  /\ booting = NotBooting
  /\ booting' = Asking
  /\ UNCHANGED network
  /\ UNCHANGED <<running, blocked, pending, inFlight, served, timer, page, server,
                 strays, overtaken, edited, edits>>

(* The gateway answers, or one of the requests fails. *)
BootReads ==
  /\ booting = Asking
  /\ booting' \in {Answered(server), NotBooting}
  /\ UNCHANGED network
  /\ UNCHANGED <<running, blocked, pending, inFlight, served, timer, page, server,
                 strays, overtaken, edited, edits>>

BootApplies ==
  /\ booting.is = "answered"
  /\ booting' = Applied
  /\ page' = booting.prefs
  /\ UNCHANGED network
  /\ UNCHANGED <<running, blocked, pending, inFlight, served, timer, server,
                 strays, overtaken, edited, edits>>

(* Fault: a resumed queue waits for the next edit. *)
ResumeLater ==
  /\ booting = Applied
  /\ booting' = NotBooting
  /\ blocked' = FALSE
  /\ UNCHANGED timer
  /\ UNCHANGED network
  /\ UNCHANGED <<running, pending, inFlight, served, page, server, strays, overtaken, edited, edits>>

(* resume() *)
Resume ==
  /\ booting = Applied
  /\ booting' = NotBooting
  /\ blocked' = FALSE
  /\ Schedule(running, FALSE, pending, inFlight)
  /\ UNCHANGED network
  /\ UNCHANGED <<running, pending, inFlight, served, page, server, strays, overtaken, edited, edits>>

(***************************************************************************)
(* The network.                                                            *)
(***************************************************************************)
NetworkFlips ==
  /\ onLine' = ~onLine
  /\ onlineDue' = (onlineDue \/ ~onLine)
  /\ UNCHANGED device
  /\ UNCHANGED <<running, blocked, pending, inFlight, served, timer, server, strays, overtaken>>

(* The page handles an "online" event, if it listens. *)
Online ==
  /\ onlineDue
  /\ onlineDue' = FALSE
  /\ IF running THEN Schedule(running, blocked, pending, inFlight) ELSE UNCHANGED timer
  /\ UNCHANGED onLine
  /\ UNCHANGED device
  /\ UNCHANGED <<running, blocked, pending, inFlight, served, server, strays, overtaken>>

Next ==
  \/ Start \/ Stop \/ \E k \in Key : Edit(k)
  \/ Flush \/ Serve \/ Saved \/ SaveFails \/ PageHide \/ StrayArrives
  \/ Boot \/ BootReads \/ BootApplies \/ Resume
  \/ NetworkFlips \/ Online

Spec == Init /\ [][Next]_vars

(* Timers fire, events are dispatched, a request is answered or given up    *)
(* (it has a deadline), and one that is tried over and over succeeds.       *)
Fairness ==
  /\ WF_vars(Flush) /\ WF_vars(Online)
  /\ WF_vars(Saved \/ SaveFails) /\ SF_vars(Serve) /\ SF_vars(Saved)

FairSpec == Spec /\ Fairness

-----------------------------------------------------------------------------
TypeOK ==
  /\ {onLine, onlineDue, running, blocked, served, timer, overtaken} \subseteq BOOLEAN
  /\ pending \in Patch /\ inFlight \in Patch
  /\ page \in Prefs /\ server \in Prefs /\ edited \in Prefs
  /\ booting \in {NotBooting, Asking, Applied} \cup {Answered(p) : p \in Prefs}
  /\ strays \subseteq Patch \ {NoPatch}
  /\ edits \in 0..MaxEdits

(* No edit is lost and none is hidden by an older one: what the gateway     *)
(* has, with what the page still holds on top, is what the user last set -- *)
(* a failed save keeps its edits and loses to newer ones -- until a request *)
(* the page gave up arrives after a later one.                              *)
NothingLost ==
  ~overtaken => \A k \in Key :
    edited[k] = CASE pending[k] # Unset  -> pending[k]
                  [] pending[k] = Unset /\ inFlight[k] # Unset -> inFlight[k]
                  [] OTHER -> server[k]

(* After a rejection the queue stays still until boot() resumes it: neither *)
(* edits nor the network coming back retry rejected credentials.            *)
BlockedIsStill == blocked => ~timer /\ inFlight = NoPatch

(* A queue that could save is about to: nothing waits for an event that is  *)
(* not coming.                                                              *)
NeverStalled ==
  running /\ ~blocked /\ pending # NoPatch /\ inFlight = NoPatch /\ onLine
    => timer \/ onlineDue

(* Edits reach the gateway if from some time on the page is online, the     *)
(* queue runs and nothing is rejected, or one was overtaken there.          *)
EventuallySaved ==
  <>[](running /\ onLine /\ ~blocked) => <>[](server = edited \/ overtaken)

-----------------------------------------------------------------------------
(* What the code claims and does not keep (README, "Deviations"). *)

(* "Pending edits stay in this page until saved" (prefs-sync.ts): a         *)
(* preference with an unsaved edit shows it.                                *)
PageKeepsEdits == \A k \in Key : Snapshot[k] # Unset => page[k] = Snapshot[k]

(* "Edits made during the request win over the failed older patch"          *)
(* (prefs-sync.ts): when everything is saved, the gateway has the last      *)
(* edits.                                                                   *)
LaterEditsWin == Snapshot = NoPatch => server = edited
=============================================================================
