---------------------------- MODULE PrefsSyncProofs ----------------------------
(***************************************************************************)
(* Proofs about PrefsSync, for every set of preferences and any number of  *)
(* edits, with requests that arrive late or never.                         *)
(***************************************************************************)
EXTENDS PrefsSync, TLAPS

(* A timer is armed only while nothing is in flight. *)
OneAtATime == inFlight # NoPatch => ~timer

QueueInv == TypeOK /\ OneAtATime /\ BlockedIsStill /\ NeverStalled

(* What the gateway has handled is there, unless a newer edit waits: it is  *)
(* needed to see that nothing is lost when a save is confirmed.             *)
ServedIsThere ==
  ~overtaken /\ served =>
    \A k \in Key : inFlight[k] # Unset /\ pending[k] = Unset => server[k] = inFlight[k]

(* No patch is newer than the last edit: a late one that the gateway has    *)
(* nothing newer than is that edit itself.                                  *)
Past(patch) == \A k \in Key : patch[k] <= edited[k]
PatchesPast ==
  /\ \A k \in Key : edited[k] <= edits
  /\ Past(pending) /\ Past(inFlight) /\ \A patch \in strays : Past(patch)

EditsInv == PatchesPast /\ ServedIsThere /\ NothingLost

-----------------------------------------------------------------------------
LEMMA UnsetIsNoEdit == Unset \notin 0..MaxEdits
BY PrefsSyncAssumption DEF Unset

LEMMA PatchFacts ==
  /\ NoPatch \in Patch
  /\ \A p, q \in Patch : Merge(p, q) \in Patch
  /\ \A p \in Prefs, q \in Patch : Updated(p, q) \in Prefs
BY DEF NoPatch, Patch, Prefs, Merge, Updated, Unset

LEMMA BootingFacts ==
  /\ \A p \in Prefs : Answered(p).is = "answered" /\ Answered(p).prefs = p
  /\ NotBooting.is = "no" /\ Asking.is = "asking" /\ Applied.is = "applied"
BY DEF Answered, NotBooting, Asking, Applied

LEMMA InitTypeOK == Init => TypeOK
<1> SUFFICES ASSUME Init PROVE TypeOK
  OBVIOUS
<1>1. {onLine, onlineDue, running, blocked, served, timer, overtaken} \subseteq BOOLEAN
  BY DEF Init
<1>2. pending \in Patch /\ inFlight \in Patch
  BY PatchFacts DEF Init
<1>3. page \in Prefs /\ server \in Prefs /\ edited \in Prefs
  BY PrefsSyncAssumption DEF Init, Prefs
<1>4. QED BY <1>1, <1>2, <1>3, PrefsSyncAssumption DEF Init, TypeOK

LEMMA ScheduleTyped ==
  ASSUME NEW run, NEW block, NEW pend, NEW flight,
         timer \in BOOLEAN, onLine \in BOOLEAN, Schedule(run, block, pend, flight)
  PROVE  timer' \in BOOLEAN
BY Zenon DEF Schedule

(* Every step keeps the types. *)
LEMMA NextTypeOK == TypeOK /\ [Next]_vars => TypeOK'
<1> SUFFICES ASSUME TypeOK, [Next]_vars PROVE TypeOK'
  OBVIOUS
<1> USE PatchFacts, UnsetIsNoEdit
<1>0. /\ onLine \in BOOLEAN /\ onlineDue \in BOOLEAN /\ running \in BOOLEAN
      /\ blocked \in BOOLEAN /\ served \in BOOLEAN /\ timer \in BOOLEAN
      /\ overtaken \in BOOLEAN
  BY DEF TypeOK
<1>1. CASE Start
  <2>1. timer' \in BOOLEAN
    BY <1>0, <1>1, Zenon DEF Start, Schedule
  <2>2. QED BY <1>0, <1>1, <2>1 DEF Start, TypeOK, network, device
<1>2. CASE Stop
  BY <1>0, <1>2 DEF Stop, TypeOK, network, device
<1>3. ASSUME NEW k \in Key, Edit(k) PROVE TypeOK'
  <2>1. edits' \in 0..MaxEdits /\ edits < MaxEdits /\ edits' = edits + 1
    BY <1>3, PrefsSyncAssumption DEF Edit, TypeOK
  <2>2. page' \in Prefs /\ edited' \in Prefs
    BY <1>3, <2>1 DEF Edit, TypeOK, Prefs
  <2>3. [NoPatch EXCEPT ![k] = edits'] \in Patch
    BY <2>1 DEF NoPatch, Patch
  <2>4. pending' \in Patch
    BY <1>3, <2>3 DEF Edit, TypeOK
  <2>5. QED BY <1>0, <1>3, <2>1, <2>2, <2>4, ScheduleTyped DEF Edit, TypeOK, network
<1>4. CASE Flush
  BY <1>0, <1>4 DEF Flush, TypeOK, network, device
<1>5. CASE Serve
  BY <1>0, <1>5 DEF Serve, TypeOK, network, device
<1>6. CASE Saved
  BY <1>0, <1>6, ScheduleTyped DEF Saved, TypeOK, network, device
<1>7. CASE SaveFails
  <2>1. pending' \in Patch /\ inFlight' = NoPatch
    BY <1>7 DEF SaveFails, TypeOK, Requeued
  <2>2. blocked' \in BOOLEAN
    BY <1>7, Zenon DEF SaveFails
  <2>3. strays' \subseteq Patch \ {NoPatch}
    BY <1>7 DEF SaveFails, TypeOK
  <2>4. timer' \in BOOLEAN
    BY <1>0, <1>7, ScheduleTyped DEF SaveFails
  <2>5. QED BY <1>0, <1>7, <2>1, <2>2, <2>3, <2>4 DEF SaveFails, TypeOK, network, device
<1>8. CASE PageHide
  BY <1>0, <1>8 DEF PageHide, TypeOK, Snapshot, network, device
<1>9. CASE StrayArrives
  <2>1. overtaken' \in BOOLEAN
    BY <1>0, <1>9, Zenon DEF StrayArrives
  <2>2. QED BY <1>0, <1>9, <2>1 DEF StrayArrives, TypeOK, network, device
<1>10. CASE Boot
  BY <1>0, <1>10 DEF Boot, TypeOK, network
<1>11. CASE BootReads
  BY <1>0, <1>11 DEF BootReads, TypeOK, network
<1>12. CASE BootApplies
  <2>1. booting.prefs \in Prefs
    BY <1>12, BootingFacts DEF BootApplies, TypeOK
  <2>2. QED BY <1>0, <1>12, <2>1 DEF BootApplies, TypeOK, network
<1>13. CASE Resume
  <2>1. timer' \in BOOLEAN
    BY <1>0, <1>13, Zenon DEF Resume, Schedule
  <2>2. QED BY <1>0, <1>13, <2>1 DEF Resume, TypeOK, network
<1>14. CASE NetworkFlips
  BY <1>0, <1>14 DEF NetworkFlips, TypeOK, device
<1>15. CASE Online
  <2>1. timer' \in BOOLEAN
    <3>1. CASE running
      BY <1>0, <1>15, <3>1, Zenon DEF Online, Schedule
    <3>2. CASE ~running
      BY <1>0, <1>15, <3>2, Zenon DEF Online
    <3>3. QED BY <3>1, <3>2
  <2>2. QED BY <1>0, <1>15, <2>1 DEF Online, TypeOK, device
<1>16. CASE UNCHANGED vars
  BY <1>0, <1>16 DEF vars, TypeOK
<1>17. QED
  BY <1>1, <1>2, <1>3, <1>4, <1>5, <1>6, <1>7, <1>8, <1>9, <1>10, <1>11, <1>12,
     <1>13, <1>14, <1>15, <1>16 DEF Next

(* The state of the model is always of its types. *)
THEOREM TypeCorrect == Spec => []TypeOK
BY InitTypeOK, NextTypeOK, PTL DEF Spec

-----------------------------------------------------------------------------
(* Whoever schedules leaves the queue in order: a timer if there is         *)
(* something to save and a network, none that was not there otherwise.      *)
LEMMA Scheduled ==
  ASSUME Schedule(running', blocked', pending', inFlight'), onLine' = onLine,
         inFlight' # NoPatch => ~timer, blocked' => ~timer /\ inFlight' = NoPatch
  PROVE  OneAtATime' /\ BlockedIsStill' /\ NeverStalled'
<1>1. CASE running' /\ ~blocked' /\ pending' # NoPatch /\ inFlight' = NoPatch
  BY <1>1, Zenon DEF Schedule, OneAtATime, BlockedIsStill, NeverStalled
<1>2. CASE ~(running' /\ ~blocked' /\ pending' # NoPatch /\ inFlight' = NoPatch)
  BY <1>2, Zenon DEF Schedule, OneAtATime, BlockedIsStill, NeverStalled
<1>3. QED BY <1>1, <1>2

(* Steps that touch neither the queue nor the network. *)
LEMMA QueueUntouched ==
  ASSUME QueueInv,
         UNCHANGED <<onLine, running, blocked, pending, inFlight, timer>>,
         onlineDue => onlineDue'
  PROVE  OneAtATime' /\ BlockedIsStill' /\ NeverStalled'
BY Zenon DEF QueueInv, OneAtATime, BlockedIsStill, NeverStalled

LEMMA NextQueueInv == QueueInv /\ [Next]_vars => QueueInv'
<1> SUFFICES ASSUME QueueInv, [Next]_vars PROVE OneAtATime' /\ BlockedIsStill' /\ NeverStalled'
  BY NextTypeOK DEF QueueInv
<1>0. OneAtATime /\ BlockedIsStill /\ NeverStalled
  BY DEF QueueInv
<1>1. CASE Start
  <2>1. Schedule(running', blocked', pending', inFlight')
    BY <1>1, Zenon DEF Start, Schedule
  <2>2. QED BY <1>0, <1>1, <2>1, Scheduled, Zenon DEF Start, OneAtATime, BlockedIsStill, network
<1>2. CASE Stop
  BY <1>0, <1>2, Zenon DEF Stop, OneAtATime, BlockedIsStill, NeverStalled
<1>3. ASSUME NEW k \in Key, Edit(k) PROVE OneAtATime' /\ BlockedIsStill' /\ NeverStalled'
  <2>1. Schedule(running', blocked', pending', inFlight')
    BY <1>3, Zenon DEF Edit, Schedule
  <2>2. QED BY <1>0, <1>3, <2>1, Scheduled, Zenon DEF Edit, OneAtATime, BlockedIsStill, network
<1>4. CASE Flush
  <2>1. CASE running /\ ~blocked /\ pending # NoPatch /\ inFlight = NoPatch
    BY <1>4, <2>1, Zenon DEF Flush, OneAtATime, BlockedIsStill, NeverStalled
  <2>2. CASE ~(running /\ ~blocked /\ pending # NoPatch /\ inFlight = NoPatch)
    BY <1>0, <1>4, <2>2, Zenon DEF Flush, OneAtATime, BlockedIsStill, NeverStalled
  <2>3. QED BY <2>1, <2>2
<1>5. CASE Serve
  BY <1>5, QueueUntouched DEF Serve, network
<1>6. CASE Saved
  <2>1. Schedule(running', blocked', pending', inFlight')
    BY <1>6, Zenon DEF Saved, Schedule
  <2>2. QED BY <1>0, <1>6, <2>1, Scheduled, Zenon DEF Saved, OneAtATime, BlockedIsStill, network
<1>7. CASE SaveFails
  <2>1. Schedule(running', blocked', pending', inFlight') /\ inFlight' = NoPatch
    BY <1>7, Zenon DEF SaveFails, Schedule
  <2>2. QED BY <1>0, <1>7, <2>1, Scheduled, Zenon DEF SaveFails, OneAtATime, network
<1>8. CASE PageHide
  BY <1>8, QueueUntouched DEF PageHide, network
<1>9. CASE StrayArrives
  BY <1>9, QueueUntouched DEF StrayArrives, network
<1>10. CASE Boot
  BY <1>10, QueueUntouched DEF Boot, network
<1>11. CASE BootReads
  BY <1>11, QueueUntouched DEF BootReads, network
<1>12. CASE BootApplies
  BY <1>12, QueueUntouched DEF BootApplies, network
<1>13. CASE Resume
  <2>1. Schedule(running', blocked', pending', inFlight')
    BY <1>13, Zenon DEF Resume, Schedule
  <2>2. QED BY <1>0, <1>13, <2>1, Scheduled, Zenon DEF Resume, OneAtATime, network
<1>14. CASE NetworkFlips
  BY <1>0, <1>14, Zenon DEF NetworkFlips, OneAtATime, BlockedIsStill, NeverStalled
<1>15. CASE Online
  <2>1. CASE running
    <3>1. Schedule(running', blocked', pending', inFlight')
      BY <1>15, <2>1, Zenon DEF Online, Schedule
    <3>2. QED BY <1>0, <1>15, <3>1, Scheduled, Zenon DEF Online, OneAtATime, BlockedIsStill
  <2>2. CASE ~running
    BY <1>0, <1>15, <2>2, Zenon DEF Online, OneAtATime, BlockedIsStill, NeverStalled
  <2>3. QED BY <2>1, <2>2
<1>16. CASE UNCHANGED vars
  BY <1>16, QueueUntouched DEF vars
<1>17. QED
  BY <1>1, <1>2, <1>3, <1>4, <1>5, <1>6, <1>7, <1>8, <1>9, <1>10, <1>11, <1>12,
     <1>13, <1>14, <1>15, <1>16 DEF Next

LEMMA InitQueueInv == Init => QueueInv
BY InitTypeOK, Zenon DEF Init, QueueInv, OneAtATime, BlockedIsStill, NeverStalled

THEOREM QueueInvariance == Spec => []QueueInv
BY InitQueueInv, NextQueueInv, PTL DEF Spec

(* A rejected save is not retried before boot() resumes the queue, whatever *)
(* is edited and whatever the network does.                                 *)
THEOREM BlockedStaysStill == Spec => []BlockedIsStill
<1>1. QueueInv => BlockedIsStill
  BY DEF QueueInv
<1>2. QED BY QueueInvariance, <1>1, PTL

(* A queue that could save has its timer armed, or an event to come that    *)
(* arms it.                                                                 *)
THEOREM QueueNeverStalls == Spec => []NeverStalled
<1>1. QueueInv => NeverStalled
  BY DEF QueueInv
<1>2. QED BY QueueInvariance, <1>1, PTL

-----------------------------------------------------------------------------
(* Steps that touch neither a patch nor what the gateway has. *)
LEMMA EditsUntouched ==
  ASSUME EditsInv,
         UNCHANGED <<pending, inFlight, served, server, strays, overtaken, edited, edits>>
  PROVE  EditsInv'
BY DEF EditsInv, PatchesPast, Past, ServedIsThere, NothingLost

(* A request that was given up arrives: if it overtakes nothing, it brings  *)
(* the gateway what it has or the last edit of the preference.              *)
LEMMA StrayKeepsEdits ==
  ASSUME TypeOK, EditsInv, StrayArrives
  PROVE  EditsInv'
<1>1. PICK patch \in strays :
        /\ strays' = strays \ {patch}
        /\ server' = Updated(server, patch)
        /\ overtaken' = (overtaken \/ \E k \in Key : patch[k] # Unset /\ patch[k] < server[k])
        /\ UNCHANGED <<pending, inFlight, served, edited, edits>>
  BY DEF StrayArrives, device
<1>2. \A k \in Key : server'[k] = IF patch[k] # Unset THEN patch[k] ELSE server[k]
  BY <1>1 DEF Updated
<1>3. /\ \A k \in Key : patch[k] <= edited[k]
      /\ \A k \in Key : patch[k] \in Int /\ server[k] \in Int /\ edited[k] \in Int
  BY DEF EditsInv, PatchesPast, Past, TypeOK, Patch, Prefs, Unset
<1>4. PatchesPast'
  BY <1>1 DEF EditsInv, PatchesPast, Past
<1>5. ASSUME ~overtaken', NEW k \in Key, server[k] = edited[k] PROVE server'[k] = edited[k]
  <2>1. patch[k] = Unset \/ ~(patch[k] < server[k])
    BY <1>1, <1>5
  <2>2. QED BY <1>2, <1>3, <1>5, <2>1
<1>6. ~overtaken' => ~overtaken
  BY <1>1, Zenon
<1>7. ServedIsThere'
  <2> SUFFICES ASSUME ~overtaken', served, NEW k \in Key, inFlight[k] # Unset, pending[k] = Unset
               PROVE  server'[k] = inFlight[k]
    BY <1>1 DEF ServedIsThere
  <2>1. server[k] = inFlight[k] /\ edited[k] = inFlight[k]
    BY <1>6 DEF EditsInv, ServedIsThere, NothingLost
  <2>2. QED BY <1>5, <2>1
<1>8. NothingLost'
  <2> SUFFICES ASSUME ~overtaken', NEW k \in Key
               PROVE  edited[k] = CASE pending[k] # Unset -> pending[k]
                                    [] pending[k] = Unset /\ inFlight[k] # Unset -> inFlight[k]
                                    [] OTHER -> server'[k]
    BY <1>1 DEF NothingLost
  <2>1. edited[k] = CASE pending[k] # Unset -> pending[k]
                      [] pending[k] = Unset /\ inFlight[k] # Unset -> inFlight[k]
                      [] OTHER -> server[k]
    BY <1>6 DEF EditsInv, NothingLost
  <2>2. CASE pending[k] = Unset /\ inFlight[k] = Unset
    BY <1>5, <2>1, <2>2
  <2>3. CASE ~(pending[k] = Unset /\ inFlight[k] = Unset)
    BY <2>1, <2>3
  <2>4. QED BY <2>2, <2>3
<1>9. QED BY <1>4, <1>7, <1>8 DEF EditsInv

(* Every step keeps the edits.  Confirming the request in flight is the     *)
(* step that needs ServedIsThere.                                           *)
LEMMA NextEditsInv ==
  ASSUME TypeOK, EditsInv, [Next]_vars
  PROVE  EditsInv'
<1> USE UnsetIsNoEdit
<1>0. /\ PatchesPast /\ ServedIsThere /\ NothingLost
      /\ pending \in Patch /\ inFlight \in Patch /\ server \in Prefs /\ edited \in Prefs
      /\ NoPatch \in Patch /\ \A k \in Key : NoPatch[k] = Unset
  BY DEF EditsInv, TypeOK, NoPatch, Patch
<1>00. \A k \in Key : Unset <= edited[k]
  BY <1>0 DEF Prefs, Unset
<1>1. CASE Start
  BY <1>1, EditsUntouched DEF Start, device
<1>2. CASE Stop
  BY <1>2, EditsUntouched DEF Stop, device
<1>3. ASSUME NEW k \in Key, Edit(k) PROVE EditsInv'
  <2>1. /\ edited' = [edited EXCEPT ![k] = edits']
        /\ pending' = [j \in Key |-> IF j = k THEN edits' ELSE pending[j]]
        /\ edits' \in 0..MaxEdits /\ edits' = edits + 1 /\ edits \in Nat
        /\ UNCHANGED <<inFlight, server, served, strays, overtaken>>
    BY <1>0, <1>3, PrefsSyncAssumption DEF Edit, Merge, NoPatch, TypeOK
  <2>2. edits' # Unset
    BY <2>1
  <2>3. ServedIsThere'
    BY <1>0, <2>1, <2>2 DEF ServedIsThere
  <2>4. NothingLost'
    BY <1>0, <2>1, <2>2 DEF NothingLost, Prefs
  <2>5. \A j \in Key : edited[j] <= edited'[j] /\ edited'[j] <= edits' /\ edited'[j] \in Nat
    BY <1>0, <2>1 DEF PatchesPast, Prefs
  <2>6. ASSUME NEW patch \in Patch, Past(patch) PROVE \A j \in Key : patch[j] <= edited'[j]
    BY <1>0, <2>5, <2>6 DEF Past, Patch, Prefs, Unset
  <2>7. \A patch \in strays : patch \in Patch
    BY DEF TypeOK
  <2>8. \A j \in Key : pending'[j] <= edited'[j]
    BY <1>0, <2>1, <2>5, <2>6 DEF PatchesPast, Prefs
  <2>9. PatchesPast'
    BY <1>0, <2>1, <2>5, <2>6, <2>7, <2>8 DEF PatchesPast, Past
  <2>10. QED BY <2>3, <2>4, <2>9 DEF EditsInv
<1>4. CASE Flush
  <2>0. UNCHANGED <<server, edited, edits, strays, overtaken>>
    BY <1>4 DEF Flush, device
  <2>1. CASE UNCHANGED <<inFlight, pending, served>>
    BY <2>0, <2>1, EditsUntouched
  <2>2. CASE inFlight = NoPatch /\ inFlight' = pending /\ pending' = NoPatch /\ served' = FALSE
    <3>1. NothingLost'
      BY <1>0, <2>0, <2>2 DEF NothingLost
    <3>2. PatchesPast'
      BY <1>0, <1>00, <2>0, <2>2 DEF PatchesPast, Past
    <3>3. QED BY <2>2, <3>1, <3>2 DEF EditsInv, ServedIsThere
  <2>3. QED BY <1>4, <2>1, <2>2, Zenon DEF Flush
<1>5. CASE Serve
  <2>1. /\ server' = [k \in Key |-> IF inFlight[k] # Unset THEN inFlight[k] ELSE server[k]]
        /\ UNCHANGED <<pending, inFlight, edited, edits, strays, overtaken>>
    BY <1>5 DEF Serve, Updated, device
  <2>2. ServedIsThere'
    BY <2>1 DEF ServedIsThere
  <2>3. NothingLost'
    BY <1>0, <2>1 DEF NothingLost
  <2>4. PatchesPast'
    BY <1>0, <2>1 DEF PatchesPast, Past
  <2>5. QED BY <2>2, <2>3, <2>4 DEF EditsInv
<1>6. CASE Saved
  <2>1. /\ served /\ inFlight' = NoPatch
        /\ UNCHANGED <<pending, served, server, edited, edits, strays, overtaken>>
    BY <1>6 DEF Saved, device
  <2>2. NothingLost'
    BY <1>0, <2>1 DEF NothingLost, ServedIsThere
  <2>3. PatchesPast'
    BY <1>0, <1>00, <2>1 DEF PatchesPast, Past
  <2>4. QED BY <1>0, <2>1, <2>2, <2>3 DEF EditsInv, ServedIsThere
<1>7. CASE SaveFails
  <2>1. /\ inFlight' = NoPatch
        /\ pending' = [k \in Key |-> IF pending[k] # Unset THEN pending[k] ELSE inFlight[k]]
        /\ UNCHANGED <<server, edited, edits, overtaken>>
    BY <1>7 DEF SaveFails, Requeued, Merge, device
  <2>2. strays' \subseteq strays \cup {inFlight}
    BY <1>7 DEF SaveFails
  <2>3. NothingLost'
    BY <1>0, <2>1 DEF NothingLost
  <2>4. PatchesPast'
    BY <1>0, <1>00, <2>1, <2>2 DEF PatchesPast, Past
  <2>5. QED BY <1>0, <2>1, <2>3, <2>4 DEF EditsInv, ServedIsThere
<1>8. CASE PageHide
  <2>1. /\ \A k \in Key : Snapshot[k] = IF pending[k] # Unset THEN pending[k] ELSE inFlight[k]
        /\ strays' = strays \cup {Snapshot}
        /\ UNCHANGED <<pending, inFlight, served, server, edited, edits, overtaken>>
    BY <1>8 DEF PageHide, Snapshot, Merge, device
  <2>2. PatchesPast'
    BY <1>0, <2>1 DEF PatchesPast, Past
  <2>3. QED BY <1>0, <2>1, <2>2 DEF EditsInv, ServedIsThere, NothingLost
<1>9. CASE StrayArrives
  BY <1>9, StrayKeepsEdits
<1>10. CASE Boot
  BY <1>10, EditsUntouched DEF Boot
<1>11. CASE BootReads
  BY <1>11, EditsUntouched DEF BootReads
<1>12. CASE BootApplies
  BY <1>12, EditsUntouched DEF BootApplies
<1>13. CASE Resume
  BY <1>13, EditsUntouched DEF Resume
<1>14. CASE NetworkFlips
  BY <1>14, EditsUntouched DEF NetworkFlips, device
<1>15. CASE Online
  BY <1>15, EditsUntouched DEF Online, device
<1>16. CASE UNCHANGED vars
  BY <1>16, EditsUntouched DEF vars
<1>17. QED
  BY <1>1, <1>2, <1>3, <1>4, <1>5, <1>6, <1>7, <1>8, <1>9, <1>10, <1>11, <1>12,
     <1>13, <1>14, <1>15, <1>16 DEF Next

LEMMA InitEditsInv == Init => EditsInv
<1> SUFFICES ASSUME Init PROVE EditsInv
  OBVIOUS
<1>1. \A k \in Key : NoPatch[k] = Unset
  BY DEF NoPatch
<1>2. /\ strays = {} /\ ~served /\ pending = NoPatch /\ inFlight = NoPatch /\ server = edited
      /\ edits = 0 /\ \A k \in Key : edited[k] = 0
  BY DEF Init
<1>3. NothingLost
  BY <1>1, <1>2 DEF NothingLost
<1>4. PatchesPast
  BY <1>1, <1>2 DEF PatchesPast, Past, Unset
<1>5. QED BY <1>2, <1>3, <1>4 DEF EditsInv, ServedIsThere

(* Every edit the user made is pending, in flight or on the gateway, and a  *)
(* newer one is never hidden by an older one, through every order of edits, *)
(* saves, failures and reloads, until a request overtakes a later one.      *)
THEOREM NothingIsLost == Spec => []NothingLost
<1>1. TypeOK /\ EditsInv /\ [Next]_vars => EditsInv'
  BY NextEditsInv
<1>2. EditsInv => NothingLost
  BY DEF EditsInv
<1>3. QED BY <1>1, <1>2, InitEditsInv, TypeCorrect, PTL DEF Spec
=============================================================================
