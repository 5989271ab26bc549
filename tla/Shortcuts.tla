------------------------------ MODULE Shortcuts ------------------------------
(***************************************************************************)
(* A page on which the user records shortcuts, and the gateway's file that *)
(* keeps them (the keyboard settings of web/src/ui/Settings.tsx, the       *)
(* keymap of web/src/state.ts, /api/keymap of web/rest.ts).  A keymap is   *)
(* saved and read as a whole, and made valid by the gateway either way.    *)
(*                                                                         *)
(* A request may reach the gateway long after the page has given it up or  *)
(* is gone.  Requests are numbered by the change they save, so a larger    *)
(* number is a later keymap.                                               *)
(***************************************************************************)
EXTENDS Keymap, FiniteSets

CONSTANTS
  OldFile,      \* keymaps the file may hold to begin with
  Recorded,     \* chords the user presses
  Recordable,   \* actions the user records shortcuts for
  MaxRecordings \* bound of the model: changes to the keymap by the user

ASSUME ShortcutsAssumption == Recordable \subseteq ActionId /\ MaxRecordings \in Nat

VARIABLES
  keymapFile, \* keymap.json
  shared,     \* sharedKeymap of the page
  unsaved,    \* keymapSync: what is pending
  saving,     \* keymapSync: what is in flight
  handled,    \* the gateway has handled it
  stopped,    \* keymapSync.blocked
  reading,    \* boot(): "no", "asks", "failed", or what the gateway answered
  keymapStrays, \* requests no page waits for that may still arrive
  fileMade,   \* history: the change the file's keymap was made by
  taken,      \* history: the latest change the file has ever held
  late,       \* history: the answer is older than what was recorded
  kept,       \* history: what the user recorded, and could count on since
  recordings  \* changes by the user so far

shortcutVars == <<keymapFile, shared, unsaved, saving, handled, stopped, reading, keymapStrays,
                  fileMade, taken, late, kept, recordings>>

history == <<late, kept, recordings>>
gatewayKeymap == <<keymapFile, fileMade, taken>>

(* A keymap to be saved, and the change that made it. *)
Change(number, keymap) == [made |-> number, keymap |-> keymap]
Nothing == [made |-> 0]

NotReading == [now |-> "no", read |-> DefaultKeymap]
Asks == [now |-> "asks", read |-> DefaultKeymap]
Failed == [now |-> "failed", read |-> DefaultKeymap]

NothingKept == [leader |-> {}, sub |-> <<>>, direct |-> <<>>]

Keys == {",", "k"} \cup {c.key : c \in Recorded} \cup UNION {DOMAIN file.bindings : file \in OldFile}
Chords == {CmdJ, CmdComma} \cup Recorded \cup UNION {DOMAIN file.direct : file \in OldFile}

IsKeymap(k) ==
  /\ DOMAIN k.bindings \subseteq Keys /\ Range(k.bindings) \subseteq ActionId
  /\ DOMAIN k.direct \subseteq Chords /\ Range(k.direct) \subseteq ActionId
  /\ k.version = Newest

ShortcutsTypeOK ==
  /\ \A put \in ({unsaved, saving} \ {Nothing}) \cup keymapStrays :
       put.made \in 1..recordings /\ IsKeymap(put.keymap)
  /\ IsKeymap(shared) /\ IsKeymap(reading.read)
  /\ reading.now \in {"no", "asks", "failed", "read"}
  /\ {handled, stopped, late} \subseteq BOOLEAN
  /\ fileMade \in 0..taken /\ taken \in 0..recordings
  /\ recordings \in 0..MaxRecordings

ShortcutsInit ==
  /\ keymapFile \in OldFile
  /\ shared = DefaultKeymap
  /\ unsaved = Nothing /\ saving = Nothing /\ handled = FALSE /\ stopped = FALSE
  /\ reading = Asks
  /\ keymapStrays = {} /\ fileMade = 0 /\ taken = 0
  /\ late = FALSE /\ kept = NothingKept /\ recordings = 0

-----------------------------------------------------------------------------
(* saveSharedKeymap: only the newest keymap is queued.  While the workspace *)
(* is loading, the page's keymap may be none of the user's, and is saved as *)
(* a whole all the same.                                                    *)
SaveShared(keymap, keeps) ==
  /\ recordings < MaxRecordings /\ reading # Failed
  /\ recordings' = recordings + 1
  /\ shared' = keymap /\ unsaved' = Change(recordings', keymap)
  /\ kept' = IF reading = NotReading THEN keeps ELSE NothingKept
  /\ UNCHANGED gatewayKeymap
  /\ UNCHANGED <<saving, handled, stopped, reading, keymapStrays, late>>

Without(table, action, at) ==
  Restrict(table, {a \in DOMAIN table : a # action /\ at \notin table[a]})

Keeps(table, action, at) ==
  [a \in DOMAIN Without(table, action, at) \cup {action} |-> IF a = action THEN {at} ELSE table[a]]

RecordLeader(chord) ==
  SaveShared([shared EXCEPT !.leader = chord], [kept EXCEPT !.leader = {chord}])

(* Only the key counts, whatever modifiers are held. *)
RecordSub(action, chord) ==
  SaveShared([shared EXCEPT !.bindings = Rebound(@, action, chord.key)],
             [kept EXCEPT !.sub = Keeps(@, action, chord.key)])

RecordDirect(action, chord) ==
  /\ ~Bare(chord)
  /\ SaveShared([shared EXCEPT !.direct = Rebound(@, action, chord)],
                [kept EXCEPT !.direct = Keeps(@, action, chord)])

ClearDirect(action) ==
  /\ \E c \in DOMAIN shared.direct : shared.direct[c] = action
  /\ SaveShared([shared EXCEPT !.direct = Cleared(@, action)],
                [kept EXCEPT !.direct = [a \in DOMAIN @ \cup {action} |-> IF a = action THEN {} ELSE @[a]]])

ResetToDefaults == SaveShared(DefaultKeymap, NothingKept)

-----------------------------------------------------------------------------
(* PUT /api/keymap *)
Put(put) ==
  /\ keymapFile' = Normalized(put.keymap)
  /\ fileMade' = put.made
  /\ taken' = IF put.made > taken THEN put.made ELSE taken

FlushKeymap ==
  /\ unsaved # Nothing /\ saving = Nothing /\ ~stopped
  /\ saving' = unsaved /\ unsaved' = Nothing
  /\ UNCHANGED gatewayKeymap
  /\ UNCHANGED <<shared, handled, stopped, reading, keymapStrays, history>>

(* The gateway handles the request in flight. *)
ServeKeymap ==
  /\ saving # Nothing /\ ~handled
  /\ Put(saving)
  /\ handled' = TRUE
  /\ UNCHANGED <<shared, unsaved, saving, stopped, reading, keymapStrays, history>>

KeymapSaved ==
  /\ saving # Nothing /\ handled
  /\ saving' = Nothing /\ handled' = FALSE
  /\ UNCHANGED gatewayKeymap
  /\ UNCHANGED <<shared, unsaved, stopped, reading, keymapStrays, history>>

(* No answer in time, or none but a refusal: the newest is kept to retry,   *)
(* unless it makes no sense to.  A request that was given up may still      *)
(* arrive.                                                                  *)
KeymapSaveFails ==
  /\ saving # Nothing
  /\ \E transient \in BOOLEAN :
       /\ stopped' = ~transient
       /\ keymapStrays' \in {keymapStrays,
                            IF transient /\ ~handled THEN keymapStrays \cup {saving} ELSE keymapStrays}
  /\ unsaved' = IF unsaved = Nothing THEN saving ELSE unsaved
  /\ saving' = Nothing /\ handled' = FALSE
  /\ UNCHANGED gatewayKeymap
  /\ UNCHANGED <<shared, reading, history>>

(* At any time or never. *)
StrayKeymapArrives ==
  \E put \in keymapStrays :
    /\ Put(put)
    /\ keymapStrays' = keymapStrays \ {put}
    /\ UNCHANGED <<shared, unsaved, saving, handled, stopped, reading, history>>

-----------------------------------------------------------------------------
(* boot, on a page that is alive: after a login, or after it failed. *)
BootAgain ==
  /\ reading \in {NotReading, Failed}
  /\ reading' = Asks
  /\ UNCHANGED gatewayKeymap
  /\ UNCHANGED <<shared, unsaved, saving, handled, stopped, keymapStrays, history>>

(* GET /api/keymap: what had to be migrated is written, if it can be. *)
BootReadsKeymap ==
  /\ reading = Asks
  /\ reading' = [now |-> "read", read |-> Normalized(keymapFile)]
  /\ keymapFile' \in {keymapFile, Normalized(keymapFile)}
  /\ late' = (fileMade # recordings)
  /\ UNCHANGED <<shared, unsaved, saving, handled, stopped, keymapStrays, fileMade, taken, kept, recordings>>

(* The answer replaces the page's keymap, whatever was recorded meanwhile   *)
(* or is not saved yet.  And the gateway keeps no table empty.              *)
BootAppliesKeymap ==
  /\ reading.now = "read"
  /\ reading' = NotReading
  /\ shared' = reading.read
  /\ stopped' = FALSE
  /\ kept' = IF late \/ shared.direct = <<>> THEN NothingKept ELSE kept
  /\ late' = FALSE
  /\ UNCHANGED gatewayKeymap
  /\ UNCHANGED <<unsaved, saving, handled, keymapStrays, recordings>>

(* One of boot's calls failed: the page shows nothing else. *)
BootGivesUp ==
  /\ reading \notin {NotReading, Failed}
  /\ reading' = Failed /\ late' = FALSE
  /\ UNCHANGED gatewayKeymap
  /\ UNCHANGED <<shared, unsaved, saving, handled, stopped, keymapStrays, kept, recordings>>

(* snapshot() *)
KeymapSnapshot == IF unsaved # Nothing THEN unsaved ELSE saving

(* flushPrefs when the page is left, or may be: a request beside the queue  *)
(* with all that is not confirmed.                                          *)
LeavingPage ==
  /\ KeymapSnapshot # Nothing
  /\ keymapStrays' = keymapStrays \cup {KeymapSnapshot}
  /\ UNCHANGED gatewayKeymap
  /\ UNCHANGED <<shared, unsaved, saving, handled, stopped, reading, history>>

(* The page is left, perhaps without a word, and loaded anew.  Its requests *)
(* may still arrive.                                                        *)
Reload ==
  /\ \E left \in SUBSET ({KeymapSnapshot} \cup IF handled THEN {} ELSE {saving}) :
       keymapStrays' = keymapStrays \cup (left \ {Nothing})
  /\ shared' = DefaultKeymap
  /\ unsaved' = Nothing /\ saving' = Nothing /\ handled' = FALSE /\ stopped' = FALSE
  /\ reading' = Asks /\ late' = FALSE
  /\ kept' = IF shared.direct = <<>> THEN NothingKept ELSE kept
  /\ UNCHANGED gatewayKeymap
  /\ UNCHANGED recordings

ShortcutsNext ==
  \/ \E chord \in Recorded :
       \/ RecordLeader(chord)
       \/ \E action \in Recordable : RecordSub(action, chord) \/ RecordDirect(action, chord)
  \/ \E action \in Recordable : ClearDirect(action)
  \/ ResetToDefaults
  \/ FlushKeymap \/ ServeKeymap \/ KeymapSaved \/ KeymapSaveFails \/ StrayKeymapArrives
  \/ BootAgain \/ BootReadsKeymap \/ BootAppliesKeymap \/ BootGivesUp
  \/ LeavingPage \/ Reload

ShortcutsSpec == ShortcutsInit /\ [][ShortcutsNext]_shortcutVars

-----------------------------------------------------------------------------
Held(table, action) == {k \in DOMAIN table : table[k] = action}

Obeys(keymap) ==
  /\ kept.leader \subseteq {keymap.leader}
  /\ \A a \in DOMAIN kept.sub : Held(keymap.bindings, a) = kept.sub[a]
  /\ \A a \in DOMAIN kept.direct : Held(keymap.direct, a) = kept.direct[a]

(* An older keymap has taken the place of a later one in the file. *)
Overtaken == fileMade < taken

(* A shortcut that was recorded or removed stays so on the page and, once   *)
(* it is saved, in the file: saves that fail, reloads and the migrations of *)
(* an older file bring nothing back -- until a request that was given up    *)
(* arrives after a later one, or boot reads the file before the last change *)
(* is in it, or a table was left empty (README, "Deviations").              *)
RecordedStays ==
  reading = NotReading =>
    /\ Obeys(shared)
    /\ unsaved = Nothing /\ saving = Nothing /\ shared.direct # <<>> /\ ~Overtaken => Obeys(keymapFile)

(* What the code does not keep: a keymap that was saved stays in the file,  *)
(* whatever arrives late.                                                   *)
SavedStays ==
  reading = NotReading /\ unsaved = Nothing /\ saving = Nothing /\ shared.direct # <<>> => Obeys(keymapFile)
=============================================================================
