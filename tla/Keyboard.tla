------------------------------- MODULE Keyboard -------------------------------
(***************************************************************************)
(* Which keys the page takes from the terminal (web/src/keys.ts): the      *)
(* leader and the key after it, within a time; chords that act directly;   *)
(* Escape, which closes what is open.  The keyboard settings record keys   *)
(* while all this goes on (web/src/ui/Settings.tsx), the palette runs      *)
(* actions (web/src/ui/CommandPalette.tsx, web/src/actions.ts), and the    *)
(* keys a phone lacks are pressed on a bar, where modifiers latch          *)
(* (web/src/ui/MobileKeys.tsx).                                            *)
(*                                                                         *)
(* What a keymap becomes when a shortcut is recorded, saved and read again *)
(* is the matter of Shortcuts; here it becomes one of a few.               *)
(***************************************************************************)
EXTENDS Keymap, FiniteSets

CONSTANTS
  InUse,        \* keymaps the page may have
  Pressed,      \* chords the user presses
  LeaderTimeout \* LEADER_TIMEOUT_MS

ASSUME KeyboardAssumption == DefaultKeymap \in InUse /\ LeaderTimeout \in Nat \ {0}

VARIABLES
  keymap,     \* the synced part of keymap
  enabled,    \* localShortcuts.enabled
  direct,     \* localShortcuts.direct
  armed,      \* leaderArmed
  handle,     \* timer of installKeyHandler: the timeout it refers to, or 0
  timeouts,   \* timeouts that run: when they fire
  overlays,   \* what is open of "palette", "settings", "search" and "renaming"
  recording,  \* what the keyboard settings wait for a key for
  latched,    \* the modifiers that are latched on the bar
  age         \* history: since when the leader is armed

keyboardVars == <<keymap, enabled, direct, armed, handle, timeouts, overlays, recording, latched, age>>

leader == <<armed, handle, timeouts, age>>

Recordings == {"nothing", "leader", "sub", "direct"}

KeyboardTypeOK ==
  /\ keymap \in InUse
  /\ {enabled, direct, armed} \subseteq BOOLEAN
  /\ handle \in 0..LeaderTimeout /\ timeouts \subseteq 1..LeaderTimeout /\ age \in 0..LeaderTimeout
  /\ overlays \subseteq {"palette", "settings", "search", "renaming"}
  /\ recording \in Recordings
  /\ latched \subseteq {"ctrl", "alt"}

KeyboardInit ==
  /\ keymap = DefaultKeymap /\ enabled = TRUE /\ direct = FALSE
  /\ armed = FALSE /\ handle = 0 /\ timeouts = {} /\ age = 0
  /\ overlays = {} /\ recording = "nothing" /\ latched = {}

-----------------------------------------------------------------------------
(* Fault: the timeout is forgotten and not cleared. *)
DisarmBehind ==
  /\ armed' = FALSE /\ handle' = 0 /\ age' = 0
  /\ UNCHANGED timeouts

(* disarm() *)
Disarm ==
  /\ armed' = FALSE /\ handle' = 0 /\ age' = 0
  /\ timeouts' = timeouts \ {handle}

(* arm() *)
Arm ==
  /\ armed' = TRUE /\ handle' = LeaderTimeout /\ age' = 0
  /\ timeouts' = (timeouts \ {handle}) \cup {LeaderTimeout}

(* A part of the settings' state goes with them. *)
Waiting(open, waits) == IF "settings" \in open THEN waits ELSE "nothing"

Toggled(overlay, open) == IF overlay \in open THEN open \ {overlay} ELSE open \cup {overlay}

(* runAction, as far as overlays go, while a terminal is shown.             *)
After(action, open) ==
  CASE action = "settings"        -> Toggled("settings", open)
    [] action = "command-palette" -> Toggled("palette", open)
    [] action = "search"          -> open \cup {"search"}
    [] action = "rename-session"  -> open \cup {"renaming"}
    [] OTHER                      -> open

(* What onKeyDown does with a key: it closes overlays, is taken by the      *)
(* armed leader, acts directly, arms the leader, or is left alone.          *)
Closes(event) == event.key = "escape" /\ ~armed /\ overlays # {}

Second(event) == ~Closes(event) /\ enabled /\ armed

Acts(event) ==
  /\ ~Closes(event) /\ enabled /\ ~armed
  /\ direct /\ event \in DOMAIN keymap.direct

Arms(event) ==
  /\ ~Closes(event) /\ enabled /\ ~armed
  /\ ~Acts(event) /\ Matches(keymap.leader, event)

LeftAlone(event) == ~Closes(event) /\ ~Second(event) /\ ~Acts(event) /\ ~Arms(event)

(* A key that is left alone reaches the field that has the focus, where     *)
(* Escape closes it too.                                                    *)
Handled(event) ==
  \/ /\ Closes(event)
     /\ overlays' = {} /\ UNCHANGED leader
  \/ /\ Second(event)
     /\ Disarm
     /\ overlays' = IF event.key # "escape" /\ event.key \in DOMAIN keymap.bindings
                    THEN After(keymap.bindings[event.key], overlays) ELSE overlays
  \/ /\ Acts(event)
     /\ overlays' = After(keymap.direct[event], overlays) /\ UNCHANGED leader
  \/ /\ Arms(event)
     /\ Arm /\ UNCHANGED overlays
  \/ /\ LeftAlone(event)
     /\ overlays' \in {overlays} \cup
          (IF event.key = "escape" THEN {overlays \ {field} : field \in {"palette", "search", "renaming"}} ELSE {})
     /\ UNCHANGED leader

(* onKey of the keyboard settings hears the same event: stopPropagation     *)
(* does not keep it from a listener of the same node.                       *)
Heard(event) ==
  IF recording = "nothing" THEN UNCHANGED <<keymap, recording>>
  ELSE /\ recording' = "nothing"
       /\ IF event.key = "escape" \/ (recording = "direct" /\ Bare(event)) THEN UNCHANGED keymap
          ELSE keymap' \in InUse

KeyDown(event) ==
  /\ Handled(event) /\ Heard(event)
  /\ UNCHANGED <<enabled, direct, latched>>

(* The timeout fires: disarm. *)
LeaderTimesOut ==
  /\ 1 \in timeouts
  /\ armed' = FALSE /\ handle' = 0 /\ age' = 0
  /\ timeouts' = timeouts \ {1, handle}
  /\ UNCHANGED <<keymap, enabled, direct, overlays, recording, latched>>

(* The window loses the focus. *)
Blur == Disarm /\ UNCHANGED <<keymap, enabled, direct, overlays, recording, latched>>

KeyboardTick ==
  /\ timeouts # {} /\ 1 \notin timeouts
  /\ timeouts' = {n - 1 : n \in timeouts}
  /\ handle' = IF handle = 0 THEN 0 ELSE handle - 1
  /\ age' = IF armed THEN age + 1 ELSE 0
  /\ UNCHANGED <<keymap, enabled, direct, armed, overlays, recording, latched>>

-----------------------------------------------------------------------------
(* The mouse: the switches and the recording of the settings, an entry of   *)
(* the palette, what opens and closes overlays.                             *)
Click ==
  /\ \/ /\ "settings" \in overlays
        /\ recording' \in Recordings /\ enabled' \in BOOLEAN /\ direct' \in BOOLEAN
        /\ UNCHANGED overlays
     \/ /\ "palette" \in overlays
        /\ \E action \in ActionId : overlays' = After(action, overlays \ {"palette"})
        /\ recording' = Waiting(overlays', recording) /\ UNCHANGED <<enabled, direct>>
     \/ /\ overlays' \in {overlays \ {field} : field \in {"palette", "search", "renaming"}}
                        \cup {overlays \cup {"renaming"}, Toggled("settings", overlays)}
        /\ recording' = Waiting(overlays', recording) /\ UNCHANGED <<enabled, direct>>
  /\ UNCHANGED <<keymap, leader, latched>>

(* boot() has read another keymap, or the keyboard settings changed it. *)
OtherKeymap == keymap' \in InUse /\ UNCHANGED <<enabled, direct, leader, overlays, recording, latched>>

(* The page is loaded anew; local storage may be disabled. *)
KeyboardReload ==
  /\ keymap' \in InUse
  /\ \/ UNCHANGED <<enabled, direct>>
     \/ enabled' = TRUE /\ direct' = FALSE
  /\ armed' = FALSE /\ handle' = 0 /\ timeouts' = {} /\ age' = 0
  /\ overlays' = {} /\ recording' = "nothing" /\ latched' = {}

(* The bar: a key that Ctrl makes no control character of leaves it latched *)
(* ("Ctrl and Alt latch for one keystroke").                                *)
BarKey ==
  /\ \/ \E mod \in {"ctrl", "alt"} : latched' = IF mod \in latched THEN latched \ {mod} ELSE latched \cup {mod}
     \/ latched' = latched \cap {"ctrl"}
     \/ latched' = {}
  /\ UNCHANGED <<keymap, enabled, direct, leader, overlays, recording>>

KeyboardNext ==
  \/ \E event \in Pressed : KeyDown(event)
  \/ LeaderTimesOut \/ Blur \/ KeyboardTick
  \/ Click \/ OtherKeymap \/ KeyboardReload \/ BarKey

KeyboardSpec == KeyboardInit /\ [][KeyboardNext]_keyboardVars

-----------------------------------------------------------------------------
(* An armed leader waits for a key its whole time: only a key, leaving the  *)
(* window or the page, or the end of that time lets it go, never what is    *)
(* left of a leader that was pressed before.                                *)
LeaderHeld ==
  [][armed /\ ~armed' =>
       (\E event \in Pressed : KeyDown(event)) \/ Blur \/ KeyboardReload \/ age + 1 = LeaderTimeout]_keyboardVars
=============================================================================
