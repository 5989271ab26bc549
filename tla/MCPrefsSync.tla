----------------------------- MODULE MCPrefsSync -----------------------------
(***************************************************************************)
(* Two preferences and a few edits: an edit of the preference that is      *)
(* being saved, and one of another, during every save, retry and boot.  Or *)
(* two changes of the keymap, from files of two older versions, whose      *)
(* requests arrive when they like: a behaviour is of PrefsSync or of       *)
(* Shortcuts, while the other waits in an initial state.                   *)
(***************************************************************************)
EXTENDS PrefsSync, Shortcuts

CONSTANTS font, theme

TwoKeys == {font, theme}

(* What older versions left: no direct shortcuts and the retired leader;    *)
(* the same action with Ctrl and with Cmd, actions that are gone, no Cmd+J. *)
First == [version |-> 1, leader |-> Chord({"ctrl"}, "space"),
          bindings |-> [key \in {","} |-> "settings"], direct |-> <<>>]
Third == [version |-> 3, leader |-> DefaultLeader,
          bindings |-> [key \in {",", "q"} |-> IF key = "q" THEN "gone" ELSE "settings"],
          direct |-> [chord \in {CmdComma, Chord({"ctrl"}, ","), Chord({"ctrl"}, "j")} |->
                        IF chord.key = "j" THEN "search" ELSE "settings"]]

Files == {First, Third}
Presses == {Chord({"ctrl"}, "space"), CmdJ}
Actions == {"settings"}

EitherInit == Init /\ ShortcutsInit
EitherNext ==
  \/ ShortcutsInit /\ Next /\ UNCHANGED shortcutVars
  \/ Init /\ onLine /\ ShortcutsNext /\ UNCHANGED vars

EitherSpec == EitherInit /\ [][EitherNext]_<<vars, shortcutVars>> /\ Fairness
=============================================================================
