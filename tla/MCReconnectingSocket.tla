------------------------- MODULE MCReconnectingSocket -------------------------
(***************************************************************************)
(* Instances of ReconnectingSocket, PageEntry and Keyboard for TLC: a      *)
(* behaviour is of one of them, while the others wait in an initial state. *)
(***************************************************************************)
EXTENDS ReconnectingSocket, PageEntry, Keyboard

PongTimeouts == {1, 2}
RetryDelays  == {0, 1}

(* Keymaps whose leader is the default one, the retired one, and a chord    *)
(* that acts directly too.                                                  *)
Keymaps ==
  {[DefaultKeymap EXCEPT !.leader = chord] : chord \in {DefaultLeader, Chord({"ctrl"}, "space"), CmdJ}}

Chords ==
  {DefaultLeader, CmdJ, CmdComma, Chord({"ctrl", "shift"}, "space"), Chord({}, "k"), Chord({}, "escape")}

PageInit == Init /\ EntryInit /\ KeyboardInit

PageNext ==
  \/ EntryInit /\ KeyboardInit /\ Next /\ UNCHANGED <<entryVars, keyboardVars>>
  \/ Init /\ KeyboardInit /\ EntryNext /\ UNCHANGED <<vars, keyboardVars>>
  \/ Init /\ EntryInit /\ KeyboardNext /\ UNCHANGED <<vars, entryVars>>

PageSpec == PageInit /\ [][PageNext]_<<vars, entryVars, keyboardVars>> /\ Fairness
=============================================================================
