----------------------------- MODULE MCTerminalView -----------------------------
(* Instances of TerminalView for TLC. *)
EXTENDS TerminalView

ThreeSizes == 1..3

(* Sizes that ptyd does not allow come up in sessions without output only:  *)
(* the size of a pane does nothing to output.                               *)
Modest == out = 0 \/ {term.cols, term.room, term.proposed} \subseteq Fitting \cup {None}

ViewSpec == Init /\ [][Next /\ Modest']_vars /\ Fairness
=============================================================================
