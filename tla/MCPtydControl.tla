---------------------------- MODULE MCPtydControl ----------------------------
(***************************************************************************)
(* Instances of PtydControl and PtydConnection for TLC: a behaviour is of  *)
(* the one or of the other, while the other one waits in an initial state. *)
(***************************************************************************)
EXTENDS PtydControl, PtydConnection

CONSTANTS s1, m1, m2

OneId    == {s1}
TwoMetas == {m1, m2}

LinkInit == Init /\ ConnectionInit
LinkNext ==
  \/ ConnectionInit /\ Next /\ UNCHANGED connectionVars
  \/ Init /\ ConnectionNext /\ UNCHANGED vars

LinkSpec == LinkInit /\ [][LinkNext]_<<vars, connectionVars>> /\ Fairness
=============================================================================
