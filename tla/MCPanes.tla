-------------------------------- MODULE MCPanes --------------------------------
(***************************************************************************)
(* Instances of Panes and TerminalMounts for TLC: a behaviour is of the    *)
(* one or of the other, while the other one waits in an initial state.     *)
(***************************************************************************)
EXTENDS Panes, TerminalMounts, TLC

CONSTANTS s1, s2, s3, p1, p2, t1, t2

ThreeSessions == {s1, s2, s3}
TwoPanes      == {p1, p2}
TwoShells     == {t1, t2}
OneShell      == {t1}

(* Ids of either kind are only compared.  Slots have the names of sessions, *)
(* which keeps the permutations few.                                        *)
Interchangeable == Permutations(Session) \cup Permutations(Pane)

WindowInit == PanesInit /\ MountsInit
WindowNext ==
  \/ MountsInit /\ PanesNext /\ UNCHANGED mountVars
  \/ PanesInit /\ list = <<>> /\ MountsNext /\ UNCHANGED paneVars

WindowSpec == WindowInit /\ [][WindowNext]_<<paneVars, mountVars>>
=============================================================================
