----------------------------- MODULE MCPtydStartup -----------------------------
(* Instances of PtydStartup for TLC. *)
EXTENDS PtydStartup

CONSTANTS p1, p2, p3

TwoProcesses   == {p1, p2}
ThreeProcesses == {p1, p2, p3}
=============================================================================
