---------------------------- MODULE MCCommandLine ----------------------------
(* Instances of CommandLine for TLC. *)
EXTENDS CommandLine

CONSTANTS prefix, d, x

Letters  == {x}
Sessions == 1..2
Second   == {2}
OnlyAttach == {"attach"}
=============================================================================
