----------------------------- MODULE MCSessionList -----------------------------
(* Instances of SessionList for TLC. *)
EXTENDS SessionList

CONSTANTS s1, s2, n1

TwoSessions == {s1, s2}
OneName     == {n1}
(* Ids are only compared. *)
Interchangeable == Permutations(Session)
=============================================================================
