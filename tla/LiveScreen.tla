------------------------------ MODULE LiveScreen ------------------------------
(***************************************************************************)
(* What a session promises the people who watch it, with nothing said of   *)
(* parsers, queues, snapshots or sockets: everyone who watches sees all    *)
(* that was ever printed, whenever he came, and printing that is held up   *)
(* goes on.  SessionOutput implements it.                                  *)
(***************************************************************************)
EXTENDS Naturals

CONSTANTS Viewer, None

VARIABLES
  printed, \* how much the session has printed
  sees,    \* how much of it each viewer sees, None for one who does not watch
  held,    \* the program is kept from printing
  ended    \* the session is over

vars == <<printed, sees, held, ended>>

Watching == {v \in Viewer : sees[v] # None}

Init ==
  /\ printed = 0
  /\ sees = [v \in Viewer |-> None]
  /\ held = FALSE
  /\ ended = FALSE

(* Everyone who watches sees it at once, or is told to come back. *)
Prints ==
  /\ ~held /\ ~ended
  /\ printed' \in Nat /\ printed' > printed
  /\ \E gone \in SUBSET Watching :
       sees' = [v \in Viewer |-> IF v \in Watching \ gone THEN printed' ELSE None]
  /\ held' \in BOOLEAN
  /\ UNCHANGED ended

Join(v) ==
  /\ ~ended
  /\ sees' = [sees EXCEPT ![v] = printed]
  /\ UNCHANGED <<printed, held, ended>>

Leave(v) ==
  /\ sees' = [sees EXCEPT ![v] = None]
  /\ UNCHANGED <<printed, held, ended>>

Release ==
  /\ held /\ ~ended
  /\ held' = FALSE
  /\ UNCHANGED <<printed, sees, ended>>

End ==
  /\ ~ended
  /\ ended' = TRUE
  /\ sees' = [v \in Viewer |-> None]
  /\ UNCHANGED <<printed, held>>

Next ==
  \/ Prints \/ Release \/ End
  \/ \E v \in Viewer : Join(v) \/ Leave(v)

Spec == Init /\ [][Next]_vars

FairSpec == Spec /\ WF_vars(Release)
=============================================================================
