--------------------------------- MODULE Panes ---------------------------------
(***************************************************************************)
(* The panes of a browser window and what they show: web/src/layout.ts and *)
(* the layout actions of web/src/state.ts, with tabs dragged onto panes    *)
(* (web/src/dnd.ts) while the list of sessions changes.                    *)
(*                                                                         *)
(* The tree of splits is its leaves from left to right: a split adds one   *)
(* beside another, a closed pane leaves the rest in their order, and ratio *)
(* and direction are only drawn.                                           *)
(***************************************************************************)
EXTENDS Integers, FiniteSets, Sequences, SequencesExt

CONSTANTS
  Session,  \* session ids
  Pane,     \* pane ids; one that is free again may be used again
  None,     \* null
  MaxPanes  \* bound of the model: panes at once

ASSUME PanesAssumption ==
  /\ None \notin Session \cup Pane
  /\ MaxPanes \in Nat \ {0}
  /\ Cardinality(Pane) >= MaxPanes

VARIABLES
  list,    \* ids of sessions.value
  alive,   \* those of them whose entry says so
  panes,   \* leaves(layoutRoot.value)
  active,  \* activePaneId
  mru,     \* mruSessionIds
  dragged, \* the session of the tab that is being dragged
  saved    \* the layout in the preferences: its sessions, from left to right

paneVars == <<list, alive, panes, active, mru, dragged, saved>>

Leaf(pane, session) == [id |-> pane, sessionId |-> session]

PaneIds(ps) == {ps[k].id : k \in DOMAIN ps}
Shown(ps)   == {ps[k].sessionId : k \in DOMAIN ps} \ {None}

(* findLeaf(...).sessionId, null where there is no such leaf. *)
In(ps, pane) ==
  IF pane \in PaneIds(ps) THEN (CHOOSE leaf \in Range(ps) : leaf.id = pane).sessionId ELSE None

(* The elements of a sequence that are in a set: SelectSeq, of which the    *)
(* provers know nothing.                                                    *)
Only(s, S) ==
  LET upto[k \in 0..Len(s)] ==
        IF k = 0 THEN <<>> ELSE IF s[k] \in S THEN Append(upto[k - 1], s[k]) ELSE upto[k - 1]
  IN upto[Len(s)]

-----------------------------------------------------------------------------
(* layout.ts *)

(* Fault: a session stays where it was. *)
SetInPlace(ps, pane, session) ==
  [k \in DOMAIN ps |-> IF ps[k].id = pane THEN Leaf(pane, session) ELSE ps[k]]

(* setPaneSession *)
SetPaneSession(ps, pane, session) ==
  [k \in DOMAIN ps |->
     IF ps[k].id = pane THEN Leaf(pane, session)
     ELSE IF ps[k].sessionId = session THEN Leaf(ps[k].id, None) ELSE ps[k]]

(* splitPane: a pane before or after the one that is split, which may not   *)
(* be there.                                                                *)
SplitPane(ps, pane, fresh, session, first) ==
  LET at == SelectInSeq(ps, LAMBDA leaf : leaf.id = pane)
  IN IF at = 0 THEN ps ELSE InsertAt(ps, IF first THEN at ELSE at + 1, Leaf(fresh, session))

ClosePane(ps, pane) == IF Len(ps) = 1 THEN ps ELSE RemoveFirstMatch(ps, LAMBDA leaf : leaf.id = pane)

(* Fault: only the sessions that are preferred are shown. *)
SpareOfPreferred(ps, ids, preferred) == Only(preferred, Range(preferred) \ Shown(ps))

(* What pruneMissingSessions has to show. *)
Spare(ps, ids, preferred) ==
  LET hidden == Range(ids) \ Shown(ps)
  IN Only(preferred, hidden) \o Only(ids, hidden \ Range(preferred))

(* pruneMissingSessions: next after each pane that is stale. *)
Pruned(ps, ids, preferred) ==
  LET stale == Only(ps, {leaf \in Range(ps) : leaf.sessionId \notin Range(ids) \cup {None}})
      spare == Spare(ps, ids, preferred)
      next[k \in 0..Len(ps)] ==
        IF k = 0 THEN ps
        ELSE IF k > Len(stale) THEN next[k - 1]
        ELSE SetPaneSession(next[k - 1], stale[k].id, IF k <= Len(spare) THEN spare[k] ELSE None)
  IN next[Len(ps)]

-----------------------------------------------------------------------------
(* state.ts *)

(* touchMru *)
Touched(ids, id) == IF id = None THEN ids ELSE <<id>> \o Only(ids, Range(ids) \ {id})

ByRecency(recent, ids) == Only(recent, Range(ids)) \o Only(ids, Range(ids) \ Range(recent))

(* persistLayoutSoon; PrefsSync has what may happen to a save. *)
Persist == saved' = [k \in DOMAIN panes' |-> panes'[k].sessionId]

(* reconcileLayout.  No pane is removed, so the active one stays. *)
Reconciled(ids, living) ==
  LET recent == Only(mru, Range(ids))
  IN [mru |-> recent,
      panes |-> Pruned(panes, ids, ByRecency(recent, Only(ids, living)))]

Lists == {ids \in UNION {[1..n -> Session] : n \in 0..Cardinality(Session)} : IsInjective(ids)}

PanesInit ==
  /\ list \in Lists /\ alive = Range(list)
  /\ \E pane \in Pane : panes = <<Leaf(pane, None)>> /\ active = pane
  /\ mru = <<>>
  /\ dragged = None
  /\ saved = <<None>>

(* applySessionList, applySessionEvent: a session that has exited does not  *)
(* come back to life.                                                       *)
ListChanges(ids, living) ==
  /\ living \subseteq Range(ids) /\ living \cap Range(list) \subseteq alive
  /\ list' = ids /\ alive' = living
  /\ LET after == Reconciled(ids, living) IN panes' = after.panes /\ mru' = after.mru
  /\ UNCHANGED <<active, dragged, saved>>

(* createSession, ensureFirstSession: the answer is listed and shown in the *)
(* pane that is active by now.                                              *)
Created(id) ==
  /\ id \notin Range(list) \/ id \in alive
  /\ list' = IF id \in Range(list) THEN list ELSE Append(list, id)
  /\ alive' = alive \cup {id}
  /\ LET after == Reconciled(list', alive')
     IN panes' = SetPaneSession(after.panes, active, id) /\ mru' = Touched(after.mru, id)
  /\ UNCHANGED <<active, dragged>>
  /\ Persist

FocusSession(id) ==
  /\ id \in Range(list)
  /\ panes' = SetPaneSession(panes, active, id)
  /\ mru' = Touched(mru, id)
  /\ UNCHANGED <<list, alive, active, dragged>>
  /\ Persist

FocusPane(pane) ==
  /\ pane \in PaneIds(panes)
  /\ active' = pane
  /\ mru' = Touched(mru, In(panes, pane))
  /\ UNCHANGED <<list, alive, panes, dragged, saved>>

(* The pane after or before the active one, with step 1 or -1. *)
CyclePane(step) ==
  /\ Len(panes) > 1
  /\ LET at == SelectInSeq(panes, LAMBDA leaf : leaf.id = active)
     IN FocusPane(panes[((at - 1 + step) % Len(panes)) + 1].id)

(* The session after or before the one that is shown, in the list's order;  *)
(* with none shown the code's index is -1.                                  *)
CycleSession(step) ==
  /\ list # <<>>
  /\ LET at == SelectInSeq(list, LAMBDA id : id = In(panes, active))
     IN FocusSession(list[((at - 1 + step) % Len(list)) + 1])

(* From the list of an empty pane. *)
AssignSessionToPane(pane, id) ==
  /\ pane \in PaneIds(panes) /\ In(panes, pane) = None
  /\ id \in alive
  /\ panes' = SetPaneSession(panes, pane, id)
  /\ UNCHANGED <<list, alive, active, mru, dragged>>
  /\ Persist

SplitActive(fresh) ==
  /\ Len(panes) < MaxPanes /\ fresh \notin PaneIds(panes)
  /\ panes' = SplitPane(panes, active, fresh, None, FALSE)
  /\ active' = fresh
  /\ UNCHANGED <<list, alive, mru, dragged>>
  /\ Persist

ClosePaneById(pane) ==
  /\ pane \in PaneIds(panes) /\ Len(panes) > 1
  /\ panes' = ClosePane(panes, pane)
  /\ active' = IF active \in PaneIds(panes') THEN active ELSE panes'[1].id
  /\ UNCHANGED <<list, alive, mru, dragged>>
  /\ Persist

-----------------------------------------------------------------------------
(* dnd.ts.  The pane under the pointer is looked up when the tab is dropped; *)
(* the session is the one the drag began with.                              *)

BeginTabDrag(id) ==
  /\ dragged = None /\ id \in Range(list)
  /\ dragged' = id
  /\ UNCHANGED <<list, alive, panes, active, mru, saved>>

(* Cancelled, dropped nowhere, or on the strip, which only reorders tabs. *)
EndTabDrag ==
  /\ dragged # None
  /\ dragged' = None
  /\ UNCHANGED <<list, alive, panes, active, mru, saved>>

DropInCenter(pane) ==
  /\ dragged # None /\ pane \in PaneIds(panes)
  /\ dragged' = None
  /\ panes' = SetPaneSession(panes, pane, dragged)
  /\ active' = pane
  /\ mru' = Touched(mru, dragged)
  /\ UNCHANGED <<list, alive>>
  /\ Persist

DropOnEdge(pane, fresh, first) ==
  /\ dragged # None /\ pane \in PaneIds(panes)
  /\ Len(panes) < MaxPanes /\ fresh \notin PaneIds(panes)
  /\ dragged' = None
  /\ panes' = SetPaneSession(SplitPane(panes, pane, fresh, dragged, first), fresh, dragged)
  /\ active' = fresh
  /\ UNCHANGED <<list, alive, mru>>
  /\ Persist

-----------------------------------------------------------------------------
(* deserializeLayout: panes have new ids. *)
Deserialized(name) == [k \in DOMAIN saved |-> Leaf(name[k], saved[k])]

(* loadWorkspace on a page load, or after a login, which keeps mruSessionIds; *)
(* then ensureFirstSession, as far as a session of the list will do.  That    *)
(* the list is read anew is a ListChanges before it.                          *)
Restore ==
  /\ \E name \in [1..Len(saved) -> Pane], recent \in {<<>>, mru} :
       LET restored == Pruned(Deserialized(name), list, <<>>)
       IN /\ IsInjective(name)
          /\ active' = name[1]
          /\ IF restored[1].sessionId # None \/ alive = {}
             THEN panes' = restored /\ mru' = recent /\ UNCHANGED saved
             ELSE \E id \in alive :
                    /\ panes' = SetPaneSession(restored, name[1], id)
                    /\ mru' = Touched(recent, id)
                    /\ Persist
  /\ dragged' = None
  /\ UNCHANGED <<list, alive>>

PanesNext ==
  \/ \E ids \in Lists, living \in SUBSET Session : ListChanges(ids, living)
  \/ \E id \in Session : Created(id) \/ FocusSession(id) \/ BeginTabDrag(id)
  \/ \E pane \in Pane :
       \/ FocusPane(pane) \/ SplitActive(pane) \/ ClosePaneById(pane) \/ DropInCenter(pane)
       \/ \E id \in Session : AssignSessionToPane(pane, id)
       \/ \E fresh \in Pane, first \in BOOLEAN : DropOnEdge(pane, fresh, first)
  \/ \E step \in {-1, 1} : CyclePane(step) \/ CycleSession(step)
  \/ EndTabDrag \/ Restore

PanesSpec == PanesInit /\ [][PanesNext]_paneVars

-----------------------------------------------------------------------------
PanesTypeOK ==
  /\ list \in Lists /\ alive \subseteq Range(list)
  /\ Len(panes) \in 1..MaxPanes
  /\ \A k \in DOMAIN panes : panes[k] \in [id : Pane, sessionId : Session \cup {None}]
  /\ \A j, k \in DOMAIN panes : panes[j].id = panes[k].id => j = k
  /\ active \in Pane
  /\ mru \in Seq(Session) /\ IsInjective(mru)
  /\ dragged \in Session \cup {None}
  /\ Len(saved) \in 1..MaxPanes /\ Range(saved) \subseteq Session \cup {None}

(* "A session lives in at most one pane, because a terminal has exactly one *)
(* DOM node" (layout.ts): through moves, drops, panes that are filled again *)
(* and layouts that are restored.                                           *)
OneViewEach == \A j, k \in DOMAIN panes :
  panes[j].sessionId = panes[k].sessionId => j = k \/ panes[j].sessionId = None

Emptied(pane) ==
  pane \in PaneIds(panes) \cap PaneIds(panes') /\ In(panes, pane) # None /\ In(panes', pane) = None

EmptiedForNothing(pane) ==
  /\ Emptied(pane) /\ In(panes, pane) \in Range(list)
  /\ In(panes, pane) \notin Shown(panes') /\ ~(Range(list') \subseteq Shown(panes'))

(* "Panes are only emptied when there is genuinely nothing left to show"    *)
(* (layout.ts), unless the user moved what they showed to another pane.  A  *)
(* pane that shows a session which was gone already is not counted, nor is  *)
(* a layout that is restored.                                               *)
NoNeedlessHole == [][(\A pane \in Pane : ~EmptiedForNothing(pane)) \/ Restore]_paneVars

-----------------------------------------------------------------------------
(* What the code claims and does not keep (README, "Deviations").           *)

(* A pane whose session has gone away is rehomed (layout.ts): no pane shows *)
(* a session that is not in the list.                                       *)
ShownAreListed == Shown(panes) \subseteq Range(list)
=============================================================================
