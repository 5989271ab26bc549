---------------------------- MODULE TerminalMounts ----------------------------
(***************************************************************************)
(* Which pane a browser terminal is in, and where its view is scrolled to: *)
(* web/src/terminal/registry.ts, mounting in                               *)
(* web/src/terminal/session-terminal.ts, the effect of TerminalPane in     *)
(* web/src/ui/PaneView.tsx.                                                *)
(*                                                                         *)
(* A pane is rendered at once after the layout has changed; its effect     *)
(* runs after the next paint, or before it is rendered again, in the order *)
(* of the panes, which may be any; what a pane that goes away has to clean *)
(* up is cleaned up while rendering (Preact).  A slot is the element a     *)
(* pane makes for its terminal, and an empty pane has none.                *)
(*                                                                         *)
(* Scrolling is counted in lines.  xterm keeps the view's line, the        *)
(* browser the element's position, which is 0 whenever the element is put  *)
(* into the page; xterm sets it when the view is moved or output is drawn. *)
(***************************************************************************)
EXTENDS Integers, Sequences, FiniteSets, SequencesExt, FiniteSetsExt

CONSTANTS
  Shell,    \* sessions
  Slot,     \* elements of panes, used again once they are gone
  Nowhere,  \* no element, and no terminal
  Busy,     \* bound of the model: those of them with output and a wheel
  MaxPane,  \* bound of the model: panes with a terminal at once
  MaxLine   \* bound of the model: lines of a terminal's scrollback

ASSUME TerminalMountsAssumption == MaxPane \in Nat /\ MaxLine \in Nat /\ Busy \subseteq Shell /\ Nowhere \notin Slot \cup Shell

VARIABLES
  existing, \* the sessions there are
  rendered, \* panes with a terminal
  effects,  \* panes whose effect has to run
  mounted,  \* the terminal a slot's cleanup would take out
  term      \* the registry: its terminals

mountVars == <<existing, rendered, effects, mounted, term>>

PaneOf(slot, id) == [slot |-> slot, shows |-> id]

SlotsOf(ps)  == {p.slot : p \in ps}
ShellsOf(ps) == {p.shows : p \in ps}

(* savedScroll, and what a requested frame has to restore. *)
NoScroll      == [is |-> "none"]
Fresh         == [is |-> "bottom"]
SavedAt(line) == [is |-> "line", line |-> line]

(* A terminal; `left` is history: where the user has left the view,         *)
(* NoScroll when the code does not keep it.                                 *)
Absent == [is |-> "absent", at |-> Nowhere, base |-> 0, view |-> 0, top |-> 0,
           saved |-> NoScroll, frame |-> NoScroll, left |-> Fresh]

(* getTerminal *)
Got(t) == [t EXCEPT !.is = "live"]

(* attachTo.  One that comes straight from another pane has saved nothing.  *)
AttachedTo(t, slot) ==
  IF t.at = slot THEN t
  ELSE [t EXCEPT !.at = slot, !.top = 0,
                 !.frame = IF t.saved = NoScroll THEN Fresh ELSE t.saved,
                 !.left = IF t.at = Nowhere THEN @ ELSE NoScroll]

(* unmount *)
Unmounted(t) ==
  [t EXCEPT !.at = Nowhere, !.top = 0,
            !.saved = IF t.view = t.base THEN Fresh ELSE SavedAt(t.view)]

(* Fault: a pane takes the terminal out wherever it is by now. *)
CleanedAnyway(s, slots) ==
  [id \in Shell |-> IF \E slot \in slots : s.mounted[slot] = id THEN Unmounted(s.term[id]) ELSE s.term[id]]

(* The cleanups of the effects of the panes with these slots. *)
Cleaned(s, slots) ==
  [id \in Shell |-> IF \E slot \in slots : s.mounted[slot] = id /\ s.term[id].at = slot
                    THEN Unmounted(s.term[id]) ELSE s.term[id]]

(* The effect of a pane: the old one's cleanup, then its own.  A pane that  *)
(* has been emptied shows Nowhere.                                          *)
Effect(s, pane) ==
  LET cleaned == Cleaned(s, {pane.slot})
  IN [term |-> IF pane.shows = Nowhere THEN cleaned
               ELSE [cleaned EXCEPT ![pane.shows] = AttachedTo(Got(@), pane.slot)],
      mounted |-> [s.mounted EXCEPT ![pane.slot] = pane.shows]]

(* The effects that are due, one after the other, of panes with these slots. *)
Ran(s, slots) ==
  LET after[k \in 0..Len(effects)] ==
        IF k = 0 THEN s
        ELSE IF effects[k].slot \in slots THEN Effect(after[k - 1], effects[k]) ELSE after[k - 1]
  IN after[Len(effects)]

-----------------------------------------------------------------------------
MountsInit ==
  /\ existing = Shell
  /\ rendered = {}
  /\ effects = <<>>
  /\ mounted = [slot \in Slot |-> Nowhere]
  /\ term = [id \in Shell |-> Absent]

(* disposeTerminal: a cleanup that is left has nothing to take out.         *)
Disposed(s, ids) ==
  [term |-> [id \in Shell |-> IF id \in ids THEN Absent ELSE s.term[id]],
   mounted |-> [slot \in Slot |-> IF s.mounted[slot] \in ids THEN Nowhere ELSE s.mounted[slot]]]

(* The panes are rendered as `next`.  Those of `emptied` stay without a     *)
(* terminal, others that are not in it are gone; those of `again` have got  *)
(* another pane's id.                                                       *)
Render(next, emptied, again, before) ==
  LET stays   == SlotsOf(next) \cup emptied
      flushed == Ran(before, stays)
      changed == {p \in next : p \notin rendered \/ p.slot \in again}
  IN /\ rendered' = next
     /\ term' = Cleaned(flushed, Slot \ stays)
     /\ mounted' = [slot \in Slot |-> IF slot \in stays THEN flushed.mounted[slot] ELSE Nowhere]
     /\ effects' \in SetToSeqs(changed \cup {PaneOf(slot, Nowhere) : slot \in emptied})

Unchanged == [term |-> term, mounted |-> mounted]

(* Panes that may come next: of sessions there are, in their slots or in    *)
(* new ones.                                                                *)
Layouts(ids) ==
  {ps \in SUBSET [slot : Slot \ (SlotsOf(Range(effects)) \ SlotsOf(rendered)), shows : ids] :
     /\ IsFiniteSet(ps) /\ Cardinality(ps) <= MaxPane
     /\ \A p, q \in ps : p.slot = q.slot \/ p.shows = q.shows => p = q}

(* A tab is chosen, moved or dropped, a pane split or closed. *)
LayoutChanges ==
  /\ \E next \in Layouts(existing) :
       \E emptied \in SUBSET (SlotsOf(rendered) \ SlotsOf(next)),
          again \in SUBSET SlotsOf(next \cap rendered) :
         Render(next, emptied, again, Unchanged)
  /\ UNCHANGED existing

(* reconcileLayout, closeSession: a session goes, and its terminal.  Its    *)
(* pane gets another session or is empty, see Panes.                        *)
SessionGoes(id) ==
  /\ existing' = existing \ {id}
  /\ \E other \in (existing' \ ShellsOf(rendered)) \cup {Nowhere} :
       LET left == {p \in rendered : p.shows = id}
           next == (rendered \ left) \cup {p \in {PaneOf(slot, other) : slot \in SlotsOf(left)} : other # Nowhere}
       IN Render(next, SlotsOf(rendered) \ SlotsOf(next), {}, Disposed(Unchanged, Shell \ existing'))

(* A session comes: its id stands for a new one. *)
SessionComes(id) ==
  /\ id \notin existing
  /\ existing' = existing \cup {id}
  /\ term' = Disposed(Unchanged, Shell \ existing).term
  /\ mounted' = Disposed(Unchanged, Shell \ existing).mounted
  /\ UNCHANGED <<rendered, effects>>

(* createSession *)
MakesTerminal(id) ==
  /\ id \in existing /\ term[id].is = "absent"
  /\ term' = [term EXCEPT ![id] = Got(@)]
  /\ UNCHANGED <<existing, rendered, effects, mounted>>

AfterPaint ==
  /\ effects # <<>>
  /\ LET s == Ran(Unchanged, Slot) IN term' = s.term /\ mounted' = s.mounted
  /\ effects' = <<>>
  /\ UNCHANGED <<existing, rendered>>

-----------------------------------------------------------------------------
Becomes(id, t) == term' = [term EXCEPT ![id] = t] /\ UNCHANGED <<existing, rendered, effects, mounted>>

(* Moved by xterm: the element follows where it is in the page.             *)
MovedTo(t, line) == [t EXCEPT !.view = line, !.top = IF t.at = Nowhere THEN 0 ELSE line]

(* restoreScroll's frame, and forceScrollTo.  Frames that were requested    *)
(* before it come to nothing beside it.                                     *)
FrameOf(id) ==
  LET t == term[id]
      target == IF t.frame.is = "line" THEN Min({t.frame.line, t.base}) ELSE t.base
  IN /\ t.frame # NoScroll
     /\ Becomes(id, [(IF t.base = 0 THEN t ELSE MovedTo(t, target)) EXCEPT !.frame = NoScroll])

(* A line more; the view follows where it is at the end. *)
Output(id) ==
  LET t == term[id]
  IN /\ t.is = "live" /\ t.base < MaxLine /\ id \in Busy
     /\ Becomes(id, MovedTo([t EXCEPT !.base = @ + 1], IF t.view = t.base THEN t.base + 1 ELSE t.view))

(* A notch of the wheel moves the element, and the view after it; nobody    *)
(* turns it within a frame.                                                 *)
Wheel(id, to) ==
  LET t == term[id]
  IN /\ t.at # Nowhere /\ t.frame = NoScroll /\ id \in Busy
     /\ to \in {t.top - 1, t.top + 1} \cap 0..t.base
     /\ Becomes(id, [MovedTo(t, to) EXCEPT !.left = IF to = t.base THEN Fresh ELSE SavedAt(to)])

(* A (re)connected terminal is reset, replayed and shown at its end: hello, *)
(* the snapshot and ready of handleControl.                                 *)
Replayed(id, base) ==
  LET t == [term[id] EXCEPT !.base = base, !.saved = NoScroll, !.frame = Fresh, !.left = Fresh]
  IN t.is = "live" /\ id \in Busy /\ Becomes(id, MovedTo(t, base))

MountsNext ==
  \/ LayoutChanges \/ AfterPaint
  \/ \E id \in Shell :
       \/ SessionGoes(id) \/ SessionComes(id) \/ MakesTerminal(id) \/ FrameOf(id) \/ Output(id)
       \/ \E line \in 0..MaxLine : Wheel(id, line) \/ Replayed(id, line)

MountsSpec == MountsInit /\ [][MountsNext]_mountVars

-----------------------------------------------------------------------------
Settled(t) ==
  /\ t.top = t.view
  /\ t.left = Fresh => t.view = t.base
  /\ t.left.is = "line" => t.view = t.left.line

(* Whatever panes and sessions did, once the effects have run each pane has *)
(* the live terminal of its session and no other; and once the frame after  *)
(* it has been drawn, its view is where the user left it ("Put the viewport *)
(* back where it was, or at the newest output", session-terminal.ts), with  *)
(* the element where xterm believes it is.  Left out is a terminal that one *)
(* pane took straight from another.                                         *)
PaneShows ==
  effects = <<>> =>
    /\ \A p \in rendered :
         LET t == term[p.shows] IN t.is = "live" /\ t.at = p.slot /\ (t.frame = NoScroll => Settled(t))
    /\ \A id \in Shell : term[id].at # Nowhere => PaneOf(term[id].at, id) \in rendered
=============================================================================
