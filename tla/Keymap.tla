-------------------------------- MODULE Keymap --------------------------------
(***************************************************************************)
(* What a keymap is and how it changes (shared/keymap.ts, and the          *)
(* recording of shortcuts in web/src/ui/Settings.tsx): a leader chord, the *)
(* keys that may follow it, and chords that act directly.  Chords are      *)
(* modifiers with a key; of the defaults only a few entries are kept.      *)
(***************************************************************************)
EXTENDS Naturals, Functions

(* The actions the entries kept here are for.                               *)
ActionId == {"settings", "command-palette", "search", "rename-session", "insert-newline"}

Chord(mods, key) == [mods |-> mods, key |-> key]

DefaultLeader == Chord({"ctrl"}, "\\")
CmdJ == Chord({"meta"}, "j")
CmdComma == Chord({"meta"}, ",")

(* KEYMAP_VERSION *)
Newest == 5

(* defaultSharedKeymap *)
DefaultKeymap ==
  [version  |-> Newest,
   leader   |-> DefaultLeader,
   bindings |-> [key \in {",", "k"} |-> IF key = "," THEN "settings" ELSE "command-palette"],
   direct   |-> [chord \in {CmdComma, CmdJ} |->
                   IF chord = CmdJ THEN "insert-newline" ELSE "settings"]]

(* chordMatches *)
Matches(chord, event) ==
  /\ chord.key = event.key
  /\ LET told == IF chord.key = "space" THEN {"shift"} ELSE {}
     IN chord.mods \ told = event.mods \ told

(* isBareKey *)
Bare(chord) == chord.mods \subseteq {"shift"}

-----------------------------------------------------------------------------
(* rebindLeaderSub, rebindDirect: the action gives up what it had, and what *)
(* had the key gives it up.                                                 *)
Rebound(table, action, at) ==
  [k \in {l \in DOMAIN table : table[l] # action} \cup {at} |-> IF k = at THEN action ELSE table[k]]

(* clearDirect *)
Cleared(table, action) == Restrict(table, {k \in DOMAIN table : table[k] # action})

-----------------------------------------------------------------------------
(* The steps of normalizeSharedKeymap.  Entries for actions that are not    *)
(* known are dropped.                                                       *)
Known(table) == Restrict(table, {k \in DOMAIN table : table[k] \in ActionId})

(* Until version 4 a chord was bound with Ctrl and with Cmd at once. *)
WithoutTwins(direct) ==
  LET withMeta == {direct[c] : c \in {d \in DOMAIN direct : "meta" \in d.mods}}
  IN Restrict(direct, {c \in DOMAIN direct : "meta" \in c.mods \/ direct[c] \notin withMeta})

(* Version 5 came with Cmd+J. *)
WithCmdJ(direct) ==
  [c \in DOMAIN direct \cup {CmdJ} |-> IF c \in DOMAIN direct THEN direct[c] ELSE "insert-newline"]

(* The first leader switched the input method. *)
RetiredLeader(chord) == chord.key = "space" /\ chord.mods \ {"shift"} = {"ctrl"}

OrDefault(table, default) == IF DOMAIN table = {} THEN default ELSE table

(* Fault: the keymap keeps the version it came with. *)
NormalizedAsOld(raw) ==
  LET older == Known(raw.direct)
      fourth == IF raw.version < 4 THEN WithoutTwins(older) ELSE older
      fifth  == IF raw.version < 5 THEN WithCmdJ(fourth) ELSE fourth
  IN [version  |-> raw.version,
      leader   |-> IF raw.version < 2 /\ RetiredLeader(raw.leader) THEN DefaultLeader ELSE raw.leader,
      bindings |-> OrDefault(Known(raw.bindings), DefaultKeymap.bindings),
      direct   |-> OrDefault(fifth, DefaultKeymap.direct)]

(* normalizeSharedKeymap *)
Normalized(raw) ==
  LET older == Known(raw.direct)
      fourth == IF raw.version < 4 THEN WithoutTwins(older) ELSE older
      fifth  == IF raw.version < 5 THEN WithCmdJ(fourth) ELSE fourth
  IN [version  |-> Newest,
      leader   |-> IF raw.version < 2 /\ RetiredLeader(raw.leader) THEN DefaultLeader ELSE raw.leader,
      bindings |-> OrDefault(Known(raw.bindings), DefaultKeymap.bindings),
      direct   |-> OrDefault(fifth, DefaultKeymap.direct)]
=============================================================================
