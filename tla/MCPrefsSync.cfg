\* Every order of edits, saves, failures, boots and network changes; or of two changes of the keymap,
\* their saves, late or lost, boots and reloads, from files of older versions.
SPECIFICATION EitherSpec
CONSTANTS
  font = font
  theme = theme
  Key <- TwoKeys
  MaxEdits = 2
  OldFile <- Files
  Recorded <- Presses
  Recordable <- Actions
  MaxRecordings = 2
INVARIANTS
  NothingLost
  NeverStalled
  RecordedStays
PROPERTIES
  EventuallySaved
CHECK_DEADLOCK TRUE
