\* Attempts follow one another and nothing else changes.
CONSTANTS
  Messages <- MCMessages
  Outputs <- MCOutputs
  Attempts = 2
  Overlapping = FALSE
  MaxChanges = 0
SPECIFICATION Spec
INVARIANT CrashedPlansAreLinked
CHECK_DEADLOCK FALSE
