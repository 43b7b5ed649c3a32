\* 5 messages, 6 outputs, 2 attempts that may overlap, 1 change of an earlier turn.
CONSTANTS
  Messages <- MCMessages
  Outputs <- MCOutputs
  Attempts = 2
  Overlapping = TRUE
  MaxChanges = 1
SPECIFICATION Spec
INVARIANTS
  EveryWordHasOneDisposition
  SensitiveWordsStayPut
  OneCandidatePerWord
  AssistantWordsAreRatified
CHECK_DEADLOCK FALSE
