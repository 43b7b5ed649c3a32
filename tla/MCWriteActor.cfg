\* 2 captures of one key, 1 resend, 2 faults.
CONSTANTS
  first = first
  other = other
  key = key
  text = text
  otherText = otherText
  Requests = {first, other}
  Keys = {key}
  KeyOf <- MCKeyOf
  ContentOf <- MCContentOf
  NoContent = NoContent
  NoEnvelope = NoEnvelope
  MaxTries <- MCMaxTries
  MaxBusy = 2
  MaxFaults = 2
SPECIFICATION Spec
INVARIANTS AnsweredMeansStored OneJobPerCapture SurplusOnlyFromInterruption
PROPERTIES CaptureIsFinal RequestsAreAnswered
\* Requests are bounded, so the system comes to rest.
CHECK_DEADLOCK FALSE
