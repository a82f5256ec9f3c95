SPECIFICATION FairSpec
CONSTANTS
  Periods = 1
  Pulses = 1
  Bauds = 1
  Sync = TRUE
  Large = 5
  MaxSeqs = 2
  MaxSignals = 3
  MaxFaults = 1
  Refused <- Refusals
INVARIANT Quiet
INVARIANT AnswerIsOwn
PROPERTY StopEnds
PROPERTY EndsTogether
