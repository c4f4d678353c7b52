SPECIFICATION Spec
CONSTANTS
  Workers = {w1, w2}
  MaxJobs = 2
  PopenFails = TRUE
  BadOutput = TRUE
INVARIANTS NoJobLost BreaksLast ReturnedStatus ResultsMatchJobs
PROPERTY ProcessEnds
CHECK_DEADLOCK FALSE
