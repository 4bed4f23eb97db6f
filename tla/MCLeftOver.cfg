SPECIFICATION Spec
CONSTANTS
  MaxTime = 3
  People = {"Commit"}
  Runs = {r1, r2}
  Modes = {"implement"}
  Faults = {"Kill"}
  Faulty = {r1}
INVARIANT RejectedOnlyByRace
CHECK_DEADLOCK FALSE
