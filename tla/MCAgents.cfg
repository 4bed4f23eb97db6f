SPECIFICATION Spec
CONSTANTS
  MaxTime = 3
  People = {"Comment", "Commit", "Close", "Merge", "Empty"}
  Runs = {r1, r2}
  Modes = {"implement", "iterate", "review", "report", "answer"}
  Faults = {"Call", "Commit", "Signal", "Kill"}
  Faulty = {r1}
INVARIANT TypeOK
INVARIANT NamedIsPublished
INVARIANT ExitTellsResult
INVARIANT SuccessIsDelivered
INVARIANT DeliveredStays
INVARIANT ReviewFollowsPush
INVARIANT QuietFeedbackIsRead
CHECK_DEADLOCK FALSE
