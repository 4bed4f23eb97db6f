SPECIFICATION Spec
CONSTANTS
  None = None
  Specs <- PlainOnly
  Exits <- SucceedsOrFails
  AgentClasses = {"bare"}
  MaxTasks = 1
  MaxGen = 1
  MaxJobs = 2
  MaxPods = 1
  MaxAnswer = 1
  Disturbances = {"JobDeleted", "Deadline", "Fault"}
  Lagging = {"Task", "Job"}
  Managed = {"ServiceAccount", "NetworkPolicy"}
INVARIANT ReportedOnce
INVARIANT PhaseIsHonest
INVARIANT SettledIsConverged
PROPERTY TerminalIsFinal
CHECK_DEADLOCK FALSE
