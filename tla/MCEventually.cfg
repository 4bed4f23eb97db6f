SPECIFICATION FairSpec
CONSTANTS
  None = None
  Specs <- PlainOrExpiring
  Exits <- SucceedsOrLost
  AgentClasses = {"absent", "bare"}
  MaxTasks = 1
  MaxGen = 1
  MaxJobs = 1
  MaxPods = 1
  MaxAnswer = 1
  Disturbances = {"ClassChanged", "Fault"}
  Lagging = {"Job", "ClusterAgentClass"}
  Managed = {"NetworkPolicy"}
PROPERTY OutcomeReachesTask
PROPERTY TerminalGetsResult
PROPERTY ExpiredIsCollected
PROPERTY WaitingTaskStarts
CHECK_DEADLOCK FALSE
