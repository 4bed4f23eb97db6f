SPECIFICATION Spec
CONSTANTS
  None = None
  Specs <- PlainOnly
  Exits <- Succeeds
  AgentClasses = {"bare"}
  MaxTasks = 2
  MaxGen = 1
  MaxJobs = 2
  MaxPods = 1
  MaxAnswer = 1
  Disturbances = {"TaskDeleted"}
  Lagging = {}
  Managed = {"NetworkPolicy"}
INVARIANT PhaseIsHonest
CHECK_DEADLOCK FALSE
