SPECIFICATION Spec
CONSTANTS
  None = None
  Specs <- ExpiringOnly
  Exits <- Fails
  AgentClasses = {"bare"}
  MaxTasks = 2
  MaxGen = 1
  MaxJobs = 2
  MaxPods = 1
  MaxAnswer = 1
  Disturbances = {"TaskDeleted"}
  Lagging = {"Task"}
  Managed = {"NetworkPolicy"}
INVARIANT SettledIsConverged
PROPERTY CollectsOnlyExpired
PROPERTY ImplementsLifecycle
CHECK_DEADLOCK FALSE
