SPECIFICATION Spec
CONSTANTS
  None = None
  Specs <- PlainOnly
  Exits <- Succeeds
  AgentClasses = {"bare"}
  MaxTasks = 1
  MaxGen = 1
  MaxJobs = 2
  MaxPods = 1
  MaxAnswer = 1
  Disturbances = {}
  Lagging = {"Task"}
  Managed = {"NetworkPolicy"}
PROPERTY NoJobAfterTerminal
CHECK_DEADLOCK FALSE
