SPECIFICATION Spec
CONSTANTS
  None = None
  Specs <- PlainOnly
  Exits <- VariousMessages
  AgentClasses = {"bare"}
  MaxTasks = 1
  MaxGen = 1
  MaxJobs = 1
  MaxPods = 2
  MaxAnswer = 1
  Disturbances = {"JobSuspended", "StrayPod", "PodRemoved"}
  Lagging = {"Pod"}
  Managed = {"NetworkPolicy"}
INVARIANT ResultIsHonest
PROPERTY ResultIsFinal
CHECK_DEADLOCK FALSE
