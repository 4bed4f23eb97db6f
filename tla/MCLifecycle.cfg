SPECIFICATION Spec
CONSTANTS
  None = None
  Specs <- PlainOnly
  Exits <- LinksOrLost
  AgentClasses = {"absent", "bare"}
  MaxTasks = 1
  MaxGen = 1
  MaxJobs = 1
  MaxPods = 1
  MaxAnswer = 1
  Disturbances = {"ClassChanged", "Deadline", "Fault"}
  Lagging = {"Task", "Job", "Pod", "ClusterAgentClass", "NetworkPolicy"}
  Managed = {"NetworkPolicy"}
INVARIANT TypeOK
INVARIANT PolicyCoversPod
INVARIANT PhaseIsHonest
INVARIANT ResultIsHonest
INVARIANT SettledIsConverged
PROPERTY ImplementsLifecycle
CHECK_DEADLOCK FALSE
