SPECIFICATION Spec
CONSTANTS
  None = None
  Specs <- HostsOrFull
  Exits <- Succeeds
  AgentClasses = {"bare", "mount"}
  MaxTasks = 1
  MaxGen = 2
  MaxJobs = 1
  MaxPods = 1
  MaxAnswer = 2
  Disturbances = {"SpecEdited", "ClassChanged", "DNSChanged"}
  Lagging = {"NetworkPolicy"}
  Managed = {"ServiceAccount", "Role", "RoleBinding", "NetworkPolicy", "PromptConfigMap", "AgentConfigMap"}
INVARIANT PolicyCoversPod
INVARIANT SettledIsConverged
CHECK_DEADLOCK FALSE
