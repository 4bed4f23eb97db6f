SPECIFICATION Spec
CHECK_DEADLOCK FALSE
CONSTANTS
  Names <- MCNames
  IPs <- MCIPs
  CIDRs <- MCCIDRs
  BadCIDRs = {"bad/"}
  Lower <- MCLower
  Block <- MCBlock
  Single <- MCSingle
  Secrets = {"s1", "s2", "s.1"}
  Labels = {"s1", "s2"}
  Paths <- MCPaths
  Keys = {"MODEL", "EXTRA", "max-turns"}
  EnvNames = {"MODEL", "EXTRA"}
  Cases <- MCCases
  AllAnswers <- MCAnswers
  Reports <- MCReports
INVARIANT PolicyIsCanonical
INVARIANT RefreshedIfItMatters
INVARIANT RetriedForAReason
INVARIANT ConfigReachesAgent
INVARIANT PodIsComplete
INVARIANT WrittenIsRecorded
INVARIANT LinkIsReachable
