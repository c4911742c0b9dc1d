SPECIFICATION FairSpec
CONSTANTS
  Requests = {r1}
  Scanners = {s1}
  Loops = {l1, l2}
  Items = 2
  Configs <- MCConfigs
  Pausing = TRUE
  Deadline = TRUE
  None = None
  r1 = r1
  s1 = s1
  l1 = l1
  l2 = l2
INVARIANT TypeOK
INVARIANT EachItemOnce
INVARIANT StatsNearlyExact
INVARIANT PauseLeaksOne
INVARIANT CleanShutdown
PROPERTY QueueSpec
PROPERTY ShutdownEnds
PROPERTY EveryItemHandled
