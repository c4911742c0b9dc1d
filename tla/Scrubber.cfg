SPECIFICATION FairSpec
CONSTANTS
  Keys = 2
  Audits = {a1}
  Verifiers = {v1}
  Loop = Loop
  JobCap = 1
  QueueCap = 1
  MaxEvents = 2
  None = None
  a1 = a1
  v1 = v1
  v2 = v2
INVARIANT TypeOK
INVARIANT PassCovers
INVARIANT PassSound
INVARIANT ErrorsAreScanned
INVARIANT StoppedIsQuiet
PROPERTY PassEnds
CHECK_DEADLOCK FALSE
