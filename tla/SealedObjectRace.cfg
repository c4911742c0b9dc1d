SPECIFICATION Spec
CONSTANTS
  Putters = {p1}
  Readers = {r1}
  Deleters = {d1}
  Workers = {w1}
  Scrubbers = {}
  Byte <- Bits
  Contents <- TwoContents
  VerifyOnRead = TRUE
  VerifyPayload = TRUE
  QueueCap = 1
  Rot = {"payload"}
  Crashes = TRUE
  IOFaults = TRUE
  None = None
  p1 = p1
  p2 = p2
  r1 = r1
  d1 = d1
  w1 = w1
  s1 = s1
INVARIANT TypeOK
INVARIANT VerifiedReadSound
PROPERTY RepairInstallsVerified
