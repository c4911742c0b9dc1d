SPECIFICATION FairSpec
CONSTANTS
  Putters = {p1, p2}
  Readers = {}
  Deleters = {}
  Workers = {w1}
  Scrubbers = {s1}
  Byte <- Bits
  Contents <- TwoContents
  VerifyOnRead = TRUE
  VerifyPayload = FALSE
  QueueCap = 1
  Rot <- CRCRot
  Crashes = TRUE
  IOFaults = FALSE
  None = None
  p1 = p1
  p2 = p2
  r1 = r1
  d1 = d1
  w1 = w1
  s1 = s1
INVARIANT ManifestHasData
PROPERTY EventuallyHealed
