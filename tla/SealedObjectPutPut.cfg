SPECIFICATION Spec
CONSTANTS
  Putters = {p1, p2}
  Readers = {r1}
  Deleters = {}
  Workers = {}
  Scrubbers = {}
  Byte <- Bits
  Contents <- TwoContents
  VerifyOnRead = TRUE
  VerifyPayload = TRUE
  QueueCap = 1
  Rot = {}
  Crashes = FALSE
  IOFaults = FALSE
  None = None
  p1 = p1
  p2 = p2
  r1 = r1
  d1 = d1
  w1 = w1
  s1 = s1
INVARIANT ConcurrentPutsCoherent
