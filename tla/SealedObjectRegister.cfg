SPECIFICATION Spec
CONSTANTS
  Putters = {p1, p2}
  Readers = {r1}
  Deleters = {p2}
  Workers = {}
  Scrubbers = {}
  Byte <- Bits
  Contents <- TwoContents
  VerifyOnRead = TRUE
  VerifyPayload = TRUE
  QueueCap = 1
  Rot = {"header"}
  Crashes = TRUE
  IOFaults = TRUE
  None = None
  p1 = p1
  p2 = p2
  r1 = r1
  d1 = d1
  w1 = w1
  s1 = s1
PROPERTY RegisterSpec
