SPECIFICATION Spec
CONSTANTS
  Uploads = {u1}
  PartNum <- TwoParts
  Chunk = {small}
  Size <- MCSize
  MinPart = 4
  Initiators = {i1}
  Uploaders = {h1}
  Completers = {c1}
  Aborters = {a1}
  Collectors = {g1}
  Overlap = TRUE
  IOFaults = TRUE
  Crashes = TRUE
  None = None
  Torn = Torn
  u1 = u1
  i1 = i1
  h1 = h1
  h2 = h2
  c1 = c1
  a1 = a1
  g1 = g1
  big = big
  small = small
INVARIANT TypeOK
INVARIANT EndedOnce
INVARIANT RecordedPartsStaged
