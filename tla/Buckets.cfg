SPECIFICATION Spec
CONSTANTS
  Creators = {c1, d2}
  Removers = {d1, d2}
  Writers = {w1}
  Initiators = {i1}
  Enders = {e1}
  Keys = {k1, k2}
  Internal = {k2}
  Uploads = {u1}
  Crashes = TRUE
  None = None
  c1 = c1
  d1 = d1
  d2 = d2
  w1 = w1
  i1 = i1
  e1 = e1
  k1 = k1
  k2 = k2
  u1 = u1
INVARIANT TypeOK
INVARIANT GoneMeansEmpty
PROPERTY EarlierPutsSurvive
