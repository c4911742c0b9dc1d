SPECIFICATION Spec
CONSTANTS
  Writers = {p1, p2}
  Readers = {r1}
  Deleters = {p1, p2}
  Keys = {a, ab, ac}
  Paths <- AllPaths
  Parent <- InA
  Root = Root
  Versions = {v1, v2}
  Modes = {"plain", "sealed"}
  None = None
  Dir = Dir
  p1 = p1
  p2 = p2
  r1 = r1
  a = a
  ab = ab
  ac = ac
  v1 = v1
  v2 = v2
INVARIANT TypeOK
INVARIANT PutsStay
INVARIANT ReadsMatchAcks
SYMMETRY Symmetric
