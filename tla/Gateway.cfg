SPECIFICATION Spec
CONSTANTS
  Cap = 4
  MaxBody = 6
  Buffer = 3
  NoBytes = nobytes
  nobytes = nobytes
  Absent = absent
  absent = absent
  NoMsg = nomsg
  nomsg = nomsg
  Spent = spent
  spent = spent
  Secret <- MCSecret
  Unsigned = unsigned
  unsigned = unsigned
  Short = short
  short = short
  Skew = 1
  MaxTTL = 2
  MaxClock = 6
  Configs <- MCConfigs
  Requests <- MCRequests
  Altered <- MCAltered
  AdminCalls <- MCAdminCalls
INVARIANT CapExact
INVARIANT RangeServed
INVARIANT AuthExact
INVARIANT EffectNeedsRole
