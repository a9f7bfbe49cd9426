SPECIFICATION Spec
CONSTANTS
  Requests = {r1, r2, r3, r4}
  IPs = {a, b}
  LastDay = 2
  PerIp = 2
  Global = 3
  Free = Free
SYMMETRY RequestSymmetry
INVARIANT QuotaRespected
CHECK_DEADLOCK FALSE
