SPECIFICATION Spec
CONSTANTS
  None = None
  a1 = a1
  a2 = a2
  a3 = a3
  z1 = z1
  z2 = z2
  v1 = v1
  p = p
  q = q
  Starts = {a1, a2, a3}
  Stops = {z1, z2}
  Connects = {}
  Ports = {p, q}
  Port <- MCPort
  OneAtATime = FALSE
INVARIANTS
  NotRunningSaidTruly
CHECK_DEADLOCK FALSE
