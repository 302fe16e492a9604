SPECIFICATION FairSpec
CONSTANTS
  None = None
  a1 = a1
  a2 = a2
  a3 = a3
  z1 = z1
  z2 = z2
  v1 = v1
  p = p
  q = q
  Starts = {a1, a2}
  Stops = {z1, z2}
  Connects = {v1}
  Ports = {p, q}
  Port <- MCPort
  OneAtATime = FALSE
INVARIANTS
  NeverSpins
PROPERTIES
  StoppedCloses
CHECK_DEADLOCK FALSE
