\* Any three of seven requests about the configuration, in two modes; three users
\* of the CA; any three of two pages, two log lines, two changes of the proxy.
SPECIFICATION MCSpec
CONSTANTS
  a1 = a1
  a2 = a2
  s1 = s1
  s2 = s2
  g1 = g1
  o1 = o1
  k1 = k1
  k2 = k2
  c1 = c1
  c2 = c2
  l1 = l1
  l2 = l2
  f1 = f1
  f2 = f2
  Adds = {a1, a2}
  Deletes = {d1}
  Logins = {g1}
  Logouts = {o1}
  Saves = {s1, s2}
  Modes = {main, other}
  Main = main
  Settings = {plain, fancy}
  Default = plain
  Blank = Blank
  Torn = Torn
  NoToken = NoToken
  Conns = {k1, k2}
  Installs = {i1}
  Missing = Missing
  Truncated = Truncated
  Clients = {c1, c2}
  Loggers = {l1, l2}
  Flips = {f1, f2}
  Buffer = 1
  NoOne = NoOne
INVARIANTS
  TypeOK
  DiskHasMemory
  AddedStays
  CASound
  StatusShown
PROPERTIES
  LoggersReturn
CHECK_DEADLOCK FALSE
