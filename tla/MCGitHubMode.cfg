\* Two creates that overlap each other and everything else; starts, stops and
\* connections of Xray beside a Codespace that comes and goes.
SPECIFICATION MCSpec
CONSTANTS
  None = None
  NoCmd = NoCmd
  l1 = l1
  c1 = c1
  d1 = d1
  Logins = {l1}
  Logouts = {o1}
  Forks = {f1}
  Creates = {c1, c2}
  Stops = {s1}
  Deletes = {d1}
  Users = {ann}
  Polls = 3
  XrayStarts = {x1, x2, x3}
  XrayStops = {y1}
  Connects = {v1, v2}
INVARIANTS
  TypeOK
  ReadyWhole
  CreatingIsWorking
  NoOrphan
PROPERTIES
  CreatingEnds
CHECK_DEADLOCK FALSE
