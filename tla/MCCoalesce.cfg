SPECIFICATION FairSpec
CONSTANTS
  NoGroup = NoGroup
  NoValue = NoValue
  c1 = c1
  c2 = c2
  c3 = c3
  c4 = c4
  u = u
  v = v
  Callers = {c1, c2, c3, c4}
  Urls = {u}
  Url <- MCUrl
  Method <- MCMethod
  Body <- MCNilBody
INVARIANTS
  TypeOK
  SingleFlight
  WholeBody
PROPERTIES
  KeepsPromise
  WaitersReturn
  EntriesForgotten
CHECK_DEADLOCK FALSE
