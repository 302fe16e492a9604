SPECIFICATION Spec
CONSTANTS
  NoGroup = NoGroup
  NoValue = NoValue
  c1 = c1
  c2 = c2
  c3 = c3
  c4 = c4
  u = u
  v = v
  Callers = {c1, c2, c3, c4}
  Urls = {u, v}
  Url <- MCProxyUrl
  Method <- MCProxyMethod
  Body <- MCProxyBody
INVARIANTS
  GetsCoalesce
CHECK_DEADLOCK FALSE
