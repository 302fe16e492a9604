SPECIFICATION FairSpec
CONSTANTS
  NoScript = NoScript
  AuthKey = "k1"
  a = a
  b = b
  r1 = r1
  r2 = r2
  Scripts = {a, b}
  Reqs = {r1, r2}
  AccountKey <- MCKeys
  Configs <- MCTwo
  Kind <- MCSingle
  BadTarget = {r1}
  DevOpen = {a, b}
  DirectJSON = {}
  Conds = {"up", "exhausted"}
  BlacklistFor = 2
  MaxTime = 1
PROPERTIES
  RequestsEnd
  HealedScriptReturns
