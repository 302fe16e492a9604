SPECIFICATION Spec
CONSTANTS
  NoScript = NoScript
  AuthKey = "k1"
  a = a
  b = b
  r1 = r1
  r2 = r2
  Scripts = {a, b}
  Reqs = {r1, r2}
  Configs <- MCTwo
  Kind <- MCRelay
  DevOpen = {a, b}
  DirectJSON = {a, b}
  Conds = {"up"}
  BlacklistFor = 2
  MaxTime = 2
  AccountKey <- MCKeys
  BadTarget = {r1}
INVARIANT
  BlacklistMeansScriptFault
