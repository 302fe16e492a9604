SPECIFICATION Spec
CONSTANTS
  NoScript = NoScript
  AuthKey = "k1"
  a = a
  b = b
  r1 = r1
  r2 = r2
  Scripts = {a, b}
  Reqs = {r1, r2}
  AccountKey <- MCKeys
  Configs <- MCVarious
  Kind <- MCMixed
  BadTarget = {}
  DevOpen = {b}
  DirectJSON = {b}
  Conds = {"up", "exhausted"}
  BlacklistFor = 1
  MaxTime = 2
INVARIANTS
  TypeOK
  BlacklistPersists
  NeverDry
  FailureJustified
  Served
