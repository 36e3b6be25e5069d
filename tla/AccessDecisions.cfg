\* Two requests, two administrators deciding, withdrawals, the sweep and a restart.
SPECIFICATION MCSpec
CONSTANTS
  a1 = a1
  a2 = a2
  v = v
  g1 = g1
  g2 = g2
  r1 = r1
  r2 = r2
  NoUser = NoUser
  Cli = Cli
  Group = {g1, g2}
  AllowedTargets = {"LEAD"}
  User = {a1, a2, v}
  ReqId = {r1, r2}
  AdminRoles = {"LEAD"}
  RefreshOnLogin = FALSE
  Kinds = {"request", "approve", "reject"}
  CliOn = FALSE
  Selections <- OneSelection
  MaxInFlight = 2
  MaxCrashes = 1
SYMMETRY Symmetry
INVARIANTS
  TypeOK
PROPERTIES
  LedgerSpec
