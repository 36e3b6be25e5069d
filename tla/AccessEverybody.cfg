\* One request and every other writer of the account - pages, command line, sign-in - in the long run.
SPECIFICATION MCFairSpec
CONSTANTS
  a1 = a1
  a2 = a2
  v = v
  g1 = g1
  g2 = g2
  r1 = r1
  r2 = r2
  NoUser = NoUser
  Cli = Cli
  Group = {g1, g2}
  AllowedTargets = {"LEAD"}
  User = {a1, v}
  ReqId = {r1}
  AdminRoles = {"LEAD", "ADMIN"}
  RefreshOnLogin = TRUE
  Kinds = {"request", "approve", "assign"}
  CliOn = TRUE
  Selections <- OneSelection
  MaxInFlight = 2
  MaxCrashes = 0
INVARIANTS
  RequestedRoleIsBacked
  AdminIsNeverRequested
PROPERTIES
  EveryRequestCloses
  ApprovalTakesEffect
