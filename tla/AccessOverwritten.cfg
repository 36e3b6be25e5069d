\* A scope derived from ServiceNow, a grant by request, a sign-in.
SPECIFICATION MCSpec
CONSTANTS
  a1 = a1
  a2 = a2
  v = v
  g1 = g1
  g2 = g2
  r1 = r1
  r2 = r2
  NoUser = NoUser
  Cli = Cli
  Group = {g1, g2}
  AllowedTargets = {"LEAD"}
  User = {a1, v}
  ReqId = {r1}
  AdminRoles = {"LEAD"}
  RefreshOnLogin = TRUE
  Kinds = {"request", "approve"}
  CliOn = FALSE
  Selections <- OneSelection
  MaxInFlight = 2
  MaxCrashes = 0
PROPERTIES
  SignInKeepsGrantedScope
