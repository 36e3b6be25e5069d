\* The event loop: every handler that changes a request, a role, a scope or an active flag.
SPECIFICATION MCSpec
CONSTANTS
  a1 = a1
  a2 = a2
  v = v
  g1 = g1
  g2 = g2
  r1 = r1
  r2 = r2
  NoUser = NoUser
  Cli = Cli
  Group = {g1, g2}
  AllowedTargets = {"LEAD"}
  User = {a1, a2, v}
  ReqId = {r1}
  AdminRoles = {"LEAD", "ADMIN"}
  RefreshOnLogin = FALSE
  Kinds = {"request", "approve", "assign", "activate", "deactivate"}
  CliOn = FALSE
  Selections <- OneSelection
  MaxInFlight = 2
  MaxCrashes = 0
SYMMETRY AdminSymmetry
INVARIANTS
  IInv
  AdministratorRemains

  
