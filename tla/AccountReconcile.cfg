\* Runs of the job beside the users page and the command line, with departures and outages.
SPECIFICATION FairSpec
CONSTANTS
  nightly = nightly
  page = page
  User = {1, 2, 3}
  Group = {}
  Oidc = {1, 2, 3}
  Job = {nightly}
  Page = page
  Editor = {page}
  Ceiling = 70
  Roles = {"VIEWER", "ADMIN"}
  MaxEvents = 2
INVARIANTS
  IInv
PROPERTIES
  LastAdministratorIsSpared
  OutageClosesNobody
  LeaversGo
