\* The job beside the users page: who was an administrator when the accounts were read.
SPECIFICATION Spec
CONSTANTS
  nightly = nightly
  page = page
  User = {1, 2, 3}
  Group = {}
  Oidc = {1, 2, 3}
  Job = {nightly}
  Page = page
  Editor = {page}
  Ceiling = 70
  Roles = {"VIEWER", "ADMIN"}
  MaxEvents = 2
PROPERTIES
  LastAdministratorStays
