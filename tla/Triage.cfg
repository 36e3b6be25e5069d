\* An incident over four days and two passes.
SPECIFICATION Spec
CONSTANTS
  caller = caller
  alex = alex
  monitor = monitor
  Caller = caller
  SystemAccounts = {monitor}
  Nobody = nobody
  Agent = alex
  Lines <- MCLines
  Thresholds <- MCThresholds
  Targets <- MCTargets
  Definitions <- MCDefinitions
  Holds = {"", "caller", "problem"}
  Links <- MCLinks
  Forms <- MCForms
  KbStates = {"unlinked"}
  MaxDay = 3
  MaxPasses = 2
  MaxEvents = 3
INVARIANTS
  TriageIsSound
PROPERTIES
  WaitingOnlyWorsens
  WorkCounts
CHECK_DEADLOCK FALSE
