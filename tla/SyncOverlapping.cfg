\* Runs overlapping each other and the webhook, with errors, restarts and a skewed clock.
SPECIFICATION FairSpec
CONSTANTS
  t1 = t1
  t2 = t2
  stream = stream
  hourly = hourly
  NoMark = NoMark
  Ticket = {t1}
  Run = {stream, hourly}
  FullRuns = {hourly}
  Overlap = 2
  AgedAfter = 1
  Window = 2
  Skew = 1
  Ceiling = 2
  Overlapping = TRUE
  WebhookOn = TRUE
  Places = {"ours", "resolved", "moved", "deleted"}
  MaxTime = 2
  MaxVersion = 2
  MaxFailures = 1
INVARIANTS
  IInv
  NothingSkipped
PROPERTIES
  BoardConverges
