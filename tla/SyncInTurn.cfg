\* One run at a time: what a full sync leaves behind.
SPECIFICATION Spec
CONSTANTS
  t1 = t1
  t2 = t2
  stream = stream
  hourly = hourly
  NoMark = NoMark
  Ticket = {t1, t2}
  Run = {stream, hourly}
  FullRuns = {hourly}
  Overlap = 1
  AgedAfter = 0
  Window = 1
  Skew = 0
  Ceiling = 1
  Overlapping = FALSE
  WebhookOn = FALSE
  Places = {"ours", "resolved", "moved", "deleted"}
  MaxTime = 2
  MaxVersion = 3
  MaxFailures = 1
SYMMETRY Tickets
INVARIANTS
  RetiredRowSaysWhere
PROPERTIES
  FullSyncSettles
  
