\* A setting and two threads; a token; two tabs; five rows; a form; two tickets over five days;
\* a history of three lines; two people.
SPECIFICATION FairSpec
CONSTANTS
  mode = mode
  k1 = k1
  s1 = s1
  s2 = s2
  t1 = t1
  t2 = t2
  desk = desk
  net = net
  alex = alex
  groupList = groupList
  minutes = minutes
  shadow = shadow
  p1 = p1
  p2 = p2
  n1 = n1
  n2 = n2
  Key = {mode}
  Choice = {"a", "b"}
  File <- MCFile
  Unset = unset
  Reader = {r1, r2}
  Loop = loop
  CacheTtl = 2
  MaxChanges = 3
  MaxFailures = 1
  Ttl = 6
  MaxTtl = 10
  RenewPercent = 50
  MinRenew = 1
  Retry = 1
  MaxTroubles = 3
  Kid = {k1, k2, k3}
  FirstKid = k1
  NoKid = noKid
  Tab = {s1, s2}
  NoTab = noTab
  JwksCache = 2
  StateMaxAge = 1
  Row = {1, 2, 3, 4, 5}
  PageSize = 2
  MaxOffset = 6
  MaxWrites = 1
  Specs <- MCSpecs
  Order <- MCOrder
  Input <- MCInput
  Written <- MCWritten
  Missing = missing
  NoOverride = noOverride
  Admin = {ann, bob}
  Closed = closed
  MaxActs = 3
  Ticket = {t1, t2}
  Queue = {desk, net, noQueue}
  Profile <- MCProfile
  Opening <- MCOpening
  WindowDays = 2
  RetainDays = 2
  LastDay = 3
  MaxEvents = 2
  Holder <- MCHolder
  Nobody = nobody
  Preset <- MCPreset
  DefaultRange = "3d"
  MaxRangeDays = 4
  NoDate = noDate
  NoQueue = noQueue
  Configured = {desk}
  Caller <- MCCaller
  AnyOf = anyOf
  Filter <- MCFilter
  Actor = {ann, bob}
  Field = {"state", "description", "comments", "sys"}
  Readable = {"state", "description", "comments"}
  Hidden = {"description"}
  Content = {a, b, empty}
  Empty = empty
  AtFirst = a
  Limit = 2
  MaxEntries = 3
  Person = {p1, p2}
  Name = {n1, n2, n3}
  NoName = noName
  FirstName <- MCFirstName
  Known = {p2}
  UsedBy <- MCUsedBy
  Tracked = {desk, net}
  SaneLimit = 2
  DefaultGroups = {net}
  RefreshScope = TRUE
  MaxAge = 2
  Floor = 1
  IdpLasts = {0, 2}
  Memberships <- MCMemberships
INVARIANTS
  ServicesAreSteady
  TrendsAreRight
  
  
PROPERTIES
  
  PublishedKeySignsIn
  FormSaves
  SignInsHold
CHECK_DEADLOCK FALSE
