\* Two incidents, two accounts, two queues; three things go wrong or change.
SPECIFICATION FairSpec
CONSTANTS
  ann = ann
  bob = bob
  desk = desk
  network = network
  late = late
  NoMail = noMail
  NoQueue = noQueue
  t1 = t1
  t2 = t2
  Ticket = {t1, t2}
  Start <- MCStart
  Queue = {desk, network}
  User = {ann, bob}
  Flag = {late}
  Alertable = {late}
  Profiles <- MCProfiles
  Names <- MCNames
  MaxEvents = 3
INVARIANTS
  OnceADay
PROPERTIES
  MailedMaySee
  LossIsForADay
