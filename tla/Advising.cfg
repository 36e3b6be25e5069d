\* Two jobs and the button; two builds of the index; two calls of the model; a lead and an article.
SPECIFICATION AllSpec
CONSTANTS
  h1 = h1
  h2 = h2
  hourly = hourly
  digest = digest
  button = button
  f1 = f1
  f2 = f2
  i1 = i1
  i2 = i2
  k1 = k1
  vpn = vpn
  lan = lan
  ink = ink
  t1 = t1
  t2 = t2
  sam = sam
  kim = kim
  word = word
  Unread = Unread
  Pass = {hourly, digest, button}
  ByHand = {button}
  Fact = {f1, f2}
  Overlapping = TRUE
  Retain = 0
  MaxDay = 1
  MaxEvents = 2
  Incident = {i1, i2}
  Article = {k1}
  Text = {vpn, lan, ink}
  Category <- MCCategory
  Near <- MCNear
  MinSimilarity = 2
  TopK = 2
  Process = {"service", "cli"}
  Adviser = {"service"}
  BatchSize = 2
  AtFirst <- MCAtFirst
  MaxBuilds = 2
  Ticket = {t1, t2}
  Section <- MCSection
  Content <- MCContent
  Pattern <- MCPattern
  Group = {"net"}
  Reply <- MCAnswer
  NoTarget = noTarget
  MaxRetries = 2
  MinConfidence = 55
  Input = {h1, h2}
  NoInput = noInput
  Lead = {ann}
  Unseen = unseen
  Given = {"DONE"}
  Ratings = {"RELEVANT"}
  MaxReportDay = 2
  MaxAnswers = 3
  MaxVerdicts = 1
CONSTRAINT
  FirstIsFirst
INVARIANTS
  IInv
  OneAnalysisLive
  AdviceIsClean
PROPERTIES
  StoredIsShown
  AnswersSettle
  EvidenceIsSound
  VerdictsCount
CHECK_DEADLOCK FALSE
