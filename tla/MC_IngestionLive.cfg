SPECIFICATION FairSpec
CONSTANTS
  t1 = t1 t2 = t2 th = th l1 = l1 l2 = l2 e1 = e1 e2 = e2 e3 = e3 d1 = d1 d2 = d2
  low = low high = high k1 = k1 k2 = k2 ip = ip url = url
  NoAlert = NoAlert Unlinked = Unlinked NoRow = NoRow Null = Null
  Rules = {low, high}
  Severity <- mcSeverity
  Confidence <- mcConfidence
  Matches <- mcMatchesWritten
  Undecided = {}
  Table <- mcTable
  Content <- mcContent
  Values = {ip, url}
  EventIocs <- mcOneIoc
  Loops = {l1, l2}
  Tasks = {t1}
  LoopOf <- mcOneTask
  Threads = {th}
  Events = {e1, e2}
  DemoEvents = {d1, d2}
  Keys = {k1, k2}
  Key <- mcKeyPerRule
  DemoMode = TRUE
INVARIANT RepliesNameIncidents
PROPERTY StoredIsCorrelated
