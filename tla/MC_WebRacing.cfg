SPECIFICATION Spec
CONSTANTS
  t1 = t1 t2 = t2 l1 = l1 l2 = l2 r1 = r1 r2 = r2 r3 = r3 r4 = r4
  src = src www = www login = login page = page ann = ann bob = bob
  NoUser = NoUser NoSession = NoSession NoAttack = NoAttack NoAlert = NoAlert
  NoRow = NoRow NoRequest = NoRequest
  Slugs <- mcSlugs
  Severity <- mcSeverity
  Confidence <- mcConfidence
  AuthPaths = {login}
  StateChanging = {"POST"}
  BRUTE_FORCE = 9 SPRAYING = 2 STUFFING = 2 HIJACKING = 2 RATE_BYPASS = 9 RACE = 9
  LIKELY = 2 CONFIRMED = 3 KEEP = 1
  Requests = {r1, r2, r3}
  Payload <- mcRacing
  Tasks = {t1, t2}
  Loops = {l1, l2}
  LoopOf <- mcTwoLoops
  Verdicts = {}
  Triage = {}
  Demo = {r1, r2}
  DemoMode = TRUE
  Replays <- mcReplays
INVARIANTS TypeOK CreatedTogether RelatedMatchesCount
