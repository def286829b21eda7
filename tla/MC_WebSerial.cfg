SPECIFICATION Spec
CONSTANTS
  t1 = t1 t2 = t2 l1 = l1 l2 = l2 r1 = r1 r2 = r2 r3 = r3 r4 = r4
  src = src www = www login = login page = page ann = ann bob = bob
  NoUser = NoUser NoSession = NoSession NoAttack = NoAttack NoAlert = NoAlert
  NoRow = NoRow NoRequest = NoRequest
  Slugs <- mcSlugs
  Severity <- mcSeverity
  Confidence <- mcConfidence
  AuthPaths = {login}
  StateChanging = {"POST"}
  BRUTE_FORCE = 3 SPRAYING = 2 STUFFING = 2 HIJACKING = 2 RATE_BYPASS = 4 RACE = 4
  LIKELY = 2 CONFIRMED = 3 KEEP = 1
  Requests = {r1, r2, r3, r4}
  Payload <- mcSerial
  Tasks = {t1}
  Loops = {l1}
  LoopOf <- mcOneLoop
  Verdicts = {"FALSE_POSITIVE"}
  Triage = {"RESOLVED"}
  Demo = {}
  DemoMode = FALSE
  Replays = {}
INVARIANTS CountMatchesTimeline AnsweredIsCounted BruteForceNoticed SeverityCarriesOver WebRiskUpToDate
PROPERTY SurenessNeverDrops
