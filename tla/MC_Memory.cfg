SPECIFICATION Spec
CONSTANTS
  w1 = w1 w2 = w2 i1 = i1 i2 = i2 bad = bad yes = yes fix = fix powershell = powershell
  Plain = Plain NoRow = NoRow Nothing = Nothing
  Threads = {w1, w2}
  Incidents = {i1, i2}
  Techniques <- mcTechniques
  Words <- mcWords
  Reviews = {bad}
  Feedback = {yes}
  Annotations = {fix}
  Fails = {bad}
  Succeeds = {yes}
  Calls <- mcCalls
  Limit = 1
  MaxVersion = 2
  MaxFacts <- mcMaxFacts
  MaxRecommendations = 1
INVARIANTS NotesKept ShownWasConfirmed Provenance
PROPERTY PendingSettles
CHECK_DEADLOCK FALSE
