SPECIFICATION Spec
CONSTANTS
  admin1 = admin1 admin2 = admin2 analyst = analyst
  i1 = i1 host = host pid = pid k1 = k1 k2 = k2 safe = safe off = off
  NoPolicy = NoPolicy NoRow = NoRow
  Users <- mcUsers
  Role <- mcRole
  ActionTypes <- mcTypes
  Targets = {host, pid}
  Policies = {safe, off}
  PolicyTable <- mcPolicies
  DefaultPolicy = safe
  DemoTarget = host
  DryRun = TRUE
  Keys = {k1, k2}
  ApiKeys = {k1, k2}
  DemoRuns = {}
  CollectKey <- mcNoDemo
  IsolateKey <- mcNoDemo
  Loops = {l1}
  Threads = {t1}
  Incidents = {i1}
  Requests <- mcRequests
  ValidTargets <- mcValid1
  RiskLevels = {1, 2}
  PatchStatuses = {"CLOSED", "CONTAINED"}
INVARIANT TypeOK
PROPERTY ImplementsLedger
