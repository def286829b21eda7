SPECIFICATION Spec
CONSTANTS
  address = address h1 = h1 h2 = h2
  Handlers = {h1, h2}
  Iocs = {address}
  Type <- MCType
  Replies <- MCReplies
  Providers = {"AbuseIPDB"}
  Keys = {"AbuseIPDB"}
  Formats = {"json"}
  Alerts = 1 Severity = 3 Confidence = 80
  Idle = Idle NoFile = NoFile Gone = Gone
  MaxHour = 1 MaxEntries = 2 MaxEvidence = 1 MaxReports = 2
INVARIANTS VerdictIsEvidence ReportExplainsRisk RowHasFile LatestDescribesFile NoOrphans
PROPERTY QuotaSpared
CHECK_DEADLOCK FALSE
SYMMETRY Alike
