--------------------------- MODULE Casework_proofs ---------------------------
(***************************************************************************)
(* Proofs about Casework, for any numbers of handlers, indicators and      *)
(* formats, any providers and replies, and any bounds: a report in the     *)
(* table has its file, the newest of a format describes it, a report shows *)
(* no risk that its indicators do not bear out, a reset leaves no report   *)
(* and no evidence, a verdict says what the providers have told, and no    *)
(* provider is asked again within the hour for what has not been lost.     *)
(***************************************************************************)
EXTENDS Casework, FiniteSetTheorems, SequenceTheorems, WellFoundedInduction, NaturalsInduction,
        TLAPS

Kinds == TypeOK /\ \E S : reports \in Seq(S)

\* What a handler that makes a report holds is of a format, and no absence of a file; one that
\* enriches holds an indicator.
Holds(h) ==
    /\ (task[h] # Idle /\ task[h].op = "export") =>
        /\ task[h].format \in Formats
        /\ task[h].phase = "row" => task[h].risk \in Assessed
        /\ task[h].phase \in {"rendered", "written"} => task[h] \in Made
    /\ (task[h] # Idle /\ task[h].op = "enrich") => task[h].ioc \in Iocs

\* A handler between file and row has its file as long as the incident is there; one that
\* is to remove files has removed the incident.
Ahead(h) ==
    /\ Doing(h, "export", "written") => incident = Gone \/ file[FileOf(task[h].format)] # NoFile
    /\ Doing(h, "reset", "erased") => incident = Gone

CaseInv ==
    /\ Kinds
    /\ \A h \in Handlers : Holds(h) /\ Ahead(h)
    /\ RowHasFile
    /\ NoOrphans

-----------------------------------------------------------------------------
(* The operators. *)

\* A risk that is written back is a risk.
LEMMA RescoredIsAssessed ==
    ASSUME NEW held \in Assessed, NEW S \in SUBSET Iocs
    PROVE  Rescored(held, S) \in Assessed
<1>1. Cardinality(S) \in Nat
  BY CaseAssumption, FS_Subset, FS_CardinalityType
<1> DEFINE score == RiskScore(Severity, Confidence, Alerts, Cardinality(S))
<1>2. score \in 0..10000
  <2>1. SEVERITY_SCORE[Severity + 1] \in 0..90
    <3>1. Severity \in {0, 1, 2, 3, 4}
      BY CaseAssumption
    <3> QED BY <3>1 DEF SEVERITY_SCORE
  <2> DEFINE alerts == AtMost(1000, (Alerts - 1) * 300)
             malicious == AtMost(2000, Cardinality(S) * 1000)
  <2>2. CASE Alerts = 0
    BY <2>2 DEF RiskScore
  <2>3. CASE Alerts # 0
    <3>1. alerts \in Nat /\ malicious \in Nat
      BY <1>1, <2>3, CaseAssumption DEF AtMost
    <3> HIDE DEF alerts, malicious
    <3> DEFINE sum == SEVERITY_SCORE[Severity + 1] * 55 + Confidence * 25 + alerts + malicious
    <3>2. sum \in Nat
      BY <2>1, <3>1, CaseAssumption
    <3>3. score = AtMost(10000, sum)
      BY <2>3 DEF RiskScore, alerts, malicious
    <3> HIDE DEF sum
    <3> QED BY <3>2, <3>3 DEF AtMost
  <2> QED BY <2>2, <2>3
<1>3. Rescored(held, S) = Assess(held, held, score)
  BY DEF Rescored
<1> HIDE DEF score
<1>4. Level(score) \in 1..4
  BY DEF Level
<1> DEFINE newScore == Flush(held.score, score, held.score)
           newLevel == Flush(held.level, Level(score), held.level)
<1>5. newScore \in 0..10000 /\ newLevel \in 1..4
  BY <1>2, <1>4 DEF Flush, Assessed
<1>6. Rescored(held, S) = [held EXCEPT !.score = newScore, !.level = newLevel]
  BY <1>3 DEF Assess
<1> HIDE DEF newScore, newLevel
<1>7. held = [score |-> held.score, level |-> held.level]
  BY DEF Assessed
<1>8. Rescored(held, S) = [score |-> newScore, level |-> newLevel]
  BY <1>6, <1>7
<1> QED BY <1>5, <1>8 DEF Assessed

\* A report shows something.
LEMMA ContentIsShown ==
    ASSUME NEW f \in Formats, NEW risk \in Assessed, NEW S \in SUBSET Iocs, evidence \in Nat
    PROVE  Content(f, risk, S) \in Shown
BY CaseAssumption DEF Content, Shown

-----------------------------------------------------------------------------
(* The invariant. *)

LEMMA CaseInit == Init => CaseInv
<1> SUFFICES ASSUME Init PROVE CaseInv
  OBVIOUS
<1>1. incident \in Assessed
  <2>1. [score |-> 0, level |-> 1] \in Assessed
    BY DEF Assessed
  <2> QED BY <2>1, RescoredIsAssessed DEF Init
<1>2. reports = <<>> /\ evidence = 0
  BY DEF Init
<1>3. reports \in Seq({}) /\ DOMAIN reports = {}
  BY <1>2
<1>4. Kinds
  BY <1>1, <1>2, <1>3 DEF Kinds, TypeOK, Init
<1>5. \A h \in Handlers : Holds(h) /\ Ahead(h)
  BY DEF Init, Holds, Ahead, Doing
<1> QED BY <1>2, <1>3, <1>4, <1>5 DEF CaseInv, RowHasFile, NoOrphans

\* A step that leaves rows and files alone, and at which no handler comes to hold anything
\* but what it may, keeps the invariant.
LEMMA SameRows ==
    ASSUME CaseInv, UNCHANGED <<incident, evidence, reports, file>>,
           DOMAIN task' = Handlers,
           \A h \in Handlers : task'[h] = task[h] \/ (Holds(h)' /\ Ahead(h)')
    PROVE  CaseInv'
<1>1. Kinds' /\ RowHasFile' /\ NoOrphans'
  BY DEF CaseInv, Kinds, TypeOK, RowHasFile, NoOrphans, FileOf
<1>2. ASSUME NEW h \in Handlers PROVE Holds(h)' /\ Ahead(h)'
  BY <1>2 DEF CaseInv, Holds, Ahead, Doing, FileOf
<1> QED BY <1>1, <1>2 DEF CaseInv

\* The same where the risk of an incident that is there is written.
LEMMA NewRisk ==
    ASSUME CaseInv, incident # Gone, incident' \in Assessed,
           UNCHANGED <<evidence, reports, file>>,
           DOMAIN task' = Handlers,
           \A h \in Handlers : task'[h] = task[h] \/ (Holds(h)' /\ Ahead(h)')
    PROVE  CaseInv'
<1>1. incident' # Gone
  BY CaseAssumption
<1>2. Kinds' /\ RowHasFile' /\ NoOrphans'
  BY <1>1 DEF CaseInv, Kinds, TypeOK, RowHasFile, NoOrphans, FileOf
<1>3. ASSUME NEW h \in Handlers PROVE Holds(h)' /\ Ahead(h)'
  BY <1>3 DEF CaseInv, Holds, Ahead, Doing, FileOf
<1> QED BY <1>2, <1>3 DEF CaseInv

-----------------------------------------------------------------------------
(* The steps. *)

\* A handler that has been told goes on to the risk.
LEMMA MergeGoesOn ==
    ASSUME DOMAIN task = Handlers, NEW h \in Handlers, Merge(h)
    PROVE  /\ \A g \in Handlers \ {h} : task'[g] = task[g]
           /\ task'[h] # Idle => task'[h].op = "enrich"
<1>1. \E i, v : Proceed(h, [op |-> "enrich", phase |-> "scoring", ioc |-> i, verdict |-> v])
  BY DEF Merge
<1> QED BY <1>1 DEF Proceed

LEMMA EnrichKeeps ==
    ASSUME CaseInv, NEW h \in Handlers,
           (\E i \in Iocs, names \in SUBSET Providers : Ask(h, i, names)) \/ Merge(h) \/ Rescore(h)
    PROVE  CaseInv'
<1>1. CASE \E i \in Iocs, names \in SUBSET Providers : Ask(h, i, names)
  <2>1. UNCHANGED <<incident, evidence, reports, file>> /\ DOMAIN task' = Handlers
    BY <1>1 DEF Ask, Proceed, rows, CaseInv, Kinds, TypeOK
  <2>2. \A g \in Handlers : task'[g] = task[g] \/ (Holds(g)' /\ Ahead(g)')
    BY <1>1 DEF Ask, Proceed, CaseInv, Kinds, TypeOK, Holds, Ahead, Doing
  <2> QED BY <2>1, <2>2, SameRows
<1>2. CASE Merge(h)
  <2>1. /\ UNCHANGED <<incident, evidence, reports, file>>
        /\ \E i \in Iocs : \E v :
              Proceed(h, [op |-> "enrich", phase |-> "scoring", ioc |-> i, verdict |-> v])
    BY <1>2 DEF Merge, CaseInv, Holds
  <2>2. DOMAIN task' = Handlers
    BY <2>1 DEF Proceed, CaseInv, Kinds, TypeOK
  <2>3. \A g \in Handlers : task'[g] = task[g] \/ (Holds(g)' /\ Ahead(g)')
    BY <2>1 DEF Proceed, CaseInv, Kinds, TypeOK, Holds, Ahead, Doing
  <2> QED BY <2>1, <2>2, <2>3, SameRows
<1>3. CASE Rescore(h)
  <2>1. /\ incident # Gone /\ incident' = Rescored(incident, MaliciousFor(task[h]))
        /\ UNCHANGED <<evidence, reports, file>> /\ Done(h)
    BY <1>3 DEF Rescore
  <2>2. incident' \in Assessed
    <3>1. incident \in Assessed /\ MaliciousFor(task[h]) \in SUBSET Iocs
      BY <1>3, <2>1 DEF Rescore, Doing, CaseInv, Kinds, TypeOK, Holds, Malicious, MaliciousFor
    <3> QED BY <2>1, <3>1, RescoredIsAssessed
  <2>3. DOMAIN task' = Handlers
    BY <2>1 DEF Done, Proceed, CaseInv, Kinds, TypeOK
  <2>4. \A g \in Handlers : task'[g] = task[g] \/ (Holds(g)' /\ Ahead(g)')
    BY <2>1 DEF Done, Proceed, CaseInv, Kinds, TypeOK, Holds, Ahead, Doing
  <2> QED BY <2>1, <2>2, <2>3, <2>4, NewRisk
<1> QED BY <1>1, <1>2, <1>3

LEMMA CollectKeeps ==
    ASSUME CaseInv, NEW h \in Handlers, Collect(h) \/ Collected(h)
    PROVE  CaseInv'
<1>1. CASE Collect(h)
  <2>1. UNCHANGED <<incident, evidence, reports, file>> /\ DOMAIN task' = Handlers
    BY <1>1 DEF Collect, Proceed, rows, CaseInv, Kinds, TypeOK
  <2>2. \A g \in Handlers : task'[g] = task[g] \/ (Holds(g)' /\ Ahead(g)')
    BY <1>1 DEF Collect, Proceed, CaseInv, Kinds, TypeOK, Holds, Ahead, Doing
  <2> QED BY <2>1, <2>2, SameRows
<1>2. CASE Collected(h)
  <2>1. /\ incident # Gone /\ evidence' = evidence + 1
        /\ UNCHANGED <<incident, reports, file>> /\ Done(h)
    BY <1>2 DEF Collected
  <2>2. Kinds' /\ RowHasFile' /\ NoOrphans'
    BY <2>1 DEF Done, Proceed, CaseInv, Kinds, TypeOK, RowHasFile, NoOrphans, FileOf
  <2>3. ASSUME NEW g \in Handlers PROVE Holds(g)' /\ Ahead(g)'
    BY <2>1, <2>3 DEF Done, Proceed, CaseInv, Kinds, TypeOK, Holds, Ahead, Doing, FileOf
  <2> QED BY <2>2, <2>3 DEF CaseInv
<1> QED BY <1>1, <1>2

LEMMA ReportKeeps ==
    ASSUME CaseInv, NEW h \in Handlers,
           (\E f \in Formats : Export(h, f)) \/ Render(h) \/ Write(h) \/ Record(h)
    PROVE  CaseInv'
<1>1. CASE \E f \in Formats : Export(h, f)
  <2>1. /\ UNCHANGED <<incident, evidence, reports, file>> /\ DOMAIN task' = Handlers
        /\ incident \in Assessed
    BY <1>1 DEF Export, Proceed, rows, CaseInv, Kinds, TypeOK
  <2>2. \A g \in Handlers : task'[g] = task[g] \/ (Holds(g)' /\ Ahead(g)')
    BY <1>1, <2>1 DEF Export, Proceed, CaseInv, Kinds, TypeOK, Holds, Ahead, Doing
  <2> QED BY <2>1, <2>2, SameRows
<1>2. CASE Render(h)
  <2> DEFINE shown == Content(task[h].format, task[h].risk, Listed)
  <2>1. /\ UNCHANGED <<incident, evidence, reports, file>>
        /\ task' = [task EXCEPT ![h] = [op |-> "export", phase |-> "rendered",
                                        format |-> task[h].format, content |-> shown]]
        /\ task[h].format \in Formats /\ task[h].risk \in Assessed
    BY <1>2 DEF Render, Proceed, Doing, rows, CaseInv, Holds
  <2>2. shown \in Shown
    <3>1. Listed \in SUBSET Iocs
      BY DEF Listed, Malicious
    <3> QED BY <2>1, <3>1, ContentIsShown DEF CaseInv, Kinds, TypeOK
  <2> HIDE DEF shown
  <2>3. DOMAIN task' = Handlers
    BY <2>1 DEF CaseInv, Kinds, TypeOK
  <2>4. \A g \in Handlers : task'[g] = task[g] \/ (Holds(g)' /\ Ahead(g)')
    BY <2>1, <2>2 DEF CaseInv, Kinds, TypeOK, Holds, Ahead, Doing, Made
  <2> QED BY <2>1, <2>3, <2>4, SameRows
<1>3. CASE Write(h)
  <2>1. /\ UNCHANGED <<incident, evidence, reports>>
        /\ file' = [file EXCEPT ![task[h].format] = task[h].content]
        /\ task' = [task EXCEPT ![h] = [task[h] EXCEPT !.phase = "written"]]
        /\ task[h].format \in Formats /\ task[h].content \in Shown /\ task[h] \in Made
        /\ task[h].op = "export" /\ task[h].phase = "rendered"
    BY <1>3 DEF Write, Proceed, Doing, rows, FileOf, CaseInv, Holds, Made
  <2>2. file'[task[h].format] # NoFile
        /\ \A f \in Formats : file'[f] # NoFile \/ file'[f] = file[f]
    BY <2>1, CaseAssumption DEF CaseInv, Kinds, TypeOK
  <2>3. Kinds' /\ NoOrphans'
    BY <2>1 DEF CaseInv, Kinds, TypeOK, NoOrphans
  <2>4. RowHasFile'
    BY <2>1, <2>2 DEF CaseInv, Kinds, TypeOK, RowHasFile, FileOf
  <2>5. ASSUME NEW g \in Handlers PROVE Holds(g)' /\ Ahead(g)'
    <3>0. [task[h] EXCEPT !.phase = "written"] \in Made
      BY <2>1 DEF Made
    <3>1. CASE g = h
      BY <2>1, <2>2, <3>0, <3>1 DEF CaseInv, Kinds, TypeOK, Holds, Ahead, Doing, FileOf
    <3>2. CASE g # h
      BY <2>1, <2>2, <3>2 DEF CaseInv, Kinds, TypeOK, Holds, Ahead, Doing, FileOf
    <3> QED BY <3>1, <3>2
  <2> QED BY <2>3, <2>4, <2>5 DEF CaseInv
<1>4. CASE Record(h)
  <2> DEFINE new == [format |-> task[h].format, content |-> task[h].content]
  <2>1. /\ incident # Gone /\ UNCHANGED <<incident, evidence, file>>
        /\ reports' = Append(reports, new) /\ Done(h)
        /\ task[h].format \in Formats /\ file[task[h].format] # NoFile
    BY <1>4 DEF Record, Row, Doing, FileOf, CaseInv, Holds, Ahead
  <2>2. PICK S : reports \in Seq(S)
    BY DEF CaseInv, Kinds, TypeOK
  <2>3. /\ reports' \in Seq(S \cup {new}) /\ DOMAIN reports' = 1..(Len(reports) + 1)
        /\ \A k \in 1..Len(reports) : reports'[k] = reports[k]
        /\ reports'[Len(reports) + 1] = new
        /\ DOMAIN reports = 1..Len(reports) /\ Len(reports) \in Nat
    BY <2>1, <2>2, AppendProperties
  <2>4. \A k \in DOMAIN reports' : reports'[k].format \in Formats /\ file[reports'[k].format] # NoFile
    BY <2>1, <2>3 DEF CaseInv, Kinds, TypeOK, RowHasFile, FileOf
  <2>5. Kinds'
    BY <2>1, <2>3, <2>4 DEF Done, Proceed, CaseInv, Kinds, TypeOK
  <2>6. RowHasFile' /\ NoOrphans'
    BY <2>1, <2>4 DEF RowHasFile, NoOrphans, FileOf
  <2>7. ASSUME NEW g \in Handlers PROVE Holds(g)' /\ Ahead(g)'
    BY <2>1, <2>7 DEF Done, Proceed, CaseInv, Kinds, TypeOK, Holds, Ahead, Doing, FileOf
  <2> QED BY <2>5, <2>6, <2>7 DEF CaseInv
<1> QED BY <1>1, <1>2, <1>3, <1>4

LEMMA ResetKeeps ==
    ASSUME CaseInv, NEW h \in Handlers, Reset(h) \/ Delete(h) \/ Erase(h) \/ Unlink(h)
    PROVE  CaseInv'
<1>1. CASE Reset(h)
  <2>1. UNCHANGED <<incident, evidence, reports, file>> /\ DOMAIN task' = Handlers
    BY <1>1 DEF Reset, Proceed, rows, CaseInv, Kinds, TypeOK
  <2>2. \A g \in Handlers : task'[g] = task[g] \/ (Holds(g)' /\ Ahead(g)')
    BY <1>1 DEF Reset, Proceed, CaseInv, Kinds, TypeOK, Holds, Ahead, Doing
  <2> QED BY <2>1, <2>2, SameRows
<1>2. CASE Delete(h)
  <2>1. UNCHANGED <<incident, evidence, reports, file>> /\ DOMAIN task' = Handlers
    BY <1>2 DEF Delete, Proceed, rows, CaseInv, Kinds, TypeOK
  <2>2. \A g \in Handlers : task'[g] = task[g] \/ (Holds(g)' /\ Ahead(g)')
    BY <1>2 DEF Delete, Proceed, CaseInv, Kinds, TypeOK, Holds, Ahead, Doing
  <2> QED BY <2>1, <2>2, SameRows
<1>3. CASE Erase(h)
  <2>1. /\ incident' = Gone /\ UNCHANGED file
        /\ task[h].found = <<Len(reports), evidence>>
        /\ reports' = SubSeq(reports, task[h].found[1] + 1, Len(reports))
        /\ evidence' = evidence - task[h].found[2]
        /\ task' = [task EXCEPT ![h] = [op |-> "reset", phase |-> "erased", names |-> task[h].names]]
    BY <1>3 DEF Erase, Leftover, Proceed
  <2>2. reports' = <<>> /\ evidence' = 0
    <3>1. Len(reports) \in Nat /\ evidence \in Nat
      BY LenProperties DEF CaseInv, Kinds, TypeOK
    <3>2. SubSeq(reports, Len(reports) + 1, Len(reports)) = <<>>
      BY <3>1, SubSeqEmpty
    <3> QED BY <2>1, <3>1, <3>2
  <2>3. reports' \in Seq({}) /\ DOMAIN reports' = {}
    BY <2>2
  <2>4. Kinds' /\ RowHasFile' /\ NoOrphans'
    BY <2>1, <2>2, <2>3 DEF CaseInv, Kinds, TypeOK, RowHasFile, NoOrphans
  <2>5. ASSUME NEW g \in Handlers PROVE Holds(g)' /\ Ahead(g)'
    BY <2>1, <2>5 DEF CaseInv, Kinds, TypeOK, Holds, Ahead, Doing
  <2> QED BY <2>4, <2>5 DEF CaseInv
<1>4. CASE Unlink(h)
  <2>1. /\ incident = Gone /\ UNCHANGED <<incident, evidence, reports>>
        /\ DOMAIN file' = Formats /\ Done(h)
    BY <1>4 DEF Unlink, rows, CaseInv, Ahead
  <2>2. reports = <<>>
    BY <2>1 DEF CaseInv, NoOrphans
  <2>3. Kinds' /\ RowHasFile' /\ NoOrphans'
    BY <2>1, <2>2 DEF Done, Proceed, CaseInv, Kinds, TypeOK, RowHasFile, NoOrphans
  <2>4. ASSUME NEW g \in Handlers PROVE Holds(g)' /\ Ahead(g)'
    BY <2>1, <2>4 DEF Done, Proceed, CaseInv, Kinds, TypeOK, Holds, Ahead, Doing
  <2> QED BY <2>3, <2>4 DEF CaseInv
<1> QED BY <1>1, <1>2, <1>3, <1>4

LEMMA CaseNext == CaseInv /\ [Next]_vars => CaseInv'
<1> SUFFICES ASSUME CaseInv, [Next]_vars PROVE CaseInv'
  OBVIOUS
<1>1. CASE Tick
  BY <1>1, SameRows DEF Tick, rows, CaseInv, Kinds, TypeOK
<1>2. CASE UNCHANGED vars
  BY <1>2, SameRows DEF vars, rows, CaseInv, Kinds, TypeOK
<1>3. ASSUME NEW h \in Handlers, Step(h) PROVE CaseInv'
  <2>1. CASE Abort(h)
    <3>1. UNCHANGED <<incident, evidence, reports, file>> /\ DOMAIN task' = Handlers
      BY <2>1 DEF Abort, Done, Proceed, rows, CaseInv, Kinds, TypeOK
    <3>2. \A g \in Handlers : task'[g] = task[g] \/ (Holds(g)' /\ Ahead(g)')
      BY <2>1 DEF Abort, Done, Proceed, CaseInv, Kinds, TypeOK, Holds, Ahead, Doing
    <3> QED BY <3>1, <3>2, SameRows
  <2> QED BY <1>3, <2>1, EnrichKeeps, CollectKeeps, ReportKeeps, ResetKeeps DEF Step
<1> QED BY <1>1, <1>2, <1>3 DEF Next

-----------------------------------------------------------------------------
LEMMA CaseInvariant == Spec => []CaseInv
BY CaseInit, CaseNext, PTL DEF Spec

\* Risk, evidence, reports and handlers keep their types (models.py).
THEOREM CaseworkTypes == Spec => []TypeOK
<1>1. CaseInv => TypeOK
  BY DEF CaseInv, Kinds
<1> QED BY <1>1, CaseInvariant, PTL

\* A row of the table of reports names a file that exists, whatever reports, resets and
\* failures overlap (reporting.py:222-231, routes.py:1161-1194).
THEOREM CaseworkRowHasFile == Spec => []RowHasFile
<1>1. CaseInv => RowHasFile
  BY DEF CaseInv
<1> QED BY <1>1, CaseInvariant, PTL

\* No evidence and no report outlives its incident, also of those that come while a reset
\* runs (routes.py:1161-1186).
THEOREM CaseworkNoOrphans == Spec => []NoOrphans
<1>1. CaseInv => NoOrphans
  BY DEF CaseInv
<1> QED BY <1>1, CaseInvariant, PTL

-----------------------------------------------------------------------------
(* Verdicts. *)

\* What has been kept of an indicator accuses it only if a provider has.
Grounded(i, r) ==
    /\ r.verdict \in {"UNKNOWN", "MALICIOUS"}
    /\ r.verdict = "MALICIOUS" => i \in accused
    /\ \E S : r.enrichment \in Seq(S)
    /\ \A k \in DOMAIN r.enrichment : r.enrichment[k].result.verdict = "MALICIOUS" => i \in accused

\* The same of what a handler holds while it asks the providers.
Asked(h) ==
    Doing(h, "enrich", "asking") => LET w == task[h] IN
        /\ w.ioc \in Iocs /\ w.ask \subseteq Providers
        /\ Grounded(w.ioc, w.held)
        /\ \A p \in DOMAIN w.cached : w.cached[p].verdict = "MALICIOUS" => w.ioc \in accused

Enriching(h) == Doing(h, "enrich", "asking") \/ Doing(h, "enrich", "scoring")

\* And of the verdict it holds when it rescores.
Scoring(h) ==
    Doing(h, "enrich", "scoring") => LET w == task[h] IN
        w.ioc \in Iocs /\ (w.verdict = "MALICIOUS" => w.ioc \in accused)

VerdictInv ==
    /\ DOMAIN ioc = Iocs /\ DOMAIN task = Handlers
    /\ incident # Gone =>
        /\ \A i \in Iocs : Grounded(i, ioc[i]) /\ (i \in accused => ioc[i].verdict = "MALICIOUS")
        /\ \A h \in Handlers : Asked(h) /\ Scoring(h)

\* A result says MALICIOUS if and only if the reply holds evidence.
LEMMA EnrichIncriminates ==
    ASSUME NEW p \in Provider, NEW i \in Iocs, NEW first \in Reply, NEW second \in Reply
    PROVE  Enrich(p, Type[i], p \in Keys, first, second).verdict = "MALICIOUS"
             <=> Incriminating(p, i, Request(first, second))
<1> DEFINE reply == Request(first, second)
<1>1. reply \in Reply
  BY DEF Request
<1> HIDE DEF reply
<1>2. Parse(p, reply).verdict = "MALICIOUS"
        <=> reply.kind = "score" /\ reply.score >= IF p = "AbuseIPDB" THEN 75 ELSE 1
  <2>1. CASE reply.kind = "score"
    <3>1. Parse(p, reply) = Scored(p, reply.score) /\ reply.score \in 0..100
      BY <1>1, <2>1 DEF Parse, Reply, Failures
    <3>2. p \in {"ThreatFox", "URLhaus", "AbuseIPDB", "MalwareBazaar", "VirusTotal"}
      BY DEF Provider
    <3> QED BY <2>1, <3>1, <3>2 DEF Scored, Result, Without
  <2>2. CASE reply.kind # "score"
    <3>1. Odd(p, reply.kind).verdict # "MALICIOUS"
      BY DEF Odd, Scored, Result, Without, Raised, Provider
    <3> QED BY <2>2, <3>1 DEF Parse, Result, Without
  <2> QED BY <2>1, <2>2
<1>3. Enrich(p, Type[i], p \in Keys, first, second) =
        IF Type[i] \notin Supported(p) THEN Without("UNSUPPORTED")
        ELSE IF p \notin Keys THEN Without("NOT_CONFIGURED") ELSE Parse(p, reply)
  BY DEF Enrich, reply
<1>4. Without("UNSUPPORTED").verdict = "UNKNOWN" /\ Without("NOT_CONFIGURED").verdict = "UNKNOWN"
  BY DEF Without, Result
<1> QED BY <1>2, <1>3, <1>4 DEF Incriminating, reply

\* A set of places in a list has a last one.
LEMMA LastPlace ==
    ASSUME NEW n \in Nat, NEW T \in SUBSET (1..n), T # {}
    PROVE  \E k \in T : \A j \in T : j <= k
<1> DEFINE Back == {n - k : k \in T}
<1>1. Back \subseteq Nat /\ Back # {}
  OBVIOUS
<1> HIDE DEF Back
<1>2. IsWellFoundedOn(OpToRel(<, Nat), Nat)
  BY NatLessThanWellFounded
<1>3. PICK x \in Back : \A y \in Back : ~ (<<y, x>> \in OpToRel(<, Nat))
  BY <1>1, <1>2, WFMin
<1>4. ASSUME NEW y \in Back PROVE x <= y
  <2>1. x \in Nat /\ y \in Nat
    BY <1>1
  <2>2. ~ (y < x)
    <3>1. SUFFICES ASSUME y < x PROVE <<y, x>> \in OpToRel(<, Nat)
      BY <1>3
    <3> QED BY <2>1, <3>1 DEF OpToRel
  <2> QED BY <2>1, <2>2
<1>5. PICK k \in T : x = n - k
  BY DEF Back
<1>6. ASSUME NEW j \in T PROVE j <= k
  <2>1. n - j \in Back
    BY DEF Back
  <2>2. n - k <= n - j
    BY <1>4, <1>5, <2>1
  <2> QED BY <2>2
<1> QED BY <1>6

\* The cache holds results of the list.
LEMMA CachedIsListed ==
    ASSUME NEW S, NEW list \in Seq(S), NEW names, NEW p \in DOMAIN Cached(list, names)
    PROVE  \E k \in DOMAIN list : Cached(list, names)[p] = list[k].result
<1> DEFINE T == Usable(list, p)
           last == CHOOSE k \in T : \A j \in T : j <= k
<1>1. T \in SUBSET (1..Len(list)) /\ Len(list) \in Nat /\ T # {}
  BY LenProperties DEF Usable, Cached
<1> HIDE DEF T
<1>2. last \in T
  BY <1>1, LastPlace
<1>3. Cached(list, names)[p] = list[last].result
  BY DEF Cached, T
<1>4. last \in DOMAIN list
  BY <1>2 DEF T, Usable
<1> QED BY <1>3, <1>4

\* The merged list is one, and what is new in it are the new results.
LEMMA MergedIsList ==
    ASSUME NEW S, NEW list \in Seq(S), NEW new, IsFiniteSet(DOMAIN new)
    PROVE  /\ \E R : Merged(list, new) \in Seq(R)
           /\ \A k \in DOMAIN Merged(list, new) :
                \/ k \in DOMAIN list /\ Merged(list, new)[k] = list[k]
                \/ \E p \in DOMAIN new : Merged(list, new)[k].result = new[p]
<1> DEFINE entry(p) == [provider |-> p, result |-> new[p], hour |-> hour]
           T == {entry(p) : p \in DOMAIN new}
           more == SetToSeq(T)
<1>1. IsFiniteSet(T) /\ Cardinality(T) \in Nat
  <2> DEFINE f == [p \in DOMAIN new |-> entry(p)]
  <2>1. f \in Surjection(DOMAIN new, T)
    BY DEF Surjection
  <2> HIDE DEF f, T
  <2> QED BY <2>1, FS_Surjection, FS_CardinalityType
<1>2. more \in [1..Cardinality(T) -> T]
  <2> HIDE DEF T
  <2>1. ExistsBijection(1..Cardinality(T), T)
    BY <1>1, FS_CardinalityType
  <2>2. PICK f \in [1..Cardinality(T) -> T] : IsInjective(f)
    BY <2>1 DEF ExistsBijection, Bijection, Injection
  <2> QED BY <2>2 DEF SetToSeq
<1>3. more \in Seq(T)
  <2> HIDE DEF T, more
  <2> QED BY <1>1, <1>2
<1>4. Merged(list, new) = list \o more
  BY DEF Merged
<1> HIDE DEF T, more
<1> DEFINE R == S \cup T
<1>5. list \in Seq(R) /\ more \in Seq(R)
  BY <1>3
<1> HIDE DEF R
<1>6. /\ list \o more \in Seq(R) /\ Len(list \o more) = Len(list) + Len(more)
      /\ \A k \in 1..Len(list) + Len(more) :
           (list \o more)[k] = IF k <= Len(list) THEN list[k] ELSE more[k - Len(list)]
  BY <1>5, ConcatProperties
<1>7. /\ Len(list) \in Nat /\ Len(more) \in Nat /\ DOMAIN list = 1..Len(list)
      /\ DOMAIN (list \o more) = 1..(Len(list) + Len(more))
      /\ \A k \in 1..Len(more) : more[k] \in T
  BY <1>3, <1>6
<1>8. ASSUME NEW k \in DOMAIN (list \o more)
      PROVE  \/ k \in DOMAIN list /\ (list \o more)[k] = list[k]
             \/ (list \o more)[k] \in T
  <2>1. CASE k <= Len(list)
    BY <1>6, <1>7, <2>1
  <2>2. CASE ~ (k <= Len(list))
    <3>1. k - Len(list) \in 1..Len(more)
      BY <1>7, <2>2
    <3> QED BY <1>6, <1>7, <2>2, <3>1
  <2> QED BY <2>1, <2>2
<1>9. \A t \in T : \E p \in DOMAIN new : t.result = new[p]
  BY DEF T
<1> QED BY <1>4, <1>6, <1>8, <1>9

LEMMA VerdictInit == Init => VerdictInv
<1> SUFFICES ASSUME Init PROVE VerdictInv
  OBVIOUS
<1>1. DOMAIN ioc = Iocs /\ DOMAIN task = Handlers
  BY DEF Init
<1>2. ASSUME NEW i \in Iocs
      PROVE  Grounded(i, ioc[i]) /\ (i \in accused => ioc[i].verdict = "MALICIOUS")
  <2>1. /\ ioc[i].verdict = "UNKNOWN" /\ ioc[i].enrichment = <<>> /\ accused = {}
    BY DEF Init
  <2>2. <<>> \in Seq({}) /\ DOMAIN <<>> = {}
    OBVIOUS
  <2> QED BY <2>1, <2>2 DEF Grounded
<1>3. \A h \in Handlers : Asked(h) /\ Scoring(h)
  BY DEF Init, Asked, Scoring, Doing
<1> QED BY <1>1, <1>2, <1>3 DEF VerdictInv

\* A step that leaves the indicators alone and begins no enrichment keeps the invariant.
LEMMA SameVerdicts ==
    ASSUME VerdictInv, UNCHANGED <<ioc, accused>>, incident' # Gone => incident # Gone,
           DOMAIN task' = Handlers,
           \A h \in Handlers : task'[h] = task[h] \/ ~Enriching(h)'
    PROVE  VerdictInv'
<1>1. ASSUME NEW h \in Handlers, Asked(h), Scoring(h) PROVE Asked(h)' /\ Scoring(h)'
  <2>1. CASE task'[h] = task[h]
    BY <1>1, <2>1 DEF Asked, Scoring, Doing, Grounded
  <2>2. CASE ~Enriching(h)'
    BY <2>2 DEF Asked, Scoring, Enriching
  <2> QED BY <1>1, <2>1, <2>2
<1>2. \A i \in Iocs : Grounded(i, ioc[i])' <=> Grounded(i, ioc[i])
  BY DEF Grounded
<1> QED BY <1>1, <1>2 DEF VerdictInv

LEMMA AskVerdict ==
    ASSUME VerdictInv, NEW h \in Handlers, NEW i \in Iocs, NEW names \in SUBSET Providers,
           Ask(h, i, names)
    PROVE  VerdictInv'
<1> DEFINE cached == Cached(ioc[i].enrichment, Named(i, names))
           ask == Named(i, names) \ DOMAIN cached
<1>1. /\ incident # Gone /\ UNCHANGED <<incident, ioc, accused>>
      /\ task' = [task EXCEPT ![h] = [op |-> "enrich", phase |-> "asking", ioc |-> i,
                                      held |-> ioc[i], cached |-> cached, ask |-> ask]]
  BY DEF Ask, Proceed, rows, history
<1>2. ask \subseteq Providers
  BY DEF Named
<1>3. Grounded(i, ioc[i])
  BY <1>1 DEF VerdictInv
<1>4. \A p \in DOMAIN cached : cached[p].verdict = "MALICIOUS" => i \in accused
  <2>1. PICK S : ioc[i].enrichment \in Seq(S)
    BY <1>3 DEF Grounded
  <2> QED BY <1>3, <2>1, CachedIsListed DEF Grounded
<1> HIDE DEF cached, ask
<1>5. ASSUME NEW g \in Handlers PROVE Asked(g)' /\ Scoring(g)'
  <2>1. CASE g = h
    <3>1. task'[h] = [op |-> "enrich", phase |-> "asking", ioc |-> i, held |-> ioc[i],
                      cached |-> cached, ask |-> ask]
      BY <1>1 DEF VerdictInv
    <3>2. Grounded(i, ioc[i])'
      BY <1>1, <1>3 DEF Grounded
    <3>3. Grounded(i, ioc[i])' <=> Grounded(task[h].ioc, task[h].held)'
      BY <1>1, <3>1 DEF Grounded
    <3>4. Asked(h)'
      BY <1>1, <1>2, <1>4, <3>1, <3>2, <3>3 DEF Asked
    <3>5. Scoring(h)'
      BY <3>1 DEF Scoring, Doing
    <3> QED BY <2>1, <3>4, <3>5
  <2>2. CASE g # h
    BY <1>1, <2>2 DEF VerdictInv, Asked, Scoring, Doing, Grounded
  <2> QED BY <2>1, <2>2
<1>6. \A j \in Iocs : Grounded(j, ioc[j])' <=> Grounded(j, ioc[j])
  BY <1>1 DEF Grounded
<1> QED BY <1>1, <1>5, <1>6 DEF VerdictInv

\* What a handler writes over an indicator is grounded in what it and others have been told.
LEMMA MergeVerdict ==
    ASSUME VerdictInv, NEW h \in Handlers, Merge(h)
    PROVE  VerdictInv'
<1> DEFINE w == task[h]
<1>1. PICK first \in [w.ask -> Replies], second \in [w.ask -> Replies] :
        LET new == [p \in w.ask |-> Enrich(p, Type[w.ioc], p \in Keys, first[p], second[p])]
            views == {w.cached[p] : p \in DOMAIN w.cached} \cup {new[p] : p \in w.ask}
            list == Merged(w.held.enrichment, new)
            heard == {p \in w.ask : Incriminating(p, w.ioc, Request(first[p], second[p]))}
        IN  /\ ioc' = [ioc EXCEPT ![w.ioc] = Written(@, w.held, Judged(w.held, views), list)]
            /\ accused' = IF heard = {} THEN accused ELSE accused \cup {w.ioc}
            /\ task' = [task EXCEPT ![h] = [op |-> "enrich", phase |-> "scoring", ioc |-> w.ioc,
                                            verdict |-> Judged(w.held, views).verdict]]
  BY DEF Merge, Proceed
<1> DEFINE new == [p \in w.ask |-> Enrich(p, Type[w.ioc], p \in Keys, first[p], second[p])]
           views == {w.cached[p] : p \in DOMAIN w.cached} \cup {new[p] : p \in w.ask}
           list == Merged(w.held.enrichment, new)
           heard == {p \in w.ask : Incriminating(p, w.ioc, Request(first[p], second[p]))}
           judged == Judged(w.held, views)
<1>0. PICK i : i = w.ioc
  OBVIOUS
<1> DEFINE now == ioc[i]
<1>2. /\ incident # Gone /\ UNCHANGED incident /\ Doing(h, "enrich", "asking")
      /\ task' = [task EXCEPT ![h] = [op |-> "enrich", phase |-> "scoring", ioc |-> i,
                                      verdict |-> judged.verdict]]
  BY <1>0, <1>1 DEF Merge, Doing
<1>3. /\ Asked(h) /\ DOMAIN ioc = Iocs /\ DOMAIN task = Handlers
      /\ \A j \in Iocs : Grounded(j, ioc[j]) /\ (j \in accused => ioc[j].verdict = "MALICIOUS")
  BY <1>2 DEF VerdictInv
<1>4. /\ i \in Iocs /\ w.ask \subseteq Providers /\ Grounded(i, w.held) /\ Grounded(i, now)
      /\ \A p \in DOMAIN w.cached : w.cached[p].verdict = "MALICIOUS" => i \in accused
  BY <1>0, <1>2, <1>3 DEF Asked
<1>5. \A p \in w.ask : new[p].verdict = "MALICIOUS" <=> p \in heard
  <2> SUFFICES ASSUME NEW p \in w.ask PROVE new[p].verdict = "MALICIOUS" <=> p \in heard
    OBVIOUS
  <2>1. p \in Provider /\ first[p] \in Reply /\ second[p] \in Reply
    BY <1>4, CaseAssumption
  <2> QED BY <1>0, <1>4, <2>1, EnrichIncriminates
<1>6. DOMAIN new = w.ask /\ IsFiniteSet(DOMAIN new)
  BY <1>4, CaseAssumption, FS_Subset
<1>7. /\ ioc' = [ioc EXCEPT ![i] = Written(now, w.held, judged, list)]
      /\ accused' = IF heard = {} THEN accused ELSE accused \cup {i}
  BY <1>0, <1>1
<1>8. \A v \in views : v.verdict = "MALICIOUS" => i \in accused'
  BY <1>4, <1>5, <1>7
<1>9. heard # {} => \E v \in views : v.verdict = "MALICIOUS"
  BY <1>5
<1> HIDE DEF new, views, heard
<1>10. /\ \E R : list \in Seq(R)
       /\ \A k \in DOMAIN list : list[k].result.verdict = "MALICIOUS" => i \in accused'
  <2>1. PICK S : w.held.enrichment \in Seq(S)
    BY <1>4 DEF Grounded
  <2>2. /\ \E R : list \in Seq(R)
        /\ \A k \in DOMAIN list :
             \/ k \in DOMAIN w.held.enrichment /\ list[k] = w.held.enrichment[k]
             \/ \E p \in DOMAIN new : list[k].result = new[p]
    <3> DEFINE old == w.held.enrichment
    <3>1. old \in Seq(S) /\ IsFiniteSet(DOMAIN new) /\ list = Merged(old, new)
      BY <1>6, <2>1
    <3> HIDE DEF old, list
    <3>2. /\ \E R : list \in Seq(R)
          /\ \A k \in DOMAIN list : \/ k \in DOMAIN old /\ list[k] = old[k]
                                   \/ \E p \in DOMAIN new : list[k].result = new[p]
      BY <3>1, MergedIsList
    <3> QED BY <3>2 DEF old
  <2>3. \A p \in DOMAIN new : new[p].verdict = "MALICIOUS" => i \in accused'
    BY <1>5, <1>6, <1>7
  <2>4. accused \subseteq accused'
    BY <1>7
  <2> QED BY <1>4, <2>2, <2>3, <2>4 DEF Grounded
<1>11. /\ judged.verdict \in {"MALICIOUS", w.held.verdict}
       /\ (\E v \in views : v.verdict = "MALICIOUS") => judged.verdict = "MALICIOUS"
       /\ judged.verdict # w.held.verdict => \E v \in views : v.verdict = "MALICIOUS"
  BY DEF Judged
<1> HIDE DEF judged, list
<1>12. /\ ioc'[i].verdict = Flush(w.held.verdict, judged.verdict, now.verdict)
       /\ ioc'[i].enrichment = Flush(w.held.enrichment, list, now.enrichment)
       /\ \A j \in Iocs \ {i} : ioc'[j] = ioc[j]
       /\ DOMAIN ioc' = Iocs
  BY <1>3, <1>4, <1>7 DEF Written
<1>13. Grounded(i, ioc[i])' /\ (i \in accused' => ioc'[i].verdict = "MALICIOUS")
  <2>1. ioc'[i].verdict \in {"UNKNOWN", "MALICIOUS"}
    BY <1>4, <1>11, <1>12 DEF Grounded, Flush
  <2>2. ioc'[i].verdict = "MALICIOUS" => i \in accused'
    BY <1>4, <1>7, <1>8, <1>11, <1>12 DEF Grounded, Flush
  <2>3. i \in accused' => ioc'[i].verdict = "MALICIOUS"
    <3>1. CASE heard # {}
      BY <1>3, <1>4, <1>9, <1>11, <1>12, <3>1 DEF Grounded, Flush
    <3>2. CASE heard = {}
      BY <1>3, <1>4, <1>7, <1>11, <1>12, <3>2 DEF Grounded, Flush
    <3> QED BY <3>1, <3>2
  <2>4. ioc'[i].enrichment = list \/ ioc'[i].enrichment = now.enrichment
    BY <1>12 DEF Flush
  <2>5. \E S : ioc'[i].enrichment \in Seq(S)
    BY <1>4, <1>10, <2>4 DEF Grounded
  <2>6. \A k \in DOMAIN ioc'[i].enrichment :
          ioc'[i].enrichment[k].result.verdict = "MALICIOUS" => i \in accused'
    BY <1>4, <1>7, <1>10, <2>4 DEF Grounded
  <2> QED BY <2>1, <2>2, <2>3, <2>5, <2>6 DEF Grounded
<1>14. ASSUME NEW j \in Iocs \ {i}
       PROVE  Grounded(j, ioc[j])' /\ (j \in accused' => ioc'[j].verdict = "MALICIOUS")
  BY <1>3, <1>7, <1>12, <1>14 DEF Grounded
<1>16. judged.verdict = "MALICIOUS" => i \in accused'
  BY <1>4, <1>7, <1>8, <1>11 DEF Grounded
<1>15. ASSUME NEW g \in Handlers PROVE Asked(g)' /\ Scoring(g)'
  <2>1. CASE g = h
    <3>1. task'[h] = [op |-> "enrich", phase |-> "scoring", ioc |-> i, verdict |-> judged.verdict]
      BY <1>2, <1>3
    <3>2. Asked(h)'
      BY <3>1 DEF Asked, Doing
    <3>3. Scoring(h)'
      BY <1>4, <1>16, <3>1 DEF Scoring
    <3> QED BY <2>1, <3>2, <3>3
  <2>2. CASE g # h
    <3>1. task'[g] = task[g] /\ accused \subseteq accused' /\ Asked(g) /\ Scoring(g)
      BY <1>2, <1>3, <1>7, <2>2 DEF VerdictInv
    <3> QED BY <3>1 DEF Asked, Scoring, Doing, Grounded
  <2> QED BY <2>1, <2>2
<1> QED BY <1>2, <1>3, <1>12, <1>13, <1>14, <1>15 DEF VerdictInv

LEMMA VerdictNext == VerdictInv /\ CaseInv /\ [Next]_vars => VerdictInv'
<1> SUFFICES ASSUME VerdictInv, CaseInv, [Next]_vars PROVE VerdictInv'
  OBVIOUS
<1>1. DOMAIN task = Handlers
  BY DEF VerdictInv
<1>2. CASE Tick \/ UNCHANGED vars
  BY <1>1, <1>2, SameVerdicts DEF Tick, vars, rows, history
<1>3. ASSUME NEW h \in Handlers, Step(h) PROVE VerdictInv'
  <2>1. CASE \E i \in Iocs, names \in SUBSET Providers : Ask(h, i, names)
    BY <2>1, AskVerdict
  <2>2. CASE Merge(h)
    BY <2>2, MergeVerdict
  <2>3. CASE Erase(h)
    <3>1. incident' = Gone /\ DOMAIN ioc' = Iocs /\ DOMAIN task' = Handlers
      BY <1>1, <2>3 DEF Erase, Proceed
    <3> QED BY <3>1 DEF VerdictInv
  <2>4. CASE Rescore(h) \/ Collected(h) \/ Record(h) \/ Unlink(h) \/ Abort(h)
    <3>1. UNCHANGED <<ioc, accused>> /\ Done(h) /\ (incident' # Gone => incident # Gone)
      BY <2>4 DEF Rescore, Collected, Record, Unlink, Abort, rows, history
    <3>2. DOMAIN task' = Handlers
      BY <1>1, <3>1 DEF Done, Proceed
    <3>3. \A g \in Handlers : task'[g] = task[g] \/ ~Enriching(g)'
      BY <1>1, <3>1 DEF Done, Proceed, Doing, Enriching
    <3> QED BY <3>1, <3>2, <3>3, SameVerdicts
  <2>5. CASE Collect(h) \/ (\E f \in Formats : Export(h, f)) \/ Render(h) \/ Reset(h) \/ Delete(h)
    <3>1. UNCHANGED <<incident, ioc, accused>> /\ DOMAIN task' = Handlers
      BY <1>1, <2>5 DEF Collect, Export, Render, Reset, Delete, Proceed, rows, history
    <3>2. \A g \in Handlers : task'[g] = task[g] \/ ~Enriching(g)'
      BY <1>1, <2>5 DEF Collect, Export, Render, Reset, Delete, Proceed, Doing, Enriching
    <3> QED BY <3>1, <3>2, SameVerdicts
  <2>6. CASE Write(h)
    <3>1. /\ UNCHANGED <<incident, ioc, accused>> /\ DOMAIN task' = Handlers
          /\ task' = [task EXCEPT ![h] = [task[h] EXCEPT !.phase = "written"]]
          /\ task[h].op = "export"
      BY <1>1, <2>6 DEF Write, Proceed, Doing, rows
    <3>2. \A g \in Handlers : task'[g] = task[g] \/ ~Enriching(g)'
      BY <1>1, <3>1 DEF Doing, Enriching
    <3> QED BY <3>1, <3>2, SameVerdicts
  <2> QED BY <1>3, <2>1, <2>2, <2>3, <2>4, <2>5, <2>6 DEF Step
<1> QED BY <1>2, <1>3 DEF Next

\* An indicator is malicious if and only if a provider has sent evidence against it,
\* whatever enrichments overlap, fail or are reset (routes.py:745-754, cti.py).
THEOREM CaseworkVerdict == Spec => []VerdictIsEvidence
<1>1. VerdictInv => VerdictIsEvidence
  BY DEF VerdictInv, VerdictIsEvidence, Grounded
<1> QED BY <1>1, VerdictInit, VerdictNext, CaseInvariant, PTL DEF Spec

-----------------------------------------------------------------------------
(* What a report says of the risk. *)

\* The score that so many malicious indicators explain.
Score(S) == RiskScore(Severity, Confidence, Alerts, Cardinality(S))

\* A report that lists the indicators lists enough of them for the risk it shows.
Explained(c) == "malicious" \in DOMAIN c => c.risk.score <= Rescored(c.risk, c.malicious).score

\* The risk an incident has, or had when a handler that makes a report has read it, is
\* explained by the indicators that are malicious now.
Reading(h) == Doing(h, "export", "row") => task[h].risk.score <= Score(Malicious)
Showing(h) ==
    Doing(h, "export", "rendered") \/ Doing(h, "export", "written") => Explained(task[h].content)

RiskInv ==
    /\ incident # Gone => /\ incident.score <= Score(Malicious)
                          /\ \A h \in Handlers : Reading(h) /\ Showing(h)
    /\ ReportExplainsRisk

LEMMA AssessedScore == \A r \in Assessed : r.score \in Nat
<1> SUFFICES ASSUME NEW r \in Assessed PROVE r.score \in Nat
  OBVIOUS
<1>1. PICK n \in Nat : n = 10000
  OBVIOUS
<1>2. r.score \in 0..n
  BY <1>1 DEF Assessed
<1> QED BY <1>2

LEMMA RescoredScore ==
    ASSUME NEW held \in Assessed, NEW S
    PROVE  Rescored(held, S).score = Score(S)
BY DEF Rescored, Score, Assess, Flush, Assessed

\* Nothing is explained worse by more indicators.
LEMMA ScoreGrows ==
    ASSUME NEW T \in SUBSET Iocs, NEW S \in SUBSET T
    PROVE  Score(S) \in Nat /\ Score(T) \in Nat /\ Score(S) <= Score(T)
<1>1. PICK m \in Nat, n \in Nat : m = Cardinality(S) /\ n = Cardinality(T) /\ m <= n
  BY CaseAssumption, FS_Subset, FS_CardinalityType
<1>2. PICK b \in Nat : b = SEVERITY_SCORE[Severity + 1] * 55
  <2>1. Severity \in {0, 1, 2, 3, 4}
    BY CaseAssumption
  <2> QED BY <2>1 DEF SEVERITY_SCORE
<1>3. PICK c \in Nat : c = Confidence * 25
  BY CaseAssumption
<1>4. CASE Alerts = 0
  BY <1>4 DEF Score, RiskScore
<1>5. CASE Alerts # 0
  <2>1. PICK a \in Nat : a = AtMost(1000, (Alerts - 1) * 300)
    BY <1>5, CaseAssumption DEF AtMost
  <2>2. /\ Score(S) = AtMost(10000, b + c + a + AtMost(2000, m * 1000))
        /\ Score(T) = AtMost(10000, b + c + a + AtMost(2000, n * 1000))
    BY <1>1, <1>2, <1>3, <1>5, <2>1 DEF Score, RiskScore
  <2>3. PICK x \in Nat, y \in Nat :
          x = AtMost(2000, m * 1000) /\ y = AtMost(2000, n * 1000) /\ x <= y
    BY <1>1 DEF AtMost
  <2> QED BY <2>2, <2>3 DEF AtMost
<1> QED BY <1>4, <1>5

LEMMA RiskInit == Init => RiskInv
<1> SUFFICES ASSUME Init PROVE RiskInv
  OBVIOUS
<1>1. incident.score = Score({})
  <2>1. [score |-> 0, level |-> 1] \in Assessed
    BY DEF Assessed
  <2> QED BY <2>1, RescoredScore DEF Init
<1>2. {} \in SUBSET Malicious /\ Malicious \in SUBSET Iocs
  BY DEF Malicious
<1>3. incident.score <= Score(Malicious)
  BY <1>1, <1>2, ScoreGrows
<1>4. DOMAIN reports = {} /\ \A h \in Handlers : task[h] = Idle
  BY DEF Init
<1> QED BY <1>3, <1>4 DEF RiskInv, ReportExplainsRisk, Reading, Showing, Doing

\* A step that leaves risk and rows alone, takes back no verdict and lets no handler get on
\* with a report keeps the invariant.
LEMMA SameRisk ==
    ASSUME CaseInv, RiskInv, UNCHANGED <<incident, reports>>,
           incident # Gone => Malicious \subseteq Malicious',
           \A h \in Handlers : task'[h] = task[h] \/ (Reading(h)' /\ Showing(h)')
    PROVE  RiskInv'
<1>1. ReportExplainsRisk'
  BY DEF RiskInv, ReportExplainsRisk
<1>2. ASSUME incident # Gone
      PROVE  incident.score <= Score(Malicious') /\ \A h \in Handlers : Reading(h)' /\ Showing(h)'
  <2>1. Malicious' \in SUBSET Iocs /\ Malicious \in SUBSET Malicious'
    BY <1>2 DEF Malicious
  <2>2. PICK m \in Nat, n \in Nat : m = Score(Malicious) /\ n = Score(Malicious') /\ m <= n
    BY <2>1, ScoreGrows
  <2>3. incident.score \in Nat /\ incident.score <= n
    <3>1. incident.score \in Nat
      BY <1>2, AssessedScore DEF CaseInv, Kinds, TypeOK
    <3> QED BY <1>2, <2>2, <3>1 DEF RiskInv
  <2>4. ASSUME NEW h \in Handlers PROVE Reading(h)' /\ Showing(h)'
    <3>1. CASE task'[h] = task[h]
      <4>1. Showing(h)'
        BY <1>2, <3>1 DEF RiskInv, Showing, Doing, Explained
      <4>2. ASSUME Doing(h, "export", "row") PROVE task[h].risk.score <= n
        <5>1. task[h].risk.score \in Nat
          BY <4>2, AssessedScore DEF CaseInv, Holds, Doing
        <5> QED BY <1>2, <2>2, <4>2, <5>1 DEF RiskInv, Reading
      <4>3. Reading(h)'
        BY <2>2, <3>1, <4>2 DEF Reading, Doing, Score
      <4> QED BY <4>1, <4>3
    <3> QED BY <3>1
  <2> QED BY <2>2, <2>3, <2>4
<1>3. incident' # Gone => incident'.score <= Score(Malicious)'
  BY <1>2 DEF Score
<1> QED BY <1>1, <1>2, <1>3 DEF RiskInv

LEMMA MergeRisk ==
    ASSUME VerdictInv, NEW h \in Handlers, Merge(h)
    PROVE  Malicious \subseteq Malicious'
<1> DEFINE w == task[h]
<1>1. PICK views, list :
        ioc' = [ioc EXCEPT ![w.ioc] = Written(@, w.held, Judged(w.held, views), list)]
  BY DEF Merge
<1>2. SUFFICES ASSUME NEW i \in Iocs, ioc[i].verdict = "MALICIOUS"
               PROVE  ioc'[i].verdict = "MALICIOUS"
  BY DEF Malicious
<1>3. Judged(w.held, views).verdict \in {"MALICIOUS", w.held.verdict}
  BY DEF Judged
<1>4. DOMAIN ioc = Iocs
  BY DEF VerdictInv
<1>5. CASE i = w.ioc
  <2>1. ioc'[i].verdict = Flush(w.held.verdict, Judged(w.held, views).verdict, ioc[i].verdict)
    BY <1>1, <1>4, <1>5 DEF Written
  <2> QED BY <1>2, <1>3, <2>1 DEF Flush
<1>6. CASE i # w.ioc
  BY <1>1, <1>2, <1>4, <1>6
<1> QED BY <1>5, <1>6

LEMMA RescoreRisk ==
    ASSUME CaseInv, VerdictInv, RiskInv, NEW h \in Handlers, Rescore(h)
    PROVE  RiskInv'
<1>1. /\ incident \in Assessed /\ Malicious \in SUBSET Iocs /\ incident # Gone
      /\ incident' = Rescored(incident, MaliciousFor(task[h])) /\ UNCHANGED <<ioc, reports>>
      /\ task' = [task EXCEPT ![h] = Idle] /\ DOMAIN task = Handlers
  BY DEF Rescore, Done, Proceed, CaseInv, Kinds, TypeOK, Malicious
<1>8. MaliciousFor(task[h]) \in SUBSET Malicious
  BY <1>1 DEF Rescore, VerdictInv, Scoring, Malicious, MaliciousFor
<1>2. PICK n \in Nat, m \in Nat :
        n = Score(MaliciousFor(task[h])) /\ m = Score(Malicious) /\ n <= m
  BY <1>1, <1>8, ScoreGrows
<1>3. Malicious' = Malicious
  BY <1>1 DEF Malicious
<1>4. incident'.score = n
  BY <1>1, <1>2, RescoredScore
<1>5. Score(Malicious)' = m
  BY <1>2, <1>3 DEF Score
<1>6. ASSUME NEW g \in Handlers PROVE Reading(g)' /\ Showing(g)'
  BY <1>1, <1>2, <1>5 DEF RiskInv, Reading, Showing, Doing, Explained
<1>7. ReportExplainsRisk'
  BY <1>1 DEF RiskInv, ReportExplainsRisk
<1> QED BY <1>2, <1>4, <1>5, <1>6, <1>7 DEF RiskInv

LEMMA ReportRisk ==
    ASSUME CaseInv, RiskInv, NEW h \in Handlers,
           (\E f \in Formats : Export(h, f)) \/ Render(h) \/ Write(h)
    PROVE  RiskInv'
<1>1. /\ UNCHANGED <<incident, ioc, reports>> /\ DOMAIN task = Handlers
      /\ \A g \in Handlers \ {h} : task'[g] = task[g]
  BY DEF Export, Render, Write, Proceed, rows, CaseInv, Kinds, TypeOK
<1>2. Malicious' = Malicious
  BY <1>1 DEF Malicious
<1>3. SUFFICES ASSUME incident # Gone PROVE Reading(h)' /\ Showing(h)'
  <2>1. CASE incident = Gone
    BY <1>1, <2>1 DEF RiskInv, ReportExplainsRisk
  <2>2. CASE incident # Gone
    BY <1>1, <1>2, <1>3, <2>2, SameRisk
  <2> QED BY <2>1, <2>2
<1>4. ASSUME NEW f \in Formats, Export(h, f) PROVE Reading(h)' /\ Showing(h)'
  <2>1. task'[h] = [op |-> "export", phase |-> "row", format |-> f, risk |-> incident]
    BY <1>1, <1>4 DEF Export, Proceed
  <2>2. incident.score <= Score(Malicious)'
    BY <1>2, <1>3 DEF RiskInv, Score
  <2> QED BY <2>1, <2>2 DEF Reading, Showing, Doing
<1>5. CASE Render(h)
  <2> DEFINE c == Content(task[h].format, task[h].risk, Listed)
  <2>1. task'[h] = [op |-> "export", phase |-> "rendered", format |-> task[h].format, content |-> c]
    BY <1>1, <1>5 DEF Render, Proceed
  <2>2. Listed = Malicious
    BY <1>3 DEF Listed
  <2>3. /\ task[h].risk \in Assessed /\ task[h].format \in {"csv", "pdf", "json", "zip"}
        /\ task[h].risk.score <= Score(Malicious)
    BY <1>3, <1>5, CaseAssumption DEF Render, Doing, CaseInv, Holds, RiskInv, Reading
  <2>4. "malicious" \in DOMAIN c => c.risk = task[h].risk /\ c.malicious = Malicious
    BY <2>2, <2>3 DEF Content
  <2>5. Explained(c)
    BY <2>3, <2>4, RescoredScore DEF Explained
  <2> HIDE DEF c
  <2> QED BY <2>1, <2>5 DEF Reading, Showing, Doing, Explained
<1>6. CASE Write(h)
  <2>1. /\ task'[h] = [task[h] EXCEPT !.phase = "written"] /\ Explained(task[h].content)
        /\ task[h] \in Made
    BY <1>1, <1>3, <1>6 DEF Write, Proceed, Doing, CaseInv, Holds, RiskInv, Showing
  <2>2. task'[h].content = task[h].content /\ task'[h].phase = "written"
    BY <2>1 DEF Made
  <2> QED BY <2>1, <2>2 DEF Reading, Showing, Doing, Explained
<1> QED BY <1>4, <1>5, <1>6

LEMMA RecordRisk ==
    ASSUME CaseInv, RiskInv, NEW h \in Handlers, Record(h)
    PROVE  RiskInv'
<1> DEFINE new == [format |-> task[h].format, content |-> task[h].content]
<1>1. /\ reports' = Append(reports, new) /\ UNCHANGED <<incident, ioc>>
      /\ Doing(h, "export", "written") /\ incident # Gone
      /\ task' = [task EXCEPT ![h] = Idle] /\ DOMAIN task = Handlers
  BY DEF Record, Row, Done, Proceed, CaseInv, Kinds, TypeOK
<1>2. PICK S : reports \in Seq(S)
  BY DEF CaseInv, Kinds, TypeOK
<1>3. /\ DOMAIN reports' = 1..(Len(reports) + 1) /\ DOMAIN reports = 1..Len(reports)
      /\ \A k \in 1..Len(reports) : reports'[k] = reports[k]
      /\ reports'[Len(reports) + 1] = new /\ Len(reports) \in Nat
  BY <1>1, <1>2, AppendProperties
<1>4. \A k \in DOMAIN reports : Explained(reports[k].content)
  BY DEF RiskInv, ReportExplainsRisk, Explained
<1>5. Explained(new.content)
  BY <1>1 DEF RiskInv, Showing
<1>6. \A k \in DOMAIN reports' : Explained(reports'[k].content)
  <2> HIDE DEF new
  <2> TAKE k \in DOMAIN reports'
  <2>1. k \in 1..Len(reports) \/ k = Len(reports) + 1
    BY <1>3
  <2> QED BY <1>3, <1>4, <1>5, <2>1
<1>7. ReportExplainsRisk'
  BY <1>6 DEF ReportExplainsRisk, Explained
<1>8. Malicious' = Malicious /\ Score(Malicious)' = Score(Malicious)
  BY <1>1 DEF Malicious, Score
<1>9. ASSUME NEW g \in Handlers PROVE Reading(g)' /\ Showing(g)'
  BY <1>1, <1>8 DEF RiskInv, Reading, Showing, Doing, Explained
<1> QED BY <1>1, <1>7, <1>8, <1>9 DEF RiskInv

LEMMA RiskNext == CaseInv /\ VerdictInv /\ RiskInv /\ [Next]_vars => RiskInv'
<1> SUFFICES ASSUME CaseInv, VerdictInv, RiskInv, [Next]_vars PROVE RiskInv'
  OBVIOUS
<1>1. DOMAIN task = Handlers
  BY DEF VerdictInv
<1>2. CASE Tick \/ UNCHANGED vars
  BY <1>2, SameRisk DEF Tick, vars, rows, history, Malicious
<1>3. ASSUME NEW h \in Handlers, Step(h) PROVE RiskInv'
  <2>1. CASE Rescore(h)
    BY <2>1, RescoreRisk
  <2>2. CASE (\E f \in Formats : Export(h, f)) \/ Render(h) \/ Write(h)
    BY <2>2, ReportRisk
  <2>3. CASE Record(h)
    BY <2>3, RecordRisk
  <2>4. CASE Erase(h) \/ Unlink(h)
    <3>1. incident' = Gone /\ CaseInv'
      BY <2>4, <1>3, CaseNext DEF Erase, Unlink, CaseInv, Ahead, rows, Next
    <3>2. DOMAIN reports' = {}
      <4>1. reports' = <<>>
        BY <3>1 DEF CaseInv, NoOrphans
      <4> QED BY <4>1
    <3> QED BY <3>1, <3>2 DEF RiskInv, ReportExplainsRisk
  <2>5. CASE \/ \E i \in Iocs, names \in SUBSET Providers : Ask(h, i, names)
             \/ Merge(h) \/ Collect(h) \/ Collected(h) \/ Reset(h) \/ Delete(h) \/ Abort(h)
    <3>1. UNCHANGED <<incident, reports>>
      BY <2>5 DEF Ask, Merge, Collect, Collected, Reset, Delete, Abort, rows
    <3>2. Malicious \subseteq Malicious'
      <4>1. CASE Merge(h)
        BY <4>1, MergeRisk
      <4>2. CASE ~Merge(h)
        BY <2>5, <4>2 DEF Ask, Collect, Collected, Reset, Delete, Abort, rows, Malicious
      <4> QED BY <4>1, <4>2
    <3>3. \A g \in Handlers \ {h} : task'[g] = task[g]
      BY <1>1, <2>5, MergeGoesOn DEF Ask, Collect, Collected, Reset, Delete, Abort, Done, Proceed
    <3>4. Reading(h)' /\ Showing(h)'
      <4>1. CASE Merge(h)
        BY <1>1, <4>1, MergeGoesOn DEF Reading, Showing, Doing
      <4>2. CASE ~Merge(h)
        BY <1>1, <2>5, <4>2 DEF Ask, Collect, Collected, Reset, Delete, Abort, Done, Proceed,
                                Reading, Showing, Doing
      <4> QED BY <4>1, <4>2
    <3> QED BY <3>1, <3>2, <3>3, <3>4, SameRisk
  <2> QED BY <1>3, <2>1, <2>2, <2>3, <2>4, <2>5 DEF Step
<1> QED BY <1>2, <1>3 DEF Next

\* A report never shows a risk that its own list of indicators does not bear out, whatever
\* is enriched, rescored or reset between its queries (reporting.py:22-58,
\* routes.py:76-83,866).
THEOREM CaseworkExplains == Spec => []ReportExplainsRisk
<1>1. RiskInv => ReportExplainsRisk
  BY DEF RiskInv
<1> QED BY <1>1, RiskInit, RiskNext, VerdictInit, VerdictNext, CaseInvariant, PTL DEF Spec

-----------------------------------------------------------------------------
(* The quota of the providers. *)

\* An answer of the hour can be found in the list of the indicator, unless one that was
\* given meanwhile has written it over.
Kept(i) == i \notin overwritten =>
             \A p \in Provider : <<p, i>> \in answered => Usable(ioc[i].enrichment, p) # {}

QuotaInv == \A i \in Iocs : Kept(i)

\* The sequence that a set is put into holds each of its elements.
LEMMA SetInSequence ==
    ASSUME NEW T, IsFiniteSet(T)
    PROVE  /\ SetToSeq(T) \in [1..Cardinality(T) -> T] /\ Cardinality(T) \in Nat
           /\ \A t \in T : \E k \in 1..Cardinality(T) : SetToSeq(T)[k] = t
<1>1. Cardinality(T) \in Nat /\ ExistsBijection(1..Cardinality(T), T)
  BY FS_CardinalityType
<1> DEFINE Injective(f) == f \in [1..Cardinality(T) -> T] /\ IsInjective(f)
<1>2. \E f : Injective(f)
  BY <1>1 DEF ExistsBijection, Bijection, Injection
<1>3. SetToSeq(T) = CHOOSE f \in [1..Cardinality(T) -> T] : IsInjective(f)
  BY DEF SetToSeq
<1>4. Injective(SetToSeq(T))
  BY <1>2, <1>3
<1>5. SetToSeq(T) \in Injection(1..Cardinality(T), T)
  BY <1>4 DEF Injection
<1>6. Cardinality(1..Cardinality(T)) = Cardinality(T)
  BY <1>1, FS_Interval
<1>7. SetToSeq(T) \in Surjection(1..Cardinality(T), T)
  BY <1>5, <1>6, FS_Injection
<1> QED BY <1>1, <1>4, <1>7 DEF Surjection

\* The merged list goes on where the old one ends, and holds each of the new results.
LEMMA MergedHolds ==
    ASSUME NEW S, NEW list \in Seq(S), NEW new, IsFiniteSet(DOMAIN new)
    PROVE  /\ \A k \in DOMAIN list : k \in DOMAIN Merged(list, new) /\ Merged(list, new)[k] = list[k]
           /\ \A p \in DOMAIN new : \E k \in DOMAIN Merged(list, new) :
                Merged(list, new)[k] = [provider |-> p, result |-> new[p], hour |-> hour]
           /\ DOMAIN new # {} => Merged(list, new) # list
<1> DEFINE entry(p) == [provider |-> p, result |-> new[p], hour |-> hour]
           T == {entry(p) : p \in DOMAIN new}
           more == SetToSeq(T)
<1>1. IsFiniteSet(T)
  <2> DEFINE f == [p \in DOMAIN new |-> entry(p)]
  <2>1. f \in Surjection(DOMAIN new, T)
    BY DEF Surjection
  <2> HIDE DEF f, T
  <2> QED BY <2>1, FS_Surjection
<1>2. PICK n \in Nat : more \in [1..n -> T] /\ \A t \in T : \E k \in 1..n : more[k] = t
  <2> HIDE DEF T
  <2> QED BY <1>1, SetInSequence
<1>3. Merged(list, new) = list \o more
  BY DEF Merged
<1>4. \A p \in DOMAIN new : entry(p) \in T
  OBVIOUS
<1> HIDE DEF T, more
<1> DEFINE R == S \cup T
<1>5. list \in Seq(R) /\ more \in Seq(R) /\ Len(more) = n
  BY <1>2
<1> HIDE DEF R
<1>6. /\ list \o more \in Seq(R) /\ Len(list \o more) = Len(list) + n
      /\ \A k \in 1..Len(list) + n :
           (list \o more)[k] = IF k <= Len(list) THEN list[k] ELSE more[k - Len(list)]
  BY <1>5, ConcatProperties
<1>7. /\ Len(list) \in Nat /\ DOMAIN list = 1..Len(list)
      /\ DOMAIN (list \o more) = 1..(Len(list) + n)
  BY <1>6
<1>8. \A k \in DOMAIN list : k \in DOMAIN (list \o more) /\ (list \o more)[k] = list[k]
  BY <1>6, <1>7
<1>9. ASSUME NEW p \in DOMAIN new
      PROVE  \E k \in DOMAIN (list \o more) : (list \o more)[k] = entry(p)
  <2>1. PICK k \in 1..n : more[k] = entry(p)
    BY <1>2, <1>4
  <2>2. Len(list) + k \in 1..(Len(list) + n) /\ ~(Len(list) + k <= Len(list))
        /\ (Len(list) + k) - Len(list) = k
    BY <1>7, <2>1
  <2>3. (list \o more)[Len(list) + k] = entry(p)
    BY <1>6, <2>1, <2>2
  <2> QED BY <1>7, <2>2, <2>3
<1>10. ASSUME DOMAIN new # {} PROVE list \o more # list
  <2>1. PICK p \in DOMAIN new : TRUE
    BY <1>10
  <2>2. PICK k \in 1..n : more[k] = entry(p)
    BY <1>2, <1>4
  <2>3. PICK l \in Nat : l = Len(list) /\ Len(list \o more) = l + n
    BY <1>6, <1>7
  <2>4. k \in 1..n /\ l + n # l
    OBVIOUS
  <2> QED BY <2>3, <2>4
<1> QED BY <1>3, <1>8, <1>9, <1>10

LEMMA QuotaInit == Init => QuotaInv
BY DEF Init, QuotaInv, Kept

\* A step that leaves the answers alone keeps the invariant.
LEMMA SameAnswers ==
    ASSUME QuotaInv, UNCHANGED <<hour, ioc, answered, overwritten>>
    PROVE  QuotaInv'
BY DEF QuotaInv, Kept, Usable

LEMMA MergeQuota ==
    ASSUME VerdictInv, QuotaInv, NEW h \in Handlers, Merge(h)
    PROVE  QuotaInv'
<1> DEFINE w == task[h]
<1>1. PICK first \in [w.ask -> Replies], second \in [w.ask -> Replies] :
        LET new == [p \in w.ask |-> Enrich(p, Type[w.ioc], p \in Keys, first[p], second[p])]
            views == {w.cached[p] : p \in DOMAIN w.cached} \cup {new[p] : p \in w.ask}
            list == Merged(w.held.enrichment, new)
        IN  /\ ioc' = [ioc EXCEPT ![w.ioc] = Written(@, w.held, Judged(w.held, views), list)]
            /\ answered' = answered \cup {<<p, w.ioc>> : p \in
                               {q \in w.ask : new[q].status = "SUCCESS"}}
            /\ overwritten' = IF list # w.held.enrichment /\ ioc[w.ioc] # w.held
                              THEN overwritten \cup {w.ioc} ELSE overwritten
  BY DEF Merge
<1>2. PICK i, ask : i = w.ioc /\ ask = w.ask
  OBVIOUS
<1>3. PICK now, held, old : now = ioc[i] /\ held = w.held /\ old = held.enrichment
  OBVIOUS
<1>4. PICK new : new = [p \in ask |-> Enrich(p, Type[i], p \in Keys, first[p], second[p])]
  OBVIOUS
<1>5. PICK judged, list :
        /\ list = Merged(old, new)
        /\ ioc' = [ioc EXCEPT ![i] = Written(now, held, judged, list)]
        /\ answered' = answered \cup {<<p, i>> : p \in {q \in ask : new[q].status = "SUCCESS"}}
        /\ overwritten' = IF list # old /\ now # held THEN overwritten \cup {i} ELSE overwritten
  BY <1>1, <1>2, <1>3, <1>4
<1>6. /\ Doing(h, "enrich", "asking") /\ incident # Gone /\ hour' = hour /\ DOMAIN ioc = Iocs
  BY DEF Merge, Doing, VerdictInv
<1>7. /\ i \in Iocs /\ ask \in SUBSET Providers /\ \E S : old \in Seq(S)
  BY <1>2, <1>3, <1>6 DEF VerdictInv, Asked, Grounded
<1>8. DOMAIN new = ask /\ IsFiniteSet(DOMAIN new)
  BY <1>4, <1>7, CaseAssumption, FS_Subset
<1>9. /\ \A k \in DOMAIN old : k \in DOMAIN list /\ list[k] = old[k]
      /\ \A p \in ask : \E k \in DOMAIN list :
            list[k] = [provider |-> p, result |-> new[p], hour |-> hour]
      /\ ask # {} => list # old
  BY <1>5, <1>7, <1>8, MergedHolds
<1>10. ioc'[i].enrichment = Flush(old, list, now.enrichment)
  BY <1>3, <1>5, <1>6, <1>7 DEF Written
<1>0. PICK mine : mine = ioc'[i].enrichment
  OBVIOUS
<1>11. ASSUME i \notin overwritten', NEW p \in Provider, <<p, i>> \in answered'
       PROVE  Usable(mine, p) # {}
  <2>1. i \notin overwritten
    BY <1>5, <1>11
  <2>4. CASE list = old
    <3>1. mine = now.enrichment /\ <<p, i>> \in answered
      BY <1>5, <1>9, <1>10, <1>0, <1>11, <2>4 DEF Flush
    <3> QED BY <1>3, <1>7, <2>1, <3>1 DEF QuotaInv, Kept
  <2>5. CASE list # old
    <3>1. mine = list /\ now = held
      BY <1>5, <1>10, <1>0, <1>11, <2>5 DEF Flush
    <3>2. CASE <<p, i>> \in answered
      <4>1. PICK k : k \in Usable(old, p)
        BY <1>3, <1>7, <2>1, <3>1, <3>2 DEF QuotaInv, Kept
      <4>2. k \in Usable(list, p)
        BY <1>9, <4>1 DEF Usable
      <4> QED BY <3>1, <4>2
    <3>3. CASE <<p, i>> \notin answered
      <4>1. p \in ask /\ new[p].status = "SUCCESS"
        BY <1>5, <1>11, <3>3
      <4>2. PICK k \in DOMAIN list :
                list[k] = [provider |-> p, result |-> new[p], hour |-> hour]
        BY <1>9, <4>1
      <4>3. k \in Usable(list, p)
        BY <4>1, <4>2 DEF Usable
      <4> QED BY <3>1, <4>3
    <3> QED BY <3>2, <3>3
  <2> QED BY <2>4, <2>5
<1>12. ASSUME NEW j \in Iocs, j # i PROVE Kept(j)'
  <2>1. ioc'[j] = ioc[j]
    BY <1>5, <1>6, <1>12
  <2>2. \A p : <<p, j>> \in answered' => <<p, j>> \in answered
    BY <1>5, <1>12
  <2>3. j \in overwritten => j \in overwritten'
    BY <1>5
  <2> QED BY <1>6, <2>1, <2>2, <2>3 DEF QuotaInv, Kept, Usable
<1>13. Kept(i)'
  BY <1>0, <1>6, <1>11 DEF Kept, Usable
<1> QED BY <1>12, <1>13 DEF QuotaInv

LEMMA QuotaNext == VerdictInv /\ QuotaInv /\ [Next]_vars => QuotaInv'
<1> SUFFICES ASSUME VerdictInv, QuotaInv, [Next]_vars PROVE QuotaInv'
  OBVIOUS
<1>1. CASE Tick
  BY <1>1 DEF Tick, QuotaInv, Kept
<1>2. CASE UNCHANGED vars
  BY <1>2, SameAnswers DEF vars, rows, history
<1>3. ASSUME NEW h \in Handlers, Step(h) PROVE QuotaInv'
  <2>1. CASE Merge(h)
    BY <2>1, MergeQuota
  <2>2. CASE Erase(h)
    BY <2>2 DEF Erase, QuotaInv, Kept
  <2>3. CASE ~Merge(h) /\ ~Erase(h)
    <3>1. UNCHANGED <<hour, ioc, answered, overwritten>>
      BY <1>3, <2>3 DEF Step, Ask, Rescore, Collect, Collected, Export, Render, Write, Record,
                        Reset, Delete, Unlink, Abort, rows, history
    <3> QED BY <3>1, SameAnswers
  <2> QED BY <2>1, <2>2, <2>3
<1> QED BY <1>1, <1>2, <1>3 DEF Next

\* Only a request for enrichment asks the providers.
LEMMA OnlyAsk ==
    ASSUME CaseInv, [Next]_vars, NEW h \in Handlers,
           task[h] = Idle, Doing(h, "enrich", "asking")'
    PROVE  \E i \in Iocs, names \in SUBSET Providers : Ask(h, i, names)
<1>1. DOMAIN task = Handlers /\ task'[h] # Idle /\ task'[h].op = "enrich"
  BY DEF CaseInv, Kinds, TypeOK, Doing
<1>2. PICK g \in Handlers : Step(g)
  BY <1>1 DEF Next, Tick, vars
<1>3. g = h
  BY <1>1, <1>2 DEF Step, Ask, Merge, Rescore, Collect, Collected, Export, Render, Write, Record,
                    Reset, Delete, Erase, Unlink, Abort, Done, Proceed
<1> QED
  BY <1>1, <1>2, <1>3 DEF Step, Merge, Rescore, Collect, Collected, Export, Render, Write,
                    Record, Reset, Delete, Erase, Unlink, Abort, Done, Proceed, Doing

\* A provider that has told about an indicator is not asked again within the hour, unless
\* overlapping requests have lost its answer (routes.py:729-744,749).
THEOREM CaseworkQuota == Spec => QuotaSpared
<1> DEFINE Spared == \A h \in Handlers : (task[h] = Idle /\ Doing(h, "enrich", "asking")')
                        => LET w == task'[h] IN
                           w.ioc \notin overwritten
                             => \A p \in w.ask : <<p, w.ioc>> \notin answered
<1>1. CaseInv /\ QuotaInv /\ [Next]_vars => Spared
  <2> SUFFICES ASSUME CaseInv, QuotaInv, [Next]_vars, NEW h \in Handlers,
                      task[h] = Idle, Doing(h, "enrich", "asking")',
                      task'[h].ioc \notin overwritten, NEW p \in task'[h].ask,
                      <<p, task'[h].ioc>> \in answered
               PROVE  FALSE
    OBVIOUS
  <2>1. PICK i \in Iocs, names \in SUBSET Providers : Ask(h, i, names)
    BY OnlyAsk
  <2>2. task'[h].ioc = i /\ p \in Named(i, names) \ DOMAIN Cached(ioc[i].enrichment, Named(i, names))
    BY <2>1 DEF Ask, Proceed, CaseInv, Kinds, TypeOK
  <2>3. p \in Provider /\ Usable(ioc[i].enrichment, p) = {}
    BY <2>1, <2>2, CaseAssumption DEF Cached, Named
  <2> QED BY <2>2, <2>3 DEF QuotaInv, Kept
<1>2. Spec => [](CaseInv /\ QuotaInv)
  BY QuotaInit, QuotaNext, VerdictInit, VerdictNext, CaseInvariant, PTL DEF Spec
<1>3. QuotaSpared <=> [][Spared]_vars
  BY DEF QuotaSpared
<1> HIDE DEF Spared
<1> QED BY <1>1, <1>2, <1>3, PTL DEF Spec

-----------------------------------------------------------------------------
(* The newest row and its file. *)

\* Between file and row, the file of a report is the one it will have the hash of, unless
\* another report was at it.
Own(h) ==
    Doing(h, "export", "written") /\ incident # Gone /\ task[h].format \notin torn
        => file[FileOf(task[h].format)] = task[h].content

FileInv == LatestDescribesFile /\ \A h \in Handlers : Own(h)

LEMMA FileInit == Init => FileInv
<1> SUFFICES ASSUME Init PROVE FileInv
  OBVIOUS
<1>1. \A h \in Handlers : task[h] = Idle
  BY DEF Init
<1>2. reports = <<>>
  BY DEF Init
<1>3. DOMAIN reports = {}
  BY <1>2
<1> QED BY <1>1, <1>3 DEF FileInv, LatestDescribesFile, Own, Doing

\* A step that leaves rows and files alone and at which no handler comes or goes between
\* the two keeps the invariant.
LEMMA SameFiles ==
    ASSUME FileInv, UNCHANGED <<reports, file>>, torn \subseteq torn',
           incident' # Gone => incident # Gone,
           \A h \in Handlers :
              \/ task'[h] = task[h]
              \/ /\ ~Doing(h, "export", "written")'
                 /\ Doing(h, "export", "written") => task[h].format \in torn'
    PROVE  FileInv'
<1>1. ASSUME NEW h \in Handlers PROVE Own(h)'
  BY <1>1 DEF FileInv, Own, Doing, FileOf
<1>2. LatestDescribesFile'
  <2> SUFFICES ASSUME NEW k \in DOMAIN reports, reports[k].format \notin torn',
                      \A j \in DOMAIN reports : reports[j].format = reports[k].format => j <= k,
                      \A h \in Handlers : ~Writing(h, reports[k].format)'
               PROVE  file[reports[k].format] = reports[k].content
    BY DEF LatestDescribesFile
  <2>1. reports[k].format \notin torn
    OBVIOUS
  <2>2. ASSUME NEW h \in Handlers, Writing(h, reports[k].format) PROVE FALSE
    BY <2>2 DEF Writing, Doing
  <2> QED BY <2>1, <2>2 DEF FileInv, LatestDescribesFile
<1> QED BY <1>1, <1>2 DEF FileInv

LEMMA WriteFiles ==
    ASSUME CaseInv, FileInv, NEW h \in Handlers, Write(h)
    PROVE  FileInv'
<1> DEFINE f == task[h].format
<1>1. /\ f \in Formats /\ DOMAIN file = Formats /\ DOMAIN task = Handlers
      /\ file' = [file EXCEPT ![f] = task[h].content]
      /\ task' = [task EXCEPT ![h] = [task[h] EXCEPT !.phase = "written"]]
      /\ torn \subseteq torn' /\ UNCHANGED <<incident, reports>>
      /\ task[h] # Idle /\ task[h].op = "export" /\ task[h].phase = "rendered"
      /\ (\E g \in Handlers : Writing(g, f)) => f \in torn'
  BY DEF Write, Proceed, Doing, rows, FileOf, CaseInv, Kinds, TypeOK, Holds
<1>2. /\ task'[h] = [task[h] EXCEPT !.phase = "written"]
      /\ task'[h].format = f /\ task'[h].content = task[h].content
  BY <1>1, CaseAssumption DEF Holds
<1>3. file'[f] = task[h].content /\ \A e \in Formats \ {f} : file'[e] = file[e]
  BY <1>1
<1>4. ASSUME NEW g \in Handlers PROVE Own(g)'
  <2>1. CASE g = h
    BY <1>2, <1>3, <2>1 DEF Own, FileOf
  <2>2. CASE g # h
    <3>1. task'[g] = task[g] /\ Own(g) /\ Holds(g)
      BY <1>1, <2>2 DEF FileInv, CaseInv
    <3>2. CASE Writing(g, f)
      BY <1>1, <3>1, <3>2 DEF Own, Writing, Doing
    <3>3. CASE ~Writing(g, f)
      BY <1>1, <1>3, <3>1, <3>3 DEF Own, Writing, Doing, Holds, FileOf
    <3> QED BY <3>2, <3>3
  <2> QED BY <2>1, <2>2
<1>5. LatestDescribesFile'
  <2> SUFFICES ASSUME NEW k \in DOMAIN reports, reports[k].format \notin torn',
                      \A j \in DOMAIN reports : reports[j].format = reports[k].format => j <= k,
                      \A g \in Handlers : ~(Doing(g, "export", "written")'
                                            /\ task'[g].format = reports[k].format)
               PROVE  file'[reports[k].format] = reports[k].content
    BY <1>1 DEF LatestDescribesFile, Writing
  <2>1. reports[k].format # f
    <3>1. Doing(h, "export", "written")' /\ task'[h].format = f
      <4>1. task'[h].op = "export" /\ task'[h].phase = "written"
        BY <1>1, <1>2
      <4>2. task'[h] # Idle
        <5>1. task'[h] \in Made
          BY <1>1, <1>2 DEF CaseInv, Holds, Made
        <5> QED BY <5>1, CaseAssumption
      <4> QED BY <1>2, <4>1, <4>2 DEF Doing
    <3> QED BY <3>1
  <2>2. reports[k].format \in Formats
    BY DEF CaseInv, Kinds, TypeOK
  <2>3. ASSUME NEW g \in Handlers, Writing(g, reports[k].format) PROVE FALSE
    <3>1. g # h
      BY <1>1, <2>3 DEF Writing, Doing
    <3> QED BY <1>1, <2>3, <3>1 DEF Writing, Doing
  <2>4. file[reports[k].format] = reports[k].content
    BY <1>1, <2>3 DEF FileInv, LatestDescribesFile
  <2> QED BY <1>3, <2>1, <2>2, <2>4
<1> QED BY <1>4, <1>5 DEF FileInv

LEMMA RecordFiles ==
    ASSUME CaseInv, FileInv, NEW h \in Handlers, Record(h)
    PROVE  FileInv'
<1> DEFINE new == [format |-> task[h].format, content |-> task[h].content]
<1>1. /\ reports' = Append(reports, new) /\ UNCHANGED <<incident, file, torn>>
      /\ Doing(h, "export", "written") /\ incident # Gone
      /\ Done(h) /\ DOMAIN task = Handlers
  BY DEF Record, Row, history, CaseInv, Kinds, TypeOK
<1>2. PICK S : reports \in Seq(S)
  BY DEF CaseInv, Kinds, TypeOK
<1>3. /\ DOMAIN reports' = 1..(Len(reports) + 1) /\ DOMAIN reports = 1..Len(reports)
      /\ Len(reports) \in Nat
      /\ \A k \in 1..Len(reports) : reports'[k] = reports[k]
      /\ reports'[Len(reports) + 1] = new
  BY <1>1, <1>2, AppendProperties
<1>4. ASSUME NEW g \in Handlers PROVE Own(g)'
  BY <1>1, <1>4 DEF FileInv, Own, Doing, Done, Proceed, FileOf
<1>5. LatestDescribesFile'
  <2> SUFFICES ASSUME NEW k \in DOMAIN reports', reports'[k].format \notin torn,
                      \A j \in DOMAIN reports' : reports'[j].format = reports'[k].format => j <= k,
                      \A g \in Handlers : ~(Doing(g, "export", "written")'
                                            /\ task'[g].format = reports'[k].format)
               PROVE  file[reports'[k].format] = reports'[k].content
    BY <1>1 DEF LatestDescribesFile, Writing
  <2>1. CASE k = Len(reports) + 1
    BY <1>1, <1>3, <2>1 DEF FileInv, Own, FileOf
  <2>2. CASE k # Len(reports) + 1
    <3>1. k \in 1..Len(reports) /\ reports'[k] = reports[k]
      BY <1>3, <2>2
    <3>2. task[h].format # reports[k].format
      <4>1. Len(reports) + 1 \in DOMAIN reports' /\ ~ (Len(reports) + 1 <= k)
        BY <1>3, <3>1
      <4> QED BY <1>3, <3>1, <4>1
    <3>3. ASSUME NEW g \in Handlers, Writing(g, reports[k].format) PROVE FALSE
      <4>1. g # h
        BY <3>2, <3>3 DEF Writing
      <4>2. task'[g] = task[g]
        BY <1>1, <4>1 DEF Done, Proceed
      <4> QED BY <3>1, <3>3, <4>2 DEF Writing, Doing
    <3>4. \A j \in DOMAIN reports : reports[j].format = reports[k].format => j <= k
      BY <1>3, <3>1
    <3> QED BY <1>3, <3>1, <3>3, <3>4 DEF FileInv, LatestDescribesFile
  <2> QED BY <2>1, <2>2
<1> QED BY <1>4, <1>5 DEF FileInv

\* Without the incident there is no row, and no file to vouch for.
LEMMA GoneFiles ==
    ASSUME CaseInv', incident' = Gone
    PROVE  FileInv'
<1>1. reports' = <<>> /\ DOMAIN reports' = {}
  BY DEF CaseInv, NoOrphans
<1> QED BY <1>1 DEF FileInv, LatestDescribesFile, Own

LEMMA FileNext == CaseInv /\ FileInv /\ [Next]_vars => FileInv'
<1> SUFFICES ASSUME CaseInv, FileInv, [Next]_vars PROVE FileInv'
  OBVIOUS
<1>1. DOMAIN task = Handlers /\ CaseInv'
  BY CaseNext DEF CaseInv, Kinds, TypeOK
<1>2. CASE Tick \/ UNCHANGED vars
  BY <1>2, SameFiles DEF Tick, vars, rows, history
<1>3. ASSUME NEW h \in Handlers, Step(h) PROVE FileInv'
  <2>1. CASE Write(h)
    BY <2>1, WriteFiles
  <2>2. CASE Record(h)
    BY <2>2, RecordFiles
  <2>3. CASE Erase(h) \/ Unlink(h)
    BY <1>1, <2>3, GoneFiles DEF Erase, Unlink, CaseInv, Ahead, rows
  <2>4. CASE \/ \E i \in Iocs, names \in SUBSET Providers : Ask(h, i, names)
             \/ Collect(h) \/ (\E f \in Formats : Export(h, f)) \/ Render(h)
             \/ Reset(h) \/ Delete(h)
    <3>1. UNCHANGED <<incident, reports, file, torn>>
      BY <2>4 DEF Ask, Collect, Export, Render, Reset, Delete, rows, history
    <3>2. \A g \in Handlers \ {h} : task'[g] = task[g]
      BY <1>1, <2>4 DEF Ask, Collect, Export, Render, Reset, Delete, Proceed
    <3>3. ~Doing(h, "export", "written")' /\ ~Doing(h, "export", "written")
      BY <1>1, <2>4 DEF Ask, Collect, Export, Render, Reset, Delete, Proceed, Doing
    <3> QED BY <3>1, <3>2, <3>3, SameFiles
  <2>5. CASE Merge(h) \/ Rescore(h) \/ Collected(h)
    <3>1. /\ UNCHANGED <<reports, file, torn>> /\ incident # Gone
          /\ ~Doing(h, "export", "written")
      BY <2>5 DEF Merge, Rescore, Collected, Doing, rows, history
    <3>2. \A g \in Handlers \ {h} : task'[g] = task[g]
      BY <1>1, <2>5, MergeGoesOn DEF Rescore, Collected, Done, Proceed
    <3>3. ~Doing(h, "export", "written")'
      BY <1>1, <2>5, MergeGoesOn DEF Rescore, Collected, Done, Proceed, Doing
    <3> QED BY <3>1, <3>2, <3>3, SameFiles
  <2>6. CASE Abort(h)
    <3>1. /\ UNCHANGED <<incident, reports, file>> /\ torn \subseteq torn'
          /\ Doing(h, "export", "written") => task[h].format \in torn'
      BY <2>6 DEF Abort, rows
    <3>2. \A g \in Handlers \ {h} : task'[g] = task[g]
      BY <1>1, <2>6 DEF Abort, Done, Proceed
    <3>3. ~Doing(h, "export", "written")'
      BY <1>1, <2>6 DEF Abort, Done, Proceed, Doing
    <3> QED BY <3>1, <3>2, <3>3, SameFiles
  <2> QED BY <1>3, <2>1, <2>2, <2>3, <2>4, <2>5, <2>6 DEF Step
<1> QED BY <1>2, <1>3 DEF Next

\* The newest row of a format has the hash of the file, however many reports, resets and
\* failures there are, as long as no two reports of the format overlap between file and
\* row and none fails there (reporting.py:217-231).
THEOREM CaseworkLatest == Spec => []LatestDescribesFile
<1>1. FileInv => LatestDescribesFile
  BY DEF FileInv
<1> QED BY <1>1, FileInit, FileNext, CaseInvariant, PTL DEF Spec
=============================================================================
