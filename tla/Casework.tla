------------------------------- MODULE Casework -------------------------------
(***************************************************************************)
(* Work on an incident that exists: enrichment of its indicators by the    *)
(* intelligence providers (routes.py, connectors/cti.py), collection of    *)
(* evidence (investigation.py), reports (reporting.py) and the reset.      *)
(*                                                                         *)
(* Enrichment runs on the event loop and awaits the providers.  The other  *)
(* handlers run on pool threads; each database access or file access of    *)
(* theirs is a step.  Every commit of the database is atomic, every query  *)
(* sees what was committed before it.                                      *)
(***************************************************************************)
EXTENDS Integers, Cti, Risk, Sequences, SequencesExt

CONSTANTS
    Handlers,
    Iocs, Type,          \* the indicators of the incident and the type of each
    Providers, Keys,     \* providers that clients name, and those with a key
    Replies,             \* replies that the providers may send
    Formats,
    Alerts, Severity, Confidence,   \* of the incident's alerts
    Idle, NoFile, Gone,
    MaxHour, MaxEntries, MaxEvidence, MaxReports    \* bounds

VARIABLES
    hour,        \* the clock, as coarse as the cache
    incident,    \* its risk; Gone after a reset
    ioc,         \* the table iocs
    evidence,    \* collected evidence, each item with a timeline entry
    reports,     \* the table reports, oldest first
    file,        \* the report directory
    task,        \* per handler: what it holds
    \* history variables:
    accused,     \* indicators that a provider has called malicious
    answered,    \* providers that have told about an indicator within the hour
    overwritten, \* indicators whose results a handler wrote over, unseen, within the hour
    torn         \* files that two reports were writing, or one without a row

Assessed == [score : 0..10000, level : 1..4]

\* What a report shows.
Shown == [evidence : Nat] \cup [evidence : Nat, risk : Assessed]
           \cup [evidence : Nat, risk : Assessed, malicious : SUBSET Iocs]

\* A report that a handler holds.
Made == [op : {"export"}, phase : {"rendered", "written"}, format : Formats, content : Shown]

ASSUME CaseAssumption ==
    /\ IsFiniteSet(Iocs) /\ Formats \subseteq {"csv", "pdf", "json", "zip"}
    /\ Alerts \in Nat /\ Severity \in 0..4 /\ Confidence \in 0..100
    /\ IsFiniteSet(Providers) /\ Providers \subseteq Provider /\ Replies \subseteq Reply
    /\ NoFile \notin Shown /\ Gone \notin Assessed /\ Idle \notin Made

rows == <<incident, ioc, evidence, reports>>
history == <<accused, answered, overwritten, torn>>
vars == <<hour, rows, file, task, history>>

-----------------------------------------------------------------------------

\* The indicators of the incident that raise its risk.
Malicious == {i \in Iocs : ioc[i].verdict = "MALICIOUS"}

Rescored(held, malicious) ==
    Assess(held, held, RiskScore(Severity, Confidence, Alerts, Cardinality(malicious)))

Init ==
    /\ hour = 0
    /\ ioc = [i \in Iocs |-> [verdict |-> "UNKNOWN", confidence |-> 0, enrichment |-> <<>>]]
    /\ incident = Rescored([score |-> 0, level |-> 1], {})
    /\ evidence = 0 /\ reports = <<>> /\ file = [f \in Formats |-> NoFile]
    /\ task = [h \in Handlers |-> Idle]
    /\ accused = {} /\ answered = {} /\ overwritten = {} /\ torn = {}

Doing(h, op, phase) == task[h] # Idle /\ task[h].op = op /\ task[h].phase = phase
Proceed(h, work) == task' = [task EXCEPT ![h] = work]
Done(h) == Proceed(h, Idle)

\* An hour passes, and every answer is old.
Tick ==
    /\ hour < MaxHour /\ hour' = hour + 1
    /\ answered' = {} /\ overwritten' = {}
    /\ UNCHANGED <<rows, file, task, accused, torn>>

-----------------------------------------------------------------------------
(* Enrichment.                                                              *)

\* Another handler keeps the event loop: it is between two awaits.
LoopBusy(h) ==
    \E g \in Handlers \ {h} : \/ Doing(g, "enrich", "scoring")
                              \/ Doing(g, "enrich", "asking") /\ task[g].ask = {}

\* The places of the answers of p in a list that are less than an hour old.
Usable(list, p) ==
    {k \in DOMAIN list : /\ list[k].provider = p /\ list[k].hour = hour
                         /\ list[k].result.status = "SUCCESS"}

\* The newest of them, for each provider that has one.
Cached(list, names) ==
    [p \in {q \in names : Usable(list, q) # {}} |->
        list[CHOOSE k \in Usable(list, p) : \A j \in Usable(list, p) : j <= k].result]

\* The providers asked for, or all that support the type.
Named(i, names) == IF names # {} THEN names ELSE {p \in Providers : Type[i] \in Supported(p)}

Ask(h, i, names) ==
    LET cached == Cached(ioc[i].enrichment, Named(i, names))
    IN  /\ task[h] = Idle /\ incident # Gone /\ ~LoopBusy(h)
        /\ Proceed(h, [op |-> "enrich", phase |-> "asking", ioc |-> i, held |-> ioc[i],
                       cached |-> cached, ask |-> Named(i, names) \ DOMAIN cached])
        /\ UNCHANGED <<hour, rows, file, history>>

Highest(S) == CHOOSE m \in S : \A n \in S : n <= m

\* Mutant: the verdict is the one of the latest answers.
JudgedAfresh(held, views) ==
    LET malicious == {v \in views : v.verdict = "MALICIOUS"}
    IN  [verdict |-> IF malicious = {} THEN "UNKNOWN" ELSE "MALICIOUS",
         confidence |-> IF malicious = {} THEN 0 ELSE Highest({v.confidence : v \in malicious})]

\* The verdict and the confidence after those results; nothing takes back MALICIOUS.
Judged(held, views) ==
    LET malicious == {v \in views : v.verdict = "MALICIOUS"}
    IN  [verdict |-> IF malicious = {} THEN held.verdict ELSE "MALICIOUS",
         confidence |-> IF malicious = {} THEN held.confidence
                        ELSE Highest({v.confidence : v \in malicious})]

\* The old results and the new ones.
Merged(list, new) ==
    LET entry(p) == [provider |-> p, result |-> new[p], hour |-> hour]
    IN  list \o SetToSeq({entry(p) : p \in DOMAIN new})

\* Mutant: the results are appended in place, which the session does not notice.
WrittenInPlace(now, held, judged, list) ==
    [verdict |-> Flush(held.verdict, judged.verdict, now.verdict),
     confidence |-> Flush(held.confidence, judged.confidence, now.confidence),
     enrichment |-> now.enrichment]

\* The UPDATE of a row writes the columns that differ from what the handler holds.
Written(now, held, judged, list) ==
    [verdict |-> Flush(held.verdict, judged.verdict, now.verdict),
     confidence |-> Flush(held.confidence, judged.confidence, now.confidence),
     enrichment |-> Flush(held.enrichment, list, now.enrichment)]

\* A reply that holds evidence against an indicator of a type that the provider knows.
Incriminating(p, i, reply) ==
    /\ Type[i] \in Supported(p) /\ p \in Keys /\ reply.kind = "score"
    /\ reply.score >= IF p = "AbuseIPDB" THEN 75 ELSE 1

\* All providers have answered, twice where the first answer is tried again.
Merge(h) ==
    /\ task[h] # Idle /\ task[h].op = "enrich" /\ task[h].phase = "asking"
    /\ incident # Gone /\ ~LoopBusy(h)
    /\ LET w == task[h]  i == w.ioc
       IN \E first, second \in [w.ask -> Replies] :
            LET new == [p \in w.ask |-> Enrich(p, Type[i], p \in Keys, first[p], second[p])]
                views == {w.cached[p] : p \in DOMAIN w.cached} \cup {new[p] : p \in w.ask}
                list == Merged(w.held.enrichment, new)
                heard == {p \in w.ask : Incriminating(p, i, Request(first[p], second[p]))}
            IN  /\ Raised \notin views
                /\ Len(list) <= MaxEntries
                /\ ioc' = [ioc EXCEPT ![i] = Written(@, w.held, Judged(w.held, views), list)]
                /\ accused' = IF heard = {} THEN accused ELSE accused \cup {i}
                /\ answered' = answered \cup {<<p, i>> : p \in
                                   {q \in w.ask : new[q].status = "SUCCESS"}}
                /\ overwritten' = IF list # w.held.enrichment /\ ioc[i] # w.held
                                  THEN overwritten \cup {i} ELSE overwritten
                /\ Proceed(h, [op |-> "enrich", phase |-> "scoring", ioc |-> i,
                               verdict |-> Judged(w.held, views).verdict])
    /\ UNCHANGED <<hour, incident, evidence, reports, file, torn>>

\* The indicators that raise the risk for a handler: the one it holds keeps the verdict that
\* it read before it asked, or has given itself.
MaliciousFor(w) == (Malicious \ {w.ioc}) \cup (IF w.verdict = "MALICIOUS" THEN {w.ioc} ELSE {})

\* The incident and its other indicators are loaded, its risk is committed.
Rescore(h) ==
    /\ Doing(h, "enrich", "scoring") /\ incident # Gone
    /\ incident' = Rescored(incident, MaliciousFor(task[h]))
    /\ Done(h)
    /\ UNCHANGED <<hour, ioc, evidence, reports, file, accused, answered, overwritten, torn>>

-----------------------------------------------------------------------------
(* Evidence.                                                                *)

\* The incident is loaded, the target is authorized.
Collect(h) ==
    /\ task[h] = Idle /\ incident # Gone
    /\ Proceed(h, [op |-> "collect", phase |-> "loaded"])
    /\ UNCHANGED <<hour, rows, file, history>>

\* The evidence and its timeline entry, refused when the incident is gone.
Collected(h) ==
    /\ Doing(h, "collect", "loaded") /\ incident # Gone
    /\ evidence < MaxEvidence /\ evidence' = evidence + 1
    /\ Done(h)
    /\ UNCHANGED <<hour, incident, ioc, reports, file, history>>

-----------------------------------------------------------------------------
(* Reports.                                                                 *)

\* What a format shows of an incident: the timeline (of which the evidence is a part), the
\* risk and the numbers of things, or everything.
Content(f, risk, malicious) ==
    CASE f = "csv" -> [evidence |-> evidence]
      [] f = "pdf" -> [evidence |-> evidence, risk |-> risk]
      [] f \in {"json", "zip"} -> [evidence |-> evidence, risk |-> risk, malicious |-> malicious]

\* The name of the file is made of the incident and the format.
FileOf(f) == f

\* The row of the incident.
Export(h, f) ==
    /\ task[h] = Idle /\ incident # Gone
    /\ Proceed(h, [op |-> "export", phase |-> "row", format |-> f, risk |-> incident])
    /\ UNCHANGED <<hour, rows, file, history>>

\* The indicators that belong to it still.
Listed == IF incident = Gone THEN {} ELSE Malicious

\* The rows that belong to it, and the bytes of the report.
Render(h) ==
    /\ Doing(h, "export", "row")
    /\ Proceed(h, [op |-> "export", phase |-> "rendered", format |-> task[h].format,
                   content |-> Content(task[h].format, task[h].risk, Listed)])
    /\ UNCHANGED <<hour, rows, file, history>>

Writing(h, f) == Doing(h, "export", "written") /\ task[h].format = f

\* The file is written over.
Write(h) ==
    /\ Doing(h, "export", "rendered")
    /\ file' = [file EXCEPT ![FileOf(task[h].format)] = task[h].content]
    /\ Proceed(h, [task[h] EXCEPT !.phase = "written"])
    /\ torn' = IF \E g \in Handlers : Writing(g, task[h].format)
               THEN torn \cup {task[h].format} ELSE torn
    /\ UNCHANGED <<hour, rows, accused, answered, overwritten>>

\* Mutant: the hash is the one of a second rendering.
RowAgain(h) ==
    [format |-> task[h].format, content |-> Content(task[h].format, incident, Malicious)]

\* The hash of the content stands for the content.
Row(h) == [format |-> task[h].format, content |-> task[h].content]

\* The row, refused when the incident is gone.
Record(h) ==
    /\ Doing(h, "export", "written") /\ incident # Gone /\ Len(reports) < MaxReports
    /\ reports' = Append(reports, Row(h))
    /\ Done(h)
    /\ UNCHANGED <<hour, incident, ioc, evidence, file, history>>

-----------------------------------------------------------------------------
(* The reset.                                                               *)

\* The files that rows name.
Files == {FileOf(reports[k].format) : k \in DOMAIN reports}

\* The names of the files are read.
Reset(h) ==
    /\ task[h] = Idle
    /\ Proceed(h, [op |-> "reset", phase |-> "named", names |-> Files])
    /\ UNCHANGED <<hour, rows, file, history>>

\* Mutant: the files go before the rows do.
DeleteFilesFirst(h) ==
    /\ Doing(h, "reset", "named")
    /\ file' = [f \in Formats |-> IF f \in task[h].names THEN NoFile ELSE file[f]]
    /\ Proceed(h, [op |-> "reset", phase |-> "deleted", names |-> task[h].names,
                   found |-> <<Len(reports), evidence>>])
    /\ UNCHANGED <<hour, rows, history>>

\* The rows that a transaction finds are deleted in it.
Delete(h) ==
    /\ Doing(h, "reset", "named")
    /\ Proceed(h, [op |-> "reset", phase |-> "deleted", names |-> task[h].names,
                   found |-> <<Len(reports), evidence>>])
    /\ UNCHANGED <<hour, rows, file, history>>

\* Mutant: no foreign key.
LeftoverNever(h) == FALSE

\* Rows of the incident that came after the DELETE of their table: the foreign key of each
\* keeps the incident.
Leftover(h) == task[h].found # <<Len(reports), evidence>>

Erase(h) ==
    /\ Doing(h, "reset", "deleted") /\ ~Leftover(h)
    /\ incident' = Gone
    /\ reports' = SubSeq(reports, task[h].found[1] + 1, Len(reports))
    /\ evidence' = evidence - task[h].found[2]
    /\ ioc' = [i \in Iocs |-> [verdict |-> "UNKNOWN", confidence |-> 0, enrichment |-> <<>>]]
    /\ Proceed(h, [op |-> "reset", phase |-> "erased", names |-> task[h].names])
    /\ accused' = {} /\ answered' = {} /\ overwritten' = {}
    /\ UNCHANGED <<hour, file, torn>>

Unlink(h) ==
    /\ Doing(h, "reset", "erased")
    /\ file' = [f \in Formats |-> IF f \in task[h].names THEN NoFile ELSE file[f]]
    /\ Done(h)
    /\ UNCHANGED <<hour, rows, history>>

-----------------------------------------------------------------------------
\* A handler fails: the database, the disk or a foreign key refuses, a provider's parser
\* raises.  What it has not committed is rolled back.
Abort(h) ==
    /\ task[h] # Idle /\ ~Doing(h, "reset", "erased")
    /\ torn' = IF Doing(h, "export", "written") THEN torn \cup {task[h].format} ELSE torn
    /\ Done(h)
    /\ UNCHANGED <<hour, rows, file, accused, answered, overwritten>>

Step(h) ==
    \/ \E i \in Iocs, names \in SUBSET Providers : Ask(h, i, names)
    \/ Merge(h) \/ Rescore(h)
    \/ Collect(h) \/ Collected(h)
    \/ \E f \in Formats : Export(h, f)
    \/ Render(h) \/ Write(h) \/ Record(h)
    \/ Reset(h) \/ Delete(h) \/ Erase(h) \/ Unlink(h)
    \/ Abort(h)

Next == Tick \/ \E h \in Handlers : Step(h)

Spec == Init /\ [][Next]_vars

-----------------------------------------------------------------------------
(* Properties.                                                              *)

TypeOK ==
    /\ incident \in Assessed \cup {Gone}
    /\ evidence \in Nat
    /\ \A k \in DOMAIN reports : reports[k].format \in Formats
    /\ DOMAIN file = Formats /\ DOMAIN task = Handlers

\* An indicator is malicious if and only if a provider has sent evidence against it: no
\* other kind of answer accuses, and no later or overlapping answer, good, bad or missing,
\* takes the verdict back (routes.py:749-754, cti.py).
VerdictIsEvidence ==
    incident # Gone => \A i \in Iocs : ioc[i].verdict = "MALICIOUS" <=> i \in accused

\* A provider that has told about an indicator is not asked again within the hour, unless
\* overlapping requests have lost its answer (routes.py:729-744,749).
QuotaSpared ==
    [][\A h \in Handlers : (task[h] = Idle /\ Doing(h, "enrich", "asking")')
         => LET w == task'[h] IN
            w.ioc \notin overwritten
              => \A p \in w.ask : <<p, w.ioc>> \notin answered]_vars

\* A report never shows a risk that its own list of indicators does not bear out: a verdict
\* that is committed between its queries can only be in the list (reporting.py:22-58,
\* routes.py:76-83,866).
ReportExplainsRisk ==
    \A k \in DOMAIN reports : LET c == reports[k].content IN
        "malicious" \in DOMAIN c => c.risk.score <= Rescored(c.risk, c.malicious).score

\* A row names a file that exists, also when a reset is refused or races with a new report
\* (reporting.py:222-231, routes.py:1161-1194).
RowHasFile == \A k \in DOMAIN reports : file[FileOf(reports[k].format)] # NoFile

\* The file of a format is what its newest row has the hash of, as long as no two reports of
\* the format overlap between file and row and none fails there (reporting.py:217-231).
LatestDescribesFile ==
    \A k \in DOMAIN reports : LET r == reports[k] IN
        (/\ r.format \notin torn
         /\ \A j \in DOMAIN reports : reports[j].format = r.format => j <= k
         /\ \A h \in Handlers : ~Writing(h, r.format))
          => file[r.format] = r.content

\* Evidence and reports belong to an incident that exists: a reset that misses one which was
\* written meanwhile deletes nothing (routes.py:1161-1186, models.py:196,272).
NoOrphans == incident = Gone => evidence = 0 /\ reports = <<>>
=============================================================================
