----------------------------- MODULE Ingestion -----------------------------
(***************************************************************************)
(* From a security event to an incident and its risk: ingest_event,        *)
(* detect_event, correlate_alert, recalculate_risk, and the two callers    *)
(* that mark an indicator malicious, enrich_ioc and run_demo.              *)
(*                                                                         *)
(* One delivery makes several commits: the event, its alerts, then one per *)
(* alert that joins it to the incident of its correlation key.  Handlers   *)
(* of tasks run on an event loop and are exclusive there except where they *)
(* await; the demo run is a thread of its own.                             *)
(***************************************************************************)
EXTENDS Risk, FiniteSetsExt

CONSTANTS
    Tasks,       \* request coroutines
    Loops, LoopOf,   \* event loops, and the loop each task runs on
    Threads,     \* pool threads running the demo
    Events,      \* event ids that clients deliver, again and again
    DemoEvents,  \* fresh event ids, one per demo run
    Rules, Keys, Values,
    Matches,     \* per event, the enabled rules that match it
    Undecided,   \* events on which evaluating an enabled rule raises
    Key,         \* per event and rule, the correlation key
    EventIocs,   \* per event, the indicators extracted from it
    Severity,    \* per rule, 0 (INFO) to 4 (CRITICAL)
    Confidence,  \* per rule, in percent
    DemoMode,
    NoAlert,     \* no alert row
    Unlinked,    \* an alert row without incident
    NoRow        \* no incident row with that correlation key

AllEvents == Events \cup DemoEvents
Workers == Tasks \cup Threads
Alerts == AllEvents \X Rules
Verdicts == {"ABSENT", "UNKNOWN", "MALICIOUS"}
Row == [severity: 0 .. 4, score: Nat, level: 1 .. 4]

ASSUME PipelineAssumption ==
    /\ Tasks \cap Threads = {} /\ LoopOf \in [Tasks -> Loops]
    /\ Events \cap DemoEvents = {}
    /\ IsFiniteSet(AllEvents) /\ IsFiniteSet(Rules) /\ IsFiniteSet(Values)
    /\ Matches \in [AllEvents -> SUBSET Rules]
    /\ Undecided \subseteq AllEvents /\ \A e \in Undecided : Matches[e] = {}
    /\ Key \in [Alerts -> Keys]
    /\ EventIocs \in [AllEvents -> SUBSET Values]
    /\ \A e \in DemoEvents : EventIocs[e] # {}
    /\ Severity \in [Rules -> 0 .. 4]
    /\ Confidence \in [Rules -> 0 .. 100]
    /\ DemoMode \in BOOLEAN
    /\ NoAlert # Unlinked /\ {NoAlert, Unlinked} \cap Keys = {}
    /\ NoRow \notin Row

VARIABLES
    stored,    \* security_events, by event id
    alert,     \* alerts, by event and rule (the fingerprint): absent, unlinked or joined to a key
    incident,  \* incidents, by correlation key
    ioc,       \* per incident and value, the verdict
    timeline,  \* per incident, its correlation entries: <<type, alert>>
    replies,   \* the answers clients got to deliveries
    owed,      \* incidents with a verdict committed whose risk is not yet recomputed
    overtaken, \* <<incident, value>> found malicious while another enrichment of it had read less
    session    \* per worker, the handler under way and what it holds in memory

rows == <<stored, alert, incident, ioc, timeline>>
vars == <<stored, alert, incident, ioc, timeline, replies, owed, overtaken, session>>

Idle == [step |-> "idle"]
Seen == [Keys -> Row \cup {NoRow}]
Doomed == [step |-> "doomed"]
Detecting == [step: {"detect"}, event: AllEvents]
Correlating == [step: {"correlate"}, event: AllEvents, todo: SUBSET Rules, seen: Seen]
Joining == [step: {"join"}, event: AllEvents, todo: SUBSET Rules, seen: Seen,
            rule: Rules, held: Row \cup {NoRow}, fresh: SUBSET Values, bad: SUBSET Values]
Committing == [step: {"commit"}, event: AllEvents, todo: SUBSET Rules, seen: Seen,
               rule: Rules, created: BOOLEAN, held: Row, fresh: SUBSET Values, score: Nat]
Replying == [step: {"reply"}, event: AllEvents, found: SUBSET Keys]
Marking == [step: {"mark"}, key: Keys, value: Values, held: Row,
            alerts: SUBSET Alerts, bad: SUBSET Values]
Asking == [step: {"ask"}, key: Keys, value: Values, accused: BOOLEAN]
Rescoring == [step: {"rescore"}, key: Keys, value: Values, accused: BOOLEAN]
Saving == [step: {"save"}, key: Keys, held: Row, score: Nat]
Session == {Idle, Doomed} \cup Detecting \cup Correlating \cup Joining \cup Committing
             \cup Replying \cup Marking \cup Asking \cup Rescoring \cup Saving

-----------------------------------------------------------------------------
(* Risk of a set of alerts and a set of malicious indicators. *)

Score(alerts, bad) ==
    IF alerts = {} THEN 0
    ELSE RiskScore(Max({Severity[a[2]] : a \in alerts}), Max({Confidence[a[2]] : a \in alerts}),
                   Cardinality(alerts), Cardinality(bad))

Exists(k) == incident[k] # NoRow
Attached(k) == {a \in Alerts : alert[a] = k}
Known(k) == {v \in Values : ioc[k][v] # "ABSENT"}
Bad(k) == {v \in Values : ioc[k][v] = "MALICIOUS"}

-----------------------------------------------------------------------------
Init ==
    /\ stored = {}
    /\ alert = [a \in Alerts |-> NoAlert]
    /\ incident = [k \in Keys |-> NoRow]
    /\ ioc = [k \in Keys |-> [v \in Values |-> "ABSENT"]]
    /\ timeline = [k \in Keys |-> {}]
    /\ replies = {}
    /\ owed = {}
    /\ overtaken = {}
    /\ session = [w \in Workers |-> Idle]

At(w, where) == session[w].step = where
Move(w, s) == session' = [session EXCEPT ![w] = s]

\* A task runs only while no other task of its loop is between two awaits.
Free(w) == w \in Tasks =>
    \A v \in Tasks \ {w} : LoopOf[v] = LoopOf[w] => session[v].step \in {"idle", "reply", "ask"}

-----------------------------------------------------------------------------
(* POST /events, and the event of a demo run. *)

Store(w, e) ==
    /\ session[w] = Idle
    /\ e \notin stored
    /\ stored' = stored \cup {e}
    /\ Move(w, [step |-> "detect", event |-> e])
    /\ UNCHANGED <<alert, incident, ioc, timeline, replies, owed, overtaken>>

\* Mutant: a duplicate is answered without incidents.
DuplicateNamesNone(w, e) ==
    /\ session[w] = Idle /\ e \in stored
    /\ replies' = replies \cup {[event |-> e, duplicate |-> TRUE, incidents |-> {}]}
    /\ UNCHANGED <<rows, owed, overtaken, session>>

\* The unique event id refuses the INSERT: nothing is detected, and the answer
\* names the incidents that the event's alerts have by now.
Duplicate(w, e) ==
    /\ session[w] = Idle
    /\ e \in stored
    /\ replies' = replies \cup {[event |-> e, duplicate |-> TRUE,
                                 incidents |-> {alert[<<e, r>>] : r \in Rules} \cap Keys]}
    /\ UNCHANGED <<rows, owed, overtaken, session>>

\* Mutant: a rule that cannot be evaluated is passed over.
DetectPassesOver(w) ==
    LET s == session[w]
        new == {r \in Matches[s.event] : alert[<<s.event, r>>] = NoAlert}
    IN
    /\ At(w, "detect")
    /\ alert' = [a \in Alerts |-> IF a[1] = s.event /\ a[2] \in new THEN Unlinked ELSE alert[a]]
    /\ Move(w, [step |-> "correlate", event |-> s.event, todo |-> new,
                seen |-> [k \in Keys |-> NoRow]])
    /\ UNCHANGED <<stored, incident, ioc, timeline, replies, owed, overtaken>>

\* One alert per rule that matches; the fingerprint suppresses one that exists.
Detect(w) ==
    LET s == session[w]
        new == {r \in Matches[s.event] : alert[<<s.event, r>>] = NoAlert}
    IN
    /\ At(w, "detect") /\ s.event \notin Undecided
    /\ alert' = [a \in Alerts |-> IF a[1] = s.event /\ a[2] \in new THEN Unlinked ELSE alert[a]]
    /\ Move(w, [step |-> "correlate", event |-> s.event, todo |-> new,
                seen |-> [k \in Keys |-> NoRow]])
    /\ UNCHANGED <<stored, incident, ioc, timeline, replies, owed, overtaken>>

\* Evaluating a rule raises: the request fails, after the event's commit and before any alert's.
DetectFails(w) ==
    /\ At(w, "detect") /\ session[w].event \in Undecided
    /\ Move(w, Idle)
    /\ UNCHANGED <<rows, replies, owed, overtaken>>

-----------------------------------------------------------------------------
(* correlate_alert, for one alert of the event after the other. *)

\* The incident of the key and its indicators are read.  An incident that this session
\* has joined before stays in its identity map as it was refreshed after that commit.
Lookup(w, r) ==
    LET s == session[w]
        k == Key[<<s.event, r>>]
    IN
    /\ At(w, "correlate") /\ r \in s.todo
    /\ Move(w, [step |-> "join", event |-> s.event, todo |-> s.todo, seen |-> s.seen,
                rule |-> r, held |-> IF s.seen[k] # NoRow THEN s.seen[k] ELSE incident[k],
                fresh |-> EventIocs[s.event] \ Known(k), bad |-> Bad(k)])
    /\ UNCHANGED <<rows, replies, owed, overtaken>>

JoinKey(s) == Key[<<s.event, s.rule>>]
\* Mutant: severities compared by name (CRITICAL < HIGH < INFO < LOW < MEDIUM).
RaisesByName(s) ==
    LET name == <<3, 4, 5, 2, 1>> IN name[Severity[s.rule] + 1] > name[s.held.severity + 1]
Raises(s) == Severity[s.rule] > s.held.severity

\* Another transaction has updated the incident and not yet committed.
RowLocked(w, k) ==
    \E v \in Workers \ {w} : At(v, "commit") /\ JoinKey(session[v]) = k
                             /\ ~session[v].created /\ Raises(session[v])

\* Another transaction has inserted a row that a unique index makes this one wait for.
InsertBlocked(w, k, fresh) ==
    \E v \in Workers \ {w} : At(v, "commit") /\ JoinKey(session[v]) = k
                             /\ (session[v].created \/ session[v].fresh \cap fresh # {})

\* The unique correlation key refuses the INSERT: the row that won is read instead.
JoinConflict(w) ==
    LET s == session[w]
        k == JoinKey(s)
    IN
    /\ At(w, "join") /\ s.held = NoRow /\ Exists(k)
    /\ Move(w, [s EXCEPT !.held = incident[k], !.fresh = EventIocs[s.event] \ Known(k),
                         !.bad = Bad(k)])
    /\ UNCHANGED <<rows, replies, owed, overtaken>>

\* Mutant: no unique correlation key.
JoinFlushAnew(w) ==
    LET s == session[w]
        new == [severity |-> Severity[s.rule], score |-> 0, level |-> 1]
    IN
    /\ At(w, "join")
    /\ Move(w, [step |-> "commit", event |-> s.event, todo |-> s.todo, seen |-> s.seen,
                rule |-> s.rule, created |-> s.held = NoRow,
                held |-> IF s.held = NoRow THEN new ELSE s.held, fresh |-> s.fresh,
                score |-> Score(Attached(JoinKey(s)) \cup {<<s.event, s.rule>>}, s.bad)])
    /\ UNCHANGED <<rows, replies, owed, overtaken>>

\* Mutant: no unique index on the indicators of an incident.
JoinFlushInsertsAgain(w) ==
    LET s == session[w]
        k == JoinKey(s)
        held == IF Exists(k) THEN s.held
                ELSE [severity |-> Severity[s.rule], score |-> 0, level |-> 1]
    IN
    /\ At(w, "join") /\ (s.held = NoRow <=> ~Exists(k))
    /\ Move(w, [step |-> "commit", event |-> s.event, todo |-> s.todo, seen |-> s.seen,
                rule |-> s.rule, created |-> ~Exists(k), held |-> held, fresh |-> s.fresh,
                score |-> Score(Attached(k) \cup {<<s.event, s.rule>>}, s.bad)])
    /\ UNCHANGED <<rows, replies, owed, overtaken>>

\* The flush of alert, incident, indicators and timeline, and the reading of the
\* incident's alerts that the new risk is computed from.
JoinFlush(w) ==
    LET s == session[w]
        k == JoinKey(s)
        held == IF Exists(k) THEN s.held
                ELSE [severity |-> Severity[s.rule], score |-> 0, level |-> 1]
    IN
    /\ At(w, "join") /\ (s.held = NoRow <=> ~Exists(k))
    /\ s.fresh \cap Known(k) = {}
    /\ ~InsertBlocked(w, k, s.fresh)
    /\ Exists(k) /\ Raises(s) => ~RowLocked(w, k)
    /\ Move(w, [step |-> "commit", event |-> s.event, todo |-> s.todo, seen |-> s.seen,
                rule |-> s.rule, created |-> ~Exists(k), held |-> held, fresh |-> s.fresh,
                score |-> Score(Attached(k) \cup {<<s.event, s.rule>>}, s.bad)])
    /\ UNCHANGED <<rows, replies, owed, overtaken>>

\* uq_incident_ioc refuses an indicator that another handler has added since this one
\* read the list: the request fails and its alert stays without incident.
JoinRefused(w) ==
    LET s == session[w] IN
    /\ At(w, "join") /\ s.held # NoRow /\ s.fresh \cap Known(JoinKey(s)) # {}
    /\ Move(w, Idle)
    /\ UNCHANGED <<rows, replies, owed, overtaken>>

\* Mutant: a joined alert is not taken off the list.
JoinCommitKeepsTodo(w) ==
    LET s == session[w]
        k == JoinKey(s)
        a == <<s.event, s.rule>>
        row == [severity |-> s.held.severity, score |-> s.score, level |-> Level(s.score)]
    IN
    /\ At(w, "commit")
    /\ alert' = [alert EXCEPT ![a] = k]
    /\ incident' = [incident EXCEPT ![k] = row]
    /\ ioc' = [ioc EXCEPT ![k] = [v \in Values |-> IF v \in s.fresh THEN "UNKNOWN" ELSE @[v]]]
    /\ Move(w, [step |-> "correlate", event |-> s.event, todo |-> s.todo,
                seen |-> [s.seen EXCEPT ![k] = row]])
    /\ UNCHANGED <<stored, timeline, replies, owed, overtaken>>

\* The incident as the commit leaves it: an update writes the columns that have changed.
Joined(row, s) ==
    IF s.created
    THEN [severity |-> s.held.severity, score |-> s.score, level |-> Level(s.score)]
    ELSE [Assess(row, s.held, s.score) EXCEPT
            !.severity = IF Raises(s) THEN Severity[s.rule] ELSE @]

JoinCommit(w) ==
    LET s == session[w]
        k == JoinKey(s)
        a == <<s.event, s.rule>>
    IN
    /\ At(w, "commit") /\ ~RowLocked(w, k)
    /\ alert' = [alert EXCEPT ![a] = k]
    /\ incident' = [incident EXCEPT ![k] = Joined(@, s)]
    /\ ioc' = [ioc EXCEPT ![k] = [v \in Values |-> IF v \in s.fresh THEN "UNKNOWN" ELSE @[v]]]
    /\ timeline' = [timeline EXCEPT ![k] = @ \cup
         {<<IF s.created THEN "INCIDENT_CREATED" ELSE "ALERT_CORRELATED", a>>}]
    /\ owed' = owed \ {k}
    /\ Move(w, [step |-> "correlate", event |-> s.event, todo |-> s.todo \ {s.rule},
                seen |-> [s.seen EXCEPT ![k] = incident'[k]]])
    /\ UNCHANGED <<stored, replies, overtaken>>

\* Mutant: the answer does not wait for the remaining alerts.
FinishEarly(w) ==
    LET s == session[w] IN
    /\ w \in Tasks /\ At(w, "correlate")
    /\ Move(w, [step |-> "reply", event |-> s.event, found |-> {k \in Keys : s.seen[k] # NoRow}])
    /\ UNCHANGED <<rows, replies, owed, overtaken>>

\* The last alert is joined; what follows awaits the search index.
Finish(w) ==
    LET s == session[w] IN
    /\ w \in Tasks /\ At(w, "correlate") /\ s.todo = {}
    /\ Move(w, [step |-> "reply", event |-> s.event, found |-> {k \in Keys : s.seen[k] # NoRow}])
    /\ UNCHANGED <<rows, replies, owed, overtaken>>

Reply(w) ==
    LET s == session[w] IN
    /\ At(w, "reply")
    /\ replies' = replies \cup {[event |-> s.event, duplicate |-> FALSE, incidents |-> s.found]}
    /\ Move(w, Idle)
    /\ UNCHANGED <<rows, owed, overtaken>>

-----------------------------------------------------------------------------
(* Verdicts and the risk they change. *)

\* run_demo reads one of the incidents with all its collections.  Its object is the one
\* refreshed after the join, or a new one if that has been collected meanwhile.
DemoRead(w, k, v, row) ==
    LET s == session[w] IN
    /\ w \in Threads /\ At(w, "correlate") /\ s.todo = {}
    /\ s.seen[k] # NoRow /\ v \in Known(k)
    /\ Move(w, [step |-> "mark", key |-> k, value |-> v, held |-> row,
                alerts |-> Attached(k), bad |-> Bad(k)])
    /\ UNCHANGED <<rows, replies, owed, overtaken>>

\* The event brought no incident: the demo run fails.
DemoFails(w) ==
    /\ w \in Threads /\ At(w, "correlate")
    /\ session[w].todo = {} /\ \A k \in Keys : session[w].seen[k] = NoRow
    /\ Move(w, Idle)
    /\ UNCHANGED <<rows, replies, owed, overtaken>>

\* Enrichments of the indicator that have read it before this verdict and will not again.
Overtakes(w, k, v) ==
    IF \E u \in Workers \ {w} : /\ At(u, "ask") \/ At(u, "rescore")
                                /\ session[u].key = k /\ session[u].value = v
                                /\ ~session[u].accused
    THEN {<<k, v>>} ELSE {}

\* run_demo commits the controlled verdict, then scores what it holds in memory.
DemoMark(w) ==
    LET s == session[w] IN
    /\ At(w, "mark")
    /\ ioc' = [ioc EXCEPT ![s.key][s.value] = "MALICIOUS"]
    /\ owed' = owed \cup {s.key}
    /\ overtaken' = overtaken \cup Overtakes(w, s.key, s.value)
    /\ Move(w, [step |-> "save", key |-> s.key, held |-> s.held,
                score |-> Score(s.alerts, s.bad \cup {s.value})])
    /\ UNCHANGED <<stored, alert, incident, timeline, replies>>

\* enrich_ioc reads the indicator and keeps that object while it awaits its providers.
EnrichLoad(w, k, v) ==
    /\ session[w] = Idle
    /\ Exists(k) /\ v \in Known(k)
    /\ Move(w, [step |-> "ask", key |-> k, value |-> v, accused |-> v \in Bad(k)])
    /\ UNCHANGED <<rows, replies, owed, overtaken>>

\* Back from its providers, it commits their verdict, unless the object held says so already;
\* the risk is next.
Enrich(w, malicious) ==
    LET s == session[w] IN
    /\ At(w, "ask")
    /\ ioc' = IF malicious /\ ~s.accused THEN [ioc EXCEPT ![s.key][s.value] = "MALICIOUS"] ELSE ioc
    /\ owed' = IF malicious THEN owed \cup {s.key} ELSE owed
    /\ overtaken' = IF malicious /\ ~s.accused
                    THEN overtaken \cup Overtakes(w, s.key, s.value) ELSE overtaken
    /\ Move(w, [step |-> "rescore", key |-> s.key, value |-> s.value,
                accused |-> s.accused \/ malicious])
    /\ UNCHANGED <<stored, alert, incident, timeline, replies>>

\* Mutant: the risk is computed without the verdict just given.
AccusedBefore(s) == Bad(s.key) \ {s.value}

\* The malicious indicators of the incident as this handler sees them: its own one is the
\* object it has held since before the await.
Accused(s) == (Bad(s.key) \ {s.value}) \cup (IF s.accused THEN {s.value} ELSE {})

\* recalculate_risk, split between its reading and its commit.
Rescore(w) ==
    LET s == session[w] IN
    /\ At(w, "rescore")
    /\ Move(w, [step |-> "save", key |-> s.key, held |-> incident[s.key],
                score |-> Score(Attached(s.key), Accused(s))])
    /\ UNCHANGED <<rows, replies, owed, overtaken>>

Save(w) ==
    LET s == session[w] IN
    /\ At(w, "save") /\ ~RowLocked(w, s.key)
    /\ incident' = [incident EXCEPT ![s.key] = Assess(@, s.held, s.score)]
    /\ owed' = owed \ {s.key}
    /\ Move(w, Idle)
    /\ UNCHANGED <<stored, alert, ioc, timeline, replies, overtaken>>

-----------------------------------------------------------------------------
\* A handler whose rows are gone can only fail at its next step.  Only detection survives it:
\* each alert of the lost event is refused like a duplicate, and the answer names no incident.
AfterReset(w, s) ==
    IF s.step \in {"idle", "reply"} THEN s
    ELSE IF w \in Tasks /\ s.step = "detect" /\ s.event \notin Undecided
    THEN [step |-> "reply", event |-> s.event, found |-> {}]
    ELSE Doomed

\* reset_demo deletes every row in one transaction, which waits for rows that others
\* have flushed.
Reset ==
    /\ DemoMode
    /\ \A w \in Workers : ~At(w, "commit")
    /\ stored' = {}
    /\ alert' = [a \in Alerts |-> NoAlert]
    /\ incident' = [k \in Keys |-> NoRow]
    /\ ioc' = [k \in Keys |-> [v \in Values |-> "ABSENT"]]
    /\ timeline' = [k \in Keys |-> {}]
    /\ owed' = {} /\ overtaken' = {}
    /\ session' = [w \in Workers |-> AfterReset(w, session[w])]
    /\ UNCHANGED replies

Fail(w) ==
    /\ session[w] = Doomed
    /\ Move(w, Idle)
    /\ UNCHANGED <<rows, replies, owed, overtaken>>

\* The process dies, or the database refuses the commit.
Abort(w) ==
    /\ session[w] # Idle
    /\ Move(w, Idle)
    /\ UNCHANGED <<rows, replies, owed, overtaken>>

Call(w) ==
    \/ w \in Tasks /\ \E e \in Events : Store(w, e) \/ Duplicate(w, e)
    \/ w \in Tasks /\ \E k \in Keys, v \in Values : EnrichLoad(w, k, v)
    \/ w \in Threads /\ DemoMode /\ \E e \in DemoEvents : Store(w, e)

Continue(w) ==
    \/ Detect(w) \/ DetectFails(w)
    \/ \E r \in Rules : Lookup(w, r)
    \/ JoinConflict(w) \/ JoinFlush(w) \/ JoinRefused(w) \/ JoinCommit(w)
    \/ Finish(w) \/ Reply(w)
    \/ DemoFails(w) \/ DemoMark(w)
    \/ \E k \in Keys, v \in Values :
         At(w, "correlate") /\ \E row \in {session[w].seen[k], incident[k]} \ {NoRow} :
                                  DemoRead(w, k, v, row)
    \/ \E malicious \in BOOLEAN : Enrich(w, malicious)
    \/ Rescore(w) \/ Save(w) \/ Fail(w)

Run(w) == Free(w) /\ Continue(w)
Next ==
    \/ \E w \in Workers : (Free(w) /\ Call(w)) \/ Run(w) \/ Abort(w)
    \/ Reset

Spec == Init /\ [][Next]_vars

\* Nothing dies.  A loop runs its ready callbacks in turn, hence strong fairness.
FairSpec ==
    /\ Init /\ [][\E w \in Workers : (Free(w) /\ Call(w)) \/ Run(w)]_vars
    /\ \A w \in Workers : SF_vars(Run(w))

-----------------------------------------------------------------------------
(* Properties. *)

\* Every variable holds a value of the kind its column or object has.
TypeOK ==
    /\ stored \subseteq AllEvents
    /\ alert \in [Alerts -> Keys \cup {NoAlert, Unlinked}]
    /\ incident \in [Keys -> Row \cup {NoRow}]
    /\ ioc \in [Keys -> [Values -> Verdicts]]
    /\ timeline \in [Keys -> SUBSET ({"INCIDENT_CREATED", "ALERT_CORRELATED"} \X Alerts)]
    /\ replies \subseteq [event: AllEvents, duplicate: BOOLEAN, incidents: SUBSET Keys]
    /\ owed \subseteq Keys
    /\ overtaken \subseteq Keys \X Values
    /\ session \in [Workers -> Session]

\* Whatever races for a correlation key, its incident is created once, and is made of exactly
\* its alerts: one entry of each on its timeline, and all indicators of their events.
CreatedOnce ==
    \A k \in Keys :
        /\ Exists(k) <=> \E a \in Alerts : <<"INCIDENT_CREATED", a>> \in timeline[k]
        /\ \A s, t \in timeline[k] : s[1] = "INCIDENT_CREATED" /\ t[1] = "INCIDENT_CREATED" => s = t
        /\ \A a \in Alerts : alert[a] = k <=> \E t \in timeline[k] : t[2] = a
        /\ \A s, t \in timeline[k] : s[2] = t[2] => s = t
        /\ \A a \in Attached(k) : EventIocs[a[1]] \subseteq Known(k)
        /\ ~Exists(k) => Known(k) = {}

\* Whatever races and crashes, incidents are as CaseBook says: an alert joins once, at once with
\* all its indicators, and neither it nor a verdict is ever lost to another handler's commit
\* (correlation.py:69-113).
Book == INSTANCE CaseBook WITH
    KeyOf <- Key, IocsOf <- [a \in Alerts |-> EventIocs[a[1]]],
    book <- [k \in Keys |-> [alerts |-> Attached(k), known |-> Known(k), bad |-> Bad(k)]]
ImplementsCaseBook == Book!Spec

\* An incident is at least as severe as each of its alerts.
SeverityCoversAlerts ==
    \A k \in Keys : \A a \in Attached(k) : incident[k].severity >= Severity[a[2]]

\* The stored level is the one of the stored score, and the score the one of the alerts and
\* verdicts stored with it, except for an incident whose rescoring is still owed after a verdict.
\* A score may miss one verdict only, that of an indicator that another enrichment was asking
\* about at the same time: it reads the object held since before its await
\* (correlation.py:15-41, 108-123; routes.py:723, 750-755).
RiskUpToDate ==
    \A k \in Keys : Exists(k) =>
        /\ incident[k].level = Level(incident[k].score)
        /\ k \notin owed =>
             \/ incident[k].score = Score(Attached(k), Bad(k))
             \/ \E v \in Bad(k) : /\ <<k, v>> \in overtaken
                                  /\ incident[k].score = Score(Attached(k), Bad(k) \ {v})

\* Each alert that the event's rules ask for has joined the incident of its key.
Correlated(e) == \A r \in Rules : r \in Matches[e] => alert[<<e, r>>] = Key[<<e, r>>]

\* The first answer to a delivery comes only when every alert of the event has joined
\* the incident of its key, and names exactly these.
AnsweredIsCorrelated ==
    \A p \in replies : ~p.duplicate =>
        /\ p.incidents = {Key[<<p.event, r>>] : r \in Matches[p.event]}
        /\ Correlated(p.event)

\* A duplicate delivery is answered with the same incidents as the first one.
RepliesNameIncidents ==
    \A p \in replies : p.incidents = {Key[<<p.event, r>>] : r \in Matches[p.event]}

\* Every stored event is detected, and each of its alerts joins an incident.
StoredIsCorrelated ==
    \A e \in AllEvents : e \in stored ~> Correlated(e)
=============================================================================
