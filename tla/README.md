# GhostSOC in TLA+

Specifications of the GhostSOC backend (`src/backend/app`), the TLC configurations that check them on
small instances, and TLAPS proofs of what matters most.

## The system

GhostSOC is a FastAPI service over one SQL database. Telemetry and web requests become security events;
rules turn events into alerts; alerts are correlated into incidents with a risk level; analysts enrich,
investigate and respond; a memory service keeps what was learned.

Two facts about how it runs shape every module.

- **Handlers and threads.** Endpoints declared `async def` run on the event loop of a process and are
  atomic between two `await`s. Endpoints declared `def` run on a thread pool, truly at the same time as
  the loop and as each other. More than one backend process may serve one database (`README.md:140`
  speaks of multiple replicas and only warns about the in-process broker).
- **Sessions.** Each request has its own SQLAlchemy session (`core/database.py:18-26`) with `autoflush`
  and `expire_on_commit` off. A row is read once, kept in memory, changed there, and written at the
  commit. There is no row version and no `SELECT ... FOR UPDATE` anywhere, and the database runs at READ
  COMMITTED. Assigning an attribute the value it already has in memory writes nothing. What protects
  concurrent handlers from each other is unique indexes only.

So a handler is modelled as a sequence of steps, one per point where another session may commit in
between, and what a session has read is part of its state.

## Inventory

| component | state | operations | what is hard | what makes it correct |
|---|---|---|---|---|
| response orchestration (`services/response.py`, routes 662-701, 803-837, 1089-1110) | `response_actions`, `incidents.status`, timeline, audit | request, decide, PATCH, demo run | two sessions deciding one row, two inserting one key, stale incident status, crash before commit | nothing runs that needs approval and has none; a key buys one execution; a status is what somebody asked for or a decision left |
| ingestion, detection, correlation (`services/ingestion.py`, `detection.py`, `correlation.py`) | events, alerts, incidents with severity, risk and IOCs | ingest, detect, correlate, recalculate | commits between the stages, crash and retry, lost updates of severity and risk | an answered event is correlated; an incident is created once; severity and risk reflect what is attached |
| detection rules (`detection.py` 33-132) | the table of rules | validate, sync, evaluate | conditions of names, `and` and `or` | alerts are of the rules that the event satisfies |
| web detection (`services/web_detection.py`, `api/web_security.py`) | web requests, attack aggregates, alerts, incidents | ingest, upsert, update, demo, reset | counters and windows, escalation, stale aggregates, a session that outlives its reads | counts match the requests, attacks and incidents are made once and together |
| security memory (`services/hindsight.py`, `api/memory.py`) | `memory_experiences`, the external store | retain, learn, update, hook, recall | commit, remote call, commit; version check on a stale row; posts that arrive late | what analysts wrote stays; only what the store acknowledged is shown |
| agent (`services/agent.py`) | `investigation_recommendations` | recommend | provider failure, cited history | no citation that recall did not return |
| live monitor (`services/realtime.py`, `web_security.py` stream, `LiveSecurity.jsx`) | broker history, one queue per subscriber, the page | publish, subscribe, disconnect, load, reload | full queues, changes nobody publishes, order of commit and publication, load against stream, rows cut by limits | order is kept; what a queue loses is the oldest; the newest arrives; a quiet page is current, or missed the news in a known way |
| connectors (`connectors/registry.py`, `base.py`) | `connector_states` | list, check, enable, disable, restart | a probe that ends after the connector was switched | the switch is the administrator's; healthy means found healthy |
| IOC enrichment (routes 717-756, `connectors/cti.py`) | `iocs.enrichment`, verdict, cache | enrich | row read before an `await`, written after it; retries | a verdict stands for evidence, quotas are spared |
| evidence, reports, reset (`services/investigation.py`, `reporting.py`, routes 704-714, 840-888, 1152-1195) | `evidence`, `reports`, files | collect, export, reset | file and row written at different times, reset under running handlers | a listed report has its file; nothing outlives its incident |
| access (`core/security.py`, `api/dependencies.py`) | users, roles, tokens | login, permission check | | a handler runs only for a role that may |
| bootstrap and configuration (`core/bootstrap.py`, `core/config.py`, `main.py`) | policy, admin account, rules | seed at start | several processes start at once | seeds once |
| search, visualizations, frontend, telemetry connectors, migrations, installers | none of their own, or derived | read, index, render | | mostly out of scope, see below |

How they interact: every component shares the database. Ingestion and web detection create the incidents that
response, enrichment, evidence, reports and memory work on; enrichment and web detection call the rescoring of
correlation; closures and approvals call the memory's hook; web handlers publish to the live broker after
their commit; the two resets delete rows under all of them.

## Modules

| module | models | code |
|---|---|---|
| `Access` | the role table and `require_permission` | `core/security.py:14-35`, `api/dependencies.py:21-63` |
| `Response` | requests, decisions, PATCHes and demo runs as interleaved sessions | `services/response.py`, routes 662-701, 803-830, 1073-1110 |
| `ResponseLedger` | the abstract promise about idempotency keys: opened once, closed once | refined by `Response` |
| `Ingestion` | deliveries, detection, correlation, enrichments that hold their indicator across an `await`, rescoring, demo runs, reset as interleaved sessions | `services/ingestion.py`, `detection.py:135-166`, `correlation.py`, routes 191-215, 717-755, 1035-1073, 1152-1187 |
| `CaseBook` | the abstract promise of correlation: an alert joins once, with all its indicators; verdicts stay | refined by `Ingestion` |
| `RuleMatching` | how a rule is validated, synchronized and evaluated on an event, and on which events evaluating one raises (no state) | `detection.py:33-132` |
| `Detection` | `Ingestion` with the rules of a table that `RuleMatching` evaluates on the events' contents | `detection.py:135-166` with both |
| `Risk` | the arithmetic of incident risk and how it is written back; used by `Ingestion`, `WebDetection`, `Casework`, and its `Flush` by `Memory` | `correlation.py:11-41`, `117-120` |
| `WebCandidates` | which categories a web request is a candidate of: signatures, signals, and six behaviours over time windows (no state) | `web_detection.py:119-228` |
| `WebDetection` | deliveries, aggregation, escalation, rescoring, analyst updates, the web demo and the NovaBank loader's deliveries, both resets, as interleaved sessions | `web_detection.py:85-101`, `231-433`, `web_security.py:74-111`, `166-214`, `518-679`, `722-771`, routes 1152-1187 |
| `Memory` | retain, learn, update, the hooks, recall and recommendation, with the remote store, its failures and late posts | `services/hindsight.py`, `services/agent.py`, `api/memory.py` |
| `Live` | handlers that store and publish, changes without a publication, the broker, the streams, the connection, and the page that loads, reloads, follows and cuts its list | `services/realtime.py`, `services/search.py`, `web_security.py` (publication, stream), `novabank.py:52`, routes 1152-1195, `LiveSecurity.jsx:129-221` |
| `Feed` | the abstract promise of the stream: in order, at most once | refined by `Live` |
| `Connectors` | the list, the checks with their awaited probe, the switch, restarts | `connectors/registry.py`, `connectors/base.py` |
| `Cti` | what each provider makes of a reply, with its retries (no state) | `connectors/cti.py` |
| `Casework` | enrichment with its cache, evidence, reports with their files, the demo reset | routes 704-756, 840-888, 1152-1195, `services/investigation.py`, `services/reporting.py` |
| `Response_proofs`, `Ingestion_proofs`, `IngestionSerial_proofs`, `Memory_proofs`, `Live_proofs`, `Connectors_proofs`, `Casework_proofs`, `WebDetection_proofs` | TLAPS proofs, see below | |
| `MC_...` | the small instances | |

Definitions under a comment that starts with "Mutant:" are deliberate bugs of the code. Nothing uses them in
the specifications; each shows that a property notices that bug.

### How state and actions correspond to the code

*Rows.* A table is a function from a row's unique key (idempotency key, event and rule, correlation key)
to a record of the columns that matter, or to `NoRow`. A commit is one step.

*Sessions.* `session[w]` (`task[h]` in `Connectors` and `Casework`, `handler[h]` in `Live`) is the handler that
worker `w` runs and what its session holds in memory: the row as it was loaded (`held`), what it has computed
(`score`), what it will insert (`fresh`). A worker is an event loop or task, which runs `async def` endpoints, or
a pool thread, which runs `def` endpoints. In `Response` a loop is one worker, since none of its handlers awaits
between load and commit. In `Ingestion` and `WebDetection` several tasks share a loop, and `Free` lets a task run
only while no other one of its loop is between two awaits. In `Connectors` and `Casework` a handler interleaves
at every step with the others: one of two is always on a pool thread or awaiting.

*Writes.* `Flush(inMemory, new, current)` is what SQLAlchemy does at a commit: a column is in the UPDATE
only if the new value differs from the one the session loaded. This is why a handler may fail to write
what it just computed, and why score and level of one incident can come from different sessions.

*Unique indexes and locks.* An INSERT that meets a committed row of the same key fails (`CreateConflict`,
`JoinConflict`, `JoinRefused`, `Duplicate`); one that meets an uncommitted row waits (`InsertBlocked`), as
does an UPDATE of a row that another transaction has updated (`RowLocked`).

*Rules.* Which enabled rules match an event (`Matches`), and on which events evaluating one of them raises (`Undecided`),
are constants of `Ingestion`, so that its proofs hold for any rules. `Detection` assumes them to be what `RuleMatching` computes.
A rule that raises ends the delivery after the event's commit and before any alert's (`DetectFails`); the retry
is answered as a duplicate without incidents.

*Failure.* `Abort(w)` ends a handler at any step: what it committed stays, its memory is lost. It stands
for the death of the process, a failing commit, and a database deadlock resolved against this session.
In `Ingestion` and `WebDetection`, `Reset` deletes all rows in one transaction, and a handler that held some
can only fail. One at detection does not: `detection.py:163` takes the refusal of its alerts for duplicates, and it
goes on with none (`AfterReset`). `WebDetection` dooms every handler whose request was deleted (`Gone`), also where the code
would only update an attack that a web reset left (`web_detection.py:265-297`) and succeed: such a handler ends earlier
in the model than in the code. `WebReset` deletes what the web demo left, and is refused where a foreign key would dangle. In
`Casework` the reset is taken apart, since it reads file names, deletes, commits and removes the files in turn.
`Live` and `Connectors` have a `Restart` of the process, which loses what only memory held.

*Web requests.* What detection reads of a request (source, host, time, path, user, session, matched
signatures, resolved upstream signals) is the constant `Payload`; the thresholds of the behaviours and of
escalation are constants, so that an instance needs few requests. An attack is keyed by source, host,
category and quarter of an hour, its incident by source, host and four hours. `timeline` keeps one entry
per request of an attack and is what the counts are compared with; it is a set, so repeated entries of
analyst updates are one. `answered` is what clients know: the deliveries answered as new. A demo (`replay[w]`)
delivers its requests in one session with pauses in between; while a pause lasts the handler still refers
to the attacks of its previous request, so the session does not read these anew (`AttacksHeld`).

*Memory.* A row is a version, a status and an experience: how often the incident had changed when it was taken
(`facts`), what the retain endpoint wrote (`review`), the list of notes. A handler reads the row, merges,
commits it `PENDING`, posts it, and commits what became of the post. A post that timed out is in `late` and may
arrive at any time, or never.

*Enrichment.* `enrich_ioc` reads its indicator before it awaits the providers (`routes.py:723`) and keeps that object to
the end: the verdict it writes and the risk it computes see its own indicator as it was then, the others as the
table has them (`EnrichLoad`, `Accused` in `Ingestion`; `Ask`, `Judged`, `MaliciousFor` in `Casework`).

*Live.* A message is its number in `log`; queues, history and `wire`, the connection, hold numbers. A record has versions, its
deletion is the last one; `StoreSilently` stores one that nobody publishes (the NovaBank load, the two resets, any other
process). `page[c][l]` is the answer to a load that the server has computed and the browser not yet applied; a load's requests
are answered at one point in time. Loads and the page cut their rows (`Limited`); which ones go is left open, since the code cuts by
arrival, by severity and by time. A record is `missed` by a page from the moment on at which it may lack its last version, each
way being named in the action; opening the page anew clears it.

*Casework.* Providers answer out of `Replies`, once or twice as the retry policy has it; `Cti` says what each makes
of it. A report's content is what it shows of the incident: evidence, risk, indicators, depending on its format.

*History variables* (`confirmed`, `saved`, `overlapped`, `switch`, `contested`, `proven`, `accused`, `torn` and
the like) record what happened and are read by no action that models code. Each property that needs an exception
states it with one of them: which handler wrote over a row it had not seen, which two switches passed each other by.

*External.* SQLAlchemy's attribute history and the database's locks, from how `src/` uses them; the Hindsight store,
the CTI services and the inference provider as what they may answer.

## Runs

| run | bounds | what it shows |
|---|---|---|
| `response_serial` (464,482 states) | 1 loop, 1 thread that patches, 3 users, 2 keys, 5 requests (a valid pair that differs in type, and one refused by each check) | with crashes at every step, request and approval implement `ResponseLedger` |
| `response_racing` (473,626) | 2 loops, 1 thread with a demo run, 2 users | whatever races and crashes: the approval gate; an incident's status is one that a PATCH, a request, a decision or a demo run explains; one idempotency key stands for one action with one reservation in the trail |
| `response_live` (169,584) | 1 loop, 1 thread with a demo run, risk changing | the demo run leaves no isolation undecided |
| `ingestion_serial` (558,947) | 1 loop, 2 tasks that deliver and enrich, 3 events, one of them such that a rule which mixes `and` and `or` raises, 2 rules of different severity, 1 key, 2 indicators | with crashes at every step, severity covers the alerts, score and level follow what is attached, except for one verdict of an indicator that two enrichments asked about at once; a first answer means that the event is correlated, alerts are those the rules' conditions mean |
| `ingestion_racing` (827,712) | 2 loops, 1 demo thread, reset, 1 key, 1 indicator | the incident of a key is created once, timeline, alerts and indicators agree; the tables implement `CaseBook` |
| `ingestion_live` (232,038) | 1 task, 1 thread with two demo runs, 2 keys, 1 indicator | every stored event ends in its incidents; duplicates are answered with the same ones |
| `web_serial` (1,439,128) | 1 task, 4 requests of one source within 400 s, thresholds 2 and 3, list of 2, one verdict, one status | with crashes at every step and in any order of arrival: every answered request is counted once, a brute force is noticed, an incident covers its attacks, risk is up to date, an attack never becomes less sure |
| `web_racing` (1,414,949) | 2 loops, 3 requests of one attack, one of them with a second category, a demo that delivers the other two in one session, both resets | attacks, alerts and incidents are created together and once, the bounded list fits the count |
| `memory` (331,710) | 2 threads, 2 related incidents, 1 review, 1 decision, 1 correction, 2 versions, 1 change of an incident, recall of 1 | notes are kept and entered once, what is shown was acknowledged, recommendations cite what was recalled, no row stays `PENDING` |
| `live` (221,202) | 1 browser, 2 handlers, 2 records of 2 versions, history 2, queue 2, 1 message in the connection, 1 load at a time of 1 row, 1 row kept, 4 messages between restarts | queues hold the newest, the stream implements `Feed`, a quiet page shows what is stored unless it missed the news in a named way, the newest message arrives |
| `connectors` (92,174) | 1 connector of any kind, 2 handlers, any settings before and after restarts | the switch holds; what is listed as healthy was found so |
| `casework` (2,062,444) | 2 interchangeable handlers, 1 address, AbuseIPDB with a key answering bad, good or with a server error, 1 format, 2 hours, 2 cache entries, 1 item of evidence, 2 reports | verdicts are the providers' evidence, reports bear out their risk, rows have files, nothing outlives the incident, the cache spares the quota |

All runs find no error. Why the bounds are enough. Conflicts are between two sessions over one row, so two writers and a key
already meet in every way; the third worker (the demo run) is there because it is requester, approver and
ingester at once. A second key shows that nothing leaks from one to the other (`response_serial`,
`ingestion_live`). Two rules of different severity and confidence, with two indicators, reach all four
risk levels. In the racing run of `Ingestion` two events suffice: one wins the key, the other must join.
Four web requests are one more than it takes to
confirm an attack and two more than its list keeps, so the list is cut; three login failures at 0, 200 and
300 s are as many as a brute force needs here and arrive in every order. Racing needs two sessions over one
attack and a third request that finds it changed. In `memory` two handlers meet over one row while a second incident
is asked for; a version more would repeat what the second did. In `live` four messages overflow a queue of two while
one is in the stream's hand; with two records a limit of one row cuts one of them, in a load and on the page. For safety the proofs remove these bounds, see below.

Where passing runs stop, and why:

- `SeverityCoversAlerts` and `RiskUpToDate` hold in one process without demo runs: score and level are written
  column by column from what a session read, so two sessions may leave one's score with the other's level. Also in one process
  two enrichments may ask about one indicator at once; the one that read it before the other's malicious verdict computes the risk
  without it, and that is what stays (`routes.py:723`, `correlation.py:117`). `RiskUpToDate` allows such an indicator
  (`overtaken`) to be missing from the score, and nothing else. In the same
  way the counts and severities of `web_serial` hold in one process; two of them may lose a request from an
  attack's count, which is why `RelatedMatchesCount` only bounds it in `web_racing`.
- `RepliesNameIncidents` and `StoredIsCorrelated` hold without crashes, resets and rules that raise, and as long as sessions that race
  for one incident bring different indicators.
- `FreshUnlessMissed` except records of which the page missed the last news, in the ways its comment lists: nobody published it or
  not in order, the page had no stream, or its queue, the connection, a load or a limit lost it.
- `NotesKept`, `SwitchHolds`, `QuotaSpared` and `LatestDescribesFile` except incidents, connectors, indicators and
  files that a handler wrote over without having seen them.

Fairness. Safety runs assume none. `response_live` and `ingestion_live` assume that a handler that has
begun is scheduled until it ends and that nothing dies (`FairSpec` has no `Abort` and no `Reset`). Calls
and resets are never fair: clients may stop. On an event loop a task may be ready again and again between
other tasks, and the loop runs its ready callbacks in turn, so `Ingestion` takes strong fairness of
`Run(w)`; pool threads are scheduled by the operating system. `Memory` is weakly fair in `Proceed(w)`, the steps of a
handler that has begun, including that its HTTP client gives up after its timeout (`hindsight.py:95-102`); that a
late post arrives is not assumed, and crashes stay in. `Live` is weakly fair in what the event loop does for a
stream (`Serve`) and in a browser's reading what arrives (`Receive`), nothing else: reconnects and answers to loads may
fail to come, handlers may fail to publish, and disconnects and restarts happen at any time.

## Proofs

The theorems hold for any number of handlers, rows, keys and messages, with the assumptions of the modules, which
TLC evaluates in every run. Each rests on an inductive invariant that says what handlers in flight hold.

`Response_proofs`:

- `TypeCorrect`: `Spec => []TypeOK`.
- `ApprovalGated`: `Spec => []ApprovalGate` with any races and crashes, and that DENIED means CANCELLED. `ApprovalGate` is
  not inductive: what protects a row is in the memory of the sessions. The inductive invariant `BaseInv`
  adds what a session in flight knows: one that decides holds a user who may approve and an action that
  needed approval and exists; one that inserts holds a key of the API, never one of a demo run; a demo run
  is on one thread only, its isolation key is taken after its collection key, and its user may approve.
- `StatusIsExplained`: `Spec => []StatusExplained`, in the same setting. Sessions assign the status of an incident object read
  long before, and assigning what the object holds already writes nothing (`Flush`). `StatusInv` adds what makes this harmless: a
  session whose object says `CONTAINMENT_PENDING` is at an incident that has left `NEW` for good, or was put back by an analyst
  (`HeldFacts`). The branch that contains an incident after a verified result (`response.py:173-179`) is in the model; no adapter
  returns such a result, so it is never taken.
- `KeyReserved`: `Spec => []ReservedOnce`, in the same setting: one key, one action, one `RESPONSE_REQUESTED`
  that names its requester, and whoever is answered with the action asked for it, except the loser of an insert race. It rests on the rows
  never changing their request (`ActionsStay`).
- `SerialReply`, `SerialDecidedFinal`, `SerialRefinement`: with one process and no demo run, a 201 names an
  action for the request, a decided action is final, and `Response` refines `ResponseLedger` (initial
  states map to initial states, each step to a step or a stutter). Here `SerialInv` says that a
  key a session is about to insert is still free and an action it is about to decide still undecided.

`Ingestion_proofs` and `IngestionSerial_proofs`:

- `IngestionTypes`, `IngestionCreatedOnce`: with any processes, demo runs, verdicts, resets and crashes. `IngInv` adds
  to the two properties what handlers hold (`Sound`: the alerts still to do are unlinked, incidents held exist, the
  indicators of the event are known or about to be inserted) and what keeps two of them apart (`Apart`: never two on one
  event, no commit to an incident that another is inserting).
- `IngestionImplementsCaseBook`: in the same setting, `Ingestion` refines `CaseBook`. The commit of a join maps to `Join`, a
  malicious verdict to `Accuse`, the reset to `Clear`, every other step to a stutter. That a join
  overwrites no verdict, and that an incident's indicators grow by no more than the event's, needs `BookInv`: what a handler is
  about to insert is among the indicators of its event, is not yet in the incident, and is not inserted by any other
  handler at the same time. The unique index on an incident's indicators is what makes it so (`JoinFlush`).
- `IngestionAnswered`: without demo mode, in any number of processes and with crashes, a first answer names exactly the
  event's incidents, which it has joined. `AnswerInv` follows a delivery: what is not to do any more has joined.
- `DetectionMeans` (`AlertsAreDetections`): in the same setting and for any table of rules, an event whose delivery was
  answered has alerts of exactly the enabled rules whose condition it satisfies. By `DecidedMeans`, evaluating a condition
  that can be looked up to its end gives what the condition means; by `DetectInv`, only an event on which no
  rule raises gets past detection, and it has no alert of a rule that did not match. A demo reset deletes the
  alerts of answered events, hence no demo mode.
- `IngestionSeverity`, `IngestionRisk`: in one process without demo runs. `SerialInv` says that all handlers but one wait or
  await their providers, and that what this one holds is what is stored (`Current`), except the verdict of its own indicator:
  an enrichment that does not know a verdict its indicator has got is `overtaken` (`Informed`), and its score lacks that one
  verdict only (`Counted`). So the exception of `RiskUpToDate` is exact for any number of overlapping enrichments.
- `IngestionReplies`: on one event loop, while nothing dies (`FairSpec` without its fairness), every answer, first or
  repeated, names the event's incidents. Demo runs may share the incidents of clients' events as long as they bring other
  indicators (`Unmixed`); one that brings the same makes an insert fail, which is why the assumption is there. `NameInv`: all tasks
  but one wait, so no repeated delivery is answered while another is at its event; what is stored has joined its incidents
  or is with a task that will join them; and a task about to insert indicators finds none of them there, so it is not
  refused (`NeverRefused`).

`Memory_proofs`: `MemoryTypes`, `MemoryNotesKept`, `MemoryShown`, `MemoryProvenance`, with any overlap of handlers,
posts and resets. `MemInv` relates what writers, posters, settlers and readers hold to the row by its version: a row
that a handler has read is an earlier one, and if it is as old as the stored one it is the stored one.

`Live_proofs`: `LiveTypes`, `LiveNewest`, and `LiveImplementsFeed`, the refinement of `Feed`. `LiveInv` says that every
queue is an unbroken run of message numbers up to the newest and above what was sent. `LiveFresh`: `FreshUnlessMissed`, with
any number of handlers and of overlapping loads, and for all sizes of queues, connections and lists, by `FreshInv`.
Of a record whose handlers have all published and of which the page has missed nothing: if news of it is on its
way, in queue, stream or connection, the last of it has the stored version; if none is, the page shows that version, or will when
an answer under way is in (`AllCurrent`). Nobody, page or handler or message, knows a version that is not yet
stored (`NothingNewer`). What is in the connection is in order and older than what waits (`AllInOrder`), hence what arrives is not the last
news as long as more is to come.

`Connectors_proofs`: `ConnectorsTypes`, `ConnectorsSwitch`, `ConnectorsHealthy`, by what a check or a switch in flight
has loaded, against what was committed since.

`Casework_proofs`: `CaseworkTypes`, `CaseworkRowHasFile`, `CaseworkNoOrphans`, `CaseworkVerdict`. `CaseInv` follows report
makers and resets through their phases (the file before the row, the rows before the files); `VerdictInv` says that a
malicious verdict, also one a handler has yet to merge, is grounded in a reply. Three further theorems each add an invariant
of their own to `CaseInv`:

- `CaseworkExplains` (`ReportExplainsRisk`): every risk that an incident has, a handler is about to write or a report maker has
  read is borne out by the indicators that are malicious by now; verdicts are never taken back (`RiskInv`), so the
  indicator that a handler has held since before its `await` can only lower the risk it writes.
- `CaseworkLatest` (`LatestDescribesFile`): a report maker between its file and its row finds its own report in the file, or
  the format is in `torn` (`FileInv`).
- `CaseworkQuota` (`QuotaSpared`): an answer of this hour is in the indicator's list of results, or a handler that
  had not seen it wrote over the list (`QuotaInv`).

`WebDetection_proofs`:

- `WebTypes`, `WebCreatedTogether`: with any processes, demos, verdicts, resets and crashes. `IInv` says what is whole
  of an attack and of an incident, and what handlers hold: an attack that one has read is still there with its alert and
  its incident, since the resets doom the handlers whose rows they delete.
- `WebRelatedMatchesCount`, in the same setting. Two handlers overwrite each other's counts, so nothing exact holds; what
  does is that a copy of an attack, however stale, counts no more than the timeline has (`Counted`). `DInv` carries this
  through the copies of handlers and demos. It also needs that a request still to be counted is on no timeline and with
  no other handler: the unique request id lets one delivery through (`DeliveriesOK`).
- `WebAnswered`: outside the demo mode, in any number of processes, a delivery that was answered is on the timeline of each
  attack that its signatures and signals name. `AInv` follows it: what is not to do any more is on the timeline.
- `WebCounted`, `WebSeverity`, `WebRisk` and the action property `WebSureness`: outside the demo mode, on one event loop, with any
  number of tasks and with crashes. `SerialInv` says that all handlers but one wait, that what this one holds is what is
  stored, and that what is stored fits (`StoredFits`): count and confirmation of an attack with its timeline, an alert with
  its attack, an incident with its alerts. Only with all of these is any one of the properties inductive.
- `WebBruteForce` (`BruteForceNoticed`), in the same setting: `NoticeInv` says that of login failures that suffice and have all been
  dealt with, one is on the timeline of their brute force; and that a delivery that would be the last of such a set has the
  brute force behind it or still to do.

Types of `Ingestion`, `Memory`, `Connectors` and `Casework` are stated by a theorem instead of a run.

Only model-checked: liveness (`DemoDecides`, `StoredIsCorrelated`, `PendingSettles`, `NewestArrives`), which is out of
the prover's reach. `RuleMatching` and `Cti` have no state; what a condition evaluates to is proved (`DecidedMeans`), what a
field, a modifier or a provider's reply comes to is checked on the instances' inputs.

## Where the code and its documents differ

Seen while modelling. None is hidden by a model: each is a behaviour of its module or named here as left out.

- `docs/RESPONSE_POLICY.md:25,30` says that an action is decided once and a second decision gets 409. Two sessions
  that have both loaded the row undecided decide it twice (`response.py:156`); hence `ResponseLedger` is refined by one
  process without demo runs.
- `docs/RESPONSE_POLICY.md:30` says that a key reused with changed parameters gets 409. A request whose INSERT loses the
  race for its key is answered with the winner's action, whatever that one is for: parameters are compared only with a row
  that the lookup finds (`response.py:62-71`, `112-116`). `ReservedOnce` excepts that answer (`"lost"`); in one process
  there is none (`SerialReply`).
- `docs/ARCHITECTURE.md:45` has malicious IOC results in the risk. Of two overlapping enrichments of one indicator, the one that read
  it first may write the risk back down, without the malicious verdict that the other one has committed: it computes from the object
  it has held since before its `await` (`routes.py:723`, `correlation.py:117`). The next rescoring corrects it.
- A NovaBank load stores its requests and attacks without a notification (`novabank.py:52`), and the demo reset deletes
  without one (`routes.py:1152-1195`): a live page shows neither change until it loads anew.
- `Documentation.md:279` and `tests/test_detection_pipeline.py:48`: an event that was stored when its handler died, or whose
  indicator another session added first, stays without incident, and its retry is answered as a duplicate without
  any (`ingestion.py:24-29`, `correlation.py:92-106`).
- `docs/WEB_SECURITY.md:26`: an attack confirmed by an upstream signal becomes less than confirmed with the next request
  that carries none (`web_detection.py:271`); confidence stays.
- `realtime.py:13-14` and `docs/ARCHITECTURE.md:18` count on clients that reload when they reconnect; the live page does
  not (`LiveSecurity.jsx:158`).
- A disabled CTI connector is still asked by an enrichment that names it, and a connector's stored status is shown after a restart with
  other settings until it is checked (`registry.py`).
- A rule that mixes `and` and `or` passes validation and raises when it is evaluated, after the event is committed
  (`detection.py:52`). No bundled rule does; `ingestion_serial` has one that does.
- A reply that is a JSON list makes URLhaus and MalwareBazaar raise, and so does an answer of AbuseIPDB or VirusTotal whose data
  or attributes are no object (`cti.py:210`, `222`, `302`, `316`); the whole enrichment fails with them (`cti.py:337`). An answer of
  AbuseIPDB or VirusTotal without a score counts as clean.
- The file of a report is overwritten by the next one of its format, so that older rows' hashes no longer fit
  (`reporting.py:222`); a reset that races with a report may leave a file without a row; a report's lists may be newer than the risk
  it shows.
- Overlapping enrichments of one indicator lose each other's results, not the verdict (`routes.py:749`).
- The web demo writes over what others have committed to its attacks during its pauses; over the end of a four-hour
  window it makes two incidents and fails at the second one's response (`web_security.py:647`). A NovaBank load
  that stopped halfway cannot be repeated: its request ids are fixed (`novabank.py:46`).
- `last_seen` is the time of the request handled last and may precede `first_seen` (`web_detection.py:267`).
- Two processes that start on an empty database both try to create the administrator (`bootstrap.py:36`).

## Plan

1. `Web`: risk and severity in several processes, with the exceptions that overlapping handlers make, as `Memory` states them.
2. Login, tokens and lockout, should `Access` get state; the coverage rows of the catalogue.

## Not modelled

- Rendering and queries (frontend pages other than the live monitor, visualizations, MITRE tables), payload
  normalization of telemetry connectors, password and token formats, migrations and installers. These keep no
  state that the behaviours above depend on, or run alone.
- Search documents: nothing reads them back; `Live` has only when they are written and that it may fail.
- Downloads only read a file, and may read one that is just being written. The demo run's canned enrichment and evidence
  are not in `Casework`; a provider named twice in a request is taken as named once.
- The NovaBank titles, by which a second load is refused, and its note to the memory; coverage rows; `response_status`.
- In `Live`, the view that the web demo publishes of an attack it holds a stale copy of counts as the version the demo has committed; the second
  list of the page, attacks beside requests, is left out.
- Heartbeats of the stream carry nothing. Check times, versions and messages of connectors are left out.
- The wording of titles, summaries and audit details is left out everywhere.
