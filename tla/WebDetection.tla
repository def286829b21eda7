---------------------------- MODULE WebDetection ----------------------------
(***************************************************************************)
(* From a web request to aggregated attack detections, their alerts and    *)
(* their incident: create_web_request, ingest_web_request, _upsert_attack, *)
(* update_attack and the two resets.                                       *)
(*                                                                         *)
(* A delivery commits its request, then for each category it is a          *)
(* candidate of two transactions: the aggregate with its alert, incident   *)
(* and timeline, and the incident's risk.  What the event of a request     *)
(* goes through as a security event is module Ingestion; verdicts on       *)
(* indicators are too.  The web demo and the NovaBank loader deliver a     *)
(* sequence of requests in one database session; the loader does so from a *)
(* pool thread, which is a loop of its own here.                           *)
(***************************************************************************)
EXTENDS WebCandidates, Risk, Sequences, SequencesExt

CONSTANTS
    Tasks, Loops, LoopOf,    \* handlers, and the event loop or thread each runs on
    Severity, Confidence,    \* per category, 0 (INFO) to 4 (CRITICAL), and percent
    LIKELY, CONFIRMED,       \* requests that make an attack likely and confirmed
    KEEP,                    \* related requests that a new one leaves in the list
    Verdicts,                \* classifications that analysts assign
    Triage,                  \* statuses that analysts assign
    Demo,                    \* requests whose metadata says demo
    DemoMode,
    Replays,                 \* sequences of requests that a demo delivers
    NoAttack, NoAlert, NoRow, NoRequest

Classes == {"SUSPICIOUS", "LIKELY_ATTACK", "CONFIRMED_ATTACK", "FALSE_POSITIVE"}
Statuses == {"DETECTED", "ANALYZING", "INVESTIGATING", "FALSE_POSITIVE", "RESOLVED"}

AttackKey(r, s) == <<Payload[r].source, Payload[r].host, s, Payload[r].time \div 900>>
IncidentKey(r) == <<Payload[r].source, Payload[r].host, Payload[r].time \div 14400>>
AttackKeys == {AttackKey(r, s) : r \in Requests, s \in Slugs}
IncidentKeys == {IncidentKey(r) : r \in Requests}

\* The incident an attack was given when it was created.
IncidentOf(k) == <<k[1], k[2], k[4] \div 16>>

Attack == [count: Nat, related: Seq(Requests), primary: Requests, class: Classes,
           status: Statuses, confidence: 0 .. 100, severity: 0 .. 4]
Alert == [confidence: 0 .. 100, severity: 0 .. 4]
Row == [severity: 0 .. 4, score: Nat, level: 1 .. 4]

ASSUME WebAssumption ==
    /\ LoopOf \in [Tasks -> Loops]
    /\ Severity \in [Slugs -> 0 .. 4] /\ Confidence \in [Slugs -> 0 .. 100]
    /\ LIKELY \in Nat /\ CONFIRMED \in Nat /\ KEEP \in Nat \ {0}
    /\ Verdicts \subseteq Classes /\ Triage \subseteq Statuses
    /\ Demo \subseteq Requests /\ DemoMode \in BOOLEAN
    /\ Replays \subseteq Seq(Demo)
    /\ NoAttack \notin Attack /\ NoAlert \notin Alert /\ NoRow \notin Row
    /\ NoRequest \notin Requests

VARIABLES
    requests,  \* web_requests, by request id
    attack,    \* attack_detections, by attack key
    alert,     \* the alert of each attack
    incident,  \* incidents, by correlation key
    timeline,  \* per incident, its entries of attacks: <<type, attack key, request>>
    answered,  \* deliveries answered as new since the last reset
    owed,      \* incidents with alerts committed whose risk is not yet recomputed
    session,   \* per task, the handler under way and what it holds in memory
    replay     \* per task, the demo under way: the requests to come, the attacks of an
               \* earlier request as its session has them, those of this one, and the
               \* incidents of all

rows == <<requests, attack, alert, incident, timeline>>
vars == <<requests, attack, alert, incident, timeline, answered, owed, session, replay>>

Idle == [step |-> "idle"]
Doomed == [step |-> "doomed"]
Storing == [step: {"store"}, request: Requests, todo: SUBSET Slugs]
Finding == [step: {"find"}, request: Requests, todo: SUBSET Slugs, seen: Row \cup {NoRow}]
Loading == [step: {"load"}, request: Requests, todo: SUBSET Slugs, seen: Row \cup {NoRow},
            slug: Slugs, held: Attack \cup {NoAttack}]
Saving == [step: {"save"}, request: Requests, todo: SUBSET Slugs, seen: Row \cup {NoRow},
           slug: Slugs, held: Attack \cup {NoAttack}, alert: Alert \cup {NoAlert},
           incident: Row \cup {NoRow}]
Marking == [step: {"mark"}, key: AttackKeys, held: Attack, alert: Alert, incident: Row]
Rescoring == [step: {"rescore"}, request: Requests \cup {NoRequest}, todo: SUBSET Slugs,
              key: AttackKeys, mine: Alert \cup {NoAlert}, incident: Row]
Scoring == [step: {"score"}, request: Requests \cup {NoRequest}, todo: SUBSET Slugs,
            key: AttackKeys, incident: Row, score: Nat]
Replying == [step: {"reply"}, request: Requests \cup {NoRequest}]
Session == {Idle, Doomed} \cup Storing \cup Finding \cup Loading \cup Saving
             \cup Marking \cup Rescoring \cup Scoring \cup Replying

NoReplay == [on |-> FALSE, left |-> <<>>, known |-> <<>>, found |-> <<>>, incidents |-> {}]

Init ==
    /\ requests = {}
    /\ attack = [k \in AttackKeys |-> NoAttack]
    /\ alert = [k \in AttackKeys |-> NoAlert]
    /\ incident = [k \in IncidentKeys |-> NoRow]
    /\ timeline = [k \in IncidentKeys |-> {}]
    /\ answered = {}
    /\ owed = {}
    /\ session = [w \in Tasks |-> Idle]
    /\ replay = [w \in Tasks |-> NoReplay]

At(w, where) == session[w].step = where
Move(w, s) == session' = [session EXCEPT ![w] = s]
Leave(w) == Move(w, Idle) /\ replay' = [replay EXCEPT ![w] = NoReplay]
Exists(k) == attack[k] # NoAttack

\* A handler runs only while no other one of its loop is between two awaits.
Free(w) == \A v \in Tasks \ {w} : LoopOf[v] = LoopOf[w] => session[v].step \in {"idle", "reply"}

-----------------------------------------------------------------------------
(* POST /web/requests. *)

\* The candidates are judged from what is stored.  Bound: a demo request that a reset has
\* deleted, but not the attack that it was seen in, is not delivered again.
Deliver(w, r) ==
    /\ session[w] = Idle
    /\ r \notin requests
    /\ \A t \in timeline[IncidentKey(r)] : t[3] # r
    /\ Move(w, [step |-> "store", request |-> r, todo |-> Candidates(r, requests)])
    /\ UNCHANGED <<rows, answered, owed, replay>>

\* A request id that is stored is a duplicate: it is answered without attacks.
Duplicate(w, r) ==
    /\ session[w] = Idle
    /\ r \in requests
    /\ UNCHANGED vars

\* The unique request id refuses a second INSERT, and with it that delivery.
Store(w) ==
    LET s == session[w] IN
    /\ At(w, "store")
    /\ requests' = requests \cup {s.request}
    /\ IF s.request \in requests THEN Leave(w)
       ELSE /\ Move(w, [step |-> "find", request |-> s.request, todo |-> s.todo, seen |-> NoRow])
            /\ UNCHANGED replay
    /\ UNCHANGED <<attack, alert, incident, timeline, answered, owed>>

-----------------------------------------------------------------------------
(* _upsert_attack, for one category after the other in the catalogue's order, *)
(* which is left open.                                                        *)

Larger(m, n) == IF m >= n THEN m ELSE n

\* Mutant: more severe than CRITICAL.
EscalateUncapped(severity) == severity + 1
Escalate(severity) == AtMost(4, severity + 1)

\* _classification, with the confidence and severity that go with the class.
Classification(slug, count, signaled) ==
    IF signaled \/ count >= CONFIRMED
    THEN [class |-> "CONFIRMED_ATTACK", severity |-> Escalate(Severity[slug]),
          confidence |-> Larger(Confidence[slug], IF count >= CONFIRMED THEN 92 ELSE 90)]
    ELSE IF count >= LIKELY
    THEN [class |-> "LIKELY_ATTACK", severity |-> Severity[slug],
          confidence |-> Larger(Confidence[slug], 78)]
    ELSE [class |-> "SUSPICIOUS", severity |-> Severity[slug], confidence |-> Confidence[slug]]

Signaled(s) == s.slug \in Payload[s.request].signals

\* Mutant: one too many is kept.
RememberOneMore(list, r) ==
    Append(SubSeq(list, Larger(1, Len(list) - KEEP), Len(list)), r)

\* related_event_ids: the last KEEP of them and the new one.
Remember(list, r) ==
    IF r \in ToSet(list) THEN list
    ELSE Append(SubSeq(list, Larger(1, Len(list) - KEEP + 1), Len(list)), r)

\* A query finds a row that is there, and gives the session what it has of it already.
Queried(w, k) == IF Exists(k) /\ k \in DOMAIN replay[w].known THEN replay[w].known[k] ELSE attack[k]

\* The aggregate of the category is read.
Find(w, slug) ==
    LET s == session[w] IN
    /\ At(w, "find") /\ slug \in s.todo
    /\ Move(w, [step |-> "load", request |-> s.request, todo |-> s.todo \ {slug},
                seen |-> s.seen, slug |-> slug, held |-> Queried(w, AttackKey(s.request, slug))])
    /\ UNCHANGED <<rows, answered, owed, replay>>

\* Its alert and incident are.  The session may still have the incident in its identity
\* map, as it was refreshed after an earlier category.
Load(w) ==
    LET s == session[w]
        k == AttackKey(s.request, s.slug)
    IN
    /\ At(w, "load")
    /\ \E row \in {incident[IncidentOf(k)]} \cup ({s.seen} \ {NoRow}) :
         Move(w, [step |-> "save", request |-> s.request, todo |-> s.todo, seen |-> s.seen,
                  slug |-> s.slug, held |-> s.held,
                  alert |-> IF s.held = NoAttack THEN NoAlert ELSE alert[k], incident |-> row])
    /\ UNCHANGED <<rows, answered, owed, replay>>

\* Mutant: the list of related requests is counted.
CountListed(held) == Len(held.related) + 1
CountOneMore(held) == held.count + 1

\* Mutant: the latest request decides how sure the attack is.
SurenessOfLatest(held, new) == new.confidence
Sureness(held, new) == Larger(held.confidence, new.confidence)

Raise(held, new, current) == IF new > held THEN new ELSE current

Enter(type, k, r) ==
    timeline' = [timeline EXCEPT ![IncidentOf(k)] = @ \cup {<<type, k, r>>}]

\* One more request of a known attack.
Update(w) ==
    LET s == session[w]
        k == AttackKey(s.request, s.slug)
        new == Classification(s.slug, CountOneMore(s.held), Signaled(s))
        sure == Sureness(s.held, new)
        now == attack[k]
    IN
    /\ At(w, "save") /\ s.held # NoAttack
    /\ attack' = [attack EXCEPT ![k] =
         [now EXCEPT !.count = CountOneMore(s.held),
                     !.related = Remember(s.held.related, s.request),
                     !.class = Flush(s.held.class, new.class, now.class),
                     !.confidence = Flush(s.held.confidence, sure, now.confidence),
                     !.severity = Flush(s.held.severity, new.severity, now.severity)]]
    /\ alert' = [alert EXCEPT ![k] =
         [confidence |-> Flush(s.alert.confidence, sure, @.confidence),
          severity |-> Flush(s.alert.severity, new.severity, @.severity)]]
    /\ incident' = [incident EXCEPT ![IncidentOf(k)].severity =
         Raise(s.incident.severity, new.severity, @)]
    /\ Enter("ATTACK_ACTIVITY_UPDATED", k, s.request)
    /\ owed' = owed \cup {IncidentOf(k)}
    /\ Move(w, [step |-> "rescore", request |-> s.request, todo |-> s.todo, key |-> k,
                mine |-> [confidence |-> sure, severity |-> new.severity], incident |-> s.incident])
    /\ UNCHANGED <<requests, answered, replay>>

\* Mutant: no unique correlation key.
UnclaimedAttack(k, held) == ~Exists(k)

\* The unique keys let the attack in, and its incident if that is new.
Unclaimed(k, held) == ~Exists(k) /\ (held = NoRow <=> incident[IncidentOf(k)] = NoRow)

\* The first request of an attack, in a new incident or in the one of its window.
Create(w) ==
    LET s == session[w]
        k == AttackKey(s.request, s.slug)
        new == Classification(s.slug, 1, Signaled(s))
        row == IF s.incident = NoRow THEN [severity |-> Severity[s.slug], score |-> 0, level |-> 1]
               ELSE s.incident
        now == incident[IncidentOf(k)]
    IN
    /\ At(w, "save") /\ s.held = NoAttack
    /\ Unclaimed(k, s.incident)
    /\ attack' = [attack EXCEPT ![k] =
         [count |-> 1, related |-> <<s.request>>, primary |-> s.request, class |-> new.class,
          status |-> "DETECTED", confidence |-> new.confidence, severity |-> new.severity]]
    /\ alert' = [alert EXCEPT ![k] = [confidence |-> new.confidence, severity |-> new.severity]]
    /\ incident' = [incident EXCEPT ![IncidentOf(k)] =
         IF now = NoRow THEN [row EXCEPT !.severity = Larger(row.severity, new.severity)]
         ELSE [now EXCEPT !.severity = Raise(row.severity, new.severity, now.severity)]]
    /\ Enter(IF s.incident = NoRow THEN "WEB_INCIDENT_CREATED" ELSE "WEB_ATTACK_CORRELATED",
             k, s.request)
    /\ owed' = owed \cup {IncidentOf(k)}
    /\ Move(w, [step |-> "rescore", request |-> s.request, todo |-> s.todo, key |-> k,
                mine |-> alert'[k], incident |-> row])
    /\ UNCHANGED <<requests, answered, replay>>

\* Another delivery has created the attack or the incident meanwhile: the rest of the delivery is lost, its request stays.
CreateRefused(w) ==
    LET s == session[w] IN
    /\ At(w, "save") /\ s.held = NoAttack
    /\ ~Unclaimed(AttackKey(s.request, s.slug), s.incident)
    /\ Leave(w)
    /\ UNCHANGED <<rows, answered, owed>>

-----------------------------------------------------------------------------
(* recalculate_risk.  No verdict marks the source address malicious here. *)

Alerts(i) == {k \in AttackKeys : alert[k] # NoAlert /\ IncidentOf(k) = i}

\* Mutant: the attack's alert is read as it was before.
RescoreWithoutMine(w) ==
    LET s == session[w]
        others == Alerts(IncidentOf(s.key)) \ {s.key}
    IN
    /\ At(w, "rescore")
    /\ Move(w, [step |-> "score", request |-> s.request, todo |-> s.todo, key |-> s.key,
                incident |-> s.incident,
                score |-> IF others = {} THEN 0
                          ELSE RiskScore(Max({alert[k].severity : k \in others}),
                                         Max({alert[k].confidence : k \in others}),
                                         Cardinality(others), 0)])
    /\ UNCHANGED <<rows, answered, owed, replay>>

\* The alerts of the incident are read, the attack's own one as the session holds it.
Rescore(w) ==
    LET s == session[w]
        held == [alert EXCEPT ![s.key] = IF s.mine = NoAlert THEN @ ELSE s.mine]
        all == Alerts(IncidentOf(s.key))
    IN
    /\ At(w, "rescore")
    /\ Move(w, [step |-> "score", request |-> s.request, todo |-> s.todo, key |-> s.key,
                incident |-> s.incident,
                score |-> RiskScore(Max({held[k].severity : k \in all}),
                                    Max({held[k].confidence : k \in all}), Cardinality(all), 0)])
    /\ UNCHANGED <<rows, answered, owed, replay>>

\* The new risk is committed, incident and attack are refreshed; an analyst's update ends
\* here, a delivery goes on with its next category.
Score(w) ==
    LET s == session[w]
        i == IncidentOf(s.key)
    IN
    /\ At(w, "score")
    /\ incident' = [incident EXCEPT ![i] = Assess(@, s.incident, s.score)]
    /\ owed' = owed \ {i}
    /\ Move(w, IF s.request = NoRequest THEN Idle
               ELSE [step |-> "find", request |-> s.request, todo |-> s.todo, seen |-> incident'[i]])
    /\ replay' = IF ~replay[w].on THEN replay
                 ELSE [replay EXCEPT
                         ![w].found = [k \in DOMAIN @ \cup {s.key} |->
                                         IF k = s.key THEN attack[k] ELSE @[k]],
                         ![w].incidents = @ \cup {i}]
    /\ UNCHANGED <<requests, attack, alert, timeline, answered>>

\* Mutant: the answer does not wait for every category.
FinishEarly(w) ==
    /\ At(w, "find")
    /\ Move(w, [step |-> "reply", request |-> session[w].request])
    /\ UNCHANGED <<rows, answered, owed, replay>>

\* What follows awaits the search index and the live stream.
Finish(w) ==
    /\ At(w, "find") /\ session[w].todo = {}
    /\ Move(w, [step |-> "reply", request |-> session[w].request])
    /\ UNCHANGED <<rows, answered, owed, replay>>

Reply(w) ==
    /\ At(w, "reply") /\ ~replay[w].on
    /\ answered' = answered \cup ({session[w].request} \cap requests)
    /\ Leave(w)
    /\ UNCHANGED <<rows, owed>>

-----------------------------------------------------------------------------
(* run_web_demo, and the deliveries of load_novabank.                         *)

Replay(w, script) ==
    /\ session[w] = Idle /\ DemoMode
    /\ Move(w, [step |-> "reply", request |-> NoRequest])
    /\ replay' = [replay EXCEPT ![w] = [NoReplay EXCEPT !.on = TRUE, !.left = script]]
    /\ UNCHANGED <<rows, answered, owed>>

Remaining(f, S) == [k \in DOMAIN f \cap S |-> f[k]]

\* The attacks that the handler still refers to, and that the session therefore does not
\* read anew: those of its latest request or, if that had none, one of those before.
AttacksHeld(run) ==
    IF DOMAIN run.found # {} THEN {run.found}
    ELSE IF DOMAIN run.known = {} THEN {<<>>}
    ELSE {Remaining(run.known, {k}) : k \in DOMAIN run.known}

\* After a pause the next request of the demo.  Bound: as for Deliver.
Advance(w) ==
    LET run == replay[w]
        r == Head(run.left)
    IN
    /\ At(w, "reply") /\ run.on /\ run.left # <<>>
    /\ \A t \in timeline[IncidentKey(r)] : r \in requests \/ t[3] # r
    /\ \E known \in AttacksHeld(run) :
         replay' = [replay EXCEPT ![w] = [run EXCEPT !.left = Tail(run.left), !.known = known, !.found = <<>>]]
    /\ Move(w, IF r \in requests THEN [step |-> "reply", request |-> r]
               ELSE [step |-> "store", request |-> r, todo |-> Candidates(r, requests)])
    /\ UNCHANGED <<rows, answered, owed>>

\* The demo puts evidence, a rehearsed response and reports beside one incident.  Of two, which
\* a demo over the end of a window makes, the second uses the same idempotency key: its
\* response is refused, and the demo fails.
Conclude(w) ==
    /\ At(w, "reply") /\ replay[w].on /\ replay[w].left = <<>>
    /\ IF replay[w].incidents = {} THEN UNCHANGED timeline
       ELSE \E i \in replay[w].incidents :
              timeline' = [timeline EXCEPT ![i] = @ \cup {<<"RESPONSE_VERIFICATION", NoAttack, NoRequest>>}]
    /\ Leave(w)
    /\ UNCHANGED <<requests, attack, alert, incident, answered, owed>>

-----------------------------------------------------------------------------
(* update_attack. *)

Review(w, k) ==
    /\ session[w] = Idle /\ Exists(k)
    /\ Move(w, [step |-> "mark", key |-> k, held |-> attack[k], alert |-> alert[k],
                incident |-> incident[IncidentOf(k)]])
    /\ UNCHANGED <<rows, answered, owed, replay>>

\* Mutant: the alert of a false positive keeps its confidence.
MarkAttackOnly(w, class, status) ==
    LET s == session[w] IN
    /\ At(w, "mark")
    /\ class \in Verdicts \cup {s.held.class} /\ status \in Triage \cup {s.held.status}
    /\ attack' = [attack EXCEPT ![s.key] = [@ EXCEPT !.class = class,
         !.status = IF class = "FALSE_POSITIVE" THEN class ELSE status]]
    /\ owed' = owed \cup {IncidentOf(s.key)}
    /\ Move(w, [step |-> "rescore", request |-> NoRequest, todo |-> {}, key |-> s.key,
                mine |-> NoAlert, incident |-> s.incident])
    /\ UNCHANGED <<requests, alert, incident, timeline, answered, replay>>

\* class and status are the new ones, or the ones held where the analyst gives none.  A
\* false positive takes that status whatever was asked, and silences its alert.
Mark(w, class, status) ==
    LET s == session[w]
        false == class = "FALSE_POSITIVE"
        now == attack[s.key]
    IN
    /\ At(w, "mark")
    /\ class \in Verdicts \cup {s.held.class} /\ status \in Triage \cup {s.held.status}
    /\ class \in Verdicts \/ status \in Triage
    /\ attack' = [attack EXCEPT ![s.key] =
         [now EXCEPT !.class = Flush(s.held.class, class, now.class),
                     !.status = Flush(s.held.status, IF false THEN class ELSE status, now.status)]]
    /\ alert' = IF false THEN [alert EXCEPT ![s.key].confidence = Flush(s.alert.confidence, 0, @)]
                ELSE alert
    /\ owed' = owed \cup {IncidentOf(s.key)}
    /\ Move(w, [step |-> "rescore", request |-> NoRequest, todo |-> {}, key |-> s.key,
                mine |-> IF false THEN [s.alert EXCEPT !.confidence = 0] ELSE NoAlert,
                incident |-> s.incident])
    /\ Enter("ATTACK_CLASSIFICATION_UPDATED", s.key, NoRequest)
    /\ UNCHANGED <<requests, incident, answered, replay>>

-----------------------------------------------------------------------------
(* The resets.  A handler whose rows are gone can only fail at its next step. *)

Gone(w, stored, attacks) ==
    LET s == session[w] IN
    \/ s.step = "store" /\ s.request \in requests \ stored
    \/ s.step \in {"find", "load", "save"} /\ s.request \notin stored
    \/ s.step \in {"load", "save"} /\ s.held # NoAttack /\ AttackKey(s.request, s.slug) \notin attacks
    \/ s.step \in {"rescore", "score", "mark"} /\ s.key \notin attacks
    \/ s.step = "save" /\ s.incident # NoRow
         /\ IncidentKey(s.request) \notin {IncidentOf(k) : k \in attacks}

\* A later query does not find a row that is gone, whatever the session has of it.
Forget(s, left) ==
    IF s.step \in {"find", "load"} /\ IncidentKey(s.request) \notin left
    THEN [s EXCEPT !.seen = NoRow] ELSE s

\* What is left of the tables when only these requests and attacks stay.
Keep(stored, attacks) ==
    LET left == {IncidentOf(k) : k \in attacks} IN
    /\ requests' = stored
    /\ attack' = [k \in AttackKeys |-> IF k \in attacks THEN attack[k] ELSE NoAttack]
    /\ alert' = [k \in AttackKeys |-> IF k \in attacks THEN alert[k] ELSE NoAlert]
    /\ incident' = [i \in IncidentKeys |-> IF i \in left THEN incident[i] ELSE NoRow]
    /\ timeline' = [i \in IncidentKeys |-> IF i \in left THEN timeline[i] ELSE {}]
    /\ owed' = owed \cap left
    /\ session' = [w \in Tasks |->
         IF Gone(w, stored, attacks) THEN Doomed ELSE Forget(session[w], left)]
    /\ replay' = [w \in Tasks |->
         [replay[w] EXCEPT !.known = Remaining(@, attacks), !.found = Remaining(@, attacks),
                           !.incidents = @ \cap left]]

\* reset_demo deletes every row.
Reset ==
    /\ DemoMode
    /\ Keep({}, {})
    /\ answered' = {}

\* reset_web_demo deletes the demo requests, the attacks that began with one of them and
\* these attacks' incidents.  A foreign key refuses an incident that has another attack.
WebReset ==
    LET known == {k \in AttackKeys : Exists(k)}
        left == {k \in known : attack[k].primary \notin Demo}
    IN
    /\ DemoMode
    /\ \E l \in Loops : \A w \in Tasks : LoopOf[w] = l => session[w].step \in {"idle", "reply"}
    /\ {IncidentOf(k) : k \in left} \cap {IncidentOf(k) : k \in known \ left} = {}
    /\ Keep(requests \ Demo, left)
    /\ answered' = {r \in answered \ Demo : \A s \in Slugs : AttackKey(r, s) \notin known \ left}

Fail(w) ==
    /\ session[w] = Doomed
    /\ Leave(w)
    /\ UNCHANGED <<rows, answered, owed>>

\* The process dies, or the database refuses the commit.
Abort(w) ==
    /\ session[w] # Idle
    /\ Leave(w)
    /\ UNCHANGED <<rows, answered, owed>>

Call(w) ==
    \/ \E r \in Requests : Deliver(w, r) \/ Duplicate(w, r)
    \/ \E script \in Replays : Replay(w, script)
    \/ Verdicts \cup Triage # {} /\ \E k \in AttackKeys : Review(w, k)

Continue(w) ==
    \/ Store(w)
    \/ \E slug \in Slugs : Find(w, slug)
    \/ Load(w) \/ Update(w) \/ Create(w) \/ CreateRefused(w)
    \/ Rescore(w) \/ Score(w) \/ Finish(w) \/ Reply(w) \/ Advance(w) \/ Conclude(w)
    \/ \E class \in Classes, status \in Statuses : Mark(w, class, status)
    \/ Fail(w)

Next ==
    \/ \E w \in Tasks : (Free(w) /\ (Call(w) \/ Continue(w))) \/ Abort(w)
    \/ Reset \/ WebReset

Spec == Init /\ [][Next]_vars

-----------------------------------------------------------------------------
(* Properties. *)

Types == {"WEB_INCIDENT_CREATED", "WEB_ATTACK_CORRELATED", "ATTACK_ACTIVITY_UPDATED"}

\* Every variable holds a value of the kind its column or object has.
TypeOK ==
    /\ requests \subseteq Requests
    /\ attack \in [AttackKeys -> Attack \cup {NoAttack}]
    /\ alert \in [AttackKeys -> Alert \cup {NoAlert}]
    /\ incident \in [IncidentKeys -> Row \cup {NoRow}]
    /\ timeline \in [IncidentKeys -> SUBSET (
           Types \X AttackKeys \X Requests
           \cup {"ATTACK_CLASSIFICATION_UPDATED"} \X AttackKeys \X {NoRequest}
           \cup {<<"RESPONSE_VERIFICATION", NoAttack, NoRequest>>})]
    /\ answered \subseteq requests
    /\ owed \subseteq IncidentKeys
    /\ session \in [Tasks -> Session]
    /\ \A w \in Tasks :
        /\ replay[w].left \in Seq(Requests) /\ replay[w].incidents \subseteq IncidentKeys
        /\ \A f \in {replay[w].known, replay[w].found} : \A k \in DOMAIN f :
              k \in AttackKeys /\ f[k] \in Attack

\* The timeline entries of the requests that an attack was seen in.
Seen(k) == {t \in timeline[IncidentOf(k)] : t[1] \in Types /\ t[2] = k}

\* An attack is there with its alert, its incident and the entry of its first request, or
\* not at all, whatever races and whatever reset runs: no dangling link, and nothing of
\* an attack or an incident is made twice.
CreatedTogether ==
    /\ \A k \in AttackKeys :
        /\ Exists(k) <=> alert[k] # NoAlert
        /\ Exists(k) => incident[IncidentOf(k)] # NoRow
        /\ Exists(k) <=> \E t \in Seen(k) : t[1] # "ATTACK_ACTIVITY_UPDATED"
        /\ \A s, t \in Seen(k) : "ATTACK_ACTIVITY_UPDATED" \notin {s[1], t[1]} => s = t
        /\ Exists(k) => \E t \in Seen(k) : t[3] = attack[k].primary /\ t[1] # "ATTACK_ACTIVITY_UPDATED"
    /\ \A i \in IncidentKeys : \A s, t \in timeline[i] :
          s[1] = "WEB_INCIDENT_CREATED" /\ t[1] = "WEB_INCIDENT_CREATED" => s = t

\* The bounded list of related requests names the latest ones without repetition, also
\* when concurrent updates overwrite each other, and no attack counts a request that is
\* not on its timeline.
RelatedMatchesCount ==
    \A k \in AttackKeys : Exists(k) =>
        LET a == attack[k] IN
        /\ Len(a.related) = AtMost(KEEP + 1, a.count)
        /\ \A m, n \in DOMAIN a.related : a.related[m] = a.related[n] => m = n
        /\ ToSet(a.related) \subseteq {t[3] : t \in Seen(k)}
        /\ a.count <= Cardinality(Seen(k))

\* Without a second process every request of an attack is counted, also past the end of
\* the list of related ones.
CountMatchesTimeline ==
    \A k \in AttackKeys : Exists(k) => attack[k].count = Cardinality(Seen(k))

\* A request whose delivery was answered is counted by the attack of each category that
\* its own content names, retries and crashes notwithstanding.
AnsweredIsCounted ==
    \A r \in answered : \A s \in Payload[r].signatures \cup Payload[r].signals :
        \E t \in Seen(AttackKey(r, s)) : t[3] = r

\* In whatever order login failures of one source arrive, as many of them as make a brute
\* force within five minutes are noticed as one.
BruteForceNoticed ==
    \A some \in SUBSET {r \in answered : AuthFailure(r)} :
        /\ Cardinality(some) >= BRUTE_FORCE
        /\ \A q, r \in some : Same(q, r, {"source"}) /\ Payload[q].time <= Payload[r].time + 300
        => \E r \in some : \E t \in Seen(AttackKey(r, "brute_force")) : t[3] = r

\* An incident is as severe as each of its attacks, and each alert as its attack; an alert
\* is as sure as its attack unless an analyst silenced it; what is classified as a false
\* positive has that status and adds no confidence.
SeverityCarriesOver ==
    \A k \in AttackKeys : Exists(k) =>
        /\ incident[IncidentOf(k)].severity >= attack[k].severity
        /\ alert[k].severity = attack[k].severity
        /\ alert[k].confidence \in {attack[k].confidence, 0}
        /\ attack[k].class = "FALSE_POSITIVE" =>
              attack[k].status = "FALSE_POSITIVE" /\ alert[k].confidence = 0

\* The stored risk of an incident is the one of its alerts, except while it is owed.
WebRiskUpToDate ==
    \A i \in IncidentKeys : incident[i] # NoRow /\ i \notin owed =>
        /\ incident[i].score = RiskScore(Max({alert[k].severity : k \in Alerts(i)}),
                                        Max({alert[k].confidence : k \in Alerts(i)}),
                                        Cardinality(Alerts(i)), 0)
        /\ incident[i].level = Level(incident[i].score)

\* No handler forgets a request of an attack or becomes less sure of it.
SurenessNeverDrops ==
    [][\A k \in AttackKeys : Exists(k) /\ attack'[k] # NoAttack =>
          /\ attack'[k].count >= attack[k].count
          /\ attack'[k].confidence >= attack[k].confidence]_attack
=============================================================================
