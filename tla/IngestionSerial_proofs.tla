------------------------- MODULE IngestionSerial_proofs -------------------------
(***************************************************************************)
(* Proofs about Ingestion where its handlers interfere less: what a first  *)
(* answer says and which alerts it means, in any number of processes       *)
(* without demo mode; severity and risk, in one process; and what every    *)
(* answer says, on one event loop, with demo runs that bring other         *)
(* indicators.                                                             *)
(***************************************************************************)
EXTENDS Ingestion_proofs, Detection

-----------------------------------------------------------------------------
(* Answers.                                                                 *)

\* What a delivery knows of the alerts of its event.
Answering(s) ==
    /\ s.step = "detect" => \A r \in Rules : alert[<<s.event, r>>] = NoAlert
    /\ s.step \in {"correlate", "join", "commit"} =>
        /\ s.todo \subseteq Matches[s.event]
        /\ \A r \in Matches[s.event] \ s.todo : alert[<<s.event, r>>] = Key[<<s.event, r>>]
        /\ \A k \in Keys : s.seen[k] # NoRow <=>
             \E r \in Matches[s.event] \ s.todo : Key[<<s.event, r>>] = k
    /\ s.step = "reply" =>
        /\ s.found = {Key[<<s.event, r>>] : r \in Matches[s.event]}
        /\ Correlated(s.event)

\* A first answer names the incidents of its event, which has joined them.
Answered(p) == ~p.duplicate =>
    /\ p.incidents = {Key[<<p.event, r>>] : r \in Matches[p.event]}
    /\ Correlated(p.event)

AnswerInv ==
    /\ \A e \in AllEvents \ stored, r \in Rules : alert[<<e, r>>] = NoAlert
    /\ \A w \in Workers : Answering(session[w])
    /\ \A p \in replies : Answered(p)

\* A handler changes alerts of its own event only, and none that has joined its incident.
OwnAlerts(s) == \A e \in AllEvents, r \in Rules :
    \/ alert'[<<e, r>>] = alert[<<e, r>>]
    \/ alert[<<e, r>>] \notin Keys /\ OnEvent(s) /\ e = s.event

LEMMA CorrelatedStays ==
    ASSUME NEW s, OwnAlerts(s), NEW e \in AllEvents, Correlated(e)
    PROVE  Correlated(e)'
<1> SUFFICES ASSUME NEW r \in Rules, r \in Matches[e] PROVE alert'[<<e, r>>] = Key[<<e, r>>]
  BY DEF Correlated
<1>1. alert[<<e, r>>] = Key[<<e, r>>] /\ Key[<<e, r>>] \in Keys
  BY PipelineAssumption DEF Correlated, Alerts
<1> QED BY <1>1 DEF OwnAlerts

\* What another handler knows of its own event stays true.
LEMMA AnsweringStays ==
    ASSUME NEW s, NEW v \in Session, OwnAlerts(s), Apart(s, v), Answering(v)
    PROVE  Answering(v)'
<1>1. CASE v.step = "reply"
  <2>1. v.event \in AllEvents
    BY <1>1, KindOfStep DEF Replying
  <2>2. Correlated(v.event) /\ v.found = {Key[<<v.event, r>>] : r \in Matches[v.event]}
    BY <1>1 DEF Answering
  <2>3. Correlated(v.event)'
    BY <2>1, <2>2, CorrelatedStays
  <2> QED BY <1>1, <2>2, <2>3 DEF Answering
<1>2. CASE OnEvent(v)
  <2>1. v.event \in AllEvents
    BY <1>2, KindOfStep DEF OnEvent, Detecting, Correlating, Joining, Committing
  <2>2. \A r \in Rules : alert'[<<v.event, r>>] = alert[<<v.event, r>>]
    BY <1>2, <2>1 DEF OwnAlerts, Apart
  <2>3. Matches[v.event] \subseteq Rules
    BY <2>1, PipelineAssumption
  <2> QED BY <1>2, <2>2, <2>3 DEF Answering, OnEvent
<1>3. CASE v.step # "reply" /\ ~OnEvent(v)
  BY <1>3 DEF Answering, OnEvent
<1> QED BY <1>1, <1>2, <1>3

\* One handler steps, and the answers of the others stay true.
LEMMA AnswerStep ==
    ASSUME IngInv, AnswerInv, NEW w \in Workers, NEW t, Move(w, t),
           OwnAlerts(session[w]), stored \subseteq stored', Answering(t)',
           \A p \in replies' : p \in replies \/ Answered(p)'
    PROVE  AnswerInv'
<1>1. session \in [Workers -> Session]
  BY DEF IngInv, TypeOK
<1>2. \A e \in AllEvents \ stored', r \in Rules : alert'[<<e, r>>] = NoAlert
  <2>1. OnEvent(session[w]) => session[w].event \in stored
    BY DEF IngInv, Sound
  <2> QED BY <2>1 DEF AnswerInv, OwnAlerts
<1>3. ASSUME NEW v \in Workers PROVE Answering(session[v])'
  <2>1. CASE v = w
    BY <1>1, <2>1 DEF Move
  <2>2. CASE v # w
    <3>1. PICK x \in Session : x = session[v] /\ session'[v] = x
      BY <1>1, <2>2 DEF Move
    <3>2. Answering(x) /\ Apart(session[w], x)
      BY <2>2, <3>1 DEF AnswerInv, IngInv
    <3>3. Answering(x)'
      BY <3>2, AnsweringStays
    <3> QED BY <3>1, <3>3
  <2> QED BY <2>1, <2>2
<1>4. ASSUME NEW p \in replies' PROVE Answered(p)'
  <2>1. CASE p \in replies
    <3>1. p.event \in AllEvents
      BY <2>1 DEF IngInv, TypeOK
    <3>2. Answered(p)
      BY <2>1 DEF AnswerInv
    <3>3. Correlated(p.event) => Correlated(p.event)'
      BY <3>1, CorrelatedStays
    <3> QED BY <3>2, <3>3 DEF Answered
  <2> QED BY <1>4, <2>1
<1> QED BY <1>2, <1>3, <1>4 DEF AnswerInv

\* A handler that leaves the alerts alone.
LEMMA AnswerSame ==
    ASSUME IngInv, AnswerInv, NEW w \in Workers, NEW t, Move(w, t),
           UNCHANGED alert, stored \subseteq stored', Answering(t),
           \A p \in replies' : p \in replies \/ Answered(p)
    PROVE  AnswerInv'
<1>1. OwnAlerts(session[w])
  BY DEF OwnAlerts
<1>2. Answering(t)' /\ \A p : Answered(p) => Answered(p)'
  BY DEF Answering, Answered, Correlated
<1> QED BY <1>1, <1>2, AnswerStep

LEMMA NotAnswering ==
    \A s : s.step \in {"idle", "mark", "ask", "rescore", "save"} => Answering(s)
BY DEF Answering

LEMMA AnswerStore ==
    ASSUME IngInv, AnswerInv, NEW w \in Workers, NEW e \in AllEvents, Store(w, e)
    PROVE  AnswerInv'
<1>1. PICK t : t = [step |-> "detect", event |-> e]
  OBVIOUS
<1>2. Move(w, t) /\ UNCHANGED <<alert, replies>> /\ stored \subseteq stored' /\ e \notin stored
  BY <1>1 DEF Store
<1>3. Answering(t)
  BY <1>1, <1>2 DEF Answering, AnswerInv
<1> QED BY <1>2, <1>3, AnswerSame

LEMMA AnswerDuplicate ==
    ASSUME IngInv, AnswerInv, NEW w \in Workers, NEW e \in AllEvents, Duplicate(w, e)
    PROVE  AnswerInv'
<1>1. PICK t : t = session[w]
  OBVIOUS
<1>2. Move(w, t) /\ UNCHANGED <<alert, stored>>
  BY <1>1 DEF Duplicate, rows, Move, IngInv, TypeOK
<1>3. Answering(t)
  BY <1>1 DEF AnswerInv
<1>4. \A p \in replies' : p \in replies \/ Answered(p)
  BY DEF Duplicate, Answered
<1> QED BY <1>2, <1>3, <1>4, AnswerSame

LEMMA AnswerDetect == ASSUME IngInv, AnswerInv, NEW w \in Workers, Detect(w) PROVE AnswerInv'
<1>1. PICK s : s = session[w]
  OBVIOUS
<1>2. s \in Detecting /\ Answering(s) /\ s.step = "detect" /\ s.event \in AllEvents
  BY <1>1, Holding, KindOfStep DEF Detect, At, Detecting, AnswerInv
<1>3. PICK new \in SUBSET Rules : new = {r \in Matches[s.event] : alert[<<s.event, r>>] = NoAlert}
  BY <1>2, PipelineAssumption
<1>4. PICK t : t = [step |-> "correlate", event |-> s.event, todo |-> new,
                    seen |-> [k \in Keys |-> NoRow]]
  OBVIOUS
<1>5. /\ alert' = [a \in Alerts |-> IF a[1] = s.event /\ a[2] \in new THEN Unlinked ELSE alert[a]]
      /\ Move(w, t) /\ stored' = stored /\ replies' = replies
  BY <1>1, <1>3, <1>4 DEF Detect
<1>6. new = Matches[s.event]
  BY <1>2, <1>3, PipelineAssumption DEF Answering
<1>7. Answering(t)'
  BY <1>4, <1>6 DEF Answering
<1>8. \A e \in AllEvents, r \in Rules :
        alert'[<<e, r>>] = IF e = s.event /\ r \in new THEN Unlinked ELSE alert[<<e, r>>]
  BY <1>5 DEF Alerts
<1>9. \A r \in new : alert[<<s.event, r>>] \notin Keys
  BY <1>3, PipelineAssumption
<1>10. OwnAlerts(s)
  BY <1>2, <1>8, <1>9 DEF OwnAlerts, OnEvent
<1> QED BY <1>1, <1>5, <1>7, <1>10, AnswerStep

LEMMA AnswerLookup ==
    ASSUME IngInv, AnswerInv, NEW w \in Workers, NEW r \in Rules, Lookup(w, r)
    PROVE  AnswerInv'
<1>1. PICK s : s = session[w]
  OBVIOUS
<1>2. Answering(s) /\ s.step = "correlate"
  BY <1>1 DEF Lookup, At, AnswerInv
<1>3. PICK row, fresh, bad : Move(w, [step |-> "join", event |-> s.event, todo |-> s.todo,
                                seen |-> s.seen, rule |-> r, held |-> row, fresh |-> fresh,
                                bad |-> bad])
  BY <1>1 DEF Lookup
<1>4. PICK t : t = [step |-> "join", event |-> s.event, todo |-> s.todo, seen |-> s.seen,
                    rule |-> r, held |-> row, fresh |-> fresh, bad |-> bad]
  OBVIOUS
<1>5. Answering(t)
  BY <1>2, <1>4 DEF Answering
<1> QED BY <1>3, <1>4, <1>5, AnswerSame DEF Lookup, rows

LEMMA AnswerJoin ==
    ASSUME IngInv, AnswerInv, NEW w \in Workers, JoinConflict(w) \/ JoinFlush(w)
    PROVE  AnswerInv'
<1>1. PICK s : s = session[w]
  OBVIOUS
<1>2. Answering(s) /\ s.step = "join" /\ s \in Joining
  BY <1>1, Holding, KindOfStep DEF JoinConflict, JoinFlush, At, AnswerInv
<1>3. UNCHANGED <<alert, stored, replies>>
  BY DEF JoinConflict, JoinFlush, rows
<1>4. CASE JoinConflict(w)
  <2>1. PICK row, fresh, bad : Move(w, [s EXCEPT !.held = row, !.fresh = fresh, !.bad = bad])
    BY <1>1, <1>4 DEF JoinConflict
  <2>2. PICK t : t = [s EXCEPT !.held = row, !.fresh = fresh, !.bad = bad]
    OBVIOUS
  <2>3. t.step = s.step /\ t.event = s.event /\ t.todo = s.todo /\ t.seen = s.seen
    BY <1>2, <2>2 DEF Joining
  <2>4. Answering(t)
    BY <1>2, <2>3 DEF Answering
  <2> QED BY <1>3, <2>1, <2>2, <2>4, AnswerSame
<1>5. CASE JoinFlush(w)
  <2>1. PICK created, row, score :
          Move(w, [step |-> "commit", event |-> s.event, todo |-> s.todo, seen |-> s.seen,
                   rule |-> s.rule, created |-> created, held |-> row, fresh |-> s.fresh,
                   score |-> score])
    BY <1>1, <1>5 DEF JoinFlush
  <2>2. PICK t : t = [step |-> "commit", event |-> s.event, todo |-> s.todo, seen |-> s.seen,
                      rule |-> s.rule, created |-> created, held |-> row, fresh |-> s.fresh,
                      score |-> score]
    OBVIOUS
  <2>3. Answering(t)
    BY <1>2, <2>2 DEF Answering
  <2> QED BY <1>3, <2>1, <2>2, <2>3, AnswerSame
<1> QED BY <1>4, <1>5

LEMMA AnswerJoinCommit ==
    ASSUME IngInv, AnswerInv, NEW w \in Workers, JoinCommit(w) PROVE AnswerInv'
<1>1. PICK s : s = session[w]
  OBVIOUS
<1>2. s \in Committing /\ Sound(s) /\ Answering(s) /\ s.step = "commit"
  BY <1>1, Holding, KindOfStep DEF JoinCommit, At, AnswerInv
<1>3. PICK k \in Keys : k = JoinKey(s)
  BY <1>2, PipelineAssumption DEF Committing, JoinKey, Alerts
<1>4. PICK a \in Alerts : a = <<s.event, s.rule>> /\ k = Key[a]
  BY <1>2, <1>3 DEF Committing, Alerts, JoinKey
<1>5. alert[a] = Unlinked /\ s.rule \in s.todo
  BY <1>2, <1>4 DEF Sound
<1>6. alert' = [alert EXCEPT ![a] = k] /\ stored' = stored /\ replies' = replies
  BY <1>1, <1>3, <1>4 DEF JoinCommit
<1>7. PICK row \in Row : row = Joined(incident[k], s)
  BY <1>2, <1>3, JoinedType
<1>8. incident' = [incident EXCEPT ![k] = row] /\ incident \in [Keys -> Row \cup {NoRow}]
  BY <1>1, <1>3, <1>7 DEF JoinCommit, IngInv, TypeOK
<1>9. PICK t : t = [step |-> "correlate", event |-> s.event, todo |-> s.todo \ {s.rule},
                    seen |-> [s.seen EXCEPT ![k] = row]]
  OBVIOUS
<1>10. Move(w, t)
  BY <1>1, <1>3, <1>8, <1>9 DEF JoinCommit
<1>11. \A b \in Alerts : alert'[b] = IF b = a THEN k ELSE alert[b]
  BY <1>6 DEF IngInv, TypeOK
<1>12. OwnAlerts(s)
  <2>1. \A e \in AllEvents, r \in Rules : <<e, r>> \in Alerts /\ (<<e, r>> = a => e = s.event)
    BY <1>4 DEF Alerts
  <2>2. alert[a] \notin Keys /\ OnEvent(s)
    BY <1>2, <1>5, PipelineAssumption DEF OnEvent
  <2> QED BY <1>11, <2>1, <2>2 DEF OwnAlerts
<1>13. Answering(t)'
  <2>1. s.todo \subseteq Matches[s.event] /\ s.event \in AllEvents /\ Matches[s.event] \subseteq Rules
    BY <1>2, PipelineAssumption DEF Answering, Committing
  <2>2. Matches[s.event] \ t.todo = (Matches[s.event] \ s.todo) \cup {s.rule}
    BY <1>5, <1>9, <2>1
  <2>3. \A r \in Rules : <<s.event, r>> \in Alerts
    BY <2>1 DEF Alerts
  <2>4. \A r \in Matches[s.event] \ t.todo : alert'[<<s.event, r>>] = Key[<<s.event, r>>]
    BY <1>2, <1>4, <1>11, <2>1, <2>2, <2>3 DEF Answering
  <2>5. \A c \in Keys : t.seen[c] # NoRow <=> c = k \/ s.seen[c] # NoRow
    BY <1>2, <1>7, <1>9, PipelineAssumption DEF Committing, Seen
  <2>6. \A c \in Keys : t.seen[c] # NoRow <=>
          \E r \in Matches[s.event] \ t.todo : Key[<<s.event, r>>] = c
    BY <1>2, <1>4, <2>2, <2>5 DEF Answering
  <2> QED BY <1>9, <2>1, <2>4, <2>6 DEF Answering
<1> QED BY <1>1, <1>6, <1>10, <1>12, <1>13, AnswerStep

LEMMA AnswerFinish ==
    ASSUME IngInv, AnswerInv, NEW w \in Workers, Finish(w) PROVE AnswerInv'
<1>1. PICK s : s = session[w]
  OBVIOUS
<1>2. s \in Correlating /\ Answering(s) /\ s.step = "correlate" /\ s.todo = {}
  BY <1>1, Holding, KindOfStep DEF Finish, At, AnswerInv
<1>3. PICK t : t = [step |-> "reply", event |-> s.event, found |-> {k \in Keys : s.seen[k] # NoRow}]
  OBVIOUS
<1>4. Move(w, t) /\ UNCHANGED <<alert, stored, replies>>
  BY <1>1, <1>3 DEF Finish, rows
<1>5. Answering(t)
  <2>1. \A r \in Matches[s.event] : alert[<<s.event, r>>] = Key[<<s.event, r>>]
                                     /\ Key[<<s.event, r>>] \in Keys
    BY <1>2, PipelineAssumption DEF Answering, Correlating, Alerts
  <2>2. \A k \in Keys : s.seen[k] # NoRow <=> \E r \in Matches[s.event] : Key[<<s.event, r>>] = k
    BY <1>2 DEF Answering
  <2>3. t.found = {Key[<<s.event, r>>] : r \in Matches[s.event]}
    <3>1. t.found = {k \in Keys : s.seen[k] # NoRow}
      BY <1>3
    <3>2. \A k : k \in t.found <=> \E r \in Matches[s.event] : Key[<<s.event, r>>] = k
      BY <2>1, <2>2, <3>1
    <3> QED BY <3>2
  <2> QED BY <1>3, <2>1, <2>3 DEF Answering, Correlated
<1> QED BY <1>4, <1>5, AnswerSame

LEMMA AnswerReply == ASSUME IngInv, AnswerInv, NEW w \in Workers, Reply(w) PROVE AnswerInv'
<1>1. PICK s : s = session[w]
  OBVIOUS
<1>2. Answering(s) /\ s.step = "reply"
  BY <1>1 DEF Reply, At, AnswerInv
<1>3. PICK p : p = [event |-> s.event, duplicate |-> FALSE, incidents |-> s.found]
  OBVIOUS
<1>4. /\ Move(w, Idle) /\ UNCHANGED <<alert, stored>>
      /\ replies' = replies \cup {p}
  BY <1>1, <1>3 DEF Reply, rows
<1>5. Answered(p) /\ Answering(Idle)
  BY <1>2, <1>3, NotAnswering DEF Answering, Answered, Idle
<1> QED BY <1>4, <1>5, AnswerSame

\* The steps of a handler that is on no event, or leaves it.
LEMMA AnswerAside ==
    ASSUME IngInv, AnswerInv, NEW w \in Workers,
           \/ JoinRefused(w) \/ DemoFails(w) \/ DetectFails(w) \/ Fail(w) \/ Abort(w)
           \/ DemoMark(w) \/ Rescore(w) \/ Save(w)
           \/ \E k \in Keys, v \in Values, row \in Row \cup {NoRow} : DemoRead(w, k, v, row)
           \/ \E k \in Keys, v \in Values : EnrichLoad(w, k, v)
           \/ \E b \in BOOLEAN : Enrich(w, b)
    PROVE  AnswerInv'
<1>1. UNCHANGED <<alert, stored, replies>>
  BY DEF JoinRefused, DemoFails, DetectFails, Fail, Abort, DemoMark, Rescore, Save, DemoRead, EnrichLoad,
         Enrich, rows
<1>2. PICK t : Move(w, t) /\ t.step \in {"idle", "mark", "ask", "rescore", "save"}
  <2>1. CASE JoinRefused(w) \/ DemoFails(w) \/ DetectFails(w) \/ Fail(w) \/ Abort(w) \/ Save(w)
    <3>1. Move(w, Idle) /\ Idle.step = "idle"
      BY <2>1 DEF JoinRefused, DemoFails, DetectFails, Fail, Abort, Save, Idle
    <3> QED BY <3>1
  <2>2. CASE DemoMark(w) \/ Rescore(w)
    <3>1. \E key, held, score :
            Move(w, [step |-> "save", key |-> key, held |-> held, score |-> score])
      BY <2>2 DEF DemoMark, Rescore
    <3> QED BY <3>1
  <2>3. ASSUME NEW k \in Keys, NEW v \in Values, NEW row \in Row \cup {NoRow}, DemoRead(w, k, v, row)
        PROVE  \E t : Move(w, t) /\ t.step \in {"idle", "mark", "ask", "rescore", "save"}
    <3>1. \E alerts, bad : Move(w, [step |-> "mark", key |-> k, value |-> v, held |-> row,
                                   alerts |-> alerts, bad |-> bad])
      BY <2>3 DEF DemoRead
    <3> QED BY <3>1
  <2>4. CASE \E k \in Keys, v \in Values : EnrichLoad(w, k, v)
    <3>1. \E k, v, said : Move(w, [step |-> "ask", key |-> k, value |-> v, accused |-> said])
      BY <2>4 DEF EnrichLoad
    <3> QED BY <3>1
  <2>5. CASE \E b \in BOOLEAN : Enrich(w, b)
    <3>1. \E k, v, said : Move(w, [step |-> "rescore", key |-> k, value |-> v, accused |-> said])
      BY <2>5 DEF Enrich
    <3> QED BY <3>1
  <2> QED BY <2>1, <2>2, <2>3, <2>4, <2>5
<1> QED BY <1>1, <1>2, NotAnswering, AnswerSame

\* What happens while nobody resets the demo.
Calm == \E w \in Workers : (Free(w) /\ Call(w)) \/ Run(w) \/ Abort(w)

LEMMA AnswerNext == IngInv /\ AnswerInv /\ [Calm]_vars => AnswerInv'
<1> SUFFICES ASSUME IngInv, AnswerInv, [Calm]_vars PROVE AnswerInv'
  OBVIOUS
<1>1. CASE UNCHANGED vars
  <2>1. stored' = stored /\ alert' = alert /\ replies' = replies /\ session' = session
    BY <1>1 DEF vars
  <2>2. ASSUME NEW w \in Workers PROVE Answering(session[w])'
    <3>1. PICK s : s = session[w]
      OBVIOUS
    <3>2. Answering(s) /\ session'[w] = s
      BY <2>1, <3>1 DEF AnswerInv
    <3>3. \A e : Correlated(e)' <=> Correlated(e)
      BY <2>1 DEF Correlated
    <3>4. Answering(s)'
      BY <2>1, <3>2, <3>3 DEF Answering
    <3> QED BY <3>2, <3>4
  <2>3. \A p \in replies' : Answered(p)'
    BY <2>1 DEF AnswerInv, Answered, Correlated
  <2> QED BY <2>1, <2>2, <2>3 DEF AnswerInv
<1>2. ASSUME NEW w \in Workers, Call(w) PROVE AnswerInv'
  BY <1>2, AnswerStore, AnswerDuplicate, AnswerAside DEF Call, AllEvents
<1>3. ASSUME NEW w \in Workers, Continue(w) PROVE AnswerInv'
  <2>1. CASE \E k \in Keys, v \in Values :
               At(w, "correlate") /\ \E row \in {session[w].seen[k], incident[k]} \ {NoRow} :
                                        DemoRead(w, k, v, row)
    <3> PICK k \in Keys, v \in Values : At(w, "correlate") /\
               \E row \in {session[w].seen[k], incident[k]} \ {NoRow} : DemoRead(w, k, v, row)
      BY <2>1
    <3>1. PICK row \in {session[w].seen[k], incident[k]} : At(w, "correlate") /\ DemoRead(w, k, v, row)
      OBVIOUS
    <3>2. session[w] \in Correlating
      BY <3>1, Holding, KindOfStep DEF At
    <3>3. row \in Row \cup {NoRow}
      BY <3>2 DEF Correlating, Seen, IngInv, TypeOK
    <3> QED BY <3>1, <3>3, AnswerAside
  <2> QED BY <1>3, <2>1, AnswerDetect, AnswerLookup, AnswerJoin, AnswerJoinCommit, AnswerFinish,
          AnswerReply, AnswerAside DEF Continue
<1>4. ASSUME NEW w \in Workers, Abort(w) PROVE AnswerInv'
  BY <1>4, AnswerAside
<1> QED BY <1>1, <1>2, <1>3, <1>4 DEF Calm, Run

LEMMA AnswerInit == Init => AnswerInv
BY DEF Init, AnswerInv, Answering, Alerts, Idle

\* Without demo mode, in any number of processes and with failures at every step, the first
\* answer to a delivery comes only when the event has joined its incidents, and names exactly
\* these (ingestion.py:32-33, routes.py:191-215).
THEOREM IngestionAnswered == ASSUME ~DemoMode PROVE Spec => []AnsweredIsCorrelated
<1>1. IngInv /\ AnswerInv /\ [Next]_vars => AnswerInv'
  BY AnswerNext DEF Next, Calm, Reset
<1>2. AnswerInv => AnsweredIsCorrelated
  BY DEF AnswerInv, Answered, AnsweredIsCorrelated
<1> QED BY <1>1, <1>2, AnswerInit, IngInvariant, PTL DEF Spec

-----------------------------------------------------------------------------
(* Severity and risk in one process.                                        *)

OneLoop == \A v, w \in Tasks : LoopOf[v] = LoopOf[w]
OneProcess == OneLoop /\ ~DemoMode /\ Threads = {}

\* A score counts every verdict of the incident but, perhaps, one that was overtaken.
Counted(k, score) ==
    \/ score = Score(Attached(k), Bad(k))
    \/ \E v \in Bad(k) : <<k, v>> \in overtaken /\ score = Score(Attached(k), Bad(k) \ {v})

\* An enrichment whose indicator has become malicious behind its back was overtaken.
Informed(s) == s.step \in {"ask", "rescore"} =>
    IF s.accused THEN s.value \in Bad(s.key)
    ELSE s.value \in Bad(s.key) => <<s.key, s.value>> \in overtaken

\* What the running handler holds is what is stored.
Current(s) ==
    /\ s.step \notin {"mark", "doomed"}
    /\ s.step \in {"correlate", "join", "commit"} =>
         \A k \in Keys : s.seen[k] # NoRow => s.seen[k] = incident[k]
    /\ s.step = "join" =>
         /\ s.held = incident[JoinKey(s)]
         /\ s.fresh \cap Known(JoinKey(s)) = {}
         /\ s.bad = Bad(JoinKey(s))
    /\ s.step = "commit" =>
         /\ IF s.created THEN s.held = [severity |-> Severity[s.rule], score |-> 0, level |-> 1]
                         ELSE s.held = incident[JoinKey(s)]
         /\ s.fresh \cap Known(JoinKey(s)) = {}
         /\ s.score = Score(Attached(JoinKey(s)) \cup {<<s.event, s.rule>>}, Bad(JoinKey(s)))
    /\ s.step = "save" =>
         /\ s.held = incident[s.key]
         /\ Counted(s.key, s.score)

\* An alert has joined an incident that exists.
Housed == \A k \in Keys : ~Exists(k) => Attached(k) = {}

Waits(s) == s.step \in {"idle", "reply", "ask"}

\* Of two handlers one is idle, awaits its providers or has only its answer to give.
SerialInv ==
    /\ SeverityCoversAlerts /\ RiskUpToDate /\ Housed
    /\ \A w \in Workers : Current(session[w]) /\ Informed(session[w])
    /\ \A v, w \in Workers : v # w => Waits(session[v]) \/ Waits(session[w])

\* No other handler is between two awaits.
Quiet(w) == \A v \in Workers \ {w} : Waits(session[v])

LEMMA FreeIsQuiet == ASSUME OneProcess, NEW w \in Workers, Free(w) PROVE Quiet(w)
BY DEF OneProcess, OneLoop, Workers, Free, Quiet, Waits

LEMMA WaitingIsCurrent == \A s : Waits(s) => Current(s)
BY DEF Waits, Current

\* One handler steps, and the others wait.
LEMMA SerialStep ==
    ASSUME IngInv, SerialInv, NEW w \in Workers, NEW t, Move(w, t), Quiet(w),
           Current(t)', Informed(t)', \A v \in Workers \ {w} : \A x : x = session[v] => Informed(x)',
           SeverityCoversAlerts', RiskUpToDate', Housed'
    PROVE  SerialInv'
<1>1. session'[w] = t /\ \A v \in Workers \ {w} : session'[v] = session[v]
  BY DEF Move, IngInv, TypeOK
<1>2. ASSUME NEW v \in Workers PROVE Current(session[v])' /\ Informed(session[v])'
  <2>1. CASE v = w
    BY <1>1, <2>1
  <2>2. CASE v # w
    <3>1. PICK x : x = session[v]
      OBVIOUS
    <3>2. Waits(x) /\ session'[v] = x
      BY <1>1, <2>2, <3>1 DEF Quiet
    <3>3. Current(x)'
      BY <3>2 DEF Waits, Current
    <3>4. Informed(x)'
      BY <2>2, <3>1
    <3> QED BY <3>2, <3>3, <3>4
  <2> QED BY <2>1, <2>2
<1>3. \A u, v \in Workers : u # v => Waits(session'[u]) \/ Waits(session'[v])
  BY <1>1 DEF Quiet
<1> QED BY <1>2, <1>3 DEF SerialInv, Waits

\* A step that changes no verdict leaves every handler as informed as it was.
LEMMA InformedSame ==
    ASSUME IngInv, SerialInv, UNCHANGED overtaken, \A k \in Keys : Bad(k)' = Bad(k),
           NEW v \in Workers
    PROVE  \A x : x = session[v] => Informed(x)'
<1> SUFFICES ASSUME NEW x, x = session[v] PROVE Informed(x)'
  OBVIOUS
<1>1. Informed(x) /\ x \in Session
  BY DEF SerialInv, IngInv, TypeOK
<1>2. x.step \in {"ask", "rescore"} => x.key \in Keys
  BY <1>1, KindOfStep DEF Asking, Rescoring
<1> QED BY <1>1, <1>2 DEF Informed

\* A step that leaves incidents and what they are made of alone.
LEMMA RiskSame ==
    ASSUME SerialInv, UNCHANGED <<incident, ioc, owed, overtaken>>,
           \A k \in Keys : Attached(k)' = Attached(k)
    PROVE  SeverityCoversAlerts' /\ RiskUpToDate' /\ Housed'
<1>1. \A k \in Keys : Bad(k)' = Bad(k) /\ (Exists(k)' <=> Exists(k))
  BY DEF Bad, Exists
<1>2. SeverityCoversAlerts' /\ Housed'
  BY <1>1 DEF SerialInv, SeverityCoversAlerts, Housed
<1>3. RiskUpToDate'
  BY <1>1 DEF SerialInv, RiskUpToDate
<1> QED BY <1>2, <1>3

LEMMA SerialSame ==
    ASSUME IngInv, SerialInv, NEW w \in Workers, NEW t, Move(w, t), Quiet(w),
           UNCHANGED <<alert, incident, ioc, owed, overtaken>>, Current(t), Informed(t)
    PROVE  SerialInv'
<1>1. \A k : Attached(k)' = Attached(k) /\ Known(k)' = Known(k) /\ Bad(k)' = Bad(k)
  BY DEF Attached, Known, Bad
<1>2. Current(t)' /\ Informed(t)'
  BY <1>1 DEF Current, JoinKey, Counted, Informed
<1>3. \A v \in Workers \ {w} : \A x : x = session[v] => Informed(x)'
  BY <1>1, InformedSame
<1> QED BY <1>1, <1>2, <1>3, RiskSame, SerialStep

LEMMA SerialCall ==
    ASSUME IngInv, SerialInv, NEW w \in Workers, NEW e \in AllEvents, Quiet(w),
           Store(w, e) \/ Duplicate(w, e)
    PROVE  SerialInv'
<1>1. UNCHANGED <<alert, incident, ioc, owed, overtaken>>
  BY DEF Store, Duplicate, rows
<1>2. CASE Store(w, e)
  <2>1. PICK t : t = [step |-> "detect", event |-> e]
    OBVIOUS
  <2>2. Move(w, t) /\ Current(t) /\ Informed(t)
    BY <1>2, <2>1 DEF Store, Current, Informed
  <2> QED BY <1>1, <2>2, SerialSame
<1>3. CASE Duplicate(w, e)
  <2>1. PICK t : t = session[w]
    OBVIOUS
  <2>2. Move(w, t) /\ Current(t) /\ Informed(t)
    BY <1>3, <2>1 DEF Duplicate, SerialInv, Move, IngInv, TypeOK
  <2> QED BY <1>1, <2>2, SerialSame
<1> QED BY <1>2, <1>3

LEMMA SerialDetect ==
    ASSUME IngInv, SerialInv, NEW w \in Workers, Quiet(w), Detect(w) PROVE SerialInv'
<1>1. PICK s : s = session[w]
  OBVIOUS
<1>2. PICK new : new = {r \in Matches[s.event] : alert[<<s.event, r>>] = NoAlert}
  OBVIOUS
<1>3. PICK t : t = [step |-> "correlate", event |-> s.event, todo |-> new,
                    seen |-> [k \in Keys |-> NoRow]]
  OBVIOUS
<1>4. /\ alert' = [a \in Alerts |-> IF a[1] = s.event /\ a[2] \in new THEN Unlinked ELSE alert[a]]
      /\ Move(w, t) /\ UNCHANGED <<incident, ioc, owed, overtaken>>
  BY <1>1, <1>2, <1>3 DEF Detect
<1>5. \A a \in Alerts, k \in Keys : alert'[a] = k <=> alert[a] = k
  <2>1. \A a \in Alerts : a[1] = s.event /\ a[2] \in new => alert[a] = NoAlert
    BY <1>2 DEF Alerts
  <2> QED BY <1>4, <2>1, PipelineAssumption
<1>6. \A k \in Keys : Attached(k)' = Attached(k)
  BY <1>5 DEF Attached
<1>7. Current(t)' /\ Informed(t)'
  BY <1>3 DEF Current, Informed
<1>8. \A v \in Workers \ {w} : \A x : x = session[v] => Informed(x)'
  BY <1>4, InformedSame DEF Bad
<1> QED BY <1>4, <1>6, <1>7, <1>8, RiskSame, SerialStep

LEMMA SerialLookup ==
    ASSUME IngInv, SerialInv, NEW w \in Workers, Quiet(w), NEW r \in Rules, Lookup(w, r)
    PROVE  SerialInv'
<1>1. PICK s : s = session[w]
  OBVIOUS
<1>2. s \in Correlating /\ Current(s) /\ s.step = "correlate"
  BY <1>1, Holding, KindOfStep DEF Lookup, At, SerialInv
<1>3. PICK k \in Keys : k = Key[<<s.event, r>>]
  BY <1>2, PipelineAssumption DEF Correlating, Alerts
<1>4. PICK t : t = [step |-> "join", event |-> s.event, todo |-> s.todo, seen |-> s.seen,
                    rule |-> r, held |-> IF s.seen[k] # NoRow THEN s.seen[k] ELSE incident[k],
                    fresh |-> EventIocs[s.event] \ Known(k), bad |-> Bad(k)]
  OBVIOUS
<1>5. Move(w, t) /\ UNCHANGED <<alert, incident, ioc, owed, overtaken>>
  BY <1>1, <1>3, <1>4 DEF Lookup, rows
<1>6. JoinKey(t) = k /\ t.held = incident[k]
  BY <1>2, <1>3, <1>4 DEF JoinKey, Current
<1>7. Current(t) /\ Informed(t)
  BY <1>2, <1>4, <1>6 DEF Current, Informed
<1> QED BY <1>5, <1>7, SerialSame

LEMMA SerialFlush ==
    ASSUME IngInv, SerialInv, NEW w \in Workers, Quiet(w), JoinFlush(w) PROVE SerialInv'
<1>1. PICK s : s = session[w]
  OBVIOUS
<1>2. s \in Joining /\ Current(s) /\ s.step = "join"
  BY <1>1, Holding, KindOfStep DEF JoinFlush, At, SerialInv
<1>3. PICK k \in Keys : k = JoinKey(s)
  BY <1>2, PipelineAssumption DEF Joining, JoinKey, Alerts
<1>4. PICK held : held = IF Exists(k) THEN s.held
                         ELSE [severity |-> Severity[s.rule], score |-> 0, level |-> 1]
  OBVIOUS
<1>5. PICK t : t = [step |-> "commit", event |-> s.event, todo |-> s.todo, seen |-> s.seen,
                    rule |-> s.rule, created |-> ~Exists(k), held |-> held, fresh |-> s.fresh,
                    score |-> Score(Attached(k) \cup {<<s.event, s.rule>>}, s.bad)]
  OBVIOUS
<1>6. Move(w, t) /\ UNCHANGED <<alert, incident, ioc, owed, overtaken>>
  BY <1>1, <1>3, <1>4, <1>5 DEF JoinFlush, rows
<1>7. JoinKey(t) = k /\ s.bad = Bad(k) /\ s.held = incident[k] /\ s.fresh \cap Known(k) = {}
  BY <1>2, <1>3, <1>5 DEF JoinKey, Current
<1>8. Current(t) /\ Informed(t)
  BY <1>2, <1>4, <1>5, <1>7 DEF Current, Informed
<1> QED BY <1>6, <1>8, SerialSame

\* What the commit leaves of an incident that is as the handler holds it.
LEMMA JoinedIsCurrent ==
    ASSUME NEW row, NEW s \in Committing,
           IF s.created THEN s.held = [severity |-> Severity[s.rule], score |-> 0, level |-> 1]
                        ELSE row \in Row /\ s.held = row
    PROVE  LET new == Joined(row, s) IN
           /\ new.score = s.score /\ new.level = Level(s.score)
           /\ new.severity >= Severity[s.rule]
           /\ ~s.created => new.severity >= row.severity
<1>1. Severity[s.rule] \in 0..4
  BY PipelineAssumption DEF Committing
<1>2. CASE s.created
  BY <1>1, <1>2 DEF Joined
<1>3. CASE ~s.created
  <2>1. row \in Row /\ s.held = row
    BY <1>3
  <2>2. PICK x, l : x = s.score /\ l = Level(s.score)
    OBVIOUS
  <2>3. Assess(row, row, s.score) = [row EXCEPT !.score = x, !.level = l]
    BY <2>1, <2>2 DEF Assess, Flush, Row
  <2>4. Joined(row, s) = [[row EXCEPT !.score = x, !.level = l] EXCEPT
                            !.severity = IF Severity[s.rule] > row.severity THEN Severity[s.rule] ELSE @]
    BY <1>3, <2>1, <2>3 DEF Joined, Raises
  <2> QED BY <1>1, <1>3, <2>1, <2>2, <2>4 DEF Row
<1> QED BY <1>2, <1>3

LEMMA SerialJoinCommit ==
    ASSUME IngInv, SerialInv, NEW w \in Workers, Quiet(w), JoinCommit(w) PROVE SerialInv'
<1>1. PICK s : s = session[w]
  OBVIOUS
<1>2. s \in Committing /\ Sound(s) /\ Current(s) /\ s.step = "commit"
  BY <1>1, Holding, KindOfStep DEF JoinCommit, At, SerialInv
<1>3. PICK k \in Keys : k = JoinKey(s)
  BY <1>2, PipelineAssumption DEF Committing, JoinKey, Alerts
<1>4. PICK a \in Alerts : a = <<s.event, s.rule>> /\ a[2] = s.rule
  <2>1. <<s.event, s.rule>> \in Alerts /\ <<s.event, s.rule>>[2] = s.rule
    BY <1>2 DEF Committing, Alerts
  <2> QED BY <2>1
<1>5. PICK row \in Row : row = Joined(incident[k], s)
  BY <1>2, <1>3, JoinedType
<1>6. PICK t : t = [step |-> "correlate", event |-> s.event, todo |-> s.todo \ {s.rule},
                    seen |-> [s.seen EXCEPT ![k] = row]]
  OBVIOUS
<1>7. /\ alert' = [alert EXCEPT ![a] = k] /\ owed' = owed \ {k} /\ overtaken' = overtaken
      /\ incident' = [incident EXCEPT ![k] = row]
      /\ ioc' = [ioc EXCEPT ![k] = [v \in Values |-> IF v \in s.fresh THEN "UNKNOWN" ELSE @[v]]]
  BY <1>1, <1>3, <1>4, <1>5 DEF JoinCommit
<1>8. incident'[k] = row /\ \A c \in Keys \ {k} : incident'[c] = incident[c]
  BY <1>7 DEF IngInv, TypeOK
<1>9. Move(w, t)
  BY <1>1, <1>3, <1>6, <1>8 DEF JoinCommit
<1>10. Current(t)' /\ Informed(t)'
  <2>1. \A c \in Keys : t.seen[c] # NoRow => t.seen[c] = incident'[c]
    BY <1>2, <1>6, <1>8 DEF Current, Committing, Seen
  <2> QED BY <1>6, <2>1 DEF Current, Informed
<1>11. Attached(k)' = Attached(k) \cup {a} /\ \A c \in Keys \ {k} : Attached(c)' = Attached(c)
  <2>1. alert[a] = Unlinked
    BY <1>2, <1>4 DEF Sound
  <2>2. \A b \in Alerts : alert'[b] = IF b = a THEN k ELSE alert[b]
    BY <1>7 DEF IngInv, TypeOK
  <2> QED BY <2>1, <2>2, PipelineAssumption DEF Attached
<1>12. \A c \in Keys : Bad(c)' = Bad(c)
  <2>1. \A c \in Keys \ {k} : ioc'[c] = ioc[c]
    BY <1>7 DEF IngInv, TypeOK
  <2>2. \A v \in Values : ioc'[k][v] = IF v \in s.fresh THEN "UNKNOWN" ELSE ioc[k][v]
    BY <1>7 DEF IngInv, TypeOK
  <2>3. \A v \in Values : v \in s.fresh => ioc[k][v] = "ABSENT"
    BY <1>2, <1>3 DEF Current, Known
  <2> QED BY <2>1, <2>2, <2>3 DEF Bad
<1>13. s.score = Score(Attached(k) \cup {a}, Bad(k))
  BY <1>2, <1>3, <1>4 DEF Current
<1>14. s.created => Attached(k) = {}
  BY <1>2, <1>3 DEF Sound, SerialInv, Housed
<1>15. ~s.created => incident[k] \in Row
  BY <1>2, <1>3 DEF Sound, Exists, IngInv, TypeOK
<1>16. /\ row.score = s.score /\ row.level = Level(s.score) /\ row.severity >= Severity[s.rule]
       /\ ~s.created => row.severity >= incident[k].severity
  BY <1>2, <1>3, <1>5, <1>15, JoinedIsCurrent DEF Current
<1>17. SeverityCoversAlerts'
  <2> SUFFICES ASSUME NEW c \in Keys, NEW b \in Alerts, b \in Attached(c)'
               PROVE  incident'[c].severity >= Severity[b[2]]
    BY DEF SeverityCoversAlerts, Attached
  <2>1. CASE c # k
    BY <1>8, <1>11, <2>1 DEF SerialInv, SeverityCoversAlerts
  <2>2. CASE c = k /\ b = a
    BY <1>4, <1>8, <1>16, <2>2
  <2>3. CASE c = k /\ b # a
    <3>1. b \in Attached(k) /\ ~s.created
      BY <1>11, <1>14, <2>3
    <3>2. /\ incident[k].severity >= Severity[b[2]] /\ row.severity >= incident[k].severity
          /\ incident[k].severity \in Int /\ row.severity \in Int /\ Severity[b[2]] \in Int
      BY <1>15, <1>16, <3>1, PipelineAssumption DEF SerialInv, SeverityCoversAlerts, Row, Alerts
    <3> QED BY <1>8, <2>3, <3>2
  <2> QED BY <2>1, <2>2, <2>3
<1>18. RiskUpToDate'
  <2> SUFFICES ASSUME NEW c \in Keys, Exists(c)'
               PROVE  /\ incident'[c].level = Level(incident'[c].score)
                      /\ c \notin owed' => Counted(c, incident[c].score)'
    BY DEF RiskUpToDate, Counted
  <2>1. CASE c = k
    BY <1>8, <1>11, <1>12, <1>13, <1>16, <2>1 DEF Counted
  <2>2. CASE c # k
    BY <1>7, <1>8, <1>11, <1>12, <2>2 DEF SerialInv, RiskUpToDate, Exists, Counted
  <2> QED BY <2>1, <2>2
<1>19. Housed'
  BY <1>8, <1>11, PipelineAssumption DEF SerialInv, Housed, Exists
<1>20. \A v \in Workers \ {w} : \A x : x = session[v] => Informed(x)'
  BY <1>7, <1>12, InformedSame
<1> QED BY <1>9, <1>10, <1>17, <1>18, <1>19, <1>20, SerialStep

\* The steps that leave the handler idle, or answer.
LEMMA SerialEnd ==
    ASSUME IngInv, SerialInv, NEW w \in Workers, Quiet(w),
           JoinConflict(w) \/ JoinRefused(w) \/ Finish(w) \/ Reply(w) \/ DemoFails(w) \/ DetectFails(w) \/ Fail(w)
    PROVE  SerialInv'
<1>1. UNCHANGED <<alert, incident, ioc, owed, overtaken>>
  BY DEF JoinConflict, JoinRefused, Finish, Reply, DemoFails, DetectFails, Fail, rows
<1>2. ~JoinConflict(w)
  <2>1. PICK s : s = session[w]
    OBVIOUS
  <2>2. Current(s)
    BY <2>1 DEF SerialInv
  <2> QED BY <2>1, <2>2 DEF JoinConflict, At, Current, Exists
<1>3. PICK t : Move(w, t) /\ Waits(t) /\ Informed(t)
  <2>1. CASE Finish(w)
    <3>1. \E event, found : Move(w, [step |-> "reply", event |-> event, found |-> found])
      BY <2>1 DEF Finish
    <3> QED BY <3>1 DEF Waits, Informed
  <2>2. CASE ~Finish(w)
    <3>1. Move(w, Idle) /\ Waits(Idle) /\ Informed(Idle)
      BY <1>2, <2>2 DEF JoinRefused, Reply, DemoFails, DetectFails, Fail, Waits, Informed, Idle
    <3> QED BY <3>1
  <2> QED BY <2>1, <2>2
<1> QED BY <1>1, <1>3, WaitingIsCurrent, SerialSame

LEMMA SerialEnrichLoad ==
    ASSUME IngInv, SerialInv, NEW w \in Workers, Quiet(w), NEW k \in Keys, NEW v \in Values,
           EnrichLoad(w, k, v)
    PROVE  SerialInv'
<1>1. PICK t : t = [step |-> "ask", key |-> k, value |-> v, accused |-> v \in Bad(k)]
  OBVIOUS
<1>2. Move(w, t) /\ UNCHANGED <<alert, incident, ioc, owed, overtaken>>
  BY <1>1 DEF EnrichLoad, rows
<1>3. Current(t) /\ Informed(t)
  BY <1>1 DEF Current, Informed
<1> QED BY <1>2, <1>3, SerialSame

\* The verdict of an enrichment overtakes whoever has read the indicator and does not know.
LEMMA SerialEnrich ==
    ASSUME IngInv, SerialInv, NEW w \in Workers, Quiet(w), NEW b \in BOOLEAN, Enrich(w, b)
    PROVE  SerialInv'
<1>1. PICK s : s = session[w]
  OBVIOUS
<1>2. s \in Asking /\ s.step = "ask" /\ Informed(s)
  BY <1>1, Holding, KindOfStep DEF Enrich, At, SerialInv
<1>3. PICK k \in Keys, v \in Values : k = s.key /\ v = s.value
  BY <1>2 DEF Asking
<1>4. PICK t : t = [step |-> "rescore", key |-> k, value |-> v, accused |-> s.accused \/ b]
  OBVIOUS
<1>5. PICK told : told = (b /\ ~s.accused)
  OBVIOUS
<1>6. /\ Move(w, t) /\ UNCHANGED <<alert, incident>>
      /\ ioc' = IF told THEN [ioc EXCEPT ![k][v] = "MALICIOUS"] ELSE ioc
      /\ owed' = IF b THEN owed \cup {k} ELSE owed
      /\ overtaken' = IF told THEN overtaken \cup Overtakes(w, k, v) ELSE overtaken
  BY <1>1, <1>3, <1>4, <1>5 DEF Enrich
<1>7. /\ overtaken \subseteq overtaken'
      /\ \A c \in Keys : Bad(c)' = IF told /\ c = k THEN Bad(c) \cup {v} ELSE Bad(c)
  <2>1. ioc \in [Keys -> [Values -> Verdicts]]
    BY DEF IngInv, TypeOK
  <2>2. CASE told
    <3>1. /\ \A c \in Keys \ {k} : ioc'[c] = ioc[c]
          /\ \A u \in Values : ioc'[k][u] = IF u = v THEN "MALICIOUS" ELSE ioc[k][u]
      BY <1>6, <2>1, <2>2
    <3> QED BY <1>6, <2>2, <3>1 DEF Bad
  <2>3. CASE ~told
    BY <1>6, <2>3 DEF Bad
  <2> QED BY <2>2, <2>3
<1>8. Current(t)' /\ Informed(t)'
  <2>1. Current(t)'
    BY <1>4 DEF Current
  <2>2. CASE s.accused \/ b
    <3>1. v \in Bad(k)'
      BY <1>2, <1>3, <1>5, <1>7, <2>2 DEF Informed
    <3> QED BY <1>4, <2>1, <2>2, <3>1 DEF Informed
  <2>3. CASE ~(s.accused \/ b)
    BY <1>2, <1>3, <1>4, <1>5, <1>7, <2>1, <2>3 DEF Informed
  <2> QED BY <2>2, <2>3
<1>9. ASSUME NEW u \in Workers \ {w}, NEW x, x = session[u] PROVE Informed(x)'
  <2>1. Informed(x) /\ x \in Session
    BY <1>9 DEF SerialInv, IngInv, TypeOK
  <2> SUFFICES ASSUME x.step \in {"ask", "rescore"} PROVE Informed(x)'
    BY DEF Informed
  <2>2. x.key \in Keys
    BY <2>1, KindOfStep DEF Asking, Rescoring
  <2>3. CASE x.accused
    BY <1>7, <2>1, <2>2, <2>3 DEF Informed
  <2>4. CASE ~x.accused /\ x.value \in Bad(x.key)
    BY <1>7, <2>1, <2>2, <2>4 DEF Informed
  <2>5. CASE ~x.accused /\ x.value \notin Bad(x.key) /\ x.value \in Bad(x.key)'
    <3>1. told /\ x.key = k /\ x.value = v
      BY <1>7, <2>2, <2>5
    <3>2. Overtakes(w, k, v) = {<<k, v>>}
      BY <1>9, <2>5, <3>1 DEF Overtakes, At
    <3>3. <<x.key, x.value>> \in overtaken'
      BY <1>6, <3>1, <3>2
    <3> QED BY <2>5, <3>3 DEF Informed
  <2>6. CASE ~x.accused /\ x.value \notin Bad(x.key)'
    BY <2>6 DEF Informed
  <2> QED BY <2>3, <2>4, <2>5, <2>6
<1>10. \A c \in Keys : Attached(c)' = Attached(c) /\ (Exists(c)' <=> Exists(c))
  BY <1>6 DEF Attached, Exists
<1>11. SeverityCoversAlerts' /\ Housed'
  BY <1>6, <1>10 DEF SerialInv, SeverityCoversAlerts, Housed
<1>12. \A c \in Keys : c \notin owed' => c \notin owed /\ Bad(c)' = Bad(c)
  BY <1>5, <1>6, <1>7
<1>13. RiskUpToDate'
  BY <1>6, <1>7, <1>10, <1>12 DEF SerialInv, RiskUpToDate
<1> QED BY <1>6, <1>8, <1>9, <1>11, <1>13, SerialStep

\* The object held since before the await lacks at most a verdict that overtook it.
LEMMA SerialRescore ==
    ASSUME IngInv, SerialInv, NEW w \in Workers, Quiet(w), Rescore(w) PROVE SerialInv'
<1>1. PICK s : s = session[w]
  OBVIOUS
<1>2. s.step = "rescore" /\ Informed(s)
  BY <1>1 DEF Rescore, At, SerialInv
<1>3. PICK k, score : k = s.key /\ score = Score(Attached(k), Accused(s))
  OBVIOUS
<1>4. PICK t : t = [step |-> "save", key |-> k, held |-> incident[k], score |-> score]
  OBVIOUS
<1>5. Move(w, t) /\ UNCHANGED <<alert, incident, ioc, owed, overtaken>>
  BY <1>1, <1>3, <1>4 DEF Rescore, rows
<1>6. Counted(k, score)
  <2>1. CASE s.value \in Bad(k) /\ ~s.accused
    <3>1. Accused(s) = Bad(k) \ {s.value} /\ <<k, s.value>> \in overtaken
      BY <1>2, <1>3, <2>1 DEF Accused, Informed
    <3> QED BY <1>3, <2>1, <3>1 DEF Counted
  <2>2. CASE ~(s.value \in Bad(k) /\ ~s.accused)
    <3>1. Accused(s) = Bad(k)
      BY <1>2, <1>3, <2>2 DEF Accused, Informed
    <3> QED BY <1>3, <3>1 DEF Counted
  <2> QED BY <2>1, <2>2
<1>7. Current(t) /\ Informed(t)
  BY <1>4, <1>6 DEF Current, Informed
<1> QED BY <1>5, <1>7, SerialSame

LEMMA SerialSave ==
    ASSUME IngInv, SerialInv, NEW w \in Workers, Quiet(w), Save(w) PROVE SerialInv'
<1>1. PICK s : s = session[w]
  OBVIOUS
<1>2. s \in Saving /\ Sound(s) /\ Current(s) /\ s.step = "save"
  BY <1>1, Holding, KindOfStep DEF Save, At, SerialInv
<1>3. PICK k \in Keys : k = s.key
  BY <1>2 DEF Saving
<1>4. PICK row \in Row : row = incident[k] /\ s.held = row
  BY <1>2, <1>3 DEF Sound, Exists, Current, IngInv, TypeOK
<1>5. PICK x, l : x = s.score /\ l = Level(s.score)
  OBVIOUS
<1>6. PICK new : new = [row EXCEPT !.score = x, !.level = l]
  OBVIOUS
<1>7. new = Assess(row, s.held, s.score)
  BY <1>4, <1>5, <1>6 DEF Assess, Flush, Row
<1>8. /\ incident' = [incident EXCEPT ![k] = new] /\ owed' = owed \ {k}
      /\ Move(w, Idle) /\ UNCHANGED <<alert, ioc, overtaken>>
  BY <1>1, <1>3, <1>4, <1>7 DEF Save
<1>9. incident'[k] = new /\ \A c \in Keys \ {k} : incident'[c] = incident[c]
  BY <1>8 DEF IngInv, TypeOK
<1>10. new.score = s.score /\ new.level = Level(s.score) /\ new.severity = row.severity
  BY <1>4, <1>5, <1>6 DEF Row
<1>11. \A c \in Keys : Attached(c)' = Attached(c) /\ Bad(c)' = Bad(c)
  BY <1>8 DEF Attached, Bad
<1>12. Counted(k, s.score)
  BY <1>2, <1>3 DEF Current
<1>13. SeverityCoversAlerts'
  BY <1>4, <1>9, <1>10, <1>11 DEF SerialInv, SeverityCoversAlerts
<1>14. RiskUpToDate'
  <2> SUFFICES ASSUME NEW c \in Keys, Exists(c)'
               PROVE  /\ incident'[c].level = Level(incident'[c].score)
                      /\ c \notin owed' => Counted(c, incident[c].score)'
    BY DEF RiskUpToDate, Counted
  <2>1. CASE c = k
    BY <1>8, <1>9, <1>10, <1>11, <1>12, <2>1 DEF Counted
  <2>2. CASE c # k
    BY <1>8, <1>9, <1>11, <2>2 DEF SerialInv, RiskUpToDate, Exists, Counted
  <2> QED BY <2>1, <2>2
<1>15. Housed'
  <2>1. new \in Row
    BY <1>2, <1>4, <1>7, AssessType DEF Saving
  <2>2. \A c \in Keys : Exists(c) => Exists(c)'
    BY <1>9, <2>1, PipelineAssumption DEF Exists
  <2> QED BY <1>11, <2>2 DEF SerialInv, Housed
<1>16. Current(Idle)' /\ Informed(Idle)'
  BY DEF Current, Informed, Idle
<1>17. \A v \in Workers \ {w} : \A y : y = session[v] => Informed(y)'
  BY <1>8, <1>11, InformedSame
<1> QED BY <1>8, <1>13, <1>14, <1>15, <1>16, <1>17, SerialStep

\* A handler that dies, whoever else runs.
LEMMA SerialAbort == ASSUME IngInv, SerialInv, NEW w \in Workers, Abort(w) PROVE SerialInv'
<1>1. Move(w, Idle) /\ UNCHANGED <<alert, incident, ioc, owed, overtaken>>
  BY DEF Abort, rows
<1>2. session'[w] = Idle /\ \A v \in Workers \ {w} : session'[v] = session[v]
  BY <1>1 DEF Move, IngInv, TypeOK
<1>3. \A k : Attached(k)' = Attached(k) /\ Known(k)' = Known(k) /\ Bad(k)' = Bad(k)
  BY <1>1 DEF Attached, Known, Bad
<1>4. SeverityCoversAlerts' /\ RiskUpToDate' /\ Housed'
  BY <1>1, <1>3, RiskSame
<1>5. ASSUME NEW v \in Workers PROVE Current(session[v])' /\ Informed(session[v])'
  <2>1. PICK x : x = IF v = w THEN Idle ELSE session[v]
    OBVIOUS
  <2>2. Current(x) /\ Informed(x) /\ session'[v] = x
    BY <1>2, <2>1 DEF SerialInv, Current, Informed, Idle
  <2>3. Current(x)' /\ Informed(x)'
    BY <1>1, <1>3, <2>2 DEF Current, JoinKey, Counted, Informed
  <2> QED BY <2>2, <2>3
<1>6. \A u, v \in Workers : u # v => Waits(session'[u]) \/ Waits(session'[v])
  BY <1>2 DEF SerialInv, Waits, Idle
<1> QED BY <1>4, <1>5, <1>6 DEF SerialInv, Waits

LEMMA SerialNext == ASSUME OneProcess PROVE IngInv /\ SerialInv /\ [Next]_vars => SerialInv'
<1> SUFFICES ASSUME IngInv, SerialInv, [Next]_vars PROVE SerialInv'
  OBVIOUS
<1>1. CASE UNCHANGED vars
  <2>1. UNCHANGED <<alert, incident, ioc, owed, overtaken>> /\ session' = session
    BY <1>1 DEF vars
  <2>2. \A k : Attached(k)' = Attached(k) /\ Known(k)' = Known(k) /\ Bad(k)' = Bad(k)
    BY <2>1 DEF Attached, Known, Bad
  <2>3. SeverityCoversAlerts' /\ RiskUpToDate' /\ Housed'
    BY <2>1, <2>2, RiskSame
  <2>4. ASSUME NEW w \in Workers PROVE Current(session[w])' /\ Informed(session[w])'
    <3>1. PICK x : x = session[w]
      OBVIOUS
    <3>2. Current(x) /\ Informed(x) /\ session'[w] = x
      BY <2>1, <3>1 DEF SerialInv
    <3>3. Current(x)' /\ Informed(x)'
      BY <2>1, <2>2, <3>2 DEF Current, JoinKey, Counted, Informed
    <3> QED BY <3>2, <3>3
  <2> QED BY <2>1, <2>3, <2>4 DEF SerialInv, Waits
<1>2. ASSUME NEW w \in Workers, Free(w), Call(w) PROVE SerialInv'
  <2>1. Quiet(w) /\ w \notin Threads
    BY <1>2, FreeIsQuiet DEF OneProcess, OneLoop
  <2> QED BY <1>2, <2>1, SerialCall, SerialEnrichLoad DEF Call, AllEvents
<1>3. ASSUME NEW w \in Workers, Free(w), Continue(w) PROVE SerialInv'
  <2>1. Quiet(w) /\ w \notin Threads
    BY <1>3, FreeIsQuiet DEF OneProcess, OneLoop
  <2>2. ~DemoMark(w)
    BY DEF SerialInv, Current, DemoMark, At
  <2>3. \A k, v, row : ~DemoRead(w, k, v, row)
    BY <2>1 DEF DemoRead
  <2> QED BY <1>3, <2>1, <2>2, <2>3, SerialDetect, SerialLookup, SerialFlush, SerialJoinCommit,
          SerialEnd, SerialEnrich, SerialRescore, SerialSave DEF Continue
<1>4. ASSUME NEW w \in Workers, Abort(w) PROVE SerialInv'
  BY <1>4, SerialAbort
<1> QED BY <1>1, <1>2, <1>3, <1>4 DEF Next, Run, Reset, OneProcess

LEMMA SerialInvariant == ASSUME OneProcess PROVE Spec => []SerialInv
<1>1. Init => SerialInv
  <2> SUFFICES ASSUME Init PROVE SerialInv
    OBVIOUS
  <2>1. \A k \in Keys : Attached(k) = {} /\ ~Exists(k)
    BY PipelineAssumption DEF Init, Attached, Exists
  <2>2. \A w \in Workers : Current(session[w]) /\ Informed(session[w]) /\ Waits(session[w])
    BY DEF Init, Current, Informed, Waits, Idle
  <2> QED BY <2>1, <2>2 DEF SerialInv, SeverityCoversAlerts, RiskUpToDate, Housed
<1> QED BY <1>1, SerialNext, IngInvariant, PTL DEF Spec

\* In one process without demo runs an incident is at least as severe as each of its alerts,
\* whichever joins first and whatever fails in between (correlation.py:89-91).
THEOREM IngestionSeverity == ASSUME OneProcess PROVE Spec => []SeverityCoversAlerts
<1>1. SerialInv => SeverityCoversAlerts
  BY DEF SerialInv
<1> QED BY <1>1, SerialInvariant, PTL

\* In one process without demo runs the level is that of the score, and the score that of the
\* alerts and verdicts, but for an incident whose rescoring is still owed after a verdict, and
\* for at most one verdict, on an indicator that two enrichments were asking about at once
\* (correlation.py:15-41,108-123, routes.py:723,750-755).
THEOREM IngestionRisk == ASSUME OneProcess PROVE Spec => []RiskUpToDate
<1>1. SerialInv => RiskUpToDate
  BY DEF SerialInv
<1> QED BY <1>1, SerialInvariant, PTL

-----------------------------------------------------------------------------
(* What a delivery is answered with, the first time and ever after.         *)

\* No demo event has both an incident and an indicator in common with an event that clients
\* deliver.
Unmixed == \A e \in Events, d \in DemoEvents : \A q \in Matches[e], r \in Matches[d] :
    Key[<<e, q>>] = Key[<<d, r>>] => EventIocs[e] \cap EventIocs[d] = {}

\* Whose event a handler is at, and that a task can insert its indicators.
Mine(w, s) ==
    /\ OnEvent(s) => s.event \in IF w \in Tasks THEN Events ELSE DemoEvents
    /\ s.step \in {"join", "commit"} => s.fresh \subseteq EventIocs[s.event]
    /\ w \in Tasks /\ s.step = "join" => s.fresh \cap Known(JoinKey(s)) = {}

AtEvent(s, e) == OnEvent(s) /\ s.event = e

\* All tasks but one wait, and what was delivered has joined its incidents or is with a task
\* that will join them.
NameInv ==
    /\ \A v, w \in Tasks : v # w => Waits(session[v]) \/ Waits(session[w])
    /\ \A w \in Workers : Mine(w, session[w])
    /\ \A e \in stored \cap Events : Correlated(e) \/ \E w \in Tasks : AtEvent(session[w], e)
    /\ \A e \in AllEvents : \A r \in Rules \ Matches[e] : alert[<<e, r>>] = NoAlert
    /\ RepliesNameIncidents

\* No indicator becomes known but by the commit of the handler that steps.
Adds(s) == \A k \in Keys : \A v \in Known(k)' :
    v \in Known(k) \/ (s.step = "commit" /\ k = JoinKey(s) /\ v \in s.fresh)

LEMMA NameStep ==
    ASSUME OneLoop, Unmixed, IngInv, AnswerInv, NameInv, NEW w \in Workers, Free(w),
           NEW s \in Session, s = session[w], NEW t, Move(w, t), OwnAlerts(s), Adds(s),
           Mine(w, t)',
           w \in Tasks /\ OnEvent(s) => AtEvent(t, s.event) \/ Correlated(s.event),
           \A e \in stored' \cap Events : e \in stored \/ (w \in Tasks /\ AtEvent(t, e)),
           \A e \in AllEvents : \A r \in Rules \ Matches[e] : alert'[<<e, r>>] = NoAlert,
           \A p \in replies' : \/ p \in replies
                               \/ p.incidents = {Key[<<p.event, r>>] : r \in Matches[p.event]}
    PROVE  NameInv'
<1>1. /\ session \in [Workers -> Session] /\ Tasks \subseteq Workers
      /\ session'[w] = t /\ \A v \in Workers \ {w} : session'[v] = session[v]
  BY DEF IngInv, TypeOK, Move, Workers
<1>2. w \in Tasks => \A v \in Tasks \ {w} : Waits(session[v])
  BY DEF Free, OneLoop, Waits
<1>3. ASSUME NEW u \in Tasks, NEW v \in Tasks, u # v
      PROVE  Waits(session'[u]) \/ Waits(session'[v])
  BY <1>1, <1>2, <1>3 DEF NameInv
<1>4. ASSUME NEW v \in Workers \ {w} PROVE Mine(v, session[v])'
  <2>1. PICK x \in Session : x = session[v] /\ session'[v] = x
    BY <1>1, <1>4
  <2>2. Mine(v, x) /\ Mine(w, s)
    BY <2>1 DEF NameInv
  <2>3. ASSUME v \in Tasks, x.step = "join"
        PROVE  x.fresh \cap Known(JoinKey(x))' = {}
    <3>1. w \notin Tasks
      BY <1>2, <1>4, <2>1, <2>3 DEF Waits
    <3>2. PICK k \in Keys : k = JoinKey(x)
      BY <2>3, KindOfStep, PipelineAssumption DEF Joining, JoinKey, Alerts
    <3>3. x.fresh \cap Known(k) = {} /\ x.event \in Events /\ x.fresh \subseteq EventIocs[x.event]
      BY <2>2, <2>3, <3>2 DEF Mine, OnEvent
    <3>4. SUFFICES ASSUME NEW i \in x.fresh, i \in Known(k)' PROVE FALSE
      BY <3>2 DEF JoinKey
    <3>5. s.step = "commit" /\ k = JoinKey(s) /\ i \in s.fresh
      BY <3>3, <3>4 DEF Adds
    <3>6. s.event \in DemoEvents /\ i \in EventIocs[s.event]
      BY <2>2, <3>1, <3>5 DEF Mine, OnEvent
    <3>7. s.rule \in Matches[s.event] /\ x.rule \in Matches[x.event]
      <4>1. Answering(s) /\ Answering(x) /\ Sound(s) /\ Sound(x)
        BY <1>1, <2>1, Holding DEF AnswerInv
      <4> QED BY <2>3, <3>5, <4>1 DEF Answering, Sound
    <3>8. Key[<<x.event, x.rule>>] = Key[<<s.event, s.rule>>]
      BY <3>2, <3>5 DEF JoinKey
    <3> QED BY <3>3, <3>4, <3>6, <3>7, <3>8 DEF Unmixed
  <2>4. Mine(v, x)'
    BY <2>2, <2>3 DEF Mine, OnEvent, JoinKey
  <2> QED BY <2>1, <2>4
<1>5. Mine(w, session[w])'
  BY <1>1
<1>6. ASSUME NEW e \in stored' \cap Events
      PROVE  Correlated(e)' \/ \E v \in Tasks : AtEvent(session'[v], e)
  <2>1. CASE e \notin stored
    BY <1>1, <1>6, <2>1
  <2>2. CASE e \in stored /\ Correlated(e)
    BY <2>2, CorrelatedStays DEF AllEvents
  <2>3. CASE e \in stored /\ ~Correlated(e)
    <3>1. PICK v \in Tasks : AtEvent(session[v], e)
      BY <2>3 DEF NameInv
    <3>2. CASE v = w
      BY <1>1, <2>3, <3>1, <3>2 DEF AtEvent
    <3>3. CASE v # w
      BY <1>1, <3>1, <3>3
    <3> QED BY <3>2, <3>3
  <2> QED BY <2>1, <2>2, <2>3
<1>7. RepliesNameIncidents'
  BY DEF NameInv, RepliesNameIncidents
<1>8. \A e \in stored' \cap Events : Correlated(e)' \/ \E v \in Tasks : AtEvent(session[v], e)'
  BY <1>6 DEF AtEvent, OnEvent
<1> QED BY <1>3, <1>4, <1>5, <1>7, <1>8 DEF NameInv, Waits

\* A handler that leaves alerts and indicators alone.
LEMMA NameSame ==
    ASSUME OneLoop, Unmixed, IngInv, AnswerInv, NameInv, NEW w \in Workers, Free(w),
           NEW s \in Session, s = session[w], NEW t, Move(w, t), UNCHANGED alert,
           \A k \in Keys : Known(k)' = Known(k),
           Mine(w, t)',
           w \in Tasks /\ OnEvent(s) => AtEvent(t, s.event) \/ Correlated(s.event),
           \A e \in stored' \cap Events : e \in stored \/ (w \in Tasks /\ AtEvent(t, e)),
           \A p \in replies' : \/ p \in replies
                               \/ p.incidents = {Key[<<p.event, r>>] : r \in Matches[p.event]}
    PROVE  NameInv'
<1>1. OwnAlerts(s) /\ Adds(s)
  BY DEF OwnAlerts, Adds
<1>2. \A e \in AllEvents : \A r \in Rules \ Matches[e] : alert'[<<e, r>>] = NoAlert
  BY DEF NameInv
<1> QED BY <1>1, <1>2, NameStep

\* The event of a handler that steps can be found where it is.
LEMMA NameStore ==
    ASSUME OneLoop, Unmixed, IngInv, AnswerInv, NameInv, NEW w \in Workers, Free(w), NEW e,
           (w \in Tasks /\ e \in Events) \/ (w \in Threads /\ e \in DemoEvents),
           Store(w, e)
    PROVE  NameInv'
<1>1. PICK s \in Session : s = session[w]
  BY Holding
<1>2. PICK t : t = [step |-> "detect", event |-> e]
  OBVIOUS
<1>3. /\ Move(w, t) /\ stored' = stored \cup {e} /\ s.step = "idle"
      /\ UNCHANGED <<alert, ioc, replies>>
  BY <1>1, <1>2 DEF Store, Idle
<1>4. \A k \in Keys : Known(k)' = Known(k)
  BY <1>3 DEF Known
<1>5. Mine(w, t)'
  BY <1>2, PipelineAssumption DEF Mine, OnEvent
<1>6. \A d \in stored' \cap Events : d \in stored \/ (w \in Tasks /\ AtEvent(t, d))
  BY <1>2, <1>3, PipelineAssumption DEF AtEvent, OnEvent
<1> QED BY <1>1, <1>3, <1>4, <1>5, <1>6, NameSame DEF OnEvent

\* An event that is delivered again has joined its incidents: no task is at any event.
LEMMA NameDuplicate ==
    ASSUME OneLoop, Unmixed, IngInv, AnswerInv, NameInv, NEW w \in Tasks, Free(w),
           NEW e \in Events, Duplicate(w, e)
    PROVE  NameInv'
<1>1. w \in Workers /\ \A v \in Tasks : ~OnEvent(session[v])
  BY DEF Free, OneLoop, Duplicate, Idle, OnEvent, Workers
<1>2. PICK s \in Session : s = session[w]
  BY <1>1, Holding
<1>3. /\ Move(w, s) /\ UNCHANGED <<stored, alert, ioc>> /\ e \in stored
  BY <1>2 DEF Duplicate, rows, Move, IngInv, TypeOK
<1>4. Correlated(e)
  BY <1>1, <1>3 DEF NameInv, AtEvent
<1>5. {alert[<<e, r>>] : r \in Rules} \cap Keys = {Key[<<e, r>>] : r \in Matches[e]}
  <2>1. e \in AllEvents /\ Matches[e] \subseteq Rules
    BY PipelineAssumption DEF AllEvents
  <2>2. \A r \in Matches[e] : alert[<<e, r>>] = Key[<<e, r>>] /\ Key[<<e, r>>] \in Keys
    BY <1>4, <2>1, PipelineAssumption DEF Correlated, Alerts
  <2>3. \A r \in Rules \ Matches[e] : alert[<<e, r>>] \notin Keys
    BY <2>1, PipelineAssumption DEF NameInv
  <2> QED BY <2>1, <2>2, <2>3
<1>6. \A p \in replies' : \/ p \in replies
                          \/ p.incidents = {Key[<<p.event, r>>] : r \in Matches[p.event]}
  <2>1. PICK found : found = {alert[<<e, r>>] : r \in Rules} \cap Keys
    OBVIOUS
  <2>2. PICK p : p = [event |-> e, duplicate |-> TRUE, incidents |-> found]
    OBVIOUS
  <2>3. replies' = replies \cup {p}
    BY <2>1, <2>2 DEF Duplicate
  <2>4. p.incidents = {Key[<<p.event, r>>] : r \in Matches[p.event]}
    BY <1>5, <2>1, <2>2
  <2> QED BY <2>3, <2>4
<1>7. \A k \in Keys : Known(k)' = Known(k)
  BY <1>3 DEF Known
<1>8. Mine(w, s)'
  <2>1. s.step = "idle"
    BY <1>2 DEF Duplicate, Idle
  <2> QED BY <2>1 DEF Mine, OnEvent
<1>9. ~OnEvent(s)
  BY <1>1, <1>2
<1> QED BY <1>1, <1>2, <1>3, <1>6, <1>7, <1>8, <1>9, NameSame

LEMMA NameDetect ==
    ASSUME OneLoop, Unmixed, IngInv, AnswerInv, NameInv, NEW w \in Workers, Free(w), Detect(w)
    PROVE  NameInv'
<1>1. PICK s \in Session : s = session[w]
  BY Holding
<1>2. s.step = "detect" /\ s.event \in AllEvents /\ Mine(w, s)
  BY <1>1, KindOfStep DEF Detect, At, Detecting, NameInv
<1>3. PICK new : new = {r \in Matches[s.event] : alert[<<s.event, r>>] = NoAlert}
  OBVIOUS
<1>4. PICK t : t = [step |-> "correlate", event |-> s.event, todo |-> new,
                    seen |-> [k \in Keys |-> NoRow]]
  OBVIOUS
<1>5. /\ alert' = [a \in Alerts |-> IF a[1] = s.event /\ a[2] \in new THEN Unlinked ELSE alert[a]]
      /\ Move(w, t) /\ UNCHANGED <<stored, ioc, replies>>
  BY <1>1, <1>3, <1>4 DEF Detect
<1>6. \A e \in AllEvents, r \in Rules :
        alert'[<<e, r>>] = IF e = s.event /\ r \in new THEN Unlinked ELSE alert[<<e, r>>]
  BY <1>5 DEF Alerts
<1>7. OwnAlerts(s)
  BY <1>2, <1>3, <1>6, PipelineAssumption DEF OwnAlerts, OnEvent
<1>8. \A e \in AllEvents : \A r \in Rules \ Matches[e] : alert'[<<e, r>>] = NoAlert
  BY <1>3, <1>6 DEF NameInv
<1>9. Adds(s)
  BY <1>5 DEF Adds, Known
<1>10. Mine(w, t)' /\ AtEvent(t, s.event)
  BY <1>2, <1>4 DEF Mine, OnEvent, AtEvent
<1> QED BY <1>1, <1>5, <1>7, <1>8, <1>9, <1>10, NameStep

LEMMA NameLookup ==
    ASSUME OneLoop, Unmixed, IngInv, AnswerInv, NameInv, NEW w \in Workers, Free(w),
           NEW r \in Rules, Lookup(w, r)
    PROVE  NameInv'
<1>1. PICK s \in Session : s = session[w]
  BY Holding
<1>2. s.step = "correlate" /\ Mine(w, s)
  BY <1>1 DEF Lookup, At, NameInv
<1>3. PICK k, row, bad : /\ k = Key[<<s.event, r>>]
                         /\ Move(w, [step |-> "join", event |-> s.event, todo |-> s.todo,
                                seen |-> s.seen, rule |-> r, held |-> row,
                                fresh |-> EventIocs[s.event] \ Known(k), bad |-> bad])
  BY <1>1 DEF Lookup
<1>4. PICK t : t = [step |-> "join", event |-> s.event, todo |-> s.todo, seen |-> s.seen,
                    rule |-> r, held |-> row, fresh |-> EventIocs[s.event] \ Known(k),
                    bad |-> bad]
  OBVIOUS
<1>5. UNCHANGED <<stored, alert, ioc, replies>>
  BY DEF Lookup, rows
<1>6. \A c \in Keys : Known(c)' = Known(c)
  BY <1>5 DEF Known
<1>7. JoinKey(t) = k /\ Known(k)' = Known(k)
  BY <1>3, <1>4, <1>5 DEF JoinKey, Known
<1>8. Mine(w, t)' /\ AtEvent(t, s.event)
  BY <1>2, <1>4, <1>7 DEF Mine, OnEvent, AtEvent, JoinKey
<1> QED BY <1>1, <1>3, <1>4, <1>5, <1>6, <1>8, NameSame

LEMMA NameJoin ==
    ASSUME OneLoop, Unmixed, IngInv, AnswerInv, NameInv, NEW w \in Workers, Free(w),
           JoinConflict(w) \/ JoinFlush(w)
    PROVE  NameInv'
<1>1. PICK s \in Session : s = session[w]
  BY Holding
<1>2. s.step = "join" /\ s \in Joining /\ Mine(w, s)
  BY <1>1, KindOfStep DEF JoinConflict, JoinFlush, At, NameInv
<1>3. UNCHANGED <<stored, alert, ioc, replies>>
  BY DEF JoinConflict, JoinFlush, rows
<1>4. \A c : Known(c)' = Known(c)
  BY <1>3 DEF Known
<1>5. CASE JoinConflict(w)
  <2>1. PICK k : k = JoinKey(s)
    OBVIOUS
  <2>2. PICK row, bad : Move(w, [s EXCEPT !.held = row, !.fresh = EventIocs[s.event] \ Known(k),
                                          !.bad = bad])
    BY <1>1, <1>5, <2>1 DEF JoinConflict
  <2>3. PICK t : t = [s EXCEPT !.held = row, !.fresh = EventIocs[s.event] \ Known(k), !.bad = bad]
    OBVIOUS
  <2>4. /\ t.step = s.step /\ t.event = s.event /\ t.rule = s.rule
        /\ t.fresh = EventIocs[s.event] \ Known(k)
    BY <1>2, <2>3 DEF Joining
  <2>5. Mine(w, t)' /\ AtEvent(t, s.event)
    BY <1>2, <1>4, <2>1, <2>4 DEF Mine, OnEvent, AtEvent, JoinKey
  <2> QED BY <1>1, <1>3, <1>4, <2>2, <2>3, <2>5, NameSame
<1>6. CASE JoinFlush(w)
  <2>1. PICK created, row, score :
          Move(w, [step |-> "commit", event |-> s.event, todo |-> s.todo, seen |-> s.seen,
                   rule |-> s.rule, created |-> created, held |-> row, fresh |-> s.fresh,
                   score |-> score])
    BY <1>1, <1>6 DEF JoinFlush
  <2>2. PICK t : t = [step |-> "commit", event |-> s.event, todo |-> s.todo, seen |-> s.seen,
                      rule |-> s.rule, created |-> created, held |-> row, fresh |-> s.fresh,
                      score |-> score]
    OBVIOUS
  <2>3. Mine(w, t)' /\ AtEvent(t, s.event)
    BY <1>2, <2>2 DEF Mine, OnEvent, AtEvent
  <2> QED BY <1>1, <1>3, <1>4, <2>1, <2>2, <2>3, NameSame
<1> QED BY <1>5, <1>6

LEMMA NameJoinCommit ==
    ASSUME OneLoop, Unmixed, IngInv, AnswerInv, NameInv, NEW w \in Workers, Free(w), JoinCommit(w)
    PROVE  NameInv'
<1>1. PICK s \in Session : s = session[w]
  BY Holding
<1>2. s \in Committing /\ Sound(s) /\ Answering(s) /\ s.step = "commit" /\ Mine(w, s)
  BY <1>1, Holding, KindOfStep DEF JoinCommit, At, AnswerInv, NameInv
<1>3. PICK k \in Keys : k = JoinKey(s)
  BY <1>2, PipelineAssumption DEF Committing, JoinKey, Alerts
<1>4. PICK a \in Alerts : a = <<s.event, s.rule>> /\ k = Key[a]
  BY <1>2, <1>3 DEF Committing, Alerts, JoinKey
<1>5. /\ alert' = [alert EXCEPT ![a] = k] /\ stored' = stored /\ replies' = replies
      /\ ioc' = [ioc EXCEPT ![k] = [v \in Values |-> IF v \in s.fresh THEN "UNKNOWN" ELSE @[v]]]
  BY <1>1, <1>3, <1>4 DEF JoinCommit
<1>6. PICK seen : Move(w, [step |-> "correlate", event |-> s.event, todo |-> s.todo \ {s.rule},
                           seen |-> seen])
  BY <1>1 DEF JoinCommit
<1>7. PICK t : t = [step |-> "correlate", event |-> s.event, todo |-> s.todo \ {s.rule},
                    seen |-> seen]
  OBVIOUS
<1>8. \A b \in Alerts : alert'[b] = IF b = a THEN k ELSE alert[b]
  BY <1>5 DEF IngInv, TypeOK
<1>9. /\ alert[a] = Unlinked /\ s.rule \in Matches[s.event]
      /\ \A e \in AllEvents, r \in Rules :
            <<e, r>> \in Alerts /\ (<<e, r>> = a => e = s.event /\ r = s.rule)
  BY <1>2, <1>4 DEF Sound, Answering, Alerts
<1>10. OwnAlerts(s)
  <2>1. Unlinked \notin Keys /\ OnEvent(s)
    BY <1>2, PipelineAssumption DEF Sound, Committing, OnEvent
  <2> QED BY <1>8, <1>9, <2>1 DEF OwnAlerts
<1>11. \A e \in AllEvents : \A r \in Rules \ Matches[e] : alert'[<<e, r>>] = NoAlert
  BY <1>8, <1>9 DEF NameInv
<1>12. Adds(s)
  <2>1. ioc \in [Keys -> [Values -> Verdicts]]
    BY DEF IngInv, TypeOK
  <2>2. \A c \in Keys, v \in Values : c # k \/ v \notin s.fresh => ioc'[c][v] = ioc[c][v]
    BY <1>5, <2>1
  <2> QED BY <1>2, <1>3, <2>2 DEF Adds, Known
<1>13. Mine(w, t)' /\ AtEvent(t, s.event)
  BY <1>2, <1>7 DEF Mine, OnEvent, AtEvent
<1> QED BY <1>1, <1>5, <1>6, <1>7, <1>10, <1>11, <1>12, <1>13, NameStep

LEMMA NameFinish ==
    ASSUME OneLoop, Unmixed, IngInv, AnswerInv, NameInv, NEW w \in Workers, Free(w), Finish(w)
    PROVE  NameInv'
<1>1. PICK s \in Session : s = session[w]
  BY Holding
<1>2. s \in Correlating /\ Answering(s) /\ s.step = "correlate" /\ s.todo = {}
  BY <1>1, KindOfStep DEF Finish, At, AnswerInv
<1>3. PICK t : t = [step |-> "reply", event |-> s.event, found |-> {k \in Keys : s.seen[k] # NoRow}]
  OBVIOUS
<1>4. Move(w, t) /\ UNCHANGED <<stored, alert, ioc, replies>>
  BY <1>1, <1>3 DEF Finish, rows
<1>5. Correlated(s.event)
  BY <1>2 DEF Answering, Correlated
<1>6. \A k : Known(k)' = Known(k)
  BY <1>4 DEF Known
<1>7. Mine(w, t)'
  BY <1>3 DEF Mine, OnEvent
<1> QED BY <1>1, <1>4, <1>5, <1>6, <1>7, NameSame

LEMMA NameReply ==
    ASSUME OneLoop, Unmixed, IngInv, AnswerInv, NameInv, NEW w \in Workers, Free(w), Reply(w)
    PROVE  NameInv'
<1>1. PICK s \in Session : s = session[w]
  BY Holding
<1>2. s.step = "reply" /\ Answering(s)
  BY <1>1 DEF Reply, At, AnswerInv
<1>3. PICK p : p = [event |-> s.event, duplicate |-> FALSE, incidents |-> s.found]
  OBVIOUS
<1>4. /\ Move(w, Idle) /\ UNCHANGED <<stored, alert, ioc>> /\ replies' = replies \cup {p}
  BY <1>1, <1>3 DEF Reply, rows
<1>5. p.incidents = {Key[<<p.event, r>>] : r \in Matches[p.event]}
  BY <1>2, <1>3 DEF Answering
<1>6. \A k : Known(k)' = Known(k)
  BY <1>4 DEF Known
<1>7. Mine(w, Idle)'
  BY DEF Mine, OnEvent, Idle
<1> QED BY <1>1, <1>2, <1>4, <1>5, <1>6, <1>7, NameSame DEF OnEvent

\* A task is never refused: nothing that it wants to insert is known.
LEMMA NeverRefused ==
    ASSUME IngInv, NameInv, NEW w \in Tasks
    PROVE  ~JoinRefused(w)
<1>1. w \in Workers
  BY DEF Workers
<1>2. Mine(w, session[w])
  BY <1>1 DEF NameInv
<1> QED BY <1>2 DEF Mine, JoinRefused, At

\* The steps of a handler that is on no event, or of a demo run that leaves it.
LEMMA NameAside ==
    ASSUME OneLoop, Unmixed, IngInv, AnswerInv, NameInv, NEW w \in Workers, Free(w),
           \/ JoinRefused(w) \/ DemoFails(w) \/ DetectFails(w) \/ Fail(w) \/ DemoMark(w) \/ Rescore(w) \/ Save(w)
           \/ \E k \in Keys, v \in Values, row \in Row \cup {NoRow} : DemoRead(w, k, v, row)
           \/ \E k \in Keys, v \in Values : EnrichLoad(w, k, v)
           \/ \E b \in BOOLEAN : Enrich(w, b)
    PROVE  NameInv'
<1>1. PICK s \in Session : s = session[w]
  BY Holding
<1>2. UNCHANGED <<stored, alert, replies>>
  BY DEF JoinRefused, DemoFails, DetectFails, Fail, DemoMark, Rescore, Save, DemoRead, EnrichLoad,
         Enrich, rows
<1>3. PICK t : Move(w, t) /\ t.step \in {"idle", "mark", "ask", "rescore", "save"}
  <2>1. CASE JoinRefused(w) \/ DemoFails(w) \/ DetectFails(w) \/ Fail(w) \/ Save(w)
    <3>1. Move(w, Idle) /\ Idle.step = "idle"
      BY <2>1 DEF JoinRefused, DemoFails, DetectFails, Fail, Save, Idle
    <3> QED BY <3>1
  <2>2. CASE DemoMark(w) \/ Rescore(w)
    <3>1. \E key, held, score :
            Move(w, [step |-> "save", key |-> key, held |-> held, score |-> score])
      BY <2>2 DEF DemoMark, Rescore
    <3> QED BY <3>1
  <2>3. ASSUME NEW k \in Keys, NEW v \in Values, NEW row \in Row \cup {NoRow}, DemoRead(w, k, v, row)
        PROVE  \E t : Move(w, t) /\ t.step \in {"idle", "mark", "ask", "rescore", "save"}
    <3>1. \E alerts, bad : Move(w, [step |-> "mark", key |-> k, value |-> v, held |-> row,
                                   alerts |-> alerts, bad |-> bad])
      BY <2>3 DEF DemoRead
    <3> QED BY <3>1
  <2>4. CASE \E k \in Keys, v \in Values : EnrichLoad(w, k, v)
    <3>1. \E k, v, said : Move(w, [step |-> "ask", key |-> k, value |-> v, accused |-> said])
      BY <2>4 DEF EnrichLoad
    <3> QED BY <3>1
  <2>5. CASE \E b \in BOOLEAN : Enrich(w, b)
    <3>1. \E k, v, said : Move(w, [step |-> "rescore", key |-> k, value |-> v, accused |-> said])
      BY <2>5 DEF Enrich
    <3> QED BY <3>1
  <2> QED BY <2>1, <2>2, <2>3, <2>4, <2>5
<1>4. Mine(w, t)'
  BY <1>3 DEF Mine, OnEvent
<1>5. w \in Tasks /\ OnEvent(s) => Correlated(s.event)
  <2>1. CASE JoinRefused(w) \/ DemoFails(w)
    BY <2>1, NeverRefused, PipelineAssumption DEF DemoFails
  <2>2. CASE Fail(w) \/ DemoMark(w) \/ Rescore(w) \/ Save(w)
    BY <1>1, <2>2 DEF Fail, DemoMark, Rescore, Save, At, Doomed, OnEvent
  <2>3. CASE \E k \in Keys, v \in Values, row \in Row \cup {NoRow} : DemoRead(w, k, v, row)
    BY <2>3, PipelineAssumption DEF DemoRead
  <2>4. CASE \E b \in BOOLEAN : Enrich(w, b)
    <3>1. s.step = "ask"
      BY <1>1, <2>4 DEF Enrich, At
    <3> QED BY <3>1 DEF OnEvent
  <2>6. CASE \E k \in Keys, v \in Values : EnrichLoad(w, k, v)
    <3>1. s = Idle
      BY <1>1, <2>6 DEF EnrichLoad
    <3> QED BY <2>6, <3>1 DEF EnrichLoad, Idle, OnEvent
  <2>5. CASE DetectFails(w)
    BY <1>1, <2>5, PipelineAssumption DEF DetectFails, Correlated
  <2> QED BY <2>1, <2>2, <2>3, <2>4, <2>5, <2>6
<1>6. OwnAlerts(s) /\ \A e \in AllEvents : \A r \in Rules \ Matches[e] : alert'[<<e, r>>] = NoAlert
  BY <1>2 DEF OwnAlerts, NameInv
<1>7. \A k \in Keys : Known(k)' \subseteq Known(k)
  <2>1. CASE UNCHANGED ioc
    BY <2>1 DEF Known
  <2>2. CASE \E b \in BOOLEAN : Enrich(w, b)
    <3>1. PICK k \in Keys : \E v \in Known(k) :
             ioc' = [ioc EXCEPT ![k][v] = "MALICIOUS"] \/ ioc' = ioc
      BY <2>2, EnrichTables
    <3>2. ioc \in [Keys -> [Values -> Verdicts]]
      BY DEF IngInv, TypeOK
    <3> QED BY <3>1, <3>2 DEF Known
  <2>3. CASE DemoMark(w)
    <3>1. s \in Marking /\ s.value \in Known(s.key)
      BY <1>1, <2>3, Holding, KindOfStep DEF DemoMark, At, Sound
    <3>2. ioc' = [ioc EXCEPT ![s.key][s.value] = "MALICIOUS"]
      BY <1>1, <2>3 DEF DemoMark
    <3>3. ioc \in [Keys -> [Values -> Verdicts]]
      BY DEF IngInv, TypeOK
    <3> QED BY <3>1, <3>2, <3>3 DEF Known, Marking
  <2> QED BY <2>1, <2>2, <2>3 DEF JoinRefused, DemoFails, DetectFails, Fail, Rescore, Save, DemoRead,
             EnrichLoad, rows
<1>8. Adds(s)
  BY <1>7 DEF Adds
<1> QED BY <1>1, <1>2, <1>3, <1>4, <1>5, <1>6, <1>8, NameStep

\* What happens while no handler dies either.
Lively == \E w \in Workers : (Free(w) /\ Call(w)) \/ Run(w)

LEMMA NameNext ==
    ASSUME OneLoop, Unmixed
    PROVE  IngInv /\ AnswerInv /\ NameInv /\ [Lively]_vars => NameInv'
<1> SUFFICES ASSUME IngInv, AnswerInv, NameInv, [Lively]_vars PROVE NameInv'
  OBVIOUS
<1>1. CASE UNCHANGED vars
  <2>1. /\ stored' = stored /\ alert' = alert /\ ioc' = ioc /\ replies' = replies
        /\ session' = session
    BY <1>1 DEF vars, rows
  <2>2. \A k : Known(k)' = Known(k)
    BY <2>1 DEF Known
  <2>3. ASSUME NEW w \in Workers PROVE Mine(w, session[w])'
    <3>1. PICK s : s = session[w] /\ session'[w] = s /\ Mine(w, s)
      BY <2>1 DEF NameInv
    <3>2. Mine(w, s)'
      BY <2>2, <3>1 DEF Mine, JoinKey
    <3> QED BY <3>1, <3>2
  <2>4. \A e \in stored \cap Events : Correlated(e)' \/ \E w \in Tasks : AtEvent(session[w], e)'
    BY <2>1 DEF NameInv, Correlated, AtEvent, OnEvent
  <2>5. \A v, w \in Tasks : v # w => Waits(session[v])' \/ Waits(session[w])'
    BY <2>1 DEF NameInv, Waits
  <2>6. RepliesNameIncidents'
    BY <2>1 DEF NameInv, RepliesNameIncidents
  <2>7. \A e \in AllEvents : \A r \in Rules \ Matches[e] : alert'[<<e, r>>] = NoAlert
    BY <2>1 DEF NameInv
  <2> QED BY <2>1, <2>3, <2>4, <2>5, <2>6, <2>7 DEF NameInv
<1>2. ASSUME NEW w \in Workers, Free(w), Call(w) PROVE NameInv'
  <2>1. CASE w \in Tasks /\ \E e \in Events : Store(w, e)
    BY <1>2, <2>1, NameStore
  <2>2. CASE w \in Tasks /\ \E e \in Events : Duplicate(w, e)
    BY <1>2, <2>2, NameDuplicate
  <2>3. CASE w \in Tasks /\ \E k \in Keys, v \in Values : EnrichLoad(w, k, v)
    BY <1>2, <2>3, NameAside
  <2>4. CASE w \in Threads /\ \E e \in DemoEvents : Store(w, e)
    BY <1>2, <2>4, NameStore
  <2> QED BY <1>2, <2>1, <2>2, <2>3, <2>4 DEF Call
<1>3. ASSUME NEW w \in Workers, Free(w), Continue(w) PROVE NameInv'
  <2>1. CASE \E k \in Keys, v \in Values :
               At(w, "correlate") /\ \E row \in {session[w].seen[k], incident[k]} \ {NoRow} :
                                        DemoRead(w, k, v, row)
    <3> PICK k \in Keys, v \in Values : At(w, "correlate") /\
               \E row \in {session[w].seen[k], incident[k]} \ {NoRow} : DemoRead(w, k, v, row)
      BY <2>1
    <3>1. PICK row \in {session[w].seen[k], incident[k]} : At(w, "correlate") /\ DemoRead(w, k, v, row)
      OBVIOUS
    <3>2. session[w] \in Correlating
      BY <3>1, Holding, KindOfStep DEF At
    <3>3. row \in Row \cup {NoRow}
      BY <3>2 DEF Correlating, Seen, IngInv, TypeOK
    <3> QED BY <1>3, <3>1, <3>3, NameAside
  <2> QED BY <1>3, <2>1, NameDetect, NameLookup, NameJoin, NameJoinCommit, NameFinish, NameReply,
          NameAside DEF Continue
<1> QED BY <1>1, <1>2, <1>3 DEF Lively, Run

LEMMA NameInit == Init => NameInv
<1> SUFFICES ASSUME Init PROVE NameInv
  OBVIOUS
<1>1. \A w \in Workers : session[w].step = "idle"
  BY DEF Init, Idle
<1>2. \A v \in Tasks : Waits(session[v])
  BY <1>1 DEF Waits, Workers
<1>3. \A w \in Workers : Mine(w, session[w])
  BY <1>1 DEF Mine, OnEvent
<1>4. stored = {} /\ replies = {} /\ \A e \in AllEvents, r \in Rules : alert[<<e, r>>] = NoAlert
  BY DEF Init, Alerts
<1> QED BY <1>2, <1>3, <1>4 DEF NameInv, RepliesNameIncidents

\* A delivery is answered with the incidents of the event's rules, the first time and each time
\* it is repeated: with one event loop, also when demo runs join the same incidents, as long
\* as nothing fails in between and they do not bring the same indicators
\* (ingestion.py:24-33, routes.py:191-215).
THEOREM IngestionReplies == ASSUME OneLoop, Unmixed PROVE FairSpec => []RepliesNameIncidents
<1>1. [Lively]_vars => [Calm]_vars /\ [Next]_vars
  BY DEF Lively, Calm, Next
<1>2. FairSpec => Init /\ [][Lively]_vars
  BY PTL DEF FairSpec, Lively
<1>3. Init => IngInv /\ AnswerInv /\ NameInv
  BY IngInit, AnswerInit, NameInit
<1>4. IngInv /\ AnswerInv /\ NameInv /\ [Lively]_vars => (IngInv /\ AnswerInv /\ NameInv)'
  BY <1>1, IngNext, AnswerNext, NameNext
<1>5. NameInv => RepliesNameIncidents
  BY DEF NameInv
<1> QED BY <1>2, <1>3, <1>4, <1>5, PTL

-----------------------------------------------------------------------------
(* Alerts and the conditions of rules.                                      *)

\* A set of positions that is not empty has a first one.
LEMMA FirstOf ==
    ASSUME NEW n \in Nat, NEW T \in SUBSET (1..n), T # {}
    PROVE  LET first == CHOOSE k \in T : \A j \in T : k <= j
           IN  first \in T /\ \A j \in T : first <= j
<1>1. IsWellFoundedOn(OpToRel(<, Nat), Nat)
  BY NatLessThanWellFounded
<1>2. T \subseteq Nat
  OBVIOUS
<1>3. PICK x \in T : \A y \in T : ~ (<<y, x>> \in OpToRel(<, Nat))
  BY <1>1, <1>2, WFMin
<1>4. ASSUME NEW y \in T PROVE x <= y
  <2>1. x \in Nat /\ y \in Nat
    BY <1>2
  <2>2. ~ (y < x)
    BY <1>3, <2>1 DEF OpToRel
  <2> QED BY <2>1, <2>2
<1> QED BY <1>3, <1>4

\* A condition that can be looked up to its end is evaluated to what it means.
LEMMA DecidedMeans ==
    ASSUME NEW event, NEW rule, NEW N,
           rule.condition \in Seq(Seq(N) \ {<<>>}) \ {<<>>},
           Evaluate(event, rule) # "error"
    PROVE  Evaluate(event, rule) = "match" <=> Satisfies(event, rule)
<1> DEFINE Holds(name) == SelectionMatches(event, rule.selections[name])
           All(group) == \A name \in Range(group) : Holds(name)
<1>1. PICK groups \in Seq(Seq(N) \ {<<>>}) : groups = rule.condition /\ groups # <<>>
  OBVIOUS
<1>2. PICK n \in Nat : n = Len(groups) /\ n >= 1 /\ DOMAIN groups = 1..n
  BY <1>1
<1>3. Satisfies(event, rule) <=> \E k \in 1..n : All(groups[k])
  <2>1. Satisfies(event, rule) <=> \E group \in Range(groups) : All(group)
    BY <1>1 DEF Satisfies
  <2> HIDE DEF All
  <2>2. Range(groups) = {groups[k] : k \in 1..n}
    BY <1>2 DEF Range
  <2> QED BY <2>1, <2>2
<1>4. CASE n = 1
  <2>1. Evaluate(event, rule) = IF All(groups[1]) THEN "match" ELSE "none"
    BY <1>1, <1>2, <1>4 DEF Evaluate
  <2> QED BY <1>3, <1>4, <2>1
<1>5. CASE n # 1
  <2> DEFINE Single(k) == Len(groups[k]) = 1
             stops == {k \in 1..n : IF Single(k) THEN Holds(groups[k][1]) ELSE TRUE}
             first == CHOOSE k \in stops : \A j \in stops : k <= j
  <2>1. Evaluate(event, rule) =
          IF stops = {} THEN "none" ELSE IF Single(first) THEN "match" ELSE "error"
    BY <1>1, <1>2, <1>5 DEF Evaluate
  <2>2. ASSUME NEW k \in 1..n, Single(k) PROVE All(groups[k]) <=> Holds(groups[k][1])
    <3>1. groups[k] \in Seq(N) /\ DOMAIN groups[k] = {1}
      BY <1>1, <1>2, <2>2
    <3>2. Range(groups[k]) = {groups[k][1]}
      BY <3>1 DEF Range
    <3> QED BY <3>2
  <2>3. CASE stops = {}
    <3>1. \A k \in 1..n : Single(k) /\ ~Holds(groups[k][1])
      BY <2>3
    <3> QED BY <1>3, <2>1, <2>2, <2>3, <3>1
  <2>4. CASE stops # {}
    <3>1. first \in stops
      BY <2>4, FirstOf
    <3> HIDE DEF first
    <3>2. Single(first) /\ Evaluate(event, rule) = "match"
      BY <2>1, <2>4
    <3>3. first \in 1..n /\ Holds(groups[first][1])
      BY <3>1, <3>2
    <3> QED BY <1>3, <2>2, <3>2, <3>3
  <2> QED BY <2>3, <2>4
<1> QED BY <1>4, <1>5

\* Every delivery that has got past detection is of an event that all rules decide, and no alert
\* is of a rule that did not match.
Decided(s) == s.step \in {"correlate", "join", "commit", "reply"} => s.event \notin Undecided
DetectInv ==
    /\ \A w \in Workers : Decided(session[w])
    /\ \A p \in replies : ~p.duplicate => p.event \notin Undecided
    /\ \A e \in AllEvents : \A r \in Rules \ Matches[e] : alert[<<e, r>>] = NoAlert

LEMMA DetectStep ==
    ASSUME DetectInv, NEW w \in Workers, NEW t, IngInv, Move(w, t), Decided(t),
           \A p \in replies' : p \in replies \/ p.duplicate \/ p.event \notin Undecided,
           \A e \in AllEvents : \A r \in Rules \ Matches[e] : alert'[<<e, r>>] = NoAlert
    PROVE  DetectInv'
<1>1. \A v \in Workers : session'[v] = IF v = w THEN t ELSE session[v]
  BY DEF IngInv, TypeOK, Move
<1>2. ASSUME NEW v \in Workers PROVE Decided(session[v])'
  <2>1. PICK x : x = session'[v] /\ Decided(x)
    BY <1>1 DEF DetectInv
  <2> QED BY <2>1 DEF Decided
<1> QED BY <1>2 DEF DetectInv

\* A handler that leaves the alerts alone, and goes on with the event that it is at, if any.
LEMMA DetectSame ==
    ASSUME DetectInv, IngInv, NEW w \in Workers, NEW t, Move(w, t), UNCHANGED alert,
           \/ Decided(t)
           \/ session[w].step \in {"correlate", "join", "commit", "reply"} /\ t.event = session[w].event,
           \A p \in replies' : p \in replies \/ p.duplicate \/ p.event \notin Undecided
    PROVE  DetectInv'
<1>1. Decided(t)
  BY DEF Decided, DetectInv
<1> QED BY <1>1, DetectStep DEF DetectInv

LEMMA DetectOff == \A s : s.step \notin {"correlate", "join", "commit", "reply"} => Decided(s)
BY DEF Decided

LEMMA DetectJoin ==
    ASSUME DetectInv, IngInv, NEW w \in Workers,
           \/ \E r \in Rules : Lookup(w, r)
           \/ JoinConflict(w) \/ JoinFlush(w) \/ Finish(w)
    PROVE  DetectInv'
<1>1. PICK s \in Session : s = session[w]
  BY Holding
<1>2. s.step \in {"correlate", "join"} /\ UNCHANGED <<alert, replies>>
  BY <1>1 DEF Lookup, JoinConflict, JoinFlush, Finish, At, rows
<1>3. \E t : Move(w, t) /\ t.event = s.event
  <2>1. CASE \E r \in Rules : Lookup(w, r)
    BY <1>1, <2>1 DEF Lookup
  <2>2. CASE JoinConflict(w)
    <3>1. s \in Joining
      BY <1>1, <2>2, KindOfStep DEF JoinConflict, At
    <3>2. PICK held, fresh, bad :
            Move(w, [s EXCEPT !.held = held, !.fresh = fresh, !.bad = bad])
      BY <1>1, <2>2 DEF JoinConflict
    <3>3. [s EXCEPT !.held = held, !.fresh = fresh, !.bad = bad].event = s.event
      BY <3>1 DEF Joining
    <3> QED BY <3>2, <3>3
  <2>3. CASE JoinFlush(w)
    <3>1. PICK created, held, score :
            Move(w, [step |-> "commit", event |-> s.event, todo |-> s.todo, seen |-> s.seen,
                     rule |-> s.rule, created |-> created, held |-> held, fresh |-> s.fresh,
                     score |-> score])
      BY <1>1, <2>3 DEF JoinFlush
    <3> QED BY <3>1
  <2>4. CASE Finish(w)
    BY <1>1, <2>4 DEF Finish
  <2> QED BY <2>1, <2>2, <2>3, <2>4
<1> QED BY <1>1, <1>2, <1>3, DetectSame

LEMMA DetectDetect ==
    ASSUME DetectInv, IngInv, NEW w \in Workers, Detect(w) PROVE DetectInv'
<1>1. PICK s : s = session[w]
  OBVIOUS
<1>2. s \in Detecting /\ s.event \in AllEvents /\ s.event \notin Undecided
  BY <1>1, Holding, KindOfStep DEF Detect, At, Detecting
<1>3. PICK new \in SUBSET Matches[s.event] :
         /\ alert' = [a \in Alerts |-> IF a[1] = s.event /\ a[2] \in new THEN Unlinked ELSE alert[a]]
         /\ Move(w, [step |-> "correlate", event |-> s.event, todo |-> new,
                     seen |-> [k \in Keys |-> NoRow]])
         /\ replies' = replies
  BY <1>1 DEF Detect
<1>4. PICK t : t = [step |-> "correlate", event |-> s.event, todo |-> new,
                    seen |-> [k \in Keys |-> NoRow]]
  OBVIOUS
<1>5. \A e \in AllEvents : \A r \in Rules \ Matches[e] : alert'[<<e, r>>] = NoAlert
  BY <1>3 DEF Alerts, DetectInv
<1>6. Decided(t)
  BY <1>2, <1>4 DEF Decided
<1> QED BY <1>3, <1>4, <1>5, <1>6, DetectStep

LEMMA DetectCommit ==
    ASSUME DetectInv, IngInv, AnswerInv, NEW w \in Workers, JoinCommit(w) PROVE DetectInv'
<1>1. PICK s \in Session : s = session[w]
  BY Holding
<1>2. s \in Committing /\ Sound(s) /\ Answering(s) /\ Decided(s) /\ s.step = "commit"
  BY <1>1, Holding, KindOfStep DEF JoinCommit, At, AnswerInv, DetectInv
<1>3. s.rule \in Matches[s.event]
  BY <1>2 DEF Sound, Answering
<1>4. PICK k, todo, seen :
         /\ alert' = [alert EXCEPT ![<<s.event, s.rule>>] = k]
         /\ Move(w, [step |-> "correlate", event |-> s.event, todo |-> todo, seen |-> seen])
         /\ replies' = replies
  BY <1>1 DEF JoinCommit
<1>5. PICK t : t = [step |-> "correlate", event |-> s.event, todo |-> todo, seen |-> seen]
  OBVIOUS
<1>6. \A e \in AllEvents : \A r \in Rules \ Matches[e] : alert'[<<e, r>>] = NoAlert
  <2>1. alert \in [Alerts -> Keys \cup {NoAlert, Unlinked}]
    BY DEF IngInv, TypeOK
  <2>2. \A a \in Alerts : a # <<s.event, s.rule>> => alert'[a] = alert[a]
    BY <1>4, <2>1
  <2> QED BY <1>3, <2>2 DEF DetectInv, Alerts
<1>7. Decided(t)
  BY <1>2, <1>5 DEF Decided
<1> QED BY <1>4, <1>5, <1>6, <1>7, DetectStep

LEMMA DetectReply ==
    ASSUME DetectInv, IngInv, NEW w \in Workers, Reply(w) PROVE DetectInv'
<1>1. PICK s : s = session[w]
  OBVIOUS
<1>2. s.step = "reply" /\ Decided(s)
  BY <1>1 DEF Reply, At, DetectInv
<1>3. PICK p : p = [event |-> s.event, duplicate |-> FALSE, incidents |-> s.found]
  OBVIOUS
<1>4. Move(w, Idle) /\ UNCHANGED alert /\ replies' = replies \cup {p}
  BY <1>1, <1>3 DEF Reply, rows
<1>5. p.event \notin Undecided
  BY <1>2, <1>3 DEF Decided
<1> QED BY <1>4, <1>5, DetectOff, DetectSame DEF Idle

LEMMA DetectAside ==
    ASSUME DetectInv, IngInv, NEW w \in Workers,
           \/ \E e \in AllEvents : Store(w, e)
           \/ JoinRefused(w) \/ DemoFails(w) \/ DetectFails(w) \/ Fail(w) \/ Abort(w)
           \/ DemoMark(w) \/ Rescore(w) \/ Save(w)
           \/ \E k \in Keys, v \in Values, row \in Row \cup {NoRow} : DemoRead(w, k, v, row)
           \/ \E k \in Keys, v \in Values : EnrichLoad(w, k, v)
           \/ \E b \in BOOLEAN : Enrich(w, b)
    PROVE  DetectInv'
<1>1. UNCHANGED <<alert, replies>>
  BY DEF Store, JoinRefused, DemoFails, DetectFails, Fail, Abort, DemoMark, Rescore, Save, DemoRead,
         EnrichLoad, Enrich, rows
<1>2. \E t : Move(w, t) /\ Decided(t)
  <2>1. CASE JoinRefused(w) \/ DemoFails(w) \/ DetectFails(w) \/ Fail(w) \/ Abort(w) \/ Save(w)
    BY <2>1, DetectOff DEF JoinRefused, DemoFails, DetectFails, Fail, Abort, Save, Idle
  <2>2. CASE DemoMark(w) \/ Rescore(w)
    <3>1. \E key, held, score :
            Move(w, [step |-> "save", key |-> key, held |-> held, score |-> score])
      BY <2>2 DEF DemoMark, Rescore
    <3> QED BY <3>1, DetectOff
  <2>3. CASE \E k \in Keys, v \in Values, row \in Row \cup {NoRow} : DemoRead(w, k, v, row)
    <3>1. \E key, value, held, alerts, bad :
            Move(w, [step |-> "mark", key |-> key, value |-> value, held |-> held,
                     alerts |-> alerts, bad |-> bad])
      BY <2>3 DEF DemoRead
    <3> QED BY <3>1, DetectOff
  <2>4. CASE \E k \in Keys, v \in Values : EnrichLoad(w, k, v)
    <3>1. \E k, v, said : Move(w, [step |-> "ask", key |-> k, value |-> v, accused |-> said])
      BY <2>4 DEF EnrichLoad
    <3> QED BY <3>1, DetectOff
  <2>6. CASE \E b \in BOOLEAN : Enrich(w, b)
    <3>1. \E k, v, said : Move(w, [step |-> "rescore", key |-> k, value |-> v, accused |-> said])
      BY <2>6 DEF Enrich
    <3> QED BY <3>1, DetectOff
  <2>5. CASE \E e \in AllEvents : Store(w, e)
    <3>1. \E e : Move(w, [step |-> "detect", event |-> e])
      BY <2>5 DEF Store
    <3> QED BY <3>1, DetectOff
  <2> QED BY <2>1, <2>2, <2>3, <2>4, <2>5, <2>6
<1> QED BY <1>1, <1>2, DetectSame

LEMMA DetectDuplicate ==
    ASSUME DetectInv, IngInv, NEW w \in Workers, NEW e \in AllEvents, Duplicate(w, e)
    PROVE  DetectInv'
<1>1. PICK s : s = session[w]
  OBVIOUS
<1>2. Move(w, s) /\ UNCHANGED alert
  BY <1>1 DEF Duplicate, rows, Move, IngInv, TypeOK
<1>3. Decided(s)
  BY <1>1 DEF DetectInv
<1>4. \A p \in replies' : p \in replies \/ p.duplicate
  BY DEF Duplicate
<1> QED BY <1>2, <1>3, <1>4, DetectSame

LEMMA DetectNext == IngInv /\ AnswerInv /\ DetectInv /\ [Next]_vars => DetectInv'
<1> SUFFICES ASSUME IngInv, AnswerInv, DetectInv, [Next]_vars PROVE DetectInv'
  OBVIOUS
<1>1. CASE UNCHANGED vars
  BY <1>1 DEF vars, rows, DetectInv, Decided
<1>2. CASE Reset
  <2>1. alert' = [a \in Alerts |-> NoAlert] /\ replies' = replies
    BY <1>2 DEF Reset
  <2>2. ASSUME NEW v \in Workers PROVE Decided(session[v])'
    <3>1. PICK x : x = session[v]
      OBVIOUS
    <3>2. session'[v] = AfterReset(v, x)
      BY <1>2, <3>1 DEF Reset
    <3>3. Decided(x)
      BY <3>1 DEF DetectInv
    <3>4. Decided(AfterReset(v, x))'
      BY <3>3 DEF Decided, Doomed, AfterReset
    <3> QED BY <3>2, <3>4
  <2>3. \A e \in AllEvents, r \in Rules : alert'[<<e, r>>] = NoAlert
    BY <2>1 DEF Alerts
  <2> QED BY <2>1, <2>2, <2>3 DEF DetectInv
<1>3. ASSUME NEW w \in Workers, Call(w) PROVE DetectInv'
  BY <1>3, DetectDuplicate, DetectAside DEF Call, AllEvents
<1>4. ASSUME NEW w \in Workers, Continue(w) PROVE DetectInv'
  <2>1. CASE \E k \in Keys, v \in Values :
               At(w, "correlate") /\ \E row \in {session[w].seen[k], incident[k]} \ {NoRow} :
                                        DemoRead(w, k, v, row)
    <3> PICK k \in Keys, v \in Values : At(w, "correlate") /\
               \E row \in {session[w].seen[k], incident[k]} \ {NoRow} : DemoRead(w, k, v, row)
      BY <2>1
    <3>1. PICK row \in {session[w].seen[k], incident[k]} :
            At(w, "correlate") /\ DemoRead(w, k, v, row)
      OBVIOUS
    <3>2. session[w] \in Correlating
      BY <3>1, Holding, KindOfStep DEF At
    <3>3. row \in Row \cup {NoRow}
      BY <3>2 DEF Correlating, Seen, IngInv, TypeOK
    <3> QED BY <3>1, <3>3, DetectAside
  <2> QED BY <1>4, <2>1, DetectDetect, DetectJoin, DetectCommit, DetectReply, DetectAside DEF Continue
<1>5. ASSUME NEW w \in Workers, Abort(w) PROVE DetectInv'
  BY <1>5, DetectAside
<1> QED BY <1>1, <1>2, <1>3, <1>4, <1>5 DEF Next, Run

\* Without demo mode, in any number of processes and with failures at every step, an event whose
\* delivery was answered has alerts of exactly the enabled rules whose condition it satisfies, for
\* any table of rules, also one with rules that cannot be evaluated (detection.py:127-166).
THEOREM DetectionMeans == ASSUME ~DemoMode PROVE Spec => []AlertsAreDetections
<1>1. Init => DetectInv
  BY DEF Init, DetectInv, Decided, Alerts, Idle
<1>2. IngInv /\ AnswerInv /\ [Next]_vars => AnswerInv'
  BY AnswerNext DEF Next, Calm, Reset
<1>3. IngInv /\ AnswerInv /\ DetectInv => AlertsAreDetections
  <2> SUFFICES ASSUME IngInv, AnswerInv, DetectInv, NEW p \in replies, ~p.duplicate
               PROVE  {r \in Rules : alert[<<p.event, r>>] # NoAlert}
                        = {r \in Enabled(Table) : Satisfies(Content[p.event], Table[r].body)}
    BY DEF AlertsAreDetections
  <2>1. PICK e \in AllEvents : e = p.event
    BY DEF IngInv, TypeOK
  <2>2. e \notin Undecided /\ Correlated(e)
    BY <2>1 DEF DetectInv, AnswerInv, Answered
  <2>3. \A r \in Rules : alert[<<e, r>>] # NoAlert <=> r \in Matches[e]
    BY <2>1, <2>2, PipelineAssumption DEF DetectInv, Correlated, Alerts
  <2>4. /\ Enabled(Table) \subseteq Rules
        /\ Matches[e] = {r \in Enabled(Table) : Evaluate(Content[e], Table[r].body) = "match"}
        /\ \A r \in Enabled(Table) : Evaluate(Content[e], Table[r].body) # "error"
    BY <2>1, <2>2, RulesAssumption DEF Matching, Undecidable, Enabled
  <2>5. \A r \in Enabled(Table) : Evaluate(Content[e], Table[r].body) = "match"
                                   <=> Satisfies(Content[e], Table[r].body)
    BY <2>4, RulesAssumption, DecidedMeans
  <2> QED BY <2>1, <2>3, <2>4, <2>5
<1> QED BY <1>1, <1>2, <1>3, AnswerInit, DetectNext, IngInvariant, PTL DEF Spec
=============================================================================
