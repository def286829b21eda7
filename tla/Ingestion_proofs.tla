---------------------------- MODULE Ingestion_proofs ----------------------------
(***************************************************************************)
(* Proofs about Ingestion, for any workers, loops, events, rules and keys. *)
(***************************************************************************)
EXTENDS Ingestion, FiniteSetTheorems, WellFoundedInduction, NaturalsInduction, TLAPS

-----------------------------------------------------------------------------
(* Risk.                                                                    *)

\* A set of small numbers has a largest one.
LEMMA MaxOf ==
    ASSUME NEW n \in Nat, NEW T \in SUBSET (0..n), T # {}
    PROVE  Max(T) \in T /\ \A j \in T : j <= Max(T)
<1> DEFINE Back == {n - k : k \in T}
<1>1. Back \subseteq Nat /\ Back # {}
  <2>1. \A k \in T : k \in Nat /\ k <= n /\ n - k \in Nat
    OBVIOUS
  <2> QED BY <2>1
<1> HIDE DEF Back
<1>2. IsWellFoundedOn(OpToRel(<, Nat), Nat)
  BY NatLessThanWellFounded
<1>3. PICK x \in Back : \A y \in Back : ~ (<<y, x>> \in OpToRel(<, Nat))
  BY <1>1, <1>2, WFMin
<1>4. ASSUME NEW y \in Back PROVE x <= y
  <2>1. x \in Nat /\ y \in Nat
    BY <1>1
  <2>2. ~ (y < x)
    <3>1. SUFFICES ASSUME y < x PROVE <<y, x>> \in OpToRel(<, Nat)
      BY <1>3
    <3> QED BY <2>1, <3>1 DEF OpToRel
  <2> QED BY <2>1, <2>2
<1>5. PICK k \in T : x = n - k
  BY DEF Back
<1>6. ASSUME NEW j \in T PROVE k >= j
  <2>1. n - j \in Back
    BY DEF Back
  <2>2. n - k <= n - j
    BY <1>4, <1>5, <2>1
  <2> QED BY <2>2
<1>7. Max(T) \in T /\ \A j \in T : Max(T) >= j
  BY <1>6 DEF Max
<1> QED BY <1>7

LEMMA LevelType == \A score : Level(score) \in 1..4
BY DEF Level

\* Every set of alerts and indicators has a score.
LEMMA ScoreType ==
    ASSUME NEW A \in SUBSET Alerts, NEW B \in SUBSET Values
    PROVE  Score(A, B) \in Nat
<1>1. Cardinality(A) \in Nat /\ Cardinality(B) \in Nat
  BY PipelineAssumption, FS_Product, FS_Subset, FS_CardinalityType DEF Alerts
<1>2. CASE A = {}
  BY <1>2 DEF Score
<1>3. CASE A # {}
  <2> DEFINE S == {Severity[a[2]] : a \in A}
             C == {Confidence[a[2]] : a \in A}
  <2>1. S \in SUBSET (0..4) /\ S # {} /\ C \in SUBSET (0..100) /\ C # {}
    BY <1>3, PipelineAssumption DEF Alerts
  <2> HIDE DEF S, C
  <2>2. PICK m \in 0..4 : m = Max(S)
    BY <2>1, MaxOf
  <2>3. PICK c \in 0..100 : c = Max(C)
    BY <2>1, MaxOf
  <2>4. Score(A, B) = RiskScore(m, c, Cardinality(A), Cardinality(B))
    BY <1>3, <2>2, <2>3 DEF Score, S, C
  <2>5. SEVERITY_SCORE[m + 1] \in Nat
    <3>1. m \in {0, 1, 2, 3, 4}
      OBVIOUS
    <3> QED BY <3>1 DEF SEVERITY_SCORE
  <2>6. PICK x \in Nat, y \in Nat : x = Cardinality(A) /\ y = Cardinality(B)
    BY <1>1
  <2>7. CASE x = 0
    BY <2>4, <2>6, <2>7 DEF RiskScore
  <2>8. CASE x # 0
    <3> DEFINE more == AtMost(1000, (x - 1) * 300)
               bad == AtMost(2000, y * 1000)
    <3>1. more \in Nat /\ bad \in Nat
      BY <2>6, <2>8 DEF AtMost
    <3> HIDE DEF more, bad
    <3> DEFINE sum == SEVERITY_SCORE[m + 1] * 55 + c * 25 + more + bad
    <3>2. sum \in Nat
      BY <2>5, <3>1
    <3>3. Score(A, B) = AtMost(10000, sum)
      BY <2>4, <2>6, <2>8 DEF RiskScore, more, bad
    <3> HIDE DEF sum
    <3> QED BY <3>2, <3>3 DEF AtMost
  <2> QED BY <2>7, <2>8
<1> QED BY <1>2, <1>3

\* What is written back is a row.
LEMMA AssessType ==
    ASSUME NEW row \in Row, NEW held \in Row, NEW score \in Nat
    PROVE  /\ Assess(row, held, score) \in Row
           /\ Assess(row, held, score).severity = row.severity
<1>1. Level(score) \in 1..4
  BY LevelType
<1>2. PICK x \in Nat, l \in 1..4 :
        x = Flush(held.score, score, row.score) /\ l = Flush(held.level, Level(score), row.level)
  BY <1>1 DEF Row, Flush
<1>3. Assess(row, held, score) = [row EXCEPT !.score = x, !.level = l]
  BY <1>2 DEF Assess, Row
<1> QED BY <1>3 DEF Row

-----------------------------------------------------------------------------
(* The inductive invariant.                                                 *)

\* A handler between the commit of its event and the last of its alerts.
OnEvent(s) == s.step \in {"detect", "correlate", "join", "commit"}

\* What a handler holds is true of the tables.
Sound(s) ==
    /\ s.step \in {"correlate", "join", "commit"} =>
        /\ \A r \in s.todo : alert[<<s.event, r>>] = Unlinked
        /\ \A k \in Keys : s.seen[k] # NoRow => Exists(k)
    /\ s.step \in {"join", "commit"} =>
        /\ s.rule \in s.todo
        /\ EventIocs[s.event] \subseteq s.fresh \cup Known(JoinKey(s))
    /\ s.step = "join" /\ s.held # NoRow => Exists(JoinKey(s))
    /\ s.step = "commit" => (s.created <=> ~Exists(JoinKey(s)))
    /\ s.step \in {"mark", "ask", "rescore", "save"} => Exists(s.key)
    /\ s.step \in {"mark", "ask"} => s.value \in Known(s.key)
    /\ OnEvent(s) => s.event \in stored

\* Two handlers are never at the same event, nor is one inserting an incident that
\* another is about to commit to.
Apart(s, t) ==
    /\ OnEvent(s) /\ OnEvent(t) => s.event # t.event
    /\ s.step = "commit" /\ t.step = "commit" /\ JoinKey(s) = JoinKey(t) =>
         ~s.created /\ ~t.created

IngInv ==
    /\ TypeOK
    /\ CreatedOnce
    /\ \A w \in Workers : Sound(session[w])
    /\ \A v, w \in Workers : v # w => Apart(session[v], session[w])

\* The kind of a session is told by its step.
LEMMA KindOfStep ==
    ASSUME NEW s \in Session
    PROVE  /\ s.step = "detect" => s \in Detecting
           /\ s.step = "correlate" => s \in Correlating
           /\ s.step = "join" => s \in Joining
           /\ s.step = "commit" => s \in Committing
           /\ s.step = "reply" => s \in Replying
           /\ s.step = "mark" => s \in Marking
           /\ s.step = "ask" => s \in Asking
           /\ s.step = "rescore" => s \in Rescoring
           /\ s.step = "save" => s \in Saving
BY DEF Session, Idle, Doomed, Detecting, Correlating, Joining, Committing, Replying, Marking,
       Asking, Rescoring, Saving

\* What a step of w that leaves it with t may not do to the others.
OthersApart(w, t) == \A v \in Workers \ {w} : Apart(session[v], t)
EventsKept(w) ==
    \A v \in Workers \ {w} : OnEvent(session[v]) =>
        \A r \in Rules : alert'[<<session[v].event, r>>] = alert[<<session[v].event, r>>]
InsertsKept(w) ==
    \A v \in Workers \ {w} : session[v].step = "commit" =>
        \A k \in Keys : k = JoinKey(session[v]) /\ Exists(k)' => Exists(k)
Grows ==
    /\ stored \subseteq stored'
    /\ \A k \in Keys : Exists(k) => Exists(k)'
    /\ \A k \in Keys : Known(k) \subseteq Known(k)'

\* One handler steps, and what the others hold stays true.
LEMMA StepOf ==
    ASSUME IngInv, NEW w \in Workers, NEW t \in Session, Move(w, t),
           TypeOK', CreatedOnce', Sound(t)', Grows,
           OthersApart(w, t), EventsKept(w), InsertsKept(w)
    PROVE  IngInv'
<1>1. session \in [Workers -> Session]
  BY DEF IngInv, TypeOK
<1>2. session'[w] = t /\ \A v \in Workers \ {w} : session'[v] = session[v]
  BY <1>1 DEF Move
<1>3. ASSUME NEW v \in Workers \ {w} PROVE Sound(session[v])'
  <2>1. PICK s \in Session : s = session[v] /\ session'[v] = s
    BY <1>1, <1>2
  <2>2. Sound(s)
    BY <2>1 DEF IngInv
  <2>3. /\ s.step = "commit" => \A k \in Keys : k = JoinKey(s) /\ Exists(k)' => Exists(k)
        /\ OnEvent(s) => \A r \in Rules : alert'[<<s.event, r>>] = alert[<<s.event, r>>]
    BY <2>1 DEF EventsKept, InsertsKept
  <2>4. s.step \in {"join", "commit"} => JoinKey(s) \in Keys /\ s.todo \subseteq Rules
    BY KindOfStep, PipelineAssumption DEF JoinKey, Joining, Committing, Alerts
  <2>5. s.step \in {"mark", "ask", "rescore", "save"} => s.key \in Keys
    BY KindOfStep DEF Marking, Asking, Rescoring, Saving
  <2>6. s.step = "correlate" => s.todo \subseteq Rules
    BY KindOfStep DEF Correlating
  <2>7. Sound(s)'
    BY <2>2, <2>3, <2>4, <2>5, <2>6 DEF Sound, OnEvent, JoinKey, Grows
  <2> QED BY <2>1, <2>7
<1>4. Sound(session[w])'
  BY <1>2
<1>5. \A v \in Workers : Sound(session[v])'
  BY <1>3, <1>4
<1>6. ASSUME NEW v \in Workers, NEW u \in Workers, u # v PROVE Apart(session[v], session[u])'
  <2>1. CASE v # w /\ u # w
    BY <1>2, <1>6, <2>1 DEF IngInv, Apart, OnEvent, JoinKey
  <2>2. CASE v = w
    BY <1>2, <1>6, <2>2 DEF OthersApart, Apart, OnEvent, JoinKey
  <2>3. CASE u = w
    BY <1>2, <1>6, <2>3 DEF OthersApart, Apart, OnEvent, JoinKey
  <2> QED BY <2>1, <2>2, <2>3
<1> QED BY <1>5, <1>6 DEF IngInv

-----------------------------------------------------------------------------
(* The steps of a delivery.                                                 *)

\* What the types say of a session.
LEMMA Holding ==
    ASSUME IngInv, NEW w \in Workers
    PROVE  session[w] \in Session /\ Sound(session[w])
BY DEF IngInv, TypeOK

\* Nothing is created while incidents and what they are made of stay.
LEMMA CreatedStays ==
    ASSUME CreatedOnce, UNCHANGED timeline,
           \A k \in Keys : (Exists(k)' <=> Exists(k)) /\ Known(k)' = Known(k),
           \A k \in Keys, a \in Alerts : alert'[a] = k <=> alert[a] = k
    PROVE  CreatedOnce'
<1>1. \A k \in Keys : Attached(k)' = Attached(k)
  BY DEF Attached
<1> QED BY <1>1 DEF CreatedOnce

LEMMA CreatedSame ==
    ASSUME CreatedOnce, UNCHANGED <<incident, ioc, timeline>>,
           \A k \in Keys, a \in Alerts : alert'[a] = k <=> alert[a] = k
    PROVE  CreatedOnce'
<1>1. \A k \in Keys : Known(k)' = Known(k) /\ (Exists(k)' <=> Exists(k))
  BY DEF Known, Exists
<1> QED BY <1>1, CreatedStays

\* A step that leaves the tables alone.
LEMMA SameTables ==
    ASSUME IngInv, NEW w \in Workers, NEW t \in Session, Move(w, t), UNCHANGED <<rows, owed, overtaken>>,
           replies' \subseteq [event: AllEvents, duplicate: BOOLEAN, incidents: SUBSET Keys],
           Sound(t), OthersApart(w, t)
    PROVE  IngInv'
<1>1. /\ stored' = stored /\ alert' = alert /\ incident' = incident /\ ioc' = ioc
      /\ timeline' = timeline /\ owed' = owed /\ overtaken' = overtaken
  BY DEF rows
<1>2. session \in [Workers -> Session]
  BY DEF IngInv, TypeOK
<1>3. TypeOK'
  BY <1>1, <1>2 DEF IngInv, TypeOK, Move
<1>4. CreatedOnce'
  BY <1>1, CreatedSame DEF IngInv
<1>5. Sound(t)'
  BY <1>1 DEF Sound, Exists, Known, JoinKey, OnEvent
<1>6. Grows
  BY <1>1 DEF Grows, Exists, Known
<1>7. EventsKept(w)
  BY <1>1 DEF EventsKept
<1>8. InsertsKept(w)
  BY <1>1 DEF InsertsKept, Exists
<1> QED BY <1>3, <1>4, <1>5, <1>6, <1>7, <1>8, StepOf

\* A handler that ends, or is on no event and not about to commit.
LEMMA ApartIdle == \A s, t : ~OnEvent(t) => Apart(s, t)
BY DEF Apart, OnEvent

LEMMA StoreKeeps ==
    ASSUME IngInv, NEW w \in Workers, NEW e \in AllEvents, Store(w, e)
    PROVE  IngInv'
<1>1. PICK t : t = [step |-> "detect", event |-> e]
  OBVIOUS
<1>2. t \in Session /\ t.step = "detect" /\ t.event = e
  BY <1>1 DEF Session, Detecting
<1>3. /\ e \notin stored /\ stored' = stored \cup {e} /\ Move(w, t)
      /\ alert' = alert /\ incident' = incident /\ ioc' = ioc
      /\ timeline' = timeline /\ owed' = owed
      /\ overtaken' = overtaken /\ replies' = replies
  BY <1>1 DEF Store
<1>4. session \in [Workers -> Session]
  BY DEF IngInv, TypeOK
<1>5. TypeOK'
  BY <1>2, <1>3, <1>4 DEF IngInv, TypeOK, Move
<1>6. CreatedOnce'
  BY <1>3, CreatedSame DEF IngInv
<1>7. Sound(t)'
  BY <1>2, <1>3 DEF Sound, OnEvent
<1>8. OthersApart(w, t)
  <2>1. \A v \in Workers : Sound(session[v])
    BY DEF IngInv
  <2> QED BY <1>2, <1>3, <2>1 DEF OthersApart, Apart, Sound
<1>9. Grows /\ EventsKept(w) /\ InsertsKept(w)
  BY <1>3 DEF Exists, Known, Grows, EventsKept, InsertsKept
<1> QED BY <1>2, <1>3, <1>5, <1>6, <1>7, <1>8, <1>9, StepOf

LEMMA DuplicateKeeps ==
    ASSUME IngInv, NEW w \in Workers, NEW e \in AllEvents, Duplicate(w, e)
    PROVE  IngInv'
<1>1. /\ UNCHANGED <<rows, owed, overtaken>> /\ session' = session
      /\ replies' = replies \cup {[event |-> e, duplicate |-> TRUE,
                                   incidents |-> {alert[<<e, r>>] : r \in Rules} \cap Keys]}
  BY DEF Duplicate
<1>2. PICK t : t = session[w]
  OBVIOUS
<1>3. Move(w, t) /\ t \in Session /\ Sound(t)
  BY <1>1, <1>2 DEF Move, IngInv, TypeOK
<1>4. OthersApart(w, t)
  BY <1>2 DEF IngInv, OthersApart
<1>5. replies' \subseteq [event: AllEvents, duplicate: BOOLEAN, incidents: SUBSET Keys]
  <2>1. PICK K \in SUBSET Keys : K = {alert[<<e, r>>] : r \in Rules} \cap Keys
    OBVIOUS
  <2>2. replies' = replies \cup {[event |-> e, duplicate |-> TRUE, incidents |-> K]}
    BY <1>1, <2>1
  <2>3. [event |-> e, duplicate |-> TRUE, incidents |-> K]
          \in [event: AllEvents, duplicate: BOOLEAN, incidents: SUBSET Keys]
    OBVIOUS
  <2>4. replies \subseteq [event: AllEvents, duplicate: BOOLEAN, incidents: SUBSET Keys]
    BY DEF IngInv, TypeOK
  <2> QED BY <2>2, <2>3, <2>4
<1> QED BY <1>1, <1>3, <1>4, <1>5, SameTables

LEMMA DetectKeeps == ASSUME IngInv, NEW w \in Workers, Detect(w) PROVE IngInv'
<1>1. PICK s : s = session[w]
  OBVIOUS
<1>2. s \in Detecting /\ Sound(s) /\ s.step = "detect" /\ s.event \in AllEvents
  BY <1>1, Holding, KindOfStep DEF Detect, At, Detecting
<1>3. PICK new \in SUBSET Rules : new = {r \in Matches[s.event] : alert[<<s.event, r>>] = NoAlert}
  BY <1>2, PipelineAssumption
<1>4. PICK t : t = [step |-> "correlate", event |-> s.event, todo |-> new,
                    seen |-> [k \in Keys |-> NoRow]]
  OBVIOUS
<1>5. /\ alert' = [a \in Alerts |-> IF a[1] = s.event /\ a[2] \in new THEN Unlinked ELSE alert[a]]
      /\ Move(w, t)
      /\ stored' = stored /\ incident' = incident /\ ioc' = ioc
      /\ timeline' = timeline /\ owed' = owed
      /\ overtaken' = overtaken /\ replies' = replies
  BY <1>1, <1>3, <1>4 DEF Detect
<1>6. t \in Session /\ t.step = "correlate" /\ t.event = s.event /\ t.todo = new
      /\ \A k \in Keys : t.seen[k] = NoRow
  BY <1>2, <1>4 DEF Session, Correlating, Seen
<1>7. session \in [Workers -> Session] /\ alert \in [Alerts -> Keys \cup {NoAlert, Unlinked}]
  BY DEF IngInv, TypeOK
<1>8. TypeOK'
  BY <1>5, <1>6, <1>7 DEF IngInv, TypeOK, Move
<1>9. ASSUME NEW k \in Keys, NEW a \in Alerts PROVE alert'[a] = k <=> alert[a] = k
  <2>1. k # Unlinked /\ k # NoAlert
    BY PipelineAssumption
  <2>2. CASE a[1] = s.event /\ a[2] \in new
    <3>1. a = <<s.event, a[2]>>
      BY <2>2 DEF Alerts
    <3> QED BY <1>3, <1>5, <2>1, <2>2, <3>1
  <2>3. CASE ~(a[1] = s.event /\ a[2] \in new)
    BY <1>5, <2>3
  <2> QED BY <2>2, <2>3
<1>10. CreatedOnce'
  BY <1>5, <1>9, CreatedSame DEF IngInv
<1>11. Sound(t)'
  <2>1. \A r \in new : alert'[<<s.event, r>>] = Unlinked
    BY <1>2, <1>5 DEF Alerts
  <2>2. s.event \in stored'
    BY <1>2, <1>5 DEF Sound, OnEvent
  <2> QED BY <1>6, <2>1, <2>2 DEF Sound, OnEvent
<1>12. ASSUME NEW v \in Workers \ {w}
       PROVE  /\ Apart(session[v], t)
              /\ OnEvent(session[v]) =>
                   \A r \in Rules : alert'[<<session[v].event, r>>] = alert[<<session[v].event, r>>]
  <2>1. Apart(session[v], s)
    BY <1>1 DEF IngInv
  <2>2. Apart(session[v], t)
    BY <1>2, <1>6, <2>1 DEF Apart, OnEvent
  <2>3. OnEvent(session[v]) => session[v].event # s.event /\ session[v].event \in AllEvents
    <3>1. session[v] \in Session
      BY <1>7
    <3> QED BY <1>2, <2>1, <3>1, KindOfStep
            DEF Apart, OnEvent, Detecting, Correlating, Joining, Committing
  <2> QED BY <1>5, <2>2, <2>3 DEF Alerts
<1>13. OthersApart(w, t) /\ EventsKept(w)
  BY <1>12 DEF OthersApart, EventsKept
<1>14. Grows /\ InsertsKept(w)
  BY <1>5 DEF Exists, Known, Grows, InsertsKept
<1> QED BY <1>5, <1>6, <1>8, <1>10, <1>11, <1>13, <1>14, StepOf

\* Steps within a delivery that leave the tables alone.
LEMMA StayOnEvent ==
    ASSUME IngInv, NEW w \in Workers, NEW t \in Session,
           OnEvent(session[w]), t.event = session[w].event, t.step # "commit"
    PROVE  OthersApart(w, t)
BY DEF IngInv, Apart, OthersApart, OnEvent

LEMMA LookupKeeps == ASSUME IngInv, NEW w \in Workers, NEW r \in Rules, Lookup(w, r) PROVE IngInv'
<1>1. PICK s : s = session[w]
  OBVIOUS
<1>2. s \in Correlating /\ Sound(s) /\ s.step = "correlate" /\ s.event \in AllEvents /\ r \in s.todo
  BY <1>1, Holding, KindOfStep DEF Lookup, At, Correlating
<1>3. PICK k \in Keys : k = Key[<<s.event, r>>]
  BY <1>2, PipelineAssumption DEF Alerts
<1>4. PICK row \in Row \cup {NoRow} : row = IF s.seen[k] # NoRow THEN s.seen[k] ELSE incident[k]
  BY <1>2 DEF Correlating, Seen, IngInv, TypeOK
<1>5. PICK t : t = [step |-> "join", event |-> s.event, todo |-> s.todo, seen |-> s.seen,
                    rule |-> r, held |-> row, fresh |-> EventIocs[s.event] \ Known(k), bad |-> Bad(k)]
  OBVIOUS
<1>6. Move(w, t) /\ UNCHANGED <<rows, owed, overtaken>> /\ replies' = replies
  BY <1>1, <1>3, <1>4, <1>5 DEF Lookup
<1>7. EventIocs[s.event] \subseteq Values /\ Bad(k) \subseteq Values
  BY <1>2, PipelineAssumption DEF Bad
<1>8. t \in Session /\ t.step = "join" /\ t.event = s.event /\ t.todo = s.todo /\ t.seen = s.seen
      /\ t.rule = r /\ t.held = row /\ t.fresh = EventIocs[s.event] \ Known(k)
  <2>1. t \in Joining
    BY <1>2, <1>5, <1>7 DEF Joining, Correlating
  <2> QED BY <1>5, <2>1 DEF Session
<1>9. JoinKey(t) = k
  BY <1>3, <1>8 DEF JoinKey
<1>10. row # NoRow => Exists(k)
  BY <1>2, <1>4 DEF Sound, Exists
<1>11. Sound(t)
  BY <1>2, <1>8, <1>9, <1>10 DEF Sound, OnEvent
<1>12. OthersApart(w, t)
  BY <1>1, <1>2, <1>8, StayOnEvent DEF OnEvent
<1>13. replies' \subseteq [event: AllEvents, duplicate: BOOLEAN, incidents: SUBSET Keys]
  BY <1>6 DEF IngInv, TypeOK
<1> QED BY <1>6, <1>8, <1>11, <1>12, <1>13, SameTables

\* What a handler that joins an alert holds.
LEMMA JoinHolding ==
    ASSUME IngInv, NEW w \in Workers, session[w].step = "join"
    PROVE  LET s == session[w] IN
           /\ s \in Joining /\ Sound(s) /\ JoinKey(s) \in Keys /\ <<s.event, s.rule>> \in Alerts
           /\ EventIocs[s.event] \subseteq Values
<1>1. session[w] \in Joining /\ Sound(session[w])
  BY Holding, KindOfStep
<1> QED BY <1>1, PipelineAssumption DEF Joining, JoinKey, Alerts

LEMMA JoinConflictKeeps == ASSUME IngInv, NEW w \in Workers, JoinConflict(w) PROVE IngInv'
<1>1. PICK s : s = session[w]
  OBVIOUS
<1>2. s \in Joining /\ Sound(s) /\ s.step = "join" /\ EventIocs[s.event] \subseteq Values
  BY <1>1, JoinHolding DEF JoinConflict, At
<1>3. PICK k \in Keys : k = JoinKey(s)
  BY <1>1, <1>2, JoinHolding
<1>4. incident[k] \in Row /\ Exists(k)
  BY <1>1, <1>3 DEF JoinConflict, Exists, IngInv, TypeOK
<1>5. PICK t : t = [s EXCEPT !.held = incident[k], !.fresh = EventIocs[s.event] \ Known(k),
                             !.bad = Bad(k)]
  OBVIOUS
<1>6. Move(w, t) /\ UNCHANGED <<rows, owed, overtaken>> /\ replies' = replies
  BY <1>1, <1>3, <1>5 DEF JoinConflict
<1>7. /\ t \in Joining /\ t.step = "join" /\ t.event = s.event /\ t.todo = s.todo
      /\ t.seen = s.seen /\ t.rule = s.rule /\ t.fresh = EventIocs[s.event] \ Known(k)
  BY <1>2, <1>4, <1>5 DEF Joining, Bad
<1>8. JoinKey(t) = k /\ t \in Session
  BY <1>3, <1>7 DEF JoinKey, Session
<1>9. Sound(t)
  BY <1>2, <1>4, <1>7, <1>8 DEF Sound, OnEvent
<1>10. OthersApart(w, t)
  BY <1>1, <1>2, <1>7, <1>8, StayOnEvent DEF OnEvent
<1>11. replies' \subseteq [event: AllEvents, duplicate: BOOLEAN, incidents: SUBSET Keys]
  BY <1>6 DEF IngInv, TypeOK
<1> QED BY <1>6, <1>8, <1>9, <1>10, <1>11, SameTables

LEMMA JoinFlushKeeps == ASSUME IngInv, NEW w \in Workers, JoinFlush(w) PROVE IngInv'
<1>1. PICK s : s = session[w]
  OBVIOUS
<1>2. s \in Joining /\ Sound(s) /\ s.step = "join" /\ <<s.event, s.rule>> \in Alerts
  BY <1>1, JoinHolding DEF JoinFlush, At
<1>3. PICK k \in Keys : k = JoinKey(s)
  BY <1>1, <1>2, JoinHolding
<1>4. (s.held = NoRow <=> ~Exists(k)) /\ ~InsertBlocked(w, k, s.fresh)
  BY <1>1, <1>3 DEF JoinFlush
<1>5. PICK held \in Row : held = IF Exists(k) THEN s.held
                                 ELSE [severity |-> Severity[s.rule], score |-> 0, level |-> 1]
  <2>1. s.held \in Row \cup {NoRow} /\ Severity[s.rule] \in 0..4
    BY <1>2, PipelineAssumption DEF Joining
  <2>2. [severity |-> Severity[s.rule], score |-> 0, level |-> 1] \in Row
    BY <2>1 DEF Row
  <2>3. Exists(k) => s.held \in Row
    BY <1>4, <2>1
  <2> QED BY <2>2, <2>3
<1>6. PICK score \in Nat : score = Score(Attached(k) \cup {<<s.event, s.rule>>}, s.bad)
  <2>1. Attached(k) \cup {<<s.event, s.rule>>} \in SUBSET Alerts /\ s.bad \in SUBSET Values
    BY <1>2 DEF Attached, Joining
  <2> QED BY <2>1, ScoreType
<1>7. PICK new \in BOOLEAN : new <=> ~Exists(k)
  OBVIOUS
<1>8. PICK t : t = [step |-> "commit", event |-> s.event, todo |-> s.todo, seen |-> s.seen,
                    rule |-> s.rule, created |-> new, held |-> held, fresh |-> s.fresh,
                    score |-> score]
  OBVIOUS
<1>9. Move(w, t) /\ UNCHANGED <<rows, owed, overtaken>> /\ replies' = replies
  <2>1. new = ~Exists(k)
    BY <1>7 DEF Exists
  <2> QED BY <1>1, <1>3, <1>5, <1>6, <1>8, <2>1 DEF JoinFlush
<1>10. /\ t \in Committing /\ t.step = "commit" /\ t.event = s.event /\ t.todo = s.todo
       /\ t.seen = s.seen /\ t.rule = s.rule /\ t.fresh = s.fresh /\ t.created = new
  BY <1>2, <1>8 DEF Joining, Committing
<1>11. JoinKey(t) = k /\ t \in Session
  BY <1>3, <1>10 DEF JoinKey, Session
<1>12. Sound(t)
  BY <1>2, <1>3, <1>7, <1>10, <1>11 DEF Sound, OnEvent
\* Nobody else is about to insert that incident, nor has one to insert it for.
<1>13. OthersApart(w, t)
  <2> SUFFICES ASSUME NEW v \in Workers \ {w} PROVE Apart(session[v], t)
    BY DEF OthersApart
  <2>1. Apart(session[v], s)
    BY <1>1 DEF IngInv
  <2>2. ASSUME session[v].step = "commit", JoinKey(session[v]) = k
        PROVE  ~session[v].created /\ ~new
    <3>1. ~session[v].created
      BY <1>4, <2>2 DEF InsertBlocked, At
    <3>2. Exists(k)
      BY <2>2, <3>1 DEF IngInv, Sound
    <3> QED BY <1>7, <3>1, <3>2
  <2> QED BY <1>2, <1>10, <1>11, <2>1, <2>2 DEF Apart, OnEvent
<1>14. replies' \subseteq [event: AllEvents, duplicate: BOOLEAN, incidents: SUBSET Keys]
  BY <1>9 DEF IngInv, TypeOK
<1> QED BY <1>9, <1>11, <1>12, <1>13, <1>14, SameTables

\* A handler that ends, or that goes on with no event.
LEMMA LeaveEvent == \A w \in Workers : \A t : ~OnEvent(t) => OthersApart(w, t)
BY DEF OthersApart, Apart, OnEvent

LEMMA EndKeeps ==
    ASSUME IngInv, NEW w \in Workers, Move(w, Idle), UNCHANGED <<rows, owed, overtaken>>,
           replies' \subseteq [event: AllEvents, duplicate: BOOLEAN, incidents: SUBSET Keys]
    PROVE  IngInv'
<1>1. Idle \in Session /\ Sound(Idle) /\ ~OnEvent(Idle)
  BY DEF Session, Sound, Idle, OnEvent
<1> QED BY <1>1, LeaveEvent, SameTables

\* What a commit leaves of the incident is a row.
LEMMA JoinedType ==
    ASSUME IngInv, NEW s \in Committing, Sound(s), s.step = "commit"
    PROVE  Joined(incident[JoinKey(s)], s) \in Row
<1>1. PICK k \in Keys : k = JoinKey(s)
  BY PipelineAssumption DEF Committing, JoinKey, Alerts
<1>2. s.held \in Row /\ s.score \in Nat /\ Severity[s.rule] \in 0..4 /\ Level(s.score) \in 1..4
  BY PipelineAssumption, LevelType DEF Committing
<1>3. CASE s.created
  BY <1>2, <1>3 DEF Joined, Row
<1>4. CASE ~s.created
  <2>1. incident[k] \in Row
    BY <1>1, <1>4 DEF Sound, Exists, IngInv, TypeOK
  <2>2. PICK old \in Row : old = Assess(incident[k], s.held, s.score)
    BY <1>2, <2>1, AssessType
  <2>3. Joined(incident[k], s) = [old EXCEPT !.severity = IF Raises(s) THEN Severity[s.rule] ELSE @]
    BY <1>4, <2>2 DEF Joined
  <2> QED BY <1>1, <1>2, <2>3 DEF Row
<1> QED BY <1>3, <1>4

\* The commit that joins an alert to its incident.
LEMMA JoinCommitKeeps == ASSUME IngInv, NEW w \in Workers, JoinCommit(w) PROVE IngInv'
<1>1. PICK s : s = session[w]
  OBVIOUS
<1>2. s \in Committing /\ Sound(s) /\ s.step = "commit"
  BY <1>1, Holding, KindOfStep DEF JoinCommit, At
<1>3. PICK k \in Keys : k = JoinKey(s)
  BY <1>2, PipelineAssumption DEF Committing, JoinKey, Alerts
<1>4. PICK a \in Alerts : a = <<s.event, s.rule>>
  BY <1>2 DEF Committing, Alerts
<1>5. PICK row : row = Joined(incident[k], s)
  OBVIOUS
<1>6. s.created <=> ~Exists(k)
  BY <1>2, <1>3 DEF Sound
<1>7. row \in Row
  BY <1>2, <1>3, <1>5, JoinedType
<1>8. PICK word \in {"INCIDENT_CREATED", "ALERT_CORRELATED"} :
        word = IF s.created THEN "INCIDENT_CREATED" ELSE "ALERT_CORRELATED"
  OBVIOUS
<1>9. PICK t : t = [step |-> "correlate", event |-> s.event, todo |-> s.todo \ {s.rule},
                    seen |-> [s.seen EXCEPT ![k] = row]]
  OBVIOUS
<1>10. /\ alert \in [Alerts -> Keys \cup {NoAlert, Unlinked}]
       /\ incident \in [Keys -> Row \cup {NoRow}]
       /\ ioc \in [Keys -> [Values -> Verdicts]]
       /\ timeline \in [Keys -> SUBSET ({"INCIDENT_CREATED", "ALERT_CORRELATED"} \X Alerts)]
       /\ session \in [Workers -> Session]
  BY DEF IngInv, TypeOK
<1>11. /\ alert' = [alert EXCEPT ![a] = k]
       /\ incident' = [incident EXCEPT ![k] = row]
       /\ timeline' = [timeline EXCEPT ![k] = @ \cup {<<word, a>>}]
       /\ owed' = owed \ {k} /\ overtaken' = overtaken /\ stored' = stored /\ replies' = replies
  <2>1. alert' = [alert EXCEPT ![a] = k] /\ owed' = owed \ {k}
        /\ overtaken' = overtaken /\ stored' = stored /\ replies' = replies
    BY <1>1, <1>3, <1>4 DEF JoinCommit
  <2>2. timeline' = [timeline EXCEPT ![k] = @ \cup {<<word, a>>}]
    BY <1>1, <1>3, <1>4, <1>8 DEF JoinCommit
  <2>3. incident' = [incident EXCEPT ![k] = row]
    BY <1>1, <1>3, <1>5, <1>10 DEF JoinCommit
  <2> QED BY <2>1, <2>2, <2>3
<1>12. ioc' = [ioc EXCEPT ![k] = [v \in Values |-> IF v \in s.fresh THEN "UNKNOWN" ELSE @[v]]]
  BY <1>1, <1>3 DEF JoinCommit
<1>13. Move(w, t)
  <2>1. incident'[k] = row
    BY <1>10, <1>11
  <2> QED BY <1>1, <1>3, <1>9, <2>1 DEF JoinCommit
<1>14. t \in Session /\ t.step = "correlate" /\ t.event = s.event /\ t.todo = s.todo \ {s.rule}
       /\ t.seen = [s.seen EXCEPT ![k] = row]
  <2>1. t \in Correlating
    BY <1>2, <1>7, <1>9 DEF Committing, Correlating, Seen
  <2> QED BY <1>9, <2>1 DEF Session
<1>15. /\ \A c \in Keys \ {k} : incident'[c] = incident[c] /\ ioc'[c] = ioc[c]
                                /\ timeline'[c] = timeline[c]
       /\ incident'[k] = row /\ row # NoRow /\ timeline'[k] = timeline[k] \cup {<<word, a>>}
       /\ alert'[a] = k /\ \A b \in Alerts \ {a} : alert'[b] = alert[b]
  BY <1>7, <1>10, <1>11, <1>12, PipelineAssumption
<1>16. \A v \in Values : ioc'[k][v] = IF v \in s.fresh THEN "UNKNOWN" ELSE ioc[k][v]
  BY <1>10, <1>12
<1>17. Known(k)' = Known(k) \cup (s.fresh \cap Values)
  BY <1>16 DEF Known
<1>18. \A c \in Keys \ {k} : Known(c)' = Known(c)
  BY <1>15 DEF Known
<1>19. alert[a] = Unlinked /\ EventIocs[s.event] \subseteq s.fresh \cup Known(k)
  BY <1>2, <1>3, <1>4 DEF Sound
<1>20. TypeOK'
  <2>1. ioc' \in [Keys -> [Values -> Verdicts]]
    BY <1>10, <1>12 DEF Verdicts
  <2>2. timeline' \in [Keys -> SUBSET ({"INCIDENT_CREATED", "ALERT_CORRELATED"} \X Alerts)]
    BY <1>10, <1>11
  <2> QED BY <1>7, <1>10, <1>11, <1>13, <1>14, <2>1, <2>2 DEF IngInv, TypeOK, Move
<1>21. CreatedOnce'
  <2> SUFFICES ASSUME NEW c \in Keys
               PROVE  /\ Exists(c)' <=> \E b \in Alerts : <<"INCIDENT_CREATED", b>> \in timeline'[c]
                      /\ \A x, y \in timeline'[c] :
                           x[1] = "INCIDENT_CREATED" /\ y[1] = "INCIDENT_CREATED" => x = y
                      /\ \A b \in Alerts : alert'[b] = c <=> \E x \in timeline'[c] : x[2] = b
                      /\ \A x, y \in timeline'[c] : x[2] = y[2] => x = y
                      /\ \A b \in Attached(c)' : EventIocs[b[1]] \subseteq Known(c)'
                      /\ ~Exists(c)' => Known(c)' = {}
    BY DEF CreatedOnce
  <2>1. /\ Exists(c) <=> \E b \in Alerts : <<"INCIDENT_CREATED", b>> \in timeline[c]
        /\ \A x, y \in timeline[c] :
             x[1] = "INCIDENT_CREATED" /\ y[1] = "INCIDENT_CREATED" => x = y
        /\ \A b \in Alerts : alert[b] = c <=> \E x \in timeline[c] : x[2] = b
        /\ \A x, y \in timeline[c] : x[2] = y[2] => x = y
        /\ \A b \in Attached(c) : EventIocs[b[1]] \subseteq Known(c)
        /\ ~Exists(c) => Known(c) = {}
    BY DEF IngInv, CreatedOnce
  <2>2. \A x \in timeline[c] : x[2] # a /\ x[2] \in Alerts /\ x = <<x[1], x[2]>>
    <3>1. alert[a] # c
      BY <1>19, PipelineAssumption
    <3> QED BY <1>10, <2>1, <3>1
  <2>3. CASE c # k
    <3>1. \A b \in Alerts : alert'[b] = c <=> alert[b] = c
      BY <1>15, <1>19, <2>3, PipelineAssumption
    <3>2. Attached(c)' = Attached(c)
      BY <3>1 DEF Attached
    <3>3. timeline'[c] = timeline[c] /\ (Exists(c)' <=> Exists(c)) /\ Known(c)' = Known(c)
      BY <1>15, <1>18, <2>3 DEF Exists
    <3> QED BY <2>1, <3>1, <3>2, <3>3
  <2>4. CASE c = k
    <3>1. PICK old : old = timeline[k]
      OBVIOUS
    <3>2. timeline'[c] = old \cup {<<word, a>>}
      BY <1>15, <2>4, <3>1
    <3>3. Exists(c)'
      BY <1>15, <2>4 DEF Exists
    <3>4. \E b \in Alerts : <<"INCIDENT_CREATED", b>> \in timeline'[c]
      <4>1. CASE Exists(k)
        BY <2>1, <2>4, <3>1, <3>2, <4>1
      <4>2. CASE ~Exists(k)
        BY <1>6, <1>8, <3>2, <4>2
      <4> QED BY <4>1, <4>2
    <3>5. word = "INCIDENT_CREATED" => \A x \in old : x[1] # "INCIDENT_CREATED"
      <4>1. word = "INCIDENT_CREATED" => ~Exists(k)
        BY <1>6, <1>8
      <4> QED BY <2>1, <2>2, <2>4, <3>1, <4>1
    <3>6. \A x, y \in timeline'[c] : x[1] = "INCIDENT_CREATED" /\ y[1] = "INCIDENT_CREATED" => x = y
      BY <2>1, <2>4, <3>1, <3>2, <3>5
    <3>7. \A x, y \in timeline'[c] : x[2] = y[2] => x = y
      BY <2>1, <2>2, <2>4, <3>1, <3>2
    <3>8. \A b \in Alerts : alert'[b] = c <=> \E x \in timeline'[c] : x[2] = b
      <4>1. ASSUME NEW b \in Alerts \ {a}
            PROVE  (\E x \in timeline'[c] : x[2] = b) <=> (\E x \in old : x[2] = b)
        BY <3>2
      <4>2. \E x \in timeline'[c] : x[2] = a
        <5>1. <<word, a>> \in timeline'[c] /\ <<word, a>>[2] = a
          BY <3>2
        <5> QED BY <5>1
      <4>3. \A b \in Alerts \ {a} : alert'[b] = c <=> \E x \in old : x[2] = b
        BY <1>15, <2>1, <2>4, <3>1
      <4> QED BY <1>15, <2>4, <4>1, <4>2, <4>3
    <3>9. \A b \in Attached(c)' : EventIocs[b[1]] \subseteq Known(c)'
      <4> SUFFICES ASSUME NEW b \in Alerts, alert'[b] = c PROVE EventIocs[b[1]] \subseteq Known(c)'
        BY DEF Attached
      <4>1. CASE b = a
        <5>1. EventIocs[b[1]] = EventIocs[s.event] /\ EventIocs[s.event] \subseteq Values
          BY <1>2, <1>4, <4>1, PipelineAssumption DEF Committing
        <5> QED BY <1>17, <1>19, <2>4, <5>1
      <4>2. CASE b # a
        <5>1. b \in Attached(c)
          BY <1>15, <4>2 DEF Attached
        <5> QED BY <1>17, <2>1, <2>4, <5>1
      <4> QED BY <4>1, <4>2
    <3> QED BY <3>3, <3>4, <3>6, <3>7, <3>8, <3>9
  <2> QED BY <2>3, <2>4
<1>22. Sound(t)'
  <2>1. \A r \in t.todo : alert'[<<t.event, r>>] = Unlinked
    <3>1. \A r \in s.todo \ {s.rule} : <<s.event, r>> \in Alerts \ {a} /\ alert[<<s.event, r>>] = Unlinked
      BY <1>2, <1>4 DEF Sound, Committing, Alerts
    <3> QED BY <1>14, <1>15, <3>1
  <2>2. \A c \in Keys : t.seen[c] # NoRow => Exists(c)'
    BY <1>2, <1>14, <1>15 DEF Sound, Exists, Committing, Seen
  <2>3. s.event \in stored'
    BY <1>2, <1>11 DEF Sound, OnEvent
  <2> QED BY <1>14, <2>1, <2>2, <2>3 DEF Sound, OnEvent
<1>23. OthersApart(w, t)
  BY <1>1, <1>2, <1>14, StayOnEvent DEF OnEvent
<1>24. EventsKept(w)
  <2> SUFFICES ASSUME NEW v \in Workers \ {w}, OnEvent(session[v]), NEW r \in Rules
               PROVE  alert'[<<session[v].event, r>>] = alert[<<session[v].event, r>>]
    BY DEF EventsKept
  <2>1. session[v].event # s.event
    BY <1>1, <1>2 DEF IngInv, Apart, OnEvent
  <2>2. session[v].event \in AllEvents
    BY Holding, KindOfStep DEF OnEvent, Detecting, Correlating, Joining, Committing
  <2> QED BY <1>4, <1>15, <2>1, <2>2 DEF Alerts
<1>25. InsertsKept(w)
  <2> SUFFICES ASSUME NEW v \in Workers \ {w}, session[v].step = "commit", NEW c \in Keys,
                      c = JoinKey(session[v]), Exists(c)'
               PROVE  Exists(c)
    BY DEF InsertsKept
  <2>1. CASE c = k
    <3>1. ~s.created
      BY <1>1, <1>2, <1>3, <2>1 DEF IngInv, Apart
    <3> QED BY <1>6, <2>1, <3>1
  <2>2. CASE c # k
    BY <1>15, <2>2 DEF Exists
  <2> QED BY <2>1, <2>2
<1>26. Grows
  BY <1>11, <1>15, <1>17, <1>18 DEF Grows, Exists
<1> QED BY <1>13, <1>14, <1>20, <1>21, <1>22, <1>23, <1>24, <1>25, <1>26, StepOf

LEMMA AnswerKeeps ==
    ASSUME IngInv, NEW w \in Workers,
           JoinRefused(w) \/ Finish(w) \/ Reply(w) \/ DemoFails(w) \/ DetectFails(w) \/ Fail(w) \/ Abort(w)
    PROVE  IngInv'
<1>1. replies \subseteq [event: AllEvents, duplicate: BOOLEAN, incidents: SUBSET Keys]
  BY DEF IngInv, TypeOK
<1>2. CASE JoinRefused(w) \/ DemoFails(w) \/ DetectFails(w) \/ Fail(w) \/ Abort(w)
  <2>1. Move(w, Idle) /\ UNCHANGED <<rows, owed, overtaken>> /\ replies' = replies
    BY <1>2 DEF JoinRefused, DemoFails, DetectFails, Fail, Abort
  <2> QED BY <1>1, <2>1, EndKeeps
<1>3. CASE Finish(w)
  <2>1. PICK s \in Correlating : s = session[w]
    BY <1>3, Holding, KindOfStep DEF Finish, At
  <2>2. PICK found \in SUBSET Keys : found = {k \in Keys : s.seen[k] # NoRow}
    OBVIOUS
  <2>3. PICK t : t = [step |-> "reply", event |-> s.event, found |-> found]
    OBVIOUS
  <2>4. Move(w, t) /\ UNCHANGED <<rows, owed, overtaken>> /\ replies' = replies
    BY <1>3, <2>1, <2>2, <2>3 DEF Finish
  <2>5. t \in Session /\ Sound(t) /\ ~OnEvent(t)
    BY <2>1, <2>3 DEF Correlating, Replying, Session, Sound, OnEvent
  <2> QED BY <1>1, <2>4, <2>5, LeaveEvent, SameTables
<1>4. CASE Reply(w)
  <2>1. PICK s \in Replying : s = session[w]
    BY <1>4, Holding, KindOfStep DEF Reply, At
  <2>2. PICK p \in [event: AllEvents, duplicate: BOOLEAN, incidents: SUBSET Keys] :
          p = [event |-> s.event, duplicate |-> FALSE, incidents |-> s.found]
    BY <2>1 DEF Replying
  <2>3. Move(w, Idle) /\ UNCHANGED <<rows, owed, overtaken>> /\ replies' = replies \cup {p}
    BY <1>4, <2>1, <2>2 DEF Reply
  <2>4. replies' \subseteq [event: AllEvents, duplicate: BOOLEAN, incidents: SUBSET Keys]
    BY <1>1, <2>3
  <2> QED BY <2>3, <2>4, EndKeeps
<1> QED BY <1>2, <1>3, <1>4

-----------------------------------------------------------------------------
(* Verdicts, the reset, and the theorems.                                   *)

\* A handler that writes verdicts or risks of an incident that exists.
LEMMA VerdictStep ==
    ASSUME IngInv, NEW w \in Workers, NEW t \in Session, Move(w, t),
           UNCHANGED <<stored, alert, timeline, replies>>,
           owed' \subseteq Keys, overtaken' \subseteq Keys \X Values,
           incident' \in [Keys -> Row \cup {NoRow}], ioc' \in [Keys -> [Values -> Verdicts]],
           \A k \in Keys : (Exists(k)' <=> Exists(k)) /\ Known(k)' = Known(k),
           ~OnEvent(t), t.step \in {"mark", "ask", "rescore", "save"} => t.key \in Keys /\ Exists(t.key),
           t.step \in {"mark", "ask"} => t.value \in Known(t.key)
    PROVE  IngInv'
<1>1. session \in [Workers -> Session]
  BY DEF IngInv, TypeOK
<1>2. TypeOK'
  BY <1>1 DEF IngInv, TypeOK, Move
<1>3. CreatedOnce'
  BY CreatedStays DEF IngInv
<1>4. Sound(t)'
  BY DEF Sound, OnEvent
<1>5. Grows /\ EventsKept(w) /\ InsertsKept(w) /\ OthersApart(w, t)
  BY LeaveEvent DEF Grows, EventsKept, InsertsKept
<1> QED BY <1>2, <1>3, <1>4, <1>5, StepOf

LEMMA DemoReadKeeps ==
    ASSUME IngInv, NEW w \in Workers, NEW k \in Keys, NEW v \in Values,
           NEW row \in {session[w].seen[k], incident[k]} \ {NoRow},
           At(w, "correlate"), DemoRead(w, k, v, row)
    PROVE  IngInv'
<1>1. session[w] \in Correlating /\ Sound(session[w])
  BY Holding, KindOfStep DEF At
<1>2. row \in Row
  BY <1>1 DEF Correlating, Seen, IngInv, TypeOK
<1>3. PICK t : t = [step |-> "mark", key |-> k, value |-> v, held |-> row,
                    alerts |-> Attached(k), bad |-> Bad(k)]
  OBVIOUS
<1>4. t \in Session /\ t.step = "mark" /\ t.key = k /\ t.value = v
  <2>1. t \in Marking
    BY <1>2, <1>3 DEF Marking, Attached, Bad
  <2> QED BY <1>3, <2>1 DEF Session
<1>5. Exists(k) /\ v \in Known(k)
  BY <1>1 DEF DemoRead, Sound, At
<1>6. Move(w, t) /\ UNCHANGED <<stored, alert, incident, ioc, timeline, replies, owed, overtaken>>
  BY <1>3 DEF DemoRead, rows
<1>7. /\ owed' \subseteq Keys /\ overtaken' \subseteq Keys \X Values
      /\ incident' \in [Keys -> Row \cup {NoRow}]
      /\ ioc' \in [Keys -> [Values -> Verdicts]]
  BY <1>6 DEF IngInv, TypeOK
<1>8. \A c \in Keys : (Exists(c)' <=> Exists(c)) /\ Known(c)' = Known(c)
  BY <1>6 DEF Exists, Known
<1>9. ~OnEvent(t)
  BY <1>4 DEF OnEvent
<1> QED BY <1>4, <1>5, <1>6, <1>7, <1>8, <1>9, VerdictStep

\* A verdict is written over another.
LEMMA MarkedIsKnown ==
    ASSUME ioc \in [Keys -> [Values -> Verdicts]], NEW k \in Keys, NEW v \in Known(k),
           ioc' = [ioc EXCEPT ![k][v] = "MALICIOUS"]
    PROVE  ioc' \in [Keys -> [Values -> Verdicts]] /\ \A c \in Keys : Known(c)' = Known(c)
<1>1. v \in Values /\ ioc[k][v] # "ABSENT"
  BY DEF Known
<1>2. ioc' \in [Keys -> [Values -> Verdicts]]
  BY <1>1 DEF Verdicts
<1>3. \A c \in Keys, u \in Values : ioc'[c][u] # "ABSENT" <=> ioc[c][u] # "ABSENT"
  BY <1>1
<1> QED BY <1>2, <1>3 DEF Known

LEMMA DemoMarkKeeps == ASSUME IngInv, NEW w \in Workers, DemoMark(w) PROVE IngInv'
<1>1. PICK s : s = session[w]
  OBVIOUS
<1>2. s \in Marking /\ Exists(s.key) /\ s.value \in Known(s.key)
  BY <1>1, Holding, KindOfStep DEF DemoMark, At, Sound
<1>3. PICK score \in Nat : score = Score(s.alerts, s.bad \cup {s.value})
  <2>1. s.alerts \in SUBSET Alerts /\ s.bad \cup {s.value} \in SUBSET Values
    BY <1>2 DEF Marking
  <2> QED BY <2>1, ScoreType
<1>4. PICK t : t = [step |-> "save", key |-> s.key, held |-> s.held, score |-> score]
  OBVIOUS
<1>5. t \in Session /\ t.step = "save" /\ t.key = s.key /\ s.key \in Keys
  <2>1. t \in Saving
    BY <1>2, <1>4 DEF Marking, Saving
  <2> QED BY <1>2, <1>4, <2>1 DEF Session, Marking
<1>6. /\ Move(w, t) /\ UNCHANGED <<stored, alert, timeline, replies>> /\ incident' = incident
      /\ ioc' = [ioc EXCEPT ![s.key][s.value] = "MALICIOUS"] /\ owed' = owed \cup {s.key}
      /\ overtaken' = overtaken \cup Overtakes(w, s.key, s.value)
  BY <1>1, <1>3, <1>4 DEF DemoMark
<1>7. ioc' \in [Keys -> [Values -> Verdicts]] /\ \A c \in Keys : Known(c)' = Known(c)
  <2>1. ioc \in [Keys -> [Values -> Verdicts]]
    BY DEF IngInv, TypeOK
  <2> QED BY <1>2, <1>5, <1>6, <2>1, MarkedIsKnown
<1>8. /\ owed' \subseteq Keys /\ overtaken' \subseteq Keys \X Values
      /\ incident' \in [Keys -> Row \cup {NoRow}]
  <2>1. s.value \in Values
    BY <1>2 DEF Marking
  <2> QED BY <1>5, <1>6, <2>1 DEF IngInv, TypeOK, Overtakes
<1>9. \A c \in Keys : (Exists(c)' <=> Exists(c)) /\ Known(c)' = Known(c)
  BY <1>6, <1>7 DEF Exists
<1>10. ~OnEvent(t)
  BY <1>5 DEF OnEvent
<1> QED BY <1>2, <1>5, <1>6, <1>7, <1>8, <1>9, <1>10, VerdictStep

LEMMA EnrichLoadKeeps ==
    ASSUME IngInv, NEW w \in Workers, NEW k \in Keys, NEW v \in Values, EnrichLoad(w, k, v)
    PROVE  IngInv'
<1>1. PICK t : t = [step |-> "ask", key |-> k, value |-> v, accused |-> v \in Bad(k)]
  OBVIOUS
<1>2. t \in Session /\ t.step = "ask" /\ t.key = k /\ t.value = v /\ ~OnEvent(t)
  BY <1>1 DEF Session, Asking, OnEvent
<1>3. /\ Move(w, t) /\ UNCHANGED <<rows, owed, overtaken>> /\ replies' = replies
      /\ Exists(k) /\ v \in Known(k)
  BY <1>1 DEF EnrichLoad
<1>4. Sound(t)
  BY <1>2, <1>3 DEF Sound, OnEvent
<1>5. replies' \subseteq [event: AllEvents, duplicate: BOOLEAN, incidents: SUBSET Keys]
  BY <1>3 DEF IngInv, TypeOK
<1> QED BY <1>2, <1>3, <1>4, <1>5, LeaveEvent, SameTables

LEMMA EnrichKeeps ==
    ASSUME IngInv, NEW w \in Workers, NEW b \in BOOLEAN, Enrich(w, b)
    PROVE  IngInv'
<1>1. PICK s : s = session[w]
  OBVIOUS
<1>2. s \in Asking /\ s.step = "ask" /\ Exists(s.key) /\ s.value \in Known(s.key)
  BY <1>1, Holding, KindOfStep DEF Enrich, At, Sound
<1>3. PICK k \in Keys, v \in Values : k = s.key /\ v = s.value /\ v \in Known(k)
  BY <1>2 DEF Asking
<1>4. PICK t : t = [step |-> "rescore", key |-> k, value |-> v, accused |-> s.accused \/ b]
  OBVIOUS
<1>5. t \in Session /\ t.step = "rescore" /\ t.key = k /\ ~OnEvent(t)
  BY <1>4 DEF Session, Rescoring, OnEvent
<1>6. /\ Move(w, t) /\ UNCHANGED <<stored, alert, timeline, replies>> /\ incident' = incident
      /\ ioc' = IF b /\ ~s.accused THEN [ioc EXCEPT ![k][v] = "MALICIOUS"] ELSE ioc
      /\ owed' = IF b THEN owed \cup {k} ELSE owed
      /\ overtaken' = IF b /\ ~s.accused THEN overtaken \cup Overtakes(w, k, v) ELSE overtaken
  BY <1>1, <1>3, <1>4 DEF Enrich
<1>7. ioc' \in [Keys -> [Values -> Verdicts]] /\ \A c \in Keys : Known(c)' = Known(c)
  <2>1. ioc \in [Keys -> [Values -> Verdicts]]
    BY DEF IngInv, TypeOK
  <2>2. CASE b /\ ~s.accused
    BY <1>3, <1>6, <2>1, <2>2, MarkedIsKnown
  <2>3. CASE ~(b /\ ~s.accused)
    BY <1>6, <2>1, <2>3 DEF Known
  <2> QED BY <2>2, <2>3
<1>8. /\ owed' \subseteq Keys /\ overtaken' \subseteq Keys \X Values
      /\ incident' \in [Keys -> Row \cup {NoRow}]
  BY <1>6 DEF IngInv, TypeOK, Overtakes
<1>9. \A c \in Keys : (Exists(c)' <=> Exists(c)) /\ Known(c)' = Known(c)
  BY <1>6, <1>7 DEF Exists
<1> QED BY <1>2, <1>3, <1>5, <1>6, <1>7, <1>8, <1>9, VerdictStep

LEMMA RescoreKeeps == ASSUME IngInv, NEW w \in Workers, Rescore(w) PROVE IngInv'
<1>1. PICK s : s = session[w]
  OBVIOUS
<1>2. s \in Rescoring /\ Exists(s.key)
  BY <1>1, Holding, KindOfStep DEF Rescore, At, Sound
<1>3. PICK k \in Keys : k = s.key
  BY <1>2 DEF Rescoring
<1>4. PICK score \in Nat : score = Score(Attached(k), Accused(s))
  <2>1. Attached(k) \in SUBSET Alerts /\ Accused(s) \in SUBSET Values
    BY <1>2, <1>3 DEF Attached, Bad, Accused, Rescoring
  <2> QED BY <2>1, ScoreType
<1>5. PICK t : t = [step |-> "save", key |-> k, held |-> incident[k], score |-> score]
  OBVIOUS
<1>6. t \in Session /\ t.step = "save" /\ t.key = k
  <2>1. incident[k] \in Row
    BY <1>2, <1>3 DEF Exists, IngInv, TypeOK
  <2>2. t \in Saving
    BY <1>5, <2>1 DEF Saving
  <2> QED BY <1>5, <2>2 DEF Session
<1>7. Move(w, t) /\ UNCHANGED <<stored, alert, incident, ioc, timeline, replies, owed, overtaken>>
  BY <1>1, <1>3, <1>4, <1>5 DEF Rescore, rows
<1>8. /\ owed' \subseteq Keys /\ overtaken' \subseteq Keys \X Values
      /\ incident' \in [Keys -> Row \cup {NoRow}]
      /\ ioc' \in [Keys -> [Values -> Verdicts]]
  BY <1>7 DEF IngInv, TypeOK
<1>9. \A c \in Keys : (Exists(c)' <=> Exists(c)) /\ Known(c)' = Known(c)
  BY <1>7 DEF Exists, Known
<1>10. ~OnEvent(t)
  BY <1>6 DEF OnEvent
<1> QED BY <1>2, <1>3, <1>6, <1>7, <1>8, <1>9, <1>10, VerdictStep

LEMMA SaveKeeps == ASSUME IngInv, NEW w \in Workers, Save(w) PROVE IngInv'
<1>1. PICK s : s = session[w]
  OBVIOUS
<1>2. s \in Saving /\ Exists(s.key)
  BY <1>1, Holding, KindOfStep DEF Save, At, Sound
<1>3. PICK k \in Keys : k = s.key
  BY <1>2 DEF Saving
<1>4. PICK row \in Row : row = Assess(incident[k], s.held, s.score)
  <2>1. incident[k] \in Row /\ s.held \in Row /\ s.score \in Nat
    BY <1>2, <1>3 DEF Saving, Exists, IngInv, TypeOK
  <2> QED BY <2>1, AssessType
<1>5. incident \in [Keys -> Row \cup {NoRow}]
  BY DEF IngInv, TypeOK
<1>6. /\ Move(w, Idle) /\ UNCHANGED <<stored, alert, ioc, timeline, replies, overtaken>>
      /\ incident' = [incident EXCEPT ![k] = row] /\ owed' = owed \ {k}
  BY <1>1, <1>3, <1>4, <1>5 DEF Save
<1>7. /\ owed' \subseteq Keys /\ overtaken' \subseteq Keys \X Values
      /\ incident' \in [Keys -> Row \cup {NoRow}]
      /\ ioc' \in [Keys -> [Values -> Verdicts]]
  BY <1>5, <1>6 DEF IngInv, TypeOK
<1>8. \A c \in Keys : (Exists(c)' <=> Exists(c)) /\ Known(c)' = Known(c)
  <2>1. row # NoRow
    BY PipelineAssumption
  <2> QED BY <1>2, <1>3, <1>5, <1>6, <2>1 DEF Exists, Known
<1>9. Idle \in Session /\ ~OnEvent(Idle) /\ Idle.step = "idle"
  BY DEF Idle, Session, OnEvent
<1> QED BY <1>6, <1>7, <1>8, <1>9, VerdictStep

LEMMA ResetKeeps == ASSUME IngInv, Reset PROVE IngInv'
<1>1. /\ stored' = {} /\ alert' = [a \in Alerts |-> NoAlert] /\ incident' = [k \in Keys |-> NoRow]
      /\ ioc' = [k \in Keys |-> [v \in Values |-> "ABSENT"]] /\ timeline' = [k \in Keys |-> {}]
      /\ owed' = {} /\ overtaken' = {} /\ replies' = replies
      /\ session' = [w \in Workers |-> AfterReset(w, session[w])]
  BY DEF Reset
<1>2. \A w \in Workers : /\ session'[w] \in Session
                         /\ session'[w].step \in {"idle", "reply", "doomed"}
  <2>1. \A w \in Workers : session[w] \in Session
    BY DEF IngInv, TypeOK
  <2>2. ASSUME NEW w \in Workers, session[w].step = "detect"
        PROVE  [step |-> "reply", event |-> session[w].event, found |-> {}] \in Session
    <3>1. session[w].event \in AllEvents
      BY <2>1, <2>2, KindOfStep DEF Detecting
    <3> QED BY <3>1 DEF Session, Replying
  <2> QED BY <1>1, <2>1, <2>2 DEF Session, Doomed, AfterReset
<1>3. TypeOK'
  BY <1>1, <1>2 DEF IngInv, TypeOK, Verdicts
<1>4. CreatedOnce'
  <2>1. \A k \in Keys : Known(k)' = {} /\ Attached(k)' = {} /\ ~Exists(k)' /\ timeline'[k] = {}
    BY <1>1, PipelineAssumption DEF Known, Attached, Exists
  <2>2. \A k \in Keys, a \in Alerts : alert'[a] # k
    BY <1>1, PipelineAssumption
  <2> QED BY <2>1, <2>2 DEF CreatedOnce
<1>5. \A w \in Workers : Sound(session[w])'
  BY <1>2 DEF Sound, OnEvent
<1>6. \A v, w \in Workers : v # w => Apart(session[v], session[w])'
  BY <1>2 DEF Apart, OnEvent
<1> QED BY <1>3, <1>4, <1>5, <1>6 DEF IngInv

LEMMA IngInit == Init => IngInv
<1> SUFFICES ASSUME Init PROVE IngInv
  OBVIOUS
<1>1. TypeOK
  BY DEF Init, TypeOK, Session, Verdicts
<1>2. CreatedOnce
  <2>1. \A k \in Keys : Known(k) = {} /\ Attached(k) = {} /\ ~Exists(k) /\ timeline[k] = {}
    BY PipelineAssumption DEF Init, Known, Attached, Exists
  <2>2. \A k \in Keys, a \in Alerts : alert[a] # k
    BY PipelineAssumption DEF Init
  <2> QED BY <2>1, <2>2 DEF CreatedOnce
<1>3. \A w \in Workers : Sound(session[w])
  BY DEF Init, Idle, Sound, OnEvent
<1>4. \A v, w \in Workers : v # w => Apart(session[v], session[w])
  BY DEF Init, Idle, Apart, OnEvent
<1> QED BY <1>1, <1>2, <1>3, <1>4 DEF IngInv

LEMMA IngNext == IngInv /\ [Next]_vars => IngInv'
<1> SUFFICES ASSUME IngInv, [Next]_vars PROVE IngInv'
  OBVIOUS
<1>1. CASE UNCHANGED vars
  <2>1. /\ stored' = stored /\ alert' = alert /\ incident' = incident /\ ioc' = ioc
        /\ timeline' = timeline /\ replies' = replies /\ owed' = owed /\ overtaken' = overtaken
        /\ session' = session
    BY <1>1 DEF vars
  <2>2. TypeOK'
    BY <2>1 DEF IngInv, TypeOK
  <2>3. CreatedOnce'
    BY <2>1, CreatedSame DEF IngInv
  <2>4. \A w \in Workers : Sound(session[w])'
    BY <2>1 DEF IngInv, Sound, Exists, Known, JoinKey, OnEvent
  <2>5. \A v, w \in Workers : v # w => Apart(session[v], session[w])'
    BY <2>1 DEF IngInv, Apart, OnEvent, JoinKey
  <2> QED BY <2>2, <2>3, <2>4, <2>5 DEF IngInv
<1>2. ASSUME NEW w \in Workers, Call(w) PROVE IngInv'
  BY <1>2, StoreKeeps, DuplicateKeeps, EnrichLoadKeeps DEF Call, AllEvents
<1>3. ASSUME NEW w \in Workers, Continue(w) PROVE IngInv'
  <2>1. CASE \E k \in Keys, v \in Values :
               At(w, "correlate") /\ \E row \in {session[w].seen[k], incident[k]} \ {NoRow} :
                                        DemoRead(w, k, v, row)
    BY <2>1, DemoReadKeeps
  <2> QED BY <1>3, <2>1, DetectKeeps, LookupKeeps, JoinConflictKeeps, JoinFlushKeeps,
          JoinCommitKeeps, AnswerKeeps, DemoMarkKeeps, EnrichKeeps, RescoreKeeps, SaveKeeps DEF Continue
<1>4. ASSUME NEW w \in Workers, Abort(w) PROVE IngInv'
  BY <1>4, AnswerKeeps
<1> QED BY <1>1, <1>2, <1>3, <1>4, ResetKeeps DEF Next, Run

LEMMA IngInvariant == Spec => []IngInv
BY IngInit, IngNext, PTL DEF Spec

\* Rows, answers and what handlers hold keep their types (models.py, correlation.py).
THEOREM IngestionTypes == Spec => []TypeOK
<1>1. IngInv => TypeOK
  BY DEF IngInv
<1> QED BY <1>1, IngInvariant, PTL

\* However deliveries, demo runs, verdicts, failures and resets race, the incident of a key is
\* created once and is made of exactly its alerts and their indicators
\* (correlation.py:54-113, models.py:122,142,180).
THEOREM IngestionCreatedOnce == Spec => []CreatedOnce
<1>1. IngInv => CreatedOnce
  BY DEF IngInv
<1> QED BY <1>1, IngInvariant, PTL

-----------------------------------------------------------------------------
(* The case book.  Nothing is written about an indicator by a join that does *)
(* not insert it, so no verdict is lost; and the inserts of two handlers     *)
(* never meet.                                                               *)

Fresh(s) ==
    /\ s.step \in {"join", "commit"} => s.fresh \subseteq EventIocs[s.event]
    /\ s.step = "commit" => s.fresh \cap Known(JoinKey(s)) = {}

Disjoint(s, t) ==
    s.step = "commit" /\ t.step = "commit" /\ JoinKey(s) = JoinKey(t) => s.fresh \cap t.fresh = {}

BookInv ==
    /\ \A w \in Workers : Fresh(session[w])
    /\ \A v, w \in Workers : v # w => Disjoint(session[v], session[w])

\* What a step of w that leaves it with t may add to the indicators of an incident.
AddsOwn(w) ==
    \A k \in Keys : \A v \in Known(k)' \ Known(k) :
        LET s == session[w] IN s.step = "commit" /\ k = JoinKey(s) /\ v \in s.fresh

OthersDisjoint(w, t) == \A v \in Workers \ {w} : Disjoint(session[v], t)

LEMMA BookStep ==
    ASSUME IngInv, BookInv, NEW w \in Workers, NEW t, Move(w, t),
           AddsOwn(w), Fresh(t)', OthersDisjoint(w, t)
    PROVE  BookInv'
<1>1. session \in [Workers -> Session]
  BY DEF IngInv, TypeOK
<1>2. session'[w] = t /\ \A v \in Workers \ {w} : session'[v] = session[v]
  BY <1>1 DEF Move
<1>3. ASSUME NEW v \in Workers \ {w} PROVE Fresh(session[v])'
  <2>1. PICK s : s = session[v] /\ session'[v] = s
    BY <1>2
  <2>2. Fresh(s) /\ Disjoint(s, session[w])
    BY <2>1 DEF BookInv
  <2>3. s.step = "commit" => JoinKey(s) \in Keys
    <3>1. s \in Session
      BY <1>1, <2>1
    <3> QED BY <3>1, KindOfStep, PipelineAssumption DEF Committing, JoinKey, Alerts
  <2>4. ASSUME s.step = "commit" PROVE s.fresh \cap Known(JoinKey(s))' = {}
    <3>1. PICK k \in Keys : k = JoinKey(s)
      BY <2>3, <2>4
    <3>2. s.fresh \cap Known(k) = {}
      BY <2>2, <2>4, <3>1 DEF Fresh
    <3>3. ASSUME NEW x \in Known(k)' \ Known(k) PROVE x \notin s.fresh
      <4>1. session[w].step = "commit" /\ JoinKey(session[w]) = k /\ x \in session[w].fresh
        BY <3>3 DEF AddsOwn
      <4> QED BY <2>2, <2>4, <3>1, <4>1 DEF Disjoint
    <3>4. s.fresh \cap Known(k)' = {}
      BY <3>2, <3>3
    <3>5. JoinKey(s)' = k
      BY <3>1 DEF JoinKey
    <3> QED BY <3>1, <3>4
  <2>5. Fresh(s)'
    BY <2>2, <2>4 DEF Fresh, JoinKey
  <2> QED BY <2>1, <2>5
<1>4. \A v \in Workers : Fresh(session[v])'
  BY <1>2, <1>3
<1>5. ASSUME NEW v \in Workers, NEW u \in Workers, u # v PROVE Disjoint(session[v], session[u])'
  <2>1. CASE v # w /\ u # w
    BY <1>2, <1>5, <2>1 DEF BookInv, Disjoint, JoinKey
  <2>2. CASE v = w
    BY <1>2, <1>5, <2>2 DEF OthersDisjoint, Disjoint, JoinKey
  <2>3. CASE u = w
    BY <1>2, <1>5, <2>3 DEF OthersDisjoint, Disjoint, JoinKey
  <2> QED BY <2>1, <2>2, <2>3
<1> QED BY <1>4, <1>5 DEF BookInv

\* A handler that inserts nothing and is not about to.
LEMMA BookQuiet ==
    ASSUME IngInv, BookInv, NEW w \in Workers, NEW t, Move(w, t), t.step \notin {"join", "commit"},
           \A k \in Keys : Known(k)' = Known(k)
    PROVE  BookInv'
<1>1. AddsOwn(w) /\ Fresh(t)' /\ OthersDisjoint(w, t)
  BY DEF AddsOwn, Fresh, OthersDisjoint, Disjoint
<1> QED BY <1>1, BookStep

LEMMA LookupBook ==
    ASSUME IngInv, BookInv, NEW w \in Workers, NEW r \in Rules, Lookup(w, r)
    PROVE  BookInv'
<1>1. PICK s : s = session[w]
  OBVIOUS
<1>2. PICK k : k = Key[<<s.event, r>>]
  OBVIOUS
<1>3. PICK row : row = IF s.seen[k] # NoRow THEN s.seen[k] ELSE incident[k]
  OBVIOUS
<1>4. PICK t : t = [step |-> "join", event |-> s.event, todo |-> s.todo, seen |-> s.seen,
                    rule |-> r, held |-> row, fresh |-> EventIocs[s.event] \ Known(k), bad |-> Bad(k)]
  OBVIOUS
<1>5. Move(w, t) /\ ioc' = ioc
  BY <1>1, <1>2, <1>3, <1>4 DEF Lookup, rows
<1>6. t.step = "join" /\ t.event = s.event /\ t.fresh \subseteq EventIocs[s.event]
  BY <1>4
<1>7. AddsOwn(w) /\ Fresh(t)' /\ OthersDisjoint(w, t)
  BY <1>5, <1>6 DEF AddsOwn, Fresh, OthersDisjoint, Disjoint, Known
<1> QED BY <1>5, <1>7, BookStep

LEMMA JoinConflictBook ==
    ASSUME IngInv, BookInv, NEW w \in Workers, JoinConflict(w)
    PROVE  BookInv'
<1>1. PICK s \in Joining : s = session[w] /\ s.step = "join"
  BY JoinHolding DEF JoinConflict, At
<1>2. PICK k : k = JoinKey(s)
  OBVIOUS
<1>3. PICK t : t = [s EXCEPT !.held = incident[k], !.fresh = EventIocs[s.event] \ Known(k),
                             !.bad = Bad(k)]
  OBVIOUS
<1>4. Move(w, t) /\ ioc' = ioc
  BY <1>1, <1>2, <1>3 DEF JoinConflict, rows
<1>5. t.step = "join" /\ t.event = s.event /\ t.fresh \subseteq EventIocs[s.event]
  BY <1>1, <1>3 DEF Joining
<1>6. AddsOwn(w) /\ Fresh(t)' /\ OthersDisjoint(w, t)
  BY <1>4, <1>5 DEF AddsOwn, Fresh, OthersDisjoint, Disjoint, Known
<1> QED BY <1>4, <1>6, BookStep

\* The unique index lets a handler insert only what the incident does not have and nobody
\* else is inserting.
LEMMA JoinFlushBook ==
    ASSUME IngInv, BookInv, NEW w \in Workers, JoinFlush(w)
    PROVE  BookInv'
<1>1. PICK s \in Joining : s = session[w] /\ s.step = "join"
  BY JoinHolding DEF JoinFlush, At
<1>2. PICK k : k = JoinKey(s)
  OBVIOUS
<1>3. PICK held, score, new :
        /\ held = IF Exists(k) THEN s.held
                  ELSE [severity |-> Severity[s.rule], score |-> 0, level |-> 1]
        /\ score = Score(Attached(k) \cup {<<s.event, s.rule>>}, s.bad)
        /\ new = ~Exists(k)
  OBVIOUS
<1>4. PICK t : t = [step |-> "commit", event |-> s.event, todo |-> s.todo, seen |-> s.seen,
                    rule |-> s.rule, created |-> new, held |-> held, fresh |-> s.fresh,
                    score |-> score]
  OBVIOUS
<1>5. /\ Move(w, t) /\ ioc' = ioc
      /\ s.fresh \cap Known(k) = {} /\ ~InsertBlocked(w, k, s.fresh)
  BY <1>1, <1>2, <1>3, <1>4 DEF JoinFlush, rows
<1>6. /\ t.step = "commit" /\ t.event = s.event /\ t.rule = s.rule /\ t.fresh = s.fresh
      /\ JoinKey(t) = k
  BY <1>2, <1>4 DEF JoinKey
<1>7. Fresh(s)
  BY <1>1 DEF BookInv
<1>8. Known(k)' = Known(k) /\ AddsOwn(w)
  BY <1>5 DEF AddsOwn, Known
<1>9. Fresh(t)'
  BY <1>1, <1>5, <1>6, <1>7, <1>8 DEF Fresh, JoinKey
<1>10. OthersDisjoint(w, t)
  BY <1>5, <1>6 DEF OthersDisjoint, Disjoint, InsertBlocked, At
<1> QED BY <1>5, <1>8, <1>9, <1>10, BookStep

\* What the commit of a join does to the incidents and their indicators.
LEMMA JoinCommitTables ==
    ASSUME IngInv, NEW w \in Workers, JoinCommit(w),
           NEW s, s = session[w], NEW k, k = JoinKey(s), NEW a, a = <<s.event, s.rule>>
    PROVE  /\ s \in Committing /\ s.step = "commit" /\ k \in Keys /\ a \in Alerts /\ k = Key[a]
           /\ alert[a] = Unlinked /\ EventIocs[s.event] \subseteq s.fresh \cup Known(k)
           /\ Known(k)' = Known(k) \cup s.fresh /\ Bad(k)' = Bad(k) \ s.fresh
           /\ Attached(k)' = Attached(k) \cup {a}
           /\ \A c \in Keys \ {k} : Known(c)' = Known(c) /\ Bad(c)' = Bad(c) /\ Attached(c)' = Attached(c)
<1>1. s \in Committing /\ Sound(s) /\ s.step = "commit"
  BY Holding, KindOfStep DEF JoinCommit, At
<1>2. k \in Keys /\ a \in Alerts /\ k = Key[a] /\ s.fresh \subseteq Values
  BY <1>1, PipelineAssumption DEF Committing, JoinKey, Alerts
<1>3. alert[a] = Unlinked /\ EventIocs[s.event] \subseteq s.fresh \cup Known(k)
  BY <1>1, <1>2 DEF Sound
<1>4. /\ alert \in [Alerts -> Keys \cup {NoAlert, Unlinked}]
      /\ ioc \in [Keys -> [Values -> Verdicts]]
  BY DEF IngInv, TypeOK
<1>5. /\ alert' = [alert EXCEPT ![a] = k]
      /\ ioc' = [ioc EXCEPT ![k] = [v \in Values |-> IF v \in s.fresh THEN "UNKNOWN" ELSE @[v]]]
  BY DEF JoinCommit
<1>6. /\ alert'[a] = k /\ \A b \in Alerts \ {a} : alert'[b] = alert[b]
      /\ \A c \in Keys \ {k} : ioc'[c] = ioc[c]
      /\ \A v \in Values : ioc'[k][v] = IF v \in s.fresh THEN "UNKNOWN" ELSE ioc[k][v]
  BY <1>2, <1>4, <1>5
<1>7. Known(k)' = Known(k) \cup s.fresh
  BY <1>2, <1>6 DEF Known
<1>8. Bad(k)' = Bad(k) \ s.fresh
  BY <1>2, <1>6 DEF Bad
<1>9. Attached(k)' = Attached(k) \cup {a}
  BY <1>2, <1>6 DEF Attached
<1>10. ASSUME NEW c \in Keys \ {k}
       PROVE  Known(c)' = Known(c) /\ Bad(c)' = Bad(c) /\ Attached(c)' = Attached(c)
  <2>1. alert'[a] # c /\ alert[a] # c
    BY <1>3, <1>6, PipelineAssumption
  <2>2. Attached(c)' = Attached(c)
    BY <1>6, <2>1 DEF Attached
  <2> QED BY <1>6, <2>2 DEF Known, Bad
<1> QED BY <1>1, <1>2, <1>3, <1>7, <1>8, <1>9, <1>10

LEMMA JoinCommitBook ==
    ASSUME IngInv, BookInv, NEW w \in Workers, JoinCommit(w)
    PROVE  BookInv'
<1>1. PICK s, k, a : s = session[w] /\ k = JoinKey(s) /\ a = <<s.event, s.rule>>
  OBVIOUS
<1>2. /\ s.step = "commit" /\ Known(k)' = Known(k) \cup s.fresh
      /\ \A c \in Keys \ {k} : Known(c)' = Known(c)
  BY <1>1, JoinCommitTables
<1>3. PICK t : t = [step |-> "correlate", event |-> s.event, todo |-> s.todo \ {s.rule},
                    seen |-> [s.seen EXCEPT ![k] = incident'[k]]]
  OBVIOUS
<1>4. Move(w, t) /\ t.step = "correlate"
  BY <1>1, <1>3 DEF JoinCommit
<1>5. AddsOwn(w)
  BY <1>1, <1>2 DEF AddsOwn
<1>6. Fresh(t)' /\ OthersDisjoint(w, t)
  BY <1>4 DEF Fresh, OthersDisjoint, Disjoint
<1> QED BY <1>4, <1>5, <1>6, BookStep

\* The steps that write no indicator.
LEMMA QuietBook ==
    ASSUME IngInv, BookInv, NEW w \in Workers, NEW t, Move(w, t), t.step \notin {"join", "commit"},
           ioc' = ioc
    PROVE  BookInv'
BY BookQuiet DEF Known

\* An enrichment that is back changes the verdict of its indicator, or none.
LEMMA EnrichTables ==
    ASSUME IngInv, NEW w \in Workers, NEW b \in BOOLEAN, Enrich(w, b)
    PROVE  \E k \in Keys : \E v \in Known(k) : \E t :
             /\ Move(w, t) /\ t.step = "rescore" /\ alert' = alert
             /\ ioc' = [ioc EXCEPT ![k][v] = "MALICIOUS"] \/ ioc' = ioc
<1>1. PICK s \in Asking : s = session[w] /\ s.value \in Known(s.key)
  BY Holding, KindOfStep DEF Enrich, At, Sound
<1>2. PICK k \in Keys : k = s.key
  BY <1>1 DEF Asking
<1>5. PICK v \in Known(k) : v = s.value
  BY <1>1, <1>2
<1>3. PICK t : t = [step |-> "rescore", key |-> k, value |-> v, accused |-> s.accused \/ b]
  OBVIOUS
<1>4. /\ Move(w, t) /\ t.step = "rescore" /\ alert' = alert
      /\ ioc' = [ioc EXCEPT ![k][v] = "MALICIOUS"] \/ ioc' = ioc
  BY <1>1, <1>2, <1>3, <1>5 DEF Enrich
<1> QED BY <1>4

LEMMA BookNext == IngInv /\ BookInv /\ [Next]_vars => BookInv'
<1> SUFFICES ASSUME IngInv, BookInv, [Next]_vars PROVE BookInv'
  OBVIOUS
<1>1. CASE UNCHANGED vars
  BY <1>1 DEF vars, BookInv, Fresh, Disjoint, JoinKey, Known
<1>2. ASSUME NEW w \in Workers, Move(w, Idle), ioc' = ioc PROVE BookInv'
  BY <1>2, QuietBook DEF Idle
<1>3. ASSUME NEW w \in Workers, NEW e \in AllEvents, Store(w, e) PROVE BookInv'
  <2>1. PICK t : t = [step |-> "detect", event |-> e]
    OBVIOUS
  <2>2. Move(w, t) /\ t.step = "detect" /\ ioc' = ioc
    BY <1>3, <2>1 DEF Store
  <2> QED BY <2>2, QuietBook
<1>4. ASSUME NEW w \in Workers, NEW e \in AllEvents, Duplicate(w, e) PROVE BookInv'
  <2>1. session' = session /\ ioc' = ioc
    BY <1>4 DEF Duplicate, rows
  <2> QED BY <2>1 DEF BookInv, Fresh, Disjoint, JoinKey, Known
<1>5. ASSUME NEW w \in Workers, Detect(w) PROVE BookInv'
  <2>1. PICK s, new : s = session[w]
                      /\ new = {r \in Matches[s.event] : alert[<<s.event, r>>] = NoAlert}
    OBVIOUS
  <2>2. PICK t : t = [step |-> "correlate", event |-> s.event, todo |-> new,
                      seen |-> [k \in Keys |-> NoRow]]
    OBVIOUS
  <2>3. Move(w, t) /\ t.step = "correlate" /\ ioc' = ioc
    BY <1>5, <2>1, <2>2 DEF Detect
  <2> QED BY <2>3, QuietBook
<1>6. ASSUME NEW w \in Workers, Finish(w) PROVE BookInv'
  <2>1. PICK s, found : s = session[w] /\ found = {k \in Keys : s.seen[k] # NoRow}
    OBVIOUS
  <2>2. PICK t : t = [step |-> "reply", event |-> s.event, found |-> found]
    OBVIOUS
  <2>3. Move(w, t) /\ t.step = "reply" /\ ioc' = ioc
    BY <1>6, <2>1, <2>2 DEF Finish, rows
  <2> QED BY <2>3, QuietBook
<1>7. ASSUME NEW w \in Workers, NEW k \in Keys, NEW v \in Values, NEW row, DemoRead(w, k, v, row)
      PROVE  BookInv'
  <2>1. PICK t : t = [step |-> "mark", key |-> k, value |-> v, held |-> row,
                      alerts |-> Attached(k), bad |-> Bad(k)]
    OBVIOUS
  <2>2. Move(w, t) /\ t.step = "mark" /\ ioc' = ioc
    BY <1>7, <2>1 DEF DemoRead, rows
  <2> QED BY <2>2, QuietBook
<1>8. ASSUME NEW w \in Workers, DemoMark(w) PROVE BookInv'
  <2>1. PICK s : s = session[w]
    OBVIOUS
  <2>2. s \in Marking /\ s.value \in Known(s.key)
    BY <1>8, <2>1, Holding, KindOfStep DEF DemoMark, At, Sound
  <2>3. PICK k \in Keys : k = s.key
    BY <2>2 DEF Marking
  <2>4. PICK t : t = [step |-> "save", key |-> s.key, held |-> s.held,
                      score |-> Score(s.alerts, s.bad \cup {s.value})]
    OBVIOUS
  <2>5. Move(w, t) /\ t.step = "save" /\ ioc' = [ioc EXCEPT ![k][s.value] = "MALICIOUS"]
    BY <1>8, <2>1, <2>3, <2>4 DEF DemoMark
  <2>6. \A c \in Keys : Known(c)' = Known(c)
    BY <2>2, <2>3, <2>5, MarkedIsKnown DEF IngInv, TypeOK
  <2> QED BY <2>5, <2>6, BookQuiet
<1>9. ASSUME NEW w \in Workers, NEW b \in BOOLEAN, Enrich(w, b) PROVE BookInv'
  <2>0. PICK k \in Keys : \E v \in Known(k) : \E t :
          /\ Move(w, t) /\ t.step = "rescore"
          /\ ioc' = [ioc EXCEPT ![k][v] = "MALICIOUS"] \/ ioc' = ioc
    BY <1>9, EnrichTables
  <2>5. PICK v \in Known(k) : \E t :
          /\ Move(w, t) /\ t.step = "rescore"
          /\ ioc' = [ioc EXCEPT ![k][v] = "MALICIOUS"] \/ ioc' = ioc
    BY <2>0
  <2>1. PICK t : /\ Move(w, t) /\ t.step = "rescore"
                 /\ ioc' = [ioc EXCEPT ![k][v] = "MALICIOUS"] \/ ioc' = ioc
    BY <2>5
  <2>2. CASE ioc' = [ioc EXCEPT ![k][v] = "MALICIOUS"]
    <3>1. \A c \in Keys : Known(c)' = Known(c)
      BY <2>1, <2>2, MarkedIsKnown DEF IngInv, TypeOK
    <3> QED BY <2>1, <3>1, BookQuiet
  <2>3. CASE ioc' = ioc
    BY <2>1, <2>3, QuietBook
  <2> QED BY <2>1, <2>2, <2>3
<1>15. ASSUME NEW w \in Workers, NEW k \in Keys, NEW v \in Values, EnrichLoad(w, k, v) PROVE BookInv'
  <2>1. PICK t : t = [step |-> "ask", key |-> k, value |-> v, accused |-> v \in Bad(k)]
    OBVIOUS
  <2>2. Move(w, t) /\ t.step = "ask" /\ ioc' = ioc
    BY <1>15, <2>1 DEF EnrichLoad, rows
  <2> QED BY <2>2, QuietBook
<1>10. ASSUME NEW w \in Workers, Rescore(w) PROVE BookInv'
  <2>1. PICK s : s = session[w]
    OBVIOUS
  <2>2. PICK t : t = [step |-> "save", key |-> s.key, held |-> incident[s.key],
                      score |-> Score(Attached(s.key), Accused(s))]
    OBVIOUS
  <2>3. Move(w, t) /\ t.step = "save" /\ ioc' = ioc
    BY <1>10, <2>1, <2>2 DEF Rescore, rows
  <2> QED BY <2>3, QuietBook
<1>11. CASE Reset
  <2>1. /\ ioc' = [k \in Keys |-> [v \in Values |-> "ABSENT"]]
        /\ session' = [w \in Workers |-> AfterReset(w, session[w])]
    BY <1>11 DEF Reset
  <2>2. \A w \in Workers : session'[w].step \notin {"join", "commit"}
    BY <2>1 DEF Doomed, AfterReset
  <2> QED BY <2>2 DEF BookInv, Fresh, Disjoint
<1>12. ASSUME NEW w \in Workers,
              \/ DetectFails(w) \/ JoinRefused(w) \/ Reply(w) \/ DemoFails(w)
              \/ Save(w) \/ Fail(w) \/ Abort(w)
       PROVE  BookInv'
  BY <1>2, <1>12 DEF DetectFails, JoinRefused, Reply, DemoFails, Save, Fail, Abort, rows
<1>13. ASSUME NEW w \in Workers, Call(w) PROVE BookInv'
  BY <1>3, <1>4, <1>13, <1>15 DEF Call, AllEvents
<1>14. ASSUME NEW w \in Workers, Continue(w) PROVE BookInv'
  <2>1. CASE \E k \in Keys, v \in Values :
               At(w, "correlate") /\ \E row \in {session[w].seen[k], incident[k]} \ {NoRow} :
                                        DemoRead(w, k, v, row)
    BY <1>7, <2>1
  <2> QED BY <1>5, <1>6, <1>8, <1>9, <1>10, <1>12, <1>14, <2>1, LookupBook, JoinConflictBook,
             JoinFlushBook, JoinCommitBook DEF Continue
<1> QED BY <1>1, <1>11, <1>12, <1>13, <1>14 DEF Next, Run

\* The book that the tables amount to.
Books == [k \in Keys |-> [alerts |-> Attached(k), known |-> Known(k), bad |-> Bad(k)]]

LEMMA SameBooks ==
    ASSUME UNCHANGED ioc, \A k \in Keys, a \in Alerts : alert'[a] = k <=> alert[a] = k
    PROVE  UNCHANGED Books
<1>1. \A k \in Keys : Attached(k)' = Attached(k) /\ Known(k)' = Known(k) /\ Bad(k)' = Bad(k)
  BY DEF Attached, Known, Bad
<1> QED BY <1>1 DEF Books

\* The commit of a join adds the alert with all its indicators, and no verdict is overwritten.
LEMMA JoinIsJoin ==
    ASSUME IngInv, BookInv, NEW w \in Workers, JoinCommit(w)
    PROVE  \E a \in Alerts : Book!Join(a)
<1>1. PICK s, k, a : s = session[w] /\ k = JoinKey(s) /\ a = <<s.event, s.rule>>
  OBVIOUS
<1>2. /\ s \in Committing /\ s.step = "commit" /\ k \in Keys /\ a \in Alerts /\ k = Key[a]
      /\ alert[a] = Unlinked /\ EventIocs[s.event] \subseteq s.fresh \cup Known(k)
      /\ Known(k)' = Known(k) \cup s.fresh /\ Bad(k)' = Bad(k) \ s.fresh
      /\ Attached(k)' = Attached(k) \cup {a}
      /\ \A c \in Keys \ {k} : Known(c)' = Known(c) /\ Bad(c)' = Bad(c) /\ Attached(c)' = Attached(c)
  BY <1>1, JoinCommitTables
<1>3. s.fresh \subseteq EventIocs[s.event] /\ s.fresh \cap Known(k) = {}
  BY <1>1, <1>2 DEF BookInv, Fresh
<1>4. Known(k)' = Known(k) \cup EventIocs[a[1]]
  BY <1>1, <1>2, <1>3
<1>5. Bad(k)' = Bad(k)
  BY <1>2, <1>3 DEF Bad, Known
<1>6. a \notin Attached(k)
  BY <1>2, PipelineAssumption DEF Attached
<1>7. Books' = [Books EXCEPT ![k] = [alerts |-> Attached(k) \cup {a},
                                     known |-> Known(k) \cup EventIocs[a[1]], bad |-> Bad(k)]]
  BY <1>2, <1>4, <1>5 DEF Books
<1>8. Books[k].alerts = Attached(k) /\ Books[k].known = Known(k) /\ Books[k].bad = Bad(k)
  BY <1>2 DEF Books
<1>9. [b \in Alerts |-> EventIocs[b[1]]][a] = EventIocs[a[1]]
  BY <1>2
<1>10. Book!Join(a)
  BY <1>2, <1>6, <1>7, <1>8, <1>9 DEF Book!Join, Books
<1> QED BY <1>2, <1>10

\* A verdict is one of an indicator that the incident has.
LEMMA MarkIsAccuse ==
    ASSUME IngInv, NEW k \in Keys, NEW v \in Known(k),
           ioc' = [ioc EXCEPT ![k][v] = "MALICIOUS"], alert' = alert
    PROVE  Book!Accuse(k, v)
<1>1. ioc \in [Keys -> [Values -> Verdicts]] /\ v \in Values
  BY DEF IngInv, TypeOK, Known
<1>2. \A c \in Keys : Known(c)' = Known(c) /\ Attached(c)' = Attached(c)
  BY <1>1, MarkedIsKnown DEF Attached
<1>3. /\ \A c \in Keys \ {k} : ioc'[c] = ioc[c]
      /\ \A u \in Values : ioc'[k][u] = IF u = v THEN "MALICIOUS" ELSE ioc[k][u]
  BY <1>1
<1>4. Bad(k)' = Bad(k) \cup {v} /\ \A c \in Keys \ {k} : Bad(c)' = Bad(c)
  BY <1>1, <1>3 DEF Bad
<1>5. Books' = [Books EXCEPT ![k] = [alerts |-> Attached(k), known |-> Known(k),
                                     bad |-> Bad(k) \cup {v}]]
  BY <1>2, <1>4 DEF Books
<1>6. Books[k].alerts = Attached(k) /\ Books[k].known = Known(k) /\ Books[k].bad = Bad(k)
  BY DEF Books
<1> QED BY <1>5, <1>6 DEF Book!Accuse, Books

LEMMA ResetIsClear == ASSUME Reset PROVE Book!Clear
<1>1. /\ alert' = [a \in Alerts |-> NoAlert]
      /\ ioc' = [k \in Keys |-> [v \in Values |-> "ABSENT"]]
  BY DEF Reset
<1>2. \A k \in Keys : Attached(k)' = {} /\ Known(k)' = {} /\ Bad(k)' = {}
  BY <1>1, PipelineAssumption DEF Attached, Known, Bad
<1>3. Books' = [k \in Keys |-> [alerts |-> {}, known |-> {}, bad |-> {}]]
  BY <1>2 DEF Books
<1> QED BY <1>3 DEF Book!Clear, Book!Empty, Books

LEMMA BookRefines == IngInv /\ BookInv /\ [Next]_vars => [Book!Next]_Books
<1> SUFFICES ASSUME IngInv, BookInv, [Next]_vars PROVE Book!Next \/ UNCHANGED Books
  OBVIOUS
<1>1. ASSUME UNCHANGED <<alert, ioc>> PROVE UNCHANGED Books
  BY <1>1, SameBooks
<1>2. CASE UNCHANGED vars
  BY <1>1, <1>2 DEF vars
<1>3. ASSUME NEW w \in Workers, Detect(w) PROVE UNCHANGED Books
  <2>1. PICK s, new : s = session[w]
                      /\ new = {r \in Matches[s.event] : alert[<<s.event, r>>] = NoAlert}
    OBVIOUS
  <2>2. /\ alert' = [a \in Alerts |-> IF a[1] = s.event /\ a[2] \in new THEN Unlinked ELSE alert[a]]
        /\ ioc' = ioc
    BY <1>3, <2>1 DEF Detect
  <2>3. ASSUME NEW k \in Keys, NEW a \in Alerts PROVE alert'[a] = k <=> alert[a] = k
    <3>1. k # Unlinked /\ k # NoAlert
      BY PipelineAssumption
    <3>2. CASE a[1] = s.event /\ a[2] \in new
      <4>1. a = <<s.event, a[2]>>
        BY <3>2 DEF Alerts
      <4> QED BY <2>1, <2>2, <3>1, <3>2, <4>1
    <3> QED BY <2>2, <3>2
  <2> QED BY <2>2, <2>3, SameBooks
<1>4. ASSUME NEW w \in Workers, DemoMark(w) PROVE \E k \in Keys, v \in Values : Book!Accuse(k, v)
  <2>1. PICK s \in Marking : s = session[w] /\ s.value \in Known(s.key)
    BY <1>4, Holding, KindOfStep DEF DemoMark, At, Sound
  <2>2. PICK k \in Keys, v \in Values : k = s.key /\ v = s.value /\ v \in Known(k)
    BY <2>1 DEF Marking, Known
  <2>3. ioc' = [ioc EXCEPT ![k][v] = "MALICIOUS"] /\ alert' = alert
    BY <1>4, <2>1, <2>2 DEF DemoMark
  <2> QED BY <2>2, <2>3, MarkIsAccuse
<1>5. ASSUME NEW w \in Workers, NEW b \in BOOLEAN, Enrich(w, b)
      PROVE  (\E k \in Keys, v \in Values : Book!Accuse(k, v)) \/ UNCHANGED Books
  <2>1. PICK k \in Keys : \E v \in Known(k) :
          alert' = alert /\ (ioc' = [ioc EXCEPT ![k][v] = "MALICIOUS"] \/ ioc' = ioc)
    BY <1>5, EnrichTables
  <2>2. PICK v \in Known(k) :
          alert' = alert /\ (ioc' = [ioc EXCEPT ![k][v] = "MALICIOUS"] \/ ioc' = ioc)
    BY <2>1
  <2>3. CASE ioc' = [ioc EXCEPT ![k][v] = "MALICIOUS"]
    BY <2>2, <2>3, MarkIsAccuse DEF Known
  <2>4. CASE ioc' = ioc
    BY <1>1, <2>2, <2>4
  <2> QED BY <2>2, <2>3, <2>4
<1>6. ASSUME NEW w \in Workers, NEW k \in Keys, NEW v \in Values, NEW row, DemoRead(w, k, v, row)
      PROVE  UNCHANGED Books
  BY <1>1, <1>6 DEF DemoRead, rows
<1>7. ASSUME NEW w \in Workers,
             \/ DetectFails(w) \/ JoinConflict(w) \/ JoinFlush(w) \/ JoinRefused(w) \/ Finish(w)
             \/ Reply(w) \/ DemoFails(w) \/ Rescore(w) \/ Save(w) \/ Fail(w) \/ Abort(w)
      PROVE  UNCHANGED Books
  <2>1. UNCHANGED <<alert, ioc>>
    BY <1>7 DEF DetectFails, JoinConflict, JoinFlush, JoinRefused, Finish, Reply, DemoFails,
                Rescore, Save, Fail, Abort, rows
  <2> QED BY <1>1, <2>1
<1>8. ASSUME NEW w \in Workers, NEW r \in Rules, Lookup(w, r) PROVE UNCHANGED Books
  BY <1>1, <1>8 DEF Lookup, rows
<1>9. /\ \A w \in Workers, e \in AllEvents : Store(w, e) \/ Duplicate(w, e) => UNCHANGED Books
      /\ \A w \in Workers, k \in Keys, v \in Values : EnrichLoad(w, k, v) => UNCHANGED Books
  BY <1>1 DEF Store, Duplicate, EnrichLoad, rows
<1>10. ASSUME NEW w \in Workers, Call(w) PROVE Book!Next \/ UNCHANGED Books
  BY <1>9, <1>10 DEF Call, AllEvents, Book!Next
<1>11. ASSUME NEW w \in Workers, Continue(w) PROVE Book!Next \/ UNCHANGED Books
  <2>1. CASE \E k \in Keys, v \in Values :
               At(w, "correlate") /\ \E row \in {session[w].seen[k], incident[k]} \ {NoRow} :
                                        DemoRead(w, k, v, row)
    BY <1>6, <2>1
  <2>2. CASE JoinCommit(w) \/ DemoMark(w)
    BY <1>4, <2>2, JoinIsJoin DEF Book!Next
  <2>3. CASE \E b \in BOOLEAN : Enrich(w, b)
    BY <1>5, <2>3 DEF Book!Next
  <2> QED BY <1>3, <1>7, <1>8, <1>11, <2>1, <2>2, <2>3 DEF Continue
<1>12. CASE Reset
  BY <1>12, ResetIsClear DEF Book!Next
<1> QED BY <1>2, <1>7, <1>10, <1>11, <1>12 DEF Next, Run

\* However deliveries, verdicts, failures and resets race, the incidents are a case book: an alert
\* joins its incident once, at once with all its indicators, and no commit undoes another's alert
\* or verdict (correlation.py:69-113, models.py:122,142,180).
THEOREM IngestionImplementsCaseBook == Spec => ImplementsCaseBook
<1>1. Init => BookInv /\ Book!Init
  <2> SUFFICES ASSUME Init PROVE BookInv /\ Book!Init
    OBVIOUS
  <2>1. BookInv
    BY DEF Init, Idle, BookInv, Fresh, Disjoint
  <2>2. \A k \in Keys : Attached(k) = {} /\ Known(k) = {} /\ Bad(k) = {}
    BY PipelineAssumption DEF Init, Attached, Known, Bad
  <2> QED BY <2>1, <2>2 DEF Book!Init, Book!Empty
<1>2. Spec => [](IngInv /\ BookInv)
  BY <1>1, IngInit, IngNext, BookNext, PTL DEF Spec
<1>3. IngInv /\ BookInv /\ [Next]_vars => [Book!Next]_[k \in Keys |->
         [alerts |-> Attached(k), known |-> Known(k), bad |-> Bad(k)]]
  BY BookRefines DEF Books
<1> QED BY <1>1, <1>2, <1>3, PTL DEF Spec, ImplementsCaseBook, Book!Spec
=============================================================================
