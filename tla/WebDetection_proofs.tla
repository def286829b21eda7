------------------------- MODULE WebDetection_proofs -------------------------
(***************************************************************************)
(* Proofs about WebDetection, for any handlers, loops, requests,           *)
(* categories, thresholds and demos.                                       *)
(***************************************************************************)
EXTENDS WebDetection, FiniteSetTheorems, SequenceTheorems, WellFoundedInduction,
        NaturalsInduction, TLAPS

-----------------------------------------------------------------------------
(* Keys and scores.                                                         *)

\* The window of an attack lies in that of its incident: sixteen quarters of an
\* hour are four hours.
LEMMA Windows == \A t \in Nat : (t \div 900) \div 16 = t \div 14400
OBVIOUS

LEMMA KeyOf ==
    ASSUME NEW r \in Requests, NEW s \in Slugs
    PROVE  /\ AttackKey(r, s) \in AttackKeys /\ IncidentKey(r) \in IncidentKeys
           /\ IncidentOf(AttackKey(r, s)) = IncidentKey(r)
<1>1. (Payload[r].time \div 900) \div 16 = Payload[r].time \div 14400
  BY Windows, CandidatesAssumption
<1>2. IncidentOf(AttackKey(r, s)) = IncidentKey(r)
  BY <1>1 DEF IncidentOf, AttackKey, IncidentKey
<1> QED BY <1>2 DEF AttackKeys, IncidentKeys

LEMMA IncidentOfType == \A k \in AttackKeys : IncidentOf(k) \in IncidentKeys
BY KeyOf DEF AttackKeys

LEMMA CandidatesType ==
    ASSUME NEW r \in Requests, NEW S PROVE Candidates(r, S) \subseteq Slugs
BY CandidatesAssumption DEF Candidates, Behavioral

LEMMA ClassificationType ==
    ASSUME NEW slug \in Slugs, NEW count \in Nat, NEW signaled \in BOOLEAN
    PROVE  Classification(slug, count, signaled) \in
             [class: Classes, severity: 0 .. 4, confidence: 0 .. 100]
BY WebAssumption DEF Classification, Classes, Larger, Escalate, AtMost

\* A set of small numbers has a largest one.
LEMMA MaxOfSome ==
    ASSUME NEW n \in Nat, NEW T \in SUBSET (0..n), T # {}
    PROVE  Max(T) \in T
<1> DEFINE Back == {n - k : k \in T}
<1>1. Back \subseteq Nat /\ Back # {}
  <2>1. \A k \in T : k \in Nat /\ k <= n /\ n - k \in Nat
    OBVIOUS
  <2> QED BY <2>1
<1>2. PICK x \in Back : \A y \in Back : ~ (<<y, x>> \in OpToRel(<, Nat))
  BY <1>1, NatLessThanWellFounded, WFMin
<1>3. PICK k \in T : x = n - k
  OBVIOUS
<1>4. ASSUME NEW j \in T PROVE k >= j
  <2>1. n - j \in Back
    OBVIOUS
  <2>2. ~ (n - j < n - k)
    <3>1. SUFFICES ASSUME n - j < n - k PROVE <<n - j, x>> \in OpToRel(<, Nat)
      BY <1>2, <2>1
    <3>2. n - j \in Nat /\ x \in Nat /\ n - j < x
      BY <1>1, <1>3, <2>1, <3>1
    <3> QED BY <3>2 DEF OpToRel
  <2> QED BY <2>2
<1> QED BY <1>3, <1>4 DEF Max

\* Any alerts of an incident give it a score, whatever the session holds of one.
LEMMA ScoreOfSome ==
    ASSUME NEW all \in SUBSET AttackKeys, NEW held, \A k \in all : held[k] \in Alert
    PROVE  RiskScore(Max({held[k].severity : k \in all}), Max({held[k].confidence : k \in all}),
                     Cardinality(all), 0) \in Nat
<1> DEFINE severity == Max({held[k].severity : k \in all})
           confidence == Max({held[k].confidence : k \in all})
<1>1. IsFiniteSet(all)
  <2>1. IsFiniteSet(Requests \X Slugs)
    BY CandidatesAssumption, FS_Product
  <2> DEFINE f == [p \in Requests \X Slugs |-> AttackKey(p[1], p[2])]
  <2>2. ASSUME NEW k \in AttackKeys PROVE \E p \in Requests \X Slugs : f[p] = k
    <3>1. PICK r \in Requests, s \in Slugs : k = AttackKey(r, s)
      BY DEF AttackKeys
    <3>2. f[<<r, s>>] = k
      BY <3>1
    <3> QED BY <3>2
  <2>3. \A p \in Requests \X Slugs : f[p] \in AttackKeys
    BY DEF AttackKeys
  <2>4. f \in Surjection(Requests \X Slugs, AttackKeys)
    BY <2>2, <2>3 DEF Surjection
  <2>5. IsFiniteSet(AttackKeys)
    BY <2>1, <2>4, FS_Surjection
  <2> QED BY <2>5, FS_Subset
<1>2. Cardinality(all) \in Nat
  BY <1>1, FS_CardinalityType
<1>3. CASE all = {}
  <2>1. Cardinality(all) = 0
    BY <1>3, FS_EmptySet
  <2> QED BY <2>1 DEF RiskScore
<1>4. CASE all # {}
  <2>1. \A k \in all : held[k].severity \in 0..4 /\ held[k].confidence \in 0..100
    BY DEF Alert
  <2>2. severity \in 0..4
    <3>1. {held[k].severity : k \in all} \in SUBSET (0..4) /\ {held[k].severity : k \in all} # {}
      BY <1>4, <2>1
    <3> HIDE DEF severity
    <3>2. severity \in {held[k].severity : k \in all}
      BY <3>1, MaxOfSome DEF severity
    <3> QED BY <3>1, <3>2
  <2>3. confidence \in 0..100
    <3>1. {held[k].confidence : k \in all} \in SUBSET (0..100) /\ {held[k].confidence : k \in all} # {}
      BY <1>4, <2>1
    <3> HIDE DEF confidence
    <3>2. confidence \in {held[k].confidence : k \in all}
      BY <3>1, MaxOfSome DEF confidence
    <3> QED BY <3>1, <3>2
  <2> HIDE DEF severity, confidence
  <2>4. SEVERITY_SCORE[severity + 1] \in Nat
    <3>1. severity \in {0, 1, 2, 3, 4}
      BY <2>2
    <3> QED BY <3>1 DEF SEVERITY_SCORE
  <2>5. PICK n \in Nat : n = Cardinality(all)
    BY <1>2
  <2>6. CASE n = 0
    BY <2>5, <2>6 DEF RiskScore
  <2>7. CASE n # 0
    <3> DEFINE more == AtMost(1000, (n - 1) * 300)
               bad == AtMost(2000, 0 * 1000)
    <3>1. more \in Nat /\ bad \in Nat
      BY <2>5, <2>7 DEF AtMost
    <3> HIDE DEF more, bad
    <3> DEFINE sum == SEVERITY_SCORE[severity + 1] * 55 + confidence * 25 + more + bad
    <3>2. sum \in Nat
      BY <2>3, <2>4, <3>1
    <3>3. RiskScore(severity, confidence, n, 0) = AtMost(10000, sum)
      BY <2>7 DEF RiskScore, more, bad
    <3> HIDE DEF sum
    <3>4. RiskScore(severity, confidence, n, 0) \in Nat
      BY <3>2, <3>3 DEF AtMost
    <3> QED BY <2>5, <3>4 DEF severity, confidence
  <2> QED BY <2>6, <2>7
<1> QED BY <1>3, <1>4

LEMMA RememberType ==
    ASSUME NEW list \in Seq(Requests), NEW r \in Requests
    PROVE  Remember(list, r) \in Seq(Requests)
<1> DEFINE from == Larger(1, Len(list) - KEEP + 1)
<1>1. from \in Int /\ from >= 1 /\ Len(list) \in Nat
  BY WebAssumption DEF Larger
<1> HIDE DEF from
<1>2. SubSeq(list, from, Len(list)) \in Seq(Requests)
  <2>1. \A i \in from .. Len(list) : list[i] \in Requests
    BY <1>1
  <2> QED BY <1>1, <2>1, SubSeqProperties
<1>3. Append(SubSeq(list, from, Len(list)), r) \in Seq(Requests)
  BY <1>2
<1> QED BY <1>3 DEF Remember, from

-----------------------------------------------------------------------------
(* The inductive invariant.                                                 *)

Entries ==
    Types \X AttackKeys \X Requests
      \cup {"ATTACK_CLASSIFICATION_UPDATED"} \X AttackKeys \X {NoRequest}
      \cup {<<"RESPONSE_VERIFICATION", NoAttack, NoRequest>>}

\* The entries of an attack's creation and of an incident's.
Made(k) == {t \in Seen(k) : t[1] # "ATTACK_ACTIVITY_UPDATED"}
Begun(i) == {t \in timeline[i] : t[1] = "WEB_INCIDENT_CREATED"}

WholeAttack(k) ==
    /\ Exists(k) <=> alert[k] # NoAlert
    /\ Exists(k) => incident[IncidentOf(k)] # NoRow
    /\ Exists(k) <=> Made(k) # {}
    /\ \A s, t \in Made(k) : s = t
    /\ Exists(k) => \E t \in Made(k) : t[3] = attack[k].primary

\* What is not there has no entry of its creation: it may be created.
WholeIncident(i) ==
    /\ \A s, t \in Begun(i) : s = t
    /\ Begun(i) # {} => incident[i] # NoRow

RowTypes ==
    /\ attack \in [AttackKeys -> Attack \cup {NoAttack}]
    /\ alert \in [AttackKeys -> Alert \cup {NoAlert}]
    /\ incident \in [IncidentKeys -> Row \cup {NoRow}]
    /\ timeline \in [IncidentKeys -> SUBSET Entries]

RowInv ==
    /\ requests \subseteq Requests /\ answered \subseteq requests /\ owed \subseteq IncidentKeys
    /\ RowTypes
    /\ \A k \in AttackKeys : WholeAttack(k)
    /\ \A i \in IncidentKeys : WholeIncident(i)

\* A handler that holds an attack holds one that is still there, with its alert
\* and its incident: the resets doom the others.
Consistent(s) ==
    /\ s.step \in {"load", "save"} /\ s.held # NoAttack => Exists(AttackKey(s.request, s.slug))
    /\ s.step = "save" /\ s.held # NoAttack => s.alert # NoAlert /\ s.incident # NoRow
    /\ s.step \in {"mark", "rescore", "score"} => Exists(s.key)

SessionInv == session \in [Tasks -> Session] /\ \A w \in Tasks : Consistent(session[w])

Copies == UNION {[S -> Attack] : S \in SUBSET AttackKeys}
Run == [on: BOOLEAN, left: Seq(Requests), known: Copies, found: Copies,
        incidents: SUBSET IncidentKeys]

ReplayInv == replay \in [Tasks -> Run]

IInv == RowInv /\ SessionInv /\ ReplayInv

LEMMA CopiesType ==
    /\ <<>> \in Copies
    /\ \A f \in Copies : \A k \in DOMAIN f : k \in AttackKeys /\ f[k] \in Attack
    /\ \A f \in Copies : \A S : Remaining(f, S) \in Copies
<1>1. <<>> \in Copies
  <2>1. <<>> \in [{} -> Attack]
    OBVIOUS
  <2> QED BY <2>1 DEF Copies
<1>2. ASSUME NEW f \in Copies, NEW k \in DOMAIN f PROVE k \in AttackKeys /\ f[k] \in Attack
  BY DEF Copies
<1>3. ASSUME NEW f \in Copies, NEW S PROVE Remaining(f, S) \in Copies
  <2>1. Remaining(f, S) \in [DOMAIN f \cap S -> Attack]
    BY <1>2 DEF Remaining
  <2>2. DOMAIN f \cap S \in SUBSET AttackKeys
    BY <1>2
  <2> QED BY <2>1, <2>2 DEF Copies
<1> QED BY <1>1, <1>2, <1>3

LEMMA EmptyRun == NoReplay \in Run
BY CopiesType DEF Run, NoReplay

LEMMA Implied == IInv => TypeOK /\ CreatedTogether
<1> SUFFICES ASSUME IInv PROVE TypeOK /\ CreatedTogether
  OBVIOUS
<1>1. TypeOK
  <2>1. ASSUME NEW w \in Tasks
        PROVE  /\ replay[w].left \in Seq(Requests) /\ replay[w].incidents \subseteq IncidentKeys
               /\ \A f \in {replay[w].known, replay[w].found} : \A k \in DOMAIN f :
                     k \in AttackKeys /\ f[k] \in Attack
    BY CopiesType DEF IInv, ReplayInv, Run
  <2> QED BY <2>1 DEF IInv, RowInv, SessionInv, RowTypes, Entries, TypeOK
<1>2. ASSUME NEW k \in AttackKeys
      PROVE  /\ Exists(k) <=> alert[k] # NoAlert
             /\ Exists(k) => incident[IncidentOf(k)] # NoRow
             /\ Exists(k) <=> \E t \in Seen(k) : t[1] # "ATTACK_ACTIVITY_UPDATED"
             /\ \A s, t \in Seen(k) : "ATTACK_ACTIVITY_UPDATED" \notin {s[1], t[1]} => s = t
             /\ Exists(k) => \E t \in Seen(k) : t[3] = attack[k].primary /\ t[1] # "ATTACK_ACTIVITY_UPDATED"
  BY DEF IInv, RowInv, WholeAttack, Made
<1>3. ASSUME NEW i \in IncidentKeys, NEW s \in timeline[i], NEW t \in timeline[i],
             s[1] = "WEB_INCIDENT_CREATED" /\ t[1] = "WEB_INCIDENT_CREATED"
      PROVE  s = t
  <2>1. s \in Begun(i) /\ t \in Begun(i)
    BY <1>3 DEF Begun
  <2> QED BY <2>1 DEF IInv, RowInv, WholeIncident
<1>4. CreatedTogether
  BY <1>2, <1>3 DEF CreatedTogether
<1> QED BY <1>1, <1>4

LEMMA Starts == Init => IInv
<1> SUFFICES ASSUME Init PROVE IInv
  OBVIOUS
<1>1. RowTypes
  BY DEF Init, RowTypes
<1>2. ASSUME NEW k \in AttackKeys PROVE WholeAttack(k)
  <2>1. Made(k) = {}
    BY IncidentOfType DEF Init, Made, Seen
  <2> QED BY <2>1 DEF Init, WholeAttack, Exists
<1>3. ASSUME NEW i \in IncidentKeys PROVE WholeIncident(i)
  BY DEF Init, WholeIncident, Begun
<1>4. SessionInv
  BY DEF Init, SessionInv, Session, Idle, Consistent
<1>5. ReplayInv
  BY EmptyRun DEF Init, ReplayInv
<1> QED BY <1>1, <1>2, <1>3, <1>4, <1>5 DEF Init, IInv, RowInv

LEMMA SessionAt ==
    ASSUME SessionInv, NEW w \in Tasks
    PROVE  /\ At(w, "store") => session[w] \in Storing
           /\ At(w, "find") => session[w] \in Finding
           /\ At(w, "load") => session[w] \in Loading
           /\ At(w, "save") => session[w] \in Saving
           /\ At(w, "mark") => session[w] \in Marking
           /\ At(w, "rescore") => session[w] \in Rescoring
           /\ At(w, "score") => session[w] \in Scoring
           /\ At(w, "reply") => session[w] \in Replying
<1>1. session[w] \in Session
  BY DEF SessionInv
<1> QED BY <1>1 DEF At, Session, Idle, Doomed, Storing, Finding, Loading, Saving, Marking,
             Rescoring, Scoring, Replying

\* While no attack is deleted, the other handlers' copies stay consistent.
LEMMA SessionStep ==
    ASSUME SessionInv, NEW w \in Tasks, NEW s \in Session, Move(w, s), Consistent(s)',
           \A k \in AttackKeys : Exists(k) => Exists(k)'
    PROVE  SessionInv'
<1>1. session' \in [Tasks -> Session]
  BY DEF SessionInv, Move
<1>2. ASSUME NEW v \in Tasks PROVE Consistent(session[v])'
  <2>1. CASE v = w
    <3>1. session'[v] = s
      BY <2>1 DEF SessionInv, Move
    <3> QED BY <3>1 DEF Consistent
  <2>2. CASE v # w
    <3>1. PICK u \in Session : u = session[v] /\ u = session'[v]
      BY <2>2 DEF SessionInv, Move
    <3>2. Consistent(u)
      BY <3>1 DEF SessionInv
    <3>3. u.step \in {"load", "save"} => u.request \in Requests /\ u.slug \in Slugs
      BY DEF Session, Idle, Doomed, Storing, Finding, Loading, Saving, Marking, Rescoring,
             Scoring, Replying
    <3>4. u.step \in {"mark", "rescore", "score"} => u.key \in AttackKeys
      BY DEF Session, Idle, Doomed, Storing, Finding, Loading, Saving, Marking, Rescoring,
             Scoring, Replying
    <3>5. Consistent(u)'
      BY <3>2, <3>3, <3>4, KeyOf DEF Consistent
    <3> QED BY <3>1, <3>5 DEF Consistent
  <2> QED BY <2>1, <2>2
<1> QED BY <1>1, <1>2 DEF SessionInv

LEMMA ReplayStep ==
    ASSUME ReplayInv, NEW w \in Tasks, NEW run \in Run, replay' = [replay EXCEPT ![w] = run]
    PROVE  ReplayInv'
BY DEF ReplayInv

\* A step that only moves its handler on.
LEMMA MoveKeeps ==
    ASSUME IInv, NEW w \in Tasks, NEW s \in Session, Move(w, s), Consistent(s),
           UNCHANGED <<rows, answered, owed>>, ReplayInv'
    PROVE  IInv'
<1>1. RowInv'
  BY DEF IInv, RowInv, RowTypes, WholeAttack, WholeIncident, Exists, Made, Begun, Seen, rows
<1>2. SessionInv'
  <2>1. Consistent(s)'
    BY DEF Consistent, Exists, rows
  <2>2. \A k \in AttackKeys : Exists(k) => Exists(k)'
    BY DEF Exists, rows
  <2> QED BY <2>1, <2>2, SessionStep DEF IInv
<1> QED BY <1>1, <1>2 DEF IInv

LEMMA SameReplay == ReplayInv /\ UNCHANGED replay => ReplayInv'
BY DEF ReplayInv

LEMMA LeaveKeeps ==
    ASSUME IInv, NEW w \in Tasks, Leave(w), UNCHANGED <<rows, answered, owed>>
    PROVE  IInv'
<1>1. ReplayInv'
  BY ReplayStep, EmptyRun DEF Leave, IInv
<1>2. Idle \in Session /\ Consistent(Idle)
  BY DEF Session, Idle, Consistent
<1> QED BY <1>1, <1>2, MoveKeeps DEF Leave

-----------------------------------------------------------------------------
(* The steps before an aggregate is written.                                *)

LEMMA DeliverKeeps ==
    ASSUME IInv, NEW w \in Tasks, NEW r \in Requests, Deliver(w, r) PROVE IInv'
<1> DEFINE s == [step |-> "store", request |-> r, todo |-> Candidates(r, requests)]
<1>1. s \in Storing
  BY CandidatesType DEF Storing
<1>2. s \in Session /\ Consistent(s)
  BY <1>1 DEF Session, Consistent
<1>3. Move(w, s) /\ UNCHANGED <<rows, answered, owed>> /\ ReplayInv'
  BY SameReplay DEF Deliver, IInv
<1> HIDE DEF s
<1> QED BY <1>2, <1>3, MoveKeeps

LEMMA StoreKeeps ==
    ASSUME IInv, NEW w \in Tasks, Store(w) PROVE IInv'
<1>1. PICK s \in Storing : s = session[w]
  BY SessionAt DEF Store, IInv
<1>2. RowInv'
  <2>1. requests' = requests \cup {s.request} /\ s.request \in Requests
    BY <1>1 DEF Store, Storing
  <2> QED BY <2>1 DEF Store, IInv, RowInv, RowTypes, WholeAttack, WholeIncident, Exists, Made,
                      Begun, Seen
<1>3. \A k \in AttackKeys : Exists(k) => Exists(k)'
  BY DEF Store, Exists
<1>4. CASE s.request \in requests
  <2>1. Leave(w)
    BY <1>1, <1>4 DEF Store
  <2>2. Idle \in Session /\ Consistent(Idle)'
    BY DEF Session, Idle, Consistent
  <2>3. SessionInv'
    BY <1>3, <2>1, <2>2, SessionStep DEF IInv, Leave
  <2>4. ReplayInv'
    BY <2>1, EmptyRun, ReplayStep DEF IInv, Leave
  <2> QED BY <1>2, <2>3, <2>4 DEF IInv
<1>5. CASE s.request \notin requests
  <2> DEFINE n == [step |-> "find", request |-> s.request, todo |-> s.todo, seen |-> NoRow]
  <2>1. Move(w, n) /\ UNCHANGED replay
    BY <1>1, <1>5 DEF Store
  <2>2. n \in Finding
    BY DEF Storing, Finding
  <2>3. n \in Session /\ Consistent(n)'
    BY <2>2 DEF Session, Consistent
  <2> HIDE DEF n
  <2>4. SessionInv'
    BY <1>3, <2>1, <2>3, SessionStep DEF IInv
  <2> QED BY <1>2, <2>1, <2>4, SameReplay DEF IInv
<1> QED BY <1>4, <1>5

LEMMA FindKeeps ==
    ASSUME IInv, NEW w \in Tasks, NEW slug \in Slugs, Find(w, slug) PROVE IInv'
<1>1. PICK s \in Finding : s = session[w]
  BY SessionAt DEF Find, IInv
<1> DEFINE k == AttackKey(s.request, slug)
           n == [step |-> "load", request |-> s.request, todo |-> s.todo \ {slug},
                 seen |-> s.seen, slug |-> slug, held |-> Queried(w, k)]
<1>2. k \in AttackKeys
  BY KeyOf DEF Finding
<1>3. Queried(w, k) \in Attack \cup {NoAttack} /\ (Queried(w, k) # NoAttack => Exists(k))
  <2>1. attack[k] \in Attack \cup {NoAttack}
    BY <1>2 DEF IInv, RowInv, RowTypes
  <2>2. k \in DOMAIN replay[w].known => replay[w].known[k] \in Attack
    BY CopiesType DEF IInv, ReplayInv, Run
  <2> HIDE DEF k
  <2> QED BY <2>1, <2>2, WebAssumption DEF Queried, Exists
<1>4. n \in Loading
  BY <1>3 DEF Finding, Loading
<1>5. n \in Session /\ Consistent(n)
  BY <1>3, <1>4 DEF Session, Consistent
<1>6. Move(w, n) /\ UNCHANGED <<rows, answered, owed>> /\ ReplayInv'
  BY <1>1, SameReplay DEF Find, IInv
<1> HIDE DEF n
<1> QED BY <1>5, <1>6, MoveKeeps

LEMMA LoadKeeps ==
    ASSUME IInv, NEW w \in Tasks, Load(w) PROVE IInv'
<1>1. PICK s \in Loading : s = session[w]
  BY SessionAt DEF Load, IInv
<1> DEFINE k == AttackKey(s.request, s.slug)
           mine == IF s.held = NoAttack THEN NoAlert ELSE alert[k]
           n(row) == [step |-> "save", request |-> s.request, todo |-> s.todo, seen |-> s.seen,
                      slug |-> s.slug, held |-> s.held, alert |-> mine, incident |-> row]
<1>2. PICK row \in {incident[IncidentOf(k)]} \cup ({s.seen} \ {NoRow}) : Move(w, n(row))
  BY <1>1 DEF Load
<1>3. s.request \in Requests /\ s.slug \in Slugs /\ s.seen \in Row \cup {NoRow}
      /\ s.held \in Attack \cup {NoAttack} /\ s.todo \in SUBSET Slugs /\ s.step = "load"
  BY DEF Loading
<1>4. k \in AttackKeys /\ IncidentOf(k) \in IncidentKeys
  BY <1>3, KeyOf
<1> HIDE DEF k
<1>5. s.held # NoAttack => Exists(k)
  <2>1. Consistent(s)
    BY <1>1 DEF IInv, SessionInv
  <2> QED BY <1>3, <2>1 DEF Consistent, k
<1>6. s.held # NoAttack => mine # NoAlert /\ incident[IncidentOf(k)] # NoRow
  BY <1>4, <1>5 DEF IInv, RowInv, WholeAttack
<1>7. mine \in Alert \cup {NoAlert} /\ row \in Row \cup {NoRow}
  BY <1>3, <1>4 DEF IInv, RowInv, RowTypes
<1>8. s.held # NoAttack => mine # NoAlert /\ row # NoRow
  BY <1>6, WebAssumption
<1> HIDE DEF mine
<1>9. n(row) \in Saving
  BY <1>3, <1>7 DEF Saving
<1>10. n(row) \in Session /\ Consistent(n(row))
  BY <1>5, <1>8, <1>9 DEF Session, Consistent, k
<1>11. UNCHANGED <<rows, answered, owed>> /\ ReplayInv'
  BY SameReplay DEF Load, IInv
<1> HIDE DEF n
<1> QED BY <1>2, <1>10, <1>11, MoveKeeps

LEMMA FinishKeeps ==
    ASSUME IInv, NEW w \in Tasks, Finish(w) PROVE IInv'
<1>1. PICK s \in Finding : s = session[w]
  BY SessionAt DEF Finish, IInv
<1> DEFINE n == [step |-> "reply", request |-> s.request]
<1>2. n \in Replying
  BY DEF Finding, Replying
<1>3. n \in Session /\ Consistent(n)
  BY <1>2 DEF Session, Consistent
<1>4. Move(w, n) /\ UNCHANGED <<rows, answered, owed>> /\ ReplayInv'
  BY <1>1, SameReplay DEF Finish, IInv
<1> HIDE DEF n
<1> QED BY <1>3, <1>4, MoveKeeps

LEMMA ReplyKeeps ==
    ASSUME IInv, NEW w \in Tasks, Reply(w) PROVE IInv'
<1>1. RowInv'
  BY DEF Reply, IInv, RowInv, RowTypes, WholeAttack, WholeIncident, Exists, Made, Begun, Seen, rows
<1>2. Idle \in Session /\ Consistent(Idle)'
  BY DEF Session, Idle, Consistent
<1>3. \A k \in AttackKeys : Exists(k) => Exists(k)'
  BY DEF Reply, rows, Exists
<1>4. SessionInv'
  BY <1>2, <1>3, SessionStep DEF IInv, Reply, Leave
<1>5. ReplayInv'
  BY EmptyRun, ReplayStep DEF IInv, Reply, Leave
<1> QED BY <1>1, <1>4, <1>5 DEF IInv

LEMMA ReviewKeeps ==
    ASSUME IInv, NEW w \in Tasks, NEW k \in AttackKeys, Review(w, k) PROVE IInv'
<1> DEFINE n == [step |-> "mark", key |-> k, held |-> attack[k], alert |-> alert[k],
                 incident |-> incident[IncidentOf(k)]]
<1>1. Exists(k) /\ alert[k] # NoAlert /\ incident[IncidentOf(k)] # NoRow
  BY DEF Review, IInv, RowInv, WholeAttack
<1>2. attack[k] \in Attack /\ alert[k] \in Alert /\ incident[IncidentOf(k)] \in Row
  BY <1>1, IncidentOfType DEF IInv, RowInv, RowTypes, Exists
<1>3. n \in Marking
  BY <1>2 DEF Marking
<1>4. n \in Session /\ Consistent(n)
  BY <1>1, <1>3 DEF Session, Consistent
<1>5. Move(w, n) /\ UNCHANGED <<rows, answered, owed>> /\ ReplayInv'
  BY SameReplay DEF Review, IInv
<1> HIDE DEF n
<1> QED BY <1>4, <1>5, MoveKeeps

LEMMA ReplayKeeps ==
    ASSUME IInv, NEW w \in Tasks, NEW script \in Replays, Replay(w, script) PROVE IInv'
<1> DEFINE n == [step |-> "reply", request |-> NoRequest]
           run == [NoReplay EXCEPT !.on = TRUE, !.left = script]
<1>1. n \in Session /\ Consistent(n)
  BY DEF Session, Replying, Consistent
<1>2. script \in Seq(Requests)
  BY WebAssumption
<1>3. run \in Run
  BY <1>2, EmptyRun DEF Run
<1>4. ReplayInv'
  <2> HIDE DEF run
  <2>1. replay' = [replay EXCEPT ![w] = run]
    BY DEF Replay, run
  <2> QED BY <1>3, <2>1, ReplayStep DEF IInv
<1>5. Move(w, n) /\ UNCHANGED <<rows, answered, owed>>
  BY DEF Replay
<1> HIDE DEF n
<1> QED BY <1>1, <1>4, <1>5, MoveKeeps

LEMMA AdvanceKeeps ==
    ASSUME IInv, NEW w \in Tasks, Advance(w) PROVE IInv'
<1>1. PICK run : run = replay[w]
  OBVIOUS
<1>2. run \in Run /\ run.left # <<>>
  BY <1>1 DEF Advance, IInv, ReplayInv
<1>3. PICK r : r = Head(run.left)
  OBVIOUS
<1>4. r \in Requests /\ Tail(run.left) \in Seq(Requests)
  BY <1>2, <1>3 DEF Run
<1>5. PICK known \in AttacksHeld(run) :
        replay' = [replay EXCEPT ![w] = [run EXCEPT !.left = Tail(run.left), !.known = known, !.found = <<>>]]
  BY <1>1 DEF Advance
<1>6. known \in Copies
  <2>1. run.found \in Copies /\ run.known \in Copies
    BY <1>2 DEF Run
  <2> QED BY <2>1, CopiesType DEF AttacksHeld
<1>7. ReplayInv'
  <2>1. [run EXCEPT !.left = Tail(run.left), !.known = known, !.found = <<>>] \in Run
    BY <1>2, <1>4, <1>6, CopiesType DEF Run
  <2> QED BY <1>1, <1>5, <2>1 DEF IInv, ReplayInv
<1> DEFINE n == IF r \in requests THEN [step |-> "reply", request |-> r]
                ELSE [step |-> "store", request |-> r, todo |-> Candidates(r, requests)]
<1>8. n \in Replying \cup Storing
  BY <1>4, CandidatesType DEF Replying, Storing
<1>9. n \in Session /\ Consistent(n)
  BY <1>8 DEF Session, Consistent, Replying, Storing
<1>10. Move(w, n) /\ UNCHANGED <<rows, answered, owed>>
  BY <1>1, <1>3 DEF Advance
<1> HIDE DEF n
<1> QED BY <1>7, <1>9, <1>10, MoveKeeps

-----------------------------------------------------------------------------
(* The steps that write.                                                    *)

\* What happens to an attack after its creation leaves the entries of creations alone.
LEMMA LaterEntry ==
    ASSUME RowTypes, NEW i \in IncidentKeys, NEW e, e[1] \notin {"WEB_INCIDENT_CREATED", "WEB_ATTACK_CORRELATED"},
           timeline' = [timeline EXCEPT ![i] = @ \cup {e}]
    PROVE  /\ \A k \in AttackKeys : Made(k)' = Made(k)
           /\ \A j \in IncidentKeys : Begun(j)' = Begun(j)
<1>1. ASSUME NEW j \in IncidentKeys
      PROVE  \A t : t[1] \in {"WEB_INCIDENT_CREATED", "WEB_ATTACK_CORRELATED"}
                      => (t \in timeline'[j] <=> t \in timeline[j])
  BY DEF RowTypes
<1>2. ASSUME NEW k \in AttackKeys PROVE Made(k)' = Made(k)
  BY <1>1, IncidentOfType DEF Made, Seen, Types
<1>3. ASSUME NEW j \in IncidentKeys PROVE Begun(j)' = Begun(j)
  BY <1>1 DEF Begun
<1> QED BY <1>2, <1>3

\* A step that creates and deletes nothing.
LEMMA WriteKeeps ==
    ASSUME RowInv, RowTypes',
           \A k \in AttackKeys : /\ Exists(k)' <=> Exists(k)
                                 /\ alert'[k] # NoAlert <=> alert[k] # NoAlert
                                 /\ Exists(k) => attack'[k].primary = attack[k].primary,
           \A i \in IncidentKeys : incident[i] # NoRow => incident'[i] # NoRow,
           \A k \in AttackKeys : Made(k)' = Made(k),
           \A i \in IncidentKeys : Begun(i)' = Begun(i)
    PROVE  (\A k \in AttackKeys : WholeAttack(k)') /\ (\A i \in IncidentKeys : WholeIncident(i)')
<1>1. ASSUME NEW k \in AttackKeys PROVE WholeAttack(k)'
  <2>1. WholeAttack(k) /\ IncidentOf(k) \in IncidentKeys
    BY IncidentOfType DEF RowInv
  <2> QED BY <2>1 DEF WholeAttack
<1>2. ASSUME NEW i \in IncidentKeys PROVE WholeIncident(i)'
  <2>1. WholeIncident(i)
    BY DEF RowInv
  <2> QED BY <2>1 DEF WholeIncident
<1> QED BY <1>1, <1>2

\* The aggregate as Update writes it.
Renewed(now, held, r, new, sure) ==
    [now EXCEPT !.count = CountOneMore(held),
                !.related = Remember(held.related, r),
                !.class = Flush(held.class, new.class, now.class),
                !.confidence = Flush(held.confidence, sure, now.confidence),
                !.severity = Flush(held.severity, new.severity, now.severity)]

LEMMA Updated ==
    ASSUME NEW now \in Attack, NEW held \in Attack, NEW r \in Requests, NEW slug \in Slugs,
           NEW signaled \in BOOLEAN, NEW new, new = Classification(slug, CountOneMore(held), signaled),
           NEW sure, sure = Sureness(held, new),
           NEW a, a = Renewed(now, held, r, new, sure)
    PROVE  /\ new \in [class: Classes, severity: 0 .. 4, confidence: 0 .. 100] /\ sure \in 0 .. 100
           /\ a \in Attack /\ a.primary = now.primary
           /\ a.count = held.count + 1 /\ a.related = Remember(held.related, r)
<1>1. CountOneMore(held) \in Nat /\ CountOneMore(held) = held.count + 1
  BY DEF CountOneMore, Attack
<1>2. new \in [class: Classes, severity: 0 .. 4, confidence: 0 .. 100]
  BY <1>1, ClassificationType
<1>3. sure \in 0 .. 100
  BY <1>2 DEF Sureness, Larger, Attack
<1>4. Remember(held.related, r) \in Seq(Requests)
  BY RememberType DEF Attack
<1>5. a \in Attack /\ a.primary = now.primary
  BY <1>1, <1>2, <1>3, <1>4 DEF Renewed, Attack, Flush
<1>6. a.count = CountOneMore(held) /\ a.related = Remember(held.related, r)
  BY DEF Renewed, Attack
<1> QED BY <1>1, <1>2, <1>3, <1>5, <1>6

LEMMA UpdateKeeps ==
    ASSUME IInv, NEW w \in Tasks, Update(w) PROVE IInv'
<1>1. PICK s \in Saving : s = session[w] /\ s.held # NoAttack
  BY SessionAt DEF Update, IInv
<1>2. PICK k : k = AttackKey(s.request, s.slug)
  OBVIOUS
<1>3. PICK new : new = Classification(s.slug, CountOneMore(s.held), Signaled(s))
  OBVIOUS
<1>4. PICK sure : sure = Sureness(s.held, new)
  OBVIOUS
<1>5. /\ s.request \in Requests /\ s.slug \in Slugs /\ s.todo \in SUBSET Slugs
      /\ s.held \in Attack /\ s.alert \in Alert \cup {NoAlert} /\ s.incident \in Row \cup {NoRow}
  BY <1>1 DEF Saving
<1>6. k \in AttackKeys /\ IncidentOf(k) \in IncidentKeys
  BY <1>2, <1>5, KeyOf
<1>7. Exists(k) /\ s.alert \in Alert /\ s.incident \in Row
  <2>1. Consistent(s) /\ s.step = "save"
    BY <1>1 DEF IInv, SessionInv, Saving
  <2> QED BY <1>1, <1>2, <1>5, <2>1 DEF Consistent
<1>8. attack[k] \in Attack /\ alert[k] \in Alert /\ incident[IncidentOf(k)] \in Row
  BY <1>6, <1>7 DEF IInv, RowInv, RowTypes, WholeAttack, Exists
<1>9. PICK a : a = Renewed(attack[k], s.held, s.request, new, sure)
  OBVIOUS
<1>10. attack' = [attack EXCEPT ![k] = a]
  BY <1>1, <1>2, <1>3, <1>4, <1>9 DEF Update, Renewed
<1>11. /\ new \in [class: Classes, severity: 0 .. 4, confidence: 0 .. 100] /\ sure \in 0 .. 100
       /\ a \in Attack /\ a.primary = attack[k].primary
  <2>1. PICK signaled \in BOOLEAN : signaled = Signaled(s)
    <3>1. Signaled(s) \in BOOLEAN
      BY DEF Signaled
    <3> QED BY <3>1
  <2>2. new = Classification(s.slug, CountOneMore(s.held), signaled)
    BY <1>3, <2>1
  <2> QED BY <1>4, <1>5, <1>8, <1>9, <2>2, Updated
<1>12. PICK b : b = [confidence |-> Flush(s.alert.confidence, sure, alert[k].confidence),
                     severity |-> Flush(s.alert.severity, new.severity, alert[k].severity)]
  OBVIOUS
<1>13. alert' = [alert EXCEPT ![k] = b] /\ b \in Alert
  <2>1. alert' = [alert EXCEPT ![k] = b]
    BY <1>1, <1>2, <1>3, <1>4, <1>12 DEF Update
  <2>2. b \in Alert
    BY <1>8, <1>11, <1>12 DEF Alert, Flush
  <2> QED BY <2>1, <2>2
<1>14. PICK c : c = [incident[IncidentOf(k)] EXCEPT !.severity = Raise(s.incident.severity, new.severity, @)]
  OBVIOUS
<1>15. incident' = [incident EXCEPT ![IncidentOf(k)] = c] /\ c \in Row
  <2>1. incident' = [incident EXCEPT ![IncidentOf(k)] = c]
    BY <1>1, <1>2, <1>3, <1>14 DEF Update
  <2>2. c \in Row
    BY <1>8, <1>11, <1>14 DEF Row, Raise
  <2> QED BY <2>1, <2>2
<1> DEFINE e == <<"ATTACK_ACTIVITY_UPDATED", k, s.request>>
<1>16. timeline' = [timeline EXCEPT ![IncidentOf(k)] = @ \cup {e}]
  BY <1>1, <1>2 DEF Update, Enter
<1>17. e \in Entries /\ e[1] \notin {"WEB_INCIDENT_CREATED", "WEB_ATTACK_CORRELATED"}
  BY <1>5, <1>6 DEF Entries, Types
<1> HIDE DEF e
<1>18. RowTypes'
  BY <1>6, <1>10, <1>11, <1>13, <1>15, <1>16, <1>17 DEF IInv, RowInv, RowTypes
<1>19. RowInv'
  <2>1. \A j \in AttackKeys : /\ Exists(j)' <=> Exists(j)
                              /\ alert'[j] # NoAlert <=> alert[j] # NoAlert
                              /\ Exists(j) => attack'[j].primary = attack[j].primary
    BY <1>6, <1>7, <1>8, <1>10, <1>11, <1>13, WebAssumption DEF IInv, RowInv, RowTypes, Exists
  <2>2. \A i \in IncidentKeys : incident[i] # NoRow => incident'[i] # NoRow
    BY <1>15, WebAssumption DEF IInv, RowInv, RowTypes
  <2>3. /\ \A j \in AttackKeys : Made(j)' = Made(j)
        /\ \A i \in IncidentKeys : Begun(i)' = Begun(i)
    BY <1>6, <1>16, <1>17, LaterEntry DEF IInv, RowInv
  <2>4. (\A j \in AttackKeys : WholeAttack(j)') /\ (\A i \in IncidentKeys : WholeIncident(i)')
    BY <1>18, <2>1, <2>2, <2>3, WriteKeeps DEF IInv
  <2>5. UNCHANGED <<requests, answered>> /\ owed' = owed \cup {IncidentOf(k)}
    BY <1>1, <1>2 DEF Update
  <2> QED BY <1>6, <1>18, <2>4, <2>5 DEF IInv, RowInv
<1> DEFINE n == [step |-> "rescore", request |-> s.request, todo |-> s.todo, key |-> k,
                 mine |-> [confidence |-> sure, severity |-> new.severity], incident |-> s.incident]
<1>20. Move(w, n) /\ UNCHANGED replay
  BY <1>1, <1>2, <1>3, <1>4 DEF Update
<1>21. n \in Rescoring
  <2>1. [confidence |-> sure, severity |-> new.severity] \in Alert
    BY <1>11 DEF Alert
  <2> QED BY <1>5, <1>6, <1>7, <2>1 DEF Rescoring
<1>22. \A j \in AttackKeys : Exists(j) => Exists(j)'
  BY <1>10, <1>11, WebAssumption DEF IInv, RowInv, RowTypes, Exists
<1>23. n \in Session /\ Consistent(n)'
  BY <1>6, <1>7, <1>21, <1>22 DEF Session, Consistent
<1> HIDE DEF n
<1>24. SessionInv'
  BY <1>20, <1>22, <1>23, SessionStep DEF IInv
<1> QED BY <1>19, <1>20, <1>24, SameReplay DEF IInv

LEMMA FirstEntry ==
    ASSUME RowTypes, NEW k \in AttackKeys, NEW r, NEW type \in {"WEB_INCIDENT_CREATED", "WEB_ATTACK_CORRELATED"},
           timeline' = [timeline EXCEPT ![IncidentOf(k)] = @ \cup {<<type, k, r>>}]
    PROVE  /\ Made(k)' = Made(k) \cup {<<type, k, r>>}
           /\ \A j \in AttackKeys \ {k} : Made(j)' = Made(j)
           /\ Begun(IncidentOf(k))' = Begun(IncidentOf(k))
                \cup (IF type = "WEB_INCIDENT_CREATED" THEN {<<type, k, r>>} ELSE {})
           /\ \A i \in IncidentKeys \ {IncidentOf(k)} : Begun(i)' = Begun(i)
<1> DEFINE e == <<type, k, r>>
<1>1. e[1] = type /\ e[2] = k /\ type \in Types /\ type # "ATTACK_ACTIVITY_UPDATED"
  BY DEF Types
<1>2. \A i \in IncidentKeys : \A t :
        t \in timeline'[i] <=> t \in timeline[i] \/ (i = IncidentOf(k) /\ t = e)
  BY IncidentOfType DEF RowTypes
<1> HIDE DEF e
<1>3. Made(k)' = Made(k) \cup {e}
  BY <1>1, <1>2, IncidentOfType DEF Made, Seen
<1>4. ASSUME NEW j \in AttackKeys \ {k} PROVE Made(j)' = Made(j)
  BY <1>1, <1>2, IncidentOfType DEF Made, Seen
<1>5. Begun(IncidentOf(k))' = Begun(IncidentOf(k)) \cup (IF type = "WEB_INCIDENT_CREATED" THEN {e} ELSE {})
  BY <1>1, <1>2, IncidentOfType DEF Begun
<1>6. ASSUME NEW i \in IncidentKeys \ {IncidentOf(k)} PROVE Begun(i)' = Begun(i)
  BY <1>2 DEF Begun
<1> QED BY <1>3, <1>4, <1>5, <1>6 DEF e

LEMMA CreateKeeps ==
    ASSUME IInv, NEW w \in Tasks, Create(w) PROVE IInv'
<1>1. PICK s \in Saving : s = session[w] /\ s.held = NoAttack
  BY SessionAt DEF Create, IInv
<1>2. PICK k : k = AttackKey(s.request, s.slug)
  OBVIOUS
<1>3. PICK new : new = Classification(s.slug, 1, Signaled(s))
  OBVIOUS
<1>4. PICK row : row = IF s.incident = NoRow THEN [severity |-> Severity[s.slug], score |-> 0, level |-> 1]
                       ELSE s.incident
  OBVIOUS
<1>5. /\ s.request \in Requests /\ s.slug \in Slugs /\ s.todo \in SUBSET Slugs
      /\ s.incident \in Row \cup {NoRow}
  BY <1>1 DEF Saving
<1>6. k \in AttackKeys /\ IncidentOf(k) \in IncidentKeys
  BY <1>2, <1>5, KeyOf
<1>7. ~Exists(k) /\ (s.incident = NoRow <=> incident[IncidentOf(k)] = NoRow)
  BY <1>1, <1>2 DEF Create, Unclaimed
<1>8. alert[k] = NoAlert /\ Made(k) = {}
  BY <1>6, <1>7 DEF IInv, RowInv, WholeAttack
<1>9. new \in [class: Classes, severity: 0 .. 4, confidence: 0 .. 100]
  <2>1. Signaled(s) \in BOOLEAN
    BY DEF Signaled
  <2> QED BY <1>3, <1>5, <2>1, ClassificationType
<1>10. row \in Row
  <2>1. Severity[s.slug] \in 0 .. 4
    BY <1>5, WebAssumption
  <2> QED BY <1>4, <1>5, <2>1 DEF Row
<1>11. PICK a : a = [count |-> 1, related |-> <<s.request>>, primary |-> s.request, class |-> new.class,
                     status |-> "DETECTED", confidence |-> new.confidence, severity |-> new.severity]
  OBVIOUS
<1>12. attack' = [attack EXCEPT ![k] = a]
  BY <1>1, <1>2, <1>3, <1>11 DEF Create
<1>13. a \in Attack /\ a.primary = s.request
  <2>1. <<s.request>> \in Seq(Requests)
    BY <1>5
  <2> QED BY <1>5, <1>9, <1>11, <2>1 DEF Attack, Statuses
<1>14. PICK b : b = [confidence |-> new.confidence, severity |-> new.severity]
  OBVIOUS
<1>15. alert' = [alert EXCEPT ![k] = b] /\ b \in Alert
  BY <1>1, <1>2, <1>3, <1>9, <1>14 DEF Create, Alert
<1>16. PICK now : now = incident[IncidentOf(k)]
  OBVIOUS
<1>17. PICK c : c = IF now = NoRow THEN [row EXCEPT !.severity = Larger(row.severity, new.severity)]
                    ELSE [now EXCEPT !.severity = Raise(row.severity, new.severity, now.severity)]
  OBVIOUS
<1>18. incident' = [incident EXCEPT ![IncidentOf(k)] = c] /\ c \in Row
  <2>1. incident' = [incident EXCEPT ![IncidentOf(k)] = c]
    BY <1>1, <1>2, <1>3, <1>4, <1>16, <1>17 DEF Create
  <2>2. now \in Row \cup {NoRow}
    BY <1>6, <1>16 DEF IInv, RowInv, RowTypes
  <2>3. c \in Row
    BY <1>9, <1>10, <1>17, <2>2 DEF Row, Raise, Larger
  <2> QED BY <2>1, <2>3
<1>19. PICK type : type = IF s.incident = NoRow THEN "WEB_INCIDENT_CREATED" ELSE "WEB_ATTACK_CORRELATED"
  OBVIOUS
<1>20. timeline' = [timeline EXCEPT ![IncidentOf(k)] = @ \cup {<<type, k, s.request>>}]
  BY <1>1, <1>2, <1>19 DEF Create, Enter
<1>21. type \in {"WEB_INCIDENT_CREATED", "WEB_ATTACK_CORRELATED"}
  BY <1>19
<1>22. /\ Made(k)' = Made(k) \cup {<<type, k, s.request>>}
       /\ \A j \in AttackKeys \ {k} : Made(j)' = Made(j)
       /\ Begun(IncidentOf(k))' = Begun(IncidentOf(k))
            \cup (IF type = "WEB_INCIDENT_CREATED" THEN {<<type, k, s.request>>} ELSE {})
       /\ \A i \in IncidentKeys \ {IncidentOf(k)} : Begun(i)' = Begun(i)
  BY <1>6, <1>20, <1>21, FirstEntry DEF IInv, RowInv
<1>23. RowTypes'
  <2>1. <<type, k, s.request>> \in Entries
    BY <1>5, <1>6, <1>21 DEF Entries, Types
  <2> QED BY <1>6, <1>12, <1>13, <1>15, <1>18, <1>20, <2>1 DEF IInv, RowInv, RowTypes
<1>24. ASSUME NEW i \in IncidentKeys, incident[i] # NoRow PROVE incident'[i] # NoRow
  BY <1>18, <1>24, WebAssumption DEF IInv, RowInv, RowTypes
<1>25. ASSUME NEW j \in AttackKeys PROVE WholeAttack(j)'
  <2>1. CASE j = k
    <3>1. Exists(k)' /\ alert'[k] # NoAlert /\ incident'[IncidentOf(k)] # NoRow
          /\ attack'[k].primary = s.request
      BY <1>6, <1>12, <1>13, <1>15, <1>18, WebAssumption DEF IInv, RowInv, RowTypes, Exists
    <3>2. Made(k)' = {<<type, k, s.request>>}
      BY <1>8, <1>22
    <3>3. <<type, k, s.request>>[3] = s.request
      OBVIOUS
    <3> QED BY <2>1, <3>1, <3>2, <3>3 DEF WholeAttack
  <2>2. CASE j # k
    <3>1. attack'[j] = attack[j] /\ alert'[j] = alert[j] /\ Made(j)' = Made(j)
      BY <1>12, <1>15, <1>22, <2>2 DEF IInv, RowInv, RowTypes
    <3>2. WholeAttack(j) /\ IncidentOf(j) \in IncidentKeys
      BY IncidentOfType DEF IInv, RowInv
    <3> QED BY <1>24, <3>1, <3>2 DEF WholeAttack, Exists
  <2> QED BY <2>1, <2>2
<1>26. ASSUME NEW i \in IncidentKeys PROVE WholeIncident(i)'
  <2>1. WholeIncident(i)
    BY DEF IInv, RowInv
  <2>2. CASE i = IncidentOf(k)
    <3>1. incident'[i] # NoRow
      BY <1>18, <2>2, WebAssumption DEF IInv, RowInv, RowTypes
    <3>2. type = "WEB_INCIDENT_CREATED" => Begun(i) = {}
      BY <1>7, <1>19, <2>1, <2>2 DEF WholeIncident
    <3> QED BY <1>22, <2>1, <2>2, <3>1, <3>2 DEF WholeIncident
  <2>3. CASE i # IncidentOf(k)
    BY <1>22, <1>24, <2>1, <2>3 DEF WholeIncident
  <2> QED BY <2>2, <2>3
<1>27. RowInv'
  <2>1. UNCHANGED <<requests, answered>> /\ owed' = owed \cup {IncidentOf(k)}
    BY <1>1, <1>2 DEF Create
  <2> QED BY <1>6, <1>23, <1>25, <1>26, <2>1 DEF IInv, RowInv
<1> DEFINE n == [step |-> "rescore", request |-> s.request, todo |-> s.todo, key |-> k,
                 mine |-> b, incident |-> row]
<1>28. Move(w, n) /\ UNCHANGED replay
  <2>1. alert'[k] = b
    BY <1>6, <1>15 DEF IInv, RowInv, RowTypes
  <2> QED BY <1>1, <1>2, <1>4, <2>1 DEF Create
<1>29. n \in Rescoring
  BY <1>5, <1>6, <1>10, <1>15 DEF Rescoring
<1>30. \A j \in AttackKeys : Exists(j) => Exists(j)'
  BY <1>12, <1>13, WebAssumption DEF IInv, RowInv, RowTypes, Exists
<1>31. n \in Session /\ Consistent(n)'
  <2>1. Exists(k)'
    BY <1>6, <1>12, <1>13, WebAssumption DEF IInv, RowInv, RowTypes, Exists
  <2> QED BY <1>29, <2>1 DEF Session, Consistent
<1> HIDE DEF n
<1>32. SessionInv'
  BY <1>28, <1>30, <1>31, SessionStep DEF IInv
<1> QED BY <1>27, <1>28, <1>32, SameReplay DEF IInv

LEMMA RescoreKeeps ==
    ASSUME IInv, NEW w \in Tasks, Rescore(w) PROVE IInv'
<1>1. PICK s \in Rescoring : s = session[w]
  BY SessionAt DEF Rescore, IInv
<1>2. /\ s.request \in Requests \cup {NoRequest} /\ s.todo \in SUBSET Slugs /\ s.key \in AttackKeys
      /\ s.mine \in Alert \cup {NoAlert} /\ s.incident \in Row /\ s.step = "rescore"
  BY DEF Rescoring
<1>3. PICK held : held = [alert EXCEPT ![s.key] = IF s.mine = NoAlert THEN @ ELSE s.mine]
  OBVIOUS
<1>4. PICK all : all = Alerts(IncidentOf(s.key))
  OBVIOUS
<1>5. all \in SUBSET AttackKeys /\ \A k \in all : held[k] \in Alert
  BY <1>2, <1>3, <1>4 DEF Alerts, IInv, RowInv, RowTypes
<1>6. PICK score : score = RiskScore(Max({held[k].severity : k \in all}),
                                     Max({held[k].confidence : k \in all}), Cardinality(all), 0)
  OBVIOUS
<1>7. score \in Nat
  BY <1>5, <1>6, ScoreOfSome
<1> DEFINE n == [step |-> "score", request |-> s.request, todo |-> s.todo, key |-> s.key,
                 incident |-> s.incident, score |-> score]
<1>8. n \in Scoring
  BY <1>2, <1>7 DEF Scoring
<1>9. n \in Session /\ Consistent(n)
  <2>1. Consistent(s)
    BY <1>1 DEF IInv, SessionInv
  <2> QED BY <1>2, <1>8, <2>1 DEF Session, Consistent
<1>10. Move(w, n)
  BY <1>1, <1>3, <1>4, <1>6 DEF Rescore
<1>11. UNCHANGED <<rows, answered, owed>> /\ ReplayInv'
  BY SameReplay DEF Rescore, IInv
<1> HIDE DEF n
<1> QED BY <1>9, <1>10, <1>11, MoveKeeps

LEMMA ScoreKeeps ==
    ASSUME IInv, NEW w \in Tasks, Score(w) PROVE IInv'
<1>1. PICK s \in Scoring : s = session[w]
  BY SessionAt DEF Score, IInv
<1>2. PICK i : i = IncidentOf(s.key)
  OBVIOUS
<1>3. /\ s.request \in Requests \cup {NoRequest} /\ s.todo \in SUBSET Slugs /\ s.key \in AttackKeys
      /\ s.incident \in Row /\ s.score \in Nat /\ s.step = "score"
  BY DEF Scoring
<1>4. i \in IncidentKeys
  BY <1>2, <1>3, IncidentOfType
<1>5. Exists(s.key)
  <2>1. Consistent(s)
    BY <1>1 DEF IInv, SessionInv
  <2> QED BY <1>3, <2>1 DEF Consistent
<1>6. attack[s.key] \in Attack /\ incident[i] \in Row
  BY <1>2, <1>3, <1>4, <1>5 DEF IInv, RowInv, RowTypes, WholeAttack, Exists
<1>7. PICK c : c = Assess(incident[i], s.incident, s.score)
  OBVIOUS
<1>8. incident' = [incident EXCEPT ![i] = c]
  BY <1>1, <1>2, <1>7 DEF Score
<1>9. c \in Row
  <2>1. Level(s.score) \in 1 .. 4
    BY DEF Level
  <2>2. PICK x : x = Flush(s.incident.score, s.score, incident[i].score)
    OBVIOUS
  <2>3. PICK y : y = Flush(s.incident.level, Level(s.score), incident[i].level)
    OBVIOUS
  <2>4. x \in Nat /\ y \in 1 .. 4
    BY <1>3, <1>6, <2>1, <2>2, <2>3 DEF Flush, Row
  <2>5. c = [incident[i] EXCEPT !.score = x, !.level = y]
    BY <1>7, <2>2, <2>3 DEF Assess
  <2> QED BY <1>6, <2>4, <2>5 DEF Row
<1>10. UNCHANGED <<requests, attack, alert, timeline, answered>> /\ owed' = owed \ {i}
  BY <1>1, <1>2 DEF Score
<1>11. RowTypes'
  BY <1>4, <1>8, <1>9, <1>10 DEF IInv, RowInv, RowTypes
<1>12. RowInv'
  <2>1. \A j \in IncidentKeys : incident[j] # NoRow => incident'[j] # NoRow
    BY <1>8, <1>9, WebAssumption DEF IInv, RowInv, RowTypes
  <2>2. /\ \A k \in AttackKeys : Made(k)' = Made(k)
        /\ \A j \in IncidentKeys : Begun(j)' = Begun(j)
    BY <1>10 DEF Made, Seen, Begun
  <2>3. \A k \in AttackKeys : /\ Exists(k)' <=> Exists(k)
                              /\ alert'[k] # NoAlert <=> alert[k] # NoAlert
                              /\ Exists(k) => attack'[k].primary = attack[k].primary
    BY <1>10 DEF Exists
  <2>4. (\A k \in AttackKeys : WholeAttack(k)') /\ (\A j \in IncidentKeys : WholeIncident(j)')
    BY <1>11, <2>1, <2>2, <2>3, WriteKeeps DEF IInv
  <2> QED BY <1>10, <1>11, <2>4 DEF IInv, RowInv
<1> DEFINE n == IF s.request = NoRequest THEN Idle
                ELSE [step |-> "find", request |-> s.request, todo |-> s.todo, seen |-> c]
<1>13. Move(w, n)
  <2>1. incident'[i] = c
    BY <1>4, <1>8 DEF IInv, RowInv, RowTypes
  <2> QED BY <1>1, <1>2, <2>1 DEF Score
<1>14. n \in {Idle} \cup Finding
  BY <1>3, <1>9 DEF Finding
<1>15. n \in Session /\ Consistent(n)'
  BY <1>14 DEF Session, Consistent, Idle, Finding
<1> HIDE DEF n
<1>16. SessionInv'
  <2>1. \A k \in AttackKeys : Exists(k) => Exists(k)'
    BY <1>10 DEF Exists
  <2> QED BY <1>13, <1>15, <2>1, SessionStep DEF IInv
<1>17. ReplayInv'
  <2>1. CASE ~replay[w].on
    <3>1. UNCHANGED replay
      BY <2>1 DEF Score
    <3> QED BY <3>1, SameReplay DEF IInv
  <2>2. CASE replay[w].on
    <3>1. PICK run \in Run : run = replay[w]
      BY DEF IInv, ReplayInv
    <3>2. PICK found : found = [k \in DOMAIN run.found \cup {s.key} |->
                                  IF k = s.key THEN attack[k] ELSE run.found[k]]
      OBVIOUS
    <3>3. found \in Copies
      <4>1. \A k \in DOMAIN run.found : k \in AttackKeys /\ run.found[k] \in Attack
        BY CopiesType DEF Run
      <4>2. DOMAIN run.found \cup {s.key} \in SUBSET AttackKeys
        BY <1>3, <4>1
      <4>3. found \in [DOMAIN run.found \cup {s.key} -> Attack]
        BY <1>6, <3>2, <4>1
      <4> QED BY <4>2, <4>3 DEF Copies
    <3>4. replay' = [replay EXCEPT ![w].found = found, ![w].incidents = @ \cup {i}]
      BY <1>1, <1>2, <2>2, <3>1, <3>2 DEF Score
    <3> QED BY <1>4, <3>3, <3>4 DEF IInv, ReplayInv, Run
  <2> QED BY <2>1, <2>2
<1> QED BY <1>12, <1>16, <1>17 DEF IInv

LEMMA MarkKeeps ==
    ASSUME IInv, NEW w \in Tasks, NEW class \in Classes, NEW status \in Statuses,
           Mark(w, class, status)
    PROVE  IInv'
<1>1. PICK s \in Marking : s = session[w]
  BY SessionAt DEF Mark, IInv
<1>2. /\ s.key \in AttackKeys /\ s.held \in Attack /\ s.alert \in Alert /\ s.incident \in Row
      /\ s.step = "mark"
  BY DEF Marking
<1>3. Exists(s.key) /\ IncidentOf(s.key) \in IncidentKeys
  <2>1. Consistent(s)
    BY <1>1 DEF IInv, SessionInv
  <2> QED BY <1>2, <2>1, IncidentOfType DEF Consistent
<1>4. attack[s.key] \in Attack /\ alert[s.key] \in Alert
  BY <1>2, <1>3 DEF IInv, RowInv, RowTypes, WholeAttack, Exists
<1>5. PICK a : a = [attack[s.key] EXCEPT
                      !.class = Flush(s.held.class, class, attack[s.key].class),
                      !.status = Flush(s.held.status, IF class = "FALSE_POSITIVE" THEN class ELSE status,
                                       attack[s.key].status)]
  OBVIOUS
<1>6. attack' = [attack EXCEPT ![s.key] = a]
  BY <1>1, <1>5 DEF Mark
<1>7. a \in Attack /\ a.primary = attack[s.key].primary
  BY <1>4, <1>5 DEF Attack, Flush, Statuses
<1>8. alert' \in [AttackKeys -> Alert \cup {NoAlert}]
      /\ \A k \in AttackKeys : alert'[k] # NoAlert <=> alert[k] # NoAlert
  <2>1. CASE class = "FALSE_POSITIVE"
    <3>1. PICK c : c = Flush(s.alert.confidence, 0, alert[s.key].confidence)
      OBVIOUS
    <3>2. alert' = [alert EXCEPT ![s.key].confidence = c]
      BY <1>1, <2>1, <3>1 DEF Mark
    <3>3. c \in 0 .. 100
      BY <1>4, <3>1 DEF Flush, Alert
    <3>4. [alert[s.key] EXCEPT !.confidence = c] \in Alert
      BY <1>4, <3>3 DEF Alert
    <3> QED BY <1>2, <1>4, <3>2, <3>4, WebAssumption DEF IInv, RowInv, RowTypes
  <2>2. CASE class # "FALSE_POSITIVE"
    BY <2>2 DEF Mark, IInv, RowInv, RowTypes
  <2> QED BY <2>1, <2>2
<1> DEFINE e == <<"ATTACK_CLASSIFICATION_UPDATED", s.key, NoRequest>>
<1>9. timeline' = [timeline EXCEPT ![IncidentOf(s.key)] = @ \cup {e}]
  BY <1>1 DEF Mark, Enter
<1>10. e \in Entries /\ e[1] \notin {"WEB_INCIDENT_CREATED", "WEB_ATTACK_CORRELATED"}
  BY <1>2 DEF Entries
<1> HIDE DEF e
<1>11. UNCHANGED <<requests, incident, answered, replay>> /\ owed' = owed \cup {IncidentOf(s.key)}
  BY <1>1 DEF Mark
<1>12. RowTypes'
  BY <1>2, <1>3, <1>6, <1>7, <1>8, <1>9, <1>10, <1>11 DEF IInv, RowInv, RowTypes
<1>13. RowInv'
  <2>1. \A k \in AttackKeys : /\ Exists(k)' <=> Exists(k)
                              /\ Exists(k) => attack'[k].primary = attack[k].primary
    BY <1>2, <1>3, <1>4, <1>6, <1>7, WebAssumption DEF IInv, RowInv, RowTypes, Exists
  <2>2. /\ \A k \in AttackKeys : Made(k)' = Made(k)
        /\ \A i \in IncidentKeys : Begun(i)' = Begun(i)
    BY <1>3, <1>9, <1>10, LaterEntry DEF IInv, RowInv
  <2>3. (\A k \in AttackKeys : WholeAttack(k)') /\ (\A i \in IncidentKeys : WholeIncident(i)')
    BY <1>8, <1>11, <1>12, <2>1, <2>2, WriteKeeps DEF IInv
  <2> QED BY <1>3, <1>11, <1>12, <2>3 DEF IInv, RowInv
<1> DEFINE n == [step |-> "rescore", request |-> NoRequest, todo |-> {}, key |-> s.key,
                 mine |-> IF class = "FALSE_POSITIVE" THEN [s.alert EXCEPT !.confidence = 0] ELSE NoAlert,
                 incident |-> s.incident]
<1>14. Move(w, n)
  BY <1>1 DEF Mark
<1>15. n \in Rescoring
  <2>1. [s.alert EXCEPT !.confidence = 0] \in Alert
    BY <1>2 DEF Alert
  <2> QED BY <1>2, <2>1 DEF Rescoring
<1>16. \A k \in AttackKeys : Exists(k) => Exists(k)'
  BY <1>6, <1>7, WebAssumption DEF IInv, RowInv, RowTypes, Exists
<1>17. n \in Session /\ Consistent(n)'
  BY <1>2, <1>3, <1>15, <1>16 DEF Session, Consistent
<1> HIDE DEF n
<1>18. SessionInv'
  BY <1>14, <1>16, <1>17, SessionStep DEF IInv
<1> QED BY <1>11, <1>13, <1>18, SameReplay DEF IInv

LEMMA ConcludeKeeps ==
    ASSUME IInv, NEW w \in Tasks, Conclude(w) PROVE IInv'
<1>1. UNCHANGED <<requests, attack, alert, incident, answered, owed>> /\ Leave(w)
  BY DEF Conclude
<1>2. CASE UNCHANGED timeline
  BY <1>1, <1>2, LeaveKeeps DEF rows
<1>3. CASE ~ UNCHANGED timeline
  <2> DEFINE e == <<"RESPONSE_VERIFICATION", NoAttack, NoRequest>>
  <2>1. PICK i \in replay[w].incidents : timeline' = [timeline EXCEPT ![i] = @ \cup {e}]
    BY <1>3 DEF Conclude
  <2>2. i \in IncidentKeys
    BY DEF IInv, ReplayInv, Run
  <2>3. e \in Entries /\ e[1] \notin {"WEB_INCIDENT_CREATED", "WEB_ATTACK_CORRELATED"}
    BY DEF Entries
  <2> HIDE DEF e
  <2>4. RowTypes'
    BY <1>1, <2>1, <2>2, <2>3 DEF IInv, RowInv, RowTypes
  <2>5. /\ \A k \in AttackKeys : Made(k)' = Made(k)
        /\ \A j \in IncidentKeys : Begun(j)' = Begun(j)
    BY <2>1, <2>2, <2>3, LaterEntry DEF IInv, RowInv
  <2>6. \A k \in AttackKeys : Exists(k)' <=> Exists(k)
    BY <1>1 DEF Exists
  <2>7. (\A k \in AttackKeys : WholeAttack(k)') /\ (\A j \in IncidentKeys : WholeIncident(j)')
    BY <1>1, <2>4, <2>5, <2>6, WriteKeeps DEF IInv
  <2>8. RowInv'
    BY <1>1, <2>4, <2>7 DEF IInv, RowInv
  <2>9. Idle \in Session /\ Consistent(Idle)'
    BY DEF Session, Idle, Consistent
  <2>10. SessionInv'
    BY <1>1, <2>6, <2>9, SessionStep DEF IInv, Leave
  <2>11. ReplayInv'
    BY <1>1, EmptyRun, ReplayStep DEF IInv, Leave
  <2> QED BY <2>8, <2>10, <2>11 DEF IInv
<1> QED BY <1>2, <1>3

-----------------------------------------------------------------------------
(* The resets.                                                              *)

\* What stays does not share an incident with what goes, so an attack that goes takes
\* its entries with it.
LEMMA KeepKeeps ==
    ASSUME IInv, NEW stored \in SUBSET Requests, NEW attacks \in SUBSET AttackKeys,
           \A k \in attacks : Exists(k),
           \A k \in AttackKeys \ attacks : Exists(k) =>
             \A j \in attacks : IncidentOf(j) # IncidentOf(k),
           Keep(stored, attacks), answered' \subseteq stored
    PROVE  IInv'
<1> DEFINE left == {IncidentOf(k) : k \in attacks}
<1>1. /\ requests' = stored
      /\ attack' = [k \in AttackKeys |-> IF k \in attacks THEN attack[k] ELSE NoAttack]
      /\ alert' = [k \in AttackKeys |-> IF k \in attacks THEN alert[k] ELSE NoAlert]
      /\ incident' = [i \in IncidentKeys |-> IF i \in left THEN incident[i] ELSE NoRow]
      /\ timeline' = [i \in IncidentKeys |-> IF i \in left THEN timeline[i] ELSE {}]
      /\ owed' = owed \cap left
  BY DEF Keep
<1>2. RowTypes'
  BY <1>1 DEF IInv, RowInv, RowTypes
<1>3. ASSUME NEW k \in AttackKeys PROVE WholeAttack(k)'
  <2>1. WholeAttack(k) /\ IncidentOf(k) \in IncidentKeys
    BY IncidentOfType DEF IInv, RowInv
  <2>2. CASE k \in attacks
    <3>1. IncidentOf(k) \in left
      BY <2>2
    <3> HIDE DEF left
    <3>2. /\ attack'[k] = attack[k] /\ alert'[k] = alert[k]
          /\ incident'[IncidentOf(k)] = incident[IncidentOf(k)]
          /\ timeline'[IncidentOf(k)] = timeline[IncidentOf(k)]
      BY <1>1, <2>1, <2>2, <3>1
    <3>3. Made(k)' = Made(k)
      BY <3>2 DEF Made, Seen
    <3> QED BY <2>1, <3>2, <3>3 DEF WholeAttack, Exists
  <2>3. CASE k \notin attacks
    <3>1. attack'[k] = NoAttack /\ alert'[k] = NoAlert
      BY <1>1, <2>3
    <3>2. Made(k)' = {}
      <4>1. CASE IncidentOf(k) \in left
        <5>1. ~Exists(k)
          BY <2>3, <4>1
        <5>2. timeline'[IncidentOf(k)] = timeline[IncidentOf(k)]
          BY <1>1, <2>1, <4>1
        <5>3. Made(k)' = Made(k)
          BY <5>2 DEF Made, Seen
        <5> QED BY <2>1, <5>1, <5>3 DEF WholeAttack
      <4>2. CASE IncidentOf(k) \notin left
        <5>1. timeline'[IncidentOf(k)] = {}
          BY <1>1, <2>1, <4>2
        <5> QED BY <5>1 DEF Made, Seen
      <4> QED BY <4>1, <4>2
    <3> QED BY <3>1, <3>2 DEF WholeAttack, Exists
  <2> QED BY <2>2, <2>3
<1>4. ASSUME NEW i \in IncidentKeys PROVE WholeIncident(i)'
  <2>1. WholeIncident(i)
    BY DEF IInv, RowInv
  <2>2. CASE i \in left
    <3> HIDE DEF left
    <3>1. timeline'[i] = timeline[i] /\ incident'[i] = incident[i]
      BY <1>1, <2>2
    <3> QED BY <2>1, <3>1 DEF WholeIncident, Begun
  <2>3. CASE i \notin left
    <3>1. timeline'[i] = {}
      BY <1>1, <2>3
    <3> QED BY <3>1 DEF WholeIncident, Begun
  <2> QED BY <2>2, <2>3
<1>5. RowInv'
  BY <1>1, <1>2, <1>3, <1>4 DEF IInv, RowInv
<1>6. SessionInv'
  <2>1. session' = [w \in Tasks |-> IF Gone(w, stored, attacks) THEN Doomed ELSE Forget(session[w], left)]
    BY DEF Keep
  <2>2. \A k \in attacks : Exists(k)'
    BY <1>1 DEF Exists
  <2>3. ASSUME NEW w \in Tasks PROVE session'[w] \in Session /\ Consistent(session[w])'
    <3>1. CASE Gone(w, stored, attacks)
      <4>1. session'[w] = Doomed
        BY <2>1, <3>1
      <4> QED BY <4>1 DEF Session, Doomed, Consistent
    <3>2. CASE ~Gone(w, stored, attacks)
      <4>1. PICK s \in Session : s = session[w]
        BY DEF IInv, SessionInv
      <4>2. PICK n : n = Forget(s, left)
        OBVIOUS
      <4>3. session'[w] = n
        BY <2>1, <3>2, <4>1, <4>2
      <4>4. CASE s.step \in {"find", "load"} /\ IncidentKey(s.request) \notin left
        <5>1. n = [s EXCEPT !.seen = NoRow]
          BY <4>2, <4>4 DEF Forget
        <5>2. s \in Finding \cup Loading
          BY <4>4 DEF Session, Idle, Doomed, Storing, Finding, Loading, Saving, Marking,
                      Rescoring, Scoring, Replying
        <5>3. CASE s \in Finding
          <6>1. n \in Finding
            BY <5>1, <5>3 DEF Finding
          <6>2. n.step = "find"
            BY <6>1 DEF Finding
          <6> QED BY <4>3, <6>1, <6>2 DEF Session, Consistent
        <5>4. CASE s \in Loading
          <6>1. n \in Loading /\ n.request = s.request /\ n.slug = s.slug /\ n.held = s.held
            BY <5>1, <5>4 DEF Loading
          <6>2. n.held # NoAttack => AttackKey(n.request, n.slug) \in attacks
            BY <3>2, <4>1, <4>4, <5>4, <6>1 DEF Gone, Loading
          <6>3. n.step = "load"
            BY <6>1 DEF Loading
          <6>4. Consistent(n)'
            BY <2>2, <6>2, <6>3 DEF Consistent
          <6> QED BY <4>3, <6>1, <6>4 DEF Session, Consistent
        <5> QED BY <5>2, <5>3, <5>4
      <4>5. CASE ~(s.step \in {"find", "load"} /\ IncidentKey(s.request) \notin left)
        <5>1. n = s
          BY <4>2, <4>5 DEF Forget
        <5>2. Consistent(s)
          BY <4>1 DEF IInv, SessionInv
        <5>3. s.step \in {"load", "save"} /\ s.held # NoAttack => AttackKey(s.request, s.slug) \in attacks
          BY <3>2, <4>1 DEF Gone
        <5>4. s.step \in {"mark", "rescore", "score"} => s.key \in attacks
          BY <3>2, <4>1 DEF Gone
        <5>5. Consistent(s)'
          BY <2>2, <5>2, <5>3, <5>4 DEF Consistent
        <5> QED BY <4>3, <5>1, <5>5 DEF Consistent
      <4> QED BY <4>4, <4>5
    <3> QED BY <3>1, <3>2
  <2> QED BY <2>1, <2>3 DEF SessionInv
<1>7. ReplayInv'
  <2>1. replay' = [w \in Tasks |->
           [replay[w] EXCEPT !.known = Remaining(@, attacks), !.found = Remaining(@, attacks),
                             !.incidents = @ \cap left]]
    BY DEF Keep
  <2>2. ASSUME NEW run \in Run
        PROVE  [run EXCEPT !.known = Remaining(@, attacks), !.found = Remaining(@, attacks),
                           !.incidents = @ \cap left] \in Run
    <3>1. Remaining(run.known, attacks) \in Copies /\ Remaining(run.found, attacks) \in Copies
      BY CopiesType DEF Run
    <3> HIDE DEF left
    <3> QED BY <3>1 DEF Run
  <2> QED BY <2>1, <2>2 DEF IInv, ReplayInv
<1> QED BY <1>5, <1>6, <1>7 DEF IInv

LEMMA ResetKeeps == IInv /\ Reset => IInv'
BY KeepKeeps DEF Reset

LEMMA WebResetKeeps == IInv /\ WebReset => IInv'
<1> SUFFICES ASSUME IInv, WebReset PROVE IInv'
  OBVIOUS
<1>1. PICK known : known = {k \in AttackKeys : Exists(k)}
  OBVIOUS
<1>2. PICK left : left = {k \in known : attack[k].primary \notin Demo}
  OBVIOUS
<1>3. /\ {IncidentOf(k) : k \in left} \cap {IncidentOf(k) : k \in known \ left} = {}
      /\ Keep(requests \ Demo, left)
      /\ answered' = {r \in answered \ Demo : \A s \in Slugs : AttackKey(r, s) \notin known \ left}
  BY <1>1, <1>2 DEF WebReset
<1>4. left \in SUBSET AttackKeys /\ \A k \in left : Exists(k)
  BY <1>1, <1>2
<1>5. ASSUME NEW k \in AttackKeys \ left, Exists(k), NEW j \in left
      PROVE  IncidentOf(j) # IncidentOf(k)
  BY <1>1, <1>3, <1>5
<1>6. requests \ Demo \in SUBSET Requests /\ answered' \subseteq requests \ Demo
  BY <1>3 DEF IInv, RowInv
<1> QED BY <1>3, <1>4, <1>5, <1>6, KeepKeeps

-----------------------------------------------------------------------------
(* The theorem.                                                             *)

LEMMA StepKeeps == IInv /\ [Next]_vars => IInv'
<1> SUFFICES ASSUME IInv, [Next]_vars PROVE IInv'
  OBVIOUS
<1>1. ASSUME NEW w \in Tasks, Call(w) PROVE IInv'
  <2>1. ASSUME NEW r \in Requests, Deliver(w, r) PROVE IInv'
    BY <2>1, DeliverKeeps
  <2>2. ASSUME NEW r \in Requests, Duplicate(w, r) PROVE IInv'
    <3>1. UNCHANGED vars
      BY <2>2 DEF Duplicate
    <3>2. RowInv' /\ SessionInv' /\ ReplayInv'
      BY <3>1 DEF vars, IInv, RowInv, RowTypes, WholeAttack, WholeIncident, Exists, Made, Begun, Seen,
                  SessionInv, Consistent, ReplayInv
    <3> QED BY <3>2 DEF IInv
  <2>3. ASSUME NEW script \in Replays, Replay(w, script) PROVE IInv'
    BY <2>3, ReplayKeeps
  <2>4. ASSUME NEW k \in AttackKeys, Review(w, k) PROVE IInv'
    BY <2>4, ReviewKeeps
  <2> QED BY <1>1, <2>1, <2>2, <2>3, <2>4 DEF Call
<1>2. ASSUME NEW w \in Tasks, Continue(w) PROVE IInv'
  <2>1. CASE Store(w)
    BY <2>1, StoreKeeps
  <2>2. CASE \E slug \in Slugs : Find(w, slug)
    BY <2>2, FindKeeps
  <2>3. CASE Load(w)
    BY <2>3, LoadKeeps
  <2>4. CASE Update(w)
    BY <2>4, UpdateKeeps
  <2>5. CASE Create(w)
    BY <2>5, CreateKeeps
  <2>6. CASE CreateRefused(w)
    BY <2>6, LeaveKeeps DEF CreateRefused
  <2>7. CASE Rescore(w)
    BY <2>7, RescoreKeeps
  <2>8. CASE Score(w)
    BY <2>8, ScoreKeeps
  <2>9. CASE Finish(w)
    BY <2>9, FinishKeeps
  <2>10. CASE Reply(w)
    BY <2>10, ReplyKeeps
  <2>11. CASE Advance(w)
    BY <2>11, AdvanceKeeps
  <2>12. CASE Conclude(w)
    BY <2>12, ConcludeKeeps
  <2>13. CASE \E class \in Classes, status \in Statuses : Mark(w, class, status)
    BY <2>13, MarkKeeps
  <2>14. CASE Fail(w)
    BY <2>14, LeaveKeeps DEF Fail
  <2> QED BY <1>2, <2>1, <2>2, <2>3, <2>4, <2>5, <2>6, <2>7, <2>8, <2>9, <2>10, <2>11, <2>12,
             <2>13, <2>14 DEF Continue
<1>3. ASSUME NEW w \in Tasks, Abort(w) PROVE IInv'
  BY <1>3, LeaveKeeps DEF Abort
<1>4. CASE Reset \/ WebReset
  BY <1>4, ResetKeeps, WebResetKeeps
<1>5. CASE UNCHANGED vars
  <2>1. RowInv' /\ SessionInv' /\ ReplayInv'
    BY <1>5 DEF vars, IInv, RowInv, RowTypes, WholeAttack, WholeIncident, Exists, Made, Begun, Seen,
                SessionInv, Consistent, ReplayInv
  <2> QED BY <2>1 DEF IInv
<1> QED BY <1>1, <1>2, <1>3, <1>4, <1>5 DEF Next

\* Whatever deliveries, demos, analysts and resets run side by side, no attack is ever
\* without its alert, its incident or the entry of its creation, none of which is made twice
\* (web_detection.py:231-365; the demo and the resets: web_security.py:518-771,
\* routes.py:1152-1187).
THEOREM WebCreatedTogether == Spec => []CreatedTogether
<1>1. Init => IInv
  BY Starts
<1>2. IInv /\ [Next]_vars => IInv'
  BY StepKeeps
<1>3. IInv => CreatedTogether
  BY Implied
<1> QED BY <1>1, <1>2, <1>3, PTL DEF Spec

\* Tables, handlers and demos hold values of their kinds, whatever races and whatever is reset
\* (web_detection.py:231-433, web_security.py:518-771).
THEOREM WebTypes == Spec => []TypeOK
<1>1. Init => IInv
  BY Starts
<1>2. IInv /\ [Next]_vars => IInv'
  BY StepKeeps
<1> QED BY <1>1, <1>2, Implied, PTL DEF Spec

-----------------------------------------------------------------------------
(* The counts.  A copy of an attack that some handler holds may be stale,    *)
(* but what it says stays true of the timeline, and a request that is still  *)
(* to be counted is on no timeline and with no other handler.                *)

CountedIn(a, seen) ==
    /\ Len(a.related) = AtMost(KEEP + 1, a.count)
    /\ \A m, n \in DOMAIN a.related : a.related[m] = a.related[n] => m = n
    /\ ToSet(a.related) \subseteq {t[3] : t \in seen}
    /\ a.count <= Cardinality(seen)

Counted(a, k) == CountedIn(a, Seen(k))

SeenIn(k, r) == \E t \in Seen(k) : t[3] = r
Entered(r) == \E t \in timeline[IncidentKey(r)] : t[3] = r

Carries(s) == s.step \in {"find", "load", "save", "rescore", "score"} /\ s.request # NoRequest
Todo(s) == IF s.step \in {"load", "save"} THEN s.todo \cup {s.slug} ELSE s.todo

DeliveryOK(s) ==
    /\ s.step = "store" /\ s.request \notin requests => ~Entered(s.request)
    /\ Carries(s) =>
         /\ s.request \in requests \/ Entered(s.request)
         /\ \A c \in Todo(s) : ~SeenIn(AttackKey(s.request, c), s.request)
         /\ s.step \in {"rescore", "score"} => SeenIn(s.key, s.request) /\ IncidentOf(s.key) = IncidentKey(s.request)
    /\ s.step \in {"load", "save"} => s.slug \notin s.todo
    /\ s.step \in {"load", "save"} /\ s.held # NoAttack => Counted(s.held, AttackKey(s.request, s.slug))

CopiesCounted(f) == \A k \in DOMAIN f : Counted(f[k], k)

AttacksCounted == \A k \in AttackKeys : Exists(k) => Counted(attack[k], k)
DeliveriesOK ==
    /\ \A w \in Tasks : DeliveryOK(session[w])
    /\ \A v, w \in Tasks : v # w /\ Carries(session[v]) /\ Carries(session[w])
         => session[v].request # session[w].request
ReplaysCounted == \A w \in Tasks : CopiesCounted(replay[w].known) /\ CopiesCounted(replay[w].found)

DInv == AttacksCounted /\ DeliveriesOK /\ ReplaysCounted

LEMMA EntriesFinite ==
    ASSUME NEW entries \in SUBSET Entries, NEW k \in AttackKeys, NEW seen,
           seen = {t \in entries : t[1] \in Types /\ t[2] = k}
    PROVE  IsFiniteSet(seen) /\ \A t \in seen : t = <<t[1], k, t[3]>> /\ t[3] \in Requests
<1>1. ASSUME NEW t \in seen PROVE t = <<t[1], k, t[3]>> /\ t[3] \in Requests /\ t[1] \in Types
  <2>1. t \in Entries /\ t[1] \in Types /\ t[2] = k
    OBVIOUS
  <2>2. t \in Types \X AttackKeys \X Requests
    BY <2>1 DEF Entries, Types
  <2> QED BY <2>1, <2>2
<1>2. IsFiniteSet(Types \X Requests)
  <2>1. IsFiniteSet(Types)
    <3>1. IsFiniteSet({}) /\ Types = (({} \cup {"WEB_INCIDENT_CREATED"}) \cup {"WEB_ATTACK_CORRELATED"})
                                      \cup {"ATTACK_ACTIVITY_UPDATED"}
      BY FS_EmptySet DEF Types
    <3>2. IsFiniteSet({} \cup {"WEB_INCIDENT_CREATED"})
      BY <3>1, FS_AddElement
    <3>3. IsFiniteSet(({} \cup {"WEB_INCIDENT_CREATED"}) \cup {"WEB_ATTACK_CORRELATED"})
      BY <3>2, FS_AddElement
    <3> QED BY <3>1, <3>3, FS_AddElement
  <2> QED BY <2>1, CandidatesAssumption, FS_Product
<1> DEFINE f == [p \in Types \X Requests |-> <<p[1], k, p[2]>>]
           T == {f[p] : p \in Types \X Requests}
<1>3. IsFiniteSet(T)
  <2>1. f \in Surjection(Types \X Requests, T)
    BY DEF Surjection
  <2> HIDE DEF f, T
  <2> QED BY <1>2, <2>1, FS_Surjection
<1>4. seen \in SUBSET T
  <2>1. ASSUME NEW t \in seen PROVE t \in T
    <3>1. <<t[1], t[3]>> \in Types \X Requests
      BY <1>1
    <3>2. f[<<t[1], t[3]>>] = t
      BY <1>1, <3>1
    <3> QED BY <3>1, <3>2
  <2> QED BY <2>1
<1>5. IsFiniteSet(seen)
  <2> HIDE DEF T
  <2> QED BY <1>3, <1>4, FS_Subset
<1> QED BY <1>1, <1>5

LEMMA SeenFinite ==
    ASSUME RowTypes, NEW k \in AttackKeys
    PROVE  IsFiniteSet(Seen(k)) /\ \A t \in Seen(k) : t = <<t[1], k, t[3]>> /\ t[3] \in Requests
<1>1. timeline[IncidentOf(k)] \in SUBSET Entries
  BY IncidentOfType DEF RowTypes
<1> QED BY <1>1, EntriesFinite DEF Seen

\* What a copy says stays true while the timeline grows.
LEMMA CountedStays ==
    ASSUME RowTypes, RowTypes', NEW k \in AttackKeys, Seen(k) \subseteq Seen(k)',
           NEW a \in Attack, Counted(a, k)
    PROVE  Counted(a, k)'
<1>1. PICK S, T : S = Seen(k) /\ T = Seen(k)'
  OBVIOUS
<1>2. IsFiniteSet(T) /\ S \in SUBSET T
  <2>1. timeline'[IncidentOf(k)] \in SUBSET Entries
    BY IncidentOfType DEF RowTypes
  <2>2. IsFiniteSet(Seen(k)')
    BY <2>1, EntriesFinite DEF Seen
  <2> QED BY <1>1, <2>2
<1>3. Cardinality(S) <= Cardinality(T) /\ Cardinality(S) \in Nat /\ Cardinality(T) \in Nat
  BY <1>2, FS_Subset, FS_CardinalityType
<1>4. a.count <= Cardinality(S) /\ a.count \in Nat
  BY <1>1 DEF Counted, CountedIn, Attack
<1>5. a.count <= Cardinality(T)
  BY <1>3, <1>4
<1>6. ToSet(a.related) \subseteq {t[3] : t \in T}
  BY <1>1, <1>2 DEF Counted, CountedIn
<1> QED BY <1>1, <1>5, <1>6 DEF Counted, CountedIn

\* The copy with one more request, once that is on the timeline.
LEMMA CountedMore ==
    ASSUME RowTypes, RowTypes', NEW k \in AttackKeys, NEW r \in Requests, NEW e,
           Seen(k)' = Seen(k) \cup {e}, e[3] = r, ~SeenIn(k, r),
           NEW a \in Attack, Counted(a, k),
           NEW b \in Attack, b.count = a.count + 1, b.related = Remember(a.related, r)
    PROVE  Counted(b, k)'
<1>1. a.count \in Nat /\ a.related \in Seq(Requests) /\ KEEP \in Nat \ {0}
  BY WebAssumption DEF Attack
<1>2. r \notin ToSet(a.related)
  BY DEF Counted, CountedIn, SeenIn
<1> DEFINE from == Larger(1, Len(a.related) - KEEP + 1)
           tail == SubSeq(a.related, from, Len(a.related))
<1>3. PICK l \in Nat : l = Len(a.related)
  BY <1>1
<1>4. l = AtMost(KEEP + 1, a.count)
  BY <1>3 DEF Counted, CountedIn
<1>5. from \in 1 .. l + 1 /\ l - from + 1 = AtMost(KEEP, l)
  BY <1>1, <1>3, <1>4 DEF Larger, AtMost
<1> HIDE DEF from
<1>6. /\ tail \in Seq(Requests) /\ Len(tail) = l - from + 1
      /\ \A i \in 1 .. l - from + 1 : tail[i] = a.related[from + i - 1]
  <2>1. \A i \in from .. l : a.related[i] \in Requests
    BY <1>1, <1>3, <1>5
  <2>2. from \in Int /\ l \in Int /\ (from <= l \/ l - from + 1 = 0)
    BY <1>5
  <2>3. /\ SubSeq(a.related, from, l) \in Seq(Requests)
        /\ Len(SubSeq(a.related, from, l)) = IF from <= l THEN l - from + 1 ELSE 0
        /\ \A i \in 1 .. l - from + 1 : SubSeq(a.related, from, l)[i] = a.related[from + i - 1]
    BY <2>1, <2>2, SubSeqProperties
  <2> QED BY <1>3, <2>2, <2>3
<1> HIDE DEF tail
<1>7. b.related = Append(tail, r)
  BY <1>2 DEF Remember, tail, from
<1>8. PICK m \in Nat : m = l - from + 1
  BY <1>5
<1>9. /\ Len(b.related) = m + 1 /\ DOMAIN b.related = 1 .. m + 1 /\ b.related[m + 1] = r
      /\ \A i \in 1 .. m : b.related[i] = tail[i]
  BY <1>6, <1>7, <1>8, AppendProperties
<1>10. \A i \in 1 .. m : from + i - 1 \in 1 .. l /\ b.related[i] = a.related[from + i - 1]
  <2>1. \A i \in 1 .. m : from + i - 1 \in 1 .. l
    BY <1>5, <1>8
  <2> QED BY <1>6, <1>8, <1>9, <2>1
<1>11. DOMAIN a.related = 1 .. l
  BY <1>1, <1>3
<1>12. \A i \in 1 .. m : b.related[i] \in ToSet(a.related)
  BY <1>10, <1>11 DEF ToSet
<1>13. Len(b.related) = AtMost(KEEP + 1, b.count)
  <2>1. PICK c \in Nat : c = a.count
    BY <1>1
  <2>2. l = AtMost(KEEP + 1, c) /\ m = AtMost(KEEP, l)
    BY <1>4, <1>5, <1>8, <2>1
  <2>3. m + 1 = AtMost(KEEP + 1, c + 1)
    BY <1>1, <2>1, <2>2 DEF AtMost
  <2> QED BY <1>9, <2>1, <2>3
<1>14. ASSUME NEW i \in DOMAIN b.related, NEW j \in DOMAIN b.related, b.related[i] = b.related[j]
       PROVE  i = j
  <2>1. i \in 1 .. m + 1 /\ j \in 1 .. m + 1
    BY <1>9
  <2>2. CASE i \in 1 .. m /\ j \in 1 .. m
    <3>1. a.related[from + i - 1] = a.related[from + j - 1]
      BY <1>10, <1>14, <2>2
    <3>2. from + i - 1 = from + j - 1
      BY <1>10, <1>11, <2>2, <3>1 DEF Counted, CountedIn
    <3> QED BY <1>5, <2>1, <3>2
  <2>3. CASE i = m + 1 /\ j \in 1 .. m
    BY <1>2, <1>9, <1>12, <1>14, <2>3
  <2>4. CASE j = m + 1 /\ i \in 1 .. m
    BY <1>2, <1>9, <1>12, <1>14, <2>4
  <2> QED BY <2>1, <2>2, <2>3, <2>4
<1>15. ToSet(b.related) \subseteq {t[3] : t \in Seen(k)'}
  <2>1. ASSUME NEW x \in ToSet(b.related) PROVE x \in {t[3] : t \in Seen(k)'}
    <3>1. PICK i \in 1 .. m + 1 : x = b.related[i]
      BY <1>9 DEF ToSet
    <3>2. CASE i = m + 1
      BY <1>9, <3>1, <3>2
    <3>3. CASE i # m + 1
      <4>1. x \in ToSet(a.related)
        BY <1>12, <3>1, <3>3
      <4> QED BY <4>1 DEF Counted, CountedIn
    <3> QED BY <3>2, <3>3
  <2> QED BY <2>1
<1>16. b.count <= Cardinality(Seen(k)')
  <2>1. IsFiniteSet(Seen(k)) /\ e \notin Seen(k)
    BY SeenFinite DEF SeenIn
  <2>2. Cardinality(Seen(k) \cup {e}) = Cardinality(Seen(k)) + 1 /\ Cardinality(Seen(k)) \in Nat
    BY <2>1, FS_AddElement, FS_CardinalityType
  <2>3. a.count <= Cardinality(Seen(k))
    BY DEF Counted, CountedIn
  <2> QED BY <1>1, <2>2, <2>3
<1> QED BY <1>13, <1>14, <1>15, <1>16 DEF Counted, CountedIn

LEMMA RequestOf ==
    ASSUME NEW s \in Session
    PROVE  /\ s.step \in {"store", "find", "load", "save"} => s.request \in Requests
           /\ s.step \in {"find", "load", "save", "rescore", "score"} => s.todo \subseteq Slugs
           /\ s.step \in {"load", "save"} => s.slug \in Slugs /\ s.held \in Attack \cup {NoAttack}
           /\ Carries(s) => s.request \in Requests /\ Todo(s) \subseteq Slugs
           /\ s.step \in {"rescore", "score", "mark"} => s.key \in AttackKeys
<1>1. s.step \in {"store", "find", "load", "save"} => s.request \in Requests
  BY DEF Session, Idle, Doomed, Storing, Finding, Loading, Saving, Marking, Rescoring, Scoring, Replying
<1>2. s.step \in {"find", "load", "save", "rescore", "score"} => s.todo \subseteq Slugs
  BY DEF Session, Idle, Doomed, Storing, Finding, Loading, Saving, Marking, Rescoring, Scoring, Replying
<1>3. s.step \in {"load", "save"} => s.slug \in Slugs /\ s.held \in Attack \cup {NoAttack}
  BY DEF Session, Idle, Doomed, Storing, Finding, Loading, Saving, Marking, Rescoring, Scoring, Replying
<1>4. s.step \in {"rescore", "score", "mark"} => s.key \in AttackKeys
  BY DEF Session, Idle, Doomed, Storing, Finding, Loading, Saving, Marking, Rescoring, Scoring, Replying
<1>5. s.step \in {"rescore", "score"} => s.request \in Requests \cup {NoRequest}
  BY DEF Session, Idle, Doomed, Storing, Finding, Loading, Saving, Marking, Rescoring, Scoring, Replying
<1> QED BY <1>1, <1>2, <1>3, <1>4, <1>5 DEF Carries, Todo

\* The timeline grows by an entry of r, or by none that names a request.
Grows(r) ==
    /\ requests \subseteq requests'
    /\ \A k \in AttackKeys : Seen(k) \subseteq Seen(k)'
    /\ \A q \in Requests \ {r} : /\ Entered(q)' <=> Entered(q)
                                 /\ \A k \in AttackKeys : SeenIn(k, q)' <=> SeenIn(k, q)

LEMMA Unchanged == requests \subseteq requests' /\ UNCHANGED timeline => Grows(NoRequest)
BY DEF Grows, Seen, Entered, SeenIn

LEMMA DeliveryStays ==
    ASSUME RowTypes, RowTypes', NEW r, Grows(r), NEW s \in Session, DeliveryOK(s),
           Carries(s) => s.request # r,
           s.step = "store" /\ s.request \notin requests => s.request # r
    PROVE  DeliveryOK(s)'
<1>1. s.step = "store" /\ s.request \notin requests' => ~Entered(s.request)'
  BY RequestOf DEF Grows, DeliveryOK
<1>2. ASSUME Carries(s) PROVE s.request \in requests' \/ Entered(s.request)'
  BY <1>2, RequestOf DEF Grows, DeliveryOK
<1>3. ASSUME Carries(s), NEW c \in Todo(s) PROVE ~SeenIn(AttackKey(s.request, c), s.request)'
  <2>1. s.request \in Requests \ {r} /\ c \in Slugs
    BY <1>3, RequestOf
  <2>2. AttackKey(s.request, c) \in AttackKeys
    BY <2>1, KeyOf
  <2> QED BY <1>3, <2>1, <2>2 DEF Grows, DeliveryOK
<1>4. ASSUME Carries(s), s.step \in {"rescore", "score"} PROVE SeenIn(s.key, s.request)'
  BY <1>4, RequestOf DEF Grows, DeliveryOK
<1>5. ASSUME s.step \in {"load", "save"}, s.held # NoAttack
      PROVE  Counted(s.held, AttackKey(s.request, s.slug))'
  <2>1. s.held \in Attack /\ AttackKey(s.request, s.slug) \in AttackKeys
    BY <1>5, RequestOf, KeyOf
  <2>2. Counted(s.held, AttackKey(s.request, s.slug))
    BY <1>5 DEF DeliveryOK
  <2>3. Seen(AttackKey(s.request, s.slug)) \subseteq Seen(AttackKey(s.request, s.slug))'
    BY <2>1 DEF Grows
  <2> QED BY <2>1, <2>2, <2>3, CountedStays
<1> QED BY <1>1, <1>2, <1>3, <1>4, <1>5 DEF DeliveryOK, Carries, Todo

LEMMA DeliveriesStep ==
    ASSUME IInv, RowTypes', DeliveriesOK, NEW w \in Tasks, NEW n \in Session, Move(w, n),
           NEW r \in Requests \cup {NoRequest}, Grows(r),
           r # NoRequest => Carries(session[w]) /\ session[w].request = r,
           DeliveryOK(n)',
           Carries(n) => \A v \in Tasks \ {w} : Carries(session[v]) => session[v].request # n.request
    PROVE  DeliveriesOK'
<1>1. /\ \A v \in Tasks : session[v] \in Session /\ DeliveryOK(session[v])
      /\ session'[w] = n /\ \A v \in Tasks \ {w} : session'[v] = session[v]
  BY DEF IInv, SessionInv, DeliveriesOK, Move
<1>2. ASSUME NEW v \in Tasks PROVE DeliveryOK(session[v])'
  <2>1. CASE v = w
    BY <1>1, <2>1 DEF DeliveryOK, Carries, Todo
  <2>2. CASE v # w
    <3>1. PICK s \in Session : s = session[v]
      BY <1>1
    <3>2. DeliveryOK(s)
      BY <1>1, <3>1
    <3>3. Carries(s) => s.request # r
      BY <2>2, <3>1, RequestOf, WebAssumption DEF DeliveriesOK
    <3>4. s.step = "store" /\ s.request \notin requests => s.request # r
      <4>1. r # NoRequest => r \in requests \/ Entered(r)
        BY <1>1 DEF DeliveryOK
      <4>2. s.step = "store" => s.request \in Requests
        BY RequestOf
      <4> QED BY <3>2, <4>1, <4>2, WebAssumption DEF DeliveryOK
    <3>5. DeliveryOK(s)'
      BY <3>2, <3>3, <3>4, DeliveryStays DEF IInv, RowInv
    <3> QED BY <1>1, <2>2, <3>1, <3>5 DEF DeliveryOK, Carries, Todo
  <2> QED BY <2>1, <2>2
<1>3. ASSUME NEW u \in Tasks, NEW v \in Tasks, u # v, Carries(session'[u]), Carries(session'[v])
      PROVE  session'[u].request # session'[v].request
  <2>1. CASE u = w
    BY <1>1, <1>3, <2>1
  <2>2. CASE v = w
    BY <1>1, <1>3, <2>2
  <2>3. CASE u # w /\ v # w
    BY <1>1, <1>3, <2>3 DEF DeliveriesOK
  <2> QED BY <2>1, <2>2, <2>3
<1> QED BY <1>2, <1>3 DEF DeliveriesOK, Carries

LEMMA CopiesStay ==
    ASSUME RowTypes, RowTypes', NEW r, Grows(r), NEW f \in Copies, CopiesCounted(f)
    PROVE  CopiesCounted(f)'
<1>1. ASSUME NEW k \in DOMAIN f PROVE Counted(f[k], k)'
  <2>1. k \in AttackKeys /\ f[k] \in Attack
    BY CopiesType
  <2>2. Counted(f[k], k) /\ Seen(k) \subseteq Seen(k)'
    BY <2>1 DEF CopiesCounted, Grows
  <2> QED BY <2>1, <2>2, CountedStays
<1> QED BY <1>1 DEF CopiesCounted

LEMMA AttacksStay ==
    ASSUME IInv, RowTypes', NEW r, Grows(r), UNCHANGED attack, AttacksCounted
    PROVE  AttacksCounted'
<1>1. ASSUME NEW k \in AttackKeys, Exists(k)' PROVE Counted(attack[k], k)'
  <2>1. Counted(attack[k], k) /\ attack[k] \in Attack /\ Seen(k) \subseteq Seen(k)'
    BY <1>1 DEF Exists, AttacksCounted, IInv, RowInv, RowTypes, Grows
  <2>2. PICK a \in Attack : a = attack[k]
    BY <2>1
  <2>3. Counted(a, k)'
    BY <2>1, <2>2, CountedStays DEF IInv, RowInv
  <2>4. attack'[k] = a
    BY <2>2
  <2> QED BY <2>3, <2>4 DEF Counted
<1> QED BY <1>1 DEF AttacksCounted

LEMMA ReplaysStay ==
    ASSUME IInv, RowTypes', NEW r, Grows(r), UNCHANGED replay, ReplaysCounted
    PROVE  ReplaysCounted'
<1>1. ASSUME NEW w \in Tasks PROVE CopiesCounted(replay[w].known)' /\ CopiesCounted(replay[w].found)'
  <2>1. PICK f \in Copies : f = replay[w].known
    BY DEF IInv, ReplayInv, Run
  <2>2. PICK g \in Copies : g = replay[w].found
    BY DEF IInv, ReplayInv, Run
  <2>3. CopiesCounted(f) /\ CopiesCounted(g)
    BY <2>1, <2>2 DEF ReplaysCounted
  <2>4. CopiesCounted(f)' /\ CopiesCounted(g)'
    BY <2>3, CopiesStay DEF IInv, RowInv
  <2>5. replay'[w].known = f /\ replay'[w].found = g
    BY <2>1, <2>2
  <2> QED BY <2>4, <2>5 DEF CopiesCounted, Counted
<1> QED BY <1>1 DEF ReplaysCounted

\* A handler goes on with the request it carries, or with none.
LEMMA QuietStep ==
    ASSUME IInv, IInv', DInv, NEW w \in Tasks, NEW n \in Session, Move(w, n),
           UNCHANGED <<requests, attack, timeline>>, DeliveryOK(n),
           Carries(n) => Carries(session[w]) /\ session[w].request = n.request,
           ReplaysCounted'
    PROVE  DInv'
<1>1. Grows(NoRequest) /\ RowTypes'
  BY Unchanged DEF IInv, RowInv
<1>2. DeliveryOK(n)'
  BY DEF DeliveryOK, Carries, Todo, Entered, SeenIn, Seen, Counted
<1>3. Carries(n) => \A v \in Tasks \ {w} : Carries(session[v]) => session[v].request # n.request
  BY DEF DInv, DeliveriesOK
<1>4. DeliveriesOK'
  BY <1>1, <1>2, <1>3, DeliveriesStep DEF DInv
<1>5. AttacksCounted'
  BY <1>1, AttacksStay DEF DInv
<1> QED BY <1>4, <1>5 DEF DInv

LEMMA QuietReplay ==
    ASSUME IInv, IInv', DInv, UNCHANGED timeline, UNCHANGED replay PROVE ReplaysCounted'
BY DEF DInv, ReplaysCounted, CopiesCounted, Counted, Seen

LEMMA NewReplay ==
    ASSUME IInv, DInv, UNCHANGED timeline, NEW w \in Tasks, NEW run \in Run,
           CopiesCounted(run.known), CopiesCounted(run.found), replay' = [replay EXCEPT ![w] = run]
    PROVE  ReplaysCounted'
<1>1. ASSUME NEW v \in Tasks PROVE CopiesCounted(replay'[v].known) /\ CopiesCounted(replay'[v].found)
  BY DEF IInv, ReplayInv, DInv, ReplaysCounted
<1> QED BY <1>1 DEF ReplaysCounted, CopiesCounted, Counted, Seen

LEMMA NoneCounted == CopiesCounted(<<>>)
BY DEF CopiesCounted

LEMMA QuietLeave ==
    ASSUME IInv, IInv', DInv, NEW w \in Tasks, Leave(w), UNCHANGED <<requests, attack, timeline>>
    PROVE  DInv'
<1>1. Idle \in Session /\ DeliveryOK(Idle) /\ ~Carries(Idle)
  BY DEF Session, Idle, DeliveryOK, Carries
<1>2. CopiesCounted(NoReplay.known) /\ CopiesCounted(NoReplay.found)
  BY NoneCounted DEF NoReplay
<1>3. ReplaysCounted'
  BY <1>2, EmptyRun, NewReplay DEF Leave
<1> QED BY <1>1, <1>3, QuietStep DEF Leave

\* A request seen in an attack is on the timeline of its incident.
LEMMA SeenIsEntered ==
    ASSUME NEW k, NEW r, SeenIn(k, r), IncidentOf(k) = IncidentKey(r)
    PROVE  Entered(r)
BY DEF SeenIn, Seen, Entered

LEMMA CountStarts == Init => DInv
<1> SUFFICES ASSUME Init PROVE DInv
  OBVIOUS
<1>1. AttacksCounted
  BY DEF Init, AttacksCounted, Exists
<1>2. DeliveriesOK
  BY DEF Init, DeliveriesOK, DeliveryOK, Idle, Carries
<1>3. ReplaysCounted
  BY NoneCounted DEF Init, ReplaysCounted, NoReplay
<1> QED BY <1>1, <1>2, <1>3 DEF DInv

LEMMA DeliverCounts ==
    ASSUME IInv, IInv', DInv, NEW w \in Tasks, NEW r \in Requests, Deliver(w, r) PROVE DInv'
<1> DEFINE n == [step |-> "store", request |-> r, todo |-> Candidates(r, requests)]
<1>1. n \in Session
  <2>1. n \in Storing
    BY CandidatesType DEF Storing
  <2> QED BY <2>1 DEF Session
<1>2. ~Entered(r)
  BY DEF Deliver, Entered
<1>3. DeliveryOK(n) /\ ~Carries(n)
  BY <1>2 DEF DeliveryOK, Carries
<1>4. Move(w, n) /\ UNCHANGED <<requests, attack, timeline, replay>>
  BY DEF Deliver, rows
<1> HIDE DEF n
<1> QED BY <1>1, <1>3, <1>4, QuietReplay, QuietStep

LEMMA StoreCounts ==
    ASSUME IInv, IInv', DInv, NEW w \in Tasks, Store(w) PROVE DInv'
<1>1. PICK s \in Storing : s = session[w]
  BY SessionAt DEF Store, IInv
<1>2. s.request \in Requests /\ s.todo \subseteq Slugs /\ s.step = "store"
  BY DEF Storing
<1>3. CASE s.request \in requests
  <2>1. Leave(w) /\ UNCHANGED <<requests, attack, timeline>>
    <3>1. requests' = requests \cup {s.request} /\ Leave(w)
      BY <1>1, <1>3 DEF Store
    <3> QED BY <1>3, <3>1 DEF Store
  <2> QED BY <2>1, QuietLeave
<1>4. CASE s.request \notin requests
  <2> DEFINE n == [step |-> "find", request |-> s.request, todo |-> s.todo, seen |-> NoRow]
  <2>1. Move(w, n) /\ UNCHANGED <<attack, timeline, replay>> /\ requests' = requests \cup {s.request}
    BY <1>1, <1>4 DEF Store
  <2>2. n \in Session
    <3>1. n \in Finding
      BY <1>2 DEF Finding
    <3> QED BY <3>1 DEF Session
  <2>3. ~Entered(s.request)
    BY <1>1, <1>2, <1>4 DEF DInv, DeliveriesOK, DeliveryOK
  <2>4. \A c \in s.todo : ~SeenIn(AttackKey(s.request, c), s.request)
    BY <1>2, <2>3, KeyOf, SeenIsEntered
  <2>5. DeliveryOK(n)'
    <3>1. \A c \in s.todo : ~SeenIn(AttackKey(s.request, c), s.request)'
      BY <2>1, <2>4 DEF SeenIn, Seen
    <3> QED BY <2>1, <3>1 DEF DeliveryOK, Carries, Todo
  <2>6. \A v \in Tasks \ {w} : Carries(session[v]) => session[v].request # n.request
    <3>1. ASSUME NEW v \in Tasks, Carries(session[v])
          PROVE session[v].request \in requests \/ Entered(session[v].request)
      BY <3>1 DEF DInv, DeliveriesOK, DeliveryOK
    <3> QED BY <1>4, <2>3, <3>1
  <2> HIDE DEF n
  <2>7. Grows(NoRequest) /\ RowTypes'
    BY <2>1, Unchanged DEF IInv, RowInv
  <2>8. DeliveriesOK'
    BY <2>1, <2>2, <2>5, <2>6, <2>7, DeliveriesStep DEF DInv
  <2>9. AttacksCounted' /\ ReplaysCounted'
    BY <2>1, <2>7, AttacksStay, ReplaysStay DEF DInv
  <2> QED BY <2>8, <2>9 DEF DInv
<1> QED BY <1>3, <1>4

LEMMA FindCounts ==
    ASSUME IInv, IInv', DInv, NEW w \in Tasks, NEW slug \in Slugs, Find(w, slug) PROVE DInv'
<1>1. PICK s \in Finding : s = session[w]
  BY SessionAt DEF Find, IInv
<1>2. s.request \in Requests /\ s.step = "find" /\ slug \in s.todo /\ s.todo \subseteq Slugs
  BY <1>1 DEF Finding, Find
<1> DEFINE k == AttackKey(s.request, slug)
           n == [step |-> "load", request |-> s.request, todo |-> s.todo \ {slug},
                 seen |-> s.seen, slug |-> slug, held |-> Queried(w, k)]
<1>3. Move(w, n) /\ UNCHANGED <<requests, attack, timeline, replay>>
  BY <1>1 DEF Find, rows
<1>4. n \in Session
  BY <1>1, <1>3 DEF IInv, SessionInv, Move
<1>5. k \in AttackKeys
  BY <1>2, KeyOf
<1>6. Queried(w, k) # NoAttack => Counted(Queried(w, k), k)
  <2>1. k \in DOMAIN replay[w].known => Counted(replay[w].known[k], k)
    BY DEF DInv, ReplaysCounted, CopiesCounted
  <2>2. Exists(k) => Counted(attack[k], k)
    BY <1>5 DEF DInv, AttacksCounted
  <2> HIDE DEF k
  <2> QED BY <2>1, <2>2 DEF Queried, Exists
<1>7. Carries(s) /\ DeliveryOK(s)
  BY <1>1, <1>2, WebAssumption DEF Carries, DInv, DeliveriesOK
<1>8. Carries(n) /\ Todo(n) = s.todo
  BY <1>2, <1>7 DEF Carries, Todo
<1>9. DeliveryOK(n)
  BY <1>2, <1>6, <1>7, <1>8 DEF DeliveryOK, Todo
<1>10. n.request = s.request
  OBVIOUS
<1> HIDE DEF n
<1> QED BY <1>1, <1>3, <1>4, <1>7, <1>9, <1>10, QuietReplay, QuietStep

LEMMA LoadCounts ==
    ASSUME IInv, IInv', DInv, NEW w \in Tasks, Load(w) PROVE DInv'
<1>1. PICK s \in Loading : s = session[w]
  BY SessionAt DEF Load, IInv
<1>2. PICK mine, row :
        Move(w, [step |-> "save", request |-> s.request, todo |-> s.todo, seen |-> s.seen,
                 slug |-> s.slug, held |-> s.held, alert |-> mine, incident |-> row])
  BY <1>1 DEF Load
<1> DEFINE n == [step |-> "save", request |-> s.request, todo |-> s.todo, seen |-> s.seen,
                 slug |-> s.slug, held |-> s.held, alert |-> mine, incident |-> row]
<1>3. n \in Session
  BY <1>2 DEF IInv, SessionInv, Move
<1>4. s.step = "load" /\ s.request \in Requests
  BY DEF Loading
<1>5. Carries(s) /\ DeliveryOK(s)
  BY <1>1, <1>4, WebAssumption DEF Carries, DInv, DeliveriesOK
<1>6. DeliveryOK(n) /\ n.request = s.request
  BY <1>4, <1>5 DEF DeliveryOK, Carries, Todo
<1>7. UNCHANGED <<requests, attack, timeline, replay>>
  BY DEF Load, rows
<1> HIDE DEF n
<1> QED BY <1>1, <1>2, <1>3, <1>5, <1>6, <1>7, QuietReplay, QuietStep DEF n

LEMMA EntryGrows ==
    ASSUME RowTypes, NEW k \in AttackKeys, NEW r \in Requests, NEW type \in Types, UNCHANGED requests,
           timeline' = [timeline EXCEPT ![IncidentOf(k)] = @ \cup {<<type, k, r>>}]
    PROVE  /\ Grows(r)
           /\ Seen(k)' = Seen(k) \cup {<<type, k, r>>}
           /\ \A j \in AttackKeys \ {k} : Seen(j)' = Seen(j)
<1> DEFINE e == <<type, k, r>>
<1>1. e[1] = type /\ e[2] = k /\ e[3] = r
  OBVIOUS
<1>2. \A i \in IncidentKeys : \A t :
        t \in timeline'[i] <=> t \in timeline[i] \/ (i = IncidentOf(k) /\ t = e)
  BY IncidentOfType DEF RowTypes
<1> HIDE DEF e
<1>3. Seen(k)' = Seen(k) \cup {e}
  BY <1>1, <1>2, IncidentOfType DEF Seen
<1>4. ASSUME NEW j \in AttackKeys \ {k} PROVE Seen(j)' = Seen(j)
  BY <1>1, <1>2, IncidentOfType DEF Seen
<1>5. ASSUME NEW q \in Requests \ {r} PROVE Entered(q)' <=> Entered(q)
  <2>1. IncidentKey(q) \in IncidentKeys
    BY KeyOf DEF IncidentKeys
  <2> QED BY <1>1, <1>2, <2>1 DEF Entered
<1>6. ASSUME NEW q \in Requests \ {r}, NEW j \in AttackKeys PROVE SeenIn(j, q)' <=> SeenIn(j, q)
  BY <1>1, <1>3, <1>4 DEF SeenIn
<1> QED BY <1>3, <1>4, <1>5, <1>6 DEF e, Grows

LEMMA OtherEntryGrows ==
    ASSUME RowTypes, NEW i \in IncidentKeys, NEW e, e[1] \notin Types, e[3] \notin Requests, UNCHANGED requests,
           timeline' = [timeline EXCEPT ![i] = @ \cup {e}]
    PROVE  Grows(NoRequest) /\ \A k \in AttackKeys : Seen(k)' = Seen(k)
<1>1. \A j \in IncidentKeys : \A t : t \in timeline'[j] <=> t \in timeline[j] \/ (j = i /\ t = e)
  BY DEF RowTypes
<1>2. ASSUME NEW k \in AttackKeys PROVE Seen(k)' = Seen(k)
  BY <1>1, IncidentOfType DEF Seen
<1>3. ASSUME NEW q \in Requests PROVE Entered(q)' <=> Entered(q)
  <2>1. IncidentKey(q) \in IncidentKeys
    BY DEF IncidentKeys
  <2> QED BY <1>1, <2>1 DEF Entered
<1>4. ASSUME NEW q \in Requests, NEW k \in AttackKeys PROVE SeenIn(k, q)' <=> SeenIn(k, q)
  BY <1>2 DEF SeenIn
<1> QED BY <1>2, <1>3, <1>4 DEF Grows

\* The step that counts a request in an attack: the aggregate says what the copy held
\* and one more, and so does the timeline.
LEMMA CountStep ==
    ASSUME IInv, IInv', DInv, NEW w \in Tasks, NEW s \in Saving, s = session[w],
           NEW k, k = AttackKey(s.request, s.slug), NEW type \in Types,
           UNCHANGED requests, UNCHANGED replay,
           timeline' = [timeline EXCEPT ![IncidentOf(k)] = @ \cup {<<type, k, s.request>>}],
           NEW a, attack' = [attack EXCEPT ![k] = a],
           Grows(s.request) => Counted(a, k)',
           NEW mine, NEW row,
           Move(w, [step |-> "rescore", request |-> s.request, todo |-> s.todo, key |-> k,
                    mine |-> mine, incident |-> row])
    PROVE  DInv'
<1>1. s.request \in Requests /\ s.slug \in Slugs /\ s.todo \subseteq Slugs /\ s.step = "save"
  BY DEF Saving
<1>2. k \in AttackKeys /\ IncidentOf(k) = IncidentKey(s.request)
  BY <1>1, KeyOf
<1>3. /\ Grows(s.request)
      /\ Seen(k)' = Seen(k) \cup {<<type, k, s.request>>}
      /\ \A j \in AttackKeys \ {k} : Seen(j)' = Seen(j)
  BY <1>1, <1>2, EntryGrows DEF IInv, RowInv
<1>4. Carries(s) /\ DeliveryOK(s)
  BY <1>1, WebAssumption DEF Carries, DInv, DeliveriesOK
<1> DEFINE n == [step |-> "rescore", request |-> s.request, todo |-> s.todo, key |-> k,
                 mine |-> mine, incident |-> row]
<1>5. n \in Session
  BY DEF IInv, SessionInv, Move
<1>6. DeliveryOK(n)'
  <2>1. SeenIn(k, s.request)'
    <3>1. <<type, k, s.request>>[3] = s.request
      OBVIOUS
    <3> QED BY <1>3, <3>1 DEF SeenIn
  <2>2. Entered(s.request)'
    <3>1. IncidentOf(k) \in IncidentKeys
      BY <1>2, IncidentOfType
    <3>2. <<type, k, s.request>> \in timeline'[IncidentOf(k)]
      BY <3>1 DEF IInv, RowInv, RowTypes
    <3> QED BY <1>2, <3>2 DEF Entered
  <2>3. ASSUME NEW c \in s.todo PROVE ~SeenIn(AttackKey(s.request, c), s.request)'
    <3>1. AttackKey(s.request, c) \in AttackKeys
      BY <1>1, KeyOf
    <3>2. AttackKey(s.request, c) # k
      BY <1>1, <1>4 DEF DeliveryOK, AttackKey
    <3>3. ~SeenIn(AttackKey(s.request, c), s.request)
      BY <1>1, <1>4 DEF DeliveryOK, Todo
    <3> QED BY <1>3, <3>1, <3>2, <3>3 DEF SeenIn
  <2> QED BY <1>2, <2>1, <2>2, <2>3 DEF DeliveryOK, Carries, Todo
<1>7. \A v \in Tasks \ {w} : Carries(session[v]) => session[v].request # n.request
  BY <1>4 DEF DInv, DeliveriesOK
<1> HIDE DEF n
<1>8. RowTypes'
  BY DEF IInv, RowInv
<1>9. DeliveriesOK'
  BY <1>1, <1>3, <1>4, <1>5, <1>6, <1>7, <1>8, DeliveriesStep DEF DInv, n
<1>10. ReplaysCounted'
  BY <1>3, <1>8, ReplaysStay DEF DInv
<1>11. AttacksCounted'
  <2>1. ASSUME NEW j \in AttackKeys, attack'[j] # NoAttack PROVE Counted(attack[j], j)'
    <3>1. CASE j = k
      <4>1. attack'[j] = a
        BY <1>2, <3>1 DEF IInv, RowInv, RowTypes
      <4> QED BY <1>3, <3>1, <4>1 DEF Counted
    <3>2. CASE j # k
      <4>1. attack'[j] = attack[j] /\ Seen(j)' = Seen(j)
        BY <1>3, <3>2 DEF IInv, RowInv, RowTypes
      <4>2. Counted(attack[j], j)
        BY <2>1, <4>1 DEF DInv, AttacksCounted, Exists
      <4> QED BY <4>1, <4>2 DEF Counted
    <3> QED BY <3>1, <3>2
  <2> QED BY <2>1 DEF AttacksCounted, Exists
<1> QED BY <1>9, <1>10, <1>11 DEF DInv

LEMMA UpdateCounts ==
    ASSUME IInv, IInv', DInv, NEW w \in Tasks, Update(w) PROVE DInv'
<1>1. PICK s \in Saving : s = session[w] /\ s.held # NoAttack
  BY SessionAt DEF Update, IInv
<1>2. PICK k : k = AttackKey(s.request, s.slug)
  OBVIOUS
<1>3. PICK new : new = Classification(s.slug, CountOneMore(s.held), Signaled(s))
  OBVIOUS
<1>4. PICK sure : sure = Sureness(s.held, new)
  OBVIOUS
<1>5. s.request \in Requests /\ s.slug \in Slugs /\ s.held \in Attack /\ s.step = "save"
  BY <1>1 DEF Saving
<1>6. k \in AttackKeys
  BY <1>2, <1>5, KeyOf
<1>7. Carries(s) /\ DeliveryOK(s) /\ Consistent(s)
  BY <1>1, <1>5, WebAssumption DEF Carries, DInv, DeliveriesOK, IInv, SessionInv
<1>8. Exists(k) /\ attack[k] \in Attack
  BY <1>1, <1>2, <1>5, <1>6, <1>7 DEF Consistent, IInv, RowInv, RowTypes, Exists
<1>9. PICK a : a = Renewed(attack[k], s.held, s.request, new, sure)
  OBVIOUS
<1>10. attack' = [attack EXCEPT ![k] = a]
  BY <1>1, <1>2, <1>3, <1>4, <1>9 DEF Update, Renewed
<1>11. a \in Attack /\ a.count = s.held.count + 1 /\ a.related = Remember(s.held.related, s.request)
  <2>1. PICK signaled \in BOOLEAN : signaled = Signaled(s)
    <3>1. Signaled(s) \in BOOLEAN
      BY DEF Signaled
    <3> QED BY <3>1
  <2>2. new = Classification(s.slug, CountOneMore(s.held), signaled)
    BY <1>3, <2>1
  <2> QED BY <1>4, <1>5, <1>8, <1>9, <2>2, Updated
<1> DEFINE e == <<"ATTACK_ACTIVITY_UPDATED", k, s.request>>
<1>12. timeline' = [timeline EXCEPT ![IncidentOf(k)] = @ \cup {e}]
  BY <1>1, <1>2 DEF Update, Enter
<1>13. "ATTACK_ACTIVITY_UPDATED" \in Types /\ UNCHANGED requests /\ UNCHANGED replay
  BY DEF Types, Update
<1>14. Counted(a, k)'
  <2>1. Seen(k)' = Seen(k) \cup {e}
    BY <1>5, <1>6, <1>12, <1>13, EntryGrows DEF IInv, RowInv
  <2>2. ~SeenIn(k, s.request) /\ Counted(s.held, k) /\ e[3] = s.request
    BY <1>1, <1>2, <1>5, <1>7 DEF DeliveryOK, Todo
  <2> HIDE DEF e
  <2> QED BY <1>5, <1>6, <1>11, <2>1, <2>2, CountedMore DEF IInv, RowInv
<1>15. PICK mine, row :
         Move(w, [step |-> "rescore", request |-> s.request, todo |-> s.todo, key |-> k,
                  mine |-> mine, incident |-> row])
  BY <1>1, <1>2 DEF Update
<1> QED BY <1>1, <1>2, <1>10, <1>12, <1>13, <1>14, <1>15, CountStep

LEMMA CreateCounts ==
    ASSUME IInv, IInv', DInv, NEW w \in Tasks, Create(w) PROVE DInv'
<1>1. PICK s \in Saving : s = session[w] /\ s.held = NoAttack
  BY SessionAt DEF Create, IInv
<1>2. PICK k : k = AttackKey(s.request, s.slug)
  OBVIOUS
<1>3. PICK new : new = Classification(s.slug, 1, Signaled(s))
  OBVIOUS
<1>4. PICK a : a = [count |-> 1, related |-> <<s.request>>, primary |-> s.request, class |-> new.class,
                    status |-> "DETECTED", confidence |-> new.confidence, severity |-> new.severity]
  OBVIOUS
<1>5. attack' = [attack EXCEPT ![k] = a]
  BY <1>1, <1>2, <1>3, <1>4 DEF Create
<1>6. PICK type \in Types :
        timeline' = [timeline EXCEPT ![IncidentOf(k)] = @ \cup {<<type, k, s.request>>}]
  BY <1>1, <1>2 DEF Create, Enter, Types
<1>7. UNCHANGED requests /\ UNCHANGED replay
  BY DEF Create
<1>8. k \in AttackKeys /\ s.request \in Requests
  BY <1>2, KeyOf DEF Saving
<1>9. Counted(a, k)'
  <2> DEFINE e == <<type, k, s.request>>
  <2>1. Seen(k)' = Seen(k) \cup {e} /\ e[3] = s.request
    BY <1>6, <1>7, <1>8, EntryGrows DEF IInv, RowInv
  <2> HIDE DEF e
  <2>2. PICK T : T = Seen(k) \cup {e}
    OBVIOUS
  <2>3. IsFiniteSet(Seen(k))
    BY <1>8, SeenFinite DEF IInv, RowInv
  <2>4. IsFiniteSet(T) /\ IsFiniteSet({e}) /\ {e} \in SUBSET T /\ Cardinality({e}) = 1
    BY <2>2, <2>3, FS_AddElement, FS_Singleton
  <2>5. 1 <= Cardinality(T)
    BY <2>4, FS_Subset
  <2>6. a.count = 1 /\ a.related = <<s.request>>
    BY <1>4
  <2>7. Len(<<s.request>>) = 1 /\ DOMAIN <<s.request>> = {1} /\ <<s.request>>[1] = s.request
    OBVIOUS
  <2>8. ToSet(a.related) \subseteq {t[3] : t \in T}
    BY <2>1, <2>2, <2>6, <2>7 DEF ToSet
  <2>9. Len(a.related) = AtMost(KEEP + 1, a.count)
    BY <2>6, <2>7, WebAssumption DEF AtMost
  <2>10. \A m, n \in DOMAIN a.related : a.related[m] = a.related[n] => m = n
    BY <2>6, <2>7
  <2>11. CountedIn(a, T)
    BY <2>5, <2>6, <2>8, <2>9, <2>10 DEF CountedIn
  <2> QED BY <2>1, <2>2, <2>11 DEF Counted
<1>10. PICK mine, row :
         Move(w, [step |-> "rescore", request |-> s.request, todo |-> s.todo, key |-> k,
                  mine |-> mine, incident |-> row])
  BY <1>1, <1>2 DEF Create
<1> QED BY <1>1, <1>2, <1>5, <1>6, <1>7, <1>9, <1>10, CountStep

LEMMA RescoreCounts ==
    ASSUME IInv, IInv', DInv, NEW w \in Tasks, Rescore(w) PROVE DInv'
<1>1. PICK s \in Rescoring : s = session[w]
  BY SessionAt DEF Rescore, IInv
<1>2. PICK score :
        Move(w, [step |-> "score", request |-> s.request, todo |-> s.todo, key |-> s.key,
                 incident |-> s.incident, score |-> score])
  BY <1>1 DEF Rescore
<1> DEFINE n == [step |-> "score", request |-> s.request, todo |-> s.todo, key |-> s.key,
                 incident |-> s.incident, score |-> score]
<1>3. n \in Session
  BY <1>2 DEF IInv, SessionInv, Move
<1>4. s.step = "rescore" /\ DeliveryOK(s)
  BY <1>1 DEF Rescoring, DInv, DeliveriesOK
<1>5. DeliveryOK(n) /\ n.request = s.request /\ (Carries(n) => Carries(s))
  BY <1>4 DEF DeliveryOK, Carries, Todo
<1>6. UNCHANGED <<requests, attack, timeline, replay>>
  BY DEF Rescore, rows
<1> HIDE DEF n
<1> QED BY <1>1, <1>2, <1>3, <1>5, <1>6, QuietReplay, QuietStep DEF n

LEMMA ScoreCounts ==
    ASSUME IInv, IInv', DInv, NEW w \in Tasks, Score(w) PROVE DInv'
<1>1. PICK s \in Scoring : s = session[w]
  BY SessionAt DEF Score, IInv
<1>2. s.step = "score" /\ DeliveryOK(s) /\ s.key \in AttackKeys /\ Consistent(s)
      /\ s.request \in Requests \cup {NoRequest}
  BY <1>1 DEF Scoring, DInv, DeliveriesOK, IInv, SessionInv
<1>3. UNCHANGED <<requests, attack, timeline>>
  BY DEF Score
<1>4. PICK seen : Move(w, IF s.request = NoRequest THEN Idle
                          ELSE [step |-> "find", request |-> s.request, todo |-> s.todo, seen |-> seen])
  BY <1>1 DEF Score
<1>5. PICK n : n = IF s.request = NoRequest THEN Idle
                   ELSE [step |-> "find", request |-> s.request, todo |-> s.todo, seen |-> seen]
  OBVIOUS
<1>6. Move(w, n) /\ n \in Session
  BY <1>4, <1>5 DEF IInv, SessionInv, Move
<1>7. DeliveryOK(n) /\ (Carries(n) => Carries(s) /\ s.request = n.request)
  <2>1. CASE s.request = NoRequest
    BY <1>5, <2>1 DEF Idle, DeliveryOK, Carries
  <2>2. CASE s.request # NoRequest
    <3>1. n.step = "find" /\ n.request = s.request /\ n.todo = s.todo
      BY <1>5, <2>2
    <3>2. Carries(s) /\ Entered(s.request)
      BY <1>2, <2>2, SeenIsEntered DEF DeliveryOK, Carries
    <3> QED BY <1>2, <3>1, <3>2 DEF DeliveryOK, Carries, Todo
  <2> QED BY <2>1, <2>2
<1>8. ReplaysCounted'
  <2>1. CASE ~replay[w].on
    <3>1. UNCHANGED replay
      BY <2>1 DEF Score
    <3> QED BY <1>3, <3>1, QuietReplay
  <2>2. CASE replay[w].on
    <3>1. PICK run \in Run : run = replay[w]
      BY DEF IInv, ReplayInv
    <3>2. PICK found : found = [k \in DOMAIN run.found \cup {s.key} |->
                                  IF k = s.key THEN attack[k] ELSE run.found[k]]
      OBVIOUS
    <3>3. replay' = [replay EXCEPT ![w].found = found, ![w].incidents = @ \cup {IncidentOf(s.key)}]
      BY <1>1, <2>2, <3>1, <3>2 DEF Score
    <3>4. CopiesCounted(run.known) /\ CopiesCounted(run.found)
      BY <3>1 DEF DInv, ReplaysCounted
    <3>5. Counted(attack[s.key], s.key)
      BY <1>2 DEF DInv, AttacksCounted, Consistent
    <3>6. CopiesCounted(found)
      BY <3>2, <3>4, <3>5 DEF CopiesCounted
    <3>7. ASSUME NEW v \in Tasks PROVE CopiesCounted(replay'[v].known) /\ CopiesCounted(replay'[v].found)
      <4>1. CASE v = w
        <5>1. replay'[v].known = run.known /\ replay'[v].found = found
          BY <3>1, <3>3, <4>1 DEF IInv, ReplayInv, Run
        <5> QED BY <3>4, <3>6, <5>1
      <4>2. CASE v # w
        <5>1. replay'[v] = replay[v]
          BY <3>3, <4>2 DEF IInv, ReplayInv
        <5> QED BY <5>1 DEF DInv, ReplaysCounted
      <4> QED BY <4>1, <4>2
    <3> QED BY <1>3, <3>7 DEF ReplaysCounted, CopiesCounted, Counted, Seen
  <2> QED BY <2>1, <2>2
<1> QED BY <1>1, <1>3, <1>6, <1>7, <1>8, QuietStep

\* What a handler does with no request to count.
LEMMA FreeStep ==
    ASSUME IInv, IInv', DInv, NEW w \in Tasks, NEW n, Move(w, n), n.step \in {"idle", "reply", "mark"},
           UNCHANGED <<requests, attack, timeline>>, ReplaysCounted'
    PROVE  DInv'
<1>1. n \in Session
  BY DEF IInv, SessionInv, Move
<1>2. DeliveryOK(n) /\ ~Carries(n)
  BY DEF DeliveryOK, Carries
<1> QED BY <1>1, <1>2, QuietStep

LEMMA FinishCounts ==
    ASSUME IInv, IInv', DInv, NEW w \in Tasks, Finish(w) PROVE DInv'
<1>1. UNCHANGED <<requests, attack, timeline, replay>>
  BY DEF Finish, rows
<1> DEFINE n == [step |-> "reply", request |-> session[w].request]
<1>2. Move(w, n) /\ n.step = "reply"
  BY DEF Finish
<1> HIDE DEF n
<1> QED BY <1>1, <1>2, QuietReplay, FreeStep

LEMMA ReplyCounts ==
    ASSUME IInv, IInv', DInv, NEW w \in Tasks, Reply(w) PROVE DInv'
BY QuietLeave DEF Reply, rows

LEMMA ReviewCounts ==
    ASSUME IInv, IInv', DInv, NEW w \in Tasks, NEW k \in AttackKeys, Review(w, k) PROVE DInv'
<1>1. UNCHANGED <<requests, attack, timeline, replay>>
  BY DEF Review, rows
<1>2. PICK n : Move(w, n) /\ n.step = "mark"
  BY DEF Review
<1> QED BY <1>1, <1>2, QuietReplay, FreeStep

LEMMA ReplayCounts ==
    ASSUME IInv, IInv', DInv, NEW w \in Tasks, NEW script \in Replays, Replay(w, script) PROVE DInv'
<1>1. UNCHANGED <<requests, attack, timeline>>
  BY DEF Replay, rows
<1> DEFINE run == [NoReplay EXCEPT !.on = TRUE, !.left = script]
<1>2. run.known = <<>> /\ run.found = <<>> /\ replay' = [replay EXCEPT ![w] = run]
  BY DEF Replay, NoReplay
<1>3. run \in Run
  BY <1>2 DEF IInv, ReplayInv
<1> HIDE DEF run
<1>4. ReplaysCounted'
  BY <1>1, <1>2, <1>3, NoneCounted, NewReplay
<1>5. PICK n : Move(w, n) /\ n.step = "reply"
  BY DEF Replay
<1> QED BY <1>1, <1>4, <1>5, FreeStep

LEMMA AdvanceCounts ==
    ASSUME IInv, IInv', DInv, NEW w \in Tasks, Advance(w) PROVE DInv'
<1>1. PICK run \in Run : run = replay[w] /\ run.left # <<>>
  BY DEF Advance, IInv, ReplayInv
<1>2. PICK r : r = Head(run.left)
  OBVIOUS
<1>3. r \in Requests
  BY <1>1, <1>2 DEF Run
<1>4. PICK known \in AttacksHeld(run) :
        replay' = [replay EXCEPT ![w] = [run EXCEPT !.left = Tail(run.left), !.known = known, !.found = <<>>]]
  BY <1>1 DEF Advance
<1>5. UNCHANGED <<requests, attack, timeline>>
  BY DEF Advance, rows
<1>6. CopiesCounted(known)
  <2>1. CopiesCounted(run.known) /\ CopiesCounted(run.found)
    BY <1>1 DEF DInv, ReplaysCounted
  <2>2. ASSUME NEW k \in DOMAIN run.known PROVE CopiesCounted(Remaining(run.known, {k}))
    BY <2>1 DEF CopiesCounted, Remaining
  <2> QED BY <2>1, <2>2, NoneCounted DEF AttacksHeld
<1>7. ReplaysCounted'
  <2>1. PICK next : next = [run EXCEPT !.left = Tail(run.left), !.known = known, !.found = <<>>]
    OBVIOUS
  <2>2. next.known = known /\ next.found = <<>>
    BY <1>1, <2>1 DEF Run
  <2>3. replay' = [replay EXCEPT ![w] = next]
    BY <1>4, <2>1
  <2>4. next \in Run
    BY <2>3 DEF IInv, ReplayInv
  <2> QED BY <1>5, <1>6, <2>2, <2>3, <2>4, NoneCounted, NewReplay
<1>8. CASE r \in requests
  <2>1. PICK n : Move(w, n) /\ n.step = "reply"
    BY <1>1, <1>2, <1>8 DEF Advance
  <2> QED BY <1>5, <1>7, <2>1, FreeStep
<1>9. CASE r \notin requests
  <2> DEFINE n == [step |-> "store", request |-> r, todo |-> Candidates(r, requests)]
  <2>1. Move(w, n)
    BY <1>1, <1>2, <1>9 DEF Advance
  <2>2. n \in Session
    BY <2>1 DEF IInv, SessionInv, Move
  <2>3. ~Entered(r)
    BY <1>1, <1>2, <1>9 DEF Advance, Entered
  <2>4. DeliveryOK(n) /\ ~Carries(n)
    BY <2>3 DEF DeliveryOK, Carries
  <2> HIDE DEF n
  <2> QED BY <1>5, <1>7, <2>1, <2>2, <2>4, QuietStep
<1> QED BY <1>8, <1>9

\* An entry that names no request leaves the counts alone.
LEMMA OtherEntryCounts ==
    ASSUME IInv, IInv', DInv, NEW w \in Tasks, NEW n \in Session, Move(w, n), ~Carries(n), DeliveryOK(n)',
           NEW i \in IncidentKeys, NEW e, e[1] \notin Types, e[3] \notin Requests, UNCHANGED requests,
           timeline' = [timeline EXCEPT ![i] = @ \cup {e}],
           \A k \in AttackKeys : Exists(k)' => /\ Exists(k)
                                               /\ attack'[k].count = attack[k].count
                                               /\ attack'[k].related = attack[k].related,
           Grows(NoRequest) => ReplaysCounted'
    PROVE  DInv'
<1>1. Grows(NoRequest) /\ \A k \in AttackKeys : Seen(k)' = Seen(k)
  BY OtherEntryGrows DEF IInv, RowInv
<1>2. RowTypes'
  BY DEF IInv, RowInv
<1>3. DeliveriesOK'
  BY <1>1, <1>2, DeliveriesStep DEF DInv
<1>4. ASSUME NEW k \in AttackKeys, Exists(k)' PROVE CountedIn(attack'[k], Seen(k)')
  <2>1. CountedIn(attack[k], Seen(k)) /\ Seen(k)' = Seen(k)
    BY <1>1, <1>4 DEF DInv, AttacksCounted, Counted
  <2>2. attack'[k].count = attack[k].count /\ attack'[k].related = attack[k].related
    BY <1>4
  <2> QED BY <2>1, <2>2 DEF CountedIn
<1> QED BY <1>1, <1>3, <1>4 DEF DInv, AttacksCounted, Counted

LEMMA ConcludeCounts ==
    ASSUME IInv, IInv', DInv, NEW w \in Tasks, Conclude(w) PROVE DInv'
<1>1. UNCHANGED <<requests, attack>> /\ Leave(w)
  BY DEF Conclude
<1>2. CASE UNCHANGED timeline
  BY <1>1, <1>2, QuietLeave
<1>3. CASE ~ UNCHANGED timeline
  <2> DEFINE e == <<"RESPONSE_VERIFICATION", NoAttack, NoRequest>>
  <2>1. PICK i \in replay[w].incidents : timeline' = [timeline EXCEPT ![i] = @ \cup {e}]
    BY <1>3 DEF Conclude
  <2>2. i \in IncidentKeys
    BY DEF IInv, ReplayInv, Run
  <2>3. e[1] \notin Types /\ e[3] \notin Requests
    BY WebAssumption DEF Types
  <2> HIDE DEF e
  <2>4. Idle \in Session /\ DeliveryOK(Idle)' /\ ~Carries(Idle)
    BY DEF Session, Idle, DeliveryOK, Carries
  <2>5. ASSUME Grows(NoRequest) PROVE ReplaysCounted'
    <3>1. ASSUME NEW v \in Tasks
          PROVE  CopiesCounted(replay[v].known)' /\ CopiesCounted(replay[v].found)'
      <4>1. CASE v = w
        <5>1. replay'[v].known = <<>> /\ replay'[v].found = <<>>
          BY <1>1, <4>1 DEF Leave, NoReplay, IInv, ReplayInv
        <5> QED BY <5>1, NoneCounted DEF CopiesCounted, Counted
      <4>2. CASE v # w
        <5>1. PICK f \in Copies, g \in Copies : f = replay[v].known /\ g = replay[v].found
          BY DEF IInv, ReplayInv, Run
        <5>2. CopiesCounted(f) /\ CopiesCounted(g)
          BY <5>1 DEF DInv, ReplaysCounted
        <5>3. CopiesCounted(f)' /\ CopiesCounted(g)'
          BY <2>5, <5>2, CopiesStay DEF IInv, RowInv
        <5>4. replay'[v].known = f /\ replay'[v].found = g
          BY <1>1, <4>2, <5>1 DEF Leave, IInv, ReplayInv
        <5> QED BY <5>3, <5>4 DEF CopiesCounted, Counted
      <4> QED BY <4>1, <4>2
    <3> QED BY <3>1 DEF ReplaysCounted
  <2>6. \A k \in AttackKeys : Exists(k)' => /\ Exists(k)
                                            /\ attack'[k].count = attack[k].count
                                            /\ attack'[k].related = attack[k].related
    BY <1>1 DEF Exists
  <2> QED BY <1>1, <2>1, <2>2, <2>3, <2>4, <2>5, <2>6, OtherEntryCounts DEF Leave
<1> QED BY <1>2, <1>3

LEMMA MarkCounts ==
    ASSUME IInv, IInv', DInv, NEW w \in Tasks, NEW class \in Classes, NEW status \in Statuses,
           Mark(w, class, status)
    PROVE  DInv'
<1>1. PICK s \in Marking : s = session[w]
  BY SessionAt DEF Mark, IInv
<1>2. s.key \in AttackKeys /\ IncidentOf(s.key) \in IncidentKeys /\ s.step = "mark"
  BY IncidentOfType DEF Marking
<1>3. Exists(s.key) /\ attack[s.key] \in Attack
  <2>1. Consistent(s)
    BY <1>1 DEF IInv, SessionInv
  <2> QED BY <1>2, <2>1 DEF Consistent, Exists, IInv, RowInv, RowTypes
<1>4. PICK a : a = [attack[s.key] EXCEPT
                      !.class = Flush(s.held.class, class, attack[s.key].class),
                      !.status = Flush(s.held.status, IF class = "FALSE_POSITIVE" THEN class ELSE status,
                                       attack[s.key].status)]
  OBVIOUS
<1>5. attack' = [attack EXCEPT ![s.key] = a]
  BY <1>1, <1>4 DEF Mark
<1>6. a.count = attack[s.key].count /\ a.related = attack[s.key].related
  BY <1>3, <1>4 DEF Attack
<1>7. \A k \in AttackKeys : Exists(k)' => /\ Exists(k)
                                          /\ attack'[k].count = attack[k].count
                                          /\ attack'[k].related = attack[k].related
  BY <1>2, <1>3, <1>5, <1>6 DEF Exists, IInv, RowInv, RowTypes
<1> DEFINE e == <<"ATTACK_CLASSIFICATION_UPDATED", s.key, NoRequest>>
<1>8. timeline' = [timeline EXCEPT ![IncidentOf(s.key)] = @ \cup {e}]
  BY <1>1 DEF Mark, Enter
<1>9. e[1] \notin Types /\ e[3] \notin Requests
  BY WebAssumption DEF Types
<1> HIDE DEF e
<1>10. UNCHANGED requests /\ UNCHANGED replay
  BY DEF Mark
<1>11. PICK n : n.step = "rescore" /\ n.request = NoRequest /\ Move(w, n)
  BY <1>1 DEF Mark
<1>12. n \in Session /\ ~Carries(n) /\ DeliveryOK(n)'
  BY <1>11 DEF IInv, SessionInv, Move, Carries, DeliveryOK
<1>13. Grows(NoRequest) => ReplaysCounted'
  BY <1>10, ReplaysStay DEF IInv, RowInv, DInv
<1> QED BY <1>2, <1>7, <1>8, <1>9, <1>10, <1>11, <1>12, <1>13, OtherEntryCounts

\* A reset leaves the attacks that it keeps with all their entries, and dooms every
\* handler whose request or attack it deletes.
LEMMA KeepCounts ==
    ASSUME IInv, IInv', DInv, NEW stored \in SUBSET Requests, NEW attacks \in SUBSET AttackKeys,
           \A k \in attacks : Exists(k), Keep(stored, attacks)
    PROVE  DInv'
<1> DEFINE left == {IncidentOf(k) : k \in attacks}
<1>1. /\ requests' = stored
      /\ attack' = [k \in AttackKeys |-> IF k \in attacks THEN attack[k] ELSE NoAttack]
      /\ timeline' = [i \in IncidentKeys |-> IF i \in left THEN timeline[i] ELSE {}]
      /\ session' = [w \in Tasks |-> IF Gone(w, stored, attacks) THEN Doomed ELSE Forget(session[w], left)]
  BY DEF Keep
<1>2. ASSUME NEW k \in attacks PROVE timeline'[IncidentOf(k)] = timeline[IncidentOf(k)] /\ Seen(k)' = Seen(k)
  <2>1. IncidentOf(k) \in left /\ IncidentOf(k) \in IncidentKeys
    BY IncidentOfType
  <2> HIDE DEF left
  <2> QED BY <1>1, <2>1 DEF Seen
<1>3. \A i \in IncidentKeys : timeline'[i] \subseteq timeline[i]
  BY <1>1
<1> HIDE DEF left
<1>4. \A k \in AttackKeys : \A r : SeenIn(k, r)' => SeenIn(k, r)
  BY <1>3, IncidentOfType DEF SeenIn, Seen
<1>5. \A r \in Requests : Entered(r)' => Entered(r)
  <2>1. \A r \in Requests : IncidentKey(r) \in IncidentKeys
    BY DEF IncidentKeys
  <2> QED BY <1>3, <2>1 DEF Entered
<1>6. AttacksCounted'
  <2>1. ASSUME NEW k \in AttackKeys, attack'[k] # NoAttack PROVE CountedIn(attack'[k], Seen(k)')
    <3>1. k \in attacks /\ attack'[k] = attack[k]
      BY <1>1, <2>1
    <3>2. CountedIn(attack[k], Seen(k))
      BY <3>1 DEF DInv, AttacksCounted, Counted
    <3> QED BY <1>2, <3>1, <3>2
  <2> QED BY <2>1 DEF AttacksCounted, Exists, Counted
<1>7. ASSUME NEW w \in Tasks
      PROVE  \/ session'[w] = Doomed
             \/ /\ DeliveryOK(session[w])'
                /\ Carries(session'[w]) => Carries(session[w]) /\ session'[w].request = session[w].request
  <2>1. CASE Gone(w, stored, attacks)
    BY <1>1, <2>1
  <2>2. CASE ~Gone(w, stored, attacks)
    <3>1. PICK s \in Session : s = session[w] /\ DeliveryOK(s)
      BY DEF IInv, SessionInv, DInv, DeliveriesOK
    <3>2. PICK n : n = Forget(s, left) /\ n = session'[w]
      BY <1>1, <2>2, <3>1
    <3>3. /\ s.step = "store" => s.request \notin requests \ stored
          /\ s.step \in {"find", "load", "save"} => s.request \in stored
          /\ s.step \in {"load", "save"} /\ s.held # NoAttack => AttackKey(s.request, s.slug) \in attacks
          /\ s.step \in {"rescore", "score"} => s.key \in attacks
      BY <2>2, <3>1 DEF Gone
    <3>4. DeliveryOK(s)'
      <4>1. s.step = "store" /\ s.request \notin requests' => ~Entered(s.request)'
        BY <1>1, <1>5, <3>1, <3>3, RequestOf DEF DeliveryOK
      <4>2. ASSUME Carries(s), s.step \in {"rescore", "score"}
            PROVE  SeenIn(s.key, s.request)' /\ Entered(s.request)'
        <5>1. SeenIn(s.key, s.request) /\ IncidentOf(s.key) = IncidentKey(s.request)
          BY <3>1, <4>2 DEF DeliveryOK
        <5>2. Seen(s.key)' = Seen(s.key) /\ timeline'[IncidentOf(s.key)] = timeline[IncidentOf(s.key)]
          BY <1>2, <3>3, <4>2
        <5>3. Entered(s.request)
          BY <5>1, SeenIsEntered
        <5> QED BY <5>1, <5>2, <5>3 DEF SeenIn, Entered
      <4>3. Carries(s) => s.request \in requests' \/ Entered(s.request)'
        BY <1>1, <3>3, <4>2 DEF Carries
      <4>4. ASSUME Carries(s), NEW c \in Todo(s) PROVE ~SeenIn(AttackKey(s.request, c), s.request)'
        <5>1. AttackKey(s.request, c) \in AttackKeys
          BY <4>4, RequestOf, KeyOf
        <5> QED BY <1>4, <3>1, <4>4, <5>1 DEF DeliveryOK
      <4>5. ASSUME s.step \in {"load", "save"}, s.held # NoAttack
            PROVE  Counted(s.held, AttackKey(s.request, s.slug))'
        <5>1. Seen(AttackKey(s.request, s.slug))' = Seen(AttackKey(s.request, s.slug))
          BY <1>2, <3>3, <4>5
        <5> QED BY <3>1, <4>5, <5>1 DEF DeliveryOK, Counted
      <4> QED BY <3>1, <4>1, <4>2, <4>3, <4>4, <4>5 DEF DeliveryOK, Carries, Todo
    <3>5. CASE n = s
      BY <3>1, <3>2, <3>4, <3>5 DEF DeliveryOK, Carries, Todo
    <3>6. CASE n # s
      <4>1. n = [s EXCEPT !.seen = NoRow] /\ s.step \in {"find", "load"}
        BY <3>2, <3>6 DEF Forget
      <4>2. s \in Finding \cup Loading
        BY <4>1 DEF Session, Idle, Doomed, Storing, Finding, Loading, Saving, Marking,
                    Rescoring, Scoring, Replying
      <4>3. /\ n.step = s.step /\ n.request = s.request /\ n.todo = s.todo
            /\ n.step = "load" => n.slug = s.slug /\ n.held = s.held
        BY <4>1, <4>2 DEF Finding, Loading
      <4>4. DeliveryOK(n)'
        BY <3>4, <4>1, <4>3 DEF DeliveryOK, Carries, Todo
      <4>5. Carries(n) => Carries(s) /\ n.request = s.request
        BY <4>3 DEF Carries
      <4> QED BY <3>1, <3>2, <4>4, <4>5 DEF DeliveryOK, Carries, Todo
    <3> QED BY <3>5, <3>6
  <2> QED BY <2>1, <2>2
<1>8. DeliveriesOK'
  <2>1. DeliveryOK(Doomed)' /\ ~Carries(Doomed)
    BY DEF DeliveryOK, Carries, Doomed
  <2>2. ASSUME NEW w \in Tasks PROVE DeliveryOK(session[w])'
    BY <1>7, <2>1 DEF DeliveryOK, Carries, Todo
  <2>3. ASSUME NEW u \in Tasks, NEW v \in Tasks, u # v, Carries(session'[u]), Carries(session'[v])
        PROVE  session'[u].request # session'[v].request
    BY <1>7, <2>1, <2>3 DEF DInv, DeliveriesOK
  <2> QED BY <2>2, <2>3 DEF DeliveriesOK, Carries
<1>9. ReplaysCounted'
  <2>1. ASSUME NEW f \in Copies, CopiesCounted(f) PROVE CopiesCounted(Remaining(f, attacks))'
    <3>1. ASSUME NEW k \in DOMAIN f \cap attacks PROVE Counted(f[k], k)'
      <4>1. Counted(f[k], k) /\ Seen(k)' = Seen(k)
        BY <1>2, <2>1 DEF CopiesCounted
      <4> QED BY <4>1 DEF Counted
    <3> QED BY <3>1 DEF CopiesCounted, Remaining, Counted
  <2>2. ASSUME NEW w \in Tasks
        PROVE  CopiesCounted(replay[w].known)' /\ CopiesCounted(replay[w].found)'
    <3>1. PICK run \in Run : run = replay[w]
      BY DEF IInv, ReplayInv
    <3>2. PICK f \in Copies, g \in Copies : f = run.known /\ g = run.found
      BY DEF Run
    <3>3. CopiesCounted(f) /\ CopiesCounted(g)
      BY <3>1, <3>2 DEF DInv, ReplaysCounted
    <3>4. replay'[w] = [run EXCEPT !.known = Remaining(@, attacks), !.found = Remaining(@, attacks),
                                   !.incidents = @ \cap left]
      BY <3>1 DEF Keep, left
    <3>5. replay'[w].known = Remaining(f, attacks) /\ replay'[w].found = Remaining(g, attacks)
      BY <3>2, <3>4 DEF Run
    <3>6. CopiesCounted(Remaining(f, attacks))' /\ CopiesCounted(Remaining(g, attacks))'
      BY <2>1, <3>3
    <3> QED BY <3>5, <3>6 DEF CopiesCounted, Counted
  <2> QED BY <2>2 DEF ReplaysCounted
<1> QED BY <1>6, <1>8, <1>9 DEF DInv

LEMMA WebResetCounts ==
    ASSUME IInv, IInv', DInv, WebReset PROVE DInv'
<1>1. PICK left : /\ left = {k \in {j \in AttackKeys : Exists(j)} : attack[k].primary \notin Demo}
                  /\ Keep(requests \ Demo, left)
  BY DEF WebReset
<1>2. left \in SUBSET AttackKeys /\ \A k \in left : Exists(k)
  BY <1>1
<1>3. requests \ Demo \in SUBSET Requests
  BY DEF IInv, RowInv
<1> QED BY <1>1, <1>2, <1>3, KeepCounts

LEMMA IdleCounts ==
    ASSUME DInv, UNCHANGED vars PROVE DInv'
<1>1. AttacksCounted'
  BY DEF vars, rows, DInv, AttacksCounted, Exists, Counted, Seen
<1>2. DeliveriesOK'
  <2>1. requests' = requests /\ timeline' = timeline /\ session' = session
    BY DEF vars, rows
  <2>2. ASSUME NEW w \in Tasks PROVE DeliveryOK(session[w])'
    <3>1. DeliveryOK(session[w])
      BY DEF DInv, DeliveriesOK
    <3>2. PICK s : s = session[w]
      OBVIOUS
    <3> QED BY <2>1, <3>1, <3>2 DEF DeliveryOK, Carries, Todo, Entered, SeenIn, Counted, Seen
  <2> QED BY <2>1, <2>2 DEF DInv, DeliveriesOK, Carries
<1>3. ReplaysCounted'
  BY DEF vars, DInv, ReplaysCounted, CopiesCounted, Counted, Seen
<1> QED BY <1>1, <1>2, <1>3 DEF DInv

LEMMA StepCounts == IInv /\ IInv' /\ DInv /\ [Next]_vars => DInv'
<1> SUFFICES ASSUME IInv, IInv', DInv, [Next]_vars PROVE DInv'
  OBVIOUS
<1>1. ASSUME NEW w \in Tasks, Call(w) PROVE DInv'
  <2>1. ASSUME NEW r \in Requests, Deliver(w, r) PROVE DInv'
    BY <2>1, DeliverCounts
  <2>2. ASSUME NEW r \in Requests, Duplicate(w, r) PROVE DInv'
    BY <2>2, IdleCounts DEF Duplicate
  <2>3. ASSUME NEW script \in Replays, Replay(w, script) PROVE DInv'
    BY <2>3, ReplayCounts
  <2>4. ASSUME NEW k \in AttackKeys, Review(w, k) PROVE DInv'
    BY <2>4, ReviewCounts
  <2> QED BY <1>1, <2>1, <2>2, <2>3, <2>4 DEF Call
<1>2. ASSUME NEW w \in Tasks, Continue(w) PROVE DInv'
  <2>1. CASE Store(w)
    BY <2>1, StoreCounts
  <2>2. CASE \E slug \in Slugs : Find(w, slug)
    BY <2>2, FindCounts
  <2>3. CASE Load(w)
    BY <2>3, LoadCounts
  <2>4. CASE Update(w)
    BY <2>4, UpdateCounts
  <2>5. CASE Create(w)
    BY <2>5, CreateCounts
  <2>6. CASE CreateRefused(w)
    BY <2>6, QuietLeave DEF CreateRefused, rows
  <2>7. CASE Rescore(w)
    BY <2>7, RescoreCounts
  <2>8. CASE Score(w)
    BY <2>8, ScoreCounts
  <2>9. CASE Finish(w)
    BY <2>9, FinishCounts
  <2>10. CASE Reply(w)
    BY <2>10, ReplyCounts
  <2>11. CASE Advance(w)
    BY <2>11, AdvanceCounts
  <2>12. CASE Conclude(w)
    BY <2>12, ConcludeCounts
  <2>13. CASE \E class \in Classes, status \in Statuses : Mark(w, class, status)
    BY <2>13, MarkCounts
  <2>14. CASE Fail(w)
    BY <2>14, QuietLeave DEF Fail, rows
  <2> QED BY <1>2, <2>1, <2>2, <2>3, <2>4, <2>5, <2>6, <2>7, <2>8, <2>9, <2>10, <2>11, <2>12,
             <2>13, <2>14 DEF Continue
<1>3. ASSUME NEW w \in Tasks, Abort(w) PROVE DInv'
  BY <1>3, QuietLeave DEF Abort, rows
<1>4. CASE Reset
  <2>1. {} \in SUBSET Requests /\ {} \in SUBSET AttackKeys /\ \A k \in {} : Exists(k)
    OBVIOUS
  <2>2. Keep({}, {})
    BY <1>4 DEF Reset
  <2> QED BY <2>1, <2>2, KeepCounts
<1>5. CASE WebReset
  BY <1>5, WebResetCounts
<1>6. CASE UNCHANGED vars
  BY <1>6, IdleCounts
<1> QED BY <1>1, <1>2, <1>3, <1>4, <1>5, <1>6 DEF Next

LEMMA CountImplied == DInv => RelatedMatchesCount
BY DEF DInv, AttacksCounted, Counted, CountedIn, RelatedMatchesCount

\* However deliveries, demos, analysts and resets overwrite one another's copy of an attack,
\* its list of related requests has as many as the count says up to the bound, names none
\* twice and none that the timeline does not, and the count never exceeds the entries there
\* (web_detection.py:265-297).
THEOREM WebRelatedMatchesCount == Spec => []RelatedMatchesCount
<1>1. Init => IInv /\ DInv
  BY Starts, CountStarts
<1>2. IInv /\ DInv /\ [Next]_vars => (IInv /\ DInv)'
  BY StepKeeps, StepCounts
<1>3. DInv => RelatedMatchesCount
  BY CountImplied
<1> QED BY <1>1, <1>2, <1>3, PTL DEF Spec

-----------------------------------------------------------------------------
(* The answers.  Outside the demo mode nothing deletes an entry: what a      *)
(* delivery has behind it stays on the timelines until the answer and after. *)

Named(r) == Payload[r].signatures \cup Payload[r].signals
Placed(r, todo) == \A c \in Named(r) \ todo : SeenIn(AttackKey(r, c), r)

Behind(s) ==
    /\ s.step = "store" => Named(s.request) \subseteq s.todo
    /\ Carries(s) => Placed(s.request, Todo(s))
    /\ s.step = "reply" /\ s.request # NoRequest => Placed(s.request, {})

AInv ==
    /\ \A r \in answered : Placed(r, {})
    /\ \A w \in Tasks : Behind(session[w]) /\ ~replay[w].on

Extends == \A i \in IncidentKeys : timeline[i] \subseteq timeline'[i]

LEMMA StaysPlaced ==
    ASSUME Extends, NEW r \in Requests, NEW todo, Placed(r, todo) PROVE Placed(r, todo)'
<1>1. ASSUME NEW c \in Named(r) \ todo PROVE SeenIn(AttackKey(r, c), r)'
  <2>1. c \in Slugs
    BY CandidatesAssumption DEF Named
  <2>2. AttackKey(r, c) \in AttackKeys /\ SeenIn(AttackKey(r, c), r)
    BY <2>1, KeyOf DEF Placed
  <2>3. IncidentOf(AttackKey(r, c)) \in IncidentKeys
    BY <2>2, IncidentOfType
  <2> QED BY <2>2, <2>3 DEF Extends, SeenIn, Seen
<1> QED BY <1>1 DEF Placed

LEMMA BehindStays ==
    ASSUME Extends, NEW s \in Session, Behind(s) PROVE Behind(s)'
<1>1. CASE Carries(s)
  <2>1. s.request \in Requests /\ s.step \notin {"store", "reply"}
    BY <1>1, RequestOf DEF Carries
  <2>2. Placed(s.request, Todo(s))'
    BY <1>1, <2>1, StaysPlaced DEF Behind
  <2> QED BY <2>1, <2>2 DEF Behind, Placed
<1>2. CASE s.step = "reply" /\ s.request # NoRequest
  <2>1. s.request \in Requests
    BY <1>2 DEF Session, Idle, Doomed, Storing, Finding, Loading, Saving, Marking, Rescoring,
                Scoring, Replying
  <2>2. Placed(s.request, {})'
    BY <1>2, <2>1, StaysPlaced DEF Behind
  <2> QED BY <1>2, <2>2 DEF Behind, Carries
<1>3. CASE ~Carries(s) /\ ~(s.step = "reply" /\ s.request # NoRequest)
  BY <1>3 DEF Behind, Carries
<1> QED BY <1>1, <1>2, <1>3

LEMMA AnswerStep ==
    ASSUME IInv, AInv, Extends, NEW w \in Tasks, NEW n, Move(w, n), Behind(n)',
           \A r \in answered' : r \in answered \/ Placed(r, {}),
           answered' \subseteq Requests,
           \A v \in Tasks : replay'[v].on => replay[v].on
    PROVE  AInv'
<1>1. ASSUME NEW r \in answered' PROVE Placed(r, {})'
  <2>1. r \in Requests /\ Placed(r, {})
    BY DEF AInv
  <2> QED BY <2>1, StaysPlaced
<1>2. ASSUME NEW v \in Tasks PROVE Behind(session[v])'
  <2>1. CASE v = w
    <3>1. session'[v] = n
      BY <2>1 DEF Move, IInv, SessionInv
    <3> QED BY <3>1 DEF Behind, Carries, Todo, Placed
  <2>2. CASE v # w
    <3>1. PICK s \in Session : s = session[v] /\ s = session'[v]
      BY <2>2 DEF Move, IInv, SessionInv
    <3>2. Behind(s)'
      BY <3>1, BehindStays DEF AInv
    <3> QED BY <3>1, <3>2 DEF Behind, Carries, Todo, Placed
  <2> QED BY <2>1, <2>2
<1>3. \A v \in Tasks : ~replay'[v].on
  BY DEF AInv
<1> QED BY <1>1, <1>2, <1>3 DEF AInv

\* A step that only moves its handler on.
LEMMA QuietAnswer ==
    ASSUME IInv, IInv', AInv, UNCHANGED <<timeline, answered>>, NEW w \in Tasks, NEW n, Move(w, n), Behind(n),
           \A v \in Tasks : replay'[v].on => replay[v].on
    PROVE  AInv'
<1>1. Extends
  BY DEF Extends
<1>2. Behind(n)'
  BY DEF Behind, Placed, SeenIn, Seen
<1>3. answered' \subseteq Requests /\ \A r \in answered' : r \in answered
  BY DEF IInv, RowInv
<1> QED BY <1>1, <1>2, <1>3, AnswerStep

LEMMA LeaveAnswer ==
    ASSUME IInv, IInv', AInv, UNCHANGED <<timeline, answered>>, NEW w \in Tasks, Leave(w) PROVE AInv'
<1>1. Behind(Idle)
  BY DEF Behind, Idle, Carries
<1>2. \A v \in Tasks : replay'[v].on => replay[v].on
  BY DEF Leave, NoReplay, IInv, ReplayInv
<1> QED BY <1>1, <1>2, QuietAnswer DEF Leave

\* The step that enters a request in an attack has its category behind it.
LEMMA EnterAnswer ==
    ASSUME IInv, IInv', AInv, UNCHANGED <<answered, replay>>, NEW w \in Tasks, At(w, "save"),
           NEW type \in Types, NEW key, key = AttackKey(session[w].request, session[w].slug),
           Enter(type, key, session[w].request),
           NEW n, Move(w, n), n.step = "rescore", n.request = session[w].request, n.todo = session[w].todo
    PROVE  AInv'
<1>1. PICK s \in Saving : s = session[w]
  BY SessionAt DEF IInv
<1>2. s.step = "save" /\ s.request \in Requests /\ s.slug \in Slugs
  BY DEF Saving
<1>3. key \in AttackKeys /\ IncidentOf(key) \in IncidentKeys
  BY <1>1, <1>2, KeyOf, IncidentOfType
<1> DEFINE e == <<type, key, s.request>>
<1>4. /\ e \in timeline'[IncidentOf(key)] /\ e[1] = type /\ e[2] = key /\ e[3] = s.request
      /\ Extends
  BY <1>1, <1>3 DEF Enter, IInv, RowInv, RowTypes, Extends
<1> HIDE DEF e
<1>5. SeenIn(key, s.request)'
  BY <1>4 DEF SeenIn, Seen
<1>6. Carries(s) /\ Todo(s) = s.todo \cup {s.slug}
  BY <1>2, WebAssumption DEF Carries, Todo
<1>7. Placed(s.request, s.todo \cup {s.slug})
  BY <1>1, <1>6 DEF AInv, Behind
<1>8. Placed(s.request, s.todo \cup {s.slug})'
  BY <1>2, <1>4, <1>7, StaysPlaced
<1>9. Placed(s.request, s.todo)'
  BY <1>1, <1>5, <1>8 DEF Placed
<1>10. Behind(n)'
  BY <1>1, <1>9 DEF Behind, Todo, Placed
<1>11. answered' \subseteq Requests /\ \A r \in answered' : r \in answered
  BY DEF IInv, RowInv
<1> QED BY <1>4, <1>10, <1>11, AnswerStep

LEMMA DeliverAnswers ==
    ASSUME IInv, IInv', AInv, NEW w \in Tasks, NEW r \in Requests, Deliver(w, r) PROVE AInv'
<1> DEFINE n == [step |-> "store", request |-> r, todo |-> Candidates(r, requests)]
<1>1. Behind(n)
  BY DEF Behind, Carries, Named, Candidates
<1>2. Move(w, n) /\ UNCHANGED <<timeline, answered, replay>>
  BY DEF Deliver, rows
<1> HIDE DEF n
<1> QED BY <1>1, <1>2, QuietAnswer

LEMMA StoreAnswers ==
    ASSUME IInv, IInv', AInv, NEW w \in Tasks, Store(w) PROVE AInv'
<1>1. UNCHANGED <<timeline, answered>>
  BY DEF Store
<1>2. PICK s \in Storing : s = session[w]
  BY SessionAt DEF Store, IInv
<1>3. CASE s.request \in requests
  BY <1>1, <1>2, <1>3, LeaveAnswer DEF Store
<1>4. CASE s.request \notin requests
  <2> DEFINE n == [step |-> "find", request |-> s.request, todo |-> s.todo, seen |-> NoRow]
  <2>1. Move(w, n) /\ UNCHANGED replay
    BY <1>2, <1>4 DEF Store
  <2>2. Named(s.request) \subseteq s.todo
    BY <1>2 DEF AInv, Behind, Storing
  <2>3. Behind(n)
    BY <2>2 DEF Behind, Carries, Todo, Placed
  <2> HIDE DEF n
  <2> QED BY <1>1, <2>1, <2>3, QuietAnswer
<1> QED BY <1>3, <1>4

LEMMA FindAnswers ==
    ASSUME IInv, IInv', AInv, NEW w \in Tasks, NEW slug \in Slugs, Find(w, slug) PROVE AInv'
<1>1. PICK s \in Finding : s = session[w]
  BY SessionAt DEF Find, IInv
<1>2. PICK held : Move(w, [step |-> "load", request |-> s.request, todo |-> s.todo \ {slug},
                           seen |-> s.seen, slug |-> slug, held |-> held])
  BY <1>1 DEF Find
<1> DEFINE n == [step |-> "load", request |-> s.request, todo |-> s.todo \ {slug},
                 seen |-> s.seen, slug |-> slug, held |-> held]
<1>3. s.step = "find" /\ s.request # NoRequest /\ slug \in s.todo
  BY <1>1, WebAssumption DEF Finding, Find
<1>4. Placed(s.request, s.todo)
  BY <1>1, <1>3 DEF AInv, Behind, Carries, Todo
<1>5. (s.todo \ {slug}) \cup {slug} = s.todo
  BY <1>3
<1>6. Behind(n)
  BY <1>4, <1>5 DEF Behind, Carries, Todo
<1>7. UNCHANGED <<timeline, answered, replay>>
  BY DEF Find, rows
<1> HIDE DEF n
<1> QED BY <1>2, <1>6, <1>7, QuietAnswer DEF n

LEMMA LoadAnswers ==
    ASSUME IInv, IInv', AInv, NEW w \in Tasks, Load(w) PROVE AInv'
<1>1. PICK s \in Loading : s = session[w]
  BY SessionAt DEF Load, IInv
<1>2. PICK mine, row :
        Move(w, [step |-> "save", request |-> s.request, todo |-> s.todo, seen |-> s.seen,
                 slug |-> s.slug, held |-> s.held, alert |-> mine, incident |-> row])
  BY <1>1 DEF Load
<1> DEFINE n == [step |-> "save", request |-> s.request, todo |-> s.todo, seen |-> s.seen,
                 slug |-> s.slug, held |-> s.held, alert |-> mine, incident |-> row]
<1>3. s.step = "load" /\ s.request # NoRequest
  BY WebAssumption DEF Loading
<1>4. Placed(s.request, s.todo \cup {s.slug})
  BY <1>1, <1>3 DEF AInv, Behind, Carries, Todo
<1>5. Behind(n)
  BY <1>4 DEF Behind, Carries, Todo
<1>6. UNCHANGED <<timeline, answered, replay>>
  BY DEF Load, rows
<1> HIDE DEF n
<1> QED BY <1>2, <1>5, <1>6, QuietAnswer DEF n

LEMMA UpdateAnswers ==
    ASSUME IInv, IInv', AInv, NEW w \in Tasks, Update(w) PROVE AInv'
<1>1. PICK key, mine, row :
        /\ key = AttackKey(session[w].request, session[w].slug)
        /\ Enter("ATTACK_ACTIVITY_UPDATED", key, session[w].request)
        /\ Move(w, [step |-> "rescore", request |-> session[w].request, todo |-> session[w].todo,
                    key |-> key, mine |-> mine, incident |-> row])
  BY DEF Update
<1>2. UNCHANGED <<answered, replay>> /\ At(w, "save") /\ "ATTACK_ACTIVITY_UPDATED" \in Types
  BY DEF Update, Types
<1> QED BY <1>1, <1>2, EnterAnswer

LEMMA CreateAnswers ==
    ASSUME IInv, IInv', AInv, NEW w \in Tasks, Create(w) PROVE AInv'
<1>1. PICK key, mine, row, type :
        /\ key = AttackKey(session[w].request, session[w].slug)
        /\ type = IF session[w].incident = NoRow THEN "WEB_INCIDENT_CREATED" ELSE "WEB_ATTACK_CORRELATED"
        /\ Enter(type, key, session[w].request)
        /\ Move(w, [step |-> "rescore", request |-> session[w].request, todo |-> session[w].todo,
                    key |-> key, mine |-> mine, incident |-> row])
  BY DEF Create
<1>2. type \in Types
  BY <1>1 DEF Types
<1>3. UNCHANGED <<answered, replay>> /\ At(w, "save")
  BY DEF Create
<1> QED BY <1>1, <1>2, <1>3, EnterAnswer

LEMMA RescoreAnswers ==
    ASSUME IInv, IInv', AInv, NEW w \in Tasks, Rescore(w) PROVE AInv'
<1>1. PICK s \in Rescoring : s = session[w]
  BY SessionAt DEF Rescore, IInv
<1>2. PICK score :
        Move(w, [step |-> "score", request |-> s.request, todo |-> s.todo, key |-> s.key,
                 incident |-> s.incident, score |-> score])
  BY <1>1 DEF Rescore
<1> DEFINE n == [step |-> "score", request |-> s.request, todo |-> s.todo, key |-> s.key,
                 incident |-> s.incident, score |-> score]
<1>3. s.step = "rescore"
  BY DEF Rescoring
<1>4. s.request # NoRequest => Placed(s.request, s.todo)
  BY <1>1, <1>3 DEF AInv, Behind, Carries, Todo
<1>5. Behind(n)
  BY <1>4 DEF Behind, Carries, Todo
<1>6. UNCHANGED <<timeline, answered, replay>>
  BY DEF Rescore, rows
<1> HIDE DEF n
<1> QED BY <1>2, <1>5, <1>6, QuietAnswer DEF n

LEMMA ScoreAnswers ==
    ASSUME IInv, IInv', AInv, NEW w \in Tasks, Score(w) PROVE AInv'
<1>1. PICK s \in Scoring : s = session[w]
  BY SessionAt DEF Score, IInv
<1>2. s.step = "score" /\ ~replay[w].on
  BY DEF Scoring, AInv
<1>3. UNCHANGED <<timeline, answered, replay>>
  BY <1>2 DEF Score
<1>4. CASE s.request = NoRequest
  <2>1. Behind(Idle)
    BY DEF Behind, Idle, Carries
  <2> QED BY <1>1, <1>3, <1>4, <2>1, QuietAnswer DEF Score
<1>5. CASE s.request # NoRequest
  <2>1. PICK row : Move(w, [step |-> "find", request |-> s.request, todo |-> s.todo, seen |-> row])
    BY <1>1, <1>5 DEF Score
  <2> DEFINE n == [step |-> "find", request |-> s.request, todo |-> s.todo, seen |-> row]
  <2>2. Placed(s.request, s.todo)
    BY <1>1, <1>2, <1>5 DEF AInv, Behind, Carries, Todo
  <2>3. Behind(n)
    BY <2>2 DEF Behind, Carries, Todo
  <2> HIDE DEF n
  <2> QED BY <1>3, <2>1, <2>3, QuietAnswer DEF n
<1> QED BY <1>4, <1>5

LEMMA FinishAnswers ==
    ASSUME IInv, IInv', AInv, NEW w \in Tasks, Finish(w) PROVE AInv'
<1>1. PICK s \in Finding : s = session[w] /\ s.todo = {}
  BY SessionAt DEF Finish, IInv
<1> DEFINE n == [step |-> "reply", request |-> s.request]
<1>2. s.step = "find" /\ s.request # NoRequest
  BY WebAssumption DEF Finding
<1>3. Placed(s.request, {})
  BY <1>1, <1>2 DEF AInv, Behind, Carries, Todo
<1>4. Behind(n)
  BY <1>3 DEF Behind, Carries
<1>5. Move(w, n) /\ UNCHANGED <<timeline, answered, replay>>
  BY <1>1 DEF Finish, rows
<1> HIDE DEF n
<1> QED BY <1>4, <1>5, QuietAnswer

LEMMA ReplyAnswers ==
    ASSUME IInv, IInv', AInv, NEW w \in Tasks, Reply(w) PROVE AInv'
<1>1. PICK s \in Replying : s = session[w]
  BY SessionAt DEF Reply, IInv
<1>2. s.request # NoRequest => Placed(s.request, {})
  BY <1>1 DEF AInv, Behind, Replying
<1>3. \A r \in answered' : r \in answered \/ Placed(r, {})
  BY <1>1, <1>2, WebAssumption DEF Reply, IInv, RowInv
<1>4. answered' \subseteq Requests
  BY DEF IInv, RowInv
<1>5. Behind(Idle)' /\ Extends
  BY DEF Behind, Idle, Carries, Extends, Reply, rows
<1>6. \A v \in Tasks : replay'[v].on => replay[v].on
  BY DEF Reply, Leave, NoReplay, IInv, ReplayInv
<1>7. Move(w, Idle)
  BY DEF Reply, Leave
<1> QED BY <1>3, <1>4, <1>5, <1>6, <1>7, AnswerStep

LEMMA ReviewAnswers ==
    ASSUME IInv, IInv', AInv, NEW w \in Tasks, NEW k \in AttackKeys, Review(w, k) PROVE AInv'
<1>1. PICK held, mine, row :
        Move(w, [step |-> "mark", key |-> k, held |-> held, alert |-> mine, incident |-> row])
  BY DEF Review
<1> DEFINE n == [step |-> "mark", key |-> k, held |-> held, alert |-> mine, incident |-> row]
<1>2. Behind(n)
  BY DEF Behind, Carries
<1>3. UNCHANGED <<timeline, answered, replay>>
  BY DEF Review, rows
<1> HIDE DEF n
<1> QED BY <1>1, <1>2, <1>3, QuietAnswer DEF n

LEMMA MarkAnswers ==
    ASSUME IInv, IInv', AInv, NEW w \in Tasks, NEW class \in Classes, NEW status \in Statuses,
           Mark(w, class, status)
    PROVE  AInv'
<1>1. PICK s \in Marking : s = session[w]
  BY SessionAt DEF Mark, IInv
<1>2. PICK mine, row :
        Move(w, [step |-> "rescore", request |-> NoRequest, todo |-> {}, key |-> s.key,
                 mine |-> mine, incident |-> row])
  BY <1>1 DEF Mark
<1> DEFINE n == [step |-> "rescore", request |-> NoRequest, todo |-> {}, key |-> s.key,
                 mine |-> mine, incident |-> row]
<1>3. Behind(n)'
  BY DEF Behind, Carries
<1>4. Extends
  BY <1>1 DEF Mark, Enter, Extends, IInv, RowInv, RowTypes
<1>5. UNCHANGED <<answered, replay>>
  BY DEF Mark
<1>6. answered' \subseteq Requests /\ \A r \in answered' : r \in answered
  BY <1>5 DEF IInv, RowInv
<1> HIDE DEF n
<1> QED BY <1>2, <1>3, <1>4, <1>5, <1>6, AnswerStep DEF n

\* No demo runs and no reset does: the rest of the steps are deliveries' and analysts'.
LEMMA StepAnswers ==
    ASSUME ~DemoMode PROVE IInv /\ IInv' /\ AInv /\ [Next]_vars => AInv'
<1> SUFFICES ASSUME IInv, IInv', AInv, [Next]_vars PROVE AInv'
  OBVIOUS
<1>1. CASE UNCHANGED vars
  BY <1>1 DEF vars, rows, AInv, Behind, Carries, Todo, Placed, SeenIn, Seen
<1>2. ASSUME NEW w \in Tasks, Call(w) PROVE AInv'
  <2>1. ASSUME NEW r \in Requests, Deliver(w, r) PROVE AInv'
    BY <2>1, DeliverAnswers
  <2>2. ASSUME NEW r \in Requests, Duplicate(w, r) PROVE AInv'
    BY <1>1, <2>2 DEF Duplicate
  <2>3. \A script \in Replays : ~Replay(w, script)
    BY DEF Replay
  <2>4. ASSUME NEW k \in AttackKeys, Review(w, k) PROVE AInv'
    BY <2>4, ReviewAnswers
  <2> QED BY <1>2, <2>1, <2>2, <2>3, <2>4 DEF Call
<1>3. ASSUME NEW w \in Tasks, Continue(w) PROVE AInv'
  <2>1. CASE Store(w)
    BY <2>1, StoreAnswers
  <2>2. CASE \E slug \in Slugs : Find(w, slug)
    BY <2>2, FindAnswers
  <2>3. CASE Load(w)
    BY <2>3, LoadAnswers
  <2>4. CASE Update(w)
    BY <2>4, UpdateAnswers
  <2>5. CASE Create(w)
    BY <2>5, CreateAnswers
  <2>6. CASE CreateRefused(w)
    BY <2>6, LeaveAnswer DEF CreateRefused, rows
  <2>7. CASE Rescore(w)
    BY <2>7, RescoreAnswers
  <2>8. CASE Score(w)
    BY <2>8, ScoreAnswers
  <2>9. CASE Finish(w)
    BY <2>9, FinishAnswers
  <2>10. CASE Reply(w)
    BY <2>10, ReplyAnswers
  <2>11. ~Advance(w) /\ ~Conclude(w)
    BY DEF AInv, Advance, Conclude
  <2>12. CASE \E class \in Classes, status \in Statuses : Mark(w, class, status)
    BY <2>12, MarkAnswers
  <2>13. CASE Fail(w)
    BY <2>13, LeaveAnswer DEF Fail, rows
  <2> QED BY <1>3, <2>1, <2>2, <2>3, <2>4, <2>5, <2>6, <2>7, <2>8, <2>9, <2>10, <2>11, <2>12,
             <2>13 DEF Continue
<1>4. ASSUME NEW w \in Tasks, Abort(w) PROVE AInv'
  BY <1>4, LeaveAnswer DEF Abort, rows
<1>5. ~Reset /\ ~WebReset
  BY DEF Reset, WebReset
<1> QED BY <1>1, <1>2, <1>3, <1>4, <1>5 DEF Next

LEMMA AnswerStarts == Init => AInv
BY DEF Init, AInv, Behind, Idle, Carries, NoReplay

LEMMA AnswerImplied == AInv => AnsweredIsCounted
BY DEF AInv, Placed, Named, SeenIn, AnsweredIsCounted

\* Outside the demo mode, a request whose delivery was answered is on the timeline of the
\* attack of each category its content names, whatever other deliveries and analysts in
\* other processes write meanwhile, and whichever of them crash or are refused
\* (web_detection.py:368-433, web_security.py:75-111).
THEOREM WebAnswered ==
    ASSUME ~DemoMode PROVE Spec => []AnsweredIsCounted
<1>1. Init => IInv /\ AInv
  BY Starts, AnswerStarts
<1>2. IInv /\ AInv /\ [Next]_vars => (IInv /\ AInv)'
  BY StepKeeps, StepAnswers
<1>3. AInv => AnsweredIsCounted
  BY AnswerImplied
<1> QED BY <1>1, <1>2, <1>3, PTL DEF Spec

-----------------------------------------------------------------------------
(* One process, outside the demo mode.  All handlers but one wait, and what  *)
(* this one holds is what is stored: nothing is overwritten unseen.          *)

OneLoop == \A v, w \in Tasks : LoopOf[v] = LoopOf[w]

Waits(w) == session[w].step \in {"idle", "reply"}
Alone == \A v, w \in Tasks : v # w => Waits(v) \/ Waits(w)

Risk(i) ==
    RiskScore(Max({alert[k].severity : k \in Alerts(i)}), Max({alert[k].confidence : k \in Alerts(i)}),
              Cardinality(Alerts(i)), 0)

Current(s) ==
    /\ s.step \in {"find", "load", "save"} => s.seen \in {NoRow, incident[IncidentKey(s.request)]}
    /\ s.step \in {"load", "save"} => s.held = attack[AttackKey(s.request, s.slug)]
    /\ s.step = "save" =>
         /\ s.incident = incident[IncidentKey(s.request)]
         /\ s.held # NoAttack => s.alert = alert[AttackKey(s.request, s.slug)]
    /\ s.step = "mark" =>
         s.held = attack[s.key] /\ s.alert = alert[s.key] /\ s.incident = incident[IncidentOf(s.key)]
    /\ s.step \in {"rescore", "score"} =>
         /\ s.incident.score = incident[IncidentOf(s.key)].score
         /\ s.incident.level = incident[IncidentOf(s.key)].level
    /\ s.step = "rescore" => s.mine \in {NoAlert, alert[s.key]}
    /\ s.step = "score" => s.score = Risk(IncidentOf(s.key))

HoldsStored == Alone /\ \A w \in Tasks : Current(session[w]) /\ replay[w] = NoReplay

Bears(row, a, mine) ==
    /\ row.severity >= a.severity /\ mine.severity = a.severity
    /\ mine.confidence \in {a.confidence, 0}
    /\ a.class = "FALSE_POSITIVE" => a.status = "FALSE_POSITIVE" /\ mine.confidence = 0

StoredFits ==
    /\ \A k \in AttackKeys : IF Exists(k) THEN attack[k].count = Cardinality(Seen(k)) ELSE Seen(k) = {}
    /\ \A k \in AttackKeys : Exists(k) => Bears(incident[IncidentOf(k)], attack[k], alert[k])
    /\ \A i \in IncidentKeys : incident[i] # NoRow /\ i \notin owed =>
         incident[i].score = Risk(i) /\ incident[i].level = Level(incident[i].score)

SerialInv == HoldsStored /\ StoredFits

\* What SurenessNeverDrops says of a step.
Surer ==
    \A k \in AttackKeys : Exists(k) /\ attack'[k] # NoAttack =>
        attack'[k].count >= attack[k].count /\ attack'[k].confidence >= attack[k].confidence

LEMMA SerialStarts == Init => SerialInv
<1> SUFFICES ASSUME Init PROVE SerialInv
  OBVIOUS
<1>1. HoldsStored
  BY DEF Init, HoldsStored, Alone, Waits, Current, Idle
<1>2. \A k \in AttackKeys : ~Exists(k) /\ Seen(k) = {}
  BY IncidentOfType DEF Init, Exists, Seen
<1>3. \A i \in IncidentKeys : incident[i] = NoRow
  BY DEF Init
<1> QED BY <1>1, <1>2, <1>3 DEF SerialInv, StoredFits

\* A step of a handler that runs alone: the others hold nothing.
LEMMA AloneStep ==
    ASSUME OneLoop, IInv, HoldsStored, NEW w \in Tasks, Free(w), NEW n, Move(w, n), Current(n)',
           replay' = replay \/ Leave(w)
    PROVE  HoldsStored'
<1>1. ASSUME NEW v \in Tasks \ {w} PROVE session'[v] = session[v] /\ session[v].step \in {"idle", "reply"}
  BY DEF OneLoop, Free, Move, IInv, SessionInv
<1>2. session'[w] = n
  BY DEF Move, IInv, SessionInv
<1>3. Alone'
  BY <1>1 DEF Alone, Waits
<1>4. ASSUME NEW v \in Tasks PROVE Current(session[v])'
  <2>1. CASE v = w
    BY <1>2, <2>1 DEF Current, Risk, Alerts
  <2>2. CASE v # w
    BY <1>1, <2>2 DEF Current
  <2> QED BY <2>1, <2>2
<1>5. \A v \in Tasks : replay'[v] = NoReplay
  BY DEF HoldsStored, Leave, IInv, ReplayInv
<1> QED BY <1>3, <1>4, <1>5 DEF HoldsStored

\* A handler that ends, in whatever way, holds nothing.
LEMMA AloneLeave ==
    ASSUME IInv, HoldsStored, NEW w \in Tasks, Leave(w), UNCHANGED rows PROVE HoldsStored'
<1>1. ASSUME NEW v \in Tasks PROVE session'[v] = IF v = w THEN Idle ELSE session[v]
  BY DEF Leave, Move, IInv, SessionInv
<1>2. Alone'
  BY <1>1 DEF HoldsStored, Alone, Waits, Idle
<1>3. ASSUME NEW v \in Tasks PROVE Current(session[v])'
  <2>1. CASE v = w
    BY <1>1, <2>1 DEF Current, Idle
  <2>2. CASE v # w
    <3>1. PICK s : s = session[v] /\ s = session'[v]
      BY <1>1, <2>2
    <3>2. \A i : Risk(i)' = Risk(i)
      BY DEF Risk, Alerts, rows
    <3>3. Current(s)
      BY <3>1 DEF HoldsStored
    <3>4. Current(s)'
      BY <3>2, <3>3 DEF Current, rows
    <3> QED BY <3>1, <3>4 DEF Current, Risk, Alerts
  <2> QED BY <2>1, <2>2
<1>4. \A v \in Tasks : replay'[v] = NoReplay
  BY DEF HoldsStored, Leave, IInv, ReplayInv
<1> QED BY <1>2, <1>3, <1>4 DEF HoldsStored

LEMMA SameRows == StoredFits /\ UNCHANGED <<rows, owed>> => StoredFits'
BY DEF StoredFits, Exists, Seen, Bears, Risk, Alerts, rows

LEMMA SameAttacks == IInv /\ UNCHANGED attack => Surer
<1> SUFFICES ASSUME IInv, UNCHANGED attack, NEW k \in AttackKeys, Exists(k)
             PROVE  attack'[k].count >= attack[k].count /\ attack'[k].confidence >= attack[k].confidence
  BY DEF Surer
<1>1. attack[k] \in Attack
  BY DEF IInv, RowInv, RowTypes, Exists
<1>2. attack[k].count \in Nat /\ attack[k].confidence \in 0 .. 100
  BY <1>1 DEF Attack
<1> QED BY <1>2

\* The risk of an incident none of whose alerts a step writes.
LEMMA RiskStays ==
    ASSUME NEW i, NEW S, S = Alerts(i), S = Alerts(i)', \A k \in S : alert'[k] = alert[k]
    PROVE  Risk(i)' = Risk(i)
<1>1. {alert'[k].severity : k \in S} = {alert[k].severity : k \in S}
  OBVIOUS
<1>2. {alert'[k].confidence : k \in S} = {alert[k].confidence : k \in S}
  OBVIOUS
<1> QED BY <1>1, <1>2 DEF Risk

\* A step that writes an attack, its alert and its incident, and owes the risk.
LEMMA WriteFits ==
    ASSUME IInv, StoredFits, NEW k \in AttackKeys, NEW i, i = IncidentOf(k),
           NEW a, attack' = [attack EXCEPT ![k] = a], a # NoAttack,
           NEW b, alert' = [alert EXCEPT ![k] = b],
           NEW c, incident' = [incident EXCEPT ![i] = c],
           owed' = owed \cup {i},
           \A j \in AttackKeys \ {k} : Seen(j)' = Seen(j),
           a.count = Cardinality(Seen(k)'), Bears(c, a, b),
           c \in Row, incident[i] # NoRow => c.severity >= incident[i].severity
    PROVE  StoredFits'
<1>1. i \in IncidentKeys /\ attack'[k] = a /\ alert'[k] = b /\ incident'[i] = c
  BY IncidentOfType DEF IInv, RowInv, RowTypes
<1>2. /\ \A j \in AttackKeys \ {k} : attack'[j] = attack[j] /\ alert'[j] = alert[j]
      /\ \A j \in IncidentKeys \ {i} : incident'[j] = incident[j]
  BY DEF IInv, RowInv, RowTypes
<1>3. ASSUME NEW j \in AttackKeys
      PROVE  IF Exists(j)' THEN attack'[j].count = Cardinality(Seen(j)') ELSE Seen(j)' = {}
  BY <1>1, <1>2 DEF StoredFits, Exists
<1>4. ASSUME NEW j \in AttackKeys, Exists(j)' PROVE Bears(incident[IncidentOf(j)], attack[j], alert[j])'
  <2>1. CASE j = k
    BY <1>1, <2>1 DEF Bears
  <2>2. CASE j # k
    <3>1. Exists(j) /\ Bears(incident[IncidentOf(j)], attack[j], alert[j]) /\ IncidentOf(j) \in IncidentKeys
      BY <1>2, <1>4, <2>2, IncidentOfType DEF Exists, StoredFits
    <3>2. attack[j] \in Attack /\ incident[IncidentOf(j)] \in Row
      BY <3>1 DEF IInv, RowInv, RowTypes, WholeAttack, Exists
    <3>3. PICK m \in Nat, p \in Nat, q \in Nat :
            m = attack[j].severity /\ p = incident[IncidentOf(j)].severity /\ q = incident'[IncidentOf(j)].severity
      <4>1. incident'[IncidentOf(j)] \in Row
        BY <1>1, <1>2, <3>1, <3>2
      <4> QED BY <3>2, <4>1 DEF Attack, Row
    <3>4. q >= p
      BY <1>1, <1>2, <3>1, <3>2, <3>3, WebAssumption
    <3>5. p >= m
      BY <3>1, <3>3 DEF Bears
    <3>6. incident'[IncidentOf(j)].severity >= attack[j].severity
      BY <3>3, <3>4, <3>5
    <3> QED BY <1>2, <2>2, <3>1, <3>6 DEF Bears
  <2> QED BY <2>1, <2>2
<1>5. ASSUME NEW j \in IncidentKeys, incident'[j] # NoRow, j \notin owed'
      PROVE  incident'[j].score = Risk(j)' /\ incident'[j].level = Level(incident'[j].score)
  <2>1. j # i /\ j \notin owed /\ incident'[j] = incident[j]
    BY <1>2, <1>5
  <2>2. Alerts(j)' = Alerts(j) /\ \A h \in Alerts(j) : alert'[h] = alert[h]
    BY <1>2, <2>1 DEF Alerts
  <2>3. Risk(j)' = Risk(j)
    BY <2>2, RiskStays
  <2> QED BY <1>5, <2>1, <2>3 DEF StoredFits
<1> QED BY <1>3, <1>4, <1>5 DEF StoredFits

LEMMA WriteSurer ==
    ASSUME IInv, NEW k \in AttackKeys, NEW a, attack' = [attack EXCEPT ![k] = a],
           Exists(k) => a.count >= attack[k].count /\ a.confidence >= attack[k].confidence
    PROVE  Surer
<1> SUFFICES ASSUME NEW j \in AttackKeys, Exists(j)
             PROVE  attack'[j].count >= attack[j].count /\ attack'[j].confidence >= attack[j].confidence
  BY DEF Surer
<1>1. attack[j] \in Attack
  BY DEF IInv, RowInv, RowTypes, Exists
<1>2. attack[j].count \in Nat /\ attack[j].confidence \in 0 .. 100
  BY <1>1 DEF Attack
<1>3. attack'[j] = IF j = k THEN a ELSE attack[j]
  BY DEF IInv, RowInv, RowTypes
<1>4. CASE j = k
  BY <1>3, <1>4
<1>5. CASE j # k
  BY <1>2, <1>3, <1>5
<1> QED BY <1>4, <1>5

-----------------------------------------------------------------------------
(* The steps that read.                                                      *)

LEMMA DeliverSerial ==
    ASSUME OneLoop, IInv, SerialInv, NEW w \in Tasks, Free(w), NEW r \in Requests, Deliver(w, r)
    PROVE  SerialInv'
<1>n. PICK n : n = [step |-> "store", request |-> r, todo |-> Candidates(r, requests)]
  OBVIOUS
<1>1. Current(n)'
  BY <1>n DEF Current
<1>2. Move(w, n) /\ UNCHANGED <<rows, owed, replay>>
  BY <1>n DEF Deliver
<1> QED BY <1>1, <1>2, AloneStep, SameRows DEF SerialInv

LEMMA StoreSerial ==
    ASSUME OneLoop, IInv, SerialInv, NEW w \in Tasks, Free(w), Store(w)
    PROVE  SerialInv'
<1>1. PICK s \in Storing : s = session[w]
  BY SessionAt DEF Store, IInv
<1>2. PICK n : Move(w, n) /\ (n = Idle \/ (n.step = "find" /\ n.seen = NoRow)) /\ (replay' = replay \/ Leave(w))
  <2>1. CASE s.request \in requests
    BY <1>1, <2>1 DEF Store, Leave
  <2>2. CASE s.request \notin requests
    BY <1>1, <2>2 DEF Store
  <2> QED BY <2>1, <2>2
<1>3. Current(n)'
  BY <1>2 DEF Current, Idle
<1>4. StoredFits'
  BY DEF Store, SerialInv, StoredFits, Exists, Seen, Bears, Risk, Alerts
<1> QED BY <1>2, <1>3, <1>4, AloneStep DEF SerialInv

LEMMA FindSerial ==
    ASSUME OneLoop, IInv, SerialInv, NEW w \in Tasks, Free(w), NEW slug \in Slugs, Find(w, slug)
    PROVE  SerialInv'
<1>1. PICK s \in Finding : s = session[w] /\ s.step = "find"
  BY SessionAt DEF Find, IInv, At
<1>2. PICK k : k = AttackKey(s.request, slug)
  OBVIOUS
<1>3. k \in AttackKeys /\ s.request \in Requests
  BY <1>1, <1>2, KeyOf DEF Finding
<1>4. Queried(w, k) = attack[k]
  <2>1. replay[w].known = <<>>
    BY DEF SerialInv, HoldsStored, NoReplay
  <2>2. DOMAIN <<>> = {}
    OBVIOUS
  <2> QED BY <2>1, <2>2 DEF Queried
<1>n. PICK n : n = [step |-> "load", request |-> s.request, todo |-> s.todo \ {slug},
                     seen |-> s.seen, slug |-> slug, held |-> attack[k]]
  OBVIOUS
<1>5. Move(w, n) /\ UNCHANGED <<rows, owed, replay>>
  BY <1>n, <1>1, <1>2, <1>4 DEF Find
<1>6. s.seen \in {NoRow, incident[IncidentKey(s.request)]}
  BY <1>1 DEF SerialInv, HoldsStored, Current
<1>7. Current(n)'
  BY <1>n, <1>2, <1>5, <1>6 DEF Current, rows
<1> QED BY <1>5, <1>7, AloneStep, SameRows DEF SerialInv

LEMMA LoadSerial ==
    ASSUME OneLoop, IInv, SerialInv, NEW w \in Tasks, Free(w), Load(w)
    PROVE  SerialInv'
<1>1. PICK s \in Loading : s = session[w] /\ s.step = "load"
  BY SessionAt DEF Load, IInv, At
<1>2. PICK k : k = AttackKey(s.request, s.slug)
  OBVIOUS
<1>3. k \in AttackKeys /\ s.request \in Requests /\ IncidentOf(k) = IncidentKey(s.request)
  BY <1>1, <1>2, KeyOf DEF Loading
<1>4. s.seen \in {NoRow, incident[IncidentKey(s.request)]} /\ s.held = attack[k]
  BY <1>1, <1>2 DEF SerialInv, HoldsStored, Current
<1>5. PICK row \in {incident[IncidentOf(k)]} \cup ({s.seen} \ {NoRow}) :
        Move(w, [step |-> "save", request |-> s.request, todo |-> s.todo, seen |-> s.seen,
                 slug |-> s.slug, held |-> s.held,
                 alert |-> IF s.held = NoAttack THEN NoAlert ELSE alert[k], incident |-> row])
  BY <1>1, <1>2 DEF Load
<1>6. row = incident[IncidentKey(s.request)]
  BY <1>3, <1>4, <1>5
<1>n. PICK n : n = [step |-> "save", request |-> s.request, todo |-> s.todo, seen |-> s.seen,
                     slug |-> s.slug, held |-> s.held,
                     alert |-> IF s.held = NoAttack THEN NoAlert ELSE alert[k], incident |-> row]
  OBVIOUS
<1>7. UNCHANGED <<rows, owed, replay>>
  BY DEF Load
<1>8. Current(n)'
  BY <1>n, <1>2, <1>4, <1>6, <1>7 DEF Current, rows
<1> QED BY <1>n, <1>5, <1>7, <1>8, AloneStep, SameRows DEF SerialInv

LEMMA ReviewSerial ==
    ASSUME OneLoop, IInv, SerialInv, NEW w \in Tasks, Free(w), NEW k \in AttackKeys, Review(w, k)
    PROVE  SerialInv'
<1>n. PICK n : n = [step |-> "mark", key |-> k, held |-> attack[k], alert |-> alert[k],
                     incident |-> incident[IncidentOf(k)]]
  OBVIOUS
<1>1. Move(w, n) /\ UNCHANGED <<rows, owed, replay>>
  BY <1>n DEF Review
<1>2. Current(n)'
  BY <1>n, <1>1 DEF Current, rows
<1> QED BY <1>1, <1>2, AloneStep, SameRows DEF SerialInv

LEMMA RescoreSerial ==
    ASSUME OneLoop, IInv, SerialInv, NEW w \in Tasks, Free(w), Rescore(w)
    PROVE  SerialInv'
<1>1. PICK s \in Rescoring : s = session[w] /\ s.step = "rescore"
  BY SessionAt DEF Rescore, IInv, At
<1>2. PICK i : i = IncidentOf(s.key)
  OBVIOUS
<1>3. s.mine \in {NoAlert, alert[s.key]} /\ s.key \in AttackKeys
      /\ s.incident.score = incident[i].score /\ s.incident.level = incident[i].level
  BY <1>1, <1>2 DEF SerialInv, HoldsStored, Current, Rescoring
<1>4. PICK held : held = [alert EXCEPT ![s.key] = IF s.mine = NoAlert THEN @ ELSE s.mine]
  OBVIOUS
<1>m. held = alert
  BY <1>3, <1>4 DEF IInv, RowInv, RowTypes
<1>a. PICK all : all = Alerts(i)
  OBVIOUS
<1>p. PICK score : score = RiskScore(Max({held[k].severity : k \in all}),
                                     Max({held[k].confidence : k \in all}), Cardinality(all), 0)
  OBVIOUS
<1>r. score = Risk(i)
  BY <1>m, <1>a, <1>p DEF Risk
<1>n. PICK n : n = [step |-> "score", request |-> s.request, todo |-> s.todo, key |-> s.key,
                    incident |-> s.incident, score |-> score]
  OBVIOUS
<1>5. Move(w, n)
  BY <1>1, <1>2, <1>4, <1>a, <1>p, <1>n DEF Rescore
<1>6. UNCHANGED <<rows, owed, replay>>
  BY DEF Rescore
<1>7. Risk(i)' = Risk(i)
  BY <1>6 DEF Risk, Alerts, rows
<1>8. Current(n)'
  BY <1>n, <1>r, <1>2, <1>3, <1>6, <1>7 DEF Current, rows
<1> QED BY <1>5, <1>6, <1>8, AloneStep, SameRows DEF SerialInv

LEMMA FinishSerial ==
    ASSUME OneLoop, IInv, SerialInv, NEW w \in Tasks, Free(w), Finish(w)
    PROVE  SerialInv'
<1>n. PICK n : n = [step |-> "reply", request |-> session[w].request]
  OBVIOUS
<1>1. Move(w, n) /\ UNCHANGED <<rows, owed, replay>>
  BY <1>n DEF Finish
<1>2. Current(n)'
  BY <1>n DEF Current
<1> QED BY <1>1, <1>2, AloneStep, SameRows DEF SerialInv

LEMMA LeaveSerial ==
    ASSUME IInv, SerialInv, NEW w \in Tasks, Leave(w), UNCHANGED <<rows, owed>>
    PROVE  SerialInv'
BY AloneLeave, SameRows DEF SerialInv

\* The new risk is the one of the alerts as they are stored, and all of it is written.
LEMMA ScoreSerial ==
    ASSUME OneLoop, IInv, IInv', DInv, SerialInv, NEW w \in Tasks, Free(w), Score(w)
    PROVE  SerialInv'
<1>1. PICK s \in Scoring : s = session[w] /\ s.step = "score"
  BY SessionAt DEF Score, IInv, At
<1>2. PICK i : i = IncidentOf(s.key)
  OBVIOUS
<1>3. s.key \in AttackKeys /\ i \in IncidentKeys /\ s.score \in Nat
  BY <1>2, IncidentOfType DEF Scoring
<1>4. /\ s.incident.score = incident[i].score /\ s.incident.level = incident[i].level
      /\ s.score = Risk(i)
  BY <1>1, <1>2 DEF SerialInv, HoldsStored, Current
<1>5. incident[i] \in Row
  <2>1. Exists(s.key)
    BY <1>1 DEF IInv, SessionInv, Consistent
  <2> QED BY <1>2, <1>3, <2>1 DEF IInv, RowInv, RowTypes, WholeAttack
<1>6. PICK c : c = Assess(incident[i], s.incident, s.score)
  OBVIOUS
<1>7. c.score = Risk(i) /\ c.level = Level(c.score) /\ c.severity = incident[i].severity
  BY <1>4, <1>5, <1>6 DEF Assess, Flush, Row
<1>8. /\ incident' = [incident EXCEPT ![i] = c] /\ owed' = owed \ {i}
      /\ UNCHANGED <<requests, attack, alert, timeline>>
  BY <1>1, <1>2, <1>6 DEF Score
<1>9. incident'[i] = c /\ \A j \in IncidentKeys \ {i} : incident'[j] = incident[j]
  BY <1>3, <1>8 DEF IInv, RowInv, RowTypes
<1>10. \A j : Risk(j)' = Risk(j)
  BY <1>8 DEF Risk, Alerts
<1>11. StoredFits'
  <2>1. ASSUME NEW k \in AttackKeys, Exists(k) PROVE Bears(incident[IncidentOf(k)], attack[k], alert[k])'
    <3>1. incident'[IncidentOf(k)].severity = incident[IncidentOf(k)].severity
      BY <1>7, <1>9, IncidentOfType
    <3>2. Bears(incident[IncidentOf(k)], attack[k], alert[k])
      BY <2>1 DEF SerialInv, StoredFits
    <3> QED BY <1>8, <3>1, <3>2 DEF Bears
  <2>2. ASSUME NEW j \in IncidentKeys, incident'[j] # NoRow, j \notin owed'
        PROVE  incident'[j].score = Risk(j)' /\ incident'[j].level = Level(incident'[j].score)
    BY <1>7, <1>8, <1>9, <1>10, <2>2 DEF SerialInv, StoredFits
  <2>3. \A k \in AttackKeys : IF Exists(k)' THEN attack'[k].count = Cardinality(Seen(k)') ELSE Seen(k)' = {}
    BY <1>8 DEF SerialInv, StoredFits, Exists, Seen
  <2>4. \A k \in AttackKeys : Exists(k)' => Exists(k)
    BY <1>8 DEF Exists
  <2> QED BY <2>1, <2>2, <2>3, <2>4 DEF StoredFits
<1>12. PICK n : Move(w, n) /\ n = IF s.request = NoRequest THEN Idle
                                  ELSE [step |-> "find", request |-> s.request, todo |-> s.todo, seen |-> c]
  BY <1>1, <1>2, <1>9 DEF Score
<1>13. replay' = replay
  BY DEF Score, SerialInv, HoldsStored, NoReplay
<1>14. Current(n)'
  <2>1. CASE s.request = NoRequest
    BY <1>12, <2>1 DEF Current, Idle
  <2>2. CASE s.request # NoRequest
    <3>1. IncidentKey(s.request) = i
      BY <1>1, <1>2, <2>2 DEF DInv, DeliveriesOK, DeliveryOK, Carries
    <3> QED BY <1>9, <1>12, <2>2, <3>1 DEF Current
  <2> QED BY <2>1, <2>2
<1> QED BY <1>11, <1>12, <1>13, <1>14, AloneStep DEF SerialInv

-----------------------------------------------------------------------------
(* The steps that write an attack.                                           *)

\* A handler that holds what is stored writes what it has computed.
LEMMA RenewedFresh ==
    ASSUME NEW now \in Attack, NEW r \in Requests, NEW slug \in Slugs, NEW signaled \in BOOLEAN,
           NEW new, new = Classification(slug, CountOneMore(now), signaled),
           NEW sure, sure = Sureness(now, new), NEW a, a = Renewed(now, now, r, new, sure)
    PROVE  /\ a \in Attack /\ a.count = now.count + 1 /\ a.confidence = sure /\ a.severity = new.severity
           /\ a.class # "FALSE_POSITIVE"
           /\ new.severity \in 0 .. 4 /\ sure \in 0 .. 100 /\ sure >= now.confidence
<1>1. /\ new \in [class: Classes, severity: 0 .. 4, confidence: 0 .. 100] /\ sure \in 0 .. 100
      /\ a \in Attack /\ a.count = now.count + 1
  BY Updated
<1>2. new.class # "FALSE_POSITIVE"
  BY DEF Classification
<1>3. a.confidence = sure /\ a.severity = new.severity /\ a.class = new.class
  BY DEF Renewed, Flush, Attack
<1>4. PICK m \in 0 .. 100, q \in 0 .. 100 : m = now.confidence /\ q = new.confidence
  <2>1. now.confidence \in 0 .. 100 /\ new.confidence \in 0 .. 100
    BY <1>1 DEF Attack
  <2> QED BY <2>1
<1>5. sure >= now.confidence
  BY <1>4 DEF Sureness, Larger
<1> QED BY <1>1, <1>2, <1>3, <1>5

LEMMA UpdateSerial ==
    ASSUME OneLoop, IInv, IInv', DInv, SerialInv, NEW w \in Tasks, Free(w), Update(w)
    PROVE  SerialInv' /\ Surer
<1>1. PICK s \in Saving : s = session[w] /\ s.held # NoAttack /\ s.step = "save"
  BY SessionAt DEF Update, IInv, At
<1>2. PICK k : k = AttackKey(s.request, s.slug)
  OBVIOUS
<1>3. PICK i : i = IncidentOf(k)
  OBVIOUS
<1>4. PICK new : new = Classification(s.slug, CountOneMore(s.held), Signaled(s))
  OBVIOUS
<1>5. PICK sure : sure = Sureness(s.held, new)
  OBVIOUS
<1>6. s.request \in Requests /\ s.slug \in Slugs
  BY DEF Saving
<1>7. k \in AttackKeys /\ i \in IncidentKeys /\ i = IncidentKey(s.request)
  BY <1>2, <1>3, <1>6, KeyOf
<1>8. /\ s.held = attack[k] /\ s.alert = alert[k] /\ s.incident = incident[i]
  BY <1>1, <1>2, <1>7 DEF SerialInv, HoldsStored, Current
<1>9. attack[k] \in Attack /\ alert[k] \in Alert /\ incident[i] \in Row /\ Exists(k)
  <2>1. Exists(k)
    BY <1>1, <1>8 DEF Exists
  <2>2. WholeAttack(k) /\ attack[k] \in Attack \cup {NoAttack} /\ alert[k] \in Alert \cup {NoAlert}
        /\ incident[i] \in Row \cup {NoRow}
    BY <1>7 DEF IInv, RowInv, RowTypes
  <2> QED BY <1>3, <2>1, <2>2 DEF WholeAttack, Exists
<1>10. PICK a : a = Renewed(attack[k], attack[k], s.request, new, sure)
  OBVIOUS
<1>11. /\ a \in Attack /\ a.count = attack[k].count + 1 /\ a.confidence = sure /\ a.severity = new.severity
       /\ a.class # "FALSE_POSITIVE"
       /\ new.severity \in 0 .. 4 /\ sure \in 0 .. 100 /\ sure >= attack[k].confidence
  <2>1. PICK signaled \in BOOLEAN : signaled = Signaled(s)
    <3>1. Signaled(s) \in BOOLEAN
      BY DEF Signaled
    <3> QED BY <3>1
  <2>2. new = Classification(s.slug, CountOneMore(attack[k]), signaled) /\ sure = Sureness(attack[k], new)
    BY <1>4, <1>5, <1>8, <2>1
  <2> QED BY <1>6, <1>9, <1>10, <2>2, RenewedFresh
<1>12. PICK b : b = [confidence |-> sure, severity |-> new.severity]
  OBVIOUS
<1>13. PICK c : c = [incident[i] EXCEPT !.severity = Raise(incident[i].severity, new.severity, @)]
  OBVIOUS
<1>14. attack' = [attack EXCEPT ![k] = a]
  BY <1>1, <1>2, <1>4, <1>5, <1>8, <1>10 DEF Update, Renewed
<1>15. alert' = [alert EXCEPT ![k] = b]
  <2>1. PICK x : x = [confidence |-> Flush(s.alert.confidence, sure, alert[k].confidence),
                      severity |-> Flush(s.alert.severity, new.severity, alert[k].severity)]
    OBVIOUS
  <2>2. alert' = [alert EXCEPT ![k] = x]
    BY <1>1, <1>2, <1>4, <1>5, <2>1 DEF Update
  <2>3. x = b
    BY <1>8, <1>12, <2>1 DEF Flush
  <2> QED BY <2>2, <2>3
<1>16. incident' = [incident EXCEPT ![i] = c]
  BY <1>1, <1>2, <1>3, <1>4, <1>8, <1>13 DEF Update
<1>17. /\ owed' = owed \cup {i} /\ UNCHANGED <<requests, replay>>
       /\ timeline' = [timeline EXCEPT ![IncidentOf(k)] = @ \cup {<<"ATTACK_ACTIVITY_UPDATED", k, s.request>>}]
  BY <1>1, <1>2, <1>3 DEF Update, Enter
<1>18. /\ c \in Row /\ c.severity >= incident[i].severity /\ c.severity >= new.severity
       /\ c.score = incident[i].score /\ c.level = incident[i].level
  <2>1. PICK m \in 0 .. 4, q \in 0 .. 4 : m = incident[i].severity /\ q = new.severity
    BY <1>9, <1>11 DEF Row
  <2>2. PICK x : x = Raise(m, q, m)
    OBVIOUS
  <2>3. x \in 0 .. 4 /\ x >= m /\ x >= q
    BY <2>2 DEF Raise
  <2>4. c = [incident[i] EXCEPT !.severity = x]
    BY <1>13, <2>1, <2>2
  <2> QED BY <1>9, <2>1, <2>3, <2>4 DEF Row
<1>19. a.count = Cardinality(Seen(k)') /\ \A j \in AttackKeys \ {k} : Seen(j)' = Seen(j)
  <2> DEFINE e == <<"ATTACK_ACTIVITY_UPDATED", k, s.request>>
  <2>1. Seen(k)' = Seen(k) \cup {e} /\ (\A j \in AttackKeys \ {k} : Seen(j)' = Seen(j)) /\ e[3] = s.request
    <3>1. "ATTACK_ACTIVITY_UPDATED" \in Types
      BY DEF Types
    <3> QED BY <1>6, <1>7, <1>17, <3>1, EntryGrows DEF IInv, RowInv
  <2> HIDE DEF e
  <2>2. e \notin Seen(k)
    <3>1. DeliveryOK(s) /\ Carries(s) /\ s.slug \in Todo(s)
      BY <1>1, <1>6, WebAssumption DEF DInv, DeliveriesOK, Carries, Todo
    <3>2. ~SeenIn(k, s.request)
      BY <1>2, <3>1 DEF DeliveryOK
    <3> QED BY <2>1, <3>2 DEF SeenIn
  <2>3. PICK S : S = Seen(k)
    OBVIOUS
  <2>4. IsFiniteSet(S) /\ attack[k].count = Cardinality(S)
    BY <1>7, <1>9, <2>3, SeenFinite DEF IInv, RowInv, SerialInv, StoredFits
  <2>5. Cardinality(S \cup {e}) = Cardinality(S) + 1
    BY <2>2, <2>3, <2>4, FS_AddElement
  <2> QED BY <1>11, <2>1, <2>3, <2>4, <2>5
<1>20. Bears(c, a, b)
  BY <1>11, <1>12, <1>18 DEF Bears
<1>21. a # NoAttack
  BY <1>11, WebAssumption
<1>22. StoredFits'
  BY <1>3, <1>7, <1>14, <1>15, <1>16, <1>17, <1>18, <1>19, <1>20, <1>21, WriteFits DEF SerialInv
<1>23. Surer
  <2>1. attack[k].count \in Nat
    BY <1>9 DEF Attack
  <2>2. a.count >= attack[k].count
    BY <1>11, <2>1
  <2> QED BY <1>7, <1>11, <1>14, <2>2, WriteSurer
<1>24. PICK n : n = [step |-> "rescore", request |-> s.request, todo |-> s.todo, key |-> k,
                     mine |-> b, incident |-> s.incident]
  OBVIOUS
<1>25. Move(w, n)
  BY <1>1, <1>2, <1>4, <1>5, <1>12, <1>24 DEF Update
<1>26. Current(n)'
  <2>1. incident'[i] = c /\ alert'[k] = b
    BY <1>7, <1>15, <1>16 DEF IInv, RowInv, RowTypes
  <2>2. s.incident.score = incident'[i].score /\ s.incident.level = incident'[i].level
    BY <1>8, <1>18, <2>1
  <2> QED BY <1>3, <1>24, <2>1, <2>2 DEF Current
<1>27. HoldsStored'
  BY <1>17, <1>25, <1>26, AloneStep DEF SerialInv
<1> QED BY <1>22, <1>23, <1>27 DEF SerialInv

LEMMA CreateSerial ==
    ASSUME OneLoop, IInv, IInv', DInv, SerialInv, NEW w \in Tasks, Free(w), Create(w)
    PROVE  SerialInv' /\ Surer
<1>1. PICK s \in Saving : s = session[w] /\ s.held = NoAttack /\ s.step = "save"
  BY SessionAt DEF Create, IInv, At
<1>2. PICK k : k = AttackKey(s.request, s.slug)
  OBVIOUS
<1>3. PICK i : i = IncidentOf(k)
  OBVIOUS
<1>4. PICK new : new = Classification(s.slug, 1, Signaled(s))
  OBVIOUS
<1>5. PICK row : row = IF s.incident = NoRow THEN [severity |-> Severity[s.slug], score |-> 0, level |-> 1]
                       ELSE s.incident
  OBVIOUS
<1>6. /\ s.request \in Requests /\ s.slug \in Slugs
  BY DEF Saving
<1>7. k \in AttackKeys /\ i \in IncidentKeys /\ i = IncidentKey(s.request)
  BY <1>2, <1>3, <1>6, KeyOf
<1>8. s.incident = incident[i] /\ ~Exists(k) /\ incident[i] \in Row \cup {NoRow}
  BY <1>1, <1>2, <1>7 DEF Create, Unclaimed, SerialInv, HoldsStored, Current, IInv, RowInv, RowTypes
<1>9. /\ new.severity \in 0 .. 4 /\ new.confidence \in 0 .. 100 /\ new.class \in Classes
      /\ new.class # "FALSE_POSITIVE"
  <2>1. PICK signaled \in BOOLEAN : signaled = Signaled(s)
    <3>1. Signaled(s) \in BOOLEAN
      BY DEF Signaled
    <3> QED BY <3>1
  <2>2. new \in [class: Classes, severity: 0 .. 4, confidence: 0 .. 100]
    BY <1>4, <1>6, <2>1, ClassificationType
  <2>3. new.class # "FALSE_POSITIVE"
    BY <1>4 DEF Classification
  <2> QED BY <2>2, <2>3
<1>10. row \in Row /\ (incident[i] # NoRow => row = incident[i])
  <2>1. Severity[s.slug] \in 0 .. 4
    BY <1>6, WebAssumption
  <2> QED BY <1>5, <1>8, <2>1 DEF Row
<1>11. PICK a : a = [count |-> 1, related |-> <<s.request>>, primary |-> s.request, class |-> new.class,
                     status |-> "DETECTED", confidence |-> new.confidence, severity |-> new.severity]
  OBVIOUS
<1>12. PICK b : b = [confidence |-> new.confidence, severity |-> new.severity]
  OBVIOUS
<1>13. PICK c : c = IF incident[i] = NoRow THEN [row EXCEPT !.severity = Larger(row.severity, new.severity)]
                    ELSE [incident[i] EXCEPT !.severity = Raise(row.severity, new.severity, incident[i].severity)]
  OBVIOUS
<1>14. attack' = [attack EXCEPT ![k] = a]
  BY <1>1, <1>2, <1>4, <1>11 DEF Create
<1>15. alert' = [alert EXCEPT ![k] = b]
  BY <1>1, <1>2, <1>4, <1>12 DEF Create
<1>16. incident' = [incident EXCEPT ![i] = c]
  BY <1>1, <1>2, <1>3, <1>4, <1>5, <1>13 DEF Create
<1>17. PICK type \in Types :
         timeline' = [timeline EXCEPT ![IncidentOf(k)] = @ \cup {<<type, k, s.request>>}]
  BY <1>1, <1>2 DEF Create, Enter, Types
<1>18. owed' = owed \cup {i} /\ UNCHANGED <<requests, replay>>
  BY <1>1, <1>2, <1>3 DEF Create
<1>19. /\ c \in Row /\ c.severity >= new.severity /\ (incident[i] # NoRow => c.severity >= incident[i].severity)
       /\ c.score = row.score /\ c.level = row.level
  <2>1. PICK m \in 0 .. 4, q \in 0 .. 4 : m = row.severity /\ q = new.severity
    BY <1>9, <1>10 DEF Row
  <2>2. PICK x : x = IF incident[i] = NoRow THEN Larger(m, q) ELSE Raise(m, q, m)
    OBVIOUS
  <2>3. x \in 0 .. 4 /\ x >= m /\ x >= q
    BY <2>2 DEF Raise, Larger
  <2>4. c = [row EXCEPT !.severity = x]
    BY <1>10, <1>13, <2>1, <2>2
  <2> QED BY <1>10, <2>1, <2>3, <2>4 DEF Row
<1>20. a.count = Cardinality(Seen(k)') /\ \A j \in AttackKeys \ {k} : Seen(j)' = Seen(j)
  <2>1. Seen(k)' = Seen(k) \cup {<<type, k, s.request>>} /\ \A j \in AttackKeys \ {k} : Seen(j)' = Seen(j)
    BY <1>6, <1>7, <1>17, <1>18, EntryGrows DEF IInv, RowInv
  <2>2. Seen(k) = {}
    BY <1>7, <1>8 DEF SerialInv, StoredFits
  <2>3. Cardinality({<<type, k, s.request>>}) = 1
    BY FS_Singleton
  <2> QED BY <1>11, <2>1, <2>2, <2>3
<1>21. Bears(c, a, b)
  BY <1>9, <1>11, <1>12, <1>19 DEF Bears
<1>22. a # NoAttack
  <2>1. <<s.request>> \in Seq(Requests)
    BY <1>6
  <2>2. a \in Attack
    BY <1>6, <1>9, <1>11, <2>1 DEF Attack, Statuses
  <2> QED BY <2>2, WebAssumption
<1>23. StoredFits'
  BY <1>3, <1>7, <1>14, <1>15, <1>16, <1>18, <1>19, <1>20, <1>21, <1>22, WriteFits DEF SerialInv
<1>24. Surer
  BY <1>7, <1>8, <1>14, WriteSurer
<1>25. PICK n : n = [step |-> "rescore", request |-> s.request, todo |-> s.todo, key |-> k,
                     mine |-> b, incident |-> row]
  OBVIOUS
<1>26. alert'[k] = b /\ incident'[i] = c
  BY <1>7, <1>15, <1>16 DEF IInv, RowInv, RowTypes
<1>27. Move(w, n)
  BY <1>1, <1>2, <1>5, <1>25, <1>26 DEF Create
<1>28. Current(n)'
  BY <1>3, <1>19, <1>25, <1>26 DEF Current
<1>29. HoldsStored'
  BY <1>18, <1>27, <1>28, AloneStep DEF SerialInv
<1> QED BY <1>23, <1>24, <1>29 DEF SerialInv

\* An analyst's verdict changes neither count nor confidence of the attack.
LEMMA MarkSerial ==
    ASSUME OneLoop, IInv, IInv', DInv, SerialInv, NEW w \in Tasks, Free(w),
           NEW class \in Classes, NEW status \in Statuses, Mark(w, class, status)
    PROVE  SerialInv' /\ Surer
<1>1. PICK s \in Marking : s = session[w] /\ s.step = "mark"
  BY SessionAt DEF Mark, IInv, At
<1>2. PICK k : k = s.key
  OBVIOUS
<1>3. PICK i : i = IncidentOf(k)
  OBVIOUS
<1>4. k \in AttackKeys /\ i \in IncidentKeys
  BY <1>2, <1>3, IncidentOfType DEF Marking
<1>5. s.held = attack[k] /\ s.alert = alert[k] /\ s.incident = incident[i]
  BY <1>1, <1>2, <1>3 DEF SerialInv, HoldsStored, Current
<1>6. attack[k] \in Attack /\ alert[k] \in Alert /\ incident[i] \in Row /\ Exists(k)
  <2>1. Exists(k)
    BY <1>1, <1>2 DEF IInv, SessionInv, Consistent
  <2> QED BY <1>3, <1>4, <2>1 DEF IInv, RowInv, RowTypes, WholeAttack, Exists
<1>7. PICK x : x = IF class = "FALSE_POSITIVE" THEN class ELSE status
  OBVIOUS
<1>8. PICK a : a = [attack[k] EXCEPT !.class = class, !.status = x]
  OBVIOUS
<1>9. attack' = [attack EXCEPT ![k] = a]
  <2>1. PICK y, z : /\ y = Flush(s.held.class, class, attack[k].class)
                    /\ z = Flush(s.held.status, x, attack[k].status)
    OBVIOUS
  <2>2. attack' = [attack EXCEPT ![k] = [attack[k] EXCEPT !.class = y, !.status = z]]
    BY <1>1, <1>2, <1>7, <2>1 DEF Mark
  <2>3. y = class /\ z = x
    BY <1>5, <2>1 DEF Flush
  <2> QED BY <1>8, <2>2, <2>3
<1>10. PICK b : b = IF class = "FALSE_POSITIVE" THEN [alert[k] EXCEPT !.confidence = 0] ELSE alert[k]
  OBVIOUS
<1>11. alert' = [alert EXCEPT ![k] = b]
  <2>1. CASE class = "FALSE_POSITIVE"
    <3>1. alert' = [alert EXCEPT ![k].confidence = Flush(s.alert.confidence, 0, @)]
      BY <1>1, <1>2, <2>1 DEF Mark
    <3>2. PICK y : y = Flush(s.alert.confidence, 0, alert[k].confidence)
      OBVIOUS
    <3>3. alert' = [alert EXCEPT ![k].confidence = y] /\ y = 0
      BY <1>5, <3>1, <3>2 DEF Flush
    <3> QED BY <1>10, <2>1, <3>3
  <2>2. CASE class # "FALSE_POSITIVE"
    BY <1>1, <1>10, <2>2 DEF Mark, IInv, RowInv, RowTypes
  <2> QED BY <2>1, <2>2
<1>12. /\ UNCHANGED <<requests, incident, replay>> /\ owed' = owed \cup {i}
       /\ timeline' = [timeline EXCEPT ![i] = @ \cup {<<"ATTACK_CLASSIFICATION_UPDATED", k, NoRequest>>}]
  BY <1>1, <1>2, <1>3 DEF Mark, Enter
<1>13. \A j \in AttackKeys : Seen(j)' = Seen(j)
  <2>1. PICK e : e = <<"ATTACK_CLASSIFICATION_UPDATED", k, NoRequest>>
    OBVIOUS
  <2>2. e[1] \notin Types /\ e[3] \notin Requests
    BY <2>1, WebAssumption DEF Types
  <2> QED BY <1>4, <1>12, <2>1, <2>2, OtherEntryGrows DEF IInv, RowInv
<1>14. /\ a \in Attack /\ a.count = attack[k].count /\ a.confidence = attack[k].confidence
       /\ a.severity = attack[k].severity /\ a.class = class /\ a.status = x
  BY <1>6, <1>7, <1>8 DEF Attack, Statuses
<1>15. b.severity = alert[k].severity /\ b.confidence \in {alert[k].confidence, 0}
       /\ (class = "FALSE_POSITIVE" => b.confidence = 0)
  BY <1>6, <1>10 DEF Alert
<1>16. Bears(incident[i], a, b)
  <2>1. Bears(incident[i], attack[k], alert[k])
    BY <1>3, <1>4, <1>6 DEF SerialInv, StoredFits
  <2> QED BY <1>7, <1>14, <1>15, <2>1 DEF Bears
<1>17. a.count = Cardinality(Seen(k)')
  BY <1>4, <1>6, <1>13, <1>14 DEF SerialInv, StoredFits
<1>18. PICK c : c = incident[i]
  OBVIOUS
<1>19. incident' = [incident EXCEPT ![i] = c] /\ c.severity >= incident[i].severity
  <2>1. c.severity \in 0 .. 4
    BY <1>6, <1>18 DEF Row
  <2>2. incident' = [incident EXCEPT ![i] = c]
    BY <1>4, <1>12, <1>18 DEF IInv, RowInv, RowTypes
  <2> QED BY <1>18, <2>1, <2>2
<1>20. a # NoAttack
  BY <1>14, WebAssumption
<1>21. StoredFits'
  BY <1>3, <1>4, <1>6, <1>9, <1>11, <1>12, <1>13, <1>16, <1>17, <1>18, <1>19, <1>20, WriteFits DEF SerialInv
<1>22. Surer
  <2>1. attack[k].count \in Nat /\ attack[k].confidence \in 0 .. 100
    BY <1>6 DEF Attack
  <2>2. a.count >= attack[k].count /\ a.confidence >= attack[k].confidence
    BY <1>14, <2>1
  <2> QED BY <1>4, <1>9, <2>2, WriteSurer
<1>23. PICK n : n = [step |-> "rescore", request |-> NoRequest, todo |-> {}, key |-> k,
                     mine |-> IF class = "FALSE_POSITIVE" THEN [s.alert EXCEPT !.confidence = 0] ELSE NoAlert,
                     incident |-> s.incident]
  OBVIOUS
<1>24. Move(w, n)
  BY <1>1, <1>2, <1>23 DEF Mark
<1>25. Current(n)'
  <2>1. alert'[k] = b /\ incident'[i] = incident[i]
    BY <1>4, <1>11, <1>12 DEF IInv, RowInv, RowTypes
  <2> QED BY <1>3, <1>5, <1>10, <1>23, <2>1 DEF Current
<1>26. HoldsStored'
  BY <1>12, <1>24, <1>25, AloneStep DEF SerialInv
<1> QED BY <1>21, <1>22, <1>26 DEF SerialInv

LEMMA StepSerial ==
    ASSUME OneLoop, ~DemoMode
    PROVE  IInv /\ IInv' /\ DInv /\ SerialInv /\ [Next]_vars => SerialInv' /\ Surer
<1> SUFFICES ASSUME IInv, IInv', DInv, SerialInv, [Next]_vars PROVE SerialInv' /\ Surer
  OBVIOUS
<1>1. CASE UNCHANGED vars
  <2>1. HoldsStored'
    <3>1. Alone' /\ \A w \in Tasks : replay'[w] = NoReplay
      BY <1>1 DEF vars, SerialInv, HoldsStored, Alone, Waits
    <3>2. ASSUME NEW w \in Tasks PROVE Current(session[w])'
      <4>1. PICK s : s = session[w] /\ s = session'[w]
        BY <1>1 DEF vars
      <4>2. \A i : Risk(i)' = Risk(i)
        BY <1>1 DEF vars, rows, Risk, Alerts
      <4>3. Current(s)
        BY <4>1 DEF SerialInv, HoldsStored
      <4>4. Current(s)'
        BY <1>1, <4>2, <4>3 DEF Current, vars, rows
      <4> QED BY <4>1, <4>4 DEF Current, Risk, Alerts
    <3> QED BY <3>1, <3>2 DEF HoldsStored
  <2>2. UNCHANGED <<rows, owed>> /\ UNCHANGED attack
    BY <1>1 DEF vars, rows
  <2> QED BY <2>1, <2>2, SameRows, SameAttacks DEF SerialInv
<1>2. ASSUME NEW w \in Tasks, Free(w), Call(w) PROVE SerialInv' /\ Surer
  <2>1. ASSUME NEW r \in Requests, Deliver(w, r) PROVE SerialInv' /\ Surer
    BY <1>2, <2>1, DeliverSerial, SameAttacks DEF Deliver, rows
  <2>2. ASSUME NEW r \in Requests, Duplicate(w, r) PROVE SerialInv' /\ Surer
    BY <1>1, <2>2 DEF Duplicate
  <2>3. \A script \in Replays : ~Replay(w, script)
    BY DEF Replay
  <2>4. ASSUME NEW k \in AttackKeys, Review(w, k) PROVE SerialInv' /\ Surer
    BY <1>2, <2>4, ReviewSerial, SameAttacks DEF Review, rows
  <2> QED BY <1>2, <2>1, <2>2, <2>3, <2>4 DEF Call
<1>3. ASSUME NEW w \in Tasks, Free(w), Continue(w) PROVE SerialInv' /\ Surer
  <2>1. CASE Store(w)
    BY <1>3, <2>1, StoreSerial, SameAttacks DEF Store
  <2>2. CASE \E slug \in Slugs : Find(w, slug)
    BY <1>3, <2>2, FindSerial, SameAttacks DEF Find, rows
  <2>3. CASE Load(w)
    BY <1>3, <2>3, LoadSerial, SameAttacks DEF Load, rows
  <2>4. CASE Update(w)
    BY <1>3, <2>4, UpdateSerial
  <2>5. CASE Create(w)
    BY <1>3, <2>5, CreateSerial
  <2>6. CASE CreateRefused(w)
    BY <2>6, LeaveSerial, SameAttacks DEF CreateRefused, rows
  <2>7. CASE Rescore(w)
    BY <1>3, <2>7, RescoreSerial, SameAttacks DEF Rescore, rows
  <2>8. CASE Score(w)
    BY <1>3, <2>8, ScoreSerial, SameAttacks DEF Score
  <2>9. CASE Finish(w)
    BY <1>3, <2>9, FinishSerial, SameAttacks DEF Finish, rows
  <2>10. CASE Reply(w)
    BY <2>10, LeaveSerial, SameAttacks DEF Reply, rows
  <2>11. ~Advance(w) /\ ~Conclude(w)
    <3>1. ~replay[w].on
      BY DEF SerialInv, HoldsStored, NoReplay
    <3> QED BY <3>1 DEF Advance, Conclude
  <2>12. CASE \E class \in Classes, status \in Statuses : Mark(w, class, status)
    BY <1>3, <2>12, MarkSerial
  <2>13. CASE Fail(w)
    BY <2>13, LeaveSerial, SameAttacks DEF Fail, rows
  <2> QED BY <1>3, <2>1, <2>2, <2>3, <2>4, <2>5, <2>6, <2>7, <2>8, <2>9, <2>10, <2>11, <2>12,
             <2>13 DEF Continue
<1>4. ASSUME NEW w \in Tasks, Abort(w) PROVE SerialInv' /\ Surer
  BY <1>4, LeaveSerial, SameAttacks DEF Abort, rows
<1>5. ~Reset /\ ~WebReset
  BY DEF Reset, WebReset
<1> QED BY <1>1, <1>2, <1>3, <1>4, <1>5 DEF Next

LEMMA SerialImplied ==
    SerialInv => CountMatchesTimeline /\ SeverityCarriesOver /\ WebRiskUpToDate
<1> SUFFICES ASSUME SerialInv PROVE CountMatchesTimeline /\ SeverityCarriesOver /\ WebRiskUpToDate
  OBVIOUS
<1>1. CountMatchesTimeline
  BY DEF SerialInv, StoredFits, CountMatchesTimeline
<1>2. SeverityCarriesOver
  BY DEF SerialInv, StoredFits, SeverityCarriesOver, Bears
<1>3. WebRiskUpToDate
  BY DEF SerialInv, StoredFits, WebRiskUpToDate, Risk
<1> QED BY <1>1, <1>2, <1>3

LEMMA SerialHolds ==
    ASSUME OneLoop, ~DemoMode
    PROVE  Spec => [](IInv /\ DInv /\ SerialInv) /\ [][Surer]_attack
<1>1. Init => IInv /\ DInv /\ SerialInv
  BY Starts, CountStarts, SerialStarts
<1>2. IInv /\ DInv /\ SerialInv /\ [Next]_vars => (IInv /\ DInv /\ SerialInv)' /\ [Surer]_attack
  BY StepKeeps, StepCounts, StepSerial
<1> QED BY <1>1, <1>2, PTL DEF Spec

\* In one process, however deliveries, verdicts and crashes follow one another, an attack's
\* count is the number of requests on its timeline, also past the end of the list of related
\* ones (web_detection.py:262-297).
THEOREM WebCounted == ASSUME OneLoop, ~DemoMode PROVE Spec => []CountMatchesTimeline
BY SerialHolds, SerialImplied, PTL

\* In one process an incident is as severe as each of its attacks, each alert bears what its
\* attack says, and a false positive is closed and silent (web_detection.py:265-345,
\* web_security.py:180-192).
THEOREM WebSeverity == ASSUME OneLoop, ~DemoMode PROVE Spec => []SeverityCarriesOver
BY SerialHolds, SerialImplied, PTL

\* In one process the stored risk is the one of the incident's alerts, except while a handler
\* has yet to recompute it or has died before it could (web_detection.py:293-297, 362-364,
\* web_security.py:209-212, correlation.py:11-41).
THEOREM WebRisk == ASSUME OneLoop, ~DemoMode PROVE Spec => []WebRiskUpToDate
BY SerialHolds, SerialImplied, PTL

\* In one process no step takes a request or confidence from an attack
\* (web_detection.py:265-275).
THEOREM WebSureness == ASSUME OneLoop, ~DemoMode PROVE Spec => SurenessNeverDrops
<1>1. Surer <=> \A k \in AttackKeys : Exists(k) /\ attack'[k] # NoAttack =>
          /\ attack'[k].count >= attack[k].count
          /\ attack'[k].confidence >= attack[k].confidence
  BY DEF Surer
<1> QED BY SerialHolds, <1>1, PTL DEF SurenessNeverDrops

-----------------------------------------------------------------------------
(* Brute force.  A delivery that would complete a burst of login failures    *)
(* has that category to do, or has it behind it.                             *)

Burst(some) ==
    /\ \A r \in some : AuthFailure(r)
    /\ Cardinality(some) >= BRUTE_FORCE
    /\ \A q, r \in some : Same(q, r, {"source"}) /\ Payload[q].time <= Payload[r].time + 300

\* The requests whose deliveries have every category behind them.
Settled == answered \cup {r \in Requests : \E w \in Tasks : session[w].step = "reply" /\ session[w].request = r}

Due(r) == \E some \in SUBSET (Settled \cup {r}) : r \in some /\ Burst(some)
Noticed(r) == SeenIn(AttackKey(r, "brute_force"), r)
Underway(s) == s.step = "store" \/ Carries(s)

Minds(s) ==
    /\ Underway(s) /\ Due(s.request) => "brute_force" \in Todo(s) \/ Noticed(s.request)
    /\ Carries(s) => s.request \in requests

NoticeInv ==
    /\ Settled \subseteq requests
    /\ \A some \in SUBSET Settled : Burst(some) => \E r \in some : Noticed(r)
    /\ \A w \in Tasks : Minds(session[w])

\* The last request of a burst finds the others stored, in whatever order they came.
LEMMA BurstSeen ==
    ASSUME NEW r \in Requests, NEW stored \in SUBSET Requests,
           NEW some \in SUBSET (stored \cup {r}), r \in some, Burst(some)
    PROVE  BruteForce(r, stored)
<1>1. ASSUME NEW q \in some \ {r} PROVE q \in Failures(r, stored)
  <2>1. q \in Requests /\ q \in stored /\ AuthFailure(q)
    BY DEF Burst
  <2>2. Same(q, r, {"source"}) /\ Payload[r].time <= Payload[q].time + 300
    BY DEF Burst
  <2>3. PICK m \in Nat, n \in Nat : m = Payload[r].time /\ n = Payload[q].time
    BY <2>1, CandidatesAssumption
  <2>4. Payload[q].time + 300 >= Payload[r].time
    BY <2>2, <2>3
  <2>5. Same(r, q, {"source"})
    BY <2>2 DEF Same
  <2> QED BY <2>1, <2>4, <2>5 DEF Failures, Recent
<1>2. PICK F : F = Failures(r, stored)
  OBVIOUS
<1>3. F \in SUBSET Requests /\ some \ {r} \in SUBSET F /\ some \in SUBSET Requests
  BY <1>1, <1>2 DEF Failures, Recent
<1>4. IsFiniteSet(F) /\ IsFiniteSet(some)
  BY <1>3, CandidatesAssumption, FS_Subset
<1>5. /\ Cardinality(some \ {r}) <= Cardinality(F) /\ Cardinality(some \ {r}) = Cardinality(some) - 1
      /\ Cardinality(F) \in Nat /\ Cardinality(some) \in Nat
  BY <1>3, <1>4, FS_Subset, FS_CardinalityType, FS_RemoveElement
<1>6. PICK m \in Nat, n \in Nat : m = Cardinality(some) /\ n = Cardinality(F)
  BY <1>5
<1>7. m >= BRUTE_FORCE /\ m - 1 <= n /\ BRUTE_FORCE \in Nat
  BY <1>5, <1>6, CandidatesAssumption DEF Burst
<1>8. n + 1 >= BRUTE_FORCE
  BY <1>7
<1>9. AuthFailure(r)
  BY DEF Burst
<1> QED BY <1>2, <1>6, <1>8, <1>9 DEF BruteForce

LEMMA NoticeStarts == Init => NoticeInv
<1> SUFFICES ASSUME Init PROVE NoticeInv
  OBVIOUS
<1>1. Settled = {}
  BY DEF Init, Settled, Idle
<1>2. ~Burst({})
  <2>1. Cardinality({}) = 0 /\ BRUTE_FORCE \in Nat \ {0}
    BY FS_EmptySet, CandidatesAssumption
  <2> QED BY <2>1 DEF Burst
<1>3. \A w \in Tasks : Minds(session[w])
  BY DEF Init, Minds, Underway, Carries, Idle
<1> QED BY <1>1, <1>2, <1>3 DEF NoticeInv

LEMMA NoticedStays == ASSUME Extends, NEW r \in Requests, Noticed(r) PROVE Noticed(r)'
<1>1. "brute_force" \in Slugs
  BY CandidatesAssumption DEF Behaviors
<1>2. IncidentOf(AttackKey(r, "brute_force")) \in IncidentKeys
  BY <1>1, KeyOf, IncidentOfType
<1> QED BY <1>2 DEF Extends, Noticed, SeenIn, Seen

\* While no delivery is completed, fewer bursts are, and what is behind a delivery stays there.
LEMMA MindsStep ==
    ASSUME IInv, Extends, requests \subseteq requests', Settled' \subseteq Settled,
           NEW s \in Session, Minds(s), NEW n,
           Underway(n) => /\ Underway(s) /\ n.request = s.request
                          /\ "brute_force" \in Todo(s) => "brute_force" \in Todo(n) \/ Noticed(s.request)',
           Carries(n) => s.request \in requests'
    PROVE  Minds(n)'
<1>1. ASSUME Underway(n), Due(n.request)' PROVE Due(s.request)
  <2>1. Settled' \cup {n.request} \subseteq Settled \cup {s.request}
    BY <1>1
  <2>2. PICK some \in SUBSET (Settled' \cup {n.request}) : n.request \in some /\ Burst(some)
    BY <1>1 DEF Due, Burst
  <2>3. some \in SUBSET (Settled \cup {s.request})
    BY <2>1, <2>2
  <2> QED BY <1>1, <2>2, <2>3 DEF Due
<1>2. ASSUME Underway(n) PROVE s.request \in Requests
  BY <1>2, RequestOf DEF Underway
<1>3. ASSUME Underway(n), Noticed(s.request) PROVE Noticed(s.request)'
  BY <1>2, <1>3, NoticedStays
<1>4. ASSUME Underway(n), Due(n.request)' PROVE "brute_force" \in Todo(n) \/ Noticed(n.request)'
  BY <1>1, <1>3, <1>4 DEF Minds
<1>5. Carries(n) => n.request \in requests'
  BY DEF Underway
<1> QED BY <1>4, <1>5 DEF Minds, Underway, Carries, Todo

\* A step that completes no delivery.
LEMMA NoticeStep ==
    ASSUME IInv, IInv', NoticeInv, Extends, requests \subseteq requests', answered' \subseteq Settled,
           NEW w \in Tasks, NEW n, Move(w, n), n.step # "reply",
           Settled' \subseteq Settled => Minds(n)'
    PROVE  NoticeInv'
<1>1. session'[w] = n /\ \A v \in Tasks \ {w} : session'[v] = session[v]
  BY DEF Move, IInv, SessionInv
<1>2. Settled' \subseteq Settled
  BY <1>1 DEF Settled
<1>3. Settled' \subseteq requests'
  BY <1>2 DEF NoticeInv
<1>4. ASSUME NEW some \in SUBSET Settled', Burst(some) PROVE \E r \in some : Noticed(r)'
  <2>1. PICK r \in some : Noticed(r)
    BY <1>2, <1>4 DEF NoticeInv
  <2>2. r \in Requests
    BY <1>2 DEF NoticeInv, IInv, RowInv
  <2> QED BY <2>1, <2>2, NoticedStays
<1>5. ASSUME NEW v \in Tasks PROVE Minds(session[v])'
  <2>1. CASE v = w
    BY <1>1, <1>2, <2>1 DEF Minds, Underway, Carries, Due, Todo, Noticed, SeenIn, Seen, Settled
  <2>2. CASE v # w
    <3>1. PICK s \in Session : s = session[v] /\ s = session'[v]
      BY <1>1, <2>2 DEF IInv, SessionInv
    <3>2. Minds(s)
      BY <3>1 DEF NoticeInv
    <3>3. Carries(s) => s.request \in requests'
      BY <3>2 DEF Minds
    <3>4. Minds(s)'
      BY <1>2, <3>2, <3>3, MindsStep
    <3> QED BY <3>1, <3>4 DEF Minds, Underway, Carries, Due, Todo, Noticed, SeenIn, Seen, Settled
  <2> QED BY <2>1, <2>2
<1> QED BY <1>3, <1>4, <1>5 DEF NoticeInv, Burst

LEMMA NoticeLeave ==
    ASSUME IInv, IInv', NoticeInv, Extends, requests \subseteq requests', answered' \subseteq Settled,
           NEW w \in Tasks, Leave(w)
    PROVE  NoticeInv'
<1>1. Idle.step # "reply" /\ Minds(Idle)' /\ Move(w, Idle)
  BY DEF Idle, Minds, Underway, Carries, Leave
<1> QED BY <1>1, NoticeStep

\* A delivery that goes on, with what it had to do, and only moves on.
LEMMA NoticeQuiet ==
    ASSUME IInv, IInv', NoticeInv, UNCHANGED <<timeline, answered>>, requests \subseteq requests',
           NEW w \in Tasks, NEW s \in Session, s = session[w], NEW n, Move(w, n), n.step # "reply",
           Underway(n) => /\ Underway(s) /\ n.request = s.request
                          /\ "brute_force" \in Todo(s) => "brute_force" \in Todo(n),
           Carries(n) => n.request \in requests'
    PROVE  NoticeInv'
<1>1. Extends /\ answered' \subseteq Settled
  BY DEF Extends, Settled
<1>2. Minds(s)
  BY DEF NoticeInv
<1>3. Carries(n) => s.request \in requests'
  BY DEF Underway
<1>4. ASSUME Settled' \subseteq Settled PROVE Minds(n)'
  BY <1>1, <1>2, <1>3, <1>4, MindsStep
<1> QED BY <1>1, <1>4, NoticeStep

LEMMA DeliverNotices ==
    ASSUME IInv, IInv', NoticeInv, NEW w \in Tasks, NEW r \in Requests, Deliver(w, r) PROVE NoticeInv'
<1>1. PICK n : n = [step |-> "store", request |-> r, todo |-> Candidates(r, requests)]
  OBVIOUS
<1>2. Move(w, n) /\ UNCHANGED <<requests, timeline, answered>>
  BY <1>1 DEF Deliver, rows
<1>3. Extends /\ answered' \subseteq Settled
  BY <1>2 DEF Extends, Settled
<1>4. ASSUME Settled' \subseteq Settled, Due(r)' PROVE "brute_force" \in n.todo
  <2>1. PICK some \in SUBSET (Settled' \cup {r}) : r \in some /\ Burst(some)
    BY <1>4 DEF Due, Burst
  <2>2. some \in SUBSET (requests \cup {r}) /\ requests \in SUBSET Requests
    BY <1>4, <2>1 DEF NoticeInv, IInv, RowInv
  <2>3. BruteForce(r, requests)
    BY <2>1, <2>2, BurstSeen
  <2> QED BY <1>1, <2>3 DEF Candidates, Behavioral, Behaviors
<1>5. ASSUME Settled' \subseteq Settled PROVE Minds(n)'
  BY <1>1, <1>4, <1>5 DEF Minds, Underway, Carries, Todo
<1> QED BY <1>1, <1>2, <1>3, <1>5, NoticeStep

LEMMA StoreNotices ==
    ASSUME IInv, IInv', NoticeInv, NEW w \in Tasks, Store(w) PROVE NoticeInv'
<1>1. PICK s \in Storing : s = session[w] /\ s.step = "store"
  BY SessionAt DEF Store, IInv, At
<1>2. UNCHANGED <<timeline, answered>> /\ requests' = requests \cup {s.request}
  BY <1>1 DEF Store
<1>3. CASE s.request \in requests
  <2>1. Extends /\ answered' \subseteq Settled
    BY <1>2 DEF Extends, Settled
  <2> QED BY <1>1, <1>2, <1>3, <2>1, NoticeLeave DEF Store
<1>4. CASE s.request \notin requests
  <2>1. PICK n : n = [step |-> "find", request |-> s.request, todo |-> s.todo, seen |-> NoRow]
    OBVIOUS
  <2>2. Move(w, n)
    BY <1>1, <1>4, <2>1 DEF Store
  <2>3. s \in Session /\ Underway(s) /\ Todo(s) = s.todo /\ Todo(n) = s.todo
    BY <1>1, <2>1 DEF Session, Underway, Todo
  <2> QED BY <1>1, <1>2, <2>1, <2>2, <2>3, NoticeQuiet
<1> QED BY <1>3, <1>4

LEMMA FindNotices ==
    ASSUME IInv, IInv', NoticeInv, NEW w \in Tasks, NEW slug \in Slugs, Find(w, slug) PROVE NoticeInv'
<1>1. PICK s \in Finding : s = session[w] /\ s.step = "find"
  BY SessionAt DEF Find, IInv, At
<1>2. PICK held : Move(w, [step |-> "load", request |-> s.request, todo |-> s.todo \ {slug},
                           seen |-> s.seen, slug |-> slug, held |-> held])
  BY <1>1 DEF Find
<1>3. PICK n : n = [step |-> "load", request |-> s.request, todo |-> s.todo \ {slug},
                    seen |-> s.seen, slug |-> slug, held |-> held]
  OBVIOUS
<1>4. s \in Session /\ Carries(s) /\ Underway(s)
  BY <1>1, WebAssumption DEF Session, Finding, Carries, Underway
<1>5. Todo(s) = s.todo /\ Todo(n) = (s.todo \ {slug}) \cup {slug}
  BY <1>1, <1>3 DEF Todo
<1>6. UNCHANGED <<requests, timeline, answered>> /\ s.request \in requests
  BY <1>1, <1>4 DEF Find, rows, NoticeInv, Minds
<1> QED BY <1>1, <1>2, <1>3, <1>4, <1>5, <1>6, NoticeQuiet

LEMMA LoadNotices ==
    ASSUME IInv, IInv', NoticeInv, NEW w \in Tasks, Load(w) PROVE NoticeInv'
<1>1. PICK s \in Loading : s = session[w] /\ s.step = "load"
  BY SessionAt DEF Load, IInv, At
<1>2. PICK mine, row :
        Move(w, [step |-> "save", request |-> s.request, todo |-> s.todo, seen |-> s.seen,
                 slug |-> s.slug, held |-> s.held, alert |-> mine, incident |-> row])
  BY <1>1 DEF Load
<1>3. PICK n : n = [step |-> "save", request |-> s.request, todo |-> s.todo, seen |-> s.seen,
                    slug |-> s.slug, held |-> s.held, alert |-> mine, incident |-> row]
  OBVIOUS
<1>4. s \in Session /\ Carries(s) /\ Underway(s)
  BY <1>1, WebAssumption DEF Session, Loading, Carries, Underway
<1>5. Todo(s) = Todo(n)
  BY <1>1, <1>3 DEF Todo
<1>6. UNCHANGED <<requests, timeline, answered>> /\ s.request \in requests
  BY <1>1, <1>4 DEF Load, rows, NoticeInv, Minds
<1> QED BY <1>1, <1>2, <1>3, <1>4, <1>5, <1>6, NoticeQuiet

LEMMA EnterNotices ==
    ASSUME IInv, IInv', NoticeInv, UNCHANGED <<requests, answered>>, NEW w \in Tasks, At(w, "save"),
           NEW type \in Types, NEW key, key = AttackKey(session[w].request, session[w].slug),
           Enter(type, key, session[w].request),
           NEW n, Move(w, n), n.step = "rescore", n.request = session[w].request, n.todo = session[w].todo
    PROVE  NoticeInv'
<1>1. PICK s \in Saving : s = session[w] /\ s.step = "save"
  BY SessionAt DEF IInv, At
<1>2. s.request \in Requests /\ s.slug \in Slugs /\ s \in Session /\ Carries(s) /\ Underway(s)
  BY <1>1, WebAssumption DEF Saving, Session, Carries, Underway
<1>3. key \in AttackKeys /\ IncidentOf(key) \in IncidentKeys
  BY <1>1, <1>2, KeyOf, IncidentOfType
<1>4. Extends /\ answered' \subseteq Settled
  BY <1>3 DEF Extends, Enter, IInv, RowInv, RowTypes, Settled
<1>5. SeenIn(key, s.request)'
  <2>1. PICK e : e = <<type, key, s.request>>
    OBVIOUS
  <2>2. e \in timeline'[IncidentOf(key)] /\ e[1] = type /\ e[2] = key /\ e[3] = s.request
    BY <1>1, <1>3, <2>1 DEF Enter, IInv, RowInv, RowTypes
  <2> QED BY <2>2 DEF SeenIn, Seen
<1>6. Todo(s) = s.todo \cup {s.slug} /\ Todo(n) = s.todo
  BY <1>1 DEF Todo
<1>7. s.slug = "brute_force" => Noticed(s.request)'
  BY <1>1, <1>5 DEF Noticed
<1>8. Minds(s) /\ s.request \in requests'
  BY <1>1, <1>2 DEF NoticeInv, Minds
<1>9. ASSUME Settled' \subseteq Settled PROVE Minds(n)'
  BY <1>1, <1>2, <1>4, <1>6, <1>7, <1>8, <1>9, MindsStep
<1>10. n.step # "reply"
  OBVIOUS
<1> QED BY <1>4, <1>9, <1>10, NoticeStep

LEMMA UpdateNotices ==
    ASSUME IInv, IInv', NoticeInv, NEW w \in Tasks, Update(w) PROVE NoticeInv'
<1>1. PICK key, mine, row :
        /\ key = AttackKey(session[w].request, session[w].slug)
        /\ Enter("ATTACK_ACTIVITY_UPDATED", key, session[w].request)
        /\ Move(w, [step |-> "rescore", request |-> session[w].request, todo |-> session[w].todo,
                    key |-> key, mine |-> mine, incident |-> row])
  BY DEF Update
<1>2. UNCHANGED <<requests, answered>> /\ At(w, "save") /\ "ATTACK_ACTIVITY_UPDATED" \in Types
  BY DEF Update, Types
<1>3. PICK n : n = [step |-> "rescore", request |-> session[w].request, todo |-> session[w].todo,
                    key |-> key, mine |-> mine, incident |-> row]
  OBVIOUS
<1>4. Move(w, n) /\ n.step = "rescore" /\ n.request = session[w].request /\ n.todo = session[w].todo
  BY <1>1, <1>3
<1> QED BY <1>1, <1>2, <1>4, EnterNotices

LEMMA CreateNotices ==
    ASSUME IInv, IInv', NoticeInv, NEW w \in Tasks, Create(w) PROVE NoticeInv'
<1>1. PICK key, mine, row, type :
        /\ key = AttackKey(session[w].request, session[w].slug)
        /\ type = IF session[w].incident = NoRow THEN "WEB_INCIDENT_CREATED" ELSE "WEB_ATTACK_CORRELATED"
        /\ Enter(type, key, session[w].request)
        /\ Move(w, [step |-> "rescore", request |-> session[w].request, todo |-> session[w].todo,
                    key |-> key, mine |-> mine, incident |-> row])
  BY DEF Create
<1>2. UNCHANGED <<requests, answered>> /\ At(w, "save") /\ type \in Types
  BY <1>1 DEF Create, Types
<1>3. PICK n : n = [step |-> "rescore", request |-> session[w].request, todo |-> session[w].todo,
                    key |-> key, mine |-> mine, incident |-> row]
  OBVIOUS
<1>4. Move(w, n) /\ n.step = "rescore" /\ n.request = session[w].request /\ n.todo = session[w].todo
  BY <1>1, <1>3
<1> QED BY <1>1, <1>2, <1>4, EnterNotices

LEMMA RescoreNotices ==
    ASSUME IInv, IInv', NoticeInv, NEW w \in Tasks, Rescore(w) PROVE NoticeInv'
<1>1. PICK s \in Rescoring : s = session[w] /\ s.step = "rescore"
  BY SessionAt DEF Rescore, IInv, At
<1>2. PICK score :
        Move(w, [step |-> "score", request |-> s.request, todo |-> s.todo, key |-> s.key,
                 incident |-> s.incident, score |-> score])
  BY <1>1 DEF Rescore
<1>3. PICK n : n = [step |-> "score", request |-> s.request, todo |-> s.todo, key |-> s.key,
                    incident |-> s.incident, score |-> score]
  OBVIOUS
<1>4. s \in Session /\ Todo(s) = s.todo /\ Todo(n) = s.todo
  BY <1>1, <1>3 DEF Session, Todo
<1>5. Underway(n) => Carries(n) /\ Underway(s) /\ s.request \in requests
  BY <1>1, <1>3 DEF Underway, Carries, NoticeInv, Minds
<1>7. UNCHANGED <<requests, timeline, answered>>
  BY DEF Rescore, rows
<1>8. n.step # "reply" /\ n.request = s.request /\ Move(w, n)
  BY <1>2, <1>3
<1>9. Carries(n) => n.request \in requests'
  BY <1>5, <1>7, <1>8 DEF Underway
<1> QED BY <1>1, <1>4, <1>5, <1>7, <1>8, <1>9, NoticeQuiet

LEMMA ScoreNotices ==
    ASSUME IInv, IInv', NoticeInv, NEW w \in Tasks, Score(w) PROVE NoticeInv'
<1>1. PICK s \in Scoring : s = session[w] /\ s.step = "score"
  BY SessionAt DEF Score, IInv, At
<1>2. UNCHANGED <<requests, timeline, answered>>
  BY DEF Score
<1>3. PICK row : Move(w, IF s.request = NoRequest THEN Idle
                         ELSE [step |-> "find", request |-> s.request, todo |-> s.todo, seen |-> row])
  BY <1>1 DEF Score
<1>4. PICK n : n = IF s.request = NoRequest THEN Idle
                   ELSE [step |-> "find", request |-> s.request, todo |-> s.todo, seen |-> row]
  OBVIOUS
<1>5. s \in Session /\ Todo(s) = s.todo
  BY <1>1 DEF Session, Todo
<1>6. Underway(n) => /\ Underway(s) /\ n.request = s.request /\ Todo(n) = s.todo /\ s.request \in requests
  BY <1>1, <1>4 DEF Underway, Carries, Idle, Todo, NoticeInv, Minds
<1>7. n.step # "reply" /\ Move(w, n)
  BY <1>3, <1>4 DEF Idle
<1>8. Carries(n) => n.request \in requests'
  BY <1>2, <1>6 DEF Underway
<1> QED BY <1>1, <1>2, <1>5, <1>6, <1>7, <1>8, NoticeQuiet

\* The step that completes a delivery: nothing is to do any more, and no other delivery of the
\* process is under way.
LEMMA FinishNotices ==
    ASSUME OneLoop, IInv, IInv', NoticeInv, NEW w \in Tasks, Free(w), Finish(w) PROVE NoticeInv'
<1>1. PICK s \in Finding : s = session[w] /\ s.step = "find" /\ s.todo = {}
  BY SessionAt DEF Finish, IInv, At
<1>2. session'[w] = [step |-> "reply", request |-> s.request]
      /\ \A v \in Tasks \ {w} : session'[v] = session[v] /\ session[v].step \in {"idle", "reply"}
  BY <1>1 DEF Finish, Move, IInv, SessionInv, OneLoop, Free
<1>3. UNCHANGED <<requests, timeline, answered>>
  BY DEF Finish, rows
<1>4. Carries(s) /\ s.request \in Requests /\ Todo(s) = {}
  BY <1>1, WebAssumption DEF Finding, Carries, Todo
<1>5. s.request \in requests /\ (Due(s.request) => Noticed(s.request))
  BY <1>1, <1>4 DEF NoticeInv, Minds, Underway
<1>6. Settled' \subseteq Settled \cup {s.request}
  BY <1>2, <1>3 DEF Settled
<1>7. ASSUME NEW some \in SUBSET Settled', Burst(some) PROVE \E r \in some : Noticed(r)'
  <2>1. \A r : Noticed(r)' <=> Noticed(r)
    BY <1>3 DEF Noticed, SeenIn, Seen
  <2>2. CASE s.request \in some
    <3>1. Due(s.request)
      BY <1>6, <1>7, <2>2 DEF Due
    <3> QED BY <1>5, <2>1, <2>2, <3>1
  <2>3. CASE s.request \notin some
    BY <1>6, <1>7, <2>1, <2>3 DEF NoticeInv
  <2> QED BY <2>2, <2>3
<1>8. ASSUME NEW v \in Tasks PROVE Minds(session[v])'
  BY <1>2 DEF Minds, Underway, Carries
<1>9. Settled' \subseteq requests'
  BY <1>3, <1>5, <1>6 DEF NoticeInv
<1> QED BY <1>7, <1>8, <1>9 DEF NoticeInv, Burst

LEMMA ReplyNotices ==
    ASSUME IInv, IInv', NoticeInv, NEW w \in Tasks, Reply(w) PROVE NoticeInv'
<1>1. PICK s \in Replying : s = session[w] /\ s.step = "reply"
  BY SessionAt DEF Reply, IInv, At
<1>2. answered' = answered \cup ({s.request} \cap requests) /\ UNCHANGED <<requests, timeline>> /\ Leave(w)
  BY <1>1 DEF Reply, rows
<1>3. answered' \subseteq Settled /\ Extends
  BY <1>1, <1>2 DEF Settled, Extends, IInv, RowInv
<1> QED BY <1>2, <1>3, NoticeLeave

LEMMA ReviewNotices ==
    ASSUME IInv, IInv', NoticeInv, NEW w \in Tasks, NEW k \in AttackKeys, Review(w, k) PROVE NoticeInv'
<1>1. PICK held, mine, row :
        Move(w, [step |-> "mark", key |-> k, held |-> held, alert |-> mine, incident |-> row])
  BY DEF Review
<1>2. PICK n : n = [step |-> "mark", key |-> k, held |-> held, alert |-> mine, incident |-> row]
  OBVIOUS
<1>3. ~Underway(n) /\ ~Carries(n) /\ n.step # "reply"
  BY <1>2 DEF Underway, Carries
<1>4. UNCHANGED <<requests, timeline, answered>>
  BY DEF Review, rows
<1>5. PICK s \in Session : s = session[w]
  BY DEF IInv, SessionInv
<1> QED BY <1>1, <1>2, <1>3, <1>4, <1>5, NoticeQuiet

LEMMA MarkNotices ==
    ASSUME IInv, IInv', NoticeInv, NEW w \in Tasks, NEW class \in Classes, NEW status \in Statuses,
           Mark(w, class, status)
    PROVE  NoticeInv'
<1>1. PICK s \in Marking : s = session[w]
  BY SessionAt DEF Mark, IInv
<1>2. PICK mine, row :
        Move(w, [step |-> "rescore", request |-> NoRequest, todo |-> {}, key |-> s.key,
                 mine |-> mine, incident |-> row])
  BY <1>1 DEF Mark
<1>3. PICK n : n = [step |-> "rescore", request |-> NoRequest, todo |-> {}, key |-> s.key,
                    mine |-> mine, incident |-> row]
  OBVIOUS
<1>4. n.step # "reply" /\ Move(w, n) /\ Minds(n)'
  BY <1>2, <1>3 DEF Minds, Underway, Carries
<1>5. Extends /\ requests' = requests /\ answered' \subseteq Settled
  BY <1>1 DEF Mark, Enter, Extends, IInv, RowInv, RowTypes, Settled
<1> QED BY <1>4, <1>5, NoticeStep

LEMMA StepNotices ==
    ASSUME OneLoop, ~DemoMode
    PROVE  IInv /\ IInv' /\ SerialInv /\ NoticeInv /\ [Next]_vars => NoticeInv'
<1> SUFFICES ASSUME IInv, IInv', SerialInv, NoticeInv, [Next]_vars PROVE NoticeInv'
  OBVIOUS
<1>1. CASE UNCHANGED vars
  <2>1. Settled' = Settled /\ (\A r : Noticed(r)' <=> Noticed(r)) /\ UNCHANGED <<session, requests>>
    BY <1>1 DEF vars, rows, Settled, Noticed, SeenIn, Seen
  <2>2. \A r : Due(r)' <=> Due(r)
    BY <2>1 DEF Due, Burst
  <2>3. ASSUME NEW w \in Tasks PROVE Minds(session[w])'
    <3>1. PICK s : s = session[w] /\ s = session'[w]
      BY <2>1
    <3>2. Minds(s)
      BY <3>1 DEF NoticeInv
    <3>3. Minds(s)'
      BY <2>1, <2>2, <3>2 DEF Minds, Underway, Carries, Todo
    <3> QED BY <3>1, <3>3 DEF Minds, Underway, Carries, Todo
  <2> QED BY <2>1, <2>3 DEF NoticeInv, Burst
<1>2. ASSUME NEW w \in Tasks, Leave(w), UNCHANGED <<rows, answered>> PROVE NoticeInv'
  <2>1. Extends /\ answered' \subseteq Settled /\ requests' = requests
    BY <1>2 DEF Extends, rows, Settled
  <2> QED BY <1>2, <2>1, NoticeLeave
<1>3. ASSUME NEW w \in Tasks, Call(w) PROVE NoticeInv'
  <2>1. ASSUME NEW r \in Requests, Deliver(w, r) PROVE NoticeInv'
    BY <2>1, DeliverNotices
  <2>2. ASSUME NEW r \in Requests, Duplicate(w, r) PROVE NoticeInv'
    BY <1>1, <2>2 DEF Duplicate
  <2>3. \A script \in Replays : ~Replay(w, script)
    BY DEF Replay
  <2>4. ASSUME NEW k \in AttackKeys, Review(w, k) PROVE NoticeInv'
    BY <2>4, ReviewNotices
  <2> QED BY <1>3, <2>1, <2>2, <2>3, <2>4 DEF Call
<1>4. ASSUME NEW w \in Tasks, Free(w), Continue(w) PROVE NoticeInv'
  <2>1. CASE Store(w)
    BY <2>1, StoreNotices
  <2>2. CASE \E slug \in Slugs : Find(w, slug)
    BY <2>2, FindNotices
  <2>3. CASE Load(w)
    BY <2>3, LoadNotices
  <2>4. CASE Update(w)
    BY <2>4, UpdateNotices
  <2>5. CASE Create(w)
    BY <2>5, CreateNotices
  <2>6. CASE CreateRefused(w)
    BY <1>2, <2>6 DEF CreateRefused
  <2>7. CASE Rescore(w)
    BY <2>7, RescoreNotices
  <2>8. CASE Score(w)
    BY <2>8, ScoreNotices
  <2>9. CASE Finish(w)
    BY <1>4, <2>9, FinishNotices
  <2>10. CASE Reply(w)
    BY <2>10, ReplyNotices
  <2>11. ~Advance(w) /\ ~Conclude(w)
    <3>1. ~replay[w].on
      BY DEF SerialInv, HoldsStored, NoReplay
    <3> QED BY <3>1 DEF Advance, Conclude
  <2>12. CASE \E class \in Classes, status \in Statuses : Mark(w, class, status)
    BY <2>12, MarkNotices
  <2>13. CASE Fail(w)
    BY <1>2, <2>13 DEF Fail
  <2> QED BY <1>4, <2>1, <2>2, <2>3, <2>4, <2>5, <2>6, <2>7, <2>8, <2>9, <2>10, <2>11, <2>12,
             <2>13 DEF Continue
<1>5. ASSUME NEW w \in Tasks, Abort(w) PROVE NoticeInv'
  BY <1>2, <1>5 DEF Abort
<1>6. ~Reset /\ ~WebReset
  BY DEF Reset, WebReset
<1> QED BY <1>1, <1>3, <1>4, <1>5, <1>6 DEF Next

LEMMA NoticeImplied == IInv /\ NoticeInv => BruteForceNoticed
<1> SUFFICES ASSUME IInv, NoticeInv, NEW some \in SUBSET {r \in answered : AuthFailure(r)},
                    Cardinality(some) >= BRUTE_FORCE,
                    \A q, r \in some : Same(q, r, {"source"}) /\ Payload[q].time <= Payload[r].time + 300
             PROVE  \E r \in some : \E t \in Seen(AttackKey(r, "brute_force")) : t[3] = r
  BY DEF BruteForceNoticed
<1>1. some \in SUBSET Settled /\ Burst(some)
  BY DEF Settled, Burst
<1> QED BY <1>1 DEF NoticeInv, Noticed, SeenIn

\* In one process, in whatever order as many login failures of one source arrive as make a
\* brute force, whichever deliveries crash and whatever else is delivered in between, one of
\* them is noticed as that (web_detection.py:146-160, 368-433).
THEOREM WebBruteForce == ASSUME OneLoop, ~DemoMode PROVE Spec => []BruteForceNoticed
<1>1. Init => NoticeInv
  BY NoticeStarts
<1>2. IInv /\ IInv' /\ SerialInv /\ NoticeInv /\ [Next]_vars => NoticeInv'
  BY StepNotices
<1>3. IInv /\ NoticeInv => BruteForceNoticed
  BY NoticeImplied
<1> QED BY <1>1, <1>2, <1>3, SerialHolds, PTL DEF Spec
=============================================================================
