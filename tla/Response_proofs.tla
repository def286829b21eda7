--------------------------- MODULE Response_proofs ---------------------------
(***************************************************************************)
(* Proofs about Response, for every set of workers, users, keys, requests, *)
(* policies and for both values of the dry_run setting.                    *)
(***************************************************************************)
EXTENDS Response, TLAPS

\* What a session in flight knows of the rows it is about to write.
SessionFacts(w) ==
    /\ At(w, "insert") => session[w].key \in ApiKeys
    /\ (At(w, "read") \/ At(w, "commit")) =>
         /\ Exists(session[w].key)
         /\ action[session[w].key].approval_required
         /\ May(session[w].user, "APPROVE_RESPONSE")
    /\ session[w] \in Demo => May(session[w].user, "APPROVE_RESPONSE")
    /\ At(w, "demoCollect") => ~Exists(CollectKey[session[w].run])
                               /\ ~Exists(IsolateKey[session[w].run])
    /\ At(w, "demoIsolate") => Exists(CollectKey[session[w].run])
                               /\ ~Exists(IsolateKey[session[w].run])
    /\ At(w, "demoLoad") => Exists(CollectKey[session[w].run])
                            /\ Exists(IsolateKey[session[w].run])

SessionInv == \A w \in Workers : SessionFacts(w)

\* A demo run is under way on one thread at most, and its isolation key is taken only
\* after its collection key.
DemoInv ==
    /\ \A v, w \in Workers :
          session[v] \in Demo /\ session[w] \in Demo /\ session[v].run = session[w].run => v = w
    /\ \A d \in DemoRuns : Exists(IsolateKey[d]) => Exists(CollectKey[d])

BaseInv == TypeOK /\ SessionInv /\ DemoInv

-----------------------------------------------------------------------------
(* Lemmas about the operators the actions are built from. *)

LEMMA NewRowFacts ==
    ASSUME NEW r \in Request, NEW u \in Users
    PROVE  /\ NewRow(r, u) \in Row /\ NewRow(r, u) # NoRow
           /\ NewRow(r, u).incident = r.incident
           /\ NewRow(r, u).type = r.type
           /\ NewRow(r, u).target = r.target
           /\ NewRow(r, u).approved_by = "nobody"
           /\ NewRow(r, u).approval_required <=> ApprovalRequired(r)
           /\ NewRow(r, u).approval_required <=> NewRow(r, u).execution_status = "PENDING"
           /\ NewRow(r, u).approval_required <=> NewRow(r, u).approval_status = "PENDING"
           /\ NewRow(r, u).approval_status # "DENIED"
           /\ NewRow(r, u).execution_status \in {"PENDING", "DRY_RUN", "FAILED"}
<1> DEFINE req == ApprovalRequired(r)
<1>1. req \in BOOLEAN
  BY DEF ApprovalRequired
<1>2. /\ r.incident \in Incidents /\ r.type \in ActionTypes /\ r.target \in Targets
  BY DEF Request
<1>3. /\ ExecutionStatus \in {"DRY_RUN", "FAILED"} /\ ExecutionResult \in {"simulated", "refused"}
  BY DEF ExecutionStatus, ExecutionResult
<1> HIDE DEF req
<1>4. NewRow(r, u) =
        [incident |-> r.incident, type |-> r.type, target |-> r.target,
         requested_by |-> u, approved_by |-> "nobody", approval_required |-> req,
         approval_status |-> IF req THEN "PENDING" ELSE "APPROVED",
         execution_status |-> IF req THEN "PENDING" ELSE ExecutionStatus,
         execution_result |-> IF req THEN "none" ELSE ExecutionResult]
  BY DEF NewRow, req
<1>5. NewRow(r, u) \in Row
  BY <1>1, <1>2, <1>3, <1>4 DEF Row, Results, Decisions
<1>6. QED
  BY <1>1, <1>3, <1>4, <1>5, ConfigAssumption DEF req

LEMMA DecidedRowFacts ==
    ASSUME NEW row \in Row, NEW u \in Users, NEW d \in Decisions
    PROVE  /\ DecidedRow(row, u, d) \in Row /\ DecidedRow(row, u, d) # NoRow
           /\ DecidedRow(row, u, d).incident = row.incident
           /\ DecidedRow(row, u, d).type = row.type
           /\ DecidedRow(row, u, d).target = row.target
           /\ DecidedRow(row, u, d).requested_by = row.requested_by
           /\ DecidedRow(row, u, d).approval_required = row.approval_required
           /\ DecidedRow(row, u, d).approved_by = u
           /\ DecidedRow(row, u, d).approval_status = d
           /\ d = "DENIED" => DecidedRow(row, u, d).execution_status = "CANCELLED"
           /\ d = "APPROVED" => DecidedRow(row, u, d).execution_status = ExecutionStatus
<1>1. DecidedRow(row, u, d) \in Row
  BY DEF DecidedRow, Row, Decisions, Results, ExecutionStatus, ExecutionResult
<1>2. QED
  BY <1>1, ConfigAssumption DEF DecidedRow, Row, Decisions

LEMMA RequestTyping == Requests \subseteq Request
  BY ConfigAssumption

LEMMA KeyTyping ==
    /\ ApiKeys \subseteq Keys
    /\ \A d \in DemoRuns : /\ CollectKey[d] \in Keys /\ IsolateKey[d] \in Keys
                           /\ CollectKey[d] \notin ApiKeys /\ IsolateKey[d] \notin ApiKeys
                           /\ \A e \in DemoRuns : /\ CollectKey[d] # IsolateKey[e]
                                                  /\ CollectKey[d] = CollectKey[e] => d = e
                                                  /\ IsolateKey[d] = IsolateKey[e] => d = e
  BY ConfigAssumption

\* The step of a session tells its kind.
LEMMA SessionKinds ==
    ASSUME TypeOK, NEW w \in Workers
    PROVE  /\ At(w, "insert") => session[w] \in Inserting
           /\ At(w, "read") => session[w] \in Loaded
           /\ At(w, "commit") => session[w] \in Deciding
           /\ At(w, "patch") => session[w] \in Patching
           /\ (At(w, "demoCollect") \/ At(w, "demoIsolate") \/ At(w, "demoLoad"))
                <=> session[w] \in Demo
  BY DEF TypeOK, Session, At, Idle, Inserting, Loaded, Deciding, Patching, Demo

-----------------------------------------------------------------------------
(* The base invariant, one lemma per group of actions. *)

LEMMA BaseInit == Init => BaseInv
<1> SUFFICES ASSUME Init PROVE BaseInv
  OBVIOUS
<1>1. TypeOK
  BY DEF Init, TypeOK, IncidentStatus, Session, Entry
<1>2. \A w \in Workers : session[w] = Idle
  BY DEF Init
<1>3. \A w \in Workers : session[w] \notin Demo
  BY <1>2 DEF Idle, Demo
<1>4. SessionInv
  BY <1>2, <1>3 DEF SessionInv, SessionFacts, At, Idle
<1>5. DemoInv
  BY <1>3, KeyTyping DEF DemoInv, Init, Exists
<1> QED
  BY <1>1, <1>4, <1>5 DEF BaseInv

TableTypes ==
    /\ status \in [Incidents -> IncidentStatus]
    /\ risk \in [Incidents -> RiskLevels]
    /\ patched \in [Incidents -> SUBSET IncidentStatus]

\* Steps that write no action: a session is entered, moved on or left.
LEMMA QuietStep ==
    ASSUME BaseInv, UNCHANGED <<action, trail>>, TableTypes', NEW w \in Workers, NEW s \in Session,
           session' = [session EXCEPT ![w] = s],
           answered' \subseteq Keys \X Request \X {"kept", "lost"},
           s.step = "insert" => s.key \in ApiKeys,
           s.step \in {"read", "commit"} =>
                /\ Exists(s.key) /\ action[s.key].approval_required
                /\ May(s.user, "APPROVE_RESPONSE"),
           s \in Demo =>
                /\ s.step = "demoCollect" /\ May(s.user, "APPROVE_RESPONSE")
                /\ ~Exists(CollectKey[s.run]) /\ ~Exists(IsolateKey[s.run])
                /\ \A v \in Workers : session[v] \in Demo => session[v].run # s.run
    PROVE  BaseInv'
<1>1. TypeOK'
  BY DEF BaseInv, TypeOK, TableTypes
<1>2. \A v \in Workers : session'[v] = IF v = w THEN s ELSE session[v]
  BY DEF BaseInv, TypeOK
<1>3. /\ action' = action /\ \A k : Exists(k)' <=> Exists(k)
  BY DEF Exists
<1>4. s \in Demo => s.step \notin {"insert", "read", "commit"}
  BY DEF Demo
<1>5. s \notin Demo => s.step \notin {"demoCollect", "demoIsolate", "demoLoad"}
  BY DEF Session, Idle, Inserting, Loaded, Deciding, Patching
<1>6. SessionInv'
  <2> SUFFICES ASSUME NEW v \in Workers PROVE SessionFacts(v)'
    BY DEF SessionInv
  <2>1. CASE v = w
    BY <2>1, <1>2, <1>3, <1>4, <1>5 DEF At, SessionFacts
  <2>2. CASE v # w
    BY <2>2, <1>2, <1>3 DEF At, BaseInv, SessionInv, SessionFacts
  <2> QED
    BY <2>1, <2>2
<1>7. DemoInv'
  BY <1>2, <1>3 DEF BaseInv, DemoInv
<1> QED
  BY <1>1, <1>6, <1>7 DEF BaseInv

\* Steps that change nothing but sessions and answers keep the other tables typed.
LEMMA SameRows ==
    ASSUME BaseInv, UNCHANGED rows
    PROVE  UNCHANGED <<action, trail>> /\ TableTypes'
  BY DEF BaseInv, TypeOK, TableTypes, rows

LEMMA EnterCreate ==
    ASSUME BaseInv, NEW w \in Workers, NEW u \in Users, NEW k \in ApiKeys, NEW r \in Requests,
           CreateReplay(w, u, k, r) \/ CreateLookup(w, u, k, r)
    PROVE  BaseInv'
<1>1. <<k, r, "kept">> \in Keys \X Request \X {"kept", "lost"}
  BY RequestTyping, KeyTyping
<1>2. CASE CreateReplay(w, u, k, r)
  <2>1. session' = [session EXCEPT ![w] = Idle]
    BY <1>2 DEF CreateReplay, BaseInv, TypeOK
  <2>2. answered' \subseteq Keys \X Request \X {"kept", "lost"}
    BY <1>1, <1>2 DEF CreateReplay, BaseInv, TypeOK
  <2> QED
    BY <2>1, <2>2, <1>2, SameRows, QuietStep DEF CreateReplay, Session, Idle, Demo
<1>3. CASE CreateLookup(w, u, k, r)
  <2> DEFINE s == [step |-> "insert", user |-> u, key |-> k, request |-> r,
                   status |-> status[r.incident]]
  <2>1. s \in Inserting
    BY RequestTyping, KeyTyping DEF Inserting, BaseInv, TypeOK, Request
  <2>2. s \in Session /\ s.step = "insert" /\ s.key \in ApiKeys /\ s \notin Demo
    BY <2>1 DEF Session, Demo
  <2>3. session' = [session EXCEPT ![w] = s] /\ UNCHANGED <<rows, answered>>
    BY <1>3 DEF CreateLookup, Enter
  <2> HIDE DEF s
  <2> QED
    BY <2>2, <2>3, SameRows, QuietStep DEF BaseInv, TypeOK
<1> QED
  BY <1>2, <1>3

LEMMA EnterOther ==
    ASSUME BaseInv, NEW w \in Workers, NEW u \in Users,
           \/ \E k \in Keys, d \in Decisions : DecideLoad(w, u, k, d)
           \/ \E i \in Incidents, new \in PatchStatuses : PatchLoad(w, u, i, new)
           \/ \E d \in DemoRuns, i \in Incidents : DemoStart(w, u, d, i)
    PROVE  BaseInv'
<1>1. ASSUME NEW k \in Keys, NEW d \in Decisions, DecideLoad(w, u, k, d)
      PROVE  BaseInv'
  <2> DEFINE s == [step |-> "read", user |-> u, key |-> k, decision |-> d]
  <2>1. s \in Loaded
    BY DEF Loaded
  <2>2. s \in Session /\ s.step = "read" /\ s.key = k /\ s.user = u /\ s \notin Demo
    BY <2>1 DEF Session, Demo
  <2>3. session' = [session EXCEPT ![w] = s] /\ UNCHANGED <<rows, answered>>
    BY <1>1 DEF DecideLoad, Enter
  <2>4. /\ May(u, "APPROVE_RESPONSE") /\ Exists(k) /\ action[k].approval_required
    BY <1>1 DEF DecideLoad, AwaitsDecision, Undecided
  <2> HIDE DEF s
  <2> QED
    BY <2>2, <2>3, <2>4, SameRows, QuietStep DEF BaseInv, TypeOK
<1>2. ASSUME NEW i \in Incidents, NEW new \in PatchStatuses, PatchLoad(w, u, i, new)
      PROVE  BaseInv'
  <2> DEFINE s == [step |-> "patch", user |-> u, incident |-> i,
                   new_status |-> new, status |-> status[i]]
  <2>1. s \in Patching
    BY ConfigAssumption DEF Patching, BaseInv, TypeOK
  <2>2. s \in Session /\ s.step = "patch" /\ s \notin Demo
    BY <2>1 DEF Session, Demo
  <2>3. session' = [session EXCEPT ![w] = s] /\ UNCHANGED <<rows, answered>>
    BY <1>2 DEF PatchLoad, Enter
  <2> HIDE DEF s
  <2> QED
    BY <2>2, <2>3, SameRows, QuietStep DEF BaseInv, TypeOK
<1>3. ASSUME NEW d \in DemoRuns, NEW i \in Incidents, DemoStart(w, u, d, i)
      PROVE  BaseInv'
  <2> DEFINE s == [step |-> "demoCollect", user |-> u, run |-> d, incident |-> i,
                   status |-> status[i], risk |-> risk[i]]
  <2>1. s \in Demo
    BY DEF Demo, BaseInv, TypeOK
  <2>2. s \in Session /\ s.step = "demoCollect" /\ s.user = u /\ s.run = d
    BY <2>1 DEF Session
  <2>3. session' = [session EXCEPT ![w] = s] /\ UNCHANGED <<rows, answered>>
    BY <1>3 DEF DemoStart, Enter
  <2>4. /\ May(u, "APPROVE_RESPONSE") /\ ~Exists(CollectKey[d])
        /\ \A v \in Workers : At(v, "demoCollect") => session[v].run # d
    BY <1>3 DEF DemoStart
  <2>5. ~Exists(IsolateKey[d])
    BY <2>4 DEF BaseInv, DemoInv
  <2>6. \A v \in Workers : session[v] \in Demo => session[v].run # d
    <3> SUFFICES ASSUME NEW v \in Workers, session[v] \in Demo, session[v].run = d PROVE FALSE
      OBVIOUS
    <3>1. At(v, "demoCollect") \/ At(v, "demoIsolate") \/ At(v, "demoLoad")
      BY SessionKinds DEF BaseInv
    <3>2. SessionFacts(v)
      BY DEF BaseInv, SessionInv
    <3> QED
      BY <3>1, <3>2, <2>4 DEF SessionFacts
  <2> HIDE DEF s
  <2> QED
    BY <2>1, <2>2, <2>3, <2>4, <2>5, <2>6, SameRows, QuietStep DEF BaseInv, TypeOK
<1> QED
  BY <1>1, <1>2, <1>3

LEMMA Leave ==
    ASSUME BaseInv, NEW w \in Workers,
           CreateConflict(w) \/ PatchCommit(w) \/ DemoRefused(w) \/ Abort(w)
    PROVE  BaseInv'
<1>1. /\ Idle \in Session /\ Idle.step = "idle" /\ Idle \notin Demo
      /\ session' = [session EXCEPT ![w] = Idle]
  BY DEF Session, Idle, Demo, CreateConflict, PatchCommit, DemoRefused, Abort, Return
<1>2. answered' \subseteq Keys \X Request \X {"kept", "lost"}
  <2>1. CASE CreateConflict(w)
    <3>1. session[w] \in Inserting
      BY <2>1, SessionKinds DEF CreateConflict, BaseInv
    <3> QED
      BY <2>1, <3>1 DEF CreateConflict, Inserting, BaseInv, TypeOK
  <2>2. CASE ~CreateConflict(w)
    BY <2>2 DEF PatchCommit, DemoRefused, Abort, BaseInv, TypeOK
  <2> QED
    BY <2>1, <2>2
<1>3. UNCHANGED <<action, trail>> /\ TableTypes'
  <2>1. CASE PatchCommit(w)
    <3>1. session[w] \in Patching
      BY <2>1, SessionKinds DEF PatchCommit, BaseInv
    <3>2. /\ session[w].incident \in Incidents /\ session[w].new_status \in IncidentStatus
      BY <3>1 DEF Patching
    <3> QED
      BY <2>1, <3>2 DEF PatchCommit, TableTypes, BaseInv, TypeOK, Flush
  <2>2. CASE ~PatchCommit(w)
    BY <2>2, SameRows DEF CreateConflict, DemoRefused, Abort
  <2> QED
    BY <2>1, <2>2
<1> QED
  BY <1>1, <1>2, <1>3, QuietStep

LEMMA MoveOn ==
    ASSUME BaseInv, NEW w \in Workers, DecideRead(w) \/ DemoLoad(w)
    PROVE  BaseInv'
<1>0. SessionFacts(w)
  BY DEF BaseInv, SessionInv
<1>1. CASE DecideRead(w)
  <2> DEFINE o == session[w]
             s == [step |-> "commit", user |-> o.user, key |-> o.key,
                   decision |-> o.decision, status |-> status[action[o.key].incident]]
  <2>1. o \in Loaded
    BY <1>1, SessionKinds DEF DecideRead, BaseInv
  <2>2. /\ o.user \in Users /\ o.key \in Keys /\ o.decision \in Decisions
    BY <2>1 DEF Loaded
  <2>3. /\ Exists(o.key) /\ action[o.key].approval_required
        /\ May(o.user, "APPROVE_RESPONSE")
    BY <1>0, <1>1 DEF DecideRead, SessionFacts
  <2>4. action[o.key].incident \in Incidents
    BY <2>2, <2>3 DEF Exists, BaseInv, TypeOK, Row
  <2>5. s \in Deciding
    BY <2>2, <2>4 DEF Deciding, BaseInv, TypeOK
  <2>6. s \in Session /\ s \notin Demo /\ s.step = "commit" /\ s.key = o.key /\ s.user = o.user
    BY <2>5 DEF Session, Demo
  <2>7. session' = [session EXCEPT ![w] = s] /\ UNCHANGED <<rows, answered>>
    BY <1>1 DEF DecideRead
  <2> HIDE DEF s, o
  <2> QED
    BY <2>3, <2>6, <2>7, SameRows, QuietStep DEF BaseInv, TypeOK
<1>2. CASE DemoLoad(w)
  <2> DEFINE o == session[w]
             k == IsolateKey[o.run]
             s == [step |-> "commit", user |-> o.user, key |-> k,
                   decision |-> "APPROVED", status |-> o.status]
  <2>1. o \in Demo
    BY <1>2, SessionKinds DEF DemoLoad, BaseInv
  <2>2. /\ o.user \in Users /\ o.run \in DemoRuns /\ o.status \in IncidentStatus
    BY <2>1 DEF Demo
  <2>3. k \in Keys
    BY <2>2, KeyTyping
  <2>4. /\ Exists(k) /\ action[k].approval_required /\ May(o.user, "APPROVE_RESPONSE")
    BY <1>0, <1>2, <2>1 DEF DemoLoad, SessionFacts, Undecided
  <2>5. s \in Deciding
    BY <2>2, <2>3 DEF Deciding, Decisions
  <2>6. s \in Session /\ s \notin Demo /\ s.step = "commit" /\ s.key = k /\ s.user = o.user
    BY <2>5 DEF Session, Demo
  <2>7. session' = [session EXCEPT ![w] = s] /\ UNCHANGED <<rows, answered>>
    BY <1>2 DEF DemoLoad
  <2> HIDE DEF s, o, k
  <2> QED
    BY <2>4, <2>6, <2>7, SameRows, QuietStep DEF BaseInv, TypeOK
<1> QED
  BY <1>1, <1>2

\* What a decision leaves in the tables.
LEMMA DecideCommitFacts ==
    ASSUME BaseInv, NEW w \in Workers, DecideCommit(w)
    PROVE  LET s == session[w] IN
           /\ s \in Deciding /\ s.key \in Keys /\ s.user \in Users /\ s.decision \in Decisions
           /\ Exists(s.key) /\ action[s.key] \in Row /\ action[s.key].approval_required
           /\ May(s.user, "APPROVE_RESPONSE")
           /\ action' = [action EXCEPT ![s.key] = DecidedRow(action[s.key], s.user, s.decision)]
           /\ \A k \in Keys : Exists(k)' <=> Exists(k)
           /\ session' = [session EXCEPT ![w] = Idle]
<1> DEFINE s == session[w]
<1>1. s \in Deciding
  BY SessionKinds DEF DecideCommit, BaseInv
<1>2. s.key \in Keys /\ s.user \in Users /\ s.decision \in Decisions
  BY <1>1 DEF Deciding
<1>3. Exists(s.key) /\ action[s.key].approval_required /\ May(s.user, "APPROVE_RESPONSE")
  BY DEF DecideCommit, BaseInv, SessionInv, SessionFacts
<1>4. action[s.key] \in Row
  BY <1>2, <1>3 DEF Exists, BaseInv, TypeOK
<1>5. action' = [action EXCEPT ![s.key] = DecidedRow(action[s.key], s.user, s.decision)]
  BY DEF DecideCommit
<1>6. \A k \in Keys : Exists(k)' <=> Exists(k)
  BY <1>2, <1>3, <1>4, <1>5, DecidedRowFacts DEF Exists, BaseInv, TypeOK
<1> QED
  BY <1>1, <1>2, <1>3, <1>4, <1>5, <1>6 DEF DecideCommit, Return

LEMMA Decide ==
    ASSUME BaseInv, NEW w \in Workers, DecideCommit(w)
    PROVE  BaseInv'
<1> DEFINE s == session[w]
<1>1. /\ s \in Deciding /\ s.key \in Keys /\ s.user \in Users /\ s.decision \in Decisions
      /\ Exists(s.key) /\ action[s.key] \in Row
      /\ action' = [action EXCEPT ![s.key] = DecidedRow(action[s.key], s.user, s.decision)]
      /\ \A k \in Keys : Exists(k)' <=> Exists(k)
      /\ session' = [session EXCEPT ![w] = Idle]
  BY DecideCommitFacts
<1>2. /\ DecidedRow(action[s.key], s.user, s.decision) \in Row
      /\ DecidedRow(action[s.key], s.user, s.decision).approval_required
            = action[s.key].approval_required
  BY <1>1, DecidedRowFacts
<1> HIDE DEF s
<1>3. TypeOK'
  <2>1. action' \in [Keys -> Row \cup {NoRow}]
    BY <1>1, <1>2 DEF BaseInv, TypeOK
  <2>2. action[s.key].incident \in Incidents /\ s.status \in IncidentStatus
    BY <1>1 DEF Row, Deciding
  <2>3. status' \in [Incidents -> IncidentStatus]
    <3> DEFINE row == DecidedRow(action[s.key], s.user, s.decision)
    <3>1. row.incident \in Incidents
      BY <1>1, <2>2, DecidedRowFacts
    <3>2. status' = [status EXCEPT ![row.incident] = StatusAfter(row, s.status, @)]
      BY DEF DecideCommit, s
    <3> HIDE DEF row
    <3>3. StatusAfter(row, s.status, status[row.incident]) \in IncidentStatus
      BY <3>1 DEF StatusAfter, Flush, IncidentStatus, BaseInv, TypeOK
    <3> QED
      BY <3>1, <3>2, <3>3 DEF BaseInv, TypeOK
  <2>4. [event |-> "RESPONSE_DECIDED", actor |-> s.user, result |-> s.decision] \in Entry
    BY <1>1 DEF Entry
  <2>5. trail' \in [Keys -> Seq(Entry)]
    BY <1>1, <2>4 DEF DecideCommit, BaseInv, TypeOK, s
  <2>6. Idle \in Session
    BY DEF Session
  <2>7. session' \in [Workers -> Session]
    BY <1>1, <2>6 DEF BaseInv, TypeOK
  <2> QED
    BY <2>1, <2>3, <2>5, <2>7 DEF DecideCommit, BaseInv, TypeOK
<1>4. \A v \in Workers : session'[v] = IF v = w THEN Idle ELSE session[v]
  BY <1>1 DEF BaseInv, TypeOK
<1>5. \A k \in Keys : action'[k].approval_required = action[k].approval_required
  BY <1>1, <1>2 DEF BaseInv, TypeOK
<1>6. Idle \notin Demo /\ Idle.step = "idle"
  BY DEF Idle, Demo
<1>7. SessionInv'
  <2> SUFFICES ASSUME NEW v \in Workers PROVE SessionFacts(v)'
    BY DEF SessionInv
  <2>1. CASE v = w
    BY <2>1, <1>4, <1>6 DEF At, SessionFacts
  <2>2. CASE v # w
    <3>1. session'[v] = session[v]
      BY <2>2, <1>4
    <3>2. SessionFacts(v)
      BY DEF BaseInv, SessionInv
    <3>3. At(v, "read") \/ At(v, "commit") => session[v].key \in Keys
      BY SessionKinds DEF BaseInv, Loaded, Deciding
    <3>4. session[v] \in Demo => session[v].run \in DemoRuns
      BY DEF Demo
    <3>5. At(v, "demoCollect") \/ At(v, "demoIsolate") \/ At(v, "demoLoad") => session[v] \in Demo
      BY SessionKinds DEF BaseInv
    <3> QED
      BY <3>1, <3>2, <3>3, <3>4, <3>5, <1>1, <1>5, KeyTyping DEF At, SessionFacts
  <2> QED
    BY <2>1, <2>2
<1>8. DemoInv'
  BY <1>1, <1>4, <1>6, KeyTyping DEF BaseInv, DemoInv
<1> QED
  BY <1>3, <1>7, <1>8 DEF BaseInv

\* What an INSERT leaves in the tables.
LEMMA InsertRowFacts ==
    ASSUME BaseInv, NEW k \in Keys, NEW r \in Request, NEW u \in Users,
           NEW m \in IncidentStatus, InsertRow(k, r, u, m)
    PROVE  /\ action' \in [Keys -> Row \cup {NoRow}]
           /\ trail' \in [Keys -> Seq(Entry)]
           /\ TableTypes'
           /\ \A j \in Keys : action'[j] = IF j = k THEN NewRow(r, u) ELSE action[j]
           /\ \A j \in Keys : Exists(j)' <=> (Exists(j) \/ j = k)
<1>1. action' = [action EXCEPT ![k] = NewRow(r, u)]
  BY DEF InsertRow
<1>2. /\ action' \in [Keys -> Row \cup {NoRow}]
      /\ \A j \in Keys : action'[j] = IF j = k THEN NewRow(r, u) ELSE action[j]
  BY <1>1, NewRowFacts DEF BaseInv, TypeOK
<1>3. \A j \in Keys : Exists(j)' <=> (Exists(j) \/ j = k)
  BY <1>2, NewRowFacts DEF Exists
<1>4. [event |-> "RESPONSE_REQUESTED", actor |-> u, result |-> "SUCCESS"] \in Entry
  BY DEF Entry
<1>5. trail' \in [Keys -> Seq(Entry)]
  BY <1>4 DEF InsertRow, BaseInv, TypeOK
<1>6. r.incident \in Incidents
  BY DEF Request
<1>7. TableTypes'
  BY <1>6 DEF InsertRow, TableTypes, BaseInv, TypeOK, Flush, IncidentStatus
<1> QED
  BY <1>2, <1>3, <1>5, <1>7

\* Sessions other than the one that inserts under a fresh key keep what they know.
LEMMA OthersKeepFacts ==
    ASSUME BaseInv, NEW k \in Keys, ~Exists(k),
           \A j \in Keys : Exists(j)' <=> (Exists(j) \/ j = k),
           \A j \in Keys : j # k => action'[j] = action[j],
           NEW v \in Workers, session'[v] = session[v],
           session[v] \in Demo => k \notin {CollectKey[session[v].run], IsolateKey[session[v].run]}
    PROVE  SessionFacts(v)'
<1>1. SessionFacts(v)
  BY DEF BaseInv, SessionInv
<1>2. At(v, "read") \/ At(v, "commit") => session[v].key \in Keys
  BY SessionKinds DEF BaseInv, Loaded, Deciding
<1>3. session[v] \in Demo => /\ CollectKey[session[v].run] \in Keys
                             /\ IsolateKey[session[v].run] \in Keys
  BY KeyTyping DEF Demo
<1>4. At(v, "demoCollect") \/ At(v, "demoIsolate") \/ At(v, "demoLoad") => session[v] \in Demo
  BY SessionKinds DEF BaseInv
<1> QED
  BY <1>1, <1>2, <1>3, <1>4 DEF At, SessionFacts

LEMMA Insert ==
    ASSUME BaseInv, NEW w \in Workers, CreateInsert(w)
    PROVE  BaseInv'
<1> DEFINE s == session[w]
<1>1. s \in Inserting /\ SessionFacts(w)
  BY SessionKinds DEF CreateInsert, BaseInv, SessionInv
<1>2. /\ s.key \in ApiKeys /\ s.key \in Keys /\ s.request \in Request
      /\ s.user \in Users /\ s.status \in IncidentStatus
  BY <1>1 DEF Inserting, SessionFacts, CreateInsert
<1>3. /\ ~Exists(s.key) /\ InsertRow(s.key, s.request, s.user, s.status)
      /\ answered' = answered \cup {<<s.key, s.request, "kept">>}
      /\ session' = [session EXCEPT ![w] = Idle]
  BY DEF CreateInsert, Return
<1> HIDE DEF s
<1>4. /\ action' \in [Keys -> Row \cup {NoRow}]
      /\ trail' \in [Keys -> Seq(Entry)]
      /\ TableTypes'
      /\ \A j \in Keys : action'[j] = IF j = s.key THEN NewRow(s.request, s.user) ELSE action[j]
      /\ \A j \in Keys : Exists(j)' <=> (Exists(j) \/ j = s.key)
  BY <1>2, <1>3, InsertRowFacts
<1>5. /\ Idle \in Session /\ Idle \notin Demo /\ Idle.step = "idle"
  BY DEF Session, Idle, Demo
<1>6. \A v \in Workers : session'[v] = IF v = w THEN Idle ELSE session[v]
  BY <1>3 DEF BaseInv, TypeOK
<1>7. TypeOK'
  BY <1>2, <1>3, <1>4, <1>5 DEF TypeOK, BaseInv, TableTypes
<1>8. SessionInv'
  <2> SUFFICES ASSUME NEW v \in Workers PROVE SessionFacts(v)'
    BY DEF SessionInv
  <2>1. CASE v = w
    BY <2>1, <1>5, <1>6 DEF At, SessionFacts
  <2>2. CASE v # w
    <3>1. session[v] \in Demo => s.key \notin {CollectKey[session[v].run], IsolateKey[session[v].run]}
      BY <1>2, KeyTyping DEF Demo
    <3> QED
      BY <2>2, <3>1, <1>2, <1>3, <1>4, <1>6, OthersKeepFacts
  <2> QED
    BY <2>1, <2>2
<1>9. DemoInv'
  BY <1>2, <1>4, <1>5, <1>6, KeyTyping DEF BaseInv, DemoInv
<1> QED
  BY <1>7, <1>8, <1>9 DEF BaseInv

LEMMA DemoInsert ==
    ASSUME BaseInv, NEW w \in Workers, DemoCollect(w) \/ DemoIsolate(w)
    PROVE  BaseInv'
<1> DEFINE o == session[w]
           d == o.run
           k == IF At(w, "demoCollect") THEN CollectKey[d] ELSE IsolateKey[d]
           r == DemoRequest(o, IF At(w, "demoCollect") THEN "COLLECT_EVIDENCE" ELSE "ISOLATE_ENDPOINT")
           s == [o EXCEPT !.step = IF At(w, "demoCollect") THEN "demoIsolate" ELSE "demoLoad",
                          !.status = HeldStatus(o, r)]
<1>1. o \in Demo /\ SessionFacts(w)
  BY SessionKinds DEF DemoCollect, DemoIsolate, BaseInv, SessionInv
<1>2. /\ d \in DemoRuns /\ o.user \in Users /\ o.status \in IncidentStatus
      /\ o.incident \in Incidents /\ o.risk \in RiskLevels
  BY <1>1 DEF Demo
<1>3. k \in Keys /\ k \notin ApiKeys
  BY <1>2, KeyTyping
<1>4. r \in Request
  BY <1>2, ConfigAssumption DEF DemoRequest, Request
<1>5. /\ InsertRow(k, r, o.user, o.status) /\ UNCHANGED answered
      /\ session' = [session EXCEPT ![w] = s]
  <2>1. CASE DemoCollect(w)
    <3>1. At(w, "demoCollect")
      BY <2>1 DEF DemoCollect
    <3>2. session' = [session EXCEPT ![w].step = "demoIsolate", ![w].status = HeldStatus(o, r)]
      BY <2>1, <3>1 DEF DemoCollect
    <3> QED
      BY <2>1, <3>1, <3>2 DEF DemoCollect, BaseInv, TypeOK
  <2>2. CASE DemoIsolate(w)
    <3>1. At(w, "demoIsolate") /\ ~At(w, "demoCollect")
      BY <2>2 DEF DemoIsolate, At
    <3>2. session' = [session EXCEPT ![w].step = "demoLoad", ![w].status = HeldStatus(o, r)]
      BY <2>2, <3>1 DEF DemoIsolate
    <3> QED
      BY <2>2, <3>1, <3>2 DEF DemoIsolate, BaseInv, TypeOK
  <2> QED
    BY <2>1, <2>2
<1>6. ~Exists(k)
  BY <1>1 DEF SessionFacts, DemoCollect, DemoIsolate, At
<1>7. HeldStatus(o, r) \in IncidentStatus
  BY <1>2 DEF HeldStatus, IncidentStatus
<1>8. /\ s \in Demo /\ s.run = d /\ s.user = o.user
      /\ s.step = IF At(w, "demoCollect") THEN "demoIsolate" ELSE "demoLoad"
  BY <1>1, <1>7 DEF Demo
<1>9. s \in Session
  BY <1>8 DEF Session
<1>10. /\ action' \in [Keys -> Row \cup {NoRow}]
       /\ trail' \in [Keys -> Seq(Entry)]
       /\ TableTypes'
       /\ \A j \in Keys : action'[j] = IF j = k THEN NewRow(r, o.user) ELSE action[j]
       /\ \A j \in Keys : Exists(j)' <=> (Exists(j) \/ j = k)
  BY <1>2, <1>3, <1>4, <1>5, InsertRowFacts
<1>11. \A v \in Workers : session'[v] = IF v = w THEN s ELSE session[v]
  BY <1>5 DEF BaseInv, TypeOK
<1>12. CollectKey[d] \in Keys /\ IsolateKey[d] \in Keys /\ CollectKey[d] # IsolateKey[d]
  BY <1>2, KeyTyping
<1>13. May(o.user, "APPROVE_RESPONSE") /\ (At(w, "demoCollect") => ~Exists(IsolateKey[d]))
       /\ (~At(w, "demoCollect") => Exists(CollectKey[d]))
  BY <1>1 DEF SessionFacts, DemoCollect, DemoIsolate, At
<1>14. k = IF At(w, "demoCollect") THEN CollectKey[d] ELSE IsolateKey[d]
  OBVIOUS
<1>15. o = session[w] /\ d = o.run
  OBVIOUS
<1> HIDE DEF s, k, r, d, o
<1>16. TypeOK'
  BY <1>5, <1>9, <1>10 DEF TypeOK, BaseInv, TableTypes
<1>17. SessionInv'
  <2> SUFFICES ASSUME NEW v \in Workers PROVE SessionFacts(v)'
    BY DEF SessionInv
  <2>1. CASE v = w
    <3>1. session'[v] = s
      BY <2>1, <1>11
    <3>2. /\ action'[CollectKey[d]] # NoRow
          /\ At(w, "demoCollect") => action'[IsolateKey[d]] = NoRow
          /\ ~At(w, "demoCollect") => action'[IsolateKey[d]] # NoRow
      BY <1>10, <1>12, <1>13, <1>14 DEF Exists
    <3> QED
      BY <2>1, <3>1, <3>2, <1>8, <1>13 DEF At, SessionFacts, Exists
  <2>2. CASE v # w
    <3>1. session[v] \in Demo => session[v].run # d
      BY <2>2, <1>1, <1>15 DEF BaseInv, DemoInv
    <3>2. session[v] \in Demo => k \notin {CollectKey[session[v].run], IsolateKey[session[v].run]}
      BY <3>1, <1>2, <1>14, KeyTyping DEF Demo
    <3> QED
      BY <2>2, <3>2, <1>3, <1>6, <1>10, <1>11, OthersKeepFacts
  <2> QED
    BY <2>1, <2>2
<1>18. DemoInv'
  <2>1. \A v, x \in Workers :
          session'[v] \in Demo /\ session'[x] \in Demo /\ session'[v].run = session'[x].run => v = x
    BY <1>1, <1>8, <1>11, <1>15 DEF BaseInv, DemoInv
  <2>2. ASSUME NEW e \in DemoRuns, Exists(IsolateKey[e])' PROVE Exists(CollectKey[e])'
    <3>1. CollectKey[e] \in Keys /\ IsolateKey[e] \in Keys
      BY KeyTyping
    <3>2. CASE Exists(IsolateKey[e])
      BY <3>1, <3>2, <1>10 DEF BaseInv, DemoInv
    <3>3. CASE ~Exists(IsolateKey[e])
      <4>1. IsolateKey[e] = k
        BY <2>2, <3>1, <3>3, <1>10
      <4>2. ~At(w, "demoCollect") /\ e = d
        BY <4>1, <1>2, <1>14, KeyTyping
      <4> QED
        BY <4>2, <3>1, <1>10, <1>13
    <3> QED
      BY <3>2, <3>3
  <2> QED
    BY <2>1, <2>2 DEF DemoInv
<1> QED
  BY <1>16, <1>17, <1>18 DEF BaseInv

LEMMA BaseStep == BaseInv /\ [Next]_vars => BaseInv'
<1> SUFFICES ASSUME BaseInv, [Next]_vars PROVE BaseInv'
  OBVIOUS
<1>1. ASSUME NEW w \in Workers, Call(w) PROVE BaseInv'
  BY <1>1, EnterCreate, EnterOther, KeyTyping DEF Call
<1>2. ASSUME NEW w \in Workers, Continue(w) PROVE BaseInv'
  BY <1>2, Insert, Leave, MoveOn, Decide, DemoInsert DEF Continue
<1>3. ASSUME NEW w \in Workers, Abort(w) PROVE BaseInv'
  BY <1>3, Leave
<1>4. ASSUME Environment PROVE BaseInv'
  BY <1>4 DEF Environment, Rescore, BaseInv, TypeOK, SessionInv, SessionFacts, DemoInv,
              At, Exists
<1>5. CASE UNCHANGED vars
  BY <1>5 DEF vars, BaseInv, TypeOK, SessionInv, SessionFacts, DemoInv, At, Exists
<1> QED
  BY <1>1, <1>2, <1>3, <1>4, <1>5 DEF Next

\* Every reachable state is well typed, whatever requests, decisions, PATCHes, demo
\* runs and failures interleave.
THEOREM TypeCorrect == Spec => []TypeOK
<1>1. Spec => []BaseInv
  BY BaseInit, BaseStep, PTL DEF Spec
<1> QED
  BY <1>1, PTL DEF BaseInv

-----------------------------------------------------------------------------
(* The approval gate. *)

Requested(u) == [event |-> "RESPONSE_REQUESTED", actor |-> u, result |-> "SUCCESS"]
Decided(u, d) == [event |-> "RESPONSE_DECIDED", actor |-> u, result |-> d]

\* A step writes one action at most: a fresh row, or a decision.
LEMMA WritesOneAction ==
    ASSUME BaseInv, [Next]_vars
    PROVE  \/ UNCHANGED <<action, trail>>
           \/ \E k \in Keys, r \in Request, u \in Users :
                /\ ~Exists(k)
                /\ action' = [action EXCEPT ![k] = NewRow(r, u)]
                /\ trail' = [trail EXCEPT ![k] = Append(trail[k], Requested(u))]
           \/ \E w \in Workers : DecideCommit(w)
<1> DEFINE Goal == \E k \in Keys, r \in Request, u \in Users :
                     /\ ~Exists(k)
                     /\ action' = [action EXCEPT ![k] = NewRow(r, u)]
                     /\ trail' = [trail EXCEPT ![k] = Append(trail[k], Requested(u))]
<1>1. ASSUME NEW w \in Workers, CreateInsert(w) PROVE Goal
  <2> DEFINE s == session[w]
  <2>1. s \in Inserting
    BY <1>1, SessionKinds DEF CreateInsert, BaseInv
  <2>2. s.key \in Keys /\ s.request \in Request /\ s.user \in Users
    BY <2>1 DEF Inserting
  <2>3. /\ ~Exists(s.key)
        /\ action' = [action EXCEPT ![s.key] = NewRow(s.request, s.user)]
        /\ trail' = [trail EXCEPT ![s.key] = Append(trail[s.key], Requested(s.user))]
    BY <1>1 DEF CreateInsert, InsertRow, Requested
  <2> QED
    BY <2>2, <2>3
<1>2. ASSUME NEW w \in Workers, DemoCollect(w) PROVE Goal
  <2> DEFINE s == session[w]
             r == DemoRequest(s, "COLLECT_EVIDENCE")
             k == CollectKey[s.run]
  <2>1. s \in Demo /\ SessionFacts(w)
    BY <1>2, SessionKinds DEF DemoCollect, BaseInv, SessionInv
  <2>2. k \in Keys /\ r \in Request /\ s.user \in Users
    BY <2>1, KeyTyping, ConfigAssumption DEF Demo, DemoRequest, Request
  <2>3. /\ ~Exists(k)
        /\ action' = [action EXCEPT ![k] = NewRow(r, s.user)]
        /\ trail' = [trail EXCEPT ![k] = Append(trail[k], Requested(s.user))]
    BY <1>2, <2>1 DEF DemoCollect, InsertRow, Requested, SessionFacts
  <2> HIDE DEF r, k
  <2> QED
    BY <2>2, <2>3
<1>3. ASSUME NEW w \in Workers, DemoIsolate(w) PROVE Goal
  <2> DEFINE s == session[w]
             r == DemoRequest(s, "ISOLATE_ENDPOINT")
             k == IsolateKey[s.run]
  <2>1. s \in Demo /\ SessionFacts(w)
    BY <1>3, SessionKinds DEF DemoIsolate, BaseInv, SessionInv
  <2>2. k \in Keys /\ r \in Request /\ s.user \in Users
    BY <2>1, KeyTyping, ConfigAssumption DEF Demo, DemoRequest, Request
  <2>3. /\ ~Exists(k)
        /\ action' = [action EXCEPT ![k] = NewRow(r, s.user)]
        /\ trail' = [trail EXCEPT ![k] = Append(trail[k], Requested(s.user))]
    BY <1>3, <2>1 DEF DemoIsolate, InsertRow, Requested, SessionFacts
  <2> HIDE DEF r, k
  <2> QED
    BY <2>2, <2>3
<1>4. ASSUME NEW w \in Workers,
             \/ Call(w) \/ Abort(w) \/ CreateConflict(w) \/ DecideRead(w)
             \/ PatchCommit(w) \/ DemoLoad(w) \/ DemoRefused(w)
      PROVE  UNCHANGED <<action, trail>>
  BY <1>4 DEF Call, CreateReplay, CreateLookup, DecideLoad, PatchLoad, DemoStart, Abort,
     CreateConflict, DecideRead, PatchCommit, DemoLoad, DemoRefused, rows
<1>5. Environment \/ UNCHANGED vars => UNCHANGED <<action, trail>>
  BY DEF Environment, Rescore, vars
<1> HIDE DEF Goal
<1>6. UNCHANGED <<action, trail>> \/ Goal \/ \E w \in Workers : DecideCommit(w)
  BY <1>1, <1>2, <1>3, <1>4, <1>5 DEF Next, Continue
<1> QED
  BY <1>6 DEF Goal

\* The decision a DecideCommit appends, in one place.
LEMMA DecideTrail ==
    ASSUME BaseInv, NEW w \in Workers, DecideCommit(w)
    PROVE  trail' = [trail EXCEPT ![session[w].key] =
                       Append(trail[session[w].key], Decided(session[w].user, session[w].decision))]
  BY DEF DecideCommit, Decided

LEMMA GateStep ==
    ASSUME BaseInv, ApprovalGate, DenialCancels, [Next]_vars
    PROVE  ApprovalGate' /\ DenialCancels'
<1> DEFINE Gate(k) ==
             (Exists(k) /\ action[k].approval_required
                       /\ action[k].execution_status \notin {"PENDING", "CANCELLED"}) =>
                 /\ action[k].approval_status = "APPROVED"
                 /\ action[k].approved_by \in Users
                 /\ May(action[k].approved_by, "APPROVE_RESPONSE")
                 /\ \E n \in 1 .. Len(trail[k]) :
                      trail[k][n] = Decided(action[k].approved_by, "APPROVED")
           Denial(k) == Exists(k) =>
                 (action[k].approval_status = "DENIED" <=> action[k].execution_status = "CANCELLED")
<1>0. \A k \in Keys : Gate(k) /\ Denial(k)
  BY DEF ApprovalGate, DenialCancels, Decided
<1> SUFFICES ASSUME NEW k \in Keys PROVE Gate(k)' /\ Denial(k)'
  BY DEF ApprovalGate, DenialCancels, Decided
<1>1. CASE UNCHANGED <<action, trail>>
  BY <1>0, <1>1 DEF Exists
<1>2. ASSUME NEW j \in Keys, NEW r \in Request, NEW u \in Users,
             action' = [action EXCEPT ![j] = NewRow(r, u)],
             trail' = [trail EXCEPT ![j] = Append(trail[j], Requested(u))]
      PROVE  Gate(k)' /\ Denial(k)'
  <2>1. CASE k = j
    <3>1. action'[k] = NewRow(r, u)
      BY <2>1, <1>2 DEF BaseInv, TypeOK
    <3> QED
      BY <3>1, NewRowFacts
  <2>2. CASE k # j
    <3>1. action'[k] = action[k] /\ trail'[k] = trail[k]
      BY <2>2, <1>2 DEF BaseInv, TypeOK
    <3> QED
      BY <3>1, <1>0 DEF Exists
  <2> QED
    BY <2>1, <2>2
<1>3. ASSUME NEW w \in Workers, DecideCommit(w) PROVE Gate(k)' /\ Denial(k)'
  <2> DEFINE s == session[w]
  <2>1. /\ s.key \in Keys /\ s.user \in Users /\ s.decision \in Decisions
        /\ action[s.key] \in Row /\ May(s.user, "APPROVE_RESPONSE")
        /\ action' = [action EXCEPT ![s.key] = DecidedRow(action[s.key], s.user, s.decision)]
        /\ trail' = [trail EXCEPT ![s.key] = Append(trail[s.key], Decided(s.user, s.decision))]
    BY <1>3, DecideCommitFacts, DecideTrail
  <2>2. ExecutionStatus \in {"DRY_RUN", "FAILED"}
    BY DEF ExecutionStatus
  <2> HIDE DEF s
  <2>3. CASE k = s.key
    <3>1. /\ action'[k] = DecidedRow(action[k], s.user, s.decision)
          /\ trail'[k] = Append(trail[k], Decided(s.user, s.decision))
          /\ trail[k] \in Seq(Entry)
      BY <2>1, <2>3 DEF BaseInv, TypeOK
    <3>2. /\ Len(trail[k]) + 1 \in 1 .. Len(trail'[k])
          /\ trail'[k][Len(trail[k]) + 1] = Decided(s.user, s.decision)
      BY <3>1
    <3>3. CASE s.decision = "APPROVED"
      <4>1. /\ action'[k].approval_status = "APPROVED" /\ action'[k].approved_by = s.user
            /\ action'[k].execution_status = ExecutionStatus
        BY <2>1, <2>3, <3>1, <3>3, DecidedRowFacts
      <4>2. \E n \in 1 .. Len(trail'[k]) :
                trail'[k][n] = Decided(action'[k].approved_by, "APPROVED")
        BY <3>2, <3>3, <4>1
      <4> QED
        BY <4>1, <4>2, <2>1, <2>2
    <3>4. CASE s.decision = "DENIED"
      <4>1. /\ action'[k].approval_status = "DENIED" /\ action'[k].execution_status = "CANCELLED"
        BY <2>1, <2>3, <3>1, <3>4, DecidedRowFacts
      <4> QED
        BY <4>1
    <3> QED
      BY <2>1, <3>3, <3>4 DEF Decisions
  <2>4. CASE k # s.key
    <3>1. action'[k] = action[k] /\ trail'[k] = trail[k]
      BY <2>1, <2>4 DEF BaseInv, TypeOK
    <3> QED
      BY <3>1, <1>0 DEF Exists
  <2> QED
    BY <2>3, <2>4
<1> HIDE DEF Gate, Denial
<1> QED
  BY <1>1, <1>2, <1>3, WritesOneAction

\* Whatever decisions race for an action, it leaves PENDING for execution only with an
\* approval on its trail by a user who may approve, and is CANCELLED exactly when the
\* decision on record is a denial.
THEOREM ApprovalGated == Spec => [](ApprovalGate /\ DenialCancels)
<1>1. Init => ApprovalGate /\ DenialCancels
  BY DEF Init, ApprovalGate, DenialCancels, Exists
<1>2. Spec => []BaseInv
  BY BaseInit, BaseStep, PTL DEF Spec
<1> QED
  BY <1>1, <1>2, GateStep, PTL DEF Spec

-----------------------------------------------------------------------------
(* The status of incidents. *)

Needs(k, i) == Concerns(k, i) /\ action[k].approval_required
Endorsed(k, i) == Concerns(k, i) /\ Approved(k)

\* The incident is no longer as it was created, or an analyst has put it back.
Left(i) == status[i] # "NEW" \/ "NEW" \in patched[i]

Explained ==
    /\ \A i \in Incidents, k \in Keys : Needs(k, i) => Left(i)
    /\ \A i \in Incidents :
         status[i] \in {"NEW", "CONTAINMENT_PENDING", "INVESTIGATING"} \cup patched[i]
    /\ \A i \in Incidents : status[i] = "CONTAINMENT_PENDING" =>
         status[i] \in patched[i] \/ \E k \in Keys : Needs(k, i)
    /\ \A i \in Incidents : status[i] = "INVESTIGATING" =>
         status[i] \in patched[i] \/ \E k \in Keys : Endorsed(k, i)

\* The object a session will assign CONTAINMENT_PENDING to may be stale, but if it holds
\* that value already, the incident has been moved on before.
HeldFacts(w) ==
    /\ At(w, "insert") /\ session[w].status = "CONTAINMENT_PENDING"
         => Left(session[w].request.incident)
    /\ session[w] \in Demo /\ session[w].status = "CONTAINMENT_PENDING"
         => Left(session[w].incident)

StatusInv == Explained /\ \A w \in Workers : HeldFacts(w)

\* The session that inserts an action for r holds m as the status of its incident.
Holds(w, r, m) ==
    /\ session[w].status = m
    /\ \/ At(w, "insert") /\ session[w].request = r
       \/ session[w] \in Demo /\ session[w].incident = r.incident

\* What a step does to actions and statuses.
LEMMA StepKinds ==
    ASSUME BaseInv, [Next]_vars
    PROVE  \/ UNCHANGED <<action, trail, status, patched>>
           \/ \E w \in Workers, k \in Keys, r \in Request, u \in Users, m \in IncidentStatus :
                ~Exists(k) /\ InsertRow(k, r, u, m) /\ Holds(w, r, m)
           \/ \E w \in Workers : DecideCommit(w)
           \/ \E w \in Workers : PatchCommit(w)
<1> DEFINE Goal == \E w \in Workers, k \in Keys, r \in Request, u \in Users, m \in IncidentStatus :
                     ~Exists(k) /\ InsertRow(k, r, u, m) /\ Holds(w, r, m)
<1>1. ASSUME NEW w \in Workers, CreateInsert(w) PROVE Goal
  <2> DEFINE s == session[w]
  <2>1. s \in Inserting
    BY <1>1, SessionKinds DEF CreateInsert, BaseInv
  <2>2. s.key \in Keys /\ s.request \in Request /\ s.user \in Users /\ s.status \in IncidentStatus
    BY <2>1 DEF Inserting
  <2>3. ~Exists(s.key) /\ InsertRow(s.key, s.request, s.user, s.status)
    BY <1>1 DEF CreateInsert
  <2>4. Holds(w, s.request, s.status)
    BY <1>1 DEF CreateInsert, Holds
  <2> QED
    BY <2>2, <2>3, <2>4
<1>2. ASSUME NEW w \in Workers, DemoCollect(w) \/ DemoIsolate(w) PROVE Goal
  <2> DEFINE s == session[w]
             r == DemoRequest(s, IF DemoCollect(w) THEN "COLLECT_EVIDENCE" ELSE "ISOLATE_ENDPOINT")
             k == IF DemoCollect(w) THEN CollectKey[s.run] ELSE IsolateKey[s.run]
  <2>1. s \in Demo /\ SessionFacts(w)
    BY <1>2, SessionKinds DEF DemoCollect, DemoIsolate, BaseInv, SessionInv
  <2>2. /\ k \in Keys /\ r \in Request /\ r.incident = s.incident
        /\ s.user \in Users /\ s.status \in IncidentStatus
    BY <2>1, KeyTyping, ConfigAssumption DEF Demo, DemoRequest, Request
  <2>3. ~Exists(k) /\ InsertRow(k, r, s.user, s.status)
    BY <1>2, <2>1 DEF DemoCollect, DemoIsolate, SessionFacts
  <2>4. Holds(w, r, s.status)
    BY <2>1, <2>2 DEF Holds
  <2> HIDE DEF r, k
  <2> QED
    BY <2>2, <2>3, <2>4
<1>3. ASSUME NEW w \in Workers,
             \/ Call(w) \/ Abort(w) \/ CreateConflict(w) \/ DecideRead(w)
             \/ DemoLoad(w) \/ DemoRefused(w)
      PROVE  UNCHANGED <<action, trail, status, patched>>
  BY <1>3 DEF Call, CreateReplay, CreateLookup, DecideLoad, PatchLoad, DemoStart, Abort,
     CreateConflict, DecideRead, DemoLoad, DemoRefused, rows
<1>4. Environment \/ UNCHANGED vars => UNCHANGED <<action, trail, status, patched>>
  BY DEF Environment, Rescore, vars
<1> HIDE DEF Goal
<1>5. \/ UNCHANGED <<action, trail, status, patched>> \/ Goal
      \/ \E w \in Workers : DecideCommit(w)
      \/ \E w \in Workers : PatchCommit(w)
  BY <1>1, <1>2, <1>3, <1>4 DEF Next, Continue
<1> QED
  BY <1>5 DEF Goal

\* An UPDATE of one status column leaves the others, and writes the new value or nothing.
LEMMA FlushedStatus ==
    ASSUME TypeOK, NEW j \in Incidents, NEW old, NEW new,
           status' = [status EXCEPT ![j] = Flush(old, new, @)]
    PROVE  \A i \in Incidents :
             /\ status'[i] = status[i] \/ (i = j /\ status'[i] = new)
             /\ i = j /\ old # new => status'[i] = new
  BY DEF Flush, TypeOK

LEMMA InsertExplained ==
    ASSUME BaseInv, Explained, NEW k \in Keys, NEW r \in Request, NEW u \in Users,
           NEW m \in IncidentStatus, ~Exists(k), InsertRow(k, r, u, m),
           m = "CONTAINMENT_PENDING" => Left(r.incident)
    PROVE  Explained' /\ \A i \in Incidents : Left(i) => Left(i)'
<1>1. r.incident \in Incidents /\ patched' = patched
  BY DEF InsertRow, Request
<1>2. \A i \in Incidents : status'[i] = status[i] \/ (/\ i = r.incident /\ ApprovalRequired(r)
                                                      /\ status'[i] = "CONTAINMENT_PENDING")
  BY <1>1, FlushedStatus DEF InsertRow, BaseInv
<1>3. ApprovalRequired(r) => Left(r.incident)'
  <2> SUFFICES ASSUME ApprovalRequired(r) PROVE Left(r.incident)'
    OBVIOUS
  <2>1. status' = [status EXCEPT ![r.incident] = Flush(m, "CONTAINMENT_PENDING", @)]
    BY DEF InsertRow
  <2>2. CASE m = "CONTAINMENT_PENDING"
    BY <2>2, <1>1, <1>2 DEF Left
  <2>3. CASE m # "CONTAINMENT_PENDING"
    <3>1. status'[r.incident] = "CONTAINMENT_PENDING"
      BY <2>1, <2>3, <1>1 DEF Flush, BaseInv, TypeOK
    <3> QED
      BY <3>1 DEF Left
  <2> QED
    BY <2>2, <2>3
<1>4. \A j \in Keys : action'[j] = IF j = k THEN NewRow(r, u) ELSE action[j]
  BY InsertRowFacts
<1>5. \A j \in Keys : j # k => trail'[j] = trail[j]
  BY DEF InsertRow, BaseInv, TypeOK
<1>6. /\ NewRow(r, u) # NoRow /\ NewRow(r, u).incident = r.incident
      /\ NewRow(r, u).approval_required <=> ApprovalRequired(r)
  BY NewRowFacts
<1>7. ASSUME NEW i \in Incidents, NEW j \in Keys
      PROVE  /\ Needs(j, i)' <=> Needs(j, i) \/ (j = k /\ i = r.incident /\ ApprovalRequired(r))
             /\ Endorsed(j, i) => Endorsed(j, i)'
  BY <1>4, <1>5, <1>6 DEF Needs, Endorsed, Concerns, Approved, Exists
<1>8. ASSUME NEW i \in Incidents, Left(i) PROVE Left(i)'
  BY <1>1, <1>2, <1>8 DEF Left
<1>9. \A i \in Incidents, j \in Keys : Needs(j, i)' => Left(i)'
  BY <1>3, <1>7, <1>8 DEF Explained
<1>10. \A i \in Incidents : ApprovalRequired(r) /\ i = r.incident => \E j \in Keys : Needs(j, i)'
  BY <1>7
<1>11. \A i \in Incidents : /\ (\E j \in Keys : Needs(j, i)) => \E j \in Keys : Needs(j, i)'
                            /\ (\E j \in Keys : Endorsed(j, i)) => \E j \in Keys : Endorsed(j, i)'
  BY <1>7
<1> HIDE DEF Needs, Endorsed, Left
<1>12. ASSUME NEW i \in Incidents
       PROVE  /\ status'[i] \in {"NEW", "CONTAINMENT_PENDING", "INVESTIGATING"} \cup patched'[i]
              /\ status'[i] = "CONTAINMENT_PENDING" =>
                   status'[i] \in patched'[i] \/ \E j \in Keys : Needs(j, i)'
              /\ status'[i] = "INVESTIGATING" =>
                   status'[i] \in patched'[i] \/ \E j \in Keys : Endorsed(j, i)'
  BY <1>1, <1>2, <1>10, <1>11 DEF Explained
<1> QED
  BY <1>8, <1>9, <1>12 DEF Explained

LEMMA DecideExplained ==
    ASSUME BaseInv, Explained, NEW w \in Workers, DecideCommit(w)
    PROVE  Explained' /\ \A i \in Incidents : Left(i) => Left(i)'
<1>1. PICK s \in Session, row \in Row :
        /\ s.key \in Keys /\ s.user \in Users /\ s.decision \in Decisions
        /\ Exists(s.key) /\ action[s.key] \in Row
        /\ row = DecidedRow(action[s.key], s.user, s.decision)
        /\ action' = [action EXCEPT ![s.key] = row]
        /\ trail' = [trail EXCEPT ![s.key] = Append(trail[s.key], Decided(s.user, s.decision))]
        /\ status' = [status EXCEPT ![row.incident] = StatusAfter(row, s.status, @)]
        /\ patched' = patched
  <2> DEFINE s == session[w]
  <2>1. /\ s \in Session /\ s.key \in Keys /\ s.user \in Users /\ s.decision \in Decisions
        /\ Exists(s.key) /\ action[s.key] \in Row
        /\ action' = [action EXCEPT ![s.key] = DecidedRow(action[s.key], s.user, s.decision)]
        /\ trail' = [trail EXCEPT ![s.key] = Append(trail[s.key], Decided(s.user, s.decision))]
    BY DecideCommitFacts, DecideTrail DEF BaseInv, TypeOK
  <2>2. DecidedRow(action[s.key], s.user, s.decision) \in Row
    BY <2>1, DecidedRowFacts
  <2>3. /\ status' = [status EXCEPT ![DecidedRow(action[s.key], s.user, s.decision).incident] =
                        StatusAfter(DecidedRow(action[s.key], s.user, s.decision), s.status, @)]
        /\ patched' = patched
    BY DEF DecideCommit
  <2> HIDE DEF s
  <2> QED
    BY <2>1, <2>2, <2>3
<1>2. /\ row # NoRow /\ row.incident = action[s.key].incident
      /\ row.approval_required = action[s.key].approval_required
      /\ row.execution_status = IF s.decision = "DENIED" THEN "CANCELLED" ELSE ExecutionStatus
  BY <1>1, DecidedRowFacts DEF Decisions
<1>3. row.incident \in Incidents /\ s.decision \in {"APPROVED", "DENIED"}
  BY <1>1, <1>2 DEF Row, Decisions
<1>4. row.execution_status # "SUCCESS"
  BY <1>2 DEF ExecutionStatus
<1>5. \A i \in Incidents :
        status'[i] = status[i] \/ (/\ i = row.incident /\ s.decision = "APPROVED"
                                   /\ status'[i] = "INVESTIGATING")
  <2>1. CASE row.execution_status = "DRY_RUN"
    <3>1. status' = [status EXCEPT ![row.incident] = Flush(s.status, "INVESTIGATING", @)]
      BY <1>1, <1>4, <2>1 DEF StatusAfter
    <3>2. s.decision = "APPROVED"
      BY <1>2, <1>3, <2>1
    <3> QED
      BY <1>3, <3>1, <3>2, FlushedStatus DEF BaseInv
  <2>2. CASE row.execution_status # "DRY_RUN"
    BY <1>1, <1>4, <2>2 DEF StatusAfter, BaseInv, TypeOK
  <2> QED
    BY <2>1, <2>2
<1>6. /\ \A j \in Keys : action'[j] = IF j = s.key THEN row ELSE action[j]
      /\ \A j \in Keys : j # s.key => trail'[j] = trail[j]
      /\ trail'[s.key] = Append(trail[s.key], Decided(s.user, s.decision))
      /\ trail[s.key] \in Seq(Entry)
  BY <1>1 DEF BaseInv, TypeOK
<1>7. Approved(s.key) => Approved(s.key)'
  <2> SUFFICES ASSUME NEW n \in 1 .. Len(trail[s.key]), trail[s.key][n].event = "RESPONSE_DECIDED",
                      trail[s.key][n].result = "APPROVED"
               PROVE  Approved(s.key)'
    BY DEF Approved
  <2>1. n \in 1 .. Len(trail'[s.key]) /\ trail'[s.key][n] = trail[s.key][n]
    BY <1>6
  <2> QED
    BY <2>1 DEF Approved
<1>8. s.decision = "APPROVED" => Approved(s.key)'
  <2>1. trail'[s.key][Len(trail[s.key]) + 1] = Decided(s.user, s.decision)
        /\ Len(trail[s.key]) + 1 \in 1 .. Len(trail'[s.key])
    BY <1>6
  <2> QED
    BY <2>1 DEF Approved, Decided
<1>9. ASSUME NEW i \in Incidents, NEW j \in Keys
      PROVE  /\ Needs(j, i)' <=> Needs(j, i)
             /\ Concerns(j, i)' <=> Concerns(j, i)
             /\ Endorsed(j, i) => Endorsed(j, i)'
  <2>1. CASE j = s.key
    BY <2>1, <1>1, <1>2, <1>6, <1>7 DEF Needs, Endorsed, Concerns, Exists
  <2>2. CASE j # s.key
    BY <2>2, <1>6 DEF Needs, Endorsed, Concerns, Exists, Approved
  <2> QED
    BY <2>1, <2>2
<1>10. Concerns(s.key, row.incident)
  BY <1>1, <1>2 DEF Concerns
<1>11. ASSUME NEW i \in Incidents, Left(i) PROVE Left(i)'
  BY <1>1, <1>5, <1>11 DEF Left
<1>12. ASSUME NEW i \in Incidents
       PROVE  /\ \A j \in Keys : Needs(j, i)' => Left(i)'
              /\ status'[i] \in {"NEW", "CONTAINMENT_PENDING", "INVESTIGATING"} \cup patched'[i]
              /\ status'[i] = "CONTAINMENT_PENDING" =>
                   status'[i] \in patched'[i] \/ \E j \in Keys : Needs(j, i)'
  BY <1>1, <1>5, <1>9, <1>11 DEF Explained
<1>13. ASSUME NEW i \in Incidents, status'[i] = "INVESTIGATING"
       PROVE  status'[i] \in patched'[i] \/ \E j \in Keys : Endorsed(j, i)'
  <2>1. CASE status'[i] = status[i]
    BY <2>1, <1>1, <1>9, <1>13 DEF Explained
  <2>2. CASE i = row.incident /\ s.decision = "APPROVED"
    <3>1. Endorsed(s.key, i)'
      BY <2>2, <1>1, <1>8, <1>9, <1>10 DEF Endorsed
    <3> QED
      BY <3>1, <1>1
  <2> QED
    BY <2>1, <2>2, <1>5
<1> QED
  BY <1>11, <1>12, <1>13 DEF Explained

LEMMA PatchExplained ==
    ASSUME BaseInv, Explained, NEW w \in Workers, PatchCommit(w)
    PROVE  Explained' /\ \A i \in Incidents : Left(i) => Left(i)'
<1> DEFINE s == session[w]
<1>1. s.incident \in Incidents
  BY SessionKinds DEF PatchCommit, BaseInv, Patching
<1>2. \A i \in Incidents : status'[i] = status[i] \/ (i = s.incident /\ status'[i] = s.new_status)
  BY <1>1, FlushedStatus DEF PatchCommit, BaseInv
<1>3. \A i \in Incidents : patched'[i] = IF i = s.incident THEN patched[i] \cup {s.new_status}
                                                           ELSE patched[i]
  BY <1>1 DEF PatchCommit, BaseInv, TypeOK
<1>4. \A i \in Incidents : /\ patched[i] \subseteq patched'[i]
                           /\ status'[i] = status[i] \/ status'[i] \in patched'[i]
  BY <1>2, <1>3
<1>5. UNCHANGED <<action, trail>>
  BY DEF PatchCommit
<1>6. \A i \in Incidents, k \in Keys : /\ Needs(k, i)' <=> Needs(k, i)
                                       /\ Endorsed(k, i)' <=> Endorsed(k, i)
  BY <1>5 DEF Needs, Endorsed, Concerns, Approved, Exists
<1>7. ASSUME NEW i \in Incidents, Left(i) PROVE Left(i)'
  BY <1>4, <1>7 DEF Left
<1> HIDE DEF s
<1>8. ASSUME NEW i \in Incidents
      PROVE  /\ \A k \in Keys : Needs(k, i)' => Left(i)'
             /\ status'[i] \in {"NEW", "CONTAINMENT_PENDING", "INVESTIGATING"} \cup patched'[i]
             /\ status'[i] = "CONTAINMENT_PENDING" =>
                  status'[i] \in patched'[i] \/ \E k \in Keys : Needs(k, i)'
             /\ status'[i] = "INVESTIGATING" =>
                  status'[i] \in patched'[i] \/ \E k \in Keys : Endorsed(k, i)'
  BY <1>4, <1>6, <1>7 DEF Explained
<1> QED
  BY <1>7, <1>8 DEF Explained

LEMMA ExplainedStep ==
    ASSUME BaseInv, StatusInv, [Next]_vars
    PROVE  Explained' /\ \A i \in Incidents : Left(i) => Left(i)'
<1>1. CASE UNCHANGED <<action, trail, status, patched>>
  BY <1>1 DEF StatusInv, Explained, Left, Needs, Endorsed, Concerns, Approved, Exists
<1>2. ASSUME NEW w \in Workers, NEW k \in Keys, NEW r \in Request, NEW u \in Users,
             NEW m \in IncidentStatus, ~Exists(k), InsertRow(k, r, u, m), Holds(w, r, m)
      PROVE  Explained' /\ \A i \in Incidents : Left(i) => Left(i)'
  <2>1. m = "CONTAINMENT_PENDING" => Left(r.incident)
    BY <1>2 DEF StatusInv, HeldFacts, Holds
  <2> QED
    BY <1>2, <2>1, InsertExplained DEF StatusInv
<1> QED
  BY <1>1, <1>2, StepKinds, DecideExplained, PatchExplained DEF StatusInv

\* What a session holds was just read, or it held it before, or it is its own assignment
\* to the incident of the action it inserted.
LEMMA HeldMoves ==
    ASSUME BaseInv, [Next]_vars, NEW v \in Workers
    PROVE  \/ session'[v] = session[v]
           \/ session'[v].step # "insert" /\ session'[v] \notin Demo
           \/ /\ session'[v].step = "insert" /\ session'[v] \notin Demo
              /\ session'[v].request.incident \in Incidents
              /\ session'[v].status = status[session'[v].request.incident]
           \/ /\ session'[v] \in Demo /\ session'[v].step # "insert"
              /\ session'[v].status = status[session'[v].incident]
           \/ /\ session[v] \in Demo /\ session'[v] \in Demo /\ session'[v].step # "insert"
              /\ session'[v].incident = session[v].incident
              /\ \/ session'[v].status = session[v].status
                 \/ \E k \in Keys : Needs(k, session[v].incident)'
<1> DEFINE Goal == \/ session'[v] = session[v]
                   \/ session'[v].step # "insert" /\ session'[v] \notin Demo
                   \/ /\ session'[v].step = "insert" /\ session'[v] \notin Demo
                      /\ session'[v].request.incident \in Incidents
                      /\ session'[v].status = status[session'[v].request.incident]
                   \/ /\ session'[v] \in Demo /\ session'[v].step # "insert"
                      /\ session'[v].status = status[session'[v].incident]
                   \/ /\ session[v] \in Demo /\ session'[v] \in Demo /\ session'[v].step # "insert"
                      /\ session'[v].incident = session[v].incident
                      /\ \/ session'[v].status = session[v].status
                         \/ \E k \in Keys : Needs(k, session[v].incident)'
<1>1. ASSUME NEW w \in Workers, Call(w) PROVE Goal
  <2>1. ASSUME NEW u \in Users, NEW k \in Keys, NEW r \in Requests, CreateLookup(w, u, k, r)
        PROVE  Goal
    <3> DEFINE s == [step |-> "insert", user |-> u, key |-> k, request |-> r,
                     status |-> status[r.incident]]
    <3>1. session' = [session EXCEPT ![w] = s]
      BY <2>1 DEF CreateLookup, Enter
    <3>2. s.request.incident \in Incidents /\ s.status = status[s.request.incident]
          /\ s.step = "insert" /\ s \notin Demo
      BY RequestTyping DEF Request, Demo
    <3> HIDE DEF s
    <3> QED
      BY <3>1, <3>2 DEF BaseInv, TypeOK
  <2>2. ASSUME NEW u \in Users, NEW d \in DemoRuns, NEW i \in Incidents, DemoStart(w, u, d, i)
        PROVE  Goal
    <3> DEFINE s == [step |-> "demoCollect", user |-> u, run |-> d, incident |-> i,
                     status |-> status[i], risk |-> risk[i]]
    <3>1. session' = [session EXCEPT ![w] = s]
      BY <2>2 DEF DemoStart, Enter
    <3>2. s \in Demo /\ s.step # "insert" /\ s.status = status[s.incident]
      BY DEF Demo, BaseInv, TypeOK
    <3> HIDE DEF s
    <3> QED
      BY <3>1, <3>2 DEF BaseInv, TypeOK
  <2>3. ASSUME NEW u \in Users, NEW k \in Keys, NEW d \in Decisions, DecideLoad(w, u, k, d)
        PROVE  Goal
    BY <2>3 DEF DecideLoad, Enter, BaseInv, TypeOK, Demo
  <2>4. ASSUME NEW u \in Users, NEW i \in Incidents, NEW n \in PatchStatuses, PatchLoad(w, u, i, n)
        PROVE  Goal
    BY <2>4 DEF PatchLoad, Enter, BaseInv, TypeOK, Demo
  <2>5. ASSUME NEW u \in Users, NEW k \in Keys, NEW r \in Requests, CreateReplay(w, u, k, r)
        PROVE  Goal
    BY <2>5 DEF CreateReplay
  <2> HIDE DEF Goal
  <2> QED
    BY <1>1, <2>1, <2>2, <2>3, <2>4, <2>5, KeyTyping DEF Call
<1>2. ASSUME NEW w \in Workers, NEW t \in Session, session' = [session EXCEPT ![w] = t],
             t.step # "insert" /\ t \notin Demo
      PROVE  Goal
  BY <1>2 DEF BaseInv, TypeOK
<1>3. ASSUME NEW w \in Workers, \/ CreateInsert(w) \/ CreateConflict(w) \/ DecideCommit(w)
                                \/ PatchCommit(w) \/ DemoRefused(w) \/ Abort(w)
      PROVE  Goal
  <2>1. Idle \in Session /\ Idle.step # "insert" /\ Idle \notin Demo
    BY DEF Session, Idle, Demo
  <2>2. session' = [session EXCEPT ![w] = Idle]
    BY <1>3 DEF CreateInsert, CreateConflict, DecideCommit, PatchCommit, DemoRefused, Abort, Return
  <2> HIDE DEF Goal
  <2> QED
    BY <1>2, <2>1, <2>2
<1>4. ASSUME NEW w \in Workers, DecideRead(w) \/ DemoLoad(w) PROVE Goal
  BY <1>4 DEF DecideRead, DemoLoad, BaseInv, TypeOK, Demo
<1>5. ASSUME NEW w \in Workers, NEW type \in {"COLLECT_EVIDENCE", "ISOLATE_ENDPOINT"},
             NEW k \in Keys, NEW to \in {"demoIsolate", "demoLoad"}, session[w] \in Demo,
             InsertRow(k, DemoRequest(session[w], type), session[w].user, session[w].status),
             session' = [session EXCEPT ![w].step = to,
                           ![w].status = HeldStatus(session[w], DemoRequest(session[w], type))]
      PROVE  Goal
  <2>0. PICK o \in Demo : o = session[w]
    BY <1>5
  <2> DEFINE r == DemoRequest(o, type)
             s == [o EXCEPT !.step = to, !.status = HeldStatus(o, r)]
  <2>1. /\ r \in Request /\ r.incident = o.incident /\ o.user \in Users
        /\ o.status \in IncidentStatus
    BY <2>0, ConfigAssumption DEF Demo, DemoRequest, Request
  <2>2. session' = [session EXCEPT ![w] = s]
    BY <1>5, <2>0 DEF BaseInv, TypeOK
  <2>3. HeldStatus(o, r) \in IncidentStatus
    BY <2>1 DEF HeldStatus, IncidentStatus
  <2>4. s \in Demo /\ s.step # "insert" /\ s.incident = o.incident /\ s.status = HeldStatus(o, r)
    BY <2>0, <2>3 DEF Demo
  <2>5. s.status = o.status \/ ApprovalRequired(r)
    BY <2>4 DEF HeldStatus
  <2>6. ApprovalRequired(r) => Needs(k, o.incident)'
    <3>1. action'[k] = NewRow(r, o.user)
      BY <1>5, <2>0, <2>1, InsertRowFacts
    <3> QED
      BY <2>1, <3>1, NewRowFacts DEF Needs, Concerns, Exists
  <2>7. \A x \in Workers : session'[x] = IF x = w THEN s ELSE session[x]
    BY <2>2 DEF BaseInv, TypeOK
  <2> HIDE DEF s, r
  <2>8. CASE v = w
    <3>1. /\ session'[v] = s /\ s \in Demo /\ s.step # "insert"
          /\ s.incident = o.incident /\ session[v] = o
      BY <2>0, <2>4, <2>7, <2>8
    <3>2. CASE s.status = o.status
      BY <3>1, <3>2, <1>5
    <3>3. CASE ApprovalRequired(r)
      <4>1. Needs(k, session[v].incident)'
        BY <2>6, <3>1, <3>3 DEF Needs, Concerns
      <4> QED
        BY <3>1, <4>1, <1>5
    <3> QED
      BY <2>5, <3>2, <3>3
  <2>9. CASE v # w
    BY <2>7, <2>9
  <2> QED
    BY <2>8, <2>9
<1>6. ASSUME NEW w \in Workers, DemoCollect(w) \/ DemoIsolate(w) PROVE Goal
  <2>1. session[w] \in Demo
    BY <1>6, SessionKinds DEF DemoCollect, DemoIsolate, BaseInv
  <2>2. CollectKey[session[w].run] \in Keys /\ IsolateKey[session[w].run] \in Keys
    BY <2>1, KeyTyping DEF Demo
  <2> HIDE DEF Goal
  <2> QED
    BY <1>5, <1>6, <2>1, <2>2 DEF DemoCollect, DemoIsolate
<1>7. ASSUME Environment \/ UNCHANGED vars PROVE Goal
  BY <1>7 DEF Environment, Rescore, vars
<1> HIDE DEF Goal
<1>8. ASSUME NEW w \in Workers, Continue(w) PROVE Goal
  BY <1>3, <1>4, <1>6, <1>8 DEF Continue
<1>9. ASSUME NEW w \in Workers, Abort(w) PROVE Goal
  BY <1>3, <1>9
<1>10. ASSUME Next PROVE Goal
  BY <1>1, <1>7, <1>8, <1>9, <1>10 DEF Next
<1>11. Goal
  BY <1>7, <1>10
<1> QED
  BY <1>11 DEF Goal

LEMMA StatusStep ==
    ASSUME BaseInv, StatusInv, [Next]_vars
    PROVE  StatusInv'
<1>1. Explained' /\ \A i \in Incidents : Left(i) => Left(i)'
  BY ExplainedStep
<1> SUFFICES ASSUME NEW v \in Workers PROVE HeldFacts(v)'
  BY <1>1 DEF StatusInv
<1>2. HeldFacts(v) /\ session[v] \in Session
  BY DEF StatusInv, BaseInv, TypeOK
<1>3. /\ At(v, "insert") => session[v].request.incident \in Incidents
      /\ session[v] \in Demo => session[v].incident \in Incidents
  BY SessionKinds DEF BaseInv, Inserting, Request, Demo
<1>4. CASE session'[v] = session[v]
  BY <1>1, <1>2, <1>3, <1>4 DEF HeldFacts, At
<1>5. CASE session'[v].step # "insert" /\ session'[v] \notin Demo
  BY <1>5 DEF HeldFacts, At
<1>6. CASE /\ session'[v].step = "insert" /\ session'[v] \notin Demo
           /\ session'[v].request.incident \in Incidents
           /\ session'[v].status = status[session'[v].request.incident]
  <2>1. session'[v].status = "CONTAINMENT_PENDING" => Left(session'[v].request.incident)
    BY <1>6 DEF Left
  <2>2. session'[v].status = "CONTAINMENT_PENDING" => Left(session[v].request.incident)'
    BY <1>1, <1>6, <2>1 DEF Left
  <2> QED
    BY <1>6, <2>2 DEF HeldFacts
<1>7. CASE /\ session'[v] \in Demo /\ session'[v].step # "insert"
           /\ session'[v].status = status[session'[v].incident]
  <2>1. session'[v].incident \in Incidents
    BY <1>7 DEF Demo
  <2>2. session'[v].status = "CONTAINMENT_PENDING" => Left(session[v].incident)'
    BY <1>1, <1>7, <2>1 DEF Left
  <2> QED
    BY <1>7, <2>2 DEF HeldFacts, At
<1>8. CASE /\ session[v] \in Demo /\ session'[v] \in Demo /\ session'[v].step # "insert"
           /\ session'[v].incident = session[v].incident
           /\ \/ session'[v].status = session[v].status
              \/ \E k \in Keys : Needs(k, session[v].incident)'
  <2>1. session[v].incident \in Incidents
    BY <1>3, <1>8
  <2>2. CASE session'[v].status = session[v].status
    BY <1>1, <1>2, <1>8, <2>1, <2>2 DEF HeldFacts, At, Left
  <2>3. ASSUME NEW k \in Keys, Needs(k, session[v].incident)' PROVE HeldFacts(v)'
    <3>1. action'[k] # NoRow /\ action'[k].incident = session'[v].incident
      BY <1>8, <2>3 DEF Needs, Concerns, Exists
    <3>2. Needs(k, session[v].incident)'
      BY <1>8, <2>3 DEF Needs, Concerns
    <3>3. Left(session[v].incident)'
      BY <1>1, <1>8, <2>1, <3>1, <3>2 DEF Explained
    <3> QED
      BY <1>8, <3>3 DEF HeldFacts, At
  <2> QED
    BY <1>8, <2>2, <2>3
<1> QED
  BY <1>4, <1>5, <1>6, <1>7, <1>8, HeldMoves

\* Whatever requests, decisions, PATCHes and demo runs race with stale objects, the status
\* of an incident is one that an analyst set or that its actions and their trail explain.
THEOREM StatusIsExplained == Spec => []StatusExplained
<1>1. Init => StatusInv
  BY DEF Init, StatusInv, Explained, Left, Needs, Concerns, Exists, HeldFacts, At, Idle, Demo
<1>2. StatusInv => StatusExplained
  BY DEF StatusInv, Explained, StatusExplained, Left, Needs, Endorsed
<1>3. Spec => []BaseInv
  BY BaseInit, BaseStep, PTL DEF Spec
<1> QED
  BY <1>1, <1>2, <1>3, StatusStep, PTL DEF Spec

-----------------------------------------------------------------------------
(* The reservation of keys. *)

\* An action that exists stays the action of its request.
LEMMA ActionsStay ==
    ASSUME BaseInv, [Next]_vars, NEW k \in Keys, Exists(k)
    PROVE  /\ Exists(k)'
           /\ \A r \in Request : SameRequest(action[k], r) => SameRequest(action'[k], r)
<1>1. CASE UNCHANGED <<action, trail>>
  BY <1>1 DEF Exists
<1>2. ASSUME NEW j \in Keys, NEW r \in Request, NEW u \in Users, ~Exists(j),
             action' = [action EXCEPT ![j] = NewRow(r, u)]
      PROVE  action'[k] = action[k]
  BY <1>2 DEF BaseInv, TypeOK
<1>3. ASSUME NEW w \in Workers, DecideCommit(w)
      PROVE  /\ Exists(k)'
             /\ \A r \in Request : SameRequest(action[k], r) => SameRequest(action'[k], r)
  <2> DEFINE s == session[w]
  <2>1. /\ s.key \in Keys /\ s.user \in Users /\ s.decision \in Decisions
        /\ Exists(s.key) /\ action[s.key] \in Row
        /\ action' = [action EXCEPT ![s.key] = DecidedRow(action[s.key], s.user, s.decision)]
    BY <1>3, DecideCommitFacts
  <2> HIDE DEF s
  <2>2. LET row == DecidedRow(action[s.key], s.user, s.decision) IN
        /\ row # NoRow /\ row.incident = action[s.key].incident
        /\ row.type = action[s.key].type /\ row.target = action[s.key].target
    BY <2>1, DecidedRowFacts
  <2>3. action'[k] = IF k = s.key THEN DecidedRow(action[s.key], s.user, s.decision) ELSE action[k]
    BY <2>1 DEF BaseInv, TypeOK
  <2> QED
    BY <2>2, <2>3 DEF SameRequest, Exists
<1> QED
  BY <1>1, <1>2, <1>3, WritesOneAction DEF Exists

Reserved(k) ==
    IF Exists(k)
    THEN \A n \in 1 .. Len(trail[k]) :
           IF n = 1 THEN trail[k][n] = Requested(action[k].requested_by)
                    ELSE trail[k][n].event = "RESPONSE_DECIDED"
    ELSE trail[k] = <<>>

Faithful(a) == Exists(a[1]) /\ (a[3] # "lost" => SameRequest(action[a[1]], a[2]))

LEMMA ReservedStep ==
    ASSUME BaseInv, [Next]_vars, NEW k \in Keys, Reserved(k), Exists(k) => Len(trail[k]) > 0
    PROVE  Reserved(k)' /\ (Exists(k)' => Len(trail'[k]) > 0)
<1>1. CASE UNCHANGED <<action, trail>>
  BY <1>1 DEF Reserved, Exists
<1>2. ASSUME NEW j \in Keys, NEW r \in Request, NEW u \in Users, ~Exists(j),
             action' = [action EXCEPT ![j] = NewRow(r, u)],
             trail' = [trail EXCEPT ![j] = Append(trail[j], Requested(u))]
      PROVE  Reserved(k)' /\ (Exists(k)' => Len(trail'[k]) > 0)
  <2>1. CASE k = j
    <3>1. trail[k] = <<>> /\ action'[k] = NewRow(r, u) /\ trail'[k] = Append(trail[k], Requested(u))
      BY <2>1, <1>2 DEF Reserved, BaseInv, TypeOK
    <3>2. trail'[k] = <<Requested(u)>> /\ NewRow(r, u).requested_by = u
      BY <3>1 DEF NewRow
    <3>3. Len(trail'[k]) = 1 /\ trail'[k][1] = Requested(u)
      BY <3>2
    <3> QED
      BY <3>1, <3>2, <3>3, NewRowFacts DEF Reserved, Exists
  <2>2. CASE k # j
    <3>1. action'[k] = action[k] /\ trail'[k] = trail[k]
      BY <2>2, <1>2 DEF BaseInv, TypeOK
    <3> QED
      BY <3>1 DEF Reserved, Exists
  <2> QED
    BY <2>1, <2>2
<1>3. ASSUME NEW w \in Workers, DecideCommit(w)
      PROVE  Reserved(k)' /\ (Exists(k)' => Len(trail'[k]) > 0)
  <2> DEFINE s == session[w]
  <2>1. /\ s.key \in Keys /\ s.user \in Users /\ s.decision \in Decisions
        /\ Exists(s.key) /\ action[s.key] \in Row
        /\ action' = [action EXCEPT ![s.key] = DecidedRow(action[s.key], s.user, s.decision)]
        /\ trail' = [trail EXCEPT ![s.key] = Append(trail[s.key], Decided(s.user, s.decision))]
    BY <1>3, DecideCommitFacts, DecideTrail
  <2> HIDE DEF s
  <2>2. CASE k = s.key
    <3>1. /\ action'[k] # NoRow /\ action'[k].requested_by = action[k].requested_by
          /\ trail[k] \in Seq(Entry) /\ trail'[k] = Append(trail[k], Decided(s.user, s.decision))
      BY <2>1, <2>2, DecidedRowFacts DEF BaseInv, TypeOK
    <3>2. Decided(s.user, s.decision).event = "RESPONSE_DECIDED"
      BY DEF Decided
    <3>3. Len(trail'[k]) = Len(trail[k]) + 1 /\ Len(trail[k]) \in Nat \ {0}
      BY <2>1, <2>2, <3>1
    <3>4. \A n \in 1 .. Len(trail'[k]) :
            trail'[k][n] = IF n <= Len(trail[k]) THEN trail[k][n] ELSE Decided(s.user, s.decision)
      BY <3>1, <3>3
    <3> QED
      BY <2>1, <2>2, <3>1, <3>2, <3>3, <3>4 DEF Reserved, Exists
  <2>3. CASE k # s.key
    <3>1. action'[k] = action[k] /\ trail'[k] = trail[k]
      BY <2>1, <2>3 DEF BaseInv, TypeOK
    <3> QED
      BY <3>1 DEF Reserved, Exists
  <2> QED
    BY <2>2, <2>3
<1> QED
  BY <1>1, <1>2, <1>3, WritesOneAction

\* What a step answers.
LEMMA AnswerStep ==
    ASSUME BaseInv, [Next]_vars, \A a \in answered : Faithful(a)
    PROVE  \A a \in answered' : Faithful(a)'
<1>1. ASSUME NEW a \in answered PROVE Faithful(a)'
  <2>1. a[1] \in Keys /\ a[2] \in Request /\ Faithful(a)
    BY <1>1 DEF BaseInv, TypeOK
  <2> QED
    BY <2>1, ActionsStay DEF Faithful, Exists
<1>2. ASSUME NEW w \in Workers, NEW u \in Users, NEW k \in ApiKeys, NEW r \in Requests,
             CreateReplay(w, u, k, r), NEW a \in answered' \ answered
      PROVE  Faithful(a)'
  <2>1. a = <<k, r, "kept">> /\ Exists(k) /\ SameRequest(action[k], r) /\ action' = action
    BY <1>2 DEF CreateReplay, rows
  <2> QED
    BY <2>1 DEF Faithful, Exists
<1>3. ASSUME NEW w \in Workers, CreateInsert(w), NEW a \in answered' \ answered PROVE Faithful(a)'
  <2> DEFINE s == session[w]
  <2>1. s.key \in Keys /\ s.request \in Request /\ s.user \in Users
    BY <1>3, SessionKinds DEF CreateInsert, BaseInv, Inserting
  <2>2. a = <<s.key, s.request, "kept">> /\ action'[s.key] = NewRow(s.request, s.user)
    BY <1>3, <2>1 DEF CreateInsert, InsertRow, BaseInv, TypeOK
  <2> HIDE DEF s
  <2>3. SameRequest(NewRow(s.request, s.user), s.request) /\ NewRow(s.request, s.user) # NoRow
    BY <2>1, NewRowFacts DEF SameRequest
  <2> QED
    BY <2>2, <2>3 DEF Faithful, Exists
<1>4. ASSUME NEW w \in Workers, CreateConflict(w), NEW a \in answered' \ answered
      PROVE  Faithful(a)'
  BY <1>4 DEF CreateConflict, Faithful, Exists, rows
<1>5. ASSUME NEW w \in Workers,
             \/ DecideRead(w) \/ DecideCommit(w) \/ PatchCommit(w) \/ DemoCollect(w)
             \/ DemoIsolate(w) \/ DemoLoad(w) \/ DemoRefused(w) \/ Abort(w)
      PROVE  answered' = answered
  BY <1>5 DEF DecideRead, DecideCommit, PatchCommit, DemoCollect, DemoIsolate, DemoLoad,
              DemoRefused, Abort
<1>6. ASSUME NEW w \in Workers, NEW u \in Users
      PROVE  /\ \A k \in ApiKeys, r \in Requests : CreateLookup(w, u, k, r) => answered' = answered
             /\ \A k \in Keys, d \in Decisions : DecideLoad(w, u, k, d) => answered' = answered
             /\ \A i \in Incidents, n \in PatchStatuses : PatchLoad(w, u, i, n) => answered' = answered
             /\ \A d \in DemoRuns, i \in Incidents : DemoStart(w, u, d, i) => answered' = answered
  BY DEF CreateLookup, DecideLoad, PatchLoad, DemoStart
<1>7. Environment \/ UNCHANGED vars => answered' = answered
  BY DEF Environment, Rescore, vars
<1>8. ASSUME NEW w \in Workers, Call(w) PROVE \A a \in answered' \ answered : Faithful(a)'
  BY <1>2, <1>6, <1>8 DEF Call
<1>9. ASSUME NEW w \in Workers, Continue(w) \/ Abort(w)
      PROVE  \A a \in answered' \ answered : Faithful(a)'
  BY <1>3, <1>4, <1>5, <1>9 DEF Continue
<1> QED
  BY <1>1, <1>7, <1>8, <1>9 DEF Next

\* However many sessions race to insert a key, one request is on its trail, and only a
\* handler that lost the race is answered with the action of another request.
THEOREM KeyReserved == Spec => []ReservedOnce
<1> DEFINE Inv == /\ \A k \in Keys : Reserved(k) /\ (Exists(k) => Len(trail[k]) > 0)
                  /\ \A a \in answered : Faithful(a)
<1>1. Init => Inv
  BY DEF Init, Reserved, Exists
<1>2. BaseInv /\ Inv /\ [Next]_vars => Inv'
  BY ReservedStep, AnswerStep
<1>3. Inv => ReservedOnce
  BY DEF ReservedOnce, Reserved, Faithful, Requested
<1> HIDE DEF Inv
<1>4. Spec => []BaseInv
  BY BaseInit, BaseStep, PTL DEF Spec
<1> QED
  BY <1>1, <1>2, <1>3, <1>4, PTL DEF Spec

-----------------------------------------------------------------------------
(* One backend process, no demo run: request and approval handlers take turns *)
(* on one event loop, so what a handler has read still holds when it commits. *)

Serial == DemoRuns = {} /\ \A a, b \in Loops : a = b

OnLoop(w) == At(w, "insert") \/ At(w, "read") \/ At(w, "commit")

SerialInv ==
    /\ \A w \in Workers :
         /\ OnLoop(w) => w \in Loops
         /\ At(w, "insert") => ~Exists(session[w].key)
         /\ At(w, "read") \/ At(w, "commit") => Undecided(action[session[w].key])
    /\ IdempotentReply

LEMMA NoDemo == ASSUME Serial, BaseInv, NEW w \in Workers PROVE session[w] \notin Demo
  BY DEF Serial, Demo

\* Actions other than the one a handler on the loop writes stay as they are, and no
\* other worker stands between a read and a write.
LEMMA AloneOnLoop ==
    ASSUME Serial, SerialInv, NEW v \in Workers, NEW w \in Workers, OnLoop(v), OnLoop(w)
    PROVE  v = w
  BY DEF Serial, SerialInv

LEMMA SerialStep ==
    ASSUME Serial, BaseInv, SerialInv, [Next]_vars
    PROVE  SerialInv'
<1>1. CASE UNCHANGED vars \/ Environment
  BY <1>1 DEF vars, Environment, Rescore, SerialInv, OnLoop, At, Exists, IdempotentReply
<1>2. ASSUME NEW w \in Workers, session[w] = Idle, NEW s \in Session,
             session' = [session EXCEPT ![w] = s], UNCHANGED action,
             s.step \in {"insert", "read", "commit"} => w \in Loops,
             s.step = "insert" => ~Exists(s.key),
             s.step \in {"read", "commit"} => Undecided(action[s.key]),
             IdempotentReply'
      PROVE  SerialInv'
  <2>1. \A v \in Workers : session'[v] = IF v = w THEN s ELSE session[v]
    BY <1>2 DEF BaseInv, TypeOK
  <2> QED
    BY <1>2, <2>1 DEF SerialInv, OnLoop, At, Exists
<1>3. ASSUME NEW w \in Workers, session' = [session EXCEPT ![w] = Idle], UNCHANGED action,
             IdempotentReply'
      PROVE  SerialInv'
  <2>1. \A v \in Workers : session'[v] = IF v = w THEN Idle ELSE session[v]
    BY <1>3 DEF BaseInv, TypeOK
  <2> QED
    BY <1>3, <2>1 DEF SerialInv, OnLoop, At, Exists, Idle
<1>4. UNCHANGED <<action, answered>> => IdempotentReply'
  BY DEF SerialInv, IdempotentReply, Exists
<1>5. ASSUME NEW w \in Workers, Call(w) PROVE SerialInv'
  <2>1. ASSUME NEW u \in Users, NEW k \in ApiKeys, NEW r \in Requests, w \in Loops,
               CreateReplay(w, u, k, r)
        PROVE  SerialInv'
    <3>1. IdempotentReply'
      BY <2>1 DEF CreateReplay, rows, SerialInv, IdempotentReply, Exists
    <3>2. session' = session /\ UNCHANGED action
      BY <2>1 DEF CreateReplay, rows
    <3> QED
      BY <3>1, <3>2 DEF SerialInv, OnLoop, At, Exists
  <2>2. ASSUME NEW u \in Users, NEW k \in ApiKeys, NEW r \in Requests, w \in Loops,
               CreateLookup(w, u, k, r)
        PROVE  SerialInv'
    <3> DEFINE s == [step |-> "insert", user |-> u, key |-> k, request |-> r,
                     status |-> status[r.incident]]
    <3>1. s \in Session
      BY RequestTyping, KeyTyping DEF Session, Inserting, BaseInv, TypeOK, Request
    <3>2. /\ session[w] = Idle /\ session' = [session EXCEPT ![w] = s]
          /\ UNCHANGED <<action, answered>> /\ ~Exists(k)
      BY <2>2 DEF CreateLookup, Enter, rows
    <3>3. s.step = "insert" /\ s.key = k
      OBVIOUS
    <3> HIDE DEF s
    <3> QED
      BY <3>1, <3>2, <3>3, <2>2, <1>2, <1>4
  <2>3. ASSUME NEW u \in Users, NEW k \in Keys, NEW d \in Decisions, w \in Loops,
               DecideLoad(w, u, k, d)
        PROVE  SerialInv'
    <3> DEFINE s == [step |-> "read", user |-> u, key |-> k, decision |-> d]
    <3>1. s \in Session
      BY DEF Session, Loaded
    <3>2. /\ session[w] = Idle /\ session' = [session EXCEPT ![w] = s]
          /\ UNCHANGED <<action, answered>> /\ Undecided(action[k])
      BY <2>3 DEF DecideLoad, AwaitsDecision, Enter, rows
    <3>3. s.step = "read" /\ s.key = k
      OBVIOUS
    <3> HIDE DEF s
    <3> QED
      BY <3>1, <3>2, <3>3, <2>3, <1>2, <1>4
  <2>4. ASSUME NEW u \in Users, NEW i \in Incidents, NEW new \in PatchStatuses,
               PatchLoad(w, u, i, new)
        PROVE  SerialInv'
    <3> DEFINE s == [step |-> "patch", user |-> u, incident |-> i,
                     new_status |-> new, status |-> status[i]]
    <3>1. s \in Session
      BY ConfigAssumption DEF Session, Patching, BaseInv, TypeOK
    <3>2. /\ session[w] = Idle /\ session' = [session EXCEPT ![w] = s]
          /\ UNCHANGED <<action, answered>>
      BY <2>4 DEF PatchLoad, Enter, rows
    <3>3. s.step = "patch"
      OBVIOUS
    <3> HIDE DEF s
    <3> QED
      BY <3>1, <3>2, <3>3, <1>2, <1>4
  <2> QED
    BY <1>5, <2>1, <2>2, <2>3, <2>4 DEF Call, Serial
<1>6. ASSUME NEW w \in Workers, CreateInsert(w) PROVE SerialInv'
  <2> DEFINE s == session[w]
  <2>1. s \in Inserting /\ OnLoop(w)
    BY <1>6, SessionKinds DEF CreateInsert, BaseInv, OnLoop
  <2>2. /\ s.key \in Keys /\ s.request \in Request /\ s.user \in Users /\ ~Exists(s.key)
    BY <1>6, <2>1 DEF Inserting, CreateInsert
  <2>3. /\ action' = [action EXCEPT ![s.key] = NewRow(s.request, s.user)]
        /\ answered' = answered \cup {<<s.key, s.request, "kept">>}
        /\ session' = [session EXCEPT ![w] = Idle]
    BY <1>6 DEF CreateInsert, InsertRow, Return
  <2>4. /\ NewRow(s.request, s.user) # NoRow
        /\ SameRequest(NewRow(s.request, s.user), s.request)
    BY <2>2, NewRowFacts DEF SameRequest
  <2> HIDE DEF s
  <2>5. IdempotentReply'
    BY <2>2, <2>3, <2>4 DEF SerialInv, IdempotentReply, Exists, BaseInv, TypeOK
  <2>6. \A v \in Workers : session'[v] = IF v = w THEN Idle ELSE session[v]
    BY <2>3 DEF BaseInv, TypeOK
  <2>7. \A v \in Workers : ~OnLoop(v)'
    BY <2>1, <2>6, AloneOnLoop DEF OnLoop, At, Idle
  <2> QED
    BY <2>5, <2>7 DEF SerialInv, OnLoop
<1>7. ASSUME NEW w \in Workers, DecideCommit(w) PROVE SerialInv'
  <2> DEFINE s == session[w]
  <2>1. /\ s.key \in Keys /\ s.user \in Users /\ s.decision \in Decisions /\ action[s.key] \in Row
        /\ action' = [action EXCEPT ![s.key] = DecidedRow(action[s.key], s.user, s.decision)]
        /\ session' = [session EXCEPT ![w] = Idle]
    BY <1>7, DecideCommitFacts
  <2>2. OnLoop(w) /\ UNCHANGED answered
    BY <1>7 DEF DecideCommit, OnLoop
  <2>3. LET row == DecidedRow(action[s.key], s.user, s.decision) IN
        /\ row # NoRow
        /\ \A r \in Request : SameRequest(action[s.key], r) => SameRequest(row, r)
    BY <2>1, DecidedRowFacts DEF SameRequest
  <2> HIDE DEF s
  <2>4. IdempotentReply'
    <3> SUFFICES ASSUME NEW kr \in answered
                 PROVE  action'[kr[1]] # NoRow /\ SameRequest(action'[kr[1]], kr[2])
      BY <2>2 DEF IdempotentReply, Exists
    <3>1. kr[1] \in Keys /\ kr[2] \in Request /\ Exists(kr[1]) /\ SameRequest(action[kr[1]], kr[2])
      BY DEF SerialInv, IdempotentReply, BaseInv, TypeOK
    <3> QED
      BY <3>1, <2>1, <2>3 DEF Exists, BaseInv, TypeOK
  <2>5. \A v \in Workers : session'[v] = IF v = w THEN Idle ELSE session[v]
    BY <2>1 DEF BaseInv, TypeOK
  <2>6. \A v \in Workers : ~OnLoop(v)'
    BY <2>2, <2>5, AloneOnLoop DEF OnLoop, At, Idle
  <2> QED
    BY <2>4, <2>6 DEF SerialInv, OnLoop
<1>8. ASSUME NEW w \in Workers, DecideRead(w) PROVE SerialInv'
  <2> DEFINE o == session[w]
             s == [step |-> "commit", user |-> o.user, key |-> o.key,
                   decision |-> o.decision, status |-> status[action[o.key].incident]]
  <2>1. session' = [session EXCEPT ![w] = s] /\ UNCHANGED <<action, answered>> /\ OnLoop(w)
    BY <1>8 DEF DecideRead, rows, OnLoop
  <2>2. w \in Loops /\ Undecided(action[o.key])
    BY <1>8, <2>1 DEF SerialInv, DecideRead
  <2>3. s.step = "commit" /\ s.key = o.key
    OBVIOUS
  <2> HIDE DEF s
  <2>4. \A v \in Workers : session'[v] = IF v = w THEN s ELSE session[v]
    BY <2>1 DEF BaseInv, TypeOK
  <2> QED
    BY <2>1, <2>2, <2>3, <2>4, <1>4 DEF SerialInv, OnLoop, At, Exists
<1>9. ASSUME NEW w \in Workers, CreateConflict(w) \/ PatchCommit(w) \/ Abort(w)
      PROVE  SerialInv'
  <2>1. ~CreateConflict(w)
    BY DEF CreateConflict, SerialInv
  <2>2. session' = [session EXCEPT ![w] = Idle] /\ UNCHANGED <<action, answered>>
    BY <1>9, <2>1 DEF PatchCommit, Abort, Return, rows
  <2> QED
    BY <2>2, <1>3, <1>4
<1>10. ASSUME NEW w \in Workers,
              DemoCollect(w) \/ DemoIsolate(w) \/ DemoLoad(w) \/ DemoRefused(w)
       PROVE  FALSE
  BY <1>10, SessionKinds, NoDemo DEF DemoCollect, DemoIsolate, DemoLoad, DemoRefused, BaseInv
<1> QED
  BY <1>1, <1>5, <1>6, <1>7, <1>8, <1>9, <1>10 DEF Next, Continue

LEMMA SerialInvariance == ASSUME Serial PROVE Spec => [](BaseInv /\ SerialInv)
<1>1. Init => SerialInv
  BY DEF Init, SerialInv, IdempotentReply, OnLoop, At, Idle
<1>2. BaseInv /\ SerialInv /\ [Next]_vars => SerialInv'
  BY SerialStep
<1> QED
  BY <1>1, <1>2, BaseInit, BaseStep, PTL DEF Spec

\* In one backend process a 201 answer always names an action for the incident, type
\* and target that were asked for.
THEOREM SerialReply == ASSUME Serial PROVE Spec => []IdempotentReply
  BY SerialInvariance, PTL DEF SerialInv

\* In one backend process an action that was decided or executed is never written again.
THEOREM SerialDecidedFinal == ASSUME Serial PROVE Spec => DecidedFinal
<1>1. ASSUME BaseInv, SerialInv, [Next]_vars
      PROVE  [\A k \in Keys : Exists(k) /\ ~Undecided(action[k]) => action'[k] = action[k]]_action
  <2> SUFFICES ASSUME NEW k \in Keys, Exists(k), ~Undecided(action[k])
               PROVE  action'[k] = action[k]
    OBVIOUS
  <2>1. ASSUME NEW j \in Keys, NEW r \in Request, NEW u \in Users, ~Exists(j),
               action' = [action EXCEPT ![j] = NewRow(r, u)]
        PROVE  action'[k] = action[k]
    BY <1>1, <2>1 DEF BaseInv, TypeOK
  <2>2. ASSUME NEW w \in Workers, DecideCommit(w) PROVE action'[k] = action[k]
    <3>1. Undecided(action[session[w].key])
      BY <1>1, <2>2 DEF SerialInv, DecideCommit
    <3> QED
      BY <1>1, <2>2, <3>1 DEF DecideCommit, BaseInv, TypeOK
  <2> QED
    BY <1>1, <2>1, <2>2, WritesOneAction
<1> QED
  BY <1>1, SerialInvariance, PTL DEF Spec, DecidedFinal

-----------------------------------------------------------------------------
(* Refinement of the ledger. *)

LEMMA LedgerSubmit ==
    ASSUME BaseInv, NEW k \in Keys, NEW r \in Request, NEW u \in Users, ~Exists(k),
           action' = [action EXCEPT ![k] = NewRow(r, u)]
    PROVE  Ledger!Submit(k)
<1> DEFINE row == NewRow(r, u)
           about == <<r.incident, r.type, r.target>>
<1>1. /\ row # NoRow /\ row.incident = r.incident /\ row.type = r.type /\ row.target = r.target
      /\ row.approved_by = "nobody" /\ row.execution_status \in {"PENDING", "DRY_RUN", "FAILED"}
  BY NewRowFacts
<1>2. about \in Incidents \X ActionTypes \X Targets
  BY DEF Request
<1>3. LedgerEntry(row) = [about |-> about, decider |-> "nobody", outcome |-> row.execution_status]
  BY <1>1 DEF LedgerEntry
<1>4. action' = [action EXCEPT ![k] = row]
  OBVIOUS
<1> HIDE DEF row
<1>5. LedgerView' = [LedgerView EXCEPT ![k] = LedgerEntry(row)]
  BY <1>4 DEF LedgerView, BaseInv, TypeOK
<1>6. LedgerView[k] = Ledger!Fresh
  BY DEF LedgerView, LedgerEntry, Exists, Ledger!Fresh
<1> HIDE DEF about
<1>7. LedgerView' = [LedgerView EXCEPT ![k] =
                       [about |-> about, decider |-> "nobody", outcome |-> row.execution_status]]
  BY <1>3, <1>5
<1>8. row.execution_status \in {"PENDING"} \cup Ledger!Executed
  BY <1>1 DEF Ledger!Executed
<1> QED
  BY <1>2, <1>6, <1>7, <1>8 DEF Ledger!Submit

LEMMA LedgerClose ==
    ASSUME BaseInv, SerialInv, NEW w \in Workers, DecideCommit(w)
    PROVE  \E k \in Keys : Ledger!Close(k)
<1> DEFINE s == session[w]
           k == s.key
           row == DecidedRow(action[k], s.user, s.decision)
           about == <<action[k].incident, action[k].type, action[k].target>>
           old == LedgerEntry(action[k])
           new == [about |-> about, decider |-> s.user, outcome |-> row.execution_status]
<1>1. /\ k \in Keys /\ s.user \in Users /\ s.decision \in Decisions
      /\ action[k] # NoRow /\ action[k] \in Row
      /\ action' = [action EXCEPT ![k] = row]
  BY DecideCommitFacts DEF Exists
<1>2. action[k].execution_status = "PENDING"
  BY DEF SerialInv, DecideCommit, Undecided
<1>3. /\ row # NoRow /\ row.approved_by = s.user
      /\ <<row.incident, row.type, row.target>> = about
      /\ row.execution_status \in {"CANCELLED"} \cup Ledger!Executed
  BY <1>1, DecidedRowFacts DEF Decisions, ExecutionStatus, Ledger!Executed
<1>4. LedgerEntry(row) = new
  BY <1>3 DEF LedgerEntry
<1>5. old = [about |-> about, decider |-> action[k].approved_by, outcome |-> "PENDING"]
  BY <1>1, <1>2 DEF LedgerEntry
<1>6. LedgerView[k] = old /\ LedgerView = [j \in Keys |-> LedgerView[j]]
  BY <1>1 DEF LedgerView
<1>7. LedgerView' = [LedgerView EXCEPT ![k] = LedgerEntry(row)]
  BY <1>1 DEF LedgerView, BaseInv, TypeOK
<1>8. LedgerView[k].about = about /\ LedgerView[k].outcome = "PENDING"
  <2> HIDE DEF row, s, k, about
  <2> QED
    BY <1>5, <1>6
<1>9. LedgerView' = [LedgerView EXCEPT ![k] = [about |-> LedgerView[k].about, decider |-> s.user,
                                               outcome |-> row.execution_status]]
  <2> HIDE DEF row, s, k, about, old
  <2> QED
    BY <1>4, <1>7, <1>8
<1> HIDE DEF row, s, k
<1> QED
  BY <1>1, <1>3, <1>8, <1>9 DEF Ledger!Close

\* In one backend process requests and decisions implement the ledger: each key is
\* submitted once, with parameters that never change, and closed at most once.
THEOREM SerialRefinement == ASSUME Serial PROVE Spec => ImplementsLedger
<1>1. Init => Ledger!Init
  BY DEF Init, Ledger!Init, Ledger!Fresh, LedgerView, LedgerEntry
<1>2. ASSUME BaseInv, SerialInv, [Next]_vars PROVE [Ledger!Next]_LedgerView
  <2>1. CASE UNCHANGED <<action, trail>>
    BY <2>1 DEF LedgerView
  <2>2. ASSUME NEW k \in Keys, NEW r \in Request, NEW u \in Users, ~Exists(k),
               action' = [action EXCEPT ![k] = NewRow(r, u)]
        PROVE  Ledger!Next
    BY <1>2, <2>2, LedgerSubmit DEF Ledger!Next
  <2>3. ASSUME NEW w \in Workers, DecideCommit(w) PROVE Ledger!Next
    BY <1>2, <2>3, LedgerClose DEF Ledger!Next
  <2> QED
    BY <1>2, <2>1, <2>2, <2>3, WritesOneAction
<1> QED
  BY <1>1, <1>2, SerialInvariance, PTL DEF Spec, ImplementsLedger, Ledger!Spec
=============================================================================
