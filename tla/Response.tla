------------------------------ MODULE Response ------------------------------
(***************************************************************************)
(* Response orchestration: requests for containment actions, their         *)
(* approval, the dry-run execution, and the incident status they drive.    *)
(*                                                                         *)
(* Every handler has a database session of its own.  It reads rows into    *)
(* memory and later commits what it changed, without a row version or a    *)
(* lock, so each handler is split at the points where another session can  *)
(* commit in between.  Handlers declared "async def" (request, approval)   *)
(* run on the event loop and never yield before their commit: at most one  *)
(* of them is under way per event loop.  Handlers declared "def" (incident *)
(* PATCH, demo run) run on pool threads, at the same time as the loop.     *)
(***************************************************************************)
EXTENDS Naturals, Sequences, Access

CONSTANTS
    Loops,          \* event loops, one per backend process
    Threads,        \* threads of the pool
    Incidents,
    ActionTypes,    \* ALLOWED_ACTIONS
    Targets,
    Keys,           \* idempotency keys
    ApiKeys,        \* those that clients choose
    DemoRuns,       \* runs of the demo scenario
    CollectKey,     \* the two fresh keys each demo run derives from its event
    IsolateKey,
    Policies,
    NoPolicy,       \* a request that names no policy; also "none enabled"
    PolicyTable,    \* the response_policies rows
    DefaultPolicy,  \* the oldest enabled policy
    ValidTargets,   \* <<incident, type, target>> that _validate_target accepts
    Requests,       \* request bodies that clients send
    DemoTarget,
    RiskLevels,     \* RISK_ORDER ranks an incident of the model may have
    PatchStatuses,  \* the values analysts send in a PATCH
    DryRun,         \* the dry_run setting
    NoRow           \* no row with that idempotency key

IncidentStatus == {"NEW", "TRIAGED", "INVESTIGATING", "CONTAINMENT_PENDING",
                   "CONTAINED", "RECOVERING", "RESOLVED", "CLOSED"}
Workers == Loops \cup Threads
Decisions == {"APPROVED", "DENIED"}
Results == {"none", "simulated", "refused", "verified"}   \* verified: executed and verified

Request == [incident: Incidents, type: ActionTypes, target: Targets,
            policy: Policies \cup {NoPolicy}]
Policy == [enabled: BOOLEAN, allowed: SUBSET ActionTypes,
           preapproved: SUBSET ActionTypes, require_approval: SUBSET ActionTypes,
           min_risk_level: Nat]
Row == [incident: Incidents, type: ActionTypes, target: Targets,
        requested_by: Users, approved_by: Users \cup {"nobody"},
        approval_required: BOOLEAN, approval_status: {"PENDING"} \cup Decisions,
        execution_status: {"PENDING", "DRY_RUN", "FAILED", "CANCELLED", "SUCCESS"},
        execution_result: Results]
Entry == [event: {"RESPONSE_REQUESTED", "RESPONSE_DECIDED"}, actor: Users,
          result: Decisions \cup {"SUCCESS"}]
ASSUME ConfigAssumption ==
    /\ Loops \cap Threads = {}
    /\ Keys = ApiKeys \cup {CollectKey[d] : d \in DemoRuns}
                      \cup {IsolateKey[d] : d \in DemoRuns}
    /\ CollectKey \in [DemoRuns -> Keys] /\ IsolateKey \in [DemoRuns -> Keys]
    /\ \A d \in DemoRuns : /\ {CollectKey[d], IsolateKey[d]} \cap ApiKeys = {}
                           /\ \A e \in DemoRuns : /\ CollectKey[d] # IsolateKey[e]
                                                  /\ CollectKey[d] = CollectKey[e] => d = e
                                                  /\ IsolateKey[d] = IsolateKey[e] => d = e
    /\ PolicyTable \in [Policies -> Policy]
    /\ DefaultPolicy \in Policies \cup {NoPolicy}
    /\ NoPolicy \notin Policies /\ NoRow \notin Row /\ "nobody" \notin Users
    /\ DefaultPolicy # NoPolicy => PolicyTable[DefaultPolicy].enabled
    /\ Requests \subseteq Request
    /\ DemoTarget \in Targets
    /\ {"COLLECT_EVIDENCE", "ISOLATE_ENDPOINT"} \subseteq ActionTypes
    /\ RiskLevels \subseteq Nat
    /\ PatchStatuses \subseteq IncidentStatus
    /\ DryRun \in BOOLEAN

VARIABLES
    action,   \* response_actions, by the unique idempotency key
    status,   \* incidents.status
    risk,     \* incidents.risk_level
    trail,    \* per action, its timeline and audit entries (one transaction writes both)
    patched,  \* per incident, the statuses that audited PATCHes have set
    answered, \* <<key, request, how>>: a request answered with the action of the key, "lost" when
              \* another session took the key after this one had found it free, else "kept"
    session   \* per worker, the handler under way: where it stands, what it holds in memory

rows == <<action, status, risk, trail, patched>>
vars == <<action, status, risk, trail, patched, answered, session>>

Idle == [step |-> "idle"]
Inserting == [step: {"insert"}, user: Users, key: Keys, request: Request,
              status: IncidentStatus]
Loaded == [step: {"read"}, user: Users, key: Keys, decision: Decisions]
Deciding == [step: {"commit"}, user: Users, key: Keys, decision: Decisions,
             status: IncidentStatus]
Patching == [step: {"patch"}, user: Users, incident: Incidents,
             new_status: IncidentStatus, status: IncidentStatus]
Demo == [step: {"demoCollect", "demoIsolate", "demoLoad"}, user: Users,
         run: DemoRuns, incident: Incidents, status: IncidentStatus,
         risk: RiskLevels]
Session == {Idle} \cup Inserting \cup Loaded \cup Deciding \cup Patching \cup Demo

-----------------------------------------------------------------------------
(* The pure parts of the request. *)

Exists(k) == action[k] # NoRow
Resolve(r) == IF r.policy # NoPolicy THEN r.policy ELSE DefaultPolicy

\* The checks of create_action, against the incident risk the session has read.
Accepted(r, level) ==
    LET p == Resolve(r) IN
    /\ p # NoPolicy
    /\ PolicyTable[p].enabled
    /\ r.type \in PolicyTable[p].allowed
    /\ level >= PolicyTable[p].min_risk_level
    /\ <<r.incident, r.type, r.target>> \in ValidTargets

ApprovalRequired(r) ==
    LET p == PolicyTable[Resolve(r)]
    IN  r.type \in p.require_approval /\ r.type \notin p.preapproved

SameRequest(row, r) ==
    row.incident = r.incident /\ row.type = r.type /\ row.target = r.target

\* Mutant: _execute_dry_run stops before it leaves RUNNING.
ExecutionStatusStuck == IF DryRun THEN "RUNNING" ELSE "FAILED"

\* What execution without a real adapter leaves: a simulation, or a refusal.
ExecutionStatus == IF DryRun THEN "DRY_RUN" ELSE "FAILED"
ExecutionResult == IF DryRun THEN "simulated" ELSE "refused"

NewRow(r, u) ==
    [incident |-> r.incident, type |-> r.type, target |-> r.target,
     requested_by |-> u, approved_by |-> "nobody",
     approval_required |-> ApprovalRequired(r),
     approval_status |-> IF ApprovalRequired(r) THEN "PENDING" ELSE "APPROVED",
     execution_status |-> IF ApprovalRequired(r) THEN "PENDING" ELSE ExecutionStatus,
     execution_result |-> IF ApprovalRequired(r) THEN "none" ELSE ExecutionResult]

\* Mutant: a denial forgets to cancel the execution.
DecidedRowNotCancelled(row, u, d) ==
    [row EXCEPT !.approval_status = d, !.approved_by = u,
                !.execution_status = IF d = "DENIED" THEN @ ELSE ExecutionStatus]

\* The columns decide_action writes; a denial leaves execution_result alone.
DecidedRow(row, u, d) ==
    [row EXCEPT
        !.approval_status = d,
        !.approved_by = u,
        !.execution_status = IF d = "DENIED" THEN "CANCELLED" ELSE ExecutionStatus,
        !.execution_result = IF d = "DENIED" THEN @ ELSE ExecutionResult]

\* Assigning an attribute the value it already has in memory writes nothing.
Flush(inMemory, new, current) == IF new = inMemory THEN current ELSE new

Undecided(row) ==
    row.approval_required /\ row.approval_status = "PENDING"
                          /\ row.execution_status = "PENDING"

AwaitsDecision(k) == Exists(k) /\ Undecided(action[k])

-----------------------------------------------------------------------------
Init ==
    /\ action = [k \in Keys |-> NoRow]
    /\ status = [i \in Incidents |-> "NEW"]
    /\ risk \in [Incidents -> RiskLevels]
    /\ trail = [k \in Keys |-> <<>>]
    /\ patched = [i \in Incidents |-> {}]
    /\ answered = {}
    /\ session = [w \in Workers |-> Idle]

Enter(w, s) == session[w] = Idle /\ session' = [session EXCEPT ![w] = s]
Return(w) == session' = [session EXCEPT ![w] = Idle]
At(w, where) == session[w].step = where

-----------------------------------------------------------------------------
(* POST /response-actions: create_action, split at its INSERT.  A request   *)
(* that is refused (403, 404, 409, 422) changes nothing and has no step.   *)

\* The lookup of the key finds a row with the same parameters and answers it.
CreateReplay(w, u, k, r) ==
    /\ session[w] = Idle /\ May(u, "EXECUTE_RESPONSE")
    /\ Exists(k) /\ SameRequest(action[k], r)
    /\ answered' = answered \cup {<<k, r, "kept">>}
    /\ UNCHANGED <<rows, session>>

\* The lookup finds no row; incident and policy are read and checked.
CreateLookup(w, u, k, r) ==
    /\ May(u, "EXECUTE_RESPONSE")
    /\ ~Exists(k) /\ Accepted(r, risk[r.incident])
    /\ Enter(w, [step |-> "insert", user |-> u, key |-> k, request |-> r,
                 status |-> status[r.incident]])
    /\ UNCHANGED <<rows, answered>>

\* Mutant: an UPDATE writes every column of the incident, changed or not.
InsertRowWritesAll(k, r, u, inMemory) ==
    /\ action' = [action EXCEPT ![k] = NewRow(r, u)]
    /\ status' = [status EXCEPT ![r.incident] =
                    IF ApprovalRequired(r) THEN "CONTAINMENT_PENDING" ELSE inMemory]
    /\ trail' = [trail EXCEPT ![k] = Append(@,
                    [event |-> "RESPONSE_REQUESTED", actor |-> u, result |-> "SUCCESS"])]
    /\ UNCHANGED <<risk, patched>>

\* The effects of a successful INSERT, committed with the incident status, the
\* timeline and the audit entry; inMemory is the incident status held in memory.
InsertRow(k, r, u, inMemory) ==
    /\ action' = [action EXCEPT ![k] = NewRow(r, u)]
    /\ status' = IF ApprovalRequired(r)
                 THEN [status EXCEPT ![r.incident] = Flush(inMemory, "CONTAINMENT_PENDING", @)]
                 ELSE status
    /\ trail' = [trail EXCEPT ![k] = Append(@,
                    [event |-> "RESPONSE_REQUESTED", actor |-> u, result |-> "SUCCESS"])]
    /\ UNCHANGED <<risk, patched>>

\* Mutant: no unique index on the key.
CreateInsertAnew(w) ==
    LET s == session[w] IN
    /\ At(w, "insert")
    /\ InsertRow(s.key, s.request, s.user, s.status)
    /\ answered' = answered \cup {<<s.key, s.request, "kept">>}
    /\ Return(w)

CreateInsert(w) ==
    LET s == session[w] IN
    /\ At(w, "insert") /\ ~Exists(s.key)
    /\ InsertRow(s.key, s.request, s.user, s.status)
    /\ answered' = answered \cup {<<s.key, s.request, "kept">>}
    /\ Return(w)

\* The unique index refuses the INSERT: the row that won is answered as it is, and its
\* parameters are not compared with the request's.
CreateConflict(w) ==
    LET s == session[w] IN
    /\ At(w, "insert") /\ Exists(s.key)
    /\ answered' = answered \cup {<<s.key, s.request, "lost">>}
    /\ Return(w)
    /\ UNCHANGED rows

-----------------------------------------------------------------------------
(* POST /response-actions/{id}/approval: the row is loaded, the incident is *)
(* loaded through the relationship, and the decision is committed.         *)

\* Mutant: the permission to request suffices.
DecideLoadByAnalyst(w, u, k, d) ==
    /\ May(u, "EXECUTE_RESPONSE")
    /\ AwaitsDecision(k)
    /\ Enter(w, [step |-> "read", user |-> u, key |-> k, decision |-> d])
    /\ UNCHANGED <<rows, answered>>

DecideLoad(w, u, k, d) ==
    /\ May(u, "APPROVE_RESPONSE")
    /\ AwaitsDecision(k)
    /\ Enter(w, [step |-> "read", user |-> u, key |-> k, decision |-> d])
    /\ UNCHANGED <<rows, answered>>

DecideRead(w) ==
    LET s == session[w] IN
    /\ At(w, "read")
    /\ session' = [session EXCEPT ![w] =
                     [step |-> "commit", user |-> s.user, key |-> s.key,
                      decision |-> s.decision, status |-> status[action[s.key].incident]]]
    /\ UNCHANGED <<rows, answered>>

\* The incident status a decided action asks for: only a real result that was executed
\* and verified contains an incident, and a denial or a refused execution leaves it alone.
\* decide_action has no adapter that could report SUCCESS.
StatusAfter(row, inMemory, current) ==
    IF row.execution_status = "SUCCESS" /\ ~DryRun /\ row.execution_result = "verified"
    THEN Flush(inMemory, "CONTAINED", current)
    ELSE IF row.execution_status = "DRY_RUN" THEN Flush(inMemory, "INVESTIGATING", current)
    ELSE current

DecideCommit(w) ==
    LET s == session[w]
        row == DecidedRow(action[s.key], s.user, s.decision)
    IN
    /\ At(w, "commit")
    /\ action' = [action EXCEPT ![s.key] = row]
    /\ status' = [status EXCEPT ![row.incident] = StatusAfter(row, s.status, @)]
    /\ trail' = [trail EXCEPT ![s.key] = Append(@,
                    [event |-> "RESPONSE_DECIDED", actor |-> s.user, result |-> s.decision])]
    /\ Return(w)
    /\ UNCHANGED <<risk, patched, answered>>

-----------------------------------------------------------------------------
(* PATCH /incidents/{id} with a status. *)

PatchLoad(w, u, i, new) ==
    /\ May(u, "MANAGE_INCIDENTS")
    /\ Enter(w, [step |-> "patch", user |-> u, incident |-> i,
                 new_status |-> new, status |-> status[i]])
    /\ UNCHANGED <<rows, answered>>

PatchCommit(w) ==
    LET s == session[w] IN
    /\ At(w, "patch")
    /\ status' = [status EXCEPT ![s.incident] = Flush(s.status, s.new_status, @)]
    /\ patched' = [patched EXCEPT ![s.incident] = @ \cup {s.new_status}]
    /\ Return(w)
    /\ UNCHANGED <<action, risk, trail, answered>>

-----------------------------------------------------------------------------
(* POST /demo/run, from the point where its incident is in memory: two      *)
(* requests and an approval in one session, whose incident object is not    *)
(* read again (expire_on_commit is off) and whose keys no client knows.     *)

DemoRequest(s, type) ==
    [incident |-> s.incident, type |-> type, target |-> DemoTarget, policy |-> NoPolicy]

DemoStart(w, u, d, i) ==
    /\ May(u, "APPROVE_RESPONSE")
    /\ ~Exists(CollectKey[d])
    /\ \A v \in Workers : At(v, "demoCollect") => session[v].run # d
    /\ Enter(w, [step |-> "demoCollect", user |-> u, run |-> d, incident |-> i,
                 status |-> status[i], risk |-> risk[i]])
    /\ UNCHANGED <<rows, answered>>

\* create_action assigns the in-memory incident whatever the database holds.
HeldStatus(s, r) == IF ApprovalRequired(r) THEN "CONTAINMENT_PENDING" ELSE s.status

DemoCollect(w) ==
    LET s == session[w]
        r == DemoRequest(s, "COLLECT_EVIDENCE")
    IN
    /\ At(w, "demoCollect") /\ Accepted(r, s.risk)
    /\ InsertRow(CollectKey[s.run], r, s.user, s.status)
    /\ session' = [session EXCEPT ![w].step = "demoIsolate",
                                  ![w].status = HeldStatus(s, r)]
    /\ UNCHANGED answered

\* Mutant: the run ends with its request.
DemoIsolateOnly(w) ==
    LET s == session[w]
        r == DemoRequest(s, "ISOLATE_ENDPOINT")
    IN
    /\ At(w, "demoIsolate") /\ Accepted(r, s.risk)
    /\ InsertRow(IsolateKey[s.run], r, s.user, s.status)
    /\ Return(w)
    /\ UNCHANGED answered

DemoIsolate(w) ==
    LET s == session[w]
        r == DemoRequest(s, "ISOLATE_ENDPOINT")
    IN
    /\ At(w, "demoIsolate") /\ Accepted(r, s.risk)
    /\ InsertRow(IsolateKey[s.run], r, s.user, s.status)
    /\ session' = [session EXCEPT ![w].step = "demoLoad",
                                  ![w].status = HeldStatus(s, r)]
    /\ UNCHANGED answered

\* The refresh that ends create_action, and decide_action's checks on its result.
DemoLoad(w) ==
    LET s == session[w]
        k == IsolateKey[s.run]
    IN
    /\ At(w, "demoLoad") /\ Undecided(action[k])
    /\ session' = [session EXCEPT ![w] =
                     [step |-> "commit", user |-> s.user, key |-> k,
                      decision |-> "APPROVED", status |-> s.status]]
    /\ UNCHANGED <<rows, answered>>

\* The policy refuses a request, or the isolation needs no decision any more.
DemoRefused(w) ==
    LET s == session[w] IN
    /\ \/ At(w, "demoCollect") /\ ~Accepted(DemoRequest(s, "COLLECT_EVIDENCE"), s.risk)
       \/ At(w, "demoIsolate") /\ ~Accepted(DemoRequest(s, "ISOLATE_ENDPOINT"), s.risk)
       \/ At(w, "demoLoad") /\ ~Undecided(action[IsolateKey[s.run]])
    /\ Return(w)
    /\ UNCHANGED <<rows, answered>>

-----------------------------------------------------------------------------
\* A handler ends early: the process dies, or the database refuses the commit.
\* What its session has not committed is rolled back.
Abort(w) ==
    /\ session[w] # Idle
    /\ Return(w)
    /\ UNCHANGED <<rows, answered>>

\* correlate_alert and recalculate_risk rewrite the level of an incident.
Rescore(i, level) ==
    /\ risk' = [risk EXCEPT ![i] = level]
    /\ UNCHANGED <<action, status, trail, patched, answered, session>>

Continue(w) ==
    \/ CreateInsert(w) \/ CreateConflict(w)
    \/ DecideRead(w) \/ DecideCommit(w)
    \/ PatchCommit(w)
    \/ DemoCollect(w) \/ DemoIsolate(w) \/ DemoLoad(w) \/ DemoRefused(w)

Call(w) ==
    \/ /\ w \in Loops
       /\ \E u \in Users, k \in ApiKeys, r \in Requests :
             CreateReplay(w, u, k, r) \/ CreateLookup(w, u, k, r)
    \/ /\ w \in Loops
       /\ \E u \in Users, k \in Keys, d \in Decisions : DecideLoad(w, u, k, d)
    \/ /\ w \in Threads
       /\ \E u \in Users, i \in Incidents, new \in PatchStatuses : PatchLoad(w, u, i, new)
    \/ /\ w \in Threads
       /\ \E u \in Users, d \in DemoRuns, i \in Incidents : DemoStart(w, u, d, i)

Environment == \E i \in Incidents, level \in RiskLevels : Rescore(i, level)

Next ==
    \/ \E w \in Workers : Call(w) \/ Continue(w) \/ Abort(w)
    \/ Environment

Spec == Init /\ [][Next]_vars

\* Behaviours in which no handler is cut short and each one keeps being scheduled.
FairSpec ==
    /\ Init /\ [][(\E w \in Workers : Call(w) \/ Continue(w)) \/ Environment]_vars
    /\ \A w \in Workers : WF_vars(Continue(w))

-----------------------------------------------------------------------------
(* Properties. *)

\* Every variable holds a value of the kind its column or object has.
TypeOK ==
    /\ action \in [Keys -> Row \cup {NoRow}]
    /\ status \in [Incidents -> IncidentStatus]
    /\ risk \in [Incidents -> RiskLevels]
    /\ trail \in [Keys -> Seq(Entry)]
    /\ patched \in [Incidents -> SUBSET IncidentStatus]
    /\ answered \subseteq Keys \X Request \X {"kept", "lost"}
    /\ session \in [Workers -> Session]

\* An action that needs approval leaves PENDING for execution only when the
\* recorded approver may approve and the audit trail holds that very approval,
\* whatever decisions raced for the row.
ApprovalGate ==
    \A k \in Keys :
        (Exists(k) /\ action[k].approval_required
                  /\ action[k].execution_status \notin {"PENDING", "CANCELLED"}) =>
            /\ action[k].approval_status = "APPROVED"
            /\ action[k].approved_by \in Users
            /\ May(action[k].approved_by, "APPROVE_RESPONSE")
            /\ \E n \in 1 .. Len(trail[k]) :
                 trail[k][n] = [event |-> "RESPONSE_DECIDED", actor |-> action[k].approved_by,
                                result |-> "APPROVED"]

\* Racing decisions never leave a row half of one decision and half of another:
\* an action is CANCELLED exactly when the decision on record is DENIED.
DenialCancels ==
    \A k \in Keys : Exists(k) =>
        (action[k].approval_status = "DENIED" <=> action[k].execution_status = "CANCELLED")

Approved(k) ==
    \E n \in 1 .. Len(trail[k]) :
        trail[k][n].event = "RESPONSE_DECIDED" /\ trail[k][n].result = "APPROVED"

Concerns(k, i) == Exists(k) /\ action[k].incident = i

\* Sessions assign the status of an incident object they read long before, and an
\* assignment that changes nothing in memory writes nothing.  Still every status is one
\* that an analyst has set, or that the actions of the incident explain: NEW only while
\* none needed approval, INVESTIGATING only after an approval, CONTAINED only by a result
\* that was executed and verified (response.py:128, 172-179; routes.py:1089-1110).
StatusExplained ==
    \A i \in Incidents : status[i] \notin patched[i] =>
        \/ /\ status[i] = "NEW"
           /\ \A k \in Keys : Concerns(k, i) => ~action[k].approval_required
        \/ /\ status[i] = "CONTAINMENT_PENDING"
           /\ \E k \in Keys : Concerns(k, i) /\ action[k].approval_required
        \/ status[i] = "INVESTIGATING" /\ \E k \in Keys : Concerns(k, i) /\ Approved(k)
        \/ /\ status[i] = "CONTAINED"
           /\ \E k \in Keys : Concerns(k, i) /\ action[k].execution_status = "SUCCESS"
                              /\ action[k].execution_result = "verified"

\* However many sessions insert one idempotency key, it stands for one action: its trail
\* begins with the request of the row's requester and holds no other, and whoever is
\* answered with the action asked for it, except the one whose INSERT was refused after
\* its lookup had found the key free (response.py:62-71, 108-116).
ReservedOnce ==
    /\ \A k \in Keys :
        IF Exists(k)
        THEN \A n \in 1 .. Len(trail[k]) :
               IF n = 1
               THEN trail[k][n] = [event |-> "RESPONSE_REQUESTED",
                                   actor |-> action[k].requested_by, result |-> "SUCCESS"]
               ELSE trail[k][n].event = "RESPONSE_DECIDED"
        ELSE trail[k] = <<>>
    /\ \A a \in answered :
        Exists(a[1]) /\ (a[3] # "lost" => SameRequest(action[a[1]], a[2]))

\* With one event loop, a client is never told that its request stands when the action of
\* the key is for another incident, type or target.
IdempotentReply ==
    \A a \in answered : Exists(a[1]) /\ SameRequest(action[a[1]], a[2])

\* Once decided or executed, an action is never written again.
DecidedFinal ==
    [][\A k \in Keys : Exists(k) /\ ~Undecided(action[k]) => action'[k] = action[k]]_action

\* The demo run, requester and approver at once, leaves no isolation undecided.
DemoDecides ==
    \A d \in DemoRuns :
        AwaitsDecision(IsolateKey[d]) ~> ~AwaitsDecision(IsolateKey[d])

\* What the service promises of each key, as one atomic ledger.
LedgerEntry(row) ==
    IF row = NoRow THEN [about |-> NoRow, decider |-> "nobody", outcome |-> "ABSENT"]
    ELSE [about |-> <<row.incident, row.type, row.target>>,
          decider |-> row.approved_by, outcome |-> row.execution_status]
LedgerView == [k \in Keys |-> LedgerEntry(action[k])]
Ledger == INSTANCE ResponseLedger WITH Absent <- NoRow, entry <- LedgerView

\* With one event loop and no demo run, request and approval implement the ledger.
ImplementsLedger == Ledger!Spec
=============================================================================
