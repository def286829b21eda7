--------------------------- MODULE Connectors_proofs ---------------------------
(***************************************************************************)
(* Proofs about Connectors, for every set of connectors and any number of  *)
(* checks and switches at work on them.                                    *)
(***************************************************************************)
EXTENDS Connectors, TLAPS

\* A check writes back the switch that it has loaded, no switch finds a connector healthy,
\* and a row that was there is still there.
TaskFacts(t) ==
    /\ task[t].op = "check" => task[t].enabled = Enabled(task[t].loaded)
    /\ task[t].op = "set" => task[t].status # "HEALTHY"
    /\ task[t].loaded # NoRow => row[task[t].connector] # NoRow

\* Also a connector that is disabled has a healthy row only when it has been found so.
RowProven == \A c \in Remote : row[c] # NoRow /\ row[c].status = "HEALTHY" => c \in proven

ConnectorsInv ==
    /\ TypeOK
    /\ \A t \in Tasks : task[t] # Idle => TaskFacts(t)
    /\ SwitchHolds
    /\ RowProven

-----------------------------------------------------------------------------
(* What the statuses can be. *)

LEMMA StatusFacts ==
    ASSUME NEW c \in Connectors
    PROVE  /\ \A on \in BOOLEAN : SetStatus(c, on) \in Statuses \ {"HEALTHY"}
           /\ \A r : CheckStatus(c, r) \subseteq Statuses
           /\ DefaultStatus(c) = "HEALTHY" => Local(c)
  BY DEF SetStatus, CheckStatus, Probe, Statuses, DefaultStatus

\* An UPDATE of a row leaves a row, of which each part is the old one or the new one.
LEMMA WrittenFacts ==
    ASSUME NEW now \in Row, NEW loaded \in Row, NEW new \in Row
    PROVE  /\ Written(now, loaded, new) \in Row
           /\ Written(now, loaded, new).status = new.status \/
              (Written(now, loaded, new).status = now.status /\ loaded.status = new.status)
           /\ Written(now, loaded, new).configuration =
                IF new.configuration = loaded.configuration THEN now.configuration ELSE new.configuration
  BY DEF Written, Row

-----------------------------------------------------------------------------
(* The invariant. *)

LEMMA ConnectorsInit == Init => ConnectorsInv
<1> SUFFICES ASSUME Init PROVE ConnectorsInv
  OBVIOUS
<1>1. TypeOK
  BY DEF Init, TypeOK
<1>2. (\A t \in Tasks : task[t] = Idle) /\ (\A c \in Connectors : row[c] = NoRow /\ switch[c] = TRUE)
  BY DEF Init
<1>3. SwitchHolds /\ RowProven
  BY <1>2 DEF SwitchHolds, RowProven, Remote, Enabled
<1> QED BY <1>1, <1>2, <1>3 DEF ConnectorsInv

LEMMA CheckKeeps ==
    ASSUME ConnectorsInv, NEW t \in Tasks, NEW c \in Connectors, Check(t, c)
    PROVE  ConnectorsInv'
<1>1. PICK s \in CheckStatus(c, row[c]) :
        task' = [task EXCEPT ![t] = [op |-> "check", connector |-> c, loaded |-> row[c],
                                     status |-> s, enabled |-> Enabled(row[c])]]
  BY DEF Check
<1>2. s \in Statuses /\ Enabled(row[c]) \in BOOLEAN
  BY StatusFacts DEF Enabled, ConnectorsInv, TypeOK, Row
<1>3. TypeOK'
  BY <1>1, <1>2 DEF ConnectorsInv, TypeOK, Work, Check, state
<1>4. \A u \in Tasks : task'[u] # Idle => TaskFacts(u)'
  BY <1>1 DEF ConnectorsInv, TypeOK, TaskFacts, Enabled, Check, state
<1>5. SwitchHolds' /\ RowProven'
  BY DEF ConnectorsInv, SwitchHolds, RowProven, Remote, Check, state
<1> QED BY <1>3, <1>4, <1>5 DEF ConnectorsInv

LEMMA SetKeeps ==
    ASSUME ConnectorsInv, NEW t \in Tasks, NEW c \in Connectors, NEW on \in BOOLEAN, Set(t, c, on)
    PROVE  ConnectorsInv'
<1>1. task' = [task EXCEPT ![t] = [op |-> "set", connector |-> c, loaded |-> row[c],
                                   status |-> SetStatus(c, on), enabled |-> on]]
  BY DEF Set
<1>2. SetStatus(c, on) \in Statuses \ {"HEALTHY"}
  BY StatusFacts
<1>3. TypeOK'
  BY <1>1, <1>2 DEF ConnectorsInv, TypeOK, Work, Set, state
<1>4. \A u \in Tasks : task'[u] # Idle => TaskFacts(u)'
  <2>1. row' = row
    BY DEF Set, state
  <2>2. TaskFacts(t)'
    BY <1>1, <1>2, <2>1 DEF ConnectorsInv, TypeOK, TaskFacts
  <2>3. ASSUME NEW u \in Tasks \ {t}, task'[u] # Idle PROVE TaskFacts(u)'
    <3>1. task'[u] = task[u]
      BY <1>1 DEF ConnectorsInv, TypeOK
    <3> QED BY <2>1, <2>3, <3>1 DEF ConnectorsInv, TaskFacts, Enabled
  <2> QED BY <2>2, <2>3
<1>5. SwitchHolds' /\ RowProven'
  BY DEF ConnectorsInv, SwitchHolds, RowProven, Remote, Set, state
<1> QED BY <1>3, <1>4, <1>5 DEF ConnectorsInv

\* The commit, where both meet.
LEMMA CommitKeeps ==
    ASSUME ConnectorsInv, NEW t \in Tasks, Commit(t)
    PROVE  ConnectorsInv'
<1> DEFINE c == task[t].connector
           old == row[c]
           was == task[t].loaded
           new == [status |-> task[t].status,
                   configuration |-> [configured |-> Configured(c), enabled |-> task[t].enabled]]
<1>1. task[t] # Idle /\ task[t] \in Work /\ TaskFacts(t) /\ ~(was = NoRow /\ old # NoRow)
  BY DEF Commit, Refused, ConnectorsInv, TypeOK
<1>2. /\ c \in Connectors /\ was \in Row \cup {NoRow} /\ old \in Row \cup {NoRow}
      /\ task[t].op \in {"check", "set"} /\ task[t].enabled \in BOOLEAN /\ Configured(c) \in BOOLEAN
  BY <1>1 DEF Work, ConnectorsInv, TypeOK, Configured, Local
<1>3. new \in Row
  BY <1>1, <1>2 DEF Work, Row
<1>4. row' = [row EXCEPT ![c] = IF old = NoRow THEN new ELSE Written(old, was, new)]
  BY DEF Commit
<1>5. /\ kind' = kind /\ settings' = settings /\ yara' = yara
      /\ task' = [task EXCEPT ![t] = Idle]
      /\ switch' = [switch EXCEPT ![c] = IF task[t].op = "set" THEN task[t].enabled ELSE @]
      /\ contested' = IF Contest(t, c) THEN contested \cup {c}
                      ELSE IF task[t].op = "set" THEN contested \ {c} ELSE contested
      /\ proven' = IF task[t].op = "check" /\ task[t].status = "HEALTHY" THEN proven \cup {c}
                   ELSE IF task[t].op = "set" /\ old = was THEN proven \ {c} ELSE proven
  BY DEF Commit
<1>6. old # NoRow => was \in Row /\ old \in Row
  BY <1>1, <1>2
<1>7. row'[c] \in Row /\ row'[c] # NoRow /\ row' \in [Connectors -> Row \cup {NoRow}]
  <2>1. (IF old = NoRow THEN new ELSE Written(old, was, new)) \in Row
    BY <1>3, <1>6, WrittenFacts
  <2> QED BY <1>2, <1>4, <2>1, NoRowAssumption DEF ConnectorsInv, TypeOK
<1>8. TypeOK'
  BY <1>2, <1>5, <1>7 DEF ConnectorsInv, TypeOK
<1>9. \A u \in Tasks : task'[u] # Idle => TaskFacts(u)'
  <2>1. \A d \in Connectors : row[d] # NoRow => row'[d] # NoRow
    BY <1>2, <1>4, <1>7 DEF ConnectorsInv, TypeOK
  <2>2. \A u \in Tasks : task'[u] # Idle => task'[u] = task[u] /\ task[u] \in Work
    BY <1>5 DEF ConnectorsInv, TypeOK
  <2> QED BY <2>1, <2>2 DEF ConnectorsInv, TaskFacts, Enabled, Work
<1>10. SwitchHolds'
  <2>1. ASSUME NEW d \in Connectors \ contested', d # c PROVE Enabled(row'[d]) = switch'[d]
    BY <1>2, <1>4, <1>5, <2>1 DEF ConnectorsInv, TypeOK, SwitchHolds, Enabled
  <2>2. ASSUME c \notin contested' PROVE Enabled(row'[c]) = switch'[c]
    <3>1. ~Contest(t, c)
      BY <1>5, <2>2
    <3>2. CASE task[t].op = "set"
      <4>1. old = was /\ switch'[c] = task[t].enabled
        BY <1>2, <1>5, <3>1, <3>2 DEF Contest, ConnectorsInv, TypeOK
      <4>2. CASE old = NoRow
        BY <1>2, <1>4, <1>7, <4>1, <4>2 DEF ConnectorsInv, TypeOK, Enabled
      <4>3. CASE old # NoRow
        <5>1. row'[c].configuration =
                IF new.configuration = was.configuration THEN old.configuration ELSE new.configuration
          BY <1>2, <1>3, <1>4, <1>6, <4>3, WrittenFacts DEF ConnectorsInv, TypeOK
        <5>2. row'[c].configuration = new.configuration
          BY <4>1, <5>1
        <5> QED BY <1>7, <4>1, <5>2 DEF Enabled
      <4> QED BY <4>2, <4>3
    <3>3. CASE task[t].op = "check"
      <4>1. /\ switch'[c] = switch[c] /\ Enabled(old) = switch[c]
            /\ task[t].enabled = Enabled(was)
            /\ old = was \/ was.configuration.configured = Configured(c)
        BY <1>1, <1>2, <1>5, <2>2, <3>1, <3>3
        DEF Contest, TaskFacts, ConnectorsInv, TypeOK, SwitchHolds
      <4>2. CASE old = NoRow
        <5>1. was = NoRow
          BY <1>1, <4>2 DEF TaskFacts
        <5> QED BY <1>2, <1>4, <1>7, <4>1, <4>2, <5>1 DEF ConnectorsInv, TypeOK, Enabled
      <4>3. CASE old # NoRow
        <5>1. row'[c].configuration =
                IF new.configuration = was.configuration THEN old.configuration ELSE new.configuration
          BY <1>2, <1>3, <1>4, <1>6, <4>3, WrittenFacts DEF ConnectorsInv, TypeOK
        <5>2. was \in Row /\ old \in Row /\ was # NoRow
          BY <1>6, <4>3, NoRowAssumption
        <5>3. Enabled(was) = was.configuration.enabled /\ Enabled(old) = old.configuration.enabled
          BY <4>3, <5>2 DEF Enabled
        <5>4. CASE old = was
          <6>1. /\ Enabled(row'[c]) = row'[c].configuration.enabled
                /\ new.configuration.enabled = task[t].enabled
            BY <1>7 DEF Enabled
          <6>2. CASE new.configuration = was.configuration
            BY <4>1, <5>1, <5>3, <6>1, <6>2
          <6>3. CASE new.configuration # was.configuration
            <7>1. row'[c].configuration.enabled = task[t].enabled
              BY <5>1, <6>1, <6>3
            <7>2. task[t].enabled = Enabled(old)
              BY <4>1, <5>4
            <7> QED BY <4>1, <6>1, <7>1, <7>2
          <6> QED BY <6>2, <6>3
        <5>5. CASE was.configuration.configured = Configured(c)
          <6>1. was.configuration = [configured |-> Configured(c), enabled |-> task[t].enabled]
            BY <4>1, <5>2, <5>3, <5>5 DEF Row
          <6> QED BY <1>7, <4>1, <5>1, <5>3, <6>1 DEF Enabled
        <5> QED BY <4>1, <5>4, <5>5
      <4> QED BY <4>2, <4>3
    <3> QED BY <1>2, <3>2, <3>3
  <2> QED BY <2>1, <2>2 DEF SwitchHolds
<1>11. RowProven'
  <2>1. ASSUME NEW d \in Remote', d # c, row'[d].status = "HEALTHY", row'[d] # NoRow PROVE d \in proven'
    BY <1>2, <1>4, <1>5, <2>1 DEF ConnectorsInv, TypeOK, RowProven, Remote
  <2>2. ASSUME c \in Remote', row'[c].status = "HEALTHY" PROVE c \in proven'
    <3>1. CASE task[t].status = "HEALTHY"
      BY <1>1, <1>2, <1>5, <3>1 DEF TaskFacts
    <3>2. CASE task[t].status # "HEALTHY"
      <4>1. old # NoRow /\ old.status = "HEALTHY" /\ was.status = task[t].status
        BY <1>2, <1>3, <1>4, <1>6, <2>2, <3>2, WrittenFacts DEF ConnectorsInv, TypeOK
      <4>2. c \in proven /\ old # was
        BY <1>5, <2>2, <3>2, <4>1 DEF ConnectorsInv, RowProven, Remote
      <4> QED BY <1>5, <3>2, <4>2
    <3> QED BY <3>1, <3>2
  <2> QED BY <2>1, <2>2 DEF RowProven
<1> QED BY <1>8, <1>9, <1>10, <1>11 DEF ConnectorsInv

LEMMA RestKeeps ==
    ASSUME ConnectorsInv, Restart \/ (\E t \in Tasks : Abort(t)) \/ UNCHANGED vars
    PROVE  ConnectorsInv'
<1>1. /\ kind' = kind /\ row' = row /\ switch' = switch
      /\ contested' = contested /\ proven' = proven
      /\ settings' \in [Connectors -> BOOLEAN] /\ yara' \in BOOLEAN
      /\ task' \in [Tasks -> Work \cup {Idle}]
      /\ \A t \in Tasks : task'[t] # Idle => task'[t] = task[t]
  BY DEF ConnectorsInv, TypeOK, Restart, Abort, state, vars
<1> QED BY <1>1 DEF ConnectorsInv, TypeOK, TaskFacts, SwitchHolds, RowProven, Remote, Enabled

LEMMA ConnectorsStep == ConnectorsInv /\ [Next]_vars => ConnectorsInv'
  BY CheckKeeps, SetKeeps, CommitKeeps, RestKeeps DEF Next

\* The types of the registry.
THEOREM ConnectorsTypes == Spec => []TypeOK
<1>1. ConnectorsInv => TypeOK
  BY DEF ConnectorsInv
<1> QED BY <1>1, ConnectorsInit, ConnectorsStep, PTL DEF Spec

\* No check undoes the administrator's switch, however many run, unless it belongs to a
\* process with other settings; two switches may pass each other by.
THEOREM ConnectorsSwitch == Spec => []SwitchHolds
<1>1. ConnectorsInv => SwitchHolds
  BY DEF ConnectorsInv
<1> QED BY <1>1, ConnectorsInit, ConnectorsStep, PTL DEF Spec

\* A remote connector is shown as healthy only when a check has found it so.
THEOREM ConnectorsHealthy == Spec => []HealthyWasProven
<1>1. ConnectorsInv => HealthyWasProven
  BY StatusFacts DEF ConnectorsInv, RowProven, HealthyWasProven, Shown, Remote, Local
<1> QED BY <1>1, ConnectorsInit, ConnectorsStep, PTL DEF Spec
=============================================================================
