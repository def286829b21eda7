------------------------------ MODULE Connectors ------------------------------
(***************************************************************************)
(* The connector registry (connectors/registry.py, connectors/base.py):    *)
(* checks that probe an outside service, the administrator's switch, and   *)
(* the list that shows what both have left in the row of a connector.      *)
(*                                                                         *)
(* A check runs on the event loop and awaits its probe; the switch runs on *)
(* a pool thread.  Each of them loads the row in one step and commits in a *)
(* later one, and the commit writes the columns that it has changed in     *)
(* memory, no others.                                                      *)
(***************************************************************************)
EXTENDS Naturals

CONSTANTS
    Connectors,
    Tasks,    \* handlers in progress
    NoRow, Idle

VARIABLES
    kind,      \* per connector, what its health depends on; it never changes
    row,       \* the table connector_states
    settings,  \* per connector: the process has its URL or key
    yara,      \* the executable is installed
    task,      \* per handler: what it has loaded and is about to write
    \* history variables:
    switch,    \* per connector: the last switch that was committed
    contested, \* connectors whose switch was committed over, or under, another's eyes
    proven     \* connectors a check has found healthy since they were last switched

state == <<kind, row, settings, yara>>
vars == <<kind, row, settings, yara, task, switch, contested, proven>>

Statuses == {"DISABLED", "API_KEY_REQUIRED", "NOT_CONFIGURED", "UNAVAILABLE",
             "AUTHENTICATION_ERROR", "DEGRADED", "HEALTHY"}

\* The entries of DEFINITIONS: "local" needs nothing, "yara" an executable, "key" an API key,
\* "url" a service that answers.
Kinds == {"local", "yara", "key", "url"}
Remote == {c \in Connectors : kind[c] \in {"key", "url"}}

\* A row of connector_states: the JSON column configuration holds configured and enabled.
Row == [status : Statuses, configuration : [configured : BOOLEAN, enabled : BOOLEAN]]

ASSUME NoRowAssumption == NoRow \notin Row

Init ==
    /\ kind \in [Connectors -> Kinds]
    /\ row = [c \in Connectors |-> NoRow]
    /\ settings \in [Connectors -> BOOLEAN] /\ yara \in BOOLEAN
    /\ task = [t \in Tasks |-> Idle]
    /\ switch = [c \in Connectors |-> TRUE]
    /\ contested = {} /\ proven = {}

Local(c) == kind[c] \in {"local", "yara"}
Configured(c) == Local(c) \/ settings[c]

\* A connector without a row is enabled.
Enabled(r) == IF r = NoRow THEN TRUE ELSE r.configuration.enabled

-----------------------------------------------------------------------------
(* The list.                                                                *)

DefaultStatus(c) ==
    IF Local(c) THEN "HEALTHY"
    ELSE IF kind[c] = "key" /\ ~Configured(c) THEN "API_KEY_REQUIRED" ELSE "NOT_CONFIGURED"

\* What list_connectors shows of c.
Shown(c) ==
    IF ~Enabled(row[c]) THEN "DISABLED"
    ELSE IF kind[c] = "yara" /\ ~yara THEN "UNAVAILABLE"
    ELSE IF row[c] = NoRow THEN DefaultStatus(c) ELSE row[c].status

-----------------------------------------------------------------------------
(* The check.                                                               *)

\* What a probe may find: the response, or an error (also a URL that is refused or does
\* not resolve).
Probe == {"HEALTHY", "DEGRADED", "AUTHENTICATION_ERROR", "UNAVAILABLE"}

\* The outcomes of a check of c that has loaded r.
CheckStatus(c, r) ==
    IF ~Enabled(r) THEN {"DISABLED"}
    ELSE IF kind[c] = "yara" /\ ~yara THEN {"UNAVAILABLE"}
    ELSE IF Local(c) THEN {"HEALTHY"}
    ELSE IF ~settings[c] THEN {IF kind[c] = "key" THEN "API_KEY_REQUIRED" ELSE "NOT_CONFIGURED"}
    ELSE IF kind[c] = "key" THEN {"DEGRADED"} ELSE Probe

\* A check loads the row and, if it has to, awaits the probe.
Check(t, c) ==
    /\ task[t] = Idle
    /\ \E s \in CheckStatus(c, row[c]) :
        task' = [task EXCEPT ![t] = [op |-> "check", connector |-> c, loaded |-> row[c],
            status |-> s, enabled |-> Enabled(row[c])]]
    /\ UNCHANGED <<state, switch, contested, proven>>

-----------------------------------------------------------------------------
(* The switch.                                                              *)

\* Mutant: a connector that is enabled again keeps its status.
SetStatusKept(c, on) ==
    IF on /\ row[c] # NoRow THEN row[c].status ELSE IF on THEN "NOT_CONFIGURED" ELSE "DISABLED"

\* The status of a connector that has just been switched.
SetStatus(c, on) ==
    IF ~on THEN "DISABLED"
    ELSE IF kind[c] = "key" /\ ~Configured(c) THEN "API_KEY_REQUIRED" ELSE "NOT_CONFIGURED"

Set(t, c, on) ==
    /\ task[t] = Idle
    /\ task' = [task EXCEPT ![t] = [op |-> "set", connector |-> c, loaded |-> row[c],
            status |-> SetStatus(c, on), enabled |-> on]]
    /\ UNCHANGED <<state, switch, contested, proven>>

-----------------------------------------------------------------------------
(* The commit of either.                                                    *)

\* Mutant: a check writes the configuration also when it has not changed it.
WrittenAll(now, loaded, new) == new

\* The row after an UPDATE of the columns in which new differs from what was loaded.
Written(now, loaded, new) ==
    [status |-> IF new.status = loaded.status THEN now.status ELSE new.status,
     configuration |-> IF new.configuration = loaded.configuration
                       THEN now.configuration ELSE new.configuration]

\* Another one inserted the row that this one has not found: the unique name refuses it.
Refused(t) == task[t].loaded = NoRow /\ row[task[t].connector] # NoRow

\* The switches and checks of c whose writing has passed each other by.
Contest(t, c) ==
    /\ row[c] # task[t].loaded
    /\ \/ task[t].op = "set"
       \/ task[t].loaded.configuration.configured # Configured(c)

Commit(t) ==
    LET c == task[t].connector
        new == [status |-> task[t].status,
                configuration |-> [configured |-> Configured(c), enabled |-> task[t].enabled]]
    IN  /\ task[t] # Idle /\ ~Refused(t)
        /\ row' = [row EXCEPT ![c] =
            IF @ = NoRow THEN new ELSE Written(@, task[t].loaded, new)]
        /\ task' = [task EXCEPT ![t] = Idle]
        /\ switch' = [switch EXCEPT ![c] = IF task[t].op = "set" THEN task[t].enabled ELSE @]
        /\ contested' = IF Contest(t, c) THEN contested \cup {c}
                        ELSE IF task[t].op = "set" THEN contested \ {c} ELSE contested
        /\ proven' = IF task[t].op = "check" /\ task[t].status = "HEALTHY" THEN proven \cup {c}
                     ELSE IF task[t].op = "set" /\ row[c] = task[t].loaded THEN proven \ {c}
                     ELSE proven
        /\ UNCHANGED <<kind, settings, yara>>

\* The insert is refused, or the client is gone: the session is rolled back.
Abort(t) ==
    /\ task[t] # Idle
    /\ task' = [task EXCEPT ![t] = Idle]
    /\ UNCHANGED <<state, switch, contested, proven>>

\* The process starts anew, maybe with other settings, on a host with or without YARA.
Restart ==
    /\ settings' \in [Connectors -> BOOLEAN] /\ yara' \in BOOLEAN
    /\ task' = [t \in Tasks |-> Idle]
    /\ UNCHANGED <<kind, row, switch, contested, proven>>

Next ==
    \/ \E t \in Tasks : \/ Commit(t) \/ Abort(t)
                        \/ \E c \in Connectors : Check(t, c) \/ \E on \in BOOLEAN : Set(t, c, on)
    \/ Restart

Spec == Init /\ [][Next]_vars

-----------------------------------------------------------------------------
(* Properties.                                                              *)

Work == [op : {"check", "set"}, connector : Connectors, loaded : Row \cup {NoRow},
         status : Statuses, enabled : BOOLEAN]

TypeOK ==
    /\ kind \in [Connectors -> Kinds]
    /\ row \in [Connectors -> Row \cup {NoRow}]
    /\ settings \in [Connectors -> BOOLEAN] /\ yara \in BOOLEAN
    /\ task \in [Tasks -> Work \cup {Idle}]
    /\ switch \in [Connectors -> BOOLEAN]
    /\ contested \subseteq Connectors /\ proven \subseteq Connectors

\* A connector is as the administrator has switched it last, also when a check that began
\* before ends after: unless two switches passed each other by, or the check belongs to a
\* process with other settings than the row was written with (registry.py:252-258,276-293).
SwitchHolds == \A c \in Connectors \ contested : Enabled(row[c]) = switch[c]

\* A remote connector is listed as healthy only when a check has found it so since it was
\* switched last, by a switch that no check passed by (registry.py:179-189,236,280-290).
HealthyWasProven == \A c \in Remote \cap {d \in Connectors : Shown(d) = "HEALTHY"} : c \in proven
=============================================================================
