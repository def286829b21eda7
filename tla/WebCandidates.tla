---------------------------- MODULE WebCandidates ----------------------------
(* What one web request looks like, judged from the request itself and from   *)
(* the requests stored before it: detect_candidates.                          *)
EXTENDS Naturals, FiniteSets

CONSTANTS
    Requests,    \* request ids that clients deliver, again and again
    Payload,     \* per request, what the detection reads of it
    Slugs,       \* the attack categories of the catalogue
    AuthPaths,   \* the paths that AUTH_PATH_PATTERN finds
    StateChanging,
    NoUser, NoSession,
    BRUTE_FORCE, SPRAYING, STUFFING, HIJACKING, RATE_BYPASS, RACE   \* thresholds

Behaviors == {"brute_force", "password_spraying", "credential_stuffing",
              "session_hijacking", "api_rate_limit_bypass", "race_condition"}

ASSUME CandidatesAssumption ==
    /\ IsFiniteSet(Requests) /\ IsFiniteSet(Slugs) /\ Behaviors \subseteq Slugs
    /\ \A r \in Requests :
        /\ Payload[r].time \in Nat /\ Payload[r].refused \in BOOLEAN
        /\ Payload[r].signatures \subseteq Slugs /\ Payload[r].signals \subseteq Slugs
    /\ {BRUTE_FORCE, SPRAYING, STUFFING, HIJACKING, RATE_BYPASS, RACE} \subseteq Nat \ {0}

\* Mutant: the window ends at the request's own time.
RecentUntil(r, stored, seconds) ==
    {q \in stored : /\ Payload[q].time + seconds >= Payload[r].time
                    /\ Payload[q].time <= Payload[r].time}

\* The window has a beginning and no end: a request that arrives late also sees
\* the ones that carry a later time.
Recent(r, stored, seconds) ==
    {q \in stored : Payload[q].time + seconds >= Payload[r].time}

Same(r, q, fields) == \A f \in fields : Payload[q][f] = Payload[r][f]

\* 401, 403 or 429 from a login path.
AuthFailure(r) == Payload[r].refused /\ Payload[r].path \in AuthPaths

Failures(r, stored) ==
    {q \in Recent(r, stored, 300) : Same(r, q, {"source"}) /\ AuthFailure(q)}

BruteForce(r, stored) ==
    AuthFailure(r) /\ Cardinality(Failures(r, stored)) + 1 >= BRUTE_FORCE

Spraying(r, stored) ==
    /\ BruteForce(r, stored)
    /\ Cardinality({Payload[q].user : q \in Failures(r, stored) \cup {r}} \ {NoUser}) >= SPRAYING

Stuffing(r, stored) ==
    /\ AuthFailure(r) /\ Payload[r].user # NoUser
    /\ Cardinality({Payload[r].source} \cup
         {Payload[q].source : q \in {p \in Recent(r, stored, 300) : Same(r, p, {"user", "refused"})}})
       >= STUFFING

Hijacking(r, stored) ==
    /\ Payload[r].session # NoSession
    /\ Cardinality({Payload[r].source} \cup
         {Payload[q].source : q \in {p \in Recent(r, stored, 300) : Same(r, p, {"session"})}})
       >= HIJACKING

RateBypass(r, stored) ==
    Cardinality({q \in Recent(r, stored, 60) : Same(r, q, {"source", "path"})}) + 1 >= RATE_BYPASS

RaceCondition(r, stored) ==
    /\ Payload[r].method \in StateChanging
    /\ Cardinality({q \in Recent(r, stored, 2) : Same(r, q, {"source", "path", "method"})}) + 1 >= RACE

Behavioral(r, stored) ==
    {s \in Behaviors :
        \/ s = "brute_force" /\ BruteForce(r, stored)
        \/ s = "password_spraying" /\ Spraying(r, stored)
        \/ s = "credential_stuffing" /\ Stuffing(r, stored)
        \/ s = "session_hijacking" /\ Hijacking(r, stored)
        \/ s = "api_rate_limit_bypass" /\ RateBypass(r, stored)
        \/ s = "race_condition" /\ RaceCondition(r, stored)}

\* A signature and a resolved upstream signal name their category directly.
Candidates(r, stored) ==
    Payload[r].signatures \cup Payload[r].signals \cup Behavioral(r, stored)
=============================================================================
