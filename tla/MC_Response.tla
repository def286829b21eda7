---------------------------- MODULE MC_Response ----------------------------
(* Small instances of Response: a seeded policy, one incident.      *)
EXTENDS Response, TLC

CONSTANTS admin1, admin2, analyst, i1, host, pid, k1, k2, safe, off

mcUsers == {admin1, admin2, analyst}
mcTwoUsers == {admin1, analyst}
mcRole == [u \in mcUsers |-> IF u = analyst THEN "ANALYST" ELSE "ADMIN"]
mcTwoRoles == [u \in mcTwoUsers |-> mcRole[u]]

\* One preapproved type, one that needs approval, one the policy does not allow.
mcTypes == {"COLLECT_EVIDENCE", "ISOLATE_ENDPOINT", "TERMINATE_PROCESS"}
mcPolicies ==
    (safe :> [enabled |-> TRUE, allowed |-> {"COLLECT_EVIDENCE", "ISOLATE_ENDPOINT"},
              preapproved |-> {"COLLECT_EVIDENCE"},
              require_approval |-> {"COLLECT_EVIDENCE", "ISOLATE_ENDPOINT"},
              min_risk_level |-> 2])
    @@
    (off :> [enabled |-> FALSE, allowed |-> mcTypes, preapproved |-> mcTypes,
             require_approval |-> {}, min_risk_level |-> 1])
mcTargets(incidents) == incidents \X mcTypes \X {host}

Ask(i, type, target, policy) ==
    [incident |-> i, type |-> type, target |-> target, policy |-> policy]

\* The requests clients send: valid ones that differ in one parameter each, and
\* one each that target, policy, type and incident checks refuse.
mcRequests ==
    {Ask(i1, "ISOLATE_ENDPOINT", host, NoPolicy), Ask(i1, "COLLECT_EVIDENCE", host, safe),
     Ask(i1, "ISOLATE_ENDPOINT", pid, NoPolicy), Ask(i1, "COLLECT_EVIDENCE", host, off),
     Ask(i1, "TERMINATE_PROCESS", host, safe)}
mcRequests2 == {Ask(i1, "ISOLATE_ENDPOINT", host, NoPolicy), Ask(i1, "COLLECT_EVIDENCE", host, safe)}

mcValid1 == mcTargets({i1})

mcNoDemo == [d \in {} |-> k1]
mcDemoRuns == {"demo"}
mcCollect == [d \in mcDemoRuns |-> <<d, "collect">>]
mcIsolate == [d \in mcDemoRuns |-> <<d, "isolate">>]
mcDemoKeys == {<<"demo", "collect">>, <<"demo", "isolate">>}
mcKeysDemo == {k1} \cup mcDemoKeys
=============================================================================
