--------------------------- MODULE MC_WebDetection ---------------------------
(* Small instances of WebDetection.                                          *)
EXTENDS WebDetection, TLC

CONSTANTS t1, t2, l1, l2, r1, r2, r3, r4, src, www, login, page, ann, bob

mcOneLoop == [t \in Tasks |-> l1]
mcTwoLoops == [t \in {t1, t2} |-> IF t = t1 THEN l1 ELSE l2]

mcSlugs == Behaviors \cup {"xss", "graphql_attack"}
mcSeverity == [s \in mcSlugs |-> IF s = "graphql_attack" THEN 4 ELSE IF s = "xss" THEN 3 ELSE 2]
mcConfidence == [s \in mcSlugs |-> IF s = "xss" THEN 72 ELSE 60]

Plain == [source |-> src, host |-> www, time |-> 0, path |-> page, method |-> "GET",
          refused |-> FALSE, user |-> NoUser, session |-> NoSession,
          signatures |-> {}, signals |-> {}]
Failure == [Plain EXCEPT !.path = login, !.method = "POST", !.refused = TRUE, !.user = ann]

\* Three login failures that make a brute force, each with a script in it, and another
\* script that the upstream control reports.
mcSerial ==
    [r \in {r1, r2, r3, r4} |->
        CASE r = r1 -> [Failure EXCEPT !.signatures = {"xss"}]
          [] r = r2 -> [Failure EXCEPT !.time = 200, !.user = bob, !.signatures = {"xss"}]
          [] r = r3 -> [Failure EXCEPT !.time = 300, !.signatures = {"xss"}]
          [] r = r4 -> [Plain EXCEPT !.time = 400, !.signatures = {"xss"}, !.signals = {"xss"}]]

\* Three scripts in one window, the last with another category as well.
mcRacing ==
    (r1 :> [Plain EXCEPT !.signatures = {"xss"}])
    @@ (r2 :> [Plain EXCEPT !.signatures = {"xss"}])
    @@ (r3 :> [Plain EXCEPT !.signatures = {"xss", "graphql_attack"},
                           !.signals = {"graphql_attack"}])

\* The demo delivers the first two of them.
mcReplays == {<<r1, r2>>}
=============================================================================
