---------------------------------- MODULE Cti ----------------------------------
(***************************************************************************)
(* The threat intelligence providers (connectors/cti.py) as functions from *)
(* what a provider sends back to the result that is kept.                  *)
(***************************************************************************)
EXTENDS Naturals

Provider == {"ThreatFox", "URLhaus", "AbuseIPDB", "MalwareBazaar", "VirusTotal"}

Supported(p) ==
    CASE p = "ThreatFox"     -> {"IP", "DOMAIN", "URL", "HASH"}
      [] p = "URLhaus"       -> {"URL"}
      [] p = "AbuseIPDB"     -> {"IP"}
      [] p = "MalwareBazaar" -> {"HASH"}
      [] p = "VirusTotal"    -> {"IP", "DOMAIN", "URL", "HASH"}

\* A reply is of a kind: "unauthorized" (401, 403), "limited" (429), "server" (500 and above),
\* "client" (any other status that is an error), "silent" (a time-out or a network error),
\* "broken" (any other error of the HTTP client), or a body: one that holds a score (in
\* percent; above zero, the indicator is known to be bad), an object around no score
\* ("blank"), an object around something that is no object ("flat"), one without the fields
\* expected ("empty"), JSON that is no object ("list"), or no JSON ("garbled").
Failures == {"unauthorized", "limited", "server", "client", "silent", "broken"}
Bodies == {"score", "blank", "flat", "empty", "list", "garbled"}
Reply == [kind : Failures \cup Bodies, score : 0..100]

Status == {"SUCCESS", "UNSUPPORTED", "NOT_CONFIGURED", "AUTHENTICATION_ERROR", "UNAVAILABLE"}
Verdicts == {"MALICIOUS", "SUSPICIOUS", "CLEAN", "UNKNOWN"}
CTIResult == [status : Status, verdict : Verdicts, confidence : 0..100]

Result(status, verdict, confidence) ==
    [status |-> status, verdict |-> verdict, confidence |-> confidence]
Without(status) == Result(status, "UNKNOWN", 0)

\* A parser error that no handler catches: it ends the whole request.
Raised == Result("RAISED", "UNKNOWN", 0)

\* What _request returns of two attempts.
Request(first, second) == IF first.kind \in {"server", "silent"} THEN second ELSE first

\* What a score says to the provider p.
Scored(p, score) ==
    CASE p = "AbuseIPDB" ->
           Result("SUCCESS", IF score >= 75 THEN "MALICIOUS"
                             ELSE IF score >= 25 THEN "SUSPICIOUS" ELSE "CLEAN", score)
      [] p = "VirusTotal" ->
           Result("SUCCESS", IF score > 0 THEN "MALICIOUS" ELSE "CLEAN", score)
      [] OTHER ->
           IF score = 0 THEN Without("SUCCESS")
           ELSE Result("SUCCESS", "MALICIOUS", IF p = "MalwareBazaar" THEN 95 ELSE 90)

\* A body that holds no score.
Odd(p, body) ==
    IF body = "garbled" THEN Without("UNAVAILABLE")
    ELSE IF p \in {"AbuseIPDB", "VirusTotal"}
         THEN IF body = "blank" THEN Scored(p, 0)
              ELSE IF body = "flat" THEN Raised ELSE Without("UNAVAILABLE")
    ELSE IF body = "list" /\ p # "ThreatFox" THEN Raised ELSE Without("SUCCESS")

\* Mutant: a failure of a provider counts as a hit.
ParseHopeful(p, reply) ==
    IF reply.kind = "score" THEN Scored(p, reply.score) ELSE Result("SUCCESS", "MALICIOUS", 90)

\* What the adapter p makes of a reply to its request.
Parse(p, reply) ==
    IF reply.kind = "unauthorized" THEN Without("AUTHENTICATION_ERROR")
    ELSE IF reply.kind \in Failures THEN Without("UNAVAILABLE")
    ELSE IF reply.kind = "score" THEN Scored(p, reply.score) ELSE Odd(p, reply.kind)

\* The result of the provider p for an indicator of that type.
Enrich(p, type, key, first, second) ==
    IF type \notin Supported(p) THEN Without("UNSUPPORTED")
    ELSE IF ~key THEN Without("NOT_CONFIGURED")
    ELSE Parse(p, Request(first, second))
=============================================================================
