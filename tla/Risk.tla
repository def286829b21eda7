-------------------------------- MODULE Risk --------------------------------
(* The arithmetic of incident risk, shared by event correlation and web      *)
(* detection.  Scores are in hundredths of a point; the code rounds to       *)
(* tenths, which moves no score of whole percents across a threshold.        *)
EXTENDS Naturals, FiniteSets

SEVERITY_SCORE == <<5, 20, 40, 70, 90>>
AtMost(cap, n) == IF n <= cap THEN n ELSE cap

\* The risk of an incident with that many alerts, the most severe of them of that
\* severity and the surest of that confidence, and that many malicious indicators.
RiskScore(severity, confidence, alerts, malicious) ==
    IF alerts = 0 THEN 0
    ELSE AtMost(10000,
           SEVERITY_SCORE[severity + 1] * 55 + confidence * 25
           + AtMost(1000, (alerts - 1) * 300) + AtMost(2000, malicious * 1000))

Level(score) == IF score >= 8000 THEN 4 ELSE IF score >= 6000 THEN 3
                ELSE IF score >= 3500 THEN 2 ELSE 1

\* Assigning an attribute the value it already has in memory writes nothing.
Flush(inMemory, new, current) == IF new = inMemory THEN current ELSE new

\* Score, level and reasons are assigned together but written column by column.
Assess(row, held, score) ==
    [row EXCEPT !.score = Flush(held.score, score, @),
                !.level = Flush(held.level, Level(score), @)]
=============================================================================
