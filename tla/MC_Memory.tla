----------------------------- MODULE MC_Memory -----------------------------
(* Small instances of Memory.                                              *)
EXTENDS Memory, TLC

CONSTANTS w1, w2, i1, i2, bad, yes, fix, powershell

Request(op, i) == [op |-> op, incident |-> i, review |-> Plain, note |-> Nothing]

\* Two analysts write about i1, whose closure retains it; the agent works on i2, related to it.
Learn == [Request("learn", i1) EXCEPT !.note = yes]
mcCalls ==
    (w1 :> {[Request("retain", i1) EXCEPT !.review = bad], Learn})
    @@ (w2 :> {Learn, [Request("update", i1) EXCEPT !.note = fix], Request("hook", i1),
               Request("recommend", i2), Request("bypass", i2)})
mcMaxFacts == (i1 :> 1) @@ (i2 :> 0)
mcTechniques == [i \in {i1, i2} |-> {powershell}]
mcWords == [i \in {i1, i2} |-> {}]
=============================================================================
