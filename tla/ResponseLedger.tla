--------------------------- MODULE ResponseLedger ---------------------------
(***************************************************************************)
(* What the response service promises about idempotency keys: a key is     *)
(* used for one action, which is either executed at once or stays open     *)
(* until one decision closes it; a closed entry never changes.             *)
(***************************************************************************)
CONSTANTS Keys, Users, Incidents, ActionTypes, Targets, Absent

VARIABLE entry

Executed == {"DRY_RUN", "FAILED"}

Fresh == [about |-> Absent, decider |-> "nobody", outcome |-> "ABSENT"]

Init == entry = [k \in Keys |-> Fresh]

Submit(k) ==
    /\ entry[k] = Fresh
    /\ \E about \in Incidents \X ActionTypes \X Targets, out \in {"PENDING"} \cup Executed :
         entry' = [entry EXCEPT ![k] = [about |-> about, decider |-> "nobody", outcome |-> out]]

Close(k) ==
    /\ entry[k].outcome = "PENDING"
    /\ \E u \in Users, out \in {"CANCELLED"} \cup Executed :
         entry' = [entry EXCEPT ![k] = [about |-> entry[k].about, decider |-> u, outcome |-> out]]

Next == \E k \in Keys : Submit(k) \/ Close(k)

Spec == Init /\ [][Next]_entry
=============================================================================
