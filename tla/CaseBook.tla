------------------------------- MODULE CaseBook -------------------------------
(***************************************************************************)
(* What correlation promises: an alert joins the incident of its key, once *)
(* and together with all indicators of its event.  It never leaves it, and *)
(* what was found out about an indicator is never taken back, until all    *)
(* incidents are cleared away.                                             *)
(***************************************************************************)
CONSTANTS
    Keys, Alerts, Values,
    KeyOf,    \* per alert, the key of its incident
    IocsOf    \* per alert, the indicators of its event

VARIABLE book   \* per key: the alerts, the indicators and the malicious ones among these

Empty == [k \in Keys |-> [alerts |-> {}, known |-> {}, bad |-> {}]]

Init == book = Empty

Join(a) ==
    LET k == KeyOf[a] IN
    /\ a \notin book[k].alerts
    /\ book' = [book EXCEPT ![k] = [alerts |-> book[k].alerts \cup {a},
                                    known |-> book[k].known \cup IocsOf[a],
                                    bad |-> book[k].bad]]

Accuse(k, v) ==
    /\ v \in book[k].known
    /\ book' = [book EXCEPT ![k] = [alerts |-> book[k].alerts, known |-> book[k].known,
                                    bad |-> book[k].bad \cup {v}]]

Clear == book' = Empty

Next ==
    \/ \E a \in Alerts : Join(a)
    \/ \E k \in Keys, v \in Values : Accuse(k, v)
    \/ Clear

Spec == Init /\ [][Next]_book
=============================================================================
