-------------------------------- MODULE Feed --------------------------------
(***************************************************************************)
(* What the live broker promises a connected client: the notifications,    *)
(* published one after the other, reach it in that order and at most once. *)
(* Some may be left out, and a client that comes back starts with what is  *)
(* published from then on.                                                 *)
(***************************************************************************)
EXTENDS Naturals

CONSTANT Clients

VARIABLES published, \* how many notifications there have been
          seen       \* per client: the number of the last one it got, or had missed when it came

Init == published = 0 /\ seen = [c \in Clients |-> 0]

Publish == published' = published + 1 /\ UNCHANGED seen

\* The client gets a later notification than the last, or passes over some.
Advance(c) ==
    \E n \in (seen[c] + 1)..published :
        seen' = [seen EXCEPT ![c] = n] /\ UNCHANGED published

\* A restart of the process forgets everything, also the count.
Restart == published' = 0 /\ seen' = [c \in Clients |-> 0]

Next == Publish \/ Restart \/ \E c \in Clients : Advance(c)

Spec == Init /\ [][Next]_<<published, seen>>
=============================================================================
