----------------------------- MODULE MC_Casework -----------------------------
(* An address, a provider that knows of it, and two handlers at work.      *)
EXTENDS Casework, TLC

CONSTANTS address, h1, h2

Alike == Permutations(Handlers)
MCType == [i \in Iocs |-> "IP"]
MCReplies == {[kind |-> "score", score |-> 100], [kind |-> "score", score |-> 0],
              [kind |-> "server", score |-> 0]}
=============================================================================
