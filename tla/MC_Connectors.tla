----------------------------- MODULE MC_Connectors -----------------------------
(* A connector of any kind, with two handlers at work on it.                   *)
EXTENDS Connectors, TLC

CONSTANTS wazuh, t1, t2
=============================================================================
