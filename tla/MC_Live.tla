------------------------------ MODULE MC_Live ------------------------------
(* Small instances of Live.                                                *)
EXTENDS Live, TLC

CONSTANTS c1, h1, h2, r1, r2, l1
=============================================================================
