------------------------------ MODULE MCCache ------------------------------
(* Instances of Cache for TLC: two processes, the second with a reader only. *)
EXTENDS Cache

CONSTANTS p1, p2, r1, r2, w1

MCHome == [q \in Readers \union Writers |-> IF q = r2 THEN p2 ELSE p1]
=============================================================================
