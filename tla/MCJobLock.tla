----------------------------- MODULE MCJobLock -----------------------------
(* Instances of JobLock for TLC: runs of two guarded jobs, one shorter-lived *)
(* than the other.                                                           *)
EXTENDS JobLock

CONSTANTS r1, r2, r3, refresh, digest

MCLockOf == [r \in Runs |-> IF r = r3 /\ digest \in LockNames THEN digest ELSE refresh]

MCTTL == [l \in LockNames |-> IF l = refresh THEN 3 ELSE 2]
=============================================================================
