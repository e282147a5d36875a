--------------------------- MODULE ExclusiveLease ---------------------------
(***************************************************************************)
(* What a job lock promises to the jobs that take it, with no table, clock *)
(* or statement in sight.  A lock has at most one holder, work begins only *)
(* by a grant of a lock that nobody holds, and a run gives up no lock but  *)
(* its own.  A holder may also lose its lock without ending: its lease     *)
(* lapses or is revoked, and the work it does from then on is unguarded.   *)
(* JobLock is shown to implement this specification.                       *)
(***************************************************************************)
CONSTANTS Runs,       \* one execution of a guarded job
          LockNames,
          LockOf,     \* the lock each run needs
          Nobody

VARIABLES holder,     \* the run each lock is granted to
          working     \* the runs doing their guarded work

vars == <<holder, working>>

Init == /\ holder = [l \in LockNames |-> Nobody]
        /\ working = {}

Grant(r) ==
  /\ holder[LockOf[r]] = Nobody
  /\ r \notin working
  /\ holder' = [holder EXCEPT ![LockOf[r]] = r]
  /\ working' = working \union {r}

Finish(r) ==
  /\ r \in working
  /\ working' = working \ {r}
  /\ holder' = [holder EXCEPT ![LockOf[r]] = IF @ = r THEN Nobody ELSE @]

\* The run is gone, the lock it held stays held.
Die(r) ==
  /\ r \in working
  /\ working' = working \ {r}
  /\ UNCHANGED holder

\* Several leases may end at once: time passes for all of them.
Lose(L) ==
  /\ holder' = [l \in LockNames |-> IF l \in L THEN Nobody ELSE holder[l]]
  /\ UNCHANGED working

Next ==
  \/ \E r \in Runs : Grant(r) \/ Finish(r) \/ Die(r)
  \/ \E L \in SUBSET LockNames : Lose(L)

Spec == Init /\ [][Next]_vars
=============================================================================
