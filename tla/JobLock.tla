------------------------------ MODULE JobLock ------------------------------
(***************************************************************************)
(* The job_locks table and the code that acquires, releases, force-releases*)
(* and cleans up its rows: app.services.job_locks of the api and its       *)
(* mirror worker.job_locks, two programs over one table.                   *)
(*                                                                         *)
(* A run is one execution of a guarded job; it owns a fresh owner_id, so   *)
(* the run itself stands for its owner_id.  Each statement that commits is *)
(* one step; a statement and what the code computes from its result before *)
(* the next statement are one step.  A row is never deleted.               *)
(*                                                                         *)
(* Time is relative: "left" is expires_at minus the present moment and     *)
(* "age" is the present moment minus the "now" a call read when it began,  *)
(* so that expires_at <= now reads left + age <= 0.  A call that has read  *)
(* its "now" finishes within Lag ticks; left need not count below -Lag.    *)
(***************************************************************************)
EXTENDS Integers, FiniteSets

CONSTANTS Runs, LockNames,
          LockOf,     \* the lock name each run asks for
          TTL,        \* LOCK_TTL_SECONDS, in ticks, per lock name
          Lag,        \* longest time one acquire_lock call takes, in ticks
          Admins,     \* concurrent force-release requests
          Cleaners,   \* concurrent cleanup-expired requests
          Nobody

ASSUME JobLockAssumption ==
  /\ LockOf \in [Runs -> LockNames]
  /\ TTL \in [LockNames -> Nat \ {0}]
  /\ Lag \in Nat
  /\ \A l \in LockNames : TTL[l] > Lag
  /\ Nobody \notin Runs

VARIABLES
  row,       \* the table: one row per lock name, "absent" before its INSERT
  pc,        \* where each run is in with_job_lock
  age,       \* how old the "now" of a pending acquire_lock is
  lease,     \* time left of the lease a working run was granted
  forcing,   \* the row an admin's force_release_lock has selected, or Nobody
  stale,     \* the rows force_release_expired_locks has selected
  revoked    \* history: runs whose lock an admin or a cleaner took away

vars == <<row, pc, age, lease, forcing, stale, revoked>>

-----------------------------------------------------------------------------
Statuses == {"absent", "active", "released", "expired"}

Pending == {"swap", "select", "insert"}

PCs == Pending \union {"idle", "working", "refused", "done", "gone"}

Rows == [status : Statuses, owner : Runs \union {Nobody}, left : Int]

TypeOK ==
  /\ row \in [LockNames -> Rows]
  /\ \A l \in LockNames : row[l].left \in (-Lag)..TTL[l]
  /\ pc \in [Runs -> PCs]
  /\ age \in [Runs -> 0..Lag]
  /\ lease \in [Runs -> Nat]
  /\ \A r \in Runs : lease[r] <= TTL[LockOf[r]]
  /\ forcing \in [Admins -> LockNames \union {Nobody}]
  /\ stale \in [Cleaners -> SUBSET LockNames]
  /\ revoked \in SUBSET Runs

Init ==
  /\ row = [l \in LockNames |-> [status |-> "absent", owner |-> Nobody, left |-> 0]]
  /\ pc = [r \in Runs |-> "idle"]
  /\ age = [r \in Runs |-> 0]
  /\ lease = [r \in Runs |-> 0]
  /\ forcing = [a \in Admins |-> Nobody]
  /\ stale = [c \in Cleaners |-> {}]
  /\ revoked = {}

-----------------------------------------------------------------------------
(***************************************************************************)
(* acquire_lock                                                            *)
(***************************************************************************)

\* A call reads its "now" first.  A refused job is simply run again later
\* (the schedule's next firing, the next click).
AcquireStart(r) ==
  /\ pc[r] \in {"idle", "refused"}
  /\ pc' = [pc EXCEPT ![r] = "swap"]
  /\ age' = [age EXCEPT ![r] = 0]
  /\ UNCHANGED <<row, lease, forcing, stale, revoked>>

\* Mutant: a lapsed lease is not taken over.
Free_NoExpiry(l, r) == row[l].status \notin {"absent", "active"}

\* Mutant: any existing row is taken over.
Free_AnyRow(l, r) == row[l].status # "absent"

Free(l, r) ==
  /\ row[l].status # "absent"
  /\ \/ row[l].status # "active"
     \/ row[l].left + age[r] <= 0

Granted(l, r) ==
  /\ row' = [row EXCEPT ![l] =
               [status |-> "active", owner |-> r, left |-> TTL[l] - age[r]]]
  /\ lease' = [lease EXCEPT ![r] = TTL[l] - age[r]]
  /\ pc' = [pc EXCEPT ![r] = "working"]
  /\ age' = [age EXCEPT ![r] = 0]
  /\ UNCHANGED <<forcing, stale, revoked>>

Refuse(r) ==
  /\ pc' = [pc EXCEPT ![r] = "refused"]
  /\ age' = [age EXCEPT ![r] = 0]
  /\ UNCHANGED <<row, lease, forcing, stale, revoked>>

Goto(r, step) ==
  /\ pc' = [pc EXCEPT ![r] = step]
  /\ UNCHANGED <<row, age, lease, forcing, stale, revoked>>

\* UPDATE ... WHERE status != 'active' OR expires_at <= now, and its commit.
AcquireSwap(r) ==
  /\ pc[r] = "swap"
  /\ \/ Free(LockOf[r], r) /\ Granted(LockOf[r], r)
     \/ ~Free(LockOf[r], r) /\ Goto(r, "select")

\* No row matched: held by another run, or never inserted.
AcquireSelect(r) ==
  /\ pc[r] = "select"
  /\ \/ row[LockOf[r]].status # "absent" /\ Refuse(r)
     \/ row[LockOf[r]].status = "absent" /\ Goto(r, "insert")

\* INSERT, arbitrated by the unique index on lock_name.
AcquireInsert(r) ==
  /\ pc[r] = "insert"
  /\ \/ row[LockOf[r]].status = "absent" /\ Granted(LockOf[r], r)
     \/ row[LockOf[r]].status # "absent" /\ Refuse(r)

(***************************************************************************)
(* The end of with_job_lock                                                *)
(***************************************************************************)

\* Mutant: a release that does not compare owners.
Release_AnyOwner(r) ==
  /\ pc[r] = "working"
  /\ pc' = [pc EXCEPT ![r] = "done"]
  /\ lease' = [lease EXCEPT ![r] = 0]
  /\ row' = [row EXCEPT ![LockOf[r]].status = IF @ = "active" THEN "released" ELSE @]
  /\ UNCHANGED <<age, forcing, stale, revoked>>

\* release_lock: only the active row of this very owner is released.
Release(r) ==
  /\ pc[r] = "working"
  /\ pc' = [pc EXCEPT ![r] = "done"]
  /\ lease' = [lease EXCEPT ![r] = 0]
  /\ row' = [row EXCEPT ![LockOf[r]].status =
               IF row[LockOf[r]].owner = r /\ @ = "active" THEN "released" ELSE @]
  /\ UNCHANGED <<age, forcing, stale, revoked>>

\* The process dies, or the worker's release statement fails because the
\* session it shares with the job is in an aborted transaction: the run is
\* over and its row stays as it is.
LeaveHeld(r) ==
  /\ pc[r] \in Pending \union {"working"}
  /\ pc' = [pc EXCEPT ![r] = "gone"]
  /\ age' = [age EXCEPT ![r] = 0]
  /\ lease' = [lease EXCEPT ![r] = 0]
  /\ UNCHANGED <<row, forcing, stale, revoked>>

-----------------------------------------------------------------------------
(***************************************************************************)
(* Administration                                                          *)
(***************************************************************************)
\* The working runs that lose the rows of L.
Dispossessed(L) ==
  {r \in Runs : /\ pc[r] = "working" /\ LockOf[r] \in L
                /\ row[LockOf[r]].owner = r /\ row[LockOf[r]].status = "active"}

\* force_release_lock reads the active row of a lock ...
ForceSelect(a, l) ==
  /\ forcing[a] = Nobody
  /\ row[l].status = "active"
  /\ forcing' = [forcing EXCEPT ![a] = l]
  /\ UNCHANGED <<row, pc, age, lease, stale, revoked>>

\* ... and releases whatever lease that row carries by then.
ForceUpdate(a) ==
  /\ forcing[a] # Nobody
  /\ row' = [row EXCEPT ![forcing[a]].status = IF @ = "active" THEN "released" ELSE @]
  /\ revoked' = revoked \union Dispossessed({forcing[a]})
  /\ forcing' = [forcing EXCEPT ![a] = Nobody]
  /\ UNCHANGED <<pc, age, lease, stale>>

\* force_release_expired_locks loads the active rows past their expires_at ...
CleanupSelect(c) ==
  /\ stale[c] = {}
  /\ stale' = [stale EXCEPT ![c] =
                 {l \in LockNames : row[l].status = "active" /\ row[l].left <= 0}]
  /\ UNCHANGED <<row, pc, age, lease, forcing, revoked>>

\* ... and its flush updates them by primary key, whatever they are by then.
CleanupMark(c) ==
  /\ stale[c] # {}
  /\ row' = [l \in LockNames |->
               IF l \in stale[c] THEN [row[l] EXCEPT !.status = "expired"] ELSE row[l]]
  /\ revoked' = revoked \union Dispossessed(stale[c])
  /\ stale' = [stale EXCEPT ![c] = {}]
  /\ UNCHANGED <<pc, age, lease, forcing>>

-----------------------------------------------------------------------------
CountDown(n, floor) == IF n > floor THEN n - 1 ELSE n

Tick ==
  /\ \A r \in Runs : pc[r] \in Pending => age[r] < Lag
  /\ row' = [l \in LockNames |-> [row[l] EXCEPT !.left = CountDown(@, -Lag)]]
  /\ lease' = [r \in Runs |-> CountDown(lease[r], 0)]
  /\ age' = [r \in Runs |-> IF pc[r] \in Pending THEN age[r] + 1 ELSE age[r]]
  /\ UNCHANGED <<pc, forcing, stale, revoked>>

Acquire(r) ==
  AcquireStart(r) \/ AcquireSwap(r) \/ AcquireSelect(r) \/ AcquireInsert(r)

Next ==
  \/ \E r \in Runs : Acquire(r) \/ Release(r) \/ LeaveHeld(r)
  \/ \E a \in Admins : ForceUpdate(a) \/ \E l \in LockNames : ForceSelect(a, l)
  \/ \E c \in Cleaners : CleanupSelect(c) \/ CleanupMark(c)
  \/ Tick

Spec == Init /\ [][Next]_vars

\* Time passes and a call, once made, gets on with its statements; a job that
\* was refused is run again.  Nothing says that a job ever ends.
FairSpec == Spec /\ WF_vars(Tick) /\ \A r \in Runs : WF_vars(Acquire(r))
-----------------------------------------------------------------------------
(***************************************************************************)
(* Properties                                                              *)
(***************************************************************************)

\* r works under a lease that has neither lapsed nor been taken away.
Entitled(r) == pc[r] = "working" /\ lease[r] > 0 /\ r \notin revoked

\* An entitled run is the one its row names, for as long as it believes.
LeaseInv ==
  \A r \in Runs :
    Entitled(r) => row[LockOf[r]] = [status |-> "active", owner |-> r, left |-> lease[r]]

\* Mutual exclusion as the table can give it: two runs of one guarded job
\* overlap only if one of them outlived its TTL or lost its row to an admin
\* or a cleaner (acquire_lock's compare-and-swap and unique index).
NoTwoEntitled ==
  \A r, s \in Runs : r # s /\ LockOf[r] = LockOf[s] => ~(Entitled(r) /\ Entitled(s))

\* The lock as its users see it: its unlapsed active row is its grant.
Holder ==
  [l \in LockNames |-> IF row[l].status = "active" /\ row[l].left > 0
                       THEN row[l].owner ELSE Nobody]

Working == {r \in Runs : pc[r] = "working"}

Lease == INSTANCE ExclusiveLease WITH holder <- Holder, working <- Working

\* Every step of the table is a step of the abstract lock: no run starts
\* without a grant of a free lock, none displaces a holder, and a run that
\* outlived its lease never releases its successor's.
ImplementsLease == Lease!Spec

\* A run that keeps asking gets the lock in the end, even if every holder
\* crashes or never ends: a row left active blocks for its TTL at most.
EveryAskerWorks ==
  \A r \in Runs : (pc[r] \in {"swap", "refused"}) ~> (pc[r] \in {"working", "done", "gone"})
=============================================================================
