---------------------------- MODULE JobLockProofs ----------------------------
(***************************************************************************)
(* Theorems about JobLock, for any number of runs, lock names, admins and  *)
(* cleaners, any TTLs and any statement latency below every TTL.           *)
(***************************************************************************)
EXTENDS JobLock, TLAPS

\* What a step does to the lease clock of a row: it never goes below the
\* floor and never up.
LEMMA CountDownBounds ==
  ASSUME NEW n \in Int, NEW floor \in Int, n >= floor
  PROVE  /\ CountDown(n, floor) \in Int
         /\ CountDown(n, floor) >= floor
         /\ CountDown(n, floor) <= n
  BY DEF CountDown

\* Every reachable state of the table and of the calls is well typed; in
\* particular no row ever carries a lease longer than its lock's TTL.
THEOREM TypeCorrect == Spec => []TypeOK
<1> USE JobLockAssumption
<1>1. Init => TypeOK
  BY DEF Init, TypeOK, Rows, Statuses, PCs, Pending
<1>2. TypeOK /\ [Next]_vars => TypeOK'
  <2> SUFFICES ASSUME TypeOK, [Next]_vars PROVE TypeOK'
    OBVIOUS
  <2> USE DEF TypeOK, PCs, Pending
  <2>1. ASSUME NEW r \in Runs, AcquireStart(r) PROVE TypeOK'
    BY <2>1 DEF AcquireStart
  <2>2. ASSUME NEW r \in Runs, NEW l \in LockNames, l = LockOf[r], Granted(l, r)
        PROVE TypeOK'
    <3>1. TTL[l] - age[r] \in (-Lag)..TTL[l] /\ TTL[l] - age[r] \in Nat
      OBVIOUS
    <3>2. row' \in [LockNames -> Rows]
      BY <2>2, <3>1 DEF Granted, Rows, Statuses
    <3>3. \A m \in LockNames : row'[m].left \in (-Lag)..TTL[m]
      BY <2>2, <3>1 DEF Granted
    <3>4. lease' \in [Runs -> Nat] /\ \A s \in Runs : lease'[s] <= TTL[LockOf[s]]
      BY <2>2, <3>1 DEF Granted
    <3>5. pc' \in [Runs -> PCs] /\ age' \in [Runs -> 0..Lag]
      BY <2>2 DEF Granted
    <3>6. QED
      BY <2>2, <3>2, <3>3, <3>4, <3>5 DEF Granted
  <2>3. ASSUME NEW r \in Runs, Refuse(r) PROVE TypeOK'
    BY <2>3 DEF Refuse
  <2>4. ASSUME NEW r \in Runs, NEW step \in Pending, Goto(r, step) PROVE TypeOK'
    BY <2>4 DEF Goto
  <2>5. ASSUME NEW r \in Runs, AcquireSwap(r) \/ AcquireSelect(r) \/ AcquireInsert(r)
        PROVE TypeOK'
    BY <2>2, <2>3, <2>4, <2>5 DEF AcquireSwap, AcquireSelect, AcquireInsert
  <2>6. ASSUME NEW r \in Runs, Release(r) PROVE TypeOK'
    BY <2>6 DEF Release, Rows, Statuses
  <2>7. ASSUME NEW r \in Runs, LeaveHeld(r) PROVE TypeOK'
    BY <2>7 DEF LeaveHeld
  <2>8. ASSUME NEW a \in Admins, NEW l \in LockNames, ForceSelect(a, l) PROVE TypeOK'
    BY <2>8 DEF ForceSelect
  <2>9. ASSUME NEW a \in Admins, ForceUpdate(a) PROVE TypeOK'
    <3>1. forcing[a] \in LockNames
      BY <2>9 DEF ForceUpdate
    <3>2. /\ row' \in [LockNames -> Rows]
          /\ \A l \in LockNames : row'[l].left = row[l].left
      BY <2>9, <3>1 DEF ForceUpdate, Rows, Statuses
    <3>3. QED
      BY <2>9, <3>2 DEF ForceUpdate, Dispossessed
  <2>10. ASSUME NEW c \in Cleaners, CleanupSelect(c) PROVE TypeOK'
    BY <2>10 DEF CleanupSelect
  <2>11. ASSUME NEW c \in Cleaners, CleanupMark(c) PROVE TypeOK'
    <3>1. ASSUME NEW l \in LockNames
          PROVE  row'[l] \in Rows /\ row'[l].left = row[l].left
      <4>1. [row[l] EXCEPT !.status = "expired"] \in Rows
        BY DEF Rows, Statuses
      <4>2. row'[l] = IF l \in stale[c] THEN [row[l] EXCEPT !.status = "expired"] ELSE row[l]
        BY <2>11 DEF CleanupMark
      <4>3. QED
        BY <4>1, <4>2 DEF Rows
    <3>2. row' \in [LockNames -> Rows]
      BY <2>11, <3>1 DEF CleanupMark
    <3>3. QED
      BY <2>11, <3>1, <3>2 DEF CleanupMark, Dispossessed
  <2>12. ASSUME Tick PROVE TypeOK'
    <3>1. \A l \in LockNames :
            /\ CountDown(row[l].left, -Lag) \in Int
            /\ CountDown(row[l].left, -Lag) \in (-Lag)..TTL[l]
      BY CountDownBounds DEF Rows
    <3>2. \A r \in Runs :
            /\ CountDown(lease[r], 0) \in Nat
            /\ CountDown(lease[r], 0) <= TTL[LockOf[r]]
      BY CountDownBounds
    <3>3. age' \in [Runs -> 0..Lag]
      BY <2>12 DEF Tick
    <3>4. ASSUME NEW l \in LockNames
          PROVE  row'[l] \in Rows /\ row'[l].left \in (-Lag)..TTL[l]
      <4>1. row'[l] = [row[l] EXCEPT !.left = CountDown(row[l].left, -Lag)]
        BY <2>12 DEF Tick
      <4>2. QED
        BY <3>1, <4>1 DEF Rows
    <3>5. row' \in [LockNames -> Rows]
      BY <2>12, <3>4 DEF Tick
    <3>6. lease' \in [Runs -> Nat] /\ \A r \in Runs : lease'[r] <= TTL[LockOf[r]]
      BY <2>12, <3>2 DEF Tick
    <3>7. QED
      BY <2>12, <3>3, <3>4, <3>5, <3>6 DEF Tick
  <2>13. CASE UNCHANGED vars
    BY <2>13 DEF vars
  <2>14. QED
    BY <2>1, <2>5, <2>6, <2>7, <2>8, <2>9, <2>10, <2>11, <2>12, <2>13
    DEF Next, Acquire
<1>3. QED
  BY <1>1, <1>2, PTL DEF Spec

-----------------------------------------------------------------------------
\* An entitled run is the one its row names: the inductive invariant behind
\* mutual exclusion.  A takeover needs left + age <= 0 with age >= 0, hence a
\* lapsed lease; a release touches only the row of its own owner; an admin or
\* a cleaner that takes a row away from a working run marks it revoked.
LEMMA LeaseInvStep == TypeOK /\ LeaseInv /\ [Next]_vars => LeaseInv'
<1> SUFFICES ASSUME TypeOK, LeaseInv, [Next]_vars,
                    NEW s \in Runs, Entitled(s)'
             PROVE  row'[LockOf[s]] = [status |-> "active", owner |-> s, left |-> lease'[s]]
  BY DEF LeaseInv
<1> USE JobLockAssumption DEF TypeOK, LeaseInv, Entitled
<1>1. ASSUME NEW r \in Runs, AcquireStart(r) \/ Refuse(r) \/ \E step \in Pending : Goto(r, step)
      PROVE  row'[LockOf[s]] = [status |-> "active", owner |-> s, left |-> lease'[s]]
  BY <1>1 DEF AcquireStart, Refuse, Goto, Pending
<1>2. ASSUME NEW r \in Runs, Granted(LockOf[r], r),
             Free(LockOf[r], r) \/ row[LockOf[r]].status = "absent"
      PROVE  row'[LockOf[s]] = [status |-> "active", owner |-> s, left |-> lease'[s]]
  <2>1. CASE s = r
    BY <1>2, <2>1 DEF Granted
  <2>2. CASE s # r
    <3>1. row[LockOf[s]] = [status |-> "active", owner |-> s, left |-> lease[s]] /\ lease[s] > 0
      BY <1>2, <2>2 DEF Granted
    <3>2. LockOf[s] # LockOf[r]
      BY <1>2, <3>1 DEF Free
    <3>3. QED
      BY <1>2, <2>2, <3>1, <3>2 DEF Granted
  <2>3. QED
    BY <2>1, <2>2
<1>3. ASSUME NEW r \in Runs, Release(r)
      PROVE  row'[LockOf[s]] = [status |-> "active", owner |-> s, left |-> lease'[s]]
  <2>1. s # r
    BY <1>3 DEF Release
  <2>2. row[LockOf[s]] = [status |-> "active", owner |-> s, left |-> lease[s]]
    BY <1>3, <2>1 DEF Release
  <2>3. row'[LockOf[s]] = row[LockOf[s]]
    BY <1>3, <2>1, <2>2 DEF Release, Rows
  <2>4. QED
    BY <1>3, <2>1, <2>2, <2>3 DEF Release
<1>4. ASSUME NEW r \in Runs, LeaveHeld(r)
      PROVE  row'[LockOf[s]] = [status |-> "active", owner |-> s, left |-> lease'[s]]
  BY <1>4 DEF LeaveHeld
<1>5. ASSUME NEW a \in Admins, ForceUpdate(a)
      PROVE  row'[LockOf[s]] = [status |-> "active", owner |-> s, left |-> lease'[s]]
  <2>1. row[LockOf[s]] = [status |-> "active", owner |-> s, left |-> lease[s]]
    BY <1>5 DEF ForceUpdate
  <2>2. LockOf[s] # forcing[a]
    BY <1>5, <2>1 DEF ForceUpdate, Dispossessed
  <2>3. row'[LockOf[s]] = row[LockOf[s]]
    BY <1>5, <2>2 DEF ForceUpdate
  <2>4. QED
    BY <1>5, <2>1, <2>3 DEF ForceUpdate
<1>6. ASSUME NEW c \in Cleaners, CleanupMark(c)
      PROVE  row'[LockOf[s]] = [status |-> "active", owner |-> s, left |-> lease'[s]]
  <2>1. row[LockOf[s]] = [status |-> "active", owner |-> s, left |-> lease[s]]
    BY <1>6 DEF CleanupMark
  <2>2. LockOf[s] \notin stale[c]
    BY <1>6, <2>1 DEF CleanupMark, Dispossessed
  <2>3. QED
    BY <1>6, <2>1, <2>2 DEF CleanupMark
<1>7. ASSUME Tick
      PROVE  row'[LockOf[s]] = [status |-> "active", owner |-> s, left |-> lease'[s]]
  <2>1. lease[s] > 0 /\ lease'[s] = lease[s] - 1 /\ pc[s] = "working" /\ s \notin revoked
    BY <1>7 DEF Tick, CountDown
  <2>2. row[LockOf[s]] = [status |-> "active", owner |-> s, left |-> lease[s]]
    BY <2>1
  <2>3. row'[LockOf[s]] = [row[LockOf[s]] EXCEPT !.left = CountDown(row[LockOf[s]].left, -Lag)]
    BY <1>7 DEF Tick
  <2>4. CountDown(row[LockOf[s]].left, -Lag) = lease[s] - 1
    BY <2>1, <2>2 DEF CountDown
  <2>5. QED
    BY <2>1, <2>2, <2>3, <2>4
<1>8. ASSUME UNCHANGED <<row, pc, lease, revoked>>
      PROVE  row'[LockOf[s]] = [status |-> "active", owner |-> s, left |-> lease'[s]]
  BY <1>8
<1>9. QED
  <2>1. ASSUME NEW r \in Runs, AcquireSwap(r) \/ AcquireSelect(r) \/ AcquireInsert(r)
        PROVE  row'[LockOf[s]] = [status |-> "active", owner |-> s, left |-> lease'[s]]
    BY <1>1, <1>2, <2>1 DEF AcquireSwap, AcquireSelect, AcquireInsert, Pending
  <2>2. ASSUME NEW a \in Admins, NEW l \in LockNames, ForceSelect(a, l)
        PROVE  row'[LockOf[s]] = [status |-> "active", owner |-> s, left |-> lease'[s]]
    BY <1>8, <2>2 DEF ForceSelect
  <2>3. ASSUME NEW c \in Cleaners, CleanupSelect(c)
        PROVE  row'[LockOf[s]] = [status |-> "active", owner |-> s, left |-> lease'[s]]
    BY <1>8, <2>3 DEF CleanupSelect
  <2>4. CASE UNCHANGED vars
    BY <1>8, <2>4 DEF vars
  <2>5. QED
    BY <1>1, <1>3, <1>4, <1>5, <1>6, <1>7, <2>1, <2>2, <2>3, <2>4 DEF Next, Acquire

\* In every behaviour a run within its lease, and not dispossessed, owns the
\* active row of its lock.
THEOREM LeaseHeld == Spec => []LeaseInv
<1>1. Init => LeaseInv
  BY DEF Init, LeaseInv, Entitled
<1>2. QED
  BY <1>1, LeaseInvStep, TypeCorrect, PTL DEF Spec

\* Two runs of one job are never both within a lease nobody took away: each
\* would be the owner the same row names.
THEOREM MutualExclusion == Spec => []NoTwoEntitled
<1>1. LeaseInv => NoTwoEntitled
  <2> SUFFICES ASSUME LeaseInv, NEW r \in Runs, NEW s \in Runs,
                      r # s, LockOf[r] = LockOf[s], Entitled(r), Entitled(s)
               PROVE  FALSE
    BY DEF NoTwoEntitled
  <2>1. /\ row[LockOf[r]] = [status |-> "active", owner |-> r, left |-> lease[r]]
        /\ row[LockOf[s]] = [status |-> "active", owner |-> s, left |-> lease[s]]
    BY DEF LeaseInv
  <2>2. row[LockOf[r]].owner = r /\ row[LockOf[s]].owner = s
    BY <2>1
  <2>3. QED
    BY <2>2
<1>2. QED
  BY <1>1, LeaseHeld, PTL

-----------------------------------------------------------------------------
\* A step that only ends leases is a Lose step of the abstract lock.
LEMMA LoseStep ==
  ASSUME \A l \in LockNames : Holder'[l] \in {Holder[l], Nobody},
         Working' = Working
  PROVE  \E L \in SUBSET LockNames : Lease!Lose(L)
<1> DEFINE L == {l \in LockNames : Holder'[l] # Holder[l]}
<1>1. Holder' = [l \in LockNames |-> IF l \in L THEN Nobody ELSE Holder[l]]
  <2>1. Holder' = [l \in LockNames |-> Holder'[l]]
    BY DEF Holder
  <2>2. QED
    BY <2>1
<1>2. Lease!Lose(L)
  BY <1>1 DEF Lease!Lose
<1>3. QED
  BY <1>2

\* Every step of the table and its callers is a step of the abstract lock.
LEMMA LeaseStep == TypeOK /\ [Next]_vars => [Lease!Next]_<<Holder, Working>>
<1> SUFFICES ASSUME TypeOK, [Next]_vars
             PROVE  Lease!Next \/ UNCHANGED <<Holder, Working>>
  OBVIOUS
<1> USE JobLockAssumption DEF TypeOK
<1>1. ASSUME UNCHANGED row, Working' = Working
      PROVE  UNCHANGED <<Holder, Working>>
  BY <1>1 DEF Holder
<1>2. ASSUME NEW r \in Runs, pc[r] # "working", NEW step \in PCs \ {"working"},
             pc' = [pc EXCEPT ![r] = step]
      PROVE  Working' = Working
  BY <1>2 DEF Working
<1>3. ASSUME NEW r \in Runs, AcquireStart(r) \/ (pc[r] # "working" /\ Refuse(r))
      PROVE  UNCHANGED <<Holder, Working>>
  BY <1>1, <1>2, <1>3 DEF AcquireStart, Refuse, PCs, Pending
<1>4. ASSUME NEW r \in Runs, NEW step \in Pending, pc[r] # "working", Goto(r, step)
      PROVE  UNCHANGED <<Holder, Working>>
  BY <1>1, <1>2, <1>4 DEF Goto, PCs, Pending
<1>5. ASSUME NEW r \in Runs, pc[r] # "working", Granted(LockOf[r], r),
             Free(LockOf[r], r) \/ row[LockOf[r]].status = "absent"
      PROVE  Lease!Grant(r)
  <2>1. Holder[LockOf[r]] = Nobody
    BY <1>5 DEF Holder, Free, Rows
  <2>2. Working' = Working \union {r} /\ r \notin Working
    BY <1>5 DEF Granted, Working
  <2>3. Holder' = [Holder EXCEPT ![LockOf[r]] = r]
    <3>1. row'[LockOf[r]].status = "active" /\ row'[LockOf[r]].owner = r
          /\ row'[LockOf[r]].left > 0
      BY <1>5 DEF Granted
    <3>2. \A l \in LockNames : l # LockOf[r] => row'[l] = row[l]
      BY <1>5 DEF Granted
    <3>3. QED
      BY <3>1, <3>2 DEF Holder
  <2>4. QED
    BY <2>1, <2>2, <2>3 DEF Lease!Grant
<1>6. ASSUME NEW r \in Runs, Release(r)
      PROVE  Lease!Finish(r)
  <2>1. r \in Working /\ Working' = Working \ {r}
    BY <1>6 DEF Release, Working
  <2>2. Holder' = [Holder EXCEPT ![LockOf[r]] = IF Holder[LockOf[r]] = r THEN Nobody ELSE Holder[LockOf[r]]]
    <3>1. \A l \in LockNames : l # LockOf[r] => row'[l] = row[l]
      BY <1>6 DEF Release
    <3>2. CASE row[LockOf[r]].owner = r /\ row[LockOf[r]].status = "active"
      <4>1. row'[LockOf[r]].status = "released"
        BY <1>6, <3>2 DEF Release, Rows
      <4>2. Holder'[LockOf[r]] = Nobody /\ Holder[LockOf[r]] \in {r, Nobody}
        BY <3>2, <4>1 DEF Holder
      <4>3. \A l \in LockNames : l # LockOf[r] => Holder'[l] = Holder[l]
        BY <3>1 DEF Holder
      <4>4. QED
        BY <4>2, <4>3 DEF Holder
    <3>3. CASE ~(row[LockOf[r]].owner = r /\ row[LockOf[r]].status = "active")
      <4>1. row'[LockOf[r]] = row[LockOf[r]]
        BY <1>6, <3>3 DEF Release, Rows
      <4>2. Holder[LockOf[r]] # r
        BY <3>3 DEF Holder
      <4>3. \A l \in LockNames : Holder'[l] = Holder[l]
        BY <3>1, <4>1 DEF Holder
      <4>4. QED
        BY <4>2, <4>3 DEF Holder
    <3>4. QED
      BY <3>2, <3>3
  <2>3. QED
    BY <2>1, <2>2 DEF Lease!Finish
<1>7. ASSUME NEW r \in Runs, LeaveHeld(r)
      PROVE  Lease!Die(r) \/ UNCHANGED <<Holder, Working>>
  <2>1. CASE pc[r] = "working"
    <3>1. r \in Working /\ Working' = Working \ {r}
      BY <1>7, <2>1 DEF LeaveHeld, Working
    <3>2. Holder' = Holder
      BY <1>7 DEF LeaveHeld, Holder
    <3>3. QED
      BY <3>1, <3>2 DEF Lease!Die
  <2>2. CASE pc[r] # "working"
    BY <1>1, <1>2, <1>7, <2>2 DEF LeaveHeld, PCs
  <2>3. QED
    BY <2>1, <2>2
<1>8. ASSUME NEW a \in Admins, ForceUpdate(a)
      PROVE  \E L \in SUBSET LockNames : Lease!Lose(L)
  <2>1. ASSUME NEW l \in LockNames
        PROVE  row'[l] = row[l] \/ row'[l].status # "active"
    BY <1>8 DEF ForceUpdate, Rows
  <2>2. \A l \in LockNames : Holder'[l] \in {Holder[l], Nobody}
    BY <2>1 DEF Holder
  <2>3. QED
    BY <1>8, <2>2, LoseStep DEF ForceUpdate, Working
<1>9. ASSUME NEW c \in Cleaners, CleanupMark(c)
      PROVE  \E L \in SUBSET LockNames : Lease!Lose(L)
  <2>1. ASSUME NEW l \in LockNames
        PROVE  row'[l] = row[l] \/ row'[l].status # "active"
    BY <1>9 DEF CleanupMark, Rows
  <2>2. \A l \in LockNames : Holder'[l] \in {Holder[l], Nobody}
    BY <2>1 DEF Holder
  <2>3. QED
    BY <1>9, <2>2, LoseStep DEF CleanupMark, Working
<1>10. ASSUME Tick
       PROVE  \E L \in SUBSET LockNames : Lease!Lose(L)
  <2>1. ASSUME NEW l \in LockNames
        PROVE  /\ row'[l].status = row[l].status
               /\ row'[l].owner = row[l].owner
               /\ row'[l].left > 0 => row[l].left > 0
    <3>1. row'[l] = [row[l] EXCEPT !.left = CountDown(row[l].left, -Lag)] /\ row[l] \in Rows
      BY <1>10 DEF Tick
    <3>2. CountDown(row[l].left, -Lag) <= row[l].left
      BY CountDownBounds DEF Rows
    <3>3. QED
      BY <3>1, <3>2, CountDownBounds DEF Rows
  <2>2. \A l \in LockNames : Holder'[l] \in {Holder[l], Nobody}
    BY <2>1 DEF Holder
  <2>3. QED
    BY <1>10, <2>2, LoseStep DEF Tick, Working
<1>11. ASSUME NEW r \in Runs, AcquireSwap(r) \/ AcquireSelect(r) \/ AcquireInsert(r)
       PROVE  Lease!Grant(r) \/ UNCHANGED <<Holder, Working>>
  BY <1>3, <1>4, <1>5, <1>11 DEF AcquireSwap, AcquireSelect, AcquireInsert, Pending
<1>12. ASSUME NEW a \in Admins, NEW l \in LockNames, ForceSelect(a, l)
       PROVE  UNCHANGED <<Holder, Working>>
  BY <1>12 DEF ForceSelect, Holder, Working
<1>13. ASSUME NEW c \in Cleaners, CleanupSelect(c)
       PROVE  UNCHANGED <<Holder, Working>>
  BY <1>13 DEF CleanupSelect, Holder, Working
<1>14. CASE UNCHANGED vars
  BY <1>14 DEF vars, Holder, Working
<1>15. ASSUME NEW r \in Runs, Acquire(r) \/ Release(r) \/ LeaveHeld(r)
       PROVE  Lease!Next \/ UNCHANGED <<Holder, Working>>
  <2>1. CASE Acquire(r)
    <3>1. CASE AcquireStart(r)
      BY <1>3, <3>1
    <3>2. CASE AcquireSwap(r) \/ AcquireSelect(r) \/ AcquireInsert(r)
      BY <1>11, <3>2 DEF Lease!Next
    <3>3. QED
      BY <2>1, <3>1, <3>2 DEF Acquire
  <2>2. CASE Release(r)
    BY <1>6, <2>2 DEF Lease!Next
  <2>3. CASE LeaveHeld(r)
    BY <1>7, <2>3 DEF Lease!Next
  <2>4. QED
    BY <1>15, <2>1, <2>2, <2>3
<1>16. ASSUME \E L \in SUBSET LockNames : Lease!Lose(L)
       PROVE  Lease!Next
  BY <1>16 DEF Lease!Next
<1>17. QED
  BY <1>8, <1>9, <1>10, <1>12, <1>13, <1>14, <1>15, <1>16, Zenon DEF Next

\* The table implements the abstract lock: work starts only by the grant of a
\* free lock, no grant displaces a live one, and no run gives up another's.
THEOREM LeaseImplemented == Spec => ImplementsLease
<1>1. Init => Lease!Init
  BY DEF Init, Lease!Init, Holder, Working
<1>2. TypeOK /\ [Next]_vars => [Lease!Next]_(Lease!vars)
  BY LeaseStep DEF Lease!vars
<1>3. Spec => Lease!Spec
  BY <1>1, <1>2, TypeCorrect, PTL DEF Spec, Lease!Spec
<1>4. QED
  BY <1>3 DEF ImplementsLease
=============================================================================
