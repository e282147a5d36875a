---------------------------- MODULE CacheProofs ----------------------------
(***************************************************************************)
(* Theorems about Cache, for any number of keys, processes, requests and   *)
(* writes, any time to live and any delay of a request.                    *)
(***************************************************************************)
EXTENDS Cache, TLAPS

LEMMA NoEntryTyped == NoEntry \in Entries
  BY CacheAssumption DEF NoEntry, Entries

\* A Put changes one key, in the backends it reaches, to the entry it is given.
LEMMA PutTyped ==
  ASSUME TypeOK, NEW p \in Procs, NEW k \in Keys, NEW entry \in Entries, Put(p, k, entry)
  PROVE  /\ store' \in [Stores -> [Keys -> Entries]]
         /\ \A s \in Stores, i \in Keys :
              store'[s][i] = IF s \in Reached(p) /\ i = k THEN entry ELSE store[s][i]
  BY DEF TypeOK, Put

\* A process that works on its memory is one that has fallen back.
LEMMA ReachedStores ==
  ASSUME TypeOK, NEW p \in Procs, Note(p)
  PROVE  /\ fallback' \in SUBSET Procs /\ fallback \subseteq fallback' /\ (~dev => fallback' = {})
         /\ Reached(p) \subseteq fallback' \union {Redis}
         /\ fallback' = {} => Reached(p) = IF up THEN {Redis} ELSE {}
  BY CacheAssumption DEF TypeOK, Note, FallsBack, Reached

\* A request under way has a key, a value and an age.
LEMMA PendingRead ==
  ASSUME TypeOK, NEW r \in Readers, read[r].step \in {"miss", "made"}
  PROVE  read[r] \in Pending
  BY DEF TypeOK, NoRead

\* Every reachable state is well typed; outside development no process ever
\* keeps an entry of its own.
THEOREM TypeCorrect == Spec => []TypeOK
<1> USE CacheAssumption
<1>1. Init => TypeOK
  <2> SUFFICES ASSUME Init PROVE TypeOK
    OBVIOUS
  <2>1. 0 \in 0..Horizon /\ 0 \in 0..MaxVersion
    BY DEF Horizon
  <2>2. \A p \in Procs : p \in Stores
    BY DEF Stores
  <2>3. dev \in BOOLEAN /\ up \in BOOLEAN /\ missed \in BOOLEAN
    BY Zenon DEF Init
  <2>4. version \in 0..MaxVersion /\ wrote \in [Writers -> 0..version] /\ acked \in 0..version
    BY <2>1 DEF Init
  <2>5. QED
    BY <2>1, <2>2, <2>3, <2>4, NoEntryTyped DEF Init, TypeOK
<1>2. TypeOK /\ [Next]_vars => TypeOK'
  <2> SUFFICES ASSUME TypeOK, [Next]_vars PROVE TypeOK'
    OBVIOUS
  <2> USE DEF TypeOK
  <2>1. ASSUME NEW r \in Readers, Make(r) PROVE TypeOK'
    <3>1. [read[r] EXCEPT !.step = "made", !.ver = version] \in Pending
      BY <2>1, PendingRead DEF Make, Pending
    <3>2. read' = [read EXCEPT ![r] = [read[r] EXCEPT !.step = "made", !.ver = version]]
      BY <2>1 DEF Make
    <3>3. QED
      BY <2>1, <3>1, <3>2 DEF Make
  <2>2. ASSUME NEW p \in Procs, NEW k \in Keys, NEW entry \in Entries, Put(p, k, entry), Note(p)
        PROVE  /\ store' \in [Stores -> [Keys -> Entries]]
               /\ fallback' \in SUBSET Procs /\ (~dev => fallback' = {})
               /\ \A q \in Procs \ fallback', i \in Keys : store'[q][i] = NoEntry
    <3>1. \A q \in Procs \ fallback' : q \notin Reached(p) /\ q \notin fallback /\ q \in Stores
      BY <2>2, ReachedStores DEF Stores
    <3>2. \A q \in Procs \ fallback', i \in Keys : store'[q][i] = store[q][i]
      BY <2>2, <3>1, PutTyped
    <3>3. QED
      BY <2>2, <3>1, <3>2, PutTyped, ReachedStores
  <2>3. ASSUME NEW r \in Readers, Keep(r) PROVE TypeOK'
    <3> DEFINE entry == [ver |-> read[r].ver, left |-> TTL, late |-> read[r].ver < version]
    <3>1. read[r].key \in Keys /\ read[r].ver \in 0..MaxVersion
      BY <2>3, PendingRead DEF Keep, Pending
    <3>2. entry \in Entries /\ Home[r] \in Procs
      BY <3>1 DEF Entries
    <3>3. Put(Home[r], read[r].key, entry) /\ Note(Home[r])
      BY <2>3 DEF Keep
    <3> HIDE DEF entry
    <3>4. QED
      BY <2>2, <2>3, <3>1, <3>2, <3>3 DEF Keep
  <2>4. ASSUME NEW r \in Readers, NEW k \in Keys, Hit(r, k) \/ Miss(r, k) PROVE TypeOK'
    <3>1. Home[r] \in Procs /\ Note(Home[r]) /\ UNCHANGED <<dev, store>>
      BY <2>4 DEF Hit, Miss
    <3>2. read' \in [Readers -> Pending \union {NoRead}]
      <4>1. [step |-> "miss", key |-> k, ver |-> 0, age |-> 0] \in Pending
        BY DEF Pending
      <4>2. QED
        BY <2>4, <4>1 DEF Hit, Miss
    <3>3. /\ fallback' \in SUBSET Procs /\ (~dev => fallback' = {})
          /\ \A q \in Procs \ fallback', i \in Keys : store'[q][i] = NoEntry
      BY <3>1, ReachedStores
    <3>4. QED
      BY <2>4, <3>1, <3>2, <3>3 DEF Hit, Miss
  <2>5. ASSUME NEW w \in Writers, Write(w) PROVE TypeOK'
    BY <2>5 DEF Write, Supersede
  <2>6. ASSUME NEW w \in Writers, NEW k \in Keys, Delete(w, k) PROVE TypeOK'
    <3>1. Home[w] \in Procs
      OBVIOUS
    <3>2. QED
      BY <2>2, <2>6, <3>1, NoEntryTyped DEF Delete
  <2>7. ASSUME NEW w \in Writers, GiveUp(w) PROVE TypeOK'
    BY <2>7 DEF GiveUp
  <2>8. ASSUME NEW w \in Writers, Respond(w) PROVE TypeOK'
    <3>1. acked' \in 0..version'
      BY <2>8 DEF Respond
    <3>2. wrote' \in [Writers -> 0..version']
      BY <2>8 DEF Respond
    <3>3. QED
      BY <2>8, <3>1, <3>2 DEF Respond
  <2>9. CASE WorkerWrite
    BY <2>9 DEF WorkerWrite, Supersede
  <2>10. CASE Outage
    <3>1. up' \in BOOLEAN
      BY <2>10, Zenon DEF Outage
    <3>2. QED
      BY <2>10, <3>1 DEF Outage
  <2>11. CASE Tick
    <3>1. since' \in [0..MaxVersion -> 0..Horizon]
      <4>1. Horizon \in Nat
        BY DEF Horizon
      <4>2. \A v \in 0..MaxVersion : CountUp(since[v], Horizon) \in 0..Horizon
        BY <4>1 DEF CountUp
      <4>3. QED
        BY <2>11, <4>1, <4>2 DEF Tick
    <3>2. ASSUME NEW s \in Stores, NEW k \in Keys
          PROVE  /\ store'[s][k] \in Entries
                 /\ store[s][k] = NoEntry => store'[s][k] = NoEntry
      <4>1. store'[s][k] = IF store[s][k].left > 1
                           THEN [store[s][k] EXCEPT !.left = store[s][k].left - 1] ELSE NoEntry
        BY <2>11 DEF Tick
      <4>2. ASSUME store[s][k].left > 1
            PROVE  [store[s][k] EXCEPT !.left = store[s][k].left - 1] \in Entries
        <5>1. store[s][k] \in Entries
          OBVIOUS
        <5>2. store[s][k].left - 1 \in 0..TTL
          BY <4>2, <5>1 DEF Entries
        <5>3. QED
          BY <5>1, <5>2 DEF Entries
      <4>3. NoEntry.left = 0
        BY DEF NoEntry
      <4>4. QED
        BY <4>1, <4>2, <4>3, NoEntryTyped DEF Entries
    <3>3. store' \in [Stores -> [Keys -> Entries]]
      BY <2>11, <3>2 DEF Tick
    <3>4. read' \in [Readers -> Pending \union {NoRead}]
      <4>1. ASSUME NEW r \in Readers, read[r].step = "made"
            PROVE  [read[r] EXCEPT !.age = read[r].age + 1] \in Pending
        <5>1. read[r] \in Pending /\ read[r].age < Lag
          BY <2>11, <4>1, PendingRead DEF Tick
        <5>2. read[r].age + 1 \in 0..Lag
          BY <5>1 DEF Pending
        <5>3. QED
          BY <5>1, <5>2 DEF Pending
      <4>2. QED
        BY <2>11, <4>1 DEF Tick
    <3>5. \A q \in Procs : q \in Stores
      BY DEF Stores
    <3>6. QED
      BY <2>11, <3>1, <3>2, <3>3, <3>4, <3>5 DEF Tick
  <2>12. CASE UNCHANGED vars
    BY <2>12 DEF vars
  <2>13. QED
    BY <2>1, <2>3, <2>4, <2>5, <2>6, <2>7, <2>8, <2>9, <2>10, <2>11, <2>12 DEF Next
<1>3. QED
  BY <1>1, <1>2, PTL DEF Spec

-----------------------------------------------------------------------------
\* The clocks behind the bound: a version that is current or not yet written
\* was superseded no time ago, and one that a request holds no longer ago than
\* the request has held it.
StaleInv ==
  /\ StalenessBounded
  /\ \A v \in 0..MaxVersion : v >= version => since[v] = 0
  /\ \A r \in Readers : read[r].step = "made" =>
       read[r].ver <= version /\ since[read[r].ver] <= read[r].age

\* The new content of a backend keeps the bound if the entry put there does.
LEMMA PutStaysBounded ==
  ASSUME TypeOK, StalenessBounded, NEW p \in Procs, NEW k \in Keys, NEW entry \in Entries,
         Put(p, k, entry), UNCHANGED <<since, version>>,
         entry.left > 0 /\ entry.ver < version => since[entry.ver] <= TTL - entry.left + Lag
  PROVE  StalenessBounded'
<1> SUFFICES ASSUME NEW s \in Stores, NEW i \in Keys,
                    store'[s][i].left > 0, store'[s][i].ver < version
             PROVE  since[store'[s][i].ver] <= TTL - store'[s][i].left + Lag
  BY DEF StalenessBounded
<1>1. store'[s][i] \in {entry, store[s][i]}
  BY PutTyped
<1>2. QED
  BY <1>1 DEF StalenessBounded

\* The clocks are right in every reachable state.
LEMMA StaleInvariant == Spec => []StaleInv
<1> USE CacheAssumption
<1>1. Init => StaleInv
  BY DEF Init, StaleInv, StalenessBounded, NoEntry, NoRead
<1>2. TypeOK /\ StaleInv /\ [Next]_vars => StaleInv'
  <2> SUFFICES ASSUME TypeOK, StaleInv, [Next]_vars PROVE StaleInv'
    OBVIOUS
  <2> USE DEF TypeOK, StaleInv
  <2>1. ASSUME NEW r \in Readers, Make(r) PROVE StaleInv'
    <3>1. \A q \in Readers : read'[q].step = "made" =>
             read'[q].ver <= version /\ since[read'[q].ver] <= read'[q].age
      <4>1. read'[r].ver = version /\ read'[r].age \in Nat /\ since[version] = 0
        BY <2>1, PendingRead DEF Make, Pending
      <4>2. \A q \in Readers : q # r => read'[q] = read[q]
        BY <2>1 DEF Make
      <4>3. QED
        BY <4>1, <4>2
    <3>2. QED
      BY <2>1, <3>1 DEF Make, StalenessBounded
  <2>2. ASSUME NEW r \in Readers, Keep(r) PROVE StaleInv'
    <3> DEFINE entry == [ver |-> read[r].ver, left |-> TTL, late |-> read[r].ver < version]
    <3>1. read[r] \in Pending
      BY <2>2, PendingRead DEF Keep
    <3>2. /\ read[r].key \in Keys /\ read[r].age \in 0..Lag /\ read[r].ver \in 0..MaxVersion
          /\ since[read[r].ver] \in Nat /\ since[read[r].ver] <= read[r].age
      BY <2>2, <3>1 DEF Keep, Pending
    <3>7. entry \in Entries /\ entry.left = TTL /\ entry.ver = read[r].ver /\ Home[r] \in Procs
      BY <3>2 DEF Entries
    <3>3. Put(Home[r], read[r].key, entry) /\ UNCHANGED <<since, version>>
      BY <2>2 DEF Keep
    <3> HIDE DEF entry
    <3>4. since[entry.ver] <= TTL - entry.left + Lag
      BY <3>2, <3>7
    <3>5. StalenessBounded'
      BY <3>2, <3>7, <3>3, <3>4, PutStaysBounded
    <3>6. QED
      BY <2>2, <3>5 DEF Keep, NoRead
  <2>3. ASSUME NEW r \in Readers, NEW k \in Keys, Hit(r, k) \/ Miss(r, k) PROVE StaleInv'
    <3>1. \A q \in Readers : read'[q] = read[q] \/ read'[q].step = "miss"
      BY <2>3 DEF Hit, Miss
    <3>2. UNCHANGED <<since, store, version>>
      BY <2>3 DEF Hit, Miss
    <3>3. QED
      BY <3>1, <3>2 DEF StalenessBounded
  <2>4. ASSUME Supersede, UNCHANGED <<since, store, read>> PROVE StaleInv'
    <3>1. \A v \in 0..MaxVersion : v < version' => v < version \/ since[v] = 0
      BY <2>4 DEF Supersede
    <3>2. StalenessBounded'
      <4> SUFFICES ASSUME NEW s \in Stores, NEW k \in Keys,
                          store[s][k].left > 0, store[s][k].ver < version'
                   PROVE  since[store[s][k].ver] <= TTL - store[s][k].left + Lag
        BY <2>4 DEF StalenessBounded
      <4>1. store[s][k].ver \in 0..MaxVersion /\ store[s][k].left \in 0..TTL
        BY DEF Entries
      <4>2. CASE store[s][k].ver < version
        BY <2>4, <4>2 DEF StalenessBounded
      <4>3. CASE since[store[s][k].ver] = 0
        BY <4>1, <4>3
      <4>4. QED
        BY <3>1, <4>1, <4>2, <4>3
    <3>3. \A r \in Readers : read[r].step = "made" => read[r].ver \in 0..MaxVersion
      BY PendingRead DEF Pending
    <3>4. QED
      BY <2>4, <3>2, <3>3 DEF Supersede
  <2>5. ASSUME NEW w \in Writers, NEW k \in Keys, Delete(w, k) PROVE StaleInv'
    <3>1. Home[w] \in Procs /\ NoEntry.left = 0
      BY DEF NoEntry
    <3>2. StalenessBounded'
      BY <2>5, <3>1, NoEntryTyped, PutStaysBounded DEF Delete
    <3>3. QED
      BY <2>5, <3>2 DEF Delete
  <2>6. ASSUME NEW w \in Writers, GiveUp(w) \/ Respond(w) PROVE StaleInv'
    BY <2>6 DEF GiveUp, Respond, StalenessBounded
  <2>7. CASE Outage \/ UNCHANGED vars
    BY <2>7 DEF Outage, vars, StalenessBounded
  <2>8. CASE Tick
    <3>1. ASSUME NEW v \in 0..MaxVersion
          PROVE  /\ since'[v] \in Nat /\ since'[v] <= since[v] + 1
                 /\ v >= version => since'[v] = 0
      <4>1. since[v] \in Nat /\ CountUp(since[v], Horizon) \in {since[v], since[v] + 1}
        BY DEF CountUp, Horizon
      <4>2. since'[v] = IF v < version THEN CountUp(since[v], Horizon) ELSE 0
        BY <2>8 DEF Tick
      <4>3. QED
        BY <4>1, <4>2
    <3>2. StalenessBounded'
      <4> SUFFICES ASSUME NEW s \in Stores, NEW k \in Keys,
                          store'[s][k].left > 0, store'[s][k].ver < version
                   PROVE  since'[store'[s][k].ver] <= TTL - store'[s][k].left + Lag
        BY <2>8 DEF StalenessBounded, Tick
      <4>1. store[s][k] \in Entries
        OBVIOUS
      <4>2. /\ store[s][k].left > 1
            /\ store'[s][k] = [store[s][k] EXCEPT !.left = store[s][k].left - 1]
        BY <2>8 DEF Tick, NoEntry
      <4>3. store'[s][k].ver = store[s][k].ver /\ store'[s][k].left = store[s][k].left - 1
        BY <4>1, <4>2 DEF Entries
      <4>4. /\ store[s][k].ver \in 0..MaxVersion /\ store[s][k].left \in 0..TTL
            /\ since[store[s][k].ver] \in Nat
        BY <4>1 DEF Entries, Horizon
      <4>5. since[store[s][k].ver] <= TTL - store[s][k].left + Lag
        BY <4>2, <4>3, <4>4 DEF StalenessBounded
      <4>6. since'[store[s][k].ver] \in Nat /\ since'[store[s][k].ver] <= since[store[s][k].ver] + 1
        BY <3>1, <4>4
      <4>7. since'[store[s][k].ver] <= TTL - (store[s][k].left - 1) + Lag
        BY <4>4, <4>5, <4>6
      <4>8. QED
        BY <4>3, <4>7
    <3>3. ASSUME NEW r \in Readers, read'[r].step = "made"
          PROVE  read'[r].ver <= version' /\ since'[read'[r].ver] <= read'[r].age
      <4>1. read[r].step = "made" /\ read'[r] = [read[r] EXCEPT !.age = read[r].age + 1]
        BY <2>8, <3>3 DEF Tick
      <4>2. read[r] \in Pending
        BY <4>1, PendingRead
      <4>3. read'[r].ver = read[r].ver /\ read'[r].age = read[r].age + 1 /\ read[r].age \in Nat
        BY <4>1, <4>2 DEF Pending
      <4>4. read[r].ver \in 0..MaxVersion /\ since[read[r].ver] <= read[r].age
        BY <4>1, <4>2 DEF Pending
      <4>5. read'[r].ver <= version'
        BY <2>8, <4>1, <4>3 DEF Tick
      <4>6. since'[read[r].ver] <= read[r].age + 1
        BY <3>1, <4>3, <4>4
      <4>7. QED
        BY <4>3, <4>5, <4>6
    <3>4. QED
      BY <2>8, <3>1, <3>2, <3>3 DEF Tick
  <2>9. QED
    BY <2>1, <2>2, <2>3, <2>4, <2>5, <2>6, <2>7, <2>8 DEF Next, Write, WorkerWrite
<1>3. QED
  BY <1>1, <1>2, TypeCorrect, PTL DEF Spec

\* What any backend serves was true no longer ago than its time to live and
\* the delay of the request that stored it.
THEOREM StalenessIsBounded == Spec => []StalenessBounded
<1>1. StaleInv => StalenessBounded
  BY DEF StaleInv
<1>2. QED
  BY <1>1, StaleInvariant, PTL

-----------------------------------------------------------------------------
\* As long as Redis has failed nobody, a response that was not late when it was
\* stored is no older than any answered write, nor than a write that has
\* visited its key.
SeenInv ==
  ~missed /\ fallback = {} =>
    \A k \in Keys : store[Redis][k].left > 0 /\ ~store[Redis][k].late =>
      /\ store[Redis][k].ver >= acked
      /\ \A w \in Writers : k \notin todo[w] => store[Redis][k].ver >= wrote[w]

\* In such a state entries are nowhere but in Redis.
LEMMA OnlyRedis ==
  ASSUME TypeOK, fallback = {}, NEW s \in Stores, NEW k \in Keys, store[s][k].left > 0
  PROVE  s = Redis
  BY DEF TypeOK, Stores, NoEntry

\* Each step keeps the entries of Redis no older than the writes they owe.
LEMMA SeenInvStep == TypeOK /\ StaleInv /\ SeenInv /\ [Next]_vars => SeenInv'
<1> USE CacheAssumption
<1> SUFFICES ASSUME TypeOK, StaleInv, SeenInv, [Next]_vars, ~missed', fallback' = {},
                    NEW k \in Keys, store'[Redis][k].left > 0, ~store'[Redis][k].late
             PROVE  /\ store'[Redis][k].ver >= acked'
                    /\ \A w \in Writers : k \notin todo'[w] => store'[Redis][k].ver >= wrote'[w]
  BY DEF SeenInv
<1> USE DEF TypeOK
<1>1. ~missed /\ fallback = {}
  BY Zenon DEF Next, vars, Make, Keep, Hit, Miss, Write, Delete, GiveUp, Respond, WorkerWrite,
               Outage, Tick, Note
<1>2. Redis \in Stores /\ store[Redis][k] \in Entries
  BY DEF Stores
<1>3. ASSUME store[Redis][k].left > 0, ~store[Redis][k].late
      PROVE  /\ store[Redis][k].ver >= acked
             /\ \A w \in Writers : k \notin todo[w] => store[Redis][k].ver >= wrote[w]
  BY <1>1, <1>3 DEF SeenInv
<1>4. ASSUME UNCHANGED <<store, todo, wrote, acked>>
      PROVE  /\ store'[Redis][k].ver >= acked'
             /\ \A w \in Writers : k \notin todo'[w] => store'[Redis][k].ver >= wrote'[w]
  BY <1>3, <1>4
<1>5. ASSUME NEW r \in Readers, Keep(r)
      PROVE  /\ store'[Redis][k].ver >= acked'
             /\ \A w \in Writers : k \notin todo'[w] => store'[Redis][k].ver >= wrote'[w]
  <2> DEFINE entry == [ver |-> read[r].ver, left |-> TTL, late |-> read[r].ver < version]
  <2>1. read[r] \in Pending
    BY <1>5, PendingRead DEF Keep
  <2>2. read[r].key \in Keys /\ read[r].ver \in 0..MaxVersion /\ Home[r] \in Procs
    BY <2>1 DEF Pending
  <2>3. entry \in Entries /\ entry.ver = read[r].ver /\ entry.late = (read[r].ver < version)
    BY <2>2 DEF Entries
  <2>4. Put(Home[r], read[r].key, entry) /\ UNCHANGED <<todo, wrote, acked, version>>
    BY <1>5 DEF Keep
  <2> HIDE DEF entry
  <2>5. store'[Redis][k] = entry \/ store'[Redis][k] = store[Redis][k]
    BY <1>2, <2>2, <2>3, <2>4, PutTyped
  <2>6. CASE store'[Redis][k] = entry
    <3>1. ~(read[r].ver < version)
      BY <2>3, <2>6, Zenon
    <3>2. entry.ver >= version
      BY <2>2, <2>3, <3>1
    <3>3. QED
      BY <2>2, <2>3, <2>4, <2>6, <3>2
  <2>7. CASE store'[Redis][k] = store[Redis][k]
    BY <1>3, <2>4, <2>7
  <2>8. QED
    BY <2>5, <2>6, <2>7
<1>6. ASSUME NEW w \in Writers, Write(w)
      PROVE  /\ store'[Redis][k].ver >= acked'
             /\ \A v \in Writers : k \notin todo'[v] => store'[Redis][k].ver >= wrote'[v]
  BY <1>3, <1>6 DEF Write
<1>7. ASSUME NEW w \in Writers, NEW i \in Keys, Delete(w, i)
      PROVE  /\ store'[Redis][k].ver >= acked'
             /\ \A v \in Writers : k \notin todo'[v] => store'[Redis][k].ver >= wrote'[v]
  <2>1. Home[w] \in Procs /\ Note(Home[w]) /\ Put(Home[w], i, NoEntry)
    BY <1>7 DEF Delete
  <2>2. Redis \in Reached(Home[w])
    BY <1>7, <2>1, ReachedStores DEF Delete
  <2>3. store'[Redis][i] = NoEntry /\ (k # i => store'[Redis][k] = store[Redis][k])
    BY <1>2, <2>1, <2>2, NoEntryTyped, PutTyped
  <2>4. k # i
    BY <2>3 DEF NoEntry
  <2>5. QED
    BY <1>3, <1>7, <2>3, <2>4 DEF Delete
<1>8. ASSUME NEW w \in Writers, Respond(w)
      PROVE  /\ store'[Redis][k].ver >= acked'
             /\ \A v \in Writers : k \notin todo'[v] => store'[Redis][k].ver >= wrote'[v]
  <2>1. store'[Redis][k] = store[Redis][k] /\ store[Redis][k].ver \in Nat
    BY <1>2, <1>8 DEF Respond, Entries
  <2>2. store[Redis][k].ver >= wrote[w] /\ store[Redis][k].ver >= acked
    BY <1>3, <1>8, <2>1 DEF Respond
  <2>3. store'[Redis][k].ver >= acked'
    BY <1>8, <2>1, <2>2 DEF Respond
  <2>4. ASSUME NEW v \in Writers, k \notin todo'[v] PROVE store'[Redis][k].ver >= wrote'[v]
    BY <1>3, <1>8, <2>1, <2>4 DEF Respond
  <2>5. QED
    BY <2>3, <2>4
<1>9. CASE Tick
  <2>1. /\ \/ /\ store[Redis][k].left > 1
              /\ store'[Redis][k] = [store[Redis][k] EXCEPT !.left = store[Redis][k].left - 1]
           \/ store'[Redis][k] = NoEntry
        /\ UNCHANGED <<todo, wrote, acked>>
    BY <1>2, <1>9 DEF Tick
  <2>2. /\ store[Redis][k].left > 1 /\ store'[Redis][k].ver = store[Redis][k].ver
        /\ store'[Redis][k].late = store[Redis][k].late
    BY <1>2, <2>1 DEF NoEntry, Entries
  <2>3. QED
    BY <1>2, <1>3, <2>1, <2>2 DEF Entries
<1>10. ASSUME NEW w \in Writers, GiveUp(w) PROVE FALSE
  BY <1>10 DEF GiveUp
<1>11. ASSUME NEW r \in Readers, NEW i \in Keys, Make(r) \/ Hit(r, i) \/ Miss(r, i)
       PROVE  UNCHANGED <<store, todo, wrote, acked>>
  BY <1>11 DEF Make, Hit, Miss
<1>12. CASE WorkerWrite \/ Outage \/ UNCHANGED vars
  BY <1>4, <1>12 DEF WorkerWrite, Outage, vars
<1>13. QED
  BY <1>4, <1>5, <1>6, <1>7, <1>8, <1>9, <1>10, <1>11, <1>12 DEF Next

\* Once a write is answered, no response from before it is served anywhere, but
\* one stored late by its request or left there by a failure of Redis.
THEOREM AnsweredWritesAreSeen == Spec => []AnsweredWriteIsSeen
<1>1. Init => SeenInv
  BY CacheAssumption DEF Init, SeenInv, NoEntry, Stores
<1>2. TypeOK /\ SeenInv => AnsweredWriteIsSeen
  <2> SUFFICES ASSUME TypeOK, SeenInv, NEW s \in Stores, NEW k \in Keys,
                      store[s][k].left > 0, store[s][k].ver < acked,
                      ~missed, fallback = {}
               PROVE  store[s][k].late
    BY DEF AnsweredWriteIsSeen
  <2>1. s = Redis
    BY OnlyRedis
  <2>2. store[s][k].ver \in Nat /\ acked \in Nat
    BY DEF TypeOK, Entries
  <2>3. QED
    BY <2>1, <2>2 DEF SeenInv
<1>3. QED
  BY <1>1, <1>2, SeenInvStep, StaleInvariant, TypeCorrect, PTL DEF Spec
=============================================================================
