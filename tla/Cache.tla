------------------------------- MODULE Cache -------------------------------
(***************************************************************************)
(* The cache of read responses, app.services.cache: get_or_set_cache of    *)
(* concurrent requests, delete_cache_prefix after a write, and its two     *)
(* backends.  Redis is shared by the processes of the api; the in-memory   *)
(* fallback belongs to one process and is taken up, for good, only in a    *)
(* development environment.                                                *)
(*                                                                         *)
(* All keys of one prefix are computed from the same data, of which only   *)
(* the version matters.  Time is relative: an entry has "left" ticks to    *)
(* live, and since[v] is how long ago version v was superseded, counted up *)
(* to Horizon.  A request stores what it computed within Lag ticks.        *)
(***************************************************************************)
EXTENDS Integers

CONSTANTS Keys, Procs,
          Readers, Writers,
          Home,          \* the process that serves each request
          TTL, Lag,
          MaxVersion,    \* bound: number of writes
          Redis          \* the shared backend

Stores == Procs \union {Redis}

Horizon == TTL + Lag + 1

ASSUME CacheAssumption ==
  /\ Home \in [Readers \union Writers -> Procs]
  /\ TTL \in Nat \ {0} /\ Lag \in Nat /\ MaxVersion \in Nat
  /\ Redis \notin Procs

VARIABLES
  dev,       \* is_development_environment()
  version,   \* the committed data
  since,     \* how long ago each version was superseded
  store,     \* the entries of every backend
  up,        \* whether Redis answers
  fallback,  \* processes that have turned to their memory (_using_fallback)
  read,      \* each get_or_set_cache
  todo,      \* keys that the delete_cache_prefix of each write has yet to visit
  wrote,     \* the version each write committed, 0 between two requests
  acked,     \* history: newest version whose writer has had its response
  missed     \* history: whether Redis has failed a deletion

vars == <<dev, version, since, store, up, fallback, read, todo, wrote, acked, missed>>

-----------------------------------------------------------------------------
\* left = 0: no entry, or an expired one;  late: history, whether the value was
\* superseded already when it was stored.
Entries == [ver : 0..MaxVersion, left : 0..TTL, late : BOOLEAN]

NoEntry == [ver |-> 0, left |-> 0, late |-> FALSE]

\* age: how long ago a request computed the value that it is about to store.
Pending == [step : {"miss", "made"}, key : Keys, ver : 0..MaxVersion, age : 0..Lag]

NoRead == [step |-> "idle"]

TypeOK ==
  /\ dev \in BOOLEAN /\ up \in BOOLEAN
  /\ version \in 0..MaxVersion
  /\ since \in [0..MaxVersion -> 0..Horizon]
  /\ store \in [Stores -> [Keys -> Entries]]
  /\ fallback \in SUBSET Procs /\ (~dev => fallback = {})
  /\ \A p \in Procs \ fallback, k \in Keys : store[p][k] = NoEntry
  /\ read \in [Readers -> Pending \union {NoRead}]
  /\ todo \in [Writers -> SUBSET Keys]
  /\ wrote \in [Writers -> 0..version]
  /\ acked \in 0..version
  /\ missed \in BOOLEAN

Init ==
  /\ dev \in BOOLEAN
  /\ version = 0 /\ acked = 0 /\ missed = FALSE
  /\ since = [v \in 0..MaxVersion |-> 0]
  /\ store = [s \in Stores |-> [k \in Keys |-> NoEntry]]
  /\ up = TRUE
  /\ fallback = {}
  /\ read = [r \in Readers |-> NoRead]
  /\ todo = [w \in Writers |-> {}]
  /\ wrote = [w \in Writers |-> 0]

-----------------------------------------------------------------------------
(***************************************************************************)
(* Backends: a request works on Redis, on the memory of its process once   *)
(* Redis has failed it in development, or, when Redis fails, on nothing.   *)
(***************************************************************************)
FallsBack(p) == p \notin fallback /\ ~up /\ dev

Reached(p) ==
  IF p \in fallback \/ FallsBack(p) THEN {p} ELSE IF up THEN {Redis} ELSE {}

Note(p) == fallback' = IF FallsBack(p) THEN fallback \union {p} ELSE fallback

Put(p, k, entry) ==
  store' = [s \in Stores |-> IF s \in Reached(p) THEN [store[s] EXCEPT ![k] = entry] ELSE store[s]]

-----------------------------------------------------------------------------
(***************************************************************************)
(* get_or_set_cache                                                        *)
(***************************************************************************)
\* Mutant: a hit gives its entry a new lease of life.
Hit_Sliding(r, k) ==
  /\ read[r] = NoRead
  /\ \E s \in Reached(Home[r]) : store[s][k].left > 0 /\ Put(Home[r], k, [store[s][k] EXCEPT !.left = TTL])
  /\ Note(Home[r])
  /\ UNCHANGED <<dev, version, since, up, read, todo, wrote, acked, missed>>

Hit(r, k) ==
  /\ read[r] = NoRead
  /\ \E s \in Reached(Home[r]) : store[s][k].left > 0
  /\ Note(Home[r])
  /\ UNCHANGED <<dev, version, since, store, up, read, todo, wrote, acked, missed>>

Miss(r, k) ==
  /\ read[r] = NoRead
  /\ \A s \in Reached(Home[r]) : store[s][k].left = 0
  /\ read' = [read EXCEPT ![r] = [step |-> "miss", key |-> k, ver |-> 0, age |-> 0]]
  /\ Note(Home[r])
  /\ UNCHANGED <<dev, version, since, store, up, todo, wrote, acked, missed>>

\* factory(): the response computed from the data.
Make(r) ==
  /\ read[r].step = "miss"
  /\ read' = [read EXCEPT ![r].step = "made", ![r].ver = version]
  /\ UNCHANGED <<dev, version, since, store, up, fallback, todo, wrote, acked, missed>>

Keep(r) ==
  /\ read[r].step = "made"
  /\ Put(Home[r], read[r].key, [ver |-> read[r].ver, left |-> TTL,
                                  late |-> read[r].ver < version])
  /\ read' = [read EXCEPT ![r] = NoRead]
  /\ Note(Home[r])
  /\ UNCHANGED <<dev, version, since, up, todo, wrote, acked, missed>>

-----------------------------------------------------------------------------
(***************************************************************************)
(* Writes                                                                  *)
(***************************************************************************)
Supersede ==
  /\ version < MaxVersion
  /\ version' = version + 1

\* Mutant: a request that forgets the prefix it should delete.
Write_NoDelete(w) ==
  /\ wrote[w] = 0
  /\ Supersede
  /\ wrote' = [wrote EXCEPT ![w] = version + 1]
  /\ UNCHANGED <<dev, since, store, up, fallback, read, todo, acked, missed>>

\* A request of the api commits, then deletes the keys of the prefix.
Write(w) ==
  /\ wrote[w] = 0
  /\ Supersede
  /\ wrote' = [wrote EXCEPT ![w] = version + 1]
  /\ todo' = [todo EXCEPT ![w] = Keys]
  /\ UNCHANGED <<dev, since, store, up, fallback, read, acked, missed>>

\* The scan meets one key after another; an entry set behind it is missed.
Delete(w, k) ==
  /\ k \in todo[w] /\ Reached(Home[w]) # {}
  /\ Put(Home[w], k, NoEntry)
  /\ todo' = [todo EXCEPT ![w] = @ \ {k}]
  /\ Note(Home[w])
  /\ UNCHANGED <<dev, version, since, up, read, wrote, acked, missed>>

\* Outside development a failure of Redis ends the deletion, silently.
GiveUp(w) ==
  /\ todo[w] # {} /\ Reached(Home[w]) = {}
  /\ todo' = [todo EXCEPT ![w] = {}]
  /\ missed' = TRUE
  /\ UNCHANGED <<dev, version, since, store, up, fallback, read, wrote, acked>>

Respond(w) ==
  /\ wrote[w] # 0 /\ todo[w] = {}
  /\ acked' = IF wrote[w] > acked THEN wrote[w] ELSE acked
  /\ wrote' = [wrote EXCEPT ![w] = 0]
  /\ UNCHANGED <<dev, version, since, store, up, fallback, read, todo, missed>>

\* The worker writes the same tables and knows nothing of the cache.
WorkerWrite ==
  /\ Supersede
  /\ UNCHANGED <<dev, since, store, up, fallback, read, todo, wrote, acked, missed>>

-----------------------------------------------------------------------------
Outage == up' = ~up /\ UNCHANGED <<dev, version, since, store, fallback, read, todo, wrote, acked, missed>>

CountUp(n, bound) == IF n < bound THEN n + 1 ELSE n

Tick ==
  /\ \A r \in Readers : read[r].step = "made" => read[r].age < Lag
  /\ since' = [v \in 0..MaxVersion |-> IF v < version THEN CountUp(since[v], Horizon) ELSE 0]
  /\ store' = [s \in Stores |-> [k \in Keys |->
                 IF store[s][k].left > 1 THEN [store[s][k] EXCEPT !.left = @ - 1] ELSE NoEntry]]
  /\ read' = [r \in Readers |-> IF read[r].step = "made" THEN [read[r] EXCEPT !.age = @ + 1] ELSE read[r]]
  /\ UNCHANGED <<dev, version, up, fallback, todo, wrote, acked, missed>>

Next ==
  \/ \E r \in Readers : Make(r) \/ Keep(r) \/ \E k \in Keys : Hit(r, k) \/ Miss(r, k)
  \/ \E w \in Writers : Write(w) \/ GiveUp(w) \/ Respond(w) \/ \E k \in Keys : Delete(w, k)
  \/ WorkerWrite
  \/ Outage
  \/ Tick

Spec == Init /\ [][Next]_vars

-----------------------------------------------------------------------------
(***************************************************************************)
(* Properties                                                              *)
(***************************************************************************)

\* What the entry of a backend says was true at most so long ago, however
\* requests, writes, outages and fallbacks interleave: the version it holds was
\* superseded no longer ago than the entry has lived, plus the time its request
\* took to store it.
StalenessBounded ==
  \A s \in Stores, k \in Keys :
    LET entry == store[s][k] IN
    entry.left > 0 /\ entry.ver < version => since[entry.ver] <= TTL - entry.left + Lag

\* Once a write is answered no backend holds a response from before it, but for
\* two causes: a request that had computed that response stored it after the
\* commit, or Redis failed (a deletion, or a process that has left it for its
\* memory and no longer deletes there).
AnsweredWriteIsSeen ==
  \A s \in Stores, k \in Keys :
    store[s][k].left > 0 /\ store[s][k].ver < acked =>
      store[s][k].late \/ missed \/ fallback # {}
=============================================================================
