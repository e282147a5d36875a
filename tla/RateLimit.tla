----------------------------- MODULE RateLimit ------------------------------
(***************************************************************************)
(* The API's rate limit: fixed windows, one counter per route group and    *)
(* client, in the memory of one process whose event loop runs one request  *)
(* at a time up to its answer.                                             *)
(***************************************************************************)
EXTENDS Naturals, FiniteSets, Sequences

CONSTANTS Clients,
          Routes,      \* requests: see Group
          Limit,       \* of every group
          Window,      \* _WINDOW_SECONDS of every group
          MaxTime, MaxRequests  \* bounds

Groups == {"public_read", "collection_write", "admin", "import_export", "search"}

RateLimitAssumption ==
  /\ Limit \in [Groups -> Nat \ {0}] /\ Window \in [Groups -> Nat \ {0}]
  /\ MaxTime \in Nat /\ MaxRequests \in Nat

ImportExport ==
  {"/admin/backup/export", "/admin/backup/validate", "/admin/backup/restore", "/admin/db-backups",
   "/collection/import.csv", "/collection/export.csv", "/wishlist/import.csv", "/wishlist/export.csv"}

\* classify_route: the first group that applies, if any.  A route has a path,
\* a prefix of it and a method.
Group(route) ==
  CASE route.path = "/health" -> {}
    [] route.path \in {"/search", "/search/suggestions"} -> {"search"}
    [] route.path \in ImportExport -> {"import_export"}
    [] route.prefix \in {"/admin", "/snkrdunk"} /\ route.path \notin ImportExport -> {"admin"}
    [] OTHER ->
         IF route.method = "GET" THEN {"public_read"}
         ELSE IF /\ route.method \in {"POST", "PUT", "PATCH", "DELETE"}
                 /\ route.prefix \in {"/collection", "/wishlist", "/grading", "/collector/notes"}
         THEN {"collection_write"} ELSE {}

VARIABLES
  now,
  state,    \* by group and client: window_index and count
  logged,   \* by group and client: the window of the last 429 in the log
  asked,    \* number of requests
  answers   \* history: by group and client, the requests in their order: when,
            \* let through or turned away, and put into the log or not

vars == <<now, state, logged, asked, answers>>

Keys == (UNION {Group(route) : route \in Routes}) \X Clients
None == MaxTime + 1   \* no window
NoState == [window |-> None, count |-> 0]
NoAnswers == [k \in Keys |-> <<>>]

TypeOK ==
  /\ now \in 0..MaxTime
  /\ \A k \in Keys : state[k].window \in 0..None /\ state[k].count \in 0..MaxRequests
  /\ logged \in [Keys -> 0..None]

Init ==
  /\ now = 0 /\ state = [k \in Keys |-> NoState] /\ logged = [k \in Keys |-> None]
  /\ asked = 0 /\ answers = NoAnswers

-----------------------------------------------------------------------------
\* Mutant: a counter is never started anew.
Counter_Kept(k) == state[k]

\* The key's counter, a new one in a new window.
Counter(k) ==
  LET window == now \div Window[k[1]] IN
  IF state[k].window = window THEN state[k] ELSE [window |-> window, count |-> 0]

Request(client, route) ==
  /\ asked < MaxRequests /\ asked' = asked + 1
  /\ \E g \in Group(route) :
       LET k == <<g, client>>
           count == Counter(k).count + 1
           window == now \div Window[g]
           allowed == count <= Limit[g] IN
       /\ state' = [state EXCEPT ![k] = [window |-> window, count |-> count]]
       /\ logged' = IF allowed THEN logged ELSE [logged EXCEPT ![k] = window]
       /\ answers' = [answers EXCEPT ![k] =
            Append(@, [at |-> now, through |-> allowed, logged |-> ~allowed /\ logged[k] # window])]
  /\ UNCHANGED now

\* rate_limit_status drops the counters of earlier windows.
Status ==
  /\ state' = [k \in Keys |-> IF state[k].window = now \div Window[k[1]] THEN state[k] ELSE NoState]
  /\ UNCHANGED <<now, logged, asked, answers>>

Tick == now < MaxTime /\ now' = now + 1 /\ UNCHANGED <<state, logged, asked, answers>>

\* The process starts anew with empty counters; nothing is promised about the
\* answers of the one before.
Restart ==
  /\ state' = [k \in Keys |-> NoState] /\ logged' = [k \in Keys |-> None]
  /\ answers' = NoAnswers
  /\ UNCHANGED <<now, asked>>

Next ==
  \/ \E client \in Clients, route \in Routes : Request(client, route)
  \/ Status \/ Tick \/ Restart

Spec == Init /\ [][Next]_vars

-----------------------------------------------------------------------------
(***************************************************************************)
(* Properties                                                              *)
(***************************************************************************)

Answered(k, times) == {n \in DOMAIN answers[k] : answers[k][n].at \in times}
Through(k, times) == {n \in Answered(k, times) : answers[k][n].through}

\* A client is turned away only when its limit for the group has been let
\* through in the same window, whatever other clients, groups and windows saw
\* and however often the status is looked at; across the edge of two windows
\* no span as long as one lets more than twice the limit through; and a window
\* leaves one entry in the log.
WindowsHold ==
  \A k \in Keys, t \in 0..MaxTime :
    LET w == Window[k[1]]
        window == {u \in 0..MaxTime : u \div w = t \div w}
        span == {u \in 0..MaxTime : t <= u /\ u < t + w} IN
    /\ Cardinality(Through(k, window)) <= Limit[k[1]]
    /\ Through(k, window) # Answered(k, window) => Cardinality(Through(k, window)) = Limit[k[1]]
    /\ Cardinality(Through(k, span)) <= 2 * Limit[k[1]]
    /\ \A m, n \in Answered(k, window) : answers[k][m].logged /\ answers[k][n].logged => m = n
=============================================================================
