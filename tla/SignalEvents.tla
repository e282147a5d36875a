---------------------------- MODULE SignalEvents ----------------------------
(***************************************************************************)
(* The market_signal_events table: the snapshots that follow the market    *)
(* (app.services.market_signal_events and its copy in the worker), the     *)
(* requests of app.api.market that dismiss, watch, resolve or edit an      *)
(* event, and the retention policy that deletes settled events.            *)
(*                                                                         *)
(* An event is named by its dedupe_key.  Every session reads, then writes  *)
(* by primary key and only the columns whose value differs from the one it *)
(* read; its UPDATEs lock the rows until it commits.  A snapshot reads one *)
(* event per statement.  The requests that drop cached responses after a   *)
(* commit change nothing in this table and are left to the cache.          *)
(***************************************************************************)
EXTENDS FiniteSets

CONSTANTS Keys,      \* dedupe keys
          Snappers,  \* runs of snapshot_market_signals
          Guarded,   \* those of the api, which take market_signal_snapshot
          Users,     \* concurrent requests
          Patches,   \* statuses a PATCH may set
          Wishes,    \* the keys of wishlist_target_hit signals
          NoKey

Statuses == {"open", "watching", "dismissed", "resolved"}

ASSUME SignalEventsAssumption ==
  /\ Guarded \subseteq Snappers /\ Patches \subseteq Statuses /\ NoKey \notin Keys
  /\ Wishes \subseteq Keys

VARIABLES
  event,    \* the table
  present,  \* the signals that the market data gives rise to now
  snap,     \* each snapshot: what it computed, read and decided
  user,     \* each request: what it asks for and the event it read
  doomed,   \* the events a running prune has selected
  quiet     \* history: events dismissed while no snapshot was under way, and
            \* not asked to change by a user since

vars == <<event, present, snap, user, doomed, quiet>>

-----------------------------------------------------------------------------
\* dismissed, resolved: whether that timestamp is set;  old: last_seen_at lies
\* before the cutoff of the retention policy.
Events == [status : Statuses \union {"none"}, dismissed : BOOLEAN, resolved : BOOLEAN,
           old : BOOLEAN]

NoEvent == [status |-> "none", dismissed |-> FALSE, resolved |-> FALSE, old |-> FALSE]

NewEvent == [NoEvent EXCEPT !.status = "open"]

Requests ==
  [status : {"dismissed", "watching", "resolved"}, patch : {FALSE}] \union [status : Patches, patch : {TRUE}]

Idle == [step |-> "idle", keys |-> {}, todo |-> {}, read |-> [k \in Keys |-> NoEvent], gone |-> {}]

NoRequest == [key |-> NoKey, req |-> [status |-> "dismissed", patch |-> FALSE], seen |-> NoEvent]

TypeOK ==
  /\ event \in [Keys -> Events]
  /\ present \in SUBSET Keys
  /\ snap \in [Snappers -> [step : {"idle", "reading", "flushed", "deciding"}, keys : SUBSET Keys,
                            todo : SUBSET Keys, read : [Keys -> Events], gone : SUBSET Keys]]
  /\ \A s \in Snappers : snap[s].todo \subseteq snap[s].keys /\ snap[s].gone \intersect snap[s].keys = {}
  /\ user \in [Users -> [key : Keys \union {NoKey},
                         req : Requests \union {NoRequest.req}, seen : Events]]
  /\ doomed \in SUBSET Keys
  /\ quiet \in SUBSET Keys

Init ==
  /\ event = [k \in Keys |-> NoEvent]
  /\ present = {}
  /\ snap = [s \in Snappers |-> Idle]
  /\ user = [u \in Users |-> NoRequest]
  /\ doomed = {}
  /\ quiet = {}

-----------------------------------------------------------------------------
(***************************************************************************)
(* snapshot_market_signals                                                 *)
(***************************************************************************)
Running(s) == snap[s].step # "idle"

\* The rows (and new keys) that the flushed transaction of s has locked.
Locks(s) == IF snap[s].step \in {"flushed", "deciding"} THEN snap[s].keys ELSE {}

Writable(k) == \A s \in Snappers : k \notin Locks(s)

WritableBy(s, ks) == \A t \in Snappers \ {s} : ks \intersect Locks(t) = {}

\* The worker's copy of the formulas has no wishlist_target_hit.
Computed(s) == IF s \in Guarded THEN present ELSE present \ Wishes

Start(s) ==
  /\ ~Running(s)
  /\ s \in Guarded => \A t \in Guarded : ~Running(t)
  /\ snap' = [snap EXCEPT ![s] = [Idle EXCEPT !.step = "reading", !.keys = Computed(s), !.todo = Computed(s)]]
  /\ UNCHANGED <<event, present, user, doomed, quiet>>

\* What a session remembers of a row; no write depends on last_seen_at.
Loaded(k) == [event[k] EXCEPT !.old = FALSE]

Read(s, k) ==
  /\ snap[s].step = "reading" /\ k \in snap[s].todo
  /\ snap' = [snap EXCEPT ![s].todo = @ \ {k}, ![s].read[k] = Loaded(k)]
  /\ UNCHANGED <<event, present, user, doomed, quiet>>

\* An INSERT of a key that exists by now, or an UPDATE of a row that is gone,
\* raises, and the snapshot is rolled back.
Applies(s) == \A k \in snap[s].keys : (snap[s].read[k] = NoEvent) <=> (event[k] = NoEvent)

Flush(s) ==
  /\ snap[s].step = "reading" /\ snap[s].todo = {}
  /\ WritableBy(s, snap[s].keys)
  /\ snap' = [snap EXCEPT ![s] = IF Applies(s) THEN [@ EXCEPT !.step = "flushed"] ELSE Idle]
  /\ UNCHANGED <<event, present, user, doomed, quiet>>

\* Mutant: events a user has dismissed are resolved too.
ResolveMissing_Dismissed(s) ==
  /\ snap[s].step = "flushed"
  /\ snap' = [snap EXCEPT ![s].step = "deciding",
                          ![s].gone = {k \in Keys \ snap[s].keys : event[k].status \notin {"none", "resolved"}}]
  /\ UNCHANGED <<event, present, user, doomed, quiet>>

\* Mutant: nothing is ever resolved.
ResolveMissing_None(s) ==
  /\ snap[s].step = "flushed"
  /\ snap' = [snap EXCEPT ![s].step = "deciding"]
  /\ UNCHANGED <<event, present, user, doomed, quiet>>

ResolveMissing(s) ==
  /\ snap[s].step = "flushed"
  /\ snap' = [snap EXCEPT ![s].step = "deciding",
                          ![s].gone = {k \in Keys \ snap[s].keys : event[k].status \in {"open", "watching"}}]
  /\ UNCHANGED <<event, present, user, doomed, quiet>>

\* Mutant: a resolved event is left resolved when its signal is back.
Seen_NoReopen(row, read) ==
  IF read = NoEvent THEN NewEvent ELSE [row EXCEPT !.old = FALSE]

\* What the snapshot that read an event writes over the row.
Seen(row, read) ==
  IF read = NoEvent THEN NewEvent
  ELSE [row EXCEPT !.old = FALSE,
                   !.status = IF read.status = "resolved" THEN "open" ELSE @,
                   !.resolved = @ /\ ~(read.status = "resolved" /\ read.resolved)]

Commit(s) ==
  LET keys == snap[s].keys
      gone == snap[s].gone
      kept == \A k \in gone : event[k] # NoEvent IN
  /\ snap[s].step = "deciding"
  /\ WritableBy(s, gone)
  /\ event' = IF ~kept THEN event
              ELSE [k \in Keys |->
                      IF k \in keys THEN Seen(event[k], snap[s].read[k])
                      ELSE IF k \in gone THEN [event[k] EXCEPT !.status = "resolved", !.resolved = TRUE]
                      ELSE event[k]]
  /\ snap' = [snap EXCEPT ![s] = Idle]
  /\ UNCHANGED <<present, user, doomed, quiet>>

\* Any statement may raise (a lost connection, a deadlock that the database
\* breaks), and a process may stop: the transaction is rolled back.
Abort(s) ==
  /\ Running(s)
  /\ snap' = [snap EXCEPT ![s] = Idle]
  /\ UNCHANGED <<event, present, user, doomed, quiet>>

-----------------------------------------------------------------------------
(***************************************************************************)
(* Requests: POST .../dismiss, /watch, /resolve and PATCH                  *)
(***************************************************************************)
RequestRead(u, k, req) ==
  /\ user[u] = NoRequest /\ event[k] # NoEvent
  /\ user' = [user EXCEPT ![u] = [key |-> k, req |-> req, seen |-> Loaded(k)]]
  /\ UNCHANGED <<event, present, snap, doomed, quiet>>

\* A timestamp set to now is always written, one set to NULL only where the
\* request read a value; a PATCH to the other final status leaves it alone.
Stamp(row, seen, req, own, other) ==
  IF req.status = own THEN TRUE
  ELSE IF req.patch /\ req.status = other THEN row
  ELSE row /\ ~seen

Written(row, seen, req) ==
  IF row = NoEvent THEN row
  ELSE [row EXCEPT !.status = IF seen.status = req.status THEN @ ELSE req.status,
                   !.dismissed = Stamp(@, seen.dismissed, req, "dismissed", "resolved"),
                   !.resolved = Stamp(@, seen.resolved, req, "resolved", "dismissed")]

RequestWrite(u) ==
  LET k == user[u].key IN
  /\ user[u] # NoRequest
  /\ Writable(k)
  /\ event' = [event EXCEPT ![k] = Written(@, user[u].seen, user[u].req)]
  /\ user' = [user EXCEPT ![u] = NoRequest]
  /\ quiet' = IF /\ event'[k].status = "dismissed"
                 /\ k \in quiet \/ \A s \in Snappers : ~Running(s)
              THEN quiet \union {k} ELSE quiet \ {k}
  /\ UNCHANGED <<present, snap, doomed>>

-----------------------------------------------------------------------------
(***************************************************************************)
(* prune_tables over this table: candidates are selected, then deleted by  *)
(* id.  Its lock keeps prunes from overlapping.                            *)
(***************************************************************************)
PruneSelect ==
  /\ doomed = {}
  /\ doomed' = {k \in Keys : event[k].status \in {"dismissed", "resolved"} /\ event[k].old}
  /\ doomed' # {}
  /\ UNCHANGED <<event, present, snap, user, quiet>>

PruneDelete ==
  /\ doomed # {} /\ \A k \in doomed : Writable(k)
  /\ event' = [k \in Keys |-> IF k \in doomed THEN NoEvent ELSE event[k]]
  /\ quiet' = quiet \ doomed
  /\ doomed' = {}
  /\ UNCHANGED <<present, snap, user>>

-----------------------------------------------------------------------------
\* The market moves, and time passes.
Change(k) ==
  /\ present' = IF k \in present THEN present \ {k} ELSE present \union {k}
  /\ UNCHANGED <<event, snap, user, doomed, quiet>>

Age(k) ==
  /\ event[k] # NoEvent /\ ~event[k].old
  /\ event' = [event EXCEPT ![k].old = TRUE]
  /\ UNCHANGED <<present, snap, user, doomed, quiet>>

Next ==
  \/ \E s \in Snappers : \/ Start(s) \/ Flush(s) \/ ResolveMissing(s) \/ Commit(s) \/ Abort(s)
                         \/ \E k \in Keys : Read(s, k)
  \/ \E u \in Users : RequestWrite(u) \/ \E k \in Keys, req \in Requests : RequestRead(u, k, req)
  \/ PruneSelect \/ PruneDelete
  \/ \E k \in Keys : Change(k) \/ Age(k)

Spec == Init /\ [][Next]_vars

\* Snapshots are scheduled for ever, and none of their steps fails for ever.
FairSpec ==
  /\ Spec
  /\ \A s \in Snappers : /\ WF_vars(Start(s)) /\ SF_vars(Flush(s))
                         /\ SF_vars(ResolveMissing(s)) /\ SF_vars(Commit(s))
                         /\ \A k \in Keys : SF_vars(Read(s, k))

-----------------------------------------------------------------------------
(***************************************************************************)
(* Properties                                                              *)
(***************************************************************************)

\* A dismissal made while no snapshot is under way outlasts every later one,
\* whether the signal stays, goes or comes back (the comments at
\* resolve_missing_signals and in the loop of the snapshot).
DismissalKept == \A k \in quiet : event[k].status = "dismissed"

\* A signal that lasts has an event that is not settled, again and again:
\* whatever resolves or deletes it, a later snapshot brings it back, unless a
\* user has dismissed it.
EventFollowsSignal ==
  \A k \in Keys : []<>(k \notin present) \/ []<>(event[k].status \notin {"none", "resolved"})

\* An event whose signal is gone for good does not stay open.
EventEndsWithSignal ==
  \A k \in Keys : []<>(k \in present) \/ []<>(event[k].status \notin {"open", "watching"})

\* While nobody edits events, that of a lasting signal does not go on being
\* resolved: all snapshots compute the same signals.
EventStaysWithSignal ==
  \A k \in Keys : <>[](k \in present) => <>[](event[k].status # "resolved")
=============================================================================
