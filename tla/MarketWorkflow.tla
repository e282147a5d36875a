--------------------------- MODULE MarketWorkflow ---------------------------
(***************************************************************************)
(* Price refreshes and market workflows: worker.jobs.refresh_prices and    *)
(* worker.jobs.run_market_workflow as Celery tasks of a pool of workers,   *)
(* started by the beat schedule or by the requests of app.api.admin_actions*)
(* that wait for the task's result and give up after a while.  A workflow  *)
(* holds market_workflow while its refresh holds price_refresh; the request*)
(* full-market-refresh holds market_workflow while it waits for a refresh. *)
(*                                                                         *)
(* A job is one execution from one entry point, done once.  The locks are  *)
(* those of JobLock seen from outside: acquiring never waits, and a lock   *)
(* that its dead owner left is free again when its lease lapses.  A job    *)
(* does not outlive its own leases here.  The locks of the single steps    *)
(* that the api runs are left to the modules of those steps.               *)
(***************************************************************************)
EXTENDS Integers, FiniteSets

CONSTANTS Jobs,
          Kind,    \* Jobs -> {"refresh", "workflow", "full"}
          Pool,    \* how many tasks the worker runs at a time
          Nobody

ASSUME MarketWorkflowAssumption ==
  /\ Kind \in [Jobs -> {"refresh", "workflow", "full"}]
  /\ Pool \in Nat \ {0}
  /\ Nobody \notin Jobs

VARIABLES
  job,       \* the task of each job
  refresh,   \* status of its row in price_refresh_runs
  workflow,  \* status of its row in market_workflow_runs
  req,       \* where the request is that started it
  holder,    \* the lock table
  unseen     \* for each job, the cached responses that may predate its commits

vars == <<job, refresh, workflow, req, holder, unseen>>

-----------------------------------------------------------------------------
Locks == {"price_refresh", "market_workflow"}

Products == {"prices", "snapshot", "signals", "report"}

\* Cached responses: the list of market reports, and all the others.
Responses == {"market_reports", "others"}

Showing(products) ==
  (IF products = {} THEN {} ELSE {"others"})
    \union (IF "report" \in products THEN {"market_reports"} ELSE {})

\* The steps of a refresh under its lock.
Refreshing == {"rows", "fetching", "closing", "snapshot", "signals", "report", "leaving"}

Steps == {"off", "queued", "opening", "entering", "digest", "finishing", "exiting", "done", "gone"}
           \union Refreshing

Results == {"none", "ok", "failed", "conflict"}

\* outcome: the local status of the refresh;  made: what it has committed;
\* digest: whether the digest failed.
Tasks == [step : Steps, dry : BOOLEAN, made : SUBSET Products, result : Results,
          outcome : {"none", "completed", "completed_with_warnings", "failed"},
          digest : {"none", "failed"}]

Off == [step |-> "off", dry |-> FALSE, made |-> {}, result |-> "none", outcome |-> "none",
        digest |-> "none"]

\* In these states the request of full-market-refresh holds market_workflow.
Holding == {"waiting", "snapshot", "signals", "report", "digest", "respond"}

Running(j) == job[j].step \notin {"off", "queued", "done", "gone"}

\* j is alive and inside the section that lock l guards.
Inside(j, l) ==
  \/ l = "price_refresh" /\ job[j].step \in Refreshing
  \/ l = "market_workflow" /\ Kind[j] = "full" /\ req[j] \in Holding
  \/ l = "market_workflow" /\ Kind[j] = "workflow" /\ Running(j)

TypeOK ==
  /\ job \in [Jobs -> Tasks]
  /\ refresh \in [Jobs -> {"none", "running", "completed", "completed_with_warnings", "failed"}]
  /\ workflow \in [Jobs -> {"none", "running", "success", "partial_success", "failed"}]
  /\ req \in [Jobs -> Holding \union {"none", "ok", "conflict", "error", "lost"}]
  /\ holder \in [Locks -> Jobs \union {Nobody}]
  /\ unseen \in [Jobs -> SUBSET Responses]
  /\ \A j \in Jobs : job[j].dry => job[j].made = {}
  /\ \A j \in Jobs : job[j].result = "none" <=> job[j].step # "done"

Init ==
  /\ job = [j \in Jobs |-> Off]
  /\ refresh = [j \in Jobs |-> "none"]
  /\ workflow = [j \in Jobs |-> "none"]
  /\ req = [j \in Jobs |-> "none"]
  /\ holder = [l \in Locks |-> Nobody]
  /\ unseen = [j \in Jobs |-> {}]

-----------------------------------------------------------------------------
(***************************************************************************)
(* Entry points                                                            *)
(***************************************************************************)
Unused(j) == job[j].step = "off" /\ req[j] = "none"

Queue(j, dry) == job' = [job EXCEPT ![j].step = "queued", ![j].dry = dry]

\* Beat's schedule.
Schedule(j) ==
  /\ Unused(j) /\ Kind[j] # "full"
  /\ Queue(j, FALSE)
  /\ UNCHANGED <<refresh, workflow, req, holder, unseen>>

\* POST /admin/actions/refresh-prices and /run-market-workflow
Request(j, dry) ==
  /\ Unused(j) /\ Kind[j] # "full"
  /\ req' = [req EXCEPT ![j] = "waiting"]
  /\ Queue(j, dry)
  /\ UNCHANGED <<refresh, workflow, holder, unseen>>

\* Mutant: the request looks whether a workflow runs, and takes no lock.
RequestFull_Peek(j, dry) ==
  /\ Unused(j) /\ Kind[j] = "full"
  /\ IF holder["market_workflow"] = Nobody
     THEN req' = [req EXCEPT ![j] = "waiting"] /\ Queue(j, dry)
     ELSE req' = [req EXCEPT ![j] = "conflict"] /\ UNCHANGED job
  /\ UNCHANGED <<refresh, workflow, holder, unseen>>

\* POST /admin/actions/full-market-refresh takes the workflow's lock itself.
RequestFull(j, dry) ==
  /\ Unused(j) /\ Kind[j] = "full"
  /\ \/ /\ holder["market_workflow"] = Nobody
        /\ holder' = [holder EXCEPT !["market_workflow"] = j]
        /\ req' = [req EXCEPT ![j] = "waiting"]
        /\ Queue(j, dry)
     \/ /\ holder["market_workflow"] # Nobody
        /\ req' = [req EXCEPT ![j] = "conflict"]
        /\ UNCHANGED <<holder, job>>
  /\ UNCHANGED <<refresh, workflow, unseen>>

-----------------------------------------------------------------------------
(***************************************************************************)
(* The worker: one task from its queue to its result                       *)
(***************************************************************************)
Goto(j, step) == job' = [job EXCEPT ![j].step = step]

\* A task leaves its result and, in the tables, what it made.
Ended(j, step, result) ==
  job' = [job EXCEPT ![j] = [Off EXCEPT !.step = step, !.result = result,
                                       !.dry = job[j].dry, !.made = job[j].made]]

EndWith(j, result) == Ended(j, "done", result)

\* A free worker takes the task.  A workflow acquires its lock, or reports the
\* conflict as its result (_lock_held_result).
Begin(j) ==
  /\ job[j].step = "queued"
  /\ Cardinality({i \in Jobs : Running(i)}) < Pool
  /\ \/ /\ Kind[j] # "workflow"
        /\ Goto(j, "entering")
        /\ UNCHANGED holder
     \/ /\ Kind[j] = "workflow" /\ holder["market_workflow"] = Nobody
        /\ holder' = [holder EXCEPT !["market_workflow"] = j]
        /\ Goto(j, "opening")
     \/ /\ Kind[j] = "workflow" /\ holder["market_workflow"] # Nobody
        /\ EndWith(j, "conflict")
        /\ UNCHANGED holder
  /\ UNCHANGED <<refresh, workflow, req, unseen>>

OpenWorkflow(j) ==
  /\ job[j].step = "opening"
  /\ workflow' = [workflow EXCEPT ![j] = "running"]
  /\ Goto(j, "entering")
  /\ UNCHANGED <<refresh, req, holder, unseen>>

\* Mutant: the refresh's row is inserted before its lock is asked for.
Enter_RowFirst(j) ==
  /\ job[j].step = "entering"
  /\ refresh' = [refresh EXCEPT ![j] = "running"]
  /\ \/ /\ holder["price_refresh"] = Nobody
        /\ holder' = [holder EXCEPT !["price_refresh"] = j]
        /\ Goto(j, "rows")
        /\ UNCHANGED workflow
     \/ /\ holder["price_refresh"] # Nobody
        /\ IF Kind[j] = "workflow"
           THEN Goto(j, "exiting") /\ workflow' = [workflow EXCEPT ![j] = "failed"]
           ELSE EndWith(j, "conflict") /\ UNCHANGED workflow
        /\ UNCHANGED holder
  /\ UNCHANGED <<req, unseen>>

\* Mutant: skip_lock reaches the nested refresh.
Enter_NoLock(j) ==
  /\ job[j].step = "entering"
  /\ holder' = [holder EXCEPT !["price_refresh"] = IF @ = Nobody THEN j ELSE @]
  /\ Goto(j, "rows")
  /\ UNCHANGED <<refresh, workflow, req, unseen>>

\* refresh_prices acquires its lock.  Refused, a refresh reports the conflict;
\* a workflow has its "except Exception" mark it failed.
Enter(j) ==
  /\ job[j].step = "entering"
  /\ \/ /\ holder["price_refresh"] = Nobody
        /\ holder' = [holder EXCEPT !["price_refresh"] = j]
        /\ Goto(j, "rows")
        /\ UNCHANGED workflow
     \/ /\ holder["price_refresh"] # Nobody
        /\ IF Kind[j] = "workflow"
           THEN Goto(j, "exiting") /\ workflow' = [workflow EXCEPT ![j] = "failed"]
           ELSE EndWith(j, "conflict") /\ UNCHANGED workflow
        /\ UNCHANGED holder
  /\ UNCHANGED <<refresh, req, unseen>>

OpenRefresh(j) ==
  /\ job[j].step = "rows"
  /\ refresh' = [refresh EXCEPT ![j] = "running"]
  /\ Goto(j, "fetching")
  /\ UNCHANGED <<workflow, req, holder, unseen>>

\* What a fetch may have committed: nothing in a dry run; if it fails, the
\* prices all the same when it is an adapter's close that raised.
Fetched(dry, outcome) ==
  {made \in {{}, {"prices"}} : /\ dry => made = {}
                               /\ ~dry /\ outcome # "failed" => made # {}}

\* All mappings in one transaction, rolled back by a dry run or by an exception
\* that comes before the commit.
Fetch(j, outcome) ==
  /\ job[j].step = "fetching"
  /\ \E made \in Fetched(job[j].dry, outcome) :
       /\ job' = [job EXCEPT ![j].step = "closing", ![j].outcome = outcome, ![j].made = made]
       /\ unseen' = [unseen EXCEPT ![j] = @ \union Showing(made)]
  /\ UNCHANGED <<refresh, workflow, req, holder>>

CloseRefresh(j) ==
  /\ job[j].step = "closing"
  /\ refresh' = [refresh EXCEPT ![j] = job[j].outcome]
  /\ Goto(j, IF job[j].dry \/ job[j].outcome = "failed" THEN "leaving" ELSE "snapshot")
  /\ UNCHANGED <<workflow, req, holder, unseen>>

After(step) ==
  CASE step = "snapshot" -> "signals"
    [] step = "signals" -> "report"
    [] step = "report" -> "leaving"

\* Mutant: a step that fails has the whole refresh done again.
Produce_Retry(j, good) ==
  LET product == job[j].step IN
  /\ product \in {"snapshot", "signals", "report"}
  /\ job' = [job EXCEPT ![j].step = IF good THEN After(product) ELSE "fetching",
                        ![j].made = IF good THEN @ \union {product} ELSE @]
  /\ unseen' = [unseen EXCEPT ![j] = @ \union IF good THEN Showing({product}) ELSE {}]
  /\ UNCHANGED <<refresh, workflow, req, holder>>

\* The three follow-up steps: one that raises is logged and passed over.
Produce(j, good) ==
  LET product == job[j].step IN
  /\ product \in {"snapshot", "signals", "report"}
  /\ job' = [job EXCEPT ![j].step = After(product),
                        ![j].made = IF good THEN @ \union {product} ELSE @]
  /\ unseen' = [unseen EXCEPT ![j] = @ \union IF good THEN Showing({product}) ELSE {}]
  /\ UNCHANGED <<refresh, workflow, req, holder>>

\* release_lock; then a refresh has its result, a workflow goes on.
Leave(j) ==
  /\ job[j].step = "leaving"
  /\ holder' = [holder EXCEPT !["price_refresh"] = Nobody]
  /\ IF Kind[j] # "workflow" THEN EndWith(j, IF job[j].outcome = "failed" THEN "failed" ELSE "ok")
     ELSE Goto(j, IF "report" \in job[j].made THEN "digest" ELSE "finishing")
  /\ UNCHANGED <<refresh, workflow, req, unseen>>

\* send_market_report_digest, if it was asked for: sent or skipped, or failed.
Digest(j, status) ==
  /\ job[j].step = "digest"
  /\ job' = [job EXCEPT ![j].step = "finishing", ![j].digest = status]
  /\ UNCHANGED <<refresh, workflow, req, holder, unseen>>

\* Mutant: a missing report is no warning.
Warned_NoReport(t) ==
  \/ t.outcome = "completed_with_warnings"
  \/ ~t.dry /\ ~({"snapshot", "signals"} \subseteq t.made)
  \/ t.digest = "failed"

Warned(t) ==
  \/ t.outcome = "completed_with_warnings"
  \/ ~t.dry /\ ~({"snapshot", "signals", "report"} \subseteq t.made)
  \/ t.digest = "failed"

Finish(j) ==
  /\ job[j].step = "finishing"
  /\ workflow' = [workflow EXCEPT ![j] =
                    IF job[j].outcome = "failed" THEN "failed"
                    ELSE IF Warned(job[j]) THEN "partial_success" ELSE "success"]
  /\ Goto(j, "exiting")
  /\ UNCHANGED <<refresh, req, holder, unseen>>

Exit(j) ==
  /\ job[j].step = "exiting"
  /\ holder' = [holder EXCEPT !["market_workflow"] = Nobody]
  /\ EndWith(j, IF workflow[j] = "failed" THEN "failed" ELSE "ok")
  /\ UNCHANGED <<refresh, workflow, req, unseen>>

-----------------------------------------------------------------------------
(***************************************************************************)
(* What goes wrong in the worker                                           *)
(***************************************************************************)
\* The locks that the task of j holds.
TaskLocks(j) == {l \in Locks : holder[l] = j /\ (Kind[j] = "full" => l = "price_refresh")}

Freed(L) == [l \in Locks |-> IF l \in L THEN Nobody ELSE holder[l]]

\* Mutant: the handler of the workflow does not record the failure.
RefreshRaises_Unrecorded(j) ==
  /\ Kind[j] = "workflow" /\ job[j].step \in Refreshing \union {"entering"}
  /\ Goto(j, "exiting")
  /\ \E L \in SUBSET (TaskLocks(j) \ {"market_workflow"}) : holder' = Freed(L)
  /\ UNCHANGED <<refresh, workflow, req, unseen>>

\* refresh_prices raises inside a workflow: a commit that fails, or the release
\* of its lock, which may leave the lock held.
RefreshRaises(j) ==
  /\ Kind[j] = "workflow" /\ job[j].step \in Refreshing \union {"entering"}
  /\ workflow' = [workflow EXCEPT ![j] = "failed"]
  /\ Goto(j, "exiting")
  /\ \E L \in SUBSET (TaskLocks(j) \ {"market_workflow"}) : holder' = Freed(L)
  /\ UNCHANGED <<refresh, req, unseen>>

\* The task ends in an exception that nothing catches, or its process dies;
\* either way there is no result and its rows stay as they are.
Break(j) ==
  /\ Running(j)
  /\ Ended(j, "gone", "none")
  /\ \E L \in SUBSET TaskLocks(j) : holder' = Freed(L)
  /\ UNCHANGED <<refresh, workflow, req, unseen>>

\* The lease of a lock that a dead job has left lapses.
Lapse(l) ==
  /\ holder[l] # Nobody /\ ~Inside(holder[l], l)
  /\ holder' = [holder EXCEPT ![l] = Nobody]
  /\ UNCHANGED <<job, refresh, workflow, req, unseen>>

-----------------------------------------------------------------------------
(***************************************************************************)
(* The requests                                                            *)
(***************************************************************************)
ReleaseFull(j) ==
  holder' = IF Kind[j] = "full" /\ holder["market_workflow"] = j
            THEN [holder EXCEPT !["market_workflow"] = Nobody] ELSE holder

\* Mutant: async_result.get() without a timeout.
Timeout_Never(j) == FALSE /\ UNCHANGED vars

\* The request ends with 502, because its time is up, while its task goes on,
\* queued or running, or because the task has raised.
Timeout(j) ==
  /\ req[j] = "waiting" /\ job[j].result = "none"
  /\ req' = [req EXCEPT ![j] = "error"]
  /\ ReleaseFull(j)
  /\ UNCHANGED <<job, refresh, workflow, unseen>>

\* The lock the task was refused: 409.
Refused(j) ==
  /\ req[j] = "waiting" /\ job[j].result = "conflict"
  /\ req' = [req EXCEPT ![j] = "conflict"]
  /\ ReleaseFull(j)
  /\ UNCHANGED <<job, refresh, workflow, unseen>>

\* The responses that each trigger drops: the list of the price refresh lacks
\* the prefix market_reports.
Dropped(j) == IF Kind[j] = "workflow" THEN Responses ELSE {"others"}

Drop(responses) == unseen' = [j \in Jobs |-> unseen[j] \ responses]

\* Mutant: the prefixes are deleted when the task is sent, not when it is done.
Answer_NoDelete(j) ==
  /\ req[j] = "waiting" /\ job[j].result \in {"ok", "failed"}
  /\ req' = [req EXCEPT ![j] = IF Kind[j] # "full" THEN "ok"
                               ELSE IF job[j].dry THEN "respond" ELSE "snapshot"]
  /\ UNCHANGED <<job, refresh, workflow, holder, unseen>>

\* The result arrives in time; responses are dropped unless the run failed.
Answer(j) ==
  /\ req[j] = "waiting" /\ job[j].result \in {"ok", "failed"}
  /\ req' = [req EXCEPT ![j] = IF Kind[j] # "full" THEN "ok"
                               ELSE IF job[j].dry THEN "respond" ELSE "snapshot"]
  /\ Drop(IF job[j].dry \/ job[j].result = "failed" THEN {} ELSE Dropped(j))
  /\ UNCHANGED <<job, refresh, workflow, holder>>

\* full-market-refresh repeats the follow-up steps in the api, after a failed
\* refresh too; of the responses only the list of reports is shown here to be
\* dropped, the others show more than the product of one step.
Follow(j, good) ==
  LET product == req[j] IN
  /\ product \in {"snapshot", "signals", "report"}
  /\ req' = [req EXCEPT ![j] = IF product # "report" THEN After(product)
                               ELSE IF good THEN "digest" ELSE "respond"]
  /\ Drop(IF good /\ product = "report" THEN {"market_reports"} ELSE {})
  /\ UNCHANGED <<job, refresh, workflow, holder>>

FollowDigest(j) ==
  /\ req[j] = "digest"
  /\ req' = [req EXCEPT ![j] = "respond"]
  /\ UNCHANGED <<job, refresh, workflow, holder, unseen>>

Respond(j) ==
  /\ req[j] = "respond"
  /\ req' = [req EXCEPT ![j] = "ok"]
  /\ ReleaseFull(j)
  /\ UNCHANGED <<job, refresh, workflow, unseen>>

\* The api's process dies and the lock of a full refresh stays held; any other
\* request may as well have timed out.
RequestDies(j) ==
  /\ Kind[j] = "full" /\ req[j] \in Holding
  /\ req' = [req EXCEPT ![j] = "lost"]
  /\ UNCHANGED <<job, refresh, workflow, holder, unseen>>

-----------------------------------------------------------------------------
Work(j) ==
  \/ Begin(j) \/ OpenWorkflow(j) \/ Enter(j) \/ OpenRefresh(j)
  \/ \E outcome \in {"completed", "completed_with_warnings", "failed"} : Fetch(j, outcome)
  \/ CloseRefresh(j)
  \/ \E good \in BOOLEAN : Produce(j, good)
  \/ Leave(j)
  \/ \E status \in {"none", "failed"} : Digest(j, status)
  \/ Finish(j) \/ Exit(j)

Reply(j) ==
  \/ Refused(j) \/ Answer(j) \/ FollowDigest(j) \/ Respond(j)
  \/ \E good \in BOOLEAN : Follow(j, good)

Next ==
  \/ \E j \in Jobs :
       \/ Schedule(j) \/ \E dry \in BOOLEAN : Request(j, dry) \/ RequestFull(j, dry)
       \/ Work(j) \/ RefreshRaises(j) \/ Break(j)
       \/ Reply(j) \/ Timeout(j) \/ RequestDies(j)
  \/ \E l \in Locks : Lapse(l)

Spec == Init /\ [][Next]_vars

\* Workers and requests go on, and a timeout runs out.
FairSpec ==
  Spec /\ \A j \in Jobs : WF_vars(Work(j)) /\ WF_vars(Reply(j)) /\ WF_vars(Timeout(j))

-----------------------------------------------------------------------------
(***************************************************************************)
(* Properties                                                              *)
(***************************************************************************)

Section(l) == {j \in Jobs : Inside(j, l)}

RefreshLease ==
  INSTANCE ExclusiveLease WITH Runs <- Jobs, LockNames <- {"price_refresh"},
    LockOf <- [j \in Jobs |-> "price_refresh"], working <- Section("price_refresh"),
    holder <- [l \in {"price_refresh"} |-> holder[l]]

WorkflowLease ==
  INSTANCE ExclusiveLease WITH Runs <- Jobs, LockNames <- {"market_workflow"},
    LockOf <- [j \in Jobs |-> "market_workflow"], working <- Section("market_workflow"),
    holder <- [l \in {"market_workflow"} |-> holder[l]]

\* Refreshes, nested in a workflow or not, exclude one another as ExclusiveLease
\* promises, and no two are ever at work at once, whatever breaks or times out
\* in between (refresh_prices).
RefreshesExclude ==
  RefreshLease!Spec /\ [](Cardinality(Section("price_refresh")) <= 1)

\* So do workflows in the worker and full refreshes in the api, of which one
\* holds the lock while the work is done by another process
\* (run_market_workflow, full_market_refresh_action).
WorkflowsExclude ==
  WorkflowLease!Spec /\ [](Cardinality(Section("market_workflow")) <= 1)

\* A workflow that reports success has every product of its own refresh behind
\* it, and no step that failed (the warnings of _run_market_workflow_locked).
SuccessIsComplete ==
  \A j \in Jobs : workflow[j] = "success" =>
    /\ refresh[j] = "completed"
    /\ job[j].dry \/ job[j].made = Products
    /\ job[j].digest # "failed"

\* A conflict (409) means that nothing was done: no row of the job is there and
\* nothing of it is committed (the docstring of refresh_prices).
ConflictDidNothing ==
  \A j \in Jobs : job[j].result = "conflict" \/ req[j] = "conflict" =>
    refresh[j] = "none" /\ workflow[j] = "none" /\ job[j].made = {}

\* No run stays "running" once its task has ended with a result, but the
\* refresh row of a workflow that recorded its failure.
NoStrandedRun ==
  \A j \in Jobs : job[j].step = "done" =>
    workflow[j] # "running" /\ (refresh[j] = "running" => workflow[j] = "failed")

\* Once a request is answered for a run that did not fail, the responses that
\* were cached before that run are gone, but for the list of market reports
\* after a bare price refresh.
AnsweredRunIsSeen ==
  \A j \in Jobs : req[j] = "ok" /\ job[j].result = "ok" =>
    "others" \notin unseen[j] /\ (Kind[j] = "workflow" => unseen[j] = {})

\* A task that a worker can take ends, whatever fails or is refused on its way.
EveryTaskEnds == \A j \in Jobs : (job[j].step = "queued") ~> (job[j].step \in {"done", "gone"})

\* A request is answered, whatever becomes of its task.
EveryRequestEnds == \A j \in Jobs : (req[j] = "waiting") ~> (req[j] \notin Holding)
=============================================================================
