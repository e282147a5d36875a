------------------------ MODULE MarketWorkflowProofs ------------------------
(***************************************************************************)
(* Theorems about MarketWorkflow, for any number of refreshes, workflows   *)
(* and full refreshes and a pool of any size.                              *)
(***************************************************************************)
EXTENDS MarketWorkflow, FiniteSetTheorems, TLAPS

Outcomes == {"none", "completed", "completed_with_warnings", "failed"}

\* What TypeOK says of the task of one job and of the row of its refresh.
Sound(t) ==
  /\ t \in Tasks
  /\ t.dry => t.made = {}
  /\ t.result = "none" <=> t.step # "done"

\* What a run has left in its rows, at each place where its task can be.
Recorded(t, kind, status, run) ==
  /\ kind # "workflow" =>
       run = "none" /\ t.step \notin {"opening", "digest", "finishing", "exiting"}
  /\ t.step \in {"off", "queued", "opening"} => run = "none"
  /\ t.step \in {"entering", "digest", "finishing"} \union Refreshing /\ kind = "workflow" =>
       run = "running"
  /\ t.step \in {"exiting", "done"} => run # "running" /\ (status = "running" => run = "failed")
  /\ t.step \in {"off", "queued", "opening", "entering", "rows"} => status = "none"
  /\ t.step \in {"off", "queued", "opening", "entering", "rows", "fetching"} => t.made = {}
  /\ t.step \in {"fetching", "closing"} => status = "running"
  /\ t.step \in {"snapshot", "signals", "report"} => ~t.dry /\ t.outcome # "failed"
  /\ t.step \in {"snapshot", "signals", "report", "leaving", "digest", "finishing"} =>
       status = t.outcome
  /\ t.step \in {"closing", "snapshot", "signals", "report", "leaving", "digest", "finishing"} =>
       /\ t.outcome # "none"
       /\ t.dry => t.made = {}
       /\ t.dry \/ t.outcome = "failed" \/ "prices" \in t.made
  /\ t.result = "conflict" => status = "none" /\ run = "none" /\ t.made = {}
  /\ run = "success" =>
       /\ t.step \in {"exiting", "done", "gone"}
       /\ status = "completed"
       /\ t.dry \/ t.made = Products
       /\ t.digest # "failed"

RunInv ==
  \A j \in Jobs : /\ Recorded(job[j], Kind[j], refresh[j], workflow[j])
                  /\ req[j] = "conflict" => job[j].step = "off" \/ job[j].result = "conflict"

\* Who is inside the section of a lock holds it.
LockInv == \A l \in Locks : \A j \in Section(l) : holder[l] = j
-----------------------------------------------------------------------------
Statuses == {"none", "running", "completed", "completed_with_warnings", "failed"}
Verdicts == {"none", "running", "success", "partial_success", "failed"}
Replies == Holding \union {"none", "ok", "conflict", "error", "lost"}

\* What TypeOK says of everything but the tasks.
Surroundings ==
  /\ refresh \in [Jobs -> Statuses]
  /\ workflow \in [Jobs -> Verdicts]
  /\ req \in [Jobs -> Replies]
  /\ holder \in [Locks -> Jobs \union {Nobody}]
  /\ unseen \in [Jobs -> SUBSET Responses]

LEMMA TypeOKParts ==
  TypeOK <=> /\ Surroundings
             /\ job \in [Jobs -> Tasks]
             /\ \A j \in Jobs : Sound(job[j])
  BY DEF TypeOK, Surroundings, Sound, Statuses, Verdicts, Replies

\* Only the task, the rows and the request of one job change.
LEMMA OneJob ==
  ASSUME TypeOK, RunInv, NEW j \in Jobs, NEW x,
         job' = [job EXCEPT ![j] = x], Surroundings',
         Sound(x), Recorded(x, Kind[j], refresh'[j], workflow'[j]),
         \A i \in Jobs \ {j} :
           refresh'[i] = refresh[i] /\ workflow'[i] = workflow[i] /\ req'[i] = req[i],
         req'[j] = "conflict" => x.step = "off" \/ x.result = "conflict"
  PROVE  TypeOK' /\ RunInv'
<1>1. job \in [Jobs -> Tasks] /\ \A i \in Jobs : Sound(job[i])
  BY TypeOKParts
<1>2. job'[j] = x /\ (\A i \in Jobs \ {j} : job'[i] = job[i]) /\ job' \in [Jobs -> Tasks]
  BY <1>1 DEF Sound
<1>3. \A i \in Jobs : Sound(job'[i])
  BY <1>1, <1>2
<1>4. TypeOK'
  BY <1>2, <1>3 DEF TypeOK, Surroundings, Sound, Statuses, Verdicts, Replies
<1>5. RunInv'
  BY <1>2 DEF RunInv
<1>6. QED
  BY <1>4, <1>5

\* No task changes, nor any row; requests may.
LEMMA NoJob ==
  ASSUME TypeOK, RunInv, Surroundings', UNCHANGED <<job, refresh, workflow>>,
         \A j \in Jobs : req'[j] = "conflict" =>
           req[j] = "conflict" \/ job[j].step = "off" \/ job[j].result = "conflict"
  PROVE  TypeOK' /\ RunInv'
<1>1. TypeOK'
  BY TypeOKParts DEF TypeOK, Surroundings, Sound, Statuses, Verdicts, Replies
<1>2. RunInv'
  BY DEF RunInv
<1>3. QED
  BY <1>1, <1>2

\* A task that goes on.
LEMMA Moved ==
  ASSUME NEW t \in Tasks, NEW step \in Steps
  PROVE  LET x == [t EXCEPT !.step = step]
         IN  /\ x \in Tasks /\ x.step = step /\ x.dry = t.dry /\ x.made = t.made
             /\ x.result = t.result /\ x.outcome = t.outcome /\ x.digest = t.digest
  BY DEF Tasks

\* The types and the record of every run hold together: a dry run has
\* committed nothing because of where its task is.
LEMMA RunInvStep == TypeOK /\ RunInv /\ [Next]_vars => TypeOK' /\ RunInv'
<1> SUFFICES ASSUME TypeOK, RunInv, [Next]_vars PROVE TypeOK' /\ RunInv'
  OBVIOUS
<1> USE MarketWorkflowAssumption
<1> DEFINE Others(j) == \A i \in Jobs \ {j} :
             refresh'[i] = refresh[i] /\ workflow'[i] = workflow[i] /\ req'[i] = req[i]
<1>0. /\ Surroundings
      /\ job \in [Jobs -> Tasks]
      /\ \A j \in Jobs : /\ Sound(job[j])
                         /\ Recorded(job[j], Kind[j], refresh[j], workflow[j])
                         /\ req[j] = "conflict" => job[j].step = "off" \/ job[j].result = "conflict"
                         /\ Kind[j] \in {"refresh", "workflow", "full"}
                         /\ refresh[j] \in Statuses /\ workflow[j] \in Verdicts /\ req[j] \in Replies
  BY TypeOKParts DEF RunInv, Surroundings
<1> DEFINE Quiet == /\ holder' \in [Locks -> Jobs \union {Nobody}]
                    /\ unseen' \in [Jobs -> SUBSET Responses]
\* A task that moves, or ends, while the rows and the request stay.
<1>1. ASSUME NEW j \in Jobs, NEW step \in Steps \ {"done"}, Goto(j, step), job[j].step \notin {"off", "done"},
             UNCHANGED req, Quiet,
             NEW status \in Statuses, refresh' = [refresh EXCEPT ![j] = status],
             NEW run \in Verdicts, workflow' = [workflow EXCEPT ![j] = run],
             \A x \in Tasks : /\ x.step = step /\ x.dry = job[j].dry /\ x.made = job[j].made
                             /\ x.result = job[j].result /\ x.outcome = job[j].outcome
                             /\ x.digest = job[j].digest
                             => Recorded(x, Kind[j], status, run)
      PROVE  TypeOK' /\ RunInv'
  <2> DEFINE x == [job[j] EXCEPT !.step = step]
  <2>1. job' = [job EXCEPT ![j] = x]
    BY <1>0, <1>1 DEF Goto
  <2>2. Surroundings' /\ Others(j)
    BY <1>0, <1>1 DEF Surroundings
  <2>3. /\ x \in Tasks /\ x.step = step /\ x.dry = job[j].dry /\ x.made = job[j].made
        /\ x.result = job[j].result /\ x.outcome = job[j].outcome /\ x.digest = job[j].digest
    BY <1>0, Moved
  <2>4. refresh'[j] = status /\ workflow'[j] = run /\ req'[j] = req[j]
    BY <1>0, <1>1 DEF Surroundings
  <2>5. Recorded(x, Kind[j], refresh'[j], workflow'[j])
    BY <1>1, <2>3, <2>4
  <2> HIDE DEF x
  <2>6. Sound(x)
    BY <1>0, <1>1, <2>3, <2>4 DEF Sound
  <2>7. req'[j] = "conflict" => x.step = "off" \/ x.result = "conflict"
    BY <1>0, <1>1, <2>3, <2>4 DEF Sound
  <2>8. QED
    BY <2>1, <2>2, <2>5, <2>6, <2>7, OneJob
<1>2. ASSUME NEW j \in Jobs, NEW step \in {"done", "gone"}, NEW result \in Results,
             Ended(j, step, result), step = "done" <=> result # "none",
             job[j].step \notin {"off", "done"},
             UNCHANGED <<refresh, workflow, req>>, Quiet,
             step = "done" => workflow[j] # "running"
                              /\ (refresh[j] = "running" => workflow[j] = "failed"),
             result = "conflict" =>
               refresh[j] = "none" /\ workflow[j] = "none" /\ job[j].made = {}
      PROVE  TypeOK' /\ RunInv'
  <2> DEFINE x == [Off EXCEPT !.step = step, !.result = result,
                              !.dry = job[j].dry, !.made = job[j].made]
  <2>1. job' = [job EXCEPT ![j] = x]
    BY <1>0, <1>2 DEF Ended
  <2>2. Surroundings' /\ Others(j)
    BY <1>0, <1>2 DEF Surroundings
  <2>3. /\ x \in Tasks /\ x.step = step /\ x.dry = job[j].dry /\ x.made = job[j].made
        /\ x.result = result /\ x.outcome = "none" /\ x.digest = "none"
    <3>1. job[j] \in Tasks
      BY <1>0
    <3>2. QED
      BY <3>1 DEF Tasks, Off, Steps, Results
  <2>4. refresh'[j] = refresh[j] /\ workflow'[j] = workflow[j] /\ req'[j] = req[j]
    BY <1>0, <1>2 DEF Surroundings
  <2> HIDE DEF x
  <2>5. Sound(x)
    BY <1>0, <1>2, <2>3, <2>4 DEF Sound
  <2>6. Recorded(x, Kind[j], refresh'[j], workflow'[j])
    <3>1. Recorded(job[j], Kind[j], refresh[j], workflow[j])
      BY <1>0
    <3>2. QED
      BY <1>2, <2>3, <2>4, <3>1 DEF Recorded, Refreshing
  <2>7. req[j] # "conflict"
    BY <1>0, <1>2 DEF Sound
  <2>8. QED
    BY <2>1, <2>2, <2>4, <2>5, <2>6, <2>7, OneJob
<1>3. ASSUME NEW j \in Jobs, NEW dry \in BOOLEAN,
             (Schedule(j) /\ ~dry) \/ Request(j, dry) \/ RequestFull(j, dry)
      PROVE  TypeOK' /\ RunInv'
  <2>1. ASSUME Queue(j, dry), Unused(j), UNCHANGED <<refresh, workflow, unseen>>,
               req'[j] # "conflict", req' \in [Jobs -> Replies],
               \A i \in Jobs \ {j} : req'[i] = req[i],
               holder' \in [Locks -> Jobs \union {Nobody}]
        PROVE  TypeOK' /\ RunInv'
    <3> DEFINE x == [job[j] EXCEPT !.step = "queued", !.dry = dry]
    <3>1. job' = [job EXCEPT ![j] = x]
      BY <1>0, <2>1 DEF Queue
    <3>2. Surroundings' /\ Others(j) /\ refresh'[j] = refresh[j] /\ workflow'[j] = workflow[j]
      BY <1>0, <2>1 DEF Surroundings
    <3>3. job[j] \in Tasks /\ job[j].step = "off"
      BY <1>0, <2>1 DEF Unused
    <3>4. /\ x \in Tasks /\ x.step = "queued" /\ x.made = job[j].made /\ x.result = job[j].result
      BY <3>3 DEF Tasks, Steps
    <3> HIDE DEF x
    <3>5. Sound(x)
      BY <1>0, <3>2, <3>3, <3>4 DEF Sound, Recorded
    <3>6. Recorded(x, Kind[j], refresh'[j], workflow'[j])
      BY <1>0, <3>2, <3>3, <3>4 DEF Sound, Recorded, Refreshing
    <3>7. QED
      BY <2>1, <3>1, <3>2, <3>5, <3>6, OneJob
  <2>2. CASE Schedule(j) /\ ~dry
    BY <1>0, <2>1, <2>2 DEF Schedule, Unused, Surroundings
  <2>3. CASE Request(j, dry)
    BY <1>0, <2>1, <2>3 DEF Request, Unused, Surroundings, Replies, Holding
  <2>4. CASE RequestFull(j, dry) /\ holder["market_workflow"] = Nobody
    BY <1>0, <2>1, <2>4 DEF RequestFull, Unused, Surroundings, Replies, Holding, Locks
  <2>5. CASE RequestFull(j, dry) /\ holder["market_workflow"] # Nobody
    <3>1. Surroundings' /\ UNCHANGED <<job, refresh, workflow>>
      BY <1>0, <2>5 DEF RequestFull, Surroundings, Replies
    <3>2. \A i \in Jobs : req'[i] = "conflict" => req[i] = "conflict" \/ job[i].step = "off"
      BY <1>0, <2>5 DEF RequestFull, Unused, Surroundings
    <3>3. QED
      BY <3>1, <3>2, NoJob
  <2>6. QED
    BY <1>3, <2>2, <2>3, <2>4, <2>5
<1>4. /\ refresh = [j \in Jobs |-> refresh[j]] /\ workflow = [j \in Jobs |-> workflow[j]]
      /\ holder = [l \in Locks |-> holder[l]] /\ unseen = [j \in Jobs |-> unseen[j]]
  BY <1>0 DEF Surroundings
<1>5. ASSUME NEW j \in Jobs, Begin(j) PROVE TypeOK' /\ RunInv'
  <2>1. job[j].step \notin {"off", "done"} /\ UNCHANGED req /\ Quiet
    BY <1>0, <1>5 DEF Begin, Surroundings, Locks
  <2>2. /\ Recorded(job[j], Kind[j], refresh[j], workflow[j]) /\ Sound(job[j])
        /\ job[j].outcome \in Statuses \ {"running"}
    BY <1>0 DEF Tasks, Statuses
  <2>3. CASE Kind[j] # "workflow"
    <3>1. /\ Goto(j, "entering") /\ "entering" \in Steps \ {"done"}
          /\ refresh' = [refresh EXCEPT ![j] = refresh[j]]
          /\ workflow' = [workflow EXCEPT ![j] = workflow[j]]
      BY <1>4, <1>5, <2>3 DEF Begin, Steps, Refreshing
    <3>3. refresh[j] \in Statuses /\ workflow[j] \in Verdicts
      BY <1>0, <2>2 DEF Statuses, Verdicts
    <3>4. ASSUME NEW x \in Tasks, x.step = "entering", x.dry = job[j].dry, x.made = job[j].made,
                 x.result = job[j].result, x.outcome = job[j].outcome, x.digest = job[j].digest
          PROVE  Recorded(x, Kind[j], refresh[j], workflow[j])
      BY <1>5, <2>2, <2>3, <3>4 DEF Begin, Recorded, Sound, Refreshing
    <3>5. QED
      BY <1>1, <2>1, <3>1, <3>3, <3>4
  <2>4. CASE Kind[j] = "workflow" /\ holder["market_workflow"] = Nobody
    <3>1. /\ Goto(j, "opening") /\ "opening" \in Steps \ {"done"}
          /\ refresh' = [refresh EXCEPT ![j] = refresh[j]]
          /\ workflow' = [workflow EXCEPT ![j] = workflow[j]]
      BY <1>4, <1>5, <2>4 DEF Begin, Steps, Refreshing
    <3>3. refresh[j] \in Statuses /\ workflow[j] \in Verdicts
      BY <1>0, <2>2 DEF Statuses, Verdicts
    <3>4. ASSUME NEW x \in Tasks, x.step = "opening", x.dry = job[j].dry, x.made = job[j].made,
                 x.result = job[j].result, x.outcome = job[j].outcome, x.digest = job[j].digest
          PROVE  Recorded(x, Kind[j], refresh[j], workflow[j])
      BY <1>5, <2>2, <2>4, <3>4 DEF Begin, Recorded, Sound, Refreshing
    <3>5. QED
      BY <1>1, <2>1, <3>1, <3>3, <3>4
  <2>5. CASE Kind[j] = "workflow" /\ holder["market_workflow"] # Nobody
    <3>1. Ended(j, "done", "conflict") /\ UNCHANGED <<refresh, workflow>>
      BY <1>5, <2>5 DEF Begin, EndWith
    <3>2. /\ workflow[j] # "running" /\ (refresh[j] = "running" => workflow[j] = "failed")
          /\ refresh[j] = "none" /\ workflow[j] = "none" /\ job[j].made = {}
      BY <1>5, <2>2, <2>5 DEF Begin, Recorded
    <3>3. QED
      BY <1>2, <2>1, <3>1, <3>2 DEF Results
  <2>6. QED
    BY <2>3, <2>4, <2>5
<1>6. ASSUME NEW j \in Jobs, OpenWorkflow(j) PROVE TypeOK' /\ RunInv'
  <2>1. job[j].step \notin {"off", "done"} /\ UNCHANGED req /\ Quiet
    BY <1>0, <1>6 DEF OpenWorkflow, Surroundings
  <2>2. /\ Recorded(job[j], Kind[j], refresh[j], workflow[j]) /\ Sound(job[j])
        /\ job[j].outcome \in Statuses \ {"running"}
    BY <1>0 DEF Tasks, Statuses
  <2>3. /\ Goto(j, "entering") /\ "entering" \in Steps \ {"done"}
        /\ refresh' = [refresh EXCEPT ![j] = refresh[j]]
        /\ workflow' = [workflow EXCEPT ![j] = "running"]
    BY <1>4, <1>6 DEF OpenWorkflow, Steps, Refreshing
  <2>5. refresh[j] \in Statuses /\ "running" \in Verdicts
    BY <1>0, <2>2 DEF Statuses, Verdicts
  <2>6. ASSUME NEW x \in Tasks, x.step = "entering", x.dry = job[j].dry, x.made = job[j].made,
               x.result = job[j].result, x.outcome = job[j].outcome, x.digest = job[j].digest
        PROVE  Recorded(x, Kind[j], refresh[j], "running")
    BY <1>6, <2>2, <2>6 DEF OpenWorkflow, Recorded, Sound, Refreshing
  <2>7. QED
    BY <1>1, <2>1, <2>3, <2>5, <2>6
<1>7. ASSUME NEW j \in Jobs, Enter(j) PROVE TypeOK' /\ RunInv'
  <2>1. job[j].step \notin {"off", "done"} /\ UNCHANGED req /\ Quiet
    BY <1>0, <1>7 DEF Enter, Surroundings, Locks
  <2>2. /\ Recorded(job[j], Kind[j], refresh[j], workflow[j]) /\ Sound(job[j])
        /\ job[j].outcome \in Statuses \ {"running"}
    BY <1>0 DEF Tasks, Statuses
  <2>3. CASE holder["price_refresh"] = Nobody
    <3>1. /\ Goto(j, "rows") /\ "rows" \in Steps \ {"done"}
          /\ refresh' = [refresh EXCEPT ![j] = refresh[j]]
          /\ workflow' = [workflow EXCEPT ![j] = workflow[j]]
      BY <1>4, <1>7, <2>3 DEF Enter, Steps, Refreshing
    <3>3. refresh[j] \in Statuses /\ workflow[j] \in Verdicts
      BY <1>0, <2>2 DEF Statuses, Verdicts
    <3>4. ASSUME NEW x \in Tasks, x.step = "rows", x.dry = job[j].dry, x.made = job[j].made,
                 x.result = job[j].result, x.outcome = job[j].outcome, x.digest = job[j].digest
          PROVE  Recorded(x, Kind[j], refresh[j], workflow[j])
      BY <1>7, <2>2, <2>3, <3>4 DEF Enter, Recorded, Sound, Refreshing
    <3>5. QED
      BY <1>1, <2>1, <3>1, <3>3, <3>4
  <2>4. CASE holder["price_refresh"] # Nobody /\ Kind[j] = "workflow"
    <3>1. /\ Goto(j, "exiting") /\ "exiting" \in Steps \ {"done"}
          /\ refresh' = [refresh EXCEPT ![j] = refresh[j]]
          /\ workflow' = [workflow EXCEPT ![j] = "failed"]
      BY <1>4, <1>7, <2>4 DEF Enter, Steps, Refreshing
    <3>3. refresh[j] \in Statuses /\ "failed" \in Verdicts
      BY <1>0, <2>2 DEF Statuses, Verdicts
    <3>4. ASSUME NEW x \in Tasks, x.step = "exiting", x.dry = job[j].dry, x.made = job[j].made,
                 x.result = job[j].result, x.outcome = job[j].outcome, x.digest = job[j].digest
          PROVE  Recorded(x, Kind[j], refresh[j], "failed")
      BY <1>7, <2>2, <2>4, <3>4 DEF Enter, Recorded, Sound, Refreshing
    <3>5. QED
      BY <1>1, <2>1, <3>1, <3>3, <3>4
  <2>5. CASE holder["price_refresh"] # Nobody /\ Kind[j] # "workflow"
    <3>1. Ended(j, "done", "conflict") /\ UNCHANGED <<refresh, workflow>>
      BY <1>7, <2>5 DEF Enter, EndWith
    <3>2. /\ workflow[j] # "running" /\ (refresh[j] = "running" => workflow[j] = "failed")
          /\ refresh[j] = "none" /\ workflow[j] = "none" /\ job[j].made = {}
      BY <1>7, <2>2, <2>5 DEF Enter, Recorded
    <3>3. QED
      BY <1>2, <2>1, <3>1, <3>2 DEF Results
  <2>6. QED
    BY <2>3, <2>4, <2>5
<1>8. ASSUME NEW j \in Jobs, OpenRefresh(j) PROVE TypeOK' /\ RunInv'
  <2>1. job[j].step \notin {"off", "done"} /\ UNCHANGED req /\ Quiet
    BY <1>0, <1>8 DEF OpenRefresh, Surroundings
  <2>2. /\ Recorded(job[j], Kind[j], refresh[j], workflow[j]) /\ Sound(job[j])
        /\ job[j].outcome \in Statuses \ {"running"}
    BY <1>0 DEF Tasks, Statuses
  <2>3. /\ Goto(j, "fetching") /\ "fetching" \in Steps \ {"done"}
        /\ refresh' = [refresh EXCEPT ![j] = "running"]
        /\ workflow' = [workflow EXCEPT ![j] = workflow[j]]
    BY <1>4, <1>8 DEF OpenRefresh, Steps, Refreshing
  <2>5. "running" \in Statuses /\ workflow[j] \in Verdicts
    BY <1>0, <2>2 DEF Statuses, Verdicts
  <2>6. ASSUME NEW x \in Tasks, x.step = "fetching", x.dry = job[j].dry, x.made = job[j].made,
               x.result = job[j].result, x.outcome = job[j].outcome, x.digest = job[j].digest
        PROVE  Recorded(x, Kind[j], "running", workflow[j])
    BY <1>8, <2>2, <2>6 DEF OpenRefresh, Recorded, Sound, Refreshing
  <2>7. QED
    BY <1>1, <2>1, <2>3, <2>5, <2>6
<1>9. ASSUME NEW j \in Jobs, CloseRefresh(j) PROVE TypeOK' /\ RunInv'
  <2>1. job[j].step \notin {"off", "done"} /\ UNCHANGED req /\ Quiet
    BY <1>0, <1>9 DEF CloseRefresh, Surroundings
  <2>2. /\ Recorded(job[j], Kind[j], refresh[j], workflow[j]) /\ Sound(job[j])
        /\ job[j].outcome \in Statuses \ {"running"}
    BY <1>0 DEF Tasks, Statuses
  <2>3. CASE job[j].dry \/ job[j].outcome = "failed"
    <3>1. /\ Goto(j, "leaving") /\ "leaving" \in Steps \ {"done"}
          /\ refresh' = [refresh EXCEPT ![j] = job[j].outcome]
          /\ workflow' = [workflow EXCEPT ![j] = workflow[j]]
      BY <1>4, <1>9, <2>3 DEF CloseRefresh, Steps, Refreshing
    <3>3. job[j].outcome \in Statuses /\ workflow[j] \in Verdicts
      BY <1>0, <2>2 DEF Statuses, Verdicts
    <3>4. ASSUME NEW x \in Tasks, x.step = "leaving", x.dry = job[j].dry, x.made = job[j].made,
                 x.result = job[j].result, x.outcome = job[j].outcome, x.digest = job[j].digest
          PROVE  Recorded(x, Kind[j], job[j].outcome, workflow[j])
      BY <1>9, <2>2, <2>3, <3>4 DEF CloseRefresh, Recorded, Sound, Refreshing
    <3>5. QED
      BY <1>1, <2>1, <3>1, <3>3, <3>4
  <2>4. CASE ~(job[j].dry \/ job[j].outcome = "failed")
    <3>1. /\ Goto(j, "snapshot") /\ "snapshot" \in Steps \ {"done"}
          /\ refresh' = [refresh EXCEPT ![j] = job[j].outcome]
          /\ workflow' = [workflow EXCEPT ![j] = workflow[j]]
      BY <1>4, <1>9, <2>4 DEF CloseRefresh, Steps, Refreshing
    <3>3. job[j].outcome \in Statuses /\ workflow[j] \in Verdicts
      BY <1>0, <2>2 DEF Statuses, Verdicts
    <3>4. ASSUME NEW x \in Tasks, x.step = "snapshot", x.dry = job[j].dry, x.made = job[j].made,
                 x.result = job[j].result, x.outcome = job[j].outcome, x.digest = job[j].digest
          PROVE  Recorded(x, Kind[j], job[j].outcome, workflow[j])
      BY <1>9, <2>2, <2>4, <3>4 DEF CloseRefresh, Recorded, Sound, Refreshing
    <3>5. QED
      BY <1>1, <2>1, <3>1, <3>3, <3>4
  <2>5. QED
    BY <2>3, <2>4
<1>10. ASSUME NEW j \in Jobs, Leave(j) PROVE TypeOK' /\ RunInv'
  <2>1. job[j].step \notin {"off", "done"} /\ UNCHANGED req /\ Quiet
    BY <1>0, <1>10 DEF Leave, Surroundings
  <2>2. /\ Recorded(job[j], Kind[j], refresh[j], workflow[j]) /\ Sound(job[j])
        /\ job[j].outcome \in Statuses \ {"running"}
    BY <1>0 DEF Tasks, Statuses
  <2>3. CASE Kind[j] # "workflow" /\ job[j].outcome = "failed"
    <3>1. Ended(j, "done", "failed") /\ UNCHANGED <<refresh, workflow>>
      BY <1>10, <2>3 DEF Leave, EndWith
    <3>2. workflow[j] # "running" /\ (refresh[j] = "running" => workflow[j] = "failed")
      BY <1>10, <2>2, <2>3 DEF Leave, Recorded
    <3>3. QED
      BY <1>2, <2>1, <3>1, <3>2 DEF Results
  <2>4. CASE Kind[j] # "workflow" /\ job[j].outcome # "failed"
    <3>1. Ended(j, "done", "ok") /\ UNCHANGED <<refresh, workflow>>
      BY <1>10, <2>4 DEF Leave, EndWith
    <3>2. workflow[j] # "running" /\ (refresh[j] = "running" => workflow[j] = "failed")
      BY <1>10, <2>2, <2>4 DEF Leave, Recorded
    <3>3. QED
      BY <1>2, <2>1, <3>1, <3>2 DEF Results
  <2>5. CASE Kind[j] = "workflow" /\ "report" \in job[j].made
    <3>1. /\ Goto(j, "digest") /\ "digest" \in Steps \ {"done"}
          /\ refresh' = [refresh EXCEPT ![j] = refresh[j]]
          /\ workflow' = [workflow EXCEPT ![j] = workflow[j]]
      BY <1>4, <1>10, <2>5 DEF Leave, Steps, Refreshing
    <3>3. refresh[j] \in Statuses /\ workflow[j] \in Verdicts
      BY <1>0, <2>2 DEF Statuses, Verdicts
    <3>4. ASSUME NEW x \in Tasks, x.step = "digest", x.dry = job[j].dry, x.made = job[j].made,
                 x.result = job[j].result, x.outcome = job[j].outcome, x.digest = job[j].digest
          PROVE  Recorded(x, Kind[j], refresh[j], workflow[j])
      BY <1>10, <2>2, <2>5, <3>4 DEF Leave, Recorded, Sound, Refreshing
    <3>5. QED
      BY <1>1, <2>1, <3>1, <3>3, <3>4
  <2>6. CASE Kind[j] = "workflow" /\ "report" \notin job[j].made
    <3>1. /\ Goto(j, "finishing") /\ "finishing" \in Steps \ {"done"}
          /\ refresh' = [refresh EXCEPT ![j] = refresh[j]]
          /\ workflow' = [workflow EXCEPT ![j] = workflow[j]]
      BY <1>4, <1>10, <2>6 DEF Leave, Steps, Refreshing
    <3>3. refresh[j] \in Statuses /\ workflow[j] \in Verdicts
      BY <1>0, <2>2 DEF Statuses, Verdicts
    <3>4. ASSUME NEW x \in Tasks, x.step = "finishing", x.dry = job[j].dry, x.made = job[j].made,
                 x.result = job[j].result, x.outcome = job[j].outcome, x.digest = job[j].digest
          PROVE  Recorded(x, Kind[j], refresh[j], workflow[j])
      BY <1>10, <2>2, <2>6, <3>4 DEF Leave, Recorded, Sound, Refreshing
    <3>5. QED
      BY <1>1, <2>1, <3>1, <3>3, <3>4
  <2>7. QED
    BY <2>3, <2>4, <2>5, <2>6
<1>11. ASSUME NEW j \in Jobs, Exit(j) PROVE TypeOK' /\ RunInv'
  <2>1. job[j].step \notin {"off", "done"} /\ UNCHANGED req /\ Quiet
    BY <1>0, <1>11 DEF Exit, Surroundings
  <2>2. /\ Recorded(job[j], Kind[j], refresh[j], workflow[j]) /\ Sound(job[j])
        /\ job[j].outcome \in Statuses \ {"running"}
    BY <1>0 DEF Tasks, Statuses
  <2>3. CASE workflow[j] = "failed"
    <3>1. Ended(j, "done", "failed") /\ UNCHANGED <<refresh, workflow>>
      BY <1>11, <2>3 DEF Exit, EndWith
    <3>2. workflow[j] # "running" /\ (refresh[j] = "running" => workflow[j] = "failed")
      BY <1>11, <2>2, <2>3 DEF Exit, Recorded
    <3>3. QED
      BY <1>2, <2>1, <3>1, <3>2 DEF Results
  <2>4. CASE workflow[j] # "failed"
    <3>1. Ended(j, "done", "ok") /\ UNCHANGED <<refresh, workflow>>
      BY <1>11, <2>4 DEF Exit, EndWith
    <3>2. workflow[j] # "running" /\ (refresh[j] = "running" => workflow[j] = "failed")
      BY <1>11, <2>2, <2>4 DEF Exit, Recorded
    <3>3. QED
      BY <1>2, <2>1, <3>1, <3>2 DEF Results
  <2>5. QED
    BY <2>3, <2>4
<1>12. ASSUME NEW j \in Jobs, RefreshRaises(j) PROVE TypeOK' /\ RunInv'
  <2>1. job[j].step \notin {"off", "done"} /\ UNCHANGED req /\ Quiet
    BY <1>0, <1>12 DEF RefreshRaises, Surroundings, Locks, Refreshing, Freed, TaskLocks
  <2>2. /\ Recorded(job[j], Kind[j], refresh[j], workflow[j]) /\ Sound(job[j])
        /\ job[j].outcome \in Statuses \ {"running"}
    BY <1>0 DEF Tasks, Statuses
  <2>3. /\ Goto(j, "exiting") /\ "exiting" \in Steps \ {"done"}
        /\ refresh' = [refresh EXCEPT ![j] = refresh[j]]
        /\ workflow' = [workflow EXCEPT ![j] = "failed"]
    BY <1>4, <1>12 DEF RefreshRaises, Steps, Refreshing
  <2>5. refresh[j] \in Statuses /\ "failed" \in Verdicts
    BY <1>0, <2>2 DEF Statuses, Verdicts
  <2>6. ASSUME NEW x \in Tasks, x.step = "exiting", x.dry = job[j].dry, x.made = job[j].made,
               x.result = job[j].result, x.outcome = job[j].outcome, x.digest = job[j].digest
        PROVE  Recorded(x, Kind[j], refresh[j], "failed")
    BY <1>12, <2>2, <2>6 DEF RefreshRaises, Recorded, Sound, Refreshing
  <2>7. QED
    BY <1>1, <2>1, <2>3, <2>5, <2>6
<1>13. ASSUME NEW j \in Jobs, Finish(j) PROVE TypeOK' /\ RunInv'
  <2> DEFINE run == IF job[j].outcome = "failed" THEN "failed"
                    ELSE IF Warned(job[j]) THEN "partial_success" ELSE "success"
  <2>1. job[j].step = "finishing" /\ Goto(j, "exiting") /\ UNCHANGED req /\ Quiet
    BY <1>0, <1>13 DEF Finish, Surroundings
  <2>2. /\ refresh' = [refresh EXCEPT ![j] = refresh[j]]
        /\ workflow' = [workflow EXCEPT ![j] = run]
    BY <1>4, <1>13 DEF Finish
  <2>3. /\ Recorded(job[j], Kind[j], refresh[j], workflow[j]) /\ Sound(job[j])
        /\ job[j].outcome \in Statuses \ {"running"} /\ job[j].made \in SUBSET Products
    BY <1>0 DEF Tasks, Statuses
  <2>4. run \in Verdicts \ {"running"} /\ refresh[j] = job[j].outcome /\ Kind[j] = "workflow"
    BY <2>1, <2>3 DEF Verdicts, Recorded
  <2>5. ASSUME run = "success"
        PROVE  /\ job[j].outcome = "completed" /\ job[j].digest # "failed"
               /\ job[j].dry \/ job[j].made = Products
    <3>1. ~Warned(job[j]) /\ job[j].outcome # "failed"
      BY <2>5
    <3>2. job[j].outcome = "completed" /\ job[j].digest # "failed"
      BY <2>1, <2>3, <3>1 DEF Warned, Recorded, Statuses
    <3>3. job[j].dry \/ job[j].made = Products
      BY <2>1, <2>3, <3>1 DEF Warned, Recorded, Products
    <3>4. QED
      BY <3>2, <3>3
  <2> HIDE DEF run
  <2>6. ASSUME NEW x \in Tasks, x.step = "exiting", x.dry = job[j].dry, x.made = job[j].made,
               x.result = job[j].result, x.outcome = job[j].outcome, x.digest = job[j].digest
        PROVE  Recorded(x, Kind[j], refresh[j], run)
    BY <2>1, <2>3, <2>4, <2>5, <2>6 DEF Recorded, Sound, Refreshing, Verdicts
  <2>7. "exiting" \in Steps \ {"done"}
    BY <2>3 DEF Steps, Sound
  <2>8. QED
    BY <1>0, <1>1, <2>1, <2>2, <2>4, <2>6, <2>7
\* A task that does more than to move.
<1>14. ASSUME NEW j \in Jobs, NEW x \in Tasks, job' = [job EXCEPT ![j] = x],
              x.step \notin {"off", "done"}, job[j].step \notin {"off", "done"},
              x.result = job[j].result, UNCHANGED <<refresh, workflow, req>>, Quiet,
              x.dry => x.made = {},
              Recorded(x, Kind[j], refresh[j], workflow[j])
       PROVE  TypeOK' /\ RunInv'
  <2>1. Surroundings' /\ Others(j) /\ UNCHANGED <<refresh[j], workflow[j], req[j]>>
    BY <1>0, <1>14 DEF Surroundings
  <2>2. Sound(x) /\ req[j] # "conflict"
    BY <1>0, <1>14 DEF Sound
  <2>3. QED
    BY <1>14, <2>1, <2>2, OneJob
<1>15. ASSUME NEW j \in Jobs, NEW outcome \in {"completed", "completed_with_warnings", "failed"},
              Fetch(j, outcome)
       PROVE  TypeOK' /\ RunInv'
  <2>0. PICK made \in Fetched(job[j].dry, outcome) :
          /\ job' = [job EXCEPT ![j].step = "closing", ![j].outcome = outcome, ![j].made = made]
          /\ unseen' = [unseen EXCEPT ![j] = @ \union Showing(made)]
    BY <1>15 DEF Fetch
  <2> DEFINE x == [job[j] EXCEPT !.step = "closing", !.outcome = outcome, !.made = made]
  <2>1. /\ job' = [job EXCEPT ![j] = x] /\ job[j].step = "fetching"
        /\ UNCHANGED <<refresh, workflow, req, holder>>
    BY <1>0, <1>15, <2>0 DEF Fetch
  <2>2. /\ x \in Tasks /\ x.step = "closing" /\ x.outcome = outcome /\ x.made = made
        /\ x.dry = job[j].dry /\ x.result = job[j].result /\ x.digest = job[j].digest
    <3>1. job[j] \in Tasks /\ made \in SUBSET Products
      BY <1>0, <2>0 DEF Fetched, Products
    <3>2. QED
      BY <3>1 DEF Tasks, Steps, Refreshing
  <2> HIDE DEF x
  <2>3. Quiet
    BY <1>0, <1>15, <2>0 DEF Fetch, Surroundings, Showing, Responses
  <2>4. Recorded(job[j], Kind[j], refresh[j], workflow[j]) /\ Sound(job[j])
    BY <1>0
  <2>5. Recorded(x, Kind[j], refresh[j], workflow[j]) /\ (x.dry => x.made = {})
    BY <2>0, <2>1, <2>2, <2>4 DEF Recorded, Refreshing, Sound, Fetched
  <2>6. QED
    BY <1>14, <2>1, <2>2, <2>3, <2>5
<1>16. ASSUME NEW j \in Jobs, NEW good \in BOOLEAN, Produce(j, good) PROVE TypeOK' /\ RunInv'
  <2> DEFINE product == job[j].step
             made == IF good THEN job[j].made \union {product} ELSE job[j].made
             x == [job[j] EXCEPT !.step = After(product), !.made = made]
  <2>1. /\ job' = [job EXCEPT ![j] = x] /\ product \in {"snapshot", "signals", "report"}
        /\ UNCHANGED <<refresh, workflow, req, holder>>
    BY <1>0, <1>16 DEF Produce
  <2>2. After(product) \in {"signals", "report", "leaving"}
    BY <2>1 DEF After
  <2>3. /\ x \in Tasks /\ x.step = After(product) /\ x.outcome = job[j].outcome /\ x.made = made
        /\ x.dry = job[j].dry /\ x.result = job[j].result /\ x.digest = job[j].digest
    <3>1. job[j] \in Tasks /\ made \in SUBSET Products /\ After(product) \in Steps
      BY <1>0, <2>1, <2>2 DEF Products, Tasks, Steps, Refreshing
    <3> HIDE DEF made, product
    <3>2. QED
      BY <3>1 DEF Tasks
  <2> HIDE DEF x
  <2>4. Quiet
    BY <1>0, <1>16, <2>1 DEF Produce, Surroundings, Showing, Responses
  <2>5. Recorded(job[j], Kind[j], refresh[j], workflow[j]) /\ Sound(job[j])
    BY <1>0
  <2>6. refresh[j] = job[j].outcome /\ job[j].outcome # "failed" /\ ~job[j].dry
    BY <2>1, <2>5 DEF Recorded
  <2>7. Recorded(x, Kind[j], refresh[j], workflow[j])
    BY <2>1, <2>2, <2>3, <2>5, <2>6 DEF Recorded, Refreshing, Sound
  <2>8. QED
    BY <1>14, <2>1, <2>2, <2>3, <2>4, <2>6, <2>7
<1>17. ASSUME NEW j \in Jobs, NEW status \in {"none", "failed"}, Digest(j, status)
       PROVE  TypeOK' /\ RunInv'
  <2> DEFINE x == [job[j] EXCEPT !.step = "finishing", !.digest = status]
  <2>1. /\ job' = [job EXCEPT ![j] = x] /\ job[j].step = "digest"
        /\ UNCHANGED <<refresh, workflow, req, holder, unseen>>
    BY <1>0, <1>17 DEF Digest
  <2>2. /\ x \in Tasks /\ x.step = "finishing" /\ x.outcome = job[j].outcome
        /\ x.made = job[j].made /\ x.dry = job[j].dry /\ x.result = job[j].result
    <3>1. job[j] \in Tasks
      BY <1>0
    <3>2. QED
      BY <3>1 DEF Tasks, Steps
  <2> HIDE DEF x
  <2>3. Recorded(job[j], Kind[j], refresh[j], workflow[j]) /\ Sound(job[j]) /\ Quiet
    BY <1>0, <2>1 DEF Surroundings
  <2>4. Recorded(x, Kind[j], refresh[j], workflow[j])
    BY <2>1, <2>2, <2>3 DEF Recorded, Refreshing, Sound
  <2>5. QED
    BY <1>14, <2>1, <2>2, <2>3, <2>4 DEF Sound
<1>18. ASSUME NEW j \in Jobs, Break(j) PROVE TypeOK' /\ RunInv'
  <2>1. job[j].step \notin {"off", "done"} /\ Ended(j, "gone", "none") /\ UNCHANGED <<refresh, workflow, req>>
    BY <1>18 DEF Break, Running
  <2>2. Quiet
    BY <1>0, <1>18 DEF Break, Surroundings, Freed, TaskLocks, Locks
  <2>3. QED
    BY <1>2, <2>1, <2>2 DEF Results
<1>19. ASSUME NEW j \in Jobs,
              Timeout(j) \/ Refused(j) \/ Answer(j) \/ FollowDigest(j) \/ Respond(j) \/ RequestDies(j)
       PROVE  TypeOK' /\ RunInv'
  <2>1. Surroundings' /\ UNCHANGED <<job, refresh, workflow>>
    BY <1>0, <1>19 DEF Timeout, Refused, Answer, FollowDigest, Respond, RequestDies, Drop,
         ReleaseFull, Surroundings, Replies, Holding, Locks
  <2>2. \A i \in Jobs : req'[i] = "conflict" => req[i] = "conflict" \/ job[i].result = "conflict"
    BY <1>0, <1>19 DEF Timeout, Refused, Answer, FollowDigest, Respond, RequestDies, Surroundings
  <2>3. QED
    BY <2>1, <2>2, NoJob
<1>20. ASSUME NEW j \in Jobs, NEW good \in BOOLEAN, Follow(j, good) PROVE TypeOK' /\ RunInv'
  <2>1. Surroundings' /\ UNCHANGED <<job, refresh, workflow>>
    BY <1>0, <1>20 DEF Follow, Drop, After, Surroundings, Replies, Holding
  <2>2. \A i \in Jobs : req'[i] = "conflict" => req[i] = "conflict"
    BY <1>0, <1>20 DEF Follow, After, Surroundings
  <2>3. QED
    BY <2>1, <2>2, NoJob
<1>21. ASSUME NEW l \in Locks, Lapse(l) PROVE TypeOK' /\ RunInv'
  BY <1>0, <1>21, NoJob DEF Lapse, Surroundings
<1>22. CASE UNCHANGED vars
  BY <1>0, <1>22, NoJob DEF vars, Surroundings
<1>23. QED
  <2>1. ASSUME NEW j \in Jobs, Work(j) PROVE TypeOK' /\ RunInv'
    BY <1>5, <1>6, <1>7, <1>8, <1>9, <1>10, <1>11, <1>13, <1>15, <1>16, <1>17, <2>1 DEF Work
  <2>2. ASSUME NEW j \in Jobs, Reply(j) PROVE TypeOK' /\ RunInv'
    BY <1>19, <1>20, <2>2 DEF Reply
  <2>3. QED
    BY <1>3, <1>12, <1>18, <1>19, <1>21, <1>22, <2>1, <2>2 DEF Next
-----------------------------------------------------------------------------
\* What a step may do to one lock and to the section that it guards.
Taken(l, j) ==
  /\ holder[l] = Nobody /\ holder'[l] = j
  /\ ~Inside(j, l) /\ Section(l)' = Section(l) \union {j}

GivenUp(l, j) ==
  /\ holder'[l] \in {holder[l], Nobody}
  /\ Inside(j, l) /\ Section(l)' = Section(l) \ {j}

Kept(l) ==
  /\ holder'[l] = holder[l] \/ (holder'[l] = Nobody /\ Section(l) = {})
  /\ Section(l)' = Section(l)

LockStep(l) == Kept(l) \/ \E j \in Jobs : Taken(l, j) \/ GivenUp(l, j)

\* Where a task is after it has moved or ended.
LEMMA StepAfter ==
  ASSUME TypeOK, NEW j \in Jobs, NEW step,
         Goto(j, step) \/ \E result \in Results : Ended(j, step, result)
  PROVE  job'[j].step = step /\ \A i \in Jobs \ {j} : job'[i] = job[i]
<1>1. job \in [Jobs -> Tasks]
  BY TypeOKParts
<1>2. CASE Goto(j, step)
  BY <1>1, <1>2 DEF Goto, Tasks
<1>3. ASSUME NEW result \in Results, Ended(j, step, result)
      PROVE  job'[j].step = step /\ \A i \in Jobs \ {j} : job'[i] = job[i]
  <2> DEFINE x == [Off EXCEPT !.step = step, !.result = result,
                              !.dry = job[j].dry, !.made = job[j].made]
  <2>1. x.step = step
    BY DEF Off
  <2>2. job' = [job EXCEPT ![j] = x]
    BY <1>3 DEF Ended
  <2> HIDE DEF x
  <2>3. QED
    BY <1>1, <2>1, <2>2
<1>4. QED
  BY <1>2, <1>3

\* A step of one job, seen from the section.
LEMMA OneInside ==
  ASSUME NEW l \in Locks, NEW j \in Jobs,
         \A i \in Jobs \ {j} : (Inside(i, l)' <=> Inside(i, l))
  PROVE  /\ Inside(j, l)' /\ Inside(j, l) => Section(l)' = Section(l)
         /\ ~Inside(j, l)' /\ ~Inside(j, l) => Section(l)' = Section(l)
         /\ Inside(j, l)' /\ ~Inside(j, l) => Section(l)' = Section(l) \union {j}
         /\ ~Inside(j, l)' /\ Inside(j, l) => Section(l)' = Section(l) \ {j}
  BY DEF Section

\* A lock whose holder is outside has an empty section.
LEMMA Abandoned ==
  ASSUME LockInv, NEW l \in Locks, NEW j \in Jobs, holder[l] = j, ~Inside(j, l)
  PROVE  Section(l) = {}
  BY DEF LockInv, Section

\* Every step of the two programs does one of these to price_refresh.
LEMMA RefreshLockStep == TypeOK /\ LockInv /\ [Next]_vars => LockStep("price_refresh")
<1> SUFFICES ASSUME TypeOK, LockInv, [Next]_vars PROVE LockStep("price_refresh")
  OBVIOUS
<1> DEFINE pr == "price_refresh"
<1>0. /\ job \in [Jobs -> Tasks] /\ holder \in [Locks -> Jobs \union {Nobody}] /\ pr \in Locks
      /\ "market_workflow" # pr
  BY DEF TypeOK, Locks
<1>1. \A j \in Jobs : /\ Inside(j, pr) <=> job[j].step \in Refreshing
                      /\ Inside(j, pr)' <=> job'[j].step \in Refreshing
  BY DEF Inside
<1> HIDE DEF pr
\* The steps that neither enter nor leave the section.
<1>2. ASSUME holder'[pr] = holder[pr],
             \A i \in Jobs : job'[i].step \in Refreshing <=> job[i].step \in Refreshing
      PROVE  LockStep(pr)
  BY <1>1, <1>2 DEF LockStep, Kept, Section
<1>3. ASSUME NEW j \in Jobs, NEW dry \in BOOLEAN,
             Schedule(j) \/ Request(j, dry) \/ RequestFull(j, dry)
      PROVE  LockStep(pr)
  <2>1. holder'[pr] = holder[pr]
    BY <1>0, <1>3 DEF Schedule, Request, RequestFull
  <2>2. \A i \in Jobs : job'[i].step \in Refreshing <=> job[i].step \in Refreshing
    BY <1>0, <1>3 DEF Schedule, Request, RequestFull, Queue, Unused, Refreshing, Tasks
  <2>3. QED
    BY <1>2, <2>1, <2>2
<1>4. ASSUME NEW j \in Jobs, Begin(j) \/ OpenWorkflow(j) \/ Finish(j) \/ Exit(j)
      PROVE  LockStep(pr)
  <2>1. holder'[pr] = holder[pr]
    BY <1>0, <1>4 DEF Begin, OpenWorkflow, Finish, Exit
  <2>2. /\ job[j].step \in {"queued", "opening", "finishing", "exiting"}
        /\ \/ \E step \in {"opening", "entering", "exiting"} : Goto(j, step)
           \/ \E result \in Results : Ended(j, "done", result)
    BY <1>4 DEF Begin, OpenWorkflow, Finish, Exit, EndWith, Results
  <2>3. /\ job'[j].step \in {"opening", "entering", "exiting", "done"}
        /\ \A i \in Jobs \ {j} : job'[i] = job[i]
    BY <2>2, StepAfter
  <2>4. QED
    BY <1>2, <2>1, <2>2, <2>3 DEF Refreshing
<1>5. ASSUME NEW j \in Jobs, Enter(j) PROVE LockStep(pr)
  <2>1. \A i \in Jobs \ {j} : (Inside(i, pr)' <=> Inside(i, pr))
    BY <1>0, <1>1, <1>5, StepAfter DEF Enter, EndWith, Results
  <2>2. ~Inside(j, pr)
    BY <1>1, <1>5 DEF Enter, Refreshing
  <2>3. CASE holder[pr] = Nobody
    <3>1. holder'[pr] = j /\ job'[j].step = "rows"
      BY <1>0, <1>5, <2>3 DEF Enter, Goto, Tasks, pr
    <3>2. Inside(j, pr)'
      BY <1>1, <3>1 DEF Refreshing
    <3>3. QED
      BY <1>0, <2>1, <2>2, <2>3, <3>1, <3>2, OneInside DEF LockStep, Taken
  <2>4. CASE holder[pr] # Nobody
    <3>1. holder'[pr] = holder[pr] /\ (Goto(j, "exiting") \/ Ended(j, "done", "conflict"))
      BY <1>5, <2>4 DEF Enter, EndWith, pr
    <3>2. job'[j].step \in {"exiting", "done"}
      BY <3>1, StepAfter DEF Results
    <3>3. ~Inside(j, pr)'
      BY <1>1, <3>2 DEF Refreshing
    <3>4. QED
      BY <1>0, <2>1, <2>2, <3>1, <3>3, OneInside DEF LockStep, Kept
  <2>5. QED
    BY <2>3, <2>4
<1>6. ASSUME NEW j \in Jobs,
             \/ OpenRefresh(j) \/ CloseRefresh(j)
             \/ \E outcome \in {"completed", "completed_with_warnings", "failed"} : Fetch(j, outcome)
             \/ \E good \in BOOLEAN : Produce(j, good)
      PROVE  LockStep(pr)
  <2>1. holder'[pr] = holder[pr] /\ job[j].step \in Refreshing
    BY <1>6 DEF OpenRefresh, CloseRefresh, Fetch, Produce, Refreshing
  <2>2. job'[j].step \in Refreshing /\ \A i \in Jobs \ {j} : job'[i] = job[i]
    BY <1>0, <1>6 DEF OpenRefresh, CloseRefresh, Fetch, Produce, After, Goto, Refreshing, Tasks
  <2>3. QED
    BY <1>2, <2>1, <2>2
<1>7. ASSUME NEW j \in Jobs, job[j].step \notin {"off", "queued", "done", "gone"},
             job'[j].step \notin Refreshing, \A i \in Jobs \ {j} : job'[i] = job[i],
             holder'[pr] = holder[pr] \/ (holder'[pr] = Nobody /\ holder[pr] = j)
      PROVE  LockStep(pr)
  <2>1. (\A i \in Jobs \ {j} : (Inside(i, pr)' <=> Inside(i, pr))) /\ ~Inside(j, pr)'
    BY <1>1, <1>7
  <2>2. CASE Inside(j, pr)
    BY <1>0, <1>7, <2>1, <2>2, OneInside DEF LockStep, GivenUp
  <2>3. CASE ~Inside(j, pr)
    BY <1>0, <1>7, <2>1, <2>3, OneInside, Abandoned DEF LockStep, Kept
  <2>4. QED
    BY <2>2, <2>3
<1>8. ASSUME NEW j \in Jobs, Leave(j) PROVE LockStep(pr)
  <2>1. holder[pr] = j
    BY <1>0, <1>1, <1>8 DEF Leave, Refreshing, LockInv, Section
  <2>2. /\ holder'[pr] = Nobody /\ job[j].step = "leaving"
        /\ \/ \E step \in {"digest", "finishing"} : Goto(j, step)
           \/ \E result \in Results : Ended(j, "done", result)
    BY <1>0, <1>8 DEF Leave, EndWith, Results, pr
  <2>3. /\ job'[j].step \in {"done", "digest", "finishing"}
        /\ \A i \in Jobs \ {j} : job'[i] = job[i]
    BY <2>2, StepAfter
  <2>4. QED
    BY <1>7, <2>1, <2>2, <2>3 DEF Refreshing
<1>9. ASSUME NEW j \in Jobs, NEW status \in {"none", "failed"}, Digest(j, status)
      PROVE  LockStep(pr)
  <2>1. /\ holder'[pr] = holder[pr] /\ job[j].step = "digest" /\ job'[j].step = "finishing"
        /\ \A i \in Jobs \ {j} : job'[i] = job[i]
    BY <1>0, <1>9 DEF Digest, Tasks
  <2>2. QED
    BY <1>7, <2>1 DEF Refreshing
<1>10. ASSUME NEW j \in Jobs, RefreshRaises(j) \/ Break(j) PROVE LockStep(pr)
  <2>1. /\ job[j].step \notin {"off", "queued", "done", "gone"}
        /\ job'[j].step \in {"exiting", "gone"}
        /\ \A i \in Jobs \ {j} : job'[i] = job[i]
    BY <1>10, StepAfter DEF RefreshRaises, Break, Running, Refreshing, Results
  <2>2. holder'[pr] = holder[pr] \/ (holder'[pr] = Nobody /\ holder[pr] = j)
    BY <1>0, <1>10 DEF RefreshRaises, Break, Freed, TaskLocks
  <2>3. QED
    BY <1>7, <2>1, <2>2 DEF Refreshing
<1>11. ASSUME NEW l \in Locks, Lapse(l) PROVE LockStep(pr)
  <2>1. UNCHANGED job /\ (l = pr => holder[pr] \in Jobs /\ ~Inside(holder[pr], pr))
    BY <1>0, <1>11 DEF Lapse
  <2>2. Section(pr)' = Section(pr)
    BY <1>1, <2>1 DEF Section
  <2>3. l = pr => Section(pr) = {}
    BY <1>0, <2>1, Abandoned
  <2>4. holder'[pr] = IF l = pr THEN Nobody ELSE holder[pr]
    BY <1>0, <1>11 DEF Lapse
  <2>5. QED
    BY <2>2, <2>3, <2>4 DEF LockStep, Kept
<1>12. ASSUME NEW j \in Jobs, Reply(j) \/ Timeout(j) \/ RequestDies(j) PROVE LockStep(pr)
  <2>1. UNCHANGED job /\ holder'[pr] = holder[pr]
    BY <1>0, <1>12 DEF Reply, Timeout, RequestDies, Refused, Answer, FollowDigest, Respond, Follow, ReleaseFull
  <2>2. QED
    BY <1>2, <2>1
<1>13. ASSUME UNCHANGED vars PROVE LockStep(pr)
  <2>1. UNCHANGED job /\ holder'[pr] = holder[pr]
    BY <1>13 DEF vars
  <2>2. QED
    BY <1>2, <2>1
<1>14. QED
  <2>1. ASSUME NEW j \in Jobs, Work(j) PROVE LockStep(pr)
    BY <1>4, <1>5, <1>6, <1>8, <1>9, <2>1 DEF Work
  <2>2. ASSUME NEW j \in Jobs,
               Schedule(j) \/ \E dry \in BOOLEAN : Request(j, dry) \/ RequestFull(j, dry)
        PROVE  LockStep(pr)
    <3>1. ASSUME Schedule(j) PROVE LockStep(pr)
      <4>1. FALSE \in BOOLEAN
        OBVIOUS
      <4>2. QED
        BY <1>3, <3>1, <4>1
    <3>2. QED
      BY <1>3, <2>2, <3>1
  <2>3. LockStep(pr)
    BY <1>10, <1>11, <1>12, <1>13, <2>1, <2>2, Zenon DEF Next
  <2>4. QED
    BY <2>3 DEF pr
\* And to market_workflow.
LEMMA WorkflowLockStep ==
  TypeOK /\ RunInv /\ LockInv /\ [Next]_vars => LockStep("market_workflow")
<1> SUFFICES ASSUME TypeOK, RunInv, LockInv, [Next]_vars PROVE LockStep("market_workflow")
  OBVIOUS
<1> DEFINE mw == "market_workflow"
<1>0. /\ job \in [Jobs -> Tasks] /\ holder \in [Locks -> Jobs \union {Nobody}] /\ mw \in Locks
      /\ "price_refresh" # mw /\ req \in [Jobs -> Holding \union {"none", "ok", "conflict", "error", "lost"}]
  BY DEF TypeOK, Locks
<1> DEFINE Guarding(j) == (Kind[j] = "full" /\ req[j] \in Holding) \/ (Kind[j] = "workflow" /\ Running(j))
<1>1. \A j \in Jobs : (Inside(j, mw) <=> Guarding(j)) /\ (Inside(j, mw)' <=> Guarding(j)')
  BY DEF Inside
<1> HIDE DEF mw
<1>2. ASSUME holder'[mw] = holder[mw], \A i \in Jobs : Guarding(i)' <=> Guarding(i)
      PROVE  LockStep(mw)
  BY <1>1, <1>2 DEF LockStep, Kept, Section
\* One job leaves the section, if it was there, and its lock with it or not.
<1>3. ASSUME NEW j \in Jobs, ~Guarding(j)', \A i \in Jobs \ {j} : Guarding(i)' <=> Guarding(i),
             holder'[mw] = holder[mw] \/ (holder'[mw] = Nobody /\ holder[mw] = j)
      PROVE  LockStep(mw)
  <2>1. CASE Guarding(j)
    BY <1>0, <1>1, <1>3, <2>1, OneInside DEF LockStep, GivenUp
  <2>2. CASE ~Guarding(j)
    BY <1>0, <1>1, <1>3, <2>2, OneInside, Abandoned DEF LockStep, Kept
  <2>3. QED
    BY <2>1, <2>2
\* One job enters it with the lock.
<1>4. ASSUME NEW j \in Jobs, ~Guarding(j), Guarding(j)',
             \A i \in Jobs \ {j} : Guarding(i)' <=> Guarding(i),
             holder[mw] = Nobody, holder'[mw] = j
      PROVE  LockStep(mw)
  BY <1>0, <1>1, <1>4, OneInside DEF LockStep, Taken
\* The task of one job moves and stays as much at work as it was.
<1>5. ASSUME NEW j \in Jobs, \A i \in Jobs \ {j} : job'[i] = job[i],
             UNCHANGED req, holder'[mw] = holder[mw],
             Kind[j] = "workflow" => (Running(j)' <=> Running(j))
      PROVE  LockStep(mw)
  BY <1>2, <1>5 DEF Running
<1>6. ASSUME NEW j \in Jobs, NEW dry \in BOOLEAN, Schedule(j) \/ Request(j, dry)
      PROVE  LockStep(mw)
  <2>1. /\ job'[j].step = "queued" /\ job[j].step = "off" /\ Kind[j] # "full"
        /\ \A i \in Jobs \ {j} : job'[i] = job[i] /\ req'[i] = req[i]
        /\ UNCHANGED holder
    BY <1>0, <1>6 DEF Schedule, Request, Queue, Unused, Tasks
  <2>2. QED
    BY <1>2, <2>1 DEF Running
<1>7. ASSUME NEW j \in Jobs, NEW dry \in BOOLEAN, RequestFull(j, dry) PROVE LockStep(mw)
  <2>1. /\ Kind[j] = "full" /\ req[j] = "none"
        /\ \A i \in Jobs \ {j} : job'[i] = job[i] /\ req'[i] = req[i]
    BY <1>0, <1>7 DEF RequestFull, Queue, Unused
  <2>2. \A i \in Jobs \ {j} : Guarding(i)' <=> Guarding(i)
    BY <2>1 DEF Running
  <2>3. CASE holder[mw] = Nobody
    <3>1. holder'[mw] = j /\ req'[j] = "waiting"
      BY <1>0, <1>7, <2>3 DEF RequestFull, mw
    <3>2. QED
      BY <1>4, <2>1, <2>2, <2>3, <3>1 DEF Holding
  <2>4. CASE holder[mw] # Nobody
    <3>1. holder'[mw] = holder[mw] /\ req'[j] = "conflict"
      BY <1>0, <1>7, <2>4 DEF RequestFull, mw
    <3>2. QED
      BY <1>3, <2>1, <2>2, <3>1 DEF Holding
  <2>5. QED
    BY <2>3, <2>4
<1>8. ASSUME NEW j \in Jobs, Begin(j) PROVE LockStep(mw)
  <2>1. job[j].step = "queued" /\ UNCHANGED req
    BY <1>8 DEF Begin
  <2>2. CASE Kind[j] # "workflow"
    <3>1. Goto(j, "entering") /\ UNCHANGED holder
      BY <1>8, <2>2 DEF Begin
    <3>2. QED
      BY <1>5, <2>1, <2>2, <3>1, StepAfter
  <2>3. CASE Kind[j] = "workflow" /\ holder[mw] = Nobody
    <3>1. Goto(j, "opening") /\ holder'[mw] = j
      BY <1>0, <1>8, <2>3 DEF Begin, mw
    <3>2. job'[j].step = "opening" /\ \A i \in Jobs \ {j} : job'[i] = job[i]
      BY <3>1, StepAfter
    <3>3. QED
      BY <1>4, <2>1, <2>3, <3>1, <3>2 DEF Running
  <2>4. CASE Kind[j] = "workflow" /\ holder[mw] # Nobody
    <3>1. Ended(j, "done", "conflict") /\ UNCHANGED holder
      BY <1>8, <2>4 DEF Begin, EndWith, mw
    <3>2. job'[j].step = "done" /\ \A i \in Jobs \ {j} : job'[i] = job[i]
      BY <3>1, StepAfter DEF Results
    <3>3. QED
      BY <1>5, <2>1, <3>1, <3>2 DEF Running
  <2>5. QED
    BY <2>2, <2>3, <2>4
<1>9. ASSUME NEW j \in Jobs,
             \/ OpenWorkflow(j) \/ Enter(j) \/ OpenRefresh(j) \/ CloseRefresh(j)
             \/ Leave(j) \/ Finish(j) \/ RefreshRaises(j)
      PROVE  LockStep(mw)
  <2>1. /\ Running(j) /\ UNCHANGED req
        /\ \/ \E step \in Steps \ {"off", "queued", "done", "gone"} : Goto(j, step)
           \/ Kind[j] # "workflow" /\ \E result \in Results : Ended(j, "done", result)
    BY <1>9 DEF OpenWorkflow, Enter, OpenRefresh, CloseRefresh, Leave, Finish, RefreshRaises,
         Running, Refreshing, Steps, Results, EndWith
  <2>2. holder'[mw] = holder[mw]
    BY <1>0, <1>9 DEF OpenWorkflow, Enter, OpenRefresh, CloseRefresh, Leave, Finish,
         RefreshRaises, Freed, TaskLocks, mw
  <2>3. /\ \A i \in Jobs \ {j} : job'[i] = job[i]
        /\ Kind[j] = "workflow" => job'[j].step \notin {"off", "queued", "done", "gone"}
    BY <2>1, StepAfter
  <2>4. QED
    BY <1>5, <2>1, <2>2, <2>3 DEF Running
<1>10. ASSUME NEW j \in Jobs,
              \/ \E outcome \in {"completed", "completed_with_warnings", "failed"} : Fetch(j, outcome)
              \/ \E good \in BOOLEAN : Produce(j, good)
              \/ \E status \in {"none", "failed"} : Digest(j, status)
       PROVE  LockStep(mw)
  <2>1. /\ job[j].step \in {"fetching", "snapshot", "signals", "report", "digest"}
        /\ UNCHANGED <<req, holder>>
    BY <1>10 DEF Fetch, Produce, Digest
  <2>2. /\ job'[j].step \in {"closing", "signals", "report", "leaving", "finishing"}
        /\ \A i \in Jobs \ {j} : job'[i] = job[i]
    BY <1>0, <1>10 DEF Fetch, Produce, Digest, After, Tasks
  <2>3. QED
    BY <1>5, <2>1, <2>2 DEF Running
<1>11. ASSUME NEW j \in Jobs, Exit(j) PROVE LockStep(mw)
  <2>1. Kind[j] = "workflow" /\ Running(j)
    BY <1>11 DEF Exit, Running, RunInv, Recorded
  <2>2. holder[mw] = j
    BY <1>0, <1>1, <2>1 DEF LockInv, Section
  <2>3. /\ holder'[mw] = Nobody /\ UNCHANGED req
        /\ \E result \in Results : Ended(j, "done", result)
    BY <1>0, <1>11 DEF Exit, EndWith, Results, mw
  <2>4. job'[j].step = "done" /\ \A i \in Jobs \ {j} : job'[i] = job[i]
    BY <2>3, StepAfter
  <2>5. QED
    BY <1>3, <2>1, <2>2, <2>3, <2>4 DEF Running
<1>12. ASSUME NEW j \in Jobs, Break(j) PROVE LockStep(mw)
  <2>1. Ended(j, "gone", "none") /\ UNCHANGED req
    BY <1>12 DEF Break
  <2>2. job'[j].step = "gone" /\ \A i \in Jobs \ {j} : job'[i] = job[i]
    BY <2>1, StepAfter DEF Results
  <2>3. CASE Kind[j] = "full"
    <3>1. holder'[mw] = holder[mw]
      BY <1>0, <1>12, <2>3 DEF Break, Freed, TaskLocks
    <3>2. QED
      BY <1>5, <2>1, <2>2, <2>3, <3>1
  <2>4. CASE Kind[j] # "full"
    <3>1. holder'[mw] = holder[mw] \/ (holder'[mw] = Nobody /\ holder[mw] = j)
      BY <1>0, <1>12 DEF Break, Freed, TaskLocks
    <3>2. QED
      BY <1>3, <2>1, <2>2, <2>4, <3>1 DEF Running
  <2>5. QED
    BY <2>3, <2>4
<1>13. ASSUME NEW l \in Locks, Lapse(l) PROVE LockStep(mw)
  <2>1. UNCHANGED <<job, req>> /\ (l = mw => holder[mw] \in Jobs /\ ~Inside(holder[mw], mw))
    BY <1>0, <1>13 DEF Lapse
  <2>2. Section(mw)' = Section(mw)
    BY <1>1, <2>1 DEF Section, Running
  <2>3. l = mw => Section(mw) = {}
    BY <1>0, <2>1, Abandoned
  <2>4. holder'[mw] = IF l = mw THEN Nobody ELSE holder[mw]
    BY <1>0, <1>13 DEF Lapse
  <2>5. QED
    BY <2>2, <2>3, <2>4 DEF LockStep, Kept
\* A request ends, and what it held is free again or stays behind.
<1>14. ASSUME NEW j \in Jobs, UNCHANGED job, \A i \in Jobs \ {j} : req'[i] = req[i],
              req'[j] \notin Holding, ReleaseFull(j) \/ UNCHANGED holder,
              Kind[j] = "full" \/ UNCHANGED holder
       PROVE  LockStep(mw)
  <2>1. \A i \in Jobs \ {j} : Guarding(i)' <=> Guarding(i)
    BY <1>14 DEF Running
  <2>2. holder'[mw] = holder[mw] \/ (holder'[mw] = Nobody /\ holder[mw] = j)
    BY <1>0, <1>14 DEF ReleaseFull, mw
  <2>3. CASE Kind[j] = "full"
    BY <1>3, <1>14, <2>1, <2>2, <2>3
  <2>4. CASE Kind[j] # "full"
    BY <1>2, <1>14, <2>1, <2>4 DEF Running
  <2>5. QED
    BY <2>3, <2>4
<1>15. ASSUME NEW j \in Jobs, Timeout(j) \/ Refused(j) \/ Respond(j) \/ RequestDies(j)
       PROVE  LockStep(mw)
  BY <1>0, <1>14, <1>15 DEF Timeout, Refused, Respond, RequestDies, ReleaseFull, Holding
<1>16. ASSUME NEW j \in Jobs, Answer(j) \/ FollowDigest(j) \/ \E good \in BOOLEAN : Follow(j, good)
       PROVE  LockStep(mw)
  <2>1. /\ UNCHANGED <<job, holder>> /\ req[j] \in Holding
        /\ \A i \in Jobs \ {j} : req'[i] = req[i]
    BY <1>0, <1>16 DEF Answer, FollowDigest, Follow, Holding
  <2>2. Kind[j] = "full" => req'[j] \in Holding
    BY <1>0, <1>16 DEF Answer, FollowDigest, Follow, After, Holding
  <2>3. QED
    BY <1>2, <2>1, <2>2 DEF Running
<1>17. ASSUME UNCHANGED vars PROVE LockStep(mw)
  <2>1. UNCHANGED <<job, req>> /\ holder'[mw] = holder[mw]
    BY <1>17 DEF vars
  <2>2. QED
    BY <1>2, <2>1 DEF Running
<1>18. QED
  <2>1. ASSUME NEW j \in Jobs, Work(j) PROVE LockStep(mw)
    BY <1>8, <1>9, <1>10, <1>11, <2>1 DEF Work
  <2>2. ASSUME NEW j \in Jobs,
               Schedule(j) \/ \E dry \in BOOLEAN : Request(j, dry) \/ RequestFull(j, dry)
        PROVE  LockStep(mw)
    <3>1. ASSUME Schedule(j) PROVE LockStep(mw)
      <4>1. FALSE \in BOOLEAN
        OBVIOUS
      <4>2. QED
        BY <1>6, <3>1, <4>1
    <3>2. QED
      BY <1>6, <1>7, <2>2, <3>1
  <2>3. ASSUME NEW j \in Jobs, Reply(j) PROVE LockStep(mw)
    BY <1>15, <1>16, <2>3 DEF Reply
  <2>4. LockStep(mw)
    BY <1>9, <1>12, <1>13, <1>15, <1>17, <2>1, <2>2, <2>3, Zenon DEF Next
  <2>5. QED
    BY <2>4 DEF mw
\* Such steps keep the section of a lock within its holder.
LEMMA LockInvStep ==
  ASSUME MarketWorkflowAssumption, TypeOK, LockInv, \A l \in Locks : LockStep(l)
  PROVE  LockInv'
<1> SUFFICES ASSUME NEW l \in Locks, NEW i \in Section(l)' PROVE holder'[l] = i
  BY DEF LockInv
<1>0. \A j \in Section(l) : j \in Jobs /\ holder[l] = j
  BY DEF LockInv, Section
<1>1. CASE Kept(l)
  BY <1>0, <1>1 DEF Kept
<1>2. ASSUME NEW j \in Jobs, Taken(l, j) PROVE holder'[l] = i
  BY <1>0, <1>2 DEF Taken, MarketWorkflowAssumption
<1>3. ASSUME NEW j \in Jobs, GivenUp(l, j) PROVE holder'[l] = i
  <2>1. j \in Section(l) /\ i \in Section(l) \ {j}
    BY <1>3 DEF GivenUp, Section
  <2>2. QED
    BY <1>0, <2>1
<1>4. QED
  BY <1>1, <1>2, <1>3 DEF LockStep

\* All of it together, in every reachable state.
LEMMA Invariants == Spec => [](TypeOK /\ RunInv /\ LockInv)
<1> USE MarketWorkflowAssumption
<1>1. Init => TypeOK /\ RunInv /\ LockInv
  <2> SUFFICES ASSUME Init PROVE TypeOK /\ RunInv /\ LockInv
    OBVIOUS
  <2>1. /\ Off \in Tasks /\ Off.step = "off" /\ Off.made = {} /\ Off.result = "none"
        /\ Off.dry = FALSE
    BY DEF Off, Tasks, Steps, Results
  <2>2. TypeOK
    BY <2>1 DEF Init, TypeOK
  <2>3. RunInv
    BY <2>1 DEF Init, RunInv, Recorded, Refreshing
  <2>4. LockInv
    BY <2>1 DEF Init, LockInv, Section, Inside, Running, Refreshing, Holding
  <2>5. QED
    BY <2>2, <2>3, <2>4
<1>2. TypeOK /\ RunInv /\ LockInv /\ [Next]_vars => (TypeOK /\ RunInv /\ LockInv)'
  <2> SUFFICES ASSUME TypeOK, RunInv, LockInv, [Next]_vars PROVE (TypeOK /\ RunInv /\ LockInv)'
    OBVIOUS
  <2>1. TypeOK' /\ RunInv'
    BY RunInvStep
  <2>2. \A l \in Locks : LockStep(l)
    BY RefreshLockStep, WorkflowLockStep DEF Locks
  <2>3. LockInv'
    BY <2>2, LockInvStep
  <2>4. QED
    BY <2>1, <2>3
<1>3. QED
  BY <1>1, <1>2, PTL DEF Spec

\* Every variable keeps its type, and dry refreshes commit nothing.
THEOREM TypeCorrect == Spec => []TypeOK
<1>1. QED
  BY Invariants, PTL

\* A workflow that reports success has done all that it is there for.
THEOREM SuccessHasItAll == Spec => []SuccessIsComplete
<1>1. RunInv => SuccessIsComplete
  BY DEF RunInv, Recorded, SuccessIsComplete
<1>2. QED
  BY <1>1, Invariants, PTL

\* A refused run has left nothing behind.
THEOREM ConflictsDoNothing == Spec => []ConflictDidNothing
<1>1. TypeOK /\ RunInv => ConflictDidNothing
  BY TypeOKParts DEF RunInv, Recorded, ConflictDidNothing
<1>2. QED
  BY <1>1, Invariants, PTL

\* A task that has ended with a result leaves no run as running, but the row of
\* the refresh of a workflow that failed.
THEOREM NoRunIsStranded == Spec => []NoStrandedRun
<1>1. RunInv => NoStrandedRun
  BY DEF RunInv, Recorded, NoStrandedRun
<1>2. QED
  BY <1>1, Invariants, PTL

-----------------------------------------------------------------------------
\* At most the holder is inside.
LEMMA OneAtMost == LockInv => \A l \in Locks : Cardinality(Section(l)) <= 1
<1> SUFFICES ASSUME LockInv, NEW l \in Locks PROVE Cardinality(Section(l)) <= 1
  OBVIOUS
<1>1. CASE Section(l) = {}
  BY <1>1, FS_EmptySet
<1>2. CASE Section(l) # {}
  <2>1. PICK j : j \in Section(l)
    BY <1>2
  <2>2. Section(l) = {j}
    BY <2>1 DEF LockInv
  <2>3. QED
    BY <2>2, FS_Singleton
<1>3. QED
  BY <1>1, <1>2

\* Refreshes take price_refresh as ExclusiveLease says and are never two.
THEOREM RefreshesAreExclusive == Spec => RefreshesExclude
<1> USE MarketWorkflowAssumption
<1> DEFINE pr == "price_refresh"
<1>1. Init => RefreshLease!Init
  BY DEF Init, RefreshLease!Init, Section, Inside, Off, Refreshing, Locks
<1>2. TypeOK /\ RunInv /\ LockInv /\ [Next]_vars => [RefreshLease!Next]_(RefreshLease!vars)
  <2> SUFFICES ASSUME TypeOK, RunInv, LockInv, [Next]_vars
               PROVE  RefreshLease!Next \/ UNCHANGED RefreshLease!vars
    OBVIOUS
  <2>1. LockStep(pr) /\ pr \in Locks /\ (\A j \in Section(pr) : holder[pr] = j)
    BY RefreshLockStep DEF Locks, LockInv
  <2>2. ASSUME NEW j \in Jobs, Taken(pr, j) PROVE RefreshLease!Grant(j)
    BY <2>2 DEF Taken, RefreshLease!Grant, Section
  <2>3. ASSUME NEW j \in Jobs, GivenUp(pr, j) PROVE RefreshLease!Finish(j) \/ RefreshLease!Die(j)
    BY <2>1, <2>3 DEF GivenUp, RefreshLease!Finish, RefreshLease!Die, Section
  <2>4. ASSUME Kept(pr) PROVE RefreshLease!Lose({pr}) \/ UNCHANGED RefreshLease!vars
    BY <2>4 DEF Kept, RefreshLease!Lose, RefreshLease!vars
  <2>5. QED
    BY <2>1, <2>2, <2>3, <2>4 DEF LockStep, RefreshLease!Next
<1>3. TypeOK /\ RunInv /\ LockInv => Cardinality(Section("price_refresh")) <= 1
  BY OneAtMost DEF Locks
<1>4. QED
  BY <1>1, <1>2, <1>3, Invariants, PTL DEF Spec, RefreshLease!Spec, RefreshesExclude

\* And so do workflows and full refreshes with market_workflow.
THEOREM WorkflowsAreExclusive == Spec => WorkflowsExclude
<1> USE MarketWorkflowAssumption
<1> DEFINE mw == "market_workflow"
<1>1. Init => WorkflowLease!Init
  BY DEF Init, WorkflowLease!Init, Section, Inside, Off, Running, Holding, Locks
<1>2. TypeOK /\ RunInv /\ LockInv /\ [Next]_vars => [WorkflowLease!Next]_(WorkflowLease!vars)
  <2> SUFFICES ASSUME TypeOK, RunInv, LockInv, [Next]_vars
               PROVE  WorkflowLease!Next \/ UNCHANGED WorkflowLease!vars
    OBVIOUS
  <2>1. LockStep(mw) /\ mw \in Locks /\ (\A j \in Section(mw) : holder[mw] = j)
    BY WorkflowLockStep DEF Locks, LockInv
  <2>2. ASSUME NEW j \in Jobs, Taken(mw, j) PROVE WorkflowLease!Grant(j)
    BY <2>2 DEF Taken, WorkflowLease!Grant, Section
  <2>3. ASSUME NEW j \in Jobs, GivenUp(mw, j) PROVE WorkflowLease!Finish(j) \/ WorkflowLease!Die(j)
    BY <2>1, <2>3 DEF GivenUp, WorkflowLease!Finish, WorkflowLease!Die, Section
  <2>4. ASSUME Kept(mw) PROVE WorkflowLease!Lose({mw}) \/ UNCHANGED WorkflowLease!vars
    BY <2>4 DEF Kept, WorkflowLease!Lose, WorkflowLease!vars
  <2>5. QED
    BY <2>1, <2>2, <2>3, <2>4 DEF LockStep, WorkflowLease!Next
<1>3. TypeOK /\ RunInv /\ LockInv => Cardinality(Section("market_workflow")) <= 1
  BY OneAtMost DEF Locks
<1>4. QED
  BY <1>1, <1>2, <1>3, Invariants, PTL DEF Spec, WorkflowLease!Spec, WorkflowsExclude
-----------------------------------------------------------------------------
Answered == {"snapshot", "signals", "report", "digest", "respond", "ok"}

\* The responses that a request which got its result leaves to be seen.
Left(j) == "others" \notin unseen[j] /\ (Kind[j] = "workflow" => unseen[j] = {})

\* A task has nothing to show before it starts and when it is dry, and nothing
\* more once its request has its result.
SeenInv ==
  \A j \in Jobs : /\ job[j].step = "off" \/ job[j].dry => unseen[j] = {}
                  /\ req[j] \in Answered => job[j].step = "done"
                  /\ req[j] \in Answered /\ job[j].result = "ok" => Left(j)

\* A task does something, which it may have to show unless it is dry.
LEMMA TaskSeen ==
  ASSUME TypeOK, SeenInv, NEW j \in Jobs, NEW x, NEW U,
         job' = [job EXCEPT ![j] = x], unseen' = [unseen EXCEPT ![j] = U], UNCHANGED req,
         job[j].step \notin {"off", "done"}, x.step # "off", x.dry = job[j].dry,
         job[j].dry => U = {}
  PROVE  SeenInv'
<1>1. /\ job'[j] = x /\ unseen'[j] = U
      /\ \A i \in Jobs \ {j} : job'[i] = job[i] /\ unseen'[i] = unseen[i]
  BY DEF TypeOK
<1>2. req[j] \notin Answered
  BY DEF SeenInv
<1>3. QED
  BY <1>1, <1>2 DEF SeenInv, Left

\* Only requests go on; those that get a result have what it made seen.
LEMMA RequestsSeen ==
  ASSUME SeenInv, UNCHANGED job, \A i \in Jobs : unseen'[i] \subseteq unseen[i],
         \A i \in Jobs : req'[i] \in Answered =>
           req[i] \in Answered \/ (job[i].step = "done" /\ (job[i].result = "ok" => Left(i)'))
  PROVE  SeenInv'
BY DEF SeenInv, Left

\* A request or the schedule queues a task.
LEMMA QueuedSeen ==
  ASSUME TypeOK, SeenInv, NEW j \in Jobs, NEW dry \in BOOLEAN, Unused(j), Queue(j, dry),
         NEW at \in {"none", "waiting"}, req' = [req EXCEPT ![j] = at], UNCHANGED unseen
  PROVE  SeenInv'
<1>1. /\ job'[j].step = "queued" /\ \A i \in Jobs \ {j} : job'[i] = job[i]
  BY DEF TypeOK, Queue, Tasks
<1>2. req'[j] = at /\ \A i \in Jobs \ {j} : req'[i] = req[i]
  BY DEF TypeOK
<1>3. unseen[j] = {}
  BY DEF SeenInv, Unused
<1>4. QED
  BY <1>1, <1>2, <1>3 DEF SeenInv, Left, Answered

LEMMA SeenStep == TypeOK /\ RunInv /\ SeenInv /\ [Next]_vars => SeenInv'
<1> SUFFICES ASSUME TypeOK, RunInv, SeenInv, [Next]_vars PROVE SeenInv'
  OBVIOUS
<1> USE MarketWorkflowAssumption
<1>0. /\ job \in [Jobs -> Tasks] /\ req \in [Jobs -> Replies] /\ unseen \in [Jobs -> SUBSET Responses]
      /\ \A j \in Jobs : job[j] \in Tasks /\ Recorded(job[j], Kind[j], refresh[j], workflow[j])
      /\ \A j \in Jobs : job[j].dry => job[j].made = {}
  BY DEF TypeOK, RunInv, Replies
\* A task that moves or ends.
<1>1. ASSUME NEW j \in Jobs, NEW step \in Steps \ {"off"}, Goto(j, step), job[j].step \notin {"off", "done"},
             UNCHANGED <<req, unseen>>
      PROVE  SeenInv'
  <2> DEFINE x == [job[j] EXCEPT !.step = step]
  <2>1. job' = [job EXCEPT ![j] = x]
    BY <1>1 DEF Goto
  <2>2. unseen' = [unseen EXCEPT ![j] = unseen[j]]
    BY <1>0, <1>1
  <2>3. x.step = step /\ x.dry = job[j].dry
    BY <1>0, Moved
  <2>4. job[j].dry => unseen[j] = {}
    BY DEF SeenInv
  <2> HIDE DEF x
  <2>5. QED
    BY <1>1, <2>1, <2>2, <2>3, <2>4, TaskSeen
<1>2. ASSUME NEW j \in Jobs, NEW step \in {"done", "gone"}, NEW result \in Results, Ended(j, step, result),
             job[j].step \notin {"off", "done"}, UNCHANGED <<req, unseen>>
      PROVE  SeenInv'
  <2> DEFINE x == [Off EXCEPT !.step = step, !.result = result, !.dry = job[j].dry, !.made = job[j].made]
  <2>1. job' = [job EXCEPT ![j] = x]
    BY <1>2 DEF Ended
  <2>2. unseen' = [unseen EXCEPT ![j] = unseen[j]]
    BY <1>0, <1>2
  <2>3. x.step = step /\ x.dry = job[j].dry
    BY DEF Off
  <2>4. job[j].dry => unseen[j] = {}
    BY DEF SeenInv
  <2> HIDE DEF x
  <2>5. QED
    BY <1>2, <2>1, <2>2, <2>3, <2>4, TaskSeen
\* The entry points.
<1>3. ASSUME NEW j \in Jobs, Schedule(j) PROVE SeenInv'
  <2>1. req' = [req EXCEPT ![j] = "none"]
    BY <1>0, <1>3 DEF Schedule, Unused
  <2>2. QED
    BY <1>3, <2>1, QueuedSeen DEF Schedule
<1>4. ASSUME NEW j \in Jobs, NEW dry \in BOOLEAN, Request(j, dry) PROVE SeenInv'
  BY <1>4, QueuedSeen DEF Request
<1>5. ASSUME NEW j \in Jobs, NEW dry \in BOOLEAN, RequestFull(j, dry) PROVE SeenInv'
  <2>1. CASE holder["market_workflow"] = Nobody
    BY <1>5, <2>1, QueuedSeen DEF RequestFull
  <2>2. CASE holder["market_workflow"] # Nobody
    <3>1. req' = [req EXCEPT ![j] = "conflict"] /\ UNCHANGED <<job, unseen>>
      BY <1>5, <2>2 DEF RequestFull
    <3>2. \A i \in Jobs : req'[i] \in Answered => req[i] \in Answered
      BY <1>0, <3>1 DEF Answered
    <3>3. QED
      BY <3>1, <3>2, RequestsSeen
  <2>3. QED
    BY <2>1, <2>2
\* The worker.
<1>6. ASSUME NEW j \in Jobs, Begin(j) PROVE SeenInv'
  <2>1. job[j].step \notin {"off", "done"} /\ UNCHANGED <<req, unseen>>
    BY <1>6 DEF Begin
  <2>2. Goto(j, "entering") \/ Goto(j, "opening") \/ Ended(j, "done", "conflict")
    BY <1>6 DEF Begin, EndWith
  <2>3. {"entering", "opening"} \subseteq Steps \ {"off"} /\ "conflict" \in Results
    BY DEF Steps, Results
  <2>4. QED
    BY <1>1, <1>2, <2>1, <2>2, <2>3
<1>7. ASSUME NEW j \in Jobs, OpenWorkflow(j) PROVE SeenInv'
  BY <1>1, <1>7 DEF OpenWorkflow, Steps
<1>8. ASSUME NEW j \in Jobs, Enter(j) PROVE SeenInv'
  <2>1. job[j].step \notin {"off", "done"} /\ UNCHANGED <<req, unseen>>
    BY <1>8 DEF Enter
  <2>2. Goto(j, "rows") \/ Goto(j, "exiting") \/ Ended(j, "done", "conflict")
    BY <1>8 DEF Enter, EndWith
  <2>3. {"rows", "exiting"} \subseteq Steps \ {"off"} /\ "conflict" \in Results
    BY DEF Steps, Results, Refreshing
  <2>4. QED
    BY <1>1, <1>2, <2>1, <2>2, <2>3
<1>9. ASSUME NEW j \in Jobs, OpenRefresh(j) PROVE SeenInv'
  BY <1>1, <1>9 DEF OpenRefresh, Steps, Refreshing
<1>10. ASSUME NEW j \in Jobs, NEW outcome \in Outcomes \ {"none"}, Fetch(j, outcome) PROVE SeenInv'
  <2>0. PICK made \in Fetched(job[j].dry, outcome) :
          /\ job' = [job EXCEPT ![j].step = "closing", ![j].outcome = outcome, ![j].made = made]
          /\ unseen' = [unseen EXCEPT ![j] = @ \union Showing(made)]
    BY <1>10 DEF Fetch
  <2> DEFINE x == [job[j] EXCEPT !.step = "closing", !.outcome = outcome, !.made = made]
             U == unseen[j] \union Showing(made)
  <2>1. job' = [job EXCEPT ![j] = x] /\ job[j].step = "fetching" /\ UNCHANGED req
    BY <1>10, <2>0 DEF Fetch
  <2>2. x.step = "closing" /\ x.dry = job[j].dry /\ x.made = made
    BY <1>0 DEF Tasks
  <2>3. job'[j] = x
    BY <1>0, <2>1
  <2>4. unseen' = [unseen EXCEPT ![j] = U]
    BY <2>0
  <2>5. job[j].dry => U = {}
    BY <2>0 DEF SeenInv, Showing, Fetched
  <2> HIDE DEF x, U
  <2>6. QED
    BY <2>1, <2>2, <2>4, <2>5, TaskSeen
<1>11. ASSUME NEW j \in Jobs, CloseRefresh(j) PROVE SeenInv'
  <2>1. Goto(j, "leaving") \/ Goto(j, "snapshot")
    BY <1>11 DEF CloseRefresh
  <2>2. QED
    BY <1>1, <1>11, <2>1 DEF CloseRefresh, Steps, Refreshing
<1>12. ASSUME NEW j \in Jobs, NEW good \in BOOLEAN, Produce(j, good) PROVE SeenInv'
  <2> DEFINE product == job[j].step
             x == [job[j] EXCEPT !.step = After(product), !.made = IF good THEN @ \union {product} ELSE @]
             U == unseen[j] \union IF good THEN Showing({product}) ELSE {}
  <2>1. job' = [job EXCEPT ![j] = x] /\ product \in {"snapshot", "signals", "report"} /\ UNCHANGED req
        /\ unseen' = [unseen EXCEPT ![j] = U]
    BY <1>12 DEF Produce
  <2>2. x.step # "off" /\ x.dry = job[j].dry
    BY <1>0, <2>1 DEF Tasks, After
  <2>3. ~job[j].dry
    BY <1>0, <2>1 DEF Recorded
  <2> HIDE DEF x, U
  <2>4. QED
    BY <2>1, <2>2, <2>3, TaskSeen
<1>13. ASSUME NEW j \in Jobs, Leave(j) PROVE SeenInv'
  <2>1. job[j].step \notin {"off", "done"} /\ UNCHANGED <<req, unseen>>
    BY <1>13 DEF Leave
  <2>2. \/ Goto(j, "digest") \/ Goto(j, "finishing")
        \/ Ended(j, "done", "failed") \/ Ended(j, "done", "ok")
    BY <1>13 DEF Leave, EndWith
  <2>3. {"digest", "finishing"} \subseteq Steps \ {"off"} /\ {"ok", "failed"} \subseteq Results
    BY DEF Steps, Results
  <2>4. QED
    BY <1>1, <1>2, <2>1, <2>2, <2>3
<1>14. ASSUME NEW j \in Jobs, NEW status \in {"none", "failed"}, Digest(j, status) PROVE SeenInv'
  <2> DEFINE x == [job[j] EXCEPT !.step = "finishing", !.digest = status]
  <2>1. job' = [job EXCEPT ![j] = x] /\ job[j].step = "digest" /\ UNCHANGED req
    BY <1>14 DEF Digest
  <2>2. x.step = "finishing" /\ x.dry = job[j].dry
    BY <1>0 DEF Tasks
  <2>3. unseen' = [unseen EXCEPT ![j] = unseen[j]]
    BY <1>0, <1>14 DEF Digest
  <2>4. job[j].dry => unseen[j] = {}
    BY DEF SeenInv
  <2> HIDE DEF x
  <2>5. QED
    BY <2>1, <2>2, <2>3, <2>4, TaskSeen
<1>15. ASSUME NEW j \in Jobs, Finish(j) PROVE SeenInv'
  BY <1>1, <1>15 DEF Finish, Steps
<1>16. ASSUME NEW j \in Jobs, Exit(j) PROVE SeenInv'
  <2>1. job[j].step \notin {"off", "done"} /\ UNCHANGED <<req, unseen>>
    BY <1>16 DEF Exit
  <2>2. Ended(j, "done", "failed") \/ Ended(j, "done", "ok")
    BY <1>16 DEF Exit, EndWith
  <2>3. {"ok", "failed"} \subseteq Results
    BY DEF Results
  <2>4. QED
    BY <1>2, <2>1, <2>2, <2>3
<1>17. ASSUME NEW j \in Jobs, RefreshRaises(j) PROVE SeenInv'
  <2>1. job[j].step \notin {"off", "done"} /\ UNCHANGED <<req, unseen>> /\ Goto(j, "exiting")
    BY <1>17 DEF RefreshRaises, Refreshing
  <2>2. "exiting" \in Steps \ {"off"}
    BY DEF Steps
  <2>3. QED
    BY <1>1, <2>1, <2>2
<1>18. ASSUME NEW j \in Jobs, Break(j) PROVE SeenInv'
  <2>1. job[j].step \notin {"off", "done"} /\ UNCHANGED <<req, unseen>> /\ Ended(j, "gone", "none")
    BY <1>18 DEF Break, Running
  <2>2. "none" \in Results
    BY DEF Results
  <2>3. QED
    BY <1>2, <2>1, <2>2
\* The requests.
<1>19. ASSUME NEW j \in Jobs, NEW at \in Replies, req' = [req EXCEPT ![j] = at],
              at \in Answered => req[j] \in Answered, UNCHANGED job,
              \A i \in Jobs : unseen'[i] \subseteq unseen[i]
       PROVE  SeenInv'
  <2>1. \A i \in Jobs : req'[i] \in Answered => req[i] \in Answered
    BY <1>0, <1>19
  <2>2. QED
    BY <1>19, <2>1, RequestsSeen
<1>20. ASSUME NEW j \in Jobs, Timeout(j) \/ Refused(j) \/ RequestDies(j) PROVE SeenInv'
  <2>1. req' = [req EXCEPT ![j] = "error"] \/ req' = [req EXCEPT ![j] = "conflict"] \/ req' = [req EXCEPT ![j] = "lost"]
    BY <1>20 DEF Timeout, Refused, RequestDies
  <2>2. UNCHANGED <<job, unseen>>
    BY <1>20 DEF Timeout, Refused, RequestDies
  <2>3. {"error", "conflict", "lost"} \subseteq Replies \ Answered
    BY DEF Replies, Answered
  <2>4. QED
    BY <1>19, <2>1, <2>2, <2>3
<1>21. ASSUME NEW j \in Jobs, Answer(j) PROVE SeenInv'
  <2> DEFINE gone == IF job[j].dry \/ job[j].result = "failed" THEN {} ELSE Dropped(j)
  <2>1. UNCHANGED job /\ \A i \in Jobs : unseen'[i] = unseen[i] \ gone
    BY <1>21 DEF Answer, Drop
  <2>2. \A i \in Jobs \ {j} : req'[i] = req[i]
    BY <1>0, <1>21 DEF Answer
  <2>3. job[j].step = "done"
    BY <1>21 DEF Answer, TypeOK
  <2>4. job[j].result = "ok" => Left(j)'
    <3>1. CASE job[j].dry
      BY <2>1, <3>1 DEF Left, SeenInv
    <3>2. CASE ~job[j].dry
      BY <1>0, <2>1, <3>2 DEF Left, Dropped, Responses
    <3>3. QED
      BY <3>1, <3>2
  <2>5. QED
    BY <2>1, <2>2, <2>3, <2>4, RequestsSeen
<1>22. ASSUME NEW j \in Jobs, NEW good \in BOOLEAN, Follow(j, good) PROVE SeenInv'
  <2>1. /\ req[j] \in Answered /\ UNCHANGED job
        /\ \A i \in Jobs : unseen'[i] \subseteq unseen[i]
    BY <1>22 DEF Follow, Answered, Drop
  <2>2. \E at \in Replies : req' = [req EXCEPT ![j] = at]
    BY <1>22 DEF Follow, After, Replies, Holding
  <2>3. QED
    BY <1>19, <2>1, <2>2
<1>23. ASSUME NEW j \in Jobs, FollowDigest(j) \/ Respond(j) PROVE SeenInv'
  <2>1. req[j] \in Answered /\ UNCHANGED <<job, unseen>>
    BY <1>23 DEF FollowDigest, Respond, Answered
  <2>2. \E at \in Replies : req' = [req EXCEPT ![j] = at]
    BY <1>23 DEF FollowDigest, Respond, Replies, Holding
  <2>3. QED
    BY <1>19, <2>1, <2>2
<1>24. CASE UNCHANGED <<job, req, unseen>>
  BY <1>24 DEF SeenInv, Left
<1>25. ASSUME NEW j \in Jobs, Work(j) PROVE SeenInv'
  BY <1>6, <1>7, <1>8, <1>9, <1>10, <1>11, <1>12, <1>13, <1>14, <1>15, <1>16, <1>25 DEF Work, Outcomes
<1>26. ASSUME NEW j \in Jobs, Reply(j) PROVE SeenInv'
  BY <1>20, <1>21, <1>22, <1>23, <1>26 DEF Reply
<1>27. ASSUME NEW l \in Locks, Lapse(l) PROVE SeenInv'
  BY <1>24, <1>27 DEF Lapse
<1>28. QED
  BY <1>3, <1>4, <1>5, <1>17, <1>18, <1>20, <1>24, <1>25, <1>26, <1>27 DEF Next, vars

\* A request that was answered for a run that did not fail has dropped every
\* response that was cached before the run, but for the list of market reports
\* after a bare price refresh (_invalidate of the two triggers).
THEOREM AnsweredRunsAreSeen == Spec => []AnsweredRunIsSeen
<1>1. Init => SeenInv
  BY DEF Init, SeenInv, Left, Off, Answered
<1>2. SeenInv => AnsweredRunIsSeen
  BY DEF SeenInv, AnsweredRunIsSeen, Left, Answered
<1>3. QED
  BY <1>1, <1>2, SeenStep, Invariants, PTL DEF Spec
=============================================================================
