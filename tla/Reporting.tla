------------------------------- MODULE Reporting -------------------------------
(***************************************************************************)
(* The reporting service: workflows, which a scheduler and operators run,  *)
(* and the readings it keeps for its reports.  All of it is one event loop *)
(* whose tasks wait for the requests they send.  Readings are told apart   *)
(* by the time at which the ingestion service gave them.                   *)
(***************************************************************************)
EXTENDS Integers, FiniteSets, Sequences

CONSTANTS
  Plans,         \* what workflows are created with: [steps, every]
  Callers,       \* tasks of requests; the scheduler is a task of its own
  Keys,          \* keys of the cache: a well and a limit
  CacheTtl,      \* CACHE_TTL_SECONDS
  MaxWorkflows,  \* bound on the workflows
  MaxRuns,       \* bound on the runs
  MaxTime        \* bound on the clock

ASSUME ReportingAssumption ==
  /\ CacheTtl \in Nat \ {0}
  /\ MaxWorkflows \in Nat /\ MaxRuns \in Nat /\ MaxTime \in Nat
  /\ "scheduler" \notin Callers

VARIABLES
  time,       \* the clock
  workflows,  \* workflows_db: [plan, stamp], a workflow is its place
  iteration,  \* where the scheduler's pass over the workflows is
  tasks,      \* what each task does
  runs,       \* workflow_runs_db
  cache,      \* _sensor_data_cache
  report      \* the report made last: its readings, and when

reportingVars == <<time, workflows, iteration, tasks, runs, cache, report>>

Scheduler == "scheduler"

Tasks == Callers \union {Scheduler}

Types == {"http_request", "generate_report", "data_quality_lineage"}

NoStep == [id |-> 0, type |-> "none", key |-> "none", after |-> {}]

Free == [at |-> "free", wf |-> 0, pending |-> <<>>, pass |-> <<>>, progress |-> FALSE,
         executed |-> <<>>, step |-> NoStep, since |-> 0]

NoCache == [since |-> 0, asOf |-> 0, expires |-> 0]

NoReport == [asOf |-> 0, since |-> 0, at |-> 0]

Elements(s) == {s[i] : i \in DOMAIN s}

\* A workflow's steps are a list.
ASSUME PlansAssumption ==
  \A plan \in Plans : plan.steps \in Seq(Elements(plan.steps)) /\ plan.every \in Int

-----------------------------------------------------------------------------
(* _fetch_sensor_data *)

Cached(k) == k \in Keys /\ cache[k].expires > time

\* Mutant: the entry is good for its time from when it is stored.
Stored_FromNow(k, since, asOf) ==
  [cache EXCEPT ![k] = [since |-> since, asOf |-> asOf, expires |-> time + CacheTtl]]

\* The time of an entry runs from when the request for it was sent, and a later
\* request that was answered first is overwritten.
Stored(k, since, asOf) ==
  [cache EXCEPT ![k] = [since |-> since, asOf |-> asOf, expires |-> since + CacheTtl]]

Report(asOf, since) == report' = [asOf |-> asOf, since |-> since, at |-> time]

-----------------------------------------------------------------------------
(* _run_workflow *)

\* A dictionary by id: of two steps with one id the later is meant, at the
\* place of the first.
Meant(steps, id) ==
  steps[CHOOSE i \in DOMAIN steps :
          steps[i].id = id /\ \A j \in DOMAIN steps : j > i => steps[j].id # id]

\* The members of s at the places in P, in their order.
Picked(s, P) ==
  LET picked[n \in 0..Len(s)] ==
        IF n = 0 THEN <<>> ELSE IF n \in P THEN Append(picked[n - 1], s[n]) ELSE picked[n - 1]
  IN picked[Len(s)]

PendingOf(steps) ==
  Picked([i \in DOMAIN steps |-> Meant(steps, steps[i].id)],
       {i \in DOMAIN steps : \A j \in 1..i - 1 : steps[j].id # steps[i].id})

Without(pending, id) == Picked(pending, {i \in DOMAIN pending : pending[i].id # id})

Run(w) ==
  LET pending == PendingOf(workflows[w].plan.steps)
  IN [Free EXCEPT !.at = "running", !.wf = w, !.pending = pending, !.pass = pending]

\* Mutant: one executed dependency is enough.
Ready_Any(t) ==
  {i \in DOMAIN tasks[t].pass :
     LET after == tasks[t].pass[i].after
     IN after = {} \/ after \cap Elements(tasks[t].executed) # {}}

\* The steps of this pass that may be executed.
Ready(t) ==
  {i \in DOMAIN tasks[t].pass : tasks[t].pass[i].after \subseteq Elements(tasks[t].executed)}

Executed(task, s) ==
  [task EXCEPT !.at = "running", !.step = NoStep, !.progress = TRUE,
               !.pending = Without(@, s.id), !.executed = Append(@, s.id)]

\* The run is recorded and its task ends.  (The last_run_at and last_run_status
\* of the workflow, written in the same step, are those of its last run in runs.)
Finish(t, status) ==
  /\ runs' = Append(runs, [wf |-> tasks[t].wf, status |-> status, executed |-> tasks[t].executed])
  /\ tasks' = [tasks EXCEPT ![t] = Free]

\* The next step of the pass that may be executed: a report is made at once, as
\* is one from cached readings; any other step waits for an answer.
Step(t) ==
  /\ tasks[t].at = "running" /\ Ready(t) # {}
  /\ LET i == CHOOSE i \in Ready(t) : \A j \in Ready(t) : i <= j
         s == tasks[t].pass[i]
         task == [tasks[t] EXCEPT !.pass = SubSeq(@, i + 1, Len(@))]
     IN \/ /\ s.type = "generate_report"
           /\ tasks' = [tasks EXCEPT ![t] = Executed(task, s)]
           /\ UNCHANGED <<runs, report>>
        \/ /\ s.type = "data_quality_lineage" /\ Cached(s.key)
           /\ tasks' = [tasks EXCEPT ![t] = Executed(task, s)]
           /\ Report(cache[s.key].asOf, time - CacheTtl)
           /\ UNCHANGED runs
        \/ /\ s.type = "http_request" \/ (s.type = "data_quality_lineage" /\ ~Cached(s.key))
           /\ tasks' = [tasks EXCEPT ![t] = [task EXCEPT !.at = "waiting", !.step = s, !.since = time]]
           /\ UNCHANGED <<runs, report>>
        \/ s.type \notin Types /\ Finish(t, "failed") /\ UNCHANGED report
  /\ UNCHANGED <<time, workflows, iteration, cache>>

\* Nothing left in the pass: the run ends, or begins another pass.
EndPass(t) ==
  /\ tasks[t].at = "running" /\ Ready(t) = {}
  /\ IF tasks[t].pending = <<>> THEN Finish(t, "success")
     ELSE IF ~tasks[t].progress THEN Finish(t, "failed")
     ELSE /\ tasks' = [tasks EXCEPT ![t].pass = tasks[t].pending, ![t].progress = FALSE]
          /\ UNCHANGED runs
  /\ UNCHANGED <<time, workflows, iteration, cache, report>>

\* An HTTP step has its answer, whatever its status code; without one it raises.
HttpAnswered(t) ==
  /\ tasks[t].at = "waiting" /\ tasks[t].step.type = "http_request"
  /\ \/ tasks' = [tasks EXCEPT ![t] = Executed(tasks[t], tasks[t].step)] /\ UNCHANGED runs
     \/ Finish(t, "failed")
  /\ UNCHANGED <<time, workflows, iteration, cache, report>>

\* What follows a report: the run goes on, or the request is answered.
Reported(t) ==
  tasks' = [tasks EXCEPT ![t] = IF tasks[t].wf = 0 THEN Free ELSE Executed(tasks[t], tasks[t].step)]

\* The readings are there; the service gave them at some time since.
Fetched(t) ==
  /\ tasks[t].at = "waiting" /\ tasks[t].step.type = "data_quality_lineage"
  /\ \E asOf \in tasks[t].since..time :
       /\ cache' = Stored(tasks[t].step.key, tasks[t].since, asOf)
       /\ Report(asOf, tasks[t].since)
  /\ Reported(t)
  /\ UNCHANGED <<time, workflows, iteration, runs>>

\* Without an answer the report is about no readings, and a success.
FetchFails(t) ==
  /\ tasks[t].at = "waiting" /\ tasks[t].step.type = "data_quality_lineage"
  /\ Reported(t)
  /\ UNCHANGED <<time, workflows, iteration, runs, cache, report>>

-----------------------------------------------------------------------------
(* The endpoints *)

CreateWorkflow(plan) ==
  /\ Len(workflows) < MaxWorkflows
  /\ workflows' = Append(workflows, [plan |-> plan, stamp |-> -plan.every])
  /\ UNCHANGED <<time, iteration, tasks, runs, cache, report>>

Runs == Len(runs) + Cardinality({t \in Tasks : tasks[t].wf # 0})

\* POST /workflows/{workflow_id}/run
RunWorkflow(t, w) ==
  /\ tasks[t].at = "free"
  /\ Runs < MaxRuns
  /\ tasks' = [tasks EXCEPT ![t] = Run(w)]
  /\ UNCHANGED <<time, workflows, iteration, runs, cache, report>>

\* POST /reports/data-quality-lineage, /auto, /builder
AskReport(t, k) ==
  /\ tasks[t].at = "free"
  /\ IF Cached(k) THEN Report(cache[k].asOf, time - CacheTtl) /\ UNCHANGED tasks
     ELSE /\ tasks' = [tasks EXCEPT ![t] =
               [Free EXCEPT !.at = "waiting", !.since = time,
                            !.step = [NoStep EXCEPT !.type = "data_quality_lineage", !.key = k]]]
          /\ UNCHANGED report
  /\ UNCHANGED <<time, workflows, iteration, runs, cache>>

-----------------------------------------------------------------------------
(* _workflow_scheduler_loop *)

Asleep == [at |-> "asleep", now |-> 0, next |-> 1, size |-> 0]

BeginPass ==
  /\ iteration.at = "asleep"
  /\ iteration' = [at |-> "passing", now |-> time, next |-> 1, size |-> Len(workflows)]
  /\ UNCHANGED <<time, workflows, tasks, runs, cache, report>>

\* A negative schedule_minutes counts as one, and is due in every pass.
Due(w) ==
  /\ workflows[w].plan.every # 0
  /\ iteration.now - workflows[w].stamp >= workflows[w].plan.every

\* The next workflow, when the run of the one before has ended.  A workflow
\* created meanwhile makes the iteration raise, which ends the pass.
Schedule ==
  /\ iteration.at = "passing" /\ tasks[Scheduler].at = "free"
  /\ LET w == iteration.next IN
     IF Len(workflows) # iteration.size \/ w > Len(workflows)
     THEN iteration' = Asleep /\ UNCHANGED <<workflows, tasks>>
     ELSE /\ iteration' = [iteration EXCEPT !.next = w + 1]
          /\ IF Due(w)
             THEN /\ Runs < MaxRuns
                  /\ workflows' = [workflows EXCEPT ![w].stamp = iteration.now]
                  /\ tasks' = [tasks EXCEPT ![Scheduler] = Run(w)]
             ELSE UNCHANGED <<workflows, tasks>>
  /\ UNCHANGED <<time, runs, cache, report>>

PassTime ==
  /\ time < MaxTime
  /\ time' = time + 1
  /\ UNCHANGED <<workflows, iteration, tasks, runs, cache, report>>

\* The service stops, with whatever runs, and starts again with nothing.
RestartReporting ==
  /\ workflows' = <<>>
  /\ iteration' = Asleep
  /\ tasks' = [t \in Tasks |-> Free]
  /\ runs' = <<>>
  /\ cache' = [k \in Keys |-> NoCache]
  /\ report' = NoReport
  /\ UNCHANGED time

ReportingInit ==
  /\ time = 0
  /\ workflows = <<>>
  /\ iteration = Asleep
  /\ tasks = [t \in Tasks |-> Free]
  /\ runs = <<>>
  /\ cache = [k \in Keys |-> NoCache]
  /\ report = NoReport

ReportingNext ==
  \/ PassTime \/ BeginPass \/ Schedule \/ RestartReporting
  \/ \E plan \in Plans : CreateWorkflow(plan)
  \/ \E t \in Callers, w \in DOMAIN workflows : RunWorkflow(t, w)
  \/ \E t \in Callers, k \in Keys : AskReport(t, k)
  \/ \E t \in Tasks : Step(t) \/ EndPass(t) \/ HttpAnswered(t) \/ Fetched(t) \/ FetchFails(t)

ReportingSpec == ReportingInit /\ [][ReportingNext]_reportingVars

-----------------------------------------------------------------------------
(* Properties *)

\* The service's state has its types.
ReportingTypeOK ==
  /\ time \in 0..MaxTime
  /\ workflows \in Seq([plan : Plans, stamp : Int]) /\ Len(workflows) <= MaxWorkflows
  /\ iteration \in [at : {"asleep", "passing"}, now : 0..MaxTime, next : Nat, size : Nat]
  /\ \A t \in Tasks : tasks[t].at \in {"free", "running", "waiting"} /\ tasks[t].wf \in 0..Len(workflows)
  /\ \A i \in DOMAIN runs : runs[i].status \in {"success", "failed"} /\ runs[i].wf \in DOMAIN workflows
  /\ \A k \in Keys : cache[k].since <= cache[k].asOf /\ cache[k].asOf <= time

StepIds(w) == {s.id : s \in Elements(workflows[w].plan.steps)}

InOrder(w, executed) ==
  \A i \in DOMAIN executed :
    /\ \A j \in DOMAIN executed : i # j => executed[i] # executed[j]
    /\ Meant(workflows[w].plan.steps, executed[i]).after \subseteq {executed[j] : j \in 1..i - 1}

\* However runs of one workflow overlap, each executes a step once and only
\* after all that it depends on; it succeeds exactly when every step could be
\* executed, so that a circular or unknown dependency ends it as failed.
DependenciesFirst ==
  /\ \A t \in Tasks : tasks[t].wf # 0 => InOrder(tasks[t].wf, tasks[t].executed)
  /\ \A i \in DOMAIN runs :
       /\ InOrder(runs[i].wf, runs[i].executed)
       /\ runs[i].status = "success" <=> Elements(runs[i].executed) = StepIds(runs[i].wf)

\* A report is about readings given since it asked for them or, from the cache,
\* no more than CacheTtl ago, although requests for the same readings overtake
\* each other and an older answer may replace a newer one.
ReportFresh == report.asOf >= report.since

=============================================================================
