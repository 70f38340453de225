----------------------------- MODULE DurableRun -----------------------------
(***************************************************************************)
(* One run of a linear workflow graph (no fork, no quality revision) on    *)
(* the PostgreSQL job queue of apps/api/src: durable_queue, worker_leases, *)
(* graph_interpreter, retry_runtime, delay_runtime, execution_deadlines,   *)
(* execution_cancellation and the executor slots of the workers.           *)
(*                                                                         *)
(* Every action is one database transaction: each locks the run row first  *)
(* and commits or rolls back as a whole, so transactions on one run are    *)
(* serial.  What interleaves is what happens between transactions: the     *)
(* executor runs outside any of them while its lease runs out, the run is  *)
(* cancelled, a watchdog fails the attempt, or the process dies.           *)
(*                                                                         *)
(* A stored timestamp is represented by the time left until it: 0 says     *)
(* that it has passed, NoTime that the column is NULL or out of sight.     *)
(*                                                                         *)
(* An operator whose comment begins with "Fault:" is no part of the model: *)
(* it is the definition after it with a plausible bug, which one of the    *)
(* properties is known to catch.                                           *)
(***************************************************************************)
EXTENDS Integers, Sequences

CONSTANTS
  Slots,          \* executor slots of all workers together
  LastNode,       \* the graph's nodes are 1..LastNode, in topological order
  Edges,          \* records [from, to, label]
  DelayNodes,     \* nodes of type "delay"; the others run an executor
  MaxAttempts,    \* retry.max_attempts of each node
  MaxRecoveries,  \* settings.worker_max_recoveries
  LeaseTime,      \* settings.worker_lease_seconds
  Timeout,        \* timeout_seconds of each node
  DelayTime,      \* seconds of each delay node
  Backoffs,       \* the delays that backoff and jitter can produce
  RunTimes,       \* graph.overall_timeout_seconds; NoTime for a deadline that
                  \* lies farther away than anything the run waits for
  Retryable       \* the error codes the policy retries

NoTime == -1
Nodes == 1..LastNode
Entry == 1
Terminal == {"completed", "failed", "cancelled", "skipped"}
ErrorCodes == {"transient", "permanent"}

ASSUME NodesAssumption ==
  /\ LastNode \in Nat \ {0}
  /\ DelayNodes \subseteq Nodes
  /\ MaxAttempts \in [Nodes -> Nat \ {0}]
ASSUME EdgesAssumption ==
  /\ Edges \subseteq [from : Nodes, to : Nodes, label : STRING]
  /\ \A e \in Edges : e.from < e.to
  /\ \A n \in Nodes \ {Entry} : \E e \in Edges : e.to = n
ASSUME TimeAssumption ==
  /\ MaxRecoveries \in Nat
  /\ LeaseTime \in Nat \ {0}
  /\ Timeout \in [Nodes -> Nat \ {0}]
  /\ DelayTime \in [Nodes -> Nat]
  /\ Backoffs \subseteq Nat /\ Backoffs # {}
  /\ RunTimes \subseteq (Nat \ {0}) \cup {NoTime}
ASSUME RetryableAssumption ==
  Retryable \subseteq {"transient", "attempt_timeout"}

VARIABLES
  run,     \* the workflow_executions row
  steps,   \* step_runs by node, with the latest of their step_attempts
  edges,   \* checkpoint_json.edges, "open" where the route is unresolved
  jobs,    \* durable_jobs in order of sequence
  slots,   \* what each executor slot holds in its process's memory
  claims   \* claims made so far: the source of fresh claim tokens

vars == <<run, steps, edges, jobs, slots, claims>>
durable == <<run, steps, edges, jobs, claims>>

-----------------------------------------------------------------------------
(* Time. *)

Passed(t) == t = 0
Elapse(t) == IF t > 0 THEN t - 1 ELSE t
Earlier(t, u) == IF u = NoTime \/ t <= u THEN t ELSE u

(* Rows. *)

NoStep == [status |-> "absent", number |-> 0, attempt |-> "none",
           limit |-> NoTime, timer |-> NoTime]
NoAttempt == <<0, 0>>

QueuedJob(due) ==
  [status |-> "queued", due |-> due, token |-> 0, lease |-> 0,
   dispatched |-> FALSE, attempt |-> NoAttempt, recoveries |-> 0]

\* A settled job keeps its history columns, which nothing reads again.
SettledJob(status) == [QueuedJob(0) EXCEPT !.status = status]

ClaimedJob(j, token) ==
  [j EXCEPT !.status = "running", !.lease = LeaseTime, !.token = token]
RenewedJob(j) == [j EXCEPT !.lease = LeaseTime]
DispatchedJob(j, attempt) == [j EXCEPT !.dispatched = TRUE, !.attempt = attempt]
\* Fault: a recovered job keeps the marker of the dispatch that was abandoned.
RequeuedJobKeepingAttempt(j, due) ==
  [j EXCEPT !.status = "queued", !.due = due, !.token = 0, !.recoveries = @ + 1]
\* Fault: a recovered job is due at once, although its step backs off.
RequeuedJobAtOnce(j, due) == [QueuedJob(0) EXCEPT !.recoveries = j.recoveries + 1]
RequeuedJob(j, due) == [QueuedJob(due) EXCEPT !.recoveries = j.recoveries + 1]

IdleSlot == [phase |-> "idle", job |-> 0, token |-> 0,
             attempt |-> NoAttempt, rev |-> 0]
ClaimedSlot(i, token) ==
  [IdleSlot EXCEPT !.phase = "claimed", !.job = i, !.token = token]
ExecutingSlot(c, attempt, rev) ==
  [c EXCEPT !.phase = "executing", !.attempt = attempt, !.rev = rev]

ActiveJob(i) == jobs[i].status \in {"queued", "running"}
Unfinished(n) == steps[n].status \in {"running", "retrying", "waiting"}

RunTo(status) == [run EXCEPT !.status = status, !.rev = @ + 1]
JobTo(i, status) == [jobs EXCEPT ![i] = SettledJob(status)]

\* A step moves on, and its attempt with it unless that has already ended.
MovedStep(r, status, ended) ==
  [r EXCEPT !.status = status, !.limit = NoTime, !.timer = NoTime,
            !.attempt = IF @ = "running" THEN ended ELSE @]
RetryingStep(r, delay) == [MovedStep(r, "retrying", "failed") EXCEPT !.timer = delay]
SkippedStep == [NoStep EXCEPT !.status = "skipped"]
StepTo(n, status) == MovedStep(steps[n], status, status)

\* Every unfinished step and its attempt end with the run.
EndSteps(status) ==
  [n \in Nodes |-> IF Unfinished(n) THEN StepTo(n, status) ELSE steps[n]]
\* Fault: a job that a worker holds is left to that worker.
EndQueuedJobs(status) ==
  [i \in 1..Len(jobs) |->
     IF jobs[i].status = "queued" THEN SettledJob(status) ELSE jobs[i]]
EndJobs(status) ==
  [i \in 1..Len(jobs) |-> IF ActiveJob(i) THEN SettledJob(status) ELSE jobs[i]]

-----------------------------------------------------------------------------
(* Routing: which node the interpreter takes next. *)

Into(n) == {e \in Edges : e.to = n}
Absent(n) == steps[n].status = "absent"

\* Nodes without a row that every incoming route has passed by.
Unreached ==
  LET passedBy[n \in Nodes] ==
        /\ n # Entry
        /\ \A e \in Into(n) :
             \/ edges[e] = "skipped"
             \/ edges[e] = "open" /\ Absent(e.from) /\ passedBy[e.from]
  IN {n \in Nodes : Absent(n) /\ passedBy[n]}

\* Fault: a node with its routes resolved is ready although none selects it.
ResolvedNodes ==
  {n \in Nodes :
     /\ Absent(n)
     /\ \A e \in Into(n) : edges[e] # "open" \/ e.from \in Unreached}
ReadyNodes ==
  {n \in Nodes :
     /\ Absent(n)
     /\ \/ n = Entry
        \/ /\ \E e \in Into(n) : edges[e] = "selected"
           /\ \A e \in Into(n) : edges[e] # "open" \/ e.from \in Unreached}

Retrying == {n \in Nodes : steps[n].status = "retrying"}

\* Fault: a step that backs off does not hold back the run.
NextReadyNodes == {n \in ReadyNodes : \A m \in ReadyNodes : n <= m}

\* The resumable step, or the first ready node in the order of graph.nodes.
NextNodes ==
  IF Retrying # {} THEN Retrying
  ELSE {n \in ReadyNodes : \A m \in ReadyNodes : n <= m}

\* Skipped rows are settled on the way to the node that is returned.
SkippedBefore(n) ==
  IF Retrying # {} THEN {} ELSE {m \in Unreached : m < n}

SkipSteps(S) ==
  [n \in Nodes |-> IF n \in S THEN SkippedStep ELSE steps[n]]
SkipEdges(S) ==
  [e \in Edges |-> IF e.from \in S THEN "skipped" ELSE edges[e]]

\* A completed node selects the edges of its route; a node that is not a
\* condition has unlabelled edges only and selects them all.
Routes == {""} \cup {e.label : e \in Edges}
SelectEdges(n, route) ==
  [e \in Edges |-> IF e.from # n THEN edges[e]
                   ELSE IF e.label = route THEN "selected" ELSE "skipped"]
-----------------------------------------------------------------------------
(* Retry decisions. *)

\* Fault: max_attempts counts the retries instead of the attempts.
MayRetryOnceMore(n, number, code, delay) ==
  /\ code \in Retryable \cup {"worker_abandoned"}
  /\ number <= MaxAttempts[n]
  /\ run.left = NoTime \/ delay < run.left

\* retry_decision: the policy covers the code, an attempt is left, and both now
\* and the end of the backoff lie before the run's deadline.
MayRetry(n, number, code, delay) ==
  /\ code \in Retryable \cup {"worker_abandoned"}
  /\ number < MaxAttempts[n]
  /\ run.left = NoTime \/ delay < run.left

\* A result that arrives late counts as the deadline it missed.
FailureCode(n, code) ==
  IF Passed(run.left) THEN "run_deadline"
  ELSE IF Passed(steps[n].limit) THEN "attempt_timeout" ELSE code

\* Fault: only the run's deadline is looked at.
InTimeForRun(n) == ~Passed(run.left)

\* complete_work: neither the run's nor the attempt's deadline has passed.
InTime(n) == ~Passed(run.left) /\ ~Passed(steps[n].limit)

\* Fault: the job that failed is left running beside the one that retries.
FailAttemptOnly(i, n, code, delay) ==
  IF MayRetry(n, steps[n].number, code, delay)
  THEN /\ run' = RunTo(run.status)
       /\ steps' = [steps EXCEPT ![n] = RetryingStep(steps[n], delay)]
       /\ jobs' = Append(jobs, QueuedJob(delay))
  ELSE /\ run' = RunTo("failed")
       /\ steps' = [steps EXCEPT ![n] = StepTo(n, "failed")]
       /\ jobs' = JobTo(i, "failed")

\* The attempt that job i dispatched fails: the step backs off and the next
\* checkpoint is queued for the same moment, or step, job and run fail.
FailAttempt(i, n, code, delay) ==
  IF MayRetry(n, steps[n].number, code, delay)
  THEN /\ run' = RunTo(run.status)
       /\ steps' = [steps EXCEPT ![n] = RetryingStep(steps[n], delay)]
       /\ jobs' = Append(JobTo(i, "failed"), QueuedJob(delay))
  ELSE /\ run' = RunTo("failed")
       /\ steps' = [steps EXCEPT ![n] = StepTo(n, "failed")]
       /\ jobs' = JobTo(i, "failed")

-----------------------------------------------------------------------------
(* Claims and leases. *)

\* Fault: a lease is recognised by its job alone.
LiveClaimByJob(s) ==
  LET i == slots[s].job
  IN /\ i \in 1..Len(jobs)
     /\ jobs[i].status = "running"
     /\ jobs[i].lease > 0

\* locked_claim: the job still runs under this token and its lease lasts.
LiveClaim(s) ==
  LET i == slots[s].job
  IN /\ i \in 1..Len(jobs)
     /\ jobs[i].status = "running"
     /\ jobs[i].token = slots[s].token
     /\ jobs[i].lease > 0

Release(s) == slots' = [slots EXCEPT ![s] = IdleSlot]

\* claim_jobs: a free slot takes a due job under a fresh token.
Claim(s) ==
  /\ slots[s].phase = "idle"
  /\ run.status \notin Terminal
  /\ \E i \in 1..Len(jobs) :
       /\ jobs[i].status = "queued"
       /\ Passed(jobs[i].due)
       /\ jobs' = [jobs EXCEPT ![i] = ClaimedJob(jobs[i], claims + 1)]
       /\ slots' = [slots EXCEPT ![s] = ClaimedSlot(i, claims + 1)]
  /\ claims' = claims + 1
  /\ UNCHANGED <<run, steps, edges>>

\* renew_lease: the heartbeat extends a lease that has not run out.
Renew(s) ==
  /\ slots[s].phase = "executing"
  /\ LiveClaim(s)
  /\ jobs' = [jobs EXCEPT ![slots[s].job] = RenewedJob(jobs[slots[s].job])]
  /\ UNCHANGED <<run, steps, edges, slots, claims>>

\* The process dies, or the executor raises what the engine does not type:
\* the slot forgets its claim and the database learns nothing.
Interrupt(s) ==
  /\ slots[s].phase # "idle"
  /\ Release(s)
  /\ UNCHANGED durable

-----------------------------------------------------------------------------
(* Dispatch: process_claim up to the executor, one commit. *)

\* prepare_next returns before its transaction.
NotReady ==
  \/ run.status \in Terminal \cup {"waiting"}
  \/ \E m, n \in Retrying : m # n
  \/ \E n \in Nodes : steps[n].status \in {"running", "waiting"}
  \/ \E n \in Retrying : steps[n].timer > 0 /\ ~Passed(run.left)

CanDispatch(s) ==
  /\ slots[s].phase = "claimed"
  /\ LiveClaim(s)
  /\ ~jobs[slots[s].job].dispatched
  /\ ~NotReady

\* A lost claim changes nothing; a job with nothing to prepare is finished.
SkipDispatch(s) ==
  /\ slots[s].phase = "claimed"
  /\ ~CanDispatch(s)
  /\ IF LiveClaim(s) /\ ~jobs[slots[s].job].dispatched
     THEN /\ run' = RunTo(run.status)
          /\ jobs' = JobTo(slots[s].job,
                IF run.status \in {"completed", "waiting"} THEN "completed"
                ELSE IF run.status = "cancelled" THEN "cancelled" ELSE "failed")
     ELSE UNCHANGED <<run, jobs>>
  /\ Release(s)
  /\ UNCHANGED <<steps, edges, claims>>

\* The deadline passed while the job was queued.
DispatchExpired(s) ==
  /\ CanDispatch(s)
  /\ Passed(run.left)
  /\ run' = RunTo("failed")
  /\ steps' = EndSteps("failed")
  /\ jobs' = JobTo(slots[s].job, "failed")
  /\ Release(s)
  /\ UNCHANGED <<edges, claims>>

\* No node is left: the outputs resolve and the run completes, or they break
\* their contract (or a route is stuck: graph_stalled) and it fails.
DispatchFinish(s, outcome) ==
  /\ CanDispatch(s)
  /\ ~Passed(run.left)
  /\ NextNodes = {}
  /\ outcome = "completed" => \A n \in Nodes : Absent(n) => n \in Unreached
  /\ run' = RunTo(outcome)
  /\ steps' = SkipSteps(Unreached)
  /\ edges' = SkipEdges(Unreached)
  /\ jobs' = JobTo(slots[s].job, outcome)
  /\ Release(s)
  /\ UNCHANGED claims

\* add_step and add_attempt for node n, after the skipped rows before it.
OpenAttempt(n, status, attempt, limit, timer) ==
  /\ n \in NextNodes
  /\ steps[n].number < MaxAttempts[n]
  /\ steps' = [SkipSteps(SkippedBefore(n)) EXCEPT ![n] =
       [status |-> status, number |-> steps[n].number + 1,
        attempt |-> attempt, limit |-> limit, timer |-> timer]]
  /\ edges' = SkipEdges(SkippedBefore(n))

\* The node's bindings or its delay are invalid: everything fails at once.
DispatchReject(s, n) ==
  /\ CanDispatch(s)
  /\ ~Passed(run.left)
  /\ OpenAttempt(n, "failed", "failed", NoTime, NoTime)
  /\ run' = RunTo("failed")
  /\ jobs' = JobTo(slots[s].job, "failed")
  /\ Release(s)
  /\ UNCHANGED claims

\* A delay node: its wait is stored and its job is done.
DispatchDelay(s, n) ==
  /\ CanDispatch(s)
  /\ ~Passed(run.left)
  /\ n \in DelayNodes
  /\ OpenAttempt(n, "waiting", "completed", NoTime, DelayTime[n])
  /\ run' = RunTo("waiting")
  /\ jobs' = JobTo(slots[s].job, "completed")
  /\ Release(s)
  /\ UNCHANGED claims

\* Any other node: the attempt and the job's dispatch marker commit together,
\* and the slot goes on to the executor with the revision of that commit.
DispatchAttempt(s, n) ==
  /\ CanDispatch(s)
  /\ ~Passed(run.left)
  /\ n \notin DelayNodes
  /\ OpenAttempt(n, "running", "running", Earlier(Timeout[n], run.left), NoTime)
  /\ run' = RunTo("running")
  /\ LET i == slots[s].job
         a == <<n, steps[n].number + 1>>
     IN /\ jobs' = [jobs EXCEPT ![i] = DispatchedJob(jobs[i], a)]
        /\ slots' = [slots EXCEPT ![s] = ExecutingSlot(slots[s], a, run.rev + 1)]
  /\ UNCHANGED claims

-----------------------------------------------------------------------------
(* Results: commit_result and complete_work, one commit. *)

\* Fault: a result is matched with its attempt, the lease is not looked at.
CanCommitUnfenced(s) ==
  LET a == slots[s].attempt
  IN /\ slots[s].phase = "executing"
     /\ run.rev = slots[s].rev
     /\ jobs[slots[s].job].attempt = a
     /\ steps[a[1]].number = a[2] /\ steps[a[1]].attempt = "running"

\* The claim is live, its job carries this attempt, the run has not changed
\* since the attempt was prepared, and the attempt is still running.
CanCommit(s) ==
  LET a == slots[s].attempt
  IN /\ slots[s].phase = "executing"
     /\ LiveClaim(s)
     /\ run.rev = slots[s].rev
     /\ jobs[slots[s].job].attempt = a
     /\ jobs[slots[s].job].dispatched
     /\ run.status \notin Terminal
     /\ steps[a[1]].status = "running"
     /\ steps[a[1]].number = a[2] /\ steps[a[1]].attempt = "running"

\* Fault: the next checkpoint is not queued with the result.
CommitSuccessOnly(s, route) ==
  LET n == slots[s].attempt[1]
  IN /\ CanCommit(s)
     /\ InTime(n)
     /\ \A e \in Edges : e.from = n => \E d \in Edges : d.from = n /\ d.label = route
     /\ run' = RunTo(run.status)
     /\ steps' = [steps EXCEPT ![n] = StepTo(n, "completed")]
     /\ edges' = SelectEdges(n, route)
     /\ jobs' = JobTo(slots[s].job, "completed")
     /\ Release(s)
     /\ UNCHANGED claims

\* The result, its route and the next checkpoint commit together.
CommitSuccess(s, route) ==
  LET n == slots[s].attempt[1]
  IN /\ CanCommit(s)
     /\ InTime(n)
     /\ \A e \in Edges : e.from = n => \E d \in Edges : d.from = n /\ d.label = route
     /\ run' = RunTo(run.status)
     /\ steps' = [steps EXCEPT ![n] = StepTo(n, "completed")]
     /\ edges' = SelectEdges(n, route)
     /\ jobs' = Append(JobTo(slots[s].job, "completed"), QueuedJob(0))
     /\ Release(s)
     /\ UNCHANGED claims

CommitFailure(s, code, delay) ==
  LET n == slots[s].attempt[1]
  IN /\ CanCommit(s)
     /\ FailAttempt(slots[s].job, n, FailureCode(n, code), delay)
     /\ Release(s)
     /\ UNCHANGED <<edges, claims>>

\* LeaseLostError or StaleWorkflowError: rolled back, the result is dropped.
DiscardResult(s) ==
  /\ slots[s].phase = "executing"
  /\ ~CanCommit(s)
  /\ Release(s)
  /\ UNCHANGED durable

-----------------------------------------------------------------------------
(* The worker's control loop and the API. *)

\* Fault: only a lease whose job was dispatched is recovered.
LeaseExpiredInFlight(i) ==
  /\ run.status \notin Terminal
  /\ jobs[i].status = "running" /\ jobs[i].dispatched
  /\ jobs[i].lease = 0

LeaseExpired(i) ==
  /\ run.status \notin Terminal
  /\ jobs[i].status = "running"
  /\ jobs[i].lease = 0

MayRecover(i, delay) ==
  /\ jobs[i].recoveries < MaxRecoveries
  /\ ~Passed(run.left)
  /\ \A n \in Nodes : Unfinished(n) =>
       /\ steps[n].status \in {"running", "retrying"}
       /\ MayRetry(n, steps[n].number, "worker_abandoned", delay)

\* The jitter has no say when the job holds no unfinished step.
RecoveryDue(delay) == IF \E n \in Nodes : Unfinished(n) THEN delay ELSE 0

\* recover_claim: the abandoned attempt fails, its step backs off and the same
\* job returns to the queue without its token.
RequeueExpired(i, delay) ==
  /\ LeaseExpired(i)
  /\ MayRecover(i, delay)
  /\ run' = RunTo(run.status)
  /\ steps' = [n \in Nodes |-> IF Unfinished(n)
                               THEN RetryingStep(steps[n], RecoveryDue(delay))
                               ELSE steps[n]]
  /\ jobs' = [jobs EXCEPT ![i] = RequeuedJob(jobs[i], RecoveryDue(delay))]
  /\ UNCHANGED <<edges, slots, claims>>

\* recover_claim without a retry left: step, job and run fail.
FailExpired(i, delay) ==
  /\ LeaseExpired(i)
  /\ ~MayRecover(i, delay)
  /\ run' = RunTo("failed")
  /\ steps' = EndSteps("failed")
  /\ jobs' = [EndJobs("cancelled") EXCEPT ![i] = SettledJob("failed")]
  /\ UNCHANGED <<edges, slots, claims>>

\* enforce_job_deadline, run part: it needs an active job to find the run by.
EnforceRunDeadline ==
  /\ run.status \notin Terminal
  /\ Passed(run.left)
  /\ \E i \in 1..Len(jobs) : ActiveJob(i)
  /\ run' = RunTo("failed")
  /\ steps' = EndSteps("failed")
  /\ jobs' = EndJobs("failed")
  /\ UNCHANGED <<edges, slots, claims>>

\* enforce_job_deadline, attempt part: the watchdog commits attempt_timeout in
\* the executor's place, whether or not the lease still lasts.
EnforceAttemptTimeout(i, delay) ==
  LET n == jobs[i].attempt[1]
  IN /\ run.status \notin Terminal
     /\ ~Passed(run.left)
     /\ jobs[i].status = "running" /\ jobs[i].dispatched
     /\ n \in Nodes
     /\ steps[n].attempt = "running" /\ Passed(steps[n].limit)
     /\ FailAttempt(i, n, "attempt_timeout", delay)
     /\ UNCHANGED <<edges, slots, claims>>

\* wake_delay: the wait is over, no job is active, the next one is queued.
WakeDue(n) ==
  /\ run.status \in {"running", "waiting"}
  /\ ~Passed(run.left)
  /\ steps[n].status = "waiting" /\ Passed(steps[n].timer)
  /\ \A i \in 1..Len(jobs) : ~ActiveJob(i)
  /\ run' = RunTo("running")
  /\ steps' = [steps EXCEPT ![n] = StepTo(n, "completed")]
  /\ edges' = [e \in Edges |-> IF e.from = n THEN "selected" ELSE edges[e]]
  /\ jobs' = Append(jobs, QueuedJob(0))
  /\ UNCHANGED <<slots, claims>>

\* wake_delay past the run's deadline.
ExpireWaiting ==
  /\ run.status \in {"running", "waiting"}
  /\ Passed(run.left)
  /\ \E n \in Nodes : steps[n].status = "waiting"
  /\ run' = RunTo("failed")
  /\ steps' = EndSteps("failed")
  /\ jobs' = EndJobs("failed")
  /\ UNCHANGED <<edges, slots, claims>>

\* Fault: a run that has ended is cancelled all the same.
CancelAnyway ==
  /\ run' = RunTo("cancelled")
  /\ steps' = EndSteps("cancelled")
  /\ jobs' = EndJobs("cancelled")
  /\ UNCHANGED <<edges, slots, claims>>

\* cancel_execution: the API ends the run and all it holds in one commit.
Cancel ==
  /\ run.status \notin Terminal
  /\ run' = RunTo("cancelled")
  /\ steps' = EndSteps("cancelled")
  /\ jobs' = EndJobs("cancelled")
  /\ UNCHANGED <<edges, slots, claims>>

\* The database clock: every timestamp comes one unit nearer.
Tick ==
  /\ \/ run.left > 0
     \/ \E n \in Nodes : steps[n].limit > 0 \/ steps[n].timer > 0
     \/ \E i \in 1..Len(jobs) : jobs[i].due > 0 \/ jobs[i].lease > 0
  /\ run' = [run EXCEPT !.left = Elapse(@)]
  /\ steps' = [n \in Nodes |-> [steps[n] EXCEPT !.limit = Elapse(@),
                                                !.timer = Elapse(@)]]
  /\ jobs' = [i \in 1..Len(jobs) |-> [jobs[i] EXCEPT !.due = Elapse(@),
                                                    !.lease = Elapse(@)]]
  /\ UNCHANGED <<edges, slots, claims>>

-----------------------------------------------------------------------------
\* start_execution commits the run and its first job together.
Init ==
  /\ run \in [status : {"pending"}, rev : {0}, left : RunTimes]
  /\ steps = [n \in Nodes |-> NoStep]
  /\ edges = [e \in Edges |-> "open"]
  /\ jobs = <<QueuedJob(0)>>
  /\ slots = [s \in Slots |-> IdleSlot]
  /\ claims = 0

Dispatch(s) ==
  \/ SkipDispatch(s)
  \/ DispatchExpired(s)
  \/ \E outcome \in {"completed", "failed"} : DispatchFinish(s, outcome)
  \/ \E n \in Nodes :
       DispatchReject(s, n) \/ DispatchDelay(s, n) \/ DispatchAttempt(s, n)

Return(s) ==
  \/ \E route \in Routes : CommitSuccess(s, route)
  \/ \E code \in ErrorCodes, delay \in Backoffs : CommitFailure(s, code, delay)
  \/ DiscardResult(s)

RecoverExpired ==
  \E i \in 1..Len(jobs), delay \in Backoffs :
    RequeueExpired(i, delay) \/ FailExpired(i, delay)

EnforceDeadlines ==
  \/ EnforceRunDeadline
  \/ \E i \in 1..Len(jobs), delay \in Backoffs : EnforceAttemptTimeout(i, delay)

WakeDelays == ExpireWaiting \/ \E n \in Nodes : WakeDue(n)

Next ==
  \/ \E s \in Slots :
       Claim(s) \/ Renew(s) \/ Dispatch(s) \/ Return(s) \/ Interrupt(s)
  \/ RecoverExpired \/ EnforceDeadlines \/ WakeDelays
  \/ Cancel
  \/ Tick

Spec == Init /\ [][Next]_vars

\* The control loop of some worker keeps running, time passes, and an executor
\* returns or its process dies; nothing makes a result succeed.
Fairness ==
  /\ WF_vars(Tick)
  /\ WF_vars(\E s \in Slots : Claim(s))
  /\ WF_vars(RecoverExpired)
  /\ WF_vars(EnforceDeadlines)
  /\ WF_vars(WakeDelays)
  /\ \A s \in Slots : WF_vars(Dispatch(s) \/ Return(s) \/ Interrupt(s))

FairSpec == Spec /\ Fairness

-----------------------------------------------------------------------------
(* Properties. *)

\* A run that has not ended is never forgotten: either one of its jobs is
\* queued or running, or it is waiting for a stored timer.  A run in neither
\* condition would be invisible to every scan of the control loop, the
\* deadline scan included, since that one finds runs through their jobs.
NoOrphanRun ==
  run.status \notin Terminal =>
    \/ \E i \in 1..Len(jobs) : ActiveJob(i)
    \/ /\ run.status = "waiting"
       /\ \E n \in Nodes : steps[n].status = "waiting" /\ steps[n].timer # NoTime

\* A linear run has at most one queued or running job, and none while it
\* waits: no crash, retry, watchdog or wake ever schedules a second one.
SingleActiveJob ==
  /\ \A i, k \in 1..Len(jobs) : ActiveJob(i) /\ ActiveJob(k) => i = k
  /\ run.status = "waiting" => \A i \in 1..Len(jobs) : ~ActiveJob(i)

\* Whatever ended the run, nothing of it is left running: no job to claim, no
\* step to resume and no attempt still marked as running.
TerminalSettled ==
  run.status \in Terminal =>
    /\ \A i \in 1..Len(jobs) : ~ActiveJob(i)
    /\ \A n \in Nodes : ~Unfinished(n) /\ steps[n].attempt # "running"

\* A running attempt always has the job that dispatched it, by attempt
\* identity, so that lease recovery and the attempt watchdog can find it; and a
\* dispatched job always has an attempt that is still running.
AttemptOwned ==
  /\ \A n \in Nodes : steps[n].attempt = "running" =>
       \E i \in 1..Len(jobs) :
         /\ jobs[i].status = "running" /\ jobs[i].dispatched
         /\ jobs[i].attempt = <<n, steps[n].number>>
  /\ \A i \in 1..Len(jobs) : ActiveJob(i) /\ jobs[i].dispatched =>
       \E n \in Nodes :
         /\ jobs[i].attempt = <<n, steps[n].number>>
         /\ steps[n].status = "running" /\ steps[n].attempt = "running"

\* The fences agree.  An executor whose claim is live can always commit (no
\* result is lost to the revision fence while the lease is held), and at most
\* one slot holds a live claim, however many still run abandoned work.
OwnerCanCommit ==
  /\ \A s \in Slots : slots[s].phase = "executing" /\ LiveClaim(s) => CanCommit(s)
  /\ \A s, t \in Slots : LiveClaim(s) /\ LiveClaim(t) => s = t

\* No job is claimed in vain.  A job and the step that it resumes have due times
\* of their own, set apart by retries, the watchdog, recoveries and wakes; but
\* while a claim is live, the worker finds its step due and the run at work.
\* Were it not so, the job would be finished with nothing tried (prepare_next
\* returns before its transaction), and no other job would take the run up.
ClaimIsReady ==
  \A s \in Slots : slots[s].phase = "claimed" /\ LiveClaim(s) => CanDispatch(s)

\* Infrastructure retries are bounded: attempts by the pinned policy however
\* they end (failure, timeout, abandonment), recoveries of one job by the
\* setting, and a step that backs off always has an attempt left to make.
BudgetsHold ==
  /\ \A n \in Nodes :
       /\ steps[n].number <= MaxAttempts[n]
       /\ steps[n].status = "retrying" => steps[n].number < MaxAttempts[n]
  /\ \A i \in 1..Len(jobs) : jobs[i].recoveries <= MaxRecoveries

\* Routing follows the recorded results: a node runs only after every route
\* into it is resolved and one of them selected by a completed node, and a run
\* completes only when every node has either completed or been skipped.
RoutesFollowed ==
  /\ \A n \in Nodes \ {Entry} : steps[n].status \notin {"absent", "skipped"} =>
       /\ \A e \in Into(n) : edges[e] # "open"
       /\ \E e \in Into(n) : edges[e] = "selected" /\ steps[e.from].status = "completed"
  /\ run.status = "completed" =>
       \A n \in Nodes : steps[n].status \in {"completed", "skipped"}

\* "A duplicate or late result cannot become success": what a slot does once
\* its claim is no longer live (recovered, timed out, cancelled, expired)
\* leaves the database exactly as it was.
LateResultsDiscarded ==
  [][\A s \in Slots :
       slots[s].phase # "idle" /\ slots'[s].phase = "idle" /\ ~LiveClaim(s)
         => UNCHANGED durable]_vars

\* The first committed decision wins: once an attempt, a step or the run has
\* ended, no later transaction changes how it ended.
FirstDecisionWins ==
  [][/\ run.status \in Terminal => run'.status = run.status
     /\ \A n \in Nodes :
          /\ steps[n].status \in Terminal => steps'[n].status = steps[n].status
          /\ steps[n].attempt \in Terminal /\ steps'[n].number = steps[n].number
               => steps'[n].attempt = steps[n].attempt]_vars

\* A retry never starts before the moment that was chosen for it, and never
\* starts, nor does a result complete a step or the run, after the deadline.
TimeRespected ==
  [][/\ \A n \in Nodes :
          /\ steps'[n].number > steps[n].number => steps[n].timer \in {0, NoTime}
          /\ steps'[n].status = "completed" /\ steps[n].status # "completed"
               => ~Passed(run.left) /\ ~Passed(steps[n].limit)
     /\ run'.status \in {"running", "completed"} /\ run'.rev # run.rev
          => ~Passed(run.left)]_vars

\* Every accepted run ends, with or without an overall deadline, although any
\* process may die at any moment and any executor may fail.
RunEnds == <>(run.status \in Terminal)

\* The engine keeps the contract of RunContract: the queue, the leases and the
\* clock are details that no sequence of crashes and retries lets through.
Contract == INSTANCE RunContract WITH
  status <- run.status,
  done <- {n \in Nodes : steps[n].status = "completed"},
  tries <- [n \in Nodes |-> steps[n].number]
ImplementsContract == Contract!Spec

-----------------------------------------------------------------------------
(* The inductive invariant behind the safety properties. *)

Last == Len(jobs)

RunType ==
  [status : {"pending", "running", "waiting", "completed", "failed", "cancelled"},
   rev : Nat, left : Nat \cup {NoTime}]
StepType ==
  [status : {"absent", "running", "retrying", "waiting"} \cup Terminal,
   number : Nat, attempt : {"none", "running", "completed", "failed", "cancelled"},
   limit : Nat \cup {NoTime}, timer : Nat \cup {NoTime}]
AttemptType == (0..LastNode) \X Nat
JobType ==
  [status : {"queued", "running", "completed", "failed", "cancelled"},
   due : Nat, token : Nat, lease : Nat, dispatched : BOOLEAN,
   attempt : AttemptType, recoveries : Nat]
SlotType ==
  [phase : {"idle", "claimed", "executing"}, job : Nat, token : Nat,
   attempt : AttemptType, rev : Nat]

\* Type invariant of the rows and of the slots' memory.
TypeOK ==
  /\ run \in RunType
  /\ steps \in [Nodes -> StepType]
  /\ edges \in [Edges -> {"open", "selected", "skipped"}]
  /\ jobs \in Seq(JobType)
  /\ slots \in [Slots -> SlotType]
  /\ claims \in Nat

\* Only the latest job can be active.
LatestJobOnly ==
  /\ Last > 0
  /\ \A i \in 1..Last : ActiveJob(i) => i = Last

\* Tokens are fresh: no two slots hold the same one, a queued job holds none.
FreshTokens ==
  /\ \A s \in Slots : slots[s].token <= claims
  /\ \A i \in 1..Last : jobs[i].token <= claims
  /\ \A s, t \in Slots :
       (slots[s].phase # "idle" /\ slots[t].phase # "idle"
          /\ slots[s].token = slots[t].token) => s = t
  /\ \A s \in Slots : slots[s].phase # "idle" <=> slots[s].token > 0
  /\ \A i \in 1..Last : jobs[i].status = "running" <=> jobs[i].token > 0

\* The latest job is active exactly while the run is pending or running.
JobMatchesRun == ActiveJob(Last) <=> run.status \in {"pending", "running"}

\* At most one step is unfinished, in step with its attempt, the run and the job.
OneUnfinished ==
  /\ \A m, n \in Nodes : Unfinished(m) /\ Unfinished(n) => m = n
  /\ \A n \in Nodes :
       /\ steps[n].status = "running" <=> steps[n].attempt = "running"
       /\ steps[n].status = "waiting" => run.status = "waiting" /\ steps[n].timer # NoTime
       /\ Unfinished(n) => run.status \in {"running", "waiting"}
       /\ steps[n].status = "retrying" =>
            /\ run.status = "running"
            /\ jobs[Last].status = "queued" => steps[n].timer <= jobs[Last].due
            /\ jobs[Last].status = "running" => steps[n].timer <= 0
  /\ run.status = "waiting" => \E n \in Nodes : steps[n].status = "waiting"

\* A running attempt and the job that dispatched it know each other.
Dispatched ==
  /\ \A n \in Nodes : steps[n].status = "running" =>
       /\ jobs[Last].status = "running" /\ jobs[Last].dispatched
       /\ jobs[Last].attempt = <<n, steps[n].number>>
  /\ \A i \in 1..Last : jobs[i].dispatched =>
       /\ jobs[i].status = "running"
       /\ \E n \in Nodes : steps[n].status = "running" /\ jobs[i].attempt = <<n, steps[n].number>>

\* What the holder of a live claim remembers is what the database holds: that
\* it has yet to dispatch, or which attempt it did, and at what revision.
MemoryCurrent ==
  \A s \in Slots : LiveClaim(s) =>
    /\ slots[s].phase = "claimed" => ~jobs[slots[s].job].dispatched
    /\ slots[s].phase = "executing" =>
         /\ jobs[slots[s].job].dispatched
         /\ jobs[slots[s].job].attempt = slots[s].attempt
         /\ run.rev = slots[s].rev

\* Attempt numbers: none before the step exists, one to spare while retrying.
NumbersBounded ==
  /\ \A n \in Nodes :
       /\ Absent(n) => steps[n].number = 0
       /\ Unfinished(n) => steps[n].number > 0
       /\ steps[n].number <= MaxAttempts[n]
       /\ steps[n].status = "retrying" => steps[n].number < MaxAttempts[n]
  /\ \A i \in 1..Last : jobs[i].recoveries <= MaxRecoveries

\* The invariant that every step preserves.
IInv ==
  /\ TypeOK
  /\ LatestJobOnly
  /\ FreshTokens
  /\ JobMatchesRun
  /\ OneUnfinished
  /\ Dispatched
  /\ MemoryCurrent
  /\ NumbersBounded

-----------------------------------------------------------------------------
(* What the rows tell of the past, and its invariant. *)

\* A node without a row, or passed by, was never tried; a wait has no attempt
\* deadline; and nothing has failed or been cancelled in a run that goes on.
RowsEnd ==
  /\ \A n \in Nodes :
       /\ Absent(n) => steps[n] = NoStep
       /\ steps[n].status = "skipped" => steps[n].number = 0
       /\ steps[n].status = "waiting" => steps[n].limit = NoTime
       /\ run.status \notin Terminal => steps[n].status \notin {"failed", "cancelled"}

\* Routes are recorded for completed nodes and for those that were passed by.
RoutesRecorded ==
  \A e \in Edges :
    /\ edges[e] = "selected" => steps[e.from].status = "completed"
    /\ edges[e] = "skipped" => steps[e.from].status \in {"completed", "skipped"}

\* The invariant behind the properties of whole runs.
History == IInv /\ RowsEnd /\ RoutesRecorded /\ RoutesFollowed
=============================================================================
