# A verification model of the durable workflow engine

This directory holds TLA+ specifications of the workflow engine in `apps/api/src`,
the TLC configurations that check them on small instances, and TLAPS proofs of the
theorems that hold for every value of the constants. Paths below are
relative to the repository; `services/` stands for `apps/api/src/services/`.

## The system

Users publish a workflow *definition*: a graph of nodes (transform, condition, delay,
tool, LLM, approval, parallel fork and join). Starting it creates a *run*, and a pool of
worker processes carries the run out one *checkpoint* at a time, through a job queue in
PostgreSQL. No process keeps state that matters between two transactions, except one
thing: while an executor runs, outside any transaction, its worker remembers what it
claimed and what it prepared.

| Part | State | Operations | Correct when |
|---|---|---|---|
| Job queue, `durable_queue.py` | `durable_jobs`: status, due time, claim token, lease, dispatched attempt, recovery count | enqueue, claim, dispatch, commit a result, finish, terminate | one active job of a linear run, none forgotten, no late result stored |
| Leases, `worker_leases.py` | lease of a job; the heartbeat thread's clock | renew, recover an expired lease | abandoned work is found and retried within its budget; the owner is never refused |
| Interpreter, `graph_interpreter.py`, `execution_records.py` | `step_runs`, `step_attempts`, the routes in `checkpoint_json` | choose the next node, open an attempt, complete it, finish the run | a node runs once its routes are resolved, the run completes with nothing half done |
| Retries, `retry_runtime.py` | the retry time of a step | decide on a retry, fail an attempt, expire a run | at most `max_attempts`, never past the deadline |
| Deadlines, `execution_deadlines.py` | deadlines of runs and attempts | the watchdog over active jobs | the first committed decision wins |
| Delays, `delay_runtime.py` | wake time of a waiting step | register, wake | each wake resumes the run exactly once |
| Cancellation, `execution_cancellation.py` | status of the run | cancel | nothing is left active |
| Transitions and run transactions, `workflow_state.py`, `workflow_transactions.py` | `state_revision` | lock the run row, compare the revision, raise it | transactions on one run are serial |
| Worker, `worker.py` | executor slots | a polling loop over all of the above | every accepted run ends |
| Starts, `execution_starts.py` | idempotency keys | accept a run with its first job | one run per key |
| Parallel regions, `parallel_runtime.py` | regions in `checkpoint_json`, one job per branch node | schedule, join, cancel siblings | a join is scheduled once, no sibling survives a failure |
| Approvals, `approval_runtime.py` | `execution_approvals` | register, decide, expire | one decision, one resumption |
| Quality revisions, `quality_revisions.py` | iterations of a region | restart after a review | bounded, automatic and human ones together |
| Effect ledger, `tool_effects.py` | `tool_executions`: reservation, dispatch marker, outcome, dispatches made | reserve, dispatch, finish, reconcile, expose, resolve | an effect happens at most once, and the row never says otherwise of what it knows |
| Conversations, `llm_tool_execution.py` | calls and tokens reserved and spent | reserve, receipt, save | the budget survives crashes |
| Webhooks, schedules | deliveries; next fire time | receive, rotate; fire | one run per event and per due time |
| Recovery, `execution_recovery.py` | lineage of runs | recover a failed run | completed effects are reused, one successor |
| Definitions, `workflow_definitions.py`, `graph_validation.py` | drafts and versions | edit, publish, archive | no lost draft, versions immutable, a published graph runs as drawn |
| Evaluation, `durable_evaluations.py`, `durable_evaluation_promotion.py`, `business_projection.py` | evaluation cases and results | enqueue, promote, score, approve automatically | one counterpart per promotion, a blocked approval stays blocked |
| Older pipeline, `sales_analyst.py` and the other agents, `human_approvals.py`, `evaluation_runner.py` | `workflow_runs`, `agent_steps`, `human_approvals` | one HTTP request per agent or decision | one agent at work, nothing reported that nobody approved |

The parts interact through the rows of one run and never call each other across
processes. Every transaction locks the run row first (`workflow_transaction`, or
`FOR UPDATE` on the run in `claim_jobs`, `process_claim` and `cancel_execution`) and the
job afterwards, so on one run the transactions are serial. Two fences guard what was
read earlier: the claim token with its lease (`locked_claim`) and the revision of the
run (`state_revision`), which every transaction but a claim and a renewal raises.

What is hard is what happens between the transactions. An executor may be slow, its
lease may end, another worker may have recovered and repeated its work, the watchdog may
have failed its attempt, the user may have cancelled, and only then does its result
arrive; or its process has died after any commit. `PROJECT.json` lists these hazards at
the lines where they bite, with the properties that cover them, and those still open.

## Modules

`DurableRun`, `EffectLedger`, `ParallelRun`, `Approvals`, `Conversation`, `Pipeline`,
`Triggers` and `Evaluation` are model-checked and have proofs; the other modules are what
these compose or are measured against.

- `DurableRun` is the core: one run of a linear graph (conditions and delays, no fork,
  approval or quality revision) on the queue, with any number of slots.
- `RunContract` is what such a run promises without queue, lease, clock or worker: nodes
  are tried one at a time within their budgets, each is done at most once, the run ends
  once, and successfully only with nothing in progress. `DurableRun` is checked to
  implement it under the mapping `status <- run.status`, `done <-` the completed nodes,
  `tries <-` the attempt numbers.
- `EffectLedger` is one external write in the ledger, with the workers that deliver it
  (each may stall, die or come back late), the remote provider, the operator, and the
  recovery runs that inherit its key.
- `EffectContract` is what the ledger promises without workers, reservations or requests:
  the effect happens at most once, a verdict is given at most once, and the system says
  "succeeded" only after it has happened. An operator answers for his own verdict.
  `EffectLedger` implements it under `happened <- applied`, `verdict <- Verdict`.
- `DurableRun_proofs`, `EffectLedger_proofs`, `ParallelRun_proofs`, `Approvals_proofs`,
  `Conversation_proofs`, `Pipeline_proofs`, `Triggers_proofs` and `Evaluation_proofs` have
  the theorems and their proofs, each with the few lemmas on positions and lists it needs.
- `WorkflowGraph` is the validator: which graphs may be published.
- `ParallelRun` is one run of any graph that `WorkflowGraph` accepts, with forks and joins,
  several jobs and workers at once, and the recovery of the run by a new one.
- `Approvals` is one run with approval gates and a quality revision region.
- `Triggers` is how runs come to be: definitions and versions, idempotent starts, a webhook
  and a schedule.
- `Conversation` is one tool-calling LLM step along a lineage of recovery runs.
- `Evaluation` is one uploaded input, the case promoted from it and its results.
- `Pipeline` is one run of the older engine under overlapping requests, and the runner that
  drives it for an evaluation case.
- `ToolAdapters` is the table of what the built-in adapters register and answer. It has no
  state. Two assumptions join it to the environment of `EffectLedger`, and TLC
  evaluates them over all the requests it distinguishes.
- `MCDurableRun`, `MCEffectLedger`, `MCParallelRun`, `MCApprovals`, `MCTriggers` and
  `MCEvaluation` instantiate these for TLC; the other two need no definitions.

`EffectLedger` does not compose with `DurableRun` in one state space. It takes from it
what is proved there (`OwnerCanCommit`): at most one claim is live at a time, and while it
is, its attempt is running and its result will be accepted. A lease may end at any moment.
The other modules divide the system in the same way. Each takes the parts it does not treat
as the steps their own module allows: in `Approvals` a job is simply started and finished,
in `Conversation` a claim may be lost at any moment, in `Evaluation` a run waits, goes on
and ends.

### State of DurableRun

| Variable | In the code |
|---|---|
| `run` | the `workflow_executions` row: `status` (with `cancel_requested`, which is set together with status `cancelled` and nowhere else), `rev` = `state_revision`, `left` = time to `deadline_at` |
| `steps[n]` | the `step_runs` row of node n ("absent" without one) with the latest of its `step_attempts`: `number`, `attempt` = the attempt's status, `limit` = time to its deadline, `timer` = time to `next_attempt_at` or `wake_at` |
| `edges` | `checkpoint_json.edges`; "open" where no route is recorded |
| `jobs` | `durable_jobs` in order of `sequence`; `due`, `lease` are times left, `attempt` is the pair of node and attempt number that `attempt_id` names |
| `slots[s]` | what a worker thread holds in memory: its `Claim`, then its `WorkItem` with the revision of the dispatch commit |
| `claims` | claims made so far, from which tokens are taken: a random UUID is a token never used before |

Timestamps are times left, so that states do not depend on when the run began; `Tick`
lets one unit pass for all of them. `NoTime` is a NULL column. For the run it also stands
for a deadline farther off than anything it waits for: each start sets a deadline (one
day unless configured, thirty at most), and a run whose deadline is near could
end by that alone.

### Actions of DurableRun

Each is one transaction, with everything it commits.

| Action | Code |
|---|---|
| `Claim` | `claim_jobs` |
| `DispatchAttempt`, `DispatchDelay`, `DispatchReject`, `DispatchFinish`, `DispatchExpired` | `process_claim` to the end of `prepare_next` and `record_preparation`: the attempt and the dispatch marker, a delay, invalid bindings, the end of the graph, a passed deadline |
| `SkipDispatch` | the early returns of `process_claim` and `prepare_next` and the `finish_job` they lead to |
| `CommitSuccess`, `CommitFailure`, `DiscardResult` | `commit_result` with `complete_work`: success and the next job, failure with retry or end, a stale claim or revision |
| `Renew` | `renew_lease` by the heartbeat |
| `Interrupt` | the process dies, or an exception without a type leaves the slot |
| `RequeueExpired`, `FailExpired` | `recover_claim` |
| `EnforceRunDeadline`, `EnforceAttemptTimeout` | `enforce_job_deadline` |
| `WakeDue`, `ExpireWaiting` | `wake_delay` |
| `Cancel` | `cancel_execution` |

Choices a reader should know of:

- The initial states are those that `start_execution` commits.
- Graph nodes are numbered in the order of `graph.nodes`, taken to be topological. An
  invalid binding, delay or output is a choice of the environment. `graph_stalled`
  shares the failing outcome of `DispatchFinish`.
- An executor returns a route, or fails with a retryable or a permanent code. The abort
  that the heartbeat raises is one of the permanent ones.
- The backoff is any member of `Backoffs`: jitter, growth and a provider's
  `retry_not_before` are all covered by that choice.
- The scan of `enforce_deadlines` passes its own clock reading to each job it visits. It
  may be some moments old, which can only make the watchdog late and the backoff it
  chooses shorter by that much; the model gives it the current time.
- Settled jobs are stored without their history columns, which nothing reads again.
- `claim_jobs` and `recover_claim` have branches for an active job of a run that has
  ended. `TerminalSettled`, proved below, says there is no such job in a linear run, and
  the model leaves the branches out. The finishing branch of `SkipDispatch` is kept; the
  proof of `SkipDispatchInv` shows that it is never taken.
- Operators whose comment begins with "Fault:", or whose name begins so in
  `EffectLedger`, are no part of the model. Each is the
  definition after it with a plausible bug, and `PROJECT.json` names the property that
  fails with it.

### EffectLedger

| Variable | In the code |
|---|---|
| `effect` | the `tool_executions` row: `reservation` is the claim behind `reservation_token` (`claim_token` is read only together with it), `error` the class of `error_code` under the contract, `by` who reconciled it, `cooling` whether `retry_not_before` lies ahead |
| `workers[w]` | what a worker holds inside `execute_tool`: how far it is, its claim, `uncertain`, and the outcome it will record |
| `run`, `owner` | the latest run of the recovery lineage, and the claim whose lease is live |
| `requests[c]`, `applied` | the provider: the request sent under claim c, and how often the effect has happened |
| `provider` | `ToolAdapter.recovery`, and whether the provider applies a key once |

| Action | Code |
|---|---|
| `RejectCall`, `ReserveNothing`, `Reserve`, `Reread` | `reserve`, and the second look at the row in `execute_tool` |
| `Dispatch`, `RejectDispatch` | `dispatch`; a rejection rolls back and is recorded by `finish` |
| `Send`, `Replay`, `LookFound`, `LookAbsent`, `RecordAbsence`, `GiveUp`, `Timeout` | `execute_tool` around `adapter.invoke` and `adapter.reconcile`, with `record_reconciliation` |
| `FinishConfirmed`, `FinishFailed`, `FinishSuperseded` | `finish` |
| `RecoverEffects`, `Resolve` | `recover_effects`, `resolve` |
| `Recover` | `blockers` and `recover` of `execution_recovery.py` |
| `Claim`, `LoseLease`, `CommitOutcome`, `DiscardOutcome`, `EndRun`, `Interrupt` | the queue, the run and the process, as far as the effect can tell |
| `Apply`, `Refuse` | the remote provider; its answer reaches the worker or not |

What the model assumes of the world, and of the code around the effect:

- A provider that honours keys applies a key once, however late a request comes. The HTTP
  adapter replays only while the configured retention lasts, and answers "unknown" after.
- An adapter answers "absent" only if no earlier request can still be applied, which
  includes one that a stalled worker has yet to send. The registered adapters never answer
  "absent": GitHub's listing proves presence only (`github_tool.py:221`).
- An operator's answer may be wrong. `AtMostOnce` does not depend on it.
- A claim calls `execute_tool` once for the effect, so the check for a call in progress
  under the same claim is never met. One worker thread handles one claim at a time.
- A recovery run executes the step again even if it had settled; the code reuses such a
  step unless an approval precedes it.
- The error of an uncertain outcome is not kept, since only failed and reconciled rows have
  theirs read. Any failure may start a backoff, and it may end at any time.
- Contracts without side effect share the code but are never uncertain and are left out.

`ToolAdapters` backs the second of these with the adapters' code. `CertainMeansNothing`: a
failure that an adapter calls certain was never sent, or was refused. `DoubtIsKept`: an
effect in doubt is settled only while the server remembers its key, or by exactly one issue
that carries our marker, although a moving listing may show it twice. `MCEffectLedger`
assumes that the providers of its runs include every built-in one.

### WorkflowGraph and ParallelRun

`Valid(g)` is `validate_graph_contract` on the shape of a graph: an acyclic graph that its
entry reaches, one edge per case, forks and joins that match, closed regions, no merge but
by a join or by exclusive routes, one place for each node. Data contracts, expressions and
bounds on sizes are left out.

The state of `ParallelRun` is that of `DurableRun` less its times, plus the number of the
run in its lineage and the graph itself, which `Init` chooses among the drafts that
`Valid` accepts; `DraftAssumption` says no more of a draft than the types of its nodes and
edges, which are lists. A job names its node (`NoNode` for the first of a run). Settled jobs are
forgotten.

| Action | Code |
|---|---|
| `Claim`, `LoseLease`, `Interrupt` | `claim_jobs`; the clock; the process |
| `SkipDispatch`, `DispatchExpired`, `DispatchAttempt`, `DispatchDelay`, `DispatchReject` | `process_claim`, `prepare_next` and `prepare_node` for a job that names its node |
| `CommitSuccess`, `CommitFailure`, `DiscardResult` | `commit_result`: routes, `schedule_parallel`, retry or the end of the run with `cancel_siblings` |
| `RecoverClaim` | `recover_claim`, for a job of which several branches may have made use |
| `EnforceRunDeadline`, `EnforceAttemptTimeout`, `WakeDelay`, `Cancel` | the watchdog, the delay scan and the user, with all branches |
| `Recover` | `recover` of `execution_recovery.py`: a successor that reuses completed steps and their routes |

`Schedule` is `schedule_parallel`, which nearly every one of them ends in: it passes by
what no route reaches, runs forks and joins on the spot, and queues what is ready and has
no job. Leases, timers and the deadline of the run may elapse at any moment, which covers
every order the times of `DurableRun` allow, and more.

### Approvals

| Variable | In the code |
|---|---|
| `run` | status, and whether its deadline has passed |
| `quality`, `retries` | the iteration and the human retries that `checkpoint_json` counts |
| `steps`, `edges`, `jobs` | the rows, with the iteration each belongs to; `output` of a gate or of a tool is the approval it rests on |
| `approvals` | `execution_approvals` in the order of creation |

| Action | Code |
|---|---|
| `StartStep`, `FinishStep`, `FailStep` | a job's dispatch (a gate registers its approval) and its result; `AfterReview` is the automatic revision |
| `Decide` with `Approve`, `Edit`, `Reject`, `RequestRevision`, `RequestReview`, `Expire` | `decide` of `approval_runtime.py` and the branches it takes |
| `ExpireWait`, `EnforceRunDeadline`, `Cancel` | the scan for overdue approvals, the watchdog, the user |
| `ApprovalFallsDue`, `DeadlinePasses` | the clock |

A reviewer may decide on any approval there has ever been, as often as he likes. A tool may
be gated (`require_approval`, `validate_references`). `ClosedRevision` and
`GateFollowsReview` are what `validate_policy` demands of the graph: the region is entered
and left at its ends only, has no waits, and exactly one edge leads from its review, to the
gate, which nothing else leads to. The model has runs that
`schedule_parallel` drives, which is every run with a fork or a revision policy. The
resumption of a linear run (`queue_resume`), approvals invalidated because their source
changed (`source_hash`), and a route that a decision forces on a condition are left out.

### Triggers

| Variable | In the code |
|---|---|
| `definitions` | drafts by revision, versions with the draft they were made of and the one their publisher had seen, what is published or archived |
| `runs` | accepted runs with their `execution_starts` receipts |
| `requests` | what a client's request holds inside its transaction, the lock of its definition included |
| `deliveries`, `schedule`, `fires` | `webhook_deliveries`, `workflow_schedules`, `schedule_fires` |

| Action | Code |
|---|---|
| `SaveDraft`, `Publish`, `ArchiveVersion`, `ArchiveDefinition` | `workflow_definitions.py`, each on a revision loaded earlier |
| `Ask`, `Hold`, `Accept`, `Leave` | `start_execution`: look for the receipt, wait for the definition, insert or meet the unique constraint |
| `ReceiveAccepted`, `ReceiveRejected` | `receive` of `webhooks.py` |
| `FireSkipped`, `FireAccepted`, `FireRejected`, `ResetTick` | `fire_schedule`; an edit of the schedule |

Payload fingerprints, signatures, the rotation of secrets and the rights of principals only
decide whether a request goes on, so they are a choice. What webhook and schedule select may
be edited between any two of their transactions and is chosen afresh each time. The
calendar is a set of ticks.

### Conversation

`runs` is the lineage with each run's `llm_conversations` row, `workers` what each attempt
has in memory, `requests` what reached the provider and what it really cost. `Load`, `Save`,
`Reserve`, `Receive` and their kin are the transactions of `llm_tool_execution.py`; `Send`
lies between two of them; `Stop` is whatever ends a worker, `LoseClaim` the loss of its
lease; `Recover` with `Inherited` and `Blocked` is `recovery_lineage.py`. `Metadata` is what
`attempt_metadata` reports of an attempt. One consequence of the code is kept as it is: a
late answer with invalid usage marks the live conversation (`llm_tool_execution.py:202`),
and the next save of its owner may erase the mark again.

### Evaluation

`items` is what the case expects, reduced to the run it was derived from; `results` are the
`evaluation_results`; `promoters` and `lock` are promotions in progress, which hold the
row of the organization; `scans` is what each worker is about to approve. `Promote` and
`Commit` are the two halves of `promote`, `Complete` and `Fail` are `business_projection.sync`
with the score, and `Scan`, `ApproveAutomatically`, `Block` and `Skip` are
`advance_approvals`.

### Pipeline

Every request is a session: load the run, commit the start of an agent, ask the provider
outside of any transaction, commit the outcome. `fresh` is the optimistic revision
(`StaleDataError` on `state_revision`): a session commits only if nobody has since it
loaded. One action per agent and kind of run (`RunSalesAnalyst` to `RunBaseline`), `Decide`
and `Edit` for `human_approvals.py`, `Cancel`. A session that is the `Evaluator` makes the
calls of `evaluation_runner.py` one after another and approves for the human (`NextCall`,
`SettleEvaluation`). As in the code, a human retry of a feedback or incident run leaves it
`retrying`, where no agent takes it up.

## What the runs check

`durable_run_safety`: two interchangeable slots, a condition that either takes a delay or
goes straight to a merge, three attempts per node, one recovery per job, lease and
timeout of two units, backoff of 0 or 2, and a run deadline of 4 or out of sight. About
175 000 states. The instance is small, but each case the hazards name occurs in it: with
two slots one can hold abandoned work while the other repeats it; a lease of two and a
timeout of two let either end first and let renewals matter; three attempts allow
a failure, a timeout and an abandonment of one step, in any order; a backoff of 2 meets
the deadline of 4 on both sides. Symmetry in the slots is sound for the safety
properties, none of which names a slot.

- `NoOrphanRun`: a run that has not ended has an active job or a stored timer. Each scan
  of the control loop finds runs through one of the two.
- `SingleActiveJob`: never two active jobs, none while waiting ("Linear execution permits
  one queued/running checkpoint job", docs/DURABLE_QUEUE.md).
- `TerminalSettled`: whatever ends a run, no job, step or attempt of it stays active.
- `AttemptOwned`: a running attempt and the job that dispatched it find each other.
- `OwnerCanCommit`: the two fences agree. A live lease means that the result
  will be accepted, and at most one slot has one.
- `ClaimIsReady`: no job is claimed in vain. Job and step have due times of their own, and a
  recovered job that came due first would be finished with nothing tried
  (`graph_interpreter.py:155`). So the finishing branch of `SkipDispatch`, which is in the
  code, is never taken in a linear run.
- `BudgetsHold`: `max_attempts` counts failures, timeouts and abandonments together.
- `RoutesFollowed`: nodes run only on resolved and selected routes, and a completed run
  has only completed and skipped nodes.
- `LateResultsDiscarded`: without a live claim, a slot changes nothing in the database.
- `FirstDecisionWins`: how an attempt, a step or the run ended never changes
  (docs/RETRIES_AND_DEADLINES.md).
- `TimeRespected`: no retry before its time, none and no success after a deadline.
- `ImplementsContract`: every behaviour is one of `RunContract`.

`durable_run_liveness`: an executor followed by a delay, two slots, two attempts, lease
and timeout of one unit, deadline 4 or out of sight, no symmetry. About 8 800 states.
`RunEnds` says that every accepted run ends.

`effect_ledger_safety`: two interchangeable workers, three dispatches, `MaxClaims` = 4
claims over all runs, `MaxRuns` = 2, each of four providers: without recovery, keyed and
idempotent, searched (GitHub), replayed under a key (HTTP). About 2.4 million states. Two
workers are enough for a stalled sender, a late receipt and a successor to meet; with four
claims and three dispatches an effect can be dispatched, be abandoned, be recovered by a
worker that dies before its own dispatch, and be taken up again; the second run does all
this after a failure.

- `AtMostOnce`: the external write happens at most once.
- `FailedMeansNothing`: a failed or undispatched row means that nothing has happened and
  nothing is on its way ("No uncertain write remains from this attempt",
  docs/TOOL_CONTRACTS.md).
- `SettledOnSuccess`: a step completes only on a confirmed success.
- `RequestsCharged`: every request was charged to the budget before it was sent.
- `LiveDeliveryIsReserved`: while the worker that owns the run delivers, no other
  reservation and no resolution comes in between.
- `ConfirmedIsFinal`: a late receipt never meets the trigger that protects confirmed rows.
- `RecoveryIsCertain`: a recovery run starts only from a confirmed effect, or one that has
  not happened and cannot happen any more.
- `ImplementsContract`: every behaviour is one of `EffectContract`.
- `TypeOK`.

`effect_ledger_liveness`: two claims, two dispatches, no symmetry, about 140 000 states.
`AbandonedIsExposed`: a dispatched effect does not stay pending for good, also when its run
has ended.

`parallel_run_safety`: two interchangeable slots, one recovery per job, two runs of the
lineage, on each of the eight accepted graphs among the drafts within two changes of
a fork with an executor, a condition and a delay in its branches, and within one change of
a region that a condition can skip. The drafts that the validator must refuse are
part of the instance: whatever it lets through is run. About 768 000 states.

- `WorkCarried`: each piece of work has exactly one job, whoever schedules it, and a run
  waits exactly when no branch has anything else to do.
- `NoSurvivor`: when a run ends, no sibling step, attempt or job of it survives.
- `RegionsClosed`: a join has a row only after all of its branches, a branch only after its
  fork, and any other node is reached by exactly one route.

`approvals`: a fork into a revision region (draft, review, gate) and a plain gate,
and a tool behind both that the first gate guards; two revisions, one review retry, one edit
per step. About 255 000 states.

- `ApprovalsMatchWaits`: a gate waits exactly while the last approval of its iteration is
  open.
- `WorkResumed`: every decision resumes the run once, and a revision leaves no work of the
  iteration it replaces.
- `ProceedsAsApproved`: nothing behind a gate, and no gated tool, acts on anything but the
  one approval that was granted.
- `RunEnds`: a run that waits for people ends all the same.

`triggers`: two clients under one key, on two definitions; one event; two ticks on a clock
that stops at the second; the target saved, published or archived twice; two runs. About
706 000 states.

- `OneRunPerOccasion`: a key, an event and a tick have one run at most, and whoever is
  answered with a run asked for it.
- `TicksCoalesce`: late ticks are decided together, once, and scheduled runs do not overlap.
- `StartsAsPublished`: a run starts from a version that could be run, the one that was asked
  for; what is published is the draft its publisher had seen.

`conversation`: three attempts over three runs, three rounds, a cost limit of 4 with
reservations of 2 and costs of 1 or 2, answers with one or two calls, two calls in all, one
repair. About 581 000 states. Each limit can be met before the others.

- `WithinBudget`: the provider is asked, and bills, no more than one conversation allows,
  and what is reported of an attempt bounds what it cost.
- `Continues`: no accepted answer is lost, and no request goes out before every call has its
  result.

`pipeline`: three sessions, one of them possibly the evaluation runner, four kinds of run,
one automatic retry, seven steps. About 1.46 million states.

- `OneAgentAtWork`: at most one agent runs, the one that the run's status is about.
- `ReportAsApproved`: a human is asked about the last analysis, once; a report is about what
  was approved, with its edits; an evaluation completes only with a completed run.

`evaluation`: two promoters, one worker, two completed runs, four results. About 40 000
states. `OneCounterpart`: promotions of one input share their counterpart unless it failed.

Deadlock is checked in `pipeline` and `evaluation`. The other runs say `CHECK_DEADLOCK FALSE`:
a run that has ended, or a clock that has stopped, leaves nothing to do.

In `DurableRun` no counter needs an artificial bound: jobs, claims and revisions are bounded
by the budgets. In `EffectLedger` operators may recover and workers may claim without
end, and `MaxClaims` and `MaxRuns` cap that; the proofs hold for all their values. The other
bounds are the constants that a module's declaration calls so: `MaxRuns` of `ParallelRun`,
`MaxEdits` of `Approvals`, `MaxTime`, `MaxRevision` and `MaxRuns` of `Triggers`,
`MaxAttempts` and `MaxRuns` of `Conversation`, `MaxResults` of `Evaluation` and `MaxSteps` of
`Pipeline`.

### Where code and documentation disagree

- `evaluation_blocked` refutes `BlockedIsManual`, which says what docs/EVALUATION.md:136
  says. `advance_approvals` looks again at the status of what it has scanned, but not at
  `approval_blocked` (`durable_evaluations.py:285`): while one worker blocks an evaluation
  because a membership was revoked, and the membership is restored, another approves it from
  its older scan.
- `evaluation_derives` refutes `CounterpartDerives`, which says what docs/EVALUATION.md:149
  says. `promote` reuses a counterpart that something else queued, and asks for derivation
  only of one it queues itself (`durable_evaluation_promotion.py:104`).

### Fairness

`FairSpec` assumes what one living worker's loop gives (`worker.py`): time passes; a due
job is claimed when some slot is free; the scans for expired leases, deadlines and delays
run; and each busy slot returns, or dies. It does not assume that a result ever succeeds,
that a lease is renewed, or that any particular slot survives, and it leaves `Cancel` to
chance. Weak fairness is enough, for each of these conditions stays true until it is
acted on. An executor that never returns is outside it: the code keeps its slot
(docs/RETRIES_AND_DEADLINES.md, "they retain their physical worker slot"), and a worker
all of whose slots hang serves nothing.

In `EffectLedger`, `FairSpec` assumes that a worker in `execute_tool` goes on or dies, that
the lease of a claim nobody holds any more expires, and that the control loop of some
worker scans for abandoned effects. Providers, operators and new claims are left to chance.

In `Approvals`, `FairSpec` assumes that the deadline of a run passes, since each start sets
one (`execution_starts.py:79-82`), and that the watchdog and the scan for overdue approvals
run. It assumes nothing of reviewers, workers or jobs. The other modules state no fairness:
what must happen eventually in a run is `DurableRun`'s to say.

## What is proved

`DurableRun_proofs` proves, for every set of slots, every acyclic graph and all settings
that the named assumptions of `DurableRun` admit:

| Theorem | Statement |
|---|---|
| `Invariance` | `Spec => []IInv` |
| `TypeCorrect` | `Spec => []TypeOK` |
| `NoRunIsOrphaned` | `Spec => []NoOrphanRun` |
| `OneActiveJob` | `Spec => []SingleActiveJob` |
| `EndIsSettled` | `Spec => []TerminalSettled` |
| `AttemptsAreOwned` | `Spec => []AttemptOwned` |
| `OwnersCanCommit` | `Spec => []OwnerCanCommit` |
| `ClaimsAreReady` | `Spec => []ClaimIsReady` |
| `BudgetsAreKept` | `Spec => []BudgetsHold` |
| `LateResultsAreDiscarded` | `Spec => LateResultsDiscarded` |
| `HistoryIsKept` | `Spec => []History` |
| `RoutesAreFollowed` | `Spec => []RoutesFollowed` |
| `FirstDecisionsWin` | `Spec => FirstDecisionWins` |
| `TimeIsRespected` | `Spec => TimeRespected` |
| `Refinement` | `Spec => ImplementsContract` |

None of these invariants is inductive by itself. That an owner's result is accepted, for
instance, rests on no other transaction having raised the revision while the lease
lived, which rests on that job being the only active one, which rests on a run having an
active job exactly while it is pending or running. `IInv` is the conjunction that closes
under steps, `TypeOK` (which is proved here rather than checked by a run) and

- `LatestJobOnly`: only the job with the highest sequence can be active.
- `FreshTokens`: a token is held by one slot at most, and a running job has one.
- `JobMatchesRun`: that job is active exactly while the run is pending or running.
- `OneUnfinished`: at most one step is unfinished, in agreement with its attempt, the
  run's status and the due time of the job.
- `Dispatched`: a running step and the dispatched job name each other.
- `MemoryCurrent`: what a slot with a live lease remembers is what the rows hold: that it
  has not dispatched yet, or which attempt it runs, and at what revision.
- `NumbersBounded`: the budgets, with one attempt to spare while a step backs off.

The proof begins with lemmas on the row operators (what a claim, a renewal, a dispatch
or a recovery leaves of a job), then two lemmas on the shapes that nearly all
transactions end in: `SettledShape` (no job is active, the run has ended or waits) and
`QueuedShape` (the latest job is queued, and a step that backs off is due no later than
it). One lemma per action follows, then `NextInv`, `Invariance` and the corollaries.

What a run has done, rather than where it stands, needs more: a step that is skipped must
not have been tried, and one that has failed must have ended the run, or else a result
could find the run completed around it. `History` adds to `IInv`

- `RowsEnd`: how steps end: a skipped one has no attempt, none has failed or been cancelled
  in a run that goes on, and a waiting one has no deadline of its own;
- `RoutesRecorded`: only completed nodes select routes, only completed and skipped ones
  close them;
- `RoutesFollowed` itself.

Its proof does not go through the actions again. `EveryShape` shows that each step of
`Next`, whatever of queue, leases and clock it moves, does one of seven things to the run
and its steps (`Shape`): nothing but pass time or pause, end them, back off, complete a
node, open one, or finish. `History`, `FirstDecisionWins`, `TimeRespected` and the
refinement each follow from the seven; in the refinement, opening a node is a try of
`RunContract`, completing it the node's completion, finishing the end of the run, and the
others stutter or end it.

`EffectLedger_proofs` proves, for any workers, providers, budgets, claims and runs:

| Theorem | Statement |
|---|---|
| `Invariance` | `Spec => []IInv` |
| `TypeCorrect` | `Spec => []TypeOK` |
| `HappensAtMostOnce` | `Spec => []AtMostOnce` |
| `FailureIsCertain` | `Spec => []FailedMeansNothing` |
| `LiveDeliveriesAreReserved` | `Spec => []LiveDeliveryIsReserved` |
| `StepsSettleOnSuccess` | `Spec => []SettledOnSuccess` |
| `RequestsAreCharged` | `Spec => []RequestsCharged` |
| `ConfirmationIsFinal` | `Spec => ConfirmedIsFinal` |
| `BackoffsAreRespected` | `Spec => BackoffRespected` |
| `RecoveriesAreCertain` | `Spec => RecoveryIsCertain` |
| `Refinement` | `Spec => ImplementsContract` |

Why the effect happens once is a statement about what two workers know. The holder of the
reservation acts on the doubt it read (`uncertain`); that it read correctly depends on the
row being honest when nobody holds it (`FailedMeansNothing`); and that in turn depends on
every former holder having written down its doubt. `IInv` says so:

- `TokensAreUnique`: a claim is held by one worker at most, and none outlives its run.
- `ConfirmedRow`: a confirmed row is reserved for nobody and, but for an operator's word,
  true.
- `HoldersKnow`: what the holder of the reservation remembers agrees with the row, and a
  holder in no doubt is the only one that can send.
- `ReceiptsAreTrue`: a success is heard of only after the effect has happened.
- `OneWrite`: without a key that the provider honours, one request at most is under way,
  and none once the effect has happened.

Lemmas on the shapes of steps come first (a worker gives up; moves with its claim; the row
changes and nobody moves), then one per action, `NextInv`, and the theorems.
`StepsSettleOnSuccess` adds that a call that has returned has its receipt. In the
refinement, `AppliedAlone` separates the provider's steps from the ledger's and
`StepKeepsConfirmed` leaves a verdict unchanged once given.

`RequestsCharged` counts: requests were sent by workers that may be gone, and attempts are
charged by workers that may never send. `ChargesHold` counts both (`Charged`: the claims
with a request, and those of workers that have paid and are yet to send), so that sending
moves a claim from one part of the set to the other, and only a dispatch, which charges an
attempt, adds one.

`BackoffRespected` (no dispatch before the provider's backoff has elapsed, nor by the
recovery of its run) is proved and needs no run.

`ParallelRun_proofs` proves, for every graph that the validator accepts and any number of
slots, recoveries and runs in the lineage:

| Theorem | Statement |
|---|---|
| `Invariance` | `Spec => []IInv` |
| `TypeCorrect` | `Spec => []TypeOK` |
| `NothingSurvives` | `Spec => []NoSurvivor` |
| `AllWorkIsCarried` | `Spec => []WorkCarried` |
| `RunsAsDrawn` | `Spec => []RegionsClosed` |

Here no single active job and no revision of the run protects a worker: its claim and its
attempt number are all it has, while the transactions of other branches queue, drop and
end work around it. What keeps each node in exactly one job is that `Schedule` queues what
is ready and has none, on rows that are consistent whenever it is called. `IInv` states of
the rows, before `Schedule` and after:

- `StepsFit`: a node without a row was never tried, one that backs off has an attempt to
  spare, and an attempt runs exactly while its step does.
- `RoutesFit`: the routes out of a node are open until it is done, so that what one branch
  does makes nothing of another ready, or no longer ready.
- `JobsApart`, `JobsAtWork`, `WorkHasJob`: jobs differ in sequence and in node; each stands
  for a running attempt, by number, or for a node that is ready or backs off; and each of
  these has one.
- `FirstJobAlone`: the first job, which names no node, means the entry, and is alone until
  the entry is done.

The proof first has to say which nodes are passed by. `PassedBy` is a recursive function,
of which the prover knows only its equation, and that only if some function solves it.
`PassedSolution` gives one without induction on the graph, as the union of all sets that
are consistent with the equation (its right side is monotone), and
`PassedEquation` concludes that `PassedBy` satisfies it. `Scheduled` then shows that
`Schedule` turns consistent rows into a consistent state, whether it queues, waits, or ends
the run. Transactions have four shapes (`RunEnded`, `NodeMoves`, `SameWork`, `WorkGoesOn`),
and one lemma per action follows from one of these, among them recovery of a claim, of
which several branches may have made use, and of a whole run by its successor.

`RunsAsDrawn` connects what the validator has checked once, on the graph, with what the
scheduler does later, on rows: it looks at the edges into one node and knows nothing of
regions. The rows keep the invariant `Explained`: whoever has a row has all its routes
resolved, with one of them selected unless it is skipped and none then; only what has
completed selects, and a condition one case. It is shown for `Schedule` (what is passed
by is skipped along with its routes) and for a node that opens, moves or completes, and one
lemma per action follows. The rest is about the graph:

- `ReachEquation`, `ReachClosed`, `ReachLeast`: the recursion of `Reach` has a solution (as
  above), which stops growing after as many steps as there are nodes, since each step adds
  one; so it is the least set that holds its start and follows the edges.
- `Descends`, `FirstOf`, `LastOf`: fewer nodes follow the end of an edge than its beginning
  (`Depth`), so of any nodes one is first and one is last. This replaces induction.
- `BranchClosed`, `BranchEnds`, `RoutesEquation`, `RoutesLeadOn`: a branch is entered from
  its fork and left to its join; a route to a node passes only what the node follows.

`JoinComesLast` then looks at the last node of a branch that is not done: it leads on, to
the join or to a node that is done, which has all its routes resolved, a contradiction.
`ForkComesFirst` looks at the first node of a branch that has begun, which nothing but the
fork can have selected. `OneWayIn` supposes two selected routes into a node. `SelectedRoute`
gives a route from the entry for each, selected throughout; they differ, as the graph has no
cycles; so the validator has found a condition on which they take different cases
(`ExclusiveMerge`), and this condition has completed only once.

`Approvals_proofs` proves, for every graph with a revision policy that `validate_policy`
accepts, any gates and guarded tools, and any numbers of revisions, retries and edits:

| Theorem | Statement |
|---|---|
| `Invariance` | `Spec => []IInv` |
| `TypeCorrect` | `Spec => []TypeOK` |
| `WaitsHaveApprovals` | `Spec => []ApprovalsMatchWaits` |
| `WorkIsResumed` | `Spec => []WorkResumed` |
| `OnlyAsApproved` | `Spec => []ProceedsAsApproved` |

A revision deletes nothing: it counts the iteration up and drops routes, and every row of
the region it starts again, each with its approvals, is still there. That what counts is of
one piece (no tool acts on an approval of the iteration before, no job is left for a node
that is about to start again, no gate waits on two approvals) has to follow from where the
rows lie on the graph. `IInv` says, beside the three properties,

- `StepsFit`: what goes on is of the current iteration; only a gate that is put to the
  reviewers again counts further than the revisions do, and never the gate of the policy.
- `Grounded`: a node counts only if each route into it is selected, and a route is
  selected only by a completed node that counts.
- `ApprovalFits`: approvals are of the current iteration of their gate or of an earlier one,
  and one that was granted in it is the gate's output.
- `RetriesFit`: a gate that will be put to the reviewers again has passed nothing on.
- `JobsFit`: `WorkResumed`, and a job for each step that runs.

`Grounded` is what makes revisions safe. Going up from a node that counts, everything has
completed and led on (`Reached`), so whatever may change now has led nowhere (`Movable`);
and going down from a gate that has not been passed, nothing counts (`NothingBehind`). While
the review or its gate is under way, then, its region is complete, nothing behind the gate
has run in this iteration, and the jobs there are lie outside of what starts again
(`RegionUnderWay`, `NoJobAffected`): the only thing that could still be at work inside is a
branch that overtook it, which `Busy` looks for. These are statements on all ways through
the graph. They are proved without induction: `Before` and `Affected` satisfy their
equations (`BeforeEquation`, `AffectedEquation`, from a largest solution as in
`ParallelRun_proofs`), and the node of a set that is first or last in topological order is
the counterexample that cannot be.

Transactions have four shapes: one node moves on and everything else stays (`RowsMoved`,
`Progress`); the region starts again (`RowsFitAgain`, `Restarted`); the run ends
(`RunEnded`); only approvals change (`ApprovalsChange`). What each does to a gate is in
`GateUntouched`, `GateRegistered`, `GateResolved`, `GateEdited`, `GateFailed` and
`GateRestarted`. One lemma per action follows, then `NextInOrder` and the theorems.

`Conversation_proofs` proves, for all limits, repairs, costs, batches, attempts and runs that
`LimitAssumption` admits:

| Theorem | Statement |
|---|---|
| `Invariance` | `Spec => []IInv` |
| `TypeCorrect` | `Spec => []TypeOK` |
| `BudgetKept` | `Spec => []WithinBudget` |
| `ConversationContinues` | `Spec => Continues` |

The conversation exists once for each run of the lineage, every row but the first a copy of
an earlier one that has gone on from there, and a worker that has lost its claim still writes
its receipt, into the row of its own run, perhaps after that row was copied. So no row is the
account of all requests: a late answer corrects one copy and leaves the other at its
reservation. What holds is said of every row that can know of an attempt (`After`: its own
run's and the later ones), in three parts.

- `Claimed`: the claim is for the run that goes on, only its holder is between two
  transactions, and where it is, there is a row.
- `Ledger`: `InFlight` (a reservation not yet sent has its number, its attempt and its cost
  in all these rows, and no request has that number), `RequestsPaid` (each request, in all
  these rows, has its round, charged with no less than it cost, and with just that once
  usage is reported; no two requests have the same number), `UseAsked` (what a row says was
  used was asked for), `Limited` (each row is within the rounds and the cost allowed).
- `Memory`: `OneExpected` (only the last round may be expected to answer, and none while
  there is an answer to act on or a call to make), `AllTold` (in rows and in workers, the
  calls so far are told in order, with the answers to all but the pending ones),
  `AllRemember` (what a worker may rely on of the row it loaded).

`BudgetKept` follows because the number of a round makes an injection from the requests,
whoever made them, into the rounds of the last row there is. `ConversationContinues` follows
because an answer is taken only for the last round, while nothing else is at hand, and
because what a worker saves has grown since it loaded.

Sums and counts need no induction over data. `CostAt` is a running sum, a recursive function
whose solution is constructed as a sum over ever more positions (`RunningSumExists`,
`CostIsRunningSum`); that two sums compare, that one more entry adds its cost, or that a sum
over an injection is no larger is shown from `Stepwise`: what holds of 0 and passes from each
number to the next holds up to n, or there would be a first number where it does not. Then
come the invariant, what a step keeps of it by its shape (the claim is lost; a worker moves
within its run; a row is written; a receipt is written), one lemma per action, and what the
invariant yields.

`Pipeline_proofs` proves, for any kinds of run, requests, edits, retries and steps:

| Theorem | Statement |
|---|---|
| `Invariance` | `Spec => []IInv` |
| `OneAgentWorks` | `Spec => []OneAgentAtWork` |
| `ReportsAreApproved` | `Spec => []ReportAsApproved` |

A report is written by a request that began before the provider was asked, and it names
neither the approval nor the analysis it is about: that they are the ones a human saw has
to follow from the order of the transactions before it. `IInv` states that order:

- `StepsInOrder`: the step that is running is the last one, of the agent that the status
  of the run asks for; so one agent works, and its answer finds its own step.
- `AnalysisComplete`: past the analysis the last analysis is complete, and a reviewer or
  writer at work is about that one; no retry can have slipped in between.
- `ApprovalsInOrder`: at most one approval is open, or granted, and it is about the last
  analysis; a writer at work has its edits.
- `ReportAsApproved` itself, for the runs that have ended.

Lemmas on sequences of steps come first (a set of positions has a last element; what an
agent that starts or is done leaves of the others), then one lemma per shape of action (an
agent starts; is done and the run goes on; asks the human; reports; fails), which the four
kinds of run share, then the decisions, `NextInv` and the theorems.

`Triggers_proofs` proves, for any definitions, clients, keys, events, ticks and bounds:

| Theorem | Statement |
|---|---|
| `Invariance` | `Spec => []IInv` |
| `OccasionsAreOnce` | `Spec => []OneRunPerOccasion` |
| `TicksAreCoalesced` | `Spec => []TicksCoalesce` |
| `StartsArePublished` | `Spec => StartsAsPublished` |

A start resolves its version and commits its run later, and what it resolved stays right
only because the lock on the definition keeps publications and archivings out in between;
a schedule, for its part, remembers only the run it started last. `IInv` adds:

- `HeldIsRunnable`: what a start has found under the lock is so until it commits.
- `VersionsReviewed`: every version, at any time, is the draft that its publisher had seen.
- `ScheduleRemembers`: a live run of the schedule is the one that it remembers, so that
  looking at this one is enough for the overlap policy.
- `ScheduleAhead`: the next tick is later than all decisions, since a decision skips to the
  first tick after the present.
- `NamesHold`: what is named exists, and a tick to come has no run yet.

`Evaluation_proofs` proves, for any promoters, scanning workers, completed runs and results:

| Theorem | Statement |
|---|---|
| `Invariance` | `Spec => []IInv` |
| `PromotionsShare` | `Spec => []OneCounterpart` |

A promotion looks for a counterpart and queues one in a later step, while runs go on
ending and their results are scored, or scored again. `IInv` adds:

- `PromotersKnow`: a promotion under way has the lock, and what it has not found is not there.
- `ResultsMatch`: nothing is derived from a baseline, so a failed result of a baseline has a
  failed run behind it, and no rescoring revives it.

Only model-checked are `AbandonedIsExposed` and both `RunEnds`: liveness under fairness is
beyond the prover. Every invariant and every action property that a passing run checks is a
theorem.

## Not modelled, and what is left

What remains of the parts that are modelled, by weight:

1. The heartbeat: the lease row beside the thread's own clock, lost answers included. An
   executor that is aborted although its lease was renewed is in `DurableRun` (any
   permanent failure), the clock that causes it is not.
2. Approvals in linear runs (`queue_resume`) and approvals invalidated by a changed source.
3. Several runs on one set of workers. The runs share nothing but slots, and the fairness
   of `claim_jobs` between them is the database's `SKIP LOCKED`.
4. The promotion of runs of the older engine (`evaluation_promotion.py`), and its router
   agent, whose answer nothing waits for.

Left out:

- the web application, HTTP routers, deployment and benchmarks: no state of the engine;
- identity, tenancy and permissions: they decide whether a request goes on, which the models
  leave to choice;
- provider clients, parsing and redaction: I/O, whose outcomes are chosen;
- expressions, data contracts, configuration snapshots and cron arithmetic: pure functions
  whose results are chosen, or taken as constants;
- webhook signatures and the rotation of secrets, presence rows, metrics and read-only views:
  no decision of the engine reads them again;
- the single-shot LLM node (`llm_execution.py`): an executor without state of its own.

`PROJECT.json` lists them with the reasons, and the hazards no property covers.

## Running it

    tlc -workers 2 -config DurableRun_safety.cfg MCDurableRun
    tlc -workers 2 -config DurableRun_liveness.cfg MCDurableRun
    tlc -workers 2 -config EffectLedger_safety.cfg MCEffectLedger
    tlc -workers 2 -config EffectLedger_liveness.cfg MCEffectLedger
    tlc -workers 2 -config ParallelRun_safety.cfg MCParallelRun
    tlc -workers 2 -config Approvals.cfg MCApprovals
    tlc -workers 2 -config Triggers.cfg MCTriggers
    tlc -workers 2 -config Conversation.cfg Conversation
    tlc -workers 2 -config Pipeline.cfg Pipeline
    tlc -workers 2 -config Evaluation.cfg MCEvaluation
    tlc -workers 2 -config Evaluation_blocked.cfg MCEvaluation
    tlc -workers 2 -config Evaluation_derives.cfg MCEvaluation
    tlapm DurableRun_proofs.tla
    tlapm EffectLedger_proofs.tla
    tlapm ParallelRun_proofs.tla
    tlapm Approvals_proofs.tla
    tlapm Pipeline_proofs.tla
    tlapm Triggers_proofs.tla
    tlapm Evaluation_proofs.tla
    tlapm Conversation_proofs.tla
