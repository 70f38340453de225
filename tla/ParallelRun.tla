---------------------------- MODULE ParallelRun ----------------------------
(***************************************************************************)
(* One run of a workflow graph with fork and join regions: the branches of *)
(* parallel_runtime.py on the queue of durable_queue.py, worker_leases.py  *)
(* and execution_deadlines.py.  Each ready node has a job of its own, so   *)
(* several workers serve one run, and their transactions, serial under the *)
(* lock of the run row, are no longer fenced by the revision of the run.   *)
(* Claims and attempts are all that tells a late result from a good one.   *)
(*                                                                         *)
(* Time is left out: a lease may end, a timer elapse and the deadline of   *)
(* the run pass at any moment.  DurableRun has the arithmetic of times.    *)
(*                                                                         *)
(* parallel_mode is set by the first dispatch and tested only by handlers  *)
(* that treat the sibling work, of which there is none before.             *)
(***************************************************************************)
EXTENDS WorkflowGraph

CONSTANTS
  Slots,          \* executor slots of all workers together
  Drafts,         \* graphs that somebody wants to publish and run
  MaxRecoveries,  \* settings.worker_max_recoveries
  MaxRuns         \* bound: runs of the recovery lineage

NoNode == 0
Terminal == {"completed", "failed", "cancelled", "skipped"}
Unfinished == {"running", "retrying", "waiting"}

NodeType == [type : STRING, labels : Seq(STRING), partner : Nat, merge : BOOLEAN,
             attempts : Nat \ {0}]
EdgeType == [from : Nat, to : Nat, label : STRING]

ASSUME DraftAssumption ==
  \A g \in Drafts :
    /\ g.nodes \in Seq(NodeType)
    /\ g.edges \subseteq EdgeType /\ IsFiniteSet(g.edges)
ASSUME BudgetAssumption == MaxRecoveries \in Nat /\ MaxRuns \in Nat \ {0}

VARIABLES
  graph,   \* the published version that the run is pinned to
  run,     \* the latest workflow_executions row of the lineage: its number in
           \* it, its status, and whether its deadline has passed
  steps,   \* step_runs by node, with the latest of their step_attempts
  edges,   \* checkpoint_json.edges, "open" where the route is unresolved
  jobs,    \* the queued and running durable_jobs
  last,    \* the highest sequence of any job so far
  slots    \* what each executor slot holds in its process's memory

vars == <<graph, run, steps, edges, jobs, last, slots>>
durable == <<run, steps, edges, jobs, last>>

Nodes == Ids(graph)
Edges == graph.edges
DelayNodes == Of(graph, "delay")
Conditions == Of(graph, "condition")
MaxAttempts(n) == graph.nodes[n].attempts

-----------------------------------------------------------------------------
(* Rows. *)

NoStep == [status |-> "absent", number |-> 0, attempt |-> "none"]
QueuedJob(sequence, node) ==
  [seq |-> sequence, node |-> node, status |-> "queued", leased |-> FALSE,
   dispatched |-> FALSE, number |-> 0, recoveries |-> 0]
IdleSlot == [phase |-> "idle", seq |-> 0, round |-> 0, number |-> 0]

RunTo(status) == [run EXCEPT !.status = status]

\* The first job of a run names no node; it prepares the entry node.
Target(j) == IF j.node = NoNode THEN Entry ELSE j.node

\* A step moves on, and its attempt with it unless that has already ended.
MovedStep(r, status, ended) ==
  [r EXCEPT !.status = status, !.attempt = IF @ = "running" THEN ended ELSE @]

\* Every unfinished step among st ends, with its attempt.
EndSteps(st, status) ==
  [n \in Nodes |-> IF st[n].status \in Unfinished
                   THEN MovedStep(st[n], status, status) ELSE st[n]]

\* Fault: a sibling that waits is left to its timer.
CancelRunningSiblings(st) ==
  [n \in Nodes |-> IF st[n].status \in {"running", "retrying"}
                   THEN MovedStep(st[n], "cancelled", "cancelled") ELSE st[n]]
\* cancel_siblings
CancelSiblings(st) == EndSteps(st, "cancelled")

\* Step n fails for good and takes its siblings along.
FailStep(n) ==
  CancelSiblings([steps EXCEPT ![n] = MovedStep(@, "failed", "failed")])

\* A completed condition selects the edge of its route, any other node all
\* of its edges.
SelectEdges(n, route) ==
  [e \in Edges |-> IF e.from # n THEN edges[e]
                   ELSE IF n \notin Conditions \/ e.label = route THEN "selected"
                   ELSE "skipped"]

-----------------------------------------------------------------------------
(* schedule_parallel: what every transaction on a parallel run ends with.  *)
(* st and ed are the steps and routes it leaves, kept its active jobs.     *)

\* Nodes without a row that every incoming route passes by.
PassedBy(st, ed) ==
  LET passed[n \in Nodes] ==
        /\ n # Entry
        /\ st[n].status = "absent"
        /\ \A e \in Into(graph, n) :
             \/ ed[e] = "skipped"
             \/ ed[e] = "open" /\ passed[e.from]
  IN {n \in Nodes : passed[n]}

\* Fault: one selected route is enough, the other branches may be open.
ReadyAtFirstRoute(st, ed) ==
  {n \in Nodes :
     /\ st[n].status = "absent"
     /\ n = Entry \/ \E e \in Into(graph, n) : ed[e] = "selected"}
\* Nodes without a row whose routes are all resolved, one of them selected.
Ready(st, ed) ==
  {n \in Nodes :
     /\ st[n].status = "absent"
     /\ \/ n = Entry
        \/ /\ \A e \in Into(graph, n) : ed[e] # "open"
           /\ \E e \in Into(graph, n) : ed[e] = "selected"}

\* Fault: every ready or retrying node gets a job, active or not.
NeedJobAgain(st, ed, kept) ==
  Ready(st, ed) \cup {n \in Nodes : st[n].status = "retrying"}
\* Nodes that are ready or back off, and have no active job yet.
NeedJob(st, ed, kept) ==
  (Ready(st, ed) \cup {n \in Nodes : st[n].status = "retrying"})
    \ {j.node : j \in kept}

\* Jobs take the next sequences in the order of their nodes.
NewJobs(S) ==
  {QueuedJob(last + Cardinality({m \in S : m <= n}), n) : n \in S}

Schedule(row, st, ed, kept) ==
  LET passed == PassedBy(st, ed)
      rows == [n \in Nodes |-> IF n \in passed
                               THEN [NoStep EXCEPT !.status = "skipped"] ELSE st[n]]
      routes == [e \in Edges |-> IF e.from \in passed THEN "skipped" ELSE ed[e]]
      need == NeedJob(rows, routes, kept)
  IN IF row.status \in Terminal
     THEN /\ run' = row
          /\ steps' = st /\ edges' = ed /\ jobs' = {}
          /\ UNCHANGED last
     ELSE /\ jobs' = kept \cup NewJobs(need)
          /\ last' = last + Cardinality(need)
          /\ edges' = routes
          /\ IF need # {} \/ kept # {}
             THEN /\ run' = [row EXCEPT !.status =
                               IF need # {} /\ @ = "waiting" THEN "running" ELSE @]
                  /\ steps' = rows
             ELSE IF \E n \in Nodes : rows[n].status = "waiting"
             THEN /\ run' = [row EXCEPT !.status = "waiting"]
                  /\ steps' = rows
             ELSE \E outcome \in {"completed", "failed"} :
                    \* The outputs of the graph meet their contract or not; a
                    \* node that is left over always fails the run.
                    /\ outcome = "completed" =>
                         \A n \in Nodes : rows[n].status \in Terminal
                    /\ run' = [row EXCEPT !.status = outcome]
                    /\ steps' = CancelSiblings(rows)

\* The run has ended with these steps: nothing is left to schedule.
EndRun(status, st) == Schedule(RunTo(status), st, edges, {})

-----------------------------------------------------------------------------
(* Claims and leases. *)

JobOf(s) == {j \in jobs : j.seq = slots[s].seq}

\* locked_claim: each claim has a fresh token; a job is claimed at most once
\* between two recoveries, so job and recovery count tell tokens apart.
LiveClaim(s) ==
  \E j \in JobOf(s) :
    j.status = "running" /\ j.leased /\ j.recoveries = slots[s].round

Release(s) == slots' = [slots EXCEPT ![s] = IdleSlot]

Claim(s) ==
  /\ slots[s].phase = "idle"
  /\ \E j \in jobs :
       /\ j.status = "queued"
       /\ jobs' = (jobs \ {j}) \cup {[j EXCEPT !.status = "running", !.leased = TRUE]}
       /\ slots' = [slots EXCEPT ![s] = [IdleSlot EXCEPT
                      !.phase = "claimed", !.seq = j.seq, !.round = j.recoveries]]
  /\ UNCHANGED <<run, steps, edges, last>>

\* The lease runs out before its next renewal.
LoseLease ==
  /\ \E j \in jobs :
       /\ j.leased
       /\ jobs' = (jobs \ {j}) \cup {[j EXCEPT !.leased = FALSE]}
  /\ UNCHANGED <<run, steps, edges, last, slots>>

\* The process dies, or an exception without a type leaves the slot.
Interrupt(s) ==
  /\ slots[s].phase # "idle"
  /\ Release(s)
  /\ UNCHANGED durable

-----------------------------------------------------------------------------
(* Dispatch: process_claim to the end of prepare_next, one commit. *)

Undispatched(s) == LiveClaim(s) /\ \A j \in JobOf(s) : ~j.dispatched
Preparable == run.status \notin Terminal \cup {"waiting"}
CanDispatch(s) == slots[s].phase = "claimed" /\ Undispatched(s) /\ Preparable

\* A lost claim changes nothing; a job with nothing to prepare is finished,
\* and nothing is scheduled in its place.
SkipDispatch(s) ==
  /\ slots[s].phase = "claimed"
  /\ ~CanDispatch(s)
  /\ jobs' = IF Undispatched(s) THEN jobs \ JobOf(s) ELSE jobs
  /\ Release(s)
  /\ UNCHANGED <<run, steps, edges, last>>

\* prepare_next finds the deadline of the run passed.
DispatchExpired(s) ==
  /\ CanDispatch(s)
  /\ run.late
  /\ EndRun("failed", EndSteps(steps, "failed"))
  /\ Release(s)

\* A new step, or one that backed off, opens its next attempt.
Opened(n, status, attempt) ==
  [steps EXCEPT ![n] = [status |-> status, number |-> @.number + 1, attempt |-> attempt]]

DispatchAttempt(s) ==
  /\ CanDispatch(s)
  /\ ~run.late
  /\ \E j \in JobOf(s) :
       LET n == Target(j)
           number == steps[n].number + 1
       IN /\ n \notin DelayNodes
          /\ steps[n].status \in {"absent", "retrying"}
          /\ steps' = Opened(n, "running", "running")
          /\ jobs' = (jobs \ {j})
               \cup {[j EXCEPT !.dispatched = TRUE, !.number = number]}
          /\ slots' = [slots EXCEPT ![s].phase = "executing", ![s].number = number]
  /\ run' = [run EXCEPT !.status = "running"]
  /\ UNCHANGED <<edges, last>>

\* schedule_delay: the job is spent, the run goes on with the other branches.
DispatchDelay(s) ==
  /\ CanDispatch(s)
  /\ ~run.late
  /\ \E j \in JobOf(s) :
       LET n == Target(j)
       IN /\ n \in DelayNodes
          /\ steps[n].status \in {"absent", "retrying"}
          /\ Schedule(RunTo("running"), Opened(n, "waiting", "completed"), edges, jobs \ {j})
  /\ Release(s)

\* The node's bindings or its wait are invalid: fail_execution.
DispatchReject(s) ==
  /\ CanDispatch(s)
  /\ ~run.late
  /\ \E j \in JobOf(s) :
       LET n == Target(j)
       IN /\ steps[n].status \in {"absent", "retrying"}
          /\ EndRun("failed", CancelSiblings(Opened(n, "failed", "failed")))
  /\ Release(s)

-----------------------------------------------------------------------------
(* Results: commit_result with complete_work. *)

\* The claim lives and its job still runs the attempt that the slot executes.
Accepted(s, j) ==
  /\ slots[s].phase = "executing"
  /\ LiveClaim(s)
  /\ j \in JobOf(s)
  /\ j.number = slots[s].number
  /\ steps[Target(j)].attempt = "running"

\* A condition names the route of one of its cases, or of its default.
RoutesOf(n) ==
  IF n \in Conditions THEN ToSet(graph.nodes[n].labels) ELSE {Unlabelled}

CommitSuccess(s) ==
  /\ ~run.late
  /\ \E j \in JobOf(s) : \E route \in RoutesOf(Target(j)) :
       /\ Accepted(s, j)
       /\ Schedule(run,
                   [steps EXCEPT ![Target(j)] = MovedStep(@, "completed", "completed")],
                   SelectEdges(Target(j), route), jobs \ {j})
  /\ Release(s)

\* fail_attempt: an error that the policy retries backs off while an attempt
\* and the deadline allow; any other ends the run.
FailAttempt(j) ==
  LET n == Target(j)
  IN \/ /\ ~run.late
        /\ steps[n].number < MaxAttempts(n)
        /\ Schedule(run, [steps EXCEPT ![n] = MovedStep(@, "retrying", "failed")],
                    edges, jobs \ {j})
     \/ EndRun("failed", FailStep(n))

CommitFailure(s) ==
  /\ \E j \in JobOf(s) : Accepted(s, j) /\ FailAttempt(j)
  /\ Release(s)

\* LeaseLostError, StaleWorkflowError: the result is thrown away.
DiscardResult(s) ==
  /\ slots[s].phase = "executing"
  /\ \A j \in JobOf(s) : ~Accepted(s, j)
  /\ Release(s)
  /\ UNCHANGED durable

-----------------------------------------------------------------------------
(* The control loop, and the user. *)

Abandoned(j) == j.status = "running" /\ ~j.leased

\* recover_claim: the steps this job can have left unfinished.
StepsOf(j) ==
  {n \in Nodes : /\ steps[n].status \in Unfinished
                 /\ j.node = NoNode \/ n = j.node}

\* Fault: recovery looks at all unfinished steps of the run.
RequeueAll(j) ==
  /\ Abandoned(j)
  /\ ~run.late
  /\ j.recoveries < MaxRecoveries
  /\ steps' = [n \in Nodes |-> IF steps[n].status = "running"
                               THEN MovedStep(steps[n], "retrying", "failed") ELSE steps[n]]
  /\ jobs' = (jobs \ {j})
       \cup {[QueuedJob(j.seq, j.node) EXCEPT !.recoveries = j.recoveries + 1]}
  /\ UNCHANGED <<run, edges, last, slots>>
\* recover_claim: the step backs off and the same job is queued again.
RequeueExpired(j) ==
  /\ Abandoned(j)
  /\ ~run.late
  /\ j.recoveries < MaxRecoveries
  /\ \A n \in StepsOf(j) :
       steps[n].status # "waiting" /\ steps[n].number < MaxAttempts(n)
  /\ steps' = [n \in Nodes |-> IF n \in StepsOf(j)
                               THEN MovedStep(steps[n], "retrying", "failed") ELSE steps[n]]
  /\ jobs' = (jobs \ {j})
       \cup {[QueuedJob(j.seq, j.node) EXCEPT !.recoveries = j.recoveries + 1]}
  /\ UNCHANGED <<run, edges, last, slots>>

\* recover_claim: budgets are spent, or the backoff would meet the deadline.
FailExpired(j) ==
  /\ Abandoned(j)
  /\ EndRun("failed",
       CancelSiblings([n \in Nodes |->
         IF n \in StepsOf(j) THEN MovedStep(steps[n], "failed", "failed")
         ELSE steps[n]]))
  /\ UNCHANGED slots

\* The scan, or an operator (retry_job) who has read the row and its token.
RecoverClaim(j) == RequeueExpired(j) \/ FailExpired(j)

EnforceRunDeadline ==
  /\ run.late
  /\ jobs # {}
  /\ EndRun("failed", EndSteps(steps, "failed"))
  /\ UNCHANGED slots

\* The watchdog commits the failure in place of the executor, lease or not.
EnforceAttemptTimeout(j) ==
  /\ j.dispatched
  /\ steps[Target(j)].attempt = "running"
  /\ FailAttempt(j)
  /\ UNCHANGED slots

WakeDelay(n) ==
  /\ run.status \in {"running", "waiting"}
  /\ steps[n].status = "waiting"
  /\ IF run.late
     THEN EndRun("failed", EndSteps(steps, "failed"))
     ELSE Schedule(RunTo("running"),
                   [steps EXCEPT ![n] = MovedStep(@, "completed", "completed")],
                   SelectEdges(n, Unlabelled), jobs)
  /\ UNCHANGED slots

Cancel ==
  /\ run.status \notin Terminal
  /\ EndRun("cancelled", EndSteps(steps, "cancelled"))
  /\ UNCHANGED slots

DeadlinePasses ==
  /\ run.status \notin Terminal
  /\ ~run.late
  /\ run' = [run EXCEPT !.late = TRUE]
  /\ UNCHANGED <<steps, edges, jobs, last, slots>>

\* Steps whose outputs, or absence, a recovery run takes over.
Reusable(n) == steps[n].status \in {"completed", "skipped"}

\* recover: a new run keeps what is reusable and the routes it has chosen, and
\* schedules the rest.  Repeated requests are given the run that there is.
Recover ==
  /\ run.status \in {"failed", "cancelled"}
  /\ run.number < MaxRuns
  /\ Schedule([number |-> run.number + 1, status |-> "running", late |-> FALSE],
              [n \in Nodes |-> IF Reusable(n)
                 THEN [NoStep EXCEPT !.status = steps[n].status] ELSE NoStep],
              [e \in Edges |-> IF Reusable(e.from) THEN edges[e] ELSE "open"],
              {})
  /\ UNCHANGED slots

-----------------------------------------------------------------------------
Init ==
  /\ graph \in {g \in Drafts : Valid(g) /\ Of(g, "fork") # {}}
  /\ run = [number |-> 1, status |-> "pending", late |-> FALSE]
  /\ steps = [n \in Nodes |-> NoStep]
  /\ edges = [e \in Edges |-> "open"]
  /\ jobs = {QueuedJob(0, NoNode)}
  /\ last = 0
  /\ slots = [s \in Slots |-> IdleSlot]

Step ==
  \/ \E s \in Slots :
       \/ Claim(s) \/ Interrupt(s) \/ SkipDispatch(s)
       \/ DispatchExpired(s) \/ DispatchAttempt(s) \/ DispatchDelay(s)
       \/ DispatchReject(s)
       \/ CommitSuccess(s) \/ CommitFailure(s) \/ DiscardResult(s)
  \/ \E j \in jobs : RecoverClaim(j) \/ EnforceAttemptTimeout(j)
  \/ \E n \in DelayNodes : WakeDelay(n)
  \/ LoseLease \/ EnforceRunDeadline \/ Cancel \/ DeadlinePasses \/ Recover

Next == Step /\ UNCHANGED graph

Spec == Init /\ [][Next]_vars

-----------------------------------------------------------------------------
(* Properties. *)

StepType == [status : Unfinished \cup Terminal \cup {"absent"}, number : Nat,
             attempt : {"none", "running", "completed", "failed", "cancelled"}]
JobType == [seq : Nat, node : Nodes \cup {NoNode}, status : {"queued", "running"},
            leased : BOOLEAN, dispatched : BOOLEAN, number : Nat, recoveries : Nat]
SlotType == [phase : {"idle", "claimed", "executing"}, seq : Nat, round : Nat,
             number : Nat]

\* Rows and memory are well formed, and attempts and recoveries stay within
\* their budgets on every branch (retry_decision, recover_claim).
TypeOK ==
  /\ run \in [number : 1..MaxRuns, late : BOOLEAN,
              status : {"pending", "running", "waiting", "completed", "failed",
                        "cancelled"}]
  /\ steps \in [Nodes -> StepType]
  /\ \A n \in Nodes : steps[n].number <= MaxAttempts(n)
  /\ \A j \in jobs : j.recoveries <= MaxRecoveries
  /\ edges \in [Edges -> {"open", "selected", "skipped"}]
  /\ jobs \subseteq JobType
  /\ last \in Nat
  /\ slots \in [Slots -> SlotType]

Live == run.status \notin Terminal
CarriedBy(n) == {j \in jobs : Target(j) = n}

\* While the run lives each piece of its work is carried by exactly one job:
\* a ready node and a step that backs off by a job not dispatched yet, a
\* running step by the job that dispatched its attempt.  Nothing else has a
\* job.  So concurrent branches lose no node and run none twice, although
\* each schedules from what it sees (schedule_parallel), and a job is claimed
\* by whoever comes first.  And the run waits exactly when no branch has
\* anything else to do, so that the wake of any branch finds it and no job is
\* dropped because it waits (prepare_next returns at once for such a run).
WorkCarried ==
  Live =>
    /\ run.status = "waiting" <=> jobs = {}
    /\ \A n \in Nodes :
         CASE n \in Ready(steps, edges) \/ steps[n].status = "retrying" ->
                \E j \in jobs : CarriedBy(n) = {j} /\ ~j.dispatched
           [] steps[n].status = "running" ->
                \E j \in jobs : /\ CarriedBy(n) = {j} /\ j.dispatched
                               /\ j.number = steps[n].number
           [] OTHER -> CarriedBy(n) = {}

\* When a run ends, by whichever branch, watchdog or user, no sibling of it
\* survives: no step or attempt goes on and no job can be claimed.
NoSurvivor ==
  ~Live => /\ jobs = {}
           /\ \A n \in Nodes : /\ steps[n].status \notin Unfinished
                              /\ steps[n].attempt # "running"

\* What the validator has accepted runs as drawn: a join has a row only after
\* its fork and every node of its branches has run or been skipped, a branch
\* has rows only after the fork is done, and no other node has a row by two
\* routes or by none (validate_graph_contract, schedule_parallel).
RegionsClosed ==
  /\ \A n \in Of(graph, "fork") :
       /\ steps[graph.nodes[n].partner].status # "absent" =>
            \A m \in Inside(graph, n) \cup {n} :
              steps[m].status \in {"completed", "skipped"}
       /\ \A m \in Inside(graph, n) :
            steps[m].status \notin {"absent", "skipped"} => steps[n].status = "completed"
  /\ \A n \in Nodes \ (Of(graph, "join") \cup {Entry}) :
       steps[n].status # "absent" =>
         Cardinality({e \in Into(graph, n) : edges[e] = "selected"})
           = IF steps[n].status = "skipped" THEN 0 ELSE 1

-----------------------------------------------------------------------------
(* The invariant that the proofs rest on.  Its parts about rows are stated  *)
(* of any rows, for Schedule is handed rows that are not yet the state's.   *)

GraphAccepted(g) == Valid(g) /\ Of(g, "fork") # {}

\* Without a row there was no attempt; a step that backs off has one to spare;
\* an attempt runs exactly while its step does.
StepsFit(st) ==
  \A n \in Nodes :
    /\ st[n].status = "absent" => st[n].number = 0
    /\ st[n].status = "retrying" => st[n].number < MaxAttempts(n)
    /\ st[n].status = "running" <=> st[n].attempt = "running"

\* The routes out of a node are open until it has completed or been skipped.
RoutesFit(st, ed) ==
  \A e \in Edges : ed[e] = "open" <=> st[e.from].status \notin {"completed", "skipped"}

\* Neither a sequence nor a node is shared by two jobs.
JobsApart(js, top) ==
  /\ \A j \in js : j.seq <= top
  /\ \A j, k \in js : j.seq = k.seq \/ Target(j) = Target(k) => j = k

\* A job that is dispatched runs the latest attempt of its node, any other
\* stands for a node that is ready or backs off.
Waits(st, ed, n) == n \in Ready(st, ed) \/ st[n].status = "retrying"
JobsAtWork(st, ed, js) ==
  \A j \in js :
    IF j.dispatched
    THEN st[Target(j)].status = "running" /\ j.number = st[Target(j)].number
    ELSE Waits(st, ed, Target(j))

\* What waits or runs has a job.
WorkHasJob(st, ed, js) ==
  \A n \in Nodes :
    Waits(st, ed, n) \/ st[n].status = "running" => \E j \in js : Target(j) = n

\* The first job is alone until the entry node is done.
FirstJobAlone(st, js) ==
  \A j \in js :
    j.node = NoNode => js = {j} /\ \A n \in Nodes \ {Entry} : st[n].status = "absent"

StateFits(row, st, ed, js, top) ==
  /\ StepsFit(st) /\ RoutesFit(st, ed)
  /\ JobsApart(js, top) /\ JobsAtWork(st, ed, js) /\ FirstJobAlone(st, js)
  /\ IF row.status \in Terminal
     THEN js = {} /\ \A n \in Nodes : st[n].status \notin Unfinished
     ELSE WorkHasJob(st, ed, js) /\ (row.status = "waiting" <=> js = {})

IInv ==
  /\ graph \in Drafts /\ GraphAccepted(graph)
  /\ TypeOK
  /\ StateFits(run, steps, edges, jobs, last)

=============================================================================
