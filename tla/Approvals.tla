----------------------------- MODULE Approvals -----------------------------
(***************************************************************************)
(* Human approvals and quality revisions: approval_runtime.py and          *)
(* quality_revisions.py on a run that parallel_runtime.py schedules, which *)
(* is every run whose graph has a fork or a revision policy.  A reviewer   *)
(* loads an approval and decides later, perhaps twice, perhaps too late:   *)
(* any decision on any approval there has been may arrive at any moment,   *)
(* while approvals expire, branches fail and the user cancels.             *)
(*                                                                         *)
(* Every action of the service is one transaction under the lock of the    *)
(* run.  Claims and leases are left out, ParallelRun has them: a job is    *)
(* taken and its step started in one action, and finished in another.  An  *)
(* attempt that is retried changes nothing here.                           *)
(***************************************************************************)
EXTENDS Integers, Sequences

CONSTANTS
  LastNode,         \* the graph's nodes are 1..LastNode, in topological order
  Edges,            \* pairs of nodes
  Gates,            \* nodes of type "approval"; the others run an executor
  ToolGate,         \* config.approval_node of each tool that has effects
  EntryNode, ReviewNode, ApprovalNode,  \* graph.quality_revision
  MaxRevisions,     \* quality_revision.max_revisions
  MaxReviewRetries, \* config.max_review_retries of each gate
  RejectOnTimeout,  \* gates whose timeout_action is "reject"
  MaxEdits          \* bound: edits that reviewers make to one step

Nodes == 1..LastNode
Tools == DOMAIN ToolGate
Entry == 1
Terminal == {"completed", "failed", "cancelled"}
Unfinished == {"running", "waiting"}
Actions == {"approve", "edit", "reject", "request_retry"}

\* quality_revision.nodes: those on the ways from its entry to its review.
Before(n) ==
  LET leads[m \in Nodes] == m = n \/ \E e \in Edges : e[1] = m /\ leads[e[2]]
  IN {m \in Nodes : leads[m]}
Revised == {n \in Before(ReviewNode) : EntryNode \in Before(n)}

\* An ordered subgraph, entered and left at its ends only.
ClosedRevision ==
  /\ EntryNode # ReviewNode /\ EntryNode \in Before(ReviewNode)
  /\ \A e \in Edges : /\ e[2] \in Revised \ {EntryNode} => e[1] \in Revised
                     /\ e[1] \in Revised \ {ReviewNode} => e[2] \in Revised

\* validate_policy: one gate, right after the review, which nothing else leads
\* to; no waits in the region.
GateFollowsReview ==
  /\ ApprovalNode \in Gates /\ Gates \cap Revised = {}
  /\ <<ReviewNode, ApprovalNode>> \in Edges
  /\ \A e \in Edges : e[1] = ReviewNode <=> e[2] = ApprovalNode

ASSUME GraphAssumption ==
  /\ LastNode \in Nat \ {0}
  /\ Edges \subseteq Nodes \X Nodes
  /\ \A e \in Edges : e[1] < e[2]
  /\ \A n \in Nodes \ {Entry} : \E e \in Edges : e[2] = n
  /\ {EntryNode, ReviewNode} \subseteq Nodes /\ Gates \subseteq Nodes
ASSUME PolicyAssumption == ClosedRevision /\ GateFollowsReview

\* validate_references: the gate of a tool is upstream of it.
GatedUpstream ==
  \A n \in Tools : n \notin Gates /\ ToolGate[n] \in Gates \cap (Before(n) \ {n})
ASSUME ToolAssumption == Tools \subseteq Nodes /\ GatedUpstream
ASSUME BoundAssumption ==
  /\ MaxRevisions \in Nat /\ MaxEdits \in Nat
  /\ MaxReviewRetries \in [Gates -> Nat]
  /\ RejectOnTimeout \subseteq Gates

VARIABLES
  run,        \* workflow_executions: status, and whether its deadline passed
  quality,    \* checkpoint_json.quality: iteration, human_retries
  retries,    \* checkpoint_json.parallel_approval_retries; 0 for no entry
  steps,      \* the latest step_runs row of each node
  edges,      \* the edges that are selected in checkpoint_json.edges
  jobs,       \* the active durable_jobs: node and iteration
  approvals   \* execution_approvals in order of creation

vars == <<run, quality, retries, steps, edges, jobs, approvals>>

-----------------------------------------------------------------------------
(* Revisions. *)

\* affected_nodes: everything from the entry of the region onwards.
Affected ==
  LET reached[n \in Nodes] ==
        n = EntryNode \/ \E e \in Edges : e[2] = n /\ reached[e[1]]
  IN {n \in Nodes : reached[n]}

IterationIn(q, n) == IF n \in Affected THEN q.iteration ELSE 0

NoStep == [status |-> "absent", iteration |-> 0, output |-> 0]
\* rows_for: rows of earlier iterations no longer count.
Row(q, st, n) == IF st[n].iteration >= IterationIn(q, n) THEN st[n] ELSE NoStep

\* Fault: a revision keeps the routes that the previous iteration selected.
KeepRoutes(ed) == ed
\* restart drops the routes of the affected nodes.
DropRoutes(ed) == {e \in ed : e[1] \notin Affected}

-----------------------------------------------------------------------------
(* schedule_parallel, as ParallelRun has it in detail: jobs for what is     *)
(* ready, a wait when only gates are left, the end when nothing is.         *)

Absent(q, st, n) == Row(q, st, n).status = "absent"
Ready(q, st, ed) ==
  {n \in Nodes : Absent(q, st, n) /\ \A e \in Edges : e[2] = n => e \in ed}

NeedJob(q, rt, st, ed) ==
  {[node |-> n, iteration |-> IterationIn(q, n)] : n \in Ready(q, st, ed)}
    \cup {[node |-> n, iteration |-> rt[n]] : n \in {m \in Gates : rt[m] > 0}}

\* close_pending
ClosePending(list, status) ==
  [k \in DOMAIN list |-> IF list[k].status = "pending"
                         THEN [list[k] EXCEPT !.status = status] ELSE list[k]]
EndSteps(st, status) ==
  [n \in Nodes |-> IF st[n].status \in Unfinished
                   THEN [st[n] EXCEPT !.status = status] ELSE st[n]]

\* expire_execution, cancel_siblings, cancel_execution: the run ends, and every
\* unfinished step, pending approval and active job with it.
EndRun(status, rest, st, list) ==
  /\ run' = [run EXCEPT !.status = status]
  /\ steps' = EndSteps(st, rest)
  /\ approvals' = ClosePending(list, IF rest = "failed" THEN "expired" ELSE "cancelled")
  /\ jobs' = {}
  /\ UNCHANGED <<quality, retries, edges>>

Schedule(q, rt, st, ed, list, kept) ==
  LET queued == kept \cup NeedJob(q, rt, st, ed)
      waiting == \E n \in Nodes : st[n].status = "waiting"
  IN /\ jobs' = queued
     /\ quality' = q /\ retries' = rt
     /\ steps' = st /\ edges' = ed /\ approvals' = list
     /\ \/ queued # {} /\ run' = [run EXCEPT !.status = "running"]
        \/ queued = {} /\ waiting /\ run' = [run EXCEPT !.status = "waiting"]
        \* The outputs of the graph meet their contract or not.
        \/ /\ queued = {} /\ ~waiting
           /\ \E outcome \in {"completed", "failed"} :
                run' = [run EXCEPT !.status = outcome]

-----------------------------------------------------------------------------
(* Execution of the nodes. *)

\* Fault: the replacement takes the number of the row it replaces.
SameRevision(k) == approvals[k].revision
NextRevision(k) == approvals[k].revision + 1

NewApproval(n, iteration, revision, due) ==
  [node |-> n, iteration |-> iteration, revision |-> revision,
   status |-> "pending", due |-> due]

\* prepare_next: a gate registers its approval and its job is spent; any other
\* node runs an executor.
StartStep(j) ==
  /\ ~run.late
  /\ IF j.node \in Gates
     THEN Schedule(quality,
                   [retries EXCEPT ![j.node] = 0],
                   [steps EXCEPT ![j.node] = [status |-> "waiting",
                      iteration |-> j.iteration, output |-> 0]],
                   edges,
                   Append(approvals, NewApproval(j.node, j.iteration, 1, FALSE)),
                   jobs \ {j})
     ELSE /\ steps[j.node].status # "running"
          /\ run' = [run EXCEPT !.status = "running"]
          /\ steps' = [steps EXCEPT ![j.node] = [status |-> "running",
                         iteration |-> j.iteration, output |-> 0]]
          /\ UNCHANGED <<quality, retries, edges, jobs, approvals>>

\* The payload or the review that reached a gate is invalid, an executor fails
\* for good, or the recovery of its job is exhausted.
FailStep(j) ==
  /\ ~run.late
  /\ EndRun("failed", "cancelled",
            [steps EXCEPT ![j.node] = [status |-> "failed",
               iteration |-> j.iteration, output |-> 0]],
            approvals)

Completed(n, output) == [steps EXCEPT ![n].status = "completed", ![n].output = output]
Selected(n) == edges \cup {e \in Edges : e[1] = n}

\* quality_revision_busy: unfinished work in the nodes that would start again.
Busy(st) == \E n \in Affected : st[n].status \in Unfinished

\* Fault: the review counts its iteration after the comparison.
AfterReviewUnbounded(st) ==
  \E q \in {quality, [quality EXCEPT !.iteration = @ + 1]} :
    /\ q # quality => quality.iteration <= MaxRevisions /\ ~Busy(st)
    /\ Schedule(q, retries, st,
                IF q = quality THEN Selected(ReviewNode) ELSE DropRoutes(Selected(ReviewNode)),
                approvals, jobs \ {[node |-> ReviewNode, iteration |-> steps[ReviewNode].iteration]})
\* after_review: accepted or left to the human; or, while revisions are left,
\* the region starts again.
AfterReview(st) ==
  \E q \in {quality, [quality EXCEPT !.iteration = @ + 1]} :
    /\ q # quality => quality.iteration < MaxRevisions /\ ~Busy(st)
    /\ Schedule(q, retries, st,
                IF q = quality THEN Selected(ReviewNode) ELSE DropRoutes(Selected(ReviewNode)),
                approvals, jobs \ {[node |-> ReviewNode, iteration |-> steps[ReviewNode].iteration]})

\* require_approval: the latest row of the gate has passed, on an approval no
\* older than the step that has not run out since.
Granted(n, k) ==
  LET gate == steps[ToolGate[n]]
  IN /\ approvals[k].node = ToolGate[n]
     /\ approvals[k].iteration = gate.iteration
     /\ approvals[k].status = "approved" /\ ~approvals[k].due
     /\ gate.status = "completed" /\ gate.output = k
     /\ gate.iteration >= steps[n].iteration

\* The write of a tool is reserved or sent on the strength of an approval; its
\* step fails without one.
Dispatch(n) ==
  /\ run.status = "running" /\ ~run.late
  /\ steps[n].status = "running"
  /\ \E k \in DOMAIN approvals :
       Granted(n, k) /\ steps' = [steps EXCEPT ![n].output = k]
  /\ UNCHANGED <<run, quality, retries, edges, jobs, approvals>>

FinishStep(j) ==
  /\ ~run.late
  /\ steps[j.node].status = "running"
  /\ j.node \in Tools => steps[j.node].output # 0
  /\ LET done == Completed(j.node, steps[j.node].output)
     IN IF j.node = ReviewNode THEN AfterReview(done)
        ELSE Schedule(quality, retries, done, Selected(j.node), approvals, jobs \ {j})

-----------------------------------------------------------------------------
(* Decisions. *)

StepOf(k) == steps[approvals[k].node]

\* terminate_wait: the step of the gate ends, the siblings are cancelled, the
\* run ends as the step did.
TerminateWait(k, status, decision) ==
  EndRun(status, "cancelled",
         [steps EXCEPT ![approvals[k].node].status = status],
         [approvals EXCEPT ![k] = decision])

\* Fault: the deadline of the run is left to the watchdog of its jobs.
OverdueItself(k) == approvals[k].due
\* expired: the deadline of the run comes before that of the approval.
Overdue(k) == run.late \/ approvals[k].due
Expire(k) ==
  IF run.late
  THEN EndRun("failed", "failed", steps, approvals)
  ELSE TerminateWait(k,
         IF approvals[k].node \in RejectOnTimeout THEN "cancelled" ELSE "failed",
         [approvals[k] EXCEPT !.status = "expired"])

Resolved(k, status) == [approvals EXCEPT ![k].status = status]

Approve(k) ==
  LET n == approvals[k].node
  IN Schedule(quality, retries, Completed(n, k), Selected(n),
              Resolved(k, "approved"), jobs)

Reject(k) ==
  TerminateWait(k, "cancelled",
    [approvals[k] EXCEPT !.status = "rejected"])

\* The step goes on waiting, for a decision on the edited payload.
Edit(k) ==
  /\ approvals[k].revision <= MaxEdits
  /\ approvals' = Append(Resolved(k, "superseded"),
                    NewApproval(approvals[k].node, approvals[k].iteration,
                                NextRevision(k), approvals[k].due))
  /\ UNCHANGED <<run, quality, retries, steps, edges, jobs>>

\* human_retry_policy and restart: the whole region runs again.
RequestRevision(k) ==
  /\ approvals[k].node = ApprovalNode
  /\ quality.iteration < MaxRevisions
  /\ quality.human < MaxReviewRetries[ApprovalNode]
  /\ ~Busy(Completed(ApprovalNode, 0))
  /\ Schedule([iteration |-> quality.iteration + 1, human |-> quality.human + 1],
              retries, Completed(ApprovalNode, 0), DropRoutes(edges),
              Resolved(k, "retry_requested"), jobs)

\* A gate without a policy is put to the reviewers once more.
RequestReview(k) ==
  LET n == approvals[k].node
  IN /\ n # ApprovalNode
     /\ StepOf(k).iteration < MaxReviewRetries[n]
     /\ Schedule(quality, [retries EXCEPT ![n] = StepOf(k).iteration + 1],
                 Completed(n, 0), edges,
                 Resolved(k, "retry_requested"), jobs)

\* Fault: the status of the approval is read before the run is locked.
OpenWhenLoaded(k) ==
  /\ run.status \in {"running", "waiting"}
  /\ \E n \in Gates : n = approvals[k].node /\ steps[n].status # "absent"
\* decide_approval goes on only while approval, run and step are open.
Open(k) ==
  /\ approvals[k].status = "pending"
  /\ run.status \in {"running", "waiting"}
  /\ StepOf(k).status = "waiting"

\* A decision that has been made before is answered again (request_hash), any
\* other on a resolved approval is refused: neither changes anything.
Decide(k, action) ==
  /\ Open(k)
  /\ \/ Overdue(k) /\ Expire(k)
     \/ ~Overdue(k) /\ action = "approve" /\ Approve(k)
     \/ ~Overdue(k) /\ action = "reject" /\ Reject(k)
     \/ ~Overdue(k) /\ action = "edit" /\ Edit(k)
     \/ ~Overdue(k) /\ action = "request_retry" /\ RequestRevision(k)
     \/ ~Overdue(k) /\ action = "request_retry" /\ RequestReview(k)

-----------------------------------------------------------------------------
(* Expiry, deadlines and cancellation. *)

ApprovalFallsDue(k) ==
  /\ approvals[k].status \in {"pending", "approved"}
  /\ ~approvals[k].due
  /\ approvals' = [approvals EXCEPT ![k].due = TRUE]
  /\ UNCHANGED <<run, quality, retries, steps, edges, jobs>>

DeadlinePasses ==
  /\ run.status \notin Terminal
  /\ ~run.late
  /\ run' = [run EXCEPT !.late = TRUE]
  /\ UNCHANGED <<quality, retries, steps, edges, jobs, approvals>>

\* expire_approval_waits, one row of its scan
ExpireWait(k) ==
  /\ approvals[k].status = "pending"
  /\ run.status \in {"running", "waiting"}
  /\ Overdue(k)
  /\ Expire(k)

\* prepare_next and the watchdog, for a run that still has jobs.
EnforceRunDeadline ==
  /\ run.late
  /\ jobs # {}
  /\ EndRun("failed", "failed", steps, approvals)

Cancel ==
  /\ run.status \notin Terminal
  /\ EndRun("cancelled", "cancelled", steps, approvals)

-----------------------------------------------------------------------------
Init ==
  /\ run = [status |-> "pending", late |-> FALSE]
  /\ quality = [iteration |-> 0, human |-> 0]
  /\ retries = [n \in Gates |-> 0]
  /\ steps = [n \in Nodes |-> NoStep]
  /\ edges = {}
  /\ jobs = {[node |-> Entry, iteration |-> 0]}
  /\ approvals = <<>>

Next ==
  \/ \E j \in jobs : StartStep(j) \/ FinishStep(j) \/ FailStep(j)
  \/ \E n \in Tools : Dispatch(n)
  \/ \E k \in DOMAIN approvals :
       \/ \E action \in Actions : Decide(k, action)
       \/ ApprovalFallsDue(k) \/ ExpireWait(k)
  \/ DeadlinePasses \/ EnforceRunDeadline \/ Cancel

Spec == Init /\ [][Next]_vars

\* Time passes, and the control loop of some worker scans for what is overdue.
FairSpec ==
  /\ Spec
  /\ WF_vars(DeadlinePasses) /\ WF_vars(EnforceRunDeadline)
  /\ WF_vars(\E k \in DOMAIN approvals : ExpireWait(k))

-----------------------------------------------------------------------------
(* Properties. *)

Live == run.status \notin Terminal
StepType ==
  [status : Unfinished \cup Terminal \cup {"absent"}, iteration : Nat, output : Nat]
ApprovalType ==
  [node : Gates, iteration : Nat, revision : Nat \ {0}, due : BOOLEAN,
   status : {"pending", "approved", "rejected", "retry_requested", "superseded",
             "cancelled", "expired"}]

\* Rows are well formed, and revisions, automatic and human ones together,
\* stay within max_revisions, the human ones within max_review_retries too.
TypeOK ==
  /\ run \in [status : {"pending", "running", "waiting"} \cup Terminal, late : BOOLEAN]
  /\ quality \in [iteration : 0..MaxRevisions, human : 0..MaxReviewRetries[ApprovalNode]]
  /\ retries \in [Gates -> Nat]
  /\ \A n \in Gates : retries[n] <= MaxReviewRetries[n]
  /\ steps \in [Nodes -> StepType]
  /\ edges \subseteq Edges
  /\ jobs \subseteq [node : Nodes, iteration : Nat]
  /\ approvals \in Seq(ApprovalType)

Current(n) == Row(quality, steps, n)
SameGate(k, m) ==
  /\ approvals[k].node = approvals[m].node
  /\ approvals[k].iteration = approvals[m].iteration
PendingFor(n) ==
  {k \in DOMAIN approvals : approvals[k].node = n /\ approvals[k].status = "pending"}

WaitMatches(n) ==
  IF Current(n).status = "waiting"
  THEN \E k \in DOMAIN approvals :
         /\ PendingFor(n) = {k}
         /\ approvals[k].iteration = steps[n].iteration
         /\ \A m \in DOMAIN approvals :
              SameGate(k, m) => approvals[m].revision < approvals[k].revision \/ m = k
  ELSE PendingFor(n) = {}

\* A gate waits exactly as long as one approval of its current iteration is
\* open, the last one of its revisions; when the run has ended none is.  So a
\* decision, an edit, an expiry, a failing branch and a cancellation that
\* race leave neither a wait that nobody can end nor an approval that
\* somebody can still grant (close_pending, resolve, new_approval).
ApprovalsMatchWaits ==
  /\ \A n \in Gates : WaitMatches(n)
  /\ ~Live => \A n \in Nodes : steps[n].status \notin Unfinished

\* While the run lives, what is ready has its job, in the current iteration,
\* and nothing else has: each decision resumes the run once, and a revision
\* leaves no work of the iteration it replaces.
WorkResumed ==
  Live =>
    /\ NeedJob(quality, retries, steps, edges) \subseteq jobs
    /\ \A j \in jobs \ NeedJob(quality, retries, steps, edges) :
         /\ steps[j.node].status = "running"
         /\ steps[j.node].iteration = j.iteration
         /\ j.iteration = IterationIn(quality, j.node)
    /\ run.status = "waiting" <=> jobs = {}

\* The gate has passed on the payload of one approval.
PassedOn(n, k) ==
  /\ k \in DOMAIN approvals
  /\ approvals[k].status = "approved"
  /\ approvals[k].node = n
  /\ approvals[k].iteration = Current(n).iteration
  /\ \A m \in DOMAIN approvals :
       SameGate(k, m) /\ m # k => approvals[m].status \notin {"approved", "pending"}

\* What lies behind a gate runs only on what somebody approved: the gate's
\* output is the payload of an approved approval of its current iteration,
\* and no other approval of that iteration was granted or is still open.  And
\* a tool acts on the approval its gate has passed on, which is not taken back
\* or replaced while the step counts (require_approval).
ProceedsAsApproved ==
  /\ \A e \in edges : e[1] \in Gates => PassedOn(e[1], steps[e[1]].output)
  /\ \A n \in Tools :
       LET k == Current(n).output
       IN k # 0 => steps[ToolGate[n]].output = k /\ PassedOn(ToolGate[n], k)

\* A run that waits for people ends all the same: its deadline passes, and
\* the scan for overdue approvals ends the wait, or the watchdog the job.
RunEnds == <>(run.status \in Terminal)

-----------------------------------------------------------------------------
(* The invariant that the proofs rest on: what the rows of a run say of     *)
(* each other, and of its jobs.                                             *)

\* A step that is not there has no past, one that goes on belongs to the
\* current iteration, only gates wait, and only gates other than that of the
\* policy are ever ahead of the iteration.
StepsFit ==
  \A n \in Nodes :
    /\ steps[n].status = "absent" => steps[n] = NoStep
    /\ steps[n].status \in Unfinished => steps[n].iteration >= IterationIn(quality, n)
    /\ steps[n].status = "waiting" => n \in Gates
    /\ steps[n].status = "running" => n \notin Gates
    /\ n \notin Gates \ {ApprovalNode} => steps[n].iteration <= IterationIn(quality, n)

\* What counts has been reached over selected routes only, and these start at
\* nodes that have completed and still count.
Grounded ==
  /\ \A e \in edges : Current(e[1]).status = "completed"
  /\ \A n \in Nodes :
       Current(n).status # "absent" => \A e \in Edges : e[2] = n => e \in edges

\* Approvals are of this iteration of their gate or of an earlier one, and one
\* that was granted in this iteration is the gate's output.
ApprovalFits(k) ==
  /\ StepOf(k).status # "absent" /\ approvals[k].iteration <= StepOf(k).iteration
  /\ approvals[k].status = "approved" /\ approvals[k].iteration = StepOf(k).iteration
       => StepOf(k).status = "completed" /\ StepOf(k).output = k

RowsFit ==
  /\ StepsFit /\ Grounded
  /\ \A k \in DOMAIN approvals : ApprovalFits(k)
  /\ \A n \in Gates : WaitMatches(n)
  /\ ProceedsAsApproved

\* A gate that will be put to the reviewers again has passed nothing on.
RetriesFit ==
  \A n \in Gates :
    retries[n] > 0 =>
      /\ n # ApprovalNode
      /\ steps[n].status = "completed" /\ steps[n].output = 0
      /\ steps[n].iteration >= IterationIn(quality, n)
      /\ retries[n] = steps[n].iteration + 1

\* Each step that runs has its job; a run that has ended has none.
JobsFit ==
  /\ WorkResumed
  /\ IF Live
     THEN /\ RetriesFit
          /\ \A n \in Nodes :
               steps[n].status = "running" =>
                 [node |-> n, iteration |-> steps[n].iteration] \in jobs
     ELSE jobs = {} /\ \A n \in Nodes : steps[n].status \notin Unfinished

IInv == TypeOK /\ RowsFit /\ JobsFit

=============================================================================
