------------------------------- MODULE Pipeline -------------------------------
(***************************************************************************)
(* The older agent pipeline: a WorkflowRun that clients advance request by *)
(* request (routers/workflow_runs.py), one agent at a time.  Every change  *)
(* is a workflow_transaction, which holds only while the run is at the     *)
(* revision its session has loaded; the model asks provider and runs       *)
(* outside of it.  So a request is: load the run, commit the start of an   *)
(* agent, ask the provider, commit the outcome; or load and commit a human *)
(* decision or a cancellation.  A process may die anywhere in between.     *)
(*                                                                         *)
(* The sales, customer feedback, incident and baseline agents share their  *)
(* actions: what differs is which agent comes first, which one analyses,   *)
(* and what it starts from.  Outputs, prompts, costs and permissions are   *)
(* left out; a step remembers what it is about.                            *)
(*                                                                         *)
(* evaluation_runner.py runs a case on this engine where the durable one   *)
(* does not serve its workflow type: within a single request it makes the  *)
(* calls one after another, and approves for the human itself.             *)
(***************************************************************************)
EXTENDS Naturals, Sequences, FiniteSets, SequencesExt

CONSTANTS
  Sessions,     \* requests that are served at the same time
  Evaluator,    \* the one of them that may be the run of an evaluation case
  Kinds,        \* of runs: workflow type and run mode
  Edits,        \* what a human may put in the place of an analysis
  NoEdit,       \* edited_analysis_json is None
  MaxRetries,   \* runtime_config.max_retries of the reviewer
  MaxSteps      \* bound: steps of a run

ASSUME KindAssumption ==
  /\ Evaluator \in Sessions
  /\ Kinds \subseteq {"sales", "feedback", "incident", "baseline"}
  /\ NoEdit \notin Edits
  /\ {MaxRetries, MaxSteps} \subseteq Nat

VARIABLES
  run,         \* its kind, status and retry_count, and the step that wrote final_output
  steps,       \* the agent_steps in step_order
  approvals,   \* the human_approvals in the order they were created
  sessions,    \* by request: what it is doing, and the step it has started
  fresh,       \* the requests whose loaded revision is the run's state_revision
  evaluation   \* status of the EvaluationResult, the last call made for it, and
               \* whether an approval was taken in the name of the human

vars == <<run, steps, approvals, sessions, fresh, evaluation>>

-----------------------------------------------------------------------------
(* The state machine of a run and the agents of each kind. *)

ValidTransitions ==
  [created |-> {"running", "cancelled"},
   running |-> {"analyst_running", "completed", "failed", "cancelled"},
   analyst_running |-> {"reviewer_running", "retrying", "failed", "cancelled"},
   reviewer_running |->
     {"waiting_for_human", "writer_running", "retrying", "failed", "cancelled"},
   retrying |-> {"analyst_running", "failed", "cancelled"},
   waiting_for_human |-> {"writer_running", "analyst_running", "retrying", "cancelled"},
   writer_running |-> {"completed", "failed", "cancelled"},
   completed |-> {}, failed |-> {}, cancelled |-> {}]

Terminal == {"completed", "failed", "cancelled"}

Of(agent, status) == {i \in DOMAIN steps : steps[i].agent = agent /\ steps[i].status = status}
Completed(agent) == Of(agent, "completed")
LastOf(ids) == CHOOSE i \in ids : \A j \in ids : j <= i
Latest(agent) == LastOf(Completed(agent))

Resolved(status) == {i \in DOMAIN approvals : approvals[i].status = status}

-----------------------------------------------------------------------------
(* The calls of an evaluation, in the place of a client's. *)

Driven(s) == s = Evaluator /\ evaluation.status = "pending" /\ evaluation.last # "gone"

\* The agents of each kind up to the reviewer.
Agents ==
  [sales |-> <<"analyst">>, feedback |-> <<"classifier", "insight", "reviewer">>,
   incident |-> <<"timeline", "root_cause", "reviewer">>, baseline |-> <<"baseline">>]

\* _run_multi_agent_case and its variants.  Agents are called in turn unless
\* the run has failed; the sales reviewer and analyst alternate while retries
\* last; an approval that is waited for is given, and the writer called.
NextCall ==
  LET made == evaluation.last
      agents == Agents[run.kind]
      later == {i \in 2..Len(agents) : agents[i - 1] = made}
  IN CASE made = "none" -> Head(agents)
       [] made = "approved" -> "writer"
       [] made \in {"writer", "baseline"} \/ run.status = "failed" -> "settle"
       [] OTHER ->
            IF later # {} THEN agents[CHOOSE i \in later : TRUE]
            ELSE IF run.kind = "sales" /\ run.status = "reviewer_running" THEN "reviewer"
            ELSE IF run.kind = "sales" /\ run.status = "retrying" /\ made = "reviewer"
            THEN "analyst"
            ELSE IF run.status = "waiting_for_human" THEN "approved"
            ELSE IF run.status = "writer_running" THEN "writer"
            ELSE "settle"

\* A session makes whatever call its client asks for, or the next one.
Calls(s, call) ==
  /\ Driven(s) => call = NextCall
  /\ evaluation' = IF ~Driven(s) THEN evaluation
                   ELSE [evaluation EXCEPT !.last = call,
                           !.approved = @ \/ call = "approved"]

\* _complete_result: completed if the run is.
SettleEvaluation ==
  /\ Driven(Evaluator)
  /\ sessions[Evaluator].pc = "idle"
  /\ NextCall = "settle"
  /\ evaluation' = [evaluation EXCEPT !.status =
                      IF run.status = "completed" THEN "completed" ELSE "failed"]
  /\ UNCHANGED <<run, steps, approvals, sessions, fresh>>

-----------------------------------------------------------------------------
(* Sessions and transactions. *)

Load(s) ==
  /\ sessions[s].pc = "idle"
  /\ Driven(s) => NextCall # "settle"
  /\ sessions' = [sessions EXCEPT ![s] = [pc |-> "loaded", step |-> 0]]
  /\ fresh' = fresh \cup {s}
  /\ UNCHANGED <<run, steps, approvals, evaluation>>

Idle(s) == sessions' = [sessions EXCEPT ![s] = [pc |-> "idle", step |-> 0]]

\* StaleWorkflowError, a refusal that changes nothing, or the end of the process;
\* an evaluation fails with the errors and is left pending by the end.
Leave(s) ==
  /\ sessions[s].pc # "idle"
  /\ Idle(s)
  /\ fresh' = fresh \ {s}
  /\ \/ ~Driven(s) /\ UNCHANGED evaluation
     \/ Driven(s) /\ evaluation' = [evaluation EXCEPT !.status = "failed"]
     \/ Driven(s) /\ evaluation' = [evaluation EXCEPT !.last = "gone"]
  /\ UNCHANGED <<run, steps, approvals>>

Expected(s) == s \in fresh

\* The transaction of s, which then goes on to ask the provider or is done.
Commits(s, pc) == sessions[s].pc = pc /\ Expected(s) /\ run.status \notin Terminal
Goes(s) ==
  /\ sessions' = [sessions EXCEPT ![s] = [pc |-> "asking", step |-> Len(steps) + 1]]
  /\ fresh' = {s}
Done(s) == Idle(s) /\ fresh' = {}

Moves(status) ==
  /\ status \in ValidTransitions[run.status]
  /\ run' = [run EXCEPT !.status = status]

NewStep(agent, about, edits) ==
  [agent |-> agent, status |-> "running", about |-> about, edits |-> edits, approved |-> FALSE]

Starts(s, agent, about, edits) ==
  /\ Commits(s, "loaded")
  /\ Calls(s, agent)
  /\ Len(steps) < MaxSteps
  /\ steps' = Append(steps, NewStep(agent, about, edits))
  /\ Goes(s)
  /\ UNCHANGED approvals

-----------------------------------------------------------------------------
(* What the handlers of the agents have in common. *)

Resolves(s, agent, status, approved) ==
  /\ Commits(s, "asking")
  /\ steps[sessions[s].step].agent = agent
  /\ steps[sessions[s].step].status = "running"
  /\ steps' = [steps EXCEPT ![sessions[s].step].status = status,
                            ![sessions[s].step].approved = approved]
  /\ Done(s)
  /\ UNCHANGED evaluation

\* A provider error, an output that no repair makes valid, an empty report.
Fails(s, agent) ==
  /\ Resolves(s, agent, "failed", FALSE)
  /\ Moves("failed")
  /\ UNCHANGED approvals

\* Classifier and timeline: the run stays running.
Opens(s, agent) ==
  /\ run.status = "created"
  /\ Starts(s, agent, 0, NoEdit)
  /\ Moves("running")

Opened(s, agent) ==
  /\ Resolves(s, agent, "completed", FALSE)
  /\ UNCHANGED <<run, approvals>>

\* Insight and root cause, from what was prepared.
Analyses(s, agent, opening) ==
  /\ run.status = "running"
  /\ Completed(opening) # {}
  /\ Starts(s, agent, Latest(opening), NoEdit)
  /\ Moves("analyst_running")

Analysed(s, agent) ==
  /\ Resolves(s, agent, "completed", FALSE)
  /\ Moves("reviewer_running")
  /\ UNCHANGED approvals

\* Fault: only a completed review is looked for.
NotYetReviewed(analysis) == \A i \in Completed("reviewer") : steps[i].about # analysis
NoReviewer(analysis) ==
  /\ Of("reviewer", "running") = {}
  /\ \A i \in Completed("reviewer") : steps[i].about # analysis

\* A reviewer may start: the last analysis is there, and nobody reviews it.
Reviewable(analysing) ==
  /\ run.status = "reviewer_running"
  /\ Completed(analysing) # {}
  /\ NoReviewer(Latest(analysing))

Reviews(s, analysing) ==
  /\ Starts(s, "reviewer", Latest(analysing), NoEdit)
  /\ UNCHANGED run

\* create_pending_human_approval: about the latest review, which is this one.
NewApproval(review) == [status |-> "pending", review |-> review, edits |-> NoEdit]
AsksHuman(s, approved) ==
  /\ Resolves(s, "reviewer", "completed", approved)
  /\ Moves("waiting_for_human")
  /\ approvals' = IF Resolved("pending") # {} THEN approvals
                  ELSE Append(approvals, NewApproval(sessions[s].step))

WriterAllowed ==
  \/ Resolved("approved") # {}
  \/ Completed("reviewer") # {} /\ steps[Latest("reviewer")].approved

ApprovedEdits ==
  LET approved == Resolved("approved")
  IN IF approved = {} THEN NoEdit ELSE approvals[LastOf(approved)].edits

\* An edit that is no analysis is found out only now: the writer refuses.
Usable(edits) == edits # "unusable"
NoWriter(agent) == Of(agent, "running") \cup Completed(agent) = {}

\* A writer may start: what it writes about is there, approved and usable.
Writable(analysing) ==
  /\ run.status = "writer_running"
  /\ Completed(analysing) # {}
  /\ WriterAllowed
  /\ Usable(ApprovedEdits)
  /\ NoWriter("writer")

Writes(s, analysing) ==
  /\ Starts(s, "writer", Latest(analysing), ApprovedEdits)
  /\ UNCHANGED run

Reports(s, agent) ==
  /\ Resolves(s, agent, "completed", FALSE)
  /\ "completed" \in ValidTransitions[run.status]
  /\ run' = [run EXCEPT !.status = "completed", !.report = sessions[s].step]
  /\ UNCHANGED approvals

-----------------------------------------------------------------------------
(* The agents. *)

StartAnalyst(s) ==
  /\ run.status = "created"
  /\ Starts(s, "analyst", 0, NoEdit)
  /\ run' = [run EXCEPT !.status = "analyst_running"]

\* A retry is told of the last review and of the last human retry, if any.
RetryAnalyst(s) ==
  LET asked == Resolved("retry_requested")
  IN /\ run.status = "retrying"
     /\ Completed("reviewer") # {}
     /\ Starts(s, "analyst", Latest("reviewer"),
               IF asked = {} THEN NoEdit ELSE approvals[LastOf(asked)].edits)
     /\ run' = [run EXCEPT !.status = "analyst_running", !.retries = @ + 1]

RunSalesAnalyst(s) ==
  /\ run.kind = "sales"
  /\ \/ StartAnalyst(s) \/ RetryAnalyst(s)
     \/ Analysed(s, "analyst") \/ Fails(s, "analyst")

\* A low score, a severe issue or the reviewer's own advice; sales only.
AutoRetry(s, approved) ==
  /\ run.retries < MaxRetries
  /\ Resolves(s, "reviewer", "completed", approved)
  /\ Moves("retrying")
  /\ UNCHANGED approvals

SalesReviewable == Reviewable("analyst")
RunSalesReviewer(s) ==
  /\ run.kind = "sales"
  /\ \/ SalesReviewable /\ Reviews(s, "analyst")
     \/ Fails(s, "reviewer")
     \/ \E approved \in BOOLEAN : AutoRetry(s, approved) \/ AsksHuman(s, approved)

SalesWritable == Writable("analyst")
RunSalesWriter(s) ==
  /\ run.kind = "sales"
  /\ \/ SalesWritable /\ Writes(s, "analyst")
     \/ Reports(s, "writer") \/ Fails(s, "writer")

RunFeedbackClassifier(s) ==
  /\ run.kind = "feedback"
  /\ Opens(s, "classifier") \/ Opened(s, "classifier") \/ Fails(s, "classifier")

RunFeedbackInsight(s) ==
  /\ run.kind = "feedback"
  /\ Analyses(s, "insight", "classifier") \/ Analysed(s, "insight") \/ Fails(s, "insight")

FeedbackReviewable == Reviewable("insight")
RunFeedbackReviewer(s) ==
  /\ run.kind = "feedback"
  /\ \/ FeedbackReviewable /\ Reviews(s, "insight")
     \/ Fails(s, "reviewer")
     \/ \E approved \in BOOLEAN : AsksHuman(s, approved)

FeedbackWritable == Writable("insight")
RunFeedbackWriter(s) ==
  /\ run.kind = "feedback"
  /\ \/ FeedbackWritable /\ Writes(s, "insight")
     \/ Reports(s, "writer") \/ Fails(s, "writer")

RunIncidentTimeline(s) ==
  /\ run.kind = "incident"
  /\ Opens(s, "timeline") \/ Opened(s, "timeline") \/ Fails(s, "timeline")

RunIncidentRootCause(s) ==
  /\ run.kind = "incident"
  /\ \/ Analyses(s, "root_cause", "timeline")
     \/ Analysed(s, "root_cause") \/ Fails(s, "root_cause")

\* Reviewer and writer of an incident need the timeline as well.
IncidentReviewable == Completed("timeline") # {} /\ Reviewable("root_cause")
RunIncidentReviewer(s) ==
  /\ run.kind = "incident"
  /\ \/ IncidentReviewable /\ Reviews(s, "root_cause")
     \/ \E approved \in BOOLEAN : AsksHuman(s, approved)
     \/ Fails(s, "reviewer")

IncidentWritable == Completed("timeline") # {} /\ Writable("root_cause")
RunIncidentWriter(s) ==
  /\ run.kind = "incident"
  /\ \/ IncidentWritable /\ Writes(s, "root_cause")
     \/ Reports(s, "writer") \/ Fails(s, "writer")

RunBaseline(s) ==
  /\ run.kind = "baseline"
  /\ \/ NoWriter("baseline") /\ Opens(s, "baseline")
     \/ Reports(s, "baseline") \/ Fails(s, "baseline")

-----------------------------------------------------------------------------
(* Humans. *)

\* Fault: a decision that was already taken is taken again.
EvenDecided(i) == TRUE
Undecided(i) == approvals[i].status = "pending"

Decides(s, i, call) ==
  /\ Commits(s, "loaded")
  /\ Calls(s, call)
  /\ Undecided(i)
  /\ run.status = "waiting_for_human"
  /\ Done(s)
  /\ UNCHANGED steps

Decision == [approved |-> "writer_running", retry_requested |-> "retrying",
             rejected |-> "cancelled"]

Decide(s, i, decision) ==
  /\ Decides(s, i, decision)
  /\ approvals' = [approvals EXCEPT ![i].status = decision]
  /\ Moves(Decision[decision])

Edit(s, i, edits) ==
  /\ Decides(s, i, "edit")
  /\ approvals' = [approvals EXCEPT ![i].edits = edits]
  /\ UNCHANGED run

Cancel(s) ==
  /\ Commits(s, "loaded")
  /\ Calls(s, "cancel")
  /\ steps' = [i \in DOMAIN steps |->
                 IF steps[i].status = "running" THEN [steps[i] EXCEPT !.status = "failed"]
                 ELSE steps[i]]
  /\ Moves("cancelled")
  /\ Done(s)
  /\ UNCHANGED approvals

-----------------------------------------------------------------------------
Init ==
  /\ run \in {[kind |-> k, status |-> "created", retries |-> 0, report |-> 0] : k \in Kinds}
  /\ steps = <<>> /\ approvals = <<>>
  /\ sessions = [s \in Sessions |-> [pc |-> "idle", step |-> 0]]
  /\ fresh = {}
  /\ evaluation \in [status : {"none", "pending"}, last : {"none"}, approved : {FALSE}]

Next ==
  \/ SettleEvaluation
  \/ \E s \in Sessions :
      \/ Load(s) \/ Leave(s)
      \/ RunSalesAnalyst(s) \/ RunSalesReviewer(s) \/ RunSalesWriter(s)
      \/ RunFeedbackClassifier(s) \/ RunFeedbackInsight(s)
      \/ RunFeedbackReviewer(s) \/ RunFeedbackWriter(s)
      \/ RunIncidentTimeline(s) \/ RunIncidentRootCause(s)
      \/ RunIncidentReviewer(s) \/ RunIncidentWriter(s)
      \/ RunBaseline(s)
      \/ \E i \in DOMAIN approvals :
           \/ \E decision \in DOMAIN Decision : Decide(s, i, decision)
           \/ \E edits \in Edits : Edit(s, i, edits)
      \/ Cancel(s)

Spec == Init /\ [][Next]_vars

-----------------------------------------------------------------------------
(* Properties. *)

\* The agents a run's status says may be at work.
Analysing == {"analyst", "insight", "root_cause"}
AtWork ==
  CASE run.status = "running" -> {"classifier", "timeline", "baseline"}
    [] run.status = "analyst_running" -> Analysing
    [] run.status = "reviewer_running" -> {"reviewer"}
    [] run.status = "writer_running" -> {"writer"}
    [] OTHER -> {}

\* Requests that overlap, die or answer late leave one agent at work at most,
\* and the one the run's status is about: none is left running behind it.
OneAgentAtWork ==
  LET running == {i \in DOMAIN steps : steps[i].status = "running"}
  IN Cardinality(running) <= 1 /\ \A i \in running : steps[i].agent \in AtWork

AnalysisSteps == {i \in DOMAIN steps : steps[i].agent \in Analysing}
LastAnalysis == LastOf(AnalysisSteps)
AboutLast(approval) == steps[approval.review].about = LastAnalysis

\* A human is asked about the last analysis, once; and a report is about the
\* analysis, with the edits, that a human has approved.  An evaluation is
\* completed for a completed run only, and has taken an approval that stands.
ReportAsApproved ==
  /\ run.status = "waiting_for_human" =>
       /\ Cardinality(Resolved("pending")) = 1
       /\ \A i \in Resolved("pending") : AboutLast(approvals[i])
  /\ run.status = "completed" /\ run.kind # "baseline" =>
       \E i \in Resolved("approved") :
         /\ AboutLast(approvals[i])
         /\ steps[run.report].about = LastAnalysis
         /\ steps[run.report].edits = approvals[i].edits
  /\ evaluation.status = "completed" =>
       /\ run.status = "completed"
       /\ evaluation.approved => Cardinality(Resolved("approved")) = 1

-----------------------------------------------------------------------------
(* The inductive invariant of the proofs (Pipeline_proofs). *)

AgentNames == {"classifier", "timeline", "baseline", "reviewer", "writer"} \cup Analysing
EditsOrNone == Edits \cup {NoEdit}
StepType ==
  [agent : AgentNames, status : {"running", "completed", "failed"}, about : Nat,
   edits : EditsOrNone, approved : BOOLEAN]
ApprovalType ==
  [status : {"pending"} \cup DOMAIN Decision, review : Nat, edits : EditsOrNone]
CallNames == {"none", "gone", "edit", "cancel"} \cup DOMAIN Decision \cup AgentNames
SessionType == [pc : {"idle", "loaded", "asking"}, step : Nat]
EvaluationType ==
  [status : {"none", "pending", "completed", "failed"}, last : CallNames, approved : BOOLEAN]
RunType ==
  [kind : Kinds, status : DOMAIN ValidTransitions, retries : Nat, report : Nat]
TypeOK ==
  /\ run \in RunType
  /\ steps \in Seq(StepType)
  /\ approvals \in Seq(ApprovalType)
  /\ sessions \in [Sessions -> SessionType]
  /\ evaluation \in EvaluationType

\* The step at work is the last one, and the one that the status is about.
StepsInOrder ==
  /\ run.status = "created" => steps = <<>>
  /\ run.status = "running" => Len(steps) = 1
  /\ \A i \in DOMAIN steps :
       steps[i].status = "running" => i = Len(steps) /\ steps[i].agent \in AtWork
  /\ \A s \in Sessions : sessions[s].pc = "asking" => sessions[s].step \in DOMAIN steps

\* Past the analysis the last one is complete, and who works is about it.
LastIs(m) == m \in AnalysisSteps /\ \A j \in AnalysisSteps : j <= m
AnalystOf(kind) ==
  CASE kind = "sales" -> "analyst" [] kind = "feedback" -> "insight"
    [] kind = "incident" -> "root_cause" [] OTHER -> "none"
Early == {"created", "running", "failed", "cancelled"}
AnalysisComplete ==
  /\ \A i \in AnalysisSteps : steps[i].agent = AnalystOf(run.kind)
  /\ run.kind = "baseline" => run.status \in Early \cup {"completed"}
  /\ run.kind # "baseline" /\ run.status \notin Early \cup {"analyst_running"} =>
       \E m \in DOMAIN steps : LastIs(m) /\ steps[m].status = "completed"
  /\ \A i \in DOMAIN steps :
       steps[i].status = "running" =>
         /\ steps[i].agent \in Analysing => LastIs(i)
         /\ steps[i].agent \in {"reviewer", "writer"} => steps[i].about = LastAnalysis

\* What is granted is one approval of the last analysis, and what is open too.
ApprovalsInOrder ==
  /\ \A k \in DOMAIN approvals : approvals[k].review \in DOMAIN steps
  /\ run.status \notin {"waiting_for_human", "cancelled"} => Resolved("pending") = {}
  /\ run.status = "waiting_for_human" =>
       \E k \in DOMAIN approvals : Resolved("pending") = {k} /\ AboutLast(approvals[k])
  /\ run.status \notin {"writer_running"} \cup Terminal => Resolved("approved") = {}
  /\ Resolved("approved") # {} =>
       \E k \in DOMAIN approvals :
         /\ Resolved("approved") = {k}
         /\ AboutLast(approvals[k])
         /\ \A i \in DOMAIN steps :
              steps[i].agent = "writer" /\ steps[i].status = "running" =>
                steps[i].edits = approvals[k].edits
  /\ run.status = "writer_running" => Resolved("approved") # {}
  /\ evaluation.approved => Resolved("approved") # {}

IInv ==
  /\ TypeOK /\ StepsInOrder /\ AnalysisComplete /\ ApprovalsInOrder
  /\ ReportAsApproved
=============================================================================
