-------------------------- MODULE DurableRun_proofs --------------------------
(***************************************************************************)
(* Theorems about DurableRun, for every graph, policy and number of slots. *)
(*                                                                         *)
(* The order is: what the rows are that the actions write; the two shapes  *)
(* that most transactions leave behind (no job active, or only a queued    *)
(* one), each shown once to satisfy IInv; one lemma per action; and the    *)
(* theorems that follow from IInv.  Then what the steps do to the run, its *)
(* steps and its routes: seven shapes that every step has one of, on which *)
(* History, the action properties and the refinement of RunContract rest.  *)
(***************************************************************************)
EXTENDS DurableRun, SequenceTheorems, TLAPS

RunStatus == {"pending", "running", "waiting", "completed", "failed", "cancelled"}
Ending == {"completed", "failed", "cancelled"}

-----------------------------------------------------------------------------
(* Sequences of jobs. *)

\* Replacing one job keeps the sequence a sequence of jobs of the same length.
LEMMA JobReplaced ==
  ASSUME NEW q \in Seq(JobType), NEW i \in 1..Len(q), NEW j \in JobType
  PROVE  /\ [q EXCEPT ![i] = j] \in Seq(JobType)
         /\ Len([q EXCEPT ![i] = j]) = Len(q)
         /\ \A k \in 1..Len(q) :
              [q EXCEPT ![i] = j][k] = IF k = i THEN j ELSE q[k]
  BY ExceptSeq

\* Appending a job adds it behind the others, which stay where they are.
LEMMA JobAppended ==
  ASSUME NEW q \in Seq(JobType), NEW j \in JobType
  PROVE  /\ Append(q, j) \in Seq(JobType)
         /\ Len(Append(q, j)) = Len(q) + 1
         /\ Append(q, j)[Len(q) + 1] = j
         /\ \A k \in 1..Len(q) : Append(q, j)[k] = q[k]
  BY AppendProperties

\* A function on 1..n into jobs is a sequence of n jobs.
LEMMA JobsMapped ==
  ASSUME NEW m \in Nat, NEW q \in [1..m -> JobType]
  PROVE  q \in Seq(JobType) /\ Len(q) = m
  BY IsASeq

-----------------------------------------------------------------------------
(* Rows: their types and the fields that the invariant reads. *)

\* A job that is enqueued is typed and carries no claim and no attempt.
LEMMA QueuedRow ==
  \A due \in Nat :
    /\ QueuedJob(due) \in JobType
    /\ QueuedJob(due).status = "queued" /\ QueuedJob(due).due = due
    /\ QueuedJob(due).token = 0 /\ QueuedJob(due).dispatched = FALSE
    /\ QueuedJob(due).recoveries = 0
<1> NoAttempt \in AttemptType
  BY NodesAssumption DEF NoAttempt, AttemptType
<1> QED BY DEF QueuedJob, JobType

\* A job that a transaction ends is typed and carries no claim and no attempt.
LEMMA SettledRow ==
  \A st \in Ending :
    /\ SettledJob(st) \in JobType
    /\ SettledJob(st).status = st /\ SettledJob(st).token = 0
    /\ SettledJob(st).dispatched = FALSE /\ SettledJob(st).recoveries = 0
<1> NoAttempt \in AttemptType
  BY NodesAssumption DEF NoAttempt, AttemptType
<1> QED BY DEF SettledJob, QueuedJob, JobType, Ending

\* A claim changes the status, the token and the lease of a job.
LEMMA ClaimedRow ==
  \A j \in JobType, tk \in Nat :
    /\ ClaimedJob(j, tk) \in JobType
    /\ ClaimedJob(j, tk).status = "running" /\ ClaimedJob(j, tk).token = tk
    /\ ClaimedJob(j, tk).due = j.due
    /\ ClaimedJob(j, tk).dispatched = j.dispatched
    /\ ClaimedJob(j, tk).attempt = j.attempt
    /\ ClaimedJob(j, tk).recoveries = j.recoveries
  BY TimeAssumption DEF ClaimedJob, JobType

\* A renewal changes the lease only.
LEMMA RenewedRow ==
  \A j \in JobType :
    /\ RenewedJob(j) \in JobType
    /\ RenewedJob(j).status = j.status /\ RenewedJob(j).token = j.token
    /\ RenewedJob(j).due = j.due /\ RenewedJob(j).dispatched = j.dispatched
    /\ RenewedJob(j).attempt = j.attempt /\ RenewedJob(j).recoveries = j.recoveries
  BY TimeAssumption DEF RenewedJob, JobType

\* A dispatch changes the dispatch marker and the attempt only.
LEMMA DispatchedRow ==
  \A j \in JobType, a \in AttemptType :
    /\ DispatchedJob(j, a) \in JobType
    /\ DispatchedJob(j, a).status = j.status /\ DispatchedJob(j, a).token = j.token
    /\ DispatchedJob(j, a).dispatched = TRUE /\ DispatchedJob(j, a).attempt = a
    /\ DispatchedJob(j, a).recoveries = j.recoveries
  BY DEF DispatchedJob, JobType

\* A recovered job is queued again, without its token and its attempt.
LEMMA RequeuedRow ==
  \A j \in JobType, due \in Nat :
    /\ RequeuedJob(j, due) \in JobType
    /\ RequeuedJob(j, due).status = "queued" /\ RequeuedJob(j, due).due = due
    /\ RequeuedJob(j, due).token = 0 /\ RequeuedJob(j, due).dispatched = FALSE
    /\ RequeuedJob(j, due).recoveries = j.recoveries + 1
<1> SUFFICES ASSUME NEW j \in JobType, NEW due \in Nat
             PROVE  /\ RequeuedJob(j, due) \in JobType
                    /\ RequeuedJob(j, due).status = "queued"
                    /\ RequeuedJob(j, due).due = due
                    /\ RequeuedJob(j, due).token = 0
                    /\ RequeuedJob(j, due).dispatched = FALSE
                    /\ RequeuedJob(j, due).recoveries = j.recoveries + 1
  OBVIOUS
<1>1. j.recoveries + 1 \in Nat
  BY DEF JobType
<1> QED BY <1>1, QueuedRow DEF RequeuedJob, JobType

\* What a slot remembers, by phase.
LEMMA SlotRows ==
  /\ IdleSlot \in SlotType /\ IdleSlot.phase = "idle" /\ IdleSlot.token = 0
  /\ \A i, tk \in Nat :
       /\ ClaimedSlot(i, tk) \in SlotType
       /\ ClaimedSlot(i, tk).phase = "claimed"
       /\ ClaimedSlot(i, tk).job = i /\ ClaimedSlot(i, tk).token = tk
  /\ \A c \in SlotType, a \in AttemptType, r \in Nat :
       /\ ExecutingSlot(c, a, r) \in SlotType
       /\ ExecutingSlot(c, a, r).phase = "executing"
       /\ ExecutingSlot(c, a, r).job = c.job /\ ExecutingSlot(c, a, r).token = c.token
       /\ ExecutingSlot(c, a, r).attempt = a /\ ExecutingSlot(c, a, r).rev = r
<1> NoAttempt \in AttemptType
  BY NodesAssumption DEF NoAttempt, AttemptType
<1>1. IdleSlot \in SlotType /\ IdleSlot.phase = "idle" /\ IdleSlot.token = 0
  BY DEF IdleSlot, SlotType
<1>2. \A i, tk \in Nat :
       /\ ClaimedSlot(i, tk) \in SlotType
       /\ ClaimedSlot(i, tk).phase = "claimed"
       /\ ClaimedSlot(i, tk).job = i /\ ClaimedSlot(i, tk).token = tk
  BY <1>1 DEF ClaimedSlot, SlotType
<1>3. \A c \in SlotType, a \in AttemptType, r \in Nat :
       /\ ExecutingSlot(c, a, r) \in SlotType
       /\ ExecutingSlot(c, a, r).phase = "executing"
       /\ ExecutingSlot(c, a, r).job = c.job /\ ExecutingSlot(c, a, r).token = c.token
       /\ ExecutingSlot(c, a, r).attempt = a /\ ExecutingSlot(c, a, r).rev = r
  BY DEF ExecutingSlot, SlotType
<1> QED BY <1>1, <1>2, <1>3

StepStatus == {"absent", "running", "retrying", "waiting"} \cup Terminal
AttemptStatus == {"none", "running", "completed", "failed", "cancelled"}

\* A step that moves on keeps its number and loses its timestamps.
LEMMA MovedRow ==
  \A r \in StepType, st \in StepStatus, en \in AttemptStatus :
    /\ MovedStep(r, st, en) \in StepType
    /\ MovedStep(r, st, en).status = st /\ MovedStep(r, st, en).number = r.number
    /\ MovedStep(r, st, en).attempt = IF r.attempt = "running" THEN en ELSE r.attempt
<1> SUFFICES ASSUME NEW r \in StepType, NEW st \in StepStatus, NEW en \in AttemptStatus
             PROVE  /\ MovedStep(r, st, en) \in StepType
                    /\ MovedStep(r, st, en).status = st
                    /\ MovedStep(r, st, en).number = r.number
                    /\ MovedStep(r, st, en).attempt =
                         IF r.attempt = "running" THEN en ELSE r.attempt
  OBVIOUS
<1>1. CASE r.attempt = "running"
  BY <1>1 DEF MovedStep, StepType, StepStatus, AttemptStatus
<1>2. CASE r.attempt # "running"
  BY <1>2 DEF MovedStep, StepType, StepStatus, AttemptStatus
<1> QED BY <1>1, <1>2

\* A step that backs off keeps its number; its attempt has failed.
LEMMA RetryingRow ==
  \A r \in StepType, d \in Nat :
    /\ RetryingStep(r, d) \in StepType
    /\ RetryingStep(r, d).status = "retrying" /\ RetryingStep(r, d).number = r.number
    /\ RetryingStep(r, d).timer = d /\ RetryingStep(r, d).attempt # "running"
<1> SUFFICES ASSUME NEW r \in StepType, NEW d \in Nat
             PROVE  /\ RetryingStep(r, d) \in StepType
                    /\ RetryingStep(r, d).status = "retrying"
                    /\ RetryingStep(r, d).number = r.number
                    /\ RetryingStep(r, d).timer = d
                    /\ RetryingStep(r, d).attempt # "running"
  OBVIOUS
<1> DEFINE m == MovedStep(r, "retrying", "failed")
<1>1. /\ m \in StepType /\ m.status = "retrying" /\ m.number = r.number
      /\ m.attempt = IF r.attempt = "running" THEN "failed" ELSE r.attempt
  BY MovedRow DEF StepStatus, AttemptStatus
<1>2. RetryingStep(r, d) = [m EXCEPT !.timer = d]
  BY DEF RetryingStep
<1> HIDE DEF m
<1> QED BY <1>1, <1>2 DEF StepType

\* A step that never ran, and one that the interpreter passed by.
LEMMA BlankRows ==
  /\ NoStep \in StepType /\ SkippedStep \in StepType
  /\ NoStep.status = "absent" /\ SkippedStep.status = "skipped"
  /\ NoStep.number = 0 /\ SkippedStep.number = 0
  /\ NoStep.attempt = "none" /\ SkippedStep.attempt = "none"
  BY DEF NoStep, SkippedStep, StepType, Terminal, NoTime

\* Every committed change of the run row raises its revision by one.
LEMMA RunRow ==
  ASSUME run \in RunType
  PROVE  \A st \in RunStatus :
           /\ RunTo(st) \in RunType /\ RunTo(st).status = st
           /\ RunTo(st).rev = run.rev + 1 /\ RunTo(st).left = run.left
<1>1. run.rev + 1 \in Nat
  BY DEF RunType
<1> SUFFICES ASSUME NEW st \in RunStatus
             PROVE  /\ RunTo(st) \in RunType /\ RunTo(st).status = st
                    /\ RunTo(st).rev = run.rev + 1 /\ RunTo(st).left = run.left
  OBVIOUS
<1> QED BY <1>1 DEF RunTo, RunType, RunStatus

\* Time left never becomes negative.
LEMMA TimeTypes ==
  /\ \A t \in Nat : Elapse(t) \in Nat
  /\ \A t \in Nat \cup {NoTime} : Elapse(t) \in Nat \cup {NoTime}
  /\ \A t \in Nat, u \in Nat \cup {NoTime} : Earlier(t, u) \in Nat
  BY DEF Elapse, Earlier, NoTime

\* What TypeOK says of single rows.
LEMMA RowsTyped ==
  ASSUME TypeOK
  PROVE  /\ jobs \in Seq(JobType) /\ Len(jobs) \in Nat
         /\ \A i \in 1..Len(jobs) : jobs[i] \in JobType
         /\ \A n \in Nodes : steps[n] \in StepType
         /\ \A s \in Slots : slots[s] \in SlotType
         /\ run \in RunType /\ claims \in Nat
  BY ElementOfSeq, LenProperties DEF TypeOK

-----------------------------------------------------------------------------
(* The shapes that transactions leave behind. *)

\* A job that neither waits nor runs, and holds no claim and no attempt.
Dead(j) ==
  /\ j.status \notin {"queued", "running"}
  /\ j.token = 0 /\ j.dispatched = FALSE
  /\ j.recoveries <= MaxRecoveries

\* A step that is not in progress, with its attempt.
AtRest(n, r) ==
  /\ r \in StepType
  /\ r.status \notin {"running", "retrying", "waiting"}
  /\ r.attempt # "running"
  /\ r.status = "absent" => r.number = 0
  /\ r.number <= MaxAttempts[n]

\* Slots keep what they remember or forget it.
SlotsKept == slots' \in [Slots -> SlotType]
          /\ \A t \in Slots : slots'[t] \in {slots[t], IdleSlot}

\* A slot that is released is typed, and the others keep theirs.
LEMMA SlotReleased ==
  ASSUME TypeOK, NEW s \in Slots, slots' = slots \/ Release(s)
  PROVE  SlotsKept
<1>1. slots \in [Slots -> SlotType] /\ IdleSlot \in SlotType
  BY SlotRows DEF TypeOK
<1> QED BY <1>1 DEF Release, SlotsKept

\* Under the invariant an inactive job is dead, the step of a row that is not
\* unfinished is at rest, and an active job is the latest one.
LEMMA Rest ==
  ASSUME IInv
  PROVE  /\ Last \in Nat \ {0} /\ Last \in 1..Last
         /\ \A i \in 1..Last : ActiveJob(i) => i = Last
         /\ \A i \in 1..Last : ~ActiveJob(i) => Dead(jobs[i])
         /\ \A n \in Nodes : ~Unfinished(n) => AtRest(n, steps[n])
<1>1. /\ Last \in Nat \ {0} /\ Last \in 1..Last
      /\ \A i \in 1..Last : ActiveJob(i) => i = Last
  BY RowsTyped DEF IInv, LatestJobOnly, Last
<1>2. ASSUME NEW i \in 1..Last, ~ActiveJob(i) PROVE Dead(jobs[i])
  <2>1. jobs[i] \in JobType
    BY RowsTyped DEF IInv, Last
  <2>2. jobs[i].token \in Nat /\ jobs[i].dispatched \in BOOLEAN
    BY <2>1 DEF JobType
  <2>3. jobs[i].status = "running" <=> jobs[i].token > 0
    BY DEF IInv, FreshTokens
  <2>4. jobs[i].dispatched => jobs[i].status = "running"
    BY DEF IInv, Dispatched
  <2>5. jobs[i].recoveries <= MaxRecoveries
    BY DEF IInv, NumbersBounded
  <2> QED BY <1>2, <2>2, <2>3, <2>4, <2>5 DEF Dead, ActiveJob
<1>3. ASSUME NEW n \in Nodes, ~Unfinished(n) PROVE AtRest(n, steps[n])
  <2>1. steps[n] \in StepType
    BY RowsTyped DEF IInv
  <2>2. steps[n].status = "running" <=> steps[n].attempt = "running"
    BY DEF IInv, OneUnfinished
  <2>3. (steps[n].status = "absent" => steps[n].number = 0)
        /\ steps[n].number <= MaxAttempts[n]
    BY DEF IInv, NumbersBounded, Absent
  <2> QED BY <1>3, <2>1, <2>2, <2>3 DEF AtRest, Unfinished
<1> QED BY <1>1, <1>2, <1>3

\* Tokens stay distinct when no new one is handed out.
LEMMA TokensKept ==
  ASSUME IInv, SlotsKept, claims' = claims,
         \A k \in 1..Len(jobs') : jobs'[k].token = 0 /\ jobs'[k].status # "running"
  PROVE  FreshTokens'
<1>1. claims \in Nat /\ \A t \in Slots : slots[t] \in SlotType
  BY RowsTyped DEF IInv
<1>2. \A t \in Slots : slots[t].token \in Nat
  BY <1>1 DEF SlotType
<1>3. IdleSlot.phase = "idle" /\ IdleSlot.token = 0
  BY SlotRows
<1>4. \A t \in Slots : slots'[t] = slots[t] \/ slots'[t] = IdleSlot
  BY DEF SlotsKept
<1> QED BY <1>1, <1>2, <1>3, <1>4 DEF IInv, FreshTokens, Last

\* No job is active any more, and the run has ended or waits with one step.
LEMMA SettledShape ==
  ASSUME IInv, SlotsKept, claims' = claims,
         NEW st \in Ending \cup {"waiting"}, run' = RunTo(st),
         edges' \in [Edges -> {"open", "selected", "skipped"}],
         steps' \in [Nodes -> StepType],
         \/ st # "waiting" /\ \A n \in Nodes : AtRest(n, steps'[n])
         \/ /\ st = "waiting"
            /\ \E w \in Nodes :
                 /\ steps'[w].status = "waiting" /\ steps'[w].timer # NoTime
                 /\ steps'[w].attempt # "running"
                 /\ steps'[w].number > 0 /\ steps'[w].number <= MaxAttempts[w]
                 /\ \A n \in Nodes \ {w} : AtRest(n, steps'[n]),
         jobs' \in Seq(JobType), Len(jobs') = Last,
         \A k \in 1..Len(jobs') : Dead(jobs'[k])
  PROVE  IInv'
<1>1. /\ run' \in RunType /\ run'.status = st /\ run'.rev = run.rev + 1
  BY RunRow, RowsTyped DEF IInv, RunStatus, Ending
<1>2. TypeOK'
  BY <1>1, RowsTyped DEF TypeOK, SlotsKept, IInv
<1>3. Last' = Last /\ Last \in 1..Last
  BY Rest DEF Last
<1>4. \A k \in 1..Last' : ~ActiveJob(k)' /\ jobs'[k].token = 0
          /\ jobs'[k].status # "running" /\ ~jobs'[k].dispatched
          /\ jobs'[k].recoveries <= MaxRecoveries
  BY DEF Dead, ActiveJob, Last
<1>5. LatestJobOnly'
  BY <1>3, <1>4, Rest DEF LatestJobOnly
<1>6. FreshTokens'
  BY <1>4, TokensKept DEF Last
<1>7. JobMatchesRun'
  BY <1>1, <1>3, <1>4 DEF JobMatchesRun, Ending
<1>8. OneUnfinished'
  BY <1>1 DEF OneUnfinished, Unfinished, AtRest, Ending
<1>9. Dispatched'
  BY <1>4 DEF Dispatched, AtRest
<1>10. MemoryCurrent'
  BY <1>4 DEF MemoryCurrent, LiveClaim, Last
<1>11. NumbersBounded'
  BY <1>4 DEF NumbersBounded, AtRest, Absent, Unfinished
<1> QED BY <1>2, <1>5, <1>6, <1>7, <1>8, <1>9, <1>10, <1>11 DEF IInv

\* The latest job is queued, no attempt runs, and at most one step backs off
\* until the moment that job is due.
LEMMA QueuedShape ==
  ASSUME IInv, SlotsKept, claims' = claims, run' = RunTo("running"),
         edges' \in [Edges -> {"open", "selected", "skipped"}],
         steps' \in [Nodes -> StepType],
         NEW due \in Nat,
         \/ \A n \in Nodes : AtRest(n, steps'[n])
         \/ \E w \in Nodes :
              /\ steps'[w].status = "retrying" /\ steps'[w].timer = due
              /\ steps'[w].attempt # "running"
              /\ steps'[w].number > 0 /\ steps'[w].number < MaxAttempts[w]
              /\ \A n \in Nodes \ {w} : AtRest(n, steps'[n]),
         jobs' \in Seq(JobType), Len(jobs') \in Nat \ {0},
         \A k \in 1..Len(jobs') : k # Len(jobs') => Dead(jobs'[k]),
         jobs'[Len(jobs')].status = "queued", jobs'[Len(jobs')].due = due,
         jobs'[Len(jobs')].token = 0, jobs'[Len(jobs')].dispatched = FALSE,
         jobs'[Len(jobs')].recoveries <= MaxRecoveries
  PROVE  IInv'
<1>1. /\ run' \in RunType /\ run'.status = "running" /\ run'.rev = run.rev + 1
  BY RunRow, RowsTyped DEF IInv, RunStatus
<1>2. TypeOK'
  BY <1>1, RowsTyped DEF TypeOK, SlotsKept, IInv
<1>3. /\ \A k \in 1..Last' : /\ jobs'[k].token = 0 /\ jobs'[k].status # "running"
                             /\ ~jobs'[k].dispatched
                             /\ jobs'[k].recoveries <= MaxRecoveries
      /\ \A k \in 1..Last' : ActiveJob(k)' => k = Last'
      /\ ActiveJob(Last)' /\ Last' > 0 /\ Last' \in 1..Last'
  BY DEF Dead, ActiveJob, Last
<1>4. LatestJobOnly'
  BY <1>3 DEF LatestJobOnly
<1>5. FreshTokens'
  BY <1>3, TokensKept DEF Last
<1>6. JobMatchesRun'
  BY <1>1, <1>3 DEF JobMatchesRun
<1>7. OneUnfinished'
  <2>1. jobs'[Last'].due = due /\ jobs'[Last'].status = "queued"
    BY DEF Last
  <2>2. \A n \in Nodes : AtRest(n, steps'[n]) =>
          /\ steps'[n].status \notin {"running", "retrying", "waiting"}
          /\ steps'[n].attempt # "running"
    BY DEF AtRest
  <2> QED BY <1>1, <2>1, <2>2 DEF OneUnfinished, Unfinished
<1>8. Dispatched'
  BY <1>3 DEF Dispatched, AtRest
<1>9. MemoryCurrent'
  BY <1>3 DEF MemoryCurrent, LiveClaim, Last
<1>10. NumbersBounded'
  <2>1. \A n \in Nodes : steps'[n].number \in Nat /\ MaxAttempts[n] \in Nat
    BY NodesAssumption DEF StepType
  <2> QED BY <1>3, <2>1 DEF NumbersBounded, AtRest, Absent, Unfinished
<1> QED BY <1>2, <1>4, <1>5, <1>6, <1>7, <1>8, <1>9, <1>10 DEF IInv

-----------------------------------------------------------------------------
(* What the row operators leave behind. *)

\* Ending every unfinished step leaves all of them at rest.
LEMMA StepsEnded ==
  ASSUME IInv, NEW st \in Ending
  PROVE  /\ EndSteps(st) \in [Nodes -> StepType]
         /\ \A n \in Nodes : AtRest(n, EndSteps(st)[n])
<1>1. ASSUME NEW n \in Nodes, Unfinished(n) PROVE AtRest(n, StepTo(n, st))
  <2>1. steps[n] \in StepType
    BY RowsTyped DEF IInv
  <2>2. steps[n].number <= MaxAttempts[n]
    BY DEF IInv, NumbersBounded
  <2>3. st \in StepStatus /\ st \in AttemptStatus
    BY DEF Ending, StepStatus, AttemptStatus, Terminal
  <2>4. /\ StepTo(n, st) \in StepType /\ StepTo(n, st).status = st
        /\ StepTo(n, st).number = steps[n].number
        /\ StepTo(n, st).attempt # "running"
    BY <2>1, <2>3, MovedRow DEF StepTo, Ending
  <2> QED BY <2>2, <2>4 DEF AtRest, Ending
<1>2. \A n \in Nodes : AtRest(n, EndSteps(st)[n])
  BY <1>1, Rest DEF EndSteps
<1>3. \A n \in Nodes : EndSteps(st)[n] \in StepType
  BY <1>2 DEF AtRest
<1> QED BY <1>2, <1>3 DEF EndSteps

\* Ending every active job leaves all of them dead.
LEMMA JobsEnded ==
  ASSUME IInv, NEW st \in Ending
  PROVE  /\ EndJobs(st) \in Seq(JobType) /\ Len(EndJobs(st)) = Last
         /\ \A k \in 1..Last : Dead(EndJobs(st)[k])
<1>1. Dead(SettledJob(st)) /\ SettledJob(st) \in JobType
  BY SettledRow, TimeAssumption DEF Dead, Ending
<1>2. \A k \in 1..Last : Dead(EndJobs(st)[k]) /\ EndJobs(st)[k] \in JobType
  BY <1>1, Rest, RowsTyped DEF EndJobs, Last, IInv
<1>3. EndJobs(st) \in [1..Last -> JobType]
  BY <1>2 DEF EndJobs, Last
<1> QED BY <1>2, <1>3, JobsMapped, Rest

\* Ending the active job alone does as much, for there is no other.
LEMMA JobEnded ==
  ASSUME IInv, NEW i \in 1..Last, ActiveJob(i), NEW st \in Ending
  PROVE  /\ JobTo(i, st) \in Seq(JobType) /\ Len(JobTo(i, st)) = Last
         /\ \A k \in 1..Last : Dead(JobTo(i, st)[k])
<1>1. Dead(SettledJob(st)) /\ SettledJob(st) \in JobType
  BY SettledRow, TimeAssumption DEF Dead, Ending
<1>2. /\ JobTo(i, st) \in Seq(JobType) /\ Len(JobTo(i, st)) = Last
      /\ \A k \in 1..Last : JobTo(i, st)[k] = IF k = i THEN SettledJob(st) ELSE jobs[k]
  BY <1>1, RowsTyped, JobReplaced DEF JobTo, IInv, Last
<1>3. \A k \in 1..Last : k # i => Dead(jobs[k])
  BY Rest
<1> QED BY <1>1, <1>2, <1>3

\* Appending a queued job to dead ones gives the jobs of QueuedShape.
LEMMA JobQueued ==
  ASSUME NEW q \in Seq(JobType), \A k \in 1..Len(q) : Dead(q[k]), NEW due \in Nat,
         jobs' = Append(q, QueuedJob(due))
  PROVE  /\ jobs' \in Seq(JobType) /\ Len(jobs') \in Nat \ {0}
         /\ \A k \in 1..Len(jobs') : k # Len(jobs') => Dead(jobs'[k])
         /\ jobs'[Len(jobs')].status = "queued" /\ jobs'[Len(jobs')].due = due
         /\ jobs'[Len(jobs')].token = 0 /\ jobs'[Len(jobs')].dispatched = FALSE
         /\ jobs'[Len(jobs')].recoveries <= MaxRecoveries
<1>1. Len(q) \in Nat
  BY LenProperties
<1>2. /\ jobs' \in Seq(JobType) /\ Len(jobs') = Len(q) + 1
      /\ jobs'[Len(q) + 1] = QueuedJob(due)
      /\ \A k \in 1..Len(q) : jobs'[k] = q[k]
  BY JobAppended, QueuedRow
<1>3. \A k \in 1..Len(jobs') : k # Len(jobs') => Dead(jobs'[k])
  BY <1>1, <1>2
<1> QED BY <1>1, <1>2, <1>3, QueuedRow, TimeAssumption

\* Every transaction that ends the run and all that it holds.
LEMMA EndedRun ==
  ASSUME IInv, NEW st \in Ending, run' = RunTo(st), steps' = EndSteps(st),
         jobs' = EndJobs(st), UNCHANGED <<edges, slots, claims>>
  PROVE  IInv'
<1>1. SlotsKept
  <2> slots \in [Slots -> SlotType]
    BY DEF IInv, TypeOK
  <2> QED BY DEF SlotsKept
<1>2. edges' \in [Edges -> {"open", "selected", "skipped"}]
  BY DEF IInv, TypeOK
<1>3. st \in Ending \cup {"waiting"} /\ st # "waiting" /\ claims' = claims
  BY DEF Ending
<1>4. /\ steps' \in [Nodes -> StepType] /\ \A n \in Nodes : AtRest(n, steps'[n])
  BY StepsEnded
<1>5. /\ jobs' \in Seq(JobType) /\ Len(jobs') = Last
      /\ \A k \in 1..Len(jobs') : Dead(jobs'[k])
  BY JobsEnded
<1> QED BY <1>1, <1>2, <1>3, <1>4, <1>5, SettledShape

-----------------------------------------------------------------------------
(* The attempt that a job dispatched. *)

\* An active job means a run that has not ended and does not wait.
LEMMA ActiveRun ==
  ASSUME IInv, NEW i \in 1..Last, ActiveJob(i)
  PROVE  /\ i = Last /\ run.status \in {"pending", "running"}
         /\ \A n \in Nodes : steps[n].status # "waiting"
         /\ run.status = "pending" => \A n \in Nodes : ~Unfinished(n)
<1>1. i = Last
  BY Rest
<1>2. run.status \in {"pending", "running"}
  BY <1>1 DEF IInv, JobMatchesRun
<1> QED BY <1>1, <1>2 DEF IInv, OneUnfinished

\* A failed attempt retries or ends the run, whoever reports the failure.
LEMMA FailAttemptInv ==
  ASSUME IInv, NEW i \in 1..Last, jobs[i].status = "running",
         NEW n \in Nodes, steps[n].status = "running",
         NEW code, NEW delay \in Nat, FailAttempt(i, n, code, delay),
         SlotsKept, UNCHANGED <<edges, claims>>
  PROVE  IInv'
<1>1. ActiveJob(i)
  BY DEF ActiveJob
<1>2. run.status = "running"
  BY <1>1, ActiveRun DEF Unfinished
<1>3. \A m \in Nodes \ {n} : AtRest(m, steps[m])
  BY Rest DEF IInv, OneUnfinished, Unfinished
<1>4. steps \in [Nodes -> StepType] /\ steps[n] \in StepType
  BY RowsTyped DEF IInv, TypeOK
<1>5. edges' \in [Edges -> {"open", "selected", "skipped"}] /\ claims' = claims
  BY DEF IInv, TypeOK
<1>6. /\ steps[n].number \in Nat /\ steps[n].number > 0
      /\ steps[n].number <= MaxAttempts[n] /\ MaxAttempts[n] \in Nat
  BY <1>4, NodesAssumption DEF StepType, IInv, NumbersBounded, Unfinished
<1>7. "failed" \in Ending
  BY DEF Ending
<1>8. /\ JobTo(i, "failed") \in Seq(JobType) /\ Len(JobTo(i, "failed")) = Last
      /\ \A k \in 1..Last : Dead(JobTo(i, "failed")[k])
  BY <1>1, <1>7, JobEnded
<1>9. CASE MayRetry(n, steps[n].number, code, delay)
  <2>1. /\ run' = RunTo("running")
        /\ steps' = [steps EXCEPT ![n] = RetryingStep(steps[n], delay)]
        /\ jobs' = Append(JobTo(i, "failed"), QueuedJob(delay))
        /\ steps[n].number < MaxAttempts[n]
    BY <1>2, <1>9 DEF FailAttempt, MayRetry
  <2>2. /\ steps' \in [Nodes -> StepType]
        /\ steps'[n].status = "retrying" /\ steps'[n].timer = delay
        /\ steps'[n].attempt # "running"
        /\ steps'[n].number > 0 /\ steps'[n].number < MaxAttempts[n]
        /\ \A m \in Nodes \ {n} : AtRest(m, steps'[m])
    BY <1>3, <1>4, <1>6, <2>1, RetryingRow
  <2>3. /\ jobs' \in Seq(JobType) /\ Len(jobs') \in Nat \ {0}
        /\ \A k \in 1..Len(jobs') : k # Len(jobs') => Dead(jobs'[k])
        /\ jobs'[Len(jobs')].status = "queued" /\ jobs'[Len(jobs')].due = delay
        /\ jobs'[Len(jobs')].token = 0 /\ jobs'[Len(jobs')].dispatched = FALSE
        /\ jobs'[Len(jobs')].recoveries <= MaxRecoveries
    BY <1>8, <2>1, JobQueued
  <2> QED BY <1>5, <2>1, <2>2, <2>3, QueuedShape
<1>10. CASE ~MayRetry(n, steps[n].number, code, delay)
  <2>1. /\ run' = RunTo("failed") /\ jobs' = JobTo(i, "failed")
        /\ steps' = [steps EXCEPT ![n] = StepTo(n, "failed")]
    BY <1>10 DEF FailAttempt
  <2>2. "failed" \in StepStatus /\ "failed" \in AttemptStatus
    BY DEF StepStatus, AttemptStatus, Terminal
  <2>3. AtRest(n, StepTo(n, "failed"))
    BY <1>4, <1>6, <2>2, MovedRow DEF StepTo, AtRest
  <2>4. steps' \in [Nodes -> StepType] /\ \A m \in Nodes : AtRest(m, steps'[m])
    BY <1>3, <1>4, <2>1, <2>3 DEF AtRest
  <2>5. "failed" \in Ending \cup {"waiting"}
    BY <1>7
  <2> QED BY <1>5, <1>8, <2>1, <2>4, <2>5, SettledShape
<1> QED BY <1>9, <1>10

-----------------------------------------------------------------------------
(* The invariant holds initially. *)

\* The first state of every accepted run satisfies it.
LEMMA InitInv == Init => IInv
<1> SUFFICES ASSUME Init PROVE IInv
  OBVIOUS
<1> USE DEF Init
<1>1. jobs \in Seq(JobType) /\ Len(jobs) = 1 /\ jobs[1] = QueuedJob(0)
  BY QueuedRow
<1>2. TypeOK
  <2>1. run \in RunType
    <3>1. run.left \in RunTimes /\ run.status = "pending" /\ run.rev = 0
          /\ run = [status |-> run.status, rev |-> run.rev, left |-> run.left]
      OBVIOUS
    <3>2. run.left \in Nat \cup {NoTime}
      BY <3>1, TimeAssumption
    <3> QED BY <3>1, <3>2 DEF RunType
  <2>2. steps \in [Nodes -> StepType] /\ slots \in [Slots -> SlotType]
    BY BlankRows, SlotRows
  <2> QED BY <1>1, <2>1, <2>2 DEF TypeOK
<1>3. /\ jobs[1].status = "queued" /\ jobs[1].token = 0 /\ jobs[1].dispatched = FALSE
      /\ jobs[1].recoveries = 0
  BY <1>1, QueuedRow
<1>4. \A n \in Nodes : steps[n].status = "absent" /\ steps[n].number = 0
        /\ steps[n].attempt = "none" /\ 0 <= MaxAttempts[n]
  BY BlankRows, NodesAssumption
<1>5. \A s \in Slots : slots[s].phase = "idle" /\ slots[s].token = 0
  BY SlotRows
<1>6. run.status = "pending" /\ claims = 0 /\ Last = 1
  BY <1>1 DEF Last
<1> HIDE DEF Init
<1>7. LatestJobOnly /\ FreshTokens /\ JobMatchesRun
  BY <1>3, <1>5, <1>6 DEF LatestJobOnly, FreshTokens, JobMatchesRun, ActiveJob
<1>8. OneUnfinished /\ Dispatched /\ MemoryCurrent /\ NumbersBounded
  BY <1>3, <1>4, <1>5, <1>6, TimeAssumption
  DEF OneUnfinished, Dispatched, MemoryCurrent, NumbersBounded, Unfinished, Absent
<1> QED BY <1>2, <1>7, <1>8 DEF IInv

-----------------------------------------------------------------------------
(* One lemma per action. *)

\* A claim hands out a token that no slot and no job has had.
LEMMA ClaimInv == ASSUME IInv, NEW s \in Slots, Claim(s) PROVE IInv'
<1>0. /\ TypeOK /\ LatestJobOnly /\ FreshTokens /\ JobMatchesRun /\ OneUnfinished
      /\ Dispatched /\ MemoryCurrent /\ NumbersBounded
  BY DEF IInv
<1>1. PICK i \in 1..Len(jobs) :
        /\ jobs[i].status = "queued"
        /\ Passed(jobs[i].due)
        /\ jobs' = [jobs EXCEPT ![i] = ClaimedJob(jobs[i], claims + 1)]
        /\ slots' = [slots EXCEPT ![s] = ClaimedSlot(i, claims + 1)]
  BY DEF Claim
<1> DEFINE j == ClaimedJob(jobs[i], claims + 1)
           c == ClaimedSlot(i, claims + 1)
<1>2. /\ jobs[i] \in JobType /\ claims \in Nat /\ claims + 1 \in Nat
      /\ i \in Nat /\ Len(jobs) \in Nat
  BY <1>0, RowsTyped
<1>3. /\ j \in JobType /\ j.status = "running" /\ j.token = claims + 1
      /\ j.due = jobs[i].due /\ j.dispatched = jobs[i].dispatched
      /\ j.attempt = jobs[i].attempt /\ j.recoveries = jobs[i].recoveries
  BY <1>2, ClaimedRow
<1>4. /\ c \in SlotType /\ c.phase = "claimed" /\ c.job = i /\ c.token = claims + 1
  BY <1>2, SlotRows
<1>5. /\ jobs' \in Seq(JobType) /\ Len(jobs') = Len(jobs)
      /\ \A k \in 1..Len(jobs) : jobs'[k] = IF k = i THEN j ELSE jobs[k]
  BY <1>0, <1>1, <1>3, JobReplaced, RowsTyped
<1>6. /\ slots' \in [Slots -> SlotType]
      /\ \A t \in Slots : slots'[t] = IF t = s THEN c ELSE slots[t]
  BY <1>0, <1>1, <1>4 DEF TypeOK
<1>7. UNCHANGED <<run, steps, edges>> /\ claims' = claims + 1 /\ slots[s].phase = "idle"
  BY DEF Claim
<1> HIDE DEF j, c
<1>8. TypeOK'
  BY <1>0, <1>2, <1>5, <1>6, <1>7 DEF TypeOK
<1>9. LatestJobOnly'
  BY <1>0, <1>1, <1>2, <1>3, <1>5 DEF LatestJobOnly, Last, ActiveJob
<1>10. FreshTokens'
  <2>1. \A t \in Slots : slots[t].token \in Nat
    BY RowsTyped, <1>0 DEF SlotType
  <2>2. \A k \in 1..Len(jobs) : jobs[k].token \in Nat
    BY RowsTyped, <1>0 DEF JobType
  <2> QED
    BY <1>0, <1>1, <1>2, <1>3, <1>4, <1>5, <1>6, <1>7, <2>1, <2>2 DEF FreshTokens, Last
<1>11. JobMatchesRun'
  BY <1>0, <1>1, <1>2, <1>3, <1>5, <1>7 DEF JobMatchesRun, LatestJobOnly, Last, ActiveJob
<1>12. OneUnfinished'
  <2>1. i = Last /\ Last' = Last
    BY <1>0, <1>1, <1>5 DEF LatestJobOnly, Last, ActiveJob
  <2>2. jobs'[Last'].status = "running"
    BY <1>3, <1>5, <2>1 DEF Last
  <2>3. \A n \in Nodes : steps[n].status = "retrying" => steps[n].timer <= 0
    BY <1>0, <1>1, <2>1 DEF OneUnfinished, Passed
  <2> QED BY <1>0, <1>7, <2>1, <2>2, <2>3 DEF OneUnfinished, Unfinished
<1>13. Dispatched' /\ \A k \in 1..Last' : ~jobs'[k].dispatched
  <2>1. i = Last /\ Last' = Last
    BY <1>0, <1>1, <1>5 DEF LatestJobOnly, Last, ActiveJob
  <2>2. \A n \in Nodes : steps[n].status # "running"
    BY <1>0, <1>1, <2>1 DEF Dispatched
  <2>3. \A k \in 1..Last : ~jobs[k].dispatched
    BY <1>0, <2>2 DEF Dispatched
  <2>4. \A k \in 1..Last : ~jobs'[k].dispatched
    BY <1>1, <1>3, <1>5, <2>1, <2>3 DEF Last
  <2> QED BY <1>7, <2>1, <2>2, <2>4 DEF Dispatched
<1>14. MemoryCurrent'
  <2>1. ASSUME NEW t \in Slots, LiveClaim(t)' PROVE slots'[t].phase # "executing"
    <3> SUFFICES ASSUME slots'[t].phase = "executing" PROVE FALSE
      OBVIOUS
    <3>1. slots'[t] = slots[t]
      BY <1>4, <1>6
    <3>2. LiveClaim(t)
      BY <1>0, <1>2, <1>3, <1>5, <2>1, <3>1 DEF LiveClaim, FreshTokens
    <3>3. slots[t].job \in 1..Last /\ jobs[slots[t].job].dispatched
      BY <1>0, <3>1, <3>2 DEF MemoryCurrent, LiveClaim, Last
    <3> QED BY <1>3, <1>5, <1>13, <3>3 DEF Last
  <2>2. ASSUME NEW t \in Slots, LiveClaim(t)' PROVE ~jobs'[slots'[t].job].dispatched
    BY <1>13, <2>2 DEF LiveClaim, Last
  <2> QED BY <2>1, <2>2 DEF MemoryCurrent
<1>15. NumbersBounded'
  BY <1>0, <1>1, <1>2, <1>3, <1>5, <1>7 DEF NumbersBounded, Last, Absent, Unfinished
<1> QED BY <1>8, <1>9, <1>10, <1>11, <1>12, <1>13, <1>14, <1>15 DEF IInv

\* A renewal changes nothing that the invariant reads.
LEMMA RenewInv == ASSUME IInv, NEW s \in Slots, Renew(s) PROVE IInv'
<1>0. /\ TypeOK /\ LatestJobOnly /\ FreshTokens /\ JobMatchesRun /\ OneUnfinished
      /\ Dispatched /\ MemoryCurrent /\ NumbersBounded
  BY DEF IInv
<1> DEFINE i == slots[s].job
           j == RenewedJob(jobs[i])
<1>1. /\ i \in 1..Len(jobs) /\ jobs' = [jobs EXCEPT ![i] = j]
      /\ jobs[i].lease > 0 /\ UNCHANGED <<run, steps, edges, slots, claims>>
  BY DEF Renew, LiveClaim
<1>2. /\ j \in JobType /\ j.status = jobs[i].status /\ j.token = jobs[i].token
      /\ j.due = jobs[i].due /\ j.dispatched = jobs[i].dispatched
      /\ j.attempt = jobs[i].attempt /\ j.recoveries = jobs[i].recoveries
  BY <1>0, <1>1, RowsTyped, RenewedRow
<1>3. /\ jobs' \in Seq(JobType) /\ Len(jobs') = Len(jobs)
      /\ \A k \in 1..Len(jobs) : jobs'[k] = IF k = i THEN j ELSE jobs[k]
  BY <1>0, <1>1, <1>2, JobReplaced, RowsTyped
<1> HIDE DEF i, j
<1>4. \A k \in 1..Len(jobs) :
        /\ jobs'[k].status = jobs[k].status /\ jobs'[k].token = jobs[k].token
        /\ jobs'[k].due = jobs[k].due /\ jobs'[k].dispatched = jobs[k].dispatched
        /\ jobs'[k].attempt = jobs[k].attempt
        /\ jobs'[k].recoveries = jobs[k].recoveries
        /\ jobs'[k].lease > 0 => jobs[k].lease > 0
  BY <1>1, <1>2, <1>3
<1>5. Last' = Last /\ Last \in 1..Last
  BY <1>3, Rest DEF Last
<1>6. \A k \in 1..Last : ActiveJob(k)' <=> ActiveJob(k)
  BY <1>4 DEF ActiveJob, Last
<1>7. TypeOK'
  BY <1>0, <1>1, <1>3 DEF TypeOK
<1>8. LatestJobOnly' /\ JobMatchesRun'
  BY <1>0, <1>1, <1>5, <1>6 DEF LatestJobOnly, JobMatchesRun
<1>9. FreshTokens'
  BY <1>0, <1>1, <1>4, <1>5 DEF FreshTokens, Last
<1>10. OneUnfinished'
  <2>1. jobs'[Last'].status = jobs[Last].status /\ jobs'[Last'].due = jobs[Last].due
    BY <1>4, <1>5 DEF Last
  <2> QED BY <1>0, <1>1, <2>1 DEF OneUnfinished, Unfinished
<1>11. Dispatched'
  <2>1. /\ jobs'[Last'].status = jobs[Last].status
        /\ jobs'[Last'].dispatched = jobs[Last].dispatched
        /\ jobs'[Last'].attempt = jobs[Last].attempt
    BY <1>4, <1>5 DEF Last
  <2>2. ASSUME NEW k \in 1..Last', jobs'[k].dispatched
        PROVE  /\ jobs'[k].status = "running"
               /\ \E n \in Nodes : /\ steps'[n].status = "running"
                                   /\ jobs'[k].attempt = <<n, steps'[n].number>>
    <3>1. k \in 1..Last /\ jobs[k].dispatched
      BY <1>4, <1>5, <2>2 DEF Last
    <3>2. jobs[k].status = "running"
      BY <1>0, <3>1 DEF Dispatched
    <3>3. PICK n \in Nodes : steps[n].status = "running"
                            /\ jobs[k].attempt = <<n, steps[n].number>>
      BY <1>0, <3>1 DEF Dispatched
    <3>4. jobs'[k].status = jobs[k].status /\ jobs'[k].attempt = jobs[k].attempt
      BY <1>4, <3>1 DEF Last
    <3> QED BY <1>1, <3>2, <3>3, <3>4
  <2> QED BY <1>0, <1>1, <2>1, <2>2 DEF Dispatched
<1>12. MemoryCurrent'
  BY <1>0, <1>1, <1>3, <1>4 DEF MemoryCurrent, LiveClaim
<1>13. NumbersBounded'
  BY <1>0, <1>1, <1>4, <1>5 DEF NumbersBounded, Absent, Unfinished, Last
<1> QED BY <1>7, <1>8, <1>9, <1>10, <1>11, <1>12, <1>13 DEF IInv

\* A slot that only forgets (death, an untyped error, a dropped result).
LEMMA ForgetInv ==
  ASSUME IInv, NEW s \in Slots, Release(s), UNCHANGED durable
  PROVE  IInv'
<1>0. /\ TypeOK /\ LatestJobOnly /\ FreshTokens /\ JobMatchesRun /\ OneUnfinished
      /\ Dispatched /\ MemoryCurrent /\ NumbersBounded
  BY DEF IInv
<1>1. UNCHANGED <<run, steps, edges, jobs, claims>> /\ Last' = Last
  BY DEF durable, Last
<1>2. SlotsKept
  BY <1>0, SlotReleased
<1>3. \A t \in Slots : slots'[t] = slots[t] \/ slots'[t] = IdleSlot
  BY <1>2 DEF SlotsKept
<1>4. IdleSlot.phase = "idle" /\ IdleSlot.token = 0
  BY SlotRows
<1>5. TypeOK'
  BY <1>0, <1>1, <1>2 DEF TypeOK, SlotsKept
<1>6. FreshTokens'
  BY <1>0, <1>1, <1>3, <1>4, RowsTyped DEF FreshTokens
<1>7. MemoryCurrent'
  BY <1>0, <1>1, <1>3, <1>4 DEF MemoryCurrent, LiveClaim
<1>8. LatestJobOnly' /\ JobMatchesRun' /\ OneUnfinished' /\ Dispatched' /\ NumbersBounded'
  BY <1>0, <1>1 DEF LatestJobOnly, JobMatchesRun, OneUnfinished, Dispatched,
     NumbersBounded, ActiveJob, Unfinished, Absent
<1> QED BY <1>5, <1>6, <1>7, <1>8 DEF IInv

\* A live claim is a claim on the latest job, which is active.
LEMMA LiveJob ==
  ASSUME IInv, NEW s \in Slots, LiveClaim(s)
  PROVE  /\ slots[s].job \in 1..Last /\ ActiveJob(slots[s].job)
         /\ slots[s].job = Last /\ jobs[Last].status = "running"
         /\ run.status \in {"pending", "running"}
<1>1. slots[s].job \in 1..Last /\ jobs[slots[s].job].status = "running"
  BY DEF LiveClaim, Last
<1>2. ActiveJob(slots[s].job)
  BY <1>1 DEF ActiveJob
<1> QED BY <1>1, <1>2, ActiveRun

\* Before a dispatch no step runs or waits, and at most one backs off.
LEMMA BeforeDispatch ==
  ASSUME IInv, NEW s \in Slots, CanDispatch(s)
  PROVE  /\ LiveClaim(s) /\ ~jobs[slots[s].job].dispatched
         /\ \A n \in Nodes : steps[n].status \notin {"running", "waiting"}
         /\ \A n \in Nodes : Unfinished(n) => n \in Retrying
         /\ \A n \in Retrying : \A m \in Nodes \ {n} : AtRest(m, steps[m])
         /\ Retrying = {} => \A m \in Nodes : AtRest(m, steps[m])
<1>1. LiveClaim(s) /\ ~jobs[slots[s].job].dispatched /\ ~NotReady
  BY DEF CanDispatch
<1>2. \A n \in Nodes : steps[n].status \notin {"running", "waiting"}
  BY <1>1 DEF NotReady
<1>3. \A n \in Nodes : Unfinished(n) => n \in Retrying
  BY <1>2 DEF Unfinished, Retrying
<1>4. \A n \in Retrying : \A m \in Nodes \ {n} : ~Unfinished(m)
  BY DEF Retrying, Unfinished, IInv, OneUnfinished
<1> QED BY <1>1, <1>2, <1>3, <1>4, Rest

\* Rows that the interpreter passes by are absent before and at rest after.
LEMMA PassedBy ==
  ASSUME IInv, NEW S, S \subseteq Unreached
  PROVE  /\ SkipEdges(S) \in [Edges -> {"open", "selected", "skipped"}]
         /\ \A n \in S : n \in Nodes /\ Absent(n)
         /\ \A n \in Nodes : AtRest(n, steps[n]) => AtRest(n, SkipSteps(S)[n])
         /\ SkipSteps(S) \in [Nodes -> StepType]
<1>1. SkipEdges(S) \in [Edges -> {"open", "selected", "skipped"}]
  BY DEF SkipEdges, IInv, TypeOK
<1>2. \A n \in S : n \in Nodes /\ Absent(n)
  BY DEF Unreached
<1>3. \A n \in Nodes : SkipSteps(S)[n] = IF n \in S THEN SkippedStep ELSE steps[n]
  BY DEF SkipSteps
<1>4. \A n \in Nodes : AtRest(n, SkippedStep)
  BY BlankRows, NodesAssumption DEF AtRest
<1>5. SkipSteps(S) \in [Nodes -> StepType]
  BY <1>3, BlankRows, RowsTyped DEF SkipSteps, IInv
<1> QED BY <1>1, <1>2, <1>3, <1>4, <1>5

\* A job is never claimed in vain: under the invariant a live claim that has
\* not been dispatched finds something to prepare, so that the finishing branch
\* of SkipDispatch is never taken.
LEMMA DispatchNotInVain ==
  ASSUME IInv, NEW s \in Slots, slots[s].phase = "claimed", ~CanDispatch(s)
  PROVE  ~(LiveClaim(s) /\ ~jobs[slots[s].job].dispatched)
<1> SUFFICES ASSUME LiveClaim(s), ~jobs[slots[s].job].dispatched PROVE FALSE
  OBVIOUS
<1>1. NotReady
  BY DEF CanDispatch
<1>2. /\ slots[s].job = Last /\ ActiveJob(Last) /\ Last \in 1..Last
      /\ jobs[Last].status = "running" /\ run.status \in {"pending", "running"}
  BY LiveJob
<1>3. \A n \in Nodes : steps[n].status \notin {"running", "waiting"}
  BY <1>2 DEF IInv, Dispatched, OneUnfinished
<1>4. \A m, n \in Retrying : m = n
  BY DEF Retrying, IInv, OneUnfinished, Unfinished
<1>5. \A n \in Retrying : ~(steps[n].timer > 0)
  <2>1. \A n \in Retrying : steps[n].timer <= 0 /\ n \in Nodes
    BY <1>2 DEF Retrying, IInv, OneUnfinished
  <2>2. \A n \in Retrying : steps[n].timer \in Int
    BY <2>1, RowsTyped DEF IInv, StepType, NoTime
  <2> QED BY <2>1, <2>2
<1> QED BY <1>1, <1>2, <1>3, <1>4, <1>5 DEF NotReady, Terminal

\* A lost claim changes nothing.
LEMMA SkipDispatchInv == ASSUME IInv, NEW s \in Slots, SkipDispatch(s) PROVE IInv'
<1>1. ~CanDispatch(s) /\ Release(s) /\ UNCHANGED <<steps, edges, claims>>
      /\ slots[s].phase = "claimed"
  BY DEF SkipDispatch
<1>2. UNCHANGED <<run, jobs>>
  BY <1>1, DispatchNotInVain DEF SkipDispatch
<1>3. UNCHANGED durable
  BY <1>1, <1>2 DEF durable
<1> QED BY <1>1, <1>3, ForgetInv

\* A job that comes too late for the deadline ends the run.
LEMMA DispatchExpiredInv ==
  ASSUME IInv, NEW s \in Slots, DispatchExpired(s) PROVE IInv'
<1>1. /\ CanDispatch(s) /\ Release(s) /\ run' = RunTo("failed")
      /\ steps' = EndSteps("failed") /\ jobs' = JobTo(slots[s].job, "failed")
      /\ edges' = edges /\ claims' = claims
  BY DEF DispatchExpired
<1>2. "failed" \in Ending /\ "failed" \in Ending \cup {"waiting"} /\ TypeOK
  BY DEF Ending, IInv
<1>3. slots[s].job \in 1..Last /\ ActiveJob(slots[s].job)
  BY <1>1, BeforeDispatch, LiveJob
<1>4. /\ steps' \in [Nodes -> StepType] /\ \A n \in Nodes : AtRest(n, steps'[n])
  BY <1>1, <1>2, StepsEnded
<1>5. /\ jobs' \in Seq(JobType) /\ Len(jobs') = Last
      /\ \A k \in 1..Len(jobs') : Dead(jobs'[k])
  BY <1>1, <1>2, <1>3, JobEnded
<1>6. SlotsKept /\ edges' \in [Edges -> {"open", "selected", "skipped"}]
  BY <1>1, <1>2, SlotReleased DEF TypeOK
<1> QED BY <1>1, <1>2, <1>4, <1>5, <1>6, SettledShape

\* The run completes, or fails on its outputs, with every step at rest.
LEMMA DispatchFinishInv ==
  ASSUME IInv, NEW s \in Slots, NEW outcome \in {"completed", "failed"},
         DispatchFinish(s, outcome)
  PROVE  IInv'
<1>1. /\ CanDispatch(s) /\ Release(s) /\ NextNodes = {} /\ run' = RunTo(outcome)
      /\ steps' = SkipSteps(Unreached) /\ edges' = SkipEdges(Unreached)
      /\ jobs' = JobTo(slots[s].job, outcome) /\ claims' = claims
  BY DEF DispatchFinish
<1>2. outcome \in Ending /\ outcome \in Ending \cup {"waiting"} /\ TypeOK
      /\ outcome # "waiting"
  BY DEF Ending, IInv
<1>3. slots[s].job \in 1..Last /\ ActiveJob(slots[s].job)
  BY <1>1, BeforeDispatch, LiveJob
<1>4. Retrying = {}
  BY <1>1 DEF NextNodes
<1>5. \A n \in Nodes : AtRest(n, steps[n])
  BY <1>1, <1>4, BeforeDispatch
<1>6. /\ steps' \in [Nodes -> StepType] /\ \A n \in Nodes : AtRest(n, steps'[n])
      /\ edges' \in [Edges -> {"open", "selected", "skipped"}]
  BY <1>1, <1>5, PassedBy
<1>7. /\ jobs' \in Seq(JobType) /\ Len(jobs') = Last
      /\ \A k \in 1..Len(jobs') : Dead(jobs'[k])
  BY <1>1, <1>2, <1>3, JobEnded
<1>8. SlotsKept
  BY <1>1, <1>2, SlotReleased
<1> QED BY <1>1, <1>2, <1>6, <1>7, <1>8, SettledShape

\* Opening an attempt writes one row and leaves the other steps at rest.
LEMMA AttemptOpened ==
  ASSUME IInv, NEW s \in Slots, CanDispatch(s), NEW n \in Nodes,
         NEW status \in StepStatus, NEW attempt \in AttemptStatus,
         NEW limit \in Nat \cup {NoTime}, NEW timer \in Nat \cup {NoTime},
         OpenAttempt(n, status, attempt, limit, timer)
  PROVE  /\ steps' \in [Nodes -> StepType]
         /\ steps'[n].status = status /\ steps'[n].attempt = attempt
         /\ steps'[n].timer = timer /\ steps'[n].number = steps[n].number + 1
         /\ steps'[n].number > 0 /\ steps'[n].number <= MaxAttempts[n]
         /\ \A m \in Nodes \ {n} : AtRest(m, steps'[m])
         /\ edges' \in [Edges -> {"open", "selected", "skipped"}]
<1> DEFINE row == [status |-> status, number |-> steps[n].number + 1,
                   attempt |-> attempt, limit |-> limit, timer |-> timer]
<1>1. /\ n \in NextNodes /\ steps[n].number < MaxAttempts[n]
      /\ steps' = [SkipSteps(SkippedBefore(n)) EXCEPT ![n] = row]
      /\ edges' = SkipEdges(SkippedBefore(n))
  BY DEF OpenAttempt
<1>2. steps[n].number \in Nat /\ MaxAttempts[n] \in Nat
  BY RowsTyped, NodesAssumption DEF IInv, StepType
<1>3. /\ row \in StepType /\ row.status = status /\ row.attempt = attempt
      /\ row.timer = timer /\ row.number = steps[n].number + 1
  BY <1>2 DEF StepType, StepStatus, AttemptStatus
<1> HIDE DEF row
<1>4. SkippedBefore(n) \subseteq Unreached
  BY DEF SkippedBefore
<1>5. /\ SkipSteps(SkippedBefore(n)) \in [Nodes -> StepType]
      /\ \A m \in Nodes : AtRest(m, steps[m]) => AtRest(m, SkipSteps(SkippedBefore(n))[m])
      /\ edges' \in [Edges -> {"open", "selected", "skipped"}]
  BY <1>1, <1>4, PassedBy
<1>6. \A m \in Nodes \ {n} : AtRest(m, steps[m])
  <2>1. CASE Retrying # {}
    BY <1>1, <2>1, BeforeDispatch DEF NextNodes
  <2>2. CASE Retrying = {}
    BY <2>2, BeforeDispatch
  <2> QED BY <2>1, <2>2
<1> QED BY <1>1, <1>2, <1>3, <1>5, <1>6

\* An invalid node ends the run with its step and its job.
LEMMA DispatchRejectInv ==
  ASSUME IInv, NEW s \in Slots, NEW n \in Nodes, DispatchReject(s, n) PROVE IInv'
<1>1. /\ CanDispatch(s) /\ Release(s) /\ run' = RunTo("failed") /\ claims' = claims
      /\ OpenAttempt(n, "failed", "failed", NoTime, NoTime)
      /\ jobs' = JobTo(slots[s].job, "failed")
  BY DEF DispatchReject
<1>2. "failed" \in Ending /\ "failed" \in Ending \cup {"waiting"} /\ TypeOK
  BY DEF Ending, IInv
<1>3. /\ "failed" \in StepStatus /\ "failed" \in AttemptStatus
      /\ NoTime \in Nat \cup {NoTime}
  BY DEF StepStatus, AttemptStatus, Terminal
<1>4. /\ steps' \in [Nodes -> StepType]
      /\ steps'[n].status = "failed" /\ steps'[n].attempt = "failed"
      /\ steps'[n].number <= MaxAttempts[n]
      /\ \A m \in Nodes \ {n} : AtRest(m, steps'[m])
      /\ edges' \in [Edges -> {"open", "selected", "skipped"}]
  BY <1>1, <1>3, AttemptOpened
<1>5. \A m \in Nodes : AtRest(m, steps'[m])
  BY <1>4 DEF AtRest
<1>6. slots[s].job \in 1..Last /\ ActiveJob(slots[s].job)
  BY <1>1, BeforeDispatch, LiveJob
<1>7. /\ jobs' \in Seq(JobType) /\ Len(jobs') = Last
      /\ \A k \in 1..Len(jobs') : Dead(jobs'[k])
  BY <1>1, <1>2, <1>6, JobEnded
<1>8. SlotsKept
  BY <1>1, <1>2, SlotReleased
<1> QED BY <1>1, <1>2, <1>4, <1>5, <1>7, <1>8, SettledShape

\* A delay leaves the run waiting, with no job and one timer.
LEMMA DispatchDelayInv ==
  ASSUME IInv, NEW s \in Slots, NEW n \in Nodes, DispatchDelay(s, n) PROVE IInv'
<1>1. /\ CanDispatch(s) /\ Release(s) /\ run' = RunTo("waiting") /\ claims' = claims
      /\ OpenAttempt(n, "waiting", "completed", NoTime, DelayTime[n])
      /\ jobs' = JobTo(slots[s].job, "completed")
  BY DEF DispatchDelay
<1>2. "completed" \in Ending /\ "waiting" \in Ending \cup {"waiting"} /\ TypeOK
  BY DEF Ending, IInv
<1>3. /\ "waiting" \in StepStatus /\ "completed" \in AttemptStatus
      /\ NoTime \in Nat \cup {NoTime} /\ DelayTime[n] \in Nat \cup {NoTime}
      /\ DelayTime[n] # NoTime
  BY TimeAssumption DEF StepStatus, AttemptStatus, NoTime
<1>4. /\ steps' \in [Nodes -> StepType]
      /\ steps'[n].status = "waiting" /\ steps'[n].attempt = "completed"
      /\ steps'[n].timer = DelayTime[n]
      /\ steps'[n].number > 0 /\ steps'[n].number <= MaxAttempts[n]
      /\ \A m \in Nodes \ {n} : AtRest(m, steps'[m])
      /\ edges' \in [Edges -> {"open", "selected", "skipped"}]
  BY <1>1, <1>3, AttemptOpened
<1>5. slots[s].job \in 1..Last /\ ActiveJob(slots[s].job)
  BY <1>1, BeforeDispatch, LiveJob
<1>6. /\ jobs' \in Seq(JobType) /\ Len(jobs') = Last
      /\ \A k \in 1..Len(jobs') : Dead(jobs'[k])
  BY <1>1, <1>2, <1>5, JobEnded
<1>7. SlotsKept
  BY <1>1, <1>2, SlotReleased
<1>8. steps'[n].attempt # "running" /\ steps'[n].timer # NoTime
  BY <1>3, <1>4
<1> QED BY <1>1, <1>2, <1>4, <1>6, <1>7, <1>8, SettledShape

\* The attempt, the job's dispatch marker and the slot's memory agree.
LEMMA DispatchAttemptInv ==
  ASSUME IInv, NEW s \in Slots, NEW n \in Nodes, DispatchAttempt(s, n) PROVE IInv'
<1>0. /\ TypeOK /\ LatestJobOnly /\ FreshTokens /\ JobMatchesRun /\ OneUnfinished
      /\ Dispatched /\ MemoryCurrent /\ NumbersBounded
  BY DEF IInv
<1> DEFINE i == slots[s].job
           a == <<n, steps[n].number + 1>>
           j == DispatchedJob(jobs[i], a)
           c == ExecutingSlot(slots[s], a, run.rev + 1)
           l == Earlier(Timeout[n], run.left)
<1>1. /\ CanDispatch(s) /\ run' = RunTo("running") /\ claims' = claims
      /\ OpenAttempt(n, "running", "running", l, NoTime)
      /\ jobs' = [jobs EXCEPT ![i] = j] /\ slots' = [slots EXCEPT ![s] = c]
  BY DEF DispatchAttempt
<1>2. /\ i \in 1..Last /\ i = Last /\ jobs[i].status = "running" /\ LiveClaim(s)
      /\ slots[s].phase = "claimed"
  BY <1>1, BeforeDispatch, LiveJob DEF CanDispatch
<1>3. /\ jobs[i] \in JobType /\ slots[s] \in SlotType /\ run \in RunType
      /\ run.rev + 1 \in Nat /\ steps[n].number \in Nat
      /\ a \in AttemptType /\ a = <<n, steps[n].number + 1>>
  <2>1. jobs[i] \in JobType /\ slots[s] \in SlotType /\ run \in RunType /\ steps[n] \in StepType
    BY <1>0, <1>2, RowsTyped DEF Last
  <2>2. run.rev + 1 \in Nat /\ steps[n].number \in Nat
    BY <2>1 DEF RunType, StepType
  <2>3. a \in AttemptType
    BY <2>2, NodesAssumption DEF AttemptType, Nodes
  <2> QED BY <2>1, <2>2, <2>3
<1> HIDE DEF a
<1>4. /\ j \in JobType /\ j.status = "running" /\ j.token = jobs[i].token
      /\ j.dispatched = TRUE /\ j.attempt = a /\ j.recoveries = jobs[i].recoveries
  BY <1>2, <1>3, DispatchedRow
<1>5. /\ c \in SlotType /\ c.phase = "executing" /\ c.job = i
      /\ c.token = slots[s].token /\ c.attempt = a /\ c.rev = run.rev + 1
  <2> DEFINE r == run.rev + 1
  <2>1. r \in Nat /\ slots[s] \in SlotType /\ a \in AttemptType
    BY <1>3
  <2> HIDE DEF r
  <2>2. /\ ExecutingSlot(slots[s], a, r) \in SlotType
        /\ ExecutingSlot(slots[s], a, r).phase = "executing"
        /\ ExecutingSlot(slots[s], a, r).job = i
        /\ ExecutingSlot(slots[s], a, r).token = slots[s].token
        /\ ExecutingSlot(slots[s], a, r).attempt = a
        /\ ExecutingSlot(slots[s], a, r).rev = r
    BY <2>1, SlotRows
  <2> QED BY <2>2 DEF r
<1>6. /\ jobs' \in Seq(JobType) /\ Len(jobs') = Len(jobs) /\ Last' = Last
      /\ \A k \in 1..Last : jobs'[k] = IF k = i THEN j ELSE jobs[k]
  BY <1>0, <1>1, <1>2, <1>4, JobReplaced, RowsTyped DEF Last
<1>7. /\ slots' \in [Slots -> SlotType]
      /\ \A t \in Slots : slots'[t] = IF t = s THEN c ELSE slots[t]
  BY <1>0, <1>1, <1>5 DEF TypeOK
<1>8. /\ run' \in RunType /\ run'.status = "running" /\ run'.rev = run.rev + 1
  BY <1>1, <1>3, RunRow DEF RunStatus
<1>9. /\ steps' \in [Nodes -> StepType]
      /\ steps'[n].status = "running" /\ steps'[n].attempt = "running"
      /\ steps'[n].number = steps[n].number + 1
      /\ steps'[n].number > 0 /\ steps'[n].number <= MaxAttempts[n]
      /\ \A m \in Nodes \ {n} : AtRest(m, steps'[m])
      /\ edges' \in [Edges -> {"open", "selected", "skipped"}]
  <2>1. l \in Nat \cup {NoTime} /\ NoTime \in Nat \cup {NoTime}
    BY <1>3, TimeAssumption, TimeTypes DEF RunType
  <2>2. "running" \in StepStatus /\ "running" \in AttemptStatus
    BY DEF StepStatus, AttemptStatus
  <2> HIDE DEF l
  <2> QED BY <1>1, <2>1, <2>2, AttemptOpened
<1>10. /\ i \in 1..Last' /\ i = Last' /\ jobs'[i].status = "running"
       /\ jobs'[i].dispatched = TRUE /\ jobs'[i].attempt = <<n, steps'[n].number>>
  BY <1>2, <1>3, <1>4, <1>6, <1>9
<1> HIDE DEF i, j, c, l
<1>11. \A k \in 1..Last : /\ jobs'[k].status = jobs[k].status
                          /\ jobs'[k].token = jobs[k].token
                          /\ jobs'[k].recoveries = jobs[k].recoveries
  BY <1>2, <1>4, <1>6
<1>12. \A k \in 1..Last : ActiveJob(k)' <=> ActiveJob(k)
  BY <1>11 DEF ActiveJob
<1>13. \A k \in 1..Last : k # i => Dead(jobs'[k])
  BY <1>2, <1>6, Rest
<1>14. TypeOK'
  BY <1>0, <1>1, <1>6, <1>7, <1>8, <1>9 DEF TypeOK
<1>15. LatestJobOnly'
  BY <1>0, <1>6, <1>12 DEF LatestJobOnly
<1>16. FreshTokens'
  <2>1. \A t \in Slots : /\ slots'[t].token = slots[t].token
                         /\ slots'[t].phase = "idle" <=> slots[t].phase = "idle"
    BY <1>2, <1>5, <1>7
  <2> QED BY <1>0, <1>1, <1>6, <1>11, <2>1 DEF FreshTokens
<1>17. JobMatchesRun'
  BY <1>8, <1>10 DEF JobMatchesRun, ActiveJob
<1>18. OneUnfinished'
  <2>1. \A m \in Nodes \ {n} : /\ steps'[m].status \notin {"running", "retrying", "waiting"}
                               /\ steps'[m].attempt # "running"
    BY <1>9 DEF AtRest
  <2> QED BY <1>8, <1>9, <2>1 DEF OneUnfinished, Unfinished
<1>19. Dispatched'
  <2>1. \A m \in Nodes : steps'[m].status = "running" => m = n
    BY <1>9 DEF AtRest
  <2>2. \A k \in 1..Last' : jobs'[k].dispatched => k = i
    BY <1>6, <1>13 DEF Dead
  <2> QED BY <1>9, <1>10, <2>1, <2>2 DEF Dispatched
<1>20. MemoryCurrent'
  <2>1. ASSUME NEW t \in Slots, slots'[t].phase # "idle", LiveClaim(t)' PROVE t = s
    <3> SUFFICES ASSUME t # s PROVE FALSE
      OBVIOUS
    <3>1. slots'[t] = slots[t] /\ slots[t].phase # "idle"
      BY <1>7, <2>1
    <3>2. /\ slots[t].job \in 1..Last /\ jobs'[slots[t].job].status = "running"
          /\ jobs'[slots[t].job].token = slots[t].token
      BY <1>6, <2>1, <3>1 DEF LiveClaim, Last
    <3>3. slots[t].job = i
      BY <1>13, <3>2 DEF Dead
    <3>4. slots[t].token = slots[s].token
      BY <1>2, <1>4, <1>6, <3>2, <3>3 DEF LiveClaim, i
    <3> QED BY <1>0, <1>2, <3>1, <3>4 DEF FreshTokens
  <2>2. /\ slots'[s].job = i /\ slots'[s].attempt = jobs'[i].attempt
        /\ slots'[s].rev = run'.rev /\ slots'[s].phase = "executing"
    BY <1>2, <1>4, <1>5, <1>6, <1>7, <1>8
  <2> QED BY <1>10, <2>1, <2>2 DEF MemoryCurrent
<1>21. NumbersBounded'
  BY <1>0, <1>6, <1>9, <1>11 DEF NumbersBounded, AtRest, Absent, Unfinished
<1> QED BY <1>14, <1>15, <1>16, <1>17, <1>18, <1>19, <1>20, <1>21 DEF IInv

\* What a slot that may commit knows.
LEMMA CommitFacts ==
  ASSUME IInv, NEW s \in Slots, CanCommit(s)
  PROVE  /\ slots[s].job \in 1..Last /\ ActiveJob(slots[s].job)
         /\ jobs[slots[s].job].status = "running" /\ run.status = "running"
         /\ slots[s].attempt[1] \in Nodes
         /\ steps[slots[s].attempt[1]].status = "running"
         /\ \A m \in Nodes \ {slots[s].attempt[1]} : AtRest(m, steps[m])
<1> DEFINE i == slots[s].job
           n == slots[s].attempt[1]
<1>1. /\ LiveClaim(s) /\ jobs[i].dispatched /\ jobs[i].attempt = slots[s].attempt
      /\ steps[n].status = "running"
  BY DEF CanCommit
<1>2. i \in 1..Last /\ ActiveJob(i) /\ jobs[i].status = "running"
  BY <1>1, LiveJob
<1>3. PICK m \in Nodes : jobs[i].attempt = <<m, steps[m].number>>
  BY <1>1, <1>2 DEF IInv, Dispatched
<1>4. n \in Nodes
  BY <1>1, <1>3
<1>5. \A k \in Nodes \ {n} : AtRest(k, steps[k])
  BY <1>1, <1>4, Rest DEF IInv, OneUnfinished, Unfinished
<1>6. run.status = "running"
  BY <1>1, <1>2, <1>4, ActiveRun DEF Unfinished
<1> QED BY <1>1, <1>2, <1>4, <1>5, <1>6

\* A result that is committed queues the next checkpoint.
LEMMA CommitSuccessInv ==
  ASSUME IInv, NEW s \in Slots, NEW route \in Routes, CommitSuccess(s, route)
  PROVE  IInv'
<1> DEFINE i == slots[s].job
           n == slots[s].attempt[1]
<1>1. /\ CanCommit(s) /\ run' = RunTo(run.status) /\ claims' = claims /\ Release(s)
      /\ steps' = [steps EXCEPT ![n] = StepTo(n, "completed")]
      /\ edges' = SelectEdges(n, route)
      /\ jobs' = Append(JobTo(i, "completed"), QueuedJob(0))
  BY DEF CommitSuccess
<1>2. /\ i \in 1..Last /\ ActiveJob(i) /\ run.status = "running" /\ n \in Nodes
      /\ \A m \in Nodes \ {n} : AtRest(m, steps[m])
  BY <1>1, CommitFacts
<1> HIDE DEF i, n
<1>3. /\ "completed" \in Ending /\ "completed" \in StepStatus
      /\ "completed" \in AttemptStatus /\ TypeOK
  BY DEF Ending, StepStatus, AttemptStatus, Terminal, IInv
<1>4. steps \in [Nodes -> StepType] /\ steps[n] \in StepType
      /\ steps[n].number <= MaxAttempts[n]
  BY <1>2, <1>3, RowsTyped DEF TypeOK, IInv, NumbersBounded
<1>5. AtRest(n, StepTo(n, "completed"))
  BY <1>3, <1>4, MovedRow DEF StepTo, AtRest
<1>6. steps' \in [Nodes -> StepType] /\ \A m \in Nodes : AtRest(m, steps'[m])
  BY <1>1, <1>2, <1>4, <1>5 DEF AtRest
<1>7. /\ JobTo(i, "completed") \in Seq(JobType) /\ Len(JobTo(i, "completed")) = Last
      /\ \A k \in 1..Last : Dead(JobTo(i, "completed")[k])
  BY <1>2, <1>3, JobEnded
<1>8. /\ jobs' \in Seq(JobType) /\ Len(jobs') \in Nat \ {0}
      /\ \A k \in 1..Len(jobs') : k # Len(jobs') => Dead(jobs'[k])
      /\ jobs'[Len(jobs')].status = "queued" /\ jobs'[Len(jobs')].due = 0
      /\ jobs'[Len(jobs')].token = 0 /\ jobs'[Len(jobs')].dispatched = FALSE
      /\ jobs'[Len(jobs')].recoveries <= MaxRecoveries
  BY <1>1, <1>7, JobQueued
<1>9. SlotsKept /\ edges' \in [Edges -> {"open", "selected", "skipped"}]
  BY <1>1, <1>3, SlotReleased DEF TypeOK, SelectEdges
<1>10. run' = RunTo("running")
  BY <1>1, <1>2
<1> QED BY <1>1, <1>6, <1>8, <1>9, <1>10, QueuedShape

\* A failure that is committed retries or ends the run.
LEMMA CommitFailureInv ==
  ASSUME IInv, NEW s \in Slots, NEW code, NEW delay \in Backoffs,
         CommitFailure(s, code, delay)
  PROVE  IInv'
<1> DEFINE n == slots[s].attempt[1]
<1>1. /\ CanCommit(s) /\ Release(s) /\ UNCHANGED <<edges, claims>>
      /\ FailAttempt(slots[s].job, n, FailureCode(n, code), delay)
  BY DEF CommitFailure
<1>2. /\ slots[s].job \in 1..Last /\ jobs[slots[s].job].status = "running"
      /\ n \in Nodes /\ steps[n].status = "running"
  BY <1>1, CommitFacts
<1>3. SlotsKept /\ delay \in Nat
  BY <1>1, SlotReleased, TimeAssumption DEF IInv
<1> HIDE DEF n
<1> QED BY <1>1, <1>2, <1>3, FailAttemptInv

\* A recovered job waits in the queue again, its step backing off with it.
LEMMA RequeueExpiredInv ==
  ASSUME IInv, NEW i \in 1..Last, NEW delay \in Backoffs, RequeueExpired(i, delay)
  PROVE  IInv'
<1> DEFINE due == RecoveryDue(delay)
           j == RequeuedJob(jobs[i], due)
<1>1. /\ jobs[i].status = "running" /\ run' = RunTo(run.status)
      /\ steps' = [n \in Nodes |-> IF Unfinished(n) THEN RetryingStep(steps[n], due)
                                   ELSE steps[n]]
      /\ jobs' = [jobs EXCEPT ![i] = j] /\ UNCHANGED <<edges, slots, claims>>
      /\ jobs[i].recoveries < MaxRecoveries
      /\ \A n \in Nodes : Unfinished(n) => steps[n].number < MaxAttempts[n]
  BY DEF RequeueExpired, LeaseExpired, MayRecover, MayRetry
<1>2. ActiveJob(i) /\ i = Last /\ run.status \in {"pending", "running"} /\ TypeOK
  BY <1>1, ActiveRun DEF ActiveJob, IInv
<1>3. due \in Nat /\ jobs[i] \in JobType
  BY <1>2, TimeAssumption, RowsTyped DEF RecoveryDue, Last
<1>4. /\ j \in JobType /\ j.status = "queued" /\ j.due = due /\ j.token = 0
      /\ j.dispatched = FALSE /\ j.recoveries <= MaxRecoveries
  <2>1. jobs[i].recoveries \in Nat /\ MaxRecoveries \in Nat
    BY <1>3, TimeAssumption DEF JobType
  <2>2. /\ j \in JobType /\ j.status = "queued" /\ j.due = due /\ j.token = 0
        /\ j.dispatched = FALSE /\ j.recoveries = jobs[i].recoveries + 1
    BY <1>3, RequeuedRow
  <2> HIDE DEF j
  <2> QED BY <1>1, <2>1, <2>2
<1>5. /\ jobs' \in Seq(JobType) /\ Len(jobs') = Last
      /\ \A k \in 1..Last : jobs'[k] = IF k = i THEN j ELSE jobs[k]
  BY <1>1, <1>2, <1>4, JobReplaced, RowsTyped DEF Last
<1>6. /\ Len(jobs') \in Nat \ {0}
      /\ \A k \in 1..Len(jobs') : k # Len(jobs') => Dead(jobs'[k])
      /\ jobs'[Len(jobs')] = j
  BY <1>2, <1>5, Rest
<1>7. SlotsKept /\ edges' \in [Edges -> {"open", "selected", "skipped"}]
      /\ claims' = claims
  BY <1>1, <1>2 DEF TypeOK, SlotsKept
<1> HIDE DEF due, j
<1>8. CASE \E w \in Nodes : Unfinished(w)
  <2>1. PICK w \in Nodes : Unfinished(w)
    BY <1>8
  <2>2. run.status = "running"
    BY <1>2, <2>1, ActiveRun
  <2>3. \A m \in Nodes \ {w} : ~Unfinished(m) /\ AtRest(m, steps[m])
    BY <2>1, Rest DEF IInv, OneUnfinished
  <2>4. steps[w] \in StepType /\ steps[w].number > 0 /\ steps[w].number < MaxAttempts[w]
    BY <1>1, <1>2, <2>1, RowsTyped DEF IInv, NumbersBounded
  <2>5. steps'[w] = RetryingStep(steps[w], due) /\ \A m \in Nodes \ {w} : steps'[m] = steps[m]
    BY <1>1, <2>1, <2>3
  <2>6. /\ steps'[w] \in StepType
        /\ steps'[w].status = "retrying" /\ steps'[w].timer = due
        /\ steps'[w].attempt # "running"
        /\ steps'[w].number > 0 /\ steps'[w].number < MaxAttempts[w]
    <3> DEFINE r == RetryingStep(steps[w], due)
    <3>1. /\ r \in StepType /\ r.status = "retrying" /\ r.number = steps[w].number
          /\ r.timer = due /\ r.attempt # "running"
      BY <1>3, <2>4, RetryingRow
    <3>2. steps'[w] = r
      BY <2>5
    <3> HIDE DEF r
    <3>3. r.number > 0 /\ r.number < MaxAttempts[w]
      BY <2>4, <3>1
    <3> QED BY <3>1, <3>2, <3>3
  <2>7. /\ steps' \in [Nodes -> StepType]
        /\ \A m \in Nodes \ {w} : AtRest(m, steps'[m])
    BY <1>1, <2>3, <2>5, <2>6 DEF AtRest
  <2>8. run' = RunTo("running")
    BY <1>1, <2>2
  <2> QED BY <1>3, <1>4, <1>5, <1>6, <1>7, <2>6, <2>7, <2>8, QueuedShape
<1>9. CASE ~\E w \in Nodes : Unfinished(w)
  <2>1. steps' = steps
    BY <1>1, <1>2, <1>9 DEF TypeOK
  <2>2. run' \in RunType /\ run'.status = run.status
    BY <1>1, <1>2, RunRow, RowsTyped DEF RunStatus
  <2>3. TypeOK'
    BY <1>2, <1>5, <1>7, <2>1, <2>2 DEF TypeOK, SlotsKept
  <2>4. /\ Last' = Last /\ Last \in 1..Last
        /\ \A k \in 1..Last : /\ jobs'[k].token = 0 /\ jobs'[k].status # "running"
                              /\ ~jobs'[k].dispatched
                              /\ jobs'[k].recoveries <= MaxRecoveries
        /\ \A k \in 1..Last : ActiveJob(k)' => k = Last
        /\ ActiveJob(Last)'
    BY <1>2, <1>4, <1>5, <1>6, Rest DEF Last, Dead, ActiveJob
  <2>5. LatestJobOnly' /\ JobMatchesRun'
    BY <1>2, <2>2, <2>4 DEF LatestJobOnly, JobMatchesRun
  <2>6. FreshTokens'
    BY <1>7, <2>4, TokensKept DEF Last
  <2>7. \A n \in Nodes : ~Unfinished(n) /\ ~Unfinished(n)'
    BY <1>9, <2>1 DEF Unfinished
  <2>8. OneUnfinished'
    BY <1>2, <2>1, <2>2, <2>7 DEF IInv, OneUnfinished, Unfinished
  <2>9. Dispatched' /\ MemoryCurrent'
    BY <2>4, <2>7 DEF Dispatched, MemoryCurrent, LiveClaim, Last, Unfinished
  <2>10. NumbersBounded'
    BY <2>1, <2>4 DEF IInv, NumbersBounded, Absent, Unfinished
  <2> QED BY <2>3, <2>5, <2>6, <2>8, <2>9, <2>10 DEF IInv
<1> QED BY <1>8, <1>9

\* An abandoned job without a retry left ends the run.
LEMMA FailExpiredInv ==
  ASSUME IInv, NEW i \in 1..Last, NEW delay \in Backoffs, FailExpired(i, delay)
  PROVE  IInv'
<1>1. /\ jobs[i].status = "running" /\ run' = RunTo("failed")
      /\ steps' = EndSteps("failed")
      /\ jobs' = [EndJobs("cancelled") EXCEPT ![i] = SettledJob("failed")]
      /\ UNCHANGED <<edges, slots, claims>>
  BY DEF FailExpired, LeaseExpired
<1>2. /\ "failed" \in Ending /\ "cancelled" \in Ending
      /\ "failed" \in Ending \cup {"waiting"} /\ TypeOK
  BY DEF Ending, IInv
<1>3. Dead(SettledJob("failed")) /\ SettledJob("failed") \in JobType
  BY <1>2, SettledRow, TimeAssumption DEF Dead, Ending
<1>4. /\ EndJobs("cancelled") \in Seq(JobType) /\ Len(EndJobs("cancelled")) = Last
      /\ \A k \in 1..Last : Dead(EndJobs("cancelled")[k])
  BY <1>2, JobsEnded
<1>5. /\ jobs' \in Seq(JobType) /\ Len(jobs') = Last
      /\ \A k \in 1..Last : jobs'[k] = IF k = i THEN SettledJob("failed")
                                       ELSE EndJobs("cancelled")[k]
  BY <1>1, <1>3, <1>4, JobReplaced
<1>6. \A k \in 1..Len(jobs') : Dead(jobs'[k])
  BY <1>3, <1>4, <1>5
<1>7. SlotsKept /\ edges' \in [Edges -> {"open", "selected", "skipped"}]
      /\ claims' = claims
  BY <1>1, <1>2 DEF TypeOK, SlotsKept
<1>8. steps' \in [Nodes -> StepType] /\ \A n \in Nodes : AtRest(n, steps'[n])
  BY <1>1, <1>2, StepsEnded
<1> QED BY <1>1, <1>2, <1>5, <1>6, <1>7, <1>8, SettledShape

\* The watchdog fails an attempt as its executor would.
LEMMA EnforceAttemptTimeoutInv ==
  ASSUME IInv, NEW i \in 1..Last, NEW delay \in Backoffs,
         EnforceAttemptTimeout(i, delay)
  PROVE  IInv'
<1> DEFINE n == jobs[i].attempt[1]
<1>1. /\ jobs[i].status = "running" /\ n \in Nodes /\ steps[n].attempt = "running"
      /\ FailAttempt(i, n, "attempt_timeout", delay)
      /\ UNCHANGED <<edges, slots, claims>>
  BY DEF EnforceAttemptTimeout
<1>2. steps[n].status = "running"
  BY <1>1 DEF IInv, OneUnfinished
<1>3. SlotsKept /\ delay \in Nat /\ UNCHANGED <<edges, claims>>
  BY <1>1, TimeAssumption DEF IInv, TypeOK, SlotsKept
<1> HIDE DEF n
<1> QED BY <1>1, <1>2, <1>3, FailAttemptInv

\* A run that waits has no active job, and its waiting step is the only one in
\* progress.
LEMMA WaitingFacts ==
  ASSUME IInv, NEW n \in Nodes, steps[n].status = "waiting"
  PROVE  /\ \A k \in 1..Last : Dead(jobs[k])
         /\ \A m \in Nodes \ {n} : AtRest(m, steps[m])
         /\ steps[n] \in StepType /\ steps[n].attempt # "running"
         /\ steps[n].number <= MaxAttempts[n]
<1>1. run.status = "waiting"
  BY DEF IInv, OneUnfinished
<1>2. ~ActiveJob(Last)
  BY <1>1 DEF IInv, JobMatchesRun
<1>3. \A m \in Nodes \ {n} : ~Unfinished(m)
  BY DEF IInv, OneUnfinished, Unfinished
<1>4. steps[n] \in StepType /\ steps[n].attempt # "running"
      /\ steps[n].number <= MaxAttempts[n]
  BY RowsTyped DEF IInv, OneUnfinished, NumbersBounded
<1> QED BY <1>2, <1>3, <1>4, Rest

\* A delay that is over queues the next checkpoint.
LEMMA WakeDueInv == ASSUME IInv, NEW n \in Nodes, WakeDue(n) PROVE IInv'
<1>1. /\ steps[n].status = "waiting" /\ run' = RunTo("running")
      /\ steps' = [steps EXCEPT ![n] = StepTo(n, "completed")]
      /\ edges' = [e \in Edges |-> IF e.from = n THEN "selected" ELSE edges[e]]
      /\ jobs' = Append(jobs, QueuedJob(0)) /\ UNCHANGED <<slots, claims>>
  BY DEF WakeDue
<1>2. /\ \A k \in 1..Last : Dead(jobs[k])
      /\ \A m \in Nodes \ {n} : AtRest(m, steps[m])
      /\ steps[n] \in StepType /\ steps[n].attempt # "running"
      /\ steps[n].number <= MaxAttempts[n]
  BY <1>1, WaitingFacts
<1>3. "completed" \in StepStatus /\ "completed" \in AttemptStatus /\ TypeOK
  BY DEF StepStatus, AttemptStatus, Terminal, IInv
<1>4. AtRest(n, StepTo(n, "completed"))
  BY <1>2, <1>3, MovedRow DEF StepTo, AtRest
<1>5. steps' \in [Nodes -> StepType] /\ \A m \in Nodes : AtRest(m, steps'[m])
  BY <1>1, <1>2, <1>3, <1>4 DEF AtRest, TypeOK
<1>6. /\ jobs' \in Seq(JobType) /\ Len(jobs') \in Nat \ {0}
      /\ \A k \in 1..Len(jobs') : k # Len(jobs') => Dead(jobs'[k])
      /\ jobs'[Len(jobs')].status = "queued" /\ jobs'[Len(jobs')].due = 0
      /\ jobs'[Len(jobs')].token = 0 /\ jobs'[Len(jobs')].dispatched = FALSE
      /\ jobs'[Len(jobs')].recoveries <= MaxRecoveries
  BY <1>1, <1>2, <1>3, JobQueued, RowsTyped DEF Last
<1>7. SlotsKept /\ edges' \in [Edges -> {"open", "selected", "skipped"}]
      /\ claims' = claims
  BY <1>1, <1>3 DEF TypeOK, SlotsKept
<1> QED BY <1>1, <1>5, <1>6, <1>7, QueuedShape

\* The clock moves timestamps and nothing else; a timer that a job's due time
\* covers stays covered.
LEMMA TickInv == ASSUME IInv, Tick PROVE IInv'
<1>0. /\ TypeOK /\ LatestJobOnly /\ FreshTokens /\ JobMatchesRun /\ OneUnfinished
      /\ Dispatched /\ MemoryCurrent /\ NumbersBounded
  BY DEF IInv
<1>1. /\ run' = [run EXCEPT !.left = Elapse(run.left)]
      /\ steps' = [n \in Nodes |-> [steps[n] EXCEPT !.limit = Elapse(steps[n].limit),
                                                    !.timer = Elapse(steps[n].timer)]]
      /\ jobs' = [i \in 1..Last |-> [jobs[i] EXCEPT !.due = Elapse(jobs[i].due),
                                                   !.lease = Elapse(jobs[i].lease)]]
      /\ UNCHANGED <<edges, slots, claims>>
  BY DEF Tick, Last
<1>2. run' \in RunType /\ run'.status = run.status /\ run'.rev = run.rev
  <2>1. run \in RunType /\ run.left \in Nat \cup {NoTime}
    BY <1>0, RowsTyped DEF RunType
  <2>2. Elapse(run.left) \in Nat \cup {NoTime}
    BY <2>1, TimeTypes
  <2> QED BY <1>1, <2>1, <2>2 DEF RunType
<1>3. \A n \in Nodes :
        /\ steps'[n] \in StepType /\ steps'[n].status = steps[n].status
        /\ steps'[n].number = steps[n].number /\ steps'[n].attempt = steps[n].attempt
        /\ steps'[n].timer = Elapse(steps[n].timer)
  <2> SUFFICES ASSUME NEW n \in Nodes
               PROVE  /\ steps'[n] \in StepType /\ steps'[n].status = steps[n].status
                      /\ steps'[n].number = steps[n].number
                      /\ steps'[n].attempt = steps[n].attempt
                      /\ steps'[n].timer = Elapse(steps[n].timer)
    OBVIOUS
  <2>1. /\ steps[n] \in StepType /\ steps[n].limit \in Nat \cup {NoTime}
        /\ steps[n].timer \in Nat \cup {NoTime}
    BY <1>0, RowsTyped DEF StepType
  <2>2. /\ Elapse(steps[n].limit) \in Nat \cup {NoTime}
        /\ Elapse(steps[n].timer) \in Nat \cup {NoTime}
    BY <2>1, TimeTypes
  <2>3. steps'[n] = [steps[n] EXCEPT !.limit = Elapse(steps[n].limit),
                                     !.timer = Elapse(steps[n].timer)]
    BY <1>1
  <2> QED BY <2>1, <2>2, <2>3 DEF StepType
<1>4. \A k \in 1..Last :
        /\ jobs'[k] \in JobType /\ jobs'[k].status = jobs[k].status
        /\ jobs'[k].token = jobs[k].token /\ jobs'[k].dispatched = jobs[k].dispatched
        /\ jobs'[k].attempt = jobs[k].attempt
        /\ jobs'[k].recoveries = jobs[k].recoveries
        /\ jobs'[k].due = Elapse(jobs[k].due) /\ jobs'[k].lease = Elapse(jobs[k].lease)
  <2> SUFFICES ASSUME NEW k \in 1..Last
               PROVE  /\ jobs'[k] \in JobType /\ jobs'[k].status = jobs[k].status
                      /\ jobs'[k].token = jobs[k].token
                      /\ jobs'[k].dispatched = jobs[k].dispatched
                      /\ jobs'[k].attempt = jobs[k].attempt
                      /\ jobs'[k].recoveries = jobs[k].recoveries
                      /\ jobs'[k].due = Elapse(jobs[k].due)
                      /\ jobs'[k].lease = Elapse(jobs[k].lease)
    OBVIOUS
  <2>1. jobs[k] \in JobType /\ jobs[k].due \in Nat /\ jobs[k].lease \in Nat
    BY <1>0, RowsTyped DEF JobType, Last
  <2>2. Elapse(jobs[k].due) \in Nat /\ Elapse(jobs[k].lease) \in Nat
    BY <2>1, TimeTypes
  <2>3. jobs'[k] = [jobs[k] EXCEPT !.due = Elapse(jobs[k].due),
                                   !.lease = Elapse(jobs[k].lease)]
    BY <1>1
  <2> QED BY <2>1, <2>2, <2>3 DEF JobType
<1>5. Last \in 1..Last
  BY Rest
<1>6. jobs' \in Seq(JobType) /\ Len(jobs') = Last /\ Last' = Last
  <2>1. jobs' \in [1..Last -> JobType]
    BY <1>1, <1>4
  <2> QED BY <2>1, JobsMapped, Rest DEF Last
<1>7. TypeOK'
  <2>1. steps' \in [Nodes -> StepType]
    BY <1>1, <1>3
  <2> QED BY <1>0, <1>1, <1>2, <1>6, <2>1 DEF TypeOK
<1>8. LatestJobOnly' /\ JobMatchesRun'
  <2>1. \A k \in 1..Last : ActiveJob(k)' <=> ActiveJob(k)
    BY <1>4 DEF ActiveJob
  <2> QED BY <1>0, <1>2, <1>5, <1>6, <2>1 DEF LatestJobOnly, JobMatchesRun
<1>9. FreshTokens'
  <2>1. FreshTokens /\ slots' = slots /\ claims' = claims
    BY <1>0, <1>1
  <2>2. \A k \in 1..Last : jobs'[k].token = jobs[k].token /\ jobs'[k].status = jobs[k].status
    BY <1>4
  <2>3. Last' = Last
    BY <1>6
  <2> QED BY <2>1, <2>2, <2>3 DEF FreshTokens
<1>10. OneUnfinished'
  <2>1. jobs[Last].due \in Nat /\ \A n \in Nodes : steps[n].timer \in Nat \cup {NoTime}
    BY <1>0, <1>5, RowsTyped DEF JobType, StepType, Last
  <2>2. \A n \in Nodes : /\ steps[n].timer <= jobs[Last].due =>
                              Elapse(steps[n].timer) <= Elapse(jobs[Last].due)
                         /\ steps[n].timer <= 0 => Elapse(steps[n].timer) <= 0
                         /\ steps[n].timer # NoTime => Elapse(steps[n].timer) # NoTime
    BY <2>1 DEF Elapse, NoTime
  <2>3. jobs'[Last'].status = jobs[Last].status /\ jobs'[Last'].due = Elapse(jobs[Last].due)
    BY <1>4, <1>5, <1>6
  <2> QED BY <1>0, <1>2, <1>3, <2>2, <2>3 DEF OneUnfinished, Unfinished
<1>11. Dispatched'
  <2>1. /\ jobs'[Last'].status = jobs[Last].status
        /\ jobs'[Last'].dispatched = jobs[Last].dispatched
        /\ jobs'[Last'].attempt = jobs[Last].attempt
    BY <1>4, <1>5, <1>6
  <2>2. ASSUME NEW k \in 1..Last', jobs'[k].dispatched
        PROVE  /\ jobs'[k].status = "running"
               /\ \E n \in Nodes : /\ steps'[n].status = "running"
                                   /\ jobs'[k].attempt = <<n, steps'[n].number>>
    <3>1. k \in 1..Last /\ jobs[k].dispatched
      BY <1>4, <1>6, <2>2
    <3>2. jobs[k].status = "running"
      BY <1>0, <3>1 DEF Dispatched
    <3>3. PICK n \in Nodes : steps[n].status = "running"
                            /\ jobs[k].attempt = <<n, steps[n].number>>
      BY <1>0, <3>1 DEF Dispatched
    <3>4. jobs'[k].status = jobs[k].status /\ jobs'[k].attempt = jobs[k].attempt
      BY <1>4, <3>1
    <3>5. steps'[n].status = steps[n].status /\ steps'[n].number = steps[n].number
      BY <1>3
    <3> QED BY <3>2, <3>3, <3>4, <3>5
  <2> QED BY <1>0, <1>3, <2>1, <2>2 DEF Dispatched
<1>12. MemoryCurrent'
  <2>1. \A k \in 1..Last : jobs'[k].lease > 0 => jobs[k].lease > 0
    <3>1. \A k \in 1..Last : jobs[k].lease \in Nat
      BY <1>0, RowsTyped DEF JobType, Last
    <3> QED BY <1>4, <3>1 DEF Elapse
  <2> SUFFICES ASSUME NEW s \in Slots, LiveClaim(s)'
               PROVE  /\ slots'[s].phase = "claimed" => ~jobs'[slots'[s].job].dispatched
                      /\ slots'[s].phase = "executing" =>
                           /\ jobs'[slots'[s].job].dispatched
                           /\ jobs'[slots'[s].job].attempt = slots'[s].attempt
                           /\ run'.rev = slots'[s].rev
    BY DEF MemoryCurrent
  <2>2. slots'[s] = slots[s]
    BY <1>1
  <2> DEFINE k == slots[s].job
  <2>3. /\ k \in 1..Last /\ jobs'[k].status = "running"
        /\ jobs'[k].token = slots[s].token /\ jobs'[k].lease > 0
    BY <1>6, <2>2 DEF LiveClaim, Last
  <2>4. /\ jobs[k].status = "running" /\ jobs[k].token = slots[s].token
        /\ jobs[k].lease > 0
    BY <1>4, <2>1, <2>3
  <2>5. LiveClaim(s)
    BY <2>3, <2>4 DEF LiveClaim, Last
  <2>6. /\ slots[s].phase = "claimed" => ~jobs[k].dispatched
        /\ slots[s].phase = "executing" =>
             /\ jobs[k].dispatched /\ jobs[k].attempt = slots[s].attempt
             /\ run.rev = slots[s].rev
    BY <1>0, <2>5 DEF MemoryCurrent
  <2> QED BY <1>2, <1>4, <2>2, <2>3, <2>6
<1>13. NumbersBounded'
  BY <1>0, <1>3, <1>4, <1>6 DEF NumbersBounded, Absent, Unfinished
<1> QED BY <1>7, <1>8, <1>9, <1>10, <1>11, <1>12, <1>13 DEF IInv

-----------------------------------------------------------------------------
(* The theorems. *)

\* Every step of the engine preserves the invariant.
LEMMA NextInv == IInv /\ [Next]_vars => IInv'
<1> SUFFICES ASSUME IInv, [Next]_vars PROVE IInv'
  OBVIOUS
<1>1. CASE UNCHANGED vars
  <2>1. TypeOK' /\ LatestJobOnly' /\ FreshTokens' /\ JobMatchesRun'
    BY <1>1 DEF vars, IInv, TypeOK, LatestJobOnly, FreshTokens, JobMatchesRun, Last, ActiveJob
  <2>2. OneUnfinished' /\ NumbersBounded'
    BY <1>1 DEF vars, IInv, OneUnfinished, NumbersBounded, Last, Unfinished, Absent
  <2>3. Dispatched' /\ MemoryCurrent'
    BY <1>1 DEF vars, IInv, Dispatched, MemoryCurrent, LiveClaim, Last
  <2> QED BY <2>1, <2>2, <2>3 DEF IInv
<1>2. ASSUME NEW s \in Slots,
             Claim(s) \/ Renew(s) \/ Dispatch(s) \/ Return(s) \/ Interrupt(s)
      PROVE  IInv'
  <2>1. CASE Claim(s)
    BY <2>1, ClaimInv
  <2>2. CASE Renew(s)
    BY <2>2, RenewInv
  <2>3. CASE Dispatch(s)
    <3>1. CASE SkipDispatch(s)
      BY <3>1, SkipDispatchInv
    <3>2. CASE DispatchExpired(s)
      BY <3>2, DispatchExpiredInv
    <3>3. CASE \E outcome \in {"completed", "failed"} : DispatchFinish(s, outcome)
      BY <3>3, DispatchFinishInv
    <3>4. ASSUME NEW n \in Nodes,
                 DispatchReject(s, n) \/ DispatchDelay(s, n) \/ DispatchAttempt(s, n)
          PROVE  IInv'
      BY <3>4, DispatchRejectInv, DispatchDelayInv, DispatchAttemptInv
    <3> QED BY <2>3, <3>1, <3>2, <3>3, <3>4 DEF Dispatch
  <2>4. CASE Return(s)
    <3>1. CASE \E route \in Routes : CommitSuccess(s, route)
      BY <3>1, CommitSuccessInv
    <3>2. CASE \E code \in ErrorCodes, delay \in Backoffs : CommitFailure(s, code, delay)
      BY <3>2, CommitFailureInv
    <3>3. CASE DiscardResult(s)
      BY <3>3, ForgetInv DEF DiscardResult
    <3> QED BY <2>4, <3>1, <3>2, <3>3 DEF Return
  <2>5. CASE Interrupt(s)
    BY <2>5, ForgetInv DEF Interrupt
  <2> QED BY <1>2, <2>1, <2>2, <2>3, <2>4, <2>5
<1>3. CASE RecoverExpired
  BY <1>3, RequeueExpiredInv, FailExpiredInv DEF RecoverExpired, Last
<1>4. CASE EnforceDeadlines
  <2>1. CASE EnforceRunDeadline
    BY <2>1, EndedRun DEF EnforceRunDeadline, Ending
  <2>2. ASSUME NEW i \in 1..Len(jobs), NEW delay \in Backoffs,
               EnforceAttemptTimeout(i, delay)
        PROVE  IInv'
    BY <2>2, EnforceAttemptTimeoutInv DEF Last
  <2> QED BY <1>4, <2>1, <2>2 DEF EnforceDeadlines
<1>5. CASE WakeDelays
  <2>1. CASE ExpireWaiting
    BY <2>1, EndedRun DEF ExpireWaiting, Ending
  <2> QED BY <1>5, <2>1, WakeDueInv DEF WakeDelays
<1>6. CASE Cancel
  BY <1>6, EndedRun DEF Cancel, Ending
<1>7. CASE Tick
  BY <1>7, TickInv
<1> QED BY <1>1, <1>2, <1>3, <1>4, <1>5, <1>6, <1>7 DEF Next

\* The invariant holds in every reachable state: for every graph, retry policy,
\* deadline and number of slots, the queue, the leases, the run's history and
\* what the executors remember stay consistent.
THEOREM Invariance == Spec => []IInv
<1>1. Init => IInv
  BY InitInv
<1>2. IInv /\ [Next]_vars => IInv'
  BY NextInv
<1> QED BY <1>1, <1>2, PTL DEF Spec

\* Type correctness of every row and of every slot's memory.
THEOREM TypeCorrect == Spec => []TypeOK
<1>1. IInv => TypeOK
  BY DEF IInv
<1> QED BY <1>1, Invariance, PTL

\* A run that has not ended always has an active job or a stored timer.
THEOREM NoRunIsOrphaned == Spec => []NoOrphanRun
<1>1. ASSUME IInv PROVE NoOrphanRun
  <2> SUFFICES ASSUME run.status \notin Terminal
               PROVE  \/ \E i \in 1..Len(jobs) : ActiveJob(i)
                      \/ /\ run.status = "waiting"
                         /\ \E n \in Nodes : /\ steps[n].status = "waiting"
                                             /\ steps[n].timer # NoTime
    BY DEF NoOrphanRun
  <2>1. run.status \in {"pending", "running", "waiting"}
    BY <1>1, RowsTyped DEF IInv, RunType, Terminal
  <2>2. CASE run.status \in {"pending", "running"}
    BY <1>1, <2>2, Rest DEF IInv, JobMatchesRun, Last
  <2>3. CASE run.status = "waiting"
    BY <1>1, <2>3 DEF IInv, OneUnfinished
  <2> QED BY <2>1, <2>2, <2>3
<1> QED BY <1>1, Invariance, PTL

\* No crash, retry, watchdog or wake ever schedules a second active job.
THEOREM OneActiveJob == Spec => []SingleActiveJob
<1>1. ASSUME IInv PROVE SingleActiveJob
  <2>1. \A i, k \in 1..Len(jobs) : ActiveJob(i) /\ ActiveJob(k) => i = k
    BY <1>1, Rest DEF Last
  <2>2. ASSUME run.status = "waiting", NEW i \in 1..Len(jobs) PROVE ~ActiveJob(i)
    BY <1>1, <2>2, Rest DEF IInv, JobMatchesRun, Last
  <2> QED BY <2>1, <2>2 DEF SingleActiveJob
<1> QED BY <1>1, Invariance, PTL

\* Whatever ends a run leaves no job, step or attempt of it active.
THEOREM EndIsSettled == Spec => []TerminalSettled
<1>1. ASSUME IInv PROVE TerminalSettled
  <2> SUFFICES ASSUME run.status \in Terminal
               PROVE  /\ \A i \in 1..Len(jobs) : ~ActiveJob(i)
                      /\ \A n \in Nodes : ~Unfinished(n) /\ steps[n].attempt # "running"
    BY DEF TerminalSettled
  <2>1. ~ActiveJob(Last)
    BY <1>1 DEF IInv, JobMatchesRun, Terminal
  <2>2. \A i \in 1..Len(jobs) : ~ActiveJob(i)
    BY <1>1, <2>1, Rest DEF Last
  <2>3. \A n \in Nodes : ~Unfinished(n)
    BY <1>1 DEF IInv, OneUnfinished, Terminal
  <2>4. \A n \in Nodes : steps[n].attempt # "running"
    BY <1>1, <2>3, Rest DEF AtRest
  <2> QED BY <2>2, <2>3, <2>4
<1> QED BY <1>1, Invariance, PTL

\* A running attempt and the job that dispatched it never lose each other.
THEOREM AttemptsAreOwned == Spec => []AttemptOwned
<1>1. ASSUME IInv PROVE AttemptOwned
  <2>1. ASSUME NEW n \in Nodes, steps[n].attempt = "running"
        PROVE  \E i \in 1..Len(jobs) :
                 /\ jobs[i].status = "running" /\ jobs[i].dispatched
                 /\ jobs[i].attempt = <<n, steps[n].number>>
    <3>1. steps[n].status = "running"
      BY <1>1, <2>1 DEF IInv, OneUnfinished
    <3>2. /\ jobs[Last].status = "running" /\ jobs[Last].dispatched
          /\ jobs[Last].attempt = <<n, steps[n].number>>
      BY <1>1, <3>1 DEF IInv, Dispatched
    <3> QED BY <1>1, <3>2, Rest DEF Last
  <2>2. ASSUME NEW i \in 1..Len(jobs), jobs[i].dispatched
        PROVE  \E n \in Nodes : /\ jobs[i].attempt = <<n, steps[n].number>>
                                /\ steps[n].status = "running"
                                /\ steps[n].attempt = "running"
    <3>1. PICK n \in Nodes : steps[n].status = "running"
                            /\ jobs[i].attempt = <<n, steps[n].number>>
      BY <1>1, <2>2 DEF IInv, Dispatched, Last
    <3>2. steps[n].attempt = "running"
      BY <1>1, <3>1 DEF IInv, OneUnfinished
    <3> QED BY <3>1, <3>2
  <2> QED BY <2>1, <2>2 DEF AttemptOwned
<1> QED BY <1>1, Invariance, PTL

\* The lease fence and the revision fence agree, and one slot at most owns a job.
THEOREM OwnersCanCommit == Spec => []OwnerCanCommit
<1>1. ASSUME IInv PROVE OwnerCanCommit
  <2>1. ASSUME NEW s \in Slots, slots[s].phase = "executing", LiveClaim(s)
        PROVE  CanCommit(s)
    <3> DEFINE i == slots[s].job
    <3>1. /\ i \in 1..Last /\ jobs[i].status = "running"
          /\ run.status \in {"pending", "running"}
      BY <1>1, <2>1, LiveJob
    <3>2. /\ jobs[i].dispatched /\ jobs[i].attempt = slots[s].attempt
          /\ run.rev = slots[s].rev
      BY <1>1, <2>1 DEF IInv, MemoryCurrent
    <3>3. PICK n \in Nodes : steps[n].status = "running"
                            /\ jobs[i].attempt = <<n, steps[n].number>>
      BY <1>1, <3>1, <3>2 DEF IInv, Dispatched
    <3>4. steps[n].attempt = "running"
      BY <1>1, <3>3 DEF IInv, OneUnfinished
    <3>5. slots[s].attempt[1] = n /\ slots[s].attempt[2] = steps[n].number
      BY <3>2, <3>3
    <3> QED BY <2>1, <3>1, <3>2, <3>3, <3>4, <3>5 DEF CanCommit, Terminal
  <2>2. ASSUME NEW s \in Slots, NEW t \in Slots, LiveClaim(s), LiveClaim(t)
        PROVE  s = t
    <3>1. slots[s].job = Last /\ slots[t].job = Last /\ jobs[Last].status = "running"
          /\ Last \in 1..Last
      BY <1>1, <2>2, LiveJob, Rest
    <3>2. slots[s].token = jobs[Last].token /\ slots[t].token = jobs[Last].token
      BY <2>2, <3>1 DEF LiveClaim
    <3>3. jobs[Last].token > 0
      BY <1>1, <3>1 DEF IInv, FreshTokens
    <3>4. slots[s].phase # "idle" /\ slots[t].phase # "idle"
      BY <1>1, <3>2, <3>3 DEF IInv, FreshTokens
    <3> QED BY <1>1, <3>2, <3>4 DEF IInv, FreshTokens
  <2> QED BY <2>1, <2>2 DEF OwnerCanCommit
<1> QED BY <1>1, Invariance, PTL

\* A worker that holds a live claim finds something to prepare.
THEOREM ClaimsAreReady == Spec => []ClaimIsReady
<1>1. ASSUME IInv PROVE ClaimIsReady
  <2> SUFFICES ASSUME NEW s \in Slots, slots[s].phase = "claimed", LiveClaim(s)
               PROVE  CanDispatch(s)
    BY DEF ClaimIsReady
  <2>1. ~jobs[slots[s].job].dispatched
    BY <1>1 DEF IInv, MemoryCurrent
  <2> QED BY <1>1, <2>1, DispatchNotInVain
<1> QED BY <1>1, Invariance, PTL

\* Attempts and recoveries stay within their budgets.
THEOREM BudgetsAreKept == Spec => []BudgetsHold
<1>1. IInv => BudgetsHold
  BY DEF IInv, NumbersBounded, BudgetsHold, Last
<1> QED BY <1>1, Invariance, PTL

\* What a slot does after it has lost its claim never reaches the database.
THEOREM LateResultsAreDiscarded == Spec => LateResultsDiscarded
<1> DEFINE Late(s) == slots[s].phase # "idle" /\ slots'[s].phase = "idle" /\ ~LiveClaim(s)
<1>1. ASSUME IInv, [Next]_vars
      PROVE  [\A s \in Slots : Late(s) => UNCHANGED durable]_vars
  <2> SUFFICES ASSUME Next, NEW s \in Slots, Late(s) PROVE UNCHANGED durable
    BY <1>1
  <2>1. slots' # slots /\ slots \in [Slots -> SlotType]
    BY <1>1 DEF IInv, TypeOK
  <2>2. PICK t \in Slots :
          Claim(t) \/ Renew(t) \/ Dispatch(t) \/ Return(t) \/ Interrupt(t)
    BY <2>1 DEF Next, RecoverExpired, RequeueExpired, FailExpired, EnforceDeadlines,
       EnforceRunDeadline, EnforceAttemptTimeout, WakeDelays, ExpireWaiting, WakeDue,
       Cancel, Tick
  <2>3. t = s
    <3>1. \E c : slots' = [slots EXCEPT ![t] = c]
      <4>1. CASE Claim(t) \/ Interrupt(t)
        BY <4>1 DEF Claim, Interrupt, Release
      <4>2. CASE Renew(t)
        BY <2>1, <4>2 DEF Renew
      <4>3. CASE Dispatch(t)
        BY <4>3 DEF Dispatch, SkipDispatch, DispatchExpired, DispatchFinish,
           DispatchReject, DispatchDelay, DispatchAttempt, Release
      <4>4. CASE Return(t)
        BY <4>4 DEF Return, CommitSuccess, CommitFailure, DiscardResult, Release
      <4> QED BY <2>2, <4>1, <4>2, <4>3, <4>4
    <3> QED BY <2>1, <3>1
  <2>4. CASE Claim(s)
    BY <2>4 DEF Claim
  <2>5. CASE Renew(s)
    BY <2>5 DEF Renew
  <2>6. CASE Dispatch(s)
    <3>1. ~CanDispatch(s)
      BY DEF CanDispatch
    <3>2. SkipDispatch(s)
      BY <2>6, <3>1 DEF Dispatch, DispatchExpired, DispatchFinish, DispatchReject,
         DispatchDelay, DispatchAttempt
    <3> QED BY <3>2 DEF SkipDispatch, durable
  <2>7. CASE Return(s)
    <3>1. ~CanCommit(s)
      BY DEF CanCommit
    <3>2. DiscardResult(s)
      BY <2>7, <3>1 DEF Return, CommitSuccess, CommitFailure
    <3> QED BY <3>2 DEF DiscardResult
  <2>8. CASE Interrupt(s)
    BY <2>8 DEF Interrupt
  <2> QED BY <2>2, <2>3, <2>4, <2>5, <2>6, <2>7, <2>8
<1>2. Spec => [][\A s \in Slots : Late(s) => UNCHANGED durable]_vars
  BY <1>1, Invariance, PTL DEF Spec
<1> QED BY <1>2 DEF LateResultsDiscarded

-----------------------------------------------------------------------------
(* What the steps do to the run, its steps and its routes.  Every step of    *)
(* Next has one of the shapes below, whoever takes it; what concerns the     *)
(* rows only is proved on the shapes.                                        *)

Going == run.status \notin Terminal

\* The rows stay as they are.
Paused == run' = run /\ steps' = steps /\ edges' = edges

\* The run ends, unsuccessfully, with what is unfinished of it.
Ends(st) ==
  /\ Going
  /\ run' = RunTo(st) /\ steps' = EndSteps(st) /\ edges' = edges

\* What is unfinished backs off.
Retries(delay) ==
  /\ run.status \in {"pending", "running"} /\ ~Passed(run.left)
  /\ run' = RunTo(run.status) /\ edges' = edges
  /\ steps' = [n \in Nodes |-> IF Unfinished(n) THEN RetryingStep(steps[n], delay)
                               ELSE steps[n]]

\* Node n completes in time, and its routes are recorded.
Completes(n) ==
  /\ run.status \in {"running", "waiting"} /\ steps[n].status \in {"running", "waiting"}
  /\ ~Passed(run.left) /\ ~Passed(steps[n].limit)
  /\ run' = RunTo("running")
  /\ steps' = [steps EXCEPT ![n] = StepTo(n, "completed")]
  /\ \A e \in Edges : IF e.from = n THEN edges'[e] \in {"selected", "skipped"}
                                    ELSE edges'[e] = edges[e]

\* Node n is tried in time, with nothing else in progress.
Opens(n, status, row) ==
  /\ run.status \in {"pending", "running"} /\ ~Passed(run.left)
  /\ \A m \in Nodes \ {n} : ~Unfinished(m)
  /\ n \in NextNodes /\ steps[n].number < MaxAttempts[n]
  /\ n \in Retrying => steps[n].timer \in {0, NoTime}
  /\ row.status = status /\ row.number = steps[n].number + 1
  /\ status = "waiting" => row.limit = NoTime
  /\ run' = RunTo(status)
  /\ steps' = [SkipSteps(SkippedBefore(n)) EXCEPT ![n] = row]
  /\ edges' = SkipEdges(SkippedBefore(n))

\* The run finishes in time, with nothing in progress.
Finishes(outcome) ==
  /\ run.status \in {"pending", "running"} /\ ~Passed(run.left)
  /\ \A n \in Nodes : ~Unfinished(n)
  /\ outcome = "completed" => \A n \in Nodes : Absent(n) => n \in Unreached
  /\ run' = RunTo(outcome)
  /\ steps' = SkipSteps(Unreached) /\ edges' = SkipEdges(Unreached)

Shape ==
  \/ Paused \/ Tick
  \/ \E st \in {"failed", "cancelled"} : Ends(st)
  \/ \E delay \in Nat : Retries(delay)
  \/ \E n \in Nodes : Completes(n)
  \/ \E n \in Nodes, status \in {"running", "waiting", "failed"}, row \in StepType :
       Opens(n, status, row)
  \/ \E outcome \in {"completed", "failed"} : Finishes(outcome)

\* An attempt that fails backs off or ends the run.
LEMMA FailAttemptShape ==
  ASSUME IInv, NEW i \in 1..Last, NEW n \in Nodes, steps[n].status = "running",
         run.status = "running",
         NEW code, NEW delay \in Nat, FailAttempt(i, n, code, delay), edges' = edges
  PROVE  Shape
<1>1. /\ steps \in [Nodes -> StepType] /\ run \in RunType
      /\ \A m \in Nodes : Unfinished(m) <=> m = n
  BY DEF IInv, TypeOK, OneUnfinished, Unfinished
<1>2. CASE MayRetry(n, steps[n].number, code, delay)
  <2>1. run' = RunTo(run.status)
        /\ steps' = [steps EXCEPT ![n] = RetryingStep(steps[n], delay)]
    BY <1>2 DEF FailAttempt
  <2>2. ~Passed(run.left)
    BY <1>1, <1>2 DEF MayRetry, Passed, RunType, NoTime
  <2>3. steps' = [m \in Nodes |-> IF Unfinished(m) THEN RetryingStep(steps[m], delay)
                                  ELSE steps[m]]
    BY <1>1, <2>1
  <2>4. Retries(delay)
    BY <2>1, <2>2, <2>3 DEF Retries
  <2> QED BY <2>4 DEF Shape
<1>3. CASE ~MayRetry(n, steps[n].number, code, delay)
  <2>1. run' = RunTo("failed")
        /\ steps' = [steps EXCEPT ![n] = StepTo(n, "failed")]
    BY <1>3 DEF FailAttempt
  <2>2. steps' = EndSteps("failed")
    BY <1>1, <2>1 DEF EndSteps
  <2>3. Ends("failed")
    BY <2>1, <2>2 DEF Ends, Going, Terminal
  <2> QED BY <2>3 DEF Shape
<1> QED BY <1>2, <1>3

\* What a dispatch does to the rows.
LEMMA OpenedShape ==
  ASSUME IInv, NEW s \in Slots, CanDispatch(s), ~Passed(run.left), NEW n \in Nodes,
         NEW status \in {"running", "waiting", "failed"}, NEW attempt \in AttemptStatus,
         NEW limit \in Nat \cup {NoTime}, NEW timer \in Nat \cup {NoTime},
         status = "waiting" => limit = NoTime,
         OpenAttempt(n, status, attempt, limit, timer), run' = RunTo(status)
  PROVE  Shape
<1> DEFINE row == [status |-> status, number |-> steps[n].number + 1,
                   attempt |-> attempt, limit |-> limit, timer |-> timer]
<1>1. /\ n \in NextNodes /\ steps[n].number < MaxAttempts[n]
      /\ steps' = [SkipSteps(SkippedBefore(n)) EXCEPT ![n] = row]
      /\ edges' = SkipEdges(SkippedBefore(n))
  BY DEF OpenAttempt
<1>2. steps[n].number \in Nat /\ steps[n].timer \in Nat \cup {NoTime}
  BY RowsTyped DEF IInv, StepType
<1>3. /\ row \in StepType /\ row.status = status /\ row.limit = limit
      /\ row.number = steps[n].number + 1
  BY <1>2 DEF StepType, AttemptStatus, Terminal
<1> HIDE DEF row
<1>4. \A m \in Nodes \ {n} : ~Unfinished(m)
  <2>1. CASE Retrying # {}
    BY <1>1, <2>1, BeforeDispatch DEF NextNodes, IInv, OneUnfinished, Retrying, Unfinished
  <2>2. CASE Retrying = {}
    BY <2>2, BeforeDispatch
  <2> QED BY <2>1, <2>2
<1>5. run.status \in {"pending", "running"}
  BY LiveJob DEF CanDispatch
<1>6. n \in Retrying => steps[n].timer \in {0, NoTime}
  <2>1. ~NotReady
    BY DEF CanDispatch
  <2> QED BY <1>2, <2>1 DEF NotReady, NoTime
<1>7. Opens(n, status, row)
  BY <1>1, <1>3, <1>4, <1>5, <1>6 DEF Opens
<1> QED BY <1>3, <1>7 DEF Shape

\* What a claimed slot does with the job: skip it, end the run or open an attempt.
LEMMA DispatchShape ==
  ASSUME IInv, NEW s \in Slots, Dispatch(s)
  PROVE  Shape
<1>1. CASE SkipDispatch(s)
  <2>1. ~CanDispatch(s) /\ UNCHANGED <<steps, edges>>
    BY <1>1 DEF SkipDispatch
  <2>2. run' = run
    BY <1>1, DispatchNotInVain DEF SkipDispatch
  <2> QED BY <2>1, <2>2 DEF Shape, Paused
<1>2. CASE DispatchExpired(s)
  <2>1. run.status \in {"pending", "running"}
    BY <1>2, LiveJob DEF DispatchExpired, CanDispatch
  <2>2. Ends("failed")
    BY <1>2, <2>1 DEF DispatchExpired, Ends, Going, Terminal
  <2> QED BY <2>2 DEF Shape
<1>3. ASSUME NEW outcome \in {"completed", "failed"}, DispatchFinish(s, outcome)
      PROVE  Shape
  <2>1. run.status \in {"pending", "running"}
    BY <1>3, LiveJob DEF DispatchFinish, CanDispatch
  <2>2. Retrying = {}
    BY <1>3 DEF DispatchFinish, NextNodes
  <2>3. \A n \in Nodes : ~Unfinished(n)
    BY <1>3, <2>2, BeforeDispatch DEF DispatchFinish
  <2>4. Finishes(outcome)
    BY <1>3, <2>1, <2>3 DEF DispatchFinish, Finishes
  <2> QED BY <2>4 DEF Shape
<1>4. ASSUME NEW n \in Nodes, DispatchReject(s, n) PROVE Shape
  <2>1. /\ CanDispatch(s) /\ ~Passed(run.left) /\ run' = RunTo("failed")
        /\ OpenAttempt(n, "failed", "failed", NoTime, NoTime)
    BY <1>4 DEF DispatchReject
  <2>2. "failed" \in AttemptStatus
    BY DEF AttemptStatus
  <2> QED BY <2>1, <2>2, OpenedShape
<1>5. ASSUME NEW n \in Nodes, DispatchDelay(s, n) PROVE Shape
  <2>1. /\ CanDispatch(s) /\ ~Passed(run.left) /\ run' = RunTo("waiting")
        /\ OpenAttempt(n, "waiting", "completed", NoTime, DelayTime[n])
    BY <1>5 DEF DispatchDelay
  <2>2. "completed" \in AttemptStatus /\ DelayTime[n] \in Nat
    BY TimeAssumption DEF AttemptStatus
  <2> QED BY <2>1, <2>2, OpenedShape
<1>6. ASSUME NEW n \in Nodes, DispatchAttempt(s, n) PROVE Shape
  <2>1. /\ CanDispatch(s) /\ ~Passed(run.left) /\ run' = RunTo("running")
        /\ OpenAttempt(n, "running", "running", Earlier(Timeout[n], run.left), NoTime)
    BY <1>6 DEF DispatchAttempt
  <2>2. "running" \in AttemptStatus /\ Earlier(Timeout[n], run.left) \in Nat
    BY TimeAssumption, TimeTypes, RowsTyped DEF AttemptStatus, IInv, RunType
  <2> QED BY <2>1, <2>2, OpenedShape
<1> QED BY <1>1, <1>2, <1>3, <1>4, <1>5, <1>6 DEF Dispatch

\* A result that is committed completes its node, backs off or ends the run.
LEMMA ReturnShape ==
  ASSUME IInv, NEW s \in Slots, Return(s)
  PROVE  Shape
<1>1. ASSUME NEW route \in Routes, CommitSuccess(s, route) PROVE Shape
  <2> DEFINE n == slots[s].attempt[1]
  <2>1. /\ CanCommit(s) /\ InTime(n) /\ run' = RunTo(run.status)
        /\ steps' = [steps EXCEPT ![n] = StepTo(n, "completed")]
        /\ edges' = SelectEdges(n, route)
    BY <1>1 DEF CommitSuccess
  <2>2. n \in Nodes /\ run.status = "running" /\ steps[n].status = "running"
    BY <2>1, CommitFacts
  <2> HIDE DEF n
  <2>3. \A e \in Edges : IF e.from = n THEN edges'[e] \in {"selected", "skipped"}
                                       ELSE edges'[e] = edges[e]
    BY <2>1 DEF SelectEdges
  <2>4. Completes(n)
    BY <2>1, <2>2, <2>3 DEF Completes, InTime
  <2> QED BY <2>2, <2>4 DEF Shape
<1>2. ASSUME NEW code \in ErrorCodes, NEW delay \in Backoffs,
             CommitFailure(s, code, delay)
      PROVE  Shape
  <2> DEFINE n == slots[s].attempt[1]
  <2>1. /\ CanCommit(s) /\ edges' = edges
        /\ FailAttempt(slots[s].job, n, FailureCode(n, code), delay)
    BY <1>2 DEF CommitFailure
  <2>2. /\ n \in Nodes /\ run.status = "running" /\ steps[n].status = "running"
        /\ slots[s].job \in 1..Last /\ delay \in Nat
    BY <2>1, CommitFacts, TimeAssumption
  <2> HIDE DEF n
  <2> QED BY <2>1, <2>2, FailAttemptShape
<1>3. CASE DiscardResult(s)
  BY <1>3 DEF DiscardResult, durable, Shape, Paused
<1> QED BY <1>1, <1>2, <1>3 DEF Return

\* Recovery, the watchdogs and the wake of a delay.
LEMMA ScanShape ==
  ASSUME IInv, RowsEnd, RecoverExpired \/ EnforceDeadlines \/ WakeDelays
  PROVE  Shape
<1>1. ASSUME NEW i \in 1..Last, NEW delay \in Backoffs, RequeueExpired(i, delay)
      PROVE  Shape
  <2>1. delay \in Nat /\ RecoveryDue(delay) \in Nat
    BY TimeAssumption DEF RecoveryDue
  <2>2. run.status \in {"pending", "running"}
    BY <1>1, ActiveRun DEF RequeueExpired, LeaseExpired, ActiveJob
  <2>3. Retries(RecoveryDue(delay))
    BY <1>1, <2>2 DEF RequeueExpired, MayRecover, Retries
  <2> QED BY <2>1, <2>3 DEF Shape
<1>2. ASSUME NEW i \in 1..Last, NEW delay \in Backoffs, FailExpired(i, delay)
      PROVE  Shape
  <2>1. Ends("failed")
    BY <1>2 DEF FailExpired, LeaseExpired, Ends, Going
  <2> QED BY <2>1 DEF Shape
<1>3. CASE EnforceRunDeadline
  BY <1>3 DEF EnforceRunDeadline, Shape, Ends, Going
<1>4. ASSUME NEW i \in 1..Last, NEW delay \in Backoffs, EnforceAttemptTimeout(i, delay)
      PROVE  Shape
  <2> DEFINE n == jobs[i].attempt[1]
  <2>1. /\ n \in Nodes /\ steps[n].attempt = "running" /\ jobs[i].status = "running"
        /\ FailAttempt(i, n, "attempt_timeout", delay) /\ edges' = edges
    BY <1>4 DEF EnforceAttemptTimeout
  <2> HIDE DEF n
  <2>2. steps[n].status = "running" /\ delay \in Nat
    BY <2>1, TimeAssumption DEF IInv, OneUnfinished
  <2>3. run.status = "running"
    BY <2>1, <2>2, ActiveRun DEF ActiveJob, Unfinished
  <2> QED BY <2>1, <2>2, <2>3, FailAttemptShape
<1>5. ASSUME NEW n \in Nodes, WakeDue(n) PROVE Shape
  <2>1. steps[n].status = "waiting" /\ steps[n].limit = NoTime
    BY <1>5 DEF WakeDue, RowsEnd
  <2>2. ~Passed(steps[n].limit)
    BY <2>1 DEF Passed, NoTime
  <2>3. \A e \in Edges : IF e.from = n THEN edges'[e] \in {"selected", "skipped"}
                                       ELSE edges'[e] = edges[e]
    BY <1>5 DEF WakeDue
  <2>4. Completes(n)
    BY <1>5, <2>1, <2>2, <2>3 DEF WakeDue, Completes
  <2> QED BY <2>4 DEF Shape
<1>6. CASE ExpireWaiting
  BY <1>6 DEF ExpireWaiting, Shape, Ends, Going, Terminal
<1> QED BY <1>1, <1>2, <1>3, <1>4, <1>5, <1>6
        DEF RecoverExpired, EnforceDeadlines, WakeDelays, Last

\* Every step has one of the shapes.
LEMMA EveryShape == ASSUME IInv, RowsEnd, [Next]_vars PROVE Shape
<1>1. CASE UNCHANGED vars
  BY <1>1 DEF vars, Shape, Paused
<1>2. ASSUME NEW s \in Slots, Claim(s) \/ Renew(s) \/ Interrupt(s) PROVE Shape
  BY <1>2 DEF Claim, Renew, Interrupt, durable, Shape, Paused
<1>3. ASSUME NEW s \in Slots, Dispatch(s) \/ Return(s) PROVE Shape
  BY <1>3, DispatchShape, ReturnShape
<1>4. CASE RecoverExpired \/ EnforceDeadlines \/ WakeDelays
  BY <1>4, ScanShape
<1>5. CASE Cancel
  BY <1>5 DEF Cancel, Shape, Ends, Going
<1>6. CASE Tick
  BY <1>6 DEF Shape
<1> QED BY <1>1, <1>2, <1>3, <1>4, <1>5, <1>6 DEF Next

-----------------------------------------------------------------------------
(* What each shape does to one row. *)

\* Skipping S writes the row of a node in S and the routes out of it.
LEMMA Skipped ==
  ASSUME TypeOK, NEW S, S \subseteq Unreached
  PROVE  /\ \A n \in Nodes : SkipSteps(S)[n] = IF n \in S THEN SkippedStep ELSE steps[n]
         /\ \A e \in Edges : SkipEdges(S)[e] = IF e.from \in S THEN "skipped" ELSE edges[e]
         /\ \A n \in S : n \in Nodes /\ steps[n].status = "absent"
  BY DEF SkipSteps, SkipEdges, Unreached, Absent, TypeOK

\* A step that has ended stays as it is when the run ends or backs off; an
\* unfinished one moves on and keeps its number.
LEMMA EndsRow ==
  ASSUME IInv, NEW st \in {"failed", "cancelled"}, Ends(st), NEW n \in Nodes
  PROVE  /\ ~Unfinished(n) => steps'[n] = steps[n]
         /\ Unfinished(n) => /\ steps'[n].status = st
                             /\ steps'[n].number = steps[n].number
                             /\ steps'[n].attempt = IF steps[n].attempt = "running" THEN st
                                                    ELSE steps[n].attempt
         /\ edges' = edges
         /\ run'.status = st /\ run'.rev = run.rev + 1
<1>1. st \in StepStatus /\ st \in AttemptStatus /\ st \in RunStatus
  BY DEF StepStatus, AttemptStatus, RunStatus, Terminal
<1>2. steps[n] \in StepType /\ run \in RunType
  BY RowsTyped DEF IInv
<1>3. steps'[n] = IF Unfinished(n) THEN StepTo(n, st) ELSE steps[n]
  BY DEF Ends, EndSteps
<1>4. run'.status = st /\ run'.rev = run.rev + 1 /\ edges' = edges
  BY <1>1, <1>2, RunRow DEF Ends
<1> QED BY <1>1, <1>2, <1>3, <1>4, MovedRow DEF StepTo

\* A step that backs off keeps its number.
LEMMA RetriesRow ==
  ASSUME IInv, NEW delay \in Nat, Retries(delay), NEW n \in Nodes
  PROVE  /\ ~Unfinished(n) => steps'[n] = steps[n]
         /\ Unfinished(n) => /\ steps'[n].status = "retrying"
                             /\ steps'[n].number = steps[n].number
                             /\ steps[n].attempt # "running" =>
                                  steps'[n].attempt = steps[n].attempt
         /\ edges' = edges
         /\ run'.status = run.status /\ run'.rev = run.rev + 1
<1>1. steps[n] \in StepType /\ run \in RunType
  BY RowsTyped DEF IInv
<1>2. steps'[n] = IF Unfinished(n) THEN RetryingStep(steps[n], delay) ELSE steps[n]
  BY DEF Retries
<1>3. run.status \in RunStatus
  BY <1>1 DEF RunType, RunStatus
<1>4. run'.status = run.status /\ run'.rev = run.rev + 1 /\ edges' = edges
  BY <1>1, <1>3, RunRow DEF Retries
<1>5. steps[n].attempt # "running" => RetryingStep(steps[n], delay).attempt = steps[n].attempt
  <2> SUFFICES ASSUME steps[n].attempt # "running"
               PROVE  RetryingStep(steps[n], delay).attempt = steps[n].attempt
    OBVIOUS
  <2> DEFINE m == MovedStep(steps[n], "retrying", "failed")
  <2>0. "retrying" \in StepStatus /\ "failed" \in AttemptStatus
    BY DEF StepStatus, AttemptStatus
  <2>1. m \in StepType /\ m.attempt = steps[n].attempt
    BY <1>1, <2>0, MovedRow
  <2>2. RetryingStep(steps[n], delay) = [m EXCEPT !.timer = delay]
    BY DEF RetryingStep
  <2> HIDE DEF m
  <2> QED BY <2>1, <2>2 DEF StepType
<1> QED BY <1>1, <1>2, <1>4, <1>5, RetryingRow

\* A node that completes keeps its number; the other rows stay as they are.
LEMMA CompletesRow ==
  ASSUME IInv, NEW n \in Nodes, Completes(n)
  PROVE  /\ Unfinished(n) /\ steps'[n].status = "completed"
         /\ steps'[n].number = steps[n].number
         /\ steps[n].attempt # "running" => steps'[n].attempt = steps[n].attempt
         /\ \A m \in Nodes \ {n} : steps'[m] = steps[m]
         /\ run'.status = "running" /\ run'.rev = run.rev + 1
<1>1. steps[n] \in StepType /\ run \in RunType /\ steps \in [Nodes -> StepType]
  BY RowsTyped DEF IInv, TypeOK
<1>2. "completed" \in StepStatus /\ "completed" \in AttemptStatus /\ "running" \in RunStatus
  BY DEF StepStatus, AttemptStatus, RunStatus, Terminal
<1>3. steps'[n] = StepTo(n, "completed") /\ \A m \in Nodes \ {n} : steps'[m] = steps[m]
  BY <1>1 DEF Completes
<1>4. run'.status = "running" /\ run'.rev = run.rev + 1
  BY <1>1, <1>2, RunRow DEF Completes
<1>5. Unfinished(n)
  BY DEF Completes, Unfinished
<1> QED BY <1>1, <1>2, <1>3, <1>4, <1>5, MovedRow DEF StepTo

\* A node that is tried backs off or was never begun; of the other rows only
\* those that the interpreter passes by change, from absent to skipped.
LEMMA OpensRow ==
  ASSUME IInv, NEW n \in Nodes, NEW status \in {"running", "waiting", "failed"},
         NEW row \in StepType, Opens(n, status, row)
  PROVE  /\ steps[n].status \in {"absent", "retrying"}
         /\ steps'[n] = row /\ row.status = status /\ row.number = steps[n].number + 1
         /\ SkippedBefore(n) \subseteq Unreached /\ n \notin SkippedBefore(n)
         /\ \A m \in Nodes \ {n} :
              steps'[m] = IF m \in SkippedBefore(n) THEN SkippedStep ELSE steps[m]
         /\ \A m \in SkippedBefore(n) : m \in Nodes /\ steps[m].status = "absent"
         /\ \A e \in Edges : edges'[e] = IF e.from \in SkippedBefore(n) THEN "skipped"
                                         ELSE edges[e]
         /\ run'.status = status /\ run'.rev = run.rev + 1
<1>1. TypeOK /\ run \in RunType /\ status \in RunStatus
  BY RowsTyped DEF IInv, RunStatus
<1>2. SkippedBefore(n) \subseteq Unreached
  BY DEF SkippedBefore
<1>3. n \notin SkippedBefore(n)
  BY DEF SkippedBefore, Nodes
<1>4. /\ \A m \in Nodes : SkipSteps(SkippedBefore(n))[m] =
             IF m \in SkippedBefore(n) THEN SkippedStep ELSE steps[m]
      /\ \A e \in Edges : SkipEdges(SkippedBefore(n))[e] =
             IF e.from \in SkippedBefore(n) THEN "skipped" ELSE edges[e]
      /\ \A m \in SkippedBefore(n) : m \in Nodes /\ steps[m].status = "absent"
  BY <1>1, <1>2, Skipped
<1>5. /\ steps' = [SkipSteps(SkippedBefore(n)) EXCEPT ![n] = row]
      /\ edges' = SkipEdges(SkippedBefore(n)) /\ n \in NextNodes
      /\ row.status = status /\ row.number = steps[n].number + 1
  BY DEF Opens
<1>6. DOMAIN SkipSteps(SkippedBefore(n)) = Nodes
  BY DEF SkipSteps
<1>7. steps[n].status \in {"absent", "retrying"}
  BY <1>5 DEF NextNodes, Retrying, ReadyNodes, Absent
<1>8. run'.status = status /\ run'.rev = run.rev + 1
  BY <1>1, RunRow DEF Opens
<1> QED BY <1>2, <1>3, <1>4, <1>5, <1>6, <1>7, <1>8

\* A run that finishes skips what the interpreter passed by.
LEMMA FinishesRow ==
  ASSUME IInv, NEW outcome \in {"completed", "failed"}, Finishes(outcome)
  PROVE  /\ \A m \in Nodes : steps'[m] = IF m \in Unreached THEN SkippedStep ELSE steps[m]
         /\ \A m \in Unreached : m \in Nodes /\ steps[m].status = "absent"
         /\ \A e \in Edges : edges'[e] = IF e.from \in Unreached THEN "skipped" ELSE edges[e]
         /\ run'.status = outcome /\ run'.rev = run.rev + 1
<1>1. TypeOK /\ run \in RunType /\ outcome \in RunStatus
  BY RowsTyped DEF IInv, RunStatus
<1>2. run'.status = outcome /\ run'.rev = run.rev + 1
  BY <1>1, RunRow DEF Finishes
<1>3. steps' = SkipSteps(Unreached) /\ edges' = SkipEdges(Unreached)
  BY DEF Finishes
<1> QED BY <1>1, <1>2, <1>3, Skipped

\* The clock moves the timestamps of a row only, and those that are not set stay.
LEMMA TickRow ==
  ASSUME IInv, Tick
  PROVE  /\ \A n \in Nodes :
              /\ steps'[n].status = steps[n].status /\ steps'[n].number = steps[n].number
              /\ steps'[n].attempt = steps[n].attempt
              /\ steps[n].limit = NoTime => steps'[n].limit = NoTime
              /\ steps[n] = NoStep => steps'[n] = NoStep
         /\ run'.status = run.status /\ run'.rev = run.rev /\ edges' = edges
<1>1. /\ run' = [run EXCEPT !.left = Elapse(run.left)]
      /\ steps' = [n \in Nodes |-> [steps[n] EXCEPT !.limit = Elapse(steps[n].limit),
                                                    !.timer = Elapse(steps[n].timer)]]
      /\ jobs' = [i \in 1..Last |-> [jobs[i] EXCEPT !.due = Elapse(jobs[i].due),
                                                   !.lease = Elapse(jobs[i].lease)]]
      /\ UNCHANGED <<edges, slots, claims>>
  BY DEF Tick, Last
<1>2. run'.status = run.status /\ run'.rev = run.rev /\ edges' = edges
  <2>1. run' = [run EXCEPT !.left = Elapse(run.left)] /\ edges' = edges
    BY <1>1
  <2> QED BY <2>1, RowsTyped DEF RunType, IInv
<1>3. ASSUME NEW n \in Nodes
      PROVE  /\ steps'[n].status = steps[n].status /\ steps'[n].number = steps[n].number
             /\ steps'[n].attempt = steps[n].attempt
             /\ steps[n].limit = NoTime => steps'[n].limit = NoTime
             /\ steps[n] = NoStep => steps'[n] = NoStep
  <2>1. /\ steps[n] \in StepType /\ steps[n].limit \in Nat \cup {NoTime}
        /\ steps[n].timer \in Nat \cup {NoTime}
    BY RowsTyped DEF StepType, IInv
  <2>2. PICK l \in Nat \cup {NoTime}, t \in Nat \cup {NoTime} :
          l = Elapse(steps[n].limit) /\ t = Elapse(steps[n].timer)
    BY <2>1, TimeTypes
  <2>3. steps'[n] = [steps[n] EXCEPT !.limit = Elapse(steps[n].limit),
                                     !.timer = Elapse(steps[n].timer)]
    BY <1>1
  <2>4. steps'[n] = [steps[n] EXCEPT !.limit = l, !.timer = t]
    BY <2>2, <2>3
  <2>5. Elapse(NoTime) = NoTime
    BY DEF Elapse, NoTime
  <2>6. steps[n].limit = NoTime => steps'[n].limit = NoTime
    BY <2>1, <2>2, <2>4, <2>5 DEF StepType
  <2>7. ASSUME steps[n] = NoStep PROVE steps'[n] = NoStep
    <3>1. steps[n].limit = NoTime /\ steps[n].timer = NoTime
      BY <2>7 DEF NoStep
    <3>2. l = NoTime /\ t = NoTime
      BY <2>2, <2>5, <3>1
    <3>3. steps'[n] = [steps[n] EXCEPT !.limit = steps[n].limit, !.timer = steps[n].timer]
      BY <2>4, <3>1, <3>2
    <3> QED BY <2>1, <2>7, <3>3 DEF StepType
  <2>8. /\ steps'[n].status = steps[n].status /\ steps'[n].number = steps[n].number
        /\ steps'[n].attempt = steps[n].attempt
    BY <2>1, <2>4 DEF StepType
  <2> QED BY <2>6, <2>7, <2>8
<1> QED BY <1>2, <1>3

-----------------------------------------------------------------------------
(* The history of a run: History is inductive. *)

\* A run begins without rows and without routes.
LEMMA HistoryInit == Init => History
<1> SUFFICES ASSUME Init PROVE History
  OBVIOUS
<1>1. /\ \A n \in Nodes : steps[n] = NoStep
      /\ \A e \in Edges : edges[e] = "open"
      /\ run.status = "pending"
  BY DEF Init
<1>2. NoStep.status = "absent" /\ NoStep.number = 0
  BY BlankRows
<1>3. RowsEnd
  BY <1>1, <1>2 DEF RowsEnd
<1>4. RoutesRecorded
  BY <1>1 DEF RoutesRecorded
<1>5. RoutesFollowed
  BY <1>1, <1>2 DEF RoutesFollowed
<1> QED BY <1>3, <1>4, <1>5, InitInv DEF History

\* What is unfinished is neither absent nor over.
LEMMA UnfinishedStatus ==
  \A n \in Nodes : Unfinished(n) => steps[n].status \notin {"absent"} \cup Terminal
  BY DEF Unfinished, Terminal

\* No row that is absent, skipped or failed loses what RowsEnd says of it.
LEMMA RowsEndKept == ASSUME IInv, RowsEnd, Shape PROVE RowsEnd'
<1> DEFINE Row(n) == /\ Absent(n) => steps[n] = NoStep
                     /\ steps[n].status = "skipped" => steps[n].number = 0
                     /\ steps[n].status = "waiting" => steps[n].limit = NoTime
                     /\ run.status \notin Terminal =>
                          steps[n].status \notin {"failed", "cancelled"}
<1> SUFFICES ASSUME NEW n \in Nodes PROVE Row(n)'
  BY DEF RowsEnd
<1>0. Row(n)
  BY DEF RowsEnd
<1>1. CASE Paused
  BY <1>0, <1>1 DEF Paused, Absent
<1>2. CASE Tick
  BY <1>0, <1>2, TickRow DEF Absent
<1>3. ASSUME NEW st \in {"failed", "cancelled"}, Ends(st) PROVE Row(n)'
  BY <1>0, <1>3, EndsRow, UnfinishedStatus DEF Absent, Terminal
<1>4. ASSUME NEW delay \in Nat, Retries(delay) PROVE Row(n)'
  BY <1>0, <1>4, RetriesRow, UnfinishedStatus DEF Absent, Terminal
<1>5. ASSUME NEW m \in Nodes, Completes(m) PROVE Row(n)'
  <2>1. run.status \notin Terminal
    BY <1>5 DEF Completes, Terminal
  <2> QED BY <1>0, <1>5, <2>1, CompletesRow DEF Absent, Terminal
<1>6. ASSUME NEW m \in Nodes, NEW status \in {"running", "waiting", "failed"},
             NEW row \in StepType, Opens(m, status, row)
      PROVE  Row(n)'
  <2>1. run.status \notin Terminal /\ (status = "waiting" => row.limit = NoTime)
    BY <1>6 DEF Opens, Terminal
  <2>2. SkippedStep.status = "skipped" /\ SkippedStep.number = 0
    BY BlankRows
  <2> QED BY <1>0, <1>6, <2>1, <2>2, OpensRow DEF Absent, Terminal
<1>7. ASSUME NEW outcome \in {"completed", "failed"}, Finishes(outcome) PROVE Row(n)'
  <2>1. SkippedStep.status = "skipped" /\ SkippedStep.number = 0
    BY BlankRows
  <2> QED BY <1>0, <1>7, <2>1, FinishesRow DEF Absent, Terminal
<1> QED BY <1>1, <1>2, <1>3, <1>4, <1>5, <1>6, <1>7 DEF Shape

\* A route, once recorded, says of its node what it said before.
LEMMA RoutesRecordedKept == ASSUME IInv, RoutesRecorded, Shape PROVE RoutesRecorded'
<1> DEFINE Route(e) ==
      /\ edges[e] = "selected" => steps[e.from].status = "completed"
      /\ edges[e] = "skipped" => steps[e.from].status \in {"completed", "skipped"}
<1> SUFFICES ASSUME NEW e \in Edges PROVE Route(e)'
  BY DEF RoutesRecorded
<1>0. Route(e) /\ e.from \in Nodes
  BY EdgesAssumption DEF RoutesRecorded
<1>1. CASE Paused
  BY <1>0, <1>1 DEF Paused
<1>2. CASE Tick
  BY <1>0, <1>2, TickRow
<1>3. ASSUME NEW st \in {"failed", "cancelled"}, Ends(st) PROVE Route(e)'
  BY <1>0, <1>3, EndsRow, UnfinishedStatus DEF Terminal
<1>4. ASSUME NEW delay \in Nat, Retries(delay) PROVE Route(e)'
  BY <1>0, <1>4, RetriesRow, UnfinishedStatus DEF Terminal
<1>5. ASSUME NEW m \in Nodes, Completes(m) PROVE Route(e)'
  <2>1. steps'[m].status = "completed" /\ steps[m].status \notin {"completed", "skipped"}
    BY <1>5, CompletesRow DEF Completes
  <2>2. CASE e.from = m
    BY <2>1, <2>2
  <2>3. CASE e.from # m
    <3>1. edges'[e] = edges[e] /\ steps'[e.from] = steps[e.from]
      BY <1>0, <1>5, <2>3, CompletesRow DEF Completes
    <3> QED BY <1>0, <3>1
  <2> QED BY <2>2, <2>3
<1>6. ASSUME NEW m \in Nodes, NEW status \in {"running", "waiting", "failed"},
             NEW row \in StepType, Opens(m, status, row)
      PROVE  Route(e)'
  <2>1. SkippedStep.status = "skipped"
    BY BlankRows
  <2> QED BY <1>0, <1>6, <2>1, OpensRow
<1>7. ASSUME NEW outcome \in {"completed", "failed"}, Finishes(outcome) PROVE Route(e)'
  <2>1. SkippedStep.status = "skipped"
    BY BlankRows
  <2> QED BY <1>0, <1>7, <2>1, FinishesRow
<1> QED BY <1>1, <1>2, <1>3, <1>4, <1>5, <1>6, <1>7 DEF Shape

\* A node keeps the routes that led to it, and a node that is tried has them.
LEMMA ReachedKept ==
  ASSUME IInv, RoutesRecorded, RoutesFollowed, Shape,
         NEW n \in Nodes \ {Entry}, steps'[n].status \notin {"absent", "skipped"}
  PROVE  /\ \A e \in Into(n) : edges'[e] # "open"
         /\ \E e \in Into(n) : edges'[e] = "selected" /\ steps'[e.from].status = "completed"
<1> DEFINE Kept == steps[n].status \notin {"absent", "skipped"}
<1>1. \A e \in Into(n) : e \in Edges /\ e.to = n /\ e.from \in Nodes /\ e.from < n
  BY EdgesAssumption DEF Into
<1>2. ASSUME Kept
      PROVE  /\ \A e \in Into(n) : edges[e] # "open"
             /\ \E e \in Into(n) : edges[e] = "selected" /\ steps[e.from].status = "completed"
  BY <1>2 DEF RoutesFollowed
<1>3. CASE Paused
  BY <1>2, <1>3 DEF Paused
<1>4. CASE Tick
  BY <1>1, <1>2, <1>4, TickRow
<1>5. ASSUME NEW st \in {"failed", "cancelled"}, Ends(st)
      PROVE  /\ Kept /\ edges' = edges
             /\ \A m \in Nodes : steps[m].status = "completed" => steps'[m].status = "completed"
  BY <1>5, EndsRow, UnfinishedStatus DEF Terminal
<1>6. ASSUME NEW delay \in Nat, Retries(delay)
      PROVE  /\ Kept /\ edges' = edges
             /\ \A m \in Nodes : steps[m].status = "completed" => steps'[m].status = "completed"
  BY <1>6, RetriesRow, UnfinishedStatus DEF Terminal
<1>7. ASSUME NEW m \in Nodes, Completes(m)
      PROVE  /\ \A e \in Into(n) : edges'[e] # "open"
             /\ \E e \in Into(n) : edges'[e] = "selected" /\ steps'[e.from].status = "completed"
  <2>1. steps[m].status \notin {"completed", "absent", "skipped"}
    BY <1>7 DEF Completes
  <2>2. Kept /\ \A k \in Nodes : steps[k].status = "completed" =>
                  k # m /\ steps'[k].status = "completed"
    BY <1>7, <2>1, CompletesRow
  <2>3. \A e \in Edges : /\ e.from = m => edges'[e] \in {"selected", "skipped"}
                         /\ e.from # m => edges'[e] = edges[e]
    BY <1>7 DEF Completes
  <2> QED BY <1>1, <1>2, <2>2, <2>3
<1>8. ASSUME NEW m \in Nodes, NEW status \in {"running", "waiting", "failed"},
             NEW row \in StepType, Opens(m, status, row)
      PROVE  /\ \A e \in Into(n) : edges'[e] # "open"
             /\ \E e \in Into(n) : edges'[e] = "selected" /\ steps'[e.from].status = "completed"
  <2>1. \A k \in Nodes : steps[k].status = "completed" => steps'[k].status = "completed"
    BY <1>8, OpensRow
  <2>2. \A e \in Edges : /\ edges[e] # "open" => edges'[e] # "open"
                         /\ e.from \in SkippedBefore(m) => edges'[e] = "skipped"
                         /\ steps[e.from].status = "completed" => edges'[e] = edges[e]
    BY <1>8, OpensRow
  <2>3. CASE Kept
    BY <1>1, <1>2, <2>1, <2>2, <2>3
  <2>4. CASE ~Kept
    <3>1. n = m /\ steps[n].status = "absent"
      <4>1. CASE n # m
        BY <1>8, <2>4, <4>1, OpensRow, BlankRows
      <4>2. CASE n = m
        BY <1>8, <2>4, <4>2, OpensRow
      <4> QED BY <4>1, <4>2
    <3>2. n \in ReadyNodes /\ Retrying = {}
      <4>1. n \in NextNodes /\ n \notin Retrying
        BY <1>8, <3>1 DEF Opens, Retrying
      <4> QED BY <4>1 DEF NextNodes
    <3>3. /\ \E e \in Into(n) : edges[e] = "selected"
          /\ \A e \in Into(n) : edges[e] # "open" \/ e.from \in Unreached
      BY <3>2 DEF ReadyNodes
    <3>4. \A e \in Into(n) : e.from \in Unreached => e.from \in SkippedBefore(m)
      BY <1>1, <3>1, <3>2 DEF SkippedBefore
    <3>5. \A e \in Into(n) : edges[e] = "selected" => steps[e.from].status = "completed"
      BY <1>1 DEF RoutesRecorded
    <3>6. \A e \in Into(n) : edges'[e] # "open"
      BY <1>1, <2>2, <3>3, <3>4
    <3> QED BY <1>1, <2>1, <2>2, <3>3, <3>5, <3>6
  <2> QED BY <2>3, <2>4
<1>9. ASSUME NEW outcome \in {"completed", "failed"}, Finishes(outcome)
      PROVE  /\ \A e \in Into(n) : edges'[e] # "open"
             /\ \E e \in Into(n) : edges'[e] = "selected" /\ steps'[e.from].status = "completed"
  <2>1. Kept /\ \A k \in Nodes : steps[k].status = "completed" => steps'[k].status = "completed"
    BY <1>9, FinishesRow, BlankRows
  <2>2. \A e \in Edges : /\ edges[e] # "open" => edges'[e] # "open"
                         /\ steps[e.from].status = "completed" => edges'[e] = edges[e]
    BY <1>9, FinishesRow
  <2> QED BY <1>1, <1>2, <2>1, <2>2
<1>10. CASE \E st \in {"failed", "cancelled"} : Ends(st)
  BY <1>1, <1>2, <1>5, <1>10
<1>11. CASE \E delay \in Nat : Retries(delay)
  BY <1>1, <1>2, <1>6, <1>11
<1> QED BY <1>3, <1>4, <1>7, <1>8, <1>9, <1>10, <1>11 DEF Shape

\* A run completes only when every node has either completed or been skipped.
LEMMA CompletedKept ==
  ASSUME IInv, RowsEnd, RoutesFollowed, Shape, run'.status = "completed"
  PROVE  \A n \in Nodes : steps'[n].status \in {"completed", "skipped"}
<1> SUFFICES ASSUME NEW n \in Nodes PROVE steps'[n].status \in {"completed", "skipped"}
  OBVIOUS
<1>1. run.status = "completed" => steps[n].status \in {"completed", "skipped"}
  BY DEF RoutesFollowed
<1>2. CASE Paused
  BY <1>1, <1>2 DEF Paused
<1>3. CASE Tick
  BY <1>1, <1>3, TickRow
<1>4. ~\E st \in {"failed", "cancelled"} : Ends(st)
  BY EndsRow
<1>5. ~\E delay \in Nat : Retries(delay)
  BY RetriesRow DEF Retries
<1>6. ~\E m \in Nodes : Completes(m)
  BY CompletesRow
<1>7. ~\E m \in Nodes, status \in {"running", "waiting", "failed"}, row \in StepType :
         Opens(m, status, row)
  BY OpensRow
<1>8. ASSUME NEW outcome \in {"completed", "failed"}, Finishes(outcome)
      PROVE  steps'[n].status \in {"completed", "skipped"}
  <2>1. outcome = "completed" /\ steps'[n] = IF n \in Unreached THEN SkippedStep ELSE steps[n]
    BY <1>8, FinishesRow
  <2>2. run.status \notin Terminal /\ ~Unfinished(n) /\ (Absent(n) => n \in Unreached)
    BY <1>8, <2>1 DEF Finishes, Terminal
  <2>3. steps[n].status \in StepStatus
    BY RowsTyped DEF IInv, StepType, StepStatus
  <2>4. n \notin Unreached => steps[n].status \in {"completed", "skipped"}
    BY <2>2, <2>3 DEF RowsEnd, StepStatus, Terminal, Unfinished, Absent
  <2> QED BY <2>1, <2>4, BlankRows
<1> QED BY <1>2, <1>3, <1>4, <1>5, <1>6, <1>7, <1>8 DEF Shape

\* Every step keeps the history.
LEMMA HistoryNext == History /\ [Next]_vars => History'
<1> SUFFICES ASSUME History, [Next]_vars PROVE History'
  OBVIOUS
<1>1. IInv /\ RowsEnd /\ RoutesRecorded /\ RoutesFollowed
  BY DEF History
<1>2. IInv' /\ Shape
  BY <1>1, NextInv, EveryShape
<1>3. RowsEnd' /\ RoutesRecorded'
  BY <1>1, <1>2, RowsEndKept, RoutesRecordedKept
<1>4. RoutesFollowed'
  BY <1>1, <1>2, ReachedKept, CompletedKept DEF RoutesFollowed, Into
<1> QED BY <1>2, <1>3, <1>4 DEF History

\* The history of every run is consistent in every reachable state: what the
\* rows and the recorded routes say of how the run came to where it is.
THEOREM HistoryIsKept == Spec => []History
<1>1. Init => History
  BY HistoryInit
<1>2. History /\ [Next]_vars => History'
  BY HistoryNext
<1> QED BY <1>1, <1>2, PTL DEF Spec

\* A node runs only after all its routes are resolved and one was selected, and
\* a run completes only with every node completed or skipped.
THEOREM RoutesAreFollowed == Spec => []RoutesFollowed
<1>1. History => RoutesFollowed
  BY DEF History
<1> QED BY <1>1, HistoryIsKept, PTL

-----------------------------------------------------------------------------
(* What no step may do. *)

\* One step, one node: an end that is recorded is not changed.
LEMMA DecisionKept ==
  ASSUME IInv, RowsEnd, Shape, NEW n \in Nodes
  PROVE  /\ steps[n].status \in Terminal => steps'[n].status = steps[n].status
         /\ steps[n].attempt \in Terminal /\ steps'[n].number = steps[n].number
              => steps'[n].attempt = steps[n].attempt
<1> DEFINE Same == /\ steps[n].status \in Terminal => steps'[n].status = steps[n].status
                   /\ steps[n].attempt \in Terminal /\ steps'[n].number = steps[n].number
                        => steps'[n].attempt = steps[n].attempt
<1>1. CASE Paused
  BY <1>1 DEF Paused
<1>2. CASE Tick
  BY <1>2, TickRow
<1>3. "running" \notin Terminal
  BY DEF Terminal
<1>4. ASSUME NEW st \in {"failed", "cancelled"}, Ends(st) PROVE Same
  BY <1>3, <1>4, EndsRow, UnfinishedStatus
<1>5. ASSUME NEW delay \in Nat, Retries(delay) PROVE Same
  BY <1>3, <1>5, RetriesRow, UnfinishedStatus
<1>6. ASSUME NEW m \in Nodes, Completes(m) PROVE Same
  BY <1>3, <1>6, CompletesRow, UnfinishedStatus
<1>7. steps[n].status = "absent" => steps[n].attempt = "none"
  BY BlankRows DEF RowsEnd, Absent
<1>8. "none" \notin Terminal /\ "absent" \notin Terminal /\ "retrying" \notin Terminal
  BY DEF Terminal
<1>9. steps[n].number \in Nat
  BY RowsTyped DEF IInv, StepType
<1>10. ASSUME NEW m \in Nodes, NEW status \in {"running", "waiting", "failed"},
              NEW row \in StepType, Opens(m, status, row)
       PROVE  Same
  <2>1. CASE n = m
    <3>1. steps'[n].number # steps[n].number /\ steps[n].status \notin Terminal
      BY <1>8, <1>9, <1>10, <2>1, OpensRow
    <3> QED BY <3>1
  <2>2. CASE n # m
    BY <1>7, <1>8, <1>10, <2>2, OpensRow
  <2> QED BY <2>1, <2>2
<1>11. ASSUME NEW outcome \in {"completed", "failed"}, Finishes(outcome) PROVE Same
  BY <1>7, <1>8, <1>11, FinishesRow
<1> QED BY <1>1, <1>2, <1>4, <1>5, <1>6, <1>10, <1>11 DEF Shape

\* A run that has ended takes no step that is not a pause or a tick.
LEMMA EndKept ==
  ASSUME IInv, Shape, run.status \in Terminal
  PROVE  (Paused \/ Tick) /\ run'.status = run.status
<1>1. Paused \/ Tick
  BY DEF Shape, Ends, Going, Retries, Completes, Opens, Finishes, Terminal
<1> QED BY <1>1, TickRow DEF Paused

\* The first committed decision wins, for the run, for each of its steps and
\* for each attempt.
THEOREM FirstDecisionsWin == Spec => FirstDecisionWins
<1> DEFINE Same(n) ==
      /\ steps[n].status \in Terminal => steps'[n].status = steps[n].status
      /\ steps[n].attempt \in Terminal /\ steps'[n].number = steps[n].number
           => steps'[n].attempt = steps[n].attempt
<1>1. ASSUME History, [Next]_vars
      PROVE  [/\ run.status \in Terminal => run'.status = run.status
              /\ \A n \in Nodes : Same(n)]_vars
  <2>1. IInv /\ RowsEnd /\ Shape
    BY <1>1, EveryShape DEF History
  <2> QED BY <2>1, EndKept, DecisionKept
<1>2. Spec => [][/\ run.status \in Terminal => run'.status = run.status
                 /\ \A n \in Nodes : Same(n)]_vars
  BY <1>1, HistoryIsKept, PTL DEF Spec
<1> QED BY <1>2 DEF FirstDecisionWins

\* One step, one node: it is tried no earlier than its backoff says, and it
\* completes before its deadline and the run's.
LEMMA InTimeKept ==
  ASSUME IInv, RowsEnd, Shape, NEW n \in Nodes
  PROVE  /\ steps'[n].number > steps[n].number => steps[n].timer \in {0, NoTime}
         /\ steps'[n].status = "completed" /\ steps[n].status # "completed"
              => ~Passed(run.left) /\ ~Passed(steps[n].limit)
<1> DEFINE Timely == /\ steps'[n].number > steps[n].number => steps[n].timer \in {0, NoTime}
                     /\ steps'[n].status = "completed" /\ steps[n].status # "completed"
                          => ~Passed(run.left) /\ ~Passed(steps[n].limit)
           Still == /\ steps'[n].number = steps[n].number
                    /\ steps'[n].status = "completed" => steps[n].status = "completed"
<1>1. steps[n].number \in Nat
  BY RowsTyped DEF IInv, StepType
<1>2. Still => Timely
  BY <1>1
<1>3. CASE Paused
  BY <1>2, <1>3 DEF Paused
<1>4. CASE Tick
  BY <1>2, <1>4, TickRow
<1>5. ASSUME NEW st \in {"failed", "cancelled"}, Ends(st) PROVE Still
  BY <1>5, EndsRow
<1>6. ASSUME NEW delay \in Nat, Retries(delay) PROVE Still
  BY <1>6, RetriesRow
<1>7. ASSUME NEW m \in Nodes, Completes(m) PROVE Timely
  <2>1. CASE n = m
    <3>1. steps'[n].number = steps[n].number
      BY <1>7, <2>1, CompletesRow
    <3> QED BY <1>1, <1>7, <2>1, <3>1 DEF Completes
  <2>2. CASE n # m
    BY <1>2, <1>7, <2>2, CompletesRow
  <2> QED BY <2>1, <2>2
<1>8. steps[n].status = "absent" => steps[n].number = 0 /\ steps[n].timer = NoTime
  BY DEF RowsEnd, Absent, NoStep
<1>9. SkippedStep.number = 0 /\ SkippedStep.status = "skipped"
  BY BlankRows
<1>10. ASSUME NEW m \in Nodes, NEW status \in {"running", "waiting", "failed"},
              NEW row \in StepType, Opens(m, status, row)
       PROVE  Timely
  <2>1. CASE n = m
    <3>1. steps'[n].status # "completed"
      BY <1>10, <2>1, OpensRow
    <3>2. steps[n].status \in {"absent", "retrying"}
      BY <1>10, <2>1, OpensRow
    <3>3. steps[n].timer \in {0, NoTime}
      BY <1>8, <1>10, <2>1, <3>2 DEF Opens, Retrying
    <3> QED BY <3>1, <3>3
  <2>2. CASE n # m
    BY <1>2, <1>8, <1>9, <1>10, <2>2, OpensRow
  <2> QED BY <2>1, <2>2
<1>11. ASSUME NEW outcome \in {"completed", "failed"}, Finishes(outcome) PROVE Still
  BY <1>8, <1>9, <1>11, FinishesRow
<1> QED BY <1>2, <1>3, <1>4, <1>5, <1>6, <1>7, <1>10, <1>11 DEF Shape

\* A commit that leaves the run going or completes it comes before the deadline.
LEMMA CommitInTime ==
  ASSUME IInv, Shape, run'.status \in {"running", "completed"}, run'.rev # run.rev
  PROVE  ~Passed(run.left)
<1>1. ~Paused
  BY DEF Paused
<1>2. ~Tick
  BY TickRow
<1>3. ~\E st \in {"failed", "cancelled"} : Ends(st)
  <2> SUFFICES ASSUME NEW st \in {"failed", "cancelled"}, Ends(st) PROVE run'.status = st
    OBVIOUS
  <2>1. st \in RunStatus /\ run \in RunType
    BY RowsTyped DEF RunStatus, IInv
  <2> QED BY <2>1, RunRow DEF Ends
<1> QED BY <1>1, <1>2, <1>3 DEF Shape, Retries, Completes, Opens, Finishes

\* No retry starts early, and nothing starts or succeeds after a deadline.
THEOREM TimeIsRespected == Spec => TimeRespected
<1> DEFINE Timely(n) ==
      /\ steps'[n].number > steps[n].number => steps[n].timer \in {0, NoTime}
      /\ steps'[n].status = "completed" /\ steps[n].status # "completed"
           => ~Passed(run.left) /\ ~Passed(steps[n].limit)
           Committed == run'.status \in {"running", "completed"} /\ run'.rev # run.rev
<1>1. ASSUME History, [Next]_vars
      PROVE  [/\ \A n \in Nodes : Timely(n)
              /\ Committed => ~Passed(run.left)]_vars
  <2>1. IInv /\ RowsEnd /\ Shape
    BY <1>1, EveryShape DEF History
  <2> QED BY <2>1, InTimeKept, CommitInTime
<1>2. Spec => [][/\ \A n \in Nodes : Timely(n)
                 /\ Committed => ~Passed(run.left)]_vars
  BY <1>1, HistoryIsKept, PTL DEF Spec
<1> QED BY <1>2 DEF TimeRespected

-----------------------------------------------------------------------------
(* The contract.                                                             *)

Done == {n \in Nodes : steps[n].status = "completed"}
Tries == [n \in Nodes |-> steps[n].number]

\* While the run goes on, what the contract takes for in progress is what the
\* engine holds as unfinished.
LEMMA ProgressMeansUnfinished ==
  ASSUME IInv, RowsEnd, run.status \notin Terminal, NEW n \in Nodes
  PROVE  Tries[n] > 0 /\ n \notin Done <=> Unfinished(n)
<1>1. steps[n].status \in StepStatus /\ steps[n].number \in Nat
  BY RowsTyped DEF IInv, StepType, StepStatus
<1>2. steps[n].status \in {"absent", "skipped"} => steps[n].number = 0
  BY DEF IInv, NumbersBounded, Absent, RowsEnd
<1>3. Unfinished(n) => steps[n].number > 0
  BY DEF IInv, NumbersBounded
<1>4. steps[n].status \notin {"failed", "cancelled"}
  BY DEF RowsEnd
<1>5. Tries[n] = steps[n].number /\ (n \in Done <=> steps[n].status = "completed")
  BY DEF Tries, Done
<1> QED BY <1>1, <1>2, <1>3, <1>4, <1>5 DEF StepStatus, Terminal, Unfinished

\* Nothing is tried and nothing is done: what the contract sees of it is still.
LEMMA Unseen ==
  ASSUME \A n \in Nodes :
           /\ steps'[n].number = steps[n].number
           /\ steps'[n].status = "completed" <=> steps[n].status = "completed"
  PROVE  Done' = Done /\ Tries' = Tries
  BY DEF Done, Tries

\* A step that opens an attempt tries its node.
LEMMA OpensTries ==
  ASSUME IInv, RowsEnd, NEW n \in Nodes, NEW status \in {"running", "waiting", "failed"},
         NEW row \in StepType, Opens(n, status, row)
  PROVE  Contract!Try(n)
<1>1. /\ run.status \notin Terminal /\ steps[n].number < MaxAttempts[n]
      /\ \A m \in Nodes \ {n} : ~Unfinished(m)
  BY DEF Opens, Terminal
<1>2. \A m \in Nodes : Tries[m] > 0 /\ m \notin Done => m = n
  BY <1>1, ProgressMeansUnfinished
<1>3. /\ steps[n].status # "completed" /\ steps'[n].status # "completed"
      /\ steps'[n].number = steps[n].number + 1
  BY OpensRow
<1>4. \A m \in Nodes \ {n} :
        /\ steps'[m].number = steps[m].number
        /\ steps'[m].status = "completed" <=> steps[m].status = "completed"
  BY OpensRow, BlankRows DEF RowsEnd, Absent
<1>5. Done' = Done
  BY <1>3, <1>4 DEF Done
<1>6. Tries' = [Tries EXCEPT ![n] = @ + 1]
  BY <1>3, <1>4 DEF Tries
<1>7. n \notin Done /\ Tries[n] < MaxAttempts[n]
  BY <1>1, <1>3 DEF Done, Tries
<1> QED BY <1>2, <1>5, <1>6, <1>7 DEF Contract!Try, Contract!InProgress, Done, Tries

\* Every shape is a step of the contract, or none that it sees.
LEMMA ShapeKeepsContract ==
  ASSUME IInv, RowsEnd, Shape
  PROVE  [Contract!Next]_<<run.status, Done, Tries>>
<1>1. CASE Paused
  <2>1. Done' = Done /\ Tries' = Tries
    BY <1>1, Unseen DEF Paused
  <2> QED BY <1>1, <2>1 DEF Paused
<1>2. CASE Tick
  <2>1. Done' = Done /\ Tries' = Tries
    BY <1>2, TickRow, Unseen
  <2> QED BY <1>2, <2>1, TickRow
<1>3. ASSUME NEW st \in {"failed", "cancelled"}, Ends(st)
      PROVE  Contract!Next
  <2>1. Done' = Done /\ Tries' = Tries
    BY <1>3, EndsRow, UnfinishedStatus, Unseen DEF Terminal
  <2>2. run.status \notin Terminal
    BY <1>3 DEF Ends, Going
  <2>3. run'.status = st
    <3>1. st \in RunStatus /\ run \in RunType
      BY RowsTyped DEF RunStatus, IInv
    <3> QED BY <1>3, <3>1, RunRow DEF Ends
  <2> QED BY <2>1, <2>2, <2>3
          DEF Contract!Next, Contract!Stop, Contract!Ended, Terminal, Done, Tries
<1>4. ASSUME NEW delay \in Nat, Retries(delay)
      PROVE  UNCHANGED <<run.status, Done, Tries>>
  <2>1. Done' = Done /\ Tries' = Tries
    BY <1>4, RetriesRow, UnfinishedStatus, Unseen DEF Terminal
  <2>2. run'.status = run.status
    <3>1. run.status \in RunStatus /\ run \in RunType
      BY RowsTyped DEF RunStatus, RunType, IInv
    <3> QED BY <1>4, <3>1, RunRow DEF Retries
  <2> QED BY <2>1, <2>2
<1>5. ASSUME NEW n \in Nodes, Completes(n)
      PROVE  Contract!Next
  <2>1. /\ Unfinished(n) /\ run.status \in {"running", "waiting"}
        /\ run'.status = "running" /\ run.status \notin Terminal
    BY <1>5, CompletesRow DEF Completes, Terminal
  <2>2. Tries[n] > 0 /\ n \notin Done
    BY <2>1, ProgressMeansUnfinished
  <2>3. Done' = Done \cup {n} /\ Tries' = Tries
    BY <1>5, CompletesRow DEF Done, Tries
  <2>4. Contract!Complete(n)
    BY <2>1, <2>2, <2>3 DEF Contract!Complete, Contract!InProgress, Done, Tries
  <2> QED BY <2>4 DEF Contract!Next
<1>6. ASSUME NEW n \in Nodes, NEW status \in {"running", "waiting", "failed"},
             NEW row \in StepType, Opens(n, status, row)
      PROVE  Contract!Next
  <2>1. Contract!Try(n)
    BY <1>6, OpensTries
  <2>2. run'.status = status /\ run.status \in {"pending", "running"}
    BY <1>6, OpensRow DEF Opens
  <2>3. CASE status = "failed"
    BY <2>1, <2>2, <2>3 DEF Contract!Next, Contract!Stop, Contract!Ended
  <2>4. CASE status # "failed"
    BY <2>1, <2>2, <2>4 DEF Contract!Next, Contract!Start
  <2> QED BY <2>3, <2>4
<1>7. ASSUME NEW outcome \in {"completed", "failed"}, Finishes(outcome)
      PROVE  Contract!Next
  <2>1. /\ run'.status = outcome /\ run.status \in {"pending", "running"}
        /\ \A n \in Nodes : ~Unfinished(n) /\ run.status \notin Terminal
    BY <1>7, FinishesRow DEF Finishes, Terminal
  <2>2. \A n \in Nodes : /\ steps'[n].number = steps[n].number
                         /\ steps'[n].status = "completed" <=> steps[n].status = "completed"
    BY <1>7, FinishesRow, BlankRows DEF RowsEnd, Absent
  <2>3. Done' = Done /\ Tries' = Tries
    BY <2>2, Unseen
  <2>4. \A n \in Nodes : ~(Tries[n] > 0 /\ n \notin Done)
    BY <2>1, ProgressMeansUnfinished
  <2>5. CASE outcome = "completed"
    BY <2>1, <2>3, <2>4, <2>5
       DEF Contract!Next, Contract!Finish, Contract!InProgress, Done, Tries
  <2>6. CASE outcome = "failed"
    BY <2>1, <2>3, <2>6 DEF Contract!Next, Contract!Stop, Contract!Ended, Done, Tries
  <2> QED BY <2>5, <2>6
<1> QED BY <1>1, <1>2, <1>3, <1>4, <1>5, <1>6, <1>7 DEF Shape

\* The engine, with its queue, leases, clock and crashing workers, keeps the
\* contract of RunContract: one node at a time, each within its budget and done
\* at most once, and a run that ends once.
THEOREM Refinement == Spec => ImplementsContract
<1>1. Init => Contract!Init
  <2> SUFFICES ASSUME Init PROVE Contract!Init
    OBVIOUS
  <2>1. \A n \in Nodes : steps[n].number = 0 /\ steps[n].status = "absent"
    BY BlankRows DEF Init
  <2>2. Done = {} /\ Tries = [n \in Nodes |-> 0]
    BY <2>1 DEF Done, Tries
  <2>3. run.status = "pending"
    BY DEF Init
  <2> QED BY <2>2, <2>3 DEF Contract!Init, Done, Tries
<1>2. ASSUME History, [Next]_vars PROVE [Contract!Next]_<<run.status, Done, Tries>>
  BY <1>2, EveryShape, ShapeKeepsContract DEF History
<1> QED BY <1>1, <1>2, HistoryIsKept, PTL
        DEF Spec, ImplementsContract, Contract!Spec, Contract!contractVars, Done, Tries
=============================================================================
