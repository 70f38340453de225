--------------------------- MODULE Pipeline_proofs ---------------------------
(***************************************************************************)
(* Theorems about Pipeline, for any number of requests, retries and steps: *)
(* lemmas on what a transaction leaves of the steps, then one lemma per    *)
(* shape of action, and the theorems.                                      *)
(***************************************************************************)
EXTENDS Pipeline, SequenceTheorems, FiniteSetTheorems, WellFoundedInduction, TLAPS

-----------------------------------------------------------------------------
(* Positions. *)

\* A set of naturals that is not empty has a first one.
LEMMA FirstExists ==
  ASSUME NEW n \in Nat, NEW S \in SUBSET (0..n), S # {}
  PROVE  \E m \in S : \A j \in S : m <= j
<1> DEFINE R == {p \in Nat \X Nat : p[1] < p[2]}
<1>1. IsWellFoundedOn(R, Nat)
  BY NatLessThanWellFounded, Zenon DEF OpToRel
<1>2. PICK m \in S : \A j \in S : <<j, m>> \notin R
  <2> HIDE DEF R
  <2> QED BY <1>1, WFMin, \A k \in S : k \in Nat
<1>3. ASSUME NEW j \in S, j < m PROVE FALSE
  <2>1. <<j, m>> \in Nat \X Nat /\ <<j, m>>[1] < <<j, m>>[2]
    BY <1>3
  <2> QED BY <2>1, <1>2, Zenon
<1> QED BY <1>3

\* A set of positions that is not empty has a last one.
LEMMA LastExists ==
  ASSUME NEW n \in Nat, NEW S \in SUBSET (1..n), S # {}
  PROVE  \E m \in S : \A j \in S : j <= m
<1> DEFINE D == {n - m : m \in S}
<1>1. D # {} /\ D \in SUBSET (0..n)
  <2>1. \A m \in S : n - m \in 0..n
    OBVIOUS
  <2> QED BY <2>1
<1>2. PICK d \in D : \A e \in D : d <= e
  <2> HIDE DEF D
  <2> QED BY <1>1, FirstExists
<1>3. PICK m \in S : d = n - m
  BY <1>2
<1>4. ASSUME NEW j \in S PROVE j <= m
  <2>1. n - j \in D
    OBVIOUS
  <2> QED BY <1>2, <1>3, <2>1
<1> QED BY <1>3, <1>4

-----------------------------------------------------------------------------
\* LastOf finds it.
LEMMA LastIsLast ==
  ASSUME NEW n \in Nat, NEW S \in SUBSET (1..n), S # {}
  PROVE  LastOf(S) \in S /\ \A j \in S : j <= LastOf(S)
<1>1. \E m \in S : \A j \in S : j <= m
  BY LastExists
<1> QED BY <1>1, Zenon DEF LastOf

\* There is one last element only.
LEMMA LastIsUnique ==
  ASSUME NEW n \in Nat, NEW S \in SUBSET (1..n), NEW m \in S, \A j \in S : j <= m
  PROVE  LastOf(S) = m
<1>1. LastOf(S) \in S /\ \A j \in S : j <= LastOf(S)
  BY LastIsLast
<1>2. PICK k : k = LastOf(S)
  OBVIOUS
<1>3. k \in S /\ k <= m /\ m <= k
  BY <1>1, <1>2
<1>4. k \in 1..n /\ m \in 1..n
  BY <1>3
<1> QED BY <1>2, <1>3, <1>4

-----------------------------------------------------------------------------
(* What the types say of the sequences. *)

\* Steps and analyses have positions, finitely many of them, and types.
LEMMA StepPositions ==
  ASSUME TypeOK
  PROVE  /\ Len(steps) \in Nat /\ DOMAIN steps = 1..Len(steps)
         /\ \A i \in DOMAIN steps : steps[i] \in StepType
         /\ AnalysisSteps \subseteq 1..Len(steps)
         /\ \A agent, status : Of(agent, status) \subseteq 1..Len(steps)
<1>1. steps \in Seq(StepType)
  BY DEF TypeOK
<1>2. /\ Len(steps) \in Nat /\ DOMAIN steps = 1..Len(steps)
      /\ \A i \in DOMAIN steps : steps[i] \in StepType
  BY <1>1, LenProperties, ElementOfSeq
<1> QED BY <1>2 DEF AnalysisSteps, Of

\* So have approvals.
LEMMA ApprovalPositions ==
  ASSUME TypeOK
  PROVE  /\ Len(approvals) \in Nat /\ DOMAIN approvals = 1..Len(approvals)
         /\ \A k \in DOMAIN approvals : approvals[k] \in ApprovalType
         /\ \A status : Resolved(status) \subseteq 1..Len(approvals)
<1>1. approvals \in Seq(ApprovalType)
  BY DEF TypeOK
<1>2. /\ Len(approvals) \in Nat /\ DOMAIN approvals = 1..Len(approvals)
      /\ \A k \in DOMAIN approvals : approvals[k] \in ApprovalType
  BY <1>1, LenProperties, ElementOfSeq
<1> QED BY <1>2 DEF Resolved

\* At most one step is running if each is the last one.
LEMMA LastAlone ==
  ASSUME TypeOK, StepsInOrder
  PROVE  OneAgentAtWork
<1> DEFINE running == {i \in DOMAIN steps : steps[i].status = "running"}
<1>1. \A i \in running : i = Len(steps) /\ steps[i].agent \in AtWork
  BY DEF StepsInOrder
<1>2. running = {} \/ running = {Len(steps)}
  BY <1>1
<1>3. Cardinality(running) = 0 \/ Cardinality(running) = 1
  BY <1>2, FS_EmptySet, FS_Singleton
<1>4. Cardinality(running) <= 1
  BY <1>3
<1> QED BY <1>1, <1>4 DEF OneAgentAtWork

-----------------------------------------------------------------------------
(* What a transaction leaves. *)

\* A call made for an evaluation is remembered; nothing else of it changes.
LEMMA CallRemembered ==
  ASSUME TypeOK, NEW s \in Sessions, NEW call \in CallNames, Calls(s, call)
  PROVE  /\ evaluation' \in EvaluationType
         /\ evaluation'.status = evaluation.status
         /\ evaluation'.approved => evaluation.approved \/ call = "approved"
<1>1. evaluation \in EvaluationType
  BY DEF TypeOK
<1>2. CASE evaluation' = evaluation
  BY <1>1, <1>2
<1>3. CASE evaluation' = [evaluation EXCEPT !.last = call,
                            !.approved = @ \/ call = "approved"]
  <2>1. (evaluation.approved \/ call = "approved") \in BOOLEAN
    OBVIOUS
  <2> QED BY <1>1, <1>3, <2>1 DEF EvaluationType
<1> QED BY <1>2, <1>3 DEF Calls

\* An agent starts: its step comes last, and its session remembers it.
LEMMA Started ==
  ASSUME TypeOK, StepsInOrder, NEW s \in Sessions, NEW agent \in AgentNames,
         NEW about \in Nat, NEW edits \in EditsOrNone, Starts(s, agent, about, edits)
  PROVE  /\ steps' \in Seq(StepType)
         /\ Len(steps') = Len(steps) + 1 /\ DOMAIN steps' = 1..(Len(steps) + 1)
         /\ \A i \in DOMAIN steps : steps'[i] = steps[i]
         /\ steps'[Len(steps) + 1] = NewStep(agent, about, edits)
         /\ sessions' \in [Sessions -> SessionType]
         /\ \A r \in Sessions : sessions'[r].pc = "asking" => sessions'[r].step \in DOMAIN steps'
         /\ approvals' = approvals
<1> DEFINE new == NewStep(agent, about, edits)
<1>1. steps \in Seq(StepType) /\ new \in StepType /\ steps' = Append(steps, new)
  BY DEF TypeOK, NewStep, StepType, Starts
<1>2. /\ steps' \in Seq(StepType) /\ Len(steps') = Len(steps) + 1
      /\ \A i \in 1..Len(steps) : steps'[i] = steps[i]
      /\ steps'[Len(steps) + 1] = new
  <2> HIDE DEF new
  <2> QED BY <1>1, AppendProperties
<1>3. Len(steps) \in Nat /\ DOMAIN steps = 1..Len(steps)
  BY StepPositions
<1>4. DOMAIN steps' = 1..(Len(steps) + 1)
  BY <1>2, LenProperties
<1>5. sessions' = [sessions EXCEPT ![s] = [pc |-> "asking", step |-> Len(steps) + 1]]
  BY DEF Starts, Goes
<1>6. [pc |-> "asking", step |-> Len(steps) + 1] \in SessionType
  BY <1>3 DEF SessionType
<1>7. sessions' \in [Sessions -> SessionType]
  BY <1>5, <1>6 DEF TypeOK
<1>8. ASSUME NEW r \in Sessions, sessions'[r].pc = "asking"
      PROVE  sessions'[r].step \in DOMAIN steps'
  <2>1. CASE r = s
    BY <1>3, <1>4, <1>5, <2>1 DEF TypeOK
  <2>2. CASE r # s
    <3>1. sessions'[r] = sessions[r]
      BY <1>5, <2>2 DEF TypeOK
    <3>2. sessions[r].step \in 1..Len(steps)
      BY <1>3, <1>8, <3>1 DEF StepsInOrder
    <3> QED BY <1>3, <1>4, <3>1, <3>2
  <2> QED BY <2>1, <2>2
<1> QED BY <1>2, <1>3, <1>4, <1>7, <1>8 DEF Starts

\* Each agent works at one status of the run.
LEMMA WorksAt ==
  ASSUME TypeOK, NEW agent \in AtWork
  PROVE  /\ agent \in {"classifier", "timeline", "baseline"} <=> run.status = "running"
         /\ agent \in Analysing <=> run.status = "analyst_running"
         /\ agent = "reviewer" <=> run.status = "reviewer_running"
         /\ agent = "writer" <=> run.status = "writer_running"
  BY DEF AtWork, Analysing

\* Nobody works at the others.
LEMMA NobodyWorksAt ==
  ASSUME TypeOK, StepsInOrder,
         run.status \notin {"running", "analyst_running", "reviewer_running", "writer_running"}
  PROVE  \A i \in DOMAIN steps : steps[i].status # "running"
  BY DEF AtWork, StepsInOrder

\* Steps keep what they are about.
Kept ==
  /\ DOMAIN steps' = DOMAIN steps
  /\ \A i \in DOMAIN steps :
       /\ steps'[i].agent = steps[i].agent
       /\ steps'[i].about = steps[i].about
       /\ steps'[i].edits = steps[i].edits

\* Steps that change in nothing but their status leave the analyses as they are.
LEMMA AnalysesKept ==
  ASSUME Kept
  PROVE  /\ AnalysisSteps' = AnalysisSteps /\ LastAnalysis' = LastAnalysis
         /\ \A m : LastIs(m)' <=> LastIs(m)
<1>1. AnalysisSteps' = AnalysisSteps
  BY DEF Kept, AnalysisSteps
<1>2. LastAnalysis' = LastAnalysis
  BY <1>1 DEF LastAnalysis, LastOf
<1> QED BY <1>1, <1>2 DEF LastIs

\* An agent is done: its step was the last and is resolved.
LEMMA StepResolved ==
  ASSUME TypeOK, StepsInOrder, NEW s \in Sessions, NEW agent,
         NEW status \in {"completed", "failed"}, NEW approved \in BOOLEAN,
         Resolves(s, agent, status, approved)
  PROVE  /\ Len(steps) \in DOMAIN steps /\ sessions[s].step = Len(steps)
         /\ steps[Len(steps)].status = "running" /\ steps[Len(steps)].agent = agent
         /\ agent \in AtWork
         /\ steps' \in Seq(StepType) /\ Len(steps') = Len(steps)
         /\ Kept
         /\ steps'[Len(steps)].status = status
         /\ \A i \in DOMAIN steps : i # Len(steps) => steps'[i] = steps[i]
         /\ \A i \in DOMAIN steps' : steps'[i].status # "running"
         /\ sessions' \in [Sessions -> SessionType]
         /\ \A r \in Sessions : sessions'[r].pc = "asking" => sessions'[r].step \in DOMAIN steps'
         /\ evaluation' = evaluation
<1> DEFINE k == sessions[s].step
           new == [steps[k] EXCEPT !.status = status, !.approved = approved]
<1>1. k \in DOMAIN steps /\ steps[k].agent = agent /\ steps[k].status = "running"
  BY DEF Resolves, Commits, StepsInOrder
<1>2. k = Len(steps) /\ agent \in AtWork
  BY <1>1 DEF StepsInOrder
<1>3. DOMAIN steps = 1..Len(steps) /\ steps[k] \in StepType
  BY <1>1, StepPositions
<1>4. /\ new \in StepType
      /\ new.status = status /\ new.agent = steps[k].agent
      /\ new.about = steps[k].about /\ new.edits = steps[k].edits
  BY <1>3 DEF StepType
<1>5. steps' = [steps EXCEPT ![k] = new]
  BY <1>1 DEF Resolves
<1>6. /\ steps' \in Seq(StepType) /\ Len(steps') = Len(steps)
      /\ \A i \in 1..Len(steps) : steps'[i] = IF i = k THEN new ELSE steps[i]
  <2>1. steps \in Seq(StepType)
    BY DEF TypeOK
  <2> HIDE DEF new, k
  <2> QED BY <1>1, <1>3, <1>4, <1>5, <2>1, ExceptSeq
<1>7. DOMAIN steps' = DOMAIN steps
  BY <1>3, <1>6, LenProperties
<1>8. Kept
  <2> HIDE DEF new
  <2> QED BY <1>3, <1>4, <1>6, <1>7 DEF Kept
<1>9. ASSUME NEW i \in DOMAIN steps' PROVE steps'[i].status # "running"
  <2>1. i \in 1..Len(steps) /\ i \in DOMAIN steps
    BY <1>3, <1>7
  <2>2. CASE i = k
    <3> HIDE DEF new, k
    <3>1. steps'[i] = new
      BY <1>6, <2>1, <2>2
    <3> QED BY <1>4, <3>1
  <2>3. CASE i # k
    <3>1. steps'[i] = steps[i] /\ i # Len(steps)
      BY <1>2, <1>6, <2>1, <2>3
    <3> QED BY <2>1, <3>1 DEF StepsInOrder
  <2> QED BY <2>2, <2>3
<1>10. sessions' = [sessions EXCEPT ![s] = [pc |-> "idle", step |-> 0]]
  BY DEF Resolves, Done, Idle
<1>11. [pc |-> "idle", step |-> 0] \in SessionType
  BY DEF SessionType
<1>12. sessions' \in [Sessions -> SessionType]
  BY <1>10, <1>11 DEF TypeOK
<1>13. \A r \in Sessions : sessions'[r].pc = "asking" => sessions'[r].step \in DOMAIN steps'
  BY <1>7, <1>10 DEF TypeOK, StepsInOrder
<1>14. evaluation' = evaluation
  BY DEF Resolves
<1> HIDE DEF k, new
<1> QED BY <1>1, <1>2, <1>3, <1>4, <1>6, <1>8, <1>9, <1>12, <1>13, <1>14 DEF k

\* Approvals that nobody touches are where they were, and about what they were.
LEMMA ApprovalsKept ==
  ASSUME TypeOK, approvals' = approvals, NEW k \in DOMAIN approvals,
         approvals[k].review \in DOMAIN steps, LastAnalysis' = LastAnalysis,
         \A i \in DOMAIN steps : steps'[i].about = steps[i].about
  PROVE  AboutLast(approvals[k])' <=> AboutLast(approvals[k])
  BY DEF AboutLast

-----------------------------------------------------------------------------
(* An agent is done, and the run goes on or fails. *)

\* What is common to all agents that are done: where no approval changes, the
\* run may go on to any status at which its analysis is what it has to be.
LEMMA GoesOn ==
  ASSUME IInv, NEW s \in Sessions, NEW agent,
         NEW status \in {"completed", "failed"}, NEW approved \in BOOLEAN,
         Resolves(s, agent, status, approved),
         approvals' = approvals, run' \in RunType, run'.kind = run.kind,
         run'.status \in {"running", "reviewer_running", "retrying", "failed"},
         run'.status = "running" => run.status = "running",
         run.status = "writer_running" => run'.status = "failed",
         run.kind = "baseline" => run'.status \in Early,
         run'.status \in {"reviewer_running", "retrying"} =>
           \E m \in DOMAIN steps : LastIs(m) /\ steps'[m].status = "completed"
  PROVE  IInv'
<1>1. TypeOK /\ StepsInOrder /\ AnalysisComplete /\ ApprovalsInOrder /\ ReportAsApproved
  BY DEF IInv
<1>2. /\ steps' \in Seq(StepType) /\ Len(steps') = Len(steps) /\ Kept
      /\ \A i \in DOMAIN steps' : steps'[i].status # "running"
      /\ sessions' \in [Sessions -> SessionType]
      /\ \A r \in Sessions : sessions'[r].pc = "asking" => sessions'[r].step \in DOMAIN steps'
      /\ evaluation' = evaluation /\ agent \in AtWork
  BY <1>1, StepResolved
<1>3. /\ AnalysisSteps' = AnalysisSteps /\ LastAnalysis' = LastAnalysis
      /\ \A m : LastIs(m)' <=> LastIs(m)
  BY <1>2, AnalysesKept
<1>4. run.status \in {"running", "analyst_running", "reviewer_running", "writer_running"}
  BY <1>1, <1>2 DEF AtWork
<1>5. TypeOK'
  BY <1>1, <1>2 DEF TypeOK
<1>6. StepsInOrder'
  BY <1>1, <1>2 DEF StepsInOrder
<1>7. AnalysisComplete'
  <2>1. \A i \in AnalysisSteps' : steps'[i].agent = AnalystOf(run'.kind)
    BY <1>1, <1>2, <1>3 DEF AnalysisComplete, Kept, AnalysisSteps
  <2>2. run'.kind # "baseline" /\ run'.status \notin Early \cup {"analyst_running"} =>
          \E m \in DOMAIN steps' : LastIs(m)' /\ steps'[m].status = "completed"
    BY <1>2, <1>3 DEF Early, Kept
  <2> QED BY <1>2, <2>1, <2>2 DEF AnalysisComplete
<1>8. ApprovalsInOrder'
  <2>1. /\ DOMAIN steps' = DOMAIN steps
        /\ \A st : Resolved(st)' = Resolved(st)
    BY <1>2 DEF Kept, Resolved
  <2>2. Resolved("pending") = {} /\ (run'.status # "failed" => Resolved("approved") = {})
    BY <1>1, <1>4 DEF ApprovalsInOrder, Terminal
  <2>3. ASSUME Resolved("approved") # {}
        PROVE  \E k \in DOMAIN approvals :
                 /\ Resolved("approved") = {k}
                 /\ AboutLast(approvals[k])'
    <3>1. PICK k \in DOMAIN approvals : Resolved("approved") = {k} /\ AboutLast(approvals[k])
      BY <1>1, <2>3 DEF ApprovalsInOrder
    <3>2. AboutLast(approvals[k])'
      BY <1>1, <1>2, <1>3, <3>1, ApprovalsKept DEF ApprovalsInOrder, Kept
    <3> QED BY <3>1, <3>2
  <2> QED BY <1>1, <1>2, <2>1, <2>2, <2>3 DEF ApprovalsInOrder, Terminal
<1>9. ReportAsApproved'
  BY <1>1, <1>2, <1>4 DEF ReportAsApproved
<1> QED BY <1>5, <1>6, <1>7, <1>8, <1>9 DEF IInv

\* A provider fails, at whatever agent.
LEMMA FailsInv ==
  ASSUME IInv, NEW s \in Sessions, NEW agent, Fails(s, agent)
  PROVE  IInv'
<1>1. run \in RunType
  BY DEF IInv, TypeOK
<1>2. /\ run' \in RunType /\ run'.kind = run.kind /\ run'.status = "failed"
      /\ approvals' = approvals /\ Resolves(s, agent, "failed", FALSE)
  BY <1>1 DEF Fails, Moves, RunType, ValidTransitions
<1> QED BY <1>2, GoesOn DEF Early

\* What prepares an analysis is done.
LEMMA OpenedInv ==
  ASSUME IInv, NEW s \in Sessions, NEW agent \in {"classifier", "timeline"},
         Opened(s, agent)
  PROVE  IInv'
<1>1. TypeOK /\ StepsInOrder /\ run \in RunType
  BY DEF IInv, TypeOK
<1>2. Resolves(s, agent, "completed", FALSE) /\ run' = run /\ approvals' = approvals
  BY DEF Opened
<1>3. agent \in AtWork
  BY <1>1, <1>2, StepResolved
<1>4. run.status = "running"
  BY <1>1, <1>3, WorksAt
<1> QED BY <1>1, <1>2, <1>4, GoesOn DEF Early

\* An analysis is done, and it is the last.
LEMMA AnalysedInv ==
  ASSUME IInv, NEW s \in Sessions, NEW agent \in Analysing, Analysed(s, agent)
  PROVE  IInv'
<1>1. TypeOK /\ StepsInOrder /\ AnalysisComplete /\ run \in RunType
  BY DEF IInv, TypeOK
<1>2. Resolves(s, agent, "completed", FALSE) /\ approvals' = approvals
  BY DEF Analysed
<1>3. /\ run' \in RunType /\ run'.kind = run.kind /\ run'.status = "reviewer_running"
  BY <1>1 DEF Analysed, Moves, RunType, ValidTransitions
<1>4. /\ agent \in AtWork /\ Len(steps) \in DOMAIN steps
      /\ steps[Len(steps)].status = "running" /\ steps[Len(steps)].agent = agent
      /\ steps'[Len(steps)].status = "completed"
  BY <1>1, <1>2, StepResolved
<1>5. run.status = "analyst_running"
  BY <1>1, <1>4, WorksAt
<1>6. run.kind # "baseline"
  BY <1>1, <1>5 DEF AnalysisComplete, Early
<1>7. LastIs(Len(steps))
  BY <1>1, <1>4 DEF AnalysisComplete
<1> QED BY <1>2, <1>3, <1>4, <1>5, <1>6, <1>7, GoesOn DEF Early

\* At work on a review, the run has an analysis.
LEMMA ReviewedInv ==
  ASSUME IInv, NEW agent \in AtWork, agent \in {"reviewer", "writer"}
  PROVE  /\ run.kind # "baseline"
         /\ \E m \in DOMAIN steps : LastIs(m) /\ steps[m].status = "completed"
<1>1. TypeOK /\ AnalysisComplete
  BY DEF IInv
<1>2. run.status \in {"reviewer_running", "writer_running"}
  BY <1>1, WorksAt
<1> QED BY <1>1, <1>2 DEF AnalysisComplete, Early

\* A review sends the analysis back.
LEMMA AutoRetryInv ==
  ASSUME IInv, NEW s \in Sessions, NEW approved \in BOOLEAN, AutoRetry(s, approved)
  PROVE  IInv'
<1>1. TypeOK /\ StepsInOrder /\ AnalysisComplete /\ run \in RunType
  BY DEF IInv, TypeOK
<1>2. Resolves(s, "reviewer", "completed", approved) /\ approvals' = approvals
  BY DEF AutoRetry
<1>3. /\ run' \in RunType /\ run'.kind = run.kind /\ run'.status = "retrying"
  BY <1>1 DEF AutoRetry, Moves, RunType, ValidTransitions
<1>4. /\ "reviewer" \in AtWork /\ steps[Len(steps)].status = "running"
      /\ \A i \in DOMAIN steps : i # Len(steps) => steps'[i] = steps[i]
  BY <1>1, <1>2, StepResolved
<1>5. run.status = "reviewer_running"
  BY <1>1, <1>4, WorksAt
<1>6. PICK m \in DOMAIN steps : LastIs(m) /\ steps[m].status = "completed"
  BY <1>4, ReviewedInv
<1>7. run.kind # "baseline"
  BY <1>4, ReviewedInv
<1>8. steps'[m].status = "completed"
  BY <1>4, <1>6
<1> QED BY <1>2, <1>3, <1>5, <1>6, <1>7, <1>8, GoesOn

\* A review asks the human, about itself and so about the last analysis.
LEMMA AsksHumanInv ==
  ASSUME IInv, NEW s \in Sessions, NEW approved \in BOOLEAN, AsksHuman(s, approved)
  PROVE  IInv'
<1> DEFINE new == NewApproval(sessions[s].step)
<1>0. PICK n : n = Len(approvals) + 1
  OBVIOUS
<1>1. /\ TypeOK /\ StepsInOrder /\ AnalysisComplete /\ ApprovalsInOrder
      /\ ReportAsApproved /\ run \in RunType
  BY DEF IInv, TypeOK
<1>2. Resolves(s, "reviewer", "completed", approved)
  BY DEF AsksHuman
<1>3. /\ run' \in RunType /\ run'.kind = run.kind /\ run'.status = "waiting_for_human"
  BY <1>1 DEF AsksHuman, Moves, RunType, ValidTransitions
<1>4. /\ Len(steps) \in DOMAIN steps /\ sessions[s].step = Len(steps)
      /\ steps[Len(steps)].status = "running" /\ steps[Len(steps)].agent = "reviewer"
      /\ "reviewer" \in AtWork
      /\ steps' \in Seq(StepType) /\ Len(steps') = Len(steps) /\ Kept
      /\ \A i \in DOMAIN steps : i # Len(steps) => steps'[i] = steps[i]
      /\ \A i \in DOMAIN steps' : steps'[i].status # "running"
      /\ sessions' \in [Sessions -> SessionType]
      /\ \A r \in Sessions : sessions'[r].pc = "asking" => sessions'[r].step \in DOMAIN steps'
      /\ evaluation' = evaluation
  BY <1>1, <1>2, StepResolved
<1>5. run.status = "reviewer_running"
  BY <1>1, <1>4, WorksAt
<1>6. /\ AnalysisSteps' = AnalysisSteps /\ LastAnalysis' = LastAnalysis
      /\ \A m : LastIs(m)' <=> LastIs(m)
  BY <1>4, AnalysesKept
<1>7. Resolved("pending") = {} /\ Resolved("approved") = {}
  BY <1>1, <1>5 DEF ApprovalsInOrder, Terminal
<1>8. approvals' = Append(approvals, new) /\ approvals \in Seq(ApprovalType)
  BY <1>1, <1>7 DEF AsksHuman, TypeOK
<1>9. sessions[s].step \in Nat /\ new \in ApprovalType
  <2>1. sessions[s].step \in Nat
    BY <1>1, <1>4, StepPositions
  <2> QED BY <2>1 DEF NewApproval, ApprovalType, EditsOrNone
<1>10. /\ approvals' \in Seq(ApprovalType) /\ DOMAIN approvals' = 1..n
       /\ \A k \in 1..Len(approvals) : approvals'[k] = approvals[k]
       /\ approvals'[n] = new
  <2> HIDE DEF new
  <2>1. /\ approvals' \in Seq(ApprovalType) /\ Len(approvals') = n
        /\ \A k \in 1..Len(approvals) : approvals'[k] = approvals[k]
        /\ approvals'[n] = new
    BY <1>0, <1>8, <1>9, AppendProperties
  <2>2. DOMAIN approvals' = 1..n
    BY <2>1, LenProperties
  <2> QED BY <2>1, <2>2
<1>11. DOMAIN approvals = 1..Len(approvals) /\ Len(approvals) \in Nat
  BY <1>1, ApprovalPositions
<1>12. new.status = "pending" /\ new.review = Len(steps)
  BY <1>4 DEF NewApproval
<1>13. Resolved("pending")' = {n} /\ Resolved("approved")' = {}
  <2> HIDE DEF new
  <2> QED BY <1>0, <1>7, <1>10, <1>11, <1>12 DEF Resolved
<1>14. AboutLast(approvals[n])'
  <2> HIDE DEF new
  <2>1. steps[Len(steps)].about = LastAnalysis
    BY <1>1, <1>4 DEF AnalysisComplete
  <2> QED BY <1>4, <1>6, <1>10, <1>11, <1>12, <2>1 DEF AboutLast, Kept
<1>15. TypeOK'
  BY <1>1, <1>3, <1>4, <1>10 DEF TypeOK
<1>16. StepsInOrder'
  BY <1>3, <1>4 DEF StepsInOrder
<1>17. AnalysisComplete'
  <2>1. \A i \in AnalysisSteps' : steps'[i].agent = AnalystOf(run'.kind)
    BY <1>1, <1>3, <1>4, <1>6 DEF AnalysisComplete, Kept, AnalysisSteps
  <2>2. PICK m \in DOMAIN steps : LastIs(m) /\ steps[m].status = "completed"
    BY <1>4, ReviewedInv
  <2>3. run.kind # "baseline"
    BY <1>4, ReviewedInv
  <2>4. m \in DOMAIN steps' /\ LastIs(m)' /\ steps'[m].status = "completed"
    BY <1>4, <1>6, <2>2 DEF Kept
  <2> QED BY <1>3, <1>4, <2>1, <2>3, <2>4 DEF AnalysisComplete
<1>18. ApprovalsInOrder'
  <2>1. \A k \in DOMAIN approvals' : approvals'[k].review \in DOMAIN steps'
    <3> HIDE DEF new
    <3> QED BY <1>0, <1>1, <1>4, <1>10, <1>11, <1>12 DEF ApprovalsInOrder, Kept
  <2>2. ~evaluation'.approved
    BY <1>1, <1>4, <1>7 DEF ApprovalsInOrder
  <2>3. n \in DOMAIN approvals'
    BY <1>0, <1>10, <1>11
  <2> HIDE DEF new
  <2> QED BY <1>3, <1>13, <1>14, <2>1, <2>2, <2>3 DEF ApprovalsInOrder
<1>19. ReportAsApproved'
  <2>1. Cardinality(Resolved("pending")') = 1
    BY <1>13, FS_Singleton
  <2>2. evaluation'.status # "completed"
    BY <1>1, <1>4, <1>5 DEF ReportAsApproved
  <2> HIDE DEF new
  <2> QED BY <1>3, <1>13, <1>14, <2>1, <2>2 DEF ReportAsApproved
<1> HIDE DEF new
<1> QED BY <1>15, <1>16, <1>17, <1>18, <1>19 DEF IInv

\* The writer reports what was approved; the baseline answers to nobody.
LEMMA ReportsInv ==
  ASSUME IInv, NEW s \in Sessions, NEW agent \in {"writer", "baseline"}, Reports(s, agent),
         agent = "baseline" => run.kind = "baseline"
  PROVE  IInv'
<1>1. /\ TypeOK /\ StepsInOrder /\ AnalysisComplete /\ ApprovalsInOrder
      /\ ReportAsApproved /\ run \in RunType
  BY DEF IInv, TypeOK
<1>2. /\ Resolves(s, agent, "completed", FALSE) /\ approvals' = approvals
      /\ run' = [run EXCEPT !.status = "completed", !.report = sessions[s].step]
  BY DEF Reports
<1>3. /\ Len(steps) \in DOMAIN steps /\ sessions[s].step = Len(steps)
      /\ steps[Len(steps)].status = "running" /\ steps[Len(steps)].agent = agent
      /\ agent \in AtWork
      /\ steps' \in Seq(StepType) /\ Len(steps') = Len(steps) /\ Kept
      /\ \A i \in DOMAIN steps : i # Len(steps) => steps'[i] = steps[i]
      /\ \A i \in DOMAIN steps' : steps'[i].status # "running"
      /\ sessions' \in [Sessions -> SessionType]
      /\ \A r \in Sessions : sessions'[r].pc = "asking" => sessions'[r].step \in DOMAIN steps'
      /\ evaluation' = evaluation
  BY <1>1, <1>2, StepResolved
<1>4. run.status = IF agent = "writer" THEN "writer_running" ELSE "running"
  BY <1>1, <1>3, WorksAt
<1>5. /\ run' \in RunType /\ run'.kind = run.kind /\ run'.status = "completed"
      /\ run'.report = Len(steps)
  <2>1. sessions[s].step \in Nat
    BY <1>1, <1>3, StepPositions
  <2> QED BY <1>1, <1>2, <1>3, <2>1 DEF RunType, ValidTransitions
<1>6. /\ AnalysisSteps' = AnalysisSteps /\ LastAnalysis' = LastAnalysis
      /\ \A m : LastIs(m)' <=> LastIs(m)
  BY <1>3, AnalysesKept
<1>7. /\ \A st : Resolved(st)' = Resolved(st)
      /\ Resolved("pending") = {} /\ DOMAIN steps' = DOMAIN steps
  BY <1>1, <1>2, <1>3, <1>4 DEF ApprovalsInOrder, Resolved, Kept
<1>8. TypeOK'
  BY <1>1, <1>2, <1>3, <1>5 DEF TypeOK
<1>9. StepsInOrder'
  BY <1>3, <1>5 DEF StepsInOrder
<1>10. AnalysisComplete'
  <2>1. \A i \in AnalysisSteps' : steps'[i].agent = AnalystOf(run'.kind)
    BY <1>1, <1>3, <1>5, <1>6 DEF AnalysisComplete, Kept, AnalysisSteps
  <2>2. ASSUME run.kind # "baseline"
        PROVE  \E m \in DOMAIN steps' : LastIs(m)' /\ steps'[m].status = "completed"
    <3>1. agent = "writer"
      BY <2>2
    <3>2. PICK m \in DOMAIN steps : LastIs(m) /\ steps[m].status = "completed"
      BY <1>3, <3>1, ReviewedInv
    <3> QED BY <1>3, <1>6, <1>7, <3>2
  <2> QED BY <1>3, <1>5, <2>1, <2>2 DEF AnalysisComplete
<1>11. ASSUME Resolved("approved") # {}
       PROVE  \E k \in DOMAIN approvals :
                /\ Resolved("approved") = {k}
                /\ AboutLast(approvals[k])'
                /\ agent = "writer" => steps'[run'.report].edits = approvals[k].edits
  <2>1. PICK k \in DOMAIN approvals :
               /\ Resolved("approved") = {k} /\ AboutLast(approvals[k])
               /\ \A i \in DOMAIN steps :
                    steps[i].agent = "writer" /\ steps[i].status = "running" =>
                      steps[i].edits = approvals[k].edits
    BY <1>1, <1>11 DEF ApprovalsInOrder
  <2>2. AboutLast(approvals[k])'
    BY <1>1, <1>2, <1>3, <1>6, <2>1, ApprovalsKept DEF ApprovalsInOrder, Kept
  <2>3. agent = "writer" => steps'[run'.report].edits = approvals[k].edits
    BY <1>3, <1>5, <2>1 DEF Kept
  <2> QED BY <2>1, <2>2, <2>3
<1>12. ApprovalsInOrder'
  BY <1>1, <1>2, <1>3, <1>5, <1>7, <1>11 DEF ApprovalsInOrder, Terminal
<1>13. ReportAsApproved'
  <2>1. ASSUME run.kind # "baseline"
        PROVE  \E i \in Resolved("approved")' :
                 /\ AboutLast(approvals[i])'
                 /\ steps'[run'.report].about = LastAnalysis'
                 /\ steps'[run'.report].edits = approvals'[i].edits
    <3>1. agent = "writer"
      BY <2>1
    <3>2. Resolved("approved") # {}
      BY <1>1, <1>4, <3>1 DEF ApprovalsInOrder
    <3>3. PICK k \in DOMAIN approvals :
                /\ Resolved("approved") = {k}
                /\ AboutLast(approvals[k])'
                /\ steps'[run'.report].edits = approvals[k].edits
      BY <1>11, <3>1, <3>2
    <3>4. steps'[run'.report].about = LastAnalysis'
      BY <1>1, <1>3, <1>5, <1>6, <3>1 DEF AnalysisComplete, Kept
    <3> QED BY <1>2, <1>7, <3>3, <3>4
  <2>2. evaluation'.status # "completed"
    BY <1>1, <1>3, <1>4 DEF ReportAsApproved
  <2> QED BY <1>5, <2>1, <2>2 DEF ReportAsApproved
<1> QED BY <1>8, <1>9, <1>10, <1>12, <1>13 DEF IInv

-----------------------------------------------------------------------------
(* An agent starts. *)

\* An agent starts, with its run at the status that it works at: one analysis
\* more, or a step about the analysis that is the last one already.
LEMMA StartsInv ==
  ASSUME IInv, NEW s \in Sessions, NEW agent \in AgentNames,
         NEW about \in Nat, NEW edits \in EditsOrNone, Starts(s, agent, about, edits),
         \A i \in DOMAIN steps : steps[i].status # "running",
         run' \in RunType, run'.kind = run.kind, agent \in AtWork',
         run'.status = "running" => steps = <<>>,
         agent \in Analysing => agent = AnalystOf(run.kind),
         agent \in {"reviewer", "writer"} => about = LastAnalysis /\ run' = run,
         agent = "writer" => edits = ApprovedEdits,
         run.status # "waiting_for_human",
         run.kind = "baseline" => run'.status \in Early,
         agent # "writer" => run.status # "writer_running"
  PROVE  IInv'
<1> DEFINE new == NewStep(agent, about, edits)
<1>0. PICK n : n = Len(steps) + 1
  OBVIOUS
<1>1. /\ TypeOK /\ StepsInOrder /\ AnalysisComplete /\ ApprovalsInOrder
      /\ ReportAsApproved /\ run \in RunType
  BY DEF IInv, TypeOK
<1>2. /\ steps' \in Seq(StepType) /\ Len(steps') = n /\ DOMAIN steps' = 1..n
      /\ \A i \in DOMAIN steps : steps'[i] = steps[i]
      /\ steps'[n] = new
      /\ sessions' \in [Sessions -> SessionType]
      /\ \A r \in Sessions : sessions'[r].pc = "asking" => sessions'[r].step \in DOMAIN steps'
      /\ approvals' = approvals
  BY <1>0, <1>1, Started
<1>3. /\ new.agent = agent /\ new.status = "running" /\ new.about = about
      /\ new.edits = edits
  BY DEF NewStep
<1>4. DOMAIN steps = 1..Len(steps) /\ Len(steps) \in Nat
  BY <1>1, StepPositions
<1>5. run.status \notin Terminal
  BY DEF Starts, Commits
<1>6. /\ run'.status \in {"running", "analyst_running", "reviewer_running", "writer_running"}
      /\ agent \in Analysing <=> run'.status = "analyst_running"
      /\ agent = "reviewer" <=> run'.status = "reviewer_running"
      /\ agent = "writer" <=> run'.status = "writer_running"
  BY DEF AtWork, Analysing
<1>7. /\ evaluation' \in EvaluationType /\ evaluation'.status = evaluation.status
      /\ evaluation'.approved => evaluation.approved
  <2>1. agent \in CallNames /\ agent # "approved" /\ Calls(s, agent)
    BY DEF CallNames, Starts, AgentNames, Analysing
  <2> QED BY <1>1, <2>1, CallRemembered
<1> HIDE DEF new
<1>8. n \in DOMAIN steps' /\ n \notin DOMAIN steps /\ DOMAIN steps' = DOMAIN steps \cup {n}
  BY <1>0, <1>2, <1>4
<1>9. AnalysisSteps' = AnalysisSteps \cup (IF agent \in Analysing THEN {n} ELSE {})
  BY <1>2, <1>3, <1>8 DEF AnalysisSteps
<1>10. StepsInOrder'
  <2>1. run'.status = "running" => Len(steps') = 1
    BY <1>0, <1>2, EmptySeq
  <2>2. \A i \in DOMAIN steps' :
          steps'[i].status = "running" => i = n /\ steps'[i].agent = agent
    BY <1>2, <1>3, <1>8
  <2> QED BY <1>2, <1>6, <2>1, <2>2 DEF StepsInOrder
<1>11. CASE agent \in Analysing
  <2>1. LastIs(n)'
    BY <1>0, <1>4, <1>9, <1>11 DEF LastIs, AnalysisSteps
  <2>2. TypeOK'
    BY <1>1, <1>2, <1>7 DEF TypeOK
  <2>3. AnalysisComplete'
    <3>1. \A i \in AnalysisSteps' : steps'[i].agent = AnalystOf(run'.kind)
      BY <1>1, <1>2, <1>3, <1>9, <1>11 DEF AnalysisComplete, AnalysisSteps
    <3>2. agent \notin {"reviewer", "writer"}
      BY <1>11 DEF Analysing
    <3> QED BY <1>2, <1>3, <1>6, <1>8, <1>11, <2>1, <3>1, <3>2 DEF AnalysisComplete
  <2>4. Resolved("pending") = {} /\ Resolved("approved") = {}
    <3>1. run.status # "writer_running" /\ run.status # "cancelled"
      BY <1>5, <1>11 DEF Analysing, Terminal
    <3> QED BY <1>1, <1>5, <3>1 DEF ApprovalsInOrder
  <2>5. \A st : Resolved(st)' = Resolved(st)
    BY <1>2 DEF Resolved
  <2>6. ApprovalsInOrder'
    BY <1>1, <1>2, <1>6, <1>7, <1>8, <1>11, <2>4, <2>5 DEF ApprovalsInOrder, Terminal
  <2>7. ReportAsApproved'
    BY <1>1, <1>5, <1>6, <1>7 DEF ReportAsApproved, Terminal
  <2> QED BY <1>10, <2>2, <2>3, <2>6, <2>7 DEF IInv
<1>12. CASE agent \notin Analysing
  <2>1. /\ AnalysisSteps' = AnalysisSteps
        /\ \A m : LastIs(m)' <=> LastIs(m)
    BY <1>9, <1>12 DEF LastIs
  <2>2. LastAnalysis' = LastAnalysis
    BY <2>1 DEF LastAnalysis, LastOf
  <2>3. TypeOK'
    BY <1>1, <1>2, <1>7 DEF TypeOK
  <2>4. AnalysisComplete'
    <3>1. \A i \in AnalysisSteps' : steps'[i].agent = AnalystOf(run'.kind)
      BY <1>1, <1>2, <2>1 DEF AnalysisComplete, AnalysisSteps
    <3>2. ASSUME run'.kind # "baseline", run'.status \notin Early \cup {"analyst_running"}
          PROVE  \E m \in DOMAIN steps' : LastIs(m)' /\ steps'[m].status = "completed"
      <4>1. run' = run
        BY <1>6, <3>2 DEF Early
      <4>2. PICK m \in DOMAIN steps : LastIs(m) /\ steps[m].status = "completed"
        BY <1>1, <3>2, <4>1 DEF AnalysisComplete
      <4> QED BY <1>2, <1>8, <2>1, <4>2
    <3>3. \A i \in DOMAIN steps' :
            steps'[i].status = "running" =>
              /\ steps'[i].agent \notin Analysing
              /\ steps'[i].agent \in {"reviewer", "writer"} => steps'[i].about = LastAnalysis'
      BY <1>2, <1>3, <1>8, <1>12, <2>2
    <3> QED BY <3>1, <3>2, <3>3 DEF AnalysisComplete
  <2>5. \A st : Resolved(st)' = Resolved(st)
    BY <1>2 DEF Resolved
  <2>6. Resolved("pending") = {}
    BY <1>1, <1>5 DEF ApprovalsInOrder, Terminal
  <2>7. ASSUME Resolved("approved") # {}
        PROVE  \E k \in DOMAIN approvals :
                 /\ Resolved("approved") = {k}
                 /\ AboutLast(approvals[k])'
                 /\ agent = "writer" => edits = approvals[k].edits
    <3>1. PICK k \in DOMAIN approvals :
                 Resolved("approved") = {k} /\ AboutLast(approvals[k])
      BY <1>1, <2>7 DEF ApprovalsInOrder
    <3>2. AboutLast(approvals[k])'
      BY <1>1, <1>2, <2>2, <3>1, ApprovalsKept DEF ApprovalsInOrder
    <3>3. LastOf({k}) = k
      <4>1. {k} \in SUBSET (1..Len(approvals)) /\ Len(approvals) \in Nat /\ k <= k
        BY <1>1, ApprovalPositions
      <4> QED BY <4>1, LastIsUnique
    <3>4. agent = "writer" => edits = approvals[k].edits
      BY <3>1, <3>3 DEF ApprovedEdits
    <3> QED BY <3>1, <3>2, <3>4
  <2>8. ApprovalsInOrder'
    <3>1. agent # "writer" => Resolved("approved") = {}
      BY <1>1, <1>5 DEF ApprovalsInOrder
    <3>2. agent = "writer" => Resolved("approved") # {}
      BY <1>1, <1>6 DEF ApprovalsInOrder
    <3>3. \A i \in DOMAIN steps' :
            steps'[i].agent = "writer" /\ steps'[i].status = "running" =>
              agent = "writer" /\ steps'[i].edits = edits
      BY <1>2, <1>3, <1>8
    <3>4. Resolved("approved")' # {} =>
            \E k \in DOMAIN approvals' :
              /\ Resolved("approved")' = {k}
              /\ AboutLast(approvals[k])'
              /\ \A i \in DOMAIN steps' :
                   steps'[i].agent = "writer" /\ steps'[i].status = "running" =>
                     steps'[i].edits = approvals'[k].edits
      BY <1>2, <2>5, <2>7, <3>3
    <3>5. \A k \in DOMAIN approvals' : approvals'[k].review \in DOMAIN steps'
      BY <1>1, <1>2, <1>8 DEF ApprovalsInOrder
    <3> QED BY <1>1, <1>6, <1>7, <2>5, <2>6, <3>1, <3>2, <3>4, <3>5
            DEF ApprovalsInOrder, Terminal
  <2>9. ReportAsApproved'
    BY <1>1, <1>5, <1>6, <1>7 DEF ReportAsApproved, Terminal
  <2> QED BY <1>10, <2>3, <2>4, <2>8, <2>9 DEF IInv
<1> QED BY <1>11, <1>12

\* Classifier, timeline and baseline are the first agents of their runs.
LEMMA OpensInv ==
  ASSUME IInv, NEW s \in Sessions, NEW agent \in {"classifier", "timeline", "baseline"},
         Opens(s, agent)
  PROVE  IInv'
<1>1. TypeOK /\ StepsInOrder /\ run \in RunType
  BY DEF IInv, TypeOK
<1>2. run.status = "created" /\ steps = <<>> /\ Starts(s, agent, 0, NoEdit)
  BY <1>1 DEF Opens, StepsInOrder
<1>3. run' \in RunType /\ run'.kind = run.kind /\ run'.status = "running"
  BY <1>1 DEF Opens, Moves, RunType, ValidTransitions
<1>4. agent \in AgentNames \ Analysing /\ NoEdit \in EditsOrNone
  BY DEF AgentNames, Analysing, EditsOrNone
<1>5. agent \in AtWork'
  BY <1>3 DEF AtWork
<1>6. \A i \in DOMAIN steps : steps[i].status # "running"
  BY <1>1, <1>2, NobodyWorksAt
<1> QED BY <1>2, <1>3, <1>4, <1>5, <1>6, StartsInv DEF Early

\* The first analysis of a run of the sales team.
LEMMA StartAnalystInv ==
  ASSUME IInv, NEW s \in Sessions, run.kind = "sales", StartAnalyst(s)
  PROVE  IInv'
<1>1. TypeOK /\ StepsInOrder /\ run \in RunType
  BY DEF IInv, TypeOK
<1>2. run.status = "created" /\ Starts(s, "analyst", 0, NoEdit)
  BY DEF StartAnalyst
<1>3. run' \in RunType /\ run'.kind = "sales" /\ run'.status = "analyst_running"
  BY <1>1 DEF StartAnalyst, RunType, ValidTransitions
<1>4. "analyst" \in AgentNames /\ NoEdit \in EditsOrNone /\ "analyst" = AnalystOf(run.kind)
  BY DEF AgentNames, Analysing, EditsOrNone, AnalystOf
<1>5. "analyst" \in AtWork'
  BY <1>3 DEF AtWork, Analysing
<1>6. \A i \in DOMAIN steps : steps[i].status # "running"
  BY <1>1, <1>2, NobodyWorksAt
<1> QED BY <1>2, <1>3, <1>4, <1>5, <1>6, StartsInv

\* The next one, told of the last review and of the last human retry.
LEMMA RetryAnalystInv ==
  ASSUME IInv, NEW s \in Sessions, run.kind = "sales", RetryAnalyst(s)
  PROVE  IInv'
<1> DEFINE asked == Resolved("retry_requested")
           about == Latest("reviewer")
           edits == IF asked = {} THEN NoEdit ELSE approvals[LastOf(asked)].edits
<1>1. TypeOK /\ StepsInOrder /\ run \in RunType
  BY DEF IInv, TypeOK
<1>2. /\ run.status = "retrying" /\ Completed("reviewer") # {}
      /\ Starts(s, "analyst", about, edits)
  BY DEF RetryAnalyst
<1>3. run' \in RunType /\ run'.kind = "sales" /\ run'.status = "analyst_running"
  <2>1. run' = [run EXCEPT !.status = "analyst_running", !.retries = @ + 1]
    BY DEF RetryAnalyst
  <2>2. run.retries + 1 \in Nat /\ "analyst_running" \in DOMAIN ValidTransitions
    BY <1>1 DEF RunType, ValidTransitions
  <2> QED BY <1>1, <2>1, <2>2 DEF RunType
<1>4. "analyst" \in AgentNames /\ "analyst" = AnalystOf(run.kind)
  BY DEF AgentNames, Analysing, AnalystOf
<1>5. "analyst" \in AtWork'
  BY <1>3 DEF AtWork, Analysing
<1>6. \A i \in DOMAIN steps : steps[i].status # "running"
  BY <1>1, <1>2, NobodyWorksAt
<1>7. about \in Nat
  <2>1. Completed("reviewer") \in SUBSET (1..Len(steps)) /\ Len(steps) \in Nat
    BY <1>1, StepPositions DEF Completed
  <2>2. about \in Completed("reviewer")
    BY <1>2, <2>1, LastIsLast DEF Latest
  <2> QED BY <2>1, <2>2
<1>8. edits \in EditsOrNone
  <2>1. CASE asked = {}
    BY <2>1 DEF EditsOrNone
  <2>2. CASE asked # {}
    <3>1. /\ asked \in SUBSET (1..Len(approvals)) /\ Len(approvals) \in Nat
          /\ \A k \in 1..Len(approvals) : approvals[k] \in ApprovalType
      BY <1>1, ApprovalPositions
    <3>2. LastOf(asked) \in 1..Len(approvals)
      BY <2>2, <3>1, LastIsLast
    <3> QED BY <2>2, <3>1, <3>2 DEF ApprovalType
  <2> QED BY <2>1, <2>2
<1> HIDE DEF about, edits
<1> QED BY <1>2, <1>3, <1>4, <1>5, <1>6, <1>7, <1>8, StartsInv

\* Insight and root cause start when what they need is complete, and so done.
LEMMA AnalysesInv ==
  ASSUME IInv, NEW s \in Sessions, NEW agent \in Analysing, NEW opening,
         agent = AnalystOf(run.kind), Analyses(s, agent, opening)
  PROVE  IInv'
<1> DEFINE about == Latest(opening)
<1>1. TypeOK /\ StepsInOrder /\ run \in RunType
  BY DEF IInv, TypeOK
<1>2. /\ run.status = "running" /\ Completed(opening) # {}
      /\ Starts(s, agent, about, NoEdit)
  BY DEF Analyses
<1>3. run' \in RunType /\ run'.kind = run.kind /\ run'.status = "analyst_running"
  BY <1>1 DEF Analyses, Moves, RunType, ValidTransitions
<1>4. agent \in AgentNames /\ NoEdit \in EditsOrNone
  BY DEF AgentNames, EditsOrNone
<1>5. agent \in AtWork'
  BY <1>3 DEF AtWork
<1>6. Completed(opening) \in SUBSET (1..1) /\ DOMAIN steps = 1..1
  BY <1>1, <1>2, StepPositions DEF Completed, StepsInOrder
<1>7. \A i \in DOMAIN steps : steps[i].status # "running"
  <2>1. PICK i \in Completed(opening) : TRUE
    BY <1>2
  <2>2. i = 1 /\ steps[i].status = "completed"
    BY <1>6, <2>1 DEF Completed, Of
  <2> QED BY <1>6, <2>2
<1>8. about \in Nat
  BY <1>2, <1>6, LastIsLast, 1 \in Nat DEF Latest
<1>9. run.kind # "baseline"
  BY DEF AnalystOf, Analysing
<1> HIDE DEF about
<1> QED BY <1>2, <1>3, <1>4, <1>5, <1>7, <1>8, <1>9, StartsInv DEF Analysing

\* Past the analysis, the last analysis is the last completed one.
LEMMA LatestAnalysis ==
  ASSUME IInv, run.kind # "baseline", NEW analysing, analysing = AnalystOf(run.kind),
         run.status \in {"reviewer_running", "writer_running"}
  PROVE  Latest(analysing) = LastAnalysis /\ LastAnalysis \in Nat
<1>1. TypeOK /\ AnalysisComplete
  BY DEF IInv
<1>2. PICK m \in DOMAIN steps : LastIs(m) /\ steps[m].status = "completed"
  BY <1>1 DEF AnalysisComplete, Early
<1>3. /\ AnalysisSteps \in SUBSET (1..Len(steps)) /\ Len(steps) \in Nat
      /\ Completed(analysing) \in SUBSET (1..Len(steps)) /\ DOMAIN steps = 1..Len(steps)
  BY <1>1, StepPositions DEF Completed
<1>4. LastAnalysis = m
  BY <1>2, <1>3, LastIsUnique DEF LastIs, LastAnalysis
<1>5. analysing \in Analysing
  BY <1>1, <1>2 DEF AnalysisComplete, AnalysisSteps, LastIs
<1>6. m \in Completed(analysing) /\ Completed(analysing) \subseteq AnalysisSteps
  BY <1>1, <1>2, <1>5 DEF AnalysisComplete, AnalysisSteps, LastIs, Completed, Of
<1>7. Latest(analysing) = m
  BY <1>2, <1>3, <1>6, LastIsUnique DEF LastIs, Latest
<1> QED BY <1>2, <1>3, <1>4, <1>7

\* The reviewer starts on the last analysis.
LEMMA ReviewsInv ==
  ASSUME IInv, NEW s \in Sessions, NEW analysing, run.kind # "baseline",
         analysing = AnalystOf(run.kind), Reviewable(analysing), Reviews(s, analysing)
  PROVE  IInv'
<1>1. TypeOK /\ StepsInOrder /\ run \in RunType
  BY DEF IInv, TypeOK
<1>2. /\ run.status = "reviewer_running" /\ run' = run
      /\ NoReviewer(Latest(analysing))
      /\ Starts(s, "reviewer", Latest(analysing), NoEdit)
  BY DEF Reviewable, Reviews
<1>3. Latest(analysing) = LastAnalysis /\ LastAnalysis \in Nat
  BY <1>2, LatestAnalysis
<1>4. "reviewer" \in AgentNames \ Analysing /\ NoEdit \in EditsOrNone
  BY DEF AgentNames, Analysing, EditsOrNone
<1>5. "reviewer" \in AtWork'
  BY <1>2 DEF AtWork
<1>6. \A i \in DOMAIN steps : steps[i].status # "running"
  BY <1>1, <1>2, WorksAt DEF StepsInOrder, NoReviewer, Of
<1> QED BY <1>1, <1>2, <1>3, <1>4, <1>5, <1>6, StartsInv

\* The writer starts on it too, with the edits of the one approval.
LEMMA WritesInv ==
  ASSUME IInv, NEW s \in Sessions, NEW analysing, run.kind # "baseline",
         analysing = AnalystOf(run.kind), Writable(analysing), Writes(s, analysing)
  PROVE  IInv'
<1>1. TypeOK /\ StepsInOrder /\ ApprovalsInOrder /\ run \in RunType
  BY DEF IInv, TypeOK
<1>2. /\ run.status = "writer_running" /\ run' = run
      /\ NoWriter("writer")
      /\ Starts(s, "writer", Latest(analysing), ApprovedEdits)
  BY DEF Writable, Writes
<1>3. Latest(analysing) = LastAnalysis /\ LastAnalysis \in Nat
  BY <1>2, LatestAnalysis
<1>4. "writer" \in AgentNames \ Analysing
  BY DEF AgentNames, Analysing
<1>5. ApprovedEdits \in EditsOrNone
  <2>1. /\ Resolved("approved") \in SUBSET (1..Len(approvals)) /\ Len(approvals) \in Nat
        /\ \A k \in 1..Len(approvals) : approvals[k] \in ApprovalType
    BY <1>1, ApprovalPositions
  <2>2. Resolved("approved") # {}
    BY <1>1, <1>2 DEF ApprovalsInOrder
  <2>3. LastOf(Resolved("approved")) \in 1..Len(approvals)
    BY <2>1, <2>2, LastIsLast
  <2> QED BY <2>1, <2>2, <2>3 DEF ApprovedEdits, ApprovalType
<1>6. "writer" \in AtWork'
  BY <1>2 DEF AtWork
<1>7. \A i \in DOMAIN steps : steps[i].status # "running"
  BY <1>1, <1>2, WorksAt DEF StepsInOrder, NoWriter, Of
<1> QED BY <1>1, <1>2, <1>3, <1>4, <1>5, <1>6, <1>7, StartsInv

-----------------------------------------------------------------------------
(* Humans, evaluations and requests. *)

\* What all decisions have in common: nobody is at work, the one approval that
\* is open is decided, the steps stay as they are.
LEMMA Decided ==
  ASSUME IInv, NEW s \in Sessions, NEW k \in DOMAIN approvals, NEW call \in CallNames,
         Decides(s, k, call)
  PROVE  /\ \A i \in DOMAIN steps : steps[i].status # "running"
         /\ Resolved("pending") = {k} /\ AboutLast(approvals[k])
         /\ Resolved("approved") = {} /\ run.status = "waiting_for_human"
         /\ steps' = steps
         /\ sessions' \in [Sessions -> SessionType]
         /\ \A r \in Sessions : sessions'[r].pc = "asking" => sessions'[r].step \in DOMAIN steps'
         /\ evaluation' \in EvaluationType /\ evaluation'.status # "completed"
         /\ evaluation'.approved => call = "approved"
         /\ run.kind # "baseline"
         /\ \E m \in DOMAIN steps : LastIs(m) /\ steps[m].status = "completed"
<1>1. /\ TypeOK /\ StepsInOrder /\ AnalysisComplete /\ ApprovalsInOrder
      /\ ReportAsApproved
  BY DEF IInv
<1>2. /\ run.status = "waiting_for_human" /\ steps' = steps
      /\ approvals[k].status = "pending" /\ Calls(s, call)
      /\ sessions' = [sessions EXCEPT ![s] = [pc |-> "idle", step |-> 0]]
  BY DEF Decides, Undecided, Done, Idle
<1>3. \A i \in DOMAIN steps : steps[i].status # "running"
  BY <1>1, <1>2, NobodyWorksAt
<1>4. k \in Resolved("pending")
  BY <1>2 DEF Resolved
<1>5. Resolved("pending") = {k} /\ AboutLast(approvals[k]) /\ Resolved("approved") = {}
  BY <1>1, <1>2, <1>4 DEF ApprovalsInOrder, Terminal
<1>6. [pc |-> "idle", step |-> 0] \in SessionType
  BY DEF SessionType
<1>7. /\ sessions' \in [Sessions -> SessionType]
      /\ \A r \in Sessions : sessions'[r].pc = "asking" => sessions'[r].step \in DOMAIN steps'
  BY <1>1, <1>2, <1>6 DEF TypeOK, StepsInOrder
<1>8. evaluation.status # "completed" /\ ~evaluation.approved
  BY <1>1, <1>2, <1>5 DEF ReportAsApproved, ApprovalsInOrder
<1>9. /\ evaluation' \in EvaluationType /\ evaluation'.status # "completed"
      /\ evaluation'.approved => call = "approved"
  BY <1>1, <1>2, <1>8, CallRemembered
<1>10. /\ run.kind # "baseline"
       /\ \E m \in DOMAIN steps : LastIs(m) /\ steps[m].status = "completed"
  BY <1>1, <1>2 DEF AnalysisComplete, Early
<1> QED BY <1>2, <1>3, <1>5, <1>7, <1>9, <1>10

\* A decision closes the one open approval and sends the run on, back or to its end.
LEMMA DecideInv ==
  ASSUME IInv, NEW s \in Sessions, NEW k \in DOMAIN approvals,
         NEW decision \in DOMAIN Decision, Decide(s, k, decision)
  PROVE  IInv'
<1>1. /\ TypeOK /\ StepsInOrder /\ AnalysisComplete /\ ApprovalsInOrder
      /\ ReportAsApproved /\ run \in RunType
  BY DEF IInv, TypeOK
<1>2. decision \in CallNames /\ Decides(s, k, decision)
  BY DEF Decide, CallNames
<1>3. /\ \A i \in DOMAIN steps : steps[i].status # "running"
      /\ Resolved("pending") = {k} /\ AboutLast(approvals[k])
      /\ Resolved("approved") = {} /\ run.status = "waiting_for_human"
      /\ steps' = steps
      /\ sessions' \in [Sessions -> SessionType]
      /\ \A r \in Sessions : sessions'[r].pc = "asking" => sessions'[r].step \in DOMAIN steps'
      /\ evaluation' \in EvaluationType /\ evaluation'.status # "completed"
      /\ evaluation'.approved => decision = "approved"
      /\ run.kind # "baseline"
      /\ \E m \in DOMAIN steps : LastIs(m) /\ steps[m].status = "completed"
  BY <1>2, Decided
<1>4. /\ run' \in RunType /\ run'.kind = run.kind /\ run'.status = Decision[decision]
  BY <1>1 DEF Decide, Moves, RunType, ValidTransitions, Decision
<1>5. decision \in {"approved", "retry_requested", "rejected"}
  BY DEF Decision
<1>6. /\ run'.status \in {"writer_running", "retrying", "cancelled"}
      /\ decision = "approved" <=> run'.status = "writer_running"
  BY <1>4, <1>5 DEF Decision
<1>7. /\ AnalysisSteps' = AnalysisSteps /\ LastAnalysis' = LastAnalysis
      /\ \A m : LastIs(m)' <=> LastIs(m)
  BY <1>3, AnalysesKept DEF Kept
<1>8. /\ approvals' \in Seq(ApprovalType) /\ DOMAIN approvals' = DOMAIN approvals
      /\ \A j \in DOMAIN approvals : j # k => approvals'[j] = approvals[j]
      /\ approvals'[k].status = decision /\ approvals'[k].review = approvals[k].review
  <2> DEFINE new == [approvals[k] EXCEPT !.status = decision]
  <2>1. /\ approvals \in Seq(ApprovalType) /\ DOMAIN approvals = 1..Len(approvals)
        /\ approvals[k] \in ApprovalType
    BY <1>1, ApprovalPositions DEF TypeOK
  <2>2. new \in ApprovalType /\ new.status = decision /\ new.review = approvals[k].review
    BY <2>1 DEF ApprovalType
  <2>3. approvals' = [approvals EXCEPT ![k] = new]
    BY DEF Decide
  <2> HIDE DEF new
  <2>4. /\ approvals' \in Seq(ApprovalType) /\ Len(approvals') = Len(approvals)
        /\ \A j \in 1..Len(approvals) : approvals'[j] = IF j = k THEN new ELSE approvals[j]
    BY <2>1, <2>2, <2>3, ExceptSeq
  <2>5. DOMAIN approvals' = 1..Len(approvals)
    BY <2>4, LenProperties
  <2> QED BY <2>1, <2>2, <2>4, <2>5
<1>9. /\ Resolved("pending")' = {}
      /\ Resolved("approved")' = IF decision = "approved" THEN {k} ELSE {}
  BY <1>3, <1>5, <1>8 DEF Resolved
<1>10. AboutLast(approvals[k])'
  BY <1>3, <1>7, <1>8 DEF AboutLast
<1>11. TypeOK'
  BY <1>1, <1>3, <1>4, <1>8 DEF TypeOK
<1>12. StepsInOrder'
  BY <1>3, <1>6 DEF StepsInOrder
<1>13. AnalysisComplete'
  <2>1. \A i \in AnalysisSteps' : steps'[i].agent = AnalystOf(run'.kind)
    BY <1>1, <1>3, <1>4, <1>7 DEF AnalysisComplete
  <2>2. \E m \in DOMAIN steps' : LastIs(m)' /\ steps'[m].status = "completed"
    BY <1>3, <1>7
  <2> QED BY <1>3, <1>4, <2>1, <2>2 DEF AnalysisComplete
<1>14. ApprovalsInOrder'
  <2>1. \A j \in DOMAIN approvals' : approvals'[j].review \in DOMAIN steps'
    BY <1>1, <1>3, <1>8 DEF ApprovalsInOrder
  <2>2. CASE decision = "approved"
    <3>1. \E j \in DOMAIN approvals' :
            /\ Resolved("approved")' = {j}
            /\ AboutLast(approvals[j])'
            /\ \A i \in DOMAIN steps' :
                 steps'[i].agent = "writer" /\ steps'[i].status = "running" =>
                   steps'[i].edits = approvals'[j].edits
      BY <1>3, <1>8, <1>9, <1>10, <2>2
    <3>2. run'.status = "writer_running" /\ Resolved("approved")' # {}
      BY <1>6, <1>9, <2>2
    <3> QED BY <1>9, <2>1, <3>1, <3>2 DEF ApprovalsInOrder
  <2>3. CASE decision # "approved"
    <3>1. /\ Resolved("approved")' = {} /\ ~evaluation'.approved
          /\ run'.status \in {"retrying", "cancelled"}
      BY <1>3, <1>6, <1>9, <2>3
    <3> QED BY <1>9, <2>1, <3>1 DEF ApprovalsInOrder
  <2> QED BY <2>2, <2>3
<1>15. ReportAsApproved'
  BY <1>3, <1>6 DEF ReportAsApproved
<1> QED BY <1>11, <1>12, <1>13, <1>14, <1>15 DEF IInv

\* Edits go to the open approval, and to no other.
LEMMA EditInv ==
  ASSUME IInv, NEW s \in Sessions, NEW k \in DOMAIN approvals,
         NEW edits \in Edits, Edit(s, k, edits)
  PROVE  IInv'
<1>1. /\ TypeOK /\ StepsInOrder /\ AnalysisComplete /\ ApprovalsInOrder
      /\ ReportAsApproved /\ run \in RunType
  BY DEF IInv, TypeOK
<1>2. "edit" \in CallNames /\ Decides(s, k, "edit") /\ run' = run
  BY DEF Edit, CallNames
<1>3. /\ \A i \in DOMAIN steps : steps[i].status # "running"
      /\ Resolved("pending") = {k} /\ AboutLast(approvals[k])
      /\ Resolved("approved") = {} /\ run.status = "waiting_for_human"
      /\ steps' = steps
      /\ sessions' \in [Sessions -> SessionType]
      /\ \A r \in Sessions : sessions'[r].pc = "asking" => sessions'[r].step \in DOMAIN steps'
      /\ evaluation' \in EvaluationType /\ evaluation'.status # "completed"
      /\ ~evaluation'.approved
      /\ run.kind # "baseline"
      /\ \E m \in DOMAIN steps : LastIs(m) /\ steps[m].status = "completed"
  <2>1. evaluation'.approved \in BOOLEAN
    BY <1>2, Decided DEF EvaluationType
  <2> QED BY <1>2, <2>1, Decided
<1>4. /\ AnalysisSteps' = AnalysisSteps /\ LastAnalysis' = LastAnalysis
      /\ \A m : LastIs(m)' <=> LastIs(m)
  BY <1>3, AnalysesKept DEF Kept
<1>5. /\ approvals' \in Seq(ApprovalType) /\ DOMAIN approvals' = DOMAIN approvals
      /\ \A j \in DOMAIN approvals : /\ approvals'[j].status = approvals[j].status
                                     /\ approvals'[j].review = approvals[j].review
  <2> DEFINE new == [approvals[k] EXCEPT !.edits = edits]
  <2>1. /\ approvals \in Seq(ApprovalType) /\ DOMAIN approvals = 1..Len(approvals)
        /\ approvals[k] \in ApprovalType
    BY <1>1, ApprovalPositions DEF TypeOK
  <2>2. /\ new \in ApprovalType
        /\ new.status = approvals[k].status /\ new.review = approvals[k].review
    BY <2>1 DEF ApprovalType, EditsOrNone
  <2>3. approvals' = [approvals EXCEPT ![k] = new]
    BY DEF Edit
  <2> HIDE DEF new
  <2>4. /\ approvals' \in Seq(ApprovalType) /\ Len(approvals') = Len(approvals)
        /\ \A j \in 1..Len(approvals) : approvals'[j] = IF j = k THEN new ELSE approvals[j]
    BY <2>1, <2>2, <2>3, ExceptSeq
  <2>5. DOMAIN approvals' = 1..Len(approvals)
    BY <2>4, LenProperties
  <2> QED BY <2>1, <2>2, <2>4, <2>5
<1>6. Resolved("pending")' = {k} /\ Resolved("approved")' = {}
  BY <1>3, <1>5 DEF Resolved
<1>7. AboutLast(approvals[k])'
  BY <1>3, <1>4, <1>5 DEF AboutLast
<1>8. TypeOK'
  BY <1>1, <1>2, <1>3, <1>5 DEF TypeOK
<1>9. StepsInOrder'
  BY <1>2, <1>3 DEF StepsInOrder
<1>10. AnalysisComplete'
  <2>1. \A i \in AnalysisSteps' : steps'[i].agent = AnalystOf(run'.kind)
    BY <1>1, <1>2, <1>3, <1>4 DEF AnalysisComplete
  <2>2. \E m \in DOMAIN steps' : LastIs(m)' /\ steps'[m].status = "completed"
    BY <1>3, <1>4
  <2> QED BY <1>2, <1>3, <2>1, <2>2 DEF AnalysisComplete
<1>11. ApprovalsInOrder'
  <2>1. \A j \in DOMAIN approvals' : approvals'[j].review \in DOMAIN steps'
    BY <1>1, <1>3, <1>5 DEF ApprovalsInOrder
  <2> QED BY <1>2, <1>3, <1>5, <1>6, <1>7, <2>1 DEF ApprovalsInOrder
<1>12. ReportAsApproved'
  <2>1. Cardinality(Resolved("pending")') = 1
    BY <1>6, FS_Singleton
  <2> QED BY <1>2, <1>3, <1>6, <1>7, <2>1 DEF ReportAsApproved
<1> QED BY <1>8, <1>9, <1>10, <1>11, <1>12 DEF IInv

\* Cancelled, a run has nobody at work that it could answer to.
LEMMA CancelInv ==
  ASSUME IInv, NEW s \in Sessions, Cancel(s)
  PROVE  IInv'
<1>1. /\ TypeOK /\ StepsInOrder /\ AnalysisComplete /\ ApprovalsInOrder
      /\ ReportAsApproved /\ run \in RunType
  BY DEF IInv, TypeOK
<1>2. /\ run.status \notin Terminal /\ Calls(s, "cancel") /\ approvals' = approvals
      /\ steps' = [i \in DOMAIN steps |->
                     IF steps[i].status = "running" THEN [steps[i] EXCEPT !.status = "failed"]
                     ELSE steps[i]]
      /\ sessions' = [sessions EXCEPT ![s] = [pc |-> "idle", step |-> 0]]
  BY DEF Cancel, Commits, Done, Idle
<1>3. run' \in RunType /\ run'.kind = run.kind /\ run'.status = "cancelled"
  BY <1>1 DEF Cancel, Moves, RunType, ValidTransitions
<1>4. \A i \in DOMAIN steps : steps[i] \in StepType
  BY <1>1, StepPositions
<1>5. \A i \in DOMAIN steps : steps'[i] \in StepType /\ steps'[i].status # "running"
  BY <1>2, <1>4 DEF StepType
<1>6. Kept
  BY <1>2, <1>4 DEF StepType, Kept
<1>7. steps' \in Seq(StepType)
  <2>1. DOMAIN steps = 1..Len(steps) /\ Len(steps) \in Nat
    BY <1>1, StepPositions
  <2>2. steps' \in [1..Len(steps) -> StepType]
    BY <1>2, <1>5, <2>1
  <2> QED BY <2>1, <2>2, SeqDef
<1>8. [pc |-> "idle", step |-> 0] \in SessionType
  BY DEF SessionType
<1>9. /\ sessions' \in [Sessions -> SessionType]
      /\ \A r \in Sessions : sessions'[r].pc = "asking" => sessions'[r].step \in DOMAIN steps'
  BY <1>1, <1>2, <1>6, <1>8 DEF TypeOK, StepsInOrder, Kept
<1>10. /\ evaluation' \in EvaluationType /\ evaluation'.status = evaluation.status
       /\ evaluation'.approved => evaluation.approved
  <2>1. "cancel" \in CallNames
    BY DEF CallNames
  <2> QED BY <1>1, <1>2, <2>1, CallRemembered
<1>11. AnalysisSteps' = AnalysisSteps /\ LastAnalysis' = LastAnalysis
  BY <1>6, AnalysesKept
<1>12. TypeOK'
  BY <1>1, <1>2, <1>3, <1>7, <1>9, <1>10 DEF TypeOK
<1>13. StepsInOrder'
  BY <1>3, <1>5, <1>6, <1>9 DEF StepsInOrder, Kept
<1>14. AnalysisComplete'
  BY <1>1, <1>3, <1>5, <1>6, <1>11 DEF AnalysisComplete, AnalysisSteps, Kept, Early
<1>15. ApprovalsInOrder'
  <2>1. \A st : Resolved(st)' = Resolved(st)
    BY <1>2 DEF Resolved
  <2>2. ASSUME Resolved("approved") # {}
        PROVE  \E k \in DOMAIN approvals :
                 Resolved("approved") = {k} /\ AboutLast(approvals[k])'
    <3>1. PICK k \in DOMAIN approvals :
                 Resolved("approved") = {k} /\ AboutLast(approvals[k])
      BY <1>1, <2>2 DEF ApprovalsInOrder
    <3>2. AboutLast(approvals[k])'
      BY <1>1, <1>2, <1>6, <1>11, <3>1, ApprovalsKept DEF ApprovalsInOrder, Kept
    <3> QED BY <3>1, <3>2
  <2> QED BY <1>1, <1>2, <1>3, <1>5, <1>6, <1>10, <2>1, <2>2
          DEF ApprovalsInOrder, Terminal, Kept
<1>16. ReportAsApproved'
  BY <1>1, <1>2, <1>3, <1>10 DEF ReportAsApproved, Terminal
<1> QED BY <1>12, <1>13, <1>14, <1>15, <1>16 DEF IInv

\* Where run, steps and approvals stay, only requests and the evaluation move.
LEMMA NothingCommitted ==
  ASSUME IInv, UNCHANGED <<run, steps, approvals>>,
         sessions' \in [Sessions -> SessionType],
         \A r \in Sessions :
           sessions'[r].pc = "asking" => sessions'[r] = sessions[r],
         evaluation' \in EvaluationType, evaluation'.approved => evaluation.approved,
         evaluation'.status = "completed" => run.status = "completed"
  PROVE  IInv'
<1>1. /\ TypeOK /\ StepsInOrder /\ AnalysisComplete /\ ApprovalsInOrder
      /\ ReportAsApproved
  BY DEF IInv
<1>2. /\ run' = run /\ steps' = steps /\ approvals' = approvals
      /\ AnalysisSteps' = AnalysisSteps /\ LastAnalysis' = LastAnalysis
      /\ \A st : Resolved(st)' = Resolved(st)
  BY DEF AnalysisSteps, LastAnalysis, LastOf, Resolved
<1>3. /\ \A m : LastIs(m)' <=> LastIs(m)
      /\ \A k : AboutLast(approvals[k])' <=> AboutLast(approvals[k])
  BY <1>2 DEF LastIs, AboutLast
<1>4. TypeOK'
  BY <1>1, <1>2 DEF TypeOK
<1>5. StepsInOrder'
  BY <1>1, <1>2 DEF StepsInOrder, AtWork, Analysing
<1>6. AnalysisComplete'
  BY <1>1, <1>2, <1>3 DEF AnalysisComplete
<1>7. ApprovalsInOrder'
  BY <1>1, <1>2, <1>3 DEF ApprovalsInOrder
<1>8. ReportAsApproved'
  <2>1. evaluation'.approved => Cardinality(Resolved("approved")) = 1
    <3>1. ASSUME evaluation'.approved PROVE \E k : Resolved("approved") = {k}
      BY <1>1, <3>1 DEF ApprovalsInOrder
    <3> QED BY <3>1, FS_Singleton
  <2> QED BY <1>1, <1>2, <1>3, <2>1 DEF ReportAsApproved
<1> QED BY <1>4, <1>5, <1>6, <1>7, <1>8 DEF IInv

\* A session reads the run.
LEMMA LoadInv ==
  ASSUME IInv, NEW s \in Sessions, Load(s)
  PROVE  IInv'
<1>1. TypeOK /\ ReportAsApproved
  BY DEF IInv
<1>2. [pc |-> "loaded", step |-> 0] \in SessionType
  BY DEF SessionType
<1>3. /\ sessions' = [sessions EXCEPT ![s] = [pc |-> "loaded", step |-> 0]]
      /\ UNCHANGED <<run, steps, approvals, evaluation>>
  BY DEF Load
<1>4. /\ sessions' \in [Sessions -> SessionType]
      /\ \A r \in Sessions : sessions'[r].pc = "asking" => sessions'[r] = sessions[r]
  BY <1>1, <1>2, <1>3 DEF TypeOK
<1> QED BY <1>1, <1>3, <1>4, NothingCommitted DEF TypeOK, ReportAsApproved

\* A request dies, or is refused.
LEMMA LeaveInv ==
  ASSUME IInv, NEW s \in Sessions, Leave(s)
  PROVE  IInv'
<1>1. TypeOK /\ ReportAsApproved /\ evaluation \in EvaluationType
  BY DEF IInv, TypeOK
<1>2. [pc |-> "idle", step |-> 0] \in SessionType
  BY DEF SessionType
<1>3. /\ sessions' = [sessions EXCEPT ![s] = [pc |-> "idle", step |-> 0]]
      /\ UNCHANGED <<run, steps, approvals>>
  BY DEF Leave, Idle
<1>4. /\ sessions' \in [Sessions -> SessionType]
      /\ \A r \in Sessions : sessions'[r].pc = "asking" => sessions'[r] = sessions[r]
  BY <1>1, <1>2, <1>3 DEF TypeOK
<1>5. /\ evaluation' \in EvaluationType /\ evaluation'.approved = evaluation.approved
      /\ evaluation'.status \in {evaluation.status, "failed"}
  <2>1. \/ evaluation' = evaluation
        \/ evaluation' = [evaluation EXCEPT !.status = "failed"]
        \/ evaluation' = [evaluation EXCEPT !.last = "gone"]
    BY DEF Leave
  <2>2. "gone" \in CallNames
    BY DEF CallNames
  <2> QED BY <1>1, <2>1, <2>2 DEF EvaluationType
<1> QED BY <1>1, <1>3, <1>4, <1>5, NothingCommitted DEF ReportAsApproved

\* An evaluation ends as its run has ended.
LEMMA SettleInv ==
  ASSUME IInv, SettleEvaluation
  PROVE  IInv'
<1>1. TypeOK /\ evaluation \in EvaluationType
  BY DEF IInv, TypeOK
<1>2. /\ UNCHANGED <<run, steps, approvals, sessions>>
      /\ evaluation' = [evaluation EXCEPT !.status =
                          IF run.status = "completed" THEN "completed" ELSE "failed"]
  BY DEF SettleEvaluation
<1>3. /\ evaluation' \in EvaluationType /\ evaluation'.approved = evaluation.approved
      /\ evaluation'.status = "completed" => run.status = "completed"
  BY <1>1, <1>2 DEF EvaluationType
<1> QED BY <1>1, <1>2, <1>3, NothingCommitted DEF TypeOK

-----------------------------------------------------------------------------
(* All of them. *)

\* A run that is created has no steps and no approvals.
LEMMA InitInv == Init => IInv
<1> SUFFICES ASSUME Init PROVE IInv
  OBVIOUS
<1>1. /\ run \in RunType /\ run.status = "created"
      /\ steps = <<>> /\ approvals = <<>> /\ evaluation \in EvaluationType
      /\ evaluation.status # "completed" /\ ~evaluation.approved
  <2>1. PICK k \in Kinds :
          run = [kind |-> k, status |-> "created", retries |-> 0, report |-> 0]
    BY DEF Init
  <2>2. "created" \in DOMAIN ValidTransitions
    BY DEF ValidTransitions
  <2>3. run \in RunType /\ run.status = "created"
    BY <2>1, <2>2 DEF RunType
  <2>4. evaluation \in [status : {"none", "pending"}, last : {"none"}, approved : {FALSE}]
    BY DEF Init
  <2>5. "none" \in CallNames
    BY DEF CallNames
  <2>6. /\ evaluation \in EvaluationType
        /\ evaluation.status # "completed" /\ ~evaluation.approved
    BY <2>4, <2>5 DEF EvaluationType
  <2> QED BY <2>3, <2>6 DEF Init
<1>2. sessions = [s \in Sessions |-> [pc |-> "idle", step |-> 0]]
  BY DEF Init
<1>3. /\ steps \in Seq(StepType) /\ approvals \in Seq(ApprovalType)
      /\ DOMAIN steps = {} /\ DOMAIN approvals = {}
  BY <1>1, EmptySeq
<1>4. sessions \in [Sessions -> SessionType]
  BY <1>2 DEF SessionType
<1>5. TypeOK
  BY <1>1, <1>3, <1>4 DEF TypeOK
<1>6. StepsInOrder
  BY <1>1, <1>2, <1>3 DEF StepsInOrder
<1>7. AnalysisComplete
  BY <1>1, <1>3 DEF AnalysisComplete, AnalysisSteps, Early
<1>8. ApprovalsInOrder
  BY <1>1, <1>3 DEF ApprovalsInOrder, Resolved, Terminal
<1>9. ReportAsApproved
  BY <1>1 DEF ReportAsApproved
<1> QED BY <1>5, <1>6, <1>7, <1>8, <1>9 DEF IInv

\* The agents of a run of the sales team.
LEMMA SalesInv ==
  ASSUME IInv, NEW s \in Sessions,
         RunSalesAnalyst(s) \/ RunSalesReviewer(s) \/ RunSalesWriter(s)
  PROVE  IInv'
<1>1. run.kind = "sales"
  BY DEF RunSalesAnalyst, RunSalesReviewer, RunSalesWriter
<1>2. "analyst" \in Analysing /\ "analyst" = AnalystOf(run.kind) /\ run.kind # "baseline"
  BY <1>1 DEF Analysing, AnalystOf
<1>3. CASE RunSalesAnalyst(s)
  BY <1>1, <1>2, <1>3, StartAnalystInv, RetryAnalystInv, AnalysedInv, FailsInv
     DEF RunSalesAnalyst
<1>4. CASE RunSalesReviewer(s)
  BY <1>2, <1>4, ReviewsInv, FailsInv, AutoRetryInv, AsksHumanInv
     DEF RunSalesReviewer, SalesReviewable
<1>5. CASE RunSalesWriter(s)
  BY <1>2, <1>5, WritesInv, ReportsInv, FailsInv DEF RunSalesWriter, SalesWritable
<1> QED BY <1>3, <1>4, <1>5

\* The agents of a run of the feedback team.
LEMMA FeedbackInv ==
  ASSUME IInv, NEW s \in Sessions,
         \/ RunFeedbackClassifier(s) \/ RunFeedbackInsight(s)
         \/ RunFeedbackReviewer(s) \/ RunFeedbackWriter(s)
  PROVE  IInv'
<1>1. run.kind = "feedback"
  BY DEF RunFeedbackClassifier, RunFeedbackInsight, RunFeedbackReviewer, RunFeedbackWriter
<1>2. "insight" \in Analysing /\ "insight" = AnalystOf(run.kind) /\ run.kind # "baseline"
  BY <1>1 DEF Analysing, AnalystOf
<1>3. CASE RunFeedbackClassifier(s)
  BY <1>3, OpensInv, OpenedInv, FailsInv DEF RunFeedbackClassifier
<1>4. CASE RunFeedbackInsight(s)
  BY <1>2, <1>4, AnalysesInv, AnalysedInv, FailsInv DEF RunFeedbackInsight
<1>5. CASE RunFeedbackReviewer(s)
  BY <1>2, <1>5, ReviewsInv, FailsInv, AsksHumanInv
     DEF RunFeedbackReviewer, FeedbackReviewable
<1>6. CASE RunFeedbackWriter(s)
  BY <1>2, <1>6, WritesInv, ReportsInv, FailsInv DEF RunFeedbackWriter, FeedbackWritable
<1> QED BY <1>3, <1>4, <1>5, <1>6

\* The agents of a run of the incident team.
LEMMA IncidentInv ==
  ASSUME IInv, NEW s \in Sessions,
         \/ RunIncidentTimeline(s) \/ RunIncidentRootCause(s)
         \/ RunIncidentReviewer(s) \/ RunIncidentWriter(s)
  PROVE  IInv'
<1>1. run.kind = "incident"
  BY DEF RunIncidentTimeline, RunIncidentRootCause, RunIncidentReviewer, RunIncidentWriter
<1>2. /\ "root_cause" \in Analysing /\ "root_cause" = AnalystOf(run.kind)
      /\ run.kind # "baseline"
  BY <1>1 DEF Analysing, AnalystOf
<1>3. CASE RunIncidentTimeline(s)
  BY <1>3, OpensInv, OpenedInv, FailsInv DEF RunIncidentTimeline
<1>4. CASE RunIncidentRootCause(s)
  BY <1>2, <1>4, AnalysesInv, AnalysedInv, FailsInv DEF RunIncidentRootCause
<1>5. CASE RunIncidentReviewer(s)
  BY <1>2, <1>5, ReviewsInv, FailsInv, AsksHumanInv
     DEF RunIncidentReviewer, IncidentReviewable
<1>6. CASE RunIncidentWriter(s)
  BY <1>2, <1>6, WritesInv, ReportsInv, FailsInv DEF RunIncidentWriter, IncidentWritable
<1> QED BY <1>3, <1>4, <1>5, <1>6

\* The one agent of a baseline.
LEMMA BaselineInv ==
  ASSUME IInv, NEW s \in Sessions, RunBaseline(s)
  PROVE  IInv'
  BY OpensInv, ReportsInv, FailsInv DEF RunBaseline

\* Every step keeps the invariant.
LEMMA NextInv == IInv /\ [Next]_vars => IInv'
<1> SUFFICES ASSUME IInv, [Next]_vars PROVE IInv'
  OBVIOUS
<1>1. CASE SettleEvaluation
  BY <1>1, SettleInv
<1>2. ASSUME NEW s \in Sessions, Load(s) \/ Leave(s) \/ Cancel(s)
      PROVE  IInv'
  BY <1>2, LoadInv, LeaveInv, CancelInv
<1>3. ASSUME NEW s \in Sessions,
             \/ RunSalesAnalyst(s) \/ RunSalesReviewer(s) \/ RunSalesWriter(s)
             \/ RunFeedbackClassifier(s) \/ RunFeedbackInsight(s)
             \/ RunFeedbackReviewer(s) \/ RunFeedbackWriter(s)
             \/ RunIncidentTimeline(s) \/ RunIncidentRootCause(s)
             \/ RunIncidentReviewer(s) \/ RunIncidentWriter(s)
             \/ RunBaseline(s)
      PROVE  IInv'
  BY <1>3, SalesInv, FeedbackInv, IncidentInv, BaselineInv
<1>4. ASSUME NEW s \in Sessions, NEW k \in DOMAIN approvals,
             \/ \E decision \in DOMAIN Decision : Decide(s, k, decision)
             \/ \E edits \in Edits : Edit(s, k, edits)
      PROVE  IInv'
  BY <1>4, DecideInv, EditInv
<1>5. CASE UNCHANGED vars
  <2>1. /\ UNCHANGED <<run, steps, approvals>> /\ sessions' = sessions
        /\ evaluation' = evaluation
    BY <1>5 DEF vars
  <2>2. TypeOK /\ ReportAsApproved
    BY DEF IInv
  <2> QED BY <2>1, <2>2, NothingCommitted DEF TypeOK, ReportAsApproved
<1> QED BY <1>1, <1>2, <1>3, <1>4, <1>5 DEF Next

-----------------------------------------------------------------------------
(* Theorems. *)

\* The strengthening that closes under steps.
THEOREM Invariance == Spec => []IInv
<1>1. Init => IInv
  BY InitInv
<1>2. IInv /\ [Next]_vars => IInv'
  BY NextInv
<1> QED BY <1>1, <1>2, PTL DEF Spec

\* Overlapping, dying and late requests leave one agent at work at most, the
\* one that the run's status is about.
THEOREM OneAgentWorks == Spec => []OneAgentAtWork
<1>1. IInv => OneAgentAtWork
  BY LastAlone DEF IInv
<1> QED BY <1>1, Invariance, PTL

\* What is reported is the last analysis, with the edits, that a human has
\* approved, and an evaluation completes with its run only.
THEOREM ReportsAreApproved == Spec => []ReportAsApproved
<1>1. IInv => ReportAsApproved
  BY DEF IInv
<1> QED BY <1>1, Invariance, PTL
=============================================================================
