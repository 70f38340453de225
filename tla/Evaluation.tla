------------------------------ MODULE Evaluation ------------------------------
(***************************************************************************)
(* Evaluations on the durable engine (durable_evaluations.py) and the      *)
(* promotion of a completed run to a comparison                            *)
(* (durable_evaluation_promotion.py): one uploaded input, the evaluation   *)
(* case promoted from it, and the results of that case.                    *)
(*                                                                         *)
(* A promotion queues a counterpart in the other mode, or reuses one; the  *)
(* checkpoint that ends a run scores its result in the same transaction    *)
(* (business_projection.sync).  Workers approve what an administrator has  *)
(* asked to be approved, each from a scan of its own.  The runs themselves *)
(* are those of DurableRun and Approvals: here they wait, go on and end.   *)
(* What is expected of an output is reduced to the run it was derived      *)
(* from, a score to what it was measured against.                          *)
(***************************************************************************)
EXTENDS Integers, Sequences, FiniteSets, SequencesExt

CONSTANTS
  Promoters,   \* requests that promote a run
  Workers,     \* processes that call advance_approvals
  Completed,   \* the modes of the runs that have completed before
  MaxResults   \* bound: results of the case

Modes == {"baseline", "multi_agent"}
Free == "free"
ASSUME EvaluationAssumption ==
  Free \notin Promoters /\ Completed \in Seq(Modes) /\ MaxResults \in Nat

VARIABLES
  items,       \* the run the case's expected items are derived from; Empty, NoCase
  runs,        \* WorkflowRun and its execution
  results,     \* EvaluationResult, in the order they were created
  promoters,   \* by request: the run it promotes and the counterpart it has found
  lock,        \* who holds the row of the organization, and with it the case
  scans,       \* by worker: the results it is about to approve
  allowed,     \* may the administrator who asked still decide?
  pairs        \* the comparisons that promotions of a baseline have answered

vars == <<items, runs, results, promoters, lock, scans, allowed, pairs>>

NoCase == -1
Empty == 0
Idle == [run |-> 0, counterpart |-> 0]
Other(mode) == IF mode = "baseline" THEN "multi_agent" ELSE "baseline"
Latest(ids) == IF ids = {} THEN 0 ELSE CHOOSE i \in ids : \A j \in ids : j <= i

-----------------------------------------------------------------------------
(* Accepting an evaluation.  The new row refers to its case and to its     *)
(* organization: it waits for whoever has locked them.                     *)

\* Fault: whoever else is promoting, go ahead.
AlwaysFree == TRUE
LockFree == lock = Free

NewRun(mode) == [mode |-> mode, status |-> "running", facts |-> TRUE]
NewResult(run, mode, derive, by) ==
  [run |-> run, mode |-> mode, status |-> "pending", derive |-> derive, by |-> by,
   automatic |-> mode = "multi_agent", blocked |-> FALSE, score |-> Empty]

Accept(list, mode, derive, by) ==
  /\ runs' = Append(runs, NewRun(mode))
  /\ results' = Append(list, NewResult(Len(runs) + 1, mode, derive, by))

\* run_evaluations.py evaluates every case there is, promoted ones too.
Evaluate(mode) ==
  /\ LockFree
  /\ items # NoCase
  /\ Len(results) < MaxResults
  /\ Accept(results, mode, FALSE, "suite")
  /\ UNCHANGED <<items, promoters, lock, scans, allowed, pairs>>

Of(mode, statuses) ==
  {i \in DOMAIN results : results[i].mode = mode /\ results[i].status \in statuses}

\* create_corrected_evaluation_comparison_run: with the reviewer's issues.
Correct ==
  /\ LockFree
  /\ \A mode \in Modes : Of(mode, {"completed"}) # {}
  /\ Len(results) < MaxResults
  /\ Accept(results, "multi_agent", FALSE, "correction")
  /\ UNCHANGED <<items, promoters, lock, scans, allowed, pairs>>

-----------------------------------------------------------------------------
(* Promotion: one transaction under the lock of the organization. *)

\* Structured output that facts and recommendations can be taken from.
Derivable(r) == runs[r].facts

\* What the case will expect: the outcome of a multi-agent run, if it has any.
Expected(r) ==
  IF runs[r].mode = "multi_agent" THEN r ELSE IF items = NoCase THEN Empty ELSE items

Promote(p, r) ==
  /\ LockFree
  /\ promoters[p] = Idle
  /\ runs[r].status = "completed"
  /\ runs[r].mode = "multi_agent" => Derivable(r)
  /\ Len(results) + 1 < MaxResults
  /\ lock' = p
  /\ promoters' = [promoters EXCEPT ![p] =
       [run |-> r, counterpart |-> Latest(Of(Other(runs[r].mode), {"pending", "completed"}))]]
  /\ UNCHANGED <<items, runs, results, scans, allowed, pairs>>

Scored(result, expected) == [result EXCEPT !.status = "completed", !.score = expected]

\* The result of the promoted run itself: the one there is, or a new one.
WithOriginal(r, expected) ==
  LET same == {i \in DOMAIN results : results[i].run = r}
  IN IF same # {} THEN [results EXCEPT ![Latest(same)].score = expected]
     ELSE Append(results, Scored([NewResult(r, runs[r].mode, FALSE, "original")
                                    EXCEPT !.automatic = FALSE], expected))

Commit(p) ==
  LET r == promoters[p].run
      found == promoters[p].counterpart
      mode == Other(runs[r].mode)
      expected == Expected(r)
      scored == WithOriginal(r, expected)
      counterpart == IF found = 0 THEN Len(scored) + 1 ELSE found
  IN /\ promoters[p] # Idle
     /\ items' = expected
     /\ IF found = 0
        THEN Accept(scored, mode, mode = "multi_agent" /\ expected = Empty, "promotion")
        ELSE /\ results' = [scored EXCEPT ![found] =
                   IF @.status = "completed" THEN Scored(@, expected) ELSE @]
             /\ UNCHANGED runs
     /\ pairs' = IF mode = "multi_agent" THEN pairs \cup {counterpart} ELSE pairs
     /\ promoters' = [promoters EXCEPT ![p] = Idle]
     /\ lock' = IF lock = p THEN Free ELSE lock
     /\ UNCHANGED <<scans, allowed>>

-----------------------------------------------------------------------------
(* The runs, and the projection of their last checkpoint. *)

Wait(r) ==
  /\ runs[r].status = "running" /\ runs[r].mode = "multi_agent"
  /\ runs' = [runs EXCEPT ![r].status = "waiting"]
  /\ UNCHANGED <<items, results, promoters, lock, scans, allowed, pairs>>

Ends(r, status, facts) ==
  /\ LockFree
  /\ runs' = [runs EXCEPT ![r].status = status, ![r].facts = facts]
  /\ UNCHANGED <<promoters, lock, scans, allowed, pairs>>

Pending(r) == {i \in DOMAIN results : results[i].run = r /\ results[i].status = "pending"}

\* A promoted baseline was scored before anything was expected of it.
Rescored(i) == results[i].mode = "baseline" /\ runs[results[i].run].status = "completed"

Complete(r, facts) ==
  LET deriving == {i \in Pending(r) : results[i].derive}
      expected == IF deriving = {} THEN items ELSE r
  IN /\ runs[r].status = IF runs[r].mode = "baseline" THEN "running" ELSE "approved"
     /\ Ends(r, "completed", facts)
     /\ IF deriving # {} /\ ~facts
        THEN /\ results' = [i \in DOMAIN results |->
                   IF i \in Pending(r) THEN [results[i] EXCEPT !.status = "failed"]
                   ELSE results[i]]
             /\ UNCHANGED items
        ELSE /\ items' = expected
             /\ results' = [i \in DOMAIN results |->
                   IF i \in Pending(r) \/ (deriving # {} /\ Rescored(i))
                   THEN Scored(results[i], expected) ELSE results[i]]

\* It fails, or is cancelled, at any time.
Fail(r) ==
  /\ runs[r].status \in {"running", "waiting", "approved"}
  /\ Ends(r, "failed", FALSE)
  /\ results' = [i \in DOMAIN results |->
       IF i \in Pending(r) THEN [results[i] EXCEPT !.status = "failed"] ELSE results[i]]
  /\ UNCHANGED items

-----------------------------------------------------------------------------
(* Approvals. *)

Approve(r) == runs' = [runs EXCEPT ![r].status = "approved"]

\* An authorized human: also one that the evaluation was waiting for.
Decide(r) ==
  /\ runs[r].status = "waiting"
  /\ Approve(r)
  /\ UNCHANGED <<items, results, promoters, lock, scans, allowed, pairs>>

\* The membership of the administrator is revoked, or restored.
Change ==
  /\ allowed' = ~allowed
  /\ UNCHANGED <<items, runs, results, promoters, lock, scans, pairs>>

Candidates ==
  {i \in DOMAIN results :
     /\ results[i].status = "pending" /\ results[i].automatic /\ ~results[i].blocked
     /\ runs[results[i].run].status = "waiting"}

Scan(w) ==
  /\ scans[w] = {}
  /\ Candidates # {}
  /\ scans' = [scans EXCEPT ![w] = Candidates]
  /\ UNCHANGED <<items, runs, results, promoters, lock, allowed, pairs>>

Takes(w, i) ==
  /\ i \in scans[w]
  /\ scans' = [scans EXCEPT ![w] = @ \ {i}]
  /\ UNCHANGED <<items, promoters, lock, allowed, pairs>>

\* In one transaction with the check of the membership, which it locks.
ApproveAutomatically(w, i) ==
  /\ Takes(w, i)
  /\ results[i].status = "pending" /\ allowed
  /\ runs[results[i].run].status = "waiting"
  /\ Approve(results[i].run)
  /\ UNCHANGED results

Block(w, i) ==
  /\ Takes(w, i)
  /\ results[i].status = "pending" /\ ~allowed
  /\ results' = [results EXCEPT ![i].blocked = TRUE]
  /\ UNCHANGED runs

\* Decided or ended meanwhile.
Skip(w, i) ==
  /\ Takes(w, i)
  /\ \/ results[i].status # "pending"
     \/ allowed /\ runs[results[i].run].status # "waiting"
  /\ UNCHANGED <<runs, results>>

-----------------------------------------------------------------------------
Init ==
  /\ items = NoCase
  /\ runs = [i \in DOMAIN Completed |->
       [mode |-> Completed[i], status |-> "completed", facts |-> TRUE]]
  /\ results = <<>>
  /\ promoters = [p \in Promoters |-> Idle]
  /\ lock = Free
  /\ scans = [w \in Workers |-> {}]
  /\ allowed = TRUE
  /\ pairs = {}

Next ==
  \/ \E mode \in Modes : Evaluate(mode)
  \/ Correct
  \/ \E p \in Promoters : Commit(p) \/ \E r \in DOMAIN runs : Promote(p, r)
  \/ \E r \in DOMAIN runs :
       Wait(r) \/ Decide(r) \/ Fail(r) \/ \E facts \in BOOLEAN : Complete(r, facts)
  \/ Change
  \/ \E w \in Workers :
       \/ Scan(w)
       \/ \E i \in scans[w] : ApproveAutomatically(w, i) \/ Block(w, i) \/ Skip(w, i)

Spec == Init /\ [][Next]_vars

-----------------------------------------------------------------------------
(* Properties. *)

\* Promotions of one input, at the same time or one after the other, work
\* with the counterpart there is: the next one is queued only when all
\* before it have failed.
OneCounterpart ==
  \A i, j \in DOMAIN results :
    /\ i < j /\ results[i].by = "promotion" /\ results[j].by = "promotion"
    /\ results[i].mode = results[j].mode
    => results[i].status = "failed"

\* "If permission is revoked, the evaluation pauses for an authorized manual
\* decision; restoring membership does not silently retry a blocked
\* approval" (docs/EVALUATION.md): only a human lets a blocked one go on.
BlockedIsManual ==
  [][\A w \in Workers : \A i \in scans[w] \ scans'[w] :
       results[i].blocked => runs'[results[i].run] = runs[results[i].run]]_vars

\* "Promotion from a baseline derives expected items from the completed
\* counterpart's approved structured output" (docs/EVALUATION.md): when all
\* has ended, and the counterpart with facts to derive, something is expected.
CounterpartDerives ==
  (\A i \in DOMAIN results : results[i].status # "pending")
    => \A c \in pairs :
         results[c].status = "completed" /\ runs[results[c].run].facts => items # Empty
-----------------------------------------------------------------------------
(* The inductive invariant of the proofs (Evaluation_proofs). *)

RunType ==
  [mode : Modes, status : {"running", "waiting", "approved", "completed", "failed"},
   facts : BOOLEAN]
ResultType ==
  [run : Nat, mode : Modes, status : {"pending", "completed", "failed"}, derive : BOOLEAN,
   by : {"suite", "correction", "original", "promotion"}, automatic : BOOLEAN,
   blocked : BOOLEAN, score : Int]
TypeOK ==
  /\ items \in Int
  /\ runs \in Seq(RunType)
  /\ results \in Seq(ResultType)
  /\ promoters \in [Promoters -> [run : Nat, counterpart : Nat]]
  /\ lock \in Promoters \cup {Free}
  /\ scans \in [Workers -> SUBSET DOMAIN results]

\* A result is of its run; nothing is derived from a baseline, so that only a
\* failed run fails the result of one, and no rescoring revives it.
ResultsMatch ==
  \A i \in DOMAIN results :
    /\ results[i].run \in DOMAIN runs
    /\ results[i].mode = runs[results[i].run].mode
    /\ results[i].derive => results[i].mode = "multi_agent"
    /\ results[i].mode = "baseline" /\ results[i].status = "failed" =>
         runs[results[i].run].status = "failed"

\* While it holds the lock, what a promotion has not found is not there.
PromotersKnow ==
  \A p \in Promoters :
    promoters[p] # Idle =>
      /\ lock = p
      /\ promoters[p].run \in DOMAIN runs
      /\ promoters[p].counterpart = 0 =>
           \A i \in DOMAIN results :
             results[i].mode = Other(runs[promoters[p].run].mode) =>
               results[i].status = "failed"

IInv == TypeOK /\ ResultsMatch /\ PromotersKnow /\ OneCounterpart
=============================================================================
