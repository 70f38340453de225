---------------------------- MODULE EffectLedger ----------------------------
(***************************************************************************)
(* One external write in the tool ledger (tool_effects.py), from the first *)
(* run that reserves it through the recovery runs that inherit its key     *)
(* (execution_recovery.py, recovery_lineage.py).                           *)
(*                                                                         *)
(* Every action is one transaction of the ledger, one step of a worker     *)
(* between two of them, or one step of the remote provider.  A worker may  *)
(* stall anywhere, lose its lease, and go on; its request may arrive long  *)
(* after everyone has given it up.                                         *)
(*                                                                         *)
(* The queue and the run around the effect are reduced to what DurableRun  *)
(* shows of them: at most one claim is live at a time, and while it is,    *)
(* its attempt is running and its result will be accepted.                 *)
(*                                                                         *)
(* "Fault:" marks an operator that is no part of the model, as in          *)
(* DurableRun.                                                             *)
(***************************************************************************)
EXTENDS Integers, FiniteSets

CONSTANTS
  Workers,
  Providers,    \* how the adapter recovers (ToolAdapter.recovery), and whether
                \* the provider applies an effect key once
  MaxAttempts,  \* contract.retry.max_attempts
  MaxClaims,    \* bound: claims of the jobs of all runs together
  MaxRuns       \* bound: runs of the recovery lineage

ASSUME ProvidersAssumption ==
  /\ Providers \subseteq [recovery : {"none", "idempotent", "reconcile"},
                          keyed : BOOLEAN]
  /\ \A p \in Providers : /\ p.recovery = "none" => ~p.keyed
                          /\ p.recovery = "idempotent" => p.keyed
ASSUME BoundsAssumption ==
  /\ MaxAttempts \in Nat \ {0}
  /\ MaxClaims \in Nat \ {0}
  /\ MaxRuns \in Nat \ {0}

VARIABLES
  provider,  \* the registered adapter; never changes
  run,       \* the latest run of the lineage, as far as this effect's step goes
  owner,     \* the claim whose lease is live, 0 without one
  effect,    \* the row of tool_executions
  workers,   \* what each worker holds in memory within execute_tool
  requests,  \* the request that each claim has sent
  applied,   \* how often the provider has applied the effect
  claims     \* claims made so far

vars == <<provider, run, owner, effect, workers, requests, applied, claims>>

Claims == 1..MaxClaims
Confirmed == {"succeeded", "reconciled"}

NoEffect == [status |-> "absent", reservation |-> 0, dispatched |-> FALSE,
             attempts |-> 0, error |-> "none", by |-> "none", cooling |-> FALSE]
IdleWorker == [phase |-> "idle", token |-> 0, uncertain |-> FALSE,
               outcome |-> "none"]

At(w, phase) == workers[w].phase = phase
Goes(w, phase) == workers' = [workers EXCEPT ![w].phase = phase]
Ends(w, outcome) ==
  workers' = [workers EXCEPT ![w].phase = "over", ![w].outcome = outcome]
Decides(w, outcome) ==
  workers' = [workers EXCEPT ![w].phase = "finishing", ![w].outcome = outcome]

\* worker_attempt: a live claim with its running attempt, in a running run.
OwnsRun(w) == owner = workers[w].token /\ run.status = "running"
HoldsReservation(w) == effect.reservation = workers[w].token
LiveReservation == effect.reservation # 0 /\ owner = effect.reservation

\* Definite failures count as such only if no earlier request is in doubt.
FaultFailureOutcome(w) == "failed"
FailureOutcome(w) == IF workers[w].uncertain THEN "unknown" ELSE "failed"

-----------------------------------------------------------------------------
(* Claims, as far as the effect can tell. *)

Claim(w) ==
  /\ At(w, "idle")
  /\ run.status = "running"
  /\ owner = 0
  /\ claims < MaxClaims
  /\ claims' = claims + 1
  /\ owner' = claims + 1
  /\ workers' = [workers EXCEPT ![w] = [IdleWorker EXCEPT !.phase = "claimed",
                                                         !.token = claims + 1]]
  /\ UNCHANGED <<provider, run, effect, requests, applied>>

\* The lease expires, or the watchdog fails the attempt; the worker goes on.
LoseLease ==
  /\ owner # 0
  /\ owner' = 0
  /\ UNCHANGED <<provider, run, effect, workers, requests, applied, claims>>

\* The process dies; what it has sent is on its way.
Interrupt(w) ==
  /\ ~At(w, "idle")
  /\ workers' = [workers EXCEPT ![w] = IdleWorker]
  /\ UNCHANGED <<provider, run, owner, effect, requests, applied, claims>>

\* commit_result: the step completes, or its attempt fails and is retried or
\* fails the run.
CommitOutcome(w) ==
  /\ At(w, "over")
  /\ OwnsRun(w)
  /\ \/ /\ workers[w].outcome = "returned"
        /\ run' = [run EXCEPT !.status = "settled"]
     \/ /\ workers[w].outcome = "raised"
        /\ \E status \in {"running", "failed"} : run' = [run EXCEPT !.status = status]
  /\ owner' = 0
  /\ workers' = [workers EXCEPT ![w] = IdleWorker]
  /\ UNCHANGED <<provider, effect, requests, applied, claims>>

\* Without the lease what execute_tool returned is discarded.
DiscardOutcome(w) ==
  /\ At(w, "over")
  /\ ~OwnsRun(w)
  /\ workers' = [workers EXCEPT ![w] = IdleWorker]
  /\ UNCHANGED <<provider, run, owner, effect, requests, applied, claims>>

\* Cancellation, the run's deadline, an exhausted recovery budget, or a failure
\* further down the graph.
EndRun ==
  /\ run.status # "failed"
  /\ run' = [run EXCEPT !.status = "failed"]
  /\ owner' = 0
  /\ UNCHANGED <<provider, effect, workers, requests, applied, claims>>

-----------------------------------------------------------------------------
(* reserve *)

Uncertain == effect.status = "unknown" \/ (effect.status = "pending" /\ effect.dispatched)

FaultBlocked ==
  \/ Uncertain /\ provider.recovery = "none"
  \/ effect.status = "failed" /\ effect.error # "retryable"
Blocked ==
  \/ Uncertain /\ provider.recovery = "none"
  \/ effect.attempts >= MaxAttempts
  \/ effect.status = "failed" /\ effect.error # "retryable"

\* Policy, credential, approval, deadline, lease or backoff: nothing is reserved.
RejectCall(w) ==
  /\ At(w, "claimed")
  /\ Ends(w, "raised")
  /\ UNCHANGED <<provider, run, owner, effect, requests, applied, claims>>

\* A confirmed effect, or one that may not be tried again, gives no reservation;
\* execute_tool reads the row once more, after the commit.
ReserveNothing(w) ==
  /\ At(w, "claimed")
  /\ OwnsRun(w)
  /\ effect.status \in Confirmed \/ Blocked
  /\ effect' = [effect EXCEPT !.status =
       IF Uncertain THEN "unknown" ELSE @]
  /\ Goes(w, "rereading")
  /\ UNCHANGED <<provider, run, owner, requests, applied, claims>>

FaultReuse == effect.status \in Confirmed
Reuse == effect.status \in Confirmed /\ effect.error = "none"

Reread(w) ==
  /\ At(w, "rereading")
  /\ Ends(w, IF Reuse THEN "returned" ELSE "raised")
  /\ UNCHANGED <<provider, run, owner, effect, requests, applied, claims>>

ReservedEffect(token, status) ==
  [effect EXCEPT !.status = status, !.reservation = token, !.dispatched = FALSE,
                 !.error = "none"]

FaultReservedStatus == "pending"
\* Earlier doubt is kept in case this worker dies before its own dispatch.
ReservedStatus == IF Uncertain THEN "unknown" ELSE "pending"

BackoffElapsed == ~effect.cooling

Reserve(w) ==
  /\ At(w, "claimed")
  /\ OwnsRun(w)
  /\ effect.status \notin Confirmed
  /\ ~Blocked
  /\ BackoffElapsed
  /\ effect' = ReservedEffect(workers[w].token, ReservedStatus)
  /\ workers' = [workers EXCEPT ![w].phase = "reserved", ![w].uncertain = Uncertain]
  /\ UNCHANGED <<provider, run, owner, requests, applied, claims>>

-----------------------------------------------------------------------------
(* dispatch *)

FaultDispatchedEffect == [effect EXCEPT !.dispatched = TRUE]
DispatchedEffect == [effect EXCEPT !.dispatched = TRUE, !.attempts = @ + 1]

\* The marker commits before any I/O.
Dispatch(w) ==
  /\ At(w, "reserved")
  /\ OwnsRun(w)
  /\ HoldsReservation(w)
  /\ ~effect.dispatched
  /\ effect' = DispatchedEffect
  /\ Goes(w, IF workers[w].uncertain /\ provider.recovery = "reconcile"
             THEN "looking" ELSE "sending")
  /\ UNCHANGED <<provider, run, owner, requests, applied, claims>>

\* The lease is gone, the tool disabled, the credential revoked, the approval
\* outdated, the deadline passed, or the call was aborted before.
RejectDispatch(w) ==
  /\ At(w, "reserved")
  /\ Decides(w, FailureOutcome(w))
  /\ UNCHANGED <<provider, run, owner, effect, requests, applied, claims>>

-----------------------------------------------------------------------------
(* The adapter and the provider behind it. *)

InFlight == {c \in Claims : requests[c] = "in flight"}
SendFrom(w, outcome) ==
  /\ requests' = [requests EXCEPT ![workers[w].token] = "in flight"]
  /\ workers' = [workers EXCEPT ![w].phase = "waiting", ![w].outcome = outcome]
  /\ UNCHANGED <<provider, run, owner, effect, applied, claims>>

Send(w) == At(w, "sending") /\ SendFrom(w, "succeeded")

\* A provider that honours the key is asked by sending the request again.
Replay(w) == At(w, "looking") /\ provider.keyed /\ SendFrom(w, "reconciled")

LookFound(w) ==
  /\ At(w, "looking")
  /\ ~provider.keyed
  /\ applied > 0
  /\ Decides(w, "reconciled")
  /\ UNCHANGED <<provider, run, owner, effect, requests, applied, claims>>

\* An adapter may answer "absent" only when no request is left anywhere.
LookAbsent(w) ==
  /\ At(w, "looking")
  /\ ~provider.keyed
  /\ applied = 0
  /\ InFlight = {}
  /\ \A v \in Workers : ~At(v, "sending")
  /\ Goes(w, "absent")
  /\ UNCHANGED <<provider, run, owner, effect, requests, applied, claims>>

FaultMayRecordAbsence(w) == TRUE
MayRecordAbsence(w) == HoldsReservation(w)

\* record_reconciliation, after which the write is no longer in doubt.
RecordAbsence(w) ==
  /\ At(w, "absent")
  /\ MayRecordAbsence(w)
  /\ workers' = [workers EXCEPT ![w].phase = "sending", ![w].uncertain = FALSE]
  /\ UNCHANGED <<provider, run, owner, effect, requests, applied, claims>>

\* An abort, a passed budget, a refused connection, a lookup without answer, or
\* a reservation that is gone: nothing is sent.
GiveUp(w) ==
  /\ \/ workers[w].phase \in {"looking", "absent", "sending"} /\ Decides(w, "unknown")
     \/ At(w, "sending") /\ Decides(w, FailureOutcome(w))
  /\ UNCHANGED <<provider, run, owner, effect, requests, applied, claims>>

\* No answer, or one that is not definite.
Timeout(w) ==
  /\ At(w, "waiting")
  /\ Decides(w, "unknown")
  /\ UNCHANGED <<provider, run, owner, effect, requests, applied, claims>>

Hears(w, c) == At(w, "waiting") /\ workers[w].token = c

\* The provider applies a request, once per key if it honours keys; its answer
\* may be lost.
Apply(c) ==
  /\ c \in InFlight
  /\ requests' = [requests EXCEPT ![c] = "arrived"]
  /\ applied' = IF provider.keyed /\ applied > 0 THEN applied ELSE applied + 1
  /\ \/ UNCHANGED workers
     \/ \E w \in Workers : Hears(w, c) /\ Goes(w, "finishing")
  /\ UNCHANGED <<provider, run, owner, effect, claims>>

\* It refuses the request, or the request is lost.
Refuse(c) ==
  /\ c \in InFlight
  /\ requests' = [requests EXCEPT ![c] = "arrived"]
  /\ \/ UNCHANGED workers
     \/ \E w \in Workers : Hears(w, c) /\ Decides(w, FailureOutcome(w))
  /\ UNCHANGED <<provider, run, owner, effect, applied, claims>>

-----------------------------------------------------------------------------
(* finish, for the holder of the reservation only *)

FaultMayFinish(w) == TRUE
MayFinish(w) == HoldsReservation(w)

FinishedEffect(status, error) ==
  [effect EXCEPT !.status = status, !.error = error, !.reservation = 0,
                 !.by = IF status = "reconciled" THEN "adapter" ELSE @]

\* An abort between the receipt and the return raises all the same.
FinishConfirmed(w) ==
  /\ At(w, "finishing")
  /\ workers[w].outcome \in Confirmed
  /\ MayFinish(w)
  /\ effect' = FinishedEffect(workers[w].outcome, "none")
  /\ Ends(w, "returned") \/ Ends(w, "raised")
  /\ UNCHANGED <<provider, run, owner, requests, applied, claims>>

\* The error of an uncertain outcome is not kept: nothing reads it.
FinishFailed(w, error, cooling) ==
  /\ At(w, "finishing")
  /\ workers[w].outcome \notin Confirmed
  /\ MayFinish(w)
  /\ error = "none" <=> workers[w].outcome = "unknown"
  /\ effect' = [FinishedEffect(workers[w].outcome, error)
                 EXCEPT !.cooling = cooling \/ @]
  /\ Ends(w, "raised")
  /\ UNCHANGED <<provider, run, owner, requests, applied, claims>>

\* Another reservation or an operator's resolution came first.
FinishSuperseded(w) ==
  /\ At(w, "finishing")
  /\ ~HoldsReservation(w)
  /\ Ends(w, "raised")
  /\ UNCHANGED <<provider, run, owner, effect, requests, applied, claims>>

-----------------------------------------------------------------------------
(* What happens to the row without a worker. *)

Abandoned == effect.status = "pending" /\ effect.dispatched /\ ~LiveReservation

FaultExposed == Abandoned /\ run.status = "running"
Exposed == Abandoned

RecoverEffects ==
  /\ Exposed
  /\ effect' = [effect EXCEPT !.status = "unknown"]
  /\ UNCHANGED <<provider, run, owner, workers, requests, applied, claims>>

FaultMayResolve == effect.status = "unknown" \/ Abandoned
MayResolve == (effect.status = "unknown" \/ Abandoned) /\ ~LiveReservation

\* The operator's answer is taken as it comes.
Resolve(succeeded) ==
  /\ MayResolve
  /\ effect' = [effect EXCEPT !.status = "reconciled", !.reservation = 0,
                              !.error = IF succeeded THEN "none" ELSE "final",
                              !.by = "operator"]
  /\ UNCHANGED <<provider, run, owner, workers, requests, applied, claims>>

\* retry_not_before passes.
BackoffEnds ==
  /\ effect.cooling
  /\ effect' = [effect EXCEPT !.cooling = FALSE]
  /\ UNCHANGED <<provider, run, owner, workers, requests, applied, claims>>

FaultBlockers ==
  \/ effect.status = "unknown"
  \/ effect.status = "reconciled" /\ effect.error # "none"
  \/ effect.status \in {"pending", "failed"} /\ effect.attempts >= MaxAttempts
  \/ effect.status = "failed" /\ effect.error # "retryable"
Blockers ==
  \/ Uncertain
  \/ effect.status = "reconciled" /\ effect.error # "none"
  \/ effect.status \in {"pending", "failed"} /\ effect.attempts >= MaxAttempts
  \/ effect.status = "failed" /\ effect.error # "retryable"

\* A recovery run tries the same effect again, under the same key.
Recover ==
  /\ run.status = "failed"
  /\ run.number < MaxRuns
  /\ ~Blockers
  /\ run' = [status |-> "running", number |-> run.number + 1]
  /\ UNCHANGED <<provider, owner, effect, workers, requests, applied, claims>>

-----------------------------------------------------------------------------
Init ==
  /\ provider \in Providers
  /\ run = [status |-> "running", number |-> 1]
  /\ owner = 0
  /\ effect = NoEffect
  /\ workers = [w \in Workers |-> IdleWorker]
  /\ requests = [c \in Claims |-> "unsent"]
  /\ applied = 0
  /\ claims = 0

Reservation(w) ==
  RejectCall(w) \/ ReserveNothing(w) \/ Reread(w) \/ Reserve(w)

Delivery(w) ==
  \/ Dispatch(w) \/ RejectDispatch(w)
  \/ Send(w) \/ Replay(w)
  \/ LookFound(w) \/ LookAbsent(w) \/ RecordAbsence(w)
  \/ GiveUp(w) \/ Timeout(w)

Finish(w) ==
  \/ FinishConfirmed(w)
  \/ \E error \in {"none", "retryable", "final"}, cooling \in BOOLEAN :
       FinishFailed(w, error, cooling)
  \/ FinishSuperseded(w)

Work(w) ==
  \/ Reservation(w) \/ Delivery(w) \/ Finish(w)
  \/ CommitOutcome(w) \/ DiscardOutcome(w)

Next ==
  \/ \E w \in Workers : Claim(w) \/ Work(w) \/ Interrupt(w)
  \/ \E c \in Claims : Apply(c) \/ Refuse(c)
  \/ LoseLease \/ EndRun
  \/ RecoverEffects \/ BackoffEnds \/ Recover
  \/ \E succeeded \in BOOLEAN : Resolve(succeeded)

Spec == Init /\ [][Next]_vars

\* A worker goes on or dies, a lease that nobody renews expires, and the control
\* loop of some worker scans for abandoned effects.
Fairness ==
  /\ \A w \in Workers : WF_vars(Work(w) \/ Interrupt(w))
  /\ WF_vars(LoseLease /\ \A w \in Workers : workers[w].token # owner)
  /\ WF_vars(RecoverEffects)

FairSpec == Spec /\ Fairness

-----------------------------------------------------------------------------
(* Properties. *)

EffectType ==
  [status : {"absent", "pending", "failed", "unknown"} \cup Confirmed,
   reservation : 0..MaxClaims, dispatched : BOOLEAN, attempts : 0..MaxAttempts,
   error : {"none", "retryable", "final"}, by : {"none", "adapter", "operator"},
   cooling : BOOLEAN]
WorkerType ==
  [phase : {"idle", "claimed", "rereading", "reserved", "looking", "absent",
            "sending", "waiting", "finishing", "over"},
   token : 0..MaxClaims, uncertain : BOOLEAN,
   outcome : {"none", "failed", "unknown", "returned", "raised"} \cup Confirmed]

\* The variables have their types, nobody holds a claim yet to be made, and the
\* dispatches stay within contract.retry.max_attempts (reserve, dispatch).
TypeOK ==
  /\ provider \in Providers
  /\ run \in [status : {"running", "settled", "failed"}, number : 1..MaxRuns]
  /\ claims \in 0..MaxClaims
  /\ owner \in 0..claims
  /\ effect \in EffectType /\ effect.reservation <= claims
  /\ workers \in [Workers -> WorkerType]
  /\ \A w \in Workers : workers[w].token <= claims
  /\ requests \in [Claims -> {"unsent", "in flight", "arrived"}]
  /\ applied \in Nat

\* The effect happens at most once, whatever crashes, late requests, retries
\* and recovery runs there are, and whatever the operator answers.
AtMostOnce == applied <= 1

MaySend(w) == At(w, "sending") \/ (At(w, "looking") /\ provider.keyed)
NothingLeft == InFlight = {} /\ \A w \in Workers : ~MaySend(w)

\* A row that says nothing was done is right: after "failed", and before the
\* dispatch marker, the effect has not happened and no request of it is left
\* (docs/TOOL_CONTRACTS.md, "No uncertain write remains from this attempt").
FailedMeansNothing ==
  effect.status \in {"absent", "failed"}
    \/ (effect.status = "pending" /\ ~effect.dispatched)
  => applied = 0 /\ NothingLeft

\* A step completes only on a confirmed success of its effect (execute_tool,
\* commit_result), never on an effect resolved as failed.
SettledOnSuccess ==
  run.status = "settled" => effect.status \in Confirmed /\ effect.error = "none"

\* Each request is charged to the effect's budget before it is sent, by any
\* worker of any run (dispatch).
RequestsCharged ==
  Cardinality({c \in Claims : requests[c] # "unsent"}) <= effect.attempts

\* While a worker that owns the run delivers, the effect stays reserved for it:
\* no other reservation and no resolution comes in between, and its receipt will
\* be recorded (docs/TOOL_CONTRACTS.md, "Concurrent manual resolution waits until
\* an active recovery reservation has ended").
LiveDeliveryIsReserved ==
  \A w \in Workers :
    /\ workers[w].phase \in {"reserved", "looking", "absent", "sending", "waiting",
                             "finishing"}
    /\ OwnsRun(w)
    => HoldsReservation(w) /\ effect.status \in {"pending", "unknown"}

\* A confirmed outcome never changes, so that the guard preserve_tool_history
\* is never the one to stop a late receipt.
ConfirmedIsFinal ==
  [][effect.status \in Confirmed =>
       effect' = [effect EXCEPT !.cooling = effect'.cooling]]_vars

\* Nothing is dispatched before the provider's backoff has elapsed, by the same
\* run or by its recovery.
BackoffRespected ==
  [][effect'.attempts > effect.attempts => ~effect.cooling]_vars

\* A recovery run starts only from certainty: the effect has been confirmed, or
\* it has not happened and no request of it is left (blockers).
RecoveryIsCertain ==
  [][run'.number > run.number =>
       \/ effect.status \in Confirmed /\ effect.error = "none"
       \/ applied = 0 /\ NothingLeft]_vars

Verdict ==
  IF effect.status \notin Confirmed THEN "open"
  ELSE IF effect.by # "operator" THEN "confirmed"
  ELSE IF effect.error = "none" THEN "resolved" ELSE "denied"

Contract == INSTANCE EffectContract WITH happened <- applied, verdict <- Verdict

\* The ledger implements EffectContract: the effect happens at most once, and the
\* row says so, once, only after it has.
ImplementsContract == Contract!Spec

\* An abandoned dispatch becomes visible as unknown, in whatever state its run
\* is (recover_effects).
AbandonedIsExposed ==
  (effect.status = "pending" /\ effect.dispatched)
    ~> ~(effect.status = "pending" /\ effect.dispatched)

-----------------------------------------------------------------------------
(* The inductive invariant of the proofs. *)

\* A claim is held by one worker at most, and none outlives its run.
TokensAreUnique ==
  /\ run.status # "running" => owner = 0
  /\ \A w \in Workers : ~At(w, "idle") => workers[w].token # 0
  /\ \A v, w \in Workers : workers[v].token = workers[w].token
                             => v = w \/ workers[v].token = 0

\* A confirmed row is reserved for nobody and, but for an operator's word, true.
ConfirmedRow ==
  IF effect.status \in Confirmed
  THEN /\ effect.reservation = 0
       /\ effect.by # "operator" => applied > 0 /\ effect.error = "none"
       /\ effect.status = "succeeded" => effect.by # "operator"
  ELSE effect.by = "none"

\* What the holder of the reservation remembers agrees with the row and,
\* if he is in no doubt, with the world.
HolderKnows(w) ==
  /\ At(w, "reserved") =>
       /\ ~effect.dispatched
       /\ effect.attempts < MaxAttempts
       /\ ~effect.cooling
       /\ effect.status = IF workers[w].uncertain THEN "unknown" ELSE "pending"
       /\ workers[w].uncertain => provider.recovery # "none"
  /\ workers[w].phase \in {"looking", "absent", "sending", "waiting"} =>
       effect.dispatched /\ effect.status \in {"pending", "unknown"}
  /\ At(w, "looking") => workers[w].uncertain
  /\ At(w, "absent") => applied = 0 /\ NothingLeft
  /\ At(w, "sending") /\ ~workers[w].uncertain =>
       applied = 0 /\ InFlight = {} /\ \A v \in Workers : MaySend(v) => v = w
  /\ At(w, "waiting") /\ ~workers[w].uncertain =>
       /\ \A v \in Workers : ~MaySend(v)
       /\ InFlight \subseteq {workers[w].token}
       /\ InFlight # {} => applied = 0
  /\ At(w, "finishing") /\ workers[w].outcome = "failed" =>
       applied = 0 /\ NothingLeft

HoldersKnow ==
  \A w \in Workers : ~At(w, "idle") /\ HoldsReservation(w) => HolderKnows(w)

\* A success is only heard of after the effect has happened.
ReceiptsAreTrue ==
  \A w \in Workers :
    /\ At(w, "waiting") => workers[w].outcome \in Confirmed
    /\ At(w, "finishing") =>
         /\ workers[w].outcome \in {"failed", "unknown"} \cup Confirmed
         /\ workers[w].outcome \in Confirmed => applied > 0

\* Without a key that the provider honours, there is one write in the world.
OneWrite ==
  /\ applied <= 1
  /\ ~provider.keyed =>
       /\ applied = 1 => NothingLeft
       /\ \A c, d \in InFlight : c = d
       /\ \A v, w \in Workers : MaySend(v) /\ MaySend(w) => v = w
       /\ \A w \in Workers : MaySend(w) => InFlight = {}

IInv ==
  /\ TypeOK
  /\ TokensAreUnique
  /\ FailedMeansNothing
  /\ ConfirmedRow
  /\ HoldersKnow
  /\ ReceiptsAreTrue
  /\ OneWrite
  /\ LiveDeliveryIsReserved

\* The claims whose request is sent, or paid for and about to be sent, are never
\* more than the dispatches: the invariant behind RequestsCharged.
Paying(w) == workers[w].phase \in {"looking", "absent", "sending"}
Charged ==
  {c \in Claims :
     \/ requests[c] # "unsent"
     \/ \E w \in Workers : Paying(w) /\ workers[w].token = c}
ChargesHold == Cardinality(Charged) <= effect.attempts
=============================================================================
