------------------------- MODULE EffectLedger_proofs -------------------------
(***************************************************************************)
(* Theorems about EffectLedger, for any number of workers, claims, runs    *)
(* and attempts: one lemma for the steps that only make a worker give up,  *)
(* one for each other action, and the theorems; last, that requests are    *)
(* charged, which counts them.                                             *)
(***************************************************************************)
EXTENDS EffectLedger, FiniteSetTheorems, TLAPS

Delivering == {"reserved", "looking", "absent", "sending", "waiting", "finishing"}

\* Zero, the token of nobody, is in range, and so is a worker without a claim.
LEMMA NobodyIsTyped == 0 \in 0..MaxClaims /\ IdleWorker \in WorkerType
<1>1. 0 \in 0..MaxClaims
  BY BoundsAssumption
<1> QED BY <1>1 DEF WorkerType, IdleWorker

\* So is the number of dispatches.
LEMMA AttemptsAreNumbers ==
  ASSUME TypeOK PROVE effect \in EffectType /\ effect.attempts \in Nat
<1>1. 0..MaxAttempts \subseteq Nat
  BY BoundsAssumption
<1>2. effect \in EffectType
  BY DEF TypeOK
<1>3. effect.attempts \in 0..MaxAttempts
  BY <1>2 DEF EffectType
<1> QED BY <1>1, <1>2, <1>3

\* The counters are numbers.
LEMMA Numbers ==
  TypeOK => /\ claims \in Nat /\ owner \in Nat /\ applied \in Nat
            /\ effect.reservation \in Nat
<1> SUFFICES ASSUME TypeOK
             PROVE  /\ claims \in Nat /\ owner \in Nat /\ applied \in Nat
                    /\ effect.reservation \in Nat
  OBVIOUS
<1>1. MaxClaims \in Nat
  BY BoundsAssumption
<1>2. claims \in 0..MaxClaims /\ owner \in 0..claims
  BY DEF TypeOK
<1>3. effect.reservation \in 0..MaxClaims
  BY DEF TypeOK, EffectType
<1>4. applied \in Nat
  BY DEF TypeOK
<1> QED BY <1>1, <1>2, <1>3, <1>4

\* The invariant holds initially.
LEMMA InitInv == Init => IInv
<1> SUFFICES ASSUME Init PROVE IInv
  OBVIOUS
<1> USE DEF Init, At, NoEffect, IdleWorker
<1>1. TypeOK
  BY BoundsAssumption DEF TypeOK, EffectType, WorkerType, Claims
<1>a. InFlight = {} /\ \A w \in Workers : ~MaySend(w)
  BY DEF InFlight, MaySend
<1>2. FailedMeansNothing
  BY <1>a DEF FailedMeansNothing, NothingLeft
<1>3. TokensAreUnique /\ ConfirmedRow /\ ReceiptsAreTrue
  BY DEF TokensAreUnique, ConfirmedRow, ReceiptsAreTrue, Confirmed
<1>4. HoldersKnow
  BY DEF HoldersKnow
<1>5. OneWrite
  BY <1>a DEF OneWrite
<1>6. LiveDeliveryIsReserved
  BY DEF LiveDeliveryIsReserved
<1> QED BY <1>1, <1>2, <1>3, <1>4, <1>5, <1>6 DEF IInv

\* A worker whose row becomes r keeps the memory of all others.
LEMMA OthersKept ==
  ASSUME TypeOK, NEW w \in Workers, NEW r \in WorkerType,
         workers' = [workers EXCEPT ![w] = r]
  PROVE  /\ workers' \in [Workers -> WorkerType]
         /\ workers'[w] = r
         /\ \A v \in Workers : v # w => workers'[v] = workers[v]
  BY DEF TypeOK

\* A worker that steps back from sending, or dies, disturbs nothing.
LEMMA StepBackInv ==
  ASSUME IInv, NEW w \in Workers, NEW r \in WorkerType,
         workers' = [workers EXCEPT ![w] = r],
         r.token = workers[w].token \/ (r.token = 0 /\ r.phase = "idle"),
         workers[w].phase # "idle",
         \/ r.phase \in {"idle", "rereading", "over"}
         \/ /\ r.phase = "finishing" /\ r.outcome = "unknown"
            /\ workers[w].phase \in Delivering,
         (owner' = owner /\ run' = run) \/ owner' = 0,
         run' \in [status : {"running", "settled", "failed"}, number : 1..MaxRuns],
         UNCHANGED <<provider, effect, requests, applied, claims>>
  PROVE  IInv'
<1> USE DEF IInv, At
<1>1. /\ workers' \in [Workers -> WorkerType]
      /\ workers'[w] = r
      /\ \A v \in Workers : v # w => workers'[v] = workers[v]
  BY OthersKept
<1>2. \A v \in Workers : MaySend(v)' => MaySend(v)
  BY <1>1 DEF MaySend
<1>3. InFlight' = InFlight
  BY DEF InFlight
<1>4. NothingLeft => NothingLeft'
  BY <1>2, <1>3 DEF NothingLeft
<1>5. TypeOK'
  <2>a. claims \in Nat /\ owner \in 0..claims /\ \A v \in Workers : workers[v].token <= claims
    BY Numbers DEF TypeOK
  <2>1. \A v \in Workers : workers'[v].token <= claims
    BY <2>a, <1>1
  <2>2. owner' \in 0..claims
    BY <2>a
  <2> QED BY <1>1, <2>1, <2>2 DEF TypeOK
<1>6. TokensAreUnique'
  BY <1>1 DEF TokensAreUnique
<1>7. FailedMeansNothing'
  BY <1>4 DEF FailedMeansNothing
<1>8. ConfirmedRow'
  BY DEF ConfirmedRow
<1>9. HoldersKnow'
  <2> SUFFICES ASSUME NEW v \in Workers, ~At(v, "idle")', HoldsReservation(v)'
               PROVE  HolderKnows(v)'
    BY DEF HoldersKnow
  <2>1. CASE v = w
    BY <2>1, <1>1 DEF HolderKnows
  <2>2. CASE v # w
    <3>1. HolderKnows(v)
      BY <2>2, <1>1 DEF HoldersKnow, HoldsReservation
    <3> QED BY <3>1, <2>2, <1>1, <1>2, <1>3, <1>4 DEF HolderKnows
  <2> QED BY <2>1, <2>2
<1>10. ReceiptsAreTrue'
  BY <1>1 DEF ReceiptsAreTrue, Confirmed
<1>11. OneWrite'
  BY <1>2, <1>3, <1>4 DEF OneWrite
<1>12. LiveDeliveryIsReserved'
  BY <1>1 DEF LiveDeliveryIsReserved, OwnsRun, HoldsReservation, Delivering, TokensAreUnique
<1> QED BY <1>5, <1>6, <1>7, <1>8, <1>9, <1>10, <1>11, <1>12

\* Losing the lease, with or without the end of the run, disturbs nothing.
LEMMA OwnerGoneInv ==
  ASSUME IInv, owner' = 0,
         run' \in [status : {"running", "settled", "failed"}, number : 1..MaxRuns],
         UNCHANGED <<provider, effect, workers, requests, applied, claims>>
  PROVE  IInv'
<1> USE DEF IInv, At
<1>1. TypeOK'
  <2>1. owner' \in 0..claims
    BY Numbers
  <2> QED BY <2>1 DEF TypeOK
<1>2. TokensAreUnique'
  BY DEF TokensAreUnique
<1>3. /\ NothingLeft' = NothingLeft
      /\ InFlight' = InFlight
      /\ \A w \in Workers : MaySend(w)' = MaySend(w)
  BY DEF NothingLeft, InFlight, MaySend
<1>4. FailedMeansNothing' /\ ConfirmedRow' /\ ReceiptsAreTrue'
  BY <1>3 DEF FailedMeansNothing, ConfirmedRow, ReceiptsAreTrue
<1>5. HoldersKnow'
  BY <1>3 DEF HoldersKnow, HolderKnows, HoldsReservation
<1>6. OneWrite'
  BY <1>3 DEF OneWrite
<1>7. LiveDeliveryIsReserved'
  BY DEF LiveDeliveryIsReserved, OwnsRun, TokensAreUnique
<1> QED BY <1>1, <1>2, <1>4, <1>5, <1>6, <1>7

\* A step that changes the row alone keeps what the workers and the world are.
LEMMA RowInv ==
  ASSUME IInv, UNCHANGED <<provider, run, owner, workers, requests, applied, claims>>,
         effect' \in EffectType, effect'.reservation <= claims,
         FailedMeansNothing', ConfirmedRow', HoldersKnow', LiveDeliveryIsReserved'
  PROVE  IInv'
<1> USE DEF IInv, At
<1>1. TypeOK'
  BY DEF TypeOK
<1>2. TokensAreUnique' /\ ReceiptsAreTrue'
  BY DEF TokensAreUnique, ReceiptsAreTrue
<1>3. OneWrite'
  BY DEF OneWrite, NothingLeft, InFlight, MaySend
<1> QED BY <1>1, <1>2, <1>3

Phases ==
  {"idle", "claimed", "rereading", "reserved", "looking", "absent", "sending",
   "waiting", "finishing", "over"}
Outcomes ==
  {"none", "failed", "unknown", "returned", "raised", "succeeded", "reconciled"}

\* The worker w, busy before, goes on with its claim; the others stay as they are.
MovesTo(w, phase, uncertain, outcome) ==
  /\ workers[w].phase # "idle"
  /\ workers' \in [Workers -> WorkerType]
  /\ workers'[w].phase = phase
  /\ workers'[w].token = workers[w].token
  /\ workers'[w].uncertain = uncertain
  /\ workers'[w].outcome = outcome
  /\ \A v \in Workers : v # w => workers'[v] = workers[v]

\* What the assignments of the actions leave in the memory of the workers.
LEMMA Moved ==
  ASSUME TypeOK, NEW w \in Workers, workers[w].phase # "idle"
  PROVE  /\ \A p \in Phases :
              Goes(w, p) => MovesTo(w, p, workers[w].uncertain, workers[w].outcome)
         /\ \A o \in Outcomes :
              Decides(w, o) => MovesTo(w, "finishing", workers[w].uncertain, o)
         /\ \A o \in Outcomes : Ends(w, o) => MovesTo(w, "over", workers[w].uncertain, o)
         /\ \A o \in Outcomes :
              workers' = [workers EXCEPT ![w].phase = "waiting", ![w].outcome = o]
                => MovesTo(w, "waiting", workers[w].uncertain, o)
         /\ \A p \in Phases, u \in BOOLEAN :
              workers' = [workers EXCEPT ![w].phase = p, ![w].uncertain = u]
                => MovesTo(w, p, u, workers[w].outcome)
<1>1. workers \in [Workers -> WorkerType] /\ workers[w] \in WorkerType
  BY DEF TypeOK
<1> USE <1>1 DEF MovesTo, WorkerType, Phases, Outcomes, Confirmed
<1>2. ASSUME NEW p \in Phases, Goes(w, p)
      PROVE  MovesTo(w, p, workers[w].uncertain, workers[w].outcome)
  BY <1>2 DEF Goes
<1>3. ASSUME NEW o \in Outcomes, Decides(w, o)
      PROVE  MovesTo(w, "finishing", workers[w].uncertain, o)
  BY <1>3 DEF Decides
<1>4. ASSUME NEW o \in Outcomes, Ends(w, o)
      PROVE  MovesTo(w, "over", workers[w].uncertain, o)
  BY <1>4 DEF Ends
<1>5. ASSUME NEW o \in Outcomes,
             workers' = [workers EXCEPT ![w].phase = "waiting", ![w].outcome = o]
      PROVE  MovesTo(w, "waiting", workers[w].uncertain, o)
  BY <1>5
<1>6. ASSUME NEW p \in Phases, NEW u \in BOOLEAN,
             workers' = [workers EXCEPT ![w].phase = p, ![w].uncertain = u]
      PROVE  MovesTo(w, p, u, workers[w].outcome)
  BY <1>6
<1> QED BY <1>2, <1>3, <1>4, <1>5, <1>6

\* A worker that goes on keeps its claim.
LEMMA MoveKeepsTokens ==
  ASSUME TokensAreUnique, NEW w \in Workers, NEW p, NEW u, NEW o, MovesTo(w, p, u, o),
         UNCHANGED <<run, owner>>
  PROVE  TokensAreUnique'
<1>1. \A v \in Workers : workers'[v].token = workers[v].token
  BY DEF MovesTo
<1>2. \A v \in Workers : ~At(v, "idle")' => ~At(v, "idle")
  BY DEF MovesTo, At
<1> QED BY <1>1, <1>2 DEF TokensAreUnique

\* A step of one worker with its claim keeps the parts of the invariant that
\* speak of types, tokens and receipts.
LEMMA MoveInv ==
  ASSUME IInv, NEW w \in Workers, NEW p, NEW u, NEW o, MovesTo(w, p, u, o),
         UNCHANGED <<provider, run, owner, claims>>,
         effect' \in EffectType, effect'.reservation <= claims,
         requests' \in [Claims -> {"unsent", "in flight", "arrived"}],
         applied' \in Nat, applied > 0 => applied' > 0,
         p = "waiting" => o \in Confirmed,
         p = "finishing" =>
           /\ o \in {"failed", "unknown"} \cup Confirmed
           /\ o \in Confirmed => applied' > 0,
         FailedMeansNothing', ConfirmedRow', HoldersKnow', OneWrite',
         LiveDeliveryIsReserved'
  PROVE  IInv'
<1> USE DEF IInv, At, MovesTo
<1>2. TypeOK'
  <2>1. \A v \in Workers : workers'[v].token <= claims
    BY DEF TypeOK
  <2> QED BY <2>1 DEF TypeOK
<1>3. TokensAreUnique'
  BY MoveKeepsTokens
<1>4. ReceiptsAreTrue'
  <2>1. SUFFICES ASSUME NEW v \in Workers
                 PROVE  /\ At(v, "waiting")' => workers'[v].outcome \in Confirmed
                        /\ At(v, "finishing")' =>
                             /\ workers'[v].outcome \in {"failed", "unknown"} \cup Confirmed
                             /\ workers'[v].outcome \in Confirmed => applied' > 0
    BY DEF ReceiptsAreTrue
  <2>2. CASE v = w
    BY <2>2
  <2>3. CASE v # w
    BY <2>3 DEF ReceiptsAreTrue
  <2> QED BY <2>2, <2>3
<1> QED BY <1>2, <1>3, <1>4

\* The holder of the reservation is alone, and so is the owner of the run.
LEMMA HolderIsAlone ==
  ASSUME TokensAreUnique, NEW v \in Workers, NEW w \in Workers,
         ~At(v, "idle"), ~At(w, "idle"),
         workers[v].token = workers[w].token
  PROVE  v = w
  BY DEF TokensAreUnique

\* claim_jobs: a fresh token, and a worker that holds nothing yet.
LEMMA ClaimInv == ASSUME IInv, NEW w \in Workers, Claim(w) PROVE IInv'
<1> USE DEF IInv, At, Claim
<1> DEFINE r == [IdleWorker EXCEPT !.phase = "claimed", !.token = claims + 1]
<1>1. /\ claims \in Nat /\ claims + 1 \in 0..MaxClaims
      /\ effect.reservation \in Nat /\ effect.reservation <= claims
      /\ \A v \in Workers : workers[v].token \in Nat /\ workers[v].token <= claims
  <2>1. MaxClaims \in Nat /\ claims \in Nat /\ effect.reservation \in Nat
    BY Numbers, BoundsAssumption
  <2>2. effect.reservation <= claims /\ claims < MaxClaims
    BY DEF TypeOK
  <2>3. \A v \in Workers : workers[v].token \in 0..MaxClaims /\ workers[v].token <= claims
    BY DEF TypeOK, WorkerType
  <2> QED BY <2>1, <2>2, <2>3
<1>2. r \in WorkerType /\ r.token = claims + 1 /\ r.phase = "claimed"
  BY <1>1 DEF IdleWorker, WorkerType
<1> HIDE DEF r
<1>3. /\ workers' \in [Workers -> WorkerType]
      /\ workers'[w] = r
      /\ \A v \in Workers : v # w => workers'[v] = workers[v]
  BY <1>2, OthersKept DEF r
<1>4. TypeOK'
  <2>1. \A v \in Workers : workers'[v].token <= claims + 1
    BY <1>1, <1>2, <1>3
  <2>2. claims' \in 0..MaxClaims /\ owner' \in 0..claims'
    BY <1>1
  <2>3. effect.reservation <= claims + 1
    BY <1>1
  <2> QED BY <1>3, <2>1, <2>2, <2>3 DEF TypeOK
<1>5. TokensAreUnique'
  <2>1. \A v \in Workers : v # w => workers'[v].token # claims + 1
    BY <1>1, <1>3
  <2>2. workers'[w].token = claims + 1 /\ claims + 1 # 0
    BY <1>1, <1>2, <1>3
  <2> QED BY <1>3, <2>1, <2>2 DEF TokensAreUnique
<1>6. /\ InFlight' = InFlight
      /\ \A v \in Workers : MaySend(v)' = MaySend(v)
  BY <1>2, <1>3 DEF InFlight, MaySend
<1>7. NothingLeft' = NothingLeft
  BY <1>6 DEF NothingLeft
<1>8. FailedMeansNothing' /\ ConfirmedRow'
  BY <1>7 DEF FailedMeansNothing, ConfirmedRow
<1>9. HoldersKnow'
  <2> SUFFICES ASSUME NEW v \in Workers, ~At(v, "idle")', HoldsReservation(v)'
               PROVE  HolderKnows(v)'
    BY DEF HoldersKnow
  <2>1. v # w
    BY <1>1, <1>2, <1>3 DEF HoldsReservation
  <2>2. HolderKnows(v)
    BY <2>1, <1>3 DEF HoldersKnow, HoldsReservation
  <2> QED BY <2>1, <2>2, <1>3, <1>6, <1>7 DEF HolderKnows
<1>10. ReceiptsAreTrue'
  BY <1>2, <1>3 DEF ReceiptsAreTrue
<1>11. OneWrite'
  BY <1>6, <1>7 DEF OneWrite
<1>12. LiveDeliveryIsReserved'
  <2>1. \A v \in Workers : v # w => workers'[v].token # claims + 1
    BY <1>1, <1>3
  <2> QED BY <2>1, <1>2, <1>3 DEF LiveDeliveryIsReserved, OwnsRun
<1> QED BY <1>4, <1>5, <1>8, <1>9, <1>10, <1>11, <1>12

-----------------------------------------------------------------------------
(* Steps that change the row alone. *)

\* Marking the row unknown tells the holder nothing new.
LEMMA HoldersKnowUnknown ==
  ASSUME IInv, effect' = [effect EXCEPT !.status = "unknown"], Uncertain,
         UNCHANGED <<provider, applied>>,
         NEW v \in Workers, workers'[v] = workers[v], HoldersKnow,
         ~At(v, "idle"), HoldsReservation(v),
         InFlight' = InFlight, \A x \in Workers : MaySend(x)' = MaySend(x)
  PROVE  HolderKnows(v)'
<1> USE DEF IInv, At
<1>1. HolderKnows(v)
  BY DEF HoldersKnow
<1>2. effect \in EffectType
  BY DEF TypeOK
<1>3. /\ effect'.status = "unknown" /\ effect'.dispatched = effect.dispatched
      /\ effect'.attempts = effect.attempts
  BY <1>2 DEF EffectType
<1>4. At(v, "reserved") => effect.status = "unknown"
  BY <1>1 DEF HolderKnows, Uncertain
<1>5. NothingLeft' = NothingLeft
  BY DEF NothingLeft
<1> QED BY <1>1, <1>3, <1>4, <1>5 DEF HolderKnows

\* recover_effects
LEMMA RecoverEffectsInv == ASSUME IInv, RecoverEffects PROVE IInv'
<1> USE DEF IInv, At, RecoverEffects, Exposed, Abandoned
<1>1. effect \in EffectType /\ effect.reservation <= claims
  BY DEF TypeOK
<1>2. /\ effect' \in EffectType /\ effect'.status = "unknown"
      /\ effect'.reservation = effect.reservation /\ effect'.by = effect.by
  BY <1>1 DEF EffectType
<1>3. FailedMeansNothing' /\ ConfirmedRow'
  BY <1>2 DEF FailedMeansNothing, ConfirmedRow, Confirmed
<1>4. InFlight' = InFlight /\ \A x \in Workers : MaySend(x)' = MaySend(x)
  BY DEF InFlight, MaySend
<1>5. HoldersKnow'
  BY <1>2, <1>4, HoldersKnowUnknown DEF HoldersKnow, HoldsReservation, Uncertain
<1>6. LiveDeliveryIsReserved'
  BY <1>2 DEF LiveDeliveryIsReserved, OwnsRun, HoldsReservation
<1> QED BY <1>1, <1>2, <1>3, <1>5, <1>6, RowInv

\* resolve takes the reservation away only from workers that are not live.
LEMMA ResolveInv ==
  ASSUME IInv, NEW succeeded \in BOOLEAN, Resolve(succeeded) PROVE IInv'
<1> USE DEF IInv, At, Resolve, MayResolve
<1>1. effect \in EffectType /\ effect.reservation <= claims
  BY DEF TypeOK
<1>2. /\ effect' \in EffectType /\ effect'.status = "reconciled"
      /\ effect'.reservation = 0 /\ effect'.by = "operator"
  <2>1. 0 \in 0..MaxClaims
    BY BoundsAssumption
  <2> QED BY <1>1, <2>1 DEF EffectType, Confirmed
<1>3. FailedMeansNothing' /\ ConfirmedRow'
  BY <1>2 DEF FailedMeansNothing, ConfirmedRow, Confirmed
<1>4. HoldersKnow'
  BY <1>2 DEF HoldersKnow, HoldsReservation, TokensAreUnique
<1>5. LiveDeliveryIsReserved'
  BY DEF LiveDeliveryIsReserved, OwnsRun, HoldsReservation, LiveReservation,
     TokensAreUnique
<1>6. effect'.reservation <= claims
  BY <1>2, Numbers
<1> QED BY <1>2, <1>3, <1>4, <1>5, <1>6, RowInv

\* The end of the backoff.
LEMMA BackoffEndsInv == ASSUME IInv, BackoffEnds PROVE IInv'
<1> USE DEF IInv, At, BackoffEnds
<1>1. effect \in EffectType /\ effect.reservation <= claims
  BY DEF TypeOK
<1>2. /\ effect' \in EffectType /\ effect'.status = effect.status
      /\ effect'.reservation = effect.reservation /\ effect'.by = effect.by
      /\ effect'.dispatched = effect.dispatched /\ effect'.attempts = effect.attempts
  BY <1>1 DEF EffectType
<1>3. /\ NothingLeft' = NothingLeft
      /\ InFlight' = InFlight
      /\ \A w \in Workers : MaySend(w)' = MaySend(w)
  BY DEF NothingLeft, InFlight, MaySend
<1>4. FailedMeansNothing' /\ ConfirmedRow'
  BY <1>2, <1>3 DEF FailedMeansNothing, ConfirmedRow
<1>5. HoldersKnow'
  BY <1>2, <1>3 DEF HoldersKnow, HolderKnows, HoldsReservation
<1>6. LiveDeliveryIsReserved'
  BY <1>2 DEF LiveDeliveryIsReserved, OwnsRun, HoldsReservation
<1> QED BY <1>1, <1>2, <1>4, <1>5, <1>6, RowInv

\* The start of a recovery run.
LEMMA RecoverInv == ASSUME IInv, Recover PROVE IInv'
<1> USE DEF IInv, Recover
<1>1. owner' = 0
  BY DEF TokensAreUnique
<1>2. run' \in [status : {"running", "settled", "failed"}, number : 1..MaxRuns]
  <2>1. run.number \in 1..MaxRuns /\ MaxRuns \in Nat
    BY BoundsAssumption DEF TypeOK
  <2>2. run.number + 1 \in 1..MaxRuns
    BY <2>1
  <2> QED BY <2>2
<1> QED BY <1>1, <1>2, OwnerGoneInv

-----------------------------------------------------------------------------
(* Steps of a worker that leave the row as it is. *)

\* Such a step disturbs neither the row nor who delivers under a live lease.
LEMMA WorkerInv ==
  ASSUME IInv, NEW w \in Workers, NEW p, NEW u, NEW o, MovesTo(w, p, u, o),
         UNCHANGED <<provider, run, owner, effect, claims>>,
         requests' \in [Claims -> {"unsent", "in flight", "arrived"}],
         applied' \in Nat, applied > 0 => applied' > 0,
         p = "waiting" => o \in Confirmed,
         p = "finishing" =>
           /\ o \in {"failed", "unknown"} \cup Confirmed
           /\ o \in Confirmed => applied' > 0,
         p \in Delivering => workers[w].phase \in Delivering,
         FailedMeansNothing', HoldersKnow', OneWrite'
  PROVE  IInv'
<1> USE DEF IInv, At
<1>1. effect' \in EffectType /\ effect'.reservation <= claims
  BY DEF TypeOK
<1>2. ConfirmedRow'
  BY DEF ConfirmedRow
<1>3. LiveDeliveryIsReserved'
  BY DEF LiveDeliveryIsReserved, OwnsRun, HoldsReservation, MovesTo, Delivering
<1> QED BY <1>1, <1>2, <1>3, MoveInv

\* A worker that decides without sending, having been about to or not, leaves
\* nothing behind that was not there.
LEMMA QuietMove ==
  ASSUME IInv, NEW w \in Workers, NEW p, NEW u, NEW o, MovesTo(w, p, u, o),
         UNCHANGED <<provider, effect, requests, applied>>,
         p \notin {"sending", "looking"}
  PROVE  /\ InFlight' = InFlight
         /\ \A v \in Workers : MaySend(v)' => MaySend(v)
         /\ ~MaySend(w)'
         /\ NothingLeft => NothingLeft'
         /\ FailedMeansNothing'
         /\ OneWrite'
         /\ (HoldsReservation(w)' => HolderKnows(w)') => HoldersKnow'
<1> USE DEF IInv, At, MovesTo
<1>1. InFlight' = InFlight
  BY DEF InFlight
<1>2. \A v \in Workers : MaySend(v)' => MaySend(v)
  BY DEF MaySend
<1>3. NothingLeft => NothingLeft'
  BY <1>1, <1>2 DEF NothingLeft
<1>4. FailedMeansNothing'
  BY <1>3 DEF FailedMeansNothing
<1>5. OneWrite'
  BY <1>1, <1>2, <1>3 DEF OneWrite
<1>6. ~MaySend(w)'
  BY DEF MaySend
<1>7. ASSUME NEW v \in Workers, v # w, ~At(v, "idle")', HoldsReservation(v)'
      PROVE  HolderKnows(v)'
  <2>1. HolderKnows(v)
    BY <1>7 DEF HoldersKnow, HoldsReservation
  <2> QED BY <2>1, <1>7, <1>1, <1>2, <1>3 DEF HolderKnows
<1>8. (HoldsReservation(w)' => HolderKnows(w)') => HoldersKnow'
  BY <1>7 DEF HoldersKnow
<1> QED BY <1>1, <1>2, <1>3, <1>4, <1>5, <1>6, <1>8

\* A refused dispatch of a worker in no doubt has done nothing.
LEMMA RejectDispatchInv ==
  ASSUME IInv, NEW w \in Workers, RejectDispatch(w) PROVE IInv'
<1> USE DEF IInv, At, RejectDispatch
<1> DEFINE o == FailureOutcome(w)
<1>1. o \in Outcomes /\ o \in {"failed", "unknown"} /\ o \notin Confirmed
  BY DEF FailureOutcome, Outcomes, Confirmed
<1>2. MovesTo(w, "finishing", workers[w].uncertain, o)
  BY <1>1, Moved
<1>3. HoldersKnow'
  <2>1. SUFFICES ASSUME HoldsReservation(w)' PROVE HolderKnows(w)'
    BY <1>2, QuietMove
  <2>2. HolderKnows(w)
    BY <2>1, <1>2 DEF HoldersKnow, HoldsReservation, MovesTo
  <2>3. ~workers[w].uncertain => applied = 0 /\ NothingLeft
    <3>1. ~workers[w].uncertain => effect.status = "pending" /\ ~effect.dispatched
      BY <2>2 DEF HolderKnows
    <3> QED BY <3>1 DEF FailedMeansNothing
  <2>4. o = "failed" => applied' = 0 /\ NothingLeft'
    BY <2>3, <1>2, QuietMove DEF FailureOutcome
  <2> QED BY <2>4, <1>2 DEF HolderKnows, MovesTo
<1>4. FailedMeansNothing' /\ OneWrite'
  BY <1>2, QuietMove
<1>5. /\ requests' \in [Claims -> {"unsent", "in flight", "arrived"}]
      /\ applied' \in Nat
  BY DEF TypeOK
<1> QED BY <1>1, <1>2, <1>3, <1>4, <1>5, WorkerInv DEF Delivering

\* A lookup that finds the effect has found what happened.
LEMMA LookFoundInv == ASSUME IInv, NEW w \in Workers, LookFound(w) PROVE IInv'
<1> USE DEF IInv, At, LookFound
<1>1. MovesTo(w, "finishing", workers[w].uncertain, "reconciled")
  BY Moved DEF Outcomes
<1>2. HoldersKnow'
  BY <1>1, QuietMove DEF HolderKnows, MovesTo
<1>3. FailedMeansNothing' /\ OneWrite'
  BY <1>1, QuietMove
<1>4. /\ requests' \in [Claims -> {"unsent", "in flight", "arrived"}]
      /\ applied' \in Nat
  BY DEF TypeOK
<1> QED BY <1>1, <1>2, <1>3, <1>4, WorkerInv DEF Delivering, Confirmed

\* A lookup that finds nothing is right about the whole world.
LEMMA LookAbsentInv == ASSUME IInv, NEW w \in Workers, LookAbsent(w) PROVE IInv'
<1> USE DEF IInv, At, LookAbsent
<1>1. MovesTo(w, "absent", workers[w].uncertain, workers[w].outcome)
  BY Moved DEF Phases
<1>2. NothingLeft'
  <2>1. NothingLeft
    BY DEF NothingLeft, MaySend
  <2> QED BY <2>1, <1>1, QuietMove
<1>3. HoldersKnow'
  <2>1. SUFFICES ASSUME HoldsReservation(w)' PROVE HolderKnows(w)'
    BY <1>1, QuietMove
  <2>2. HolderKnows(w)
    BY <2>1, <1>1 DEF HoldersKnow, HoldsReservation, MovesTo
  <2> QED BY <2>2, <1>1, <1>2 DEF HolderKnows, MovesTo
<1>4. FailedMeansNothing' /\ OneWrite'
  BY <1>1, QuietMove
<1>5. /\ requests' \in [Claims -> {"unsent", "in flight", "arrived"}]
      /\ applied' \in Nat
  BY DEF TypeOK
<1> QED BY <1>1, <1>3, <1>4, <1>5, WorkerInv DEF Delivering

\* A worker in no doubt that fails before it sends leaves nothing behind.
LEMMA GiveUpInv == ASSUME IInv, NEW w \in Workers, GiveUp(w) PROVE IInv'
<1> USE DEF IInv, At, GiveUp
<1>1. PICK o \in {"failed", "unknown"} :
        /\ Decides(w, o)
        /\ workers[w].phase \in {"looking", "absent", "sending"}
        /\ o = "failed" => workers[w].phase = "sending" /\ ~workers[w].uncertain
  BY DEF FailureOutcome
<1>2. MovesTo(w, "finishing", workers[w].uncertain, o)
  BY <1>1, Moved DEF Outcomes
<1>3. HoldersKnow'
  <2>1. SUFFICES ASSUME HoldsReservation(w)' PROVE HolderKnows(w)'
    BY <1>2, QuietMove
  <2>2. HolderKnows(w)
    BY <2>1, <1>1, <1>2 DEF HoldersKnow, HoldsReservation, MovesTo
  <2>3. ASSUME o = "failed" PROVE applied = 0 /\ NothingLeft'
    <3>1. applied = 0 /\ InFlight = {} /\ \A v \in Workers : MaySend(v) => v = w
      BY <2>2, <2>3, <1>1 DEF HolderKnows
    <3> QED BY <3>1, <1>2, QuietMove DEF NothingLeft
  <2> QED BY <2>3, <1>2 DEF HolderKnows, MovesTo
<1>4. FailedMeansNothing' /\ OneWrite'
  BY <1>2, QuietMove
<1>5. /\ requests' \in [Claims -> {"unsent", "in flight", "arrived"}]
      /\ applied' \in Nat
  BY DEF TypeOK
<1> QED BY <1>1, <1>2, <1>3, <1>4, <1>5, WorkerInv DEF Delivering, Confirmed

\* Once absence is recorded, the holder is the only one who may send.
LEMMA RecordAbsenceInv ==
  ASSUME IInv, NEW w \in Workers, RecordAbsence(w) PROVE IInv'
<1> USE DEF IInv, At, RecordAbsence, MayRecordAbsence
<1>1. MovesTo(w, "sending", FALSE, workers[w].outcome)
  BY Moved DEF Phases
<1>2. HolderKnows(w)
  BY DEF HoldersKnow
<1>3. /\ applied = 0 /\ NothingLeft
      /\ effect.dispatched /\ effect.status \in {"pending", "unknown"}
  BY <1>2 DEF HolderKnows
<1>4. InFlight' = {} /\ \A v \in Workers : MaySend(v)' => v = w
  BY <1>1, <1>3 DEF NothingLeft, InFlight, MaySend, MovesTo
<1>5. FailedMeansNothing'
  BY <1>3 DEF FailedMeansNothing
<1>6. OneWrite'
  BY <1>3, <1>4 DEF OneWrite
<1>7. HoldersKnow'
  <2>1. SUFFICES ASSUME NEW v \in Workers, ~At(v, "idle")', HoldsReservation(v)'
                 PROVE  HolderKnows(v)'
    BY DEF HoldersKnow
  <2>2. v = w
    BY <2>1, <1>1, HolderIsAlone DEF HoldsReservation, MovesTo
  <2> QED BY <2>2, <1>1, <1>3, <1>4 DEF HolderKnows, MovesTo
<1>8. /\ requests' \in [Claims -> {"unsent", "in flight", "arrived"}]
      /\ applied' \in Nat
  BY DEF TypeOK
<1> QED BY <1>1, <1>5, <1>6, <1>7, <1>8, WorkerInv DEF Delivering

\* A token that is not 0 is a claim.
LEMMA PositiveClaim ==
  ASSUME NEW t \in 0..MaxClaims, t # 0 PROVE t \in Claims
  BY BoundsAssumption DEF Claims

\* A request leaves the worker that may send it.
LEMMA SendFromInv ==
  ASSUME IInv, NEW w \in Workers, MaySend(w), NEW o \in Confirmed, SendFrom(w, o)
  PROVE  IInv'
<1> USE DEF IInv, At, SendFrom
<1>1. MovesTo(w, "waiting", workers[w].uncertain, o)
  BY Moved DEF Outcomes, Confirmed, MaySend
<1>2. workers[w].token \in Claims
  <2>1. workers[w].token \in 0..MaxClaims
    BY DEF TypeOK, WorkerType
  <2>2. workers[w].token # 0
    BY DEF TokensAreUnique, MaySend
  <2>3. MaxClaims \in Nat
    BY BoundsAssumption
  <2> QED BY <2>1, <2>2, <2>3, PositiveClaim
<1>3. /\ requests' \in [Claims -> {"unsent", "in flight", "arrived"}]
      /\ InFlight' = InFlight \cup {workers[w].token}
  <2>1. requests \in [Claims -> {"unsent", "in flight", "arrived"}]
    BY DEF TypeOK
  <2>2. requests'[workers[w].token] = "in flight"
    BY <2>1, <1>2
  <2>3. \A c \in Claims : c # workers[w].token => requests'[c] = requests[c]
    BY <2>1
  <2> QED BY <1>2, <2>1, <2>2, <2>3 DEF InFlight
<1>4. \A v \in Workers : MaySend(v)' => MaySend(v) /\ v # w
  BY <1>1 DEF MaySend, MovesTo
<1>5. ~NothingLeft
  BY DEF NothingLeft
<1>6. FailedMeansNothing'
  BY <1>5 DEF FailedMeansNothing
<1>7. OneWrite'
  BY <1>3, <1>4, <1>5 DEF OneWrite, NothingLeft
<1>8. HoldersKnow'
  <2>1. SUFFICES ASSUME NEW v \in Workers, ~At(v, "idle")', HoldsReservation(v)'
                 PROVE  HolderKnows(v)'
    BY DEF HoldersKnow
  <2>2. HolderKnows(v)
    BY <2>1, <1>1 DEF HoldersKnow, HoldsReservation, MovesTo
  <2>3. CASE v = w
    <3>1. ~workers[w].uncertain =>
            applied = 0 /\ InFlight = {} /\ \A x \in Workers : MaySend(x) => x = w
      BY <2>2, <2>3 DEF HolderKnows, MaySend
    <3>2. effect.dispatched /\ effect.status \in {"pending", "unknown"}
      BY <2>2, <2>3 DEF HolderKnows, MaySend
    <3> QED BY <2>3, <3>1, <3>2, <1>1, <1>3, <1>4 DEF HolderKnows, MovesTo
  <2>4. CASE v # w
    <3>1. workers'[v] = workers[v]
      BY <2>4, <1>1 DEF MovesTo
    <3>2. /\ ~At(v, "absent")
          /\ ~(At(v, "sending") /\ ~workers[v].uncertain)
          /\ ~(At(v, "waiting") /\ ~workers[v].uncertain)
          /\ ~(At(v, "finishing") /\ workers[v].outcome = "failed")
      BY <2>2, <2>4, <1>5 DEF HolderKnows
    <3> QED BY <2>2, <3>1, <3>2 DEF HolderKnows
  <2> QED BY <2>3, <2>4
<1>9. applied' \in Nat
  BY DEF TypeOK
<1> QED BY <1>1, <1>3, <1>6, <1>8, <1>7, <1>9, WorkerInv DEF Delivering, MaySend

\* The provider takes a request out of the network.
LEMMA Arrived ==
  ASSUME IInv, NEW c \in InFlight, requests' = [requests EXCEPT ![c] = "arrived"]
  PROVE  /\ requests' \in [Claims -> {"unsent", "in flight", "arrived"}]
         /\ InFlight' = InFlight \ {c}
<1>1. requests \in [Claims -> {"unsent", "in flight", "arrived"}]
  BY DEF IInv, TypeOK
<1>2. c \in Claims
  BY DEF InFlight
<1>3. /\ requests'[c] = "arrived"
      /\ \A d \in Claims : d # c => requests'[d] = requests[d]
  BY <1>1, <1>2
<1> QED BY <1>1, <1>2, <1>3 DEF InFlight

\* While a request is in flight, only a waiting holder can be in no doubt, and
\* then the request is his and the first.
LEMMA RequestIsKnown ==
  ASSUME IInv, NEW c \in InFlight, NEW v \in Workers, ~At(v, "idle"),
         HoldsReservation(v)
  PROVE  /\ HolderKnows(v) /\ ~At(v, "absent")
         /\ ~(At(v, "sending") /\ ~workers[v].uncertain)
         /\ ~(At(v, "finishing") /\ workers[v].outcome = "failed")
         /\ At(v, "waiting") /\ ~workers[v].uncertain =>
              /\ InFlight = {c} /\ workers[v].token = c /\ applied = 0
              /\ \A x \in Workers : ~MaySend(x)
<1>1. HolderKnows(v)
  BY DEF IInv, HoldersKnow
<1> QED BY <1>1 DEF HolderKnows, NothingLeft

\* The provider applies a request: the first one, or one with a key it honours.
LEMMA ApplyInv == ASSUME IInv, NEW c \in Claims, Apply(c) PROVE IInv'
<1> USE DEF IInv, At, Apply
<1>1. /\ requests' \in [Claims -> {"unsent", "in flight", "arrived"}]
      /\ InFlight' = InFlight \ {c}
  BY Arrived
<1>2. applied \in Nat
  BY DEF TypeOK
<1>3. applied' \in Nat /\ applied' > 0
  BY <1>2
<1>4. ~NothingLeft
  BY DEF NothingLeft
<1>5. FailedMeansNothing'
  BY <1>4 DEF FailedMeansNothing
<1>6. ASSUME \A v \in Workers : MaySend(v)' => MaySend(v)
      PROVE  OneWrite'
  <2>1. CASE provider.keyed
    BY <2>1, <1>2 DEF OneWrite
  <2>2. CASE ~provider.keyed
    <3>1. applied = 0 /\ InFlight = {c} /\ \A v \in Workers : ~MaySend(v)
      BY <2>2, <1>2, <1>4 DEF OneWrite
    <3>2. applied' = 1
      BY <2>2, <3>1
    <3>3. InFlight' = {} /\ \A v \in Workers : ~MaySend(v)'
      BY <3>1, <1>1, <1>6
    <3> QED BY <3>2, <3>3 DEF OneWrite, NothingLeft
  <2> QED BY <2>1, <2>2
<1>7. CASE UNCHANGED workers
  <2>1. \A v \in Workers : MaySend(v)' = MaySend(v)
    BY <1>7 DEF MaySend
  <2>2. HoldersKnow'
    <3>1. SUFFICES ASSUME NEW v \in Workers, ~At(v, "idle")', HoldsReservation(v)'
                   PROVE  HolderKnows(v)'
      BY DEF HoldersKnow
    <3>2. ~At(v, "idle") /\ HoldsReservation(v)
      BY <3>1, <1>7 DEF HoldsReservation
    <3> QED BY <3>2, RequestIsKnown, <1>1, <1>7, <2>1 DEF HolderKnows
  <2>3. TypeOK' /\ TokensAreUnique'
    BY <1>1, <1>3, <1>7 DEF TypeOK, TokensAreUnique
  <2>4. ConfirmedRow' /\ LiveDeliveryIsReserved'
    BY <1>3, <1>7 DEF ConfirmedRow, LiveDeliveryIsReserved, OwnsRun, HoldsReservation
  <2>5. ReceiptsAreTrue'
    BY <1>3, <1>7 DEF ReceiptsAreTrue
  <2> QED BY <1>5, <1>6, <2>1, <2>2, <2>3, <2>4, <2>5
<1>8. CASE \E w \in Workers : Hears(w, c) /\ Goes(w, "finishing")
  <2>1. PICK w \in Workers : Hears(w, c) /\ Goes(w, "finishing")
    BY <1>8
  <2>2. At(w, "waiting") /\ workers[w].outcome \in Confirmed
    BY <2>1 DEF Hears, ReceiptsAreTrue
  <2>3. MovesTo(w, "finishing", workers[w].uncertain, workers[w].outcome)
    BY <2>1, <2>2, Moved DEF Phases
  <2>4. \A v \in Workers : MaySend(v)' = MaySend(v)
    BY <2>2, <2>3 DEF MaySend, MovesTo
  <2>5. HoldersKnow'
    <3>1. SUFFICES ASSUME NEW v \in Workers, ~At(v, "idle")', HoldsReservation(v)'
                   PROVE  HolderKnows(v)'
      BY DEF HoldersKnow
    <3>2. CASE v = w
      BY <3>2, <2>2, <2>3 DEF HolderKnows, MovesTo, Confirmed
    <3>3. CASE v # w
      <4>1. workers'[v] = workers[v] /\ ~At(v, "idle") /\ HoldsReservation(v)
        BY <3>1, <3>3, <2>3 DEF HoldsReservation, MovesTo
      <4> QED BY <4>1, RequestIsKnown, <1>1, <2>4 DEF HolderKnows
    <3> QED BY <3>2, <3>3
  <2> QED BY <1>1, <1>3, <1>5, <1>6, <2>2, <2>3, <2>4, <2>5, WorkerInv DEF Delivering
<1> QED BY <1>7, <1>8

\* The provider refuses a request, or the network loses it.
LEMMA RefuseInv == ASSUME IInv, NEW c \in Claims, Refuse(c) PROVE IInv'
<1> USE DEF IInv, At, Refuse
<1>1. /\ requests' \in [Claims -> {"unsent", "in flight", "arrived"}]
      /\ InFlight' = InFlight \ {c}
  BY Arrived
<1>2. applied' \in Nat
  BY DEF TypeOK
<1>3. ~NothingLeft
  BY DEF NothingLeft
<1>4. FailedMeansNothing'
  BY <1>3 DEF FailedMeansNothing
<1>5. ASSUME \A v \in Workers : MaySend(v)' => MaySend(v)
      PROVE  OneWrite'
  BY <1>1, <1>3, <1>5 DEF OneWrite
<1>6. CASE UNCHANGED workers
  <2>1. \A v \in Workers : MaySend(v)' = MaySend(v)
    BY <1>6 DEF MaySend
  <2>2. HoldersKnow'
    <3>1. SUFFICES ASSUME NEW v \in Workers, ~At(v, "idle")', HoldsReservation(v)'
                   PROVE  HolderKnows(v)'
      BY DEF HoldersKnow
    <3>2. ~At(v, "idle") /\ HoldsReservation(v)
      BY <3>1, <1>6 DEF HoldsReservation
    <3> QED BY <3>2, RequestIsKnown, <1>1, <1>6, <2>1 DEF HolderKnows
  <2>3. TypeOK' /\ TokensAreUnique'
    BY <1>1, <1>6 DEF TypeOK, TokensAreUnique
  <2>4. ConfirmedRow' /\ LiveDeliveryIsReserved' /\ ReceiptsAreTrue'
    BY <1>6 DEF ConfirmedRow, LiveDeliveryIsReserved, OwnsRun, HoldsReservation,
       ReceiptsAreTrue
  <2> QED BY <1>4, <1>5, <2>1, <2>2, <2>3, <2>4
<1>7. CASE \E w \in Workers : Hears(w, c) /\ Decides(w, FailureOutcome(w))
  <2>1. PICK w \in Workers : Hears(w, c) /\ Decides(w, FailureOutcome(w))
    BY <1>7
  <2> DEFINE o == FailureOutcome(w)
  <2>2. /\ At(w, "waiting") /\ workers[w].token = c
        /\ o \in Outcomes /\ o \in {"failed", "unknown"} /\ o \notin Confirmed
        /\ o = "failed" => ~workers[w].uncertain
    BY <2>1 DEF Hears, FailureOutcome, Outcomes, Confirmed
  <2>3. MovesTo(w, "finishing", workers[w].uncertain, o)
    BY <2>1, <2>2, Moved
  <2>4. \A v \in Workers : MaySend(v)' = MaySend(v)
    BY <2>2, <2>3 DEF MaySend, MovesTo
  <2>5. HoldersKnow'
    <3>1. SUFFICES ASSUME NEW v \in Workers, ~At(v, "idle")', HoldsReservation(v)'
                   PROVE  HolderKnows(v)'
      BY DEF HoldersKnow
    <3>2. ~At(v, "idle") /\ HoldsReservation(v)
      BY <3>1, <2>2, <2>3 DEF HoldsReservation, MovesTo
    <3>3. CASE v = w
      <4>1. o = "failed" => /\ InFlight = {c} /\ applied = 0
                            /\ \A x \in Workers : ~MaySend(x)
        BY <3>2, <3>3, <2>2, RequestIsKnown
      <4>2. o = "failed" => applied' = 0 /\ NothingLeft'
        BY <4>1, <1>1, <2>4 DEF NothingLeft
      <4> QED BY <3>3, <4>2, <2>3 DEF HolderKnows, MovesTo
    <3>4. CASE v # w
      <4>1. workers'[v] = workers[v]
        BY <3>4, <2>3 DEF MovesTo
      <4> QED BY <3>2, <4>1, RequestIsKnown, <1>1, <2>4 DEF HolderKnows
    <3> QED BY <3>3, <3>4
  <2> QED BY <1>1, <1>2, <1>4, <1>5, <2>2, <2>3, <2>4, <2>5, WorkerInv DEF Delivering
<1> QED BY <1>6, <1>7

-----------------------------------------------------------------------------
(* Steps of a worker that write the row. *)

\* A call that may not be tried again leaves the row, or says that it is unknown.
LEMMA ReserveNothingInv ==
  ASSUME IInv, NEW w \in Workers, ReserveNothing(w) PROVE IInv'
<1> USE DEF IInv, At, ReserveNothing
<1>1. MovesTo(w, "rereading", workers[w].uncertain, workers[w].outcome)
  BY Moved DEF Phases
<1>2. effect \in EffectType /\ effect.reservation <= claims
  BY DEF TypeOK
<1>3. /\ effect' \in EffectType /\ effect'.reservation = effect.reservation
      /\ effect'.by = effect.by
      /\ effect'.status = IF Uncertain THEN "unknown" ELSE effect.status
  BY <1>2 DEF EffectType
<1>4. /\ InFlight' = InFlight
      /\ \A v \in Workers : MaySend(v)' = MaySend(v)
  BY <1>1 DEF InFlight, MaySend, MovesTo
<1>5. NothingLeft' = NothingLeft
  BY <1>4 DEF NothingLeft
<1>6. effect'.dispatched = effect.dispatched
  BY <1>2 DEF EffectType
<1>7. FailedMeansNothing'
  BY <1>3, <1>5, <1>6 DEF FailedMeansNothing
<1>8. ConfirmedRow'
  BY <1>3 DEF ConfirmedRow, Confirmed, Uncertain
<1>9. OneWrite'
  BY <1>4, <1>5 DEF OneWrite
<1>10. HoldersKnow'
  <2>1. SUFFICES ASSUME NEW v \in Workers, ~At(v, "idle")', HoldsReservation(v)'
                 PROVE  HolderKnows(v)'
    BY DEF HoldersKnow
  <2>2. ~At(v, "idle") /\ HoldsReservation(v)
    BY <2>1, <1>1, <1>3 DEF HoldsReservation, MovesTo
  <2>3. CASE v = w
    BY <2>3, <1>1 DEF HolderKnows, MovesTo
  <2>4. CASE v # w /\ Uncertain
    <3>1. effect' = [effect EXCEPT !.status = "unknown"] /\ workers'[v] = workers[v]
      BY <2>4, <1>1 DEF MovesTo
    <3> QED BY <3>1, <2>2, <2>4, <1>4, HoldersKnowUnknown
  <2>5. CASE v # w /\ ~Uncertain
    <3>1. workers'[v] = workers[v] /\ HolderKnows(v)
      BY <2>2, <2>5, <1>1 DEF MovesTo, HoldersKnow
    <3>2. effect'.status = effect.status /\ effect'.attempts = effect.attempts
      BY <2>5, <1>2 DEF EffectType
    <3> QED BY <3>1, <3>2, <1>4, <1>5, <1>6 DEF HolderKnows
  <2> QED BY <2>3, <2>4, <2>5
<1>11. LiveDeliveryIsReserved'
  BY <1>1, <1>3 DEF LiveDeliveryIsReserved, OwnsRun, HoldsReservation, MovesTo
<1>12. /\ requests' \in [Claims -> {"unsent", "in flight", "arrived"}]
       /\ applied' \in Nat
  BY DEF TypeOK
<1> QED BY <1>1, <1>2, <1>3, <1>7, <1>8, <1>9, <1>10, <1>11, <1>12, MoveInv

\* A reservation supersedes every other one, and keeps earlier doubt.
LEMMA ReserveInv == ASSUME IInv, NEW w \in Workers, Reserve(w) PROVE IInv'
<1> USE DEF IInv, At, Reserve, ReservedStatus, ReservedEffect
<1>1. MovesTo(w, "reserved", Uncertain, workers[w].outcome)
  BY Moved DEF Phases, Uncertain
<1>2. effect \in EffectType /\ workers[w] \in WorkerType /\ workers[w].token <= claims
  BY DEF TypeOK
<1>3. /\ effect' \in EffectType
      /\ effect'.reservation = workers[w].token
      /\ effect'.dispatched = FALSE
      /\ effect'.attempts = effect.attempts /\ effect'.by = effect.by
      /\ effect'.status = IF Uncertain THEN "unknown" ELSE "pending"
      /\ ~effect'.cooling
  BY <1>2 DEF EffectType, WorkerType, BackoffElapsed
<1>4. /\ InFlight' = InFlight
      /\ \A v \in Workers : MaySend(v)' = MaySend(v)
  BY <1>1 DEF InFlight, MaySend, MovesTo
<1>5. NothingLeft' = NothingLeft
  BY <1>4 DEF NothingLeft
<1>6. FailedMeansNothing'
  <2>1. ~Uncertain => applied = 0 /\ NothingLeft
    <3>1. effect.status \in {"absent", "pending", "failed", "unknown"}
      BY <1>2 DEF EffectType
    <3> QED BY <3>1 DEF FailedMeansNothing, Uncertain
  <2> QED BY <2>1, <1>3, <1>5 DEF FailedMeansNothing
<1>7. ConfirmedRow'
  BY <1>3 DEF ConfirmedRow, Confirmed
<1>8. OneWrite'
  BY <1>4, <1>5 DEF OneWrite
<1>9. \A v \in Workers : ~At(v, "idle") /\ workers[v].token = workers[w].token => v = w
  BY HolderIsAlone
<1>10. HoldersKnow'
  <2>1. SUFFICES ASSUME NEW v \in Workers, ~At(v, "idle")', HoldsReservation(v)'
                 PROVE  HolderKnows(v)'
    BY DEF HoldersKnow
  <2>2. v = w
    BY <2>1, <1>1, <1>3, <1>9 DEF HoldsReservation, MovesTo
  <2>3. effect.attempts < MaxAttempts
    <3>1. effect.attempts \in 0..MaxAttempts /\ MaxAttempts \in Nat
      BY <1>2, BoundsAssumption DEF EffectType
    <3> QED BY <3>1 DEF Blocked
  <2>4. Uncertain => provider.recovery # "none"
    BY DEF Blocked
  <2> QED BY <2>2, <2>3, <2>4, <1>1, <1>3 DEF HolderKnows, MovesTo
<1>11. LiveDeliveryIsReserved'
  BY <1>1, <1>3, <1>9 DEF LiveDeliveryIsReserved, OwnsRun, HoldsReservation, MovesTo
<1>12. /\ requests' \in [Claims -> {"unsent", "in flight", "arrived"}]
       /\ applied' \in Nat
  BY DEF TypeOK
<1> QED BY <1>1, <1>2, <1>3, <1>6, <1>7, <1>8, <1>10, <1>11, <1>12, MoveInv

\* A dispatch without doubt is the only write there is.
LEMMA DispatchInv == ASSUME IInv, NEW w \in Workers, Dispatch(w) PROVE IInv'
<1> USE DEF IInv, At, Dispatch, DispatchedEffect
<1> DEFINE p == IF workers[w].uncertain /\ provider.recovery = "reconcile"
                THEN "looking" ELSE "sending"
<1>1. MovesTo(w, p, workers[w].uncertain, workers[w].outcome)
  BY Moved DEF Phases
<1>2. HolderKnows(w)
  BY DEF HoldersKnow
<1>3. effect \in EffectType /\ effect.reservation <= claims
  BY DEF TypeOK
<1>4. effect.attempts < MaxAttempts /\ effect.attempts + 1 \in 0..MaxAttempts
  <2>1. effect.attempts \in 0..MaxAttempts /\ MaxAttempts \in Nat
    BY <1>3, BoundsAssumption DEF EffectType
  <2>2. effect.attempts < MaxAttempts
    BY <1>2 DEF HolderKnows
  <2> QED BY <2>1, <2>2
<1>5. /\ effect' \in EffectType
      /\ effect'.reservation = effect.reservation
      /\ effect'.dispatched = TRUE
      /\ effect'.by = effect.by /\ effect'.status = effect.status
  BY <1>3, <1>4 DEF EffectType
<1>6. /\ effect.status = IF workers[w].uncertain THEN "unknown" ELSE "pending"
      /\ workers[w].uncertain => provider.recovery # "none"
  BY <1>2 DEF HolderKnows
<1>7. ~workers[w].uncertain => applied = 0 /\ NothingLeft
  BY <1>6 DEF FailedMeansNothing
<1>8. InFlight' = InFlight /\ \A v \in Workers : v # w => MaySend(v)' = MaySend(v)
  BY <1>1 DEF InFlight, MaySend, MovesTo
<1>9. FailedMeansNothing'
  BY <1>5, <1>6 DEF FailedMeansNothing
<1>10. ConfirmedRow'
  BY <1>5 DEF ConfirmedRow
<1>11. OneWrite'
  <2>1. SUFFICES ASSUME ~provider.keyed
                 PROVE  /\ applied = 1 => NothingLeft'
                        /\ \A c, d \in InFlight' : c = d
                        /\ \A u, v \in Workers : MaySend(u)' /\ MaySend(v)' => u = v
                        /\ \A v \in Workers : MaySend(v)' => InFlight' = {}
    BY DEF OneWrite
  <2>2. CASE workers[w].uncertain
    <3>1. provider.recovery = "reconcile"
      <4>1. provider.recovery \in {"none", "idempotent", "reconcile"}
        BY ProvidersAssumption DEF TypeOK
      <4>2. provider.recovery # "idempotent"
        BY <2>1, ProvidersAssumption DEF TypeOK
      <4> QED BY <4>1, <4>2, <2>2, <1>6
    <3>2. ~MaySend(w)' /\ ~MaySend(w)
      BY <2>1, <2>2, <3>1, <1>1 DEF MaySend, MovesTo
    <3>3. \A v \in Workers : MaySend(v)' => MaySend(v)
      BY <3>2, <1>8
    <3> QED BY <2>1, <3>3, <1>8 DEF OneWrite, NothingLeft
  <2>3. CASE ~workers[w].uncertain
    BY <2>3, <1>7, <1>8 DEF NothingLeft
  <2> QED BY <2>2, <2>3
<1>12. HoldersKnow'
  <2>1. SUFFICES ASSUME NEW v \in Workers, ~At(v, "idle")', HoldsReservation(v)'
                 PROVE  HolderKnows(v)'
    BY DEF HoldersKnow
  <2>2. v = w
    <3>1. SUFFICES ASSUME v # w PROVE FALSE
      OBVIOUS
    <3>2. ~At(v, "idle") /\ workers[v].token = workers[w].token
      BY <2>1, <3>1, <1>1, <1>5 DEF HoldsReservation, MovesTo
    <3> QED BY <3>1, <3>2, HolderIsAlone
  <2>3. ~workers[w].uncertain =>
          applied' = 0 /\ InFlight' = {} /\ \A x \in Workers : MaySend(x)' => x = w
    BY <1>7, <1>8 DEF NothingLeft
  <2> QED BY <2>2, <2>3, <1>1, <1>5, <1>6 DEF HolderKnows, MovesTo
<1>13. LiveDeliveryIsReserved'
  BY <1>1, <1>5 DEF LiveDeliveryIsReserved, OwnsRun, HoldsReservation, MovesTo
<1>14. /\ requests' \in [Claims -> {"unsent", "in flight", "arrived"}]
       /\ applied' \in Nat
  BY DEF TypeOK
<1> QED BY <1>1, <1>3, <1>5, <1>9, <1>10, <1>11, <1>12, <1>13, <1>14, MoveInv

\* finish ends the reservation; nobody else held it.
LEMMA Finished ==
  ASSUME IInv, NEW w \in Workers, At(w, "finishing"), HoldsReservation(w),
         NEW o \in {"returned", "raised"}, Ends(w, o),
         UNCHANGED <<provider, run, owner, requests, applied, claims>>,
         effect' \in EffectType, effect'.reservation = 0,
         effect'.status = workers[w].outcome,
         effect'.by = IF workers[w].outcome = "reconciled" THEN "adapter" ELSE effect.by,
         workers[w].outcome \in Confirmed => effect'.error = "none"
  PROVE  IInv'
<1> USE DEF IInv, At
<1>1. MovesTo(w, "over", workers[w].uncertain, o)
  BY Moved DEF Outcomes
<1>2. /\ InFlight' = InFlight
      /\ \A v \in Workers : MaySend(v)' = MaySend(v)
  BY <1>1 DEF InFlight, MaySend, MovesTo
<1>3. NothingLeft' = NothingLeft
  BY <1>2 DEF NothingLeft
<1>4. /\ workers[w].outcome \in {"failed", "unknown"} \cup Confirmed
      /\ workers[w].outcome \in Confirmed => applied > 0
  BY DEF ReceiptsAreTrue
<1>5. HolderKnows(w)
  BY DEF HoldersKnow
<1>6. FailedMeansNothing'
  BY <1>3, <1>4, <1>5 DEF FailedMeansNothing, HolderKnows, Confirmed
<1>7. ConfirmedRow'
  <2>1. effect.by = "none"
    <3>1. effect.status \notin Confirmed
      BY DEF ConfirmedRow, HoldsReservation, TokensAreUnique
    <3> QED BY <3>1 DEF ConfirmedRow
  <2> QED BY <1>4, <2>1 DEF ConfirmedRow, Confirmed
<1>8. OneWrite'
  BY <1>2, <1>3 DEF OneWrite
<1>9. HoldersKnow'
  <2>1. \A v \in Workers : ~At(v, "idle")' => workers'[v].token # 0
    BY <1>1 DEF MovesTo, TokensAreUnique
  <2> QED BY <2>1 DEF HoldersKnow, HoldsReservation
<1>10. LiveDeliveryIsReserved'
  <2>1. SUFFICES ASSUME NEW v \in Workers, OwnsRun(v)', workers'[v].phase \in Delivering
                 PROVE  FALSE
    BY DEF LiveDeliveryIsReserved, Delivering
  <2>2. v # w
    BY <2>1, <1>1 DEF MovesTo, Delivering
  <2>3. OwnsRun(v) /\ workers[v].phase \in Delivering
    BY <2>1, <2>2, <1>1 DEF MovesTo, OwnsRun
  <2>4. HoldsReservation(v) /\ ~At(v, "idle")
    BY <2>3 DEF LiveDeliveryIsReserved, Delivering
  <2> QED BY <2>2, <2>4, HolderIsAlone DEF HoldsReservation
<1>11. /\ requests' \in [Claims -> {"unsent", "in flight", "arrived"}]
       /\ applied' \in Nat
  BY DEF TypeOK
<1>12. effect'.reservation <= claims
  BY Numbers
<1> QED BY <1>1, <1>6, <1>7, <1>8, <1>9, <1>10, <1>11, <1>12, MoveInv

\* finish, with a receipt, a definite failure or an uncertain outcome.
LEMMA FinishInv == ASSUME IInv, NEW w \in Workers, Finish(w) PROVE IInv'
<1> USE DEF IInv, At
<1>1. effect \in EffectType /\ 0 \in 0..MaxClaims
  BY NobodyIsTyped DEF TypeOK
<1>2. At(w, "finishing")
  BY DEF Finish, FinishConfirmed, FinishFailed, FinishSuperseded
<1>3. CASE FinishConfirmed(w)
  <2>1. /\ effect' \in EffectType /\ effect'.reservation = 0
        /\ effect'.status = workers[w].outcome
        /\ effect'.by = IF workers[w].outcome = "reconciled" THEN "adapter" ELSE effect.by
        /\ effect'.error = "none"
    BY <1>1, <1>3 DEF FinishConfirmed, FinishedEffect, EffectType
  <2>2. HoldsReservation(w) /\ \E o \in {"returned", "raised"} : Ends(w, o)
    BY <1>3 DEF FinishConfirmed, MayFinish
  <2> QED BY <1>2, <1>3, <2>1, <2>2, Finished DEF FinishConfirmed
<1>4. CASE \E error \in {"none", "retryable", "final"}, cooling \in BOOLEAN :
             FinishFailed(w, error, cooling)
  <2>1. PICK error \in {"none", "retryable", "final"}, cooling \in BOOLEAN :
               FinishFailed(w, error, cooling)
    BY <1>4
  <2>2. workers[w].outcome \in {"failed", "unknown"}
    BY <1>2, <2>1 DEF FinishFailed, ReceiptsAreTrue
  <2>3. /\ effect' \in EffectType /\ effect'.reservation = 0
        /\ effect'.status = workers[w].outcome
        /\ effect'.by = IF workers[w].outcome = "reconciled" THEN "adapter" ELSE effect.by
        /\ workers[w].outcome \notin Confirmed
    BY <1>1, <2>1, <2>2 DEF Confirmed, FinishFailed, FinishedEffect, EffectType
  <2>4. HoldsReservation(w) /\ Ends(w, "raised")
    BY <2>1 DEF FinishFailed, MayFinish
  <2> QED BY <1>2, <2>1, <2>3, <2>4, Finished DEF FinishFailed
<1>5. CASE FinishSuperseded(w)
  <2>1. MovesTo(w, "over", workers[w].uncertain, "raised")
    BY <1>5, Moved DEF FinishSuperseded, Outcomes
  <2>2. HoldersKnow' /\ FailedMeansNothing' /\ OneWrite'
    BY <1>5, <2>1, QuietMove DEF FinishSuperseded, HolderKnows, MovesTo
  <2>3. /\ requests' \in [Claims -> {"unsent", "in flight", "arrived"}]
        /\ applied' \in Nat
    BY <1>5 DEF FinishSuperseded, TypeOK
  <2> QED BY <1>5, <2>1, <2>2, <2>3, WorkerInv DEF FinishSuperseded, Delivering
<1> QED BY <1>3, <1>4, <1>5 DEF Finish

\* The steps that end or give up a worker's call.
LEMMA CallEndsInv ==
  ASSUME IInv, NEW w \in Workers,
         \/ Interrupt(w) \/ CommitOutcome(w) \/ DiscardOutcome(w)
         \/ RejectCall(w) \/ Reread(w) \/ Timeout(w)
  PROVE  IInv'
<1> USE DEF IInv, At
<1>1. workers[w] \in WorkerType /\ IdleWorker \in WorkerType
  BY NobodyIsTyped DEF TypeOK
<1>2. run' \in [status : {"running", "settled", "failed"}, number : 1..MaxRuns]
  BY DEF TypeOK, Interrupt, CommitOutcome, DiscardOutcome, RejectCall, Reread, Timeout
<1>3. CASE Interrupt(w) \/ CommitOutcome(w) \/ DiscardOutcome(w)
  <2>1. /\ IdleWorker.phase = "idle" /\ IdleWorker.token = 0
        /\ workers' = [workers EXCEPT ![w] = IdleWorker]
        /\ workers[w].phase # "idle"
        /\ (owner' = owner /\ run' = run) \/ owner' = 0
        /\ UNCHANGED <<provider, effect, requests, applied, claims>>
    BY <1>3 DEF Interrupt, CommitOutcome, DiscardOutcome, IdleWorker
  <2> QED BY <1>1, <1>2, <2>1, StepBackInv
<1>4. CASE RejectCall(w) \/ Reread(w) \/ Timeout(w)
  <2>1. PICK p \in {"over", "finishing"}, o \in {"returned", "raised", "unknown"} :
          /\ workers' = [workers EXCEPT ![w] =
               [workers[w] EXCEPT !.phase = p, !.outcome = o]]
          /\ p = "finishing" => o = "unknown" /\ workers[w].phase \in Delivering
          /\ workers[w].phase # "idle"
          /\ UNCHANGED <<provider, run, owner, effect, requests, applied, claims>>
    BY <1>4 DEF RejectCall, Reread, Timeout, Ends, Decides, Delivering
  <2> DEFINE r == [workers[w] EXCEPT !.phase = p, !.outcome = o]
  <2>2. r \in WorkerType /\ r.phase = p /\ r.outcome = o /\ r.token = workers[w].token
    BY <1>1, <2>1 DEF WorkerType
  <2> HIDE DEF r
  <2> QED BY <1>2, <2>1, <2>2, StepBackInv DEF r
<1> QED BY <1>3, <1>4

-----------------------------------------------------------------------------
\* Every step preserves the invariant.
LEMMA NextInv == IInv /\ [Next]_vars => IInv'
<1> SUFFICES ASSUME IInv, [Next]_vars PROVE IInv'
  OBVIOUS
<1>1. ASSUME NEW w \in Workers, Claim(w) PROVE IInv'
  BY <1>1, ClaimInv
<1>2. ASSUME NEW w \in Workers, Interrupt(w) PROVE IInv'
  BY <1>2, CallEndsInv
<1>3. ASSUME NEW w \in Workers, Work(w) PROVE IInv'
  <2>1. CASE Reservation(w)
    BY <2>1, CallEndsInv, ReserveNothingInv, ReserveInv DEF Reservation
  <2>2. CASE Dispatch(w) \/ RejectDispatch(w)
    BY <2>2, DispatchInv, RejectDispatchInv
  <2>3. CASE Send(w)
    BY <2>3, SendFromInv DEF Send, MaySend, Confirmed
  <2>4. CASE Replay(w)
    BY <2>4, SendFromInv DEF Replay, MaySend, Confirmed
  <2>5. CASE LookFound(w) \/ LookAbsent(w) \/ RecordAbsence(w) \/ GiveUp(w) \/ Timeout(w)
    BY <2>5, LookFoundInv, LookAbsentInv, RecordAbsenceInv, GiveUpInv, CallEndsInv
  <2>6. CASE Finish(w)
    BY <2>6, FinishInv
  <2>7. CASE CommitOutcome(w) \/ DiscardOutcome(w)
    BY <2>7, CallEndsInv
  <2> QED BY <1>3, <2>1, <2>2, <2>3, <2>4, <2>5, <2>6, <2>7 DEF Work, Delivery
<1>4. ASSUME NEW c \in Claims, Apply(c) \/ Refuse(c) PROVE IInv'
  BY <1>4, ApplyInv, RefuseInv
<1>5. CASE LoseLease \/ EndRun
  <2>1. run' \in [status : {"running", "settled", "failed"}, number : 1..MaxRuns]
    BY <1>5 DEF IInv, TypeOK, LoseLease, EndRun
  <2> QED BY <1>5, <2>1, OwnerGoneInv DEF LoseLease, EndRun
<1>6. CASE RecoverEffects \/ BackoffEnds \/ Recover
  BY <1>6, RecoverEffectsInv, BackoffEndsInv, RecoverInv
<1>7. ASSUME NEW succeeded \in BOOLEAN, Resolve(succeeded) PROVE IInv'
  BY <1>7, ResolveInv
<1>8. CASE UNCHANGED vars
  <2>1. TypeOK'
    BY <1>8 DEF vars, IInv, TypeOK
  <2>2. TokensAreUnique' /\ ConfirmedRow' /\ ReceiptsAreTrue'
    BY <1>8 DEF vars, IInv, TokensAreUnique, ConfirmedRow, ReceiptsAreTrue, At
  <2>3. /\ InFlight' = InFlight /\ (NothingLeft => NothingLeft')
        /\ \A w \in Workers : MaySend(w)' => MaySend(w)
    BY <1>8 DEF vars, InFlight, NothingLeft, MaySend, At
  <2>4. FailedMeansNothing' /\ OneWrite'
    BY <1>8, <2>3 DEF vars, IInv, FailedMeansNothing, OneWrite
  <2>5. LiveDeliveryIsReserved'
    BY <1>8 DEF vars, IInv, LiveDeliveryIsReserved, OwnsRun, HoldsReservation
  <2>6. HoldersKnow'
    BY <1>8, <2>3 DEF vars, IInv, HoldersKnow, HolderKnows, HoldsReservation, At
  <2> QED BY <2>1, <2>2, <2>4, <2>5, <2>6 DEF IInv
<1> QED BY <1>1, <1>2, <1>3, <1>4, <1>5, <1>6, <1>7, <1>8 DEF Next

\* The inductive invariant holds in every reachable state.
THEOREM Invariance == Spec => []IInv
<1>1. Init => IInv
  BY InitInv
<1>2. IInv /\ [Next]_vars => IInv'
  BY NextInv
<1> QED BY <1>1, <1>2, PTL DEF Spec

\* Type correctness, with the bound on dispatches (contract.retry.max_attempts).
THEOREM TypeCorrect == Spec => []TypeOK
<1>1. IInv => TypeOK
  BY DEF IInv
<1> QED BY <1>1, Invariance, PTL

\* The effect happens at most once, for any number of crashes, retries, late
\* requests and recovery runs (tool_effects.py).
THEOREM HappensAtMostOnce == Spec => []AtMostOnce
<1>1. IInv => AtMostOnce
  BY DEF IInv, OneWrite, AtMostOnce
<1> QED BY <1>1, Invariance, PTL

\* A failed or undispatched row means that nothing has happened or will.
THEOREM FailureIsCertain == Spec => []FailedMeansNothing
<1>1. IInv => FailedMeansNothing
  BY DEF IInv
<1> QED BY <1>1, Invariance, PTL

\* Under a live lease the reservation is never taken away.
THEOREM LiveDeliveriesAreReserved == Spec => []LiveDeliveryIsReserved
<1>1. IInv => LiveDeliveryIsReserved
  BY DEF IInv
<1> QED BY <1>1, Invariance, PTL
-----------------------------------------------------------------------------
\* Who is about to dispatch or to finish holds a claim, so a row reserved for him
\* is reserved for somebody, and is not confirmed.
LEMMA HoldersAreOpen ==
  ASSUME IInv, NEW w \in Workers, ~At(w, "idle"), HoldsReservation(w)
  PROVE  effect.status \notin Confirmed
BY DEF IInv, TokensAreUnique, ConfirmedRow, HoldsReservation

\* What a step of a worker does to a confirmed row: nothing.
LEMMA WorkKeepsConfirmed ==
  ASSUME IInv, NEW w \in Workers, Work(w), effect.status \in Confirmed
  PROVE  effect' = effect
<1>1. CASE Reservation(w)
  <2>1. ~Uncertain
    BY DEF Uncertain, Confirmed
  <2>2. effect' = effect \/ ReserveNothing(w)
    BY <1>1 DEF Reservation, RejectCall, Reread, Reserve
  <2>3. effect \in EffectType
    BY DEF IInv, TypeOK
  <2> QED BY <2>1, <2>2, <2>3 DEF ReserveNothing, EffectType
<1>2. CASE Delivery(w)
  <2>1. ~Dispatch(w)
    BY HoldersAreOpen DEF Dispatch, At
  <2> QED BY <1>2, <2>1 DEF Delivery, RejectDispatch, Send, Replay, SendFrom, LookFound,
          LookAbsent, RecordAbsence, GiveUp, Timeout
<1>3. CASE Finish(w)
  <2>1. ~FinishConfirmed(w)
    BY HoldersAreOpen DEF FinishConfirmed, MayFinish, At
  <2>2. ASSUME NEW error, NEW cooling, FinishFailed(w, error, cooling) PROVE FALSE
    BY <2>2, HoldersAreOpen DEF FinishFailed, MayFinish, At
  <2> QED BY <1>3, <2>1, <2>2 DEF Finish, FinishSuperseded
<1>4. CASE CommitOutcome(w) \/ DiscardOutcome(w)
  BY <1>4 DEF CommitOutcome, DiscardOutcome
<1> QED BY <1>1, <1>2, <1>3, <1>4 DEF Work

\* What any step does to a confirmed row: at most, its backoff passes.
LEMMA StepKeepsConfirmed ==
  ASSUME IInv, [Next]_vars, effect.status \in Confirmed
  PROVE  effect' = [effect EXCEPT !.cooling = effect'.cooling]
<1>1. effect \in EffectType
  BY DEF IInv, TypeOK
<1>2. CASE BackoffEnds
  BY <1>1, <1>2 DEF BackoffEnds, EffectType
<1>3. CASE ~BackoffEnds
  <2>1. ~RecoverEffects /\ \A succeeded \in BOOLEAN : ~Resolve(succeeded)
    BY DEF RecoverEffects, Exposed, Abandoned, Resolve, MayResolve, Confirmed
  <2>2. ASSUME NEW w \in Workers, Claim(w) \/ Work(w) \/ Interrupt(w)
        PROVE  effect' = effect
    BY <2>2, WorkKeepsConfirmed DEF Claim, Interrupt
  <2>3. effect' = effect
    BY <1>3, <2>1, <2>2 DEF Next, vars, Apply, Refuse, LoseLease, EndRun, Recover
  <2> QED BY <1>1, <2>3 DEF EffectType
<1> QED BY <1>2, <1>3

\* No step changes a confirmed outcome; the passing of a backoff does not count.
THEOREM ConfirmationIsFinal == Spec => ConfirmedIsFinal
<1>1. IInv /\ [Next]_vars =>
        [effect.status \in Confirmed =>
           effect' = [effect EXCEPT !.cooling = effect'.cooling]]_vars
  BY StepKeepsConfirmed
<1> QED BY <1>1, Invariance, PTL DEF Spec, ConfirmedIsFinal

\* A worker's steps charge the budget only for a dispatch, which the reservation
\* allowed once the backoff had elapsed.
THEOREM BackoffsAreRespected == Spec => BackoffRespected
<1>1. ASSUME IInv, NEW w \in Workers, Work(w), effect'.attempts > effect.attempts
      PROVE  ~effect.cooling
  <2>1. effect \in EffectType /\ effect.attempts \in Nat
    BY <1>1, AttemptsAreNumbers DEF IInv
  <2>2. CASE Dispatch(w)
    BY <2>2, <1>1 DEF Dispatch, IInv, HoldersKnow, HolderKnows, At
  <2>3. CASE ~Dispatch(w)
    <3>1. effect'.attempts = effect.attempts
      BY <1>1, <2>1, <2>3 DEF Work, Reservation, Delivery, Finish, RejectCall, ReserveNothing,
         Reread, Reserve, ReservedEffect, RejectDispatch, Send, Replay, SendFrom, LookFound,
         LookAbsent, RecordAbsence, GiveUp, Timeout, FinishConfirmed, FinishFailed,
         FinishedEffect, FinishSuperseded, CommitOutcome, DiscardOutcome, EffectType
    <3> QED BY <1>1, <2>1, <3>1
  <2> QED BY <2>2, <2>3
<1>2. ASSUME IInv, [Next]_vars, effect'.attempts > effect.attempts PROVE ~effect.cooling
  <2>1. effect \in EffectType /\ effect.attempts \in Nat
    BY <1>2, AttemptsAreNumbers DEF IInv
  <2>2. CASE \E w \in Workers : Work(w)
    BY <1>1, <1>2, <2>2
  <2>3. CASE ~\E w \in Workers : Work(w)
    <3>1. effect'.attempts = effect.attempts
      BY <1>2, <2>1, <2>3 DEF Next, vars, Claim, Interrupt, Apply, Refuse, LoseLease, EndRun,
         RecoverEffects, BackoffEnds, Recover, Resolve, EffectType
    <3> QED BY <1>2, <2>1, <3>1
  <2> QED BY <2>2, <2>3
<1> QED BY <1>2, Invariance, PTL DEF Spec, BackoffRespected

\* A recovery run starts only from a confirmed effect, or from one that has not
\* happened and cannot happen any more.
THEOREM RecoveriesAreCertain == Spec => RecoveryIsCertain
<1>1. ASSUME IInv, Recover
      PROVE  \/ effect.status \in Confirmed /\ effect.error = "none"
             \/ applied = 0 /\ NothingLeft
  <2>1. effect.status \in {"absent", "pending", "failed", "unknown"} \cup Confirmed
    BY <1>1 DEF IInv, TypeOK, EffectType
  <2>2. ~Blockers
    BY <1>1 DEF Recover
  <2>3. CASE effect.status \in Confirmed
    <3>1. effect.status = "succeeded" => effect.error = "none"
      BY <1>1, <2>3 DEF IInv, ConfirmedRow
    <3> QED BY <2>2, <2>3, <3>1 DEF Blockers, Confirmed
  <2>4. CASE effect.status \notin Confirmed
    BY <1>1, <2>1, <2>2, <2>4 DEF Blockers, Uncertain, IInv, FailedMeansNothing
  <2> QED BY <2>3, <2>4
<1>2. ASSUME IInv, [Next]_vars, ~Recover PROVE ~(run'.number > run.number)
  <2>1. run \in [status : {"running", "settled", "failed"}, number : 1..MaxRuns]
    BY <1>2 DEF IInv, TypeOK
  <2>2. ASSUME NEW w \in Workers, Work(w) PROVE run'.number = run.number
    BY <2>1, <2>2 DEF Work, Reservation, Delivery, Finish, RejectCall, ReserveNothing, Reread,
       Reserve, Dispatch, RejectDispatch, Send, Replay, SendFrom, LookFound, LookAbsent,
       RecordAbsence, GiveUp, Timeout, FinishConfirmed, FinishFailed, FinishSuperseded,
       CommitOutcome, DiscardOutcome
  <2>3. run'.number = run.number
    BY <1>2, <2>1, <2>2 DEF Next, vars, Claim, Interrupt, Apply, Refuse, LoseLease, EndRun,
       RecoverEffects, BackoffEnds, Resolve
  <2> QED BY <2>1, <2>3
<1> QED BY <1>1, <1>2, Invariance, PTL DEF Spec, RecoveryIsCertain

-----------------------------------------------------------------------------
\* A call that has returned, like a step that has completed, has its receipt.
Succeeded == effect.status \in Confirmed /\ effect.error = "none"
ReturnsAreConfirmed ==
  \A w \in Workers : At(w, "over") /\ workers[w].outcome = "returned" => Succeeded

\* Only finish and a second look at the row let a call return.
LEMMA WorkReturnsConfirmed ==
  ASSUME IInv, ReturnsAreConfirmed, NEW w \in Workers, Work(w), ~Succeeded,
         NEW v \in Workers, At(v, "over")', workers'[v].outcome = "returned"
  PROVE  Succeeded'
<1> USE DEF At
<1>1. ~(At(v, "over") /\ workers[v].outcome = "returned")
  BY DEF ReturnsAreConfirmed
<1>2. workers \in [Workers -> WorkerType] /\ effect \in EffectType
  BY DEF IInv, TypeOK
<1>3. v = w
  BY <1>1, <1>2 DEF Work, Reservation, Delivery, Finish, RejectCall, ReserveNothing, Reread,
     Reserve, Dispatch, RejectDispatch, Send, Replay, SendFrom, LookFound, LookAbsent,
     RecordAbsence, GiveUp, Timeout, FinishConfirmed, FinishFailed, FinishSuperseded,
     CommitOutcome, DiscardOutcome, Goes, Ends, Decides, IdleWorker
<1>4. Reread(w) \/ FinishConfirmed(w)
  <2>1. CASE Reservation(w)
    BY <1>1, <1>2, <1>3, <2>1 DEF Reservation, RejectCall, ReserveNothing, Reserve, Goes,
       Ends, WorkerType
  <2>2. ~Delivery(w)
    <3>1. ASSUME NEW p \in {"looking", "sending", "absent"}, Goes(w, p) PROVE FALSE
      BY <1>2, <1>3, <3>1 DEF Goes, WorkerType
    <3>2. ASSUME NEW o, Decides(w, o) \/ SendFrom(w, o) PROVE FALSE
      BY <1>2, <1>3, <3>2 DEF Decides, SendFrom, WorkerType
    <3>3. ~RecordAbsence(w)
      BY <1>2, <1>3 DEF RecordAbsence, WorkerType
    <3> QED BY <3>1, <3>2, <3>3 DEF Delivery, Dispatch, RejectDispatch, Send, Replay,
            LookFound, LookAbsent, GiveUp, Timeout
  <2>3. CASE Finish(w)
    BY <1>1, <1>2, <1>3, <2>3 DEF Finish, FinishFailed, FinishSuperseded, Ends, WorkerType
  <2>4. ~CommitOutcome(w) /\ ~DiscardOutcome(w)
    BY <1>2, <1>3 DEF CommitOutcome, DiscardOutcome, IdleWorker
  <2> QED BY <2>1, <2>2, <2>3, <2>4 DEF Work
<1>5. ~Reread(w)
  BY <1>2, <1>3 DEF Reread, Reuse, Succeeded, Ends, WorkerType
<1>6. CASE FinishConfirmed(w)
  BY <1>2, <1>6 DEF FinishConfirmed, FinishedEffect, Succeeded, EffectType
<1> QED BY <1>4, <1>5, <1>6

\* A step completes only on a confirmed success of its effect.
THEOREM StepsSettleOnSuccess == Spec => []SettledOnSuccess
<1> DEFINE Inv == IInv /\ SettledOnSuccess /\ ReturnsAreConfirmed
<1>1. Init => Inv
  BY InitInv DEF Init, SettledOnSuccess, ReturnsAreConfirmed, At, IdleWorker
<1>2. Inv /\ [Next]_vars => Inv'
  <2> SUFFICES ASSUME Inv, [Next]_vars PROVE Inv'
    OBVIOUS
  <2>1. IInv'
    BY NextInv
  <2>2. Succeeded => Succeeded'
    <3>1. effect \in EffectType
      BY DEF IInv, TypeOK
    <3> QED BY <3>1, StepKeepsConfirmed DEF Succeeded, EffectType
  <2>3. workers \in [Workers -> WorkerType] /\ run \in [status : {"running", "settled", "failed"}, number : 1..MaxRuns]
    BY DEF IInv, TypeOK
  <2>4. ReturnsAreConfirmed'
    <3>1. SUFFICES ASSUME NEW v \in Workers, At(v, "over")', workers'[v].outcome = "returned",
                          ~Succeeded
                   PROVE  Succeeded'
      BY <2>2 DEF ReturnsAreConfirmed
    <3>2. CASE \E w \in Workers : Work(w)
      BY <3>1, <3>2, WorkReturnsConfirmed
    <3>3. CASE ~\E w \in Workers : Work(w)
      <4>1. At(v, "over") /\ workers[v].outcome = "returned"
        <5>1. ASSUME NEW w \in Workers, Claim(w) \/ Interrupt(w)
              PROVE  At(v, "over") /\ workers[v].outcome = "returned"
          <6>1. workers'[w].phase # "over"
            <7>1. Claim(w) => workers'[w].phase = "claimed"
              BY <2>3 DEF Claim, IdleWorker
            <7>2. Interrupt(w) => workers'[w].phase = "idle"
              BY <2>3 DEF Interrupt, IdleWorker
            <7> QED BY <5>1, <7>1, <7>2
          <6>2. v # w /\ (v # w => workers'[v] = workers[v])
            BY <2>3, <3>1, <5>1, <6>1 DEF Claim, Interrupt, At
          <6> QED BY <3>1, <6>2 DEF At
        <5>2. ASSUME NEW c \in Claims, Apply(c) \/ Refuse(c),
                     NEW w \in Workers, Goes(w, "finishing") \/ Decides(w, FailureOutcome(w))
              PROVE  At(v, "over") /\ workers[v].outcome = "returned"
          <6>1. workers'[w].phase # "over"
            BY <2>3, <5>2 DEF Goes, Decides, WorkerType
          <6>2. v # w /\ (v # w => workers'[v] = workers[v])
            BY <2>3, <3>1, <5>2, <6>1 DEF Goes, Decides, At
          <6> QED BY <3>1, <6>2 DEF At
        <5>3. CASE UNCHANGED workers
          BY <3>1, <5>3 DEF At
        <5>4. ASSUME NEW c \in Claims, Apply(c) \/ Refuse(c)
              PROVE  At(v, "over") /\ workers[v].outcome = "returned"
          BY <5>2, <5>3, <5>4 DEF Apply, Refuse
        <5> QED BY <3>3, <5>1, <5>3, <5>4 DEF Next, vars, LoseLease, EndRun, RecoverEffects,
                BackoffEnds, Recover, Resolve
      <4> QED BY <3>1, <4>1 DEF ReturnsAreConfirmed
    <3> QED BY <3>2, <3>3
  <2>5. SettledOnSuccess'
    <3>1. SUFFICES ASSUME run'.status = "settled", ~Succeeded PROVE Succeeded'
      BY <2>2 DEF SettledOnSuccess, Succeeded
    <3>2. run.status # "settled"
      BY <3>1 DEF SettledOnSuccess, Succeeded
    <3>3. ASSUME NEW w \in Workers, Work(w) PROVE CommitOutcome(w)
      BY <2>3, <3>1, <3>2, <3>3 DEF Work, Reservation, Delivery, Finish, RejectCall,
         ReserveNothing, Reread, Reserve, Dispatch, RejectDispatch, Send, Replay, SendFrom,
         LookFound, LookAbsent, RecordAbsence, GiveUp, Timeout, FinishConfirmed, FinishFailed,
         FinishSuperseded, DiscardOutcome
    <3>4. PICK w \in Workers : CommitOutcome(w)
      <4>1. ~EndRun /\ ~Recover
        BY <2>3, <3>1 DEF EndRun, Recover
      <4>2. run' # run
        BY <3>1, <3>2
      <4>3. \E w \in Workers : Work(w)
        BY <4>1, <4>2 DEF Next, vars, Claim, Interrupt, Apply, Refuse, LoseLease,
           RecoverEffects, BackoffEnds, Resolve
      <4> QED BY <3>3, <4>3
    <3>5. At(w, "over") /\ workers[w].outcome = "returned"
      BY <2>3, <3>1, <3>2, <3>4 DEF CommitOutcome
    <3> QED BY <3>1, <3>5 DEF ReturnsAreConfirmed
  <2> QED BY <2>1, <2>4, <2>5
<1>3. Inv => SettledOnSuccess
  OBVIOUS
<1> QED BY <1>1, <1>2, <1>3, PTL DEF Spec

-----------------------------------------------------------------------------
\* Only the provider makes the effect happen, and the ledger does not move then.
LEMMA AppliedAlone ==
  ASSUME IInv, [Next]_vars, applied' # applied
  PROVE  effect' = effect /\ applied' = applied + 1
<1>1. ASSUME NEW w \in Workers, Work(w) PROVE FALSE
  <2>1. ~Reservation(w)
    BY DEF Reservation, RejectCall, ReserveNothing, Reread, Reserve
  <2>2. ~Delivery(w)
    BY DEF Delivery, Dispatch, RejectDispatch, Send, Replay, SendFrom, LookFound,
       LookAbsent, RecordAbsence, GiveUp, Timeout
  <2>3. ~Finish(w)
    BY DEF Finish, FinishConfirmed, FinishFailed, FinishSuperseded
  <2> QED BY <1>1, <2>1, <2>2, <2>3 DEF Work, CommitOutcome, DiscardOutcome
<1>2. PICK c \in Claims : Apply(c)
  BY <1>1 DEF Next, vars, Claim, Interrupt, Refuse, LoseLease, EndRun, RecoverEffects,
     BackoffEnds, Recover, Resolve
<1> QED BY <1>2 DEF Apply

\* The ledger with its workers, stalled requests and recovery runs is an
\* EffectContract.
THEOREM Refinement == Spec => ImplementsContract
<1>1. Init => Contract!Init
  BY DEF Init, Contract!Init, Verdict, NoEffect, Confirmed
<1>2. ASSUME IInv, IInv', [Next]_vars PROVE [Contract!Next]_<<applied, Verdict>>
  <2>1. /\ applied \in Nat /\ applied <= 1
        /\ applied' \in Nat /\ applied' <= 1
    BY <1>2 DEF IInv, TypeOK, OneWrite
  <2>2. /\ effect \in EffectType /\ effect' \in EffectType
    BY <1>2 DEF IInv, TypeOK
  <2>3. CASE applied' # applied
    <3>1. applied = 0 /\ applied' = 1
      <4>1. applied' = applied + 1
        BY <1>2, <2>3, AppliedAlone
      <4> QED BY <2>1, <4>1
    <3>2. Verdict' = Verdict
      BY <1>2, <2>3, AppliedAlone DEF Verdict
    <3> QED BY <3>1, <3>2 DEF Contract!Next, Contract!Happen
  <2>4. CASE applied' = applied /\ effect.status \in Confirmed
    <3>1. effect' = [effect EXCEPT !.cooling = effect'.cooling]
      BY <1>2, <2>4, StepKeepsConfirmed
    <3>2. /\ effect'.status = effect.status /\ effect'.by = effect.by
          /\ effect'.error = effect.error
      BY <2>2, <3>1 DEF EffectType
    <3> QED BY <2>4, <3>2 DEF Verdict
  <2>5. CASE applied' = applied /\ effect.status \notin Confirmed
    <3>1. Verdict = "open"
      BY <2>5 DEF Verdict
    <3>2. CASE effect'.status \notin Confirmed
      BY <2>5, <3>1, <3>2 DEF Verdict
    <3>3. CASE effect'.status \in Confirmed /\ effect'.by # "operator"
      <4>1. Verdict' = "confirmed"
        BY <3>3 DEF Verdict
      <4>2. applied' > 0
        BY <1>2, <3>3 DEF IInv, ConfirmedRow
      <4>3. applied = 1
        BY <2>1, <2>5, <4>2
      <4> QED BY <2>5, <3>1, <4>1, <4>3 DEF Contract!Next, Contract!Confirm
    <3>4. CASE effect'.status \in Confirmed /\ effect'.by = "operator"
      <4>1. Verdict' \in {"resolved", "denied"}
        BY <3>4 DEF Verdict
      <4> QED BY <2>5, <3>1, <4>1 DEF Contract!Next, Contract!Resolve
    <3> QED BY <3>2, <3>3, <3>4
  <2> QED BY <2>3, <2>4, <2>5
<1> QED BY <1>1, <1>2, Invariance, PTL
        DEF Spec, ImplementsContract, Contract!Spec, Contract!contractVars

-----------------------------------------------------------------------------
(* The budget of requests: ChargesHold is inductive, since a step that does  *)
(* not dispatch adds nothing to what is charged.                             *)

\* While nobody dispatches, what is charged was charged before.
LEMMA ChargesKept ==
  ASSUME \A v \in Workers : Paying(v)' => Paying(v) /\ workers'[v].token = workers[v].token,
         \A c \in Claims : requests'[c] # "unsent" => requests[c] # "unsent" \/ c \in Charged
  PROVE  Charged' \subseteq Charged
  BY DEF Charged

\* What a worker pays for is charged.
LEMMA PayingIsCharged ==
  ASSUME IInv, NEW w \in Workers, Paying(w)
  PROVE  workers[w].token \in Charged
<1>1. workers[w].token \in 0..MaxClaims /\ workers[w].token # 0
  BY DEF Paying, IInv, At, TokensAreUnique, TypeOK, WorkerType
<1>2. workers[w].token \in Claims
  BY <1>1, PositiveClaim
<1> QED BY <1>2 DEF Charged

\* A worker that neither dispatches nor sends.
LEMMA MoveKeepsCharges ==
  ASSUME IInv, NEW w \in Workers, NEW p, NEW u, NEW o, MovesTo(w, p, u, o),
         p \in {"looking", "absent", "sending"} => Paying(w), requests' = requests
  PROVE  Charged' \subseteq Charged
<1>1. \A v \in Workers : Paying(v)' => Paying(v) /\ workers'[v].token = workers[v].token
  BY DEF MovesTo, Paying
<1> QED BY <1>1, ChargesKept

\* A request that is sent has been charged.
LEMMA SendKeepsCharges ==
  ASSUME IInv, NEW w \in Workers, Paying(w), NEW o \in Confirmed, SendFrom(w, o)
  PROVE  Charged' \subseteq Charged
<1>1. workers[w].phase # "idle" /\ o \in Outcomes /\ TypeOK
  BY DEF Paying, Outcomes, Confirmed, IInv
<1>2. MovesTo(w, "waiting", workers[w].uncertain, o)
  BY <1>1, Moved DEF SendFrom
<1>3. \A v \in Workers : Paying(v)' => Paying(v) /\ workers'[v].token = workers[v].token
  BY <1>2 DEF MovesTo, Paying
<1>4. \A c \in Claims : c # workers[w].token => requests'[c] = requests[c]
  BY <1>1 DEF SendFrom, TypeOK
<1> QED BY <1>3, <1>4, ChargesKept, PayingIsCharged

\* A worker that goes on pays for nothing unless it dispatches.
LEMMA WorkKeepsCharges ==
  ASSUME IInv, NEW w \in Workers, Work(w), ~Dispatch(w)
  PROVE  Charged' \subseteq Charged
<1>1. TypeOK
  BY DEF IInv
<1> USE <1>1 DEF At, Phases, Outcomes, Confirmed
<1>2. CASE RejectCall(w) \/ Reread(w) \/ FinishSuperseded(w)
  <2>1. workers[w].phase # "idle" /\ requests' = requests
    BY <1>2 DEF RejectCall, Reread, FinishSuperseded
  <2>2. \E o \in Outcomes : Ends(w, o)
    BY <1>2 DEF RejectCall, Reread, FinishSuperseded
  <2> QED BY <2>1, <2>2, Moved, MoveKeepsCharges
<1>3. CASE ReserveNothing(w) \/ LookAbsent(w)
  <2>1. /\ workers[w].phase # "idle" /\ requests' = requests
        /\ \/ Goes(w, "rereading")
           \/ Goes(w, "absent") /\ Paying(w)
    BY <1>3 DEF ReserveNothing, LookAbsent, Paying
  <2>2. PICK p \in Phases : /\ MovesTo(w, p, workers[w].uncertain, workers[w].outcome)
                            /\ p \in {"looking", "absent", "sending"} => Paying(w)
    BY <2>1, Moved
  <2> QED BY <2>1, <2>2, MoveKeepsCharges
<1>4. CASE Reserve(w) \/ RecordAbsence(w)
  <2>1. workers[w].phase # "idle" /\ requests' = requests
    BY <1>4 DEF Reserve, RecordAbsence
  <2>2. PICK p \in {"reserved", "sending"}, u \in BOOLEAN :
          /\ workers' = [workers EXCEPT ![w].phase = p, ![w].uncertain = u]
          /\ p = "sending" => Paying(w)
    BY <1>4 DEF Reserve, RecordAbsence, Paying, Uncertain
  <2>3. MovesTo(w, p, u, workers[w].outcome)
    BY <2>1, <2>2, Moved
  <2> QED BY <2>1, <2>2, <2>3, MoveKeepsCharges
<1>5. CASE RejectDispatch(w) \/ LookFound(w) \/ GiveUp(w) \/ Timeout(w)
  <2>1. workers[w].phase # "idle" /\ requests' = requests
    BY <1>5 DEF RejectDispatch, LookFound, GiveUp, Timeout
  <2>2. \E o \in Outcomes : Decides(w, o)
    BY <1>5 DEF RejectDispatch, LookFound, GiveUp, Timeout, FailureOutcome
  <2>3. \E o \in Outcomes : MovesTo(w, "finishing", workers[w].uncertain, o)
    BY <2>1, <2>2, Moved
  <2> QED BY <2>1, <2>3, MoveKeepsCharges
<1>6. CASE Send(w) \/ Replay(w)
  <2>1. Paying(w) /\ \E o \in Confirmed : SendFrom(w, o)
    BY <1>6 DEF Send, Replay, Paying
  <2> QED BY <2>1, SendKeepsCharges
<1>7. CASE FinishConfirmed(w) \/ \E error \in {"none", "retryable", "final"},
                                    cooling \in BOOLEAN : FinishFailed(w, error, cooling)
  <2>1. workers[w].phase # "idle" /\ requests' = requests
    BY <1>7 DEF FinishConfirmed, FinishFailed
  <2>2. \E o \in Outcomes : Ends(w, o)
    BY <1>7 DEF FinishConfirmed, FinishFailed
  <2> QED BY <2>1, <2>2, Moved, MoveKeepsCharges
<1>8. CASE CommitOutcome(w) \/ DiscardOutcome(w)
  <2>1. requests' = requests /\ workers' = [workers EXCEPT ![w] = IdleWorker]
    BY <1>8 DEF CommitOutcome, DiscardOutcome
  <2>2. \A v \in Workers : Paying(v)' => Paying(v) /\ workers'[v].token = workers[v].token
    BY <2>1 DEF Paying, TypeOK, IdleWorker
  <2> QED BY <2>1, <2>2, ChargesKept
<1> QED BY <1>2, <1>3, <1>4, <1>5, <1>6, <1>7, <1>8 DEF Work, Reservation, Delivery, Finish

\* The steps of the others.
LEMMA OthersKeepCharges ==
  ASSUME IInv, [Next]_vars, ~\E w \in Workers : Work(w)
  PROVE  Charged' \subseteq Charged
<1>1. TypeOK
  BY DEF IInv
<1>2. CASE UNCHANGED vars \/ LoseLease \/ EndRun \/ RecoverEffects \/ BackoffEnds \/ Recover
           \/ \E succeeded \in BOOLEAN : Resolve(succeeded)
  <2>1. UNCHANGED <<workers, requests>>
    BY <1>2 DEF vars, LoseLease, EndRun, RecoverEffects, BackoffEnds, Recover, Resolve
  <2> QED BY <2>1 DEF Charged, Paying
<1>3. ASSUME NEW w \in Workers, NEW r, r.phase \in {"idle", "claimed"},
             workers' = [workers EXCEPT ![w] = r], requests' = requests
      PROVE  Charged' \subseteq Charged
  <2>1. \A v \in Workers : Paying(v)' => Paying(v) /\ workers'[v].token = workers[v].token
    BY <1>1, <1>3 DEF Paying, TypeOK
  <2> QED BY <1>3, <2>1, ChargesKept
<1>5. ASSUME NEW w \in Workers, Claim(w) \/ Interrupt(w) PROVE Charged' \subseteq Charged
  <2> DEFINE fresh == [IdleWorker EXCEPT !.phase = "claimed", !.token = claims + 1]
  <2>1. fresh.phase = "claimed" /\ IdleWorker.phase = "idle"
    BY DEF IdleWorker
  <2>2. \/ workers' = [workers EXCEPT ![w] = fresh]
        \/ workers' = [workers EXCEPT ![w] = IdleWorker]
    BY <1>5 DEF Claim, Interrupt
  <2>3. requests' = requests
    BY <1>5 DEF Claim, Interrupt
  <2> HIDE DEF fresh
  <2> QED BY <1>3, <2>1, <2>2, <2>3
<1>4. ASSUME NEW c \in Claims, Apply(c) \/ Refuse(c) PROVE Charged' \subseteq Charged
  <2>1. requests[c] # "unsent" /\ \A d \in Claims : d # c => requests'[d] = requests[d]
    BY <1>1, <1>4 DEF Apply, Refuse, InFlight, TypeOK
  <2>2. \/ workers' = workers
        \/ \E w \in Workers, o \in Outcomes :
             At(w, "waiting") /\ (Goes(w, "finishing") \/ Decides(w, o))
    BY <1>4 DEF Apply, Refuse, Hears, FailureOutcome, Outcomes
  <2>3. \A v \in Workers : Paying(v)' => Paying(v) /\ workers'[v].token = workers[v].token
    <3>1. CASE workers' = workers
      BY <3>1 DEF Paying
    <3>2. ASSUME NEW w \in Workers, NEW o \in Outcomes,
                 At(w, "waiting"), Goes(w, "finishing") \/ Decides(w, o)
          PROVE  \A v \in Workers : Paying(v)' => Paying(v) /\ workers'[v].token = workers[v].token
      <4>1. \E q : MovesTo(w, "finishing", workers[w].uncertain, q)
        BY <1>1, <3>2, Moved DEF At, Phases
      <4> QED BY <4>1 DEF MovesTo, Paying
    <3> QED BY <2>2, <3>1, <3>2
  <2> QED BY <2>1, <2>3, ChargesKept
<1> QED BY <1>2, <1>4, <1>5 DEF Next

\* Only a dispatch changes the number of attempts, and it adds one.
LEMMA AttemptsKept ==
  ASSUME IInv, [Next]_vars, ~\E w \in Workers : Dispatch(w)
  PROVE  effect'.attempts = effect.attempts
<1>1. effect \in EffectType
  BY DEF IInv, TypeOK
<1>2. ASSUME NEW w \in Workers, Work(w) PROVE effect'.attempts = effect.attempts
  BY <1>1, <1>2 DEF Work, Reservation, Delivery, Finish, RejectCall, ReserveNothing,
     Reread, Reserve, ReservedEffect, RejectDispatch, Send, Replay, SendFrom, LookFound,
     LookAbsent, RecordAbsence, GiveUp, Timeout, FinishConfirmed, FinishFailed,
     FinishedEffect, FinishSuperseded, CommitOutcome, DiscardOutcome, EffectType
<1>3. CASE ~\E w \in Workers : Work(w)
  BY <1>1, <1>3 DEF Next, vars, Claim, Interrupt, Apply, Refuse, LoseLease, EndRun,
     RecoverEffects, BackoffEnds, Recover, Resolve, EffectType
<1> QED BY <1>2, <1>3

\* A dispatch pays for one claim.
LEMMA DispatchCharges ==
  ASSUME IInv, NEW w \in Workers, Dispatch(w)
  PROVE  /\ Charged' \subseteq Charged \cup {workers[w].token}
         /\ effect'.attempts = effect.attempts + 1
<1>1. effect \in EffectType /\ effect.attempts \in Nat /\ TypeOK
  BY AttemptsAreNumbers DEF IInv
<1>2. effect'.attempts = effect.attempts + 1
  BY <1>1 DEF Dispatch, DispatchedEffect, EffectType
<1>3. requests' = requests /\ workers[w].phase # "idle"
      /\ \E p \in Phases : Goes(w, p)
  BY DEF Dispatch, At, Phases
<1>4. \E p, u, o : MovesTo(w, p, u, o)
  BY <1>1, <1>3, Moved
<1>5. \A v \in Workers : workers'[v].token = workers[v].token /\ (v # w => workers'[v] = workers[v])
  BY <1>4 DEF MovesTo
<1>6. Charged' \subseteq Charged \cup {workers[w].token}
  BY <1>3, <1>5 DEF Charged, Paying
<1> QED BY <1>2, <1>6

\* There are finitely many claims.
LEMMA ChargedIsFinite == IsFiniteSet(Charged) /\ Cardinality(Charged) \in Nat
<1>1. IsFiniteSet(Claims)
  BY BoundsAssumption, FS_Interval DEF Claims
<1>2. Charged \subseteq Claims
  BY DEF Charged
<1> QED BY <1>1, <1>2, FS_Subset, FS_CardinalityType

\* Nothing is charged at first.
LEMMA ChargesInit == Init => ChargesHold
<1> SUFFICES ASSUME Init PROVE ChargesHold
  OBVIOUS
<1>1. Charged = {}
  BY DEF Init, Charged, Paying, IdleWorker
<1>2. effect.attempts = 0
  BY DEF Init, NoEffect
<1> QED BY <1>1, <1>2, FS_EmptySet DEF ChargesHold

\* The charges are covered by the attempts after every step.
LEMMA ChargesNext == IInv /\ ChargesHold /\ [Next]_vars => ChargesHold'
<1> SUFFICES ASSUME IInv, ChargesHold, [Next]_vars PROVE ChargesHold'
  OBVIOUS
<1>1. effect.attempts \in Nat
  BY AttemptsAreNumbers DEF IInv
<1>2. IsFiniteSet(Charged) /\ Cardinality(Charged) \in Nat
  BY ChargedIsFinite
<1>3. IsFiniteSet(Charged') /\ Cardinality(Charged') \in Nat
  <2>1. Charged' \subseteq Claims
    BY DEF Charged
  <2>2. IsFiniteSet(Claims)
    BY BoundsAssumption, FS_Interval DEF Claims
  <2> QED BY <2>1, <2>2, FS_Subset, FS_CardinalityType
<1>4. CASE \E w \in Workers : Dispatch(w)
  <2>1. PICK w \in Workers : Dispatch(w)
    BY <1>4
  <2> DEFINE paid == Charged \cup {workers[w].token}
  <2>2. Charged' \subseteq paid /\ effect'.attempts = effect.attempts + 1
    BY <2>1, DispatchCharges
  <2>3. IsFiniteSet(paid) /\ Cardinality(paid) <= Cardinality(Charged) + 1
    BY <1>2, FS_AddElement
  <2>4. Cardinality(paid) \in Nat
    BY <2>3, FS_CardinalityType
  <2> HIDE DEF paid
  <2>5. Cardinality(Charged') <= Cardinality(paid)
    BY <2>2, <2>3, FS_Subset
  <2> QED BY <1>1, <1>2, <1>3, <2>2, <2>3, <2>4, <2>5 DEF ChargesHold
<1>5. CASE ~\E w \in Workers : Dispatch(w)
  <2>1. effect'.attempts = effect.attempts
    BY <1>5, AttemptsKept
  <2>2. Charged' \subseteq Charged
    BY <1>5, WorkKeepsCharges, OthersKeepCharges
  <2>3. Cardinality(Charged') <= Cardinality(Charged)
    BY <1>2, <2>2, FS_Subset
  <2> QED BY <1>1, <1>2, <1>3, <2>1, <2>3 DEF ChargesHold
<1> QED BY <1>4, <1>5

\* No request is sent, by any worker of any run, that the budget was not charged for.
THEOREM RequestsAreCharged == Spec => []RequestsCharged
<1>1. Init => ChargesHold
  BY ChargesInit
<1>2. IInv /\ ChargesHold /\ [Next]_vars => ChargesHold'
  BY ChargesNext
<1>3. IInv /\ ChargesHold => RequestsCharged
  <2> SUFFICES ASSUME IInv, ChargesHold PROVE RequestsCharged
    OBVIOUS
  <2> DEFINE sent == {c \in Claims : requests[c] # "unsent"}
  <2>1. sent \subseteq Charged
    BY DEF Charged
  <2>2. /\ IsFiniteSet(sent) /\ Cardinality(sent) <= Cardinality(Charged)
        /\ Cardinality(Charged) \in Nat /\ Cardinality(sent) \in Nat
    BY <2>1, ChargedIsFinite, FS_Subset, FS_CardinalityType
  <2>3. effect.attempts \in Nat
    BY AttemptsAreNumbers DEF IInv
  <2> QED BY <2>2, <2>3 DEF ChargesHold, RequestsCharged
<1> QED BY <1>1, <1>2, <1>3, Invariance, PTL DEF Spec
=============================================================================
