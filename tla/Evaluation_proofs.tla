-------------------------- MODULE Evaluation_proofs --------------------------
(***************************************************************************)
(* Theorems about Evaluation, for any promoters, workers, completed runs   *)
(* and number of results.                                                  *)
(***************************************************************************)
EXTENDS Evaluation, SequenceTheorems, FiniteSetTheorems, WellFoundedInduction, TLAPS

-----------------------------------------------------------------------------
(* Positions and lists. *)

\* A set of naturals that is not empty has a first one.
LEMMA FirstExists ==
  ASSUME NEW n \in Nat, NEW S \in SUBSET (0..n), S # {}
  PROVE  \E m \in S : \A j \in S : m <= j
<1> DEFINE R == {p \in Nat \X Nat : p[1] < p[2]}
<1>1. IsWellFoundedOn(R, Nat)
  BY NatLessThanWellFounded, Zenon DEF OpToRel
<1>2. PICK m \in S : \A j \in S : <<j, m>> \notin R
  <2> HIDE DEF R
  <2> QED BY <1>1, WFMin, \A k \in S : k \in Nat
<1>3. ASSUME NEW j \in S, j < m PROVE FALSE
  <2>1. <<j, m>> \in Nat \X Nat /\ <<j, m>>[1] < <<j, m>>[2]
    BY <1>3
  <2> QED BY <2>1, <1>2, Zenon
<1> QED BY <1>3

\* A set of positions that is not empty has a last one.
LEMMA LastExists ==
  ASSUME NEW n \in Nat, NEW S \in SUBSET (1..n), S # {}
  PROVE  \E m \in S : \A j \in S : j <= m
<1> DEFINE D == {n - m : m \in S}
<1>1. D # {} /\ D \in SUBSET (0..n)
  <2>1. \A m \in S : n - m \in 0..n
    OBVIOUS
  <2> QED BY <2>1
<1>2. PICK d \in D : \A e \in D : d <= e
  <2> HIDE DEF D
  <2> QED BY <1>1, FirstExists
<1>3. PICK m \in S : d = n - m
  BY <1>2
<1>4. ASSUME NEW j \in S PROVE j <= m
  <2>1. n - j \in D
    OBVIOUS
  <2> QED BY <1>2, <1>3, <2>1
<1> QED BY <1>3, <1>4

\* A list with one more element.
LEMMA Appended ==
  ASSUME NEW S, NEW list \in Seq(S), NEW e \in S, NEW new, new = Append(list, e)
  PROVE  /\ new \in Seq(S) /\ Len(list) \in Nat /\ Len(new) = Len(list) + 1
         /\ DOMAIN list = 1..Len(list) /\ DOMAIN new = 1..(Len(list) + 1)
         /\ \A i \in DOMAIN list : new[i] = list[i]
         /\ new[Len(list) + 1] = e
<1>1. Len(list) \in Nat /\ DOMAIN list = 1..Len(list)
  BY LenProperties
<1>2. /\ new \in Seq(S) /\ Len(new) = Len(list) + 1
      /\ \A i \in 1..Len(list) : new[i] = list[i]
      /\ new[Len(list) + 1] = e
  BY AppendProperties
<1>3. DOMAIN new = 1..Len(new)
  BY <1>2, LenProperties
<1> QED BY <1>1, <1>2, <1>3

\* A list whose elements are changed one by one remains a list.
LEMMA Mapped ==
  ASSUME NEW S, NEW list \in Seq(S), NEW new, DOMAIN new = DOMAIN list,
         new = [i \in DOMAIN new |-> new[i]], \A i \in DOMAIN list : new[i] \in S
  PROVE  new \in Seq(S)
<1>1. DOMAIN list = 1..Len(list) /\ Len(list) \in Nat
  BY LenProperties
<1>2. new \in [1..Len(list) -> S]
  BY <1>1
<1> QED BY <1>1, <1>2, SeqDef

-----------------------------------------------------------------------------
\* What the types say of the two lists.
LEMMA Lists ==
  ASSUME TypeOK
  PROVE  /\ Len(runs) \in Nat /\ DOMAIN runs = 1..Len(runs)
         /\ \A r \in DOMAIN runs : runs[r] \in RunType
         /\ Len(results) \in Nat /\ DOMAIN results = 1..Len(results)
         /\ \A i \in DOMAIN results : results[i] \in ResultType
<1>1. runs \in Seq(RunType) /\ results \in Seq(ResultType)
  BY DEF TypeOK
<1>2. /\ Len(runs) \in Nat /\ DOMAIN runs = 1..Len(runs)
      /\ \A r \in DOMAIN runs : runs[r] \in RunType
  BY <1>1, LenProperties, ElementOfSeq
<1>3. /\ Len(results) \in Nat /\ DOMAIN results = 1..Len(results)
      /\ \A i \in DOMAIN results : results[i] \in ResultType
  BY <1>1, LenProperties, ElementOfSeq
<1> QED BY <1>2, <1>3

\* Nobody is promoting when the lock is free.
LEMMA NobodyPromotes ==
  ASSUME PromotersKnow, LockFree, NEW p \in Promoters
  PROVE  promoters[p] = Idle
BY EvaluationAssumption DEF PromotersKnow, LockFree

\* Latest finds a result where there is one.
LEMMA LatestFound ==
  ASSUME TypeOK, NEW mode, NEW statuses, Latest(Of(mode, statuses)) = 0
  PROVE  Of(mode, statuses) = {}
<1> DEFINE found == Of(mode, statuses)
<1>1. found \in SUBSET (1..Len(results)) /\ Len(results) \in Nat
  BY Lists DEF Of
<1>2. SUFFICES ASSUME found # {} PROVE FALSE
  OBVIOUS
<1>3. \E m \in found : \A j \in found : j <= m
  <2> HIDE DEF found
  <2> QED BY <1>1, <1>2, LastExists
<1>4. Latest(found) \in found
  BY <1>2, <1>3, Zenon DEF Latest
<1> QED BY <1>1, <1>4

-----------------------------------------------------------------------------
(* Shapes of steps. *)

SameResult(new, old) ==
  /\ new.run = old.run /\ new.mode = old.mode
  /\ new.derive = old.derive /\ new.by = old.by

\* The runs of before are there, of the same mode, and failed if they had.
RunsKept ==
  \A r \in DOMAIN runs :
    /\ r \in DOMAIN runs'
    /\ runs'[r].mode = runs[r].mode
    /\ runs[r].status = "failed" => runs'[r].status = "failed"

\* No result comes or goes, those that have failed have failed, and a baseline
\* fails with its run.
ResultsKept ==
  /\ DOMAIN results' = DOMAIN results
  /\ \A i \in DOMAIN results :
       /\ SameResult(results'[i], results[i])
       /\ results[i].status = "failed" => results'[i].status = "failed"
       /\ results'[i].mode = "baseline" /\ results'[i].status = "failed" =>
            runs'[results[i].run].status = "failed"

\* Where runs and results are kept, the invariant is.
LEMMA KeptInv ==
  ASSUME IInv, TypeOK', RunsKept, ResultsKept, UNCHANGED <<promoters, lock>>
  PROVE  IInv'
<1>1. TypeOK /\ ResultsMatch /\ PromotersKnow /\ OneCounterpart
  BY DEF IInv
<1>2. ResultsMatch'
  BY <1>1 DEF ResultsMatch, RunsKept, ResultsKept, SameResult
<1>3. PromotersKnow'
  BY <1>1 DEF PromotersKnow, RunsKept, ResultsKept, SameResult, Other
<1>4. OneCounterpart'
  BY <1>1 DEF OneCounterpart, ResultsKept, SameResult
<1> QED BY <1>2, <1>3, <1>4 DEF IInv

\* The status of a run changes, and it has not failed before.
LEMMA RunChanges ==
  ASSUME TypeOK, NEW r \in DOMAIN runs, NEW run \in RunType,
         runs' = [runs EXCEPT ![r] = run],
         run.mode = runs[r].mode, runs[r].status # "failed"
  PROVE  runs' \in Seq(RunType) /\ RunsKept /\ runs'[r] = run
<1>1. runs \in Seq(RunType) /\ r \in 1..Len(runs) /\ DOMAIN runs = 1..Len(runs)
  BY Lists DEF TypeOK
<1>2. runs' \in Seq(RunType)
  BY <1>1, ExceptSeq
<1> QED BY <1>1, <1>2 DEF RunsKept

\* Nothing but the status of a run that has not failed, and what depends on it.
LEMMA GoesOnInv ==
  ASSUME IInv, NEW r \in DOMAIN runs,
         NEW status \in {"running", "waiting", "approved", "completed", "failed"},
         runs[r].status # "failed",
         runs' = [runs EXCEPT ![r].status = status],
         UNCHANGED <<items, results, promoters, lock>>,
         scans' \in [Workers -> SUBSET DOMAIN results]
  PROVE  IInv'
<1>1. TypeOK /\ ResultsMatch /\ runs[r] \in RunType
  BY Lists DEF IInv
<1>2. PICK run : run = [runs[r] EXCEPT !.status = status]
  OBVIOUS
<1>3. run \in RunType /\ run.mode = runs[r].mode /\ runs' = [runs EXCEPT ![r] = run]
  BY <1>1, <1>2 DEF RunType
<1>4. runs' \in Seq(RunType) /\ RunsKept
  BY <1>1, <1>3, RunChanges
<1>5. TypeOK'
  BY <1>1, <1>4 DEF TypeOK
<1>6. ResultsKept
  BY <1>1, <1>4 DEF ResultsKept, SameResult, RunsKept, ResultsMatch
<1> QED BY <1>4, <1>5, <1>6, KeptInv

-----------------------------------------------------------------------------
(* One lemma per action. *)

\* A run is accepted with its result, which nobody else knows.
LEMMA AcceptInv ==
  ASSUME IInv, LockFree, NEW mode \in Modes, NEW by \in {"suite", "correction"},
         Accept(results, mode, FALSE, by), UNCHANGED <<items, promoters, lock, scans>>
  PROVE  IInv'
<1>1. TypeOK /\ ResultsMatch /\ PromotersKnow /\ OneCounterpart
  BY DEF IInv
<1>2. /\ Len(runs) \in Nat /\ DOMAIN runs = 1..Len(runs)
      /\ Len(results) \in Nat /\ DOMAIN results = 1..Len(results)
  BY <1>1, Lists
<1>3. PICK run, result, n :
        /\ run = NewRun(mode) /\ result = NewResult(Len(runs) + 1, mode, FALSE, by)
        /\ n = Len(results) + 1
  OBVIOUS
<1>4. run \in RunType /\ result \in ResultType
  BY <1>2, <1>3 DEF NewRun, RunType, NewResult, ResultType, Empty, Modes
<1>5. /\ runs' \in Seq(RunType) /\ DOMAIN runs' = 1..(Len(runs) + 1)
      /\ \A r \in DOMAIN runs : runs'[r] = runs[r]
      /\ runs'[Len(runs) + 1] = run
  <2>1. runs \in Seq(RunType) /\ runs' = Append(runs, run)
    BY <1>1, <1>3 DEF Accept, TypeOK
  <2> QED BY <1>4, <2>1, Appended
<1>6. /\ results' \in Seq(ResultType) /\ DOMAIN results' = 1..n
      /\ \A i \in DOMAIN results : results'[i] = results[i]
      /\ results'[n] = result
  <2>1. results \in Seq(ResultType) /\ results' = Append(results, result)
    BY <1>1, <1>3 DEF Accept, TypeOK
  <2>2. /\ results' \in Seq(ResultType) /\ DOMAIN results' = 1..(Len(results) + 1)
        /\ \A i \in DOMAIN results : results'[i] = results[i]
        /\ results'[Len(results) + 1] = result
    BY <1>4, <2>1, Appended
  <2> QED BY <1>3, <2>2
<1>7. TypeOK'
  <2>1. DOMAIN results \subseteq DOMAIN results'
    BY <1>2, <1>3, <1>6
  <2>2. scans' \in [Workers -> SUBSET DOMAIN results']
    BY <1>1, <2>1 DEF TypeOK
  <2> QED BY <1>1, <1>5, <1>6, <2>2 DEF TypeOK
<1>8. n \notin DOMAIN results /\ \A i \in DOMAIN results' : i = n \/ i \in DOMAIN results
  BY <1>2, <1>3, <1>6
<1>9. /\ result.run = Len(runs) + 1 /\ result.mode = mode /\ ~result.derive
      /\ result.status = "pending" /\ result.by # "promotion" /\ run.mode = mode
  BY <1>3 DEF NewResult, NewRun
<1>10. ResultsMatch'
  <2>1. Len(runs) + 1 \in DOMAIN runs' /\ DOMAIN runs \subseteq DOMAIN runs'
    BY <1>2, <1>5
  <2>2. ASSUME NEW i \in DOMAIN results
        PROVE  /\ results'[i].run \in DOMAIN runs'
               /\ results'[i].mode = runs'[results'[i].run].mode
               /\ results'[i].derive => results'[i].mode = "multi_agent"
               /\ results'[i].mode = "baseline" /\ results'[i].status = "failed" =>
                    runs'[results'[i].run].status = "failed"
    BY <1>1, <1>5, <1>6, <2>1 DEF ResultsMatch
  <2> QED BY <1>5, <1>6, <1>8, <1>9, <2>1, <2>2 DEF ResultsMatch
<1>11. PromotersKnow'
  BY <1>1, NobodyPromotes DEF PromotersKnow
<1>12. OneCounterpart'
  BY <1>1, <1>6, <1>8, <1>9 DEF OneCounterpart
<1> QED BY <1>7, <1>10, <1>11, <1>12 DEF IInv

\* A promotion locks, and looks for a counterpart.
LEMMA PromoteInv ==
  ASSUME IInv, NEW p \in Promoters, NEW r \in DOMAIN runs, Promote(p, r)
  PROVE  IInv'
<1>1. TypeOK /\ ResultsMatch /\ PromotersKnow /\ OneCounterpart
  BY DEF IInv
<1>2. PICK found : found = Latest(Of(Other(runs[r].mode), {"pending", "completed"}))
  OBVIOUS
<1>3. /\ promoters' = [promoters EXCEPT ![p] = [run |-> r, counterpart |-> found]]
      /\ lock' = p /\ UNCHANGED <<items, runs, results, scans>> /\ LockFree
  BY <1>2 DEF Promote
<1>4. /\ DOMAIN runs = 1..Len(runs) /\ Len(runs) \in Nat
      /\ DOMAIN results = 1..Len(results) /\ Len(results) \in Nat
      /\ \A i \in DOMAIN results : results[i] \in ResultType
  BY <1>1, Lists
<1>5. found \in Nat
  <2> DEFINE ids == Of(Other(runs[r].mode), {"pending", "completed"})
  <2>1. ids \in SUBSET (1..Len(results)) /\ found = Latest(ids)
    BY <1>2, <1>4 DEF Of
  <2>2. CASE ids = {}
    BY <2>1, <2>2 DEF Latest
  <2>3. CASE ids # {}
    <3>1. \E m \in ids : \A j \in ids : j <= m
      <4> HIDE DEF ids
      <4> QED BY <1>4, <2>1, <2>3, LastExists
    <3>2. Latest(ids) \in ids
      BY <2>3, <3>1, Zenon DEF Latest
    <3> QED BY <1>4, <2>1, <3>2
  <2> QED BY <2>2, <2>3
<1>6. TypeOK'
  <2>1. [run |-> r, counterpart |-> found] \in [run : Nat, counterpart : Nat]
    BY <1>4, <1>5
  <2> QED BY <1>1, <1>3, <2>1 DEF TypeOK
<1>7. ResultsMatch' /\ OneCounterpart'
  BY <1>1, <1>3 DEF ResultsMatch, OneCounterpart
<1>8. found = 0 => \A i \in DOMAIN results :
                     results[i].mode = Other(runs[r].mode) => results[i].status = "failed"
  <2> SUFFICES ASSUME found = 0, NEW i \in DOMAIN results,
                      results[i].mode = Other(runs[r].mode)
               PROVE  results[i].status = "failed"
    OBVIOUS
  <2>1. i \notin Of(Other(runs[r].mode), {"pending", "completed"})
    BY <1>1, <1>2, LatestFound
  <2> QED BY <1>4, <2>1 DEF Of, ResultType
<1>9. PromotersKnow'
  <2> SUFFICES ASSUME NEW q \in Promoters, promoters'[q] # Idle
               PROVE  /\ lock' = q
                      /\ promoters'[q].run \in DOMAIN runs'
                      /\ promoters'[q].counterpart = 0 =>
                           \A i \in DOMAIN results' :
                             results'[i].mode = Other(runs'[promoters'[q].run].mode) =>
                               results'[i].status = "failed"
    BY DEF PromotersKnow, Other
  <2>1. q = p /\ promoters'[q] = [run |-> r, counterpart |-> found]
    BY <1>1, <1>3, NobodyPromotes DEF TypeOK
  <2> QED BY <1>3, <1>8, <2>1 DEF Other
<1> QED BY <1>6, <1>7, <1>9 DEF IInv

\* A result that is scored.
LEMMA ScoredType ==
  ASSUME NEW result \in ResultType, NEW expected \in Int
  PROVE  /\ Scored(result, expected) \in ResultType
         /\ SameResult(Scored(result, expected), result)
         /\ Scored(result, expected).status = "completed"
<1>1. PICK new : new = Scored(result, expected)
  OBVIOUS
<1>2. /\ new.run = result.run /\ new.mode = result.mode /\ new.derive = result.derive
      /\ new.by = result.by /\ new.status = "completed"
  BY <1>1 DEF Scored, ResultType
<1>3. new \in ResultType
  BY <1>1 DEF Scored, ResultType
<1> QED BY <1>1, <1>2, <1>3 DEF SameResult

\* A run and a result that are accepted.
LEMMA NewType ==
  ASSUME NEW mode \in Modes, NEW run \in Nat, NEW derive \in BOOLEAN,
         NEW by \in {"suite", "correction", "original", "promotion"}
  PROVE  /\ NewRun(mode) \in RunType /\ NewRun(mode).mode = mode
         /\ NewResult(run, mode, derive, by) \in ResultType
<1>1. (mode = "multi_agent") \in BOOLEAN
  OBVIOUS
<1>2. PICK automatic \in BOOLEAN : automatic = (mode = "multi_agent")
  BY <1>1
<1>3. PICK new : new = NewResult(run, mode, derive, by)
  OBVIOUS
<1>4. new = [run |-> run, mode |-> mode, status |-> "pending", derive |-> derive, by |-> by,
             automatic |-> automatic, blocked |-> FALSE, score |-> 0]
  BY <1>2, <1>3 DEF NewResult, Empty
<1>5. new \in ResultType
  BY <1>4 DEF ResultType
<1> QED BY <1>3, <1>5 DEF NewRun, RunType

\* A list with the results there were, and perhaps the one of the promoted run.
Extends(list, r) ==
  /\ list \in Seq(ResultType)
  /\ \A i \in DOMAIN results :
       i \in DOMAIN list /\ SameResult(list[i], results[i]) /\ list[i].status = results[i].status
  /\ \A i \in DOMAIN list \ DOMAIN results :
       /\ list[i].run = r /\ list[i].mode = runs[r].mode /\ ~list[i].derive
       /\ list[i].by = "original" /\ list[i].status = "completed"

\* What becomes of the result of the promoted run.
LEMMA OriginalScored ==
  ASSUME TypeOK, NEW r \in DOMAIN runs, NEW expected \in Int
  PROVE  Extends(WithOriginal(r, expected), r)
<1>1. /\ results \in Seq(ResultType) /\ Len(results) \in Nat /\ DOMAIN results = 1..Len(results)
      /\ \A i \in DOMAIN results : results[i] \in ResultType
      /\ r \in Nat /\ runs[r] \in RunType
  BY Lists DEF TypeOK
<1>2. PICK list, same : list = WithOriginal(r, expected)
                        /\ same = {i \in DOMAIN results : results[i].run = r}
  OBVIOUS
<1>3. CASE same # {}
  <2>1. PICK k : k = Latest(same)
    OBVIOUS
  <2>2. list = [results EXCEPT ![k].score = expected]
    BY <1>2, <1>3, <2>1 DEF WithOriginal
  <2>3. /\ DOMAIN list = DOMAIN results /\ list = [i \in DOMAIN list |-> list[i]]
        /\ \A i \in DOMAIN results :
             list[i] = IF i = k THEN [results[i] EXCEPT !.score = expected] ELSE results[i]
    BY <2>2
  <2>4. \A i \in DOMAIN results :
          /\ list[i] \in ResultType /\ SameResult(list[i], results[i])
          /\ list[i].status = results[i].status
    <3> SUFFICES ASSUME NEW i \in DOMAIN results
                 PROVE  /\ list[i] \in ResultType /\ SameResult(list[i], results[i])
                        /\ list[i].status = results[i].status
      OBVIOUS
    <3>1. CASE i = k
      <4> DEFINE new == list[i]
      <4>1. PICK old \in ResultType : old = results[i]
        BY <1>1
      <4>2. new = [old EXCEPT !.score = expected]
        BY <2>3, <3>1, <4>1
      <4> HIDE DEF new
      <4>3. new \in ResultType
        BY <4>2 DEF ResultType
      <4>4. /\ new.run = old.run /\ new.mode = old.mode /\ new.derive = old.derive
            /\ new.by = old.by /\ new.status = old.status
        BY <4>2 DEF ResultType
      <4> QED BY <4>1, <4>3, <4>4 DEF SameResult, new
    <3>2. CASE i # k
      BY <1>1, <2>3, <3>2 DEF SameResult
    <3> QED BY <3>1, <3>2
  <2>5. list \in Seq(ResultType)
    BY <1>1, <2>3, <2>4, Mapped
  <2> QED BY <1>2, <2>3, <2>4, <2>5 DEF Extends
<1>4. CASE same = {}
  <2>1. PICK new : new = Scored([NewResult(r, runs[r].mode, FALSE, "original")
                                   EXCEPT !.automatic = FALSE], expected)
    OBVIOUS
  <2>2. /\ new \in ResultType /\ new.run = r /\ new.mode = runs[r].mode /\ ~new.derive
        /\ new.by = "original" /\ new.status = "completed"
    BY <1>1, <2>1 DEF Scored, NewResult, ResultType, RunType, Empty
  <2>3. list = Append(results, new)
    BY <1>2, <1>4, <2>1 DEF WithOriginal
  <2>4. /\ list \in Seq(ResultType) /\ DOMAIN list = 1..(Len(results) + 1)
        /\ \A i \in DOMAIN results : list[i] = results[i]
        /\ list[Len(results) + 1] = new
    BY <1>1, <2>2, <2>3, Appended
  <2>5. DOMAIN list \ DOMAIN results = {Len(results) + 1} /\ DOMAIN results \subseteq DOMAIN list
    BY <1>1, <2>4
  <2> QED BY <1>2, <2>2, <2>4, <2>5 DEF Extends, SameResult
<1> QED BY <1>3, <1>4

\* A promotion answers with the counterpart it has found, or queues one.
LEMMA CommitInv ==
  ASSUME IInv, NEW p \in Promoters, Commit(p)
  PROVE  IInv'
<1>1. TypeOK /\ ResultsMatch /\ PromotersKnow /\ OneCounterpart
  BY DEF IInv
<1>2. PICK r, found, mode, expected, list :
        /\ r = promoters[p].run /\ found = promoters[p].counterpart
        /\ mode = Other(runs[r].mode) /\ expected = Expected(r)
        /\ list = WithOriginal(r, expected)
  OBVIOUS
<1>3. /\ promoters[p] # Idle /\ items' = expected
      /\ IF found = 0
         THEN Accept(list, mode, mode = "multi_agent" /\ expected = Empty, "promotion")
         ELSE /\ results' = [list EXCEPT ![found] =
                    IF @.status = "completed" THEN Scored(@, expected) ELSE @]
              /\ runs' = runs
      /\ promoters' = [promoters EXCEPT ![p] = Idle]
      /\ lock' = IF lock = p THEN Free ELSE lock
      /\ scans' = scans
  BY <1>2 DEF Commit
<1>4. /\ r \in DOMAIN runs /\ lock = p
      /\ found = 0 => \A i \in DOMAIN results :
                        results[i].mode = mode => results[i].status = "failed"
  BY <1>1, <1>2, <1>3 DEF PromotersKnow
<1>5. /\ runs \in Seq(RunType) /\ Len(runs) \in Nat /\ DOMAIN runs = 1..Len(runs)
      /\ runs[r] \in RunType /\ mode \in Modes /\ mode # runs[r].mode /\ expected \in Int
  <2>1. /\ runs \in Seq(RunType) /\ Len(runs) \in Nat /\ DOMAIN runs = 1..Len(runs)
        /\ runs[r] \in RunType
    BY <1>1, <1>4, Lists DEF TypeOK
  <2>2. mode \in Modes /\ mode # runs[r].mode
    BY <1>2, <2>1 DEF Other, RunType, Modes
  <2>3. expected \in Int
    BY <1>1, <1>2, <1>4, <2>1 DEF Expected, TypeOK, Empty
  <2> QED BY <2>1, <2>2, <2>3
<1>6. Extends(list, r)
  BY <1>1, <1>2, <1>4, <1>5, OriginalScored
<1>7. /\ promoters' \in [Promoters -> [run : Nat, counterpart : Nat]]
      /\ lock' = Free /\ \A q \in Promoters : promoters'[q] = Idle
  <2>1. Idle \in [run : Nat, counterpart : Nat]
    BY DEF Idle
  <2>2. \A q \in Promoters \ {p} : promoters[q] = Idle
    BY <1>1, <1>4 DEF PromotersKnow
  <2> QED BY <1>1, <1>3, <1>4, <2>1, <2>2 DEF TypeOK
<1>8. PromotersKnow'
  BY <1>7 DEF PromotersKnow
<1>9. /\ Len(list) \in Nat /\ DOMAIN list = 1..Len(list)
      /\ \A i \in DOMAIN list : list[i] \in ResultType
  BY <1>6, LenProperties, ElementOfSeq DEF Extends
<1>10. ASSUME NEW i \in DOMAIN list
       PROVE  /\ list[i].run \in DOMAIN runs
              /\ list[i].mode = runs[list[i].run].mode
              /\ list[i].derive => list[i].mode = "multi_agent"
              /\ list[i].mode = "baseline" /\ list[i].status = "failed" =>
                   runs[list[i].run].status = "failed"
              /\ list[i].by = "promotion" => i \in DOMAIN results
  BY <1>1, <1>4, <1>6 DEF Extends, SameResult, ResultsMatch
<1>11. CASE found # 0
  <2>1. /\ DOMAIN results' = DOMAIN list
        /\ results' = [i \in DOMAIN results' |-> results'[i]]
        /\ \A i \in DOMAIN list :
             results'[i] = IF i = found /\ list[i].status = "completed"
                           THEN Scored(list[i], expected) ELSE list[i]
    BY <1>3, <1>11
  <2>2. \A i \in DOMAIN list :
          /\ results'[i] \in ResultType /\ SameResult(results'[i], list[i])
          /\ results'[i].status = list[i].status
    <3> SUFFICES ASSUME NEW i \in DOMAIN list
                 PROVE  /\ results'[i] \in ResultType /\ SameResult(results'[i], list[i])
                        /\ results'[i].status = list[i].status
      OBVIOUS
    <3>1. CASE i = found /\ list[i].status = "completed"
      BY <1>5, <1>9, <2>1, <3>1, ScoredType
    <3>2. CASE ~(i = found /\ list[i].status = "completed")
      BY <1>9, <2>1, <3>2 DEF SameResult
    <3> QED BY <3>1, <3>2
  <2>3. results' \in Seq(ResultType)
    BY <1>6, <2>1, <2>2, Mapped DEF Extends
  <2>4. runs' = runs
    BY <1>3, <1>11
  <2>5. TypeOK'
    <3>1. scans' \in [Workers -> SUBSET DOMAIN results']
      BY <1>1, <1>3, <1>6, <2>1 DEF TypeOK, Extends
    <3> QED BY <1>1, <1>3, <1>5, <1>7, <2>3, <2>4, <3>1 DEF TypeOK
  <2>6. ResultsMatch'
    BY <1>10, <2>1, <2>2, <2>4 DEF ResultsMatch, SameResult
  <2>7. OneCounterpart'
    BY <1>1, <1>6, <1>10, <2>1, <2>2 DEF OneCounterpart, SameResult, Extends
  <2> QED BY <1>8, <2>5, <2>6, <2>7 DEF IInv
<1>12. CASE found = 0
  <2>1. PICK run, new, n :
          /\ run = NewRun(mode) /\ n = Len(list) + 1
          /\ new = NewResult(Len(runs) + 1, mode, mode = "multi_agent" /\ expected = Empty,
                             "promotion")
    OBVIOUS
  <2>2. /\ run \in RunType /\ run.mode = mode
        /\ new \in ResultType /\ new.run = Len(runs) + 1 /\ new.mode = mode
        /\ new.derive => mode = "multi_agent"
        /\ new.status = "pending"
    <3>1. PICK derive \in BOOLEAN : derive = (mode = "multi_agent" /\ expected = Empty)
      OBVIOUS
    <3>2. new = NewResult(Len(runs) + 1, mode, derive, "promotion")
      BY <2>1, <3>1
    <3>3. Len(runs) + 1 \in Nat /\ mode \in Modes
      BY <1>5
    <3>4. run \in RunType /\ run.mode = mode
      BY <2>1, <3>3, NewType
    <3>5. new \in ResultType
      BY <3>2, <3>3, NewType
    <3> QED BY <3>1, <3>2, <3>4, <3>5 DEF NewResult
  <2>3. runs' = Append(runs, run) /\ results' = Append(list, new)
    BY <1>3, <1>12, <2>1 DEF Accept
  <2>4. /\ runs' \in Seq(RunType) /\ DOMAIN runs' = 1..(Len(runs) + 1)
        /\ \A i \in DOMAIN runs : runs'[i] = runs[i]
        /\ runs'[Len(runs) + 1] = run
    BY <1>5, <2>2, <2>3, Appended
  <2>5. /\ results' \in Seq(ResultType) /\ DOMAIN results' = 1..n
        /\ \A i \in DOMAIN list : results'[i] = list[i]
        /\ results'[n] = new
    <3>1. /\ results' \in Seq(ResultType) /\ DOMAIN results' = 1..(Len(list) + 1)
          /\ \A i \in DOMAIN list : results'[i] = list[i]
          /\ results'[Len(list) + 1] = new
      BY <1>6, <2>2, <2>3, Appended DEF Extends
    <3> QED BY <2>1, <3>1
  <2>6. /\ n \in Nat /\ DOMAIN results' = DOMAIN list \cup {n} /\ \A i \in DOMAIN list : i < n
        /\ Len(runs) + 1 \in DOMAIN runs' /\ DOMAIN runs \subseteq DOMAIN runs'
    BY <1>5, <1>9, <2>1, <2>4, <2>5
  <2>7. TypeOK'
    <3>1. scans' \in [Workers -> SUBSET DOMAIN results']
      BY <1>1, <1>3, <1>6, <2>6 DEF TypeOK, Extends
    <3> QED BY <1>1, <1>3, <1>5, <1>7, <2>4, <2>5, <3>1 DEF TypeOK
  <2>8. ResultsMatch'
    <3>1. ASSUME NEW i \in DOMAIN list
          PROVE  /\ results'[i].run \in DOMAIN runs'
                 /\ results'[i].mode = runs'[results'[i].run].mode
                 /\ results'[i].derive => results'[i].mode = "multi_agent"
                 /\ results'[i].mode = "baseline" /\ results'[i].status = "failed" =>
                      runs'[results'[i].run].status = "failed"
      BY <1>10, <2>4, <2>5, <2>6
    <3> QED BY <2>2, <2>4, <2>5, <2>6, <3>1 DEF ResultsMatch
  <2>9. OneCounterpart'
    <3> SUFFICES ASSUME NEW i \in DOMAIN results', NEW j \in DOMAIN results', i < j,
                        results'[i].by = "promotion", results'[j].by = "promotion",
                        results'[i].mode = results'[j].mode
                 PROVE  results'[i].status = "failed"
      BY DEF OneCounterpart
    <3>1. i \in DOMAIN list
      BY <1>9, <2>1, <2>5
    <3>2. i \in DOMAIN results /\ results'[i] = list[i]
      BY <1>10, <2>5, <3>1
    <3>3. SameResult(list[i], results[i]) /\ list[i].status = results[i].status
      BY <1>6, <3>2 DEF Extends
    <3>4. CASE j = n
      BY <1>4, <1>12, <2>2, <2>5, <3>2, <3>3, <3>4 DEF SameResult
    <3>5. CASE j # n
      <4>1. j \in DOMAIN list /\ results'[j] = list[j]
        BY <2>5, <2>6, <3>5
      <4>2. j \in DOMAIN results /\ SameResult(list[j], results[j])
        BY <1>6, <1>10, <4>1 DEF Extends
      <4> QED BY <1>1, <3>2, <3>3, <4>1, <4>2 DEF OneCounterpart, SameResult
    <3> QED BY <3>4, <3>5
  <2> QED BY <1>8, <2>7, <2>8, <2>9 DEF IInv
<1> QED BY <1>11, <1>12

\* A run ends: its results, and what is expected of baselines, follow.
LEMMA CompleteInv ==
  ASSUME IInv, NEW r \in DOMAIN runs, NEW facts \in BOOLEAN, Complete(r, facts)
  PROVE  IInv'
<1>1. /\ TypeOK /\ ResultsMatch /\ runs[r] \in RunType /\ r \in Nat
      /\ \A i \in DOMAIN results : results[i] \in ResultType
  BY Lists DEF IInv
<1>2. PICK deriving, expected :
        /\ deriving = {i \in Pending(r) : results[i].derive}
        /\ expected = IF deriving = {} THEN items ELSE r
  OBVIOUS
<1>3. /\ runs' = [runs EXCEPT ![r].status = "completed", ![r].facts = facts]
      /\ runs[r].status # "failed"
      /\ UNCHANGED <<promoters, lock, scans>>
      /\ IF deriving # {} /\ ~facts
         THEN /\ results' = [i \in DOMAIN results |->
                    IF i \in Pending(r) THEN [results[i] EXCEPT !.status = "failed"]
                    ELSE results[i]]
              /\ items' = items
         ELSE /\ items' = expected
              /\ results' = [i \in DOMAIN results |->
                    IF i \in Pending(r) \/ (deriving # {} /\ Rescored(i))
                    THEN Scored(results[i], expected) ELSE results[i]]
  BY <1>2 DEF Complete, Ends
<1>4. PICK run : run = [runs[r] EXCEPT !.status = "completed", !.facts = facts]
  OBVIOUS
<1>5. run \in RunType /\ run.mode = runs[r].mode
  BY <1>1, <1>4 DEF RunType
<1>6. runs' = [runs EXCEPT ![r] = run]
  BY <1>1, <1>3, <1>4
<1>7. runs' \in Seq(RunType) /\ RunsKept
  BY <1>1, <1>3, <1>5, <1>6, RunChanges
<1>8. expected \in Int
  BY <1>1, <1>2 DEF TypeOK
<1>9. /\ DOMAIN results' = DOMAIN results
      /\ results' = [i \in DOMAIN results' |-> results'[i]]
  BY <1>3
<1>10. ASSUME NEW i \in DOMAIN results
       PROVE  /\ results'[i] \in ResultType /\ SameResult(results'[i], results[i])
              /\ results[i].status = "failed" => results'[i].status = "failed"
              /\ results'[i].mode = "baseline" /\ results'[i].status = "failed" =>
                   runs'[results[i].run].status = "failed"
  <2>1. CASE results'[i] = results[i]
    BY <1>1, <1>7, <2>1 DEF SameResult, ResultsMatch, RunsKept
  <2>2. CASE results'[i] = Scored(results[i], expected) /\ (i \in Pending(r) \/ Rescored(i))
    <3>1. results[i].status # "failed"
      BY <1>1, <2>2 DEF Pending, Rescored, ResultsMatch
    <3> QED BY <1>1, <1>8, <2>2, <3>1, ScoredType
  <2>3. CASE /\ results'[i] = [results[i] EXCEPT !.status = "failed"]
             /\ i \in Pending(r) /\ deriving # {}
    <3>1. PICK j \in DOMAIN results : results[j].run = r /\ results[j].derive
      BY <1>2, <2>3 DEF Pending
    <3>2. results[i].run = r /\ results[i].mode = "multi_agent"
      BY <1>1, <2>3, <3>1 DEF Pending, ResultsMatch
    <3>3. results'[i] \in ResultType /\ SameResult(results'[i], results[i])
      BY <1>1, <2>3 DEF ResultType, SameResult
    <3> QED BY <2>3, <3>2, <3>3 DEF SameResult
  <2> QED BY <1>3, <2>1, <2>2, <2>3
<1>11. results' \in Seq(ResultType)
  BY <1>1, <1>9, <1>10, Mapped DEF TypeOK
<1>12. TypeOK'
  BY <1>1, <1>3, <1>7, <1>8, <1>9, <1>11 DEF TypeOK
<1>13. ResultsKept
  BY <1>9, <1>10 DEF ResultsKept
<1> QED BY <1>3, <1>7, <1>12, <1>13, KeptInv

\* A run fails, and its pending results with it.
LEMMA FailInv ==
  ASSUME IInv, NEW r \in DOMAIN runs, Fail(r)
  PROVE  IInv'
<1>1. /\ TypeOK /\ ResultsMatch /\ runs[r] \in RunType
      /\ \A i \in DOMAIN results : results[i] \in ResultType
  BY Lists DEF IInv
<1>2. /\ runs' = [runs EXCEPT ![r].status = "failed", ![r].facts = FALSE]
      /\ runs[r].status # "failed"
      /\ UNCHANGED <<items, promoters, lock, scans>>
      /\ results' = [i \in DOMAIN results |->
            IF i \in Pending(r) THEN [results[i] EXCEPT !.status = "failed"] ELSE results[i]]
  BY DEF Fail, Ends
<1>3. PICK run : run = [runs[r] EXCEPT !.status = "failed", !.facts = FALSE]
  OBVIOUS
<1>4. run \in RunType /\ run.mode = runs[r].mode /\ run.status = "failed"
  BY <1>1, <1>3 DEF RunType
<1>5. runs' = [runs EXCEPT ![r] = run]
  BY <1>1, <1>2, <1>3
<1>6. runs' \in Seq(RunType) /\ RunsKept /\ runs'[r].status = "failed"
  BY <1>1, <1>2, <1>4, <1>5, RunChanges
<1>7. /\ DOMAIN results' = DOMAIN results
      /\ results' = [i \in DOMAIN results' |-> results'[i]]
  BY <1>2
<1>8. ASSUME NEW i \in DOMAIN results
      PROVE  /\ results'[i] \in ResultType /\ SameResult(results'[i], results[i])
             /\ results[i].status = "failed" => results'[i].status = "failed"
             /\ results'[i].mode = "baseline" /\ results'[i].status = "failed" =>
                  runs'[results[i].run].status = "failed"
  <2>1. CASE i \notin Pending(r)
    BY <1>1, <1>2, <1>6, <2>1 DEF SameResult, ResultsMatch, RunsKept
  <2>2. CASE i \in Pending(r)
    <3>1. results'[i] = [results[i] EXCEPT !.status = "failed"] /\ results[i].run = r
      BY <1>2, <2>2 DEF Pending
    <3>2. /\ results'[i] \in ResultType /\ SameResult(results'[i], results[i])
          /\ results'[i].status = "failed"
      BY <1>1, <3>1 DEF ResultType, SameResult
    <3> QED BY <1>6, <3>1, <3>2
  <2> QED BY <2>1, <2>2
<1>9. results' \in Seq(ResultType)
  BY <1>1, <1>7, <1>8, Mapped DEF TypeOK
<1>10. TypeOK'
  BY <1>1, <1>2, <1>6, <1>7, <1>9 DEF TypeOK
<1>11. ResultsKept
  BY <1>7, <1>8 DEF ResultsKept
<1> QED BY <1>2, <1>6, <1>10, <1>11, KeptInv

\* What an approval scan finds, and what becomes of it.
LEMMA ScanInv ==
  ASSUME IInv, NEW w \in Workers, Scan(w)
  PROVE  IInv'
<1>1. TypeOK /\ ResultsMatch /\ PromotersKnow /\ OneCounterpart
  BY DEF IInv
<1>2. Candidates \subseteq DOMAIN results
  BY DEF Candidates
<1>3. /\ scans' = [scans EXCEPT ![w] = Candidates]
      /\ UNCHANGED <<items, runs, results, promoters, lock>>
  BY DEF Scan
<1>4. TypeOK'
  BY <1>1, <1>2, <1>3 DEF TypeOK
<1> QED BY <1>1, <1>3, <1>4 DEF IInv, ResultsMatch, PromotersKnow, OneCounterpart

\* One result of the scan is approved, blocked or skipped.
LEMMA TakesInv ==
  ASSUME IInv, NEW w \in Workers, NEW i \in scans[w],
         ApproveAutomatically(w, i) \/ Block(w, i) \/ Skip(w, i)
  PROVE  IInv'
<1>1. /\ TypeOK /\ ResultsMatch /\ PromotersKnow /\ OneCounterpart
      /\ i \in DOMAIN results
  BY DEF IInv, TypeOK
<1>2. /\ scans' = [scans EXCEPT ![w] = @ \ {i}]
      /\ UNCHANGED <<items, promoters, lock>>
  BY DEF ApproveAutomatically, Block, Skip, Takes
<1>3. scans' \in [Workers -> SUBSET DOMAIN results]
  BY <1>1, <1>2 DEF TypeOK
<1>4. CASE ApproveAutomatically(w, i)
  <2>1. /\ results' = results /\ runs[results[i].run].status = "waiting"
        /\ runs' = [runs EXCEPT ![results[i].run].status = "approved"]
    BY <1>4 DEF ApproveAutomatically, Approve
  <2>2. results[i].run \in DOMAIN runs
    BY <1>1 DEF ResultsMatch
  <2> QED BY <1>2, <1>3, <2>1, <2>2, GoesOnInv
<1>5. CASE Block(w, i)
  <2>1. results' = [results EXCEPT ![i].blocked = TRUE] /\ runs' = runs
    BY <1>5 DEF Block
  <2>2. PICK result : result = [results[i] EXCEPT !.blocked = TRUE]
    OBVIOUS
  <2>3. /\ result \in ResultType /\ SameResult(result, results[i])
        /\ result.status = results[i].status
    BY <1>1, <2>2, Lists DEF ResultType, SameResult
  <2>4. results' = [results EXCEPT ![i] = result]
    BY <2>1, <2>2
  <2>5. /\ results' \in Seq(ResultType) /\ DOMAIN results' = DOMAIN results
        /\ \A j \in DOMAIN results : results'[j] = IF j = i THEN result ELSE results[j]
    <3>1. results \in Seq(ResultType) /\ DOMAIN results = 1..Len(results)
      BY <1>1, Lists DEF TypeOK
    <3> QED BY <1>1, <2>3, <2>4, <3>1, ExceptSeq
  <2>6. TypeOK'
    BY <1>1, <1>2, <1>3, <2>1, <2>5 DEF TypeOK
  <2>7. RunsKept /\ ResultsKept
    BY <1>1, <2>1, <2>3, <2>5 DEF RunsKept, ResultsKept, SameResult, ResultsMatch
  <2> QED BY <1>2, <2>6, <2>7, KeptInv
<1>6. CASE Skip(w, i)
  <2>1. UNCHANGED <<runs, results>>
    BY <1>6 DEF Skip
  <2>2. TypeOK'
    BY <1>1, <1>2, <1>3, <2>1 DEF TypeOK
  <2> QED BY <1>1, <1>2, <2>1, <2>2 DEF IInv, ResultsMatch, PromotersKnow, OneCounterpart
<1> QED BY <1>4, <1>5, <1>6

-----------------------------------------------------------------------------
(* All of them. *)

\* There are runs that have completed, and no case.
LEMMA InitInv == Init => IInv
<1> SUFFICES ASSUME Init PROVE IInv
  OBVIOUS
<1>1. /\ items = -1 /\ results = <<>> /\ lock = Free
      /\ runs = [i \in DOMAIN Completed |->
                    [mode |-> Completed[i], status |-> "completed", facts |-> TRUE]]
      /\ promoters = [p \in Promoters |-> Idle]
      /\ scans = [w \in Workers |-> {}]
  BY DEF Init, NoCase
<1>2. /\ DOMAIN Completed = 1..Len(Completed) /\ Len(Completed) \in Nat
      /\ \A i \in DOMAIN Completed : Completed[i] \in Modes
  BY EvaluationAssumption, LenProperties, ElementOfSeq
<1>3. runs \in Seq(RunType)
  <2>1. runs \in [1..Len(Completed) -> RunType]
    BY <1>1, <1>2 DEF RunType
  <2> QED BY <1>2, <2>1, SeqDef
<1>4. results \in Seq(ResultType) /\ DOMAIN results = {}
  BY <1>1, EmptySeq
<1>5. Idle \in [run : Nat, counterpart : Nat]
  BY DEF Idle
<1>6. TypeOK
  BY <1>1, <1>3, <1>4, <1>5 DEF TypeOK
<1>7. ResultsMatch /\ PromotersKnow /\ OneCounterpart
  BY <1>1, <1>4 DEF ResultsMatch, PromotersKnow, OneCounterpart
<1> QED BY <1>6, <1>7 DEF IInv

\* Every step keeps the invariant.
LEMMA NextInv == IInv /\ [Next]_vars => IInv'
<1> SUFFICES ASSUME IInv, [Next]_vars PROVE IInv'
  OBVIOUS
<1>1. ASSUME NEW mode \in Modes, Evaluate(mode) PROVE IInv'
  BY <1>1, AcceptInv DEF Evaluate
<1>2. CASE Correct
  <2>1. "multi_agent" \in Modes
    BY DEF Modes
  <2> QED BY <1>2, <2>1, AcceptInv DEF Correct
<1>3. ASSUME NEW p \in Promoters, Commit(p) \/ \E r \in DOMAIN runs : Promote(p, r)
      PROVE  IInv'
  BY <1>3, CommitInv, PromoteInv
<1>4. ASSUME NEW r \in DOMAIN runs,
             Wait(r) \/ Decide(r) \/ Fail(r) \/ \E facts \in BOOLEAN : Complete(r, facts)
      PROVE  IInv'
  <2>1. TypeOK
    BY DEF IInv
  <2>2. CASE Wait(r)
    BY <2>1, <2>2, GoesOnInv DEF Wait, TypeOK
  <2>3. CASE Decide(r)
    BY <2>1, <2>3, GoesOnInv DEF Decide, Approve, TypeOK
  <2> QED BY <1>4, <2>2, <2>3, FailInv, CompleteInv
<1>5. CASE Change
  BY <1>5 DEF Change, IInv, TypeOK, ResultsMatch, PromotersKnow, OneCounterpart
<1>6. ASSUME NEW w \in Workers,
             Scan(w) \/ \E i \in scans[w] :
                          ApproveAutomatically(w, i) \/ Block(w, i) \/ Skip(w, i)
      PROVE  IInv'
  BY <1>6, ScanInv, TakesInv
<1>7. CASE UNCHANGED vars
  BY <1>7 DEF vars, IInv, TypeOK, ResultsMatch, PromotersKnow, OneCounterpart
<1> QED BY <1>1, <1>2, <1>3, <1>4, <1>5, <1>6, <1>7 DEF Next

\* The strengthening that closes under steps.
THEOREM Invariance == Spec => []IInv
<1> QED BY InitInv, NextInv, PTL DEF Spec

\* Promotions of one input, concurrent or repeated, share their counterpart.
THEOREM PromotionsShare == Spec => []OneCounterpart
<1>1. IInv => OneCounterpart
  BY DEF IInv
<1> QED BY <1>1, Invariance, PTL

=============================================================================
