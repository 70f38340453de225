-------------------------- MODULE Approvals_proofs --------------------------
(***************************************************************************)
(* Theorems about Approvals, for any graph with a revision policy, any     *)
(* gates and tools, and any numbers of revisions, retries and edits.       *)
(*                                                                         *)
(* The order is: the graph and its revised region; what the rows say of    *)
(* the nodes up and down the graph; jobs; the shapes of transactions (the  *)
(* run is scheduled, starts its region again, ends); one lemma per action; *)
(* and the theorems that follow from IInv.                                 *)
(***************************************************************************)
EXTENDS Approvals, SequenceTheorems, FiniteSetTheorems, WellFoundedInduction, TLAPS

-----------------------------------------------------------------------------
(* Positions and lists. *)

\* A set of naturals that is not empty has a first one.
LEMMA FirstExists ==
  ASSUME NEW n \in Nat, NEW S \in SUBSET (0..n), S # {}
  PROVE  \E m \in S : \A j \in S : m <= j
<1> DEFINE R == {p \in Nat \X Nat : p[1] < p[2]}
<1>1. IsWellFoundedOn(R, Nat)
  BY NatLessThanWellFounded, Zenon DEF OpToRel
<1>2. PICK m \in S : \A j \in S : <<j, m>> \notin R
  <2> HIDE DEF R
  <2> QED BY <1>1, WFMin, \A k \in S : k \in Nat
<1>3. ASSUME NEW j \in S, j < m PROVE FALSE
  <2>1. <<j, m>> \in Nat \X Nat /\ <<j, m>>[1] < <<j, m>>[2]
    BY <1>3
  <2> QED BY <2>1, <1>2, Zenon
<1> QED BY <1>3

\* A set of positions that is not empty has a last one.
LEMMA LastExists ==
  ASSUME NEW n \in Nat, NEW S \in SUBSET (1..n), S # {}
  PROVE  \E m \in S : \A j \in S : j <= m
<1> DEFINE D == {n - m : m \in S}
<1>1. D # {} /\ D \in SUBSET (0..n)
  <2>1. \A m \in S : n - m \in 0..n
    OBVIOUS
  <2> QED BY <2>1
<1>2. PICK d \in D : \A e \in D : d <= e
  <2> HIDE DEF D
  <2> QED BY <1>1, FirstExists
<1>3. PICK m \in S : d = n - m
  BY <1>2
<1>4. ASSUME NEW j \in S PROVE j <= m
  <2>1. n - j \in D
    OBVIOUS
  <2> QED BY <1>2, <1>3, <2>1
<1> QED BY <1>3, <1>4

\* A list with one more element.
LEMMA Appended ==
  ASSUME NEW S, NEW list \in Seq(S), NEW e \in S, NEW new, new = Append(list, e)
  PROVE  /\ new \in Seq(S) /\ Len(list) \in Nat /\ Len(new) = Len(list) + 1
         /\ DOMAIN list = 1..Len(list) /\ DOMAIN new = 1..(Len(list) + 1)
         /\ \A i \in DOMAIN list : new[i] = list[i]
         /\ new[Len(list) + 1] = e
<1>1. Len(list) \in Nat /\ DOMAIN list = 1..Len(list)
  BY LenProperties
<1>2. /\ new \in Seq(S) /\ Len(new) = Len(list) + 1
      /\ \A i \in 1..Len(list) : new[i] = list[i]
      /\ new[Len(list) + 1] = e
  BY AppendProperties
<1>3. DOMAIN new = 1..Len(new)
  BY <1>2, LenProperties
<1> QED BY <1>1, <1>2, <1>3

\* A list whose elements are changed one by one remains a list.
LEMMA Mapped ==
  ASSUME NEW S, NEW list \in Seq(S), NEW new, DOMAIN new = DOMAIN list,
         new = [i \in DOMAIN new |-> new[i]], \A i \in DOMAIN list : new[i] \in S
  PROVE  new \in Seq(S)
<1>1. DOMAIN list = 1..Len(list) /\ Len(list) \in Nat
  BY LenProperties
<1>2. new \in [1..Len(list) -> S]
  BY <1>1
<1> QED BY <1>1, <1>2, SeqDef

-----------------------------------------------------------------------------
(* The graph. *)

LEMMA GraphFacts ==
  /\ LastNode \in Nat /\ Nodes \subseteq Nat
  /\ \A e \in Edges : e \in Nodes \X Nodes /\ e[1] \in Nodes /\ e[2] \in Nodes /\ e[1] < e[2]
  /\ Entry \in Nodes /\ EntryNode \in Nodes /\ ReviewNode \in Nodes /\ Gates \subseteq Nodes
<1>1. LastNode \in Nat \ {0} /\ Nodes \subseteq Nat
  BY GraphAssumption DEF Nodes
<1>2. Entry \in Nodes
  BY <1>1 DEF Entry, Nodes
<1>3. \A e \in Edges : e \in Nodes \X Nodes /\ e[1] < e[2]
  BY GraphAssumption
<1> QED BY <1>1, <1>2, <1>3, GraphAssumption

\* A set of nodes that is not empty has a first and a last one.
LEMMA FirstNode ==
  ASSUME NEW S \in SUBSET Nodes, S # {}
  PROVE  \E m \in S : \A n \in S : m <= n
<1>1. LastNode \in Nat /\ S \in SUBSET (0..LastNode)
  BY GraphFacts DEF Nodes
<1> QED BY <1>1, FirstExists

LEMMA FinalNode ==
  ASSUME NEW S \in SUBSET Nodes, S # {}
  PROVE  \E m \in S : \A n \in S : n <= m
<1>1. LastNode \in Nat /\ S \in SUBSET (1..LastNode)
  BY GraphFacts DEF Nodes
<1> QED BY <1>1, LastExists

\* Two Booleans that imply each other are one.
LEMMA SameTruth ==
  ASSUME NEW a \in BOOLEAN, NEW b \in BOOLEAN, a <=> b
  PROVE  a = b
  OBVIOUS

\* There is a function that tells which nodes a relation leads from to a root:
\* the largest set of nodes that lead to it or to one another.
LEMMA LeadingExists ==
  ASSUME NEW root, NEW R
  PROVE  \E P \in SUBSET Nodes :
           \A m \in Nodes : m \in P <=> m = root \/ \E n \in P : <<m, n>> \in R
<1> DEFINE Leads(S, m) == m = root \/ \E n \in S : <<m, n>> \in R
           Consistent == {S \in SUBSET Nodes : \A m \in S : Leads(S, m)}
           P == UNION Consistent
<1>1. P \subseteq Nodes
  OBVIOUS
<1>2. ASSUME NEW m \in P PROVE Leads(P, m)
  <2>1. PICK S \in Consistent : m \in S
    OBVIOUS
  <2>2. S \subseteq P
    OBVIOUS
  <2> QED BY <2>1, <2>2
<1>3. ASSUME NEW m \in Nodes, Leads(P, m) PROVE m \in P
  <2>1. \A k \in P \cup {m} : Leads(P \cup {m}, k)
    BY <1>2, <1>3
  <2>2. P \cup {m} \in Consistent
    BY <1>1, <2>1
  <2>3. P \cup {m} \subseteq P
    BY <2>2
  <2> QED BY <2>3
<1>4. \A m \in Nodes : m \in P <=> m = root \/ \E n \in P : <<m, n>> \in R
  <2> HIDE DEF P
  <2> QED BY <1>2, <1>3
<1> HIDE DEF P
<1> QED BY <1>1, <1>4

\* Before(n) has n and all from which an edge leads into it.
LEMMA BeforeEquation ==
  ASSUME NEW n \in Nodes, NEW m \in Nodes
  PROVE  m \in Before(n) <=> m = n \/ \E e \in Edges : e[1] = m /\ e[2] \in Before(n)
<1> DEFINE Body(f) == [k \in Nodes |-> k = n \/ \E e \in Edges : e[1] = k /\ f[e[2]]]
           leads == CHOOSE f : f = Body(f)
<1>1. PICK P \in SUBSET Nodes :
        \A k \in Nodes : k \in P <=> k = n \/ \E l \in P : <<k, l>> \in Edges
  BY LeadingExists
<1>2. \E f : f = Body(f)
  <2> DEFINE f == [k \in Nodes |-> k \in P]
  <2>1. \A k \in Nodes : f[k] <=> k \in P
    OBVIOUS
  <2>2. \A k \in Nodes : k \in P <=> k = n \/ \E e \in Edges : e[1] = k /\ f[e[2]]
    <3>1. ASSUME NEW k \in Nodes
          PROVE (\E l \in P : <<k, l>> \in Edges) <=> \E e \in Edges : e[1] = k /\ e[2] \in P
      <4>1. \A e \in Edges : e = <<e[1], e[2]>>
        BY GraphFacts
      <4> QED BY <4>1
    <3>2. \A e \in Edges : f[e[2]] <=> e[2] \in P
      BY <2>1, GraphFacts
    <3> HIDE DEF f
    <3> QED BY <1>1, <3>1, <3>2
  <2>3. ASSUME NEW k \in Nodes PROVE f[k] = Body(f)[k]
    <3>1. f[k] \in BOOLEAN /\ Body(f)[k] \in BOOLEAN
      OBVIOUS
    <3>2. Body(f)[k] <=> k = n \/ \E e \in Edges : e[1] = k /\ f[e[2]]
      OBVIOUS
    <3>3. f[k] <=> Body(f)[k]
      BY <2>1, <2>2, <3>2
    <3> HIDE DEF f, Body
    <3> QED BY <3>1, <3>3, SameTruth
  <2>4. f = [k \in Nodes |-> f[k]] /\ Body(f) = [k \in Nodes |-> Body(f)[k]]
    OBVIOUS
  <2>5. f = Body(f)
    <3> HIDE DEF f, Body
    <3> QED BY <2>3, <2>4
  <2> HIDE DEF f, Body
  <2> QED BY <2>5
<1>3. leads = Body(leads)
  <2> HIDE DEF Body
  <2> QED BY <1>2
<1>4. Before(n) = {k \in Nodes : leads[k]}
  BY DEF Before
<1> HIDE DEF leads
<1>5. \A k \in Nodes : leads[k] <=> k = n \/ \E e \in Edges : e[1] = k /\ leads[e[2]]
  BY <1>3
<1> QED BY <1>4, <1>5, GraphFacts

\* Affected has the entry of the region and all that an edge leads to from it.
LEMMA AffectedEquation ==
  ASSUME NEW m \in Nodes
  PROVE  m \in Affected <=> m = EntryNode \/ \E e \in Edges : e[2] = m /\ e[1] \in Affected
<1> DEFINE Body(f) == [k \in Nodes |-> k = EntryNode \/ \E e \in Edges : e[2] = k /\ f[e[1]]]
           reached == CHOOSE f : f = Body(f)
           Backwards == {<<e[2], e[1]>> : e \in Edges}
<1>1. PICK P \in SUBSET Nodes :
        \A k \in Nodes : k \in P <=> k = EntryNode \/ \E l \in P : <<k, l>> \in Backwards
  <2> HIDE DEF Backwards
  <2> QED BY LeadingExists
<1>2. \E f : f = Body(f)
  <2> DEFINE f == [k \in Nodes |-> k \in P]
  <2>1. \A k \in Nodes : f[k] <=> k \in P
    OBVIOUS
  <2>2. \A k \in Nodes : k \in P <=> k = EntryNode \/ \E e \in Edges : e[2] = k /\ f[e[1]]
    <3>1. ASSUME NEW k \in Nodes
          PROVE (\E l \in P : <<k, l>> \in Backwards) <=> \E e \in Edges : e[2] = k /\ e[1] \in P
      OBVIOUS
    <3>2. \A e \in Edges : f[e[1]] <=> e[1] \in P
      BY <2>1, GraphFacts
    <3> HIDE DEF f, Backwards
    <3> QED BY <1>1, <3>1, <3>2
  <2>3. ASSUME NEW k \in Nodes PROVE f[k] = Body(f)[k]
    <3>1. f[k] \in BOOLEAN /\ Body(f)[k] \in BOOLEAN
      OBVIOUS
    <3>2. Body(f)[k] <=> k = EntryNode \/ \E e \in Edges : e[2] = k /\ f[e[1]]
      OBVIOUS
    <3>3. f[k] <=> Body(f)[k]
      BY <2>1, <2>2, <3>2
    <3> HIDE DEF f, Body
    <3> QED BY <3>1, <3>3, SameTruth
  <2>4. f = [k \in Nodes |-> f[k]] /\ Body(f) = [k \in Nodes |-> Body(f)[k]]
    OBVIOUS
  <2>5. f = Body(f)
    <3> HIDE DEF f, Body
    <3> QED BY <2>3, <2>4
  <2> HIDE DEF f, Body
  <2> QED BY <2>5
<1>3. reached = Body(reached)
  <2> HIDE DEF Body
  <2> QED BY <1>2
<1>4. Affected = {k \in Nodes : reached[k]}
  BY DEF Affected
<1> HIDE DEF reached
<1>5. \A k \in Nodes : reached[k] <=> k = EntryNode \/ \E e \in Edges : e[2] = k /\ reached[e[1]]
  BY <1>3
<1> QED BY <1>4, <1>5, GraphFacts

\* Nothing on the way is missed: an edge into Before(n) starts in it, and each
\* of its nodes but n has such an edge.
LEMMA BeforeSteps ==
  ASSUME NEW n \in Nodes
  PROVE  /\ Before(n) \subseteq Nodes /\ n \in Before(n)
         /\ \A e \in Edges : e[2] \in Before(n) => e[1] \in Before(n)
         /\ \A m \in Before(n) \ {n} : \E e \in Edges : e[1] = m /\ e[2] \in Before(n)
<1>1. Before(n) \subseteq Nodes
  BY DEF Before
<1>2. n \in Before(n)
  BY BeforeEquation
<1>3. ASSUME NEW e \in Edges, e[2] \in Before(n) PROVE e[1] \in Before(n)
  BY <1>3, BeforeEquation, GraphFacts
<1>4. ASSUME NEW m \in Before(n) \ {n} PROVE \E e \in Edges : e[1] = m /\ e[2] \in Before(n)
  BY <1>1, <1>4, BeforeEquation
<1> QED BY <1>1, <1>2, <1>3, <1>4

LEMMA AffectedSteps ==
  /\ Affected \subseteq Nodes /\ EntryNode \in Affected
  /\ \A e \in Edges : e[1] \in Affected => e[2] \in Affected
  /\ \A m \in Affected \ {EntryNode} : \E e \in Edges : e[2] = m /\ e[1] \in Affected
<1>1. Affected \subseteq Nodes
  BY DEF Affected
<1>2. EntryNode \in Affected
  BY AffectedEquation, GraphFacts
<1>3. ASSUME NEW e \in Edges, e[1] \in Affected PROVE e[2] \in Affected
  BY <1>3, AffectedEquation, GraphFacts
<1>4. ASSUME NEW m \in Affected \ {EntryNode}
      PROVE  \E e \in Edges : e[2] = m /\ e[1] \in Affected
  BY <1>1, <1>4, AffectedEquation
<1> QED BY <1>1, <1>2, <1>3, <1>4

\* What a revision reaches it passes on: the affected node closest to n can
\* only be n.
LEMMA AffectedAbove ==
  ASSUME NEW n \in Nodes, NEW m \in Before(n), m \in Affected
  PROVE  n \in Affected
<1> DEFINE Way == Affected \cap Before(n)
<1>1. PICK k \in Way : \A l \in Way : l <= k
  <2>1. Way \in SUBSET Nodes /\ Way # {}
    BY AffectedSteps
  <2> HIDE DEF Way
  <2> QED BY <2>1, FinalNode
<1>2. CASE k # n
  <2>1. PICK e \in Edges : e[1] = k /\ e[2] \in Before(n)
    BY <1>1, <1>2, BeforeSteps
  <2>2. e[2] \in Way
    BY <1>1, <2>1, AffectedSteps
  <2>3. e[2] <= e[1] /\ e[1] < e[2] /\ e[1] \in Nat /\ e[2] \in Nat
    BY <1>1, <2>1, <2>2, GraphFacts
  <2> QED BY <2>3
<1> QED BY <1>1, <1>2

\* No edge leads into the entry of the region from what it affects.
LEMMA EntryIsFirst ==
  ASSUME NEW e \in Edges, e[2] = EntryNode
  PROVE  e[1] \notin Affected
<1>1. PICK m \in Affected : \A n \in Affected : m <= n
  BY AffectedSteps, FirstNode
<1>2. m = EntryNode
  <2> SUFFICES ASSUME m # EntryNode PROVE FALSE
    OBVIOUS
  <2>1. PICK d \in Edges : d[2] = m /\ d[1] \in Affected
    BY AffectedSteps
  <2>2. d[2] <= d[1] /\ d[1] < d[2] /\ d[1] \in Nat /\ d[2] \in Nat
    BY <1>1, <2>1, GraphFacts
  <2> QED BY <2>2
<1>3. e[1] < EntryNode /\ e[1] \in Nat /\ EntryNode \in Nat
  BY GraphFacts
<1> QED BY <1>1, <1>2, <1>3

\* The revised region, its review and its gate.
LEMMA RegionFacts ==
  /\ Revised \subseteq Affected /\ EntryNode \in Revised /\ ReviewNode \in Revised
  /\ ReviewNode \notin Gates /\ ApprovalNode \in Gates /\ ApprovalNode \in Affected
  /\ ApprovalNode \notin Revised /\ Revised \cap Gates = {}
  /\ <<ReviewNode, ApprovalNode>> \in Edges
  /\ \A e \in Edges : e[1] = ReviewNode <=> e[2] = ApprovalNode
<1>1. ReviewNode \in Nodes /\ EntryNode \in Nodes
  BY GraphFacts
<1>2. /\ EntryNode \in Before(ReviewNode)
      /\ ApprovalNode \in Gates /\ Gates \cap Revised = {} /\ <<ReviewNode, ApprovalNode>> \in Edges
      /\ \A e \in Edges : e[1] = ReviewNode <=> e[2] = ApprovalNode
  BY PolicyAssumption DEF ClosedRevision, GateFollowsReview
<1>3. EntryNode \in Revised /\ ReviewNode \in Revised
  BY <1>1, <1>2, BeforeSteps DEF Revised
<1>4. ASSUME NEW n \in Revised PROVE n \in Affected
  <2>1. n \in Nodes /\ EntryNode \in Before(n)
    BY <1>1, BeforeSteps DEF Revised
  <2> QED BY <2>1, AffectedAbove, AffectedSteps
<1>5. ApprovalNode \in Affected
  BY <1>2, <1>3, <1>4, AffectedSteps
<1> QED BY <1>2, <1>3, <1>4, <1>5

\* What a revision affects outside of its region lies behind the gate.
LEMMA BehindGate ==
  ASSUME NEW n \in Affected \ Revised, n # ApprovalNode
  PROVE  \E e \in Edges : e[2] = n /\ e[1] \in Affected \ Revised
<1>1. n # EntryNode
  BY RegionFacts
<1>2. PICK e \in Edges : e[2] = n /\ e[1] \in Affected
  BY <1>1, AffectedSteps
<1>3. CASE e[1] \in Revised
  <2>1. e[1] = ReviewNode
    BY <1>2, <1>3, PolicyAssumption DEF ClosedRevision
  <2> QED BY <1>2, <2>1, RegionFacts
<1> QED BY <1>2, <1>3

-----------------------------------------------------------------------------
(* Rows. *)

RowsTyped ==
  /\ quality \in [iteration : 0..MaxRevisions, human : 0..MaxReviewRetries[ApprovalNode]]
  /\ retries \in [Gates -> Nat] /\ \A n \in Gates : retries[n] <= MaxReviewRetries[n]
  /\ steps \in [Nodes -> StepType]
  /\ edges \subseteq Edges
  /\ approvals \in Seq(ApprovalType)
RunType == [status : {"pending", "running", "waiting"} \cup Terminal, late : BOOLEAN]
JobType == [node : Nodes, iteration : Nat]

LEMMA TypedParts ==
  TypeOK <=> run \in RunType /\ RowsTyped /\ jobs \subseteq JobType
BY DEF TypeOK, RowsTyped, RunType, JobType

\* The numbers in the rows are numbers.
LEMMA RowNumbers ==
  ASSUME RowsTyped
  PROVE  /\ quality.iteration \in Nat /\ quality.human \in Nat
         /\ \A n \in Nodes : IterationIn(quality, n) \in Nat
         /\ \A n \in Nodes : steps[n] \in StepType /\ steps[n].iteration \in Nat
                             /\ steps[n].output \in Nat
<1>1. 0..MaxRevisions \subseteq Nat /\ 0..MaxReviewRetries[ApprovalNode] \subseteq Nat
  BY BoundAssumption, RegionFacts
<1>2. quality.iteration \in Nat /\ quality.human \in Nat
  BY <1>1 DEF RowsTyped
<1>3. \A n \in Nodes : steps[n] \in StepType
  BY DEF RowsTyped
<1> QED BY <1>2, <1>3 DEF IterationIn, StepType

\* A row counts or is none.
LEMMA CurrentCases ==
  ASSUME NEW n \in Nodes
  PROVE  /\ steps[n].iteration >= IterationIn(quality, n) => Current(n) = steps[n]
         /\ ~(steps[n].iteration >= IterationIn(quality, n)) => Current(n) = NoStep
         /\ Current(n).status # "absent" =>
              Current(n) = steps[n] /\ steps[n].iteration >= IterationIn(quality, n)
         /\ Current(n).output # 0 => Current(n).status # "absent" \/ steps[n].status = "absent"
BY DEF Current, Row, NoStep

\* Where the run has been it has come from: nodes before one that counts have
\* completed and lead on.
LEMMA Reached ==
  ASSUME Grounded, NEW n \in Nodes, Current(n).status # "absent",
         NEW m \in Before(n) \ {n}
  PROVE  Current(m).status = "completed" /\ \E e \in edges : e[1] = m
<1> DEFINE Bad == {k \in Before(n) \ {n} : ~ \E e \in edges : e[1] = k}
<1>1. CASE Bad # {}
  <2>1. Bad \in SUBSET Nodes
    BY BeforeSteps
  <2>2. PICK k \in Bad : \A l \in Bad : l <= k
    <3> HIDE DEF Bad
    <3> QED BY <1>1, <2>1, FinalNode
  <2>3. PICK e \in Edges : e[1] = k /\ e[2] \in Before(n)
    BY <2>2, BeforeSteps
  <2>4. e[1] < e[2] /\ e[1] \in Nat /\ e[2] \in Nat /\ e[2] \in Nodes
    BY <2>3, GraphFacts
  <2>5. e[2] \notin Bad
    <3> HIDE DEF Bad
    <3> QED BY <2>2, <2>3, <2>4
  <2>6. Current(e[2]).status # "absent"
    <3>1. CASE e[2] = n
      BY <3>1
    <3>2. CASE e[2] # n
      <4>1. PICK d \in edges : d[1] = e[2]
        BY <2>3, <2>5, <3>2
      <4> QED BY <4>1 DEF Grounded
    <3> QED BY <3>1, <3>2
  <2>7. e \in edges
    BY <2>4, <2>6 DEF Grounded
  <2> QED BY <2>2, <2>3, <2>7
<1>2. CASE Bad = {}
  BY <1>2 DEF Grounded
<1> QED BY <1>1, <1>2

\* Behind a gate that has not been passed nothing is ready or counts.
LEMMA NothingBehind ==
  ASSUME Grounded, Current(ApprovalNode).status # "completed",
         NEW n \in Affected \ Revised, n # ApprovalNode
  PROVE  /\ \E e \in Edges : e[2] = n /\ e \notin edges
         /\ Current(n).status = "absent"
<1> DEFINE Bad == {k \in Affected \ Revised :
                     k # ApprovalNode /\ \A e \in Edges : e[2] = k => e \in edges}
<1>1. CASE Bad # {}
  <2>1. Bad \in SUBSET Nodes
    BY AffectedSteps
  <2>2. PICK k \in Bad : \A l \in Bad : k <= l
    <3> HIDE DEF Bad
    <3> QED BY <1>1, <2>1, FirstNode
  <2>3. PICK e \in Edges : e[2] = k /\ e[1] \in Affected \ Revised
    BY <2>2, BehindGate
  <2>4. e[1] < e[2] /\ e[1] \in Nat /\ e[2] \in Nat /\ e[1] \in Nodes
    BY <2>3, GraphFacts
  <2>5. e \in edges
    BY <2>2, <2>3
  <2>6. Current(e[1]).status = "completed"
    BY <2>5 DEF Grounded
  <2>7. e[1] \in Bad
    BY <2>3, <2>4, <2>6 DEF Grounded
  <2>8. k <= e[1]
    <3> HIDE DEF Bad
    <3> QED BY <2>2, <2>7
  <2> QED BY <2>3, <2>4, <2>8
<1>2. CASE Bad = {}
  <2>1. PICK e \in Edges : e[2] = n /\ e \notin edges
    BY <1>2
  <2> QED BY <2>1, AffectedSteps DEF Grounded
<1> QED BY <1>1, <1>2

\* The iterations in which what runs belongs to the node.
LEMMA GoesOnNow ==
  ASSUME RowsTyped, StepsFit, NEW n \in Nodes, steps[n].status \in Unfinished
  PROVE  Current(n) = steps[n] /\ steps[n].iteration >= IterationIn(quality, n)
BY CurrentCases DEF StepsFit

\* A node that may change: it is reached and has not led on.
Movable(n) ==
  /\ \A e \in edges : e[1] # n
  /\ \A e \in Edges : e[2] = n => e \in edges

LEMMA UnfinishedIsMovable ==
  ASSUME RowsTyped, StepsFit, Grounded, NEW n \in Nodes, steps[n].status \in Unfinished
  PROVE  Movable(n)
<1>1. Current(n).status = steps[n].status /\ steps[n].status \notin {"absent", "completed"}
  BY GoesOnNow DEF Unfinished
<1> QED BY <1>1 DEF Movable, Grounded

\* Why there is a job: its node is ready, is put to the reviewers again or runs.
LEMMA JobCases ==
  ASSUME IInv, NEW j \in jobs
  PROVE  /\ Live /\ j.node \in Nodes /\ j.iteration \in Nat
         /\ j = [node |-> j.node, iteration |-> j.iteration]
         /\ \/ /\ j.node \in Ready(quality, steps, edges)
               /\ j.iteration = IterationIn(quality, j.node)
               /\ j \in NeedJob(quality, retries, steps, edges)
            \/ /\ j.node \in Gates /\ retries[j.node] > 0 /\ j.iteration = retries[j.node]
               /\ j \in NeedJob(quality, retries, steps, edges)
            \/ /\ steps[j.node].status = "running" /\ j.iteration = steps[j.node].iteration
               /\ j.iteration = IterationIn(quality, j.node)
<1>1. Live /\ WorkResumed
  BY DEF IInv, JobsFit
<1>2. j \in [node : Nodes, iteration : Nat]
  BY DEF IInv, TypeOK
<1>3. CASE j \in NeedJob(quality, retries, steps, edges)
  <2>1. CASE \E n \in Ready(quality, steps, edges) :
               j = [node |-> n, iteration |-> IterationIn(quality, n)]
    BY <1>1, <1>2, <1>3, <2>1
  <2>2. CASE \E n \in Gates : retries[n] > 0 /\ j = [node |-> n, iteration |-> retries[n]]
    BY <1>1, <1>2, <1>3, <2>2
  <2> QED BY <1>3, <2>1, <2>2 DEF NeedJob
<1>4. CASE j \notin NeedJob(quality, retries, steps, edges)
  BY <1>1, <1>2, <1>4 DEF WorkResumed
<1> QED BY <1>3, <1>4

\* What a job is for may change, and in a gate begins a new iteration.
LEMMA NodeOfJob ==
  ASSUME IInv, NEW j \in jobs
  PROVE  /\ Movable(j.node)
         /\ j.iteration >= IterationIn(quality, j.node)
         /\ j.node \notin Gates \ {ApprovalNode} => j.iteration <= IterationIn(quality, j.node)
         /\ j.node \in Gates => \/ steps[j.node].status = "absent"
                                \/ steps[j.node].iteration < j.iteration
         /\ steps[j.node].status # "waiting"
<1> DEFINE n == j.node
<1>1. /\ n \in Nodes /\ j.iteration \in Nat /\ RowsTyped /\ StepsFit /\ Grounded
      /\ ProceedsAsApproved /\ RetriesFit
  BY JobCases, TypedParts DEF IInv, RowsFit, JobsFit
<1>2. IterationIn(quality, n) \in Nat /\ steps[n] \in StepType /\ steps[n].iteration \in Nat
  BY <1>1, RowNumbers
<1> HIDE DEF n
<1>3. CASE n \in Ready(quality, steps, edges) /\ j.iteration = IterationIn(quality, n)
  <2>1. Current(n).status = "absent" /\ \A e \in Edges : e[2] = n => e \in edges
    BY <1>3 DEF Ready, Absent, Current
  <2>2. Movable(n)
    BY <1>1, <2>1 DEF Movable, Grounded
  <2>3. steps[n].status = "absent" \/ steps[n].iteration < j.iteration
    BY <1>1, <1>2, <1>3, <2>1, CurrentCases
  <2>4. steps[n].status # "waiting"
    BY <1>1, <2>1, GoesOnNow DEF Unfinished
  <2> QED BY <1>2, <1>3, <2>2, <2>3, <2>4 DEF n
<1>4. CASE n \in Gates /\ retries[n] > 0 /\ j.iteration = retries[n]
  <2>1. /\ n # ApprovalNode /\ steps[n].status = "completed" /\ steps[n].output = 0
        /\ steps[n].iteration >= IterationIn(quality, n)
        /\ j.iteration = steps[n].iteration + 1
    BY <1>1, <1>4 DEF RetriesFit
  <2>2. Current(n).status # "absent"
    BY <1>1, <2>1, CurrentCases
  <2>3. ASSUME NEW e \in edges, e[1] = n PROVE FALSE
    <3>1. 0 \in DOMAIN approvals
      BY <1>1, <1>4, <2>1, <2>3 DEF ProceedsAsApproved, PassedOn
    <3> QED BY <1>1, <3>1, LenProperties DEF RowsTyped
  <2>4. Movable(n)
    BY <1>1, <2>2, <2>3 DEF Movable, Grounded
  <2> QED BY <1>2, <1>4, <2>1, <2>4 DEF n
<1>5. CASE steps[n].status = "running" /\ j.iteration = IterationIn(quality, n)
  <2>1. n \notin Gates
    BY <1>1, <1>5 DEF StepsFit
  <2> QED BY <1>1, <1>2, <1>5, <2>1, UnfinishedIsMovable DEF Unfinished, n
<1> QED BY <1>3, <1>4, <1>5, JobCases DEF n

\* No node has two jobs.
LEMMA SameNodeSameJob ==
  ASSUME IInv, NEW j \in jobs, NEW k \in jobs, j.node = k.node
  PROVE  j = k
<1>1. RowsTyped /\ StepsFit /\ RetriesFit
  BY JobCases, TypedParts DEF IInv, RowsFit, JobsFit
<1>2. j.node \in Nodes /\ steps[j.node] \in StepType
  BY <1>1, JobCases, RowNumbers
<1>3. j.node \in Ready(quality, steps, edges) => Current(j.node).status = "absent"
  BY DEF Ready, Absent, Current
<1>4. steps[j.node].status = "running" => Current(j.node).status = "running" /\ j.node \notin Gates
  BY <1>1, <1>2, GoesOnNow DEF Unfinished, StepsFit
<1>5. j.node \in Gates /\ retries[j.node] > 0 => Current(j.node).status = "completed"
  BY <1>1, <1>2, CurrentCases DEF RetriesFit
<1>6. j.iteration = k.iteration
  BY <1>3, <1>4, <1>5, JobCases
<1> QED BY <1>6, JobCases

-----------------------------------------------------------------------------
(* Transactions that leave the iteration as it is. *)

\* A gate, its approvals and its output agree.
Passed(g) == \E e \in edges : e[1] = g
GateFits(g) ==
  /\ WaitMatches(g)
  /\ \A k \in DOMAIN approvals : approvals[k].node = g => ApprovalFits(k)
  /\ Passed(g) => PassedOn(g, steps[g].output)

LEMMA GatesOfRows ==
  ASSUME RowsTyped, RowsFit, NEW g \in Gates
  PROVE  GateFits(g)
BY DEF RowsFit, ProceedsAsApproved, GateFits, Passed

\* What a node may become.
RowFits(n, row) ==
  /\ row.status # "absent" /\ row.iteration >= IterationIn(quality, n)
  /\ row.status = "waiting" => n \in Gates
  /\ row.status = "running" => n \notin Gates
  /\ n \notin Gates \ {ApprovalNode} => row.iteration <= IterationIn(quality, n)
Acts(n, k) ==
  \/ k \in {0, Current(n).output}
  \/ steps[ToolGate[n]].output = k /\ Passed(ToolGate[n])
Moves(n) ==
  /\ Movable(n) /\ RowFits(n, steps'[n])
  /\ n \in Tools => Acts(n, steps'[n].output)

LEMMA RowsMoved ==
  ASSUME RowsTyped, RowsFit, RowsTyped', quality' = quality,
         edges \subseteq edges',
         \A n \in Nodes : steps'[n] = steps[n] \/ Moves(n),
         \A e \in edges' \ edges :
           /\ steps'[e[1]].status = "completed"
           /\ steps'[e[1]].iteration >= IterationIn(quality, e[1]),
         \A g \in Gates : GateFits(g)'
  PROVE  RowsFit'
<1>1. StepsFit /\ Grounded /\ ProceedsAsApproved
  BY DEF RowsFit
<1>2. \A n : IterationIn(quality, n)' = IterationIn(quality, n)
  BY DEF IterationIn
<1>3. StepsFit'
  <2> SUFFICES ASSUME NEW n \in Nodes
               PROVE  /\ steps'[n].status = "absent" => steps'[n] = NoStep
                      /\ steps'[n].status \in Unfinished =>
                           steps'[n].iteration >= IterationIn(quality, n)
                      /\ steps'[n].status = "waiting" => n \in Gates
                      /\ steps'[n].status = "running" => n \notin Gates
                      /\ n \notin Gates \ {ApprovalNode} =>
                           steps'[n].iteration <= IterationIn(quality, n)
    BY <1>2 DEF StepsFit
  <2>1. CASE steps'[n] = steps[n]
    BY <1>1, <2>1 DEF StepsFit
  <2>2. CASE RowFits(n, steps'[n])
    BY <2>2 DEF RowFits
  <2> QED BY <2>1, <2>2 DEF Moves
<1>4. ASSUME NEW n \in Nodes, steps'[n] = steps[n] PROVE Current(n)' = Current(n)
  BY <1>2, <1>4 DEF Current, Row
<1>5. ASSUME NEW n \in Nodes, steps'[n].iteration >= IterationIn(quality, n)
      PROVE  Current(n)' = steps'[n]
  BY <1>2, <1>5 DEF Current, Row
<1>6. \A e \in edges' : e \in Edges /\ e[1] \in Nodes /\ e[2] \in Nodes
  BY GraphFacts DEF RowsTyped
<1>7. Grounded'
  <2>1. ASSUME NEW e \in edges' PROVE Current(e[1])'.status = "completed"
    <3>1. CASE e \in edges
      <4>1. steps'[e[1]] = steps[e[1]]
        BY <1>6, <2>1, <3>1 DEF Moves, Movable
      <4> QED BY <1>1, <1>4, <1>6, <2>1, <3>1, <4>1 DEF Grounded
    <3>2. CASE e \notin edges
      BY <1>5, <1>6, <2>1, <3>2
    <3> QED BY <3>1, <3>2
  <2>2. ASSUME NEW n \in Nodes, Current(n)'.status # "absent", NEW e \in Edges, e[2] = n
        PROVE  e \in edges'
    <3>1. CASE steps'[n] = steps[n]
      BY <1>1, <1>4, <2>2, <3>1 DEF Grounded
    <3>2. CASE Movable(n)
      BY <2>2, <3>2 DEF Movable
    <3> QED BY <3>1, <3>2 DEF Moves
  <2> QED BY <2>1, <2>2 DEF Grounded
<1>8. /\ \A k \in DOMAIN approvals' : ApprovalFits(k)'
      /\ \A g \in Gates : WaitMatches(g)'
      /\ \A e \in edges' : e[1] \in Gates => PassedOn(e[1], steps[e[1]].output)'
  <2>1. \A k \in DOMAIN approvals' : approvals'[k].node \in Gates
    <3>1. \A k \in DOMAIN approvals' : approvals'[k] \in ApprovalType
      BY LenProperties, ElementOfSeq DEF RowsTyped
    <3> QED BY <3>1 DEF ApprovalType
  <2> QED BY <2>1 DEF GateFits, Passed
<1>9. ASSUME NEW n \in Tools, Current(n)'.output # 0
      PROVE  /\ steps'[ToolGate[n]].output = Current(n)'.output
             /\ PassedOn(ToolGate[n], steps[ToolGate[n]].output)'
  <2> DEFINE g == ToolGate[n]
  <2>1. n \in Nodes /\ g \in Gates /\ g \in Nodes /\ g \in Before(n) \ {n}
    BY ToolAssumption, BeforeSteps DEF GatedUpstream
  <2> HIDE DEF g
  <2>2. /\ steps'[g] = steps[g] /\ Passed(g)
        /\ steps[g].output = Current(n)'.output
    <3>1. CASE Current(n)'.output = Current(n).output
      <4>1. Current(n).status # "absent"
        BY <1>1, <1>9, <2>1, <3>1, CurrentCases DEF StepsFit, NoStep
      <4>2. Passed(g)
        BY <1>1, <2>1, <4>1, Reached DEF Passed
      <4>3. steps[g].output = Current(n).output
        BY <1>1, <1>9, <3>1 DEF ProceedsAsApproved, g
      <4>4. steps'[g] = steps[g]
        BY <2>1, <4>2 DEF Moves, Movable, Passed
      <4> QED BY <3>1, <4>2, <4>3, <4>4
    <3>2. CASE Current(n)'.output # Current(n).output
      <4>1. steps'[n] # steps[n] /\ Moves(n)
        BY <1>4, <2>1, <3>2
      <4>2. Current(n)' = steps'[n]
        BY <1>5, <2>1, <4>1 DEF Moves, RowFits
      <4>3. steps[g].output = Current(n)'.output /\ Passed(g)
        BY <1>9, <3>2, <4>1, <4>2 DEF Moves, Acts, g
      <4>4. steps'[g] = steps[g]
        BY <2>1, <4>3 DEF Moves, Movable, Passed
      <4> QED BY <4>3, <4>4
    <3> QED BY <3>1, <3>2
  <2>3. Passed(g)'
    BY <2>2 DEF Passed
  <2>4. PassedOn(g, steps[g].output)'
    BY <2>1, <2>3 DEF GateFits
  <2> QED BY <2>2, <2>4 DEF g
<1>10. ProceedsAsApproved'
  BY <1>8, <1>9 DEF ProceedsAsApproved
<1> QED BY <1>3, <1>7, <1>8, <1>10 DEF RowsFit

-----------------------------------------------------------------------------
(* Gates. *)

\* Two rows are of the same approval.
SameApproval(a, b) == a.node = b.node /\ a.iteration = b.iteration /\ a.revision = b.revision

ApprovalsKept(g) ==
  /\ \A k \in DOMAIN approvals :
       approvals[k].node = g =>
         /\ k \in DOMAIN approvals' /\ SameApproval(approvals'[k], approvals[k])
         /\ approvals'[k].status = approvals[k].status
  /\ \A k \in DOMAIN approvals' :
       approvals'[k].node = g => k \in DOMAIN approvals /\ approvals[k].node = g

\* A gate that nothing happens to.
LEMMA GateUntouched ==
  ASSUME NEW g \in Gates, GateFits(g), steps'[g] = steps[g], Current(g)' = Current(g),
         Passed(g)' => Passed(g), ApprovalsKept(g)
  PROVE  GateFits(g)'
<1>1. PendingFor(g)' = PendingFor(g)
  BY DEF PendingFor, ApprovalsKept, SameApproval
<1>2. ASSUME NEW k \in DOMAIN approvals, approvals[k].node = g
      PROVE  /\ \A m \in DOMAIN approvals' :
                  SameGate(k, m)' => m \in DOMAIN approvals /\ SameGate(k, m)
             /\ k \in DOMAIN approvals' /\ approvals'[k].node = g
             /\ approvals'[k].status = approvals[k].status
             /\ approvals'[k].iteration = approvals[k].iteration
             /\ approvals'[k].revision = approvals[k].revision
  BY <1>2 DEF ApprovalsKept, SameGate, SameApproval
<1>3. WaitMatches(g)'
  <2>1. CASE Current(g).status = "waiting"
    <3>1. PICK k \in DOMAIN approvals :
            /\ PendingFor(g) = {k} /\ approvals[k].iteration = steps[g].iteration
            /\ \A m \in DOMAIN approvals :
                 SameGate(k, m) => approvals[m].revision < approvals[k].revision \/ m = k
      BY <2>1 DEF GateFits, WaitMatches
    <3>2. approvals[k].node = g
      BY <3>1 DEF PendingFor
    <3>3. \A m \in DOMAIN approvals' :
            SameGate(k, m)' => approvals'[m].revision < approvals'[k].revision \/ m = k
      <4> SUFFICES ASSUME NEW m \in DOMAIN approvals', SameGate(k, m)', m # k
                   PROVE  approvals'[m].revision < approvals'[k].revision
        OBVIOUS
      <4>1. m \in DOMAIN approvals /\ SameGate(k, m) /\ approvals[m].node = g
        BY <1>2, <3>2 DEF SameGate
      <4> QED BY <1>2, <3>1, <3>2, <4>1
    <3> QED BY <1>1, <1>2, <2>1, <3>1, <3>2, <3>3 DEF WaitMatches
  <2>2. CASE Current(g).status # "waiting"
    BY <1>1, <2>2 DEF GateFits, WaitMatches
  <2> QED BY <2>1, <2>2
<1>4. ASSUME NEW k \in DOMAIN approvals', approvals'[k].node = g PROVE ApprovalFits(k)'
  <2>1. k \in DOMAIN approvals /\ approvals[k].node = g /\ ApprovalFits(k)
    BY <1>4 DEF ApprovalsKept, GateFits
  <2> QED BY <1>2, <1>4, <2>1 DEF ApprovalFits, StepOf
<1>5. ASSUME Passed(g)' PROVE PassedOn(g, steps[g].output)'
  <2>0. PICK k : k = steps[g].output
    OBVIOUS
  <2>1. PassedOn(g, k)
    BY <1>5, <2>0 DEF GateFits
  <2>2. k \in DOMAIN approvals /\ approvals[k].node = g
    BY <2>1 DEF PassedOn
  <2>3. ASSUME NEW m \in DOMAIN approvals', SameGate(k, m)', m # k
        PROVE  approvals'[m].status \notin {"approved", "pending"}
    <3>1. m \in DOMAIN approvals /\ SameGate(k, m) /\ approvals[m].node = g
      BY <1>2, <2>2, <2>3 DEF SameGate
    <3> QED BY <1>2, <2>1, <2>3, <3>1 DEF PassedOn
  <2>4. /\ k \in DOMAIN approvals' /\ approvals'[k].status = "approved"
        /\ approvals'[k].node = g /\ approvals'[k].iteration = Current(g)'.iteration
    BY <1>2, <2>1, <2>2 DEF PassedOn
  <2>5. steps'[g].output = k
    BY <2>0
  <2> QED BY <2>3, <2>4, <2>5 DEF PassedOn
<1> QED BY <1>3, <1>4, <1>5 DEF GateFits

\* Where approvals do not change, they are kept.
LEMMA SameApprovals ==
  ASSUME approvals' = approvals, NEW g
  PROVE  ApprovalsKept(g)
BY DEF ApprovalsKept, SameApproval

LEMMA ApprovalRows ==
  ASSUME RowsTyped, NEW k \in DOMAIN approvals
  PROVE  /\ approvals[k] \in ApprovalType /\ k \in Nat \ {0}
         /\ approvals[k].node \in Gates /\ approvals[k].node \in Nodes
         /\ approvals[k].iteration \in Nat /\ approvals[k].revision \in Nat \ {0}
<1>1. approvals[k] \in ApprovalType /\ k \in Nat \ {0}
  BY LenProperties, ElementOfSeq DEF RowsTyped
<1> QED BY <1>1, GraphFacts DEF ApprovalType

\* One more approval is the last one.
LEMMA ApprovalAdded ==
  ASSUME NEW list \in Seq(ApprovalType), NEW new \in ApprovalType,
         NEW longer, longer = Append(list, new)
  PROVE  /\ longer \in Seq(ApprovalType)
         /\ \E top \in Nat \ {0} :
              /\ DOMAIN longer = DOMAIN list \cup {top} /\ top \notin DOMAIN list
              /\ longer[top] = new
              /\ \A k \in DOMAIN list : longer[k] = list[k]
<1>1. /\ longer \in Seq(ApprovalType) /\ Len(list) \in Nat
      /\ DOMAIN list = 1..Len(list) /\ DOMAIN longer = 1..(Len(list) + 1)
      /\ \A k \in DOMAIN list : longer[k] = list[k]
      /\ longer[Len(list) + 1] = new
  BY Appended
<1>2. PICK top : top = Len(list) + 1
  OBVIOUS
<1>3. top \in Nat \ {0} /\ DOMAIN longer = DOMAIN list \cup {top} /\ top \notin DOMAIN list
  BY <1>1, <1>2
<1> QED BY <1>1, <1>2, <1>3

Added(top, new) ==
  /\ DOMAIN approvals' = DOMAIN approvals \cup {top} /\ top \notin DOMAIN approvals
  /\ approvals'[top] = new
  /\ \A k \in DOMAIN approvals : approvals'[k] = approvals[k]

\* A gate puts itself to the reviewers, in a new iteration.
LEMMA GateRegistered ==
  ASSUME RowsTyped, NEW g \in Gates, GateFits(g), quality' = quality,
         NEW i \in Nat, i >= IterationIn(quality, g),
         steps[g].status = "absent" \/ steps[g].iteration < i,
         Current(g).status # "waiting",
         steps'[g] = [status |-> "waiting", iteration |-> i, output |-> 0],
         NEW new \in ApprovalType, new.node = g, new.iteration = i, new.status = "pending",
         NEW top \in Nat \ {0}, Added(top, new),
         ~Passed(g)'
  PROVE  GateFits(g)'
<1>1. /\ DOMAIN approvals' = DOMAIN approvals \cup {top} /\ top \notin DOMAIN approvals
      /\ approvals'[top] = new
      /\ \A k \in DOMAIN approvals : approvals'[k] = approvals[k]
  BY DEF Added
<1>5. \A k \in DOMAIN approvals :
        approvals[k].node = g =>
          /\ approvals[k].iteration < i /\ approvals[k].iteration \in Nat
          /\ approvals[k].status # "pending"
  <2> SUFFICES ASSUME NEW k \in DOMAIN approvals, approvals[k].node = g
               PROVE  /\ approvals[k].iteration < i /\ approvals[k].iteration \in Nat
                      /\ approvals[k].status # "pending"
    OBVIOUS
  <2>1. steps[g].status # "absent" /\ approvals[k].iteration <= steps[g].iteration
    BY DEF GateFits, ApprovalFits, StepOf
  <2>2. steps[g].iteration \in Nat /\ approvals[k].iteration \in Nat
    BY RowNumbers, ApprovalRows, GraphFacts
  <2>3. PendingFor(g) = {}
    BY DEF GateFits, WaitMatches
  <2> QED BY <2>1, <2>2, <2>3 DEF PendingFor
<1>6. PendingFor(g)' = {top}
  BY <1>1, <1>5 DEF PendingFor
<1>7. IterationIn(quality, g)' = IterationIn(quality, g)
  BY DEF IterationIn
<1>8. Current(g)' = steps'[g]
  BY <1>7 DEF Current, Row
<1>9. ASSUME NEW m \in DOMAIN approvals', SameGate(top, m)' PROVE m = top
  BY <1>1, <1>5, <1>9 DEF SameGate
<1>10. WaitMatches(g)'
  BY <1>1, <1>6, <1>8, <1>9 DEF WaitMatches
<1>11. ASSUME NEW k \in DOMAIN approvals', approvals'[k].node = g PROVE ApprovalFits(k)'
  <2>1. CASE k = top
    BY <1>1, <2>1 DEF ApprovalFits, StepOf
  <2>2. CASE k \in DOMAIN approvals
    BY <1>1, <1>5, <1>11, <2>2 DEF ApprovalFits, StepOf
  <2> QED BY <1>1, <1>11, <2>1, <2>2
<1> QED BY <1>10, <1>11 DEF GateFits

\* What was open at a gate is resolved.
ResolvedAt(g, status) ==
  /\ DOMAIN approvals' = DOMAIN approvals
  /\ \A k \in DOMAIN approvals :
       /\ approvals'[k].node = g => approvals[k].node = g
       /\ approvals[k].node = g =>
            /\ SameApproval(approvals'[k], approvals[k])
            /\ approvals'[k].status = IF approvals[k].status = "pending" THEN status
                                      ELSE approvals[k].status

\* What was granted at a gate that waits was granted in an earlier iteration.
LEMMA GrantedBefore ==
  ASSUME RowsTyped, NEW g \in Gates, GateFits(g), steps[g].status = "waiting",
         NEW k \in DOMAIN approvals, approvals[k].node = g
  PROVE  /\ approvals[k].iteration <= steps[g].iteration
         /\ approvals[k].status = "approved" => approvals[k].iteration # steps[g].iteration
BY DEF GateFits, ApprovalFits, StepOf

\* A gate that waits is decided.
LEMMA GateResolved ==
  ASSUME RowsTyped, NEW g \in Gates, GateFits(g),
         steps[g].status = "waiting", Current(g) = steps[g],
         NEW status, status # "pending", ResolvedAt(g, status),
         steps'[g].iteration = steps[g].iteration, steps'[g].status # "absent",
         Current(g)'.status # "waiting",
         NEW k \in DOMAIN approvals, approvals[k].node = g, approvals[k].status = "pending",
         status = "approved" =>
           /\ steps'[g].status = "completed" /\ steps'[g].output = k
           /\ Current(g)' = steps'[g],
         Passed(g)' => status = "approved"
  PROVE  GateFits(g)'
<1>1. /\ PendingFor(g) = {k} /\ approvals[k].iteration = steps[g].iteration
  <2>1. PICK m \in DOMAIN approvals :
          PendingFor(g) = {m} /\ approvals[m].iteration = steps[g].iteration
    BY DEF GateFits, WaitMatches
  <2>2. k \in PendingFor(g)
    BY DEF PendingFor
  <2> QED BY <2>1, <2>2
<1>2. \A m \in DOMAIN approvals :
        approvals[m].node = g =>
          /\ approvals'[m].node = g /\ approvals'[m].iteration = approvals[m].iteration
          /\ approvals'[m].status = IF m = k THEN status ELSE approvals[m].status
          /\ m # k => approvals[m].status # "pending"
  BY <1>1 DEF ResolvedAt, SameApproval, PendingFor
<1>3. \A m \in DOMAIN approvals' :
        m \in DOMAIN approvals /\ (approvals'[m].node = g => approvals[m].node = g)
  BY DEF ResolvedAt
<1>4. PendingFor(g)' = {}
  BY <1>2, <1>3 DEF PendingFor
<1>5. WaitMatches(g)'
  BY <1>4 DEF WaitMatches
<1>6. ASSUME NEW m \in DOMAIN approvals', approvals'[m].node = g PROVE ApprovalFits(m)'
  <2>1. m \in DOMAIN approvals /\ approvals[m].node = g
    BY <1>3, <1>6
  <2>2. /\ approvals[m].iteration <= steps[g].iteration
        /\ approvals[m].status = "approved" => approvals[m].iteration # steps[g].iteration
    BY <2>1, GrantedBefore
  <2> QED BY <1>2, <1>6, <2>1, <2>2 DEF ApprovalFits, StepOf
<1>7. ASSUME Passed(g)' PROVE PassedOn(g, steps[g].output)'
  <2>1. /\ status = "approved" /\ steps'[g].output = k
        /\ Current(g)'.iteration = approvals'[k].iteration
    BY <1>1, <1>2, <1>7
  <2>2. k \in DOMAIN approvals' /\ approvals'[k].status = "approved" /\ approvals'[k].node = g
    BY <1>2, <2>1 DEF ResolvedAt
  <2>3. ASSUME NEW m \in DOMAIN approvals', SameGate(k, m)', m # k
        PROVE  approvals'[m].status \notin {"approved", "pending"}
    <3>1. m \in DOMAIN approvals /\ approvals'[m].node = g /\ approvals[m].node = g
      BY <1>3, <2>2, <2>3 DEF SameGate
    <3>2. approvals[m].iteration = steps[g].iteration
      BY <1>1, <1>2, <2>3, <3>1 DEF SameGate
    <3>3. approvals[m].status # "approved"
      BY <3>1, <3>2, GrantedBefore
    <3> QED BY <1>2, <2>3, <3>1, <3>3
  <2> QED BY <2>1, <2>2, <2>3 DEF PassedOn
<1> QED BY <1>5, <1>6, <1>7 DEF GateFits

\* A gate whose job fails has nothing open and nothing granted.
LEMMA GateFailed ==
  ASSUME RowsTyped, NEW g \in Gates, GateFits(g), ApprovalsKept(g), NEW i \in Nat,
         steps[g].status = "absent" \/ steps[g].iteration < i,
         steps'[g].iteration = i, steps'[g].status # "absent",
         Current(g).status # "waiting", Current(g)'.status # "waiting", ~Passed(g)'
  PROVE  GateFits(g)'
<1>1. PendingFor(g)' = {}
  BY DEF GateFits, WaitMatches, PendingFor, ApprovalsKept, SameApproval
<1>2. ASSUME NEW k \in DOMAIN approvals', approvals'[k].node = g PROVE ApprovalFits(k)'
  <2>1. k \in DOMAIN approvals /\ approvals[k].node = g
        /\ approvals'[k].iteration = approvals[k].iteration
    BY <1>2 DEF ApprovalsKept, SameApproval
  <2>2. steps[g].status # "absent" /\ approvals[k].iteration <= steps[g].iteration
    BY <2>1 DEF GateFits, ApprovalFits, StepOf
  <2>3. approvals[k].iteration \in Nat /\ steps[g].iteration \in Nat
    BY <2>1, ApprovalRows, RowNumbers, GraphFacts
  <2> QED BY <1>2, <2>1, <2>2, <2>3 DEF ApprovalFits, StepOf
<1> QED BY <1>1, <1>2 DEF GateFits, WaitMatches

\* A gate that waits goes on with the next revision of its approval.
LEMMA GateEdited ==
  ASSUME RowsTyped, NEW g \in Gates, GateFits(g),
         steps[g].status = "waiting", Current(g) = steps[g],
         steps'[g] = steps[g], Current(g)' = Current(g), Passed(g)' => Passed(g), ~Passed(g),
         NEW k \in DOMAIN approvals, approvals[k].node = g, approvals[k].status = "pending",
         NEW new \in ApprovalType, new.node = g, new.iteration = approvals[k].iteration,
         new.revision = approvals[k].revision + 1, new.status = "pending",
         NEW top \in Nat \ {0}, top \notin DOMAIN approvals,
         DOMAIN approvals' = DOMAIN approvals \cup {top}, approvals'[top] = new,
         \A m \in DOMAIN approvals :
           /\ SameApproval(approvals'[m], approvals[m])
           /\ approvals'[m].status = IF m = k THEN "superseded" ELSE approvals[m].status
  PROVE  GateFits(g)'
<1>1. /\ PendingFor(g) = {k} /\ approvals[k].iteration = steps[g].iteration
      /\ \A m \in DOMAIN approvals :
           SameGate(k, m) => approvals[m].revision < approvals[k].revision \/ m = k
  <2>1. PICK m \in DOMAIN approvals :
          /\ PendingFor(g) = {m} /\ approvals[m].iteration = steps[g].iteration
          /\ \A l \in DOMAIN approvals :
               SameGate(m, l) => approvals[l].revision < approvals[m].revision \/ l = m
    BY DEF GateFits, WaitMatches
  <2>2. k = m
    BY <2>1 DEF PendingFor
  <2> QED BY <2>1, <2>2
<1>2. PendingFor(g)' = {top}
  BY <1>1 DEF PendingFor, SameApproval
<1>3. ASSUME NEW m \in DOMAIN approvals', SameGate(top, m)', m # top
      PROVE  approvals'[m].revision < approvals'[top].revision
  <2>1. m \in DOMAIN approvals /\ SameGate(k, m) /\ approvals'[m].revision = approvals[m].revision
    BY <1>3 DEF SameGate, SameApproval
  <2>2. approvals[m].revision \in Nat /\ approvals[k].revision \in Nat
    BY <2>1, ApprovalRows
  <2> QED BY <1>1, <2>1, <2>2
<1>4. WaitMatches(g)'
  BY <1>1, <1>2, <1>3 DEF WaitMatches
<1>5. ASSUME NEW m \in DOMAIN approvals', approvals'[m].node = g PROVE ApprovalFits(m)'
  <2>1. CASE m = top
    <3>1. steps[g].iteration \in Nat
      BY RowNumbers, GraphFacts
    <3> QED BY <1>1, <2>1, <3>1 DEF ApprovalFits, StepOf
  <2>2. CASE m # top
    <3>1. m \in DOMAIN approvals /\ approvals[m].node = g
      BY <1>5, <2>2 DEF SameApproval
    <3>2. /\ approvals[m].iteration <= steps[g].iteration
          /\ approvals[m].status = "approved" => approvals[m].iteration # steps[g].iteration
      BY <3>1, GrantedBefore
    <3>3. /\ approvals'[m].iteration = approvals[m].iteration
          /\ approvals'[m].status \in {"superseded", approvals[m].status}
      BY <3>1 DEF SameApproval
    <3> QED BY <1>5, <3>2, <3>3 DEF ApprovalFits, StepOf
  <2> QED BY <2>1, <2>2
<1> QED BY <1>4, <1>5 DEF GateFits

-----------------------------------------------------------------------------
(* Scheduling. *)

Outcome ==
  \/ jobs' # {} /\ run' = [run EXCEPT !.status = "running"]
  \/ /\ jobs' = {} /\ \E n \in Nodes : steps'[n].status = "waiting"
     /\ run' = [run EXCEPT !.status = "waiting"]
  \/ /\ jobs' = {} /\ ~ \E n \in Nodes : steps'[n].status = "waiting"
     /\ \E outcome \in {"completed", "failed"} : run' = [run EXCEPT !.status = outcome]

\* Schedule stores the rows and queues what they need.
LEMMA ScheduleStores ==
  ASSUME NEW q, NEW rt, NEW st, NEW ed, NEW list, NEW kept,
         Schedule(q, rt, st, ed, list, kept)
  PROVE  /\ quality' = q /\ retries' = rt /\ steps' = st /\ edges' = ed /\ approvals' = list
         /\ jobs' = kept \cup NeedJob(quality', retries', steps', edges')
         /\ Outcome
BY DEF Schedule, Outcome

\* What a job is needed for is a node and an iteration.
LEMMA NeededJobs ==
  ASSUME NEW q, NEW rt \in [Gates -> Nat], NEW st, NEW ed, q.iteration \in Nat
  PROVE  NeedJob(q, rt, st, ed) \subseteq JobType
<1>1. \A n \in Nodes : IterationIn(q, n) \in Nat
  BY DEF IterationIn
<1>2. Gates \subseteq Nodes
  BY GraphFacts
<1> QED BY <1>1, <1>2 DEF NeedJob, JobType, Ready

\* If the rows fit, and the jobs that are kept are still for something and
\* serve all that runs, the outcome fits too.
Serves(j) ==
  /\ steps[j.node].status = "running" /\ steps[j.node].iteration = j.iteration
  /\ j.iteration = IterationIn(quality, j.node)
LEMMA Scheduled ==
  ASSUME run \in RunType, RowsTyped', RowsFit', RetriesFit', NEW kept \in SUBSET JobType,
         jobs' = kept \cup NeedJob(quality', retries', steps', edges'), Outcome,
         \A j \in kept : j \in NeedJob(quality', retries', steps', edges') \/ Serves(j)',
         \A n \in Nodes : steps'[n].status = "running" =>
           [node |-> n, iteration |-> steps'[n].iteration] \in kept
  PROVE  IInv'
<1>1. run' \in RunType
  BY DEF Outcome, RunType, Terminal
<1>2. NeedJob(quality', retries', steps', edges') \subseteq JobType
  <2>1. quality'.iteration \in Nat /\ retries' \in [Gates -> Nat]
    BY BoundAssumption DEF RowsTyped
  <2> QED BY <2>1, NeededJobs
<1>3. TypeOK'
  <2>1. run' \in RunType /\ RowsTyped' /\ jobs' \subseteq JobType
    BY <1>1, <1>2
  <2> QED BY <2>1 DEF TypeOK, RowsTyped, RunType, JobType
<1>4. WorkResumed'
  <2>1. Live' => (run'.status = "waiting" <=> jobs' = {})
    BY DEF Outcome, RunType, Live, Terminal
  <2> QED BY <2>1 DEF WorkResumed, Serves
<1>5. ASSUME ~Live' PROVE jobs' = {} /\ \A n \in Nodes : steps'[n].status \notin Unfinished
  <2>1. jobs' = {} /\ ~ \E n \in Nodes : steps'[n].status = "waiting"
    BY <1>5 DEF Outcome, RunType, Live, Terminal
  <2> QED BY <2>1 DEF Unfinished
<1>6. JobsFit'
  BY <1>4, <1>5 DEF JobsFit
<1> QED BY <1>3, <1>6 DEF IInv

\* A job is still for something if its node is as it was.
LEMMA JobKept ==
  ASSUME IInv, NEW j \in jobs,
         IterationIn(quality, j.node)' = IterationIn(quality, j.node),
         steps'[j.node] = steps[j.node],
         \A e \in edges : e[2] = j.node => e \in edges',
         j.node \in Gates => retries'[j.node] = retries[j.node]
  PROVE  j \in NeedJob(quality', retries', steps', edges') \/ Serves(j)'
<1>1. j.node \in Nodes /\ j = [node |-> j.node, iteration |-> j.iteration]
  BY JobCases
<1>2. PICK n \in Nodes : n = j.node
  BY <1>1
<1>3. IterationIn(quality', n) = IterationIn(quality, n)
  BY <1>2 DEF IterationIn
<1>4. CASE n \in Ready(quality, steps, edges) /\ j.iteration = IterationIn(quality, n)
  <2>1. n \in Ready(quality', steps', edges')
    BY <1>2, <1>3, <1>4 DEF Ready, Absent, Row
  <2> QED BY <1>1, <1>2, <1>3, <1>4, <2>1 DEF NeedJob
<1>5. CASE n \in Gates /\ retries[n] > 0 /\ j.iteration = retries[n]
  BY <1>1, <1>2, <1>5 DEF NeedJob
<1>6. CASE steps[n].status = "running" /\ j.iteration = steps[n].iteration
             /\ j.iteration = IterationIn(quality, n)
  BY <1>2, <1>3, <1>6 DEF Serves
<1> QED BY <1>2, <1>4, <1>5, <1>6, JobCases

\* One node moves on, its job is spent, and everything else stays.
LEMMA Progress ==
  ASSUME IInv, Live, quality' = quality, RowsTyped', RowsFit', NEW n \in Nodes,
         \A m \in Nodes \ {n} : steps'[m] = steps[m],
         steps'[n].status # "running", edges \subseteq edges',
         \A g \in Gates \ {n} : retries'[g] = retries[g],
         n \in Gates /\ retries'[n] > 0 =>
           /\ n # ApprovalNode /\ steps'[n].status = "completed" /\ steps'[n].output = 0
           /\ steps'[n].iteration >= IterationIn(quality, n)
           /\ retries'[n] = steps'[n].iteration + 1,
         NEW kept, kept = {j \in jobs : j.node # n},
         jobs' = kept \cup NeedJob(quality', retries', steps', edges'), Outcome
  PROVE  IInv'
<1>1. TypeOK /\ RowsFit /\ RetriesFit
      /\ \A m \in Nodes :
           steps[m].status = "running" => [node |-> m, iteration |-> steps[m].iteration] \in jobs
  BY DEF IInv, JobsFit
<1>2. \A m : IterationIn(quality, m)' = IterationIn(quality, m)
  BY DEF IterationIn
<1>3. RetriesFit'
  BY <1>1, <1>2, GraphFacts DEF RetriesFit
<1>4. ASSUME NEW j \in kept
      PROVE  j \in NeedJob(quality', retries', steps', edges') \/ Serves(j)'
  <2>1. j \in jobs /\ j.node \in Nodes \ {n}
    BY <1>4, JobCases
  <2> QED BY <1>2, <2>1, JobKept
<1>5. ASSUME NEW m \in Nodes, steps'[m].status = "running"
      PROVE  [node |-> m, iteration |-> steps'[m].iteration] \in kept
  BY <1>1, <1>5
<1>6. kept \subseteq JobType /\ run \in RunType
  BY <1>1 DEF TypeOK, RunType, JobType
<1> QED BY <1>3, <1>4, <1>5, <1>6, Scheduled

-----------------------------------------------------------------------------
(* Single rows. *)

LEMMA StepStored ==
  ASSUME RowsTyped, NEW n \in Nodes, NEW row \in StepType
  PROVE  /\ [steps EXCEPT ![n] = row] \in [Nodes -> StepType]
         /\ [steps EXCEPT ![n] = row][n] = row
         /\ \A m \in Nodes \ {n} : [steps EXCEPT ![n] = row][m] = steps[m]
BY DEF RowsTyped

LEMMA StepCompleted ==
  ASSUME RowsTyped, NEW n \in Nodes, NEW output \in Nat
  PROVE  /\ Completed(n, output) \in [Nodes -> StepType]
         /\ Completed(n, output)[n] =
              [status |-> "completed", iteration |-> steps[n].iteration, output |-> output]
         /\ \A m \in Nodes \ {n} : Completed(n, output)[m] = steps[m]
<1>1. steps \in [Nodes -> StepType] /\ steps[n] \in StepType
  BY DEF RowsTyped
<1>2. PICK row : row = [status |-> "completed", iteration |-> steps[n].iteration,
                        output |-> output]
  OBVIOUS
<1>3. row \in StepType
  BY <1>1, <1>2 DEF StepType, Terminal
<1>4. Completed(n, output) = [steps EXCEPT ![n] = row]
  <2>1. PICK old \in StepType : old = steps[n]
    BY <1>1
  <2>2. [[old EXCEPT !.status = "completed"] EXCEPT !.output = output] = row
    <3>1. [old EXCEPT !.status = "completed"]
            = [status |-> "completed", iteration |-> old.iteration, output |-> old.output]
      BY DEF StepType
    <3>2. [[status |-> "completed", iteration |-> old.iteration, output |-> old.output]
              EXCEPT !.output = output]
            = [status |-> "completed", iteration |-> old.iteration, output |-> output]
      OBVIOUS
    <3> QED BY <1>2, <2>1, <3>1, <3>2
  <2>3. PICK half : half = [steps EXCEPT ![n].status = "completed"]
    OBVIOUS
  <2>4. /\ half = [steps EXCEPT ![n] = [old EXCEPT !.status = "completed"]]
        /\ half[n] = [old EXCEPT !.status = "completed"]
    BY <1>1, <2>1, <2>3
  <2>5. Completed(n, output) = [half EXCEPT ![n].output = output]
    BY <2>3 DEF Completed
  <2>6. [half EXCEPT ![n].output = output] = [half EXCEPT ![n] = row]
    BY <2>2, <2>4
  <2> QED BY <1>1, <2>4, <2>5, <2>6
<1>5. row = [status |-> "completed", iteration |-> steps[n].iteration, output |-> output]
  BY <1>2
<1> QED BY <1>3, <1>4, <1>5, StepStored

LEMMA CompletedNext ==
  ASSUME RowsTyped, NEW n \in Nodes, NEW output \in Nat, steps' = Completed(n, output)
  PROVE  /\ steps' \in [Nodes -> StepType]
         /\ steps'[n].status = "completed" /\ steps'[n].iteration = steps[n].iteration
         /\ steps'[n].output = output
         /\ \A m \in Nodes \ {n} : steps'[m] = steps[m]
<1>1. PICK st : st = Completed(n, output)
  OBVIOUS
<1>2. /\ st \in [Nodes -> StepType]
      /\ st[n] = [status |-> "completed", iteration |-> steps[n].iteration, output |-> output]
      /\ \A m \in Nodes \ {n} : st[m] = steps[m]
  BY <1>1, StepCompleted
<1>3. steps' = st
  BY <1>1
<1> QED BY <1>2, <1>3

\* One approval changes its status.
LEMMA ApprovalResolved ==
  ASSUME RowsTyped, NEW k \in DOMAIN approvals,
         NEW status \in {"approved", "rejected", "retry_requested", "superseded", "expired"},
         NEW list, list = Resolved(k, status)
  PROVE  /\ list \in Seq(ApprovalType) /\ DOMAIN list = DOMAIN approvals
         /\ \A m \in DOMAIN approvals :
              /\ SameApproval(list[m], approvals[m]) /\ list[m].due = approvals[m].due
              /\ list[m].status = IF m = k THEN status ELSE approvals[m].status
<1>1. \A m \in DOMAIN approvals : approvals[m] \in ApprovalType
  BY ApprovalRows
<1>2. /\ DOMAIN list = DOMAIN approvals /\ list = [m \in DOMAIN list |-> list[m]]
      /\ \A m \in DOMAIN approvals :
           list[m] = IF m = k THEN [approvals[m] EXCEPT !.status = status] ELSE approvals[m]
  BY DEF Resolved
<1>3. ASSUME NEW m \in DOMAIN approvals
      PROVE  /\ list[m] \in ApprovalType
             /\ SameApproval(list[m], approvals[m]) /\ list[m].due = approvals[m].due
             /\ list[m].status = IF m = k THEN status ELSE approvals[m].status
  <2>1. PICK a \in ApprovalType : a = approvals[m]
    BY <1>1
  <2>2. list[m] = IF m = k THEN [a EXCEPT !.status = status] ELSE a
    BY <1>2, <2>1
  <2>3. /\ [a EXCEPT !.status = status] \in ApprovalType
        /\ SameApproval([a EXCEPT !.status = status], a)
        /\ [a EXCEPT !.status = status].due = a.due
        /\ [a EXCEPT !.status = status].status = status
    BY DEF ApprovalType, SameApproval
  <2>4. SameApproval(a, a)
    BY DEF SameApproval
  <2> QED BY <2>1, <2>2, <2>3, <2>4
<1>4. approvals \in Seq(ApprovalType)
  BY DEF RowsTyped
<1>5. list \in Seq(ApprovalType)
  BY <1>2, <1>3, <1>4, Mapped
<1> QED BY <1>2, <1>3, <1>5

\* All that is open is closed.
LEMMA ApprovalsClosed ==
  ASSUME NEW old \in Seq(ApprovalType), NEW status \in {"expired", "cancelled"},
         NEW list, list = ClosePending(old, status)
  PROVE  /\ list \in Seq(ApprovalType) /\ DOMAIN list = DOMAIN old
         /\ \A m \in DOMAIN old :
              /\ SameApproval(list[m], old[m])
              /\ list[m].status = IF old[m].status = "pending" THEN status ELSE old[m].status
<1>1. \A m \in DOMAIN old : old[m] \in ApprovalType
  BY LenProperties, ElementOfSeq
<1>2. /\ DOMAIN list = DOMAIN old /\ list = [m \in DOMAIN list |-> list[m]]
      /\ \A m \in DOMAIN old :
           list[m] = IF old[m].status = "pending" THEN [old[m] EXCEPT !.status = status]
                     ELSE old[m]
  BY DEF ClosePending
<1>3. ASSUME NEW m \in DOMAIN old
      PROVE  /\ list[m] \in ApprovalType /\ SameApproval(list[m], old[m])
             /\ list[m].status = IF old[m].status = "pending" THEN status ELSE old[m].status
  <2>1. PICK a \in ApprovalType : a = old[m]
    BY <1>1
  <2>2. list[m] = IF a.status = "pending" THEN [a EXCEPT !.status = status] ELSE a
    BY <1>2, <2>1
  <2>3. /\ [a EXCEPT !.status = status] \in ApprovalType
        /\ SameApproval([a EXCEPT !.status = status], a)
        /\ [a EXCEPT !.status = status].status = status
    BY DEF ApprovalType, SameApproval
  <2>4. SameApproval(a, a)
    BY DEF SameApproval
  <2> QED BY <2>1, <2>2, <2>3, <2>4
<1>4. list \in Seq(ApprovalType)
  BY <1>2, <1>3, Mapped
<1> QED BY <1>2, <1>3, <1>4

\* The gates to which nothing happens while others move on.
LEMMA OtherGate ==
  ASSUME RowsTyped, RowsFit, quality' = quality, NEW g \in Gates, steps'[g] = steps[g],
         \A e \in edges' \ edges : e[1] # g, ApprovalsKept(g)
  PROVE  GateFits(g)'
<1>1. GateFits(g)
  BY GatesOfRows
<1>2. Current(g)' = Current(g)
  BY DEF Current, Row, IterationIn
<1>3. Passed(g)' => Passed(g)
  BY DEF Passed
<1> QED BY <1>1, <1>2, <1>3, GateUntouched

\* What changes at one gate leaves the approvals of the others.
LEMMA KeptByOthers ==
  ASSUME NEW g, NEW k \in DOMAIN approvals, approvals[k].node # g,
         DOMAIN approvals' = DOMAIN approvals,
         \A m \in DOMAIN approvals :
           /\ SameApproval(approvals'[m], approvals[m])
           /\ m # k => approvals'[m].status = approvals[m].status
  PROVE  ApprovalsKept(g)
BY DEF ApprovalsKept, SameApproval

-----------------------------------------------------------------------------
(* One lemma per action: the execution of nodes. *)

LEMMA Parts ==
  ASSUME IInv
  PROVE  /\ run \in RunType /\ RowsTyped /\ RowsFit /\ jobs \subseteq JobType
         /\ StepsFit /\ Grounded /\ ProceedsAsApproved
         /\ Live => /\ RetriesFit
                    /\ \A n \in Nodes :
                         steps[n].status = "running" =>
                           [node |-> n, iteration |-> steps[n].iteration] \in jobs
         /\ ~Live => jobs = {} /\ \A n \in Nodes : steps[n].status \notin Unfinished
BY TypedParts DEF IInv, RowsFit, JobsFit

\* The jobs that remain when one is spent are those of the other nodes.
LEMMA OtherJobs ==
  ASSUME IInv, NEW j \in jobs
  PROVE  jobs \ {j} = {k \in jobs : k.node # j.node}
BY SameNodeSameJob

LEMMA StartGateInOrder ==
  ASSUME IInv, NEW j \in jobs, StartStep(j), j.node \in Gates
  PROVE  IInv'
<1>1. PICK n, i : n = j.node /\ i = j.iteration
  OBVIOUS
<1>2. /\ n \in Gates /\ n \in Nodes /\ i \in Nat /\ Live /\ Movable(n)
      /\ i >= IterationIn(quality, n)
      /\ n \notin Gates \ {ApprovalNode} => i <= IterationIn(quality, n)
      /\ steps[n].status = "absent" \/ steps[n].iteration < i
      /\ steps[n].status # "waiting"
  BY <1>1, JobCases, NodeOfJob
<1>3. PICK row : row = [status |-> "waiting", iteration |-> i, output |-> 0]
  OBVIOUS
<1>4. PICK new : new = NewApproval(n, i, 1, FALSE)
  OBVIOUS
<1>5. row \in StepType /\ row.status = "waiting" /\ row.iteration = i /\ row.output = 0
  BY <1>2, <1>3 DEF StepType, Unfinished
<1>6. /\ new \in ApprovalType /\ new.node = n /\ new.iteration = i /\ new.status = "pending"
  BY <1>2, <1>4 DEF NewApproval, ApprovalType
<1>7. /\ quality' = quality /\ retries' = [retries EXCEPT ![n] = 0]
      /\ steps' = [steps EXCEPT ![n] = row] /\ edges' = edges
      /\ approvals' = Append(approvals, new)
      /\ jobs' = (jobs \ {j}) \cup NeedJob(quality', retries', steps', edges')
      /\ Outcome
  BY <1>1, <1>2, <1>3, <1>4, ScheduleStores DEF StartStep
<1>8. RowsTyped /\ RowsFit
  BY Parts
<1>9. /\ steps' \in [Nodes -> StepType] /\ steps'[n] = row
      /\ \A m \in Nodes \ {n} : steps'[m] = steps[m]
  BY <1>2, <1>5, <1>7, <1>8, StepStored
<1>10. approvals' \in Seq(ApprovalType) /\ \E top \in Nat \ {0} : Added(top, new)
  <2>1. PICK list : list = approvals'
    OBVIOUS
  <2>2. approvals \in Seq(ApprovalType) /\ list = Append(approvals, new)
    BY <1>7, <1>8, <2>1 DEF RowsTyped
  <2>3. /\ list \in Seq(ApprovalType)
        /\ \E top \in Nat \ {0} :
             /\ DOMAIN list = DOMAIN approvals \cup {top} /\ top \notin DOMAIN approvals
             /\ list[top] = new
             /\ \A k \in DOMAIN approvals : list[k] = approvals[k]
    BY <1>6, <2>2, ApprovalAdded
  <2> QED BY <2>1, <2>3 DEF Added
<1>11. PICK top \in Nat \ {0} : Added(top, new)
  BY <1>10
<1>12. /\ retries' \in [Gates -> Nat] /\ retries'[n] = 0
       /\ \A g \in Gates \ {n} : retries'[g] = retries[g]
  BY <1>2, <1>7, <1>8 DEF RowsTyped
<1>13. RowsTyped'
  <2>1. \A g \in Gates : retries'[g] <= MaxReviewRetries[g]
    <3>1. MaxReviewRetries[n] \in Nat
      BY <1>2, BoundAssumption
    <3>2. \A g \in Gates : retries[g] <= MaxReviewRetries[g]
      BY <1>8 DEF RowsTyped
    <3>3. ASSUME NEW g \in Gates PROVE retries'[g] <= MaxReviewRetries[g]
      <4>1. CASE g = n
        BY <1>12, <3>1, <4>1
      <4>2. CASE g # n
        BY <1>12, <3>2, <4>2
      <4> QED BY <4>1, <4>2
    <3> QED BY <3>3
  <2> QED BY <1>7, <1>8, <1>9, <1>10, <1>12, <2>1 DEF RowsTyped
<1>14. \A g \in Gates : GateFits(g)'
  <2>1. GateFits(n)'
    <3>1. ~Passed(n)'
      BY <1>2, <1>7 DEF Passed, Movable
    <3>2. GateFits(n) /\ Current(n).status # "waiting"
      BY <1>2, <1>8, GatesOfRows, CurrentCases, GraphFacts DEF NoStep
    <3>3. steps'[n] = [status |-> "waiting", iteration |-> i, output |-> 0]
      BY <1>3, <1>9
    <3> QED BY <1>2, <1>6, <1>7, <1>8, <1>11, <3>1, <3>2, <3>3, GateRegistered
  <2>2. ASSUME NEW g \in Gates, g # n PROVE GateFits(g)'
    <3>1. ApprovalsKept(g)
      BY <1>6, <1>11, <2>2 DEF Added, ApprovalsKept, SameApproval
    <3>2. steps'[g] = steps[g]
      BY <1>9, <2>2, GraphFacts
    <3> QED BY <1>7, <1>8, <3>1, <3>2, OtherGate
  <2> QED BY <2>1, <2>2
<1>15. RowsFit'
  <2>1. Moves(n)
    BY <1>2, <1>5, <1>9 DEF Moves, RowFits, Acts
  <2> QED BY <1>7, <1>8, <1>9, <1>13, <1>14, <2>1, RowsMoved
<1>16. PICK kept : kept = {k \in jobs : k.node # n}
  OBVIOUS
<1>17. jobs' = kept \cup NeedJob(quality', retries', steps', edges') /\ Outcome
  BY <1>1, <1>7, <1>16, OtherJobs
<1>18. /\ quality' = quality /\ edges \subseteq edges' /\ steps'[n].status # "running"
       /\ \A m \in Nodes \ {n} : steps'[m] = steps[m]
       /\ \A g \in Gates \ {n} : retries'[g] = retries[g]
       /\ ~(retries'[n] > 0)
  BY <1>5, <1>7, <1>9, <1>12
<1> QED
  BY <1>2, <1>13, <1>15, <1>16, <1>17, <1>18, Progress

LEMMA StartNodeInOrder ==
  ASSUME IInv, NEW j \in jobs, StartStep(j), j.node \notin Gates
  PROVE  IInv'
<1>1. PICK n, i : n = j.node /\ i = j.iteration
  OBVIOUS
<1>2. /\ n \notin Gates /\ n \in Nodes /\ i \in Nat /\ Live /\ Movable(n)
      /\ i >= IterationIn(quality, n) /\ i <= IterationIn(quality, n)
      /\ j = [node |-> n, iteration |-> i]
  BY <1>1, JobCases, NodeOfJob
<1>3. PICK row : row = [status |-> "running", iteration |-> i, output |-> 0]
  OBVIOUS
<1>4. row \in StepType /\ row.status = "running" /\ row.iteration = i /\ row.output = 0
  BY <1>2, <1>3 DEF StepType, Unfinished
<1>5. /\ steps[n].status # "running" /\ run' = [run EXCEPT !.status = "running"]
      /\ steps' = [steps EXCEPT ![n] = row]
      /\ quality' = quality /\ retries' = retries /\ edges' = edges /\ jobs' = jobs
      /\ approvals' = approvals
  BY <1>1, <1>2, <1>3 DEF StartStep
<1>6. RowsTyped /\ RowsFit /\ run \in RunType /\ jobs \subseteq JobType /\ RetriesFit
      /\ \A m \in Nodes :
           steps[m].status = "running" => [node |-> m, iteration |-> steps[m].iteration] \in jobs
  BY <1>2, Parts
<1>7. /\ steps' \in [Nodes -> StepType] /\ steps'[n] = row
      /\ \A m \in Nodes \ {n} : steps'[m] = steps[m]
  BY <1>2, <1>4, <1>5, <1>6, StepStored
<1>8. RowsTyped'
  BY <1>5, <1>6, <1>7 DEF RowsTyped
<1>9. ASSUME NEW g \in Gates PROVE GateFits(g)' /\ steps'[g] = steps[g]
  <2>1. steps'[g] = steps[g]
    BY <1>2, <1>7, GraphFacts
  <2>2. ApprovalsKept(g)
    BY <1>5, SameApprovals
  <2> QED BY <1>5, <1>6, <2>1, <2>2, OtherGate
<1>10. RowsFit'
  <2>1. Moves(n)
    BY <1>2, <1>4, <1>7 DEF Moves, RowFits, Acts
  <2> QED BY <1>5, <1>6, <1>7, <1>8, <1>9, <2>1, RowsMoved
<1>11. run' \in RunType /\ run'.status = "running" /\ Live'
  BY <1>5, <1>6 DEF RunType, Live, Terminal
<1>12. IterationIn(quality, n)' = IterationIn(quality, n) /\ IterationIn(quality, n) \in Nat
  BY <1>2, <1>5, <1>6, RowNumbers DEF IterationIn
<1>13. RetriesFit'
  BY <1>5, <1>6, <1>9 DEF RetriesFit, IterationIn
<1>14. Serves(j)'
  BY <1>1, <1>2, <1>4, <1>5, <1>7, <1>12 DEF Serves
<1>15. \A k \in jobs : k \in NeedJob(quality', retries', steps', edges') \/ Serves(k)'
  <2>1. ASSUME NEW k \in jobs, k # j
        PROVE  k \in NeedJob(quality', retries', steps', edges') \/ Serves(k)'
    <3>1. k.node \in Nodes /\ k.node # n
      BY <1>1, <2>1, JobCases, SameNodeSameJob
    <3>2. IterationIn(quality, k.node)' = IterationIn(quality, k.node)
      BY <1>5 DEF IterationIn
    <3> QED BY <1>5, <1>7, <3>1, <3>2, JobKept
  <2> QED BY <1>14, <2>1
<1>16. NeedJob(quality', retries', steps', edges') \subseteq jobs'
  <2>1. Ready(quality', steps', edges') \subseteq Ready(quality, steps, edges)
    <3>1. Row(quality', steps', n) = row
      BY <1>2, <1>4, <1>5, <1>7, <1>12 DEF Row, IterationIn
    <3>2. \A m \in Nodes \ {n} : Row(quality', steps', m) = Row(quality, steps, m)
      BY <1>5, <1>7 DEF Row
    <3> QED BY <1>4, <1>5, <3>1, <3>2 DEF Ready, Absent
  <2>2. NeedJob(quality, retries, steps, edges) \subseteq jobs
    BY <1>2 DEF IInv, JobsFit, WorkResumed
  <2>3. NeedJob(quality', retries', steps', edges')
          \subseteq NeedJob(quality, retries, steps, edges)
    BY <1>5, <2>1 DEF NeedJob
  <2> QED BY <1>5, <2>2, <2>3
<1>17. WorkResumed'
  BY <1>5, <1>11, <1>15, <1>16 DEF WorkResumed, Serves
<1>18. \A m \in Nodes :
         steps'[m].status = "running" => [node |-> m, iteration |-> steps'[m].iteration] \in jobs'
  BY <1>2, <1>4, <1>5, <1>6, <1>7
<1>19. JobsFit'
  BY <1>11, <1>13, <1>17, <1>18 DEF JobsFit
<1>20. TypeOK'
  BY <1>5, <1>6, <1>8, <1>11 DEF TypeOK, RowsTyped, RunType, JobType
<1> QED BY <1>10, <1>19, <1>20 DEF IInv

\* The job of a step that runs is that of its iteration.
LEMMA JobOfRunning ==
  ASSUME IInv, NEW j \in jobs, steps[j.node].status = "running"
  PROVE  /\ j.node \notin Gates /\ j.iteration = steps[j.node].iteration
         /\ j = [node |-> j.node, iteration |-> steps[j.node].iteration]
<1>1. RowsTyped /\ StepsFit /\ j.node \in Nodes
  BY Parts, JobCases
<1>2. Current(j.node).status = "running" /\ j.node \notin Gates
  BY <1>1, GoesOnNow DEF Unfinished, StepsFit
<1>3. j.node \notin Ready(quality, steps, edges)
  BY <1>2 DEF Ready, Absent, Current
<1> QED BY <1>2, <1>3, JobCases

\* A step that runs completes and leads on.
LEMMA NodeFinished ==
  ASSUME IInv, NEW j \in jobs, steps[j.node].status = "running",
         Schedule(quality, retries, Completed(j.node, steps[j.node].output),
                  Selected(j.node), approvals, jobs \ {j})
  PROVE  IInv'
<1>1. PICK n \in Nodes : n = j.node
  BY JobCases
<1>2. /\ n \notin Gates /\ Live /\ Movable(n) /\ steps[n].status = "running"
      /\ j = [node |-> n, iteration |-> steps[n].iteration]
  BY <1>1, JobCases, JobOfRunning, NodeOfJob
<1>3. RowsTyped /\ RowsFit /\ StepsFit /\ run \in RunType
  BY Parts
<1>4. /\ steps[n].iteration \in Nat /\ steps[n].output \in Nat
      /\ Current(n) = steps[n] /\ steps[n].iteration >= IterationIn(quality, n)
      /\ steps[n].iteration <= IterationIn(quality, n)
  BY <1>2, <1>3, RowNumbers, GoesOnNow DEF StepsFit, Unfinished
<1>5. /\ quality' = quality /\ retries' = retries /\ approvals' = approvals
      /\ steps' = Completed(n, steps[n].output) /\ edges' = Selected(n)
      /\ jobs' = (jobs \ {j}) \cup NeedJob(quality', retries', steps', edges')
      /\ Outcome
  BY <1>1, ScheduleStores
<1>6. /\ steps' \in [Nodes -> StepType]
      /\ steps'[n].status = "completed" /\ steps'[n].iteration = steps[n].iteration
      /\ steps'[n].output = steps[n].output
      /\ \A m \in Nodes \ {n} : steps'[m] = steps[m]
  BY <1>3, <1>4, <1>5, CompletedNext
<1>7. /\ edges' \subseteq Edges /\ edges \subseteq edges'
      /\ \A e \in edges' \ edges : e[1] = n
  BY <1>3, <1>5 DEF Selected, RowsTyped
<1>8. RowsTyped'
  BY <1>3, <1>5, <1>6, <1>7 DEF RowsTyped
<1>9. ASSUME NEW g \in Gates PROVE GateFits(g)'
  <2>1. steps'[g] = steps[g] /\ g # n
    BY <1>2, <1>6, GraphFacts
  <2>2. ApprovalsKept(g)
    BY <1>5, SameApprovals
  <2> QED BY <1>3, <1>5, <1>7, <2>1, <2>2, OtherGate
<1>10. RowsFit'
  <2>1. Moves(n)
    BY <1>2, <1>4, <1>6 DEF Moves, RowFits, Acts
  <2> QED BY <1>3, <1>4, <1>5, <1>6, <1>7, <1>8, <1>9, <2>1, RowsMoved
<1>11. PICK kept : kept = {k \in jobs : k.node # n}
  OBVIOUS
<1>12. jobs' = kept \cup NeedJob(quality', retries', steps', edges') /\ Outcome
  BY <1>1, <1>5, <1>11, OtherJobs
<1>13. quality' = quality /\ retries' = retries /\ steps'[n].status # "running"
  BY <1>5, <1>6
<1> QED
  BY <1>2, <1>6, <1>7, <1>8, <1>10, <1>11, <1>12, <1>13, Progress

-----------------------------------------------------------------------------
(* A revision. *)

\* A gate that starts again has nothing open.
LEMMA GateRestarted ==
  ASSUME RowsTyped, NEW g \in Gates, GateFits(g), ApprovalsKept(g), steps'[g] = steps[g],
         steps[g].status # "waiting", Current(g)'.status # "waiting", ~Passed(g)'
  PROVE  GateFits(g)'
<1>1. Current(g).status # "waiting"
  BY CurrentCases, GraphFacts DEF NoStep
<1>2. PendingFor(g)' = {}
  BY <1>1 DEF GateFits, WaitMatches, PendingFor, ApprovalsKept, SameApproval
<1>3. ASSUME NEW k \in DOMAIN approvals', approvals'[k].node = g PROVE ApprovalFits(k)'
  BY <1>3 DEF ApprovalsKept, SameApproval, GateFits, ApprovalFits, StepOf
<1> QED BY <1>2, <1>3 DEF GateFits, WaitMatches

\* While the review or its gate is under way, the region has run up to it and
\* nothing behind the gate has run in this iteration.
LEMMA RegionUnderWay ==
  ASSUME RowsTyped, StepsFit, Grounded, NEW n \in {ReviewNode, ApprovalNode},
         steps[n].status \in Unfinished
  PROVE  /\ Current(ApprovalNode).status # "completed"
         /\ \A m \in Revised \ {n} : Current(m).status = "completed"
         /\ n = ReviewNode => <<ReviewNode, ApprovalNode>> \notin edges
         /\ \A m \in Affected : steps[m].iteration <= quality.iteration
<1>1. n \in Nodes /\ Current(n) = steps[n] /\ Current(n).status \notin {"absent", "completed"}
  BY GraphFacts, RegionFacts, GoesOnNow DEF Unfinished
<1>2. <<ReviewNode, ApprovalNode>> \in Edges /\ ApprovalNode \in Nodes
  BY RegionFacts, GraphFacts
<1>3. <<ReviewNode, ApprovalNode>> \in edges => Current(ReviewNode).status = "completed"
  BY DEF Grounded
<1>4. Current(ApprovalNode).status # "absent" => <<ReviewNode, ApprovalNode>> \in edges
  BY <1>2 DEF Grounded
<1>5. Current(ApprovalNode).status # "completed"
  BY <1>1, <1>3, <1>4
<1>6. Current(ReviewNode).status # "absent"
  BY <1>1, <1>3, <1>4
<1>7. n = ApprovalNode => Current(ReviewNode).status = "completed"
  BY <1>1, <1>3, <1>4
<1>8. ASSUME NEW m \in Revised \ {n} PROVE Current(m).status = "completed"
  <2>1. CASE m = ReviewNode
    BY <1>7, <1>8, <2>1
  <2>2. CASE m # ReviewNode
    <3>1. m \in Before(ReviewNode) \ {ReviewNode} /\ ReviewNode \in Nodes
      BY <1>8, <2>2, GraphFacts DEF Revised
    <3> QED BY <1>6, <3>1, Reached
  <2> QED BY <2>1, <2>2
<1>9. ASSUME NEW m \in Affected PROVE steps[m].iteration <= quality.iteration
  <2>1. m \in Nodes /\ IterationIn(quality, m) = quality.iteration
    BY AffectedSteps DEF IterationIn
  <2>2. quality.iteration \in Nat /\ steps[m].iteration \in Nat
    BY <2>1, RowNumbers
  <2>3. CASE m \in Gates \ {ApprovalNode}
    <3>1. m \in Affected \ Revised
      BY <2>3, RegionFacts
    <3>2. Current(m).status = "absent"
      BY <1>5, <2>3, <3>1, NothingBehind
    <3>3. CASE steps[m].iteration >= quality.iteration
      <4>1. steps[m] = NoStep
        BY <2>1, <3>2, <3>3, CurrentCases DEF StepsFit
      <4> QED BY <2>2, <4>1 DEF NoStep
    <3> QED BY <2>2, <3>3
  <2>4. CASE m \notin Gates \ {ApprovalNode}
    BY <2>1, <2>4 DEF StepsFit
  <2> QED BY <2>3, <2>4
<1> QED BY <1>1, <1>3, <1>5, <1>8, <1>9

\* The step that ends the iteration completes, the region starts again, and
\* whatever it affects is at rest.
StartsAgain(n) ==
  /\ n \in {ReviewNode, ApprovalNode} /\ steps[n].status \in Unfinished
  /\ quality'.iteration = quality.iteration + 1 /\ retries' = retries
  /\ edges' = {e \in edges : e[1] \notin Affected}
  /\ steps'[n].status = "completed" /\ steps'[n].iteration = steps[n].iteration
  /\ \A m \in Nodes \ {n} : steps'[m] = steps[m]
  /\ \A m \in Affected : steps'[m].status \notin Unfinished

\* What the revision affects counts no more, all else does as before.
LEMMA RowsStartAgain ==
  ASSUME RowsTyped, RowsFit, NEW n, StartsAgain(n)
  PROVE  /\ \A m \in Affected : /\ steps'[m].iteration < IterationIn(quality, m)'
                                /\ Current(m)' = NoStep
         /\ \A m \in Nodes \ Affected :
              /\ steps'[m] = steps[m] /\ Current(m)' = Current(m)
              /\ IterationIn(quality, m)' = IterationIn(quality, m)
<1>1. n \in Affected /\ StepsFit /\ Grounded
  BY RegionFacts DEF StartsAgain, RowsFit
<1>2. ASSUME NEW m \in Affected
      PROVE  steps'[m].iteration < IterationIn(quality, m)' /\ Current(m)' = NoStep
  <2>1. m \in Nodes /\ steps[m].iteration <= quality.iteration
    BY <1>1, <1>2, RegionUnderWay, AffectedSteps DEF StartsAgain
  <2>2. steps[m].iteration \in Nat /\ quality.iteration \in Nat
    BY <2>1, RowNumbers
  <2>3. steps'[m].iteration = steps[m].iteration
    BY <2>1 DEF StartsAgain
  <2>4. IterationIn(quality, m)' = quality.iteration + 1
    BY <1>2 DEF IterationIn, StartsAgain
  <2>5. steps'[m].iteration < IterationIn(quality, m)'
    BY <2>1, <2>2, <2>3, <2>4
  <2>6. ~(steps'[m].iteration >= IterationIn(quality, m)')
    BY <2>1, <2>2, <2>3, <2>4
  <2> QED BY <2>5, <2>6 DEF Current, Row, IterationIn
<1>3. ASSUME NEW m \in Nodes \ Affected
      PROVE  /\ steps'[m] = steps[m] /\ Current(m)' = Current(m)
             /\ IterationIn(quality, m)' = IterationIn(quality, m)
  <2>1. steps'[m] = steps[m]
    BY <1>1, <1>3 DEF StartsAgain
  <2>2. IterationIn(quality, m)' = 0 /\ IterationIn(quality, m) = 0
    BY <1>3 DEF IterationIn
  <2> QED BY <2>1, <2>2 DEF Current, Row, IterationIn
<1> QED BY <1>2, <1>3

LEMMA RowsFitAgain ==
  ASSUME RowsTyped, RowsFit, RowsTyped', NEW n, StartsAgain(n),
         GateFits(ApprovalNode)' \/ n = ReviewNode,
         \A g \in Gates \ {n} : ApprovalsKept(g)
  PROVE  RowsFit'
<1>1. /\ StepsFit /\ Grounded /\ ProceedsAsApproved /\ n \in Affected
      /\ n \in {ReviewNode, ApprovalNode}
  BY RegionFacts DEF StartsAgain, RowsFit
<1>2. /\ \A m \in Affected : /\ steps'[m].iteration < IterationIn(quality, m)'
                             /\ Current(m)' = NoStep
      /\ \A m \in Nodes \ Affected :
           /\ steps'[m] = steps[m] /\ Current(m)' = Current(m)
           /\ IterationIn(quality, m)' = IterationIn(quality, m)
  BY RowsStartAgain
<1>3. \A m \in Nodes : steps'[m].iteration \in Nat /\ IterationIn(quality, m)' \in Nat
  <2>1. /\ quality'.iteration \in Nat
        /\ \A m \in Nodes : steps'[m].iteration \in Nat
    BY BoundAssumption DEF RowsTyped, StepType
  <2> QED BY <2>1 DEF IterationIn
<1>4. StepsFit'
  <2> SUFFICES ASSUME NEW m \in Nodes
               PROVE  /\ steps'[m].status = "absent" => steps'[m] = NoStep
                      /\ steps'[m].status \in Unfinished =>
                           steps'[m].iteration >= IterationIn(quality, m)'
                      /\ steps'[m].status = "waiting" => m \in Gates
                      /\ steps'[m].status = "running" => m \notin Gates
                      /\ m \notin Gates \ {ApprovalNode} =>
                           steps'[m].iteration <= IterationIn(quality, m)'
    BY DEF StepsFit, IterationIn
  <2>1. CASE m \in Affected
    <3>1. steps'[m].status \notin Unfinished
      BY <2>1 DEF StartsAgain
    <3>2. steps'[m].status = "absent" => steps'[m] = steps[m]
      BY DEF StartsAgain
    <3> QED BY <1>1, <1>2, <1>3, <2>1, <3>1, <3>2 DEF StepsFit, Unfinished
  <2>2. CASE m \notin Affected
    BY <1>1, <1>2, <2>2 DEF StepsFit
  <2> QED BY <2>1, <2>2
<1>5. Grounded'
  <2>1. ASSUME NEW e \in edges' PROVE Current(e[1])'.status = "completed"
    <3>1. e \in edges /\ e[1] \in Nodes \ Affected
      BY <2>1, GraphFacts DEF StartsAgain, RowsTyped
    <3> QED BY <1>1, <1>2, <3>1 DEF Grounded
  <2>2. ASSUME NEW m \in Nodes, Current(m)'.status # "absent", NEW e \in Edges, e[2] = m
        PROVE  e \in edges'
    <3>1. m \notin Affected
      BY <1>2, <2>2 DEF NoStep
    <3>2. e \in edges
      BY <1>1, <1>2, <2>2, <3>1 DEF Grounded
    <3>3. e[1] \notin Affected
      BY <2>2, <3>1, AffectedSteps
    <3> QED BY <3>2, <3>3 DEF StartsAgain
  <2> QED BY <2>1, <2>2 DEF Grounded
<1>6. ASSUME NEW g \in Gates PROVE GateFits(g)'
  <2>1. GateFits(g) /\ g \in Nodes
    BY GatesOfRows, GraphFacts
  <2>2. CASE g = n
    BY <1>1, <1>6, <2>2, RegionFacts
  <2>3. CASE g # n /\ g \in Affected
    <3>1. steps'[g] = steps[g] /\ steps'[g].status # "waiting"
      BY <2>1, <2>3 DEF StartsAgain, Unfinished
    <3>2. Current(g)'.status # "waiting" /\ ~Passed(g)'
      BY <1>2, <2>3 DEF NoStep, Passed, StartsAgain
    <3> QED BY <2>1, <2>3, <3>1, <3>2, GateRestarted
  <2>4. CASE g # n /\ g \notin Affected
    <3>1. Passed(g)' => Passed(g)
      BY DEF Passed, StartsAgain
    <3> QED BY <1>2, <2>1, <2>4, <3>1, GateUntouched
  <2> QED BY <2>2, <2>3, <2>4
<1>7. /\ \A k \in DOMAIN approvals' : ApprovalFits(k)'
      /\ \A g \in Gates : WaitMatches(g)'
      /\ \A e \in edges' : e[1] \in Gates => PassedOn(e[1], steps[e[1]].output)'
  <2>1. \A k \in DOMAIN approvals' : approvals'[k].node \in Gates
    <3>1. \A k \in DOMAIN approvals' : approvals'[k] \in ApprovalType
      BY LenProperties, ElementOfSeq DEF RowsTyped
    <3> QED BY <3>1 DEF ApprovalType
  <2> QED BY <1>6, <2>1 DEF GateFits, Passed
<1>8. ASSUME NEW m \in Tools, Current(m)'.output # 0
      PROVE  /\ steps'[ToolGate[m]].output = Current(m)'.output
             /\ PassedOn(ToolGate[m], steps[ToolGate[m]].output)'
  <2> DEFINE g == ToolGate[m]
  <2>1. m \in Nodes /\ g \in Gates /\ g \in Nodes /\ g \in Before(m) \ {m}
    BY ToolAssumption, BeforeSteps DEF GatedUpstream
  <2>2. m \notin Affected /\ g \notin Affected
    BY <1>2, <1>8, <2>1, AffectedAbove DEF NoStep
  <2>3. Current(m).output # 0 /\ steps[g].output = Current(m)'.output
    BY <1>1, <1>2, <1>8, <2>1, <2>2 DEF ProceedsAsApproved
  <2>4. Current(m).status # "absent"
    BY <1>1, <2>1, <2>3, CurrentCases DEF StepsFit, NoStep
  <2>5. PICK e \in edges : e[1] = g
    <3> HIDE DEF g
    <3> QED BY <1>1, <2>1, <2>4, Reached
  <2>6. Passed(g)'
    BY <2>2, <2>5 DEF Passed, StartsAgain
  <2>7. PassedOn(g, steps[g].output)' /\ steps'[g] = steps[g]
    BY <1>2, <1>6, <2>1, <2>2, <2>6 DEF GateFits
  <2> QED BY <2>3, <2>7
<1>9. ProceedsAsApproved'
  BY <1>7, <1>8 DEF ProceedsAsApproved
<1> QED BY <1>4, <1>5, <1>7, <1>9 DEF RowsFit

\* No job but that of the step that ends it is for what the revision affects.
LEMMA NoJobAffected ==
  ASSUME IInv, NEW n, StartsAgain(n), NEW j \in jobs, j.node # n
  PROVE  j.node \notin Affected
<1> SUFFICES ASSUME j.node \in Affected PROVE FALSE
  OBVIOUS
<1>1. RowsTyped /\ StepsFit /\ Grounded /\ RetriesFit /\ n \in {ReviewNode, ApprovalNode}
  BY Parts, JobCases DEF StartsAgain
<1>2. /\ Current(ApprovalNode).status # "completed"
      /\ \A m \in Revised \ {n} : Current(m).status = "completed"
      /\ n = ReviewNode => <<ReviewNode, ApprovalNode>> \notin edges
  BY <1>1, RegionUnderWay DEF StartsAgain
<1>3. PICK m \in Nodes : m = j.node
  BY JobCases
<1>4. CASE m \in Ready(quality, steps, edges)
  <2>1. Current(m).status = "absent" /\ \A e \in Edges : e[2] = m => e \in edges
    BY <1>4 DEF Ready, Absent, Current
  <2>2. m \notin Revised
    BY <1>2, <1>3, <2>1
  <2>3. m # ApprovalNode
    BY <1>1, <1>2, <1>3, <2>1, RegionFacts
  <2> QED BY <1>1, <1>2, <1>3, <2>1, <2>2, <2>3, NothingBehind
<1>5. CASE m \in Gates /\ retries[m] > 0
  <2>1. m # ApprovalNode /\ Current(m).status = "completed"
    BY <1>1, <1>3, <1>5, CurrentCases DEF RetriesFit
  <2>2. m \in Affected \ Revised
    BY <1>3, <1>5, RegionFacts
  <2>3. Current(m).status = "absent"
    BY <1>1, <1>2, <2>1, <2>2, NothingBehind
  <2> QED BY <2>1, <2>3
<1>6. CASE steps[m].status = "running"
  BY <1>3, <1>6 DEF StartsAgain, Unfinished
<1> QED BY <1>3, <1>4, <1>5, <1>6, JobCases

LEMMA Restarted ==
  ASSUME IInv, Live, RowsTyped', NEW n, StartsAgain(n),
         GateFits(ApprovalNode)' \/ n = ReviewNode,
         \A g \in Gates \ {n} : ApprovalsKept(g),
         NEW kept, kept = {j \in jobs : j.node # n},
         jobs' = kept \cup NeedJob(quality', retries', steps', edges'), Outcome
  PROVE  IInv'
<1>1. /\ RowsTyped /\ RowsFit /\ run \in RunType /\ jobs \subseteq JobType /\ RetriesFit
      /\ StepsFit /\ Grounded
      /\ \A m \in Nodes :
           steps[m].status = "running" => [node |-> m, iteration |-> steps[m].iteration] \in jobs
  BY Parts
<1>2. \A m \in Nodes \ Affected :
        /\ steps'[m] = steps[m] /\ Current(m)' = Current(m)
        /\ IterationIn(quality, m)' = IterationIn(quality, m)
  BY <1>1, RowsStartAgain
<1>3. RowsFit'
  BY <1>1, RowsFitAgain
<1>4. Current(ApprovalNode).status # "completed"
  BY <1>1, RegionUnderWay DEF StartsAgain
<1>5. RetriesFit'
  <2> SUFFICES ASSUME NEW g \in Gates, retries[g] > 0
               PROVE  /\ g # ApprovalNode
                      /\ steps'[g].status = "completed" /\ steps'[g].output = 0
                      /\ steps'[g].iteration >= IterationIn(quality, g)'
                      /\ retries[g] = steps'[g].iteration + 1
    BY DEF RetriesFit, StartsAgain, IterationIn
  <2>1. /\ g # ApprovalNode /\ steps[g].status = "completed" /\ steps[g].output = 0
        /\ steps[g].iteration >= IterationIn(quality, g) /\ g \in Nodes
        /\ retries[g] = steps[g].iteration + 1
    BY <1>1, GraphFacts DEF RetriesFit
  <2>2. Current(g).status # "absent"
    BY <2>1, CurrentCases
  <2>3. g \notin Affected
    <3>1. ASSUME g \in Affected PROVE FALSE
      <4>1. g \in Affected \ Revised
        BY <3>1, RegionFacts
      <4> QED BY <1>1, <1>4, <2>1, <2>2, <4>1, NothingBehind
    <3> QED BY <3>1
  <2> QED BY <1>2, <2>1, <2>3
<1>6. ASSUME NEW j \in kept
      PROVE  j \in NeedJob(quality', retries', steps', edges') \/ Serves(j)'
  <2>1. j \in jobs /\ j.node \in Nodes \ Affected
    BY <1>6, NoJobAffected, JobCases
  <2>2. \A e \in edges : e[2] = j.node => e \in edges'
    BY <1>1, <2>1, AffectedSteps DEF StartsAgain, RowsTyped
  <2>3. /\ IterationIn(quality, j.node)' = IterationIn(quality, j.node)
        /\ steps'[j.node] = steps[j.node] /\ retries' = retries
    BY <1>2, <2>1 DEF StartsAgain
  <2> QED BY <2>1, <2>2, <2>3, JobKept
<1>7. ASSUME NEW m \in Nodes, steps'[m].status = "running"
      PROVE  [node |-> m, iteration |-> steps'[m].iteration] \in kept
  <2>1. m # n /\ steps'[m] = steps[m]
    BY <1>7 DEF StartsAgain
  <2> QED BY <1>1, <1>7, <2>1
<1>8. kept \subseteq JobType
  BY <1>1
<1> QED BY <1>1, <1>3, <1>5, <1>6, <1>7, <1>8, Scheduled

\* The review asks for another revision.
LEMMA ReviewRestarts ==
  ASSUME IInv, NEW j \in jobs, j.node = ReviewNode, steps[ReviewNode].status = "running",
         quality.iteration < MaxRevisions,
         ~Busy(Completed(ReviewNode, steps[ReviewNode].output)),
         NEW q, q = [quality EXCEPT !.iteration = @ + 1],
         Schedule(q, retries, Completed(ReviewNode, steps[ReviewNode].output),
                  DropRoutes(Selected(ReviewNode)), approvals, jobs \ {j})
  PROVE  IInv'
<1>1. RowsTyped /\ RowsFit /\ ReviewNode \in Nodes /\ Live
  BY Parts, GraphFacts, JobCases
<1>2. PICK output \in Nat : output = steps[ReviewNode].output
  BY <1>1, RowNumbers
<1>3. /\ quality' = q /\ retries' = retries /\ approvals' = approvals
      /\ steps' = Completed(ReviewNode, output) /\ edges' = DropRoutes(Selected(ReviewNode))
      /\ jobs' = (jobs \ {j}) \cup NeedJob(quality', retries', steps', edges')
      /\ Outcome
  BY <1>2, ScheduleStores
<1>4. /\ steps' \in [Nodes -> StepType]
      /\ steps'[ReviewNode].status = "completed"
      /\ steps'[ReviewNode].iteration = steps[ReviewNode].iteration
      /\ \A m \in Nodes \ {ReviewNode} : steps'[m] = steps[m]
  BY <1>1, <1>2, <1>3, CompletedNext
<1>5. /\ quality'.iteration = quality.iteration + 1
      /\ quality' \in [iteration : 0..MaxRevisions, human : 0..MaxReviewRetries[ApprovalNode]]
  <2>1. quality \in [iteration : 0..MaxRevisions, human : 0..MaxReviewRetries[ApprovalNode]]
    BY <1>1 DEF RowsTyped
  <2>2. PICK i \in 0..MaxRevisions, h \in 0..MaxReviewRetries[ApprovalNode] :
          quality = [iteration |-> i, human |-> h]
    BY <2>1
  <2>3. q = [iteration |-> i + 1, human |-> h]
    BY <2>2
  <2>4. i + 1 \in 0..MaxRevisions
    BY <2>2, BoundAssumption
  <2> QED BY <1>3, <2>2, <2>3, <2>4
<1>6. edges' = {e \in edges : e[1] \notin Affected}
  BY <1>3, RegionFacts DEF DropRoutes, Selected
<1>7. RowsTyped'
  BY <1>1, <1>3, <1>4, <1>5, <1>6 DEF RowsTyped
<1>8. StartsAgain(ReviewNode)
  <2>1. \A m \in Affected : steps'[m].status \notin Unfinished
    BY <1>2, <1>3 DEF Busy
  <2>2. steps[ReviewNode].status \in Unfinished /\ retries' = retries
    BY <1>3 DEF Unfinished
  <2> QED BY <1>4, <1>5, <1>6, <2>1, <2>2 DEF StartsAgain
<1>9. \A g \in Gates \ {ReviewNode} : ApprovalsKept(g)
  BY <1>3, SameApprovals
<1>10. PICK kept : kept = {k \in jobs : k.node # ReviewNode}
  OBVIOUS
<1>11. jobs' = kept \cup NeedJob(quality', retries', steps', edges') /\ Outcome
  BY <1>3, <1>10, OtherJobs
<1> QED BY <1>1, <1>7, <1>8, <1>9, <1>10, <1>11, Restarted

LEMMA FinishStepInOrder ==
  ASSUME IInv, NEW j \in jobs, FinishStep(j)
  PROVE  IInv'
<1>1. steps[j.node].status = "running"
  BY DEF FinishStep
<1>2. j = [node |-> j.node, iteration |-> steps[j.node].iteration]
  BY <1>1, JobOfRunning
<1>3. CASE j.node # ReviewNode
  BY <1>1, <1>3, NodeFinished DEF FinishStep
<1>4. CASE j.node = ReviewNode
  <2>1. AfterReview(Completed(ReviewNode, steps[ReviewNode].output))
    BY <1>4 DEF FinishStep
  <2>2. PICK q \in {quality, [quality EXCEPT !.iteration = @ + 1]} :
          /\ q # quality => /\ quality.iteration < MaxRevisions
                            /\ ~Busy(Completed(ReviewNode, steps[ReviewNode].output))
          /\ Schedule(q, retries, Completed(ReviewNode, steps[ReviewNode].output),
                      IF q = quality THEN Selected(ReviewNode)
                      ELSE DropRoutes(Selected(ReviewNode)),
                      approvals, jobs \ {j})
    BY <1>2, <1>4, <2>1 DEF AfterReview
  <2>3. CASE q = quality
    BY <1>1, <1>4, <2>2, <2>3, NodeFinished
  <2>4. CASE q # quality
    BY <1>1, <1>4, <2>2, <2>4, ReviewRestarts
  <2> QED BY <2>3, <2>4
<1> QED BY <1>3, <1>4

-----------------------------------------------------------------------------
(* The end of the run. *)

LEMMA StepsEnded ==
  ASSUME NEW st \in [Nodes -> StepType], NEW rest \in {"failed", "cancelled"},
         NEW ended, ended = EndSteps(st, rest)
  PROVE  /\ ended \in [Nodes -> StepType]
         /\ \A n \in Nodes :
              /\ ended[n].iteration = st[n].iteration /\ ended[n].output = st[n].output
              /\ st[n].status \in Unfinished => ended[n].status = rest
              /\ st[n].status \notin Unfinished => ended[n] = st[n]
<1>1. ASSUME NEW row \in StepType
      PROVE  /\ [row EXCEPT !.status = rest] \in StepType
             /\ [row EXCEPT !.status = rest].iteration = row.iteration
             /\ [row EXCEPT !.status = rest].output = row.output
             /\ [row EXCEPT !.status = rest].status = rest
  BY DEF StepType, Terminal
<1>2. ended = [n \in Nodes |-> IF st[n].status \in Unfinished
                               THEN [st[n] EXCEPT !.status = rest] ELSE st[n]]
  BY DEF EndSteps
<1>3. \A n \in Nodes :
        /\ ended[n] = IF st[n].status \in Unfinished
                      THEN [st[n] EXCEPT !.status = rest] ELSE st[n]
        /\ st[n] \in StepType
  BY <1>2
<1>4. \A n \in Nodes : ended[n] \in StepType
  BY <1>1, <1>3
<1> QED BY <1>1, <1>2, <1>3, <1>4

\* The list of approvals, but for what happens at gate n.
LeavesOthers(list, n) ==
  /\ DOMAIN list = DOMAIN approvals
  /\ \A m \in DOMAIN approvals :
       /\ SameApproval(list[m], approvals[m])
       /\ approvals[m].node # n => list[m].status = approvals[m].status

\* A gate at which nothing is decided when the run ends is closed if it waits.
LEMMA GateClosed ==
  ASSUME RowsTyped, RowsFit, NEW g \in Gates, NEW status \in {"expired", "cancelled"},
         quality' = quality, edges' = edges,
         steps[g].status = "waiting" =>
           /\ steps'[g].status \in {"failed", "cancelled"}
           /\ steps'[g].iteration = steps[g].iteration,
         steps[g].status # "waiting" => steps'[g] = steps[g],
         DOMAIN approvals' = DOMAIN approvals,
         \A m \in DOMAIN approvals :
           /\ SameApproval(approvals'[m], approvals[m])
           /\ approvals[m].node = g =>
                approvals'[m].status = IF approvals[m].status = "pending" THEN status
                                       ELSE approvals[m].status
  PROVE  GateFits(g)'
<1>1. GateFits(g) /\ StepsFit /\ Grounded /\ g \in Nodes
  BY GatesOfRows, GraphFacts DEF RowsFit
<1>2. CASE steps[g].status = "waiting"
  <2>1. Current(g) = steps[g] /\ Movable(g)
    BY <1>1, <1>2, GoesOnNow, UnfinishedIsMovable DEF Unfinished
  <2>2. PICK k \in DOMAIN approvals : approvals[k].node = g /\ approvals[k].status = "pending"
    <3>1. PICK k \in DOMAIN approvals : PendingFor(g) = {k}
      BY <1>1, <1>2, <2>1 DEF GateFits, WaitMatches
    <3> QED BY <3>1 DEF PendingFor
  <2>3. Current(g)'.status # "waiting" /\ steps'[g].status # "absent"
    BY <1>2 DEF Current, Row, NoStep
  <2>4. ~Passed(g)'
    BY <2>1 DEF Passed, Movable
  <2>5. ResolvedAt(g, status)
    BY DEF ResolvedAt, SameApproval
  <2> QED BY <1>1, <1>2, <2>1, <2>2, <2>3, <2>4, <2>5, GateResolved
<1>3. CASE steps[g].status # "waiting"
  <2>1. Current(g).status # "waiting"
    BY <1>1, <1>3, CurrentCases DEF NoStep
  <2>2. \A m \in DOMAIN approvals : approvals[m].node = g => approvals[m].status # "pending"
    BY <1>1, <2>1 DEF GateFits, WaitMatches, PendingFor
  <2>3. ApprovalsKept(g)
    BY <2>2 DEF ApprovalsKept, SameApproval
  <2> QED BY <1>3, <2>3, OtherGate
<1> QED BY <1>2, <1>3

\* The run ends as node n does, or by itself if that stays as it was.
LEMMA RunEnded ==
  ASSUME IInv, Live, NEW status \in Terminal, NEW rest \in {"failed", "cancelled"},
         NEW n \in Nodes, NEW st \in [Nodes -> StepType], NEW list \in Seq(ApprovalType),
         EndRun(status, rest, st, list), LeavesOthers(list, n),
         \A m \in Nodes \ {n} : st[m] = steps[m],
         \/ st[n] = steps[n] /\ list = approvals
         \/ /\ st[n].status \in {"failed", "cancelled"} /\ Movable(n) /\ RowFits(n, st[n])
            /\ st[n].output \in {0, Current(n).output}
            /\ n \in Gates => GateFits(n)'
  PROVE  IInv'
<1>1. /\ RowsTyped /\ RowsFit /\ run \in RunType /\ StepsFit /\ Grounded
  BY Parts
<1>2. PICK closed \in {"expired", "cancelled"} :
        approvals' = ClosePending(list, closed)
  BY DEF EndRun
<1>3. /\ run' = [run EXCEPT !.status = status] /\ steps' = EndSteps(st, rest)
      /\ jobs' = {} /\ quality' = quality /\ retries' = retries /\ edges' = edges
  BY DEF EndRun
<1>4. /\ steps' \in [Nodes -> StepType]
      /\ \A m \in Nodes :
           /\ steps'[m].iteration = st[m].iteration /\ steps'[m].output = st[m].output
           /\ st[m].status \in Unfinished => steps'[m].status = rest
           /\ st[m].status \notin Unfinished => steps'[m] = st[m]
  <2>1. PICK ended : ended = EndSteps(st, rest)
    OBVIOUS
  <2>2. /\ ended \in [Nodes -> StepType]
        /\ \A m \in Nodes :
             /\ ended[m].iteration = st[m].iteration /\ ended[m].output = st[m].output
             /\ st[m].status \in Unfinished => ended[m].status = rest
             /\ st[m].status \notin Unfinished => ended[m] = st[m]
    BY <2>1, StepsEnded
  <2> QED BY <1>3, <2>1, <2>2
<1>5. /\ approvals' \in Seq(ApprovalType) /\ DOMAIN approvals' = DOMAIN approvals
      /\ \A m \in DOMAIN approvals :
           /\ SameApproval(approvals'[m], approvals[m])
           /\ approvals'[m].status = IF list[m].status = "pending" THEN closed
                                     ELSE list[m].status
  <2>1. PICK shut : shut = ClosePending(list, closed)
    OBVIOUS
  <2>2. /\ shut \in Seq(ApprovalType) /\ DOMAIN shut = DOMAIN list
        /\ \A m \in DOMAIN list :
             /\ SameApproval(shut[m], list[m])
             /\ shut[m].status = IF list[m].status = "pending" THEN closed
                                 ELSE list[m].status
    BY <2>1, ApprovalsClosed
  <2>3. \A a, b, c : SameApproval(a, b) /\ SameApproval(b, c) => SameApproval(a, c)
    BY DEF SameApproval
  <2> QED BY <1>2, <2>1, <2>2, <2>3 DEF LeavesOthers
<1>6. RowsTyped'
  BY <1>1, <1>3, <1>4, <1>5 DEF RowsTyped
<1>7. ASSUME NEW m \in Nodes PROVE steps'[m] = steps[m] \/ Moves(m)
  <2>1. steps[m].status \in Unfinished =>
          /\ Current(m) = steps[m] /\ Movable(m)
          /\ steps[m].iteration >= IterationIn(quality, m)
    BY <1>1, GoesOnNow, UnfinishedIsMovable
  <2>2. CASE st[m] = steps[m] /\ steps[m].status \notin Unfinished
    BY <1>4, <2>2
  <2>3. CASE st[m] = steps[m] /\ steps[m].status \in Unfinished
    <3>1. RowFits(m, steps'[m])
      BY <1>1, <1>4, <2>1, <2>3 DEF RowFits, StepsFit
    <3>2. Acts(m, steps'[m].output)
      BY <1>4, <2>1, <2>3 DEF Acts
    <3> QED BY <2>1, <2>3, <3>1, <3>2 DEF Moves
  <2>4. CASE st[m] # steps[m]
    <3>1. m = n /\ st[m].status \notin Unfinished /\ Movable(m) /\ RowFits(m, st[m])
          /\ st[m].output \in {0, Current(m).output}
      BY <2>4 DEF Unfinished
    <3>2. steps'[m] = st[m]
      BY <1>4, <3>1
    <3> QED BY <3>1, <3>2 DEF Moves, Acts
  <2> QED BY <2>2, <2>3, <2>4
<1>8. ASSUME NEW g \in Gates PROVE GateFits(g)'
  <2>1. g \in Nodes /\ steps[g].status # "running"
    BY <1>1, <1>8, GraphFacts DEF StepsFit
  <2>2. CASE st[g] = steps[g] /\ (g # n \/ list = approvals)
    <3>1. \A m \in DOMAIN approvals : approvals[m].node = g => list[m].status = approvals[m].status
      BY <2>2 DEF LeavesOthers
    <3>2. steps[g].status = "waiting" =>
            steps'[g].status \in {"failed", "cancelled"}
            /\ steps'[g].iteration = steps[g].iteration
      BY <1>4, <2>1, <2>2 DEF Unfinished
    <3>3. steps[g].status # "waiting" => steps'[g] = steps[g]
      BY <1>4, <2>1, <2>2 DEF Unfinished
    <3> QED BY <1>1, <1>3, <1>5, <3>1, <3>2, <3>3, GateClosed
  <2>3. CASE ~(st[g] = steps[g] /\ (g # n \/ list = approvals))
    BY <1>8, <2>1, <2>3
  <2> QED BY <2>2, <2>3
<1>9. RowsFit'
  BY <1>1, <1>3, <1>6, <1>7, <1>8, RowsMoved
<1>10. run' \in RunType /\ ~Live'
  BY <1>1, <1>3 DEF RunType, Live
<1>11. TypeOK'
  BY <1>3, <1>6, <1>10 DEF TypeOK, RowsTyped, RunType, JobType
<1>12. \A m \in Nodes : steps'[m].status \notin Unfinished
  BY <1>4 DEF Unfinished
<1>13. JobsFit'
  BY <1>3, <1>10, <1>12 DEF JobsFit, WorkResumed
<1> QED BY <1>9, <1>11, <1>13 DEF IInv

\* The run ends, and no step but for that.
LEMMA RunStopped ==
  ASSUME IInv, Live, NEW status \in Terminal, NEW rest \in {"failed", "cancelled"},
         EndRun(status, rest, steps, approvals)
  PROVE  IInv'
<1>1. steps \in [Nodes -> StepType] /\ approvals \in Seq(ApprovalType)
  BY Parts DEF RowsTyped
<1>2. LeavesOthers(approvals, Entry)
  BY DEF LeavesOthers, SameApproval
<1> QED BY <1>1, <1>2, GraphFacts, RunEnded

LEMMA EnforceRunDeadlineInOrder ==
  ASSUME IInv, EnforceRunDeadline
  PROVE  IInv'
<1>1. Live
  BY JobCases DEF EnforceRunDeadline
<1> QED BY <1>1, RunStopped DEF EnforceRunDeadline, Terminal

LEMMA CancelInOrder ==
  ASSUME IInv, Cancel
  PROVE  IInv'
BY RunStopped DEF Cancel, Live, Terminal

LEMMA FailStepInOrder ==
  ASSUME IInv, NEW j \in jobs, FailStep(j)
  PROVE  IInv'
<1>1. PICK n, i : n = j.node /\ i = j.iteration
  OBVIOUS
<1>2. /\ n \in Nodes /\ i \in Nat /\ Live /\ Movable(n)
      /\ i >= IterationIn(quality, n)
      /\ n \notin Gates \ {ApprovalNode} => i <= IterationIn(quality, n)
      /\ n \in Gates => steps[n].status = "absent" \/ steps[n].iteration < i
      /\ steps[n].status # "waiting"
  BY <1>1, JobCases, NodeOfJob
<1>3. PICK row : row = [status |-> "failed", iteration |-> i, output |-> 0]
  OBVIOUS
<1>4. row \in StepType /\ row.status = "failed" /\ row.iteration = i /\ row.output = 0
  BY <1>2, <1>3 DEF StepType, Terminal
<1>5. PICK st : st = [steps EXCEPT ![n] = row]
  OBVIOUS
<1>6. EndRun("failed", "cancelled", st, approvals)
  BY <1>1, <1>3, <1>5 DEF FailStep
<1>7. RowsTyped /\ RowsFit
  BY Parts
<1>8. /\ st \in [Nodes -> StepType] /\ st[n] = row
      /\ \A m \in Nodes \ {n} : st[m] = steps[m]
  BY <1>2, <1>4, <1>5, <1>7, StepStored
<1>9. RowFits(n, st[n])
  BY <1>2, <1>4, <1>8 DEF RowFits
<1>10. ASSUME n \in Gates PROVE GateFits(n)'
  <2>1. steps'[n] = row
    <3>1. PICK ended : ended = EndSteps(st, "cancelled")
      OBVIOUS
    <3>2. ended[n] = st[n]
      BY <1>2, <1>4, <1>8, <3>1, StepsEnded DEF Unfinished
    <3> QED BY <1>6, <1>8, <3>1, <3>2 DEF EndRun
  <2>2. GateFits(n) /\ Current(n).status # "waiting"
    BY <1>2, <1>7, <1>10, GatesOfRows, CurrentCases DEF NoStep
  <2>3. \A m \in DOMAIN approvals : approvals[m].node = n => approvals[m].status # "pending"
    BY <2>2 DEF GateFits, WaitMatches, PendingFor
  <2>4. ApprovalsKept(n)
    <3>1. PICK list : list = ClosePending(approvals, "cancelled")
      OBVIOUS
    <3>2. /\ DOMAIN list = DOMAIN approvals
          /\ \A m \in DOMAIN approvals :
               /\ SameApproval(list[m], approvals[m])
               /\ list[m].status = IF approvals[m].status = "pending" THEN "cancelled"
                                   ELSE approvals[m].status
      BY <1>7, <3>1, ApprovalsClosed DEF RowsTyped
    <3>3. approvals' = list
      BY <1>6, <3>1 DEF EndRun
    <3> QED BY <2>3, <3>2, <3>3 DEF ApprovalsKept, SameApproval
  <2>5. ~Passed(n)'
    BY <1>2, <1>6 DEF Passed, Movable, EndRun
  <2>6. Current(n)'.status # "waiting"
    BY <1>4, <2>1 DEF Current, Row, NoStep
  <2>7. steps'[n].iteration = i /\ steps'[n].status # "absent"
    BY <1>4, <2>1
  <2>8. steps[n].status = "absent" \/ steps[n].iteration < i
    BY <1>2, <1>10
  <2> QED BY <1>2, <1>7, <1>10, <2>2, <2>4, <2>5, <2>6, <2>7, <2>8, GateFailed
<1>11. LeavesOthers(approvals, n) /\ approvals \in Seq(ApprovalType)
  BY <1>7 DEF LeavesOthers, SameApproval, RowsTyped
<1>12. st[n].status \in {"failed", "cancelled"} /\ st[n].output \in {0, Current(n).output}
  BY <1>4, <1>8
<1> QED
  BY <1>2, <1>6, <1>8, <1>9, <1>10, <1>11, <1>12, RunEnded DEF Terminal

-----------------------------------------------------------------------------
(* One lemma per action: decisions. *)

\* The gate of an open approval waits, on the last of its revisions.
LEMMA OpenGate ==
  ASSUME IInv, NEW k \in DOMAIN approvals, approvals[k].status = "pending",
         NEW n, n = approvals[k].node
  PROVE  /\ n \in Gates /\ n \in Nodes /\ GateFits(n) /\ Movable(n)
         /\ steps[n].status = "waiting" /\ Current(n) = steps[n]
         /\ steps[n].iteration >= IterationIn(quality, n)
         /\ PendingFor(n) = {k} /\ approvals[k].iteration = steps[n].iteration
         /\ run.status \notin Terminal
<1>1. RowsTyped /\ RowsFit /\ StepsFit /\ Grounded /\ n \in Gates /\ n \in Nodes
  BY Parts, ApprovalRows
<1>2. GateFits(n) /\ k \in PendingFor(n)
  BY <1>1, GatesOfRows DEF PendingFor
<1>3. Current(n).status = "waiting" /\ PendingFor(n) = {k}
      /\ approvals[k].iteration = steps[n].iteration
  <2>1. Current(n).status = "waiting"
    BY <1>2 DEF GateFits, WaitMatches
  <2>2. PICK m \in DOMAIN approvals :
          PendingFor(n) = {m} /\ approvals[m].iteration = steps[n].iteration
    BY <1>2, <2>1 DEF GateFits, WaitMatches
  <2> QED BY <1>2, <2>1, <2>2
<1>4. steps[n].status = "waiting"
  BY <1>1, <1>3, CurrentCases
<1>5. run.status \notin Terminal
  BY <1>1, <1>4, Parts DEF Live, Unfinished
<1> QED
  BY <1>1, <1>2, <1>3, <1>4, <1>5, GoesOnNow, UnfinishedIsMovable DEF Unfinished

\* A gate that goes no further ends the run.
LEMMA WaitTerminated ==
  ASSUME IInv, NEW k \in DOMAIN approvals, approvals[k].status = "pending",
         NEW status \in {"failed", "cancelled"}, NEW decided \in {"rejected", "expired"},
         TerminateWait(k, status, [approvals[k] EXCEPT !.status = decided])
  PROVE  IInv'
<1>1. PICK n : n = approvals[k].node
  OBVIOUS
<1>2. /\ n \in Gates /\ n \in Nodes /\ GateFits(n) /\ Movable(n)
      /\ steps[n].status = "waiting" /\ Current(n) = steps[n]
      /\ steps[n].iteration >= IterationIn(quality, n)
      /\ PendingFor(n) = {k} /\ Live
  BY <1>1, OpenGate DEF Live
<1>3. RowsTyped /\ RowsFit /\ StepsFit
  BY Parts
<1>4. PICK old \in StepType : old = steps[n]
  BY <1>2, <1>3 DEF RowsTyped
<1>5. PICK row : row = [old EXCEPT !.status = status]
  OBVIOUS
<1>6. /\ row \in StepType /\ row.status = status /\ row.iteration = steps[n].iteration
      /\ row.output = steps[n].output
  BY <1>4, <1>5 DEF StepType, Terminal
<1>7. PICK st : st = [steps EXCEPT ![n].status = status]
  OBVIOUS
<1>8. st = [steps EXCEPT ![n] = row]
  BY <1>2, <1>3, <1>4, <1>5, <1>7 DEF RowsTyped
<1>9. /\ st \in [Nodes -> StepType] /\ st[n] = row
      /\ \A m \in Nodes \ {n} : st[m] = steps[m]
  BY <1>2, <1>3, <1>6, <1>8, StepStored
<1>10. PICK list : list = Resolved(k, decided)
  OBVIOUS
<1>11. /\ list \in Seq(ApprovalType) /\ DOMAIN list = DOMAIN approvals
       /\ \A m \in DOMAIN approvals :
            /\ SameApproval(list[m], approvals[m])
            /\ list[m].status = IF m = k THEN decided ELSE approvals[m].status
  BY <1>3, <1>10, ApprovalResolved
<1>12. EndRun(status, "cancelled", st, list)
  <2>1. [approvals EXCEPT ![k] = [approvals[k] EXCEPT !.status = decided]] = list
    BY <1>10 DEF Resolved
  <2>2. TerminateWait(k, status, [approvals[k] EXCEPT !.status = decided])
    OBVIOUS
  <2> QED BY <1>1, <1>7, <2>1, <2>2 DEF TerminateWait
<1>13. LeavesOthers(list, n)
  BY <1>1, <1>11 DEF LeavesOthers
<1>14. RowFits(n, st[n])
  BY <1>2, <1>3, <1>6, <1>9 DEF RowFits, StepsFit
<1>15. GateFits(n)'
  <2>1. steps'[n] = row
    <3>1. PICK ended : ended = EndSteps(st, "cancelled")
      OBVIOUS
    <3>2. ended[n] = st[n]
      BY <1>2, <1>6, <1>9, <3>1, StepsEnded DEF Unfinished
    <3> QED BY <1>9, <1>12, <3>1, <3>2 DEF EndRun
  <2>2. PICK closed \in {"expired", "cancelled"} : approvals' = ClosePending(list, closed)
    BY <1>12 DEF EndRun
  <2>3. /\ DOMAIN approvals' = DOMAIN approvals
        /\ \A m \in DOMAIN approvals :
             /\ SameApproval(approvals'[m], list[m])
             /\ approvals'[m].status = IF list[m].status = "pending" THEN closed
                                       ELSE list[m].status
    <3>1. PICK shut : shut = ClosePending(list, closed)
      OBVIOUS
    <3>2. /\ DOMAIN shut = DOMAIN list
          /\ \A m \in DOMAIN list :
               /\ SameApproval(shut[m], list[m])
               /\ shut[m].status = IF list[m].status = "pending" THEN closed
                                   ELSE list[m].status
      BY <1>11, <3>1, ApprovalsClosed
    <3> QED BY <1>11, <2>2, <3>1, <3>2
  <2>4. ResolvedAt(n, decided)
    <3>1. \A m \in DOMAIN approvals :
            approvals[m].node = n => (approvals[m].status = "pending" <=> m = k)
      BY <1>1, <1>2 DEF PendingFor
    <3> QED BY <1>11, <2>3, <3>1 DEF ResolvedAt, SameApproval
  <2>5. ~Passed(n)'
    BY <1>2, <1>12 DEF Passed, Movable, EndRun
  <2>6. Current(n)'.status # "waiting"
    BY <1>6, <2>1 DEF Current, Row, NoStep
  <2>7. steps'[n].iteration = steps[n].iteration /\ steps'[n].status # "absent"
    BY <1>6, <2>1
  <2> QED BY <1>1, <1>2, <1>3, <2>4, <2>5, <2>6, <2>7, GateResolved
<1>16. st[n].status \in {"failed", "cancelled"} /\ st[n].output \in {0, Current(n).output}
  BY <1>2, <1>6, <1>9
<1> QED
  BY <1>2, <1>9, <1>11, <1>12, <1>13, <1>14, <1>15, <1>16, RunEnded DEF Terminal

LEMMA ExpireInOrder ==
  ASSUME IInv, NEW k \in DOMAIN approvals, approvals[k].status = "pending", Expire(k)
  PROVE  IInv'
<1>1. Live
  BY OpenGate DEF Live
<1>2. CASE run.late
  BY <1>1, <1>2, RunStopped DEF Expire, Terminal
<1>3. CASE ~run.late
  <2>1. PICK status \in {"failed", "cancelled"} :
          TerminateWait(k, status, [approvals[k] EXCEPT !.status = "expired"])
    BY <1>3 DEF Expire
  <2> QED BY <2>1, WaitTerminated
<1> QED BY <1>2, <1>3

\* A gate is approved, or is put to the reviewers once more.
Answered(k, n, status, output, rt, ed) ==
  \/ /\ status = "approved" /\ output = k /\ rt = retries /\ ed = Selected(n)
  \/ /\ status = "retry_requested" /\ output = 0 /\ ed = edges
     /\ n # ApprovalNode /\ steps[n].iteration < MaxReviewRetries[n]
     /\ rt = [retries EXCEPT ![n] = steps[n].iteration + 1]

LEMMA WaitAnswered ==
  ASSUME IInv, NEW k \in DOMAIN approvals, approvals[k].status = "pending",
         NEW n, n = approvals[k].node,
         NEW status, NEW output, NEW rt, NEW ed, Answered(k, n, status, output, rt, ed),
         Schedule(quality, rt, Completed(n, output), ed, Resolved(k, status), jobs)
  PROVE  IInv'
<1>1. /\ n \in Gates /\ n \in Nodes /\ GateFits(n) /\ Movable(n)
      /\ steps[n].status = "waiting" /\ Current(n) = steps[n]
      /\ steps[n].iteration >= IterationIn(quality, n) /\ Live
  BY OpenGate DEF Live
<1>2. RowsTyped /\ RowsFit /\ StepsFit /\ RetriesFit
  BY <1>1, Parts
<1>3. output \in Nat /\ status \in {"approved", "retry_requested"}
      /\ steps[n].iteration \in Nat
  BY <1>1, <1>2, ApprovalRows, RowNumbers DEF Answered
<1>4. /\ quality' = quality /\ retries' = rt /\ approvals' = Resolved(k, status)
      /\ steps' = Completed(n, output) /\ edges' = ed
      /\ jobs' = jobs \cup NeedJob(quality', retries', steps', edges')
      /\ Outcome
  BY ScheduleStores
<1>5. /\ steps' \in [Nodes -> StepType]
      /\ steps'[n].status = "completed" /\ steps'[n].iteration = steps[n].iteration
      /\ steps'[n].output = output
      /\ \A m \in Nodes \ {n} : steps'[m] = steps[m]
  BY <1>1, <1>2, <1>3, <1>4, CompletedNext
<1>6. /\ approvals' \in Seq(ApprovalType) /\ DOMAIN approvals' = DOMAIN approvals
      /\ \A m \in DOMAIN approvals :
           /\ SameApproval(approvals'[m], approvals[m])
           /\ approvals'[m].status = IF m = k THEN status ELSE approvals[m].status
  <2>1. PICK list : list = Resolved(k, status)
    OBVIOUS
  <2>2. /\ list \in Seq(ApprovalType) /\ DOMAIN list = DOMAIN approvals
        /\ \A m \in DOMAIN approvals :
             /\ SameApproval(list[m], approvals[m])
             /\ list[m].status = IF m = k THEN status ELSE approvals[m].status
    BY <1>2, <1>3, <2>1, ApprovalResolved
  <2>3. approvals' = list
    BY <1>4, <2>1
  <2> QED BY <2>2, <2>3
<1>7. /\ edges' \subseteq Edges /\ edges \subseteq edges'
      /\ \A e \in edges' \ edges : e[1] = n
      /\ status # "approved" => edges' = edges
  BY <1>2, <1>4 DEF Selected, RowsTyped, Answered
<1>8. /\ retries' \in [Gates -> Nat]
      /\ \A g \in Gates \ {n} : retries'[g] = retries[g]
      /\ \/ status = "approved" /\ retries'[n] = retries[n]
         \/ /\ status = "retry_requested" /\ n # ApprovalNode /\ output = 0
            /\ retries'[n] = steps[n].iteration + 1
            /\ steps[n].iteration < MaxReviewRetries[n]
  BY <1>1, <1>2, <1>3, <1>4 DEF Answered, RowsTyped
<1>9. RowsTyped'
  <2>1. \A g \in Gates : retries[g] <= MaxReviewRetries[g]
    BY <1>2 DEF RowsTyped
  <2>2. MaxReviewRetries[n] \in Nat
    BY <1>1, BoundAssumption
  <2>3. retries'[n] <= MaxReviewRetries[n]
    BY <1>1, <1>3, <1>8, <2>1, <2>2
  <2>4. ASSUME NEW g \in Gates PROVE retries'[g] <= MaxReviewRetries[g]
    <3>1. CASE g = n
      BY <2>3, <3>1
    <3>2. CASE g # n
      BY <1>8, <2>1, <3>2
    <3> QED BY <3>1, <3>2
  <2> QED BY <1>2, <1>4, <1>5, <1>6, <1>7, <1>8, <2>4 DEF RowsTyped
<1>10. IterationIn(quality, n)' = IterationIn(quality, n)
  BY <1>4 DEF IterationIn
<1>11. Current(n)' = steps'[n]
  BY <1>1, <1>5, <1>10 DEF Current, Row
<1>12. ASSUME NEW g \in Gates PROVE GateFits(g)'
  <2>1. CASE g = n
    <3>1. ResolvedAt(n, status)
      <4>1. \A m \in DOMAIN approvals :
              approvals[m].node = n => (approvals[m].status = "pending" <=> m = k)
        BY OpenGate DEF PendingFor
      <4> QED BY <1>6, <4>1 DEF ResolvedAt, SameApproval
    <3>2. Passed(n)' => status = "approved"
      BY <1>1, <1>7 DEF Passed, Movable
    <3>3. status = "approved" => steps'[n].output = k
      BY <1>5 DEF Answered
    <3>4. status # "pending" /\ steps'[n].status # "absent" /\ Current(n)'.status # "waiting"
      BY <1>3, <1>5, <1>11
    <3>5. status = "approved" =>
            /\ steps'[n].status = "completed" /\ steps'[n].output = k
            /\ Current(n)' = steps'[n]
      BY <1>5, <1>11, <3>3
    <3>6. steps'[n].iteration = steps[n].iteration
      BY <1>5
    <3>7. GateFits(n)'
      BY <1>1, <1>2, <3>1, <3>2, <3>4, <3>5, <3>6, GateResolved
    <3> QED BY <2>1, <3>7
  <2>2. CASE g # n
    <3>1. ApprovalsKept(g)
      BY <1>6, <2>2, KeptByOthers
    <3>2. steps'[g] = steps[g]
      BY <1>5, <2>2, GraphFacts
    <3> QED BY <1>2, <1>4, <1>7, <2>2, <3>1, <3>2, OtherGate
  <2> QED BY <2>1, <2>2
<1>13. RowsFit'
  <2>1. RowFits(n, steps'[n])
    BY <1>1, <1>2, <1>5 DEF RowFits, StepsFit
  <2>2. n \notin Tools
    BY <1>1, ToolAssumption DEF GatedUpstream
  <2>3. Moves(n)
    BY <1>1, <2>1, <2>2 DEF Moves
  <2>4. \A m \in Nodes : steps'[m] = steps[m] \/ Moves(m)
    BY <1>5, <2>3
  <2>5. \A e \in edges' \ edges :
          /\ steps'[e[1]].status = "completed"
          /\ steps'[e[1]].iteration >= IterationIn(quality, e[1])
    BY <1>1, <1>5, <1>7
  <2> QED BY <1>2, <1>4, <1>7, <1>9, <1>12, <2>4, <2>5, RowsMoved
<1>14. PICK kept : kept = {j \in jobs : j.node # n}
  OBVIOUS
<1>15. kept = jobs
  BY <1>1, <1>14, NodeOfJob
<1>16. jobs' = kept \cup NeedJob(quality', retries', steps', edges') /\ Outcome
  BY <1>4, <1>15
<1>17. n \in Gates /\ retries'[n] > 0 =>
         /\ n # ApprovalNode /\ steps'[n].status = "completed" /\ steps'[n].output = 0
         /\ steps'[n].iteration >= IterationIn(quality, n)
         /\ retries'[n] = steps'[n].iteration + 1
  <2>1. ~(retries[n] > 0)
    BY <1>1, <1>2 DEF RetriesFit
  <2> QED BY <1>1, <1>5, <1>8, <2>1
<1>18. quality' = quality /\ steps'[n].status # "running"
  BY <1>4, <1>5
<1> QED
  BY <1>1, <1>5, <1>7, <1>8, <1>9, <1>13, <1>14, <1>16, <1>17, <1>18, Progress

\* The reviewers ask for another revision.
LEMMA RevisionRequested ==
  ASSUME IInv, NEW k \in DOMAIN approvals, approvals[k].status = "pending",
         RequestRevision(k)
  PROVE  IInv'
<1>1. PICK n : n = ApprovalNode
  OBVIOUS
<1>2. /\ approvals[k].node = n
      /\ n \in Gates /\ n \in Nodes /\ GateFits(n) /\ Movable(n)
      /\ steps[n].status = "waiting" /\ Current(n) = steps[n] /\ Live
  BY <1>1, OpenGate DEF RequestRevision, Live
<1>3. RowsTyped /\ RowsFit
  BY Parts
<1>4. PICK q : q = [iteration |-> quality.iteration + 1, human |-> quality.human + 1]
  OBVIOUS
<1>5. /\ quality' = q /\ retries' = retries /\ approvals' = Resolved(k, "retry_requested")
      /\ steps' = Completed(n, 0) /\ edges' = DropRoutes(edges)
      /\ jobs' = jobs \cup NeedJob(quality', retries', steps', edges')
      /\ Outcome
  BY <1>1, <1>4, ScheduleStores DEF RequestRevision
<1>6. /\ steps' \in [Nodes -> StepType]
      /\ steps'[n].status = "completed" /\ steps'[n].iteration = steps[n].iteration
      /\ \A m \in Nodes \ {n} : steps'[m] = steps[m]
  <2>1. 0 \in Nat
    OBVIOUS
  <2> QED BY <1>2, <1>3, <1>5, <2>1, CompletedNext
<1>7. /\ approvals' \in Seq(ApprovalType) /\ DOMAIN approvals' = DOMAIN approvals
      /\ \A m \in DOMAIN approvals :
           /\ SameApproval(approvals'[m], approvals[m])
           /\ approvals'[m].status = IF m = k THEN "retry_requested" ELSE approvals[m].status
  <2>1. PICK list : list = Resolved(k, "retry_requested")
    OBVIOUS
  <2>2. /\ list \in Seq(ApprovalType) /\ DOMAIN list = DOMAIN approvals
        /\ \A m \in DOMAIN approvals :
             /\ SameApproval(list[m], approvals[m])
             /\ list[m].status = IF m = k THEN "retry_requested" ELSE approvals[m].status
    BY <1>3, <2>1, ApprovalResolved
  <2>3. approvals' = list
    BY <1>5, <2>1
  <2> QED BY <2>2, <2>3
<1>8. /\ quality'.iteration = quality.iteration + 1
      /\ quality' \in [iteration : 0..MaxRevisions, human : 0..MaxReviewRetries[ApprovalNode]]
  <2>1. PICK i \in 0..MaxRevisions, h \in 0..MaxReviewRetries[ApprovalNode] :
          quality.iteration = i /\ quality.human = h
    BY <1>3 DEF RowsTyped
  <2>2. i < MaxRevisions /\ h < MaxReviewRetries[ApprovalNode]
    BY <2>1 DEF RequestRevision
  <2>3. MaxRevisions \in Nat /\ MaxReviewRetries[ApprovalNode] \in Nat
    BY BoundAssumption, RegionFacts
  <2>4. i + 1 \in 0..MaxRevisions /\ h + 1 \in 0..MaxReviewRetries[ApprovalNode]
    BY <2>1, <2>2, <2>3
  <2>5. quality' = [iteration |-> i + 1, human |-> h + 1]
    BY <1>4, <1>5, <2>1
  <2> QED BY <2>1, <2>4, <2>5
<1>9. edges' = {e \in edges : e[1] \notin Affected}
  BY <1>5 DEF DropRoutes
<1>10. RowsTyped'
  BY <1>3, <1>5, <1>6, <1>7, <1>8, <1>9 DEF RowsTyped
<1>11. StartsAgain(n)
  <2>1. \A m \in Affected : steps'[m].status \notin Unfinished
    BY <1>1, <1>5 DEF RequestRevision, Busy
  <2>2. steps[n].status \in Unfinished /\ retries' = retries
    BY <1>2, <1>5 DEF Unfinished
  <2> QED BY <1>1, <1>6, <1>8, <1>9, <2>1, <2>2 DEF StartsAgain
<1>12. GateFits(n)'
  <2>1. ResolvedAt(n, "retry_requested")
    <3>1. \A m \in DOMAIN approvals :
            approvals[m].node = n => (approvals[m].status = "pending" <=> m = k)
      BY <1>2, OpenGate DEF PendingFor
    <3> QED BY <1>7, <3>1 DEF ResolvedAt, SameApproval
  <2>2. ~Passed(n)'
    BY <1>2, <1>9 DEF Passed, Movable
  <2>3. steps'[n].status # "absent" /\ Current(n)'.status # "waiting"
    BY <1>6 DEF Current, Row, NoStep
  <2> QED BY <1>2, <1>3, <1>6, <2>1, <2>2, <2>3, GateResolved
<1>13. \A g \in Gates \ {n} : ApprovalsKept(g)
  BY <1>2, <1>7, KeptByOthers
<1>14. PICK kept : kept = {j \in jobs : j.node # n}
  OBVIOUS
<1>15. kept = jobs
  BY <1>2, <1>14, NodeOfJob
<1>16. jobs' = kept \cup NeedJob(quality', retries', steps', edges') /\ Outcome
  BY <1>5, <1>15
<1> QED
  BY <1>1, <1>2, <1>10, <1>11, <1>12, <1>13, <1>14, <1>16, Restarted

\* Nothing but approvals changes.
LEMMA ApprovalsChange ==
  ASSUME IInv, UNCHANGED <<run, quality, retries, steps, edges, jobs>>,
         approvals' \in Seq(ApprovalType), \A g \in Gates : GateFits(g)'
  PROVE  IInv'
<1>1. RowsTyped /\ RowsFit /\ JobsFit /\ TypeOK
  BY Parts DEF IInv
<1>2. RowsTyped' /\ TypeOK'
  BY <1>1 DEF RowsTyped, TypeOK
<1>3. RowsFit'
  BY <1>1, <1>2, RowsMoved
<1>4. JobsFit'
  BY <1>1 DEF JobsFit, WorkResumed, RetriesFit, Live
<1> QED BY <1>2, <1>3, <1>4 DEF IInv

LEMMA EditInOrder ==
  ASSUME IInv, NEW k \in DOMAIN approvals, approvals[k].status = "pending", Edit(k)
  PROVE  IInv'
<1>1. PICK n : n = approvals[k].node
  OBVIOUS
<1>2. /\ n \in Gates /\ n \in Nodes /\ GateFits(n) /\ Movable(n)
      /\ steps[n].status = "waiting" /\ Current(n) = steps[n]
  BY <1>1, OpenGate
<1>3. RowsTyped /\ RowsFit
  BY Parts
<1>4. PICK list : list = Resolved(k, "superseded")
  OBVIOUS
<1>5. /\ list \in Seq(ApprovalType) /\ DOMAIN list = DOMAIN approvals
      /\ \A m \in DOMAIN approvals :
           /\ SameApproval(list[m], approvals[m])
           /\ list[m].status = IF m = k THEN "superseded" ELSE approvals[m].status
  BY <1>3, <1>4, ApprovalResolved
<1>6. PICK new : new = NewApproval(n, approvals[k].iteration, NextRevision(k), approvals[k].due)
  OBVIOUS
<1>7. /\ new \in ApprovalType /\ new.node = n /\ new.iteration = approvals[k].iteration
      /\ new.revision = approvals[k].revision + 1 /\ new.status = "pending"
  <2>1. /\ approvals[k].iteration \in Nat /\ approvals[k].revision \in Nat \ {0}
        /\ approvals[k].due \in BOOLEAN
    BY <1>3, ApprovalRows DEF ApprovalType
  <2> QED BY <1>2, <1>6, <2>1 DEF NewApproval, NextRevision, ApprovalType
<1>8. /\ approvals' = Append(list, new)
      /\ UNCHANGED <<run, quality, retries, steps, edges, jobs>>
  BY <1>1, <1>4, <1>6 DEF Edit
<1>9. PICK longer : longer = Append(list, new)
  OBVIOUS
<1>10. /\ longer \in Seq(ApprovalType)
       /\ \E top \in Nat \ {0} :
            /\ DOMAIN longer = DOMAIN list \cup {top} /\ top \notin DOMAIN list
            /\ longer[top] = new
            /\ \A m \in DOMAIN list : longer[m] = list[m]
  BY <1>5, <1>7, <1>9, ApprovalAdded
<1>11. PICK top \in Nat \ {0} :
         /\ DOMAIN longer = DOMAIN list \cup {top} /\ top \notin DOMAIN list
         /\ longer[top] = new
         /\ \A m \in DOMAIN list : longer[m] = list[m]
  BY <1>10
<1>12. approvals' = longer
  BY <1>8, <1>9
<1>13. /\ approvals' \in Seq(ApprovalType) /\ top \notin DOMAIN approvals
       /\ DOMAIN approvals' = DOMAIN approvals \cup {top} /\ approvals'[top] = new
       /\ \A m \in DOMAIN approvals :
            /\ SameApproval(approvals'[m], approvals[m])
            /\ approvals'[m].status = IF m = k THEN "superseded" ELSE approvals[m].status
  BY <1>5, <1>10, <1>11, <1>12
<1>14. ASSUME NEW g \in Gates PROVE GateFits(g)'
  <2>1. /\ steps'[g] = steps[g] /\ Current(g)' = Current(g) /\ (Passed(g)' => Passed(g))
    BY <1>8 DEF Current, Row, IterationIn, Passed
  <2>2. CASE g = n
    <3>1. ~Passed(n)
      BY <1>2 DEF Passed, Movable
    <3> QED BY <1>1, <1>2, <1>3, <1>7, <1>13, <2>1, <2>2, <3>1, GateEdited
  <2>3. CASE g # n
    <3>1. ApprovalsKept(g)
      BY <1>1, <1>7, <1>13, <2>3 DEF ApprovalsKept, SameApproval
    <3>2. GateFits(g)
      BY <1>3, GatesOfRows
    <3> QED BY <2>1, <3>1, <3>2, GateUntouched
  <2> QED BY <2>2, <2>3
<1> QED BY <1>8, <1>13, <1>14, ApprovalsChange

LEMMA ApprovalFallsDueInOrder ==
  ASSUME IInv, NEW k \in DOMAIN approvals, ApprovalFallsDue(k)
  PROVE  IInv'
<1>1. RowsTyped /\ RowsFit
  BY Parts
<1>2. PICK list : list = [approvals EXCEPT ![k].due = TRUE]
  OBVIOUS
<1>3. /\ list \in Seq(ApprovalType) /\ DOMAIN list = DOMAIN approvals
      /\ \A m \in DOMAIN approvals :
           /\ SameApproval(list[m], approvals[m])
           /\ list[m].status = approvals[m].status
  <2>1. \A m \in DOMAIN approvals : approvals[m] \in ApprovalType
    BY <1>1, ApprovalRows
  <2>2. /\ DOMAIN list = DOMAIN approvals /\ list = [m \in DOMAIN list |-> list[m]]
        /\ \A m \in DOMAIN approvals :
             list[m] = IF m = k THEN [approvals[m] EXCEPT !.due = TRUE] ELSE approvals[m]
    BY <1>2
  <2>3. ASSUME NEW m \in DOMAIN approvals
        PROVE  /\ list[m] \in ApprovalType
               /\ SameApproval(list[m], approvals[m])
               /\ list[m].status = approvals[m].status
    <3>1. PICK a \in ApprovalType : a = approvals[m]
      BY <2>1
    <3>2. list[m] = IF m = k THEN [a EXCEPT !.due = TRUE] ELSE a
      BY <2>2, <3>1
    <3>3. /\ [a EXCEPT !.due = TRUE] \in ApprovalType
          /\ SameApproval([a EXCEPT !.due = TRUE], a)
          /\ [a EXCEPT !.due = TRUE].status = a.status
      BY DEF ApprovalType, SameApproval
    <3>4. SameApproval(a, a)
      BY DEF SameApproval
    <3> QED BY <3>1, <3>2, <3>3, <3>4
  <2>4. approvals \in Seq(ApprovalType)
    BY <1>1 DEF RowsTyped
  <2>5. list \in Seq(ApprovalType)
    BY <2>2, <2>3, <2>4, Mapped
  <2> QED BY <2>2, <2>3, <2>5
<1>4. approvals' = list /\ UNCHANGED <<run, quality, retries, steps, edges, jobs>>
  BY <1>2 DEF ApprovalFallsDue
<1>5. ASSUME NEW g \in Gates PROVE GateFits(g)'
  <2>1. ApprovalsKept(g)
    BY <1>3, <1>4 DEF ApprovalsKept, SameApproval
  <2> QED BY <1>1, <1>4, <2>1, OtherGate
<1> QED BY <1>3, <1>4, <1>5, ApprovalsChange

LEMMA DecideInOrder ==
  ASSUME IInv, NEW k \in DOMAIN approvals, NEW action \in Actions, Decide(k, action)
  PROVE  IInv'
<1>1. approvals[k].status = "pending"
  BY DEF Decide, Open
<1>2. CASE Expire(k)
  BY <1>1, <1>2, ExpireInOrder
<1>3. CASE Approve(k)
  <2>1. PICK n : n = approvals[k].node
    OBVIOUS
  <2>2. Schedule(quality, retries, Completed(n, k), Selected(n), Resolved(k, "approved"), jobs)
    BY <1>3, <2>1 DEF Approve
  <2>3. Answered(k, n, "approved", k, retries, Selected(n))
    BY DEF Answered
  <2> QED BY <1>1, <2>1, <2>2, <2>3, WaitAnswered
<1>4. CASE Reject(k)
  BY <1>1, <1>4, WaitTerminated DEF Reject
<1>5. CASE Edit(k)
  BY <1>1, <1>5, EditInOrder
<1>6. CASE RequestRevision(k)
  BY <1>1, <1>6, RevisionRequested
<1>7. CASE RequestReview(k)
  <2>1. PICK n : n = approvals[k].node
    OBVIOUS
  <2>2. PICK rt : rt = [retries EXCEPT ![n] = steps[n].iteration + 1]
    OBVIOUS
  <2>3. /\ n # ApprovalNode /\ steps[n].iteration < MaxReviewRetries[n]
        /\ Schedule(quality, rt, Completed(n, 0), edges, Resolved(k, "retry_requested"), jobs)
    BY <1>7, <2>1, <2>2 DEF RequestReview, StepOf
  <2>4. Answered(k, n, "retry_requested", 0, rt, edges)
    BY <2>2, <2>3 DEF Answered
  <2> QED BY <1>1, <2>1, <2>3, <2>4, WaitAnswered
<1> QED BY <1>2, <1>3, <1>4, <1>5, <1>6, <1>7 DEF Decide

-----------------------------------------------------------------------------
(* One lemma per action: tools and time. *)

LEMMA DispatchInOrder ==
  ASSUME IInv, NEW n \in Tools, Dispatch(n)
  PROVE  IInv'
<1>1. /\ RowsTyped /\ RowsFit /\ StepsFit /\ Grounded /\ JobsFit /\ TypeOK
      /\ n \in Nodes /\ n \notin Gates /\ ToolGate[n] \in Before(n) \ {n}
  BY Parts, ToolAssumption DEF IInv, GatedUpstream
<1>2. PICK k \in DOMAIN approvals :
        Granted(n, k) /\ steps' = [steps EXCEPT ![n].output = k]
  BY DEF Dispatch
<1>3. /\ steps[n].status = "running" /\ run.status = "running"
      /\ UNCHANGED <<run, quality, retries, edges, jobs, approvals>>
  BY DEF Dispatch
<1>4. /\ Current(n) = steps[n] /\ Movable(n) /\ steps[n].iteration >= IterationIn(quality, n)
  BY <1>1, <1>3, GoesOnNow, UnfinishedIsMovable DEF Unfinished
<1>5. PICK old \in StepType : old = steps[n]
  BY <1>1 DEF RowsTyped
<1>6. PICK row : row = [old EXCEPT !.output = k]
  OBVIOUS
<1>7. /\ row \in StepType /\ row.status = "running" /\ row.iteration = steps[n].iteration
      /\ row.output = k
  BY <1>1, <1>3, <1>5, <1>6, ApprovalRows DEF StepType
<1>8. steps' = [steps EXCEPT ![n] = row]
  BY <1>1, <1>2, <1>5, <1>6 DEF RowsTyped
<1>9. /\ steps' \in [Nodes -> StepType] /\ steps'[n] = row
      /\ \A m \in Nodes \ {n} : steps'[m] = steps[m]
  BY <1>1, <1>7, <1>8, StepStored
<1>10. RowsTyped' /\ TypeOK'
  BY <1>1, <1>3, <1>9 DEF RowsTyped, TypeOK
<1>11. ASSUME NEW g \in Gates PROVE GateFits(g)' /\ steps'[g] = steps[g]
  <2>1. steps'[g] = steps[g]
    BY <1>1, <1>9, GraphFacts
  <2>2. ApprovalsKept(g)
    BY <1>3, SameApprovals
  <2> QED BY <1>1, <1>3, <2>1, <2>2, OtherGate
<1>12. RowsFit'
  <2>1. RowFits(n, steps'[n])
    BY <1>1, <1>3, <1>4, <1>7, <1>9 DEF RowFits, StepsFit
  <2>2. Acts(n, steps'[n].output)
    <3>1. Current(n).status # "absent"
      BY <1>3, <1>4
    <3>2. Passed(ToolGate[n])
      BY <1>1, <3>1, Reached DEF Passed
    <3>3. steps[ToolGate[n]].output = k
      BY <1>2 DEF Granted
    <3> QED BY <1>7, <1>9, <3>2, <3>3 DEF Acts
  <2>3. Moves(n)
    BY <1>4, <2>1, <2>2 DEF Moves
  <2>4. \A m \in Nodes : steps'[m] = steps[m] \/ Moves(m)
    BY <1>9, <2>3
  <2> QED BY <1>1, <1>3, <1>10, <1>11, <2>4, RowsMoved
<1>13. \A m \in Nodes :
         steps'[m].status = steps[m].status /\ steps'[m].iteration = steps[m].iteration
  BY <1>3, <1>7, <1>9
<1>14. NeedJob(quality', retries', steps', edges') = NeedJob(quality, retries, steps, edges)
  <2>1. \A m \in Nodes : Absent(quality', steps', m) <=> Absent(quality, steps, m)
    BY <1>3, <1>13 DEF Absent, Row
  <2>2. Ready(quality', steps', edges') = Ready(quality, steps, edges)
    BY <1>3, <2>1 DEF Ready
  <2> QED BY <1>3, <2>2 DEF NeedJob
<1>15. Live /\ Live'
  BY <1>3 DEF Live, Terminal
<1>16. WorkResumed'
  <2>1. WorkResumed /\ \A j \in jobs : j.node \in Nodes
    BY <1>1, JobCases DEF JobsFit
  <2>2. ASSUME NEW j \in jobs, j \notin NeedJob(quality, retries, steps, edges)
        PROVE  /\ steps'[j.node].status = "running" /\ steps'[j.node].iteration = j.iteration
               /\ j.iteration = IterationIn(quality, j.node)
    BY <1>13, <1>15, <2>1, <2>2 DEF WorkResumed
  <2> QED BY <1>3, <1>14, <1>15, <2>1, <2>2 DEF WorkResumed
<1>17. RetriesFit'
  BY <1>1, <1>3, <1>11, <1>15 DEF JobsFit, RetriesFit, IterationIn
<1>18. \A m \in Nodes :
         steps'[m].status = "running" => [node |-> m, iteration |-> steps'[m].iteration] \in jobs'
  BY <1>1, <1>3, <1>13, <1>15 DEF JobsFit
<1>19. JobsFit'
  BY <1>15, <1>16, <1>17, <1>18 DEF JobsFit
<1> QED BY <1>10, <1>12, <1>19 DEF IInv

LEMMA DeadlinePassesInOrder ==
  ASSUME IInv, DeadlinePasses
  PROVE  IInv'
<1>1. RowsTyped /\ RowsFit /\ JobsFit /\ run \in RunType /\ jobs \subseteq JobType
  BY Parts DEF IInv
<1>2. /\ run' = [run EXCEPT !.late = TRUE]
      /\ UNCHANGED <<quality, retries, steps, edges, jobs, approvals>>
  BY DEF DeadlinePasses
<1>3. run' \in RunType /\ run'.status = run.status
  BY <1>1, <1>2 DEF RunType
<1>4. RowsTyped' /\ TypeOK'
  BY <1>1, <1>2, <1>3 DEF RowsTyped, TypeOK, RunType, JobType
<1>5. ASSUME NEW g \in Gates PROVE GateFits(g)'
  <2>1. ApprovalsKept(g)
    BY <1>2, SameApprovals
  <2> QED BY <1>1, <1>2, <2>1, OtherGate
<1>6. RowsFit'
  BY <1>1, <1>2, <1>4, <1>5, RowsMoved
<1>7. JobsFit'
  BY <1>1, <1>2, <1>3 DEF JobsFit, WorkResumed, RetriesFit, Live
<1> QED BY <1>4, <1>6, <1>7 DEF IInv

-----------------------------------------------------------------------------
(* The theorems. *)

LEMMA InitInOrder ==
  ASSUME Init
  PROVE  IInv
<1>1. /\ run = [status |-> "pending", late |-> FALSE]
      /\ quality = [iteration |-> 0, human |-> 0]
      /\ retries = [n \in Gates |-> 0] /\ steps = [n \in Nodes |-> NoStep]
      /\ edges = {} /\ jobs = {[node |-> Entry, iteration |-> 0]} /\ approvals = <<>>
  BY DEF Init
<1>2. \A n \in Nodes :
        steps[n] = NoStep /\ Current(n) = NoStep /\ IterationIn(quality, n) = 0
  BY <1>1 DEF Current, Row, IterationIn
<1>3. NoStep \in StepType /\ NoStep.status = "absent" /\ NoStep.output = 0
      /\ NoStep.iteration = 0
  BY DEF NoStep, StepType
<1>4. DOMAIN approvals = {} /\ approvals \in Seq(ApprovalType)
  BY <1>1
<1>5. TypeOK
  <2>1. run \in RunType /\ jobs \subseteq JobType
    BY <1>1, GraphFacts DEF RunType, JobType
  <2>2. quality \in [iteration : 0..MaxRevisions, human : 0..MaxReviewRetries[ApprovalNode]]
    BY <1>1, BoundAssumption, RegionFacts
  <2>3. retries \in [Gates -> Nat] /\ \A n \in Gates : retries[n] <= MaxReviewRetries[n]
    BY <1>1, BoundAssumption
  <2>4. steps \in [Nodes -> StepType]
    BY <1>1, <1>3
  <2>5. edges \subseteq Edges
    BY <1>1
  <2> QED BY <1>4, <2>1, <2>2, <2>3, <2>4, <2>5 DEF TypeOK, RunType, JobType
<1>6. RowsFit
  <2>1. StepsFit
    BY <1>2, <1>3 DEF StepsFit, Unfinished
  <2>2. Grounded
    BY <1>1, <1>2, <1>3 DEF Grounded
  <2>3. \A n \in Gates : WaitMatches(n)
    BY <1>2, <1>3, <1>4, GraphFacts DEF WaitMatches, PendingFor
  <2>4. ProceedsAsApproved
    <3>1. \A n \in Tools : Current(n).output = 0
      BY <1>2, <1>3, ToolAssumption
    <3> QED BY <1>1, <3>1 DEF ProceedsAsApproved
  <2> QED BY <1>4, <2>1, <2>2, <2>3, <2>4 DEF RowsFit
<1>7. Ready(quality, steps, edges) = {Entry}
  <2>1. Entry \in Ready(quality, steps, edges)
    <3>1. ASSUME NEW e \in Edges, e[2] = Entry PROVE FALSE
      <4>1. e[1] \in 1..LastNode /\ e[1] < Entry /\ LastNode \in Nat
        BY <3>1, GraphFacts DEF Nodes
      <4> QED BY <4>1 DEF Entry
    <3> QED BY <1>2, <1>3, <3>1, GraphFacts DEF Ready, Absent, Current
  <2>2. ASSUME NEW n \in Ready(quality, steps, edges), n # Entry PROVE FALSE
    <3>1. PICK e \in Edges : e[2] = n
      BY <2>2, GraphAssumption DEF Ready
    <3> QED BY <1>1, <2>2, <3>1 DEF Ready
  <2> QED BY <2>1, <2>2
<1>8. NeedJob(quality, retries, steps, edges) = jobs
  <2>1. {n \in Gates : retries[n] > 0} = {}
    BY <1>1
  <2>2. IterationIn(quality, Entry) = 0
    BY <1>2, GraphFacts
  <2> QED BY <1>1, <1>7, <2>1, <2>2 DEF NeedJob
<1>9. JobsFit
  <2>1. Live /\ run.status # "waiting" /\ jobs # {}
    BY <1>1 DEF Live, Terminal
  <2>2. RetriesFit
    BY <1>1 DEF RetriesFit
  <2>3. \A n \in Nodes : steps[n].status # "running"
    BY <1>2, <1>3
  <2> QED BY <1>8, <2>1, <2>2, <2>3 DEF JobsFit, WorkResumed
<1> QED BY <1>5, <1>6, <1>9 DEF IInv

LEMMA NextInOrder ==
  ASSUME IInv, [Next]_vars
  PROVE  IInv'
<1>1. ASSUME NEW j \in jobs, StartStep(j) PROVE IInv'
  BY <1>1, StartGateInOrder, StartNodeInOrder
<1>2. ASSUME NEW j \in jobs, FinishStep(j) PROVE IInv'
  BY <1>2, FinishStepInOrder
<1>3. ASSUME NEW j \in jobs, FailStep(j) PROVE IInv'
  BY <1>3, FailStepInOrder
<1>4. ASSUME NEW n \in Tools, Dispatch(n) PROVE IInv'
  BY <1>4, DispatchInOrder
<1>5. ASSUME NEW k \in DOMAIN approvals, NEW action \in Actions, Decide(k, action) PROVE IInv'
  BY <1>5, DecideInOrder
<1>6. ASSUME NEW k \in DOMAIN approvals, ApprovalFallsDue(k) PROVE IInv'
  BY <1>6, ApprovalFallsDueInOrder
<1>7. ASSUME NEW k \in DOMAIN approvals, ExpireWait(k) PROVE IInv'
  BY <1>7, ExpireInOrder DEF ExpireWait
<1>8. CASE DeadlinePasses
  BY <1>8, DeadlinePassesInOrder
<1>9. CASE EnforceRunDeadline
  BY <1>9, EnforceRunDeadlineInOrder
<1>10. CASE Cancel
  BY <1>10, CancelInOrder
<1>11. CASE UNCHANGED vars
  <2>1. /\ UNCHANGED <<run, quality, retries, steps, edges, jobs>> /\ approvals' = approvals
    BY <1>11 DEF vars
  <2>2. RowsTyped /\ RowsFit
    BY Parts
  <2>3. \A g \in Gates : GateFits(g)'
    BY <2>1, <2>2, OtherGate, SameApprovals
  <2> QED BY <2>1, <2>2, <2>3, ApprovalsChange DEF RowsTyped
<1> QED
  BY <1>1, <1>2, <1>3, <1>4, <1>5, <1>6, <1>7, <1>8, <1>9, <1>10, <1>11 DEF Next

\* The rows of a run always say the same thing: what counts has been reached
\* over selected routes, approvals belong to the iterations of their gates,
\* and each piece of work has its job (schedule_parallel, decide_approval,
\* restart and the ends of a run, in any order).
THEOREM Invariance == Spec => []IInv
<1>1. Init => IInv
  BY InitInOrder
<1>2. IInv /\ [Next]_vars => IInv'
  BY NextInOrder
<1> QED BY <1>1, <1>2, PTL DEF Spec

\* Rows are well formed, and revisions, automatic and human ones together,
\* stay within max_revisions, the human ones within max_review_retries too
\* (after_review, human_retry_policy).
THEOREM TypeCorrect == Spec => []TypeOK
<1>1. IInv => TypeOK
  BY DEF IInv
<1> QED BY <1>1, Invariance, PTL

\* A gate waits exactly as long as one approval of its current iteration is
\* open, the last of its revisions, and a run that has ended leaves no wait
\* and no open approval behind (close_pending, resolve, new_approval).
THEOREM WaitsHaveApprovals == Spec => []ApprovalsMatchWaits
<1>1. IInv => ApprovalsMatchWaits
  BY DEF IInv, RowsFit, JobsFit, ApprovalsMatchWaits
<1> QED BY <1>1, Invariance, PTL

\* While the run lives what is ready has its job, in the current iteration,
\* and nothing else has: a decision resumes the run once, and a revision
\* leaves no work of the iteration it replaces (schedule_parallel, restart).
THEOREM WorkIsResumed == Spec => []WorkResumed
<1>1. IInv => WorkResumed
  BY DEF IInv, JobsFit
<1> QED BY <1>1, Invariance, PTL

\* What lies behind a gate runs only on the payload of the one approval that
\* was granted in the gate's current iteration, and the write of a tool rests
\* on the approval its gate has passed on (require_approval, resolve).
THEOREM OnlyAsApproved == Spec => []ProceedsAsApproved
<1>1. IInv => ProceedsAsApproved
  BY DEF IInv, RowsFit
<1> QED BY <1>1, Invariance, PTL

=============================================================================
