------------------------- MODULE ParallelRun_proofs -------------------------
(***************************************************************************)
(* Theorems about ParallelRun, for every graph that the validator accepts  *)
(* and any number of slots, recoveries and runs.                           *)
(*                                                                         *)
(* The order is: the ways and the order of a graph; which nodes are passed *)
(* by; what Schedule makes of the rows it is handed; single rows; the few  *)
(* shapes that transactions have (the run ends, a node moves on, a job     *)
(* changes hands, a job's work goes on); one lemma per action; why a row   *)
(* is there, again with one lemma per action; what that says of regions    *)
(* and merges; and the theorems.                                           *)
(***************************************************************************)
EXTENDS ParallelRun, SequenceTheorems, FiniteSetTheorems, WellFoundedInduction, TLAPS

-----------------------------------------------------------------------------
(* Positions. *)

\* A set of naturals that is not empty has a first one.
LEMMA FirstExists ==
  ASSUME NEW n \in Nat, NEW S \in SUBSET (0..n), S # {}
  PROVE  \E m \in S : \A j \in S : m <= j
<1> DEFINE R == {p \in Nat \X Nat : p[1] < p[2]}
<1>1. IsWellFoundedOn(R, Nat)
  BY NatLessThanWellFounded, Zenon DEF OpToRel
<1>2. PICK m \in S : \A j \in S : <<j, m>> \notin R
  <2> HIDE DEF R
  <2> QED BY <1>1, WFMin, \A k \in S : k \in Nat
<1>3. ASSUME NEW j \in S, j < m PROVE FALSE
  <2>1. <<j, m>> \in Nat \X Nat /\ <<j, m>>[1] < <<j, m>>[2]
    BY <1>3
  <2> QED BY <2>1, <1>2, Zenon
<1> QED BY <1>3

-----------------------------------------------------------------------------
(* The ways of a graph.  Reach is a recursive function, which has a         *)
(* solution because its equation is monotone.                               *)

\* What is a graph at all: numbered nodes, and edges between them.
Shaped(g) ==
  /\ Len(g.nodes) \in Nat /\ Ids(g) = 1..Len(g.nodes)
  /\ EdgesMeetNodes(g)

\* The condition under which node x is reached after k steps, if the pairs of
\* S say what is reached earlier.
ReachedWith(g, start, stop, S, k, x) ==
  /\ x # stop
  /\ IF k = 0 THEN x = start
     ELSE \/ <<k - 1, x>> \in S
          \/ \E e \in g.edges : <<k - 1, e.from>> \in S /\ e.to = x

\* The largest set of pairs that explain each other solves the equation.
LEMMA ReachSolution ==
  ASSUME NEW g, NEW start, NEW stop
  PROVE  \E P \in SUBSET (Nat \X Ids(g)) : \A k \in Nat, x \in Ids(g) :
           <<k, x>> \in P <=> ReachedWith(g, start, stop, P, k, x)
<1> DEFINE Consistent ==
             {S \in SUBSET (Nat \X Ids(g)) :
                \A k \in Nat, x \in Ids(g) :
                  <<k, x>> \in S => ReachedWith(g, start, stop, S, k, x)}
           P == UNION Consistent
<1>1. P \subseteq Nat \X Ids(g)
  OBVIOUS
<1>2. ASSUME NEW k \in Nat, NEW x \in Ids(g), <<k, x>> \in P
      PROVE  ReachedWith(g, start, stop, P, k, x)
  <2>1. PICK S \in Consistent : <<k, x>> \in S
    BY <1>2
  <2>2. S \subseteq P /\ ReachedWith(g, start, stop, S, k, x)
    BY <2>1
  <2> HIDE DEF P
  <2> QED BY <2>2 DEF ReachedWith
<1>3. ASSUME NEW k \in Nat, NEW x \in Ids(g), ReachedWith(g, start, stop, P, k, x)
      PROVE  <<k, x>> \in P
  <2> DEFINE more == P \cup {<<k, x>>}
  <2>1. ASSUME NEW i \in Nat, NEW y \in Ids(g), <<i, y>> \in more
        PROVE  ReachedWith(g, start, stop, P, i, y)
    <3>1. CASE <<i, y>> \in P
      BY <1>2, <3>1
    <3>2. CASE <<i, y>> = <<k, x>>
      BY <1>3, <3>2
    <3> QED BY <2>1, <3>1, <3>2
  <2>2. ASSUME NEW i \in Nat, NEW y \in Ids(g), ReachedWith(g, start, stop, P, i, y)
        PROVE  ReachedWith(g, start, stop, more, i, y)
    <3> HIDE DEF P
    <3> QED BY <2>2 DEF ReachedWith
  <2>3. more \in SUBSET (Nat \X Ids(g))
    BY <1>1
  <2>4. more \in Consistent
    <3> HIDE DEF more, P
    <3> QED BY <2>1, <2>2, <2>3
  <2>5. \A S \in Consistent : S \subseteq P
    OBVIOUS
  <2>6. <<k, x>> \in more
    OBVIOUS
  <2> HIDE DEF more, P, Consistent
  <2> QED BY <2>4, <2>5, <2>6
<1> HIDE DEF P
<1> QED BY <1>1, <1>2, <1>3

\* The sets that the recursion of Reach describes.
Layers(g, start, stop, f) ==
  /\ f \in [Nat -> SUBSET Ids(g)]
  /\ f[0] = {start} \ {stop}
  /\ \A k \in Nat : f[k + 1] = (f[k] \cup Successors(g, f[k])) \ {stop}

\* Reach is the last of them.
LEMMA ReachEquation ==
  ASSUME NEW g, Shaped(g), NEW start \in Ids(g), NEW stop
  PROVE  \E f : Layers(g, start, stop, f) /\ Reach(g, start, stop) = f[Len(g.nodes)]
<1> DEFINE Body(f) == [k \in Nat |->
              IF k = 0 THEN {start} \ {stop}
              ELSE (f[k - 1] \cup Successors(g, f[k - 1])) \ {stop}]
           reached == CHOOSE f : f = Body(f)
<1>1. \E f : f = Body(f) /\ f \in [Nat -> SUBSET Ids(g)]
  <2>1. PICK P \in SUBSET (Nat \X Ids(g)) : \A k \in Nat, x \in Ids(g) :
           <<k, x>> \in P <=> ReachedWith(g, start, stop, P, k, x)
    BY ReachSolution
  <2> DEFINE f == [k \in Nat |-> {x \in Ids(g) : <<k, x>> \in P}]
  <2>2. ASSUME NEW k \in Nat PROVE f[k] = Body(f)[k]
    <3>1. CASE k = 0
      <4>1. f[k] = {x \in Ids(g) : x # stop /\ x = start}
        BY <2>1, <3>1 DEF ReachedWith
      <4> QED BY <3>1, <4>1
    <3>2. CASE k # 0
      <4>1. k - 1 \in Nat
        BY <3>2
      <4>2. \A x \in Ids(g) : x \in f[k] <=>
               /\ x # stop
               /\ \/ <<k - 1, x>> \in P
                  \/ \E e \in g.edges : <<k - 1, e.from>> \in P /\ e.to = x
        BY <2>1, <3>2 DEF ReachedWith
      <4>3. f[k - 1] = {x \in Ids(g) : <<k - 1, x>> \in P}
        BY <4>1
      <4>4. \A e \in g.edges : e.from \in Ids(g) /\ e.to \in Ids(g)
        BY DEF Shaped, EdgesMeetNodes
      <4>5. Successors(g, f[k - 1]) \subseteq Ids(g)
        BY <4>4 DEF Successors
      <4>6. \A x \in Ids(g) : x \in Successors(g, f[k - 1]) <=>
               \E e \in g.edges : <<k - 1, e.from>> \in P /\ e.to = x
        BY <4>3, <4>4 DEF Successors
      <4>7. f[k] \subseteq Ids(g)
        OBVIOUS
      <4>8. Body(f)[k] = (f[k - 1] \cup Successors(g, f[k - 1])) \ {stop}
        BY <3>2
      <4> HIDE DEF f, Body
      <4> QED BY <4>2, <4>3, <4>5, <4>6, <4>7, <4>8
    <3> QED BY <3>1, <3>2
  <2>3. f = [k \in Nat |-> f[k]] /\ Body(f) = [k \in Nat |-> Body(f)[k]]
    OBVIOUS
  <2>4. f \in [Nat -> SUBSET Ids(g)]
    OBVIOUS
  <2>5. f = Body(f)
    <3>1. DOMAIN f = Nat /\ DOMAIN Body(f) = Nat
      OBVIOUS
    <3> HIDE DEF f, Body
    <3> QED BY <2>2, <2>3, <3>1
  <2> HIDE DEF f, Body
  <2> QED BY <2>4, <2>5
<1>2. reached = Body(reached)
  <2> HIDE DEF Body
  <2> QED BY <1>1
<1>3. Reach(g, start, stop) = reached[Len(g.nodes)]
  BY DEF Reach
<1> HIDE DEF reached
<1>4. /\ reached[0] = {start} \ {stop}
      /\ \A k \in Nat : reached[k + 1] = (reached[k] \cup Successors(g, reached[k])) \ {stop}
  <2>1. \A k \in Nat : reached[k] = IF k = 0 THEN {start} \ {stop}
              ELSE (reached[k - 1] \cup Successors(g, reached[k - 1])) \ {stop}
    BY <1>2
  <2>2. \A k \in Nat : k + 1 \in Nat /\ k + 1 # 0 /\ (k + 1) - 1 = k
    OBVIOUS
  <2> QED BY <2>1, <2>2
<1>5. reached \in [Nat -> SUBSET Ids(g)]
  <2>1. ASSUME NEW n \in Nat PROVE \A k \in 0..n : reached[k] \subseteq Ids(g)
    <3> DEFINE Bad == {k \in 0..n : ~(reached[k] \subseteq Ids(g))}
    <3>1. SUFFICES ASSUME Bad # {} PROVE FALSE
      OBVIOUS
    <3>2. PICK k \in Bad : \A j \in Bad : k <= j
      <4>1. Bad \in SUBSET (0..n)
        OBVIOUS
      <4> HIDE DEF Bad
      <4> QED BY <3>1, <4>1, FirstExists
    <3>3. k # 0
      BY <1>4, <3>2
    <3>4. k - 1 \in 0..n /\ k - 1 \notin Bad /\ k - 1 \in Nat /\ (k - 1) + 1 = k
      BY <3>2, <3>3
    <3>5. reached[k - 1] \subseteq Ids(g)
      BY <3>4
    <3>6. Successors(g, reached[k - 1]) \subseteq Ids(g)
      BY DEF Successors, Shaped, EdgesMeetNodes
    <3>7. reached[k] = (reached[k - 1] \cup Successors(g, reached[k - 1])) \ {stop}
      BY <1>4, <3>4
    <3> QED BY <3>2, <3>5, <3>6, <3>7
  <2>2. \A k \in Nat : reached[k] \subseteq Ids(g)
    <3> TAKE k \in Nat
    <3>1. k \in 0..k
      OBVIOUS
    <3> QED BY <2>1, <3>1
  <2>3. reached = [k \in Nat |-> reached[k]]
    <3> QED BY <1>2
  <2> QED BY <2>2, <2>3
<1> QED BY <1>3, <1>4, <1>5 DEF Layers

\* Reach holds its start, ends at its stop, follows every edge that does not
\* lead there, and holds nothing else.
LEMMA ReachClosed ==
  ASSUME NEW g, Shaped(g), NEW start \in Ids(g), NEW stop, start # stop
  PROVE  /\ Reach(g, start, stop) \subseteq Ids(g)
         /\ start \in Reach(g, start, stop) /\ stop \notin Reach(g, start, stop)
         /\ \A e \in g.edges :
              e.from \in Reach(g, start, stop) /\ e.to # stop => e.to \in Reach(g, start, stop)
<1> DEFINE N == Len(g.nodes)
<1>0. PICK f : Layers(g, start, stop, f) /\ Reach(g, start, stop) = f[N]
  BY ReachEquation
<1>1. /\ f \in [Nat -> SUBSET Ids(g)]
      /\ f[0] = {start} \ {stop}
      /\ \A k \in Nat : f[k + 1] = (f[k] \cup Successors(g, f[k])) \ {stop}
      /\ Reach(g, start, stop) = f[N]
  BY <1>0 DEF Layers
<1>2. N \in Nat /\ Ids(g) = 1..N
  BY DEF Shaped
<1> HIDE DEF N
<1>3. ASSUME NEW k \in Nat PROVE stop \notin f[k] /\ f[k] \subseteq f[k + 1]
  <2>1. stop \notin f[k]
    <3>1. CASE k = 0
      BY <1>1, <3>1
    <3>2. CASE k # 0
      <4>1. k - 1 \in Nat /\ (k - 1) + 1 = k
        BY <3>2
      <4> QED BY <1>1, <4>1
    <3> QED BY <3>1, <3>2
  <2> QED BY <1>1, <2>1
<1>4. start \in f[0] /\ f[0] = {start}
  BY <1>1
<1>5. start \in f[N]
  <2> DEFINE Bad == {k \in 0..N : start \notin f[k]}
  <2>1. SUFFICES ASSUME Bad # {} PROVE FALSE
    BY <1>2
  <2>2. Bad \in SUBSET (0..N)
    OBVIOUS
  <2>3. PICK k \in Bad : \A j \in Bad : k <= j
    <3> HIDE DEF Bad
    <3> QED BY <1>2, <2>1, <2>2, FirstExists
  <2>4. k # 0
    BY <1>4, <2>3
  <2>5. k - 1 \in 0..N /\ k - 1 \notin Bad /\ k - 1 \in Nat /\ (k - 1) + 1 = k
    BY <1>2, <2>3, <2>4
  <2>6. start \in f[k - 1]
    BY <2>5
  <2> QED BY <1>3, <2>3, <2>5, <2>6
<1>6. f[N + 1] = f[N]
  <2> SUFFICES ASSUME f[N + 1] # f[N] PROVE FALSE
    OBVIOUS
  <2>1. ASSUME NEW k \in 0..N, f[k + 1] = f[k] PROVE FALSE
    <3> DEFINE Bad == {j \in 0..(N + 1) : k <= j /\ f[j] # f[k]}
    <3>1. N + 1 \in Bad \/ N \in Bad
      BY <1>2
    <3>2. N + 1 \in Nat /\ Bad \in SUBSET (0..(N + 1)) /\ Bad # {}
      BY <1>2, <3>1
    <3>3. PICK j \in Bad : \A i \in Bad : j <= i
      <4> HIDE DEF Bad
      <4> QED BY <3>2, FirstExists
    <3>4. j # k /\ k <= j /\ j \in Nat
      BY <1>2, <3>3
    <3>5. j - 1 \in 0..(N + 1) /\ k <= j - 1 /\ j - 1 \in Nat /\ (j - 1) + 1 = j /\ j - 1 \notin Bad
      BY <1>2, <3>3, <3>4
    <3>6. f[j - 1] = f[k]
      BY <3>5
    <3>7. k \in Nat
      OBVIOUS
    <3>8. f[j] = f[k + 1]
      BY <1>1, <3>5, <3>6, <3>7
    <3> QED BY <2>1, <3>3, <3>8
  <2>2. ASSUME NEW k \in Nat PROVE IsFiniteSet(f[k]) /\ Cardinality(f[k]) \in Nat
    <3>1. 1 \in Int /\ N \in Int /\ f[k] \in SUBSET (1..N)
      BY <1>1, <1>2
    <3>2. IsFiniteSet(1..N)
      BY <3>1, FS_Interval
    <3>3. IsFiniteSet(f[k])
      BY <3>1, <3>2, FS_Subset
    <3> QED BY <3>3, FS_CardinalityType
  <2> DEFINE Small == {k \in 0..N : ~(Cardinality(f[k]) >= k + 1)}
  <2>3. Small = {}
    <3>1. SUFFICES ASSUME Small # {} PROVE FALSE
      OBVIOUS
    <3>2. Small \in SUBSET (0..N)
      OBVIOUS
    <3>3. PICK k \in Small : \A j \in Small : k <= j
      <4> HIDE DEF Small
      <4> QED BY <1>2, <3>1, <3>2, FirstExists
    <3>4. Cardinality(f[0]) = 1
      BY <1>4, FS_Singleton
    <3>5. k # 0
      BY <3>3, <3>4
    <3>6. PICK i : i = k - 1
      OBVIOUS
    <3>7. i \in 0..N /\ i \in Nat /\ i + 1 = k /\ i \notin Small
      BY <1>2, <3>3, <3>5, <3>6
    <3>8. Cardinality(f[i]) >= i + 1
      BY <3>7
    <3>9. f[k] # f[i] /\ f[i] \in SUBSET f[k] /\ k \in Nat
      BY <1>3, <2>1, <3>7
    <3>10. Cardinality(f[i]) <= Cardinality(f[k]) /\ Cardinality(f[i]) # Cardinality(f[k])
      BY <2>2, <3>9, FS_Subset
    <3>11. Cardinality(f[k]) >= k + 1
      BY <2>2, <3>7, <3>8, <3>9, <3>10
    <3> QED BY <3>3, <3>11
  <2>4. Cardinality(f[N]) >= N + 1
    BY <1>2, <2>3
  <2>5. f[N] \in SUBSET (1..N) /\ IsFiniteSet(1..N) /\ Cardinality(1..N) = N
    BY <1>1, <1>2, FS_Interval
  <2>6. Cardinality(f[N]) <= N
    BY <2>5, FS_Subset
  <2> QED BY <1>2, <2>2, <2>4, <2>6
<1>7. ASSUME NEW e \in g.edges, e.from \in f[N], e.to # stop PROVE e.to \in f[N]
  <2>1. e.to \in Successors(g, f[N])
    BY <1>7 DEF Successors
  <2> QED BY <1>1, <1>2, <1>6, <1>7, <2>1
<1> QED BY <1>1, <1>2, <1>3, <1>5, <1>7

\* Reach is within every set that holds its start and follows the edges.
LEMMA ReachLeast ==
  ASSUME NEW g, Shaped(g), NEW start \in Ids(g), NEW stop, NEW C, start \in C,
         \A e \in g.edges : e.from \in C /\ e.to # stop => e.to \in C
  PROVE  Reach(g, start, stop) \subseteq C
<1> DEFINE N == Len(g.nodes)
<1>0. PICK f : Layers(g, start, stop, f) /\ Reach(g, start, stop) = f[N]
  BY ReachEquation
<1>1. /\ f \in [Nat -> SUBSET Ids(g)]
      /\ f[0] = {start} \ {stop}
      /\ \A k \in Nat : f[k + 1] = (f[k] \cup Successors(g, f[k])) \ {stop}
      /\ Reach(g, start, stop) = f[N]
  BY <1>0 DEF Layers
<1>2. N \in Nat
  BY DEF Shaped
<1> HIDE DEF N
<1> DEFINE Bad == {k \in 0..N : ~(f[k] \subseteq C)}
<1>3. SUFFICES ASSUME Bad # {} PROVE FALSE
  BY <1>1, <1>2
<1>4. Bad \in SUBSET (0..N)
  OBVIOUS
<1>5. PICK k \in Bad : \A j \in Bad : k <= j
  <2> HIDE DEF Bad
  <2> QED BY <1>2, <1>3, <1>4, FirstExists
<1>6. k # 0
  BY <1>1, <1>5
<1>7. PICK i : i = k - 1
  OBVIOUS
<1>8. i \in 0..N /\ i \in Nat /\ i + 1 = k /\ i \notin Bad
  BY <1>2, <1>5, <1>6, <1>7
<1>9. f[i] \subseteq C
  BY <1>8
<1>10. \A y \in Successors(g, f[i]) : y # stop => y \in C
  BY <1>9 DEF Successors
<1>11. f[k] = (f[i] \cup Successors(g, f[i])) \ {stop}
  BY <1>1, <1>8
<1> QED BY <1>5, <1>9, <1>10, <1>11

\* What is reached beyond the start is reached by an edge.
LEMMA ReachedByEdge ==
  ASSUME NEW g, Shaped(g), NEW start \in Ids(g), NEW stop, start # stop,
         NEW x \in Reach(g, start, stop), x # start
  PROVE  \E e \in g.edges : e.from \in Reach(g, start, stop) /\ e.to = x
<1> DEFINE R == Reach(g, start, stop)
           C == {start} \cup {y \in R : \E e \in g.edges : e.from \in R /\ e.to = y}
<1>1. /\ start \in R
      /\ \A e \in g.edges : e.from \in R /\ e.to # stop => e.to \in R
  BY ReachClosed
<1> HIDE DEF R
<1>2. \A e \in g.edges : e.from \in C /\ e.to # stop => e.to \in C
  BY <1>1
<1>3. start \in C
  OBVIOUS
<1>4. R \subseteq C
  <2> HIDE DEF C
  <2> QED BY <1>2, <1>3, ReachLeast DEF R
<1> QED BY <1>4 DEF R

-----------------------------------------------------------------------------
(* The order of the nodes. *)

Ordered(g) == Shaped(g) /\ Acyclic(g)

\* The nodes that follow n, with n itself, and how many they are: fewer along
\* each edge.
After(g, n) == Reach(g, n, NoPartner)
Depth(g, n) == Cardinality(After(g, n))

\* What follows a node follows what the node follows.
LEMMA AfterClosed ==
  ASSUME NEW g, Shaped(g), NEW n \in Ids(g)
  PROVE  /\ After(g, n) \subseteq Ids(g) /\ n \in After(g, n)
         /\ \A e \in g.edges : e.from \in After(g, n) => e.to \in After(g, n)
         /\ \A m \in After(g, n) : After(g, m) \subseteq After(g, n)
<1>1. NoPartner \notin Ids(g)
  BY DEF Shaped, NoPartner
<1>2. n # NoPartner
  BY <1>1
<1>3. \A e \in g.edges : e.to # NoPartner
  BY <1>1 DEF Shaped, EdgesMeetNodes
<1>4. /\ After(g, n) \subseteq Ids(g) /\ n \in After(g, n)
      /\ \A e \in g.edges : e.from \in After(g, n) => e.to \in After(g, n)
  BY <1>2, <1>3, ReachClosed DEF After
<1>5. ASSUME NEW m \in After(g, n) PROVE After(g, m) \subseteq After(g, n)
  <2>1. m \in Ids(g)
    BY <1>4
  <2> QED BY <1>4, <2>1, ReachLeast DEF After
<1> QED BY <1>4, <1>5

\* Along an edge fewer nodes follow, for there are no cycles.
LEMMA Descends ==
  ASSUME NEW g, Ordered(g), NEW n \in Ids(g)
  PROVE  /\ Depth(g, n) \in 0..Len(g.nodes)
         /\ \A m \in After(g, n) : m \in Ids(g) /\ Depth(g, m) <= Depth(g, n)
         /\ \A e \in Out(g, n) : e.to \in Ids(g) /\ Depth(g, e.to) < Depth(g, n)
<1>1. Shaped(g) /\ Len(g.nodes) \in Nat /\ Ids(g) = 1..Len(g.nodes)
  BY DEF Ordered, Shaped
<1>2. IsFiniteSet(Ids(g)) /\ Cardinality(Ids(g)) = Len(g.nodes)
  BY <1>1, FS_Interval
<1>3. ASSUME NEW m \in Ids(g)
      PROVE  /\ After(g, m) \in SUBSET Ids(g) /\ IsFiniteSet(After(g, m))
             /\ Depth(g, m) \in Nat /\ Depth(g, m) <= Len(g.nodes)
  <2>1. After(g, m) \in SUBSET Ids(g)
    BY <1>1, AfterClosed
  <2>2. IsFiniteSet(After(g, m)) /\ Cardinality(After(g, m)) <= Len(g.nodes)
    BY <1>2, <2>1, FS_Subset
  <2> QED BY <2>1, <2>2, FS_CardinalityType DEF Depth
<1>4. ASSUME NEW m \in After(g, n)
      PROVE  /\ m \in Ids(g) /\ After(g, m) \in SUBSET After(g, n)
             /\ Depth(g, m) <= Depth(g, n)
             /\ Depth(g, m) = Depth(g, n) => After(g, m) = After(g, n)
  <2>1. m \in Ids(g) /\ After(g, m) \in SUBSET After(g, n)
    BY <1>1, AfterClosed
  <2> QED BY <1>3, <2>1, FS_Subset DEF Depth
<1>5. ASSUME NEW e \in Out(g, n) PROVE e.to \in Ids(g) /\ Depth(g, e.to) < Depth(g, n)
  <2>1. e \in g.edges /\ e.from = n
    BY DEF Out
  <2>2. n \in After(g, n) /\ e.to \in After(g, n)
    BY <1>1, <2>1, AfterClosed
  <2>3. n \notin After(g, e.to)
    BY <2>1 DEF Ordered, Acyclic, After
  <2>4. Depth(g, e.to) <= Depth(g, n) /\ Depth(g, e.to) # Depth(g, n) /\ e.to \in Ids(g)
    BY <1>4, <2>2, <2>3
  <2>5. Depth(g, e.to) \in Nat /\ Depth(g, n) \in Nat
    BY <1>3, <2>4
  <2> QED BY <2>4, <2>5
<1>6. Depth(g, n) \in 0..Len(g.nodes)
  BY <1>1, <1>3
<1> QED BY <1>4, <1>5, <1>6

\* Of any nodes there is a first one.
LEMMA FirstOf ==
  ASSUME NEW g, Ordered(g), NEW S \in SUBSET Ids(g), S # {}
  PROVE  \E m \in S : \A n \in S : Depth(g, n) <= Depth(g, m)
<1> DEFINE Depths == {Len(g.nodes) - Depth(g, n) : n \in S}
<1>1. Len(g.nodes) \in Nat
  BY DEF Ordered, Shaped
<1>2. \A n \in S : Depth(g, n) \in 0..Len(g.nodes)
  BY Descends
<1>3. Depths \in SUBSET (0..Len(g.nodes)) /\ Depths # {}
  BY <1>1, <1>2
<1>4. PICK d \in Depths : \A x \in Depths : d <= x
  <2> HIDE DEF Depths
  <2> QED BY <1>1, <1>3, FirstExists
<1>5. PICK m \in S : d = Len(g.nodes) - Depth(g, m)
  BY <1>4
<1>6. ASSUME NEW n \in S PROVE Depth(g, n) <= Depth(g, m)
  <2>1. d <= Len(g.nodes) - Depth(g, n)
    BY <1>4
  <2> QED BY <1>1, <1>2, <1>5, <2>1
<1> QED BY <1>6

\* And there is a last one.
LEMMA LastOf ==
  ASSUME NEW g, Ordered(g), NEW S \in SUBSET Ids(g), S # {}
  PROVE  \E m \in S : \A n \in S : Depth(g, m) <= Depth(g, n)
<1> DEFINE Depths == {Depth(g, n) : n \in S}
<1>1. Len(g.nodes) \in Nat
  BY DEF Ordered, Shaped
<1>2. Depths \in SUBSET (0..Len(g.nodes)) /\ Depths # {}
  BY Descends
<1>3. PICK d \in Depths : \A x \in Depths : d <= x
  <2> HIDE DEF Depths
  <2> QED BY <1>1, <1>2, FirstExists
<1> QED BY <1>3

-----------------------------------------------------------------------------
(* Regions. *)

JoinOf(g, fork) == g.nodes[fork].partner

\* A branch holds its first node, leads on to its join, and is entered only
\* from its fork.
LEMMA BranchClosed ==
  ASSUME NEW g, Ordered(g), Into(g, Entry) = {},
         NEW fork \in Of(g, "fork"), ClosedRegion(g, fork), NEW b \in Out(g, fork)
  PROVE  /\ JoinOf(g, fork) \in Of(g, "join") /\ JoinOf(g, JoinOf(g, fork)) = fork
         /\ fork \in Ids(g) /\ JoinOf(g, fork) \in Ids(g)
         /\ Branch(g, b) \subseteq Ids(g) \ {Entry} /\ b.to \in Branch(g, b)
         /\ \A n \in Branch(g, b) :
              /\ Out(g, n) # {}
              /\ \A e \in Out(g, n) : e.to = JoinOf(g, fork) \/ e.to \in Branch(g, b)
              /\ \A e \in Into(g, n) : e.from \in Branch(g, b) \cup {fork}
         /\ Branch(g, b) \subseteq After(g, b.to)
<1> DEFINE join == JoinOf(g, fork)
<1>1. Shaped(g) /\ b \in g.edges /\ b.from = fork
  BY DEF Ordered, Out
<1>2. b.to \in Ids(g) /\ fork \in Ids(g)
  BY <1>1 DEF Shaped, EdgesMeetNodes
<1>3. /\ Matched(g, fork, join)
      /\ b.to # join
      /\ \A n \in Branch(g, b) :
           /\ LeadsOn(g, n)
           /\ \A f \in Into(g, n) : f.from \in Branch(g, b) \cup {fork}
  BY DEF ClosedRegion, JoinOf
<1>4. Branch(g, b) = Reach(g, b.to, join)
  BY <1>1 DEF Branch, JoinOf
<1>5. join \in Of(g, "join") /\ join \in Ids(g) /\ JoinOf(g, join) = fork
  BY <1>3 DEF Matched, Of, JoinOf
<1> HIDE DEF join
<1>6. /\ Branch(g, b) \subseteq Ids(g) /\ b.to \in Branch(g, b)
      /\ \A e \in g.edges : e.from \in Branch(g, b) /\ e.to # join => e.to \in Branch(g, b)
  BY <1>1, <1>2, <1>3, <1>4, ReachClosed
<1>7. Entry \notin Branch(g, b)
  <2>1. \A e \in g.edges : e.to # Entry
    BY DEF Into
  <2>2. b.to # Entry
    BY <1>1, <2>1
  <2> QED BY <1>1, <1>2, <1>3, <1>4, <2>1, <2>2, ReachedByEdge
<1>8. ASSUME NEW n \in Branch(g, b)
      PROVE  /\ Out(g, n) # {}
             /\ \A e \in Out(g, n) : e.to = join \/ e.to \in Branch(g, b)
             /\ \A e \in Into(g, n) : e.from \in Branch(g, b) \cup {fork}
  BY <1>3, <1>6 DEF LeadsOn, Out
<1>9. Branch(g, b) \subseteq After(g, b.to)
  BY <1>1, <1>2, <1>4, AfterClosed, ReachLeast
<1> QED BY <1>2, <1>5, <1>6, <1>7, <1>8, <1>9 DEF join

\* Each branch comes to its join, which is after the fork.
LEMMA BranchEnds ==
  ASSUME NEW g, Ordered(g), Into(g, Entry) = {},
         NEW fork \in Of(g, "fork"), ClosedRegion(g, fork), NEW b \in Out(g, fork)
  PROVE  /\ JoinOf(g, fork) \in After(g, fork)
         /\ Depth(g, JoinOf(g, fork)) < Depth(g, fork)
<1>1. Branch(g, b) \in SUBSET Ids(g) /\ Branch(g, b) # {}
  BY BranchClosed
<1>2. PICK m \in Branch(g, b) : \A n \in Branch(g, b) : Depth(g, m) <= Depth(g, n)
  BY <1>1, LastOf
<1>3. PICK e \in Out(g, m) : TRUE
  BY BranchClosed
<1>4. m \in Ids(g) /\ e \in g.edges /\ e.from = m
  BY <1>1, <1>3 DEF Out
<1>5. Depth(g, e.to) < Depth(g, m) /\ Depth(g, e.to) \in Int /\ Depth(g, m) \in Int
  BY <1>3, <1>4, Descends
<1>6. e.to \notin Branch(g, b)
  BY <1>2, <1>5
<1>7. e.to = JoinOf(g, fork)
  BY <1>2, <1>3, <1>6, BranchClosed
<1>8. Shaped(g) /\ fork \in Ids(g) /\ b.to \in Ids(g) /\ b \in g.edges /\ b.from = fork
  BY BranchClosed DEF Ordered, Out
<1>9. e.to \in After(g, b.to)
  BY <1>2, <1>4, <1>8, BranchClosed, AfterClosed
<1>10. b.to \in After(g, fork)
  BY <1>8, AfterClosed
<1>11. e.to \in After(g, fork)
  BY <1>8, <1>9, <1>10, AfterClosed
<1>12. Depth(g, e.to) <= Depth(g, b.to) /\ Depth(g, b.to) < Depth(g, fork)
  BY <1>8, <1>9, Descends
<1>13. Depth(g, e.to) \in Int /\ Depth(g, b.to) \in Int /\ Depth(g, fork) \in Int
  BY <1>5, <1>8, Descends
<1> QED BY <1>7, <1>11, <1>12, <1>13

-----------------------------------------------------------------------------
(* Routes. *)

\* The condition under which r is a route to n, if the pairs of S are routes.
RoutedWith(g, S, n, r) ==
  IF n = Entry THEN r = {}
  ELSE IF g.nodes[n].type = "join" THEN <<g.nodes[n].partner, r>> \in S
  ELSE \E e \in Into(g, n), q \in SUBSET g.edges : <<e.from, q>> \in S /\ r = q \cup {e}

\* The largest set of pairs that explain each other solves the equation.
LEMMA RoutesSolution ==
  ASSUME NEW g
  PROVE  \E P \in SUBSET (Ids(g) \X SUBSET g.edges) :
           \A n \in Ids(g), r \in SUBSET g.edges : <<n, r>> \in P <=> RoutedWith(g, P, n, r)
<1> DEFINE Consistent ==
             {S \in SUBSET (Ids(g) \X SUBSET g.edges) :
                \A n \in Ids(g), r \in SUBSET g.edges :
                  <<n, r>> \in S => RoutedWith(g, S, n, r)}
           P == UNION Consistent
<1>1. P \subseteq Ids(g) \X SUBSET g.edges
  OBVIOUS
<1>2. ASSUME NEW n \in Ids(g), NEW r \in SUBSET g.edges, <<n, r>> \in P
      PROVE  RoutedWith(g, P, n, r)
  <2>1. PICK S \in Consistent : <<n, r>> \in S
    BY <1>2
  <2>2. S \subseteq P /\ RoutedWith(g, S, n, r)
    BY <2>1
  <2> HIDE DEF P
  <2> QED BY <2>2 DEF RoutedWith
<1>3. ASSUME NEW n \in Ids(g), NEW r \in SUBSET g.edges, RoutedWith(g, P, n, r)
      PROVE  <<n, r>> \in P
  <2> DEFINE more == P \cup {<<n, r>>}
  <2>1. ASSUME NEW m \in Ids(g), NEW q \in SUBSET g.edges, <<m, q>> \in more
        PROVE  RoutedWith(g, P, m, q)
    <3>1. CASE <<m, q>> \in P
      BY <1>2, <3>1
    <3>2. CASE <<m, q>> = <<n, r>>
      BY <1>3, <3>2
    <3> QED BY <2>1, <3>1, <3>2
  <2>2. ASSUME NEW m \in Ids(g), NEW q \in SUBSET g.edges, RoutedWith(g, P, m, q)
        PROVE  RoutedWith(g, more, m, q)
    <3> HIDE DEF P
    <3> QED BY <2>2 DEF RoutedWith
  <2>3. more \in SUBSET (Ids(g) \X SUBSET g.edges)
    BY <1>1
  <2>4. more \in Consistent
    <3> HIDE DEF more, P
    <3> QED BY <2>1, <2>2, <2>3
  <2>5. \A S \in Consistent : S \subseteq P
    OBVIOUS
  <2>6. <<n, r>> \in more
    OBVIOUS
  <2> HIDE DEF more, P, Consistent
  <2> QED BY <2>4, <2>5, <2>6
<1> HIDE DEF P
<1> QED BY <1>1, <1>2, <1>3

\* Routes solves its equation, on graphs whose joins have a partner.
LEMMA RoutesEquation ==
  ASSUME NEW g, Shaped(g), \A n \in Of(g, "join") : JoinOf(g, n) \in Ids(g)
  PROVE  /\ Entry \in Ids(g) => Routes(g)[Entry] = {{}}
         /\ \A n \in Ids(g) \ {Entry} :
              /\ n \in Of(g, "join") => Routes(g)[n] = Routes(g)[JoinOf(g, n)]
              /\ n \notin Of(g, "join") => \A r : r \in Routes(g)[n] <=>
                   \E e \in Into(g, n) : \E q \in Routes(g)[e.from] : r = q \cup {e}
<1> DEFINE Body(f) == [n \in Ids(g) |->
              IF n = Entry THEN {{}}
              ELSE IF g.nodes[n].type = "join" THEN f[g.nodes[n].partner]
              ELSE UNION {{r \cup {e} : r \in f[e.from]} : e \in Into(g, n)}]
           routes == CHOOSE f : f = Body(f)
<1>1. \E f : f = Body(f)
  <2>1. PICK P \in SUBSET (Ids(g) \X SUBSET g.edges) :
           \A n \in Ids(g), r \in SUBSET g.edges : <<n, r>> \in P <=> RoutedWith(g, P, n, r)
    BY RoutesSolution
  <2> DEFINE f == [n \in Ids(g) |-> {r \in SUBSET g.edges : <<n, r>> \in P}]
  <2>2. ASSUME NEW n \in Ids(g) PROVE f[n] = Body(f)[n]
    <3>0. f[n] = {r \in SUBSET g.edges : RoutedWith(g, P, n, r)}
      BY <2>1
    <3>1. CASE n = Entry
      <4>1. \A r : r \in f[n] <=> r = {}
        BY <3>0, <3>1 DEF RoutedWith
      <4>2. Body(f)[n] = {{}}
        BY <3>1
      <4> HIDE DEF f, Body
      <4> QED BY <4>1, <4>2
    <3>2. CASE n # Entry /\ g.nodes[n].type = "join"
      <4>1. g.nodes[n].partner \in Ids(g)
        BY <3>2 DEF Of, JoinOf
      <4>2. f[n] = {r \in SUBSET g.edges : <<g.nodes[n].partner, r>> \in P}
        BY <3>0, <3>2 DEF RoutedWith
      <4>3. f[n] = f[g.nodes[n].partner]
        BY <4>1, <4>2
      <4>4. Body(f)[n] = f[g.nodes[n].partner]
        BY <3>2
      <4> HIDE DEF f, Body
      <4> QED BY <4>3, <4>4
    <3>3. CASE n # Entry /\ g.nodes[n].type # "join"
      <4>1. \A r : r \in f[n] <=>
              /\ r \in SUBSET g.edges
              /\ \E e \in Into(g, n), q \in SUBSET g.edges : <<e.from, q>> \in P /\ r = q \cup {e}
        BY <3>0, <3>3 DEF RoutedWith
      <4>2. \A e \in Into(g, n) : e \in g.edges /\ e.from \in Ids(g)
        BY DEF Into, Shaped, EdgesMeetNodes
      <4>3. \A e \in Into(g, n) : \A q :
              q \in f[e.from] <=> q \in SUBSET g.edges /\ <<e.from, q>> \in P
        BY <4>2
      <4>4. Body(f)[n] = UNION {{r \cup {e} : r \in f[e.from]} : e \in Into(g, n)}
        BY <3>3
      <4> HIDE DEF f, Body
      <4>5. \A r : r \in Body(f)[n] <=> \E e \in Into(g, n) : \E q \in f[e.from] : r = q \cup {e}
        BY <4>4
      <4>6. ASSUME NEW r PROVE r \in f[n] <=> r \in Body(f)[n]
        <5>1. ASSUME r \in f[n] PROVE r \in Body(f)[n]
          <6>1. PICK e \in Into(g, n), q \in SUBSET g.edges : <<e.from, q>> \in P /\ r = q \cup {e}
            BY <4>1, <5>1
          <6>2. q \in f[e.from]
            BY <4>3, <6>1
          <6> QED BY <4>5, <6>1, <6>2
        <5>2. ASSUME r \in Body(f)[n] PROVE r \in f[n]
          <6>1. PICK e \in Into(g, n) : \E q \in f[e.from] : r = q \cup {e}
            BY <4>5, <5>2
          <6>2. PICK q \in f[e.from] : r = q \cup {e}
            BY <6>1
          <6>3. q \in SUBSET g.edges /\ <<e.from, q>> \in P
            BY <4>3, <6>2
          <6>4. r \in SUBSET g.edges
            BY <4>2, <6>2, <6>3
          <6> QED BY <4>1, <6>2, <6>3, <6>4
        <5> QED BY <5>1, <5>2
      <4>7. \A S, T : (\A r : r \in S <=> r \in T) => S = T
        OBVIOUS
      <4> QED BY <4>6, <4>7
    <3> QED BY <3>1, <3>2, <3>3
  <2>3. f = [n \in Ids(g) |-> f[n]] /\ Body(f) = [n \in Ids(g) |-> Body(f)[n]]
    OBVIOUS
  <2>4. f = Body(f)
    <3>1. DOMAIN f = Ids(g) /\ DOMAIN Body(f) = Ids(g)
      OBVIOUS
    <3> HIDE DEF f, Body
    <3> QED BY <2>2, <2>3, <3>1
  <2> HIDE DEF f, Body
  <2> QED BY <2>4
<1>2. routes = Body(routes)
  <2> HIDE DEF Body
  <2> QED BY <1>1
<1>3. Routes(g) = routes
  BY DEF Routes
<1> HIDE DEF routes
<1>4. \A n \in Ids(g) : routes[n] =
              IF n = Entry THEN {{}}
              ELSE IF g.nodes[n].type = "join" THEN routes[g.nodes[n].partner]
              ELSE UNION {{r \cup {e} : r \in routes[e.from]} : e \in Into(g, n)}
  BY <1>2
<1> HIDE DEF Body
<1>5. ASSUME NEW n \in Ids(g) \ {Entry}, n \notin Of(g, "join"), NEW r
      PROVE  r \in routes[n] <=>
               \E e \in Into(g, n) : \E q \in routes[e.from] : r = q \cup {e}
  <2>1. g.nodes[n].type # "join"
    BY <1>5 DEF Of
  <2>2. routes[n] = UNION {{q \cup {e} : q \in routes[e.from]} : e \in Into(g, n)}
    BY <1>4, <1>5, <2>1
  <2> QED BY <2>2
<1>6. Entry \in Ids(g) => routes[Entry] = {{}}
  BY <1>4
<1>7. \A n \in Ids(g) \ {Entry} : n \in Of(g, "join") => routes[n] = routes[JoinOf(g, n)]
  BY <1>4 DEF Of, JoinOf
<1> QED BY <1>3, <1>5, <1>6, <1>7

\* A route to a node passes only what the node follows.
LEMMA RoutesLeadOn ==
  ASSUME NEW g, Ordered(g), Into(g, Entry) = {},
         \A n \in Of(g, "join") : /\ JoinOf(g, n) \in Ids(g)
                                  /\ n \in After(g, JoinOf(g, n))
                                  /\ Depth(g, n) < Depth(g, JoinOf(g, n)),
         NEW e \in g.edges, NEW x \in Ids(g), NEW r \in Routes(g)[x], e \in r
  PROVE  x \in After(g, e.to)
<1> DEFINE Astray(n) == \E q \in Routes(g)[n] : e \in q /\ n \notin After(g, e.to)
           Bad == {n \in Ids(g) : Astray(n)}
<1>0. Shaped(g) /\ e.to \in Ids(g)
  BY DEF Ordered, Shaped, EdgesMeetNodes
<1>1. SUFFICES ASSUME Bad # {} PROVE FALSE
  OBVIOUS
<1>2. Bad \in SUBSET Ids(g)
  OBVIOUS
<1>3. PICK n \in Bad : \A m \in Bad : Depth(g, m) <= Depth(g, n)
  <2> HIDE DEF Bad
  <2> QED BY <1>1, <1>2, FirstOf
<1>4. PICK q \in Routes(g)[n] : e \in q /\ n \notin After(g, e.to)
  BY <1>3
<1>5. n \in Ids(g) /\ n # Entry
  BY <1>0, <1>3, <1>4, RoutesEquation
<1>6. \A m \in Bad : Depth(g, m) <= Depth(g, n) /\ Depth(g, m) \in Int /\ Depth(g, n) \in Int
  BY <1>2, <1>3, <1>5, Descends
<1>7. \A m \in Ids(g) : Depth(g, m) \in Int
  BY Descends
<1>8. CASE n \in Of(g, "join")
  <2>1. q \in Routes(g)[JoinOf(g, n)]
    BY <1>0, <1>4, <1>5, <1>8, RoutesEquation
  <2>2. JoinOf(g, n) \in Ids(g) /\ JoinOf(g, n) \notin Bad
    BY <1>5, <1>6, <1>7, <1>8
  <2>3. JoinOf(g, n) \in After(g, e.to)
    BY <1>4, <2>1, <2>2
  <2>4. n \in After(g, e.to)
    BY <1>0, <1>8, <2>3, AfterClosed
  <2> QED BY <1>4, <2>4
<1>9. CASE n \notin Of(g, "join")
  <2>1. PICK f \in Into(g, n) : \E p \in Routes(g)[f.from] : q = p \cup {f}
    BY <1>0, <1>4, <1>5, <1>9, RoutesEquation
  <2>2. PICK p \in Routes(g)[f.from] : q = p \cup {f}
    BY <2>1
  <2>3. f \in g.edges /\ f.to = n /\ f.from \in Ids(g) /\ f \in Out(g, f.from)
    BY <2>1 DEF Into, Out, Shaped, EdgesMeetNodes, Ordered
  <2>4. CASE f = e
    BY <1>0, <1>4, <2>3, <2>4, AfterClosed
  <2>5. CASE f # e
    <3>1. e \in p
      BY <1>4, <2>2, <2>5
    <3>2. Depth(g, n) < Depth(g, f.from)
      BY <2>3, Descends
    <3>3. f.from \notin Bad
      BY <1>3, <1>7, <2>3, <1>5, <3>2
    <3>4. f.from \in After(g, e.to)
      BY <2>2, <2>3, <3>1, <3>3
    <3>5. n \in After(g, e.to)
      BY <1>0, <2>3, <3>4, AfterClosed
    <3> QED BY <1>4, <3>5
  <2> QED BY <2>4, <2>5
<1> QED BY <1>8, <1>9

-----------------------------------------------------------------------------
(* Nodes that are passed by.  PassedBy is a recursive function; that there  *)
(* is one that solves its equation follows from its being monotone.         *)

\* The condition under which a node is passed by, if those of S are.
PassedWith(st, ed, S, n) ==
  /\ n # Entry
  /\ st[n].status = "absent"
  /\ \A e \in Into(graph, n) :
       \/ ed[e] = "skipped"
       \/ ed[e] = "open" /\ e.from \in S

\* The largest set of nodes that pass each other by solves the equation.
LEMMA PassedSolution ==
  ASSUME NEW st, NEW ed
  PROVE  \E P \in SUBSET Nodes : \A n \in Nodes : n \in P <=> PassedWith(st, ed, P, n)
<1> DEFINE Consistent == {S \in SUBSET Nodes : \A n \in S : PassedWith(st, ed, S, n)}
           P == UNION Consistent
<1>1. P \subseteq Nodes
  OBVIOUS
<1>2. ASSUME NEW n \in P PROVE PassedWith(st, ed, P, n)
  <2>1. PICK S \in Consistent : n \in S
    OBVIOUS
  <2>2. S \subseteq P
    OBVIOUS
  <2> QED BY <2>1, <2>2 DEF PassedWith
<1>3. ASSUME NEW n \in Nodes, PassedWith(st, ed, P, n) PROVE n \in P
  <2>1. \A m \in P \cup {n} : PassedWith(st, ed, P \cup {n}, m)
    BY <1>2, <1>3 DEF PassedWith
  <2>2. P \cup {n} \in Consistent
    BY <1>1, <2>1
  <2>3. P \cup {n} \subseteq P
    BY <2>2
  <2> QED BY <2>3
<1> QED BY <1>1, <1>2, <1>3

\* Two Booleans that imply each other are one.
LEMMA SameTruth ==
  ASSUME NEW a \in BOOLEAN, NEW b \in BOOLEAN, a <=> b
  PROVE  a = b
  OBVIOUS

\* PassedBy is such a set.
LEMMA PassedEquation ==
  ASSUME NEW st, NEW ed, EdgesMeetNodes(graph), NEW n \in Nodes
  PROVE  n \in PassedBy(st, ed) <=> PassedWith(st, ed, PassedBy(st, ed), n)
<1> DEFINE Body(f) == [m \in Nodes |->
              /\ m # Entry
              /\ st[m].status = "absent"
              /\ \A e \in Into(graph, m) :
                   \/ ed[e] = "skipped"
                   \/ ed[e] = "open" /\ f[e.from]]
           passed == CHOOSE f : f = Body(f)
<1>1. \A m \in Nodes : \A e \in Into(graph, m) : e.from \in Nodes
  BY DEF EdgesMeetNodes, Into, Nodes
<1>2. PICK P \in SUBSET Nodes : \A m \in Nodes : m \in P <=> PassedWith(st, ed, P, m)
  BY PassedSolution
<1>3. \E f : f = Body(f)
  <2> DEFINE f == [m \in Nodes |-> m \in P]
  <2>1. \A m \in Nodes : f[m] <=> m \in P
    OBVIOUS
  <2>2. \A m \in Nodes : PassedWith(st, ed, P, m) <=> Body(f)[m]
    <3> SUFFICES ASSUME NEW m \in Nodes PROVE PassedWith(st, ed, P, m) <=> Body(f)[m]
      OBVIOUS
    <3>1. \A e \in Into(graph, m) : e.from \in P <=> f[e.from]
      BY <1>1, <2>1
    <3> HIDE DEF f
    <3> QED BY <3>1 DEF PassedWith
  <2>3. ASSUME NEW m \in Nodes PROVE f[m] = Body(f)[m]
    <3>1. f[m] \in BOOLEAN /\ Body(f)[m] \in BOOLEAN
      OBVIOUS
    <3>2. f[m] <=> Body(f)[m]
      BY <1>2, <2>1, <2>2
    <3> HIDE DEF f, Body
    <3> QED BY <3>1, <3>2, SameTruth
  <2>4. f = [m \in Nodes |-> f[m]]
    OBVIOUS
  <2>5. Body(f) = [m \in Nodes |-> Body(f)[m]]
    OBVIOUS
  <2>6. DOMAIN f = Nodes /\ DOMAIN Body(f) = Nodes
    OBVIOUS
  <2>7. f = Body(f)
    <3> HIDE DEF f, Body
    <3> QED BY <2>3, <2>4, <2>5, <2>6
  <2> HIDE DEF f, Body
  <2> QED BY <2>7
<1>4. passed = Body(passed)
  <2> HIDE DEF Body
  <2> QED BY <1>3
<1>5. PassedBy(st, ed) = {m \in Nodes : passed[m]}
  BY DEF PassedBy
<1> HIDE DEF passed
<1>6. \A m \in Nodes : passed[m] <=> /\ m # Entry
              /\ st[m].status = "absent"
              /\ \A e \in Into(graph, m) :
                   \/ ed[e] = "skipped"
                   \/ ed[e] = "open" /\ passed[e.from]
  BY <1>4
<1> QED BY <1>1, <1>5, <1>6 DEF PassedWith

-----------------------------------------------------------------------------
(* The rows that the transactions read and write. *)

RunType == [number : 1..MaxRuns, late : BOOLEAN,
            status : {"pending", "running", "waiting", "completed", "failed", "cancelled"}]
RouteStates == {"open", "selected", "skipped"}
Done == {"completed", "skipped"}

StepsTyped(st) ==
  st \in [Nodes -> StepType] /\ \A n \in Nodes : st[n].number <= MaxAttempts(n)
JobsTyped(js) ==
  js \subseteq JobType /\ \A j \in js : j.recoveries <= MaxRecoveries

\* Steps and routes that a transaction may leave.
RowsFit(st, ed) ==
  /\ StepsTyped(st) /\ ed \in [Edges -> RouteStates]
  /\ StepsFit(st) /\ RoutesFit(st, ed)

\* A graph that is accepted has an entry and finitely many nodes.
LEMMA GraphFacts ==
  ASSUME graph \in Drafts, GraphAccepted(graph)
  PROVE  /\ IsFiniteSet(Nodes) /\ Nodes \subseteq Nat \ {NoNode} /\ Entry \in Nodes
         /\ EdgesMeetNodes(graph)
         /\ \A e \in Edges : e.from \in Nodes /\ e.to \in Nodes
         /\ \A n \in Nodes : MaxAttempts(n) \in Nat \ {0}
         /\ DelayNodes \subseteq Nodes /\ DelayNodes \cap Conditions = {}
<1>1. graph.nodes \in Seq(NodeType)
  BY DraftAssumption
<1>2. PICK k \in Nat : DOMAIN graph.nodes = 1..k /\ Len(graph.nodes) = k
  BY <1>1
<1>3. Nodes = 1..k
  BY <1>2 DEF Nodes, Ids
<1>4. \A n \in Nodes : graph.nodes[n] \in NodeType
  BY <1>1, <1>2, <1>3
<1>5. Entry \in Nodes
  BY <1>3 DEF GraphAccepted, Of, Nodes, Ids, Entry
<1>6. EdgesMeetNodes(graph)
  BY DEF GraphAccepted, Valid
<1>7. \A e \in Edges : e.from \in Nodes /\ e.to \in Nodes
  BY <1>6 DEF EdgesMeetNodes, Edges, Nodes
<1>8. IsFiniteSet(Nodes)
  BY <1>2, <1>3, FS_Interval
<1>9. \A n \in Nodes : MaxAttempts(n) \in Nat \ {0}
  BY <1>4 DEF MaxAttempts, NodeType
<1>10. DelayNodes \subseteq Nodes /\ DelayNodes \cap Conditions = {}
  BY DEF DelayNodes, Conditions, Of, Nodes
<1>11. Nodes \subseteq Nat \ {NoNode}
  BY <1>3 DEF NoNode
<1> QED BY <1>5, <1>6, <1>7, <1>8, <1>9, <1>10, <1>11

\* A node that is ready is not passed by.
LEMMA ReadyIsNotPassed ==
  ASSUME NEW st, NEW ed, EdgesMeetNodes(graph), NEW n \in Ready(st, ed)
  PROVE  n \in Nodes /\ n \notin PassedBy(st, ed)
<1>1. n \in Nodes
  BY DEF Ready
<1> QED BY <1>1, PassedEquation DEF Ready, PassedWith

\* What is passed by has no row.
LEMMA PassedIsAbsent ==
  ASSUME NEW st, NEW ed, EdgesMeetNodes(graph), NEW n \in PassedBy(st, ed)
  PROVE  n \in Nodes /\ n # Entry /\ st[n].status = "absent"
<1>1. n \in Nodes
  BY DEF PassedBy
<1> QED BY <1>1, PassedEquation DEF PassedWith

-----------------------------------------------------------------------------
(* Scheduling. *)

RowsAfter(st, ed) ==
  [n \in Nodes |-> IF n \in PassedBy(st, ed)
                   THEN [NoStep EXCEPT !.status = "skipped"] ELSE st[n]]
RoutesAfter(st, ed) ==
  [e \in Edges |-> IF e.from \in PassedBy(st, ed) THEN "skipped" ELSE ed[e]]

\* Skipping what is passed by leaves rows that fit, and what was ready or at
\* work as it was.
LEMMA PassingFits ==
  ASSUME graph \in Drafts, GraphAccepted(graph),
         NEW st, NEW ed, RowsFit(st, ed)
  PROVE  /\ RowsFit(RowsAfter(st, ed), RoutesAfter(st, ed))
         /\ \A n \in Nodes : st[n].status # "absent" => RowsAfter(st, ed)[n] = st[n]
         /\ \A n \in Nodes : st[n].status = "absent" =>
              RowsAfter(st, ed)[n].status \in {"absent", "skipped"}
         /\ Ready(st, ed) \subseteq Ready(RowsAfter(st, ed), RoutesAfter(st, ed))
<1> DEFINE P == PassedBy(st, ed)
           rows == RowsAfter(st, ed)
           routes == RoutesAfter(st, ed)
<1>1. EdgesMeetNodes(graph)
  BY GraphFacts
<1>2. \A e \in Edges : e.from \in Nodes /\ e.to \in Nodes
  BY GraphFacts
<1>3. \A n \in P : n \in Nodes /\ st[n].status = "absent"
  BY <1>1, PassedIsAbsent
<1>4. \A n \in Ready(st, ed) : n \in Nodes /\ n \notin P /\ st[n].status = "absent"
  BY <1>1, ReadyIsNotPassed DEF Ready
<1>5. \A n \in Nodes : n \notin P => rows[n] = st[n]
  BY DEF RowsAfter
<1>6. \A n \in P : rows[n] = [status |-> "skipped", number |-> 0, attempt |-> "none"]
  BY <1>3 DEF RowsAfter, NoStep
<1>7. /\ \A e \in Edges : e.from \in P => routes[e] = "skipped"
      /\ \A e \in Edges : e.from \notin P => routes[e] = ed[e]
      /\ DOMAIN routes = Edges
  BY DEF RoutesAfter
<1>8. \A e \in Edges : e.from \in P => ed[e] = "open"
  BY <1>2, <1>3 DEF RowsFit, RoutesFit
<1> HIDE DEF P, rows, routes
<1>9. StepsTyped(rows)
  <2>1. \A n \in Nodes : MaxAttempts(n) \in Nat
    BY GraphFacts
  <2>2. \A n \in P : rows[n] \in StepType /\ rows[n].number = 0
    BY <1>6 DEF StepType, Terminal
  <2>3. \A n \in Nodes : n \notin P => rows[n] \in StepType /\ rows[n].number <= MaxAttempts(n)
    BY <1>5 DEF RowsFit, StepsTyped
  <2>4. rows = [n \in Nodes |-> rows[n]]
    BY DEF rows, RowsAfter
  <2>5. \A n \in Nodes : rows[n] \in StepType
    BY <2>2, <2>3
  <2>6. \A n \in Nodes : rows[n].number <= MaxAttempts(n)
    BY <2>1, <2>2, <2>3
  <2> QED BY <2>4, <2>5, <2>6 DEF StepsTyped
<1>10. routes \in [Edges -> RouteStates]
  <2>1. \A e \in Edges : routes[e] \in RouteStates
    BY <1>7 DEF RowsFit, RouteStates
  <2>2. routes = [e \in Edges |-> routes[e]]
    BY DEF routes, RoutesAfter
  <2> QED BY <2>1, <2>2
<1>11. StepsFit(rows)
  BY <1>5, <1>6 DEF RowsFit, StepsFit
<1>12. RoutesFit(rows, routes)
  BY <1>2, <1>5, <1>6, <1>7 DEF RowsFit, RoutesFit
<1>13. \A n \in Nodes : st[n].status # "absent" => rows[n] = st[n]
  BY <1>3, <1>5
<1>14. \A n \in Nodes : st[n].status = "absent" => rows[n].status \in {"absent", "skipped"}
  BY <1>5, <1>6
<1>15. Ready(st, ed) \subseteq Ready(rows, routes)
  <2> SUFFICES ASSUME NEW n \in Ready(st, ed) PROVE n \in Ready(rows, routes)
    OBVIOUS
  <2>1. n \in Nodes /\ rows[n].status = "absent"
    BY <1>4, <1>5
  <2>2. CASE n = Entry
    BY <2>1, <2>2 DEF Ready
  <2>3. CASE n # Entry
    <3>1. \A e \in Into(graph, n) : e \in Edges /\ ed[e] # "open"
      BY <2>3 DEF Ready, Into, Edges
    <3>2. \A e \in Into(graph, n) : routes[e] = ed[e]
      BY <1>7, <1>8, <3>1
    <3> QED BY <2>1, <2>3, <3>1, <3>2 DEF Ready
  <2> QED BY <2>2, <2>3
<1>16. RowsFit(rows, routes)
  BY <1>9, <1>10, <1>11, <1>12 DEF RowsFit
<1> QED BY <1>13, <1>14, <1>15, <1>16 DEF rows, routes

\* New jobs have sequences of their own, one for each node.
LEMMA NewJobsFit ==
  ASSUME graph \in Drafts, GraphAccepted(graph), last \in Nat,
         NEW S \in SUBSET Nodes
  PROVE  /\ Cardinality(S) \in Nat /\ (S = {} <=> NewJobs(S) = {})
         /\ JobsTyped(NewJobs(S))
         /\ \A j \in NewJobs(S) :
              /\ j.node \in S /\ Target(j) = j.node /\ ~j.dispatched
              /\ last < j.seq /\ j.seq <= last + Cardinality(S)
         /\ \A n \in S : \E j \in NewJobs(S) : j.node = n
         /\ \A j, k \in NewJobs(S) : j.seq = k.seq \/ j.node = k.node => j = k
<1> DEFINE upto(n) == {m \in S : m <= n}
<1>1. IsFiniteSet(S) /\ S \subseteq Nat \ {NoNode}
  BY GraphFacts, FS_Subset
<1>2. Cardinality(S) \in Nat
  BY <1>1, FS_CardinalityType
<1>3. ASSUME NEW n \in S
      PROVE  /\ Cardinality(upto(n)) \in Nat \ {0}
             /\ Cardinality(upto(n)) <= Cardinality(S)
  <2>1. IsFiniteSet(upto(n)) /\ Cardinality(upto(n)) <= Cardinality(S)
    BY <1>1, FS_Subset
  <2>2. n \in upto(n)
    BY <1>1
  <2>3. Cardinality(upto(n)) \in Nat /\ Cardinality(upto(n)) # 0
    BY <2>1, <2>2, FS_CardinalityType, FS_EmptySet
  <2> QED BY <2>1, <2>3
<1>4. ASSUME NEW m \in S, NEW n \in S, m < n
      PROVE  Cardinality(upto(m)) < Cardinality(upto(n))
  <2> \A i \in S : i \in Nat
    BY <1>1
  <2>1. upto(m) \subseteq upto(n) /\ n \in upto(n) /\ n \notin upto(m)
    <3>1. \A i \in S : i <= m => i <= n
      BY <1>4
    <3>2. n <= n /\ ~(n <= m)
      BY <1>4
    <3> QED BY <3>1, <3>2
  <2>2. IsFiniteSet(upto(n)) /\ IsFiniteSet(upto(m))
    BY <1>1, FS_Subset
  <2>3. upto(m) # upto(n)
    BY <2>1
  <2>4. Cardinality(upto(m)) <= Cardinality(upto(n))
    BY <2>1, <2>2, FS_Subset
  <2>5. Cardinality(upto(m)) # Cardinality(upto(n))
    BY <2>1, <2>2, <2>3, FS_Subset
  <2>6. Cardinality(upto(m)) \in Nat /\ Cardinality(upto(n)) \in Nat
    BY <1>3
  <2> QED BY <2>4, <2>5, <2>6
<1>5. NewJobs(S) = {QueuedJob(last + Cardinality(upto(n)), n) : n \in S}
  BY DEF NewJobs
<1>6. \A n \in S : n \in Nat \ {NoNode} /\ n \in Nodes /\ Cardinality(upto(n)) \in Nat \ {0}
                   /\ Cardinality(upto(n)) <= Cardinality(S)
  BY <1>1, <1>3
<1>7. \A m, n \in S : Cardinality(upto(m)) = Cardinality(upto(n)) => m = n
  BY <1>1, <1>4, <1>6
<1> HIDE DEF upto
<1>8. \A j \in NewJobs(S) : \E n \in S :
        /\ j = QueuedJob(last + Cardinality(upto(n)), n)
        /\ j.seq = last + Cardinality(upto(n)) /\ j.node = n
        /\ ~j.dispatched /\ j.recoveries = 0
  BY <1>5 DEF QueuedJob
<1>9. ASSUME NEW n \in S PROVE \E j \in NewJobs(S) : j.node = n
  <2>1. QueuedJob(last + Cardinality(upto(n)), n) \in NewJobs(S)
    BY <1>5
  <2> QED BY <2>1 DEF QueuedJob
<1>10. JobsTyped(NewJobs(S))
  <2>1. ASSUME NEW j \in NewJobs(S) PROVE j \in JobType
    <3>1. PICK n \in S : j = QueuedJob(last + Cardinality(upto(n)), n)
      BY <1>5
    <3>2. last + Cardinality(upto(n)) \in Nat /\ n \in Nodes
      BY <1>6
    <3> QED BY <3>1, <3>2 DEF QueuedJob, JobType
  <2> QED BY <1>8, <2>1, BudgetAssumption DEF JobsTyped
<1>11. \A j \in NewJobs(S) : /\ j.node \in S /\ Target(j) = j.node /\ ~j.dispatched
                             /\ last < j.seq /\ j.seq <= last + Cardinality(S)
  BY <1>2, <1>6, <1>8 DEF Target
<1>12. \A j, k \in NewJobs(S) : j.seq = k.seq \/ j.node = k.node => j = k
  BY <1>6, <1>7, <1>8
<1>13. S = {} <=> NewJobs(S) = {}
  BY <1>5
<1> QED BY <1>2, <1>9, <1>10, <1>11, <1>12, <1>13

\* What Schedule needs of the rows it is handed: all but what it adds itself,
\* the jobs of what waits and the run's own waiting.
Schedulable(row, st, ed, kept) ==
  /\ row \in RunType /\ row.status \notin Terminal
  /\ row.status = "waiting" => kept = {}
  /\ RowsFit(st, ed)
  /\ JobsTyped(kept) /\ NoNode \notin {j.node : j \in kept}
  /\ JobsApart(kept, last) /\ JobsAtWork(st, ed, kept)
  /\ \A n \in Nodes : st[n].status = "running" => \E j \in kept : j.node = n

\* The rows of a state, with their types.
Stored(row, st, ed, js, top) ==
  /\ row \in RunType /\ RowsFit(st, ed) /\ JobsTyped(js) /\ top \in Nat
  /\ StateFits(row, st, ed, js, top)

\* Ending what is unfinished keeps the rows fit and leaves nothing unfinished.
LEMMA EndedStepsFit ==
  ASSUME graph \in Drafts, GraphAccepted(graph),
         NEW st, NEW ed, RowsFit(st, ed), NEW status \in {"failed", "cancelled"}
  PROVE  /\ RowsFit(EndSteps(st, status), ed)
         /\ \A n \in Nodes : EndSteps(st, status)[n].status \notin Unfinished
<1> DEFINE ended == EndSteps(st, status)
<1>1. \A n \in Nodes : /\ st[n] \in StepType /\ MaxAttempts(n) \in Nat
                       /\ st[n].number \in Nat /\ st[n].number <= MaxAttempts(n)
  BY GraphFacts DEF RowsFit, StepsTyped, StepType
<1>2. ASSUME NEW n \in Nodes
      PROVE  /\ ended[n] \in StepType /\ ended[n].number = st[n].number
             /\ st[n].status \in Unfinished =>
                  ended[n].status = status /\ ended[n].attempt # "running"
             /\ st[n].status \notin Unfinished => ended[n] = st[n]
  BY <1>1 DEF EndSteps, MovedStep, StepType, Terminal
<1>3. ended = [n \in Nodes |-> ended[n]]
  BY DEF EndSteps
<1> HIDE DEF ended
<1>4. StepsTyped(ended)
  BY <1>1, <1>2, <1>3 DEF StepsTyped
<1>5. StepsFit(ended)
  BY <1>2 DEF RowsFit, StepsFit, Unfinished
<1>6. RoutesFit(ended, ed)
  BY <1>2, GraphFacts DEF RowsFit, RoutesFit, Unfinished
<1>7. \A n \in Nodes : ended[n].status \notin Unfinished
  BY <1>2 DEF Unfinished
<1> QED BY <1>4, <1>5, <1>6, <1>7 DEF RowsFit, ended

\* A run that ends, with nothing unfinished, has all in order.
LEMMA EndedRunFits ==
  ASSUME graph \in Drafts, GraphAccepted(graph), last \in Nat,
         NEW row \in RunType, row.status \in Terminal,
         NEW st, NEW ed, RowsFit(st, ed),
         \A n \in Nodes : st[n].status \notin Unfinished
  PROVE  Stored(row, st, ed, {}, last)
  BY DEF Stored, RowsFit, StateFits, JobsTyped, JobsApart, JobsAtWork, FirstJobAlone

\* The jobs that are kept and the new ones are apart, and at work.
LEMMA QueuedFits ==
  ASSUME graph \in Drafts, GraphAccepted(graph), last \in Nat,
         NEW row, NEW st, NEW ed, NEW kept, Schedulable(row, st, ed, kept)
  PROVE  LET rows == RowsAfter(st, ed)
             routes == RoutesAfter(st, ed)
             need == NeedJob(rows, routes, kept)
             js == kept \cup NewJobs(need)
         IN /\ need \subseteq Nodes /\ Cardinality(need) \in Nat
            /\ RowsFit(rows, routes) /\ JobsTyped(js)
            /\ JobsApart(js, last + Cardinality(need))
            /\ JobsAtWork(rows, routes, js) /\ FirstJobAlone(rows, js)
            /\ WorkHasJob(rows, routes, js)
            /\ js = {} <=> need = {} /\ kept = {}
<1>0. PICK rows, routes, need, js :
        /\ rows = RowsAfter(st, ed) /\ routes = RoutesAfter(st, ed)
        /\ need = NeedJob(rows, routes, kept) /\ js = kept \cup NewJobs(need)
  OBVIOUS
<1>1. /\ RowsFit(rows, routes)
      /\ \A n \in Nodes : st[n].status # "absent" => rows[n] = st[n]
      /\ \A n \in Nodes : st[n].status = "absent" => rows[n].status \in {"absent", "skipped"}
      /\ Ready(st, ed) \subseteq Ready(rows, routes)
  BY <1>0, PassingFits DEF Schedulable
<1>2. need = {n \in Nodes : Waits(rows, routes, n)} \ {j.node : j \in kept}
  BY <1>0 DEF NeedJob, Waits, Ready
<1>3. need \in SUBSET Nodes
  BY <1>2
<1>4. \A j \in kept : j.node \in Nodes /\ Target(j) = j.node /\ j.seq <= last /\ j.seq \in Nat
  BY DEF Schedulable, JobsTyped, JobType, Target, JobsApart
<1> DEFINE new == NewJobs(need)
<1>5. /\ Cardinality(need) \in Nat /\ (need = {} <=> new = {})
      /\ JobsTyped(new)
      /\ \A j \in new :
           /\ j.node \in need /\ Target(j) = j.node /\ ~j.dispatched
           /\ last < j.seq /\ j.seq <= last + Cardinality(need)
      /\ \A n \in need : \E j \in new : j.node = n
      /\ \A j, k \in new : j.seq = k.seq \/ j.node = k.node => j = k
  BY <1>3, NewJobsFit
<1> HIDE DEF new
<1>6. js = kept \cup new
  BY <1>0 DEF new
<1>7. JobsTyped(js)
  BY <1>5, <1>6 DEF JobsTyped, Schedulable
<1>8. \A j \in js : j.seq \in Nat /\ j.node \in Nodes \ {NoNode} /\ Target(j) = j.node
  BY <1>3, <1>4, <1>5, <1>6, <1>7, GraphFacts DEF JobsTyped, JobType
<1>9. JobsApart(js, last + Cardinality(need))
  <2>1. \A j \in js : j.seq <= last + Cardinality(need)
    BY <1>4, <1>5, <1>6
  <2>2. ASSUME NEW j \in js, NEW k \in js, j.seq = k.seq \/ j.node = k.node PROVE j = k
    <3>1. CASE j \in kept /\ k \in kept
      BY <1>8, <2>2, <3>1 DEF Schedulable, JobsApart
    <3>2. CASE j \in new /\ k \in new
      BY <1>5, <2>2, <3>2
    <3>3. CASE j \in kept /\ k \in new
      BY <1>2, <1>4, <1>5, <1>8, <2>2, <3>3
    <3>4. CASE j \in new /\ k \in kept
      BY <1>2, <1>4, <1>5, <1>8, <2>2, <3>4
    <3> QED BY <1>6, <3>1, <3>2, <3>3, <3>4
  <2> QED BY <1>8, <2>1, <2>2 DEF JobsApart
<1>10. JobsAtWork(rows, routes, js)
  <2>1. ASSUME NEW j \in kept, j.dispatched
        PROVE  rows[Target(j)].status = "running" /\ j.number = rows[Target(j)].number
    BY <1>1, <1>4, <2>1 DEF Schedulable, JobsAtWork
  <2>2. ASSUME NEW j \in kept, ~j.dispatched PROVE Waits(rows, routes, Target(j))
    BY <1>1, <1>4, <2>2 DEF Schedulable, JobsAtWork, Waits
  <2>3. ASSUME NEW j \in new PROVE ~j.dispatched /\ Waits(rows, routes, Target(j))
    BY <1>2, <1>5
  <2> QED BY <1>6, <2>1, <2>2, <2>3 DEF JobsAtWork
<1>11. FirstJobAlone(rows, js)
  BY <1>8 DEF FirstJobAlone
<1>12. WorkHasJob(rows, routes, js)
  <2>1. ASSUME NEW n \in Nodes, Waits(rows, routes, n) PROVE \E j \in js : Target(j) = n
    BY <1>2, <1>4, <1>5, <1>6, <2>1
  <2>2. ASSUME NEW n \in Nodes, rows[n].status = "running" PROVE \E j \in js : Target(j) = n
    <3>1. st[n].status = "running"
      BY <1>1, <2>2
    <3> QED BY <1>4, <1>6, <3>1 DEF Schedulable
  <2> QED BY <2>1, <2>2 DEF WorkHasJob
<1>13. js = {} <=> need = {} /\ kept = {}
  BY <1>5, <1>6
<1> QED BY <1>0, <1>1, <1>3, <1>5, <1>7, <1>9, <1>10, <1>11, <1>12, <1>13

\* After Schedule everything is in order, whether the run goes on or ends.
LEMMA Scheduled ==
  ASSUME graph \in Drafts, GraphAccepted(graph), last \in Nat,
         NEW row, NEW st, NEW ed, NEW kept, Schedulable(row, st, ed, kept),
         Schedule(row, st, ed, kept)
  PROVE  Stored(run', steps', edges', jobs', last')
<1>0. PICK rows, routes, need, js :
        /\ rows = RowsAfter(st, ed) /\ routes = RoutesAfter(st, ed)
        /\ need = NeedJob(rows, routes, kept) /\ js = kept \cup NewJobs(need)
  OBVIOUS
<1>1. /\ need \subseteq Nodes /\ Cardinality(need) \in Nat
      /\ RowsFit(rows, routes) /\ JobsTyped(js)
      /\ JobsApart(js, last + Cardinality(need))
      /\ JobsAtWork(rows, routes, js) /\ FirstJobAlone(rows, js)
      /\ WorkHasJob(rows, routes, js)
      /\ js = {} <=> need = {} /\ kept = {}
  BY <1>0, QueuedFits
<1>2. /\ jobs' = js /\ last' = last + Cardinality(need) /\ edges' = routes
      /\ IF need # {} \/ kept # {}
         THEN /\ run' = [row EXCEPT !.status =
                           IF need # {} /\ @ = "waiting" THEN "running" ELSE @]
              /\ steps' = rows
         ELSE \/ run' = [row EXCEPT !.status = "waiting"] /\ steps' = rows
              \/ \E outcome \in {"completed", "failed"} :
                   run' = [row EXCEPT !.status = outcome] /\ steps' = CancelSiblings(rows)
  BY <1>0 DEF Schedule, Schedulable, RowsAfter, RoutesAfter
<1>3. row \in RunType /\ row.status \notin Terminal /\ (row.status = "waiting" => kept = {})
  BY DEF Schedulable
<1>4. last' \in Nat
  BY <1>1, <1>2
<1>5. CASE /\ steps' = rows
           /\ run' \in RunType /\ run'.status \notin Terminal
           /\ run'.status = "waiting" <=> js = {}
  BY <1>1, <1>2, <1>4, <1>5 DEF Stored, StateFits, RowsFit
<1>6. CASE need # {} \/ kept # {}
  <2>1. run' \in RunType /\ run'.status \notin Terminal \cup {"waiting"}
    BY <1>2, <1>3, <1>6 DEF RunType, Terminal
  <2> QED BY <1>1, <1>2, <1>5, <1>6, <2>1
<1>7. CASE need = {} /\ kept = {} /\ run' = [row EXCEPT !.status = "waiting"] /\ steps' = rows
  <2>1. run' \in RunType /\ run'.status = "waiting" /\ "waiting" \notin Terminal
    BY <1>3, <1>7 DEF RunType, Terminal
  <2> QED BY <1>1, <1>5, <1>7, <2>1
<1>8. ASSUME need = {}, kept = {}, NEW outcome \in {"completed", "failed"},
             run' = [row EXCEPT !.status = outcome], steps' = CancelSiblings(rows)
      PROVE  Stored(run', steps', edges', jobs', last')
  <2>1. run' \in RunType /\ run'.status \in Terminal
    BY <1>3, <1>8 DEF RunType, Terminal
  <2>2. /\ RowsFit(CancelSiblings(rows), routes)
        /\ \A n \in Nodes : CancelSiblings(rows)[n].status \notin Unfinished
    BY <1>1, EndedStepsFit DEF CancelSiblings
  <2>3. Cardinality(need) = 0 /\ js = {}
    BY <1>1, <1>8, FS_EmptySet
  <2>4. jobs' = {} /\ last' = last /\ edges' = routes
    BY <1>2, <2>3
  <2> QED BY <1>8, <2>1, <2>2, <2>4, EndedRunFits
<1> QED BY <1>2, <1>6, <1>7, <1>8

-----------------------------------------------------------------------------
(* Single rows. *)

\* A row that node n may have.
RowFits(n, r) ==
  /\ r \in StepType /\ r.number <= MaxAttempts(n)
  /\ r.status = "absent" => r.number = 0
  /\ r.status = "retrying" => r.number < MaxAttempts(n)
  /\ r.status = "running" <=> r.attempt = "running"

\* Steps fit if each row does and the routes agree with them.
LEMMA EachRowFits ==
  ASSUME NEW st, NEW ed
  PROVE  RowsFit(st, ed) <=> /\ st \in [Nodes -> StepType] /\ ed \in [Edges -> RouteStates]
                             /\ RoutesFit(st, ed) /\ \A n \in Nodes : RowFits(n, st[n])
<1>1. st \in [Nodes -> StepType] => \A n \in Nodes : st[n] \in StepType
  OBVIOUS
<1> QED BY <1>1 DEF RowsFit, StepsTyped, StepsFit, RowFits

\* A step that has a row may end, or back off while it has an attempt to spare.
LEMMA MovedRow ==
  ASSUME NEW n \in Nodes, MaxAttempts(n) \in Nat, NEW r, RowFits(n, r),
         NEW status \in Terminal \cup {"retrying"},
         NEW ended \in {"completed", "failed", "cancelled"},
         status = "retrying" => r.number < MaxAttempts(n)
  PROVE  /\ RowFits(n, MovedStep(r, status, ended))
         /\ MovedStep(r, status, ended).status = status
         /\ MovedStep(r, status, ended).number = r.number
<1> DEFINE m == MovedStep(r, status, ended)
<1>1. r \in StepType /\ r.number <= MaxAttempts(n)
  BY DEF RowFits
<1>2. /\ m \in StepType /\ m.status = status /\ m.number = r.number
      /\ m.attempt # "running"
  BY <1>1 DEF MovedStep, StepType, Unfinished, Terminal
<1> HIDE DEF m
<1>3. RowFits(n, m)
  BY <1>1, <1>2 DEF RowFits, Terminal
<1> QED BY <1>2, <1>3 DEF m

\* The next attempt of a step that is absent or backs off is within the budget.
LEMMA OpenedRow ==
  ASSUME graph \in Drafts, GraphAccepted(graph), RowsFit(steps, edges),
         NEW n \in Nodes, steps[n].status \in {"absent", "retrying"},
         NEW status \in {"running", "waiting", "failed"},
         NEW attempt \in {"running", "completed", "failed"},
         status = "running" <=> attempt = "running"
  PROVE  \E r : /\ Opened(n, status, attempt) = [steps EXCEPT ![n] = r]
                /\ RowFits(n, r) /\ r.status = status /\ r.number = steps[n].number + 1
<1> DEFINE r == [status |-> status, number |-> steps[n].number + 1, attempt |-> attempt]
<1>1. MaxAttempts(n) \in Nat \ {0}
  BY GraphFacts
<1>2. RowFits(n, steps[n])
  BY EachRowFits
<1>3. steps[n].number \in Nat /\ steps[n].number < MaxAttempts(n)
  BY <1>1, <1>2 DEF RowFits, StepType
<1>4. r \in StepType /\ r.number <= MaxAttempts(n)
  BY <1>1, <1>3 DEF StepType, Unfinished, Terminal
<1>5. RowFits(n, r)
  BY <1>4 DEF RowFits
<1>6. Opened(n, status, attempt) = [steps EXCEPT ![n] = r]
  BY DEF Opened
<1>7. r.status = status /\ r.number = steps[n].number + 1
  OBVIOUS
<1> HIDE DEF r
<1> QED BY <1>5, <1>6, <1>7

\* One row changes, of a node that is not done; if it is now, its routes are
\* resolved.
LEMMA StepReplaced ==
  ASSUME graph \in Drafts, GraphAccepted(graph), RowsFit(steps, edges),
         NEW n \in Nodes, steps[n].status \notin Done, NEW r, RowFits(n, r)
  PROVE  /\ r.status \notin Done => RowsFit([steps EXCEPT ![n] = r], edges)
         /\ r.status \in Done =>
              \A route : RowsFit([steps EXCEPT ![n] = r], SelectEdges(n, route))
<1> DEFINE st == [steps EXCEPT ![n] = r]
<1>1. \A e \in Edges : e.from \in Nodes
  BY GraphFacts
<1>2. /\ steps \in [Nodes -> StepType] /\ edges \in [Edges -> RouteStates]
      /\ RoutesFit(steps, edges) /\ \A m \in Nodes : RowFits(m, steps[m])
  BY EachRowFits
<1>3. st \in [Nodes -> StepType] /\ st[n] = r /\ \A m \in Nodes : m # n => st[m] = steps[m]
  BY <1>2 DEF RowFits
<1> HIDE DEF st
<1>4. \A m \in Nodes : RowFits(m, st[m])
  BY <1>2, <1>3
<1>5. ASSUME r.status \notin Done PROVE RowsFit(st, edges)
  <2>1. RoutesFit(st, edges)
    BY <1>1, <1>2, <1>3, <1>5 DEF RoutesFit, Done
  <2> QED BY <1>2, <1>3, <1>4, <2>1, EachRowFits
<1>6. ASSUME r.status \in Done, NEW route PROVE RowsFit(st, SelectEdges(n, route))
  <2> DEFINE ed == SelectEdges(n, route)
  <2>1. \A e \in Edges : /\ e.from # n => ed[e] = edges[e]
                         /\ e.from = n => ed[e] \in {"selected", "skipped"}
    BY DEF SelectEdges
  <2>2. ed \in [Edges -> RouteStates]
    <3>1. \A e \in Edges : ed[e] \in RouteStates
      BY <1>2, <2>1 DEF RouteStates
    <3>2. ed = [e \in Edges |-> ed[e]]
      BY DEF SelectEdges
    <3> HIDE DEF ed
    <3> QED BY <3>1, <3>2
  <2> HIDE DEF ed
  <2>3. RoutesFit(st, ed)
    BY <1>1, <1>2, <1>3, <1>6, <2>1 DEF RoutesFit, Done
  <2>4. RowsFit(st, ed)
    BY <1>3, <1>4, <2>2, <2>3, EachRowFits
  <2> QED BY <2>4 DEF ed
<1> QED BY <1>5, <1>6 DEF st

-----------------------------------------------------------------------------
(* States. *)

SlotsTyped == slots \in [Slots -> SlotType]

\* IInv in terms of the rows of the state.
LEMMA StoredNow ==
  ASSUME IInv
  PROVE  /\ graph \in Drafts /\ GraphAccepted(graph) /\ last \in Nat
         /\ Stored(run, steps, edges, jobs, last) /\ SlotsTyped
         /\ RowsFit(steps, edges) /\ run \in RunType
  BY DEF IInv, TypeOK, Stored, StateFits, SlotsTyped, RowsFit, StepsTyped, JobsTyped,
         RunType, RouteStates

\* A step that keeps the graph and leaves rows in order keeps IInv.
LEMMA StoredNext ==
  ASSUME IInv, graph' = graph, SlotsTyped',
         Stored(run', steps', edges', jobs', last')
  PROVE  IInv'
<1>1. /\ Nodes' = Nodes /\ Edges' = Edges
      /\ \A n : MaxAttempts(n)' = MaxAttempts(n)
      /\ \A n : Into(graph, n)' = Into(graph, n)
      /\ \A j : Target(j)' = Target(j)
      /\ StepType' = StepType
  BY DEF Nodes, Edges, MaxAttempts, Into, Target, StepType
<1>2. JobType' = JobType
  BY <1>1 DEF JobType
<1>3. graph' \in Drafts /\ GraphAccepted(graph)'
  BY DEF IInv, GraphAccepted, Of
<1>4. TypeOK'
  BY <1>1, <1>2 DEF TypeOK, Stored, RowsFit, StepsTyped, JobsTyped, RunType, RouteStates, SlotsTyped
<1>5. StepsFit(steps)' /\ RoutesFit(steps, edges)'
  BY <1>1 DEF Stored, StateFits, StepsFit, RoutesFit
<1>6. \A n : Waits(steps, edges, n)' <=> Waits(steps', edges', n)
  BY <1>1 DEF Waits, Ready
<1>7. JobsApart(jobs, last)' /\ JobsAtWork(steps, edges, jobs)' /\ FirstJobAlone(steps, jobs)'
  <2>1. JobsApart(jobs, last)'
    BY <1>1 DEF Stored, StateFits, JobsApart
  <2>2. JobsAtWork(steps, edges, jobs)'
    BY <1>1, <1>6 DEF Stored, StateFits, JobsAtWork
  <2>3. FirstJobAlone(steps, jobs)'
    BY <1>1 DEF Stored, StateFits, FirstJobAlone
  <2> QED BY <2>1, <2>2, <2>3
<1>8. run'.status \in Terminal => jobs' = {} /\ \A n \in Nodes' : steps'[n].status \notin Unfinished
  BY <1>1 DEF Stored, StateFits
<1>9. run'.status \notin Terminal =>
        WorkHasJob(steps, edges, jobs)' /\ (run'.status = "waiting" <=> jobs' = {})
  BY <1>1, <1>6 DEF Stored, StateFits, WorkHasJob
<1>10. StateFits(run, steps, edges, jobs, last)'
  BY <1>5, <1>7, <1>8, <1>9 DEF StateFits
<1> QED BY <1>3, <1>4, <1>10 DEF IInv

\* A job is the only one with its sequence and with its node, and the run
\* that has it lives and does not wait.
LEMMA OneJob ==
  ASSUME IInv, NEW j \in jobs
  PROVE  /\ run.status \notin Terminal \cup {"waiting"}
         /\ j \in JobType /\ j.recoveries <= MaxRecoveries /\ Target(j) \in Nodes
         /\ \A k \in jobs : k.seq = j.seq \/ Target(k) = Target(j) => k = j
         /\ j.dispatched => steps[Target(j)].status = "running"
         /\ ~j.dispatched => steps[Target(j)].status \in {"absent", "retrying"}
  BY StoredNow, GraphFacts
     DEF Stored, StateFits, JobsApart, JobsAtWork, JobsTyped, JobType, Target, Waits, Ready

\* The job of a slot is the only one with its sequence.
LEMMA JobOfSlot ==
  ASSUME IInv, NEW s, NEW j \in JobOf(s)
  PROVE  j \in jobs /\ JobOf(s) = {j}
  BY OneJob DEF JobOf

\* Slots that are left alone stay typed.
LEMMA SlotKept ==
  ASSUME SlotsTyped, UNCHANGED slots PROVE SlotsTyped'
  BY DEF SlotsTyped, SlotType

\* A slot that is released leaves the slots typed.
LEMMA SlotReleased ==
  ASSUME SlotsTyped, NEW s, Release(s) PROVE SlotsTyped'
<1>1. IdleSlot \in SlotType
  BY DEF IdleSlot, SlotType
<1>2. SlotType' = SlotType
  BY DEF SlotType
<1> QED BY <1>1, <1>2 DEF Release, SlotsTyped

\* The run ends, and nothing is left unfinished.
LEMMA RunEnded ==
  ASSUME IInv, NEW status \in {"failed", "cancelled"}, NEW st,
         RowsFit(st, edges), \A n \in Nodes : st[n].status \notin Unfinished,
         EndRun(status, st)
  PROVE  Stored(run', steps', edges', jobs', last')
<1>1. RunTo(status) \in RunType /\ RunTo(status).status \in Terminal
  BY StoredNow DEF RunTo, RunType, Terminal
<1>2. /\ run' = RunTo(status) /\ steps' = st /\ edges' = edges /\ jobs' = {}
      /\ last' = last
  BY <1>1 DEF EndRun, Schedule
<1> QED BY <1>1, <1>2, StoredNow, EndedRunFits

\* Steps that end with the run, from rows that fit.
LEMMA RunEndedWithSteps ==
  ASSUME IInv, NEW status \in {"failed", "cancelled"}, NEW rest \in {"failed", "cancelled"},
         NEW st, RowsFit(st, edges), EndRun(status, EndSteps(st, rest))
  PROVE  Stored(run', steps', edges', jobs', last')
  BY StoredNow, EndedStepsFit, RunEnded

\* A node that is not done moves on, and the jobs that do not stand for it
\* are kept.
LEMMA NodeMoves ==
  ASSUME IInv, run.status \notin Terminal, NEW row \in RunType,
         row.status \notin Terminal \cup {"waiting"},
         NEW n \in Nodes, steps[n].status \notin Done, NEW r, RowFits(n, r),
         r.status # "running",
         NEW ed,
         \/ r.status \notin Done /\ ed = edges
         \/ r.status \in Done /\ \E route : ed = SelectEdges(n, route),
         NEW kept, kept = {j \in jobs : Target(j) # n},
         n = Entry \/ steps[n].status # "absent"
                   \/ \E j \in jobs : j.node # NoNode /\ Target(j) = n
  PROVE  Schedulable(row, [steps EXCEPT ![n] = r], ed, kept)
<1> DEFINE st == [steps EXCEPT ![n] = r]
<1>1. RowsFit(st, ed)
  BY StepReplaced, StoredNow
<1>2. /\ steps \in [Nodes -> StepType] /\ RoutesFit(steps, edges)
      /\ JobsTyped(jobs) /\ JobsApart(jobs, last) /\ JobsAtWork(steps, edges, jobs)
      /\ FirstJobAlone(steps, jobs) /\ WorkHasJob(steps, edges, jobs)
  BY StoredNow DEF Stored, StateFits, RowsFit, StepsTyped
<1>3. st[n] = r /\ \A m \in Nodes : m # n => st[m] = steps[m]
  BY <1>2
<1> HIDE DEF st
<1>4. \A j \in jobs : Target(j) \in Nodes
  BY OneJob
<1>5. JobsTyped(kept) /\ JobsApart(kept, last)
  BY <1>2 DEF JobsTyped, JobsApart
<1>6. \A j \in kept : j.node # NoNode
  BY <1>2 DEF FirstJobAlone, Target
<1>7. \A e \in Edges : e.from = n => edges[e] = "open"
  BY <1>2 DEF RoutesFit, Done
<1>8. \A e \in Edges : e.from # n => ed[e] = edges[e]
  BY DEF SelectEdges
<1>9. ASSUME NEW m \in Nodes, m # n, m \in Ready(steps, edges) PROVE m \in Ready(st, ed)
  <2>1. CASE m = Entry
    BY <1>3, <1>9, <2>1 DEF Ready
  <2>2. CASE m # Entry
    <3>1. \A e \in Into(graph, m) : e \in Edges /\ edges[e] # "open"
      BY <1>9, <2>2 DEF Ready, Into, Edges
    <3>2. \A e \in Into(graph, m) : ed[e] = edges[e]
      BY <1>7, <1>8, <3>1
    <3> QED BY <1>3, <1>9, <2>2, <3>1, <3>2 DEF Ready
  <2> QED BY <2>1, <2>2
<1>10. JobsAtWork(st, ed, kept)
  BY <1>2, <1>3, <1>4, <1>9 DEF JobsAtWork, Waits
<1>11. \A m \in Nodes : st[m].status = "running" => \E j \in kept : j.node = m
  <2> SUFFICES ASSUME NEW m \in Nodes, st[m].status = "running"
               PROVE  \E j \in kept : j.node = m
    OBVIOUS
  <2>1. m # n /\ steps[m].status = "running"
    BY <1>3
  <2>2. PICK j \in jobs : Target(j) = m
    BY <1>2, <2>1 DEF WorkHasJob
  <2> QED BY <1>6, <2>1, <2>2 DEF Target
<1> QED BY <1>1, <1>5, <1>6, <1>10, <1>11 DEF Schedulable, st

\* A job changes hands, and stands for the same piece of work.
LEMMA SameWork ==
  ASSUME IInv, NEW j \in jobs, NEW k \in JobType,
         k.seq = j.seq, k.node = j.node, k.recoveries <= MaxRecoveries,
         \/ k.dispatched = j.dispatched /\ k.number = j.number
         \/ ~k.dispatched /\ Waits(steps, edges, Target(j))
  PROVE  Stored(run, steps, edges, (jobs \ {j}) \cup {k}, last)
<1> DEFINE js == (jobs \ {j}) \cup {k}
<1>1. /\ run \in RunType /\ RowsFit(steps, edges) /\ JobsTyped(jobs) /\ last \in Nat
      /\ StateFits(run, steps, edges, jobs, last) /\ run.status \notin Terminal \cup {"waiting"}
  BY StoredNow, OneJob DEF Stored
<1>2. Target(k) = Target(j)
  BY DEF Target
<1>3. JobsTyped(js)
  BY <1>1 DEF JobsTyped
<1>4. JobsApart(js, last)
  BY <1>1, <1>2 DEF StateFits, JobsApart
<1>5. JobsAtWork(steps, edges, js)
  BY <1>1, <1>2 DEF StateFits, JobsAtWork
<1>6. FirstJobAlone(steps, js)
  <2>1. ASSUME NEW i \in js, i.node = NoNode
        PROVE  js = {i} /\ \A n \in Nodes \ {Entry} : steps[n].status = "absent"
    <3>1. CASE i = k
      <4>1. j.node = NoNode
        BY <2>1, <3>1
      <4> QED BY <1>1, <3>1, <4>1 DEF StateFits, FirstJobAlone
    <3>2. CASE i # k
      <4>1. i \in jobs /\ i # j
        BY <3>2
      <4> QED BY <1>1, <2>1, <4>1 DEF StateFits, FirstJobAlone
    <3> QED BY <3>1, <3>2
  <2> QED BY <2>1 DEF FirstJobAlone
<1>7. WorkHasJob(steps, edges, js)
  BY <1>1, <1>2 DEF StateFits, WorkHasJob
<1>8. js # {}
  OBVIOUS
<1> HIDE DEF js
<1>9. StateFits(run, steps, edges, js, last)
  BY <1>1, <1>4, <1>5, <1>6, <1>7, <1>8 DEF StateFits
<1> QED BY <1>1, <1>3, <1>9 DEF Stored, js

\* The step that a job stands for is opened, or backs off, and the job goes on.
LEMMA WorkGoesOn ==
  ASSUME IInv, NEW j \in jobs, NEW k \in JobType,
         k.seq = j.seq, k.node = j.node, k.recoveries <= MaxRecoveries,
         NEW row \in RunType, row.status \notin Terminal \cup {"waiting"},
         NEW r, RowFits(Target(j), r),
         \/ k.dispatched /\ r.status = "running" /\ k.number = r.number
         \/ ~k.dispatched /\ r.status = "retrying"
  PROVE  Stored(row, [steps EXCEPT ![Target(j)] = r], edges, (jobs \ {j}) \cup {k}, last)
<1> DEFINE n == Target(j)
           st == [steps EXCEPT ![n] = r]
           js == (jobs \ {j}) \cup {k}
<1>1. /\ RowsFit(steps, edges) /\ JobsTyped(jobs) /\ last \in Nat
      /\ StateFits(run, steps, edges, jobs, last) /\ run.status \notin Terminal
  BY StoredNow, OneJob DEF Stored
<1>2. Target(k) = n /\ n \in Nodes /\ steps[n].status \in {"absent", "retrying", "running"}
  BY OneJob DEF Target
<1>3. JobsTyped(js)
  BY <1>1 DEF JobsTyped
<1>4. JobsApart(js, last)
  BY <1>1, <1>2 DEF StateFits, JobsApart
<1>5. RowsFit(st, edges)
  BY <1>1, <1>2, StoredNow, StepReplaced DEF Done
<1>6. st[n] = r /\ \A m \in Nodes : m # n => st[m] = steps[m]
  BY <1>1, <1>2 DEF RowsFit, StepsTyped
<1>7. \A i \in jobs : Target(i) \in Nodes /\ (Target(i) = n => i = j)
  BY OneJob
<1>8. js # {} /\ k \in js /\ jobs \ {j} \subseteq js
  OBVIOUS
<1>9. \A i \in js : i # k => i \in jobs /\ i # j
  OBVIOUS
<1>10. FirstJobAlone(st, js)
  <2>1. ASSUME NEW i \in js, i.node = NoNode
        PROVE  js = {i} /\ \A m \in Nodes \ {Entry} : st[m].status = "absent"
    <3>1. CASE i = k
      <4>1. j.node = NoNode /\ n = Entry
        BY <2>1, <3>1 DEF Target
      <4> QED BY <1>1, <1>6, <3>1, <4>1 DEF StateFits, FirstJobAlone
    <3>2. CASE i # k
      BY <1>1, <1>9, <2>1, <3>2 DEF StateFits, FirstJobAlone
    <3> QED BY <3>1, <3>2
  <2> QED BY <2>1 DEF FirstJobAlone
<1> HIDE DEF js, st, n
<1>11. \A m \in Nodes : m # n => (Waits(st, edges, m) <=> Waits(steps, edges, m))
  BY <1>6 DEF Waits, Ready
<1>12. JobsAtWork(st, edges, js)
  <2>1. ASSUME NEW i \in js, i # k
        PROVE  IF i.dispatched
               THEN st[Target(i)].status = "running" /\ i.number = st[Target(i)].number
               ELSE Waits(st, edges, Target(i))
    BY <1>1, <1>6, <1>7, <1>9, <1>11, <2>1 DEF StateFits, JobsAtWork
  <2>2. IF k.dispatched
        THEN st[Target(k)].status = "running" /\ k.number = st[Target(k)].number
        ELSE Waits(st, edges, Target(k))
    BY <1>2, <1>6 DEF Waits
  <2> QED BY <2>1, <2>2 DEF JobsAtWork
<1>13. WorkHasJob(st, edges, js)
  <2> SUFFICES ASSUME NEW m \in Nodes, Waits(st, edges, m) \/ st[m].status = "running"
               PROVE  \E i \in js : Target(i) = m
    BY DEF WorkHasJob
  <2>1. CASE m = n
    BY <1>2, <1>8, <2>1
  <2>2. CASE m # n
    <3>1. PICK i \in jobs : Target(i) = m
      BY <1>1, <1>6, <1>11, <2>2 DEF StateFits, WorkHasJob
    <3> QED BY <1>8, <2>2, <3>1 DEF n
  <2> QED BY <2>1, <2>2
<1>14. StateFits(row, st, edges, js, last)
  BY <1>4, <1>5, <1>8, <1>10, <1>12, <1>13 DEF StateFits, RowsFit
<1> QED BY <1>1, <1>3, <1>5, <1>14 DEF Stored, n, st, js

-----------------------------------------------------------------------------
(* One lemma per action. *)

\* Rows in order and typed slots are all that an action has to leave.
StaysInOrder == Stored(run', steps', edges', jobs', last') /\ SlotsTyped'

LEMMA ClaimInOrder ==
  ASSUME IInv, NEW s \in Slots, Claim(s) PROVE StaysInOrder
<1>1. PICK j \in jobs :
        /\ j.status = "queued"
        /\ jobs' = (jobs \ {j}) \cup {[j EXCEPT !.status = "running", !.leased = TRUE]}
        /\ slots' = [slots EXCEPT ![s] = [IdleSlot EXCEPT
                       !.phase = "claimed", !.seq = j.seq, !.round = j.recoveries]]
  BY DEF Claim
<1>2. PICK k : k = [j EXCEPT !.status = "running", !.leased = TRUE]
  OBVIOUS
<1>3. j \in JobType /\ j.recoveries <= MaxRecoveries
  BY OneJob
<1>4. /\ k \in JobType /\ k.seq = j.seq /\ k.node = j.node /\ k.recoveries = j.recoveries
      /\ k.dispatched = j.dispatched /\ k.number = j.number
  BY <1>2, <1>3 DEF JobType
<1>5. Stored(run, steps, edges, jobs', last)
  BY <1>1, <1>2, <1>3, <1>4, SameWork
<1>6. UNCHANGED <<run, steps, edges, last>>
  BY DEF Claim
<1>7. SlotsTyped'
  <2>1. [IdleSlot EXCEPT !.phase = "claimed", !.seq = j.seq, !.round = j.recoveries]
          \in SlotType
    BY <1>3 DEF IdleSlot, SlotType, JobType
  <2>2. SlotType' = SlotType
    BY DEF SlotType
  <2> QED BY <1>1, <2>1, <2>2, StoredNow DEF SlotsTyped
<1> QED BY <1>5, <1>6, <1>7 DEF StaysInOrder

LEMMA LoseLeaseInOrder ==
  ASSUME IInv, LoseLease PROVE StaysInOrder
<1>1. PICK j \in jobs : jobs' = (jobs \ {j}) \cup {[j EXCEPT !.leased = FALSE]}
  BY DEF LoseLease
<1>2. PICK k : k = [j EXCEPT !.leased = FALSE]
  OBVIOUS
<1>3. j \in JobType /\ j.recoveries <= MaxRecoveries
  BY OneJob
<1>4. /\ k \in JobType /\ k.seq = j.seq /\ k.node = j.node /\ k.recoveries = j.recoveries
      /\ k.dispatched = j.dispatched /\ k.number = j.number
  BY <1>2, <1>3 DEF JobType
<1>5. Stored(run, steps, edges, jobs', last)
  BY <1>1, <1>2, <1>3, <1>4, SameWork
<1>6. UNCHANGED <<run, steps, edges, last, slots>>
  BY DEF LoseLease
<1> QED BY <1>5, <1>6, StoredNow, SlotKept DEF StaysInOrder

\* A slot lets go, and nothing else happens.
LEMMA ReleaseInOrder ==
  ASSUME IInv, NEW s \in Slots, Release(s), UNCHANGED durable PROVE StaysInOrder
  BY StoredNow, SlotReleased DEF StaysInOrder, durable

\* A job that is claimed and not dispatched always has something to prepare.
LEMMA NothingIsDropped ==
  ASSUME IInv, NEW s \in Slots, SkipDispatch(s) PROVE ~Undispatched(s)
<1> SUFFICES ASSUME Undispatched(s) PROVE FALSE
  OBVIOUS
<1>1. PICK j \in jobs : TRUE
  BY DEF Undispatched, LiveClaim, JobOf
<1>2. Preparable
  BY <1>1, OneJob DEF Preparable
<1> QED BY <1>2 DEF SkipDispatch, CanDispatch

LEMMA SkipDispatchInOrder ==
  ASSUME IInv, NEW s \in Slots, SkipDispatch(s) PROVE StaysInOrder
<1>1. UNCHANGED durable
  BY NothingIsDropped DEF SkipDispatch, durable
<1> QED BY <1>1, ReleaseInOrder DEF SkipDispatch

\* The job that a slot can dispatch: its node has no row, or backs off.
LEMMA DispatchedJob ==
  ASSUME IInv, NEW s \in Slots, CanDispatch(s), NEW j \in JobOf(s)
  PROVE  /\ j \in jobs /\ ~j.dispatched /\ Target(j) \in Nodes
         /\ run.status \notin Terminal \cup {"waiting"}
         /\ steps[Target(j)].status \in {"absent", "retrying"}
         /\ \A k \in jobs : Target(k) = Target(j) => k = j
  BY OneJob, JobOfSlot DEF CanDispatch, Undispatched

LEMMA DispatchAttemptInOrder ==
  ASSUME IInv, NEW s \in Slots, DispatchAttempt(s) PROVE StaysInOrder
<1>1. PICK j \in JobOf(s) :
        /\ steps' = Opened(Target(j), "running", "running")
        /\ jobs' = (jobs \ {j})
             \cup {[j EXCEPT !.dispatched = TRUE, !.number = steps[Target(j)].number + 1]}
        /\ slots' = [slots EXCEPT ![s].phase = "executing",
                                 ![s].number = steps[Target(j)].number + 1]
  BY DEF DispatchAttempt
<1>2. /\ j \in jobs /\ Target(j) \in Nodes /\ j \in JobType /\ j.recoveries <= MaxRecoveries
      /\ steps[Target(j)].status \in {"absent", "retrying"}
  BY DispatchedJob, OneJob DEF DispatchAttempt
<1>3. PICK r : /\ steps' = [steps EXCEPT ![Target(j)] = r]
               /\ RowFits(Target(j), r) /\ r.status = "running"
               /\ r.number = steps[Target(j)].number + 1
  BY <1>1, <1>2, StoredNow, OpenedRow
<1>4. r.number \in Nat
  BY <1>3 DEF RowFits, StepType
<1>5. PICK k : k = [j EXCEPT !.dispatched = TRUE, !.number = r.number]
  OBVIOUS
<1>6. /\ k \in JobType /\ k.seq = j.seq /\ k.node = j.node /\ k.recoveries = j.recoveries
      /\ k.dispatched /\ k.number = r.number
  BY <1>2, <1>4, <1>5 DEF JobType
<1>7. jobs' = (jobs \ {j}) \cup {k}
  BY <1>1, <1>3, <1>5
<1>8. run' \in RunType /\ run'.status = "running" /\ UNCHANGED <<edges, last>>
  BY StoredNow DEF DispatchAttempt, RunType
<1>9. Stored(run', steps', edges', jobs', last')
  BY <1>2, <1>3, <1>6, <1>7, <1>8, WorkGoesOn DEF Terminal
<1>10. SlotsTyped'
  <2>1. SlotType' = SlotType
    BY DEF SlotType
  <2>2. slots[s] \in SlotType
    BY StoredNow DEF SlotsTyped
  <2>3. [slots[s] EXCEPT !.phase = "executing", !.number = r.number] \in SlotType
    BY <1>4, <2>2 DEF SlotType
  <2>4. slots' = [slots EXCEPT ![s] =
                    [slots[s] EXCEPT !.phase = "executing", !.number = r.number]]
    BY <1>1, <1>3, StoredNow DEF SlotsTyped
  <2> QED BY <2>1, <2>3, <2>4, StoredNow DEF SlotsTyped
<1> QED BY <1>9, <1>10 DEF StaysInOrder

LEMMA DispatchDelayInOrder ==
  ASSUME IInv, NEW s \in Slots, DispatchDelay(s) PROVE StaysInOrder
<1>1. PICK j \in JobOf(s) :
        Schedule(RunTo("running"), Opened(Target(j), "waiting", "completed"), edges, jobs \ {j})
  BY DEF DispatchDelay
<1>2. /\ j \in jobs /\ Target(j) \in Nodes /\ run.status \notin Terminal
      /\ steps[Target(j)].status \in {"absent", "retrying"}
      /\ \A k \in jobs : Target(k) = Target(j) => k = j
  BY DispatchedJob DEF DispatchDelay
<1>3. PICK r : /\ Opened(Target(j), "waiting", "completed") = [steps EXCEPT ![Target(j)] = r]
               /\ RowFits(Target(j), r) /\ r.status = "waiting"
  BY <1>2, StoredNow, OpenedRow
<1>4. RunTo("running") \in RunType /\ RunTo("running").status = "running"
  BY StoredNow DEF RunTo, RunType
<1>5. jobs \ {j} = {k \in jobs : Target(k) # Target(j)}
  BY <1>2
<1>6. Target(j) = Entry \/ j.node # NoNode
  BY DEF Target
<1>7. Schedulable(RunTo("running"), [steps EXCEPT ![Target(j)] = r], edges, jobs \ {j})
  BY <1>2, <1>3, <1>4, <1>5, <1>6, NodeMoves DEF Done, Terminal
<1>8. Stored(run', steps', edges', jobs', last')
  BY <1>1, <1>3, <1>7, StoredNow, Scheduled
<1> QED BY <1>8, StoredNow, SlotReleased DEF StaysInOrder, DispatchDelay

LEMMA DispatchExpiredInOrder ==
  ASSUME IInv, NEW s \in Slots, DispatchExpired(s) PROVE StaysInOrder
  BY StoredNow, RunEndedWithSteps, SlotReleased DEF DispatchExpired, StaysInOrder

LEMMA DispatchRejectInOrder ==
  ASSUME IInv, NEW s \in Slots, DispatchReject(s) PROVE StaysInOrder
<1>1. PICK j \in JobOf(s) :
        EndRun("failed", CancelSiblings(Opened(Target(j), "failed", "failed")))
  BY DEF DispatchReject
<1>2. Target(j) \in Nodes /\ steps[Target(j)].status \in {"absent", "retrying"}
  BY DispatchedJob DEF DispatchReject
<1>3. PICK r : /\ Opened(Target(j), "failed", "failed") = [steps EXCEPT ![Target(j)] = r]
               /\ RowFits(Target(j), r) /\ r.status = "failed"
  BY <1>2, StoredNow, OpenedRow
<1>4. RowsFit(Opened(Target(j), "failed", "failed"), edges)
  BY <1>2, <1>3, StoredNow, StepReplaced DEF Done
<1>5. Stored(run', steps', edges', jobs', last')
  BY <1>1, <1>4, RunEndedWithSteps DEF CancelSiblings
<1> QED BY <1>5, StoredNow, SlotReleased DEF StaysInOrder, DispatchReject

\* A job whose result is accepted, or that is timed out, runs its node.
LEMMA RunningJob ==
  ASSUME IInv, NEW j \in jobs, steps[Target(j)].attempt = "running"
  PROVE  /\ Target(j) \in Nodes /\ MaxAttempts(Target(j)) \in Nat
         /\ RowFits(Target(j), steps[Target(j)])
         /\ steps[Target(j)].status = "running"
         /\ run \in RunType /\ run.status \notin Terminal \cup {"waiting"}
         /\ jobs \ {j} = {k \in jobs : Target(k) # Target(j)}
         /\ Target(j) = Entry \/ j.node # NoNode
<1>1. Target(j) \in Nodes /\ run.status \notin Terminal \cup {"waiting"} /\ run \in RunType
  BY OneJob, StoredNow
<1>2. RowFits(Target(j), steps[Target(j)])
  BY <1>1, StoredNow, EachRowFits
<1>3. jobs \ {j} = {k \in jobs : Target(k) # Target(j)}
  BY OneJob
<1>4. Target(j) = Entry \/ j.node # NoNode
  BY DEF Target
<1>5. MaxAttempts(Target(j)) \in Nat
  BY <1>1, StoredNow, GraphFacts
<1> QED BY <1>1, <1>2, <1>3, <1>4, <1>5 DEF RowFits

LEMMA CommitSuccessInOrder ==
  ASSUME IInv, NEW s \in Slots, CommitSuccess(s) PROVE StaysInOrder
<1>1. PICK j \in JobOf(s) : \E route \in RoutesOf(Target(j)) :
        /\ Accepted(s, j)
        /\ Schedule(run,
                    [steps EXCEPT ![Target(j)] = MovedStep(@, "completed", "completed")],
                    SelectEdges(Target(j), route), jobs \ {j})
  BY DEF CommitSuccess
<1>2. j \in jobs /\ steps[Target(j)].attempt = "running"
  BY <1>1 DEF Accepted, JobOf
<1>3. PICK r : r = MovedStep(steps[Target(j)], "completed", "completed")
  OBVIOUS
<1>4. RowFits(Target(j), r) /\ r.status = "completed"
  BY <1>2, <1>3, RunningJob, MovedRow DEF Terminal
<1>5. PICK route, ed :
        /\ ed = SelectEdges(Target(j), route)
        /\ Schedule(run,
                    [steps EXCEPT ![Target(j)] = MovedStep(@, "completed", "completed")],
                    ed, jobs \ {j})
  BY <1>1
<1>6. Schedulable(run, [steps EXCEPT ![Target(j)] = r], ed, jobs \ {j})
  BY <1>2, <1>4, <1>5, RunningJob, NodeMoves DEF Done
<1>7. Schedule(run, [steps EXCEPT ![Target(j)] = r], ed, jobs \ {j})
  BY <1>3, <1>5
<1>8. Stored(run', steps', edges', jobs', last')
  BY <1>6, <1>7, StoredNow, Scheduled
<1> QED BY <1>8, StoredNow, SlotReleased DEF StaysInOrder, CommitSuccess

LEMMA FailAttemptInOrder ==
  ASSUME IInv, NEW j \in jobs, steps[Target(j)].attempt = "running", FailAttempt(j)
  PROVE  Stored(run', steps', edges', jobs', last')
<1> DEFINE n == Target(j)
<1>1. CASE /\ steps[n].number < MaxAttempts(n)
           /\ Schedule(run, [steps EXCEPT ![n] = MovedStep(@, "retrying", "failed")],
                       edges, jobs \ {j})
  <2>1. PICK r : r = MovedStep(steps[n], "retrying", "failed")
    OBVIOUS
  <2>2. RowFits(n, r) /\ r.status = "retrying"
    BY <1>1, <2>1, RunningJob, MovedRow
  <2>3. Schedulable(run, [steps EXCEPT ![n] = r], edges, jobs \ {j})
    BY <2>2, RunningJob, NodeMoves DEF Done
  <2>4. Schedule(run, [steps EXCEPT ![n] = r], edges, jobs \ {j})
    BY <1>1, <2>1
  <2> QED BY <2>3, <2>4, StoredNow, Scheduled
<1>2. CASE EndRun("failed", FailStep(n))
  <2>1. PICK r : r = MovedStep(steps[n], "failed", "failed")
    OBVIOUS
  <2>2. RowFits(n, r) /\ r.status = "failed"
    BY <2>1, RunningJob, MovedRow DEF Terminal
  <2>3. RowsFit([steps EXCEPT ![n] = r], edges)
    BY <2>2, RunningJob, StoredNow, StepReplaced DEF Done
  <2>4. EndRun("failed", EndSteps([steps EXCEPT ![n] = r], "cancelled"))
    BY <1>2, <2>1 DEF FailStep, CancelSiblings
  <2> QED BY <2>3, <2>4, RunEndedWithSteps
<1> QED BY <1>1, <1>2 DEF FailAttempt

LEMMA CommitFailureInOrder ==
  ASSUME IInv, NEW s \in Slots, CommitFailure(s) PROVE StaysInOrder
<1>1. PICK j \in JobOf(s) : Accepted(s, j) /\ FailAttempt(j)
  BY DEF CommitFailure
<1>2. j \in jobs /\ steps[Target(j)].attempt = "running"
  BY <1>1 DEF Accepted, JobOf
<1> QED BY <1>1, <1>2, FailAttemptInOrder, StoredNow, SlotReleased
        DEF StaysInOrder, CommitFailure

LEMMA EnforceAttemptTimeoutInOrder ==
  ASSUME IInv, NEW j \in jobs, EnforceAttemptTimeout(j) PROVE StaysInOrder
  BY FailAttemptInOrder, StoredNow, SlotKept DEF StaysInOrder, EnforceAttemptTimeout

\* The first job's unfinished steps are those of the entry node, like any
\* other job's those of its own.
LEMMA StepsOfOne ==
  ASSUME IInv, NEW j \in jobs
  PROVE  StepsOf(j) = IF steps[Target(j)].status \in Unfinished THEN {Target(j)} ELSE {}
<1>1. Target(j) \in Nodes
  BY OneJob
<1>2. CASE j.node = NoNode
  <2>1. Target(j) = Entry /\ \A n \in Nodes \ {Entry} : steps[n].status = "absent"
    BY <1>2, StoredNow DEF Stored, StateFits, FirstJobAlone, Target
  <2> QED BY <1>1, <1>2, <2>1 DEF StepsOf, Unfinished
<1>3. CASE j.node # NoNode
  BY <1>1, <1>3 DEF StepsOf, Target
<1> QED BY <1>2, <1>3

LEMMA RequeueExpiredInOrder ==
  ASSUME IInv, NEW j \in jobs, RequeueExpired(j) PROVE StaysInOrder
<1> DEFINE n == Target(j)
<1>1. /\ j.recoveries < MaxRecoveries
      /\ \A m \in StepsOf(j) : steps[m].number < MaxAttempts(m)
      /\ steps' = [m \in Nodes |-> IF m \in StepsOf(j)
                      THEN MovedStep(steps[m], "retrying", "failed") ELSE steps[m]]
      /\ jobs' = (jobs \ {j})
           \cup {[QueuedJob(j.seq, j.node) EXCEPT !.recoveries = j.recoveries + 1]}
      /\ UNCHANGED <<run, edges, last, slots>>
  BY DEF RequeueExpired
<1>2. /\ n \in Nodes /\ j \in JobType
      /\ run \in RunType /\ run.status \notin Terminal \cup {"waiting"}
  BY OneJob, StoredNow
<1>3. PICK k : k = [QueuedJob(j.seq, j.node) EXCEPT !.recoveries = j.recoveries + 1]
  OBVIOUS
<1>4. /\ k \in JobType /\ k.seq = j.seq /\ k.node = j.node /\ ~k.dispatched
      /\ k.recoveries <= MaxRecoveries
  <2>1. PICK q : q = j.recoveries + 1
    OBVIOUS
  <2>2. j.seq \in Nat /\ j.node \in Nodes \cup {NoNode} /\ j.recoveries \in Nat
    BY <1>2 DEF JobType
  <2>3. q \in Nat /\ q <= MaxRecoveries
    BY <1>1, <2>1, <2>2, BudgetAssumption
  <2>4. k = [seq |-> j.seq, node |-> j.node, status |-> "queued", leased |-> FALSE,
             dispatched |-> FALSE, number |-> 0, recoveries |-> q]
    BY <1>3, <2>1 DEF QueuedJob
  <2>5. k \in JobType
    BY <2>2, <2>3, <2>4 DEF JobType
  <2> QED BY <2>3, <2>4, <2>5
<1>5. steps \in [Nodes -> StepType] /\ RowFits(n, steps[n]) /\ MaxAttempts(n) \in Nat
  BY <1>2, StoredNow, EachRowFits, GraphFacts
<1>6. CASE steps[n].status \in Unfinished
  <2>1. StepsOf(j) = {n}
    BY <1>6, StepsOfOne
  <2>2. PICK r : r = MovedStep(steps[n], "retrying", "failed")
    OBVIOUS
  <2>3. RowFits(n, r) /\ r.status = "retrying"
    BY <1>1, <1>2, <1>5, <2>1, <2>2, MovedRow
  <2>4. steps' = [steps EXCEPT ![n] = r]
    BY <1>1, <1>5, <2>1, <2>2
  <2>5. Stored(run, [steps EXCEPT ![n] = r], edges, (jobs \ {j}) \cup {k}, last)
    BY <1>2, <1>4, <2>3, WorkGoesOn
  <2> QED BY <1>1, <1>3, <2>4, <2>5, StoredNow, SlotKept DEF StaysInOrder
<1>7. CASE steps[n].status \notin Unfinished
  <2>1. StepsOf(j) = {}
    BY <1>7, StepsOfOne
  <2>2. steps' = steps
    BY <1>1, <1>5, <2>1
  <2>3. Waits(steps, edges, n)
    BY <1>7, StoredNow DEF Stored, StateFits, JobsAtWork, Unfinished
  <2>4. Stored(run, steps, edges, (jobs \ {j}) \cup {k}, last)
    BY <1>4, <2>3, SameWork
  <2> QED BY <1>1, <1>3, <2>2, <2>4, StoredNow, SlotKept DEF StaysInOrder
<1> QED BY <1>6, <1>7

LEMMA FailExpiredInOrder ==
  ASSUME IInv, NEW j \in jobs, FailExpired(j) PROVE StaysInOrder
<1>1. PICK st : /\ st = [n \in Nodes |->
                     IF n \in StepsOf(j) THEN MovedStep(steps[n], "failed", "failed")
                     ELSE steps[n]]
                /\ EndRun("failed", CancelSiblings(st))
  BY DEF FailExpired
<1>2. /\ steps \in [Nodes -> StepType] /\ edges \in [Edges -> RouteStates]
      /\ RoutesFit(steps, edges) /\ \A n \in Nodes : RowFits(n, steps[n])
  BY StoredNow, EachRowFits
<1>3. \A n \in Nodes : MaxAttempts(n) \in Nat
  BY StoredNow, GraphFacts
<1>4. ASSUME NEW n \in Nodes
      PROVE  /\ RowFits(n, st[n])
             /\ st[n].status \in Done <=> steps[n].status \in Done
  <2>1. CASE n \in StepsOf(j)
    <3>1. st[n] = MovedStep(steps[n], "failed", "failed")
      BY <1>1, <2>1
    <3>2. RowFits(n, st[n]) /\ st[n].status = "failed"
      BY <1>2, <1>3, <3>1, MovedRow DEF Terminal
    <3>3. steps[n].status \notin Done
      BY <2>1 DEF StepsOf, Done, Unfinished
    <3> QED BY <3>2, <3>3 DEF Done
  <2>2. CASE n \notin StepsOf(j)
    BY <1>1, <1>2, <2>2
  <2> QED BY <2>1, <2>2
<1>5. st \in [Nodes -> StepType]
  BY <1>1, <1>4 DEF RowFits
<1>6. RoutesFit(st, edges)
  BY <1>2, <1>4, StoredNow, GraphFacts DEF RoutesFit, Done
<1>7. RowsFit(st, edges)
  BY <1>2, <1>4, <1>5, <1>6, EachRowFits
<1>8. Stored(run', steps', edges', jobs', last')
  BY <1>1, <1>7, RunEndedWithSteps DEF CancelSiblings
<1> QED BY <1>8, StoredNow, SlotKept DEF StaysInOrder, FailExpired

LEMMA WakeDelayInOrder ==
  ASSUME IInv, NEW n \in DelayNodes, WakeDelay(n) PROVE StaysInOrder
<1>1. n \in Nodes /\ steps[n].status = "waiting" /\ MaxAttempts(n) \in Nat
  BY StoredNow, GraphFacts DEF WakeDelay
<1>2. CASE run.late
  BY <1>2, StoredNow, RunEndedWithSteps, SlotKept DEF WakeDelay, StaysInOrder
<1>3. CASE ~run.late
  <2>1. PICK r : r = MovedStep(steps[n], "completed", "completed")
    OBVIOUS
  <2>2. RowFits(n, r) /\ r.status = "completed"
    BY <1>1, <2>1, StoredNow, EachRowFits, MovedRow DEF Terminal
  <2>3. PICK ed : ed = SelectEdges(n, Unlabelled)
    OBVIOUS
  <2>4. RunTo("running") \in RunType /\ RunTo("running").status = "running"
    BY StoredNow DEF RunTo, RunType
  <2>5. run.status \notin Terminal
    BY DEF WakeDelay, Terminal
  <2>6. jobs = {k \in jobs : Target(k) # n}
    BY <1>1, OneJob
  <2>7. Schedulable(RunTo("running"), [steps EXCEPT ![n] = r], ed, jobs)
    BY <1>1, <2>2, <2>3, <2>4, <2>5, <2>6, NodeMoves DEF Done, Terminal
  <2>8. Schedule(RunTo("running"), [steps EXCEPT ![n] = r], ed, jobs)
    BY <1>3, <2>1, <2>3 DEF WakeDelay
  <2>9. Stored(run', steps', edges', jobs', last')
    BY <2>7, <2>8, StoredNow, Scheduled
  <2> QED BY <2>9, StoredNow, SlotKept DEF StaysInOrder, WakeDelay
<1> QED BY <1>2, <1>3

LEMMA EnforceRunDeadlineInOrder ==
  ASSUME IInv, EnforceRunDeadline PROVE StaysInOrder
  BY StoredNow, RunEndedWithSteps, SlotKept DEF EnforceRunDeadline, StaysInOrder

LEMMA CancelInOrder ==
  ASSUME IInv, Cancel PROVE StaysInOrder
  BY StoredNow, RunEndedWithSteps, SlotKept DEF Cancel, StaysInOrder

LEMMA DeadlinePassesInOrder ==
  ASSUME IInv, DeadlinePasses PROVE StaysInOrder
<1>1. run' \in RunType /\ run'.status = run.status
  BY StoredNow DEF DeadlinePasses, RunType
<1>2. Stored(run', steps', edges', jobs', last')
  BY <1>1, StoredNow DEF DeadlinePasses, Stored, StateFits
<1> QED BY <1>2, StoredNow, SlotKept DEF StaysInOrder, DeadlinePasses

\* What a recovery run takes over of the run before.
KeptSteps == [n \in Nodes |-> IF Reusable(n)
                THEN [NoStep EXCEPT !.status = steps[n].status] ELSE NoStep]
KeptRoutes == [e \in Edges |-> IF Reusable(e.from) THEN edges[e] ELSE "open"]

LEMMA KeptRowsFit ==
  ASSUME IInv
  PROVE  /\ RowsFit(KeptSteps, KeptRoutes)
         /\ \A n \in Nodes :
              KeptSteps[n].status = IF Reusable(n) THEN steps[n].status ELSE "absent"
<1>1. PICK st, ed : st = KeptSteps /\ ed = KeptRoutes
  OBVIOUS
<1>2. /\ steps \in [Nodes -> StepType] /\ edges \in [Edges -> RouteStates]
      /\ RoutesFit(steps, edges)
  BY StoredNow, EachRowFits
<1>3. ASSUME NEW n \in Nodes
      PROVE  /\ st[n] \in StepType /\ st[n].number = 0 /\ st[n].attempt = "none"
             /\ st[n].status = IF Reusable(n) THEN steps[n].status ELSE "absent"
  BY <1>1 DEF KeptSteps, NoStep, StepType, Reusable, Terminal
<1>4. \A n \in Nodes : RowFits(n, st[n])
  <2>1. \A n \in Nodes : MaxAttempts(n) \in Nat
    BY StoredNow, GraphFacts
  <2> QED BY <1>3, <2>1 DEF RowFits, Reusable
<1>5. st \in [Nodes -> StepType] /\ ed \in [Edges -> RouteStates]
  BY <1>1, <1>2, <1>3 DEF KeptSteps, KeptRoutes, RouteStates
<1>6. RoutesFit(st, ed)
  BY <1>1, <1>2, <1>3, StoredNow, GraphFacts DEF RoutesFit, KeptRoutes, Reusable
<1>7. RowsFit(st, ed)
  BY <1>4, <1>5, <1>6, EachRowFits
<1> QED BY <1>1, <1>3, <1>7

\* The recovery run begins with what is reusable of the run before.
LEMMA RecoverInOrder ==
  ASSUME IInv, Recover PROVE StaysInOrder
<1>1. PICK row : /\ row = [number |-> run.number + 1, status |-> "running", late |-> FALSE]
                 /\ Schedule(row, KeptSteps, KeptRoutes, {})
  BY DEF Recover, KeptSteps, KeptRoutes
<1>2. row \in RunType /\ row.status = "running"
  BY <1>1, StoredNow, BudgetAssumption DEF Recover, RunType
<1>3. Schedulable(row, KeptSteps, KeptRoutes, {})
  BY <1>2, KeptRowsFit DEF Schedulable, JobsTyped, JobsApart, JobsAtWork, Terminal, Reusable
<1>4. Stored(run', steps', edges', jobs', last')
  BY <1>1, <1>3, StoredNow, Scheduled
<1> QED BY <1>4, StoredNow, SlotKept DEF StaysInOrder, Recover

-----------------------------------------------------------------------------
(* Why a row is there. *)

\* A row has all its routes resolved, with one of them selected unless it is
\* skipped and none then; only what has completed selects, and a condition
\* one case.
Explained(st, ed) ==
  /\ \A e \in Edges :
       /\ st[e.to].status # "absent" => ed[e] # "open"
       /\ st[e.to].status = "skipped" => ed[e] = "skipped"
       /\ ed[e] = "selected" => st[e.from].status = "completed"
  /\ \A n \in Nodes \ {Entry} :
       st[n].status \notin {"absent", "skipped"} =>
         \E e \in Into(graph, n) : ed[e] = "selected"
  /\ \A e, f \in Edges :
       e.from = f.from /\ e.from \in Conditions /\ ed[e] = "selected" /\ ed[f] = "selected"
         => e.label = f.label

\* Skipping what is passed by is explained.
LEMMA PassingExplained ==
  ASSUME graph \in Drafts, GraphAccepted(graph),
         NEW st, NEW ed, RowsFit(st, ed), Explained(st, ed)
  PROVE  Explained(RowsAfter(st, ed), RoutesAfter(st, ed))
<1>1. PICK P, rows, routes : /\ P = PassedBy(st, ed) /\ rows = RowsAfter(st, ed)
                             /\ routes = RoutesAfter(st, ed)
  OBVIOUS
<1>2. /\ EdgesMeetNodes(graph) /\ \A e \in Edges : e.from \in Nodes /\ e.to \in Nodes
  BY GraphFacts
<1>3. \A n \in P : n \in Nodes /\ n # Entry /\ st[n].status = "absent"
  BY <1>1, <1>2, PassedIsAbsent
<1>4. \A n \in Nodes : /\ n \notin P => rows[n] = st[n]
                       /\ n \in P => rows[n].status = "skipped"
  BY <1>1 DEF RowsAfter, NoStep
<1>5. \A e \in Edges : /\ e.from \in P => routes[e] = "skipped"
                       /\ e.from \notin P => routes[e] = ed[e]
  BY <1>1 DEF RoutesAfter
<1>6. \A e \in Edges : e.from \in P => ed[e] = "open"
  BY <1>2, <1>3 DEF RowsFit, RoutesFit
<1>7. \A e \in Edges : e.to \in P => ed[e] = "skipped" \/ e.from \in P
  <2> SUFFICES ASSUME NEW e \in Edges, e.to \in P PROVE ed[e] = "skipped" \/ e.from \in P
    OBVIOUS
  <2>1. PassedWith(st, ed, P, e.to)
    BY <1>1, <1>2, PassedEquation
  <2>2. e \in Into(graph, e.to)
    BY DEF Into, Edges
  <2> QED BY <2>1, <2>2 DEF PassedWith
<1>8. ASSUME NEW e \in Edges
      PROVE  /\ rows[e.to].status # "absent" => routes[e] # "open"
             /\ rows[e.to].status = "skipped" => routes[e] = "skipped"
             /\ routes[e] = "selected" => rows[e.from].status = "completed"
  <2>1. CASE e.to \in P
    <3>1. routes[e] = "skipped"
      BY <1>5, <1>7, <2>1
    <3> QED BY <3>1
  <2>2. CASE e.to \notin P
    <3>1. rows[e.to] = st[e.to]
      BY <1>2, <1>4, <2>2
    <3> QED BY <1>2, <1>4, <1>5, <3>1 DEF Explained
  <2> QED BY <2>1, <2>2
<1>9. ASSUME NEW n \in Nodes \ {Entry}, rows[n].status \notin {"absent", "skipped"}
      PROVE  \E e \in Into(graph, n) : routes[e] = "selected"
  <2>1. rows[n] = st[n]
    BY <1>4, <1>9
  <2>2. PICK e \in Into(graph, n) : ed[e] = "selected"
    BY <1>9, <2>1 DEF Explained
  <2>3. e \in Edges /\ e.from \notin P
    BY <1>6, <2>2 DEF Into, Edges
  <2> QED BY <1>5, <2>2, <2>3
<1>10. ASSUME NEW e \in Edges, routes[e] = "selected" PROVE ed[e] = "selected"
  BY <1>5, <1>10
<1>11. Explained(rows, routes)
  BY <1>8, <1>9, <1>10 DEF Explained
<1> QED BY <1>1, <1>11

\* A row that is neither of these may change for another such row.
Fixed == {"absent", "skipped", "completed"}
Alike(r, q) == r.status = q.status \/ (r.status \notin Fixed /\ q.status \notin Fixed)

LEMMA AlikeExplained ==
  ASSUME EdgesMeetNodes(graph),
         NEW st, NEW ed, Explained(st, ed), NEW new, \A n \in Nodes : Alike(new[n], st[n])
  PROVE  Explained(new, ed)
<1>1. \A e \in Edges : e.from \in Nodes /\ e.to \in Nodes
  BY DEF EdgesMeetNodes, Edges, Nodes
<1>2. \A n \in Nodes : /\ new[n].status = "absent" <=> st[n].status = "absent"
                       /\ new[n].status = "skipped" <=> st[n].status = "skipped"
                       /\ new[n].status = "completed" <=> st[n].status = "completed"
  BY DEF Alike, Fixed
<1>3. \A n \in Nodes : new[n].status \notin {"absent", "skipped"} =>
                         st[n].status \notin {"absent", "skipped"}
  BY <1>2
<1> QED BY <1>1, <1>2, <1>3 DEF Explained

\* What ends with the run has had its row.
LEMMA EndedAlike ==
  ASSUME NEW st, NEW status \in {"failed", "cancelled"}, NEW n \in Nodes
  PROVE  Alike(EndSteps(st, status)[n], st[n])
<1>1. CASE st[n].status \in Unfinished
  <2>1. EndSteps(st, status)[n].status = status
    BY <1>1 DEF EndSteps, MovedStep
  <2> QED BY <1>1, <2>1 DEF Alike, Fixed, Unfinished
<1>2. CASE st[n].status \notin Unfinished
  <2>1. EndSteps(st, status)[n] = st[n]
    BY <1>2 DEF EndSteps
  <2> QED BY <2>1 DEF Alike
<1> QED BY <1>1, <1>2

\* Schedule adds nothing without reason.
LEMMA ScheduleExplained ==
  ASSUME graph \in Drafts, GraphAccepted(graph),
         NEW row, NEW st, NEW ed, NEW kept, RowsFit(st, ed), Explained(st, ed),
         Schedule(row, st, ed, kept)
  PROVE  Explained(steps', edges')
<1>1. \/ steps' = st /\ edges' = ed
      \/ steps' = RowsAfter(st, ed) /\ edges' = RoutesAfter(st, ed)
      \/ steps' = CancelSiblings(RowsAfter(st, ed)) /\ edges' = RoutesAfter(st, ed)
  BY DEF Schedule, RowsAfter, RoutesAfter
<1>2. EdgesMeetNodes(graph)
  BY GraphFacts
<1>3. PICK rows, routes : rows = RowsAfter(st, ed) /\ routes = RoutesAfter(st, ed)
  OBVIOUS
<1>4. Explained(rows, routes)
  BY <1>3, PassingExplained
<1>5. Explained(CancelSiblings(rows), routes)
  BY <1>2, <1>4, EndedAlike, AlikeExplained DEF CancelSiblings
<1> QED BY <1>1, <1>3, <1>4, <1>5

\* A run that ends keeps what it has.
LEMMA EndExplained ==
  ASSUME GraphAccepted(graph), graph \in Drafts, NEW st, Explained(st, edges),
         NEW status \in {"failed", "cancelled"}, NEW rest \in {"failed", "cancelled"},
         EndRun(status, EndSteps(st, rest))
  PROVE  Explained(steps', edges')
<1>1. steps' = EndSteps(st, rest) /\ edges' = edges
  BY DEF EndRun, Schedule, RunTo, Terminal
<1>2. EdgesMeetNodes(graph)
  BY GraphFacts
<1>3. Explained(EndSteps(st, rest), edges)
  BY <1>2, EndedAlike, AlikeExplained
<1> QED BY <1>1, <1>3

\* The row of one node, among the others.
LEMMA OneRow ==
  ASSUME NEW n \in Nodes, NEW r, steps \in [Nodes -> StepType],
         NEW st, st = [steps EXCEPT ![n] = r]
  PROVE  st[n] = r /\ \A m \in Nodes : m # n => st[m] = steps[m]
  OBVIOUS

\* A row that is had already, and is not done, changes for another such row.
LEMMA MovedExplained ==
  ASSUME IInv, Explained(steps, edges), NEW n \in Nodes, steps[n].status \notin Fixed,
         NEW r, r.status \notin Fixed
  PROVE  Explained([steps EXCEPT ![n] = r], edges)
<1>1. PICK st : st = [steps EXCEPT ![n] = r]
  OBVIOUS
<1>2. st[n] = r /\ \A m \in Nodes : m # n => st[m] = steps[m]
  BY <1>1, OneRow, StoredNow, EachRowFits
<1>3. \A m \in Nodes : Alike(st[m], steps[m])
  BY <1>2 DEF Alike
<1> QED BY <1>1, <1>3, StoredNow, GraphFacts, AlikeExplained

\* A node that waits for its turn gets its row.
LEMMA OpenedExplained ==
  ASSUME IInv, Explained(steps, edges), NEW n \in Nodes, Waits(steps, edges, n),
         NEW r, r.status \notin Fixed
  PROVE  Explained([steps EXCEPT ![n] = r], edges)
<1>1. CASE steps[n].status = "retrying"
  BY <1>1, MovedExplained DEF Fixed
<1>2. CASE n \in Ready(steps, edges)
  <2>1. PICK st : st = [steps EXCEPT ![n] = r]
    OBVIOUS
  <2>2. st[n] = r /\ \A m \in Nodes : m # n => st[m] = steps[m]
    BY <2>1, OneRow, StoredNow, EachRowFits
  <2>3. /\ steps[n].status = "absent"
        /\ n # Entry => \E e \in Into(graph, n) : edges[e] = "selected"
    BY <1>2 DEF Ready
  <2>4. \A e \in Edges : e.from \in Nodes /\ e.to \in Nodes /\ e.to # Entry
    BY StoredNow, GraphFacts DEF GraphAccepted, Valid, EntryLeadsEverywhere, Into, Edges
  <2>5. \A e \in Edges : e.to = n => edges[e] # "open"
    BY <1>2, <2>4 DEF Ready, Into, Edges
  <2>6. ASSUME NEW e \in Edges
        PROVE  /\ st[e.to].status # "absent" => edges[e] # "open"
               /\ st[e.to].status = "skipped" => edges[e] = "skipped"
               /\ edges[e] = "selected" => st[e.from].status = "completed"
    <3>1. edges[e] = "selected" => e.from # n /\ steps[e.from].status = "completed"
      BY <2>3 DEF Explained
    <3>2. CASE e.to = n
      BY <2>2, <2>4, <2>5, <3>1, <3>2 DEF Fixed
    <3>3. CASE e.to # n
      BY <2>2, <2>4, <3>1, <3>3 DEF Explained
    <3> QED BY <3>2, <3>3
  <2>7. ASSUME NEW m \in Nodes \ {Entry}, st[m].status \notin {"absent", "skipped"}
        PROVE  \E e \in Into(graph, m) : edges[e] = "selected"
    <3>1. CASE m = n
      BY <2>3, <3>1
    <3>2. CASE m # n
      BY <2>2, <2>7, <3>2 DEF Explained
    <3> QED BY <3>1, <3>2
  <2>8. Explained(st, edges)
    BY <2>6, <2>7 DEF Explained
  <2> QED BY <2>1, <2>8
<1> QED BY <1>1, <1>2 DEF Waits

\* A node completes, and selects a route.
LEMMA CompletedExplained ==
  ASSUME IInv, Explained(steps, edges), NEW n \in Nodes, steps[n].status \notin Fixed,
         NEW r, r.status = "completed", NEW route
  PROVE  Explained([steps EXCEPT ![n] = r], SelectEdges(n, route))
<1>1. PICK st, ed : st = [steps EXCEPT ![n] = r] /\ ed = SelectEdges(n, route)
  OBVIOUS
<1>2. st[n] = r /\ \A m \in Nodes : m # n => st[m] = steps[m]
  BY <1>1, OneRow, StoredNow, EachRowFits
<1>3. \A e \in Edges : e.from \in Nodes /\ e.to \in Nodes
  BY StoredNow, GraphFacts
<1>4. \A e \in Edges :
        /\ e.from # n => ed[e] = edges[e]
        /\ e.from = n => ed[e] \in {"selected", "skipped"}
        /\ e.from = n /\ n \in Conditions /\ ed[e] = "selected" => e.label = route
  BY <1>1 DEF SelectEdges
<1>5. \A e \in Edges : e.from = n => edges[e] = "open"
  BY StoredNow DEF RowsFit, RoutesFit, Fixed
<1>6. \A e \in Edges : e.from = n => steps[e.to].status = "absent" /\ e.to # n
  BY <1>5 DEF Explained, Fixed
<1>7. ASSUME NEW e \in Edges
      PROVE  /\ st[e.to].status # "absent" => ed[e] # "open"
             /\ st[e.to].status = "skipped" => ed[e] = "skipped"
             /\ ed[e] = "selected" => st[e.from].status = "completed"
  <2>1. CASE e.from = n
    <3>1. st[e.to] = steps[e.to] /\ st[e.from] = r
      BY <1>2, <1>3, <1>6, <2>1
    <3> QED BY <1>4, <1>6, <2>1, <3>1
  <2>2. CASE e.from # n
    <3>1. ed[e] = edges[e] /\ st[e.from] = steps[e.from]
      BY <1>2, <1>3, <1>4, <2>2
    <3>2. CASE e.to = n
      BY <1>2, <3>1, <3>2 DEF Explained, Fixed
    <3>3. CASE e.to # n
      BY <1>2, <1>3, <3>1, <3>3 DEF Explained
    <3> QED BY <3>2, <3>3
  <2> QED BY <2>1, <2>2
<1>8. ASSUME NEW m \in Nodes \ {Entry}, st[m].status \notin {"absent", "skipped"}
      PROVE  \E e \in Into(graph, m) : ed[e] = "selected"
  <2>1. steps[m].status \notin {"absent", "skipped"}
    BY <1>2, <1>8 DEF Fixed
  <2>2. PICK e \in Into(graph, m) : edges[e] = "selected"
    BY <2>1 DEF Explained
  <2>3. e \in Edges
    BY <2>2 DEF Into, Edges
  <2>4. e.from # n
    BY <1>5, <2>2, <2>3
  <2> QED BY <1>4, <2>2, <2>3, <2>4
<1>9. ASSUME NEW e \in Edges, NEW f \in Edges, e.from = f.from, e.from \in Conditions,
             ed[e] = "selected", ed[f] = "selected"
      PROVE  e.label = f.label
  <2>1. CASE e.from = n
    BY <1>4, <1>9, <2>1
  <2>2. CASE e.from # n
    BY <1>4, <1>9, <2>2 DEF Explained
  <2> QED BY <2>1, <2>2
<1>10. Explained(st, ed)
  BY <1>7, <1>8, <1>9 DEF Explained
<1> QED BY <1>1, <1>10

-----------------------------------------------------------------------------
(* Every action leaves rows that are explained. *)

StaysExplained == Explained(steps', edges')

\* A job that is not dispatched stands for a node that waits for its turn.
LEMMA WaitingJob ==
  ASSUME IInv, NEW s \in Slots, CanDispatch(s), NEW j \in JobOf(s)
  PROVE  /\ Target(j) \in Nodes /\ Waits(steps, edges, Target(j))
         /\ steps[Target(j)].status \in {"absent", "retrying"}
  BY DispatchedJob, StoredNow DEF Stored, StateFits, JobsAtWork

LEMMA DispatchAttemptExplained ==
  ASSUME IInv, Explained(steps, edges), NEW s \in Slots, DispatchAttempt(s)
  PROVE  StaysExplained
<1>1. PICK j \in JobOf(s) : steps' = Opened(Target(j), "running", "running")
  BY DEF DispatchAttempt
<1>2. /\ Target(j) \in Nodes /\ Waits(steps, edges, Target(j))
      /\ steps[Target(j)].status \in {"absent", "retrying"} /\ edges' = edges
  BY WaitingJob DEF DispatchAttempt
<1>3. PICK r : steps' = [steps EXCEPT ![Target(j)] = r] /\ r.status = "running"
  BY <1>1, <1>2, StoredNow, OpenedRow
<1> QED BY <1>2, <1>3, OpenedExplained DEF StaysExplained, Fixed

LEMMA DispatchDelayExplained ==
  ASSUME IInv, Explained(steps, edges), NEW s \in Slots, DispatchDelay(s)
  PROVE  StaysExplained
<1>1. PICK j \in JobOf(s) :
        Schedule(RunTo("running"), Opened(Target(j), "waiting", "completed"), edges, jobs \ {j})
  BY DEF DispatchDelay
<1>2. /\ Target(j) \in Nodes /\ Waits(steps, edges, Target(j))
      /\ steps[Target(j)].status \in {"absent", "retrying"}
  BY WaitingJob DEF DispatchDelay
<1>3. PICK r : /\ Opened(Target(j), "waiting", "completed") = [steps EXCEPT ![Target(j)] = r]
               /\ RowFits(Target(j), r) /\ r.status = "waiting"
  BY <1>2, StoredNow, OpenedRow
<1>4. PICK st : st = [steps EXCEPT ![Target(j)] = r]
  OBVIOUS
<1>5. RowsFit(st, edges)
  BY <1>2, <1>3, <1>4, StoredNow, StepReplaced DEF Done
<1>6. Explained(st, edges)
  BY <1>2, <1>3, <1>4, OpenedExplained DEF Fixed
<1>7. Schedule(RunTo("running"), st, edges, jobs \ {j})
  BY <1>1, <1>3, <1>4
<1> QED BY <1>5, <1>6, <1>7, StoredNow, ScheduleExplained DEF StaysExplained

LEMMA DispatchRejectExplained ==
  ASSUME IInv, Explained(steps, edges), NEW s \in Slots, DispatchReject(s)
  PROVE  StaysExplained
<1>1. PICK j \in JobOf(s) :
        EndRun("failed", EndSteps(Opened(Target(j), "failed", "failed"), "cancelled"))
  BY DEF DispatchReject, CancelSiblings
<1>2. /\ Target(j) \in Nodes /\ Waits(steps, edges, Target(j))
      /\ steps[Target(j)].status \in {"absent", "retrying"}
  BY WaitingJob DEF DispatchReject
<1>3. PICK r : /\ Opened(Target(j), "failed", "failed") = [steps EXCEPT ![Target(j)] = r]
               /\ r.status = "failed"
  BY <1>2, StoredNow, OpenedRow
<1>4. Explained(Opened(Target(j), "failed", "failed"), edges)
  BY <1>2, <1>3, OpenedExplained DEF Fixed
<1> QED BY <1>1, <1>4, StoredNow, EndExplained DEF StaysExplained

LEMMA CommitSuccessExplained ==
  ASSUME IInv, Explained(steps, edges), NEW s \in Slots, CommitSuccess(s)
  PROVE  StaysExplained
<1>1. PICK j \in JobOf(s) : \E route \in RoutesOf(Target(j)) :
        /\ Accepted(s, j)
        /\ Schedule(run,
                    [steps EXCEPT ![Target(j)] = MovedStep(@, "completed", "completed")],
                    SelectEdges(Target(j), route), jobs \ {j})
  BY DEF CommitSuccess
<1>2. j \in jobs /\ steps[Target(j)].attempt = "running"
  BY <1>1 DEF Accepted, JobOf
<1>3. PICK r : r = MovedStep(steps[Target(j)], "completed", "completed")
  OBVIOUS
<1>4. /\ RowFits(Target(j), r) /\ r.status = "completed"
      /\ Target(j) \in Nodes /\ steps[Target(j)].status = "running"
  BY <1>2, <1>3, RunningJob, MovedRow DEF Terminal
<1>5. PICK route :
        Schedule(run,
                 [steps EXCEPT ![Target(j)] = MovedStep(@, "completed", "completed")],
                 SelectEdges(Target(j), route), jobs \ {j})
  BY <1>1
<1>6. PICK st, ed : st = [steps EXCEPT ![Target(j)] = r] /\ ed = SelectEdges(Target(j), route)
  OBVIOUS
<1>7. RowsFit(st, ed)
  BY <1>4, <1>6, StoredNow, StepReplaced DEF Done
<1>8. Explained(st, ed)
  BY <1>4, <1>6, CompletedExplained DEF Fixed
<1>9. Schedule(run, st, ed, jobs \ {j})
  BY <1>3, <1>5, <1>6
<1> QED BY <1>7, <1>8, <1>9, StoredNow, ScheduleExplained DEF StaysExplained

LEMMA FailAttemptExplained ==
  ASSUME IInv, Explained(steps, edges),
         NEW j \in jobs, steps[Target(j)].attempt = "running", FailAttempt(j)
  PROVE  StaysExplained
<1> DEFINE n == Target(j)
<1>1. /\ n \in Nodes /\ steps[n].status = "running" /\ RowFits(n, steps[n])
      /\ MaxAttempts(n) \in Nat
  BY RunningJob
<1>2. CASE /\ steps[n].number < MaxAttempts(n)
           /\ Schedule(run, [steps EXCEPT ![n] = MovedStep(@, "retrying", "failed")],
                       edges, jobs \ {j})
  <2>1. PICK r : r = MovedStep(steps[n], "retrying", "failed")
    OBVIOUS
  <2>2. RowFits(n, r) /\ r.status = "retrying"
    BY <1>1, <1>2, <2>1, MovedRow
  <2>3. PICK st : st = [steps EXCEPT ![n] = r]
    OBVIOUS
  <2>4. RowsFit(st, edges)
    BY <1>1, <2>2, <2>3, StoredNow, StepReplaced DEF Done
  <2>5. Explained(st, edges)
    BY <1>1, <2>2, <2>3, MovedExplained DEF Fixed
  <2>6. Schedule(run, st, edges, jobs \ {j})
    BY <1>2, <2>1, <2>3
  <2> QED BY <2>4, <2>5, <2>6, StoredNow, ScheduleExplained DEF StaysExplained
<1>3. CASE EndRun("failed", FailStep(n))
  <2>1. PICK r : r = MovedStep(steps[n], "failed", "failed")
    OBVIOUS
  <2>2. r.status = "failed"
    BY <1>1, <2>1, MovedRow DEF Terminal
  <2>3. Explained([steps EXCEPT ![n] = r], edges)
    BY <1>1, <2>2, MovedExplained DEF Fixed
  <2>4. EndRun("failed", EndSteps([steps EXCEPT ![n] = r], "cancelled"))
    BY <1>3, <2>1 DEF FailStep, CancelSiblings
  <2> QED BY <2>3, <2>4, StoredNow, EndExplained DEF StaysExplained
<1> QED BY <1>2, <1>3 DEF FailAttempt

\* The unfinished steps of a job whose lease has run out back off, or fail.
LEMMA GivenUpAlike ==
  ASSUME IInv, NEW j \in jobs, NEW status \in {"retrying", "failed"}, NEW st,
         st = [n \in Nodes |-> IF n \in StepsOf(j) THEN MovedStep(steps[n], status, "failed")
                               ELSE steps[n]],
         NEW n \in Nodes
  PROVE  Alike(st[n], steps[n])
<1>1. CASE n \in StepsOf(j)
  <2>1. steps[n].status \notin Fixed /\ steps[n] \in StepType
    BY <1>1, StoredNow, EachRowFits DEF StepsOf, Unfinished, Fixed
  <2>2. st[n] = MovedStep(steps[n], status, "failed")
    BY <1>1
  <2>3. st[n].status = status
    BY <2>1, <2>2 DEF MovedStep, StepType
  <2> QED BY <2>1, <2>3 DEF Alike, Fixed
<1>2. CASE n \notin StepsOf(j)
  BY <1>2 DEF Alike
<1> QED BY <1>1, <1>2

LEMMA RecoverClaimExplained ==
  ASSUME IInv, Explained(steps, edges), NEW j \in jobs, RecoverClaim(j)
  PROVE  StaysExplained
<1>1. EdgesMeetNodes(graph) /\ graph \in Drafts /\ GraphAccepted(graph)
  BY StoredNow, GraphFacts
<1>2. CASE RequeueExpired(j)
  <2>1. /\ steps' = [n \in Nodes |-> IF n \in StepsOf(j)
                       THEN MovedStep(steps[n], "retrying", "failed") ELSE steps[n]]
        /\ edges' = edges
    BY <1>2 DEF RequeueExpired
  <2>2. \A n \in Nodes : Alike(steps'[n], steps[n])
    BY <2>1, GivenUpAlike
  <2> QED BY <1>1, <2>1, <2>2, AlikeExplained DEF StaysExplained
<1>3. CASE FailExpired(j)
  <2>1. PICK st : /\ st = [n \in Nodes |->
                       IF n \in StepsOf(j) THEN MovedStep(steps[n], "failed", "failed")
                       ELSE steps[n]]
                  /\ EndRun("failed", EndSteps(st, "cancelled"))
    BY <1>3 DEF FailExpired, CancelSiblings
  <2>2. \A n \in Nodes : Alike(st[n], steps[n])
    BY <2>1, GivenUpAlike
  <2>3. Explained(st, edges)
    BY <1>1, <2>2, AlikeExplained
  <2> QED BY <1>1, <2>1, <2>3, EndExplained DEF StaysExplained
<1> QED BY <1>2, <1>3 DEF RecoverClaim

LEMMA WakeDelayExplained ==
  ASSUME IInv, Explained(steps, edges), NEW n \in DelayNodes, WakeDelay(n)
  PROVE  StaysExplained
<1>1. /\ n \in Nodes /\ steps[n].status = "waiting" /\ MaxAttempts(n) \in Nat
      /\ graph \in Drafts /\ GraphAccepted(graph)
  BY StoredNow, GraphFacts DEF WakeDelay
<1>2. CASE run.late
  BY <1>1, <1>2, EndExplained DEF WakeDelay, StaysExplained
<1>3. CASE ~run.late
  <2>1. PICK r : r = MovedStep(steps[n], "completed", "completed")
    OBVIOUS
  <2>2. RowFits(n, r) /\ r.status = "completed"
    BY <1>1, <2>1, StoredNow, EachRowFits, MovedRow DEF Terminal
  <2>3. PICK st, ed : st = [steps EXCEPT ![n] = r] /\ ed = SelectEdges(n, Unlabelled)
    OBVIOUS
  <2>4. RowsFit(st, ed)
    BY <1>1, <2>2, <2>3, StoredNow, StepReplaced DEF Done
  <2>5. Explained(st, ed)
    BY <1>1, <2>2, <2>3, CompletedExplained DEF Fixed
  <2>6. Schedule(RunTo("running"), st, ed, jobs)
    BY <1>3, <2>1, <2>3 DEF WakeDelay
  <2> QED BY <1>1, <2>4, <2>5, <2>6, ScheduleExplained DEF StaysExplained
<1> QED BY <1>2, <1>3

\* A recovery run keeps what it reuses together with the routes that led there.
LEMMA RecoverExplained ==
  ASSUME IInv, Explained(steps, edges), Recover PROVE StaysExplained
<1>1. PICK row : Schedule(row, KeptSteps, KeptRoutes, {})
  BY DEF Recover, KeptSteps, KeptRoutes
<1>2. PICK st, ed : st = KeptSteps /\ ed = KeptRoutes
  OBVIOUS
<1>3. /\ RowsFit(st, ed)
      /\ \A n \in Nodes : st[n].status = IF Reusable(n) THEN steps[n].status ELSE "absent"
  BY <1>2, KeptRowsFit
<1>4. \A e \in Edges : ed[e] = IF Reusable(e.from) THEN edges[e] ELSE "open"
  BY <1>2 DEF KeptRoutes
<1>5. \A e \in Edges : e.from \in Nodes /\ e.to \in Nodes
  BY StoredNow, GraphFacts
<1>6. \A e \in Edges : edges[e] # "open" => Reusable(e.from)
  BY <1>5, StoredNow DEF RowsFit, RoutesFit, Reusable
<1>7. \A e \in Edges : Reusable(e.to) => ed[e] = edges[e] /\ ed[e] # "open"
  BY <1>4, <1>6 DEF Explained, Reusable
<1>8. ASSUME NEW e \in Edges
      PROVE  /\ st[e.to].status # "absent" => ed[e] # "open"
             /\ st[e.to].status = "skipped" => ed[e] = "skipped"
             /\ ed[e] = "selected" => st[e.from].status = "completed"
  <2>1. st[e.to].status # "absent" => Reusable(e.to) /\ st[e.to].status = steps[e.to].status
    BY <1>3, <1>5
  <2>2. st[e.to].status = "skipped" => ed[e] = "skipped"
    BY <1>7, <2>1 DEF Explained
  <2>3. ed[e] = "selected" => Reusable(e.from) /\ steps[e.from].status = "completed"
    BY <1>4 DEF Explained
  <2>4. ed[e] = "selected" => st[e.from].status = "completed"
    BY <1>3, <1>5, <2>3
  <2> QED BY <1>7, <2>1, <2>2, <2>4
<1>9. ASSUME NEW n \in Nodes \ {Entry}, st[n].status \notin {"absent", "skipped"}
      PROVE  \E e \in Into(graph, n) : ed[e] = "selected"
  <2>1. Reusable(n) /\ steps[n].status \notin {"absent", "skipped"}
    BY <1>3, <1>9
  <2>2. PICK e \in Into(graph, n) : edges[e] = "selected"
    BY <2>1 DEF Explained
  <2>3. e \in Edges
    BY <2>2 DEF Into, Edges
  <2> QED BY <1>4, <1>6, <2>2, <2>3
<1>10. \A e \in Edges : ed[e] = "selected" => edges[e] = "selected"
  BY <1>4
<1>11. Explained(st, ed)
  BY <1>8, <1>9, <1>10 DEF Explained
<1> QED BY <1>1, <1>2, <1>3, <1>11, StoredNow, ScheduleExplained DEF StaysExplained

\* At first there are no rows to explain.
LEMMA InitExplained == Init => Explained(steps, edges)
<1> SUFFICES ASSUME Init PROVE Explained(steps, edges)
  OBVIOUS
<1>1. graph \in Drafts /\ GraphAccepted(graph)
  BY DEF Init, GraphAccepted
<1>2. \A e \in Edges : e.from \in Nodes /\ e.to \in Nodes
  BY <1>1, GraphFacts
<1>3. \A n \in Nodes : steps[n].status = "absent"
  BY DEF Init, NoStep
<1>4. \A e \in Edges : edges[e] = "open"
  BY DEF Init
<1> QED BY <1>2, <1>3, <1>4 DEF Explained

\* Each action of Next leaves rows that are explained.
LEMMA NextExplained ==
  IInv /\ Explained(steps, edges) /\ [Next]_vars => Explained(steps, edges)'
<1> SUFFICES ASSUME IInv, Explained(steps, edges), [Next]_vars
             PROVE  Explained(steps, edges)'
  OBVIOUS
<1>1. graph' = graph /\ StaysExplained
  <2>1. CASE UNCHANGED vars
    BY <2>1 DEF vars, StaysExplained
  <2>2. CASE Next
    <3>1. graph' = graph
      BY <2>2 DEF Next
    <3>2. CASE UNCHANGED <<steps, edges>>
      BY <3>1, <3>2 DEF StaysExplained
    <3>3. ASSUME NEW s \in Slots,
                 \/ Claim(s) \/ Interrupt(s) \/ SkipDispatch(s)
                 \/ DispatchExpired(s) \/ DispatchAttempt(s) \/ DispatchDelay(s)
                 \/ DispatchReject(s)
                 \/ CommitSuccess(s) \/ CommitFailure(s) \/ DiscardResult(s)
          PROVE  StaysExplained
      <4>1. CASE Claim(s) \/ Interrupt(s) \/ SkipDispatch(s) \/ DiscardResult(s)
        <5>1. UNCHANGED <<steps, edges>>
          BY <4>1 DEF Claim, Interrupt, SkipDispatch, DiscardResult, durable
        <5> QED BY <3>2, <5>1
      <4>2. CASE DispatchExpired(s)
        BY <4>2, StoredNow, EndExplained DEF DispatchExpired, StaysExplained
      <4>3. CASE CommitFailure(s)
        <5>1. PICK j \in JobOf(s) : Accepted(s, j) /\ FailAttempt(j)
          BY <4>3 DEF CommitFailure
        <5> QED BY <5>1, FailAttemptExplained DEF Accepted, JobOf
      <4> QED BY <3>3, <4>1, <4>2, <4>3, DispatchAttemptExplained, DispatchDelayExplained,
                 DispatchRejectExplained, CommitSuccessExplained
    <3>4. ASSUME NEW j \in jobs, RecoverClaim(j) \/ EnforceAttemptTimeout(j)
          PROVE  StaysExplained
      BY <3>4, RecoverClaimExplained, FailAttemptExplained DEF EnforceAttemptTimeout
    <3>5. CASE LoseLease \/ DeadlinePasses
      <4>1. UNCHANGED <<steps, edges>>
        BY <3>5 DEF LoseLease, DeadlinePasses
      <4> QED BY <3>2, <4>1
    <3>6. CASE EnforceRunDeadline \/ Cancel
      <4>1. PICK status \in {"failed", "cancelled"} : EndRun(status, EndSteps(steps, status))
        BY <3>6 DEF EnforceRunDeadline, Cancel
      <4>2. graph \in Drafts /\ GraphAccepted(graph)
        BY StoredNow
      <4> QED BY <3>1, <4>1, <4>2, EndExplained DEF StaysExplained
    <3>7. StaysExplained
      BY <2>2, <3>3, <3>4, <3>5, <3>6, WakeDelayExplained, RecoverExplained DEF Next, Step
    <3> QED BY <3>1, <3>7
  <2> QED BY <2>1, <2>2
<1>2. /\ Nodes' = Nodes /\ Edges' = Edges /\ Conditions' = Conditions
      /\ \A n : Into(graph, n)' = Into(graph, n)
  BY <1>1 DEF Nodes, Edges, Conditions, Into
<1> QED BY <1>1, <1>2 DEF Explained, StaysExplained

-----------------------------------------------------------------------------
(* What the rows and the routes say together. *)

\* A graph that is accepted, as the lemmas about graphs have it.
LEMMA AcceptedGraph ==
  ASSUME graph \in Drafts, GraphAccepted(graph)
  PROVE  /\ Ordered(graph) /\ Shaped(graph) /\ Into(graph, Entry) = {}
         /\ IsFiniteSet(Edges)
         /\ \A n \in Of(graph, "fork") : ClosedRegion(graph, n) /\ Out(graph, n) # {}
         /\ \A n \in Of(graph, "join") :
              /\ JoinOf(graph, n) \in Of(graph, "fork") /\ JoinOf(graph, JoinOf(graph, n)) = n
              /\ n \in Nodes /\ JoinOf(graph, n) \in Nodes
              /\ n \in After(graph, JoinOf(graph, n))
              /\ Depth(graph, n) < Depth(graph, JoinOf(graph, n))
<1>1. /\ EdgesMeetNodes(graph) /\ EntryLeadsEverywhere(graph) /\ Acyclic(graph)
      /\ \A n \in Of(graph, "fork") : ClosedRegion(graph, n)
      /\ \A n \in Of(graph, "join") : Matched(graph, graph.nodes[n].partner, n)
  BY DEF GraphAccepted, Valid
<1>2. graph.nodes \in Seq(NodeType) /\ IsFiniteSet(graph.edges)
  BY DraftAssumption
<1>3. Shaped(graph) /\ Ordered(graph) /\ Into(graph, Entry) = {}
  BY <1>1, <1>2 DEF Shaped, Ordered, Ids, EntryLeadsEverywhere
<1>4. ASSUME NEW n \in Of(graph, "fork") PROVE Out(graph, n) # {}
  <2>1. Cardinality(Out(graph, n)) >= 2
    BY <1>1 DEF ClosedRegion
  <2> QED BY <2>1, FS_EmptySet
<1>5. ASSUME NEW n \in Of(graph, "join")
      PROVE  /\ JoinOf(graph, n) \in Of(graph, "fork") /\ JoinOf(graph, JoinOf(graph, n)) = n
             /\ n \in Nodes /\ JoinOf(graph, n) \in Nodes
             /\ n \in After(graph, JoinOf(graph, n))
             /\ Depth(graph, n) < Depth(graph, JoinOf(graph, n))
  <2>1. JoinOf(graph, n) \in Of(graph, "fork") /\ JoinOf(graph, JoinOf(graph, n)) = n
    BY <1>1 DEF Matched, JoinOf
  <2>2. n \in Nodes /\ JoinOf(graph, n) \in Nodes
    BY <2>1 DEF Of, Nodes
  <2>3. PICK b \in Out(graph, JoinOf(graph, n)) : TRUE
    BY <1>4, <2>1
  <2> QED BY <1>1, <1>3, <2>1, <2>2, <2>3, BranchEnds
<1> QED BY <1>1, <1>2, <1>3, <1>4, <1>5 DEF Edges

\* What is done has resolved its routes, and only that.
LEMMA ResolvedIsDone ==
  ASSUME IInv, Explained(steps, edges), NEW e \in Edges, steps[e.to].status # "absent"
  PROVE  steps[e.from].status \in Done
  BY StoredNow DEF RowsFit, RoutesFit, Explained, Done

\* A join has a row only after its fork and all of its branches are done.
LEMMA JoinComesLast ==
  ASSUME IInv, Explained(steps, edges), NEW fork \in Of(graph, "fork"),
         steps[JoinOf(graph, fork)].status # "absent"
  PROVE  \A m \in Inside(graph, fork) \cup {fork} : steps[m].status \in Done
<1> DEFINE join == JoinOf(graph, fork)
<1>1. /\ Ordered(graph) /\ Into(graph, Entry) = {} /\ ClosedRegion(graph, fork)
      /\ Out(graph, fork) # {} /\ Shaped(graph)
  BY StoredNow, AcceptedGraph
<1>2. ASSUME NEW b \in Out(graph, fork), NEW m \in Branch(graph, b)
      PROVE  steps[m].status \in Done
  <2> DEFINE Left == {n \in Branch(graph, b) : steps[n].status \notin Done}
  <2>1. SUFFICES ASSUME Left # {} PROVE FALSE
    OBVIOUS
  <2>2. Left \in SUBSET Ids(graph)
    BY <1>1, BranchClosed
  <2>3. PICK n \in Left : \A x \in Left : Depth(graph, n) <= Depth(graph, x)
    <3> HIDE DEF Left
    <3> QED BY <1>1, <2>1, <2>2, LastOf
  <2>4. n \in Branch(graph, b) /\ steps[n].status \notin Done /\ n \in Ids(graph)
    BY <2>2, <2>3
  <2>5. PICK e \in Out(graph, n) : TRUE
    BY <1>1, <2>4, BranchClosed
  <2>6. e \in Edges /\ e.from = n
    BY <2>5 DEF Out, Edges
  <2>7. e.to = join \/ e.to \in Branch(graph, b)
    BY <1>1, <2>4, <2>5, BranchClosed
  <2>8. steps[e.to].status = "absent"
    BY <2>4, <2>6, ResolvedIsDone
  <2>9. e.to \in Left
    BY <2>7, <2>8 DEF Done
  <2>10. Depth(graph, e.to) < Depth(graph, n) /\ Depth(graph, n) <= Depth(graph, e.to)
    BY <1>1, <2>3, <2>4, <2>5, <2>9, Descends
  <2>11. Depth(graph, e.to) \in Int /\ Depth(graph, n) \in Int
    BY <1>1, <2>2, <2>3, <2>9, Descends
  <2> QED BY <2>10, <2>11
<1>3. steps[fork].status \in Done
  <2>1. PICK b \in Out(graph, fork) : TRUE
    BY <1>1
  <2>2. b \in Edges /\ b.from = fork
    BY DEF Out, Edges
  <2>3. steps[b.to].status \in Done
    BY <1>1, <1>2, BranchClosed
  <2> QED BY <2>2, <2>3, ResolvedIsDone DEF Done
<1> QED BY <1>2, <1>3 DEF Inside

\* A branch has rows only after its fork has completed.
LEMMA ForkComesFirst ==
  ASSUME IInv, Explained(steps, edges), NEW fork \in Of(graph, "fork"),
         NEW m \in Inside(graph, fork), steps[m].status \notin {"absent", "skipped"}
  PROVE  steps[fork].status = "completed"
<1>1. /\ Ordered(graph) /\ Into(graph, Entry) = {} /\ ClosedRegion(graph, fork)
  BY StoredNow, AcceptedGraph
<1>2. PICK b \in Out(graph, fork) : m \in Branch(graph, b)
  BY DEF Inside
<1> DEFINE Begun == {n \in Branch(graph, b) : steps[n].status \notin {"absent", "skipped"}}
<1>3. Begun \in SUBSET Ids(graph) /\ Begun # {}
  BY <1>1, <1>2, BranchClosed
<1>4. PICK n \in Begun : \A x \in Begun : Depth(graph, x) <= Depth(graph, n)
  <2> HIDE DEF Begun
  <2> QED BY <1>1, <1>3, FirstOf
<1>5. /\ n \in Branch(graph, b) /\ n \in Nodes /\ n # Entry
      /\ steps[n].status \notin {"absent", "skipped"}
  BY <1>1, <1>4, BranchClosed DEF Nodes
<1>6. PICK e \in Into(graph, n) : edges[e] = "selected"
  BY <1>5 DEF Explained
<1>7. e \in Edges /\ e.to = n /\ e \in Out(graph, e.from) /\ e.from \in Nodes
  BY <1>6, StoredNow, GraphFacts DEF Into, Out, Edges
<1>8. steps[e.from].status = "completed"
  BY <1>6, <1>7 DEF Explained
<1>9. e.from \in Branch(graph, b) \cup {fork}
  BY <1>1, <1>5, <1>6, BranchClosed
<1>10. ASSUME e.from \in Branch(graph, b) PROVE FALSE
  <2>1. e.from \in Begun
    BY <1>8, <1>10
  <2>2. Depth(graph, e.from) <= Depth(graph, n) /\ Depth(graph, n) < Depth(graph, e.from)
    BY <1>1, <1>4, <1>7, <2>1, Descends DEF Nodes
  <2>3. Depth(graph, e.from) \in Int /\ Depth(graph, n) \in Int
    BY <1>1, <1>5, <1>7, Descends DEF Nodes
  <2> QED BY <2>2, <2>3
<1> QED BY <1>8, <1>9, <1>10

\* What has begun has a route to it that is selected throughout.
LEMMA SelectedRoute ==
  ASSUME IInv, Explained(steps, edges),
         NEW n \in Nodes, steps[n].status \notin {"absent", "skipped"}
  PROVE  \E r \in Routes(graph)[n] : \A e \in r : e \in Edges /\ edges[e] = "selected"
<1> DEFINE Begun(x) == steps[x].status \notin {"absent", "skipped"}
           Routed(x) == \E r \in Routes(graph)[x] :
                          \A e \in r : e \in Edges /\ edges[e] = "selected"
           Bad == {x \in Ids(graph) : Begun(x) /\ ~Routed(x)}
<1>1. /\ Ordered(graph) /\ Shaped(graph) /\ Nodes = Ids(graph)
      /\ \A x \in Of(graph, "join") :
           /\ JoinOf(graph, x) \in Of(graph, "fork") /\ JoinOf(graph, JoinOf(graph, x)) = x
           /\ JoinOf(graph, x) \in Ids(graph) /\ Depth(graph, x) < Depth(graph, JoinOf(graph, x))
  BY StoredNow, AcceptedGraph DEF Nodes
<1>2. SUFFICES ASSUME Bad # {} PROVE FALSE
  BY <1>1
<1>3. Bad \in SUBSET Ids(graph)
  OBVIOUS
<1>4. PICK x \in Bad : \A y \in Bad : Depth(graph, y) <= Depth(graph, x)
  <2> HIDE DEF Bad
  <2> QED BY <1>1, <1>2, <1>3, FirstOf
<1>5. x \in Ids(graph) /\ Begun(x) /\ ~Routed(x)
  BY <1>4
<1>6. \A y \in Ids(graph) : Depth(graph, y) \in Int
  BY <1>1, Descends
<1>7. \A y \in Ids(graph) : Depth(graph, x) < Depth(graph, y) /\ Begun(y) => Routed(y)
  BY <1>4, <1>5, <1>6
<1>8. x # Entry
  <2>1. x = Entry => {} \in Routes(graph)[x]
    BY <1>1, <1>5, RoutesEquation
  <2> QED BY <1>5, <2>1
<1>9. PICK e \in Into(graph, x) : edges[e] = "selected"
  BY <1>1, <1>5, <1>8 DEF Explained
<1>10. /\ e \in Edges /\ e.to = x /\ e.from \in Ids(graph) /\ e \in Out(graph, e.from)
       /\ steps[e.from].status = "completed"
  BY <1>9, <1>1, StoredNow, GraphFacts DEF Into, Out, Edges, Explained
<1>11. CASE x \in Of(graph, "join")
  <2>1. PICK fork \in Of(graph, "fork") : fork = JoinOf(graph, x) /\ JoinOf(graph, fork) = x
    BY <1>1, <1>11
  <2>2. e.from \in Inside(graph, fork)
    <3>1. ClosedRegion(graph, fork) /\ e \in Into(graph, graph.nodes[fork].partner)
      BY <1>9, <2>1, StoredNow, AcceptedGraph DEF JoinOf
    <3> QED BY <3>1 DEF ClosedRegion
  <2>3. Begun(fork)
    BY <1>10, <2>2, ForkComesFirst
  <2>4. Routed(fork)
    BY <1>1, <1>7, <1>11, <2>1, <2>3
  <2>5. Routes(graph)[x] = Routes(graph)[fork]
    BY <1>1, <1>5, <1>8, <1>11, <2>1, RoutesEquation
  <2> QED BY <1>5, <2>4, <2>5
<1>12. CASE x \notin Of(graph, "join")
  <2>1. Depth(graph, x) < Depth(graph, e.from)
    BY <1>1, <1>10, Descends
  <2>2. PICK r \in Routes(graph)[e.from] : \A f \in r : f \in Edges /\ edges[f] = "selected"
    BY <1>7, <1>10, <2>1
  <2>3. r \cup {e} \in Routes(graph)[x]
    BY <1>1, <1>5, <1>8, <1>9, <1>12, <2>2, RoutesEquation
  <2>4. \A f \in r \cup {e} : f \in Edges /\ edges[f] = "selected"
    BY <1>9, <1>10, <2>2
  <2> QED BY <1>5, <2>3, <2>4
<1> QED BY <1>11, <1>12

\* No node but a join has two selected routes into it: they would exclude
\* each other.
LEMMA OneWayIn ==
  ASSUME IInv, Explained(steps, edges), NEW n \in Nodes \ (Of(graph, "join") \cup {Entry}),
         NEW e \in Into(graph, n), edges[e] = "selected",
         NEW f \in Into(graph, n), edges[f] = "selected"
  PROVE  e = f
<1>1. SUFFICES ASSUME e # f PROVE FALSE
  OBVIOUS
<1>2. /\ Ordered(graph) /\ Shaped(graph) /\ Into(graph, Entry) = {} /\ IsFiniteSet(Edges)
      /\ Nodes = Ids(graph)
      /\ \A x \in Of(graph, "join") : /\ JoinOf(graph, x) \in Ids(graph)
                                      /\ x \in After(graph, JoinOf(graph, x))
                                      /\ Depth(graph, x) < Depth(graph, JoinOf(graph, x))
  BY StoredNow, AcceptedGraph DEF Nodes
<1>3. /\ e \in Edges /\ e.to = n /\ e.from \in Nodes /\ steps[e.from].status = "completed"
      /\ f \in Edges /\ f.to = n /\ f.from \in Nodes /\ steps[f.from].status = "completed"
  BY StoredNow, GraphFacts DEF Into, Edges, Explained
<1>4. PICK r1 \in Routes(graph)[e.from] : \A d \in r1 : d \in Edges /\ edges[d] = "selected"
  BY <1>3, SelectedRoute
<1>5. PICK q1 \in Routes(graph)[f.from] : \A d \in q1 : d \in Edges /\ edges[d] = "selected"
  BY <1>3, SelectedRoute
<1>6. PICK r, q : r = r1 \cup {e} /\ q = q1 \cup {f}
  OBVIOUS
<1>7. r \in Routes(graph)[n] /\ q \in Routes(graph)[n]
  BY <1>2, <1>4, <1>5, <1>6, RoutesEquation
<1>8. r # q
  <2>1. SUFFICES ASSUME e \in q1 PROVE FALSE
    BY <1>1, <1>6
  <2>2. f.from \in After(graph, e.to)
    BY <1>2, <1>3, <1>5, <2>1, RoutesLeadOn DEF Edges
  <2>3. f.from \notin After(graph, f.to)
    BY <1>2, <1>3 DEF Ordered, Acyclic, After, Edges
  <2> QED BY <1>3, <2>2, <2>3
<1>9. Cardinality(Into(graph, n)) > 1
  <2>1. IsFiniteSet(Into(graph, n)) /\ {e} \in SUBSET Into(graph, n)
    BY <1>2, FS_Subset DEF Into, Edges
  <2>2. Cardinality({e}) = 1 /\ {e} # Into(graph, n)
    BY <1>1, FS_Singleton
  <2>3. Cardinality(Into(graph, n)) \in Nat
    BY <2>1, FS_CardinalityType
  <2>4. 1 <= Cardinality(Into(graph, n)) /\ 1 # Cardinality(Into(graph, n))
    BY <2>1, <2>2, FS_Subset
  <2> QED BY <2>3, <2>4
<1>10. Exclusive(graph, r, q)
  <2>1. ExclusiveMerge(graph, n)
    BY <1>2, StoredNow DEF GraphAccepted, Valid
  <2> QED BY <1>7, <1>8, <1>9, <2>1 DEF ExclusiveMerge
<1>11. PICK d \in r, c \in q :
         /\ d.from = c.from /\ d.label # c.label /\ graph.nodes[d.from].type = "condition"
  BY <1>10 DEF Exclusive
<1>12. /\ d \in Edges /\ edges[d] = "selected" /\ c \in Edges /\ edges[c] = "selected"
  BY <1>3, <1>4, <1>5, <1>6, <1>11
<1>13. d.from \in Conditions
  BY <1>11, <1>12, StoredNow, GraphFacts DEF Conditions, Of, Nodes
<1> QED BY <1>11, <1>12, <1>13 DEF Explained

-----------------------------------------------------------------------------
(* The theorems. *)

LEMMA InitInv == Init => IInv
<1> SUFFICES ASSUME Init PROVE IInv
  OBVIOUS
<1>1. graph \in Drafts /\ GraphAccepted(graph)
  BY DEF Init, GraphAccepted
<1>2. /\ Entry \in Nodes /\ NoNode \notin Nodes
      /\ \A n \in Nodes : MaxAttempts(n) \in Nat
  BY <1>1, GraphFacts
<1>3. \A n \in Nodes : steps[n] = [status |-> "absent", number |-> 0, attempt |-> "none"]
  BY DEF Init, NoStep
<1>4. /\ jobs = {QueuedJob(0, NoNode)}
      /\ QueuedJob(0, NoNode) \in JobType /\ QueuedJob(0, NoNode).recoveries = 0
      /\ QueuedJob(0, NoNode).seq = 0 /\ ~QueuedJob(0, NoNode).dispatched
      /\ Target(QueuedJob(0, NoNode)) = Entry
  BY DEF Init, QueuedJob, JobType, Target
<1>5. last = 0 /\ run = [number |-> 1, status |-> "pending", late |-> FALSE]
  BY DEF Init
<1>6. \A e \in Edges : edges[e] = "open"
  BY DEF Init
<1>7. TypeOK
  <2>1. run \in [number : 1..MaxRuns, late : BOOLEAN,
                 status : {"pending", "running", "waiting", "completed", "failed", "cancelled"}]
    BY <1>5, BudgetAssumption
  <2>2. steps \in [Nodes -> StepType] /\ \A n \in Nodes : steps[n].number <= MaxAttempts(n)
    BY <1>2, <1>3 DEF Init, StepType, NoStep
  <2>3. edges \in [Edges -> {"open", "selected", "skipped"}]
    BY DEF Init
  <2>4. slots \in [Slots -> SlotType]
    BY DEF Init, IdleSlot, SlotType
  <2> QED BY <1>4, <1>5, <2>1, <2>2, <2>3, <2>4, BudgetAssumption DEF TypeOK
<1>8. StepsFit(steps) /\ RoutesFit(steps, edges)
  BY <1>1, <1>3, <1>6, GraphFacts DEF StepsFit, RoutesFit
<1>9. JobsApart(jobs, last)
  BY <1>4, <1>5 DEF JobsApart
<1>10. Ready(steps, edges) = {Entry}
  <2>1. ASSUME NEW n \in Nodes, n # Entry PROVE n \notin Ready(steps, edges)
    BY <1>6, <2>1 DEF Ready, Into, Edges
  <2> QED BY <1>2, <1>3, <2>1 DEF Ready
<1>11. \A n \in Nodes : Waits(steps, edges, n) <=> n = Entry
  BY <1>3, <1>10 DEF Waits
<1>12. JobsAtWork(steps, edges, jobs) /\ FirstJobAlone(steps, jobs)
       /\ WorkHasJob(steps, edges, jobs)
  BY <1>2, <1>3, <1>4, <1>11 DEF JobsAtWork, FirstJobAlone, WorkHasJob
<1> QED BY <1>1, <1>4, <1>5, <1>7, <1>8, <1>9, <1>12 DEF IInv, StateFits, Terminal

\* Each action of Next leaves rows in order.
LEMMA NextInv == IInv /\ [Next]_vars => IInv'
<1> SUFFICES ASSUME IInv, [Next]_vars PROVE IInv'
  OBVIOUS
<1>1. CASE UNCHANGED vars
  BY <1>1, StoredNow, SlotKept, StoredNext DEF vars
<1>2. CASE Next
  <2>1. graph' = graph
    BY <1>2 DEF Next
  <2>2. ASSUME NEW s \in Slots,
               \/ Claim(s) \/ Interrupt(s) \/ SkipDispatch(s)
               \/ DispatchExpired(s) \/ DispatchAttempt(s) \/ DispatchDelay(s)
               \/ DispatchReject(s)
               \/ CommitSuccess(s) \/ CommitFailure(s) \/ DiscardResult(s)
        PROVE  StaysInOrder
    <3>1. CASE Interrupt(s) \/ DiscardResult(s)
      BY <3>1, ReleaseInOrder DEF Interrupt, DiscardResult
    <3> QED BY <2>2, <3>1, ClaimInOrder, SkipDispatchInOrder, DispatchExpiredInOrder,
               DispatchAttemptInOrder, DispatchDelayInOrder, DispatchRejectInOrder,
               CommitSuccessInOrder, CommitFailureInOrder
  <2>3. ASSUME NEW j \in jobs, RecoverClaim(j) \/ EnforceAttemptTimeout(j)
        PROVE  StaysInOrder
    BY <2>3, RequeueExpiredInOrder, FailExpiredInOrder, EnforceAttemptTimeoutInOrder
       DEF RecoverClaim
  <2>4. ASSUME NEW n \in DelayNodes, WakeDelay(n) PROVE StaysInOrder
    BY <2>4, WakeDelayInOrder
  <2>5. StaysInOrder
    BY <1>2, <2>2, <2>3, <2>4, LoseLeaseInOrder, EnforceRunDeadlineInOrder, CancelInOrder,
       DeadlinePassesInOrder, RecoverInOrder DEF Next, Step
  <2> QED BY <2>1, <2>5, StoredNext DEF StaysInOrder
<1> QED BY <1>1, <1>2 DEF Next

\* IInv holds in every reachable state, for all graphs that the validator
\* accepts and any number of slots, recoveries and runs.
THEOREM Invariance == Spec => []IInv
<1>1. Init => IInv
  BY InitInv
<1>2. IInv /\ [Next]_vars => IInv'
  BY NextInv
<1> QED BY <1>1, <1>2, PTL DEF Spec

\* Rows and memory stay well formed, attempts and recoveries within their
\* budgets on every branch (retry_decision, recover_claim).
THEOREM TypeCorrect == Spec => []TypeOK
<1>1. IInv => TypeOK
  BY DEF IInv
<1> QED BY <1>1, Invariance, PTL

\* A run that has ended leaves no step or attempt going and no job to claim
\* (expire_execution, cancel_siblings, cancel_execution).
THEOREM NothingSurvives == Spec => []NoSurvivor
<1>1. IInv => NoSurvivor
  <2> SUFFICES ASSUME IInv, ~Live PROVE NoSurvivor
    BY DEF NoSurvivor
  <2>1. StateFits(run, steps, edges, jobs, last)
    BY DEF IInv
  <2>2. jobs = {} /\ \A n \in Nodes : steps[n].status \notin Unfinished
    BY <2>1 DEF StateFits, Live
  <2>3. \A n \in Nodes : steps[n].attempt # "running"
    BY <2>1, <2>2 DEF StateFits, StepsFit, Unfinished
  <2> QED BY <2>2, <2>3 DEF NoSurvivor
<1> QED BY <1>1, Invariance, PTL

\* While a run lives each piece of its work is carried by exactly one job and
\* nothing else is, and it waits exactly when no branch has anything else to
\* do, however workers, leases, timeouts and timers interleave on its branches
\* (schedule_parallel, claim_jobs, recover_claim).
THEOREM AllWorkIsCarried == Spec => []WorkCarried
<1>1. IInv => WorkCarried
  <2> SUFFICES ASSUME IInv, Live PROVE WorkCarried
    BY DEF WorkCarried
  <2>1. StateFits(run, steps, edges, jobs, last)
    BY DEF IInv
  <2>2. /\ WorkHasJob(steps, edges, jobs) /\ (run.status = "waiting" <=> jobs = {})
        /\ JobsAtWork(steps, edges, jobs)
    BY <2>1 DEF StateFits, Live
  <2>3. \A j, k \in jobs : Target(j) = Target(k) => j = k
    BY <2>1 DEF StateFits, JobsApart
  <2>4. ASSUME NEW n \in Nodes, Waits(steps, edges, n)
        PROVE  \E j \in jobs : CarriedBy(n) = {j} /\ ~j.dispatched
    <3>1. PICK j \in jobs : Target(j) = n
      BY <2>2, <2>4 DEF WorkHasJob
    <3>2. CarriedBy(n) = {j}
      BY <2>3, <3>1 DEF CarriedBy
    <3>3. steps[n].status # "running"
      BY <2>4 DEF Waits, Ready
    <3> QED BY <2>2, <3>1, <3>2, <3>3 DEF JobsAtWork
  <2>5. ASSUME NEW n \in Nodes, steps[n].status = "running"
        PROVE  \E j \in jobs : CarriedBy(n) = {j} /\ j.dispatched /\ j.number = steps[n].number
    <3>1. PICK j \in jobs : Target(j) = n
      BY <2>2, <2>5 DEF WorkHasJob
    <3>2. CarriedBy(n) = {j}
      BY <2>3, <3>1 DEF CarriedBy
    <3>3. ~Waits(steps, edges, n)
      BY <2>5 DEF Waits, Ready
    <3> QED BY <2>2, <3>1, <3>2, <3>3 DEF JobsAtWork
  <2>6. ASSUME NEW n \in Nodes, ~Waits(steps, edges, n), steps[n].status # "running"
        PROVE  CarriedBy(n) = {}
    BY <2>2, <2>6 DEF JobsAtWork, CarriedBy
  <2>7. \A n \in Nodes : Waits(steps, edges, n) => steps[n].status # "running"
    BY DEF Waits, Ready
  <2> QED BY <2>2, <2>4, <2>5, <2>6, <2>7 DEF WorkCarried, Waits
<1> QED BY <1>1, Invariance, PTL

\* A graph that the validator has accepted runs as drawn: joins after all of
\* their branches, branches after their forks, and every other node along
\* exactly one route, in every run and recovery run, however the branches
\* interleave and fail (validate_graph_contract, schedule_parallel).
THEOREM RunsAsDrawn == Spec => []RegionsClosed
<1> DEFINE Inv == IInv /\ Explained(steps, edges)
<1>1. Init => Inv
  BY InitInv, InitExplained
<1>2. Inv /\ [Next]_vars => Inv'
  BY NextInv, NextExplained
<1>3. Inv => RegionsClosed
  <2> SUFFICES ASSUME IInv, Explained(steps, edges) PROVE RegionsClosed
    OBVIOUS
  <2>1. ASSUME NEW fork \in Of(graph, "fork")
        PROVE  /\ steps[graph.nodes[fork].partner].status # "absent" =>
                    \A m \in Inside(graph, fork) \cup {fork} :
                      steps[m].status \in {"completed", "skipped"}
               /\ \A m \in Inside(graph, fork) :
                    steps[m].status \notin {"absent", "skipped"} =>
                      steps[fork].status = "completed"
    BY JoinComesLast, ForkComesFirst DEF JoinOf, Done
  <2>2. ASSUME NEW n \in Nodes \ (Of(graph, "join") \cup {Entry}), steps[n].status # "absent"
        PROVE  Cardinality({e \in Into(graph, n) : edges[e] = "selected"})
                 = IF steps[n].status = "skipped" THEN 0 ELSE 1
    <3> DEFINE chosen == {e \in Into(graph, n) : edges[e] = "selected"}
    <3>1. CASE steps[n].status = "skipped"
      <4>1. \A e \in Into(graph, n) : edges[e] = "skipped"
        BY <3>1 DEF Explained, Into, Edges
      <4>2. chosen = {}
        BY <4>1
      <4> QED BY <3>1, <4>2, FS_EmptySet
    <3>2. CASE steps[n].status # "skipped"
      <4>1. PICK e \in Into(graph, n) : edges[e] = "selected"
        BY <2>2, <3>2 DEF Explained
      <4>2. chosen = {e}
        BY <4>1, OneWayIn
      <4> HIDE DEF chosen
      <4>3. Cardinality(chosen) = 1
        BY <4>2, FS_Singleton
      <4> QED BY <3>2, <4>3 DEF chosen
    <3> QED BY <3>1, <3>2
  <2> QED BY <2>1, <2>2 DEF RegionsClosed
<1> QED BY <1>1, <1>2, <1>3, PTL DEF Spec

=============================================================================
