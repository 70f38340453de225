------------------------- MODULE Conversation_proofs -------------------------
(***************************************************************************)
(* Theorems about Conversation.                                            *)
(*                                                                         *)
(* IInv says who may act (Claimed), what the rounds of the rows say of the *)
(* requests (Ledger) and what rows and workers say of the conversation     *)
(* (Memory).  A row knows of an attempt if it is of the attempt's run or a *)
(* later one (After): there the attempt's reservations are, with its       *)
(* number, and a request never costs more than any row charges for it.     *)
(* Sums of costs come first, then the invariant, then what a step of each  *)
(* shape keeps of it, the steps one by one, and what the invariant yields. *)
(***************************************************************************)
EXTENDS Conversation, SequenceTheorems, FiniteSetTheorems, WellFoundedInduction, TLAPS

\* A set of naturals that is not empty has a first one.
LEMMA FirstExists ==
  ASSUME NEW n \in Nat, NEW S \in SUBSET (0..n), S # {}
  PROVE  \E m \in S : \A j \in S : m <= j
<1> DEFINE R == {p \in Nat \X Nat : p[1] < p[2]}
<1>1. IsWellFoundedOn(R, Nat)
  BY NatLessThanWellFounded, Zenon DEF OpToRel
<1>2. PICK m \in S : \A j \in S : <<j, m>> \notin R
  <2> HIDE DEF R
  <2> QED BY <1>1, WFMin, \A k \in S : k \in Nat
<1>3. ASSUME NEW j \in S, j < m PROVE FALSE
  <2>1. <<j, m>> \in Nat \X Nat /\ <<j, m>>[1] < <<j, m>>[2]
    BY <1>3
  <2> QED BY <2>1, <1>2, Zenon
<1> QED BY <1>3

\* What holds of 0 and passes from each number to the next holds up to n.
LEMMA Stepwise ==
  ASSUME NEW n \in Nat, NEW S, 0 \in S, \A i \in 1..n : i - 1 \in S => i \in S
  PROVE  0..n \subseteq S
<1> DEFINE Bad == (0..n) \ S
<1>1. SUFFICES ASSUME Bad # {} PROVE FALSE
  OBVIOUS
<1>2. PICK m \in Bad : \A j \in Bad : m <= j
  <2>1. Bad \in SUBSET (0..n)
    OBVIOUS
  <2> HIDE DEF Bad
  <2> QED BY <1>1, <2>1, FirstExists
<1>3. m \in 1..n /\ m - 1 \in 0..n /\ ~(m <= m - 1)
  BY <1>2
<1> QED BY <1>2, <1>3

-----------------------------------------------------------------------------
(* Sums of costs. *)

Priced(entries) ==
  /\ Len(entries) \in Nat /\ DOMAIN entries = 1..Len(entries)
  /\ \A i \in 1..Len(entries) : entries[i].cost \in Nat

\* f is the running sum of the costs at positions S.
RunningSum(f, S, entries, n) ==
  /\ f \in [0..n -> Nat] /\ f[0] = 0
  /\ \A i \in 1..n : f[i] = f[i - 1] + (IF i \in S THEN entries[i].cost ELSE 0)

\* There is a running sum.
LEMMA RunningSumExists ==
  ASSUME NEW entries, NEW S, Priced(entries)
  PROVE  \E f : RunningSum(f, S, entries, Len(entries))
<1> DEFINE N == Len(entries)
           Good == {n \in 0..N : \E f : RunningSum(f, S, entries, n)}
<1>1. N \in Nat /\ \A i \in 1..N : entries[i].cost \in Nat
  BY DEF Priced
<1>2. 0 \in Good
  <2>1. RunningSum([i \in 0..0 |-> 0], S, entries, 0)
    BY DEF RunningSum
  <2> QED BY <1>1, <2>1
<1>3. ASSUME NEW n \in 1..N, n - 1 \in Good PROVE n \in Good
  <2>1. PICK f : RunningSum(f, S, entries, n - 1)
    BY <1>3
  <2>2. PICK c \in Nat : c = (IF n \in S THEN entries[n].cost ELSE 0)
    BY <1>1
  <2>3. PICK g : g = [i \in 0..n |-> IF i = n THEN f[n - 1] + c ELSE f[i]]
    OBVIOUS
  <2>4. n \in Nat \ {0} /\ f \in [0..(n - 1) -> Nat] /\ f[0] = 0
    BY <2>1, <1>1 DEF RunningSum
  <2>5. g \in [0..n -> Nat] /\ g[0] = 0 /\ g[n] = g[n - 1] + c
    BY <2>3, <2>4, <2>2
  <2>6. ASSUME NEW i \in 1..(n - 1)
        PROVE  g[i] = g[i - 1] + (IF i \in S THEN entries[i].cost ELSE 0)
    <3>1. g[i] = f[i] /\ g[i - 1] = f[i - 1]
      BY <2>3, <2>4
    <3> QED BY <3>1, <2>1 DEF RunningSum
  <2>7. \A i \in 1..n : i = n \/ i \in 1..(n - 1)
    BY <2>4
  <2>8. RunningSum(g, S, entries, n)
    BY <2>2, <2>5, <2>6, <2>7 DEF RunningSum
  <2> QED BY <2>8
<1>4. 0..N \subseteq Good
  <2> HIDE DEF Good, N
  <2> QED BY <1>1, <1>2, <1>3, Stepwise
<1>5. N \in Good
  BY <1>1, <1>4
<1> QED BY <1>5

\* CostAt is the last value of the running sum.
LEMMA CostIsRunningSum ==
  ASSUME NEW entries, NEW S, Priced(entries)
  PROVE  \E f : RunningSum(f, S, entries, Len(entries)) /\ CostAt(S, entries) = f[Len(entries)]
<1> DEFINE N == Len(entries)
           Solves(f) ==
             f = [i \in 0..N |->
                    IF i = 0 THEN 0
                    ELSE f[i - 1] + (IF i \in S THEN entries[i].cost ELSE 0)]
           sum == CHOOSE f : Solves(f)
<1>1. N \in Nat /\ \A i \in 1..N : entries[i].cost \in Nat
  BY DEF Priced
<1>2. PICK f : RunningSum(f, S, entries, N)
  BY RunningSumExists
<1>3. Solves(f)
  <2>1. \A i \in 0..N : i = 0 \/ i \in 1..N
    BY <1>1
  <2> QED BY <1>2, <2>1 DEF RunningSum
<1>4. Solves(sum)
  <2> HIDE DEF Solves
  <2> QED BY <1>3
<1>5. CostAt(S, entries) = sum[N]
  BY DEF CostAt
<1>6. PICK g : g = sum
  OBVIOUS
<1>7. Solves(g)
  BY <1>4, <1>6
<1>8. \A i \in 0..N : g[i] = (IF i = 0 THEN 0
                    ELSE g[i - 1] + (IF i \in S THEN entries[i].cost ELSE 0))
  BY <1>7
<1>9. g[0] = 0 /\ DOMAIN g = 0..N
  BY <1>1, <1>7
<1>10. \A i \in 1..N : g[i] = g[i - 1] + (IF i \in S THEN entries[i].cost ELSE 0)
  BY <1>1, <1>8
<1>11. \A i \in 0..N : g[i] \in Nat
  <2> DEFINE Good == {i \in 0..N : g[i] \in Nat}
  <2>1. 0 \in Good
    BY <1>1, <1>9
  <2>2. ASSUME NEW i \in 1..N, i - 1 \in Good PROVE i \in Good
    BY <2>2, <1>1, <1>10
  <2>3. 0..N \subseteq Good
    <3> HIDE DEF Good, N
    <3> QED BY <1>1, <2>1, <2>2, Stepwise
  <2> QED BY <2>3
<1>12. RunningSum(g, S, entries, N)
  <2>1. g = [i \in 0..N |-> g[i]]
    BY <1>7
  <2>2. g \in [0..N -> Nat]
    BY <2>1, <1>11
  <2> QED BY <2>2, <1>9, <1>10 DEF RunningSum
<1> QED BY <1>5, <1>6, <1>12

\* Sums compare if each position costs no more here than there.
LEMMA CostCompares ==
  ASSUME NEW es, NEW S, Priced(es), NEW fs, NEW T, Priced(fs), Len(es) = Len(fs),
         \A i \in 1..Len(es) : i \in S => i \in T /\ es[i].cost <= fs[i].cost
  PROVE  /\ CostAt(S, es) \in Nat /\ CostAt(T, fs) \in Nat
         /\ CostAt(S, es) <= CostAt(T, fs)
<1>1. PICK N \in Nat : N = Len(es) /\ N = Len(fs)
  BY DEF Priced
<1>2. PICK f : RunningSum(f, S, es, N) /\ CostAt(S, es) = f[N]
  BY <1>1, CostIsRunningSum
<1>3. PICK g : RunningSum(g, T, fs, N) /\ CostAt(T, fs) = g[N]
  BY <1>1, CostIsRunningSum
<1>4. f[0] = 0 /\ g[0] = 0 /\ f \in [0..N -> Nat] /\ g \in [0..N -> Nat]
  BY <1>2, <1>3 DEF RunningSum
<1> DEFINE Good == {i \in 0..N : f[i] <= g[i]}
<1>5. 0 \in Good
  BY <1>4
<1>6. ASSUME NEW i \in 1..N, i - 1 \in Good PROVE i \in Good
  <2>1. /\ f[i] = f[i - 1] + (IF i \in S THEN es[i].cost ELSE 0)
        /\ g[i] = g[i - 1] + (IF i \in T THEN fs[i].cost ELSE 0)
    BY <1>2, <1>3 DEF RunningSum
  <2>2. /\ f[i - 1] \in Nat /\ g[i - 1] \in Nat /\ f[i - 1] <= g[i - 1]
        /\ es[i].cost \in Nat /\ fs[i].cost \in Nat
    BY <1>1, <1>4, <1>6 DEF Priced
  <2> QED BY <1>1, <2>1, <2>2
<1>7. 0..N \subseteq Good
  <2> HIDE DEF Good
  <2> QED BY <1>5, <1>6, Stepwise
<1>8. N \in Good /\ f[N] \in Nat /\ g[N] \in Nat
  BY <1>4, <1>7
<1> QED BY <1>2, <1>3, <1>8

\* The same costs at the same positions make the same sum.
LEMMA CostSame ==
  ASSUME NEW es, NEW S, Priced(es), NEW fs, NEW T, Priced(fs), Len(es) = Len(fs),
         \A i \in 1..Len(es) : (i \in S <=> i \in T) /\ (i \in S => es[i].cost = fs[i].cost)
  PROVE  CostAt(S, es) \in Nat /\ CostAt(S, es) = CostAt(T, fs)
<1>1. /\ CostAt(S, es) \in Nat /\ CostAt(T, fs) \in Nat
      /\ CostAt(S, es) <= CostAt(T, fs)
  <2>1. \A i \in 1..Len(es) : i \in S => i \in T /\ es[i].cost <= fs[i].cost
    BY DEF Priced
  <2> QED BY <2>1, CostCompares
<1>2. CostAt(T, fs) <= CostAt(S, es)
  <2>1. \A i \in 1..Len(fs) : i \in T => i \in S /\ fs[i].cost <= es[i].cost
    BY DEF Priced
  <2> QED BY <2>1, CostCompares
<1> QED BY <1>1, <1>2

\* Nothing costs nothing.
LEMMA NothingCosts ==
  ASSUME NEW es, Priced(es)
  PROVE  CostAt({}, es) = 0
<1>1. PICK N \in Nat : N = Len(es)
  BY DEF Priced
<1>2. PICK f : RunningSum(f, {}, es, N) /\ CostAt({}, es) = f[N]
  BY <1>1, CostIsRunningSum
<1> DEFINE Good == {i \in 0..N : f[i] = 0}
<1>3. 0 \in Good
  BY <1>2 DEF RunningSum
<1>4. ASSUME NEW i \in 1..N, i - 1 \in Good PROVE i \in Good
  BY <1>2, <1>4 DEF RunningSum
<1>5. 0..N \subseteq Good
  <2> HIDE DEF Good
  <2> QED BY <1>3, <1>4, Stepwise
<1> QED BY <1>2, <1>5

\* One position more costs what its entry costs.
LEMMA OneMoreCosts ==
  ASSUME NEW es, Priced(es), NEW S, NEW k \in 1..Len(es), k \notin S
  PROVE  CostAt(S \cup {k}, es) = CostAt(S, es) + es[k].cost
<1>1. PICK N \in Nat : N = Len(es)
  BY DEF Priced
<1>2. PICK f : RunningSum(f, S, es, N) /\ CostAt(S, es) = f[N]
  BY <1>1, CostIsRunningSum
<1>3. PICK g : RunningSum(g, S \cup {k}, es, N) /\ CostAt(S \cup {k}, es) = g[N]
  BY <1>1, CostIsRunningSum
<1>4. /\ f[0] = 0 /\ g[0] = 0 /\ f \in [0..N -> Nat] /\ g \in [0..N -> Nat]
      /\ es[k].cost \in Nat /\ k \in 1..N
  BY <1>1, <1>2, <1>3 DEF RunningSum, Priced
<1> DEFINE Good == {i \in 0..N : g[i] = f[i] + (IF k <= i THEN es[k].cost ELSE 0)}
<1>5. 0 \in Good
  BY <1>4
<1>6. ASSUME NEW i \in 1..N, i - 1 \in Good PROVE i \in Good
  <2>1. /\ f[i] = f[i - 1] + (IF i \in S THEN es[i].cost ELSE 0)
        /\ g[i] = g[i - 1] + (IF i \in S \cup {k} THEN es[i].cost ELSE 0)
    BY <1>2, <1>3 DEF RunningSum
  <2>2. /\ f[i - 1] \in Nat /\ g[i - 1] \in Nat /\ es[i].cost \in Nat
        /\ g[i - 1] = f[i - 1] + (IF k <= i - 1 THEN es[k].cost ELSE 0)
    BY <1>1, <1>4, <1>6 DEF Priced
  <2>3. CASE i = k
    <3>1. g[i] = g[i - 1] + es[k].cost /\ f[i] = f[i - 1] /\ g[i - 1] = f[i - 1]
      BY <2>1, <2>2, <2>3, <1>4
    <3> QED BY <3>1, <2>2, <2>3, <1>4
  <2>4. CASE i # k
    <3>1. (k <= i <=> k <= i - 1) /\ (i \in S \cup {k} <=> i \in S)
      BY <2>4, <1>4
    <3>2. PICK c \in Nat : c = (IF i \in S THEN es[i].cost ELSE 0)
      BY <2>2
    <3>3. PICK e \in Nat : e = (IF k <= i THEN es[k].cost ELSE 0)
      BY <1>4
    <3>4. f[i] = f[i - 1] + c /\ g[i] = g[i - 1] + c /\ g[i - 1] = f[i - 1] + e
      BY <3>1, <3>2, <3>3, <2>1, <2>2
    <3>5. g[i] = f[i] + e
      BY <3>4, <2>2
    <3> QED BY <3>3, <3>5
  <2> QED BY <2>3, <2>4
<1>7. 0..N \subseteq Good
  <2> HIDE DEF Good
  <2> QED BY <1>5, <1>6, Stepwise
<1>8. N \in Good /\ k <= N
  BY <1>4, <1>7
<1> QED BY <1>2, <1>3, <1>8

\* A list with an entry more.
LEMMA CostOfLonger ==
  ASSUME NEW es, Priced(es), NEW fs, Priced(fs), NEW S, Len(fs) = Len(es) + 1,
         \A i \in 1..Len(es) : fs[i].cost = es[i].cost
  PROVE  CostAt(S, fs) =
           CostAt(S, es) + (IF Len(fs) \in S THEN fs[Len(fs)].cost ELSE 0)
<1>1. PICK N \in Nat : N = Len(es) /\ N + 1 = Len(fs)
  BY DEF Priced
<1>2. PICK f : RunningSum(f, S, es, N) /\ CostAt(S, es) = f[N]
  BY <1>1, CostIsRunningSum
<1>3. PICK g : RunningSum(g, S, fs, N + 1) /\ CostAt(S, fs) = g[N + 1]
  BY <1>1, CostIsRunningSum
<1> DEFINE Good == {i \in 0..N : g[i] = f[i]}
<1>5. 0 \in Good
  BY <1>2, <1>3 DEF RunningSum
<1>6. ASSUME NEW i \in 1..N, i - 1 \in Good PROVE i \in Good
  <2>1. /\ f[i] = f[i - 1] + (IF i \in S THEN es[i].cost ELSE 0)
        /\ g[i] = g[i - 1] + (IF i \in S THEN fs[i].cost ELSE 0)
    BY <1>2, <1>3 DEF RunningSum
  <2> QED BY <1>1, <1>6, <2>1
<1>7. 0..N \subseteq Good
  <2> HIDE DEF Good
  <2> QED BY <1>5, <1>6, Stepwise
<1>8. g[N] = f[N] /\ g[N + 1] = g[N + 1 - 1] + (IF N + 1 \in S THEN fs[N + 1].cost ELSE 0)
  BY <1>3, <1>7 DEF RunningSum
<1> QED BY <1>1, <1>2, <1>3, <1>8

\* If each position of S has one of T to itself that costs as much or more, S
\* costs no more than T.
LEMMA CostInjection ==
  ASSUME NEW es, Priced(es), NEW fs, Priced(fs),
         NEW S \in SUBSET (1..Len(es)), NEW T \in SUBSET (1..Len(fs)), NEW m \in [S -> T],
         \A i, j \in S : m[i] = m[j] => i = j,
         \A i \in S : es[i].cost <= fs[m[i]].cost
  PROVE  CostAt(S, es) \in Nat /\ CostAt(T, fs) \in Nat /\ CostAt(S, es) <= CostAt(T, fs)
<1>1. PICK N \in Nat : N = Len(es)
  BY DEF Priced
<1>2. PICK f : RunningSum(f, S, es, N) /\ CostAt(S, es) = f[N]
  BY <1>1, CostIsRunningSum
<1>3. f[0] = 0 /\ f \in [0..N -> Nat]
  BY <1>2 DEF RunningSum
<1> DEFINE Met(i) == {k \in T : \E j \in S : j <= i /\ m[j] = k}
           Good == {i \in 0..N : f[i] <= CostAt(Met(i), fs)}
<1>4. 0 \in Good
  <2>1. Met(0) = {}
    BY <1>1
  <2> QED BY <2>1, <1>3, NothingCosts
<1>5. ASSUME NEW i \in 1..N, i - 1 \in Good PROVE i \in Good
  <2>1. f[i] = f[i - 1] + (IF i \in S THEN es[i].cost ELSE 0)
    BY <1>2 DEF RunningSum
  <2>2. f[i - 1] \in Nat /\ f[i - 1] <= CostAt(Met(i - 1), fs)
    BY <1>3, <1>5
  <2>3. CASE i \notin S
    <3>1. Met(i) = Met(i - 1)
      <4>1. \A j \in S : j <= i <=> j <= i - 1
        BY <2>3, <1>1
      <4> QED BY <4>1
    <3>2. f[i] <= CostAt(Met(i), fs)
      <4> HIDE DEF Met
      <4> QED BY <2>1, <2>2, <2>3, <3>1
    <3> QED BY <3>2
  <2>4. CASE i \in S
    <3>1. m[i] \in T /\ m[i] \in 1..Len(fs) /\ es[i].cost <= fs[m[i]].cost
      BY <2>4
    <3>2. Met(i) = Met(i - 1) \cup {m[i]}
      <4>1. \A j \in S : j <= i <=> (j <= i - 1 \/ j = i)
        BY <1>1
      <4> QED BY <4>1, <3>1, <2>4
    <3>3. m[i] \notin Met(i - 1)
      <4>1. \A j \in S : m[j] = m[i] => ~(j <= i - 1)
        BY <2>4
      <4> QED BY <4>1
    <3>4. CostAt(Met(i), fs) = CostAt(Met(i - 1), fs) + fs[m[i]].cost
      <4> HIDE DEF Met
      <4> QED BY <3>1, <3>2, <3>3, OneMoreCosts
    <3>5. CostAt(Met(i - 1), fs) \in Nat
      <4> HIDE DEF Met
      <4> QED BY CostCompares DEF Priced
    <3>6. es[i].cost \in Nat /\ fs[m[i]].cost \in Nat
      BY <1>1, <3>1 DEF Priced
    <3>7. f[i] <= CostAt(Met(i), fs)
      <4> HIDE DEF Met
      <4> QED BY <2>1, <2>2, <2>4, <3>1, <3>4, <3>5, <3>6
    <3> QED BY <3>7
  <2> QED BY <2>3, <2>4
<1>6. 0..N \subseteq Good
  <2> HIDE DEF Good
  <2> QED BY <1>4, <1>5, Stepwise
<1>7. f[N] <= CostAt(Met(N), fs) /\ f[N] \in Nat
  BY <1>3, <1>6
<1>8. /\ CostAt(Met(N), fs) \in Nat /\ CostAt(T, fs) \in Nat
      /\ CostAt(Met(N), fs) <= CostAt(T, fs)
  <2>1. Met(N) \subseteq T /\ \A i \in 1..Len(fs) : fs[i].cost \in Nat
    BY DEF Priced
  <2>2. \A i \in 1..Len(fs) : i \in Met(N) => i \in T /\ fs[i].cost <= fs[i].cost
    BY <2>1
  <2> HIDE DEF Met
  <2> QED BY <2>2, CostCompares
<1> QED
  <2> HIDE DEF Met
  <2> QED BY <1>2, <1>7, <1>8

-----------------------------------------------------------------------------
(* The inductive invariant. *)

ResponseType == {NoResponse} \cup Responses
MessageType == [kind : {"call", "answer", "repair"}, call : Nat]
RoundStatus == {"pending", "unknown", "invalid", "received", "late_received"}
RoundType == [attempt : Nat, status : RoundStatus, cost : Nat]
StateType ==
  [messages : Seq(MessageType), rounds : Seq(RoundType), calls : Nat, pending : Seq(Nat),
   repairs : Nat, response : ResponseType, output : BOOLEAN, error : BOOLEAN]
RunType ==
  [status : {"running", "failed"}, completed : BOOLEAN, row : StateType \cup {NoRow}]
WorkerType ==
  [run : Nat,
   pc : {"load", "ask", "send", "wait", "tool", "reply", "save", "finish", "ended"},
   state : StateType, round : Nat, request : Nat]
RequestType == [attempt : Nat, round : Nat, cost : Nat]

TypeOK ==
  /\ runs \in Seq(RunType) /\ Len(runs) > 0
  /\ workers \in Seq(WorkerType) /\ \A a \in DOMAIN workers : RunOf(a) \in DOMAIN runs
  /\ owner \in {0} \cup DOMAIN workers
  /\ requests \in Seq(RequestType)

Used == {"received", "late_received"}
Filled(n) == runs[n].row # NoRow
Rounds(n) == runs[n].row.rounds
\* The rows that began with what attempt a found, or that a itself writes.
After(a) == {n \in RunOf(a)..Now : Filled(n)}

\* The claim is for the run that goes on, and only its holder is between two
\* transactions of the conversation.
Claimed ==
  /\ owner # 0 => RunOf(owner) = Now /\ runs[Now].status = "running"
  /\ \A a \in DOMAIN workers :
       /\ workers[a].pc \notin {"ended", "send", "wait"} => owner = a
       /\ workers[a].pc \notin {"ended", "load"} => Filled(RunOf(a))

\* Round k is one that attempt a reserved, in every row that it can be in.
Reserved(a, k) ==
  \A n \in After(a) : k \in DOMAIN Rounds(n) /\ Rounds(n)[k].attempt = a

\* A reservation that no request was made for yet.
Unsent(a) ==
  /\ Reserved(a, workers[a].round)
  /\ \A n \in After(a) :
       /\ Rounds(n)[workers[a].round].status \in {"pending", "unknown"}
       /\ Rounds(n)[workers[a].round].cost = RowOf(a).rounds[workers[a].round].cost
  /\ \A r \in DOMAIN requests : requests[r].round # workers[a].round

\* A worker waits for the answer to a request of its own.
Waits(a) ==
  /\ workers[a].request \in DOMAIN requests
  /\ requests[workers[a].request].attempt = a
  /\ requests[workers[a].request].round = workers[a].round

InFlight ==
  \A a \in DOMAIN workers : (At(a, "send") => Unsent(a)) /\ (At(a, "wait") => Waits(a))

\* Request r is paid for by its round, in every row that knows of it.
Paid(r) ==
  LET a == requests[r].attempt
      k == requests[r].round
  IN /\ a \in DOMAIN workers /\ Filled(RunOf(a)) /\ Reserved(a, k)
     /\ \A n \in After(a) :
          /\ requests[r].cost <= Rounds(n)[k].cost
          /\ Rounds(n)[k].status \in Used => requests[r].cost = Rounds(n)[k].cost

RequestsPaid ==
  /\ \A r \in DOMAIN requests : Paid(r)
  /\ \A r, s \in DOMAIN requests : requests[r].round = requests[s].round => r = s

\* What a row says was used was asked for.
UseAsked ==
  \A n \in DOMAIN runs : \A k \in DOMAIN Rounds(n) :
    Rounds(n)[k].status \in Used =>
      \E r \in DOMAIN requests :
        requests[r].attempt = Rounds(n)[k].attempt /\ requests[r].round = k

Limited ==
  \A n \in DOMAIN runs : Len(Rounds(n)) <= MaxRounds /\ Total(Rounds(n)) <= MaxCost

\* Only the last round may be expected, and none while there is work to do.
Quiet(state) == \A k \in DOMAIN state.rounds : state.rounds[k].status # "pending"
OneExpected ==
  \A n \in DOMAIN runs :
    /\ \A k \in DOMAIN Rounds(n) : Rounds(n)[k].status = "pending" => k = Len(Rounds(n))
    /\ runs[n].row.response # NoResponse \/ runs[n].row.pending # <<>> => Quiet(runs[n].row)

\* The calls so far, the answers to all but the pending ones, and these.
Told(state) ==
  /\ InOrder(state.messages, "call", state.calls)
  /\ Len(state.pending) <= state.calls
  /\ InOrder(state.messages, "answer", state.calls - Len(state.pending))
  /\ \A i \in DOMAIN state.pending : state.pending[i] = state.calls - Len(state.pending) + i

AllTold ==
  /\ \A n \in DOMAIN runs : Told(runs[n].row)
  /\ \A a \in DOMAIN workers : Told(workers[a].state)

\* What a worker may rely on of the row it loaded.
Recalls(w, row) ==
  /\ w.pc \in {"ask", "send"} => w.state.pending = <<>>
  /\ w.pc \in {"ask", "reply"} => row.pending = <<>>
  /\ w.pc \in {"tool", "reply", "save"} => Quiet(row)
  /\ w.pc \in {"tool", "reply"} => Len(w.state.messages) = Len(row.messages)
  /\ w.pc = "tool" => w.state.pending # <<>>
  /\ w.pc = "save" => w.state.output \/ Len(w.state.messages) > Len(row.messages)
Remembers(a) == Recalls(workers[a], RowOf(a))
AllRemember == \A a \in DOMAIN workers : Remembers(a)

\* What was asked and is charged; and what was said and is remembered.
Ledger == InFlight /\ RequestsPaid /\ UseAsked /\ Limited
Memory == OneExpected /\ AllTold /\ AllRemember

IInv == TypeOK /\ Claimed /\ Ledger /\ Memory

-----------------------------------------------------------------------------
(* What the types say. *)

\* A conversation that has begun, and the row that is not there yet.
LEMMA States ==
  /\ NewState \in StateType /\ NoRow \notin StateType
  /\ \A s \in {NewState, NoRow} :
       /\ s.messages = <<>> /\ s.rounds = <<>> /\ s.calls = 0 /\ s.pending = <<>>
       /\ s.response = NoResponse /\ s.output = FALSE /\ s.error = FALSE
<1>1. NoResponse \in ResponseType
  BY DEF ResponseType
<1>2. <<>> \in Seq(MessageType) /\ <<>> \in Seq(RoundType) /\ <<>> \in Seq(Nat)
  BY EmptySeq
<1>3. NewState \in StateType
  BY <1>1, <1>2 DEF NewState, StateType
<1>4. NoRow.repairs = -1 /\ \A s \in StateType : s.repairs \in Nat
  BY DEF NoRow, NewState, StateType
<1>5. NoRow \notin StateType
  <2>1. ~(-1 \in Nat)
    OBVIOUS
  <2> QED BY <1>4, <2>1
<1> QED BY <1>3, <1>5 DEF NewState, NoRow

\* The fields of a row, whether it is there or not.
LEMMA Fields ==
  ASSUME NEW s \in StateType \cup {NoRow}
  PROVE  /\ s.messages \in Seq(MessageType) /\ s.rounds \in Seq(RoundType)
         /\ s.calls \in Nat /\ s.pending \in Seq(Nat) /\ s.response \in ResponseType
         /\ s.output \in BOOLEAN /\ s.error \in BOOLEAN
         /\ Len(s.messages) \in Nat /\ DOMAIN s.messages = 1..Len(s.messages)
         /\ \A i \in 1..Len(s.messages) : s.messages[i] \in MessageType
         /\ Len(s.rounds) \in Nat /\ DOMAIN s.rounds = 1..Len(s.rounds)
         /\ \A k \in 1..Len(s.rounds) : s.rounds[k] \in RoundType
         /\ Len(s.pending) \in Nat /\ DOMAIN s.pending = 1..Len(s.pending)
         /\ \A i \in 1..Len(s.pending) : s.pending[i] \in Nat
<1>1. /\ s.messages \in Seq(MessageType) /\ s.rounds \in Seq(RoundType)
      /\ s.calls \in Nat /\ s.pending \in Seq(Nat) /\ s.response \in ResponseType
      /\ s.output \in BOOLEAN /\ s.error \in BOOLEAN
  <2>1. CASE s = NoRow
    <3>1. NoResponse \in ResponseType
      BY DEF ResponseType
    <3>2. <<>> \in Seq(MessageType) /\ <<>> \in Seq(RoundType) /\ <<>> \in Seq(Nat)
      BY EmptySeq
    <3>3. /\ s.messages = <<>> /\ s.rounds = <<>> /\ s.calls = 0 /\ s.pending = <<>>
          /\ s.response = NoResponse
      BY <2>1, States
    <3>4. s.output \in BOOLEAN /\ s.error \in BOOLEAN
      BY <2>1 DEF NoRow, NewState
    <3> QED BY <3>1, <3>2, <3>3, <3>4
  <2>2. CASE s \in StateType
    BY <2>2 DEF StateType
  <2> QED BY <2>1, <2>2
<1>2. /\ Len(s.messages) \in Nat /\ DOMAIN s.messages = 1..Len(s.messages)
      /\ \A i \in 1..Len(s.messages) : s.messages[i] \in MessageType
  BY <1>1, LenProperties, ElementOfSeq
<1>3. /\ Len(s.rounds) \in Nat /\ DOMAIN s.rounds = 1..Len(s.rounds)
      /\ \A k \in 1..Len(s.rounds) : s.rounds[k] \in RoundType
  BY <1>1, LenProperties, ElementOfSeq
<1>4. /\ Len(s.pending) \in Nat /\ DOMAIN s.pending = 1..Len(s.pending)
      /\ \A i \in 1..Len(s.pending) : s.pending[i] \in Nat
  BY <1>1, LenProperties, ElementOfSeq
<1> QED BY <1>1, <1>2, <1>3, <1>4

\* Rounds and requests have a cost.
LEMMA RoundsPriced ==
  ASSUME NEW rounds \in Seq(RoundType)
  PROVE  Priced(rounds)
<1>1. /\ Len(rounds) \in Nat /\ DOMAIN rounds = 1..Len(rounds)
      /\ \A k \in 1..Len(rounds) : rounds[k] \in RoundType
  BY LenProperties, ElementOfSeq
<1> QED BY <1>1 DEF Priced, RoundType

\* The lists of a state.
LEMMA Lists ==
  ASSUME TypeOK
  PROVE  /\ Now \in Nat \ {0} /\ Now = Len(runs) /\ DOMAIN runs = 1..Now
         /\ \A n \in DOMAIN runs : runs[n] \in RunType /\ runs[n].row \in StateType \cup {NoRow}
         /\ Len(workers) \in Nat /\ DOMAIN workers = 1..Len(workers)
         /\ \A a \in DOMAIN workers :
              workers[a] \in WorkerType /\ RunOf(a) \in 1..Now /\ workers[a].run = RunOf(a)
         /\ Len(requests) \in Nat /\ DOMAIN requests = 1..Len(requests)
         /\ \A r \in DOMAIN requests : requests[r] \in RequestType
         /\ Priced(requests)
<1>1. runs \in Seq(RunType) /\ workers \in Seq(WorkerType) /\ requests \in Seq(RequestType)
  BY DEF TypeOK
<1>2. /\ Len(runs) \in Nat /\ DOMAIN runs = 1..Len(runs)
      /\ \A n \in DOMAIN runs : runs[n] \in RunType
  BY <1>1, LenProperties, ElementOfSeq
<1>3. /\ Len(workers) \in Nat /\ DOMAIN workers = 1..Len(workers)
      /\ \A a \in DOMAIN workers : workers[a] \in WorkerType
  BY <1>1, LenProperties, ElementOfSeq
<1>4. /\ Len(requests) \in Nat /\ DOMAIN requests = 1..Len(requests)
      /\ \A r \in DOMAIN requests : requests[r] \in RequestType
  BY <1>1, LenProperties, ElementOfSeq
<1>5. Priced(requests)
  BY <1>4 DEF Priced, RequestType
<1>6. Now = Len(runs) /\ Now \in Nat \ {0}
  BY <1>2 DEF TypeOK, Now
<1>7. \A n \in DOMAIN runs : runs[n].row \in StateType \cup {NoRow}
  BY <1>2 DEF RunType
<1>8. \A a \in DOMAIN workers : RunOf(a) \in DOMAIN runs /\ workers[a].run = RunOf(a)
  BY DEF TypeOK, RunOf
<1> QED BY <1>2, <1>3, <1>4, <1>5, <1>6, <1>7, <1>8

\* The rounds of any run.
LEMMA RoundLists ==
  ASSUME TypeOK, NEW n \in DOMAIN runs
  PROVE  /\ Rounds(n) \in Seq(RoundType) /\ Priced(Rounds(n))
         /\ Len(Rounds(n)) \in Nat /\ DOMAIN Rounds(n) = 1..Len(Rounds(n))
         /\ \A k \in DOMAIN Rounds(n) : Rounds(n)[k] \in RoundType
         /\ ~Filled(n) => Rounds(n) = <<>> /\ Len(Rounds(n)) = 0
         /\ Rounds(n) = runs[n].row.rounds
<1>1. runs[n].row \in StateType \cup {NoRow}
  BY Lists
<1>2. /\ Rounds(n) \in Seq(RoundType)
      /\ Len(Rounds(n)) \in Nat /\ DOMAIN Rounds(n) = 1..Len(Rounds(n))
      /\ \A k \in DOMAIN Rounds(n) : Rounds(n)[k] \in RoundType
  BY <1>1, Fields DEF Rounds
<1>3. ~Filled(n) => Rounds(n) = <<>> /\ Len(Rounds(n)) = 0
  BY States, EmptySeq DEF Filled, Rounds
<1> QED BY <1>2, <1>3, RoundsPriced DEF Rounds

-----------------------------------------------------------------------------
(* The shapes of steps. *)

\* A transaction replaces the row of the worker's run.
LEMMA RowWritten ==
  ASSUME TypeOK, NEW a \in DOMAIN workers, NEW s \in StateType, Written(a, s),
         NEW n, n = RunOf(a)
  PROVE  /\ runs' \in Seq(RunType) /\ Now' = Now /\ Len(runs') = Len(runs)
         /\ DOMAIN runs' = DOMAIN runs /\ n \in DOMAIN runs
         /\ runs'[n].row = s /\ Filled(n)' /\ Rounds(n)' = s.rounds
         /\ \A m \in DOMAIN runs :
              /\ runs'[m].status = runs[m].status
              /\ m # n => /\ runs'[m].row = runs[m].row
                          /\ Filled(m)' <=> Filled(m)
                          /\ Rounds(m)' = Rounds(m)
<1>2. /\ runs \in Seq(RunType) /\ n \in DOMAIN runs /\ runs[n] \in RunType
      /\ runs' = [runs EXCEPT ![n].row = s]
  BY Lists DEF TypeOK, Written
<1>3. PICK run : run = [runs[n] EXCEPT !.row = s]
  OBVIOUS
<1>4. run \in RunType /\ run.row = s /\ run.status = runs[n].status
  BY <1>2, <1>3 DEF RunType
<1>5. runs' = [runs EXCEPT ![n] = run]
  BY <1>2, <1>3
<1>6. runs' \in Seq(RunType) /\ Len(runs') = Len(runs) /\ DOMAIN runs' = DOMAIN runs
  BY <1>2, <1>4, <1>5, ExceptSeq, LenProperties
<1>7. runs'[n] = run /\ \A m \in DOMAIN runs : m # n => runs'[m] = runs[m]
  BY <1>2, <1>5
<1>8. Filled(n)' /\ Rounds(n)' = s.rounds
  BY <1>4, <1>7, States DEF Filled, Rounds
<1>9. \A m \in DOMAIN runs : m # n => (Filled(m)' <=> Filled(m)) /\ Rounds(m)' = Rounds(m)
  BY <1>7 DEF Filled, Rounds
<1>10. Now' = Now
  BY <1>6 DEF Now
<1>11. \A m \in DOMAIN runs : runs'[m].status = runs[m].status
  BY <1>4, <1>7
<1>12. n \in DOMAIN runs /\ runs'[n].row = s
  BY <1>2, <1>4, <1>7
<1>13. \A m \in DOMAIN runs : m # n => runs'[m].row = runs[m].row
  BY <1>7
<1> QED BY <1>6, <1>8, <1>9, <1>10, <1>11, <1>12, <1>13

\* A step of one worker.
LEMMA WorkerSet ==
  ASSUME TypeOK, NEW a \in DOMAIN workers, NEW w \in WorkerType, w.run = RunOf(a),
         workers' = [workers EXCEPT ![a] = w]
  PROVE  /\ workers' \in Seq(WorkerType) /\ DOMAIN workers' = DOMAIN workers
         /\ workers'[a] = w /\ \A b \in DOMAIN workers : b # a => workers'[b] = workers[b]
         /\ \A b \in DOMAIN workers : RunOf(b)' = RunOf(b)
<1>1. workers \in Seq(WorkerType)
  BY DEF TypeOK
<1>2. workers' \in Seq(WorkerType) /\ DOMAIN workers' = DOMAIN workers
  BY <1>1, ExceptSeq, LenProperties
<1>3. workers'[a] = w /\ \A b \in DOMAIN workers : b # a => workers'[b] = workers[b]
  BY <1>1
<1> QED BY <1>2, <1>3 DEF RunOf

\* A step of one worker, and of the rows only those of its own run.
LEMMA TypesKept ==
  ASSUME TypeOK, runs' \in Seq(RunType), Len(runs') >= Len(runs),
         workers' \in Seq(WorkerType), DOMAIN workers' = DOMAIN workers,
         \A b \in DOMAIN workers : RunOf(b)' = RunOf(b),
         owner' \in {0} \cup DOMAIN workers, requests' \in Seq(RequestType)
  PROVE  TypeOK'
<1>1. Len(runs) \in Nat /\ Len(runs') \in Nat /\ DOMAIN runs' = 1..Len(runs')
  BY LenProperties DEF TypeOK
<1>2. Len(runs') > 0
  BY <1>1 DEF TypeOK
<1>3. DOMAIN runs \subseteq DOMAIN runs'
  BY <1>1, Lists DEF Now
<1> QED BY <1>2, <1>3 DEF TypeOK

\* A row keeps its rounds and is there or not, as before, in every run.
RoundsStay ==
  /\ \A n \in DOMAIN runs :
       n \in DOMAIN runs' /\ (Filled(n)' <=> Filled(n)) /\ Rounds(n)' = Rounds(n)
  /\ \A n \in DOMAIN runs' : n \notin DOMAIN runs => ~Filled(n)'
  /\ Now' >= Now

\* Nobody begins to ask, and who asks does not change.
AskersStay ==
  /\ DOMAIN workers \subseteq DOMAIN workers'
  /\ \A a \in DOMAIN workers : RunOf(a)' = RunOf(a)
  /\ \A a \in DOMAIN workers' :
       workers'[a].pc \in {"send", "wait"} =>
         /\ a \in DOMAIN workers /\ workers[a].pc = workers'[a].pc
         /\ workers'[a].round = workers[a].round /\ workers'[a].request = workers[a].request

\* The rows that know of an attempt stay the same.
LEMMA AfterStays ==
  ASSUME TypeOK, TypeOK', RoundsStay, AskersStay, NEW a \in DOMAIN workers
  PROVE  After(a)' = After(a)
<1>1. Now \in Nat /\ Now' \in Nat /\ DOMAIN runs = 1..Now /\ DOMAIN runs' = 1..Now'
  <2>1. runs' \in Seq(RunType)
    BY DEF TypeOK
  <2> QED BY <2>1, Lists, LenProperties DEF Now
<1>2. PICK m \in 1..Now : m = RunOf(a) /\ m = RunOf(a)'
  BY Lists DEF AskersStay
<1>3. After(a) = {n \in m..Now : Filled(n)}
  BY <1>2 DEF After
<1>4. After(a)' = {n \in m..Now' : Filled(n)'}
  BY <1>2 DEF After
<1>5. \A n \in m..Now' : Filled(n)' <=> n \in m..Now /\ Filled(n)
  BY <1>1, <1>2 DEF RoundsStay
<1>6. m..Now \subseteq m..Now'
  BY <1>1, <1>2 DEF RoundsStay
<1> QED BY <1>3, <1>4, <1>5, <1>6

\* Such a step keeps the ledger.
LEMMA LedgerStays ==
  ASSUME TypeOK, TypeOK', Claimed, Ledger, RoundsStay, AskersStay, requests' = requests
  PROVE  Ledger'
<1>1. \A n \in DOMAIN runs : Rounds(n)' = Rounds(n) /\ (Filled(n)' <=> Filled(n))
  BY DEF RoundsStay
<1>2. \A a \in DOMAIN workers : After(a)' = After(a)
  BY AfterStays
<1>3. \A a \in DOMAIN workers : After(a) \subseteq DOMAIN runs /\ RunOf(a) \in DOMAIN runs
                                /\ RunOf(a)' = RunOf(a)
  BY Lists DEF After, AskersStay
<1>4. ASSUME NEW a \in DOMAIN workers, NEW k PROVE Reserved(a, k)' <=> Reserved(a, k)
  BY <1>1, <1>2, <1>3 DEF Reserved
<1>5. InFlight'
  <2>1. ASSUME NEW a \in DOMAIN workers', At(a, "send")' PROVE Unsent(a)'
    <3>1. a \in DOMAIN workers /\ At(a, "send") /\ workers'[a].round = workers[a].round
      BY <2>1 DEF AskersStay, At
    <3>2. Unsent(a)
      BY <3>1 DEF Ledger, InFlight
    <3>3. PICK k : k = workers[a].round /\ k = workers'[a].round
      BY <3>1
    <3>4. RowOf(a).rounds = Rounds(RunOf(a)) /\ RowOf(a)'.rounds = Rounds(RunOf(a))
      BY <1>1, <1>3, <3>1 DEF RowOf, Rounds
    <3> QED BY <3>1, <3>2, <3>3, <3>4, <1>1, <1>2, <1>3, <1>4 DEF Unsent
  <2>2. ASSUME NEW a \in DOMAIN workers', At(a, "wait")' PROVE Waits(a)'
    <3>1. /\ a \in DOMAIN workers /\ At(a, "wait") /\ workers'[a].round = workers[a].round
          /\ workers'[a].request = workers[a].request
      BY <2>2 DEF AskersStay, At
    <3> QED BY <3>1 DEF Ledger, InFlight, Waits
  <2> QED BY <2>1, <2>2 DEF InFlight
<1>6. RequestsPaid'
  <2>1. ASSUME NEW r \in DOMAIN requests PROVE Paid(r)'
    <3>1. Paid(r)
      BY DEF Ledger, RequestsPaid
    <3>2. requests[r].attempt \in DOMAIN workers /\ requests[r].attempt \in DOMAIN workers'
      BY <3>1 DEF Paid, AskersStay
    <3> QED BY <3>1, <3>2, <1>1, <1>2, <1>3, <1>4 DEF Paid
  <2> QED BY <2>1 DEF Ledger, RequestsPaid
<1>7. \A n \in DOMAIN runs' : n \notin DOMAIN runs => Rounds(n)' = <<>> /\ DOMAIN Rounds(n)' = {}
                                                     /\ Len(Rounds(n)') = 0
  BY States, EmptySeq DEF RoundsStay, Filled, Rounds
<1>8. UseAsked'
  BY <1>1, <1>7 DEF Ledger, UseAsked
<1>9. Limited'
  <2>1. Priced(<<>>) /\ CostAt(DOMAIN <<>>, <<>>) = 0
    BY NothingCosts, EmptySeq DEF Priced
  <2>2. 0 <= MaxRounds /\ 0 <= MaxCost
    BY LimitAssumption
  <2>3. \A n \in DOMAIN runs' : n \in DOMAIN runs => Len(Rounds(n)') <= MaxRounds
                                                   /\ Total(Rounds(n)') <= MaxCost
    BY <1>1 DEF Ledger, Limited
  <2>4. Total(<<>>) = 0
    BY <2>1 DEF Total
  <2>5. \A n \in DOMAIN runs' : n \notin DOMAIN runs => Len(Rounds(n)') <= MaxRounds
                                                      /\ Total(Rounds(n)') <= MaxCost
    BY <1>7, <2>2, <2>4
  <2> QED BY <2>3, <2>5 DEF Limited, Total
<1> QED BY <1>5, <1>6, <1>8, <1>9 DEF Ledger

\* A row is as the invariant wants it.
Sound(row) ==
  /\ \A k \in DOMAIN row.rounds : row.rounds[k].status = "pending" => k = Len(row.rounds)
  /\ row.response # NoResponse \/ row.pending # <<>> => Quiet(row)
  /\ Told(row)

\* What is said of the memory, by rows and by workers.
LEMMA MemoryIsSound ==
  Memory <=> /\ \A n \in DOMAIN runs : Sound(runs[n].row)
             /\ \A a \in DOMAIN workers : Told(workers[a].state) /\ Remembers(a)
<1>1. \A n : Rounds(n) = runs[n].row.rounds
  BY DEF Rounds
<1> QED BY <1>1 DEF Memory, OneExpected, AllTold, AllRemember, Sound

\* Nothing said yet.
LEMMA NothingTold ==
  Sound(NewState) /\ Sound(NoRow) /\ Told(NewState)
<1>1. \A s \in {NewState, NoRow} : /\ DOMAIN s.rounds = {} /\ DOMAIN s.messages = {}
                                   /\ DOMAIN s.pending = {} /\ Len(s.pending) = 0
                                   /\ s.calls = 0 /\ 1..s.calls = {}
                                   /\ 1..(s.calls - Len(s.pending)) = {}
  BY States, EmptySeq
<1>2. \A s \in {NewState, NoRow} : Told(s)
  BY <1>1 DEF Told, InOrder
<1> QED BY <1>1, <1>2 DEF Sound, Quiet

\* A worker that is stopped.
LEMMA EndedWorker ==
  ASSUME TypeOK, NEW a \in DOMAIN workers
  PROVE  /\ Ended(a) \in WorkerType /\ Ended(a).run = RunOf(a) /\ Ended(a).pc = "ended"
         /\ Ended(a).state = NewState
<1>1. workers[a].run = RunOf(a) /\ RunOf(a) \in Nat /\ Now \in Nat
  BY Lists
<1>2. /\ NewWorker \in WorkerType /\ NewWorker.state = NewState
  BY <1>1, States DEF NewWorker, WorkerType
<1>3. PICK w \in WorkerType : w = NewWorker /\ w.state = NewState
  BY <1>2
<1>4. Ended(a) = [w EXCEPT !.run = workers[a].run, !.pc = "ended"]
  BY <1>3 DEF Ended
<1> QED BY <1>1, <1>3, <1>4 DEF WorkerType

\* What the loss of the claim leaves of the workers.
LEMMA ClaimLost ==
  ASSUME IInv, LosesClaim
  PROVE  /\ workers' \in Seq(WorkerType) /\ DOMAIN workers' = DOMAIN workers
         /\ \A a \in DOMAIN workers :
              /\ RunOf(a)' = RunOf(a)
              /\ workers'[a].pc \in {"ended", "send", "wait"}
              /\ \/ workers'[a] = workers[a]
                 \/ workers'[a].pc = "ended" /\ workers'[a].state = NewState
<1>1. TypeOK /\ Claimed
  BY DEF IInv
<1>2. CASE workers' = workers
  <2>1. \A a \in DOMAIN workers : workers[a].pc \in {"ended", "send", "wait"}
    BY <1>1, <1>2, EndedWorker, Lists DEF Claimed, LosesClaim, TypeOK
  <2>2. workers' \in Seq(WorkerType)
    BY <1>1, <1>2 DEF TypeOK
  <2> QED BY <1>2, <2>1, <2>2 DEF RunOf
<1>3. CASE workers' # workers
  <2>1. owner \in DOMAIN workers /\ workers' = [workers EXCEPT ![owner] = Ended(owner)]
    BY <1>1, <1>3 DEF LosesClaim, TypeOK
  <2>2. PICK w \in WorkerType :
          w = Ended(owner) /\ w.run = RunOf(owner) /\ w.pc = "ended" /\ w.state = NewState
    BY <1>1, <2>1, EndedWorker
  <2>3. /\ workers' \in Seq(WorkerType) /\ DOMAIN workers' = DOMAIN workers
        /\ workers'[owner] = w /\ \A b \in DOMAIN workers : b # owner => workers'[b] = workers[b]
        /\ \A b \in DOMAIN workers : RunOf(b)' = RunOf(b)
    BY <1>1, <2>1, <2>2, WorkerSet
  <2>4. \A b \in DOMAIN workers : b # owner => workers[b].pc \in {"ended", "send", "wait"}
    BY <1>1 DEF Claimed
  <2> QED BY <2>2, <2>3, <2>4
<1> QED BY <1>2, <1>3

\* When rows stay as they are, and workers too or stop, the memory is kept.
LEMMA MemoryStays ==
  ASSUME TypeOK, Memory, Len(runs') \in Nat, \A n \in DOMAIN runs : runs'[n].row = runs[n].row,
         \A n \in DOMAIN runs' : n \notin DOMAIN runs => runs'[n].row = NoRow,
         \A a \in DOMAIN workers : a \in DOMAIN workers' /\ RunOf(a)' = RunOf(a),
         \A a \in DOMAIN workers' :
           \/ a \in DOMAIN workers /\ workers'[a] = workers[a]
           \/ workers'[a].pc \in {"ended", "load"} /\ Told(workers'[a].state)
  PROVE  Memory'
<1>1. /\ \A n \in DOMAIN runs : Sound(runs[n].row)
      /\ \A a \in DOMAIN workers : Told(workers[a].state) /\ Remembers(a)
  BY MemoryIsSound
<1>2. \A n \in DOMAIN runs' : Sound(runs'[n].row)
  BY <1>1, NothingTold
<1>3. ASSUME NEW a \in DOMAIN workers' PROVE Told(workers'[a].state) /\ Remembers(a)'
  <2>1. CASE a \in DOMAIN workers /\ workers'[a] = workers[a]
    <3>1. RowOf(a)' = RowOf(a)
      <4>1. PICK n \in DOMAIN runs : n = RunOf(a) /\ n = RunOf(a)'
        BY <2>1, Lists
      <4> QED BY <4>1 DEF RowOf
    <3> QED BY <1>1, <2>1, <3>1 DEF Remembers, Recalls
  <2>2. CASE workers'[a].pc \in {"ended", "load"} /\ Told(workers'[a].state)
    BY <2>2 DEF Remembers, Recalls
  <2> QED BY <2>1, <2>2
<1>4. \A n \in DOMAIN runs' : Rounds(n)' = runs'[n].row.rounds
  BY DEF Rounds
<1> QED BY <1>2, <1>3, <1>4 DEF Memory, OneExpected, AllTold, AllRemember, Sound

-----------------------------------------------------------------------------
(* Attempts and runs come and go. *)

\* Each run starts without a row.
LEMMA Starts ==
  Init => IInv
<1>1. SUFFICES ASSUME Init PROVE IInv
  OBVIOUS
<1>2. PICK run : run = [status |-> "running", completed |-> FALSE, row |-> NoRow]
  OBVIOUS
<1>3. run \in RunType /\ run.row = NoRow /\ runs = <<run>>
  BY <1>1, <1>2 DEF Init, RunType
<1>4. /\ runs \in Seq(RunType) /\ Len(runs) = 1 /\ DOMAIN runs = {1} /\ runs[1].row = NoRow
  BY <1>3
<1>5. workers = <<>> /\ DOMAIN workers = {} /\ requests = <<>> /\ DOMAIN requests = {} /\ owner = 0
  BY <1>1 DEF Init
<1>6. TypeOK
  BY <1>4, <1>5, EmptySeq DEF TypeOK
<1>7. Claimed
  BY <1>5 DEF Claimed
<1>8. Memory
  BY <1>4, <1>5, NothingTold, MemoryIsSound
<1>9. \A n \in DOMAIN runs : Rounds(n) = <<>> /\ DOMAIN Rounds(n) = {} /\ Len(Rounds(n)) = 0
  BY <1>4, States, EmptySeq DEF Rounds
<1>10. InFlight /\ RequestsPaid /\ UseAsked
  BY <1>5, <1>9 DEF InFlight, RequestsPaid, UseAsked
<1>11. Limited
  <2>1. Priced(<<>>) /\ CostAt(DOMAIN <<>>, <<>>) = 0
    BY NothingCosts, EmptySeq DEF Priced
  <2>2. 0 <= MaxRounds /\ 0 <= MaxCost
    BY LimitAssumption
  <2>3. Total(<<>>) = 0
    BY <2>1 DEF Total
  <2> QED BY <1>9, <2>2, <2>3 DEF Limited
<1> QED BY <1>6, <1>7, <1>8, <1>10, <1>11 DEF IInv, Ledger

\* A new attempt.
LEMMA DispatchKeeps ==
  ASSUME IInv, Dispatch
  PROVE  IInv'
<1>1. TypeOK /\ Claimed /\ Ledger /\ Memory
  BY DEF IInv
<1>2. /\ owner = 0 /\ runs[Now].status = "running" /\ runs' = runs /\ requests' = requests
      /\ workers' = Append(workers, NewWorker) /\ owner' = Len(workers) + 1
  BY DEF Dispatch
<1>3. PICK w : w = NewWorker /\ w \in WorkerType /\ w.run = Now /\ w.pc = "load"
               /\ w.state = NewState
  <2>1. Now \in Nat /\ NewState \in StateType
    BY <1>1, Lists, States
  <2>2. NewWorker.run = Now /\ NewWorker.pc = "load" /\ NewWorker.state = NewState
    BY DEF NewWorker
  <2>3. NewWorker \in WorkerType
    BY <2>1 DEF NewWorker, WorkerType
  <2> QED BY <2>2, <2>3
<1>4. /\ workers \in Seq(WorkerType) /\ workers' \in Seq(WorkerType)
      /\ Len(workers) \in Nat /\ Len(workers') = Len(workers) + 1
      /\ DOMAIN workers = 1..Len(workers) /\ DOMAIN workers' = 1..(Len(workers) + 1)
      /\ workers'[owner'] = w
      /\ \A a \in DOMAIN workers : workers'[a] = workers[a]
  <2>1. workers \in Seq(WorkerType)
    BY <1>1 DEF TypeOK
  <2> QED BY <1>2, <1>3, <2>1, AppendProperties, LenProperties
<1>5. /\ owner' \in DOMAIN workers' /\ owner' \notin DOMAIN workers
      /\ \A a \in DOMAIN workers' : a \in DOMAIN workers \/ a = owner'
  BY <1>2, <1>4
<1>6. \A a \in DOMAIN workers : RunOf(a)' = RunOf(a)
  BY <1>4 DEF RunOf
<1>7. PICK o : o = owner'
  OBVIOUS
<1>8. workers'[o] = w /\ workers'[o].run = Now /\ Now' = Now /\ Now \in DOMAIN runs
  BY <1>1, <1>2, <1>3, <1>4, <1>7, Lists DEF Now
<1>9. TypeOK'
  <2>1. \A a \in DOMAIN workers' : workers'[a].run \in DOMAIN runs'
    BY <1>1, <1>2, <1>4, <1>5, <1>7, <1>8, Lists
  <2> QED BY <1>1, <1>2, <1>4, <1>5, <2>1 DEF TypeOK, RunOf
<1>10. Claimed'
  <2>1. \A a \in DOMAIN workers' : workers'[a].pc \notin {"ended", "send", "wait"} => a = o
    BY <1>1, <1>2, <1>4, <1>5, <1>7, Lists DEF Claimed
  <2>2. \A a \in DOMAIN workers' :
          workers'[a].pc \notin {"ended", "load"} =>
            a \in DOMAIN workers /\ Filled(RunOf(a))
    BY <1>1, <1>3, <1>4, <1>5, <1>7, <1>8 DEF Claimed
  <2>3. \A n : Filled(n)' <=> Filled(n)
    BY <1>2 DEF Filled
  <2>4. \A a \in DOMAIN workers' :
          workers'[a].pc \notin {"ended", "load"} => runs'[workers'[a].run].row # NoRow
    BY <1>2, <1>4, <2>2 DEF Filled, RunOf
  <2>5. runs'[Now'].status = "running" /\ workers'[owner'].run = Now'
    BY <1>2, <1>7, <1>8
  <2> QED BY <1>7, <2>1, <2>4, <2>5 DEF Claimed, RunOf, Filled
<1>11. Ledger'
  <2>1. RoundsStay
    BY <1>1, <1>2, <1>8, Lists DEF RoundsStay, Filled, Rounds
  <2>2. AskersStay
    BY <1>3, <1>4, <1>5, <1>6, <1>7, <1>8 DEF AskersStay
  <2> QED BY <1>1, <1>2, <1>9, <2>1, <2>2, LedgerStays
<1>12. Memory'
  <2>1. Len(runs') \in Nat
    BY <1>1, <1>2, Lists
  <2>2. workers'[o].pc = "load" /\ Told(workers'[o].state)
    BY <1>3, <1>8, NothingTold
  <2>3. \A a \in DOMAIN workers' :
           \/ a \in DOMAIN workers /\ workers'[a] = workers[a]
           \/ workers'[a].pc \in {"ended", "load"} /\ Told(workers'[a].state)
    BY <1>4, <1>5, <1>7, <2>2
  <2> QED BY <1>1, <1>2, <1>4, <1>6, <2>1, <2>3, MemoryStays
<1> QED BY <1>9, <1>10, <1>11, <1>12 DEF IInv

\* Losing the claim leaves the rows alone, and of the workers those that ask.
LEMMA ClaimLostKeeps ==
  ASSUME IInv, LosesClaim, requests' = requests,
         runs' \in Seq(RunType), Len(runs') = Len(runs),
         \A n \in DOMAIN runs : runs'[n].row = runs[n].row
  PROVE  IInv'
<1>1. TypeOK /\ Claimed /\ Ledger /\ Memory
  BY DEF IInv
<1>2. /\ workers' \in Seq(WorkerType) /\ DOMAIN workers' = DOMAIN workers
      /\ \A a \in DOMAIN workers :
           /\ RunOf(a)' = RunOf(a)
           /\ workers'[a].pc \in {"ended", "send", "wait"}
           /\ \/ workers'[a] = workers[a]
              \/ workers'[a].pc = "ended" /\ workers'[a].state = NewState
  BY ClaimLost
<1>3. owner' = 0
  BY DEF LosesClaim
<1>4. Len(runs) \in Nat /\ Now' = Now /\ DOMAIN runs' = DOMAIN runs
  BY <1>1, Lists, LenProperties DEF Now
<1>5. TypeOK'
  BY <1>1, <1>2, <1>3, <1>4, TypesKept DEF TypeOK
<1>6. \A n \in DOMAIN runs : (Filled(n)' <=> Filled(n)) /\ Rounds(n)' = Rounds(n)
  BY DEF Filled, Rounds
<1>7. Claimed'
  <2>1. ASSUME NEW a \in DOMAIN workers, workers'[a].pc \notin {"ended", "load"}
        PROVE  Filled(RunOf(a))'
    <3>1. PICK n \in DOMAIN runs : n = RunOf(a) /\ n = RunOf(a)'
      BY <1>1, <1>2, Lists
    <3>2. Filled(n)
      BY <1>1, <1>2, <2>1, <3>1 DEF Claimed
    <3> QED BY <1>6, <3>1, <3>2 DEF Filled
  <2> QED BY <1>2, <1>3, <2>1 DEF Claimed
<1>8. Ledger'
  <2>1. RoundsStay
    BY <1>1, <1>4, <1>6, Lists DEF RoundsStay
  <2>2. AskersStay
    BY <1>2 DEF AskersStay
  <2> QED BY <1>1, <1>5, <2>1, <2>2, LedgerStays
<1>9. Memory'
  <2>1. Told(NewState)
    BY NothingTold
  <2>2. \A a \in DOMAIN workers' :
           \/ a \in DOMAIN workers /\ workers'[a] = workers[a]
           \/ workers'[a].pc \in {"ended", "load"} /\ Told(workers'[a].state)
    BY <1>2, <2>1
  <2> QED BY <1>1, <1>2, <1>4, <2>2, MemoryStays
<1> QED BY <1>5, <1>7, <1>8, <1>9 DEF IInv

\* The holder of the claim loses it, and stops unless it asks for an answer.
LEMMA LoseClaimKeeps ==
  ASSUME IInv, LoseClaim
  PROVE  IInv'
BY ClaimLostKeeps DEF LoseClaim, IInv, TypeOK

\* The run ends.
LEMMA EndRunKeeps ==
  ASSUME IInv, EndRun
  PROVE  IInv'
<1>1. TypeOK /\ LosesClaim /\ requests' = requests
  BY DEF IInv, EndRun
<1>2. runs \in Seq(RunType) /\ Now \in DOMAIN runs /\ runs[Now] \in RunType
  BY <1>1, Lists DEF TypeOK
<1>3. PICK run : run = [runs[Now] EXCEPT !.status = "failed"]
  OBVIOUS
<1>4. run \in RunType /\ run.row = runs[Now].row
  BY <1>2, <1>3 DEF RunType
<1>5. runs' = [runs EXCEPT ![Now] = run]
  BY <1>3 DEF EndRun
<1>6. /\ runs' \in Seq(RunType) /\ Len(runs') = Len(runs)
      /\ \A n \in DOMAIN runs : runs'[n].row = runs[n].row
  BY <1>2, <1>4, <1>5, ExceptSeq
<1> QED BY <1>1, <1>6, ClaimLostKeeps

\* A recovery run of the lineage.
LEMMA RecoverKeeps ==
  ASSUME IInv, NEW reused \in BOOLEAN, Recover(reused)
  PROVE  IInv'
<1>1. TypeOK /\ Claimed /\ Ledger /\ Memory
  BY DEF IInv
<1>2. PICK run : run = [status |-> "running", completed |-> reused, row |-> NoRow]
  OBVIOUS
<1>3. run \in RunType /\ run.row = NoRow /\ runs' = Append(runs, run)
  BY <1>2 DEF RunType, Recover
<1>4. /\ runs \in Seq(RunType) /\ runs' \in Seq(RunType)
      /\ Len(runs) \in Nat /\ Len(runs') = Len(runs) + 1
      /\ DOMAIN runs = 1..Len(runs) /\ DOMAIN runs' = 1..(Len(runs) + 1)
      /\ runs'[Len(runs) + 1] = run /\ \A n \in DOMAIN runs : runs'[n] = runs[n]
  <2>1. runs \in Seq(RunType)
    BY <1>1 DEF TypeOK
  <2> QED BY <1>3, <2>1, AppendProperties, LenProperties
<1>5. /\ workers' = workers /\ owner' = owner /\ requests' = requests /\ owner = 0
      /\ \A a : RunOf(a)' = RunOf(a)
  BY <1>1 DEF Recover, Claimed, RunOf
<1>6. TypeOK'
  BY <1>1, <1>4, <1>5, TypesKept DEF TypeOK
<1>7. \A n \in DOMAIN runs :
        n \in DOMAIN runs' /\ (Filled(n)' <=> Filled(n)) /\ Rounds(n)' = Rounds(n)
  BY <1>4 DEF Filled, Rounds
<1>8. \A n \in DOMAIN runs' : n \notin DOMAIN runs => runs'[n].row = NoRow
  <2>1. \A n \in DOMAIN runs' : n \in DOMAIN runs \/ n = Len(runs) + 1
    BY <1>4
  <2> QED BY <1>3, <1>4, <2>1
<1>9. Claimed'
  <2>1. ASSUME NEW a \in DOMAIN workers, workers'[a].pc \notin {"ended", "load"}
        PROVE  Filled(RunOf(a))'
    <3>1. PICK n \in DOMAIN runs : n = RunOf(a) /\ n = RunOf(a)'
      BY <1>1, <1>5, Lists
    <3>2. Filled(n)
      BY <1>1, <1>5, <2>1, <3>1 DEF Claimed
    <3> QED BY <1>7, <3>1, <3>2 DEF Filled
  <2> QED BY <1>1, <1>5, <2>1 DEF Claimed
<1>10. Ledger'
  <2>1. RoundsStay
    BY <1>4, <1>7, <1>8 DEF RoundsStay, Filled, Now
  <2>2. AskersStay
    BY <1>5 DEF AskersStay
  <2> QED BY <1>1, <1>5, <1>6, <2>1, <2>2, LedgerStays
<1>11. Memory'
  BY <1>1, <1>4, <1>5, <1>8, MemoryStays
<1> QED BY <1>6, <1>9, <1>10, <1>11 DEF IInv

\* A worker ends.
LEMMA StopKeeps ==
  ASSUME IInv, NEW a \in DOMAIN workers, Stop(a)
  PROVE  IInv'
<1>1. TypeOK /\ Claimed /\ Ledger /\ Memory
  BY DEF IInv
<1>2. runs' = runs /\ owner' = owner /\ requests' = requests
      /\ workers' = [workers EXCEPT ![a] = Ended(a)]
  BY DEF Stop
<1>3. PICK w \in WorkerType :
        w = Ended(a) /\ w.run = RunOf(a) /\ w.pc = "ended" /\ w.state = NewState
  BY <1>1, EndedWorker
<1>4. /\ workers' \in Seq(WorkerType) /\ DOMAIN workers' = DOMAIN workers
      /\ workers'[a] = w /\ \A b \in DOMAIN workers : b # a => workers'[b] = workers[b]
      /\ \A b \in DOMAIN workers : RunOf(b)' = RunOf(b)
  BY <1>1, <1>2, <1>3, WorkerSet
<1>5. TypeOK'
  BY <1>1, <1>2, <1>4, Lists, TypesKept DEF TypeOK
<1>6. Claimed'
  <2>1. \A n : Filled(n)' <=> Filled(n)
    BY <1>2 DEF Filled
  <2>2. ASSUME NEW b \in DOMAIN workers, workers'[b].pc \notin {"ended", "load"}
        PROVE  Filled(RunOf(b))'
    <3>1. b # a /\ Filled(RunOf(b))
      BY <1>1, <1>3, <1>4, <2>2 DEF Claimed
    <3> QED BY <1>2, <1>4, <3>1 DEF Filled
  <2>3. Now' = Now /\ (owner # 0 => RunOf(owner)' = RunOf(owner))
    BY <1>1, <1>2, <1>4 DEF Now, TypeOK
  <2> QED BY <1>1, <1>2, <1>3, <1>4, <2>2, <2>3 DEF Claimed, RunOf, Now
<1>7. Ledger'
  <2>1. RoundsStay
    BY <1>1, <1>2, Lists DEF RoundsStay, Filled, Rounds, Now
  <2>2. AskersStay
    BY <1>3, <1>4 DEF AskersStay
  <2> QED BY <1>1, <1>2, <1>5, <2>1, <2>2, LedgerStays
<1>8. Memory'
  <2>1. Told(NewState) /\ Len(runs') \in Nat
    BY <1>1, <1>2, NothingTold, Lists
  <2>2. \A b \in DOMAIN workers' :
           \/ b \in DOMAIN workers /\ workers'[b] = workers[b]
           \/ workers'[b].pc \in {"ended", "load"} /\ Told(workers'[b].state)
    BY <1>3, <1>4, <2>1
  <2> QED BY <1>1, <1>2, <1>4, <2>1, <2>2, MemoryStays
<1> QED BY <1>5, <1>6, <1>7, <1>8 DEF IInv

-----------------------------------------------------------------------------
(* A worker takes a step, and may write the row of its run.  *)

\* What other workers rely on is left: the work to do, and that nothing is
\* expected.
Gentle(old, new) ==
  /\ new.pending = old.pending /\ new.messages = old.messages
  /\ Quiet(old) => Quiet(new)

\* Worker a becomes w; in run n, its own, the row becomes s.
Steps(a, w, n, s) ==
  /\ a \in DOMAIN workers /\ n = RunOf(a) /\ owner' = owner
  /\ w \in WorkerType /\ w.run = n /\ workers' = [workers EXCEPT ![a] = w]
  /\ runs' \in Seq(RunType) /\ Len(runs') = Len(runs)
  /\ \A m \in DOMAIN runs :
       /\ runs'[m].status = runs[m].status
       /\ m # n => runs'[m].row = runs[m].row
  /\ runs'[n].row = s /\ s \in StateType
  /\ requests' \in Seq(RequestType)

\* Types, the claim and the memory after such a step.
LEMMA StepKeeps ==
  ASSUME IInv, NEW a, NEW w, NEW n, NEW s, Steps(a, w, n, s),
         \/ owner = a
         \/ w.pc \in {"ended", "send", "wait"} /\ Gentle(runs[n].row, s),
         Sound(s), Told(w.state), Recalls(w, s)
  PROVE  TypeOK' /\ Claimed' /\ Memory'
<1>1. TypeOK /\ Claimed /\ Memory
  BY DEF IInv
<1>2. /\ workers' \in Seq(WorkerType) /\ DOMAIN workers' = DOMAIN workers
      /\ workers'[a] = w /\ \A b \in DOMAIN workers : b # a => workers'[b] = workers[b]
      /\ \A b \in DOMAIN workers : RunOf(b)' = RunOf(b)
  BY <1>1, WorkerSet DEF Steps
<1>3. Len(runs) \in Nat /\ Now' = Now /\ DOMAIN runs' = DOMAIN runs /\ n \in DOMAIN runs
  BY <1>1, Lists, LenProperties DEF Now, Steps
<1>4. TypeOK'
  BY <1>1, <1>2, <1>3, TypesKept DEF TypeOK, Steps
<1>5. Filled(n)' /\ \A m \in DOMAIN runs : Filled(m) => Filled(m)'
  BY States DEF Filled, Steps
<1>6. Claimed'
  <2>1. ASSUME NEW b \in DOMAIN workers, workers'[b].pc \notin {"ended", "load"}
        PROVE  Filled(RunOf(b))'
    <3>1. PICK m \in DOMAIN runs : m = RunOf(b) /\ m = RunOf(b)'
      BY <1>1, <1>2, Lists
    <3>2. Filled(m)'
      <4>1. CASE b = a
        BY <1>5, <3>1, <4>1 DEF Steps
      <4>2. CASE b # a
        BY <1>1, <1>2, <1>5, <2>1, <3>1, <4>2 DEF Claimed
      <4> QED BY <4>1, <4>2
    <3> QED BY <3>1, <3>2 DEF Filled
  <2>2. ASSUME NEW b \in DOMAIN workers, workers'[b].pc \notin {"ended", "send", "wait"}
        PROVE  owner' = b
    BY <1>1, <1>2, <2>2 DEF Claimed, Steps
  <2>3. ASSUME owner # 0 PROVE workers'[owner].run = Now' /\ runs'[Now'].status = "running"
    <3>1. Now \in DOMAIN runs /\ runs'[Now].status = runs[Now].status
      BY <1>1, Lists DEF Steps
    <3>2. RunOf(owner) = Now /\ runs[Now].status = "running" /\ owner \in DOMAIN workers
      BY <1>1, <2>3 DEF Claimed, TypeOK
    <3>3. \A b \in DOMAIN workers : workers'[b].run = RunOf(b)
      BY <1>2 DEF RunOf
    <3> QED BY <1>3, <3>1, <3>2, <3>3
  <2>4. owner' = owner
    BY DEF Steps
  <2>5. owner' # 0 => workers'[owner'].run = Now' /\ runs'[Now'].status = "running"
    BY <2>3, <2>4
  <2> QED BY <1>2, <2>1, <2>2, <2>5 DEF Claimed, RunOf
<1>7. Memory'
  <2>1. /\ \A m \in DOMAIN runs : Sound(runs[m].row)
        /\ \A b \in DOMAIN workers : Told(workers[b].state) /\ Remembers(b)
    BY <1>1, MemoryIsSound
  <2>2. \A m \in DOMAIN runs' : Sound(runs'[m].row)
    BY <1>3, <2>1 DEF Steps
  <2>3. ASSUME NEW b \in DOMAIN workers', b # a PROVE Told(workers'[b].state) /\ Remembers(b)'
    <3>1. b \in DOMAIN workers /\ workers'[b] = workers[b] /\ Told(workers[b].state)
          /\ Remembers(b)
      BY <1>2, <2>1, <2>3
    <3>2. PICK m \in DOMAIN runs : m = RunOf(b) /\ m = RunOf(b)'
      BY <1>1, <1>2, <3>1, Lists
    <3>3. RowOf(b)' = runs'[m].row /\ RowOf(b) = runs[m].row
      BY <3>2 DEF RowOf
    <3>4. CASE workers[b].pc \in {"ended", "send", "wait"}
      BY <3>1, <3>4 DEF Remembers, Recalls
    <3>5. CASE workers[b].pc \notin {"ended", "send", "wait"}
      <4>1. owner = b
        BY <1>1, <3>1, <3>5 DEF Claimed
      <4>2. Gentle(runs[m].row, runs'[m].row)
        BY <2>3, <4>1 DEF Gentle, Steps
      <4> QED BY <3>1, <3>3, <4>2 DEF Remembers, Recalls, Gentle
    <3> QED BY <3>1, <3>4, <3>5
  <2>4. Remembers(a)' /\ Told(workers'[a].state)
    <3>1. RowOf(a)' = s
      <4>1. RunOf(a)' = n
        BY <1>2 DEF Steps
      <4> QED BY <4>1 DEF RowOf, Steps
    <3> QED BY <1>2, <3>1 DEF Remembers
  <2>6. \A b \in DOMAIN workers' : Told(workers'[b].state) /\ Remembers(b)'
    BY <2>3, <2>4
  <2>5. \A m \in DOMAIN runs' : Rounds(m)' = runs'[m].row.rounds
    BY DEF Rounds
  <2> QED BY <2>2, <2>5, <2>6 DEF Memory, OneExpected, AllTold, AllRemember, Sound
<1> QED BY <1>4, <1>6, <1>7

\* If the worker does not begin to ask and the rounds stay, so does the ledger.
LEMMA QuietStepKeeps ==
  ASSUME IInv, NEW a, NEW w, NEW n, NEW s, Steps(a, w, n, s), owner = a,
         Sound(s), Told(w.state), Recalls(w, s), requests' = requests,
         w.pc \notin {"send", "wait"}, Filled(n), s.rounds = Rounds(n)
  PROVE  IInv'
<1>1. TypeOK /\ Claimed /\ Ledger
  BY DEF IInv
<1>2. TypeOK' /\ Claimed' /\ Memory'
  BY StepKeeps
<1>3. /\ DOMAIN workers' = DOMAIN workers
      /\ workers'[a] = w /\ \A b \in DOMAIN workers : b # a => workers'[b] = workers[b]
      /\ \A b \in DOMAIN workers : RunOf(b)' = RunOf(b)
  BY <1>1, WorkerSet DEF Steps
<1>4. AskersStay
  BY <1>3 DEF AskersStay
<1>5. Now' = Now /\ Now \in Nat /\ DOMAIN runs' = DOMAIN runs
  BY <1>1, Lists, LenProperties DEF Now, Steps
<1>6. \A m \in DOMAIN runs : (Filled(m)' <=> Filled(m)) /\ Rounds(m)' = Rounds(m)
  BY States DEF Filled, Rounds, Steps
<1>7. RoundsStay
  BY <1>5, <1>6 DEF RoundsStay
<1> QED BY <1>1, <1>2, <1>4, <1>7, LedgerStays DEF IInv

-----------------------------------------------------------------------------
(* What is told. *)

\* A function on the numbers up to n is a list of that length.
LEMMA ListOf ==
  ASSUME NEW S, NEW n \in Nat, NEW f \in [1..n -> S]
  PROVE  f \in Seq(S) /\ Len(f) = n /\ DOMAIN f = 1..n
<1>1. f \in Seq(S) /\ DOMAIN f = 1..n
  BY SeqDef
<1>2. PICK m \in Nat : m = Len(f) /\ 1..m = 1..n
  BY <1>1, LenProperties
<1>3. (m = 0 \/ m \in 1..m) /\ (n = 0 \/ n \in 1..n)
  OBVIOUS
<1>4. m <= n /\ n <= m
  BY <1>2, <1>3
<1> QED BY <1>1, <1>2, <1>4

\* A message of another kind changes nothing; one of the kind is the next.
LEMMA InOrderAppend ==
  ASSUME NEW ms \in Seq(MessageType), NEW e \in MessageType, NEW new, new = Append(ms, e),
         NEW kind, NEW count \in Nat, InOrder(ms, kind, count)
  PROVE  /\ e.kind # kind => InOrder(new, kind, count)
         /\ e.kind = kind /\ e.call = count + 1 => InOrder(new, kind, count + 1)
<1>1. PICK N \in Nat : N = Len(ms)
  BY LenProperties
<1>2. /\ DOMAIN ms = 1..N /\ DOMAIN new = 1..(N + 1) /\ new[N + 1] = e
      /\ \A i \in 1..N : new[i] = ms[i] /\ ms[i] \in MessageType
  BY <1>1, AppendProperties, LenProperties, ElementOfSeq
<1>3. \A i \in 1..(N + 1) : i \in 1..N \/ i = N + 1
  OBVIOUS
<1>4. \A i \in 1..N : i # N + 1 /\ ~(N + 1 < i) /\ i < N + 1 /\ i \in 1..(N + 1)
  OBVIOUS
<1>5. ASSUME e.kind # kind PROVE InOrder(new, kind, count)
  BY <1>2, <1>3, <1>4, <1>5 DEF InOrder
<1>6. ASSUME e.kind = kind, e.call = count + 1 PROVE InOrder(new, kind, count + 1)
  <2>1. \A i \in 1..N : ms[i].kind = kind => ms[i].call \in 1..count /\ ms[i].call < count + 1
    BY <1>2 DEF InOrder
  <2>2. \A i \in 1..(N + 1) : new[i].kind = kind => new[i].call \in 1..(count + 1)
    BY <1>2, <1>3, <1>6, <2>1
  <2>3. ASSUME NEW c \in 1..(count + 1)
        PROVE  \E i \in 1..(N + 1) : new[i] = [kind |-> kind, call |-> c]
    <3>1. CASE c = count + 1
      <4>1. e = [kind |-> kind, call |-> c]
        BY <1>6, <3>1 DEF MessageType
      <4> QED BY <1>2, <4>1
    <3>2. CASE c # count + 1
      <4>1. c \in 1..count
        BY <3>2
      <4>2. PICK i \in 1..N : ms[i] = [kind |-> kind, call |-> c]
        BY <1>2, <4>1 DEF InOrder
      <4> QED BY <1>2, <1>4, <4>2
    <3> QED BY <3>1, <3>2
  <2>4. ASSUME NEW i \in 1..(N + 1), NEW j \in 1..(N + 1), i < j,
               new[i].kind = kind, new[j].kind = kind
        PROVE  new[i].call < new[j].call
    <3>1. i \in 1..N
      BY <2>4
    <3>2. CASE j \in 1..N
      BY <1>2, <2>4, <3>1, <3>2 DEF InOrder
    <3>3. CASE j = N + 1
      BY <1>2, <1>6, <2>1, <2>4, <3>1, <3>3
    <3> QED BY <1>3, <3>2, <3>3
  <2> QED BY <1>2, <2>2, <2>3, <2>4 DEF InOrder
<1> QED BY <1>5, <1>6

\* After the next calls, the calls are still in order and the answers the same.
LEMMA InOrderGrown ==
  ASSUME NEW N \in Nat, NEW calls \in Nat, NEW count \in Nat,
         NEW ms, DOMAIN ms = 1..N, NEW new, DOMAIN new = 1..(N + count),
         \A i \in 1..N : new[i] = ms[i] /\ ms[i] \in MessageType,
         \A i \in 1..(N + count) :
           i \notin 1..N => new[i] = [kind |-> "call", call |-> calls + (i - N)],
         InOrder(ms, "call", calls)
  PROVE  /\ InOrder(new, "call", calls + count)
         /\ \A c \in Nat : InOrder(ms, "answer", c) => InOrder(new, "answer", c)
<1>5. DOMAIN ms = 1..N /\ DOMAIN new = 1..(N + count) /\ \A i \in 1..N : ms[i] \in MessageType
  OBVIOUS
<1>6. \A i \in 1..N : i \in 1..(N + count) /\ new[i] = ms[i]
  OBVIOUS
<1>9. InOrder(new, "call", calls + count)
  <2>1. \A i \in 1..N : ms[i].kind = "call" => ms[i].call \in 1..calls
    BY <1>5 DEF InOrder
  <2>2. \A i \in 1..(N + count) : i \notin 1..N =>
          new[i].call = calls + (i - N) /\ i - N \in 1..count
    OBVIOUS
  <2>3. \A i \in 1..(N + count) : new[i].kind = "call" => new[i].call \in 1..(calls + count)
    <3>1. ASSUME NEW i \in 1..(N + count), new[i].kind = "call"
          PROVE  new[i].call \in 1..(calls + count)
      <4>1. CASE i \in 1..N
        <5>1. new[i].call \in 1..calls
          BY <1>6, <2>1, <3>1, <4>1
        <5> QED BY <5>1
      <4>2. CASE i \notin 1..N
        <5>1. PICK k \in 1..count : k = i - N /\ new[i].call = calls + k
          BY <2>2, <4>2
        <5> QED BY <5>1
      <4> QED BY <4>1, <4>2
    <3> QED BY <3>1
  <2>4. ASSUME NEW c \in 1..(calls + count)
        PROVE  \E i \in 1..(N + count) : new[i] = [kind |-> "call", call |-> c]
    <3>1. CASE c \in 1..calls
      <4>1. PICK i \in 1..N : ms[i] = [kind |-> "call", call |-> c]
        BY <1>5, <3>1 DEF InOrder
      <4> QED BY <1>6, <4>1
    <3>2. CASE c \notin 1..calls
      <4>1. PICK i \in 1..(N + count) :
              i = N + (c - calls) /\ i \notin 1..N /\ calls + (i - N) = c
        BY <3>2
      <4> QED BY <4>1
    <3> QED BY <3>1, <3>2
  <2>5. ASSUME NEW i \in 1..(N + count), NEW j \in 1..(N + count), i < j,
               new[i].kind = "call", new[j].kind = "call"
        PROVE  new[i].call < new[j].call
    <3>1. CASE j \in 1..N
      <4>1. i \in 1..N
        BY <2>5, <3>1
      <4> QED BY <1>5, <1>6, <2>5, <3>1, <4>1 DEF InOrder
    <3>2. CASE i \in 1..N /\ j \notin 1..N
      <4>1. new[i].call \in 1..calls
        BY <1>6, <2>1, <2>5, <3>2
      <4>2. PICK k \in 1..count : k = j - N /\ new[j].call = calls + k
        BY <2>2, <3>2
      <4> QED BY <4>1, <4>2
    <3>3. CASE i \notin 1..N
      <4>1. j \notin 1..N
        BY <2>5, <3>3
      <4>2. PICK k \in 1..count : k = i - N /\ new[i].call = calls + k
        BY <2>2, <3>3
      <4>3. PICK l \in 1..count : l = j - N /\ new[j].call = calls + l
        BY <2>2, <4>1
      <4> QED BY <2>5, <4>2, <4>3
    <3> QED BY <3>1, <3>2, <3>3
  <2> QED BY <1>5, <2>3, <2>4, <2>5 DEF InOrder
<1>10. ASSUME NEW c \in Nat, InOrder(ms, "answer", c) PROVE InOrder(new, "answer", c)
  <2>1. \A i \in 1..(N + count) : new[i].kind = "answer" => i \in 1..N
    OBVIOUS
  <2>2. \A d \in 1..c : \E i \in 1..(N + count) : new[i] = [kind |-> "answer", call |-> d]
    <3>1. \A d \in 1..c : \E i \in 1..N : ms[i] = [kind |-> "answer", call |-> d]
      BY <1>5, <1>10 DEF InOrder
    <3> QED BY <1>6, <3>1
  <2>3. \A i \in 1..(N + count) : new[i].kind = "answer" => new[i].call \in 1..c
    BY <1>5, <1>6, <1>10, <2>1 DEF InOrder
  <2>4. \A i, j \in 1..(N + count) :
          i < j /\ new[i].kind = "answer" /\ new[j].kind = "answer" => new[i].call < new[j].call
    <3>1. \A i, j \in 1..N :
            i < j /\ ms[i].kind = "answer" /\ ms[j].kind = "answer" => ms[i].call < ms[j].call
      BY <1>5, <1>10 DEF InOrder
    <3> QED BY <1>6, <2>1, <3>1
  <2> QED BY <1>5, <2>2, <2>3, <2>4 DEF InOrder
<1> QED BY <1>9, <1>10

\* The messages for as many calls as count, after the first so many.
BatchOf(more, calls, count) ==
  /\ more \in Seq(MessageType) /\ Len(more) = count
  /\ \A i \in 1..count : more[i] = [kind |-> "call", call |-> calls + i]
\* The list is ms, and then such messages.
Continued(new, ms, calls, count) ==
  /\ new \in Seq(MessageType) /\ Len(new) = Len(ms) + count
  /\ \A i \in 1..Len(ms) : new[i] = ms[i]
  /\ \A i \in 1..(Len(ms) + count) : i \notin 1..Len(ms) =>
       new[i] = [kind |-> "call", call |-> calls + (i - Len(ms))]

\* The messages of a batch, one by one.
LEMMA BatchMessages ==
  ASSUME NEW ms \in Seq(MessageType), NEW calls \in Nat, NEW count \in Nat,
         NEW more, BatchOf(more, calls, count)
  PROVE  Continued(ms \o more, ms, calls, count)
<1> DEFINE new == ms \o more
<1>1. PICK N \in Nat : N = Len(ms)
  BY LenProperties
<1>2. /\ new \in Seq(MessageType) /\ Len(new) = Len(ms) + Len(more)
      /\ \A i \in 1..(Len(ms) + Len(more)) :
           new[i] = IF i <= Len(ms) THEN ms[i] ELSE more[i - Len(ms)]
  BY ConcatProperties DEF BatchOf
<1> HIDE DEF new
<1>3. \A i \in 1..N : new[i] = ms[i]
  BY <1>1, <1>2 DEF BatchOf
<1>4. ASSUME NEW i \in 1..(N + count), i \notin 1..N
      PROVE  new[i] = [kind |-> "call", call |-> calls + (i - N)]
  <2>1. PICK k \in 1..count : i - N = k /\ ~(i <= N)
    BY <1>4
  <2>2. new[i] = more[k] /\ more[k] = [kind |-> "call", call |-> calls + k]
    BY <1>1, <1>2, <2>1 DEF BatchOf
  <2> QED BY <2>1, <2>2
<1>5. Continued(new, ms, calls, count)
  BY <1>1, <1>2, <1>3, <1>4 DEF Continued, BatchOf
<1> QED BY <1>5 DEF new

\* An answer to the first pending call.
LEMMA AnswerTold ==
  ASSUME NEW s \in StateType, Told(s), NEW N \in Nat \ {0}, N = Len(s.pending),
         NEW t, t.calls = s.calls, Len(t.pending) = N - 1, DOMAIN t.pending = 1..(N - 1),
         \A i \in 1..(N - 1) : t.pending[i] = s.pending[i + 1],
         NEW e \in MessageType, e.kind = "answer", e.call = s.pending[1],
         t.messages = Append(s.messages, e)
  PROVE  Told(t)
<1>1. /\ s.calls \in Nat /\ N <= s.calls /\ DOMAIN s.pending = 1..N
      /\ s.messages \in Seq(MessageType)
      /\ InOrder(s.messages, "call", s.calls) /\ InOrder(s.messages, "answer", s.calls - N)
      /\ \A i \in 1..N : s.pending[i] = s.calls - N + i
  BY Fields DEF Told
<1>2. PICK c \in Nat : c = s.calls - N /\ s.calls - (N - 1) = c + 1
  BY <1>1
<1>3. e.call = c + 1 /\ e.kind # "call"
  BY <1>1, <1>2
<1>4. InOrder(t.messages, "call", s.calls)
  BY <1>1, <1>3, InOrderAppend
<1>5. InOrder(t.messages, "answer", c + 1)
  BY <1>1, <1>2, <1>3, InOrderAppend
<1>6. \A i \in 1..(N - 1) : t.pending[i] = s.calls - (N - 1) + i
  <2>1. PICK p : p = t.pending
    OBVIOUS
  <2>2. PICK q : q = s.pending
    OBVIOUS
  <2>3. PICK calls \in Nat : calls = s.calls
    BY <1>1
  <2>4. \A i \in 1..(N - 1) : p[i] = q[i + 1]
    BY <2>1, <2>2
  <2>5. \A i \in 1..N : q[i] = calls - N + i
    BY <1>1, <2>2, <2>3
  <2>6. \A i \in 1..(N - 1) : p[i] = calls - (N - 1) + i
    <3>1. ASSUME NEW i \in 1..(N - 1) PROVE p[i] = calls - (N - 1) + i
      <4>1. PICK j \in 1..N : j = i + 1
        OBVIOUS
      <4>2. p[i] = q[j]
        BY <2>4, <4>1
      <4>3. q[j] = calls - N + j
        BY <2>5
      <4> QED BY <4>1, <4>2, <4>3
    <3> QED BY <3>1
  <2> QED BY <2>1, <2>3, <2>6
<1>7. N - 1 <= s.calls
  BY <1>1
<1> QED BY <1>2, <1>4, <1>5, <1>6, <1>7 DEF Told

\* A message that asks for a repair.
LEMMA RepairTold ==
  ASSUME NEW s \in StateType, Told(s), NEW t, t.calls = s.calls, t.pending = s.pending,
         t.messages = Append(s.messages, [kind |-> "repair", call |-> 0])
  PROVE  /\ Told(t) /\ t.messages \in Seq(MessageType)
         /\ Len(t.messages) = Len(s.messages) + 1
<1>1. PICK e : e = [kind |-> "repair", call |-> 0]
  OBVIOUS
<1>2. /\ e \in MessageType /\ e.kind # "call" /\ e.kind # "answer"
      /\ t.messages = Append(s.messages, e)
  BY <1>1 DEF MessageType
<1>3. /\ s.messages \in Seq(MessageType) /\ s.calls \in Nat /\ Len(s.pending) \in Nat
      /\ InOrder(s.messages, "call", s.calls) /\ Len(s.pending) <= s.calls
      /\ InOrder(s.messages, "answer", s.calls - Len(s.pending))
  BY Fields DEF Told
<1>4. s.calls - Len(s.pending) \in Nat
  BY <1>3
<1>5. /\ InOrder(t.messages, "call", s.calls)
      /\ InOrder(t.messages, "answer", s.calls - Len(s.pending))
  BY <1>2, <1>3, <1>4, InOrderAppend
<1>6. t.messages \in Seq(MessageType) /\ Len(t.messages) = Len(s.messages) + 1
  BY <1>2, <1>3, AppendProperties
<1> QED BY <1>5, <1>6 DEF Told

\* A batch of calls that are all to be answered.
LEMMA BatchTold ==
  ASSUME NEW s \in StateType, Told(s), s.pending = <<>>, NEW count \in Nat, NEW t,
         t.calls = s.calls + count, Continued(t.messages, s.messages, s.calls, count),
         Len(t.pending) = count, DOMAIN t.pending = 1..count,
         \A i \in 1..count : t.pending[i] = s.calls + i
  PROVE  Told(t)
<1>1. /\ s.messages \in Seq(MessageType) /\ s.calls \in Nat /\ Len(s.pending) = 0
      /\ InOrder(s.messages, "call", s.calls) /\ InOrder(s.messages, "answer", s.calls - 0)
  <2>1. Len(s.pending) = 0
    BY EmptySeq
  <2> QED BY <2>1, Fields DEF Told
<1>2. PICK N \in Nat : N = Len(s.messages) /\ DOMAIN s.messages = 1..N
  BY <1>1, LenProperties
<1>3. DOMAIN t.messages = 1..(N + count)
  BY <1>2, LenProperties DEF Continued
<1>4. \A i \in 1..N : t.messages[i] = s.messages[i] /\ s.messages[i] \in MessageType
  BY <1>1, <1>2, ElementOfSeq DEF Continued
<1>5. /\ InOrder(t.messages, "call", s.calls + count)
      /\ InOrder(t.messages, "answer", s.calls)
  <2>1. PICK ms : ms = s.messages
    OBVIOUS
  <2>2. PICK new : new = t.messages
    OBVIOUS
  <2>3. PICK calls \in Nat : calls = s.calls /\ s.calls - 0 = calls
    BY <1>1
  <2>4. \A i \in 1..N : new[i] = ms[i] /\ ms[i] \in MessageType
    BY <1>4, <2>1, <2>2
  <2>5. \A i \in 1..(N + count) :
          i \notin 1..N => new[i] = [kind |-> "call", call |-> calls + (i - N)]
    BY <1>2, <2>2, <2>3 DEF Continued
  <2>6. /\ DOMAIN ms = 1..N /\ DOMAIN new = 1..(N + count)
        /\ InOrder(ms, "call", calls) /\ InOrder(ms, "answer", calls)
    BY <1>1, <1>2, <1>3, <2>1, <2>2, <2>3
  <2>7. /\ InOrder(new, "call", calls + count)
        /\ \A c \in Nat : InOrder(ms, "answer", c) => InOrder(new, "answer", c)
    BY <2>4, <2>5, <2>6, InOrderGrown
  <2> QED BY <2>2, <2>3, <2>6, <2>7
<1>6. /\ Len(t.pending) <= t.calls /\ t.calls - Len(t.pending) = s.calls
      /\ t.calls = s.calls + count
  BY <1>1
<1> QED BY <1>5, <1>6 DEF Told

-----------------------------------------------------------------------------
(* The steps of the worker that holds the claim. *)

\* What a worker that is under way can rely on.
LEMMA AtWork ==
  ASSUME IInv, NEW a \in DOMAIN workers, workers[a].pc \notin {"ended", "load"}, NEW n, n = RunOf(a)
  PROVE  /\ TypeOK /\ n \in DOMAIN runs /\ Filled(n) /\ RowOf(a) = runs[n].row
         /\ runs[n].row \in StateType /\ Sound(runs[n].row) /\ Rounds(n) = runs[n].row.rounds
         /\ workers[a] \in WorkerType /\ workers[a].run = n
         /\ workers[a].state \in StateType /\ Told(workers[a].state)
         /\ Recalls(workers[a], runs[n].row)
         /\ workers[a].pc \notin {"send", "wait"} => owner = a
<1>1. TypeOK /\ Claimed /\ Memory
  BY DEF IInv
<1>2. n \in DOMAIN runs /\ workers[a] \in WorkerType /\ workers[a].run = n
      /\ runs[n].row \in StateType \cup {NoRow}
  BY <1>1, Lists
<1>3. Filled(n) /\ runs[n].row \in StateType /\ RowOf(a) = runs[n].row
  BY <1>1, <1>2 DEF Claimed, Filled, RowOf
<1>4. Sound(runs[n].row) /\ Told(workers[a].state) /\ Remembers(a)
  BY <1>1, <1>2, MemoryIsSound
<1>5. workers[a].state \in StateType
  BY <1>2 DEF WorkerType
<1>6. workers[a].pc \notin {"send", "wait"} => owner = a
  BY <1>1 DEF Claimed
<1> QED BY <1>1, <1>2, <1>3, <1>4, <1>5, <1>6 DEF Remembers, Rounds

\* A step of the holder of the claim that is in memory only.
LEMMA ThoughtKeeps ==
  ASSUME IInv, NEW a \in DOMAIN workers,
         workers[a].pc \notin {"ended", "load", "send", "wait"},
         NEW n, n = RunOf(a), NEW w \in WorkerType, w.run = n, w.pc \notin {"send", "wait"},
         workers' = [workers EXCEPT ![a] = w], UNCHANGED <<runs, owner, requests>>,
         Told(w.state), Recalls(w, runs[n].row)
  PROVE  IInv'
<1>1. PICK s : s = runs[n].row
  OBVIOUS
<1>2. /\ TypeOK /\ Filled(n) /\ s \in StateType /\ Sound(s) /\ Rounds(n) = s.rounds
      /\ owner = a
  BY <1>1, AtWork
<1>3. Steps(a, w, n, s)
  BY <1>1, <1>2 DEF Steps, TypeOK
<1> QED BY <1>1, <1>2, <1>3, QuietStepKeeps

\* A tool is used.
LEMMA UseToolKeeps ==
  ASSUME IInv, NEW a \in DOMAIN workers, UseTool(a)
  PROVE  IInv'
<1>1. PICK n : n = RunOf(a)
  OBVIOUS
<1>2. PICK old : old = workers[a]
  OBVIOUS
<1>3. old.pc = "tool"
  BY <1>2 DEF UseTool, At
<1>4. /\ TypeOK /\ old \in WorkerType /\ old.run = n /\ old.state \in StateType
      /\ Told(old.state) /\ Recalls(old, runs[n].row) /\ Sound(runs[n].row)
      /\ runs[n].row \in StateType
  BY <1>1, <1>2, <1>3, AtWork
<1>5. old.state.pending # <<>> /\ Quiet(runs[n].row)
      /\ Len(old.state.messages) = Len(runs[n].row.messages)
  BY <1>3, <1>4 DEF Recalls
<1>6. PICK e : e = [kind |-> "answer", call |-> Head(old.state.pending)]
  OBVIOUS
<1>7. PICK t : t = [old.state EXCEPT !.messages = Append(@, e), !.pending = Tail(@)]
  OBVIOUS
<1>8. PICK w : w = [old EXCEPT !.pc = "save", !.state = t]
  OBVIOUS
<1>9. workers' = [workers EXCEPT ![a] = w]
  BY <1>2, <1>6, <1>7, <1>8 DEF UseTool
<1>10. PICK N \in Nat \ {0} :
         /\ N = Len(old.state.pending) /\ Len(Tail(old.state.pending)) = N - 1
         /\ Tail(old.state.pending) \in Seq(Nat) /\ DOMAIN Tail(old.state.pending) = 1..(N - 1)
         /\ Head(old.state.pending) = old.state.pending[1] /\ Head(old.state.pending) \in Nat
         /\ \A i \in 1..(N - 1) : Tail(old.state.pending)[i] = old.state.pending[i + 1]
  <2>1. PICK q \in Seq(Nat) : q = old.state.pending /\ q # <<>>
    BY <1>4, <1>5, Fields
  <2>2. Len(q) \in Nat \ {0} /\ Head(q) = q[1] /\ Head(q) \in Nat
    BY <2>1, EmptySeq, LenProperties, HeadTailProperties
  <2>3. /\ Tail(q) \in Seq(Nat) /\ Len(Tail(q)) = Len(q) - 1
        /\ \A i \in 1..Len(Tail(q)) : Tail(q)[i] = q[i + 1]
    BY <2>1, HeadTailProperties
  <2>4. DOMAIN Tail(q) = 1..(Len(q) - 1)
    BY <2>3, LenProperties
  <2> QED BY <2>1, <2>2, <2>3, <2>4
<1>11. e \in MessageType /\ e.kind = "answer" /\ e.call = old.state.pending[1]
  BY <1>6, <1>10 DEF MessageType
<1>12. /\ t.calls = old.state.calls /\ t.pending = Tail(old.state.pending)
       /\ t.messages = Append(old.state.messages, e) /\ t.rounds = old.state.rounds
  BY <1>4, <1>7 DEF StateType
<1>13. Told(t)
  BY <1>4, <1>10, <1>11, <1>12, AnswerTold
<1>14. old.state.messages \in Seq(MessageType)
  BY <1>4, Fields
<1>15. t.messages \in Seq(MessageType) /\ Len(t.messages) = Len(old.state.messages) + 1
  BY <1>11, <1>12, <1>14, AppendProperties
<1>16. t \in StateType
  BY <1>4, <1>7, <1>10, <1>12, <1>15 DEF StateType
<1>17. w \in WorkerType /\ w.run = n /\ w.pc = "save" /\ w.state = t
  BY <1>4, <1>8, <1>16 DEF WorkerType
<1>18. Len(old.state.messages) \in Nat
  BY <1>4, Fields
<1>19. Recalls(w, runs[n].row)
  BY <1>5, <1>15, <1>17, <1>18 DEF Recalls
<1>20. UNCHANGED <<runs, owner, requests>>
  BY DEF UseTool
<1> QED BY <1>1, <1>2, <1>3, <1>9, <1>13, <1>17, <1>19, <1>20, ThoughtKeeps

\* A final answer is taken for the output.
LEMMA ConcludeKeeps ==
  ASSUME IInv, NEW a \in DOMAIN workers, Conclude(a)
  PROVE  IInv'
<1>1. PICK n : n = RunOf(a)
  OBVIOUS
<1>2. PICK old : old = workers[a]
  OBVIOUS
<1>3. old.pc = "reply"
  BY <1>2 DEF Conclude, At
<1>4. /\ TypeOK /\ old \in WorkerType /\ old.run = n /\ old.state \in StateType
      /\ Told(old.state) /\ Recalls(old, runs[n].row)
  BY <1>1, <1>2, <1>3, AtWork
<1>5. PICK t : t = [old.state EXCEPT !.output = TRUE, !.response = NoResponse]
  OBVIOUS
<1>6. PICK w : w = [old EXCEPT !.pc = "save", !.state = t]
  OBVIOUS
<1>7. workers' = [workers EXCEPT ![a] = w]
  BY <1>2, <1>5, <1>6 DEF Conclude
<1>8. /\ t \in StateType /\ t.output = TRUE /\ t.messages = old.state.messages
      /\ t.calls = old.state.calls /\ t.pending = old.state.pending
  BY <1>4, <1>5 DEF StateType, ResponseType
<1>9. Told(t)
  BY <1>4, <1>8 DEF Told
<1>10. w \in WorkerType /\ w.run = n /\ w.pc = "save" /\ w.state = t
  BY <1>4, <1>6, <1>8 DEF WorkerType
<1>11. Recalls(w, runs[n].row)
  BY <1>3, <1>4, <1>8, <1>10 DEF Recalls
<1>12. UNCHANGED <<runs, owner, requests>>
  BY DEF Conclude
<1> QED BY <1>1, <1>2, <1>3, <1>7, <1>9, <1>10, <1>11, <1>12, ThoughtKeeps

\* A garbled answer is asked for again.
LEMMA RepairKeeps ==
  ASSUME IInv, NEW a \in DOMAIN workers, Repair(a)
  PROVE  IInv'
<1>1. PICK n : n = RunOf(a)
  OBVIOUS
<1>2. PICK old : old = workers[a]
  OBVIOUS
<1>3. old.pc = "reply"
  BY <1>2 DEF Repair, At
<1>4. /\ TypeOK /\ old \in WorkerType /\ old.run = n /\ old.state \in StateType
      /\ Told(old.state) /\ Recalls(old, runs[n].row)
  BY <1>1, <1>2, <1>3, AtWork
<1>5. PICK e : e = [kind |-> "repair", call |-> 0]
  OBVIOUS
<1>6. PICK t : t = [old.state EXCEPT !.repairs = @ + 1, !.response = NoResponse,
                                     !.messages = Append(@, e)]
  OBVIOUS
<1>7. PICK w : w = [old EXCEPT !.pc = "save", !.state = t]
  OBVIOUS
<1>8. workers' = [workers EXCEPT ![a] = w]
  BY <1>2, <1>5, <1>6, <1>7 DEF Repair
<1>9. /\ t.messages = Append(old.state.messages, e) /\ t.calls = old.state.calls
      /\ t.pending = old.state.pending
  BY <1>4, <1>6 DEF StateType
<1>10. /\ Told(t) /\ t.messages \in Seq(MessageType)
       /\ Len(t.messages) = Len(old.state.messages) + 1 /\ Len(old.state.messages) \in Nat
  BY <1>4, <1>5, <1>9, RepairTold, Fields
<1>11. t \in StateType
  <2>1. PICK k \in Nat : k = old.state.repairs + 1
    BY <1>4 DEF StateType
  <2>2. PICK ms \in Seq(MessageType) : ms = t.messages
    BY <1>10
  <2>3. t = [old.state EXCEPT !.repairs = k, !.response = NoResponse, !.messages = ms]
    BY <1>6, <1>9, <2>1, <2>2
  <2>4. NoResponse \in ResponseType
    BY DEF ResponseType
  <2> QED BY <1>4, <2>3, <2>4 DEF StateType
<1>12. w \in WorkerType /\ w.run = n /\ w.pc = "save" /\ w.state = t
  BY <1>4, <1>7, <1>11 DEF WorkerType
<1>13. Recalls(w, runs[n].row)
  BY <1>3, <1>4, <1>10, <1>12 DEF Recalls
<1>14. UNCHANGED <<runs, owner, requests>>
  BY DEF Repair
<1> QED BY <1>1, <1>2, <1>3, <1>8, <1>10, <1>12, <1>13, <1>14, ThoughtKeeps

\* A worker that only moves on.
LEMMA MovesOn ==
  ASSUME TypeOK, NEW a \in DOMAIN workers, Goes(a, "load")
  PROVE  \E w \in WorkerType :
           /\ w.run = RunOf(a) /\ w.pc = "load" /\ w.state = workers[a].state
           /\ workers' = [workers EXCEPT ![a] = w]
<1>1. workers[a] \in WorkerType /\ workers[a].run = RunOf(a)
  BY Lists
<1>2. PICK w : w = [workers[a] EXCEPT !.pc = "load"]
  OBVIOUS
<1>3. w \in WorkerType /\ w.run = RunOf(a) /\ w.pc = "load" /\ w.state = workers[a].state
  BY <1>1, <1>2 DEF WorkerType
<1>4. workers' = [workers EXCEPT ![a] = w]
  BY <1>2 DEF Goes
<1> QED BY <1>3, <1>4

\* An answer has come meanwhile.
LEMMA ReserveNothingKeeps ==
  ASSUME IInv, NEW a \in DOMAIN workers, ReserveNothing(a)
  PROVE  IInv'
<1>1. PICK n : n = RunOf(a)
  OBVIOUS
<1>2. workers[a].pc = "ask" /\ Goes(a, "load") /\ UNCHANGED <<runs, owner, requests>>
  BY DEF ReserveNothing, At
<1>3. TypeOK /\ Told(workers[a].state)
  BY <1>1, <1>2, AtWork
<1>4. PICK w \in WorkerType :
        /\ w.run = n /\ w.pc = "load" /\ w.state = workers[a].state
        /\ workers' = [workers EXCEPT ![a] = w]
  BY <1>1, <1>2, <1>3, MovesOn
<1>5. Recalls(w, runs[n].row)
  BY <1>4 DEF Recalls
<1> QED BY <1>1, <1>2, <1>3, <1>4, <1>5, ThoughtKeeps

\* The step is completed: the claim is given up.
LEMMA FinishKeeps ==
  ASSUME IInv, NEW a \in DOMAIN workers, Finish(a)
  PROVE  IInv'
<1>1. PICK n : n = RunOf(a)
  OBVIOUS
<1>2. workers[a].pc = "finish" /\ owner' = 0 /\ workers' = [workers EXCEPT ![a] = Ended(a)]
      /\ requests' = requests
  BY DEF Finish, At
<1>3. TypeOK /\ n \in DOMAIN runs /\ owner = a
  BY <1>1, <1>2, AtWork
<1>4. owner \in DOMAIN workers /\ owner # 0
  BY <1>3, Lists
<1>5. LosesClaim
  BY <1>2, <1>3, <1>4 DEF LosesClaim
<1>6. runs \in Seq(RunType) /\ runs[n] \in RunType
  BY <1>3, Lists DEF TypeOK
<1>7. PICK run : run = [runs[n] EXCEPT !.completed = TRUE]
  OBVIOUS
<1>8. run \in RunType /\ run.row = runs[n].row
  BY <1>6, <1>7 DEF RunType
<1>9. runs' = [runs EXCEPT ![n] = run]
  BY <1>1, <1>7 DEF Finish
<1>10. /\ runs' \in Seq(RunType) /\ Len(runs') = Len(runs)
       /\ \A m \in DOMAIN runs : runs'[m].row = runs[m].row
  <2>1. n \in 1..Len(runs)
    BY <1>3, <1>6, LenProperties
  <2> QED BY <1>3, <1>6, <1>8, <1>9, <2>1, ExceptSeq
<1> QED BY <1>2, <1>5, <1>10, ClaimLostKeeps

-----------------------------------------------------------------------------
(* The ledger, when rows and requests change. *)

\* An attempt's rows after a step that leaves the others as they were.
LEMMA AfterIs ==
  ASSUME TypeOK, NEW a \in DOMAIN workers
  PROVE  /\ After(a) \subseteq DOMAIN runs
         /\ \A m \in DOMAIN runs : m \in After(a) <=> RunOf(a) <= m /\ Filled(m)
<1>1. PICK r \in 1..Now : r = RunOf(a)
  BY Lists
<1>2. Now \in Nat /\ DOMAIN runs = 1..Now
  BY Lists
<1> QED BY <1>1, <1>2 DEF After

\* And after a step that adds no run.
LEMMA AfterIsThen ==
  ASSUME TypeOK, TypeOK', Len(runs') = Len(runs), NEW a \in DOMAIN workers,
         RunOf(a)' = RunOf(a)
  PROVE  /\ After(a)' \subseteq DOMAIN runs
         /\ \A m \in DOMAIN runs : m \in After(a)' <=> RunOf(a) <= m /\ Filled(m)'
<1>1. PICK r \in 1..Now : r = RunOf(a) /\ r = RunOf(a)'
  BY Lists
<1>2. Now \in Nat /\ DOMAIN runs = 1..Now /\ Now' = Now
  BY Lists DEF Now
<1> QED BY <1>1, <1>2 DEF After

\* The last run takes over the rounds of the last row before it, if any.
LEMMA LedgerInherited ==
  ASSUME TypeOK, TypeOK', Claimed, Ledger, AskersStay, requests' = requests,
         Len(runs') = Len(runs), NEW n, n = Now, ~Filled(n), Filled(n)',
         \A m \in DOMAIN runs : m # n => (Filled(m)' <=> Filled(m)) /\ Rounds(m)' = Rounds(m),
         \/ Rounds(n)' = <<>> /\ \A m \in DOMAIN runs : ~Filled(m)
         \/ \E m \in DOMAIN runs :
              /\ Filled(m) /\ Rounds(n)' = Rounds(m)
              /\ \A j \in DOMAIN runs : Filled(j) => j <= m
  PROVE  Ledger'
<1>1. /\ Now \in Nat \ {0} /\ DOMAIN runs = 1..Now /\ DOMAIN runs' = DOMAIN runs
      /\ n \in DOMAIN runs
  <2>1. runs' \in Seq(RunType)
    BY DEF TypeOK
  <2> QED BY <2>1, Lists, LenProperties DEF Now
<1>2. ASSUME NEW a \in DOMAIN workers, Filled(RunOf(a))
      PROVE  /\ RunOf(a) \in DOMAIN runs /\ RunOf(a) # n /\ RunOf(a) \in After(a)
             /\ After(a)' = After(a) \cup {n} /\ n \notin After(a)
             /\ \E m \in After(a) : Rounds(n)' = Rounds(m)
  <2>1. PICK r \in 1..Now : r = RunOf(a) /\ Filled(r) /\ r # n
    BY <1>2, Lists
  <2>2. RunOf(a)' = RunOf(a)
    BY DEF AskersStay
  <2>3. \A m \in DOMAIN runs : m \in After(a) <=> r <= m /\ Filled(m)
    BY <2>1, AfterIs
  <2>4. \A m \in DOMAIN runs : m \in After(a)' <=> r <= m /\ Filled(m)'
    BY <2>1, <2>2, AfterIsThen
  <2>5. After(a)' \subseteq DOMAIN runs /\ After(a) \subseteq DOMAIN runs
    BY <2>2, AfterIs, AfterIsThen
  <2>6. r <= n /\ r <= r
    BY <1>1, <2>1
  <2>7. After(a)' = After(a) \cup {n} /\ n \notin After(a)
    BY <1>1, <2>3, <2>4, <2>5, <2>6
  <2>8. PICK m \in DOMAIN runs : /\ Filled(m) /\ Rounds(n)' = Rounds(m)
                                 /\ \A j \in DOMAIN runs : Filled(j) => j <= m
    BY <1>1, <2>1
  <2>9. m \in After(a)
    BY <1>1, <2>1, <2>3, <2>8
  <2> QED BY <1>1, <2>1, <2>3, <2>6, <2>7, <2>8, <2>9
<1>3. ASSUME NEW a \in DOMAIN workers, Filled(RunOf(a)), NEW k, Reserved(a, k)
      PROVE  Reserved(a, k)'
  <2>1. \A m \in After(a) : Rounds(m)' = Rounds(m)
    BY <1>2, <1>3, AfterIs
  <2> QED BY <1>2, <1>3, <2>1 DEF Reserved
<1>4. ASSUME NEW a \in DOMAIN workers', workers'[a].pc \in {"send", "wait"}
      PROVE  /\ a \in DOMAIN workers /\ workers[a].pc = workers'[a].pc
             /\ workers'[a].round = workers[a].round
             /\ workers'[a].request = workers[a].request
             /\ Filled(RunOf(a))
  BY <1>4 DEF AskersStay, Claimed
<1>5. InFlight'
  <2>1. ASSUME NEW a \in DOMAIN workers', At(a, "send")' PROVE Unsent(a)'
    <3>1. /\ a \in DOMAIN workers /\ At(a, "send") /\ workers'[a].round = workers[a].round
          /\ Filled(RunOf(a))
      BY <1>4, <2>1 DEF At
    <3>2. PICK k : k = workers[a].round /\ k = workers'[a].round
      BY <3>1
    <3>3. Unsent(a) /\ Reserved(a, k)
      BY <3>1, <3>2 DEF Ledger, InFlight, Unsent
    <3>4. PICK r \in DOMAIN runs : r = RunOf(a) /\ r = RunOf(a)' /\ r # n /\ Filled(r)
      BY <1>2, <3>1 DEF AskersStay
    <3>5. RowOf(a).rounds = Rounds(r) /\ RowOf(a)'.rounds = Rounds(r)
      BY <3>4 DEF RowOf, Rounds
    <3>6. \A m \in After(a) : /\ Rounds(m)[k].status \in {"pending", "unknown"}
                              /\ Rounds(m)[k].cost = Rounds(r)[k].cost
                              /\ Rounds(m)' = Rounds(m)
      BY <1>2, <3>1, <3>2, <3>3, <3>5, AfterIs DEF Unsent
    <3>7. \A m \in After(a)' : /\ Rounds(m)'[k].status \in {"pending", "unknown"}
                               /\ Rounds(m)'[k].cost = Rounds(r)[k].cost
      BY <1>2, <3>1, <3>6
    <3>8. Reserved(a, k)'
      BY <1>3, <3>1, <3>3
    <3>9. \A q \in DOMAIN requests' : requests'[q].round # k
      BY <3>2, <3>3 DEF Unsent
    <3> QED BY <3>2, <3>5, <3>7, <3>8, <3>9 DEF Unsent, Reserved
  <2>2. ASSUME NEW a \in DOMAIN workers', At(a, "wait")' PROVE Waits(a)'
    BY <1>4, <2>2 DEF At, Ledger, InFlight, Waits
  <2> QED BY <2>1, <2>2 DEF InFlight
<1>6. RequestsPaid'
  <2>1. ASSUME NEW r \in DOMAIN requests PROVE Paid(r)'
    <3>1. PICK a \in DOMAIN workers : a = requests[r].attempt /\ Filled(RunOf(a))
      BY DEF Ledger, RequestsPaid, Paid
    <3>2. PICK k : k = requests[r].round
      OBVIOUS
    <3>3. /\ Reserved(a, k)
          /\ \A m \in After(a) :
               /\ requests[r].cost <= Rounds(m)[k].cost
               /\ Rounds(m)[k].status \in Used => requests[r].cost = Rounds(m)[k].cost
      BY <3>1, <3>2 DEF Ledger, RequestsPaid, Paid
    <3>4. \A m \in After(a) : Rounds(m)' = Rounds(m)
      BY <1>2, <3>1, AfterIs
    <3>5. \A m \in After(a)' :
               /\ requests[r].cost <= Rounds(m)'[k].cost
               /\ Rounds(m)'[k].status \in Used => requests[r].cost = Rounds(m)'[k].cost
      BY <1>2, <3>1, <3>3, <3>4
    <3>6. Reserved(a, k)'
      BY <1>3, <3>1, <3>3
    <3>7. a \in DOMAIN workers' /\ Filled(RunOf(a))'
      <4>1. PICK m \in DOMAIN runs : m = RunOf(a) /\ m = RunOf(a)' /\ Filled(m) /\ m # n
        BY <1>2, <3>1 DEF AskersStay
      <4>2. Filled(m)'
        BY <4>1
      <4> QED BY <4>1, <4>2 DEF AskersStay, Filled
    <3> QED BY <3>1, <3>2, <3>5, <3>6, <3>7 DEF Paid, Reserved
  <2> QED BY <2>1 DEF Ledger, RequestsPaid
<1>7. \/ Rounds(n)' = <<>> /\ DOMAIN Rounds(n)' = {} /\ Len(Rounds(n)') = 0
      \/ \E m \in DOMAIN runs : Rounds(n)' = Rounds(m)
  BY EmptySeq
<1>8. UseAsked'
  <2>1. \A m \in DOMAIN runs : \A k \in DOMAIN Rounds(m) :
          Rounds(m)[k].status \in Used =>
            \E r \in DOMAIN requests' :
              requests'[r].attempt = Rounds(m)[k].attempt /\ requests'[r].round = k
    BY DEF Ledger, UseAsked
  <2>2. \A m \in DOMAIN runs' : \A k \in DOMAIN Rounds(m)' :
          Rounds(m)'[k].status \in Used =>
            \E r \in DOMAIN requests' :
              requests'[r].attempt = Rounds(m)'[k].attempt /\ requests'[r].round = k
    BY <1>1, <1>7, <2>1
  <2> QED BY <2>2 DEF UseAsked
<1>9. Limited'
  <2>1. Priced(<<>>) /\ CostAt(DOMAIN <<>>, <<>>) = 0
    BY NothingCosts, EmptySeq DEF Priced
  <2>2. 0 <= MaxRounds /\ 0 <= MaxCost
    BY LimitAssumption
  <2>3. Total(<<>>) = 0
    BY <2>1 DEF Total
  <2>4. \A m \in DOMAIN runs : Len(Rounds(m)) <= MaxRounds /\ Total(Rounds(m)) <= MaxCost
    BY DEF Ledger, Limited
  <2>5. \A m \in DOMAIN runs' : Len(Rounds(m)') <= MaxRounds /\ Total(Rounds(m)') <= MaxCost
    BY <1>1, <1>7, <2>2, <2>3, <2>4
  <2> QED BY <2>5 DEF Limited, Total
<1> QED BY <1>5, <1>6, <1>8, <1>9 DEF Ledger

-----------------------------------------------------------------------------
(* The transactions of the worker that holds the claim. *)

\* A transaction with the worker that goes with it.
LEMMA WriteSteps ==
  ASSUME TypeOK, NEW a \in DOMAIN workers, NEW n, n = RunOf(a),
         NEW s \in StateType, Written(a, s),
         NEW w \in WorkerType, w.run = n, workers' = [workers EXCEPT ![a] = w],
         owner' = owner, requests' \in Seq(RequestType)
  PROVE  Steps(a, w, n, s)
<1>1. /\ runs' \in Seq(RunType) /\ Len(runs') = Len(runs) /\ runs'[n].row = s
      /\ \A m \in DOMAIN runs : /\ runs'[m].status = runs[m].status
                                /\ m # n => runs'[m].row = runs[m].row
  BY RowWritten
<1> QED BY <1>1 DEF Steps

\* What the worker has done is saved.
LEMMA SaveKeeps ==
  ASSUME IInv, NEW a \in DOMAIN workers, Save(a)
  PROVE  IInv'
<1>1. PICK n : n = RunOf(a)
  OBVIOUS
<1>2. PICK old : old = workers[a]
  OBVIOUS
<1>3. PICK row : row = runs[n].row
  OBVIOUS
<1>4. old.pc = "save" /\ Goes(a, "load") /\ owner' = owner /\ requests' = requests
  BY <1>2 DEF Save, At
<1>5. /\ TypeOK /\ Filled(n) /\ RowOf(a) = row /\ row \in StateType /\ Sound(row)
      /\ Rounds(n) = row.rounds /\ old.state \in StateType /\ Told(old.state)
      /\ Recalls(old, row) /\ owner = a
  BY <1>1, <1>2, <1>3, <1>4, AtWork
<1>6. PICK s : s = [old.state EXCEPT !.rounds = row.rounds]
  OBVIOUS
<1>7. /\ s \in StateType /\ s.rounds = row.rounds /\ s.messages = old.state.messages
      /\ s.calls = old.state.calls /\ s.pending = old.state.pending
  BY <1>5, <1>6 DEF StateType
<1>8. Written(a, s)
  BY <1>2, <1>5, <1>6 DEF Save
<1>9. Told(s) /\ Sound(s)
  <2>1. Told(s)
    BY <1>5, <1>7 DEF Told
  <2>2. Quiet(row)
    BY <1>4, <1>5 DEF Recalls
  <2> QED BY <1>7, <2>1, <2>2 DEF Sound, Quiet
<1>10. PICK w \in WorkerType : /\ w.run = n /\ w.pc = "load" /\ w.state = old.state
                               /\ workers' = [workers EXCEPT ![a] = w]
  BY <1>1, <1>2, <1>4, <1>5, MovesOn
<1>11. Steps(a, w, n, s)
  BY <1>1, <1>4, <1>5, <1>7, <1>8, <1>10, WriteSteps DEF TypeOK
<1>12. Recalls(w, s)
  BY <1>10 DEF Recalls
<1> QED BY <1>4, <1>5, <1>7, <1>9, <1>10, <1>11, <1>12, QuietStepKeeps

\* The calls of an answer become the pending ones.
LEMMA BatchKeeps ==
  ASSUME IInv, NEW a \in DOMAIN workers, Batch(a)
  PROVE  IInv'
<1>1. PICK n : n = RunOf(a)
  OBVIOUS
<1>2. PICK old : old = workers[a]
  OBVIOUS
<1>3. PICK row : row = runs[n].row
  OBVIOUS
<1>4. /\ old.pc = "reply" /\ old.state.response.kind = "calls" /\ Goes(a, "load")
      /\ owner' = owner /\ requests' = requests
  BY <1>2 DEF Batch, At
<1>5. /\ TypeOK /\ Filled(n) /\ RowOf(a) = row /\ row \in StateType /\ Sound(row)
      /\ Rounds(n) = row.rounds /\ old.state \in StateType /\ Told(old.state)
      /\ Recalls(old, row) /\ owner = a
  BY <1>1, <1>2, <1>3, <1>4, AtWork
<1>6. row.pending = <<>> /\ Quiet(row) /\ Told(row)
  BY <1>4, <1>5 DEF Recalls, Sound
<1>7. PICK count \in Nat : count = old.state.response.calls
  BY <1>4, <1>5, LimitAssumption DEF StateType, ResponseType, Responses, NoResponse
<1>8. PICK added : added = [i \in 1..count |-> row.calls + i]
  OBVIOUS
<1>9. PICK more : more = [i \in 1..count |-> [kind |-> "call", call |-> added[i]]]
  OBVIOUS
<1>10. PICK s : s = [row EXCEPT !.pending = added, !.calls = @ + count,
                                !.response = NoResponse, !.messages = @ \o more]
  OBVIOUS
<1>11. Written(a, s)
  BY <1>2, <1>5, <1>7, <1>8, <1>9, <1>10 DEF Batch
<1>12. PICK calls \in Nat : calls = row.calls
  BY <1>5 DEF StateType
<1>13. /\ added \in Seq(Nat) /\ Len(added) = count /\ DOMAIN added = 1..count
       /\ \A i \in 1..count : added[i] = calls + i
  <2>1. added \in [1..count -> Nat]
    BY <1>8, <1>12
  <2> QED BY <1>8, <1>12, <2>1, ListOf
<1>14. /\ s.pending = added /\ s.calls = calls + count /\ s.messages = row.messages \o more
       /\ s.rounds = row.rounds /\ s.response = NoResponse
  BY <1>5, <1>10, <1>12 DEF StateType
<1>15. more = [i \in 1..count |-> [kind |-> "call", call |-> calls + i]]
  BY <1>8, <1>9, <1>12
<1>16. row.messages \in Seq(MessageType)
  BY <1>5, Fields
<1>17. Continued(s.messages, row.messages, calls, count)
  <2>1. more \in [1..count -> MessageType]
    BY <1>15 DEF MessageType
  <2>2. more \in Seq(MessageType) /\ Len(more) = count
    BY <2>1, ListOf
  <2>3. BatchOf(more, calls, count)
    BY <1>15, <2>2 DEF BatchOf
  <2>4. Continued(row.messages \o more, row.messages, calls, count)
    BY <1>16, <2>3, BatchMessages
  <2> QED BY <1>14, <2>4
<1>18. Told(s)
  BY <1>5, <1>6, <1>12, <1>13, <1>14, <1>17, BatchTold
<1>19. s \in StateType
  <2>1. PICK ms \in Seq(MessageType) : ms = s.messages
    BY <1>17 DEF Continued
  <2>2. PICK c \in Nat : c = calls + count
    OBVIOUS
  <2>3. s = [row EXCEPT !.pending = added, !.calls = c, !.response = NoResponse,
                        !.messages = ms]
    BY <1>10, <1>12, <1>14, <2>1, <2>2
  <2>4. NoResponse \in ResponseType
    BY DEF ResponseType
  <2> QED BY <1>5, <1>13, <2>3, <2>4 DEF StateType
<1>20. Sound(s)
  BY <1>6, <1>14, <1>18 DEF Sound, Quiet
<1>21. PICK w \in WorkerType : /\ w.run = n /\ w.pc = "load" /\ w.state = old.state
                               /\ workers' = [workers EXCEPT ![a] = w]
  BY <1>1, <1>2, <1>4, <1>5, MovesOn
<1>22. Steps(a, w, n, s)
  BY <1>1, <1>4, <1>5, <1>11, <1>19, <1>21, WriteSteps DEF TypeOK
<1>23. Recalls(w, s)
  BY <1>21 DEF Recalls
<1> QED BY <1>4, <1>5, <1>14, <1>20, <1>21, <1>22, <1>23, QuietStepKeeps

\* A set of positions that is not empty has a last one.
LEMMA LastExists ==
  ASSUME NEW n \in Nat, NEW S \in SUBSET (1..n), S # {}
  PROVE  \E m \in S : \A j \in S : j <= m
<1> DEFINE D == {n - m : m \in S}
<1>1. D # {} /\ D \in SUBSET (0..n)
  <2>1. \A m \in S : n - m \in 0..n
    OBVIOUS
  <2> QED BY <2>1
<1>2. PICK d \in D : \A e \in D : d <= e
  <2> HIDE DEF D
  <2> QED BY <1>1, FirstExists
<1>3. PICK m \in S : d = n - m
  BY <1>2
<1>4. ASSUME NEW j \in S PROVE j <= m
  <2>1. n - j \in D
    OBVIOUS
  <2> QED BY <1>2, <1>3, <2>1
<1> QED BY <1>3, <1>4

\* A conversation that was not opened yet starts as the last one did, if any.
LEMMA InheritedIs ==
  ASSUME TypeOK, NEW n, n = Now, ~Filled(n)
  PROVE  \/ Inherited(n) = NewState /\ \A m \in DOMAIN runs : ~Filled(m)
         \/ \E m \in DOMAIN runs : /\ Filled(m) /\ Inherited(n) = runs[m].row
                                   /\ \A j \in DOMAIN runs : Filled(j) => j <= m
<1> DEFINE before == {m \in 1..(n - 1) : runs[m].row # NoRow}
           Last(m) == \A j \in before : j <= m
<1>1. n \in Nat \ {0} /\ DOMAIN runs = 1..n
  BY Lists
<1>2. \A m \in DOMAIN runs : Filled(m) <=> m \in before
  BY <1>1 DEF Filled
<1>3. before \subseteq DOMAIN runs
  BY <1>1
<1>4. Inherited(n) = IF before = {} THEN NewState
                     ELSE runs[CHOOSE m \in before : Last(m)].row
  BY DEF Inherited
<1>5. CASE before = {}
  BY <1>2, <1>4, <1>5
<1>6. CASE before # {}
  <2>1. \E m \in before : Last(m)
    <3>1. before \in SUBSET (1..n)
      BY <1>1
    <3> HIDE DEF before
    <3> QED BY <1>1, <1>6, <3>1, LastExists
  <2>2. PICK m : m = CHOOSE j \in before : Last(j)
    OBVIOUS
  <2>3. m \in before /\ Last(m)
    <3> HIDE DEF before, Last
    <3> QED BY <2>1, <2>2
  <2>4. Inherited(n) = runs[m].row
    BY <1>4, <1>6, <2>2
  <2> HIDE DEF before
  <2> QED BY <1>2, <1>3, <2>3, <2>4
<1> QED BY <1>5, <1>6

\* What a worker does next is what its conversation calls for.
Decides(old, w, s) == w = [old EXCEPT !.state = s, !.pc = Decision(s)]

\* A loaded conversation is what its worker goes on from.
LEMMA Decided ==
  ASSUME NEW s \in StateType, Sound(s), Decision(s) # "ended",
         NEW old \in WorkerType, NEW w, Decides(old, w, s)
  PROVE  /\ w \in WorkerType /\ w.run = old.run /\ w.state = s
         /\ w.pc \in {"finish", "tool", "reply", "ask"}
         /\ Recalls(w, s)
<1>1. /\ Decision(s) \in {"finish", "tool", "reply", "ask"}
      /\ Decision(s) = "tool" => s.pending # <<>>
      /\ Decision(s) = "reply" => s.pending = <<>> /\ s.response # NoResponse
      /\ Decision(s) = "ask" => s.pending = <<>>
  BY DEF Decision
<1>2. /\ w \in WorkerType /\ w.run = old.run /\ w.state = s /\ w.pc = Decision(s)
  BY <1>1 DEF Decides, WorkerType
<1>3. Decision(s) \in {"tool", "reply"} => Quiet(s)
  BY <1>1 DEF Sound
<1> QED BY <1>1, <1>2, <1>3 DEF Recalls

\* A worker opens the conversation, or goes on with it.
LEMMA LoadKeeps ==
  ASSUME IInv, NEW a \in DOMAIN workers, Load(a)
  PROVE  IInv'
<1>1. PICK n : n = RunOf(a)
  OBVIOUS
<1>2. PICK old : old = workers[a]
  OBVIOUS
<1>3. PICK s : s = Opened(n)
  OBVIOUS
<1>4. PICK w : Decides(old, w, s)
  BY DEF Decides
<1>5. /\ owner = a /\ owner' = owner /\ requests' = requests
      /\ Decision(s) # "ended" /\ Written(a, s) /\ workers' = [workers EXCEPT ![a] = w]
  BY <1>1, <1>2, <1>3, <1>4 DEF Load, Owns, Decides
<1>6. TypeOK /\ Claimed /\ Ledger /\ Memory
  BY DEF IInv
<1>7. /\ old \in WorkerType /\ old.run = n /\ n \in DOMAIN runs /\ owner # 0
      /\ runs[n].row \in StateType \cup {NoRow}
  BY <1>1, <1>2, <1>5, <1>6, Lists
<1>8. n = Now
  BY <1>1, <1>5, <1>6, <1>7 DEF Claimed
<1>9. \/ Filled(n) /\ s = runs[n].row
      \/ /\ ~Filled(n)
         /\ \/ s = NewState /\ \A m \in DOMAIN runs : ~Filled(m)
            \/ \E m \in DOMAIN runs : /\ Filled(m) /\ s = runs[m].row
                                      /\ \A j \in DOMAIN runs : Filled(j) => j <= m
  BY <1>3, <1>6, <1>8, InheritedIs DEF Opened, Filled
<1>10. s \in StateType /\ Sound(s)
  <2>1. \A m \in DOMAIN runs : Filled(m) => runs[m].row \in StateType /\ Sound(runs[m].row)
    BY <1>6, Lists, MemoryIsSound DEF Filled
  <2> QED BY <1>7, <1>9, <2>1, States, NothingTold
<1>11. /\ w \in WorkerType /\ w.run = n /\ w.state = s
       /\ w.pc \in {"finish", "tool", "reply", "ask"} /\ Recalls(w, s)
  BY <1>4, <1>5, <1>7, <1>10, Decided
<1>12. Steps(a, w, n, s)
  BY <1>1, <1>5, <1>6, <1>10, <1>11, WriteSteps DEF TypeOK
<1>13. Told(w.state)
  BY <1>10, <1>11 DEF Sound
<1>14. CASE Filled(n)
  <2>1. s.rounds = Rounds(n)
    BY <1>9, <1>14 DEF Rounds
  <2> QED BY <1>5, <1>10, <1>11, <1>12, <1>13, <1>14, <2>1, QuietStepKeeps
<1>15. CASE ~Filled(n)
  <2>1. TypeOK' /\ Claimed' /\ Memory'
    BY <1>5, <1>10, <1>11, <1>12, <1>13, StepKeeps
  <2>2. /\ Len(runs') = Len(runs) /\ Filled(n)' /\ Rounds(n)' = s.rounds
        /\ \A m \in DOMAIN runs : m # n => (Filled(m)' <=> Filled(m)) /\ Rounds(m)' = Rounds(m)
    BY <1>1, <1>5, <1>6, <1>10, RowWritten
  <2>3. \/ Rounds(n)' = <<>> /\ \A m \in DOMAIN runs : ~Filled(m)
        \/ \E m \in DOMAIN runs : /\ Filled(m) /\ Rounds(n)' = Rounds(m)
                                  /\ \A j \in DOMAIN runs : Filled(j) => j <= m
    <3>1. NewState.rounds = <<>>
      BY States
    <3> QED BY <1>9, <1>15, <2>2, <3>1 DEF Rounds
  <2>4. AskersStay
    <3>1. /\ DOMAIN workers' = DOMAIN workers /\ workers'[a] = w
          /\ \A b \in DOMAIN workers : b # a => workers'[b] = workers[b]
          /\ \A b \in DOMAIN workers : RunOf(b)' = RunOf(b)
      BY <1>1, <1>5, <1>6, <1>11, WorkerSet
    <3> QED BY <1>11, <3>1 DEF AskersStay
  <2>5. Ledger'
    BY <1>5, <1>6, <1>8, <1>15, <2>1, <2>2, <2>3, <2>4, LedgerInherited
  <2> QED BY <2>1, <2>5 DEF IInv
<1> QED BY <1>14, <1>15

-----------------------------------------------------------------------------
(* Requests: reserved, sent, answered. *)

\* The rounds of one row change, but not in number or in whose they are,
\* except that there may be more.
OneRow(n) ==
  /\ Len(runs') = Len(runs) /\ n \in DOMAIN runs /\ Filled(n) /\ Filled(n)'
  /\ \A m \in DOMAIN runs : m # n => (Filled(m)' <=> Filled(m)) /\ Rounds(m)' = Rounds(m)
  /\ \A k \in DOMAIN Rounds(n) :
       k \in DOMAIN Rounds(n)' /\ Rounds(n)'[k].attempt = Rounds(n)[k].attempt
  /\ DOMAIN workers' = DOMAIN workers /\ \A b \in DOMAIN workers : RunOf(b)' = RunOf(b)

\* What was reserved stays reserved.
LEMMA ReservedStays ==
  ASSUME TypeOK, TypeOK', NEW n, OneRow(n), NEW b \in DOMAIN workers
  PROVE  /\ After(b)' = After(b) /\ After(b) \subseteq DOMAIN runs
         /\ DOMAIN runs' = DOMAIN runs /\ RunOf(b) \in DOMAIN runs
         /\ Filled(RunOf(b)) => Filled(RunOf(b))' /\ RunOf(b) \in After(b)
         /\ \A k : Reserved(b, k) => Reserved(b, k)'
<1>1. PICK r : r = RunOf(b) /\ r = RunOf(b)' /\ r \in DOMAIN runs
  BY Lists DEF OneRow
<1>2. \A m \in DOMAIN runs : Filled(m)' <=> Filled(m)
  BY DEF OneRow
<1>3. Len(runs') = Len(runs) /\ RunOf(b)' = RunOf(b)
  BY DEF OneRow
<1>4. /\ After(b) \subseteq DOMAIN runs /\ After(b)' \subseteq DOMAIN runs
      /\ \A m \in DOMAIN runs : m \in After(b) <=> r <= m /\ Filled(m)
      /\ \A m \in DOMAIN runs : m \in After(b)' <=> r <= m /\ Filled(m)'
  BY <1>1, <1>3, AfterIs, AfterIsThen
<1>5. After(b)' = After(b)
  BY <1>2, <1>4
<1>6. DOMAIN runs' = DOMAIN runs /\ r <= r
  <2>1. runs' \in Seq(RunType) /\ runs \in Seq(RunType)
    BY DEF TypeOK
  <2> QED BY <1>1, <1>3, <2>1, Lists, LenProperties
<1>7. ASSUME NEW k, Reserved(b, k) PROVE Reserved(b, k)'
  <2>1. \A m \in After(b) : k \in DOMAIN Rounds(m) /\ Rounds(m)[k].attempt = b
    BY <1>7 DEF Reserved
  <2>2. \A m \in After(b) : k \in DOMAIN Rounds(m)' /\ Rounds(m)'[k].attempt = b
    BY <1>4, <2>1 DEF OneRow
  <2> QED BY <1>5, <2>2 DEF Reserved
<1>8. Filled(r) => Filled(r)' /\ r \in After(b)
  BY <1>1, <1>2, <1>4, <1>6
<1>9. Filled(RunOf(b)) => Filled(RunOf(b))' /\ RunOf(b) \in After(b)
  BY <1>1, <1>8 DEF Filled
<1> QED BY <1>1, <1>4, <1>5, <1>6, <1>7, <1>9

\* The rounds of the last row, if it is there, are those of all requests.
LEMMA RequestsKnown ==
  ASSUME TypeOK, RequestsPaid, NEW n, n = Now, Filled(n), NEW r \in DOMAIN requests
  PROVE  requests[r].round \in DOMAIN Rounds(n)
<1>1. PICK b \in DOMAIN workers : b = requests[r].attempt /\ Reserved(b, requests[r].round)
  BY DEF RequestsPaid, Paid
<1>2. RunOf(b) \in 1..n /\ n \in Nat \ {0} /\ n \in DOMAIN runs
  BY Lists
<1>3. n \in After(b)
  BY <1>2, AfterIs
<1> QED BY <1>1, <1>3 DEF Reserved

\* One round more.
LEMMA GrownCosts ==
  ASSUME NEW es, NEW fs, Priced(es), Priced(fs), Len(fs) = Len(es) + 1,
         \A k \in 1..Len(es) : fs[k].cost = es[k].cost
  PROVE  Total(fs) = Total(es) + fs[Len(es) + 1].cost
<1>1. PICK L \in Nat : L = Len(es)
  BY DEF Priced
<1>2. /\ DOMAIN es = 1..L /\ DOMAIN fs = 1..(L + 1) /\ Len(fs) = L + 1
      /\ L + 1 \in 1..(L + 1)
  BY <1>1 DEF Priced
<1> DEFINE S == 1..(L + 1)
<1>3. CostAt(S, fs) = CostAt(S, es) + fs[L + 1].cost
  <2>1. CostAt(S, fs) = CostAt(S, es) + (IF Len(fs) \in S THEN fs[Len(fs)].cost ELSE 0)
    <3> HIDE DEF S
    <3> QED BY CostOfLonger
  <2> QED BY <1>1, <1>2, <2>1
<1>4. CostAt(S, es) = CostAt(1..L, es)
  <2>1. \A i \in 1..Len(es) : i \in S <=> i \in 1..L
    BY <1>1
  <2> HIDE DEF S
  <2> QED BY <2>1, CostSame
<1> QED BY <1>1, <1>2, <1>3, <1>4 DEF Total

\* The list of rounds after a reservation.
Reserves(rounds, new, a, reservation) ==
  /\ new \in Seq(RoundType) /\ Len(new) = Len(rounds) + 1
  /\ new[Len(rounds) + 1].attempt = a /\ new[Len(rounds) + 1].status = "pending"
  /\ new[Len(rounds) + 1].cost = reservation
  /\ \A k \in 1..Len(rounds) :
       /\ new[k].attempt = rounds[k].attempt /\ new[k].cost = rounds[k].cost
       /\ new[k].status # "pending"
       /\ new[k].status \in Used => rounds[k].status \in Used
       /\ rounds[k].status \in {"pending", "unknown"} => new[k].status = "unknown"

\* That is what the code makes of the rounds.
LEMMA ReservedRounds ==
  ASSUME NEW rounds \in Seq(RoundType), NEW a \in Nat, NEW reservation \in Nat
  PROVE  Reserves(rounds,
           Append(Abandoned(rounds),
                  [attempt |-> a, status |-> "pending", cost |-> reservation]),
           a, reservation)
<1> DEFINE old == Abandoned(rounds)
           entry == [attempt |-> a, status |-> "pending", cost |-> reservation]
           new == Append(old, entry)
<1>1. PICK L \in Nat : L = Len(rounds)
  BY LenProperties
<1>2. DOMAIN rounds = 1..L /\ \A k \in 1..L : rounds[k] \in RoundType
  BY <1>1, LenProperties, ElementOfSeq
<1>3. \A k \in 1..L :
        /\ old[k] \in RoundType
        /\ old[k].attempt = rounds[k].attempt /\ old[k].cost = rounds[k].cost
        /\ old[k].status # "pending"
        /\ old[k].status \in Used => rounds[k].status \in Used
        /\ rounds[k].status \in {"pending", "unknown"} => old[k].status = "unknown"
  BY <1>2 DEF Abandoned, RoundType, RoundStatus, Used
<1>4. old \in Seq(RoundType) /\ Len(old) = L
  <2>1. old \in [1..L -> RoundType]
    <3>1. old = [k \in 1..L |-> old[k]]
      BY <1>2 DEF Abandoned
    <3> HIDE DEF old
    <3> QED BY <1>3, <3>1
  <2> HIDE DEF old
  <2> QED BY <2>1, ListOf
<1>5. entry \in RoundType
  BY DEF RoundType, RoundStatus
<1>6. /\ new \in Seq(RoundType) /\ Len(new) = L + 1 /\ new[L + 1] = entry
      /\ \A k \in 1..L : new[k] = old[k]
  <2> HIDE DEF old, entry
  <2> QED BY <1>4, <1>5, AppendProperties
<1>7. entry.attempt = a /\ entry.status = "pending" /\ entry.cost = reservation
  OBVIOUS
<1>8. Reserves(rounds, new, a, reservation)
  <2> HIDE DEF old, entry, new
  <2> QED BY <1>1, <1>3, <1>6, <1>7 DEF Reserves
<1> QED BY <1>8

\* A request is reserved: one round more, and all others abandoned.
LEMMA LedgerReserved ==
  ASSUME TypeOK, TypeOK', Claimed, Ledger, requests' = requests,
         NEW n, n = Now, OneRow(n), NEW a \in DOMAIN workers, RunOf(a) = n,
         NEW reservation \in Nat, Reserves(Rounds(n), Rounds(n)', a, reservation),
         Len(Rounds(n)) < MaxRounds, Total(Rounds(n)) + reservation <= MaxCost,
         workers'[a].pc = "send", workers'[a].round = Len(Rounds(n)) + 1,
         \A b \in DOMAIN workers : b # a => workers'[b] = workers[b]
  PROVE  Ledger'
<1>1. PICK L \in Nat : /\ L = Len(Rounds(n)) /\ DOMAIN Rounds(n) = 1..L
                       /\ Priced(Rounds(n))
  BY RoundLists DEF OneRow
<1>2. /\ Rounds(n)' \in Seq(RoundType) /\ DOMAIN Rounds(n)' = 1..(L + 1)
      /\ Len(Rounds(n)') = L + 1 /\ Priced(Rounds(n)')
      /\ L + 1 \in 1..(L + 1) /\ L + 1 \notin 1..L /\ 1..L \subseteq 1..(L + 1)
      /\ \A k \in 1..(L + 1) : k = L + 1 \/ k \in 1..L
  <2>1. Rounds(n)' \in Seq(RoundType) /\ Len(Rounds(n)') = L + 1
    BY <1>1 DEF Reserves
  <2> QED BY <2>1, LenProperties, RoundsPriced
<1>3. /\ Rounds(n)'[L + 1].attempt = a /\ Rounds(n)'[L + 1].status = "pending"
      /\ Rounds(n)'[L + 1].cost = reservation
      /\ \A k \in 1..L :
           /\ Rounds(n)'[k].attempt = Rounds(n)[k].attempt
           /\ Rounds(n)'[k].cost = Rounds(n)[k].cost
           /\ Rounds(n)'[k].status \in Used => Rounds(n)[k].status \in Used
           /\ Rounds(n)[k].status \in {"pending", "unknown"} => Rounds(n)'[k].status = "unknown"
  BY <1>1 DEF Reserves
<1>4. \A m \in DOMAIN runs : m # n => Rounds(m)' = Rounds(m)
  BY DEF OneRow
<1>5. \A b \in DOMAIN workers : /\ After(b)' = After(b) /\ After(b) \subseteq DOMAIN runs
                                /\ Filled(RunOf(b)) => Filled(RunOf(b))' /\ RunOf(b) \in After(b)
                                /\ \A k : Reserved(b, k) => Reserved(b, k)'
  BY ReservedStays
<1>6. DOMAIN runs' = DOMAIN runs /\ Filled(n) /\ DOMAIN workers' = DOMAIN workers
  BY ReservedStays DEF OneRow
<1>7. \A r \in DOMAIN requests : requests[r].round \in 1..L
  BY <1>1, <1>6, RequestsKnown DEF Ledger
<1>8. After(a) = {n}
  BY Lists DEF After, OneRow
<1>9. InFlight'
  <2>1. ASSUME NEW b \in DOMAIN workers, b # a, At(b, "send")' PROVE Unsent(b)'
    <3>1. workers'[b] = workers[b] /\ At(b, "send")
      BY <2>1 DEF At
    <3>2. PICK k : k = workers[b].round /\ k = workers'[b].round
      BY <3>1
    <3>3. Unsent(b) /\ Reserved(b, k)
      BY <3>1, <3>2 DEF Ledger, InFlight, Unsent
    <3>4. PICK r \in DOMAIN runs : r = RunOf(b) /\ r = RunOf(b)' /\ r \in After(b)
      <4>1. Filled(RunOf(b))
        BY <3>1 DEF Claimed, At
      <4> QED BY <1>5, <4>1 DEF OneRow
    <3>5. RowOf(b).rounds = Rounds(r) /\ RowOf(b)'.rounds = Rounds(r)'
      BY <3>4 DEF RowOf, Rounds
    <3>6. \A m \in After(b) : /\ Rounds(m)[k].status \in {"pending", "unknown"}
                              /\ Rounds(m)[k].cost = Rounds(r)[k].cost
                              /\ k \in DOMAIN Rounds(m)
      BY <3>2, <3>3, <3>5 DEF Unsent, Reserved
    <3>7. \A m \in After(b) : /\ Rounds(m)'[k].status \in {"pending", "unknown"}
                              /\ Rounds(m)'[k].cost = Rounds(m)[k].cost
      BY <1>1, <1>3, <1>4, <1>5, <3>6
    <3>8. \A q \in DOMAIN requests : requests[q].round # k
      BY <3>2, <3>3 DEF Unsent
    <3>9. Reserved(b, k)' /\ After(b)' = After(b)
      BY <1>5, <3>3
    <3> QED BY <3>2, <3>4, <3>5, <3>6, <3>7, <3>8, <3>9 DEF Unsent
  <2>2. Unsent(a)'
    <3>1. PICK k : k = workers'[a].round /\ k = L + 1
      BY <1>1
    <3>2. After(a)' = {n} /\ RunOf(a)' = n
      BY <1>5, <1>8 DEF OneRow
    <3>3. RowOf(a)'.rounds = Rounds(n)'
      BY <3>2 DEF RowOf, Rounds
    <3>4. Reserved(a, k)'
      BY <1>2, <1>3, <3>1, <3>2 DEF Reserved
    <3>5. \A q \in DOMAIN requests : requests[q].round # k
      BY <1>2, <1>7, <3>1
    <3> QED BY <1>3, <3>1, <3>2, <3>3, <3>4, <3>5 DEF Unsent
  <2>3. ASSUME NEW b \in DOMAIN workers, At(b, "wait")' PROVE Waits(b)'
    <3>1. b # a /\ workers'[b] = workers[b] /\ At(b, "wait")
      BY <2>3 DEF At
    <3> QED BY <3>1 DEF Ledger, InFlight, Waits
  <2> QED BY <1>6, <2>1, <2>2, <2>3 DEF InFlight
<1>10. RequestsPaid'
  <2>1. ASSUME NEW r \in DOMAIN requests PROVE Paid(r)'
    <3>1. PICK b \in DOMAIN workers : b = requests[r].attempt /\ Filled(RunOf(b))
      BY DEF Ledger, RequestsPaid, Paid
    <3>2. PICK k \in 1..L : k = requests[r].round
      BY <1>7
    <3>3. /\ Reserved(b, k)
          /\ \A m \in After(b) :
               /\ requests[r].cost <= Rounds(m)[k].cost
               /\ Rounds(m)[k].status \in Used => requests[r].cost = Rounds(m)[k].cost
      BY <3>1, <3>2 DEF Ledger, RequestsPaid, Paid
    <3>4. \A m \in After(b) :
            /\ Rounds(m)'[k].cost = Rounds(m)[k].cost
            /\ Rounds(m)'[k].status \in Used => Rounds(m)[k].status \in Used
      BY <1>3, <1>4, <1>5
    <3>5. Reserved(b, k)' /\ After(b)' = After(b) /\ Filled(RunOf(b))'
      BY <1>5, <3>1, <3>3
    <3> QED BY <1>6, <3>1, <3>2, <3>3, <3>4, <3>5 DEF Paid
  <2> QED BY <2>1 DEF Ledger, RequestsPaid
<1>11. UseAsked'
  <2>1. ASSUME NEW m \in DOMAIN runs, NEW k \in DOMAIN Rounds(m)', Rounds(m)'[k].status \in Used
        PROVE  /\ k \in DOMAIN Rounds(m) /\ Rounds(m)[k].status \in Used
               /\ Rounds(m)[k].attempt = Rounds(m)'[k].attempt
    <3>1. CASE m # n
      BY <1>4, <2>1, <3>1
    <3>2. CASE m = n
      <4>1. k # L + 1
        BY <1>3, <2>1, <3>2 DEF Used
      <4> QED BY <1>1, <1>2, <1>3, <2>1, <3>2, <4>1
    <3> QED BY <3>1, <3>2
  <2> QED BY <1>6, <2>1 DEF Ledger, UseAsked
<1>12. Limited'
  <2>1. Len(Rounds(n)') <= MaxRounds
    BY <1>1, <1>2, LimitAssumption
  <2>2. Total(Rounds(n)') = Total(Rounds(n)) + reservation
    BY <1>1, <1>2, <1>3, GrownCosts
  <2>3. \A m \in DOMAIN runs : Len(Rounds(m)') <= MaxRounds /\ Total(Rounds(m)') <= MaxCost
    BY <1>4, <2>1, <2>2 DEF Ledger, Limited
  <2> QED BY <1>6, <2>3 DEF Limited, Total
<1> QED BY <1>9, <1>10, <1>11, <1>12 DEF Ledger

\* A request is reserved.
LEMMA ReserveKeeps ==
  ASSUME IInv, NEW a \in DOMAIN workers, NEW reservation \in Reservations,
         Reserve(a, reservation)
  PROVE  IInv'
<1>1. PICK n : n = RunOf(a)
  OBVIOUS
<1>2. PICK old : old = workers[a]
  OBVIOUS
<1>3. PICK row : row = runs[n].row
  OBVIOUS
<1>4. old.pc = "ask" /\ owner' = owner /\ requests' = requests
  BY <1>2 DEF Reserve, At
<1>5. /\ TypeOK /\ Filled(n) /\ RowOf(a) = row /\ row \in StateType /\ Sound(row)
      /\ Rounds(n) = row.rounds /\ old.state \in StateType /\ Told(old.state)
      /\ Recalls(old, row) /\ owner = a /\ old \in WorkerType /\ old.run = n
      /\ n \in DOMAIN runs
  BY <1>1, <1>2, <1>3, <1>4, AtWork
<1>6. Claimed /\ Ledger /\ reservation \in Nat
  BY LimitAssumption DEF IInv
<1>7. PICK L \in Nat : /\ L = Len(row.rounds) /\ L + 1 \in Nat /\ L + 1 \in 1..(L + 1)
                       /\ \A k \in 1..(L + 1) : k = L + 1 \/ k \in 1..L
  <2>1. Len(row.rounds) \in Nat
    BY <1>5, Fields
  <2> QED BY <2>1
<1>8. PICK new : new = Append(Abandoned(row.rounds),
                   [attempt |-> a, status |-> "pending", cost |-> reservation])
  OBVIOUS
<1>9. Reserves(row.rounds, new, a, reservation)
  <2>1. row.rounds \in Seq(RoundType) /\ a \in Nat
    BY <1>5, Fields, Lists
  <2> QED BY <1>6, <1>8, <2>1, ReservedRounds
<1>10. PICK s : s = [row EXCEPT !.rounds = new]
  OBVIOUS
<1>11. PICK w : w = [old EXCEPT !.pc = "send", !.round = L + 1]
  OBVIOUS
<1>12. /\ Written(a, s) /\ workers' = [workers EXCEPT ![a] = w]
       /\ row.response = NoResponse /\ L < MaxRounds
       /\ Total(row.rounds) + reservation <= MaxCost
  <2>1. /\ Written(a, [row EXCEPT !.rounds = Append(Abandoned(@),
             [attempt |-> a, status |-> "pending", cost |-> reservation])])
        /\ row.response = NoResponse /\ Len(row.rounds) < MaxRounds
        /\ Total(row.rounds) + reservation <= MaxCost
        /\ workers' = [workers EXCEPT ![a].pc = "send", ![a].round = Len(row.rounds) + 1]
    BY <1>5 DEF Reserve, AnsweredMeanwhile, Charged
  <2>2. [row EXCEPT !.rounds = Append(Abandoned(@),
           [attempt |-> a, status |-> "pending", cost |-> reservation])] = s
    BY <1>8, <1>10
  <2>3. Written(a, s)
    BY <2>1, <2>2
  <2>4. workers' = [workers EXCEPT ![a] = w]
    BY <1>2, <1>7, <1>11, <2>1
  <2> QED BY <1>7, <2>1, <2>3, <2>4
<1>13. /\ s \in StateType /\ s.rounds = new /\ s.messages = row.messages
       /\ s.calls = row.calls /\ s.pending = row.pending /\ s.response = row.response
  <2>1. new \in Seq(RoundType)
    BY <1>9 DEF Reserves
  <2> QED BY <1>5, <1>10, <2>1 DEF StateType
<1>14. w \in WorkerType /\ w.run = n /\ w.pc = "send" /\ w.round = L + 1 /\ w.state = old.state
  BY <1>5, <1>7, <1>11 DEF WorkerType
<1>15. Sound(s) /\ s.pending = <<>>
  <2>1. \A k \in DOMAIN new : new[k].status = "pending" => k = Len(new)
    <3>1. DOMAIN new = 1..(L + 1) /\ Len(new) = L + 1
      BY <1>7, <1>9, LenProperties DEF Reserves
    <3> QED BY <1>7, <1>9, <3>1 DEF Reserves
  <2>2. s.response = NoResponse /\ s.pending = <<>>
    BY <1>4, <1>5, <1>12, <1>13 DEF Recalls
  <2>3. Told(s)
    BY <1>5, <1>13 DEF Sound, Told
  <2> QED BY <1>13, <2>1, <2>2, <2>3 DEF Sound
<1>16. Recalls(w, s)
  BY <1>4, <1>5, <1>14 DEF Recalls
<1>17. Steps(a, w, n, s)
  BY <1>1, <1>4, <1>5, <1>12, <1>13, <1>14, WriteSteps DEF TypeOK
<1>18. TypeOK' /\ Claimed' /\ Memory'
  BY <1>5, <1>14, <1>15, <1>16, <1>17, StepKeeps
<1>19. /\ Len(runs') = Len(runs) /\ Filled(n)' /\ Rounds(n)' = new
       /\ \A m \in DOMAIN runs : m # n => (Filled(m)' <=> Filled(m)) /\ Rounds(m)' = Rounds(m)
  BY <1>1, <1>5, <1>12, <1>13, RowWritten
<1>20. /\ DOMAIN workers' = DOMAIN workers /\ workers'[a] = w
       /\ \A b \in DOMAIN workers : b # a => workers'[b] = workers[b]
       /\ \A b \in DOMAIN workers : RunOf(b)' = RunOf(b)
  BY <1>1, <1>5, <1>12, <1>14, WorkerSet
<1>21. OneRow(n)
  <2>1. \A k \in DOMAIN row.rounds : k \in DOMAIN new /\ new[k].attempt = row.rounds[k].attempt
    <3>1. DOMAIN new = 1..(L + 1) /\ DOMAIN row.rounds = 1..L
      BY <1>5, <1>7, <1>9, Fields, LenProperties DEF Reserves
    <3>2. \A k \in 1..L : k \in 1..(L + 1)
      OBVIOUS
    <3> QED BY <1>7, <1>9, <3>1, <3>2 DEF Reserves
  <2> QED BY <1>5, <1>19, <1>20, <2>1 DEF OneRow
<1>22. n = Now
  <2>1. owner # 0
    BY <1>5, Lists
  <2> QED BY <1>1, <1>5, <1>6, <2>1 DEF Claimed
<1>23. Ledger'
  <2>1. Rounds(n) = row.rounds /\ Reserves(Rounds(n), Rounds(n)', a, reservation)
    BY <1>5, <1>9, <1>19
  <2>2. Len(Rounds(n)) < MaxRounds /\ Total(Rounds(n)) + reservation <= MaxCost
    BY <1>7, <1>12, <2>1
  <2>3. workers'[a].pc = "send" /\ workers'[a].round = Len(Rounds(n)) + 1 /\ RunOf(a) = n
    BY <1>1, <1>7, <1>14, <1>20, <2>1
  <2>4. TypeOK /\ TypeOK' /\ requests' = requests
    BY <1>4, <1>5, <1>18
  <2>5. \A b \in DOMAIN workers : b # a => workers'[b] = workers[b]
    BY <1>20
  <2> QED BY <1>6, <1>21, <1>22, <2>1, <2>2, <2>3, <2>4, <2>5, LedgerReserved
<1> QED BY <1>18, <1>23 DEF IInv

\* A request is made: it is the one that was reserved.
LEMMA LedgerSent ==
  ASSUME TypeOK, Claimed, Ledger, runs' = runs,
         NEW a \in DOMAIN workers, At(a, "send"), NEW k, k = workers[a].round,
         NEW cost, cost <= RowOf(a).rounds[k].cost,
         NEW N \in Nat, N = Len(requests), DOMAIN requests' = 1..(N + 1),
         \A r \in 1..N : requests'[r] = requests[r],
         requests'[N + 1] = [attempt |-> a, round |-> k, cost |-> cost],
         DOMAIN workers' = DOMAIN workers, \A b \in DOMAIN workers : RunOf(b)' = RunOf(b),
         workers'[a].pc = "wait", workers'[a].round = k, workers'[a].request = N + 1,
         \A b \in DOMAIN workers : b # a => workers'[b] = workers[b]
  PROVE  Ledger'
<1>1. DOMAIN requests = 1..N /\ 1..N \subseteq 1..(N + 1) /\ N + 1 \in 1..(N + 1)
      /\ \A r \in 1..(N + 1) : r = N + 1 \/ r \in 1..N
  BY Lists
<1>2. \A m \in DOMAIN runs : Rounds(m)' = Rounds(m) /\ (Filled(m)' <=> Filled(m))
  BY DEF Rounds, Filled
<1>3. \A b \in DOMAIN workers : After(b) \subseteq DOMAIN runs /\ RunOf(b) \in DOMAIN runs
  BY Lists, AfterIs
<1>4. \A b \in DOMAIN workers : After(b)' = After(b)
  <2>1. ASSUME NEW b \in DOMAIN workers PROVE After(b)' = After(b)
    <3>1. PICK m : m = RunOf(b) /\ m = RunOf(b)'
      OBVIOUS
    <3> QED BY <3>1 DEF After, Now, Filled
  <2> QED BY <2>1
<1>5. \A b \in DOMAIN workers : \A j : Reserved(b, j)' <=> Reserved(b, j)
  BY <1>2, <1>3, <1>4 DEF Reserved
<1>6. Unsent(a) /\ Reserved(a, k) /\ Filled(RunOf(a))
  BY DEF Ledger, InFlight, Unsent, Claimed, At
<1>7. \A b \in DOMAIN workers : RowOf(b).rounds = Rounds(RunOf(b))
                                /\ RowOf(b)'.rounds = Rounds(RunOf(b))
  <2>1. ASSUME NEW b \in DOMAIN workers
        PROVE  RowOf(b).rounds = Rounds(RunOf(b)) /\ RowOf(b)'.rounds = Rounds(RunOf(b))
    <3>1. PICK m \in DOMAIN runs : m = RunOf(b) /\ m = RunOf(b)' /\ Rounds(m)' = Rounds(m)
      BY <1>2, <1>3
    <3> QED BY <3>1 DEF RowOf, Rounds
  <2> QED BY <2>1
<1>8. ASSUME NEW b \in DOMAIN workers, At(b, "send"), b # a PROVE workers[b].round # k
  <2>1. Unsent(b) /\ Filled(RunOf(b))
    BY <1>8 DEF Ledger, InFlight, Claimed, At
  <2>2. PICK m \in DOMAIN runs : Filled(m) /\ RunOf(a) <= m /\ RunOf(b) <= m
    <3>1. RunOf(a) \in Int /\ RunOf(b) \in Int
      BY Lists
    <3>2. RunOf(a) <= RunOf(b) \/ RunOf(b) <= RunOf(a)
      BY <3>1
    <3>3. RunOf(a) <= RunOf(a) /\ RunOf(b) <= RunOf(b)
      BY <3>1
    <3> QED BY <1>3, <1>6, <2>1, <3>2, <3>3
  <2>3. m \in After(a) /\ m \in After(b)
    BY <2>2, AfterIs
  <2>4. a # b /\ Rounds(m)[k].attempt = a /\ Rounds(m)[workers[b].round].attempt = b
    BY <1>6, <1>8, <2>1, <2>3 DEF Unsent, Reserved
  <2> QED BY <2>4
<1>9. InFlight'
  <2>1. ASSUME NEW b \in DOMAIN workers, At(b, "send")' PROVE Unsent(b)'
    <3>1. b # a /\ workers'[b] = workers[b] /\ At(b, "send")
      BY <2>1 DEF At
    <3>2. Unsent(b)
      BY <3>1 DEF Ledger, InFlight
    <3>3. PICK j : j = workers[b].round /\ j = workers'[b].round /\ j # k
      BY <1>8, <3>1
    <3>4. Reserved(b, j)' /\ \A r \in 1..(N + 1) : requests'[r].round # j
      <4>1. requests'[N + 1].round = k
        OBVIOUS
      <4> QED BY <1>1, <1>5, <3>2, <3>3, <4>1 DEF Unsent
    <3>5. \A m \in After(b) : /\ Rounds(m)'[j].status \in {"pending", "unknown"}
                              /\ Rounds(m)'[j].cost = RowOf(b)'.rounds[j].cost
      BY <1>2, <1>3, <1>7, <3>2, <3>3 DEF Unsent
    <3> QED BY <1>4, <3>3, <3>4, <3>5 DEF Unsent
  <2>2. ASSUME NEW b \in DOMAIN workers, At(b, "wait")' PROVE Waits(b)'
    <3>1. CASE b = a
      BY <1>1, <3>1 DEF Waits
    <3>2. CASE b # a
      <4>1. workers'[b] = workers[b] /\ Waits(b)
        BY <2>2, <3>2 DEF At, Ledger, InFlight
      <4> QED BY <1>1, <4>1 DEF Waits
    <3> QED BY <3>1, <3>2
  <2> QED BY <2>1, <2>2 DEF InFlight
<1>10. RequestsPaid'
  <2>1. ASSUME NEW r \in 1..N PROVE Paid(r)'
    <3>1. PICK b \in DOMAIN workers : b = requests[r].attempt /\ Filled(RunOf(b))
      BY <1>1 DEF Ledger, RequestsPaid, Paid
    <3>2. Paid(r) /\ requests'[r] = requests[r]
      BY <1>1 DEF Ledger, RequestsPaid
    <3>3. Filled(RunOf(b))' /\ After(b)' = After(b)
      <4>1. PICK m \in DOMAIN runs : m = RunOf(b) /\ m = RunOf(b)' /\ Filled(m) /\ Filled(m)'
        BY <1>2, <1>3, <3>1
      <4> QED BY <1>4, <4>1 DEF Filled
    <3>4. PICK q : q = requests[r] /\ q = requests'[r]
      BY <3>2
    <3>5. \A m \in After(b) : /\ q.cost <= Rounds(m)'[q.round].cost
                              /\ Rounds(m)'[q.round].status \in Used =>
                                   q.cost = Rounds(m)'[q.round].cost
      BY <1>2, <1>3, <3>1, <3>2, <3>4 DEF Paid
    <3>6. Reserved(b, q.round)'
      BY <1>5, <3>1, <3>2, <3>4 DEF Paid
    <3> QED BY <3>1, <3>3, <3>4, <3>5, <3>6 DEF Paid
  <2>2. Paid(N + 1)'
    <3>1. requests'[N + 1].attempt = a /\ requests'[N + 1].round = k
          /\ requests'[N + 1].cost = cost
      OBVIOUS
    <3>2. \A m \in After(a) : /\ cost <= Rounds(m)'[k].cost
                              /\ Rounds(m)'[k].status \notin Used
      BY <1>2, <1>3, <1>6 DEF Unsent, Used
    <3>3. Filled(RunOf(a))'
      <4>1. PICK m \in DOMAIN runs : m = RunOf(a) /\ m = RunOf(a)' /\ Filled(m) /\ Filled(m)'
        BY <1>2, <1>3, <1>6
      <4> QED BY <4>1 DEF Filled
    <3> QED BY <1>4, <1>5, <1>6, <3>1, <3>2, <3>3 DEF Paid
  <2>3. \A r \in 1..N : requests'[r].round # k
    BY <1>1, <1>6 DEF Unsent
  <2>4. ASSUME NEW r \in 1..(N + 1), NEW q \in 1..(N + 1), requests'[r].round = requests'[q].round
        PROVE  r = q
    <3>1. requests'[N + 1].round = k
      OBVIOUS
    <3>2. \A i, j \in 1..N : requests[i].round = requests[j].round => i = j
      BY <1>1 DEF Ledger, RequestsPaid
    <3> QED BY <1>1, <2>3, <2>4, <3>1, <3>2
  <2>5. \A r \in 1..(N + 1) : Paid(r)'
    BY <1>1, <2>1, <2>2
  <2> QED BY <2>4, <2>5 DEF RequestsPaid
<1>11. UseAsked'
  <2>1. ASSUME NEW m \in DOMAIN runs, NEW j \in DOMAIN Rounds(m), Rounds(m)[j].status \in Used
        PROVE  \E r \in DOMAIN requests' :
                 requests'[r].attempt = Rounds(m)[j].attempt /\ requests'[r].round = j
    <3>1. PICK r \in 1..N : requests[r].attempt = Rounds(m)[j].attempt /\ requests[r].round = j
      BY <1>1, <2>1 DEF Ledger, UseAsked
    <3> QED BY <1>1, <3>1
  <2> QED BY <1>2, <2>1 DEF UseAsked
<1>12. Limited'
  BY DEF Ledger, Limited, Rounds, Total
<1> QED BY <1>9, <1>10, <1>11, <1>12 DEF Ledger

\* A request is made, whether or not the claim is still there.
LEMMA SendKeeps ==
  ASSUME IInv, NEW a \in DOMAIN workers, NEW cost \in Costs, Send(a, cost)
  PROVE  IInv'
<1>1. PICK n : n = RunOf(a)
  OBVIOUS
<1>2. PICK old : old = workers[a]
  OBVIOUS
<1>3. PICK row : row = runs[n].row
  OBVIOUS
<1>4. At(a, "send") /\ old.pc = "send" /\ owner' = owner /\ runs' = runs
  BY <1>2 DEF Send, At
<1>5. /\ TypeOK /\ Filled(n) /\ RowOf(a) = row /\ row \in StateType /\ Sound(row)
      /\ old.state \in StateType /\ Told(old.state) /\ old \in WorkerType /\ old.run = n
      /\ n \in DOMAIN runs
  BY <1>1, <1>2, <1>3, <1>4, AtWork
<1>6. Claimed /\ Ledger /\ cost \in Nat
  BY LimitAssumption DEF IInv
<1>7. PICK N \in Nat : N = Len(requests) /\ DOMAIN requests = 1..N /\ N + 1 \in Nat
  <2>1. Len(requests) \in Nat /\ DOMAIN requests = 1..Len(requests)
    BY <1>5, Lists
  <2>2. PICK N \in Nat : N = Len(requests)
    BY <2>1
  <2>3. DOMAIN requests = 1..N /\ N + 1 \in Nat
    BY <2>1, <2>2
  <2> QED BY <2>2, <2>3
<1>8. PICK k \in Nat : k = old.round
  BY <1>5 DEF WorkerType
<1>9. PICK e : e = [attempt |-> a, round |-> k, cost |-> cost]
  OBVIOUS
<1>10. PICK w : w = [old EXCEPT !.pc = "wait", !.request = N + 1]
  OBVIOUS
<1>11. /\ requests' = Append(requests, e) /\ workers' = [workers EXCEPT ![a] = w]
       /\ cost <= RowOf(a).rounds[k].cost
  BY <1>2, <1>7, <1>8, <1>9, <1>10 DEF Send
<1>12. e \in RequestType /\ a \in Nat
  <2>1. a \in Nat
    BY <1>5, Lists
  <2> QED BY <1>6, <1>9, <2>1 DEF RequestType
<1>13. /\ requests' \in Seq(RequestType) /\ DOMAIN requests' = 1..(N + 1)
       /\ \A r \in 1..N : requests'[r] = requests[r]
       /\ requests'[N + 1] = e
  <2>1. requests \in Seq(RequestType)
    BY <1>5 DEF TypeOK
  <2>2. /\ requests' \in Seq(RequestType) /\ Len(requests') = N + 1
        /\ \A r \in 1..N : requests'[r] = requests[r]
        /\ requests'[N + 1] = e
    BY <1>7, <1>11, <1>12, <2>1, AppendProperties
  <2> QED BY <2>2, LenProperties
<1>14. /\ w \in WorkerType /\ w.run = n /\ w.pc = "wait" /\ w.round = k
       /\ w.request = N + 1 /\ w.state = old.state
  BY <1>5, <1>7, <1>8, <1>10 DEF WorkerType
<1>15. Steps(a, w, n, row)
  BY <1>1, <1>3, <1>4, <1>5, <1>11, <1>13, <1>14 DEF Steps, TypeOK
<1>16. Gentle(runs[n].row, row) /\ Recalls(w, row) /\ Told(w.state)
  BY <1>3, <1>5, <1>14 DEF Gentle, Recalls
<1>17. TypeOK' /\ Claimed' /\ Memory'
  BY <1>5, <1>14, <1>15, <1>16, StepKeeps
<1>18. /\ DOMAIN workers' = DOMAIN workers /\ workers'[a] = w
       /\ \A b \in DOMAIN workers : b # a => workers'[b] = workers[b]
       /\ \A b \in DOMAIN workers : RunOf(b)' = RunOf(b)
  BY <1>1, <1>5, <1>11, <1>14, WorkerSet
<1>19. Ledger'
  <2>1. k = workers[a].round /\ cost <= RowOf(a).rounds[k].cost
    BY <1>2, <1>8, <1>11
  <2>2. requests'[N + 1] = [attempt |-> a, round |-> k, cost |-> cost]
    BY <1>9, <1>13
  <2>3. workers'[a].pc = "wait" /\ workers'[a].round = k /\ workers'[a].request = N + 1
    BY <1>14, <1>18
  <2> QED BY <1>4, <1>5, <1>6, <1>7, <1>13, <1>18, <2>1, <2>2, <2>3, LedgerSent
<1> QED BY <1>17, <1>19 DEF IInv

\* An answer is recorded at its round: the charge becomes what it cost, or
\* stays; if it counts as used, it is the cost.
Settles(k, old, new, q) ==
  /\ new \in Seq(RoundType) /\ DOMAIN new = DOMAIN old /\ Len(new) = Len(old)
  /\ k \in DOMAIN old
  /\ \A j \in DOMAIN old : j # k => new[j] = old[j]
  /\ new[k].attempt = old[k].attempt /\ new[k].cost <= old[k].cost
  /\ q.cost <= new[k].cost /\ (new[k].status \in Used => q.cost = new[k].cost)

\* Whoever it comes for, an answer keeps the ledger.
LEMMA LedgerReceived ==
  ASSUME TypeOK, TypeOK', Claimed, Ledger, AskersStay, requests' = requests,
         NEW n, OneRow(n), NEW q \in DOMAIN requests, NEW k, k = requests[q].round,
         n \in After(requests[q].attempt),
         Settles(k, Rounds(n), Rounds(n)', requests[q])
  PROVE  Ledger'
<1>1. /\ k \in DOMAIN Rounds(n) /\ DOMAIN Rounds(n)' = DOMAIN Rounds(n)
      /\ Len(Rounds(n)') = Len(Rounds(n))
      /\ \A j \in DOMAIN Rounds(n) : j # k => Rounds(n)'[j] = Rounds(n)[j]
      /\ Rounds(n)'[k].attempt = Rounds(n)[k].attempt
      /\ Rounds(n)'[k].cost <= Rounds(n)[k].cost
      /\ requests[q].cost <= Rounds(n)'[k].cost
      /\ Rounds(n)'[k].status \in Used => requests[q].cost = Rounds(n)'[k].cost
  BY DEF Settles
<1>2. \A m \in DOMAIN runs : m # n => Rounds(m)' = Rounds(m)
  BY DEF OneRow
<1>3. \A b \in DOMAIN workers : /\ After(b)' = After(b) /\ After(b) \subseteq DOMAIN runs
                                /\ Filled(RunOf(b)) => Filled(RunOf(b))' /\ RunOf(b) \in After(b)
                                /\ \A j : Reserved(b, j) => Reserved(b, j)'
                                /\ RunOf(b)' = RunOf(b)
  BY ReservedStays DEF OneRow
<1>4. /\ n \in DOMAIN runs /\ DOMAIN workers' = DOMAIN workers
      /\ requests[q].attempt \in DOMAIN workers
  BY DEF OneRow, Ledger, RequestsPaid, Paid
<1>5. DOMAIN runs' = DOMAIN runs
  BY <1>4, ReservedStays
<1>6. \A m \in DOMAIN runs : \A j \in DOMAIN Rounds(m) : j # k => Rounds(m)'[j] = Rounds(m)[j]
  BY <1>1, <1>2
<1>7. InFlight'
  <2>1. ASSUME NEW b \in DOMAIN workers, At(b, "send")' PROVE Unsent(b)'
    <3>1. workers'[b].round = workers[b].round /\ At(b, "send")
      BY <1>4, <2>1 DEF AskersStay, At
    <3>2. Unsent(b) /\ Filled(RunOf(b))
      BY <3>1 DEF Ledger, InFlight, Claimed, At
    <3>3. PICK j : j = workers[b].round /\ j = workers'[b].round /\ j # k
      BY <3>1, <3>2 DEF Unsent
    <3>4. PICK r \in DOMAIN runs : r = RunOf(b) /\ r = RunOf(b)' /\ r \in After(b)
      BY <1>3, <3>2
    <3>5. RowOf(b).rounds = Rounds(r) /\ RowOf(b)'.rounds = Rounds(r)'
      BY <3>4 DEF RowOf, Rounds
    <3>6. \A m \in After(b) : /\ Rounds(m)[j].status \in {"pending", "unknown"}
                              /\ Rounds(m)[j].cost = Rounds(r)[j].cost
                              /\ j \in DOMAIN Rounds(m) /\ Rounds(m)'[j] = Rounds(m)[j]
      BY <1>3, <1>6, <3>2, <3>3, <3>5 DEF Unsent, Reserved
    <3>7. Reserved(b, j)' /\ After(b)' = After(b)
      BY <1>3, <3>2, <3>3 DEF Unsent
    <3>8. \A i \in DOMAIN requests : requests[i].round # j
      BY <3>2, <3>3 DEF Unsent
    <3> QED BY <3>3, <3>4, <3>5, <3>6, <3>7, <3>8 DEF Unsent
  <2>2. ASSUME NEW b \in DOMAIN workers, At(b, "wait")' PROVE Waits(b)'
    BY <1>4, <2>2 DEF AskersStay, At, Ledger, InFlight, Waits
  <2> QED BY <1>4, <2>1, <2>2 DEF InFlight
<1>8. RequestsPaid'
  <2>1. ASSUME NEW r \in DOMAIN requests PROVE Paid(r)'
    <3>1. PICK b \in DOMAIN workers : b = requests[r].attempt /\ Filled(RunOf(b))
      BY DEF Ledger, RequestsPaid, Paid
    <3>2. PICK j : j = requests[r].round
      OBVIOUS
    <3>3. /\ Reserved(b, j)
          /\ \A m \in After(b) :
               /\ requests[r].cost <= Rounds(m)[j].cost
               /\ Rounds(m)[j].status \in Used => requests[r].cost = Rounds(m)[j].cost
      BY <3>1, <3>2 DEF Ledger, RequestsPaid, Paid
    <3>4. \A m \in After(b) :
               /\ requests[r].cost <= Rounds(m)'[j].cost
               /\ Rounds(m)'[j].status \in Used => requests[r].cost = Rounds(m)'[j].cost
      <4>1. CASE j # k
        <5>1. \A m \in After(b) : Rounds(m)'[j] = Rounds(m)[j]
          BY <1>3, <1>6, <3>3, <4>1 DEF Reserved
        <5> QED BY <3>3, <5>1
      <4>2. CASE j = k
        <5>1. r = q
          BY <3>2, <4>2 DEF Ledger, RequestsPaid
        <5> QED BY <1>1, <1>2, <1>3, <3>3, <4>2, <5>1
      <4> QED BY <4>1, <4>2
    <3>5. Reserved(b, j)' /\ After(b)' = After(b) /\ Filled(RunOf(b))'
      BY <1>3, <3>1, <3>3
    <3> QED BY <1>4, <3>1, <3>2, <3>4, <3>5 DEF Paid
  <2> QED BY <2>1 DEF Ledger, RequestsPaid
<1>9. UseAsked'
  <2>1. ASSUME NEW m \in DOMAIN runs, NEW j \in DOMAIN Rounds(m)', Rounds(m)'[j].status \in Used
        PROVE  \E r \in DOMAIN requests :
                 requests[r].attempt = Rounds(m)'[j].attempt /\ requests[r].round = j
    <3>1. j \in DOMAIN Rounds(m)
      BY <1>1, <1>2
    <3>2. CASE m = n /\ j = k
      <4>1. Rounds(n)[k].attempt = requests[q].attempt
        BY DEF Ledger, RequestsPaid, Paid, Reserved
      <4> QED BY <1>1, <3>2, <4>1
    <3>3. CASE ~(m = n /\ j = k)
      <4>1. Rounds(m)'[j] = Rounds(m)[j]
        BY <1>1, <1>2, <3>1, <3>3
      <4> QED BY <2>1, <3>1, <4>1 DEF Ledger, UseAsked
    <3> QED BY <3>2, <3>3
  <2> QED BY <1>5, <2>1 DEF UseAsked
<1>10. Limited'
  <2>1. PICK L \in Nat : L = Len(Rounds(n)) /\ DOMAIN Rounds(n) = 1..L
    BY <1>4, RoundLists
  <2>2. \A j \in 1..L : /\ Rounds(n)[j].cost \in Nat /\ Rounds(n)'[j].cost \in Nat
                        /\ Rounds(n)'[j].cost <= Rounds(n)[j].cost
    <3>1. Rounds(n)' \in Seq(RoundType) /\ Len(Rounds(n)') = L
      BY <1>1, <2>1 DEF Settles
    <3>2. \A j \in 1..L : Rounds(n)[j] \in RoundType /\ Rounds(n)'[j] \in RoundType
      BY <1>4, <2>1, <3>1, RoundLists, ElementOfSeq
    <3>3. \A j \in 1..L : Rounds(n)[j].cost \in Nat /\ Rounds(n)'[j].cost \in Nat
      BY <3>2 DEF RoundType
    <3> QED BY <1>1, <2>1, <3>3
  <2>3. Total(Rounds(n)') <= Total(Rounds(n)) /\ Total(Rounds(n)') \in Nat
                                             /\ Total(Rounds(n)) \in Nat
    <3>1. Priced(Rounds(n)) /\ Priced(Rounds(n)')
      BY <1>1, <1>4, <2>1, <2>2, RoundLists DEF Priced
    <3>2. /\ CostAt(1..L, Rounds(n)) \in Nat /\ CostAt(1..L, Rounds(n)') \in Nat
          /\ CostAt(1..L, Rounds(n)') <= CostAt(1..L, Rounds(n))
      BY <1>1, <2>1, <2>2, <3>1, CostCompares
    <3> QED BY <1>1, <2>1, <3>2 DEF Total
  <2>4. \A m \in DOMAIN runs : Len(Rounds(m)') <= MaxRounds /\ Total(Rounds(m)') <= MaxCost
    BY <1>1, <1>2, <1>4, <2>3, LimitAssumption DEF Ledger, Limited
  <2> QED BY <1>5, <2>4 DEF Limited, Total
<1> QED BY <1>7, <1>8, <1>9, <1>10 DEF Ledger

\* One round is replaced by what is now known of it.
LEMMA RoundSettled ==
  ASSUME NEW rounds \in Seq(RoundType), NEW k \in DOMAIN rounds, NEW q, NEW e \in RoundType,
         e.attempt = rounds[k].attempt, e.cost <= rounds[k].cost, q.cost <= e.cost,
         e.status \in Used => q.cost = e.cost
  PROVE  /\ Settles(k, rounds, [rounds EXCEPT ![k] = e], q)
         /\ [rounds EXCEPT ![k] = e][k] = e
<1> DEFINE new == [rounds EXCEPT ![k] = e]
<1>1. DOMAIN rounds = 1..Len(rounds)
  BY LenProperties
<1>2. new \in Seq(RoundType) /\ Len(new) = Len(rounds)
  BY <1>1, ExceptSeq
<1>3. /\ DOMAIN new = DOMAIN rounds /\ new[k] = e
      /\ \A j \in DOMAIN rounds : j # k => new[j] = rounds[j]
  OBVIOUS
<1> HIDE DEF new
<1>4. Settles(k, rounds, new, q) /\ new[k] = e
  BY <1>2, <1>3 DEF Settles
<1> QED BY <1>4 DEF new

\* What the one who waits for an answer waits for.
LEMMA Awaited ==
  ASSUME IInv, NEW a \in DOMAIN workers, At(a, "wait"), NEW n, n = RunOf(a),
         NEW k, k = workers[a].round, NEW q, q = workers[a].request
  PROVE  /\ q \in DOMAIN requests /\ requests[q] \in RequestType
         /\ requests[q].attempt = a /\ requests[q].round = k
         /\ n \in After(a) /\ k \in DOMAIN Rounds(n) /\ Rounds(n)[k] \in RoundType
         /\ requests[q].cost <= Rounds(n)[k].cost
<1>1. TypeOK /\ Claimed /\ Ledger
  BY DEF IInv
<1>2. Waits(a) /\ Filled(n) /\ n \in DOMAIN runs /\ RunOf(a) \in Int
  BY <1>1, Lists DEF Ledger, InFlight, Claimed, At
<1>3. q \in DOMAIN requests /\ requests[q].attempt = a /\ requests[q].round = k
  BY <1>2 DEF Waits
<1>4. Paid(q)
  BY <1>1, <1>3 DEF Ledger, RequestsPaid
<1>5. n \in After(a)
  BY <1>1, <1>2, AfterIs
<1>6. k \in DOMAIN Rounds(n) /\ requests[q].cost <= Rounds(n)[k].cost
  BY <1>3, <1>4, <1>5 DEF Paid, Reserved
<1>7. Rounds(n)[k] \in RoundType /\ requests[q] \in RequestType
  BY <1>1, <1>2, <1>3, <1>6, Lists, RoundLists
<1> QED BY <1>3, <1>5, <1>6, <1>7

\* An answer is recorded, and taken for the response only if it was expected.
LEMMA ReceiptKeeps ==
  ASSUME IInv, NEW a \in DOMAIN workers, At(a, "wait"), NEW n, n = RunOf(a),
         NEW row, row = runs[n].row, NEW k, k = workers[a].round,
         NEW q, q = workers[a].request,
         NEW s \in StateType, Written(a, s), GoesOn(a), UNCHANGED <<owner, requests>>,
         s.messages = row.messages, s.calls = row.calls, s.pending = row.pending,
         Settles(k, row.rounds, s.rounds, requests[q]), s.rounds[k].status # "pending",
         s.response = row.response \/ row.rounds[k].status = "pending"
  PROVE  IInv'
<1>1. workers[a].pc = "wait"
  BY DEF At
<1>2. /\ TypeOK /\ n \in DOMAIN runs /\ Filled(n) /\ row \in StateType /\ Sound(row)
      /\ Rounds(n) = row.rounds /\ workers[a] \in WorkerType /\ Told(workers[a].state)
  BY <1>1, AtWork
<1>3. Claimed /\ Ledger
  BY DEF IInv
<1>4. /\ DOMAIN s.rounds = DOMAIN row.rounds /\ Len(s.rounds) = Len(row.rounds)
      /\ \A j \in DOMAIN row.rounds : j # k => s.rounds[j] = row.rounds[j]
      /\ \A j \in DOMAIN row.rounds : s.rounds[j].attempt = row.rounds[j].attempt
  BY DEF Settles
<1>5. Quiet(row) => Quiet(s)
  BY <1>4 DEF Quiet
<1>6. Gentle(runs[n].row, s)
  BY <1>5 DEF Gentle
<1>7. Sound(s)
  <2>1. \A j \in DOMAIN s.rounds : s.rounds[j].status = "pending" => j = Len(s.rounds)
    BY <1>2, <1>4 DEF Sound
  <2>2. CASE row.rounds[k].status = "pending"
    <3>1. k = Len(row.rounds)
      BY <1>2, <2>2 DEF Sound, Settles
    <3>2. Quiet(s)
      BY <1>4, <2>1, <3>1 DEF Quiet
    <3>3. Told(s)
      BY <1>2 DEF Sound, Told
    <3> QED BY <2>1, <3>2, <3>3 DEF Sound
  <2>3. CASE s.response = row.response
    <3>1. s.response # NoResponse \/ s.pending # <<>> => Quiet(s)
      BY <1>2, <1>5, <2>3 DEF Sound
    <3>2. Told(s)
      BY <1>2 DEF Sound, Told
    <3> QED BY <2>1, <3>1, <3>2 DEF Sound
  <2> QED BY <2>2, <2>3
<1>8. PICK w \in WorkerType :
        /\ w.run = n /\ w.pc \in {"load", "ended"} /\ Told(w.state)
        /\ workers' = [workers EXCEPT ![a] = w]
        /\ owner = a \/ w.pc = "ended"
  <2>1. CASE Owns(a)
    <3>1. Goes(a, "load") /\ owner = a
      BY <2>1 DEF GoesOn, Owns
    <3>2. PICK w \in WorkerType : /\ w.run = n /\ w.pc = "load" /\ w.state = workers[a].state
                                  /\ workers' = [workers EXCEPT ![a] = w]
      BY <1>2, <3>1, MovesOn
    <3> QED BY <1>2, <3>1, <3>2
  <2>2. CASE ~Owns(a)
    <3>1. workers' = [workers EXCEPT ![a] = Ended(a)]
      BY <2>2 DEF GoesOn
    <3>2. /\ Ended(a) \in WorkerType /\ Ended(a).run = n /\ Ended(a).pc = "ended"
          /\ Told(Ended(a).state)
      BY <1>2, EndedWorker, NothingTold
    <3> QED BY <3>1, <3>2
  <2> QED BY <2>1, <2>2
<1>9. Recalls(w, s)
  BY <1>8 DEF Recalls
<1>10. Steps(a, w, n, s)
  BY <1>2, <1>8, WriteSteps DEF TypeOK
<1>11. TypeOK' /\ Claimed' /\ Memory'
  BY <1>6, <1>7, <1>8, <1>9, <1>10, StepKeeps
<1>12. /\ Len(runs') = Len(runs) /\ Filled(n)' /\ Rounds(n)' = s.rounds
       /\ \A m \in DOMAIN runs : m # n => (Filled(m)' <=> Filled(m)) /\ Rounds(m)' = Rounds(m)
  BY <1>2, RowWritten
<1>13. /\ DOMAIN workers' = DOMAIN workers /\ workers'[a] = w
       /\ \A b \in DOMAIN workers : b # a => workers'[b] = workers[b]
       /\ \A b \in DOMAIN workers : RunOf(b)' = RunOf(b)
  BY <1>2, <1>8, WorkerSet
<1>14. OneRow(n)
  BY <1>2, <1>4, <1>12, <1>13 DEF OneRow
<1>15. AskersStay
  BY <1>8, <1>13 DEF AskersStay
<1>16. Ledger'
  <2>1. q \in DOMAIN requests /\ k = requests[q].round /\ n \in After(requests[q].attempt)
    BY Awaited
  <2>2. Settles(k, Rounds(n), Rounds(n)', requests[q])
    BY <1>2, <1>12
  <2>3. TypeOK /\ TypeOK' /\ requests' = requests
    BY <1>2, <1>11
  <2> QED BY <1>3, <1>14, <1>15, <2>1, <2>2, <2>3, LedgerReceived
<1> QED BY <1>11, <1>16 DEF IInv

\* What an answer makes of the row: its round has a status and a charge, and
\* nothing else changes but the response and the error.
Answers(row, s, k, e, response, error) ==
  s = [row EXCEPT !.rounds = [@ EXCEPT ![k] = e], !.response = response, !.error = error]

\* Such a receipt keeps the invariant.
LEMMA AnswerKeeps ==
  ASSUME IInv, NEW a \in DOMAIN workers, At(a, "wait"), NEW n, n = RunOf(a),
         NEW row, row = runs[n].row, NEW k, k = workers[a].round,
         NEW q, q = workers[a].request, NEW e \in RoundType,
         NEW response \in ResponseType, NEW error \in BOOLEAN,
         NEW s, Answers(row, s, k, e, response, error),
         Written(a, s), GoesOn(a), UNCHANGED <<owner, requests>>,
         e.attempt = row.rounds[k].attempt, e.status # "pending",
         e.cost <= row.rounds[k].cost, requests[q].cost <= e.cost,
         e.status \in Used => requests[q].cost = e.cost,
         response = row.response \/ row.rounds[k].status = "pending"
  PROVE  IInv'
<1>1. workers[a].pc = "wait"
  BY DEF At
<1>2. row \in StateType /\ Rounds(n) = row.rounds
  BY <1>1, AtWork
<1>3. k \in DOMAIN row.rounds /\ row.rounds \in Seq(RoundType)
  BY <1>2, Awaited, Fields
<1>4. PICK new : new = [row.rounds EXCEPT ![k] = e]
  OBVIOUS
<1>5. Settles(k, row.rounds, new, requests[q]) /\ new[k] = e
  BY <1>3, <1>4, RoundSettled
<1>6. /\ s \in StateType /\ s.messages = row.messages /\ s.calls = row.calls
      /\ s.pending = row.pending /\ s.rounds = new /\ s.response = response
  <2>1. new \in Seq(RoundType)
    BY <1>5 DEF Settles
  <2>2. s = [row EXCEPT !.rounds = new, !.response = response, !.error = error]
    BY <1>4 DEF Answers
  <2> QED BY <1>2, <2>1, <2>2 DEF StateType
<1> QED BY <1>5, <1>6, ReceiptKeeps

\* Usage that cannot be true is charged at the reservation, and an error.
LEMMA ReceiveInvalidKeeps ==
  ASSUME IInv, NEW a \in DOMAIN workers, ReceiveInvalid(a)
  PROVE  IInv'
<1>1. PICK n : n = RunOf(a)
  OBVIOUS
<1>2. PICK row : row = runs[n].row /\ row = RowOf(a)
  BY <1>1 DEF RowOf
<1>3. PICK k : k = workers[a].round
  OBVIOUS
<1>4. PICK q : q = workers[a].request
  OBVIOUS
<1>5. /\ At(a, "wait") /\ GoesOn(a) /\ UNCHANGED <<owner, requests>>
      /\ Written(a, [row EXCEPT !.rounds[k].status = "invalid", !.error = TRUE])
  BY <1>2, <1>3 DEF ReceiveInvalid
<1>6. row \in StateType /\ Rounds(n) = row.rounds
  BY <1>1, <1>2, <1>5, AtWork DEF At
<1>7. row.rounds[k] \in RoundType /\ requests[q].cost <= row.rounds[k].cost
  BY <1>1, <1>3, <1>4, <1>5, <1>6, Awaited
<1>8. PICK e : e = [row.rounds[k] EXCEPT !.status = "invalid"]
  OBVIOUS
<1>9. /\ e \in RoundType /\ e.attempt = row.rounds[k].attempt /\ e.status = "invalid"
      /\ e.cost = row.rounds[k].cost
  BY <1>7, <1>8 DEF RoundType, RoundStatus
<1>10. PICK s : s = [row EXCEPT !.rounds[k].status = "invalid", !.error = TRUE]
  OBVIOUS
<1>11. Answers(row, s, k, e, row.response, TRUE)
  BY <1>6, <1>8, <1>10 DEF Answers, StateType
<1>12. row.response \in ResponseType /\ row.rounds[k].cost \in Int
  BY <1>6, <1>7 DEF StateType, RoundType
<1>13. Written(a, s)
  BY <1>5, <1>10
<1>14. /\ e.status # "pending" /\ e.status \notin Used /\ e.cost <= row.rounds[k].cost
       /\ requests[q].cost <= e.cost
  BY <1>7, <1>9, <1>12 DEF Used
<1> QED BY <1>1, <1>2, <1>3, <1>4, <1>5, <1>9, <1>11, <1>12, <1>13, <1>14, AnswerKeeps

\* A round that was received is charged with what it cost.
Records(a, s, status, response, error) ==
  s = [Receipt(a, status) EXCEPT !.response = response, !.error = error]

\* It keeps the invariant, whoever receives it.
LEMMA Received ==
  ASSUME IInv, NEW a \in DOMAIN workers, At(a, "wait"), NEW n, n = RunOf(a),
         NEW row, row = runs[n].row, NEW k, k = workers[a].round,
         NEW q, q = workers[a].request, NEW status \in Used,
         NEW response \in ResponseType, NEW error \in BOOLEAN,
         NEW s, Records(a, s, status, response, error),
         Written(a, s), GoesOn(a), UNCHANGED <<owner, requests>>,
         response = row.response \/ row.rounds[k].status = "pending"
  PROVE  IInv'
<1>1. row \in StateType /\ Rounds(n) = row.rounds /\ RowOf(a) = row
  BY AtWork DEF At
<1>2. /\ row.rounds[k] \in RoundType /\ requests[q].cost <= row.rounds[k].cost
      /\ requests[q].cost \in Nat
  BY <1>1, Awaited DEF RequestType
<1>3. PICK e : e = [row.rounds[k] EXCEPT !.status = status, !.cost = requests[q].cost]
  OBVIOUS
<1>4. /\ e \in RoundType /\ e.attempt = row.rounds[k].attempt /\ e.status = status
      /\ e.cost = requests[q].cost /\ e.cost \in Int
  <2>1. PICK cost \in Nat : cost = requests[q].cost
    BY <1>2
  <2>2. PICK old \in RoundType : old = row.rounds[k]
    BY <1>2
  <2>3. e = [old EXCEPT !.status = status, !.cost = cost]
    BY <1>3, <2>1, <2>2
  <2>4. status \in RoundStatus
    BY DEF RoundStatus, Used
  <2>5. e \in RoundType /\ e.attempt = old.attempt /\ e.status = status /\ e.cost = cost
    BY <2>3, <2>4 DEF RoundType
  <2> QED BY <2>1, <2>2, <2>5
<1>5. PICK t : t = Receipt(a, status)
  OBVIOUS
<1>6. t = [row EXCEPT !.rounds = [@ EXCEPT ![k] = e]]
  BY <1>1, <1>3, <1>5 DEF Receipt
<1>7. s = [t EXCEPT !.response = response, !.error = error]
  BY <1>5 DEF Records
<1>8. Answers(row, s, k, e, response, error)
  BY <1>1, <1>6, <1>7 DEF Answers, StateType
<1>9. /\ e.status # "pending" /\ e.cost <= row.rounds[k].cost
      /\ requests[q].cost <= e.cost /\ (e.status \in Used => requests[q].cost = e.cost)
  BY <1>2, <1>4 DEF Used
<1> QED BY <1>4, <1>8, <1>9, AnswerKeeps

\* A late answer changes nothing else.
LEMMA ReceiveLateKeeps ==
  ASSUME IInv, NEW a \in DOMAIN workers, ReceiveLate(a)
  PROVE  IInv'
<1>1. PICK n : n = RunOf(a)
  OBVIOUS
<1>2. PICK row : row = runs[n].row
  OBVIOUS
<1>3. /\ At(a, "wait") /\ GoesOn(a) /\ UNCHANGED <<owner, requests>>
      /\ Written(a, Receipt(a, "late_received"))
  BY DEF ReceiveLate
<1>4. row \in StateType /\ RowOf(a) = row
  BY <1>1, <1>2, <1>3, AtWork DEF At
<1>5. PICK s : s = Receipt(a, "late_received")
  OBVIOUS
<1>6. Records(a, s, "late_received", row.response, row.error)
  <2>1. PICK rounds : Receipt(a, "late_received") = [row EXCEPT !.rounds = rounds]
    <3>1. PICK rounds : rounds = [row.rounds EXCEPT ![workers[a].round] =
                                    [@ EXCEPT !.status = "late_received",
                                              !.cost = requests[workers[a].request].cost]]
      OBVIOUS
    <3>2. Receipt(a, "late_received") = [row EXCEPT !.rounds = rounds]
      BY <1>4, <3>1 DEF Receipt
    <3> QED BY <3>2
  <2> QED BY <1>4, <1>5, <2>1 DEF Records, StateType
<1>7. row.response \in ResponseType /\ row.error \in BOOLEAN /\ "late_received" \in Used
  BY <1>4 DEF StateType, Used
<1>8. Written(a, s)
  BY <1>3, <1>5
<1> QED BY <1>1, <1>2, <1>3, <1>6, <1>7, <1>8, Received

\* One that was expected becomes the response.
LEMMA ReceiveKeeps ==
  ASSUME IInv, NEW a \in DOMAIN workers, NEW response \in Responses, Receive(a, response)
  PROVE  IInv'
<1>1. PICK n : n = RunOf(a)
  OBVIOUS
<1>2. PICK row : row = runs[n].row
  OBVIOUS
<1>3. /\ At(a, "wait") /\ Expected(a) /\ GoesOn(a) /\ UNCHANGED <<owner, requests>>
      /\ Written(a, [Receipt(a, "received") EXCEPT !.response = response])
  BY DEF Receive
<1>4. row \in StateType /\ RowOf(a) = row
  BY <1>1, <1>2, <1>3, AtWork DEF At
<1>5. row.rounds[workers[a].round].status = "pending"
  BY <1>3, <1>4 DEF Expected
<1>6. PICK s : s = [Receipt(a, "received") EXCEPT !.response = response]
  OBVIOUS
<1>7. Records(a, s, "received", response, row.error)
  <2>1. PICK rounds : Receipt(a, "received") = [row EXCEPT !.rounds = rounds]
    <3>1. PICK rounds : rounds = [row.rounds EXCEPT ![workers[a].round] =
                                    [@ EXCEPT !.status = "received",
                                              !.cost = requests[workers[a].request].cost]]
      OBVIOUS
    <3>2. Receipt(a, "received") = [row EXCEPT !.rounds = rounds]
      BY <1>4, <3>1 DEF Receipt
    <3> QED BY <3>2
  <2>2. PICK t : t = [row EXCEPT !.rounds = rounds, !.response = response]
    OBVIOUS
  <2>3. t = [t EXCEPT !.error = row.error] /\ s = t
    BY <1>4, <1>6, <2>1, <2>2 DEF StateType
  <2>4. [t EXCEPT !.error = row.error]
          = [row EXCEPT !.rounds = rounds, !.response = response, !.error = row.error]
    BY <2>2
  <2> QED BY <2>1, <2>3, <2>4 DEF Records
<1>8. response \in ResponseType /\ row.error \in BOOLEAN /\ "received" \in Used
  BY <1>4 DEF StateType, Used, ResponseType
<1>9. Written(a, s)
  BY <1>3, <1>6
<1> QED BY <1>1, <1>2, <1>3, <1>5, <1>7, <1>8, <1>9, Received

\* One that cannot be read is an error.
LEMMA ReceiveMalformedKeeps ==
  ASSUME IInv, NEW a \in DOMAIN workers, ReceiveMalformed(a)
  PROVE  IInv'
<1>1. PICK n : n = RunOf(a)
  OBVIOUS
<1>2. PICK row : row = runs[n].row
  OBVIOUS
<1>3. /\ At(a, "wait") /\ Expected(a) /\ GoesOn(a) /\ UNCHANGED <<owner, requests>>
      /\ Written(a, [Receipt(a, "received") EXCEPT !.error = TRUE])
  BY DEF ReceiveMalformed
<1>4. row \in StateType /\ RowOf(a) = row
  BY <1>1, <1>2, <1>3, AtWork DEF At
<1>5. row.rounds[workers[a].round].status = "pending"
  BY <1>3, <1>4 DEF Expected
<1>6. PICK s : s = [Receipt(a, "received") EXCEPT !.error = TRUE]
  OBVIOUS
<1>7. Records(a, s, "received", row.response, TRUE)
  <2>1. PICK rounds : Receipt(a, "received") = [row EXCEPT !.rounds = rounds]
    <3>1. PICK rounds : rounds = [row.rounds EXCEPT ![workers[a].round] =
                                    [@ EXCEPT !.status = "received",
                                              !.cost = requests[workers[a].request].cost]]
      OBVIOUS
    <3>2. Receipt(a, "received") = [row EXCEPT !.rounds = rounds]
      BY <1>4, <3>1 DEF Receipt
    <3> QED BY <3>2
  <2> QED BY <1>4, <1>6, <2>1 DEF Records, StateType
<1>8. row.response \in ResponseType /\ TRUE \in BOOLEAN /\ "received" \in Used
  BY <1>4 DEF StateType, Used
<1>9. Written(a, s)
  BY <1>3, <1>6
<1> QED BY <1>1, <1>2, <1>3, <1>5, <1>7, <1>8, <1>9, Received

-----------------------------------------------------------------------------
(* The invariant holds. *)

\* No step breaks the invariant.
LEMMA Kept ==
  IInv /\ [Next]_vars => IInv'
<1> SUFFICES ASSUME IInv, [Next]_vars PROVE IInv'
  OBVIOUS
<1>1. CASE UNCHANGED vars
  <2>1. /\ runs' = runs /\ owner' = owner /\ workers' = workers /\ requests' = requests
    BY <1>1 DEF vars
  <2>2. TypeOK' /\ Claimed'
    BY <2>1 DEF IInv, TypeOK, Claimed, RunOf, Now, Filled
  <2>3. Ledger'
    BY <2>1 DEF IInv, Ledger, InFlight, Unsent, Waits, Reserved, After, RequestsPaid, Paid,
      UseAsked, Limited, RowOf, RunOf, Rounds, Filled, Now, At
  <2>4. Memory'
    BY <2>1 DEF IInv, Memory, OneExpected, AllTold, AllRemember, Remembers, Recalls, Quiet,
      RowOf, RunOf, Rounds
  <2> QED BY <2>2, <2>3, <2>4 DEF IInv
<1>2. CASE Dispatch
  BY <1>2, DispatchKeeps
<1>3. CASE LoseClaim
  BY <1>3, LoseClaimKeeps
<1>4. CASE EndRun
  BY <1>4, EndRunKeeps
<1>5. ASSUME NEW reused \in BOOLEAN, Recover(reused) PROVE IInv'
  BY <1>5, RecoverKeeps
<1>6. ASSUME NEW a \in DOMAIN workers,
             \/ Stop(a) \/ Load(a) \/ Finish(a) \/ UseTool(a) \/ Conclude(a)
             \/ Repair(a) \/ Save(a) \/ Batch(a) \/ ReserveNothing(a)
             \/ \E reservation \in Reservations : Reserve(a, reservation)
             \/ \E cost \in Costs : Send(a, cost)
             \/ ReceiveInvalid(a) \/ ReceiveLate(a) \/ ReceiveMalformed(a)
             \/ \E response \in Responses : Receive(a, response)
      PROVE  IInv'
  BY <1>6, StopKeeps, LoadKeeps, FinishKeeps, UseToolKeeps, ConcludeKeeps, RepairKeeps,
     SaveKeeps, BatchKeeps, ReserveNothingKeeps, ReserveKeeps, SendKeeps,
     ReceiveInvalidKeeps, ReceiveLateKeeps, ReceiveMalformedKeeps, ReceiveKeeps
<1> QED BY <1>1, <1>2, <1>3, <1>4, <1>5, <1>6 DEF Next

\* Holds whatever the numbers of attempts, runs, rounds and calls.
THEOREM Invariance ==
  Spec => []IInv
<1>1. Init => IInv
  BY Starts
<1>2. IInv /\ [Next]_vars => IInv'
  BY Kept
<1> QED BY <1>1, <1>2, PTL DEF Spec

-----------------------------------------------------------------------------
(* What is asked for is paid for. *)

\* As many positions as fit, one to itself each.
LEMMA FitsInto ==
  ASSUME NEW M \in Nat, NEW S, NEW T \in SUBSET (1..M), NEW m \in [S -> T],
         \A i, j \in S : m[i] = m[j] => i = j
  PROVE  /\ IsFiniteSet(S) /\ IsFiniteSet(T) /\ Cardinality(S) \in Nat
         /\ Cardinality(T) \in Nat /\ Cardinality(S) <= Cardinality(T)
<1>1. IsFiniteSet(1..M)
  <2>1. 1 \in Int /\ M \in Int
    OBVIOUS
  <2> QED BY <2>1, FS_Interval
<1>2. IsFiniteSet(T)
  BY <1>1, FS_Subset
<1>3. m \in Injection(S, T)
  BY DEF Injection, IsInjective
<1>4. IsFiniteSet(S) /\ Cardinality(S) <= Cardinality(T)
  BY <1>2, <1>3, FS_Injection
<1> QED BY <1>2, <1>4, FS_CardinalityType

\* The requests fit into the rounds of the last row there is.
LEMMA AllPaid ==
  ASSUME IInv
  PROVE  Len(requests) <= MaxRounds /\ Total(requests) <= MaxCost
<1>1. TypeOK /\ Ledger
  BY DEF IInv
<1>2. PICK N \in Nat : N = Len(requests) /\ DOMAIN requests = 1..N /\ Priced(requests)
  <2>1. Len(requests) \in Nat /\ DOMAIN requests = 1..Len(requests) /\ Priced(requests)
    BY <1>1, Lists
  <2> QED BY <2>1
<1>3. MaxRounds \in Nat /\ MaxCost \in Nat
  BY LimitAssumption
<1>4. CASE N = 0
  <2>1. 1..N = {}
    BY <1>4
  <2>2. Total(requests) = 0
    BY <1>2, <2>1, NothingCosts DEF Total
  <2> QED BY <1>2, <1>3, <1>4, <2>2
<1>5. CASE N # 0
  <2> DEFINE There == {n \in 1..Now : Filled(n)}
  <2>1. \A r \in 1..N : /\ Paid(r) /\ requests[r].attempt \in DOMAIN workers
                        /\ RunOf(requests[r].attempt) \in There
    BY <1>1, <1>2, Lists DEF Ledger, RequestsPaid, Paid
  <2>2. Now \in Nat /\ DOMAIN runs = 1..Now
    BY <1>1, Lists
  <2>3. PICK n \in There : \A j \in There : j <= n
    <3>1. 1 \in 1..N
      BY <1>5
    <3>2. There # {} /\ There \in SUBSET (1..Now)
      BY <2>1, <3>1
    <3> HIDE DEF There
    <3> QED BY <2>2, <3>2, LastExists
  <2>4. n \in DOMAIN runs /\ Filled(n)
    BY <2>2
  <2>5. ASSUME NEW r \in 1..N
        PROVE  /\ requests[r].round \in DOMAIN Rounds(n)
               /\ requests[r].cost <= Rounds(n)[requests[r].round].cost
    <3>1. n \in After(requests[r].attempt)
      BY <1>1, <2>1, <2>3, <2>4, AfterIs
    <3> QED BY <2>1, <3>1 DEF Paid, Reserved
  <2>6. PICK M \in Nat : M = Len(Rounds(n)) /\ DOMAIN Rounds(n) = 1..M /\ Priced(Rounds(n))
    <3>1. /\ Len(Rounds(n)) \in Nat /\ DOMAIN Rounds(n) = 1..Len(Rounds(n))
          /\ Priced(Rounds(n))
      BY <1>1, <2>4, RoundLists
    <3> QED BY <3>1
  <2>7. PICK m : m = [r \in 1..N |-> requests[r].round]
    OBVIOUS
  <2>8. /\ m \in [1..N -> 1..M] /\ \A i, j \in 1..N : m[i] = m[j] => i = j
        /\ \A r \in 1..N : requests[r].cost <= Rounds(n)[m[r]].cost
    <3>1. \A i, j \in 1..N : requests[i].round = requests[j].round => i = j
      BY <1>1, <1>2 DEF Ledger, RequestsPaid
    <3> QED BY <2>5, <2>6, <2>7, <3>1
  <2>9. N <= M
    <3>1. 1..M \in SUBSET (1..M) /\ 1 \in Int /\ N \in Int /\ M \in Int
      OBVIOUS
    <3>2. Cardinality(1..N) <= Cardinality(1..M)
      BY <2>8, <3>1, FitsInto
    <3>3. /\ Cardinality(1..N) = IF 1 > N THEN 0 ELSE N - 1 + 1
          /\ Cardinality(1..M) = IF 1 > M THEN 0 ELSE M - 1 + 1
      BY <3>1, FS_Interval
    <3> QED BY <3>2, <3>3
  <2>10. Total(requests) \in Nat /\ Total(Rounds(n)) \in Nat /\ Total(requests) <= Total(Rounds(n))
    <3>1. 1..N \in SUBSET (1..Len(requests)) /\ 1..M \in SUBSET (1..Len(Rounds(n)))
      BY <1>2, <2>6
    <3>2. /\ CostAt(1..N, requests) \in Nat /\ CostAt(1..M, Rounds(n)) \in Nat
          /\ CostAt(1..N, requests) <= CostAt(1..M, Rounds(n))
      BY <1>2, <2>6, <2>8, <3>1, CostInjection
    <3> QED BY <1>2, <2>6, <3>2 DEF Total
  <2>11. M <= MaxRounds /\ Total(Rounds(n)) <= MaxCost
    BY <1>1, <2>4, <2>6 DEF Ledger, Limited
  <2> QED BY <1>2, <1>3, <2>9, <2>10, <2>11
<1> QED BY <1>4, <1>5

\* What an attempt is reported to have used is between what it did use and
\* what was reserved for it.
LEMMA AttemptReported ==
  ASSUME IInv, NEW a \in DOMAIN workers,
         NEW made, made = {r \in DOMAIN requests : requests[r].attempt = a}
  PROVE  /\ Cardinality(made) <= Metadata(a).requests
         /\ CostAt(made, requests)
              \in Metadata(a).cost .. (Metadata(a).cost + Metadata(a).unconfirmed)
<1>1. TypeOK /\ Ledger
  BY DEF IInv
<1>2. PICK n \in DOMAIN runs : n = RunOf(a)
  BY <1>1, Lists
<1>3. PICK rounds : rounds = Rounds(n) /\ rounds = RowOf(a).rounds
  BY <1>2 DEF RowOf, Rounds
<1>4. PICK M \in Nat : M = Len(rounds) /\ DOMAIN rounds = 1..M /\ Priced(rounds)
  <2>1. Len(rounds) \in Nat /\ DOMAIN rounds = 1..Len(rounds) /\ Priced(rounds)
    BY <1>1, <1>2, <1>3, RoundLists
  <2> QED BY <2>1
<1>5. PICK N \in Nat : N = Len(requests) /\ DOMAIN requests = 1..N /\ Priced(requests)
  <2>1. Len(requests) \in Nat /\ DOMAIN requests = 1..Len(requests) /\ Priced(requests)
    BY <1>1, Lists
  <2> QED BY <2>1
<1>6. PICK own : own = {k \in DOMAIN rounds : rounds[k].attempt = a}
  OBVIOUS
<1>7. PICK used : used = {k \in own : rounds[k].status \in {"received", "late_received"}}
  OBVIOUS
<1>8. made \in SUBSET (1..N) /\ own \in SUBSET (1..M) /\ used \in SUBSET (1..M)
  BY <1>4, <1>5, <1>6, <1>7
<1>9. ASSUME NEW r \in made
      PROVE  /\ requests[r].round \in own
             /\ requests[r].cost <= rounds[requests[r].round].cost
             /\ requests[r].round \in used => requests[r].cost = rounds[requests[r].round].cost
  <2>1. r \in DOMAIN requests /\ requests[r].attempt = a
    OBVIOUS
  <2>2. Paid(r)
    BY <1>1, <2>1 DEF Ledger, RequestsPaid
  <2>3. n \in After(a)
    <3>1. Filled(n) /\ n \in Int
      BY <1>1, <1>2, <2>1, <2>2, Lists DEF Paid
    <3> QED BY <1>1, <1>2, <3>1, AfterIs
  <2> QED BY <1>3, <1>6, <1>7, <2>1, <2>2, <2>3 DEF Paid, Reserved, Used
<1>10. \A i, j \in made : requests[i].round = requests[j].round => i = j
  BY <1>1 DEF Ledger, RequestsPaid
<1>11. PICK m : m = [r \in made |-> requests[r].round]
  OBVIOUS
<1>12. /\ m \in [made -> own] /\ \A i, j \in made : m[i] = m[j] => i = j
       /\ \A r \in made : requests[r].cost <= rounds[m[r]].cost
  BY <1>9, <1>10, <1>11
<1>13. Cardinality(made) <= Cardinality(own)
  BY <1>8, <1>12, FitsInto
<1>14. /\ CostAt(made, requests) \in Nat /\ CostAt(own, rounds) \in Nat
       /\ CostAt(made, requests) <= CostAt(own, rounds)
  <2>1. Priced(requests) /\ made \in SUBSET (1..Len(requests))
    BY <1>5, <1>8
  <2>2. Priced(rounds) /\ own \in SUBSET (1..Len(rounds))
    BY <1>4, <1>8
  <2> QED BY <1>12, <2>1, <2>2, CostInjection
<1>15. \A k \in used : \E r \in made : requests[r].round = k
  <2>1. \A k \in used : k \in DOMAIN Rounds(n) /\ Rounds(n)[k].attempt = a
                        /\ Rounds(n)[k].status \in Used
    BY <1>3, <1>6, <1>7 DEF Used
  <2> QED BY <1>1, <2>1 DEF Ledger, UseAsked
<1>16. PICK h : h = [k \in used |-> CHOOSE r \in made : requests[r].round = k]
  OBVIOUS
<1>17. /\ \A k \in used : h[k] \in made /\ requests[h[k]].round = k
       /\ h \in [used -> made]
  BY <1>15, <1>16
<1>18. /\ \A i, j \in used : h[i] = h[j] => i = j
       /\ \A k \in used : rounds[k].cost <= requests[h[k]].cost
  <2>1. \A k \in used : rounds[k].cost = requests[h[k]].cost /\ rounds[k].cost \in Int
    BY <1>4, <1>8, <1>9, <1>17 DEF Priced
  <2> QED BY <1>17, <2>1
<1>19. CostAt(used, rounds) \in Nat /\ CostAt(used, rounds) <= CostAt(made, requests)
  BY <1>4, <1>5, <1>8, <1>17, <1>18, CostInjection
<1>20. /\ Metadata(a).requests = Cardinality(own)
       /\ Metadata(a).cost = CostAt(used, rounds)
       /\ Metadata(a).unconfirmed = CostAt(own, rounds) - CostAt(used, rounds)
  BY <1>3, <1>6, <1>7 DEF Metadata
<1> QED BY <1>13, <1>14, <1>19, <1>20

-----------------------------------------------------------------------------
(* What was answered is acted on. *)

\* An answer is kept until it was acted on.
Follows(old, new) ==
  old.response # NoResponse /\ new.response # old.response =>
    new.output \/ Len(new.messages) > Len(old.messages)

\* Whoever is about to ask has the results of all calls.
LEMMA AskersAnswered ==
  ASSUME IInv, NEW a \in DOMAIN workers, At(a, "send")
  PROVE  AllAnswered(workers[a].state)
<1>1. PICK n : n = RunOf(a)
  OBVIOUS
<1>2. PICK state : state = workers[a].state
  OBVIOUS
<1>3. workers[a].pc = "send"
  BY DEF At
<1>4. /\ Told(state) /\ state \in StateType /\ Recalls(workers[a], runs[n].row)
  BY <1>1, <1>2, <1>3, AtWork
<1>5. state.pending = <<>>
  BY <1>2, <1>3, <1>4 DEF Recalls
<1>6. Len(state.pending) = 0 /\ state.calls \in Nat
  BY <1>4, <1>5, Fields, EmptySeq
<1>7. state.calls - Len(state.pending) = state.calls
  BY <1>6
<1>8. InOrder(state.messages, "call", state.calls) /\ InOrder(state.messages, "answer", state.calls)
  BY <1>4, <1>7 DEF Told
<1> QED BY <1>2, <1>8 DEF AllAnswered

\* A transaction writes only the row of the worker's own run.
LEMMA WrittenFollows ==
  ASSUME TypeOK, NEW a \in DOMAIN workers, NEW s, Written(a, s), Follows(RowOf(a), s)
  PROVE  \A n \in DOMAIN runs : Follows(runs[n].row, runs'[n].row)
<1>1. PICK n \in DOMAIN runs : n = RunOf(a) /\ RowOf(a) = runs[n].row
  BY Lists DEF RowOf
<1>2. runs' = [runs EXCEPT ![n].row = s] /\ runs[n] \in RunType
  BY <1>1, Lists DEF Written
<1>3. runs'[n].row = s /\ \A m \in DOMAIN runs : m # n => runs'[m] = runs[m]
  BY <1>1, <1>2 DEF RunType
<1>4. \A m \in DOMAIN runs : m # n => Follows(runs[m].row, runs'[m].row)
  BY <1>3 DEF Follows
<1> QED BY <1>1, <1>3, <1>4

\* What is saved has the output or more messages.
LEMMA SaveFollows ==
  ASSUME IInv, NEW a \in DOMAIN workers, Save(a)
  PROVE  \A n \in DOMAIN runs : Follows(runs[n].row, runs'[n].row)
<1>1. PICK n : n = RunOf(a)
  OBVIOUS
<1>2. PICK old : old = workers[a]
  OBVIOUS
<1>3. PICK row : row = runs[n].row
  OBVIOUS
<1>4. old.pc = "save"
  BY <1>2 DEF Save, At
<1>5. TypeOK /\ RowOf(a) = row /\ old.state \in StateType /\ Recalls(old, row)
  BY <1>1, <1>2, <1>3, <1>4, AtWork
<1>6. old.state.output \/ Len(old.state.messages) > Len(row.messages)
  BY <1>4, <1>5 DEF Recalls
<1>7. PICK s : s = [old.state EXCEPT !.rounds = row.rounds]
  OBVIOUS
<1>8. s.output = old.state.output /\ s.messages = old.state.messages
  BY <1>5, <1>7 DEF StateType
<1>9. Written(a, s)
  BY <1>2, <1>5, <1>7 DEF Save
<1>10. Follows(RowOf(a), s)
  BY <1>5, <1>6, <1>8 DEF Follows
<1> QED BY <1>5, <1>9, <1>10, WrittenFollows

\* A batch adds its calls to the messages.
LEMMA BatchFollows ==
  ASSUME IInv, NEW a \in DOMAIN workers, Batch(a)
  PROVE  \A n \in DOMAIN runs : Follows(runs[n].row, runs'[n].row)
<1>1. PICK n : n = RunOf(a)
  OBVIOUS
<1>2. PICK row : row = runs[n].row
  OBVIOUS
<1>3. workers[a].pc = "reply" /\ workers[a].state.response.kind = "calls"
  BY DEF Batch, At
<1>4. TypeOK /\ RowOf(a) = row /\ row \in StateType /\ workers[a].state \in StateType
  BY <1>1, <1>2, <1>3, AtWork
<1>5. PICK count \in Nat \ {0} : count = workers[a].state.response.calls
  BY <1>3, <1>4, LimitAssumption DEF StateType, ResponseType, Responses, NoResponse
<1>6. PICK added : added = [i \in 1..count |-> row.calls + i]
  OBVIOUS
<1>7. PICK more : more = [i \in 1..count |-> [kind |-> "call", call |-> added[i]]]
  OBVIOUS
<1>8. PICK s : s = [row EXCEPT !.pending = added, !.calls = @ + count,
                               !.response = NoResponse, !.messages = @ \o more]
  OBVIOUS
<1>9. Written(a, s)
  BY <1>4, <1>5, <1>6, <1>7, <1>8 DEF Batch
<1>10. s.messages = row.messages \o more
  BY <1>4, <1>8 DEF StateType
<1>11. Len(s.messages) > Len(row.messages)
  <2>1. row.calls \in Nat /\ row.messages \in Seq(MessageType)
    BY <1>4, Fields
  <2>2. more \in [1..count -> MessageType]
    BY <1>6, <1>7, <2>1 DEF MessageType
  <2>3. more \in Seq(MessageType) /\ Len(more) = count
    BY <2>2, ListOf
  <2>4. Len(row.messages \o more) = Len(row.messages) + Len(more)
    BY <2>1, <2>3, ConcatProperties
  <2>5. Len(row.messages) \in Nat
    BY <2>1, LenProperties
  <2> QED BY <1>5, <1>10, <2>3, <2>4, <2>5
<1>12. Follows(RowOf(a), s)
  BY <1>4, <1>11 DEF Follows
<1> QED BY <1>4, <1>9, <1>12, WrittenFollows

\* An opened conversation has no answer yet; one that goes on keeps it.
LEMMA LoadFollows ==
  ASSUME TypeOK, NEW a \in DOMAIN workers, Load(a)
  PROVE  \A n \in DOMAIN runs : Follows(runs[n].row, runs'[n].row)
<1>1. PICK s : s = Opened(RunOf(a)) /\ Written(a, s)
  BY DEF Load
<1>2. CASE RowOf(a) = NoRow
  <2>1. RowOf(a).response = NoResponse
    BY <1>2, States
  <2> QED BY <1>1, <2>1, WrittenFollows DEF Follows
<1>3. CASE RowOf(a) # NoRow
  <2>1. s = RowOf(a)
    BY <1>1, <1>3 DEF Opened, RowOf
  <2> QED BY <1>1, <2>1, WrittenFollows DEF Follows
<1> QED BY <1>2, <1>3

\* A reservation leaves the response as it is.
LEMMA ReserveFollows ==
  ASSUME IInv, NEW a \in DOMAIN workers, NEW reservation, Reserve(a, reservation)
  PROVE  \A n \in DOMAIN runs : Follows(runs[n].row, runs'[n].row)
<1>1. PICK row : row = RowOf(a)
  OBVIOUS
<1>2. At(a, "ask") /\ Written(a, [row EXCEPT !.rounds = Append(Abandoned(@),
          [attempt |-> a, status |-> "pending", cost |-> reservation])])
  BY <1>1 DEF Reserve
<1>3. TypeOK /\ row \in StateType
  BY <1>1, <1>2, AtWork DEF At
<1>4. PICK s : s = [row EXCEPT !.rounds = Append(Abandoned(@),
          [attempt |-> a, status |-> "pending", cost |-> reservation])]
  OBVIOUS
<1>5. s.response = row.response
  BY <1>3, <1>4 DEF StateType
<1> QED BY <1>1, <1>2, <1>3, <1>4, <1>5, WrittenFollows DEF Follows

\* So does an answer, unless it was expected: then there was no response.
LEMMA ReceiptsFollow ==
  ASSUME IInv, NEW a \in DOMAIN workers,
         \/ ReceiveInvalid(a) \/ ReceiveLate(a) \/ ReceiveMalformed(a)
         \/ \E response \in Responses : Receive(a, response)
  PROVE  \A n \in DOMAIN runs : Follows(runs[n].row, runs'[n].row)
<1>1. PICK row : row = RowOf(a)
  OBVIOUS
<1>2. At(a, "wait")
  BY DEF ReceiveInvalid, ReceiveLate, ReceiveMalformed, Receive
<1>3. PICK n : n = RunOf(a)
  OBVIOUS
<1>4. TypeOK /\ row \in StateType /\ Sound(row) /\ row = runs[n].row /\ Rounds(n) = row.rounds
  BY <1>1, <1>2, <1>3, AtWork DEF At
<1>5. CASE ReceiveInvalid(a)
  <2>1. PICK s : s = [row EXCEPT !.rounds[workers[a].round].status = "invalid", !.error = TRUE]
    OBVIOUS
  <2>2. Written(a, s) /\ s.response = row.response
    BY <1>1, <1>4, <1>5, <2>1 DEF ReceiveInvalid, StateType
  <2> QED BY <1>1, <1>4, <2>2, WrittenFollows DEF Follows
<1>6. CASE ReceiveLate(a)
  <2>1. PICK s : s = Receipt(a, "late_received")
    OBVIOUS
  <2>2. Written(a, s) /\ s.response = row.response
    BY <1>1, <1>4, <1>6, <2>1 DEF ReceiveLate, Receipt, StateType
  <2> QED BY <1>1, <1>4, <2>2, WrittenFollows DEF Follows
<1>7. CASE ReceiveMalformed(a)
  <2>1. PICK t : t = Receipt(a, "received")
    OBVIOUS
  <2>2. t.response = row.response
    BY <1>1, <1>4, <2>1 DEF Receipt, StateType
  <2>3. PICK s : s = [t EXCEPT !.error = TRUE]
    OBVIOUS
  <2>4. Written(a, s) /\ s.response = row.response
    BY <1>7, <2>1, <2>2, <2>3 DEF ReceiveMalformed
  <2> QED BY <1>1, <1>4, <2>4, WrittenFollows DEF Follows
<1>8. ASSUME NEW response \in Responses, Receive(a, response)
      PROVE  \A m \in DOMAIN runs : Follows(runs[m].row, runs'[m].row)
  <2>1. Written(a, [Receipt(a, "received") EXCEPT !.response = response]) /\ Expected(a)
    BY <1>8 DEF Receive
  <2>2. PICK k : k = workers[a].round
    OBVIOUS
  <2>3. k \in DOMAIN row.rounds /\ row.rounds[k].status = "pending"
    BY <1>1, <1>2, <1>3, <1>4, <2>1, <2>2, Awaited DEF Expected
  <2>4. row.response = NoResponse
    BY <1>4, <2>3 DEF Sound, Quiet
  <2> QED BY <1>1, <1>4, <2>1, <2>4, WrittenFollows DEF Follows
<1> QED BY <1>5, <1>6, <1>7, <1>8

\* Whatever the step, an answer is kept until it was acted on.
LEMMA StepFollows ==
  ASSUME IInv, [Next]_vars
  PROVE  \A n \in DOMAIN runs : Follows(runs[n].row, runs'[n].row)
<1>1. TypeOK
  BY DEF IInv
<1>2. CASE runs' = runs
  BY <1>2 DEF Follows
<1>3. ASSUME NEW n \in DOMAIN runs, runs' = [runs EXCEPT ![n].status = "failed"]
      PROVE  \A m \in DOMAIN runs : Follows(runs[m].row, runs'[m].row)
  <2>1. \A m \in DOMAIN runs : runs'[m].row = runs[m].row
    BY <1>1, <1>3, Lists DEF RunType
  <2> QED BY <2>1 DEF Follows
<1>4. ASSUME NEW n \in DOMAIN runs, runs' = [runs EXCEPT ![n].completed = TRUE]
      PROVE  \A m \in DOMAIN runs : Follows(runs[m].row, runs'[m].row)
  <2>1. \A m \in DOMAIN runs : runs'[m].row = runs[m].row
    BY <1>1, <1>4, Lists DEF RunType
  <2> QED BY <2>1 DEF Follows
<1>5. ASSUME NEW reused \in BOOLEAN, Recover(reused)
      PROVE  \A m \in DOMAIN runs : Follows(runs[m].row, runs'[m].row)
  <2>1. PICK run : runs' = Append(runs, run)
    BY <1>5 DEF Recover
  <2>2. \A m \in DOMAIN runs : runs'[m] = runs[m]
    BY <1>1, <2>1, LenProperties DEF TypeOK
  <2> QED BY <2>2 DEF Follows
<1>6. EndRun => \E n \in DOMAIN runs : runs' = [runs EXCEPT ![n].status = "failed"]
  <2>1. PICK n : n = Now /\ n \in DOMAIN runs
    BY <1>1, Lists
  <2> QED BY <2>1 DEF EndRun
<1>7. \A a \in DOMAIN workers :
        Finish(a) => \E n \in DOMAIN runs : runs' = [runs EXCEPT ![n].completed = TRUE]
  BY <1>1, Lists DEF Finish
<1>8. UNCHANGED vars \/ Dispatch \/ LoseClaim => runs' = runs
  BY DEF vars, Dispatch, LoseClaim
<1>9. \A a \in DOMAIN workers :
        \/ Stop(a) \/ UseTool(a) \/ Conclude(a) \/ Repair(a) \/ ReserveNothing(a)
        \/ \E cost \in Costs : Send(a, cost)
        => runs' = runs
  BY DEF Stop, UseTool, Conclude, Repair, ReserveNothing, Send
<1>10. ASSUME NEW a \in DOMAIN workers,
             \/ Load(a) \/ Save(a) \/ Batch(a)
             \/ \E reservation \in Reservations : Reserve(a, reservation)
             \/ ReceiveInvalid(a) \/ ReceiveLate(a) \/ ReceiveMalformed(a)
             \/ \E response \in Responses : Receive(a, response)
       PROVE  \A m \in DOMAIN runs : Follows(runs[m].row, runs'[m].row)
  <2>1. CASE Load(a)
    BY <1>1, <2>1, LoadFollows
  <2>2. CASE Save(a)
    BY <2>2, SaveFollows
  <2>3. CASE Batch(a)
    BY <2>3, BatchFollows
  <2>4. CASE \E reservation \in Reservations : Reserve(a, reservation)
    BY <2>4, ReserveFollows
  <2>5. CASE \/ ReceiveInvalid(a) \/ ReceiveLate(a) \/ ReceiveMalformed(a)
             \/ \E response \in Responses : Receive(a, response)
    BY <2>5, ReceiptsFollow
  <2> QED BY <1>10, <2>1, <2>2, <2>3, <2>4, <2>5
<1>11. CASE UNCHANGED vars \/ Dispatch \/ LoseClaim
  BY <1>2, <1>8, <1>11
<1>12. CASE EndRun
  BY <1>3, <1>6, <1>12
<1>13. ASSUME NEW a \in DOMAIN workers, Finish(a)
       PROVE  \A m \in DOMAIN runs : Follows(runs[m].row, runs'[m].row)
  BY <1>4, <1>7, <1>13
<1>14. ASSUME NEW a \in DOMAIN workers,
              \/ Stop(a) \/ UseTool(a) \/ Conclude(a) \/ Repair(a) \/ ReserveNothing(a)
              \/ \E cost \in Costs : Send(a, cost)
       PROVE  \A m \in DOMAIN runs : Follows(runs[m].row, runs'[m].row)
  BY <1>2, <1>9, <1>14
<1> QED BY <1>5, <1>10, <1>11, <1>12, <1>13, <1>14 DEF Next

-----------------------------------------------------------------------------
(* The theorems. *)

\* In any number of attempts and runs, whoever holds the claim and whatever is
\* answered when: rows, workers and requests have their types.
THEOREM TypeCorrect ==
  Spec => []TypeOK
<1>1. IInv => TypeOK
  BY DEF IInv
<1> QED BY <1>1, Invariance, PTL

\* The provider is asked no more often, and bills no more, than one
\* conversation allows; each attempt is reported with what it used, within what
\* is left unconfirmed.
THEOREM BudgetKept ==
  Spec => []WithinBudget
<1>1. IInv => WithinBudget
  BY AllPaid, AttemptReported DEF WithinBudget
<1> QED BY <1>1, Invariance, PTL

\* No accepted answer is lost before it was acted on, and no request goes out
\* before every call has its one result.
THEOREM ConversationContinues ==
  Spec => Continues
<1> DEFINE Answered ==
             \A a \in DOMAIN workers :
               At(a, "send") /\ workers'[a].pc = "wait" => AllAnswered(workers[a].state)
           Followed ==
             \A n \in DOMAIN runs :
               LET old == runs[n].row
                   new == runs'[n].row
               IN old.response # NoResponse /\ new.response # old.response =>
                    \/ new.output
                    \/ Len(new.messages) > Len(old.messages)
<1>1. IInv /\ [Next]_vars => [Followed /\ Answered]_vars
  <2> SUFFICES ASSUME IInv, [Next]_vars PROVE Followed /\ Answered
    OBVIOUS
  <2>1. Followed
    BY StepFollows DEF Follows
  <2>2. Answered
    BY AskersAnswered
  <2> QED BY <2>1, <2>2
<1> QED BY <1>1, Invariance, PTL DEF Spec, Continues

=============================================================================
