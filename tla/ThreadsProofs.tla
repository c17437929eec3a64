--------------------------- MODULE ThreadsProofs ---------------------------
(***************************************************************************)
(* Proofs about the two programs whose threads share what nothing guards.  *)
(* Lab 5, for every argument: the estimate stays within its range, the     *)
(* count is exact unless the race happened, and what the race takes is     *)
(* bounded.  Lab 3, for every list of numbers: the median is the median,   *)
(* no scan can spoil the sort, and what the sort does not disturb is       *)
(* exact.                                                                  *)
(***************************************************************************)
EXTENDS MonteCarlo, Statistics, FiniteSetTheorems, FunctionTheorems, SequenceTheorems,
        WellFoundedInduction, TLAPS

-----------------------------------------------------------------------------
(* Lab 5: the count of the Monte Carlo estimate.                           *)

\* The four quotas never add up to more than the argument, whatever % does to
\* the last of them.
LEMMA QuotaSum ==
  ASSUME NEW N \in Nat
  PROVE  /\ N \div 4 \in Nat
         /\ ((N \div 4) * N) % 4 \in 0 .. 3
         /\ 3 * (N \div 4) + (((N \div 4) * N) % 4) <= N
<1> DEFINE d == N \div 4
           r == N % 4
           last == (d * N) % 4
<1>1. d \in Nat /\ r \in 0 .. 3 /\ N = 4 * d + r
  OBVIOUS
<1>2. d * N \in Nat
  BY <1>1
<1>3. last \in 0 .. 3
  BY <1>2
<1>4. 3 * d + last <= N
  <2>1. CASE d >= 3
    BY <1>1, <1>3, <2>1
  <2>2. CASE d = 0
    <3>1. d * N = 0
      BY <2>2
    <3> QED BY <1>1, <2>2, <3>1
  <2>3. CASE d = 1
    <3>1. d * N = N
      BY <2>3
    <3>2. last = r
      BY <3>1
    <3> QED BY <1>1, <2>3, <3>2
  <2>4. CASE d = 2
    <3>1. d * N = 16 + 2 * r
      BY <1>1, <2>4
    <3>2. last <= 2
      BY <1>1, <3>1
    <3> QED BY <1>1, <2>4, <3>2
  <2> QED BY <1>1, <2>1, <2>2, <2>3, <2>4
<1> QED BY <1>1, <1>3, <1>4

\* The share of each thread is a number of points.
LEMMA QuotaType ==
  ASSUME pts_total \in Nat
  PROVE  /\ \A w \in Workers : n_to_draw(w) \in Nat
         /\ AllWorkers([w \in Workers |-> n_to_draw(w)]) <= pts_total
<1>1. /\ pts_total \div 4 \in Nat
      /\ ((pts_total \div 4) * pts_total) % 4 \in 0 .. 3
      /\ 3 * (pts_total \div 4) + (((pts_total \div 4) * pts_total) % 4)
           <= pts_total
  BY QuotaSum
<1>2. 0 \in Workers /\ 1 \in Workers /\ 2 \in Workers /\ 3 \in Workers
  BY DEF Workers
<1>3. /\ n_to_draw(0) = pts_total \div 4
      /\ n_to_draw(1) = pts_total \div 4
      /\ n_to_draw(2) = pts_total \div 4
      /\ n_to_draw(3) = ((pts_total \div 4) * pts_total) % 4
  BY DEF n_to_draw, pts_todraw
<1>4. n_to_draw(0) + n_to_draw(1) + n_to_draw(2) + n_to_draw(3) <= pts_total
  BY <1>1, <1>3
<1>5. AllWorkers([w \in Workers |-> n_to_draw(w)])
        = n_to_draw(0) + n_to_draw(1) + n_to_draw(2) + n_to_draw(3)
  BY <1>2 DEF AllWorkers
<1>6. \A w \in Workers : n_to_draw(w) \in Nat
  BY <1>1 DEF n_to_draw, pts_todraw
<1> QED BY <1>4, <1>5, <1>6

\* A sum over the workers grows with one of its terms, and is bounded by a sum
\* of greater terms.
LEMMA SumType ==
  ASSUME NEW f \in [Workers -> Nat]
  PROVE  AllWorkers(f) \in Nat
<1>1. f[0] \in Nat /\ f[1] \in Nat /\ f[2] \in Nat /\ f[3] \in Nat
  BY DEF Workers
<1> QED BY <1>1 DEF AllWorkers

\* One thread's count grows by one and the sum with it.
LEMMA AddOne ==
  ASSUME NEW f \in [Workers -> Nat], NEW w \in Workers
  PROVE  AllWorkers([f EXCEPT ![w] = @ + 1]) = AllWorkers(f) + 1
<1>1. w = 0 \/ w = 1 \/ w = 2 \/ w = 3
  BY DEF Workers
<1>2. f[0] \in Nat /\ f[1] \in Nat /\ f[2] \in Nat /\ f[3] \in Nat
  BY DEF Workers
<1> QED BY <1>1, <1>2 DEF AllWorkers, Workers

\* Larger counts have a larger sum.
LEMMA SumMonotone ==
  ASSUME NEW f \in [Workers -> Nat], NEW g \in [Workers -> Nat],
         \A w \in Workers : f[w] <= g[w]
  PROVE  AllWorkers(f) <= AllWorkers(g)
<1>1. \A w \in {0, 1, 2, 3} : f[w] \in Nat /\ g[w] \in Nat /\ f[w] <= g[w]
  BY DEF Workers
<1> QED BY <1>1 DEF AllWorkers

-----------------------------------------------------------------------------
\* Every variable keeps its type: main() creates and joins each thread once.
THEOREM TypeCorrect == Spec => []TypeOK
<1>1. Init => TypeOK
  <2> SUFFICES ASSUME Init PROVE TypeOK
    OBVIOUS
  <2>1. overlapped \in BOOLEAN
    BY Zenon DEF Init
  <2>2. lock \in Workers \union {Free}
    BY DEF Init
  <2>3. /\ main_at \in 0 .. 9
        /\ pts_circle \in Nat
        /\ pts_total \in Arguments
        /\ drawn \in [Workers -> Nat]
        /\ n \in [Workers -> Nat]
        /\ stored \in [Workers -> Nat]
    BY DEF Init
  <2>4. pc \in [Workers -> {"none", "draw", "add", "lock", "unlock", "exit"}]
    BY DEF Init
  <2> QED BY <2>1, <2>2, <2>3, <2>4 DEF TypeOK
<1>2. TypeOK /\ [Next]_vars => TypeOK'
  <2> SUFFICES ASSUME TypeOK, [Next]_vars PROVE TypeOK'
    OBVIOUS
  <2> USE DEF TypeOK
  <2>1. CASE Create
    <3>1. main_at' \in 0 .. 9
      BY <2>1 DEF Create
    <3>2. pc' \in [Workers -> {"none", "draw", "add", "lock", "unlock", "exit"}]
      BY <2>1 DEF Create
    <3> QED BY <2>1, <3>1, <3>2 DEF Create
  <2>2. CASE Join
    BY <2>2 DEF Join
  <2>3. CASE Report
    BY <2>3 DEF Report
  <2>4. ASSUME NEW w \in Workers, worker(w) PROVE TypeOK'
    <3>1. CASE Miss(w)
      BY <3>1 DEF Miss
    <3>2. CASE Load(w)
      BY <3>2 DEF Load
    <3>3. CASE Store(w)
      BY <3>3 DEF Store
    <3>4. CASE Lock(w)
      BY <3>4 DEF Lock
    <3>5. CASE Unlock(w)
      BY <3>5 DEF Unlock
    <3>6. CASE Exit(w)
      BY <3>6 DEF Exit
    <3> QED BY <2>4, <3>1, <3>2, <3>3, <3>4, <3>5, <3>6 DEF worker
  <2>5. CASE UNCHANGED vars
    BY <2>5 DEF vars
  <2> QED BY <2>1, <2>2, <2>3, <2>4, <2>5 DEF Next, Main
<1> QED BY <1>1, <1>2, PTL DEF Spec

-----------------------------------------------------------------------------
\* no worker draws more than its quota, or stores more than it draws
Within ==
  \A w \in Workers :
    /\ drawn[w] <= n_to_draw(w)
    /\ stored[w] <= drawn[w]
    /\ pc[w] = "add" => stored[w] < drawn[w]

\* neither the count nor a loaded value exceeds the hits stored so far
Counted ==
  /\ pts_circle <= AllWorkers(stored)
  /\ \A w \in Workers : pc[w] = "add" => n[w] <= AllWorkers(stored)

\* without the race the one worker that has loaded the count has the latest
Exact ==
  ~overlapped =>
    /\ pts_circle = AllWorkers(stored)
    /\ \A w \in Workers :
         pc[w] = "add" =>
           n[w] = pts_circle /\ \A v \in Workers \ {w} : pc[v] # "add"

IInv == TypeOK /\ Within /\ Counted /\ Exact

\* Every step of main() and of a worker keeps the invariant.
LEMMA Inductive == IInv /\ [Next]_vars /\ TypeOK' => IInv'
<1> SUFFICES ASSUME IInv, [Next]_vars, TypeOK' PROVE Within' /\ Counted' /\ Exact'
  BY DEF IInv
<1> USE DEF IInv
<1>0. pts_total' = pts_total
  BY DEF Next, Main, Create, Join, Report, worker, Miss, Load, Store, Lock,
         Unlock, Exit, vars
<1>1. \A w \in Workers : n_to_draw(w)' = n_to_draw(w)
  BY <1>0 DEF n_to_draw, pts_todraw
<1>2. \A w \in Workers : n_to_draw(w) \in Nat
  BY QuotaType, ArgumentsAreCounts DEF TypeOK
<1> HIDE DEF IInv
<1>3. TypeOK /\ Within /\ Counted /\ Exact
  BY DEF IInv
<1>4. AllWorkers(stored) \in Nat
  BY <1>3, SumType DEF TypeOK
\* a step that counts nothing and only moves workers that are not adding
<1>5. ASSUME UNCHANGED <<pts_circle, drawn, n, stored, overlapped>>,
             \A w \in Workers : pc'[w] = "add" => pc[w] = "add"
      PROVE  Within' /\ Counted' /\ Exact'
  <2>1. Within'
    BY <1>1, <1>3, <1>5 DEF Within
  <2>2. Counted'
    BY <1>3, <1>5 DEF Counted, AllWorkers
  <2>3. Exact'
    BY <1>3, <1>5 DEF Exact, AllWorkers
  <2> QED BY <2>1, <2>2, <2>3
<1>6. CASE Create
  BY <1>3, <1>5, <1>6 DEF Create, TypeOK
<1>7. CASE Join \/ Report
  BY <1>5, <1>7 DEF Join, Report
<1>8. ASSUME NEW w \in Workers, worker(w) PROVE Within' /\ Counted' /\ Exact'
  <2>1. CASE Miss(w)
    <3>1. Within'
      BY <1>1, <1>2, <1>3, <2>1 DEF Within, Miss, TypeOK
    <3>2. Counted' /\ Exact'
      BY <1>3, <2>1 DEF Counted, Exact, Miss, AllWorkers
    <3> QED BY <3>1, <3>2
  <2>2. CASE Load(w)
    <3>1. Within'
      BY <1>1, <1>2, <1>3, <2>2 DEF Within, Load, TypeOK
    <3>2. AllWorkers(stored)' = AllWorkers(stored)
      BY <2>2 DEF Load, AllWorkers
    <3>3. Counted'
      BY <1>3, <2>2, <3>2 DEF Counted, Load, TypeOK
    <3>4. Exact'
      BY <1>3, <2>2, <3>2 DEF Exact, Load, TypeOK
    <3> QED BY <3>1, <3>3, <3>4
  <2>3. CASE Store(w)
    <3>1. Within'
      BY <1>1, <1>2, <1>3, <2>3 DEF Within, Store, TypeOK
    <3>2. AllWorkers(stored)' = AllWorkers(stored) + 1
      <4>1. stored' = [stored EXCEPT ![w] = @ + 1] /\ stored \in [Workers -> Nat]
        BY <1>3, <2>3 DEF Store, TypeOK
      <4>2. AllWorkers(stored)' = AllWorkers([stored EXCEPT ![w] = @ + 1])
        BY <4>1 DEF AllWorkers
      <4> QED BY <4>1, <4>2, AddOne
    <3>3. Counted'
      <4>1. n[w] \in Nat /\ pts_circle' = n[w] + 1 /\ n[w] <= AllWorkers(stored)
        BY <1>3, <2>3 DEF Counted, Store, TypeOK
      <4>2. pts_circle' <= AllWorkers(stored)'
        BY <1>4, <3>2, <4>1
      <4>3. ASSUME NEW v \in Workers, pc'[v] = "add" PROVE n'[v] <= AllWorkers(stored)'
        <5>1. pc[v] = "add" /\ n'[v] = n[v] /\ n[v] \in Nat
          BY <1>3, <2>3, <4>3 DEF Store, TypeOK
        <5> QED BY <1>3, <1>4, <3>2, <5>1 DEF Counted
      <4> QED BY <4>2, <4>3 DEF Counted
    <3>4. Exact'
      BY <1>3, <1>4, <2>3, <3>2 DEF Exact, Store, TypeOK
    <3> QED BY <3>1, <3>3, <3>4
  <2>4. CASE Lock(w) \/ Unlock(w) \/ Exit(w)
    BY <1>3, <1>5, <2>4 DEF Lock, Unlock, Exit, TypeOK
  <2> QED BY <1>8, <2>1, <2>2, <2>3, <2>4 DEF worker
<1>9. CASE UNCHANGED vars
  BY <1>5, <1>9 DEF vars
<1> QED BY <1>6, <1>7, <1>8, <1>9 DEF Next, Main

\* The invariant holds in every state of the program.
LEMMA Invariance == Spec => []IInv
<1>1. Init => Within /\ Counted /\ Exact
  <2> SUFFICES ASSUME Init PROVE Within /\ Counted /\ Exact
    OBVIOUS
  <2>1. \A w \in Workers : n_to_draw(w) \in Nat
    BY QuotaType, ArgumentsAreCounts DEF Init
  <2>2. AllWorkers(stored) = 0
    BY DEF Init, AllWorkers, Workers
  <2> QED BY <2>1, <2>2 DEF Init, Within, Counted, Exact
<1>2. TypeOK /\ IInv /\ [Next]_vars /\ TypeOK' => IInv'
  BY Inductive
<1>3. TypeOK /\ Within /\ Counted /\ Exact => IInv
  BY DEF IInv
<1> QED BY TypeCorrect, <1>1, <1>2, <1>3, PTL DEF Spec

\* lab05_ex3.c never counts more points than it draws, nor draws more than it
\* was asked to, so the printed estimate is at most 4, for every argument.
THEOREM Estimate == Spec => []EstimateWithinRange
<1>1. IInv => EstimateWithinRange
  <2> SUFFICES ASSUME TypeOK, Within, Counted PROVE EstimateWithinRange
    BY DEF IInv
  <2> DEFINE quota == [w \in Workers |-> n_to_draw(w)]
  <2>1. pts_total \in Nat
    BY ArgumentsAreCounts DEF TypeOK
  <2>2. quota \in [Workers -> Nat] /\ AllWorkers(quota) <= pts_total
    BY QuotaType, <2>1
  <2>3. AllWorkers(stored) <= AllWorkers(drawn)
    BY SumMonotone DEF TypeOK, Within
  <2>4. AllWorkers(drawn) <= AllWorkers(quota)
    BY SumMonotone, <2>2 DEF TypeOK, Within
  <2>5. /\ AllWorkers(stored) \in Nat
        /\ AllWorkers(drawn) \in Nat
        /\ AllWorkers(quota) \in Nat
    BY SumType, <2>2 DEF TypeOK
  <2> QED BY ONLY <2>1, <2>2, <2>3, <2>4, <2>5, TypeOK, Counted
          DEF EstimateWithinRange, Counted, TypeOK
<1> QED BY Invariance, <1>1, PTL

\* The count of lab05_ex3.c is exact in every run in which no two threads were
\* inside pts_circle += 1 at once.
THEOREM ExactWithoutRace == Spec => []ExactUnlessOverlap
<1>1. IInv => ExactUnlessOverlap
  BY DEF IInv, Exact, ExactUnlessOverlap
<1> QED BY Invariance, <1>1, PTL

-----------------------------------------------------------------------------
\* The worker that stored last loaded what it added to after its own store
\* before that, when the count was positive already.
Survive ==
  /\ \A w \in Workers : pc[w] = "add" /\ stored[w] > 0 => n[w] > 0
  /\ \/ \A w \in Workers : stored[w] = 0
     \/ \E w \in Workers :
          /\ stored[w] > 0 /\ pts_circle > 0
          /\ stored[w] > 1 => pts_circle > 1

\* A step of main(), and a worker's that leaves the count alone.
LEMMA SurviveQuiet ==
  ASSUME Survive, UNCHANGED <<pts_circle, stored, n>>,
         \A w \in Workers : pc'[w] = "add" => pc[w] = "add"
  PROVE  Survive'
  BY DEF Survive

\* No step takes the two hits that survive away.
LEMMA SurviveStep == TypeOK /\ Survive /\ [Next]_vars => Survive'
<1> SUFFICES ASSUME TypeOK, Survive, [Next]_vars PROVE Survive'
  OBVIOUS
<1>1. CASE Create
  BY <1>1, SurviveQuiet DEF Create, TypeOK
<1>2. CASE Join \/ Report
  BY <1>2, SurviveQuiet DEF Join, Report
<1>3. ASSUME NEW w \in Workers, Load(w) PROVE Survive'
  <2>1. /\ pc' = [pc EXCEPT ![w] = "add"]
        /\ n' = [n EXCEPT ![w] = pts_circle]
        /\ UNCHANGED <<pts_circle, stored>>
    BY <1>3 DEF Load
  <2>2. stored[w] > 0 => pts_circle > 0
    BY DEF Survive
  <2>3. ASSUME NEW v \in Workers, pc'[v] = "add", stored'[v] > 0
        PROVE  n'[v] > 0
    <3>1. CASE v = w
      BY <2>1, <2>2, <2>3, <3>1 DEF TypeOK
    <3>2. CASE v # w
      BY <2>1, <2>3, <3>2 DEF Survive, TypeOK
    <3> QED BY <3>1, <3>2
  <2> QED BY <2>1, <2>3 DEF Survive
<1>4. ASSUME NEW w \in Workers, Store(w) PROVE Survive'
  <2>1. /\ pc[w] = "add" /\ pc' = [pc EXCEPT ![w] = "lock"]
        /\ pts_circle' = n[w] + 1
        /\ stored' = [stored EXCEPT ![w] = @ + 1]
        /\ n' = n
    BY <1>4 DEF Store
  <2>2. n[w] \in Nat /\ stored[w] \in Nat
    BY DEF TypeOK
  <2>3. stored'[w] = stored[w] + 1
    BY <2>1 DEF TypeOK
  <2>4. ASSUME NEW v \in Workers, pc'[v] = "add", stored'[v] > 0
        PROVE  n'[v] > 0
    <3>1. v # w /\ pc[v] = "add" /\ stored'[v] = stored[v]
      BY <2>1, <2>4 DEF TypeOK
    <3> QED BY <2>1, <2>4, <3>1 DEF Survive
  <2>5. stored[w] > 0 => n[w] > 0
    BY <2>1 DEF Survive
  <2>6. /\ stored'[w] > 0 /\ pts_circle' > 0
        /\ stored'[w] > 1 => pts_circle' > 1
    BY <2>1, <2>2, <2>3, <2>5
  <2> QED BY <2>4, <2>6 DEF Survive
<1>5. ASSUME NEW w \in Workers, Miss(w) \/ Lock(w) \/ Unlock(w) \/ Exit(w)
      PROVE  Survive'
  BY <1>5, SurviveQuiet DEF Miss, Lock, Unlock, Exit, TypeOK
<1>6. CASE UNCHANGED vars
  BY <1>6, SurviveQuiet DEF vars
<1> QED BY <1>1, <1>2, <1>3, <1>4, <1>5, <1>6 DEF Next, Main, worker

\* The race of lab05_ex3.c loses everything but two points at most, and all but
\* one only where some thread had a single hit, for every argument.
THEOREM RaceLosesAtMost == Spec => []TwoSurvive
<1>1. Init => Survive
  BY DEF Init, Survive
<1>2. TypeOK /\ Survive => TwoSurvive
  <2> SUFFICES ASSUME TypeOK, Survive, AllWorkers(stored) > 0
               PROVE  /\ pts_circle > 0
                      /\ (\A w \in Workers : stored[w] # 1) => pts_circle >= 2
    BY DEF TwoSurvive
  <2>1. ~ \A w \in Workers : stored[w] = 0
    BY DEF AllWorkers, Workers
  <2>2. PICK w \in Workers : /\ stored[w] > 0 /\ pts_circle > 0
                             /\ stored[w] > 1 => pts_circle > 1
    BY <2>1 DEF Survive
  <2> QED BY <2>2 DEF TypeOK
<1> QED BY TypeCorrect, SurviveStep, <1>1, <1>2, PTL DEF Spec

-----------------------------------------------------------------------------
(* Sorting and ranks, of any array of numbers from 0.                       *)

\* The last m numbers are in order, and none before them is larger.
TailSorted(a, N, m) ==
  \A p, q \in 0 .. N - 1 : p <= q /\ q >= N - m => a[p] <= a[q]

\* None of the numbers up to the one at k is larger.
LargestAt(a, k) == \A p \in 0 .. k : a[p] <= a[k]

\* The array holds the members of s, each once for every place it has there.
Permuted(a, s, N) ==
  \E f \in Bijection(0 .. N - 1, 1 .. N) : \A p \in 0 .. N - 1 : a[p] = s[f[p]]

\* After a pair has been put in order the loops go on to the next one.
LEMMA NextPairOrdered ==
  ASSUME NEW N \in Nat, NEW a \in [0 .. N - 1 -> Int], NEW m \in Nat, NEW k \in Nat,
         k + 1 < N - m, TailSorted(a, N, m), LargestAt(a, k + 1),
         NEW m2, NEW k2,
         IF k + 1 < N - m - 1 THEN k2 = k + 1 /\ m2 = m ELSE k2 = 0 /\ m2 = m + 1
  PROVE  TailSorted(a, N, m2) /\ LargestAt(a, k2)
<1>1. CASE k + 1 < N - m - 1
  BY <1>1
<1>2. CASE ~(k + 1 < N - m - 1)
  <2>1. k2 = 0 /\ m2 = m + 1 /\ N - m2 = k + 1
    BY <1>2
  <2>2. LargestAt(a, 0)
    <3>1. 0 \in 0 .. N - 1
      OBVIOUS
    <3>2. a[0] \in Int
      BY <3>1
    <3>3. \A p \in 0 .. 0 : p = 0
      OBVIOUS
    <3> QED
      BY <3>2, <3>3 DEF LargestAt
  <2>3. ASSUME NEW p \in 0 .. N - 1, NEW q \in 0 .. N - 1, p <= q, q >= N - m2
        PROVE  a[p] <= a[q]
    <3>1. CASE q = k + 1
      <4>1. p \in 0 .. k + 1
        BY <2>3, <3>1
      <4> QED
        BY <3>1, <4>1 DEF LargestAt
    <3>2. CASE q # k + 1
      <4>1. q >= N - m
        BY <2>1, <2>3, <3>2
      <4> QED
        BY <2>3, <4>1 DEF TailSorted
    <3> QED
      BY <3>1, <3>2
  <2>4. TailSorted(a, N, m2)
    BY <2>3 DEF TailSorted
  <2> QED
    BY <2>1, <2>2, <2>4
<1> QED
  BY <1>1, <1>2

\* Exchanging a pair that is in the wrong order.
LEMMA ExchangeOrdered ==
  ASSUME NEW N \in Nat, NEW a \in [0 .. N - 1 -> Int], NEW m \in Nat, NEW k \in Nat,
         k + 1 < N - m, TailSorted(a, N, m), LargestAt(a, k), a[k + 1] < a[k],
         NEW b \in [0 .. N - 1 -> Int],
         \A p \in 0 .. N - 1 : b[p] = IF p = k THEN a[k + 1]
                                      ELSE IF p = k + 1 THEN a[k] ELSE a[p]
  PROVE  TailSorted(b, N, m) /\ LargestAt(b, k + 1)
<1>1. k \in 0 .. N - 1 /\ k + 1 \in 0 .. N - 1 /\ k # k + 1
  OBVIOUS
<1>2. b[k] = a[k + 1] /\ b[k + 1] = a[k] /\ a[k] \in Int /\ a[k + 1] \in Int
  BY <1>1
<1>3. ASSUME NEW p \in 0 .. k + 1 PROVE b[p] <= b[k + 1]
  <2>1. CASE p = k \/ p = k + 1
    BY <1>2, <2>1
  <2>2. CASE p # k /\ p # k + 1
    <3>1. p \in 0 .. k /\ p \in 0 .. N - 1
      BY <2>2
    <3>2. b[p] = a[p] /\ a[p] <= a[k]
      BY <2>2, <3>1 DEF LargestAt
    <3> QED
      BY <1>2, <3>2
  <2> QED
    BY <2>1, <2>2
<1>4. ASSUME NEW p \in 0 .. N - 1, NEW q \in 0 .. N - 1, p <= q, q >= N - m
      PROVE  b[p] <= b[q]
  <2>1. q # k /\ q # k + 1 /\ k <= q /\ k + 1 <= q
    BY <1>4
  <2>2. b[q] = a[q]
    BY <2>1
  <2>3. a[k] <= a[q] /\ a[k + 1] <= a[q] /\ a[p] <= a[q]
    BY <1>1, <1>4, <2>1 DEF TailSorted
  <2>4. b[p] = a[p] \/ b[p] = a[k] \/ b[p] = a[k + 1]
    OBVIOUS
  <2> QED
    BY <2>2, <2>3, <2>4
<1> QED
  BY <1>3, <1>4 DEF TailSorted, LargestAt

\* Exchanging two neighbours leaves a permutation.
LEMMA ExchangePermuted ==
  ASSUME NEW N \in Nat, NEW a, NEW b, NEW s, Permuted(a, s, N), NEW k \in Nat, k + 1 < N,
         \A p \in 0 .. N - 1 : b[p] = IF p = k THEN a[k + 1]
                                      ELSE IF p = k + 1 THEN a[k] ELSE a[p]
  PROVE  Permuted(b, s, N)
<1> DEFINE D == 0 .. N - 1
           R == 1 .. N
<1>1. PICK f \in Bijection(D, R) : \A p \in D : a[p] = s[f[p]]
  BY DEF Permuted
<1>2. k \in D /\ k + 1 \in D /\ k # k + 1
  OBVIOUS
<1> HIDE DEF D, R
<1>3. /\ f \in [D -> R]
      /\ \A p, q \in D : f[p] = f[q] => p = q
      /\ \A r \in R : \E p \in D : f[p] = r
  BY DEF Bijection, Injection, Surjection, IsInjective
<1> DEFINE g == [p \in D |-> IF p = k THEN f[k + 1] ELSE IF p = k + 1 THEN f[k] ELSE f[p]]
<1>4. g \in [D -> R]
  BY <1>2, <1>3
<1>5. /\ g[k] = f[k + 1] /\ g[k + 1] = f[k]
      /\ \A p \in D : p # k /\ p # k + 1 => g[p] = f[p]
  BY <1>2
<1> HIDE DEF g
<1>6. ASSUME NEW p \in D, NEW q \in D, g[p] = g[q]
      PROVE  p = q
  BY <1>2, <1>3, <1>5, <1>6
<1>7. ASSUME NEW r \in R PROVE \E p \in D : g[p] = r
  <2>1. PICK p \in D : f[p] = r
    BY <1>3
  <2>2. CASE p = k
    BY <1>2, <1>5, <2>1, <2>2
  <2>3. CASE p = k + 1
    BY <1>2, <1>5, <2>1, <2>3
  <2>4. CASE p # k /\ p # k + 1
    BY <1>5, <2>1, <2>4
  <2> QED
    BY <2>2, <2>3, <2>4
<1>8. g \in Bijection(D, R)
  BY <1>4, <1>6, <1>7 DEF Bijection, Injection, Surjection, IsInjective
<1>9. ASSUME NEW p \in D PROVE b[p] = s[g[p]]
  <2>1. b[p] = IF p = k THEN a[k + 1] ELSE IF p = k + 1 THEN a[k] ELSE a[p]
    BY DEF D
  <2>2. a[k] = s[f[k]] /\ a[k + 1] = s[f[k + 1]] /\ a[p] = s[f[p]]
    BY <1>1, <1>2
  <2>3. CASE p = k
    BY <1>5, <2>1, <2>2, <2>3
  <2>4. CASE p = k + 1
    BY <1>2, <1>5, <2>1, <2>2, <2>4
  <2>5. CASE p # k /\ p # k + 1
    BY <1>5, <2>1, <2>2, <2>5
  <2> QED
    BY <2>3, <2>4, <2>5
<1> QED
  BY <1>8, <1>9 DEF Permuted, D, R

\* x is the number behind k others when s is put in order.
RankOf(s, x, k) ==
  /\ Cardinality({p \in DOMAIN s : s[p] < x}) <= k
  /\ Cardinality({p \in DOMAIN s : s[p] <= x}) > k

\* There is one such number.
LEMMA RankUnique ==
  ASSUME NEW s \in Seq(Int), NEW k \in Nat, NEW x \in Int, NEW y \in Int,
         RankOf(s, x, k), RankOf(s, y, k)
  PROVE  x = y
<1>1. ASSUME NEW u \in Int, NEW v \in Int, RankOf(s, u, k), RankOf(s, v, k), u < v
      PROVE  FALSE
  <2> DEFINE U == {p \in DOMAIN s : s[p] <= u}
             V == {p \in DOMAIN s : s[p] < v}
  <2>1. DOMAIN s = 1 .. Len(s) /\ Len(s) \in Nat /\ \A p \in 1 .. Len(s) : s[p] \in Int
    BY LenProperties
  <2>2. IsFiniteSet(DOMAIN s)
    BY <2>1, FS_Interval
  <2>3. U \subseteq V
    BY <1>1, <2>1
  <2>4. IsFiniteSet(V) /\ IsFiniteSet(U)
    BY <2>2, FS_Subset
  <2>5. Cardinality(U) > k /\ Cardinality(V) <= k
    BY <1>1 DEF RankOf
  <2> HIDE DEF U, V
  <2>6. Cardinality(U) <= Cardinality(V)
    BY <2>3, <2>4, FS_Subset
  <2>7. Cardinality(U) \in Nat /\ Cardinality(V) \in Nat
    BY <2>4, FS_CardinalityType
  <2> QED
    BY <2>5, <2>6, <2>7
<1>2. ~(x < y) /\ ~(y < x)
  BY <1>1
<1> QED
  BY <1>2

\* In a sorted array it is the one at k.
LEMMA SortedRank ==
  ASSUME NEW s \in Seq(Int), NEW N \in Nat, N = Len(s), NEW a \in [0 .. N - 1 -> Int],
         Permuted(a, s, N), \A p, q \in 0 .. N - 1 : p <= q => a[p] <= a[q],
         NEW k \in 0 .. N - 1
  PROVE  a[k] \in Range(s) /\ RankOf(s, a[k], k)
<1> DEFINE D == 0 .. N - 1
           R == 1 .. N
           L == {p \in R : s[p] < a[k]}
           U == {p \in R : s[p] <= a[k]}
<1>1. PICK f \in Bijection(D, R) : \A p \in D : a[p] = s[f[p]]
  BY DEF Permuted
<1>2. /\ f \in [D -> R]
      /\ \A p, q \in D : f[p] = f[q] => p = q
      /\ \A r \in R : \E p \in D : f[p] = r
  BY <1>1 DEF Bijection, Injection, Surjection, IsInjective
<1>3. DOMAIN s = R /\ \A p \in R : s[p] \in Int
  BY LenProperties
<1>4. a[k] \in Range(s)
  BY <1>1, <1>2, <1>3 DEF Range
<1>5. IsFiniteSet(L) /\ IsFiniteSet(U)
  <2>1. IsFiniteSet(R)
    BY FS_Interval
  <2> QED
    BY <2>1, FS_Subset
<1>6. Cardinality(L) <= k
  <2> DEFINE g == [r \in L |-> CHOOSE p \in D : f[p] = r]
  <2>1. ASSUME NEW r \in L PROVE g[r] \in D /\ f[g[r]] = r
    BY <1>2
  <2>10. \A r \in L : r \in R /\ s[r] < a[k]
    OBVIOUS
  <2>8. DOMAIN g = L
    OBVIOUS
  <2>9. g = [r \in L |-> g[r]]
    OBVIOUS
  <2> HIDE DEF g, L, D
  <2>2. ASSUME NEW r \in L PROVE g[r] \in 0 .. k - 1
    <3>1. a[g[r]] = s[r] /\ s[r] < a[k] /\ g[r] \in D
      BY <1>1, <2>10, <2>1
    <3> USE DEF D
    <3>2. a[g[r]] \in Int /\ a[k] \in Int
      BY <3>1
    <3>3. ASSUME k <= g[r] PROVE FALSE
      <4>1. a[k] <= a[g[r]]
        BY <3>1, <3>3, Zenon
      <4>2. a[g[r]] < a[k]
        BY <3>1
      <4> QED
        BY <3>2, <4>1, <4>2
    <3>4. g[r] \in Nat /\ k \in Nat
      BY <3>1
    <3> QED
      BY <3>3, <3>4
  <2>3. g \in [L -> 0 .. k - 1]
    BY <2>2, <2>9
  <2>4. \A r, t \in L : g[r] = g[t] => r = t
    BY <2>1
  <2>5. g \in Injection(L, 0 .. k - 1)
    BY <2>3, <2>4, <2>8 DEF Injection, IsInjective
  <2>6. IsFiniteSet(0 .. k - 1) /\ Cardinality(0 .. k - 1) = k
    <3>1. Cardinality(0 .. k - 1) = IF 0 > k - 1 THEN 0 ELSE (k - 1) - 0 + 1
      BY FS_Interval
    <3>2. (IF 0 > k - 1 THEN 0 ELSE (k - 1) - 0 + 1) = k
      OBVIOUS
    <3> QED
      BY <3>1, <3>2, FS_Interval
  <2> QED
    BY <2>5, <2>6, FS_Injection
<1>7. Cardinality(U) > k
  <2> DEFINE g == [p \in 0 .. k |-> f[p]]
  <2>1. ASSUME NEW p \in 0 .. k PROVE p \in D /\ f[p] \in U
    <3>1. p \in D /\ p <= k
      OBVIOUS
    <3>2. a[p] <= a[k] /\ a[p] = s[f[p]] /\ f[p] \in R
      BY <1>1, <1>2, <3>1
    <3> QED
      BY <3>1, <3>2
  <2> HIDE DEF U, D
  <2>2. g \in [0 .. k -> U] /\ \A p, q \in 0 .. k : g[p] = g[q] => p = q
    BY <1>2, <2>1
  <2> HIDE DEF g
  <2>3. g \in Injection(0 .. k, U)
    BY <2>2 DEF Injection, IsInjective
  <2>4. Cardinality(0 .. k) = k + 1
    BY FS_Interval
  <2>5. Cardinality(0 .. k) <= Cardinality(U)
    BY <1>5, <2>3, FS_Injection
  <2>6. Cardinality(U) \in Nat
    BY <1>5, FS_CardinalityType
  <2> QED
    BY <2>4, <2>5, <2>6
<1> QED
  BY <1>3, <1>4, <1>6, <1>7 DEF RankOf

\* So Ranked() is what stands at k in the sorted array.
LEMMA RankedIs ==
  ASSUME args \in Seq(Int), NEW a \in [0 .. len - 1 -> Int], Permuted(a, args, len),
         TailSorted(a, len, len - 1), NEW k \in 0 .. len - 1
  PROVE  Ranked(k) = a[k]
<1>1. len \in Nat /\ len = Len(args)
  BY LenProperties DEF len
<1>2. ASSUME NEW p \in 0 .. len - 1, NEW q \in 0 .. len - 1, p <= q
      PROVE  a[p] <= a[q]
  <2>1. CASE q = 0
    <3>1. p = q /\ a[q] \in Int
      BY <1>1, <1>2, <2>1
    <3> QED
      BY <3>1
  <2>2. CASE q # 0
    <3>1. q >= len - (len - 1)
      BY <1>1, <2>2
    <3> QED
      BY <1>2, <3>1 DEF TailSorted
  <2> QED
    BY <2>1, <2>2
<1>3. a[k] \in Range(args) /\ RankOf(args, a[k], k)
  BY <1>1, <1>2, SortedRank
<1>4. Ranked(k) = CHOOSE x \in Range(args) : RankOf(args, x, k)
  BY DEF Ranked, RankOf
<1>5. Ranked(k) \in Range(args) /\ RankOf(args, Ranked(k), k)
  BY <1>3, <1>4
<1>6. Ranked(k) \in Int /\ a[k] \in Int
  <2>1. \A x \in Range(args) : x \in Int
    <3>1. args \in [1 .. Len(args) -> Int]
      BY LenProperties
    <3> QED
      BY <3>1 DEF Range
  <2> QED
    BY <1>5, <2>1
<1>7. k \in Nat
  BY <1>1
<1> QED
  BY <1>3, <1>5, <1>6, <1>7, RankUnique

-----------------------------------------------------------------------------
(* The inductive invariant.                                                *)

Threads == Scans \union {"myMed"}
Stages == {"none", "scan", "again", "squares", "swap", "exit"}

\* A scan that is in one of its loops has an element to look at.
ScanPlace ==
  \A t \in Scans :
    /\ at[t] # "swap"
    /\ at[t] = "none" => i[t] = 0
    /\ at[t] \in {"scan", "again", "squares"} => i[t] < len

\* The array with a swap that is under way completed, and the place up to which
\* the inner loop has carried the largest number.
whole == IF at["myMed"] = "swap" THEN [nums EXCEPT ![j + 1] = temp] ELSE nums
top == IF at["myMed"] = "swap" THEN j + 1 ELSE j

SortPlace ==
  /\ at["myMed"] \in {"none", "scan", "swap", "exit"}
  /\ at["myMed"] = "swap" => i["myMed"] < len - 1
  /\ i["myMed"] < len - 1 => j + 1 < len - i["myMed"]
  /\ len > 0 => i["myMed"] <= len - 1

\* The bubble sort only exchanges, and every round puts the largest number of
\* those not yet in order where it belongs.
Sorts ==
  /\ Permuted(whole, args, len)
  /\ TailSorted(whole, len, i["myMed"])
  /\ i["myMed"] < len - 1 => LargestAt(whole, top)

SortInv == SortPlace /\ Sorts /\ MedianRight
StatInv == StatTypeOK /\ ScanPlace /\ SortInv /\ RealUnlessTorn

\* What the lemmas on arrays need to know of the state.
LEMMA Sizes ==
  ASSUME StatTypeOK
  PROVE  /\ args \in Seq(Int) /\ len \in Nat /\ len = Len(args)
         /\ nums \in [0 .. len - 1 -> Int] /\ whole \in [0 .. len - 1 -> Int]
         /\ i["myMed"] \in Nat /\ j \in Nat /\ temp \in Int
<1>1. args \in Seq(Int)
  BY NumbersAndThreads DEF StatTypeOK
<1>2. len \in Nat /\ len = Len(args)
  BY <1>1, LenProperties DEF len
<1>3. nums \in [0 .. len - 1 -> Int] /\ j \in 0 .. len /\ temp \in Int
      /\ i["myMed"] \in 0 .. len
  BY DEF StatTypeOK
<1>4. whole \in [0 .. len - 1 -> Int]
  BY <1>3 DEF whole
<1> QED
  BY <1>1, <1>2, <1>3, <1>4

\* main() has copied the arguments into the array and no thread has run.
LEMMA StatInitInv == StatInit => StatInv
<1> SUFFICES ASSUME StatInit PROVE StatInv
  OBVIOUS
<1>1. args \in Seq(Int) /\ len \in Nat /\ len = Len(args)
  <2>1. args \in Seq(Int)
    BY NumbersAndThreads DEF StatInit
  <2> QED
    BY <2>1, LenProperties DEF len
<1>2. nums \in [0 .. len - 1 -> Int]
  <2>1. ASSUME NEW k \in 0 .. len - 1 PROVE args[k + 1] \in Int
    <3>1. k + 1 \in 1 .. Len(args)
      BY <1>1
    <3> QED
      BY <1>1, <3>1, ElementOfSeq
  <2> QED
    BY <2>1 DEF StatInit, given
<1>3. /\ at = [t \in Threads |-> "none"] /\ i = [t \in Threads |-> 0]
      /\ result = [t \in Scans |-> 0]
  BY DEF StatInit, Threads
<1>4. /\ i["myMed"] = 0 /\ at["myMed"] = "none" /\ \A t \in Scans : at[t] = "none"
  BY <1>3 DEF Threads
<1>5. StatTypeOK
  <2>1. /\ at \in [Threads -> Stages] /\ i \in [Threads -> 0 .. len]
        /\ result \in [Scans -> Int] /\ j \in 0 .. len
    <3>1. 0 \in 0 .. len /\ "none" \in Stages
      BY <1>1 DEF Stages
    <3>2. j = 0
      BY DEF StatInit
    <3> QED
      BY <1>3, <3>1, <3>2
  <2>2. /\ args \in ArgumentLists /\ scans \in ThreadSets
        /\ main \in {"join", "usage", "printed"}
        /\ \A x \in {temp, r_med, mean, read} : x \in Int
    BY DEF StatInit
  <2>3. disturbed \subseteq scans /\ tornSquare \in BOOLEAN
    BY DEF StatInit
  <2> QED
    BY <1>2, <2>1, <2>2, <2>3 DEF StatTypeOK, Threads, Stages
<1>6. ScanPlace
  BY <1>3, <1>4 DEF ScanPlace, Threads
<1>7. SortPlace
  BY <1>1, <1>4 DEF SortPlace, StatInit
<1>8. whole = nums /\ top = 0
  BY <1>4 DEF whole, top, StatInit
<1>9. Permuted(nums, args, len)
  <2> DEFINE f == [k \in 0 .. len - 1 |-> k + 1]
  <2>1. f \in [0 .. len - 1 -> 1 .. len]
    BY <1>1
  <2>2. \A p, q \in 0 .. len - 1 : f[p] = f[q] => p = q
    BY <1>1
  <2>3. ASSUME NEW r \in 1 .. len PROVE \E p \in 0 .. len - 1 : f[p] = r
    <3>1. r - 1 \in 0 .. len - 1 /\ (r - 1) + 1 = r
      BY <1>1
    <3>2. f[r - 1] = r
      BY <3>1
    <3> QED
      BY <3>1, <3>2
  <2>4. \A p \in 0 .. len - 1 : nums[p] = args[f[p]]
    BY DEF StatInit, given
  <2> HIDE DEF f
  <2>5. f \in Bijection(0 .. len - 1, 1 .. len)
    BY <2>1, <2>2, <2>3 DEF Bijection, Injection, Surjection, IsInjective
  <2> QED
    BY <2>4, <2>5 DEF Permuted
<1>10. TailSorted(nums, len, 0)
  BY <1>1 DEF TailSorted
<1>11. 0 < len - 1 => LargestAt(nums, 0)
  <2> SUFFICES ASSUME 0 < len - 1 PROVE LargestAt(nums, 0)
    OBVIOUS
  <2>1. nums[0] \in Int
    BY <1>1, <1>2
  <2>2. \A p \in 0 .. 0 : p = 0
    OBVIOUS
  <2> QED
    BY <2>1, <2>2 DEF LargestAt
<1>12. Sorts
  BY <1>4, <1>8, <1>9, <1>10, <1>11 DEF Sorts
<1>13. MedianRight /\ RealUnlessTorn
  BY <1>3, <1>4 DEF MedianRight, RealUnlessTorn, Scans
<1> QED
  BY <1>5, <1>6, <1>7, <1>12, <1>13 DEF StatInv, SortInv

\* The sort is not disturbed by anyone.
LEMMA OthersKeepSort ==
  ASSUME StatInv, UNCHANGED <<args, sortVars>>, i'["myMed"] = i["myMed"],
         at'["myMed"] = at["myMed"]
  PROVE  SortInv'
<1>1. UNCHANGED <<nums, j, temp, r_med>> /\ UNCHANGED args /\ len' = len
  BY DEF sortVars, len
<1>2. whole' = whole /\ top' = top
  BY <1>1 DEF whole, top
<1>3. SortPlace'
  BY <1>1 DEF StatInv, SortInv, SortPlace
<1>4. Sorts'
  BY <1>1, <1>2 DEF StatInv, SortInv, Sorts
<1>5. \A k : Ranked(k)' = Ranked(k)
  BY <1>1 DEF Ranked
<1>6. MedianRight'
  BY <1>1, <1>5 DEF StatInv, SortInv, MedianRight
<1> QED
  BY <1>3, <1>4, <1>6 DEF SortInv

\* A scan goes on to the next element, or out of the loop.
LEMMA RoundKeeps ==
  ASSUME StatInv, NEW t \in Scans, i[t] < len, UNCHANGED args,
         NEW here \in {"scan", "squares"}, NEW after \in {"squares", "exit"},
         NextRound(t, here, after)
  PROVE  /\ i' \in [Threads -> 0 .. len] /\ at' \in [Threads -> Stages]
         /\ i'["myMed"] = i["myMed"] /\ at'["myMed"] = at["myMed"]
         /\ ScanPlace'
<1>1. /\ i \in [Threads -> 0 .. len] /\ at \in [Threads -> Stages] /\ len \in Nat
      /\ t \in Threads /\ t # "myMed" /\ "myMed" \in Threads
      /\ here \in Stages /\ after \in Stages
  BY Sizes DEF StatInv, StatTypeOK, Threads, Stages, Scans
<1>2. len' = len
  BY DEF len
<1>3. CASE i[t] + 1 < len
  <2>1. i' = [i EXCEPT ![t] = i[t] + 1] /\ at' = [at EXCEPT ![t] = here]
    BY <1>3 DEF NextRound
  <2>2. i[t] \in 0 .. len /\ i[t] + 1 \in 0 .. len
    BY <1>1, <1>3
  <2>3. ScanPlace'
    BY <1>1, <1>2, <1>3, <2>1 DEF ScanPlace, StatInv, Threads
  <2> QED
    BY <1>1, <2>1, <2>2, <2>3
<1>4. CASE ~(i[t] + 1 < len)
  <2>1. i' = [i EXCEPT ![t] = 0] /\ at' = [at EXCEPT ![t] = after]
    BY <1>4 DEF NextRound
  <2>2. i[t] \in 0 .. len /\ 0 < len /\ 0 \in 0 .. len
    BY <1>1
  <2>3. ScanPlace'
    BY <1>1, <1>2, <2>1, <2>2 DEF ScanPlace, StatInv, Threads
  <2> QED
    BY <1>1, <2>1, <2>2, <2>3
<1> QED
  BY <1>3, <1>4

\* What a step that leaves the sort alone has to show.
LEMMA OtherStep ==
  ASSUME StatInv, UNCHANGED <<args, scans, sortVars>>,
         main' \in {"join", "usage", "printed"},
         i' \in [Threads -> 0 .. len], at' \in [Threads -> Stages],
         i'["myMed"] = i["myMed"], at'["myMed"] = at["myMed"], ScanPlace',
         result' \in [Scans -> Int], mean' \in Int, read' \in Int,
         disturbed' \subseteq scans, tornSquare' \in BOOLEAN, RealUnlessTorn'
  PROVE  StatInv'
<1>1. UNCHANGED <<args, scans, nums, j, temp, r_med>> /\ len' = len
  BY DEF sortVars, len
<1>2. StatTypeOK'
  <2>1. args \in ArgumentLists /\ scans \in ThreadSets /\ j \in 0 .. len
        /\ nums \in [0 .. len - 1 -> Int] /\ temp \in Int /\ r_med \in Int
    BY DEF StatInv, StatTypeOK
  <2> QED
    BY <1>1, <2>1 DEF StatTypeOK, Threads, Stages
<1> QED
  BY <1>2, OthersKeepSort DEF StatInv

\* What the scans may rely on.
LEMMA ScanFacts ==
  ASSUME StatInv
  PROVE  /\ i \in [Threads -> 0 .. len] /\ at \in [Threads -> Stages] /\ len \in Nat
         /\ result \in [Scans -> Int] /\ mean \in Int /\ read \in Int
         /\ disturbed \subseteq scans /\ tornSquare \in BOOLEAN
         /\ main \in {"join", "usage", "printed"}
         /\ nums \in [0 .. len - 1 -> Int] /\ scans \subseteq Scans
         /\ \A t \in Scans : t \in Threads /\ t # "myMed"
         /\ \A t \in Scans : at[t] \in {"scan", "again", "squares"} =>
              i[t] < len /\ i[t] \in 0 .. len - 1 /\ nums[i[t]] \in Int
<1>1. /\ i \in [Threads -> 0 .. len] /\ at \in [Threads -> Stages] /\ len \in Nat
      /\ result \in [Scans -> Int] /\ mean \in Int /\ read \in Int
      /\ disturbed \subseteq scans /\ tornSquare \in BOOLEAN
      /\ main \in {"join", "usage", "printed"}
      /\ nums \in [0 .. len - 1 -> Int]
  BY Sizes DEF StatInv, StatTypeOK, Threads, Stages
<1>2. scans \subseteq Scans
  BY NumbersAndThreads DEF StatInv, StatTypeOK
<1>3. \A t \in Scans : t \in Threads /\ t # "myMed"
  BY DEF Threads, Scans
<1>4. ASSUME NEW t \in Scans, at[t] \in {"scan", "again", "squares"}
      PROVE  i[t] < len /\ i[t] \in 0 .. len - 1 /\ nums[i[t]] \in Int
  <2>1. i[t] < len /\ i[t] \in 0 .. len
    BY <1>1, <1>3, <1>4 DEF StatInv, ScanPlace
  <2> QED
    BY <1>1, <2>1
<1> QED
  BY <1>1, <1>2, <1>3, <1>4

\* main() only reports.
LEMMA MainKeeps ==
  ASSUME StatInv, Usage \/ PrintResults
  PROVE  StatInv'
<1>1. /\ UNCHANGED <<args, scans, at, i, disturbed, scanVars, sortVars>>
      /\ main' \in {"join", "usage", "printed"}
  BY DEF Usage, PrintResults
<1>2. UNCHANGED <<result, mean, read, tornSquare>> /\ len' = len
  BY <1>1 DEF scanVars, len
<1>3. ScanPlace' /\ RealUnlessTorn'
  BY <1>1, <1>2 DEF StatInv, ScanPlace, RealUnlessTorn
<1> QED
  BY <1>1, <1>2, <1>3, ScanFacts, OtherStep

\* A thread that starts to scan is at the first element.
LEMMA StartScanKeeps ==
  ASSUME StatInv, NEW t \in Scans, StartScan(t)
  PROVE  StatInv'
<1>1. /\ main = "join" /\ len > 0 /\ t \in scans /\ at[t] = "none"
      /\ at' = [at EXCEPT ![t] = "scan"]
      /\ result' = [result EXCEPT ![t] =
                      IF t \in {"myMin", "myMax"} THEN nums[0] ELSE 0]
      /\ disturbed' = IF at["myMed"] = "swap" THEN disturbed \union {t} ELSE disturbed
      /\ UNCHANGED <<args, scans, main, i, mean, read, tornSquare, sortVars>>
  BY DEF StartScan
<1>2. /\ i \in [Threads -> 0 .. len] /\ at \in [Threads -> Stages] /\ len \in Nat
      /\ t \in Threads /\ t # "myMed" /\ "scan" \in Stages
  BY ScanFacts DEF Stages
<1>3. at' \in [Threads -> Stages] /\ at'["myMed"] = at["myMed"]
  BY <1>1, <1>2
<1>4. ScanPlace'
  <2>1. len' = len
    BY <1>1 DEF len
  <2> QED
    BY <1>1, <1>2, <2>1 DEF StatInv, ScanPlace, Threads
<1>5. result' \in [Scans -> Int]
  <2>1. nums[0] \in Int
    BY <1>1, ScanFacts
  <2> QED
    BY <1>1, <2>1, ScanFacts
<1>6. RealUnlessTorn'
  <2>1. result'["myStdDev"] \in {result["myStdDev"], 0}
    BY <1>1, ScanFacts DEF Scans
  <2> QED
    BY <1>1, <2>1 DEF StatInv, RealUnlessTorn
<1>7. disturbed' \subseteq scans
  BY <1>1, ScanFacts
<1> QED
  BY <1>1, <1>2, <1>3, <1>4, <1>5, <1>6, <1>7, ScanFacts, OtherStep

\* The condition of the if in myMin() and myMax().
LEMMA CompareKeeps ==
  ASSUME StatInv, NEW t \in Scans, Compare(t)
  PROVE  StatInv'
<1>1. /\ at[t] = "scan" /\ UNCHANGED <<args, scans, main, disturbed, scanVars,
                                       sortVars>>
      /\ \/ at' = [at EXCEPT ![t] = "again"] /\ UNCHANGED i
         \/ NextRound(t, "scan", "exit")
  BY DEF Compare
<1>2. UNCHANGED <<result, mean, read, tornSquare>> /\ len' = len
  BY <1>1 DEF scanVars, len
<1>3. /\ i[t] < len /\ t \in Threads /\ t # "myMed" /\ "again" \in Stages
      /\ i \in [Threads -> 0 .. len] /\ at \in [Threads -> Stages]
  BY <1>1, ScanFacts DEF Stages
<1>4. /\ i' \in [Threads -> 0 .. len] /\ at' \in [Threads -> Stages]
      /\ i'["myMed"] = i["myMed"] /\ at'["myMed"] = at["myMed"]
      /\ ScanPlace'
  <2>1. CASE at' = [at EXCEPT ![t] = "again"] /\ UNCHANGED i
    <3>1. ScanPlace'
      BY <1>2, <1>3, <2>1 DEF StatInv, ScanPlace, Threads
    <3> QED
      BY <1>3, <2>1, <3>1
  <2>2. CASE NextRound(t, "scan", "exit")
    BY <1>1, <1>3, <2>2, RoundKeeps
  <2> QED
    BY <1>1, <2>1, <2>2
<1>5. RealUnlessTorn'
  BY <1>2 DEF StatInv, RealUnlessTorn
<1> QED
  BY <1>1, <1>2, <1>4, <1>5, ScanFacts, OtherStep

\* The assignment under it.
LEMMA TakeKeeps ==
  ASSUME StatInv, NEW t \in Scans, Take(t)
  PROVE  StatInv'
<1>1. /\ t \in {"myMin", "myMax"} /\ at[t] = "again"
      /\ result' = [result EXCEPT ![t] = nums[i[t]]]
      /\ NextRound(t, "scan", "exit")
      /\ UNCHANGED <<args, scans, main, disturbed, mean, read, tornSquare,
                     sortVars>>
  BY DEF Take
<1>2. i[t] < len /\ nums[i[t]] \in Int /\ result \in [Scans -> Int]
  BY <1>1, ScanFacts
<1>3. result' \in [Scans -> Int] /\ result'["myStdDev"] = result["myStdDev"]
  BY <1>1, <1>2 DEF Scans
<1>4. RealUnlessTorn'
  BY <1>1, <1>3 DEF StatInv, RealUnlessTorn
<1>5. /\ i' \in [Threads -> 0 .. len] /\ at' \in [Threads -> Stages]
      /\ i'["myMed"] = i["myMed"] /\ at'["myMed"] = at["myMed"]
      /\ ScanPlace'
  BY <1>1, <1>2, RoundKeeps
<1> QED
  BY <1>1, <1>3, <1>4, <1>5, ScanFacts, OtherStep

\* The loop of myAvg().
LEMMA AverageKeeps ==
  ASSUME StatInv, Add
  PROVE  StatInv'
<1> DEFINE t == "myAvg"
<1>1. /\ t \in Scans /\ at[t] = "scan"
      /\ result' = [result EXCEPT ![t] = result[t] + nums[i[t]]]
      /\ NextRound(t, "scan", "exit")
      /\ UNCHANGED <<args, scans, main, disturbed, mean, read, tornSquare,
                     sortVars>>
  BY DEF Add, Scans
<1>2. i[t] < len /\ nums[i[t]] \in Int /\ result \in [Scans -> Int]
  BY <1>1, ScanFacts
<1>3. result' \in [Scans -> Int] /\ result'["myStdDev"] = result["myStdDev"]
  <2>1. result[t] + nums[i[t]] \in Int
    BY <1>1, <1>2
  <2> QED
    BY <1>1, <1>2, <2>1 DEF Scans
<1>4. RealUnlessTorn'
  BY <1>1, <1>3 DEF StatInv, RealUnlessTorn
<1>5. /\ i' \in [Threads -> 0 .. len] /\ at' \in [Threads -> Stages]
      /\ i'["myMed"] = i["myMed"] /\ at'["myMed"] = at["myMed"]
      /\ ScanPlace'
  BY <1>1, <1>2, RoundKeeps
<1> QED
  BY <1>1, <1>3, <1>4, <1>5, ScanFacts, OtherStep

\* The first loop of myStdDev().
LEMMA MeanKeeps ==
  ASSUME StatInv, AddToMean
  PROVE  StatInv'
<1> DEFINE t == "myStdDev"
<1>1. /\ t \in Scans /\ at[t] = "scan" /\ mean' = mean + nums[i[t]]
      /\ NextRound(t, "scan", "squares")
      /\ UNCHANGED <<args, scans, main, disturbed, result, read, tornSquare,
                     sortVars>>
  BY DEF AddToMean, Scans
<1>2. i[t] < len /\ nums[i[t]] \in Int /\ mean \in Int
  BY <1>1, ScanFacts
<1>3. mean' \in Int
  BY <1>1, <1>2
<1>4. RealUnlessTorn'
  BY <1>1 DEF StatInv, RealUnlessTorn
<1>5. /\ i' \in [Threads -> 0 .. len] /\ at' \in [Threads -> Stages]
      /\ i'["myMed"] = i["myMed"] /\ at'["myMed"] = at["myMed"]
      /\ ScanPlace'
  BY <1>1, <1>2, RoundKeeps
<1> QED
  BY <1>1, <1>3, <1>4, <1>5, ScanFacts, OtherStep

\* The first read of an element to be squared.
LEMMA FactorKeeps ==
  ASSUME StatInv, ReadFactor
  PROVE  StatInv'
<1> DEFINE t == "myStdDev"
<1>1. /\ t \in Scans /\ at[t] = "squares" /\ read' = nums[i[t]]
      /\ at' = [at EXCEPT ![t] = "again"]
      /\ UNCHANGED <<args, scans, main, i, disturbed, result, mean, tornSquare,
                     sortVars>>
  BY DEF ReadFactor, Scans
<1>2. /\ i[t] < len /\ nums[i[t]] \in Int /\ t \in Threads /\ t # "myMed"
      /\ "again" \in Stages /\ i \in [Threads -> 0 .. len] /\ at \in [Threads -> Stages]
  BY <1>1, ScanFacts DEF Stages
<1>3. RealUnlessTorn'
  BY <1>1 DEF StatInv, RealUnlessTorn
<1>4. ScanPlace'
  <2>1. len' = len
    BY <1>1 DEF len
  <2> QED
    BY <1>1, <1>2, <2>1 DEF StatInv, ScanPlace, Threads
<1>5. at' \in [Threads -> Stages] /\ at'["myMed"] = at["myMed"]
  BY <1>1, <1>2
<1> QED
  BY <1>1, <1>2, <1>3, <1>4, <1>5, ScanFacts, OtherStep

\* Two reads of one number give a square, which is not negative.
LEMMA SquareKeeps ==
  ASSUME StatInv, AddSquare
  PROVE  StatInv'
<1> DEFINE t == "myStdDev"
           other == nums[i[t]]
           product == (len * read - mean) * (len * other - mean)
<1>1. /\ t \in Scans /\ at[t] = "again"
      /\ result' = [result EXCEPT ![t] = result[t] + product]
      /\ tornSquare' = (tornSquare \/ read # other)
      /\ NextRound(t, "squares", "exit")
      /\ UNCHANGED <<args, scans, main, disturbed, mean, read, sortVars>>
  BY DEF AddSquare, Scans
<1>2. i[t] < len /\ other \in Int /\ result \in [Scans -> Int] /\ mean \in Int
      /\ read \in Int /\ len \in Nat
  BY <1>1, ScanFacts
<1> HIDE DEF other
<1>3. len * read - mean \in Int /\ len * other - mean \in Int
  BY <1>2
<1>4. \A x, y \in Int : x * y \in Int /\ x * x >= 0
  OBVIOUS
<1>5. product \in Int /\ (read = other => product >= 0)
  BY <1>3, <1>4
<1> HIDE DEF product
<1>6. result' \in [Scans -> Int] /\ result'[t] = result[t] + product
  BY <1>1, <1>2, <1>5
<1>7. RealUnlessTorn'
  <2> SUFFICES ASSUME ~tornSquare' PROVE ~(result'[t] < 0)
    BY DEF RealUnlessTorn
  <2>1. ~tornSquare /\ read = other
    BY <1>1
  <2>2. ~(result[t] < 0) /\ result[t] \in Int
    BY <1>1, <1>2, <2>1 DEF StatInv, RealUnlessTorn
  <2> QED
    BY <1>5, <1>6, <2>1, <2>2
<1>8. tornSquare' \in BOOLEAN
  BY <1>1
<1>9. /\ i' \in [Threads -> 0 .. len] /\ at' \in [Threads -> Stages]
      /\ i'["myMed"] = i["myMed"] /\ at'["myMed"] = at["myMed"]
      /\ ScanPlace'
  BY <1>1, <1>2, RoundKeeps
<1> QED
  BY <1>1, <1>2, <1>6, <1>7, <1>8, <1>9, ScanFacts, OtherStep

-----------------------------------------------------------------------------
(* The steps of the sort.                                                  *)

\* What a step of the sort has to show.
LEMMA SortStep ==
  ASSUME StatInv, UNCHANGED <<args, scans, main, scanVars>>,
         i' \in [Threads -> 0 .. len], at' \in [Threads -> Stages],
         \A t \in Scans : i'[t] = i[t] /\ at'[t] = at[t],
         nums' \in [0 .. len - 1 -> Int], j' \in 0 .. len,
         temp' \in Int, r_med' \in Int, disturbed' \subseteq scans, SortInv'
  PROVE  StatInv'
<1>1. UNCHANGED <<result, mean, read, tornSquare>> /\ len' = len
  BY DEF scanVars, len
<1>2. StatTypeOK'
  <2>1. args \in ArgumentLists /\ scans \in ThreadSets
        /\ main \in {"join", "usage", "printed"} /\ result \in [Scans -> Int]
        /\ mean \in Int /\ read \in Int /\ tornSquare \in BOOLEAN
    BY DEF StatInv, StatTypeOK
  <2> QED
    BY <1>1, <2>1 DEF StatTypeOK, Threads, Stages
<1>3. ScanPlace'
  BY <1>1 DEF StatInv, ScanPlace
<1>4. RealUnlessTorn'
  BY <1>1 DEF StatInv, RealUnlessTorn
<1> QED
  BY <1>2, <1>3, <1>4 DEF StatInv

\* The loops go on behind a pair that is in order.
LEMMA NextPairKeeps ==
  ASSUME StatInv, i["myMed"] < len - 1, NEW a \in [0 .. len - 1 -> Int],
         TailSorted(a, len, i["myMed"]), LargestAt(a, j + 1), NextPair
  PROVE  /\ i' \in [Threads -> 0 .. len] /\ j' \in 0 .. len
         /\ \A t \in Scans : i'[t] = i[t]
         /\ i'["myMed"] <= len - 1
         /\ i'["myMed"] < len - 1 => j' + 1 < len - i'["myMed"]
         /\ TailSorted(a, len, i'["myMed"]) /\ LargestAt(a, j')
<1> DEFINE m == i["myMed"]
<1>1. /\ i \in [Threads -> 0 .. len] /\ len \in Nat /\ m \in Nat /\ j \in Nat
      /\ j + 1 < len - m /\ "myMed" \in Threads /\ "myMed" \notin Scans
  BY Sizes, ScanFacts DEF StatInv, SortInv, SortPlace, Threads, Scans
<1>2. IF j + 1 < len - m - 1 THEN j' = j + 1 /\ i' = i
                             ELSE j' = 0 /\ i' = [i EXCEPT !["myMed"] = m + 1]
  BY DEF NextPair
<1>3. m + 1 \in 0 .. len /\ j + 1 \in 0 .. len /\ 0 \in 0 .. len
  BY <1>1
<1>4. /\ i' \in [Threads -> 0 .. len] /\ j' \in 0 .. len
      /\ \A t \in Scans : i'[t] = i[t]
  <2> HIDE DEF m
  <2>1. CASE j + 1 < len - m - 1
    <3>1. j' = j + 1 /\ i' = i
      BY <1>2, <2>1
    <3> QED
      BY <1>1, <1>3, <3>1
  <2>2. CASE ~(j + 1 < len - m - 1)
    <3>1. j' = 0 /\ i' = [i EXCEPT !["myMed"] = m + 1]
      BY <1>2, <2>2
    <3>2. \A t \in Scans : i'[t] = i[t]
      BY <1>1, <3>1 DEF Threads
    <3> QED
      BY <1>1, <1>3, <3>1, <3>2
  <2> QED
    BY <2>1, <2>2
<1>5. IF j + 1 < len - m - 1 THEN j' = j + 1 /\ i'["myMed"] = m
                             ELSE j' = 0 /\ i'["myMed"] = m + 1
  BY <1>1, <1>2
<1> HIDE DEF m
<1>6. i'["myMed"] <= len - 1 /\ (i'["myMed"] < len - 1 => j' + 1 < len - i'["myMed"])
  BY <1>1, <1>5 DEF m
<1>7. TailSorted(a, len, i'["myMed"]) /\ LargestAt(a, j')
  BY <1>1, <1>5, NextPairOrdered DEF m
<1> QED
  BY <1>4, <1>6, <1>7

\* A pair that is in order already: the larger one is the largest so far.
LEMMA KeepPairKeeps ==
  ASSUME StatInv, KeepPair
  PROVE  StatInv'
<1>1. /\ at["myMed"] \in {"none", "scan"} /\ i["myMed"] < len - 1
      /\ nums[j + 1] >= nums[j] /\ at' = [at EXCEPT !["myMed"] = "scan"] /\ NextPair
      /\ UNCHANGED <<args, scans, main, disturbed, nums, temp, r_med, scanVars>>
  BY DEF KeepPair, Sorting
<1>2. /\ len \in Nat /\ nums \in [0 .. len - 1 -> Int] /\ j \in Nat /\ i["myMed"] \in Nat
      /\ temp \in Int /\ whole = nums /\ top = j
  BY <1>1, Sizes DEF StatInv, whole, top
<1>3. /\ j + 1 < len - i["myMed"] /\ TailSorted(nums, len, i["myMed"])
      /\ LargestAt(nums, j) /\ Permuted(nums, args, len)
  BY <1>1, <1>2 DEF StatInv, SortInv, SortPlace, Sorts
<1>4. LargestAt(nums, j + 1)
  <2>1. j \in 0 .. len - 1 /\ j + 1 \in 0 .. len - 1
    BY <1>2, <1>3
  <2>2. ASSUME NEW p \in 0 .. j + 1 PROVE nums[p] <= nums[j + 1]
    <3>1. p \in 0 .. j \/ p = j + 1
      BY <1>2
    <3>2. nums[p] \in Int /\ nums[j] \in Int /\ nums[j + 1] \in Int
      BY <1>2, <1>3, <2>1
    <3>3. p \in 0 .. j => nums[p] <= nums[j]
      BY <1>3 DEF LargestAt
    <3> QED
      BY <1>1, <3>1, <3>2, <3>3
  <2> QED
    BY <2>2 DEF LargestAt
<1>5. /\ i' \in [Threads -> 0 .. len] /\ j' \in 0 .. len
      /\ \A t \in Scans : i'[t] = i[t]
      /\ i'["myMed"] <= len - 1
      /\ i'["myMed"] < len - 1 => j' + 1 < len - i'["myMed"]
      /\ TailSorted(nums, len, i'["myMed"]) /\ LargestAt(nums, j')
  BY <1>1, <1>2, <1>3, <1>4, NextPairKeeps
<1>6. /\ at' \in [Threads -> Stages] /\ at'["myMed"] = "scan"
      /\ \A t \in Scans : at'[t] = at[t]
  BY <1>1, ScanFacts DEF Stages, Threads
<1>7. whole' = nums /\ top' = j' /\ len' = len /\ UNCHANGED args
  BY <1>1, <1>6 DEF whole, top, len
<1>8. SortInv'
  BY <1>3, <1>5, <1>6, <1>7 DEF SortInv, SortPlace, Sorts, MedianRight
<1>9. nums' \in [0 .. len - 1 -> Int] /\ temp' \in Int /\ r_med' \in Int
      /\ disturbed' \subseteq scans
  BY <1>1, <1>2 DEF StatInv, StatTypeOK
<1> QED
  BY <1>1, <1>5, <1>6, <1>8, <1>9, SortStep

\* The first store of a swap: with the second one the pair will be in order.
LEMMA SwapFirstKeeps ==
  ASSUME StatInv, SwapFirst
  PROVE  StatInv'
<1>1. /\ at["myMed"] \in {"none", "scan"} /\ i["myMed"] < len - 1
      /\ nums[j + 1] < nums[j] /\ at' = [at EXCEPT !["myMed"] = "swap"]
      /\ temp' = nums[j] /\ nums' = [nums EXCEPT ![j] = nums[j + 1]]
      /\ UNCHANGED <<args, scans, main, i, j, r_med, scanVars>> /\ Disturb
  BY DEF SwapFirst, Sorting
<1>2. /\ len \in Nat /\ nums \in [0 .. len - 1 -> Int] /\ j \in Nat /\ i["myMed"] \in Nat
      /\ whole = nums /\ top = j
  BY <1>1, Sizes DEF StatInv, whole, top
<1>3. /\ j + 1 < len - i["myMed"] /\ TailSorted(nums, len, i["myMed"])
      /\ LargestAt(nums, j) /\ Permuted(nums, args, len)
  BY <1>1, <1>2 DEF StatInv, SortInv, SortPlace, Sorts
<1>4. j \in 0 .. len - 1 /\ j + 1 \in 0 .. len - 1 /\ j + 1 < len /\ j # j + 1
  BY <1>2, <1>3
<1>5. /\ nums' \in [0 .. len - 1 -> Int] /\ temp' \in Int
  BY <1>1, <1>2, <1>4
<1>6. /\ at' \in [Threads -> Stages] /\ at'["myMed"] = "swap"
      /\ \A t \in Scans : at'[t] = at[t]
  BY <1>1, ScanFacts DEF Stages, Threads
<1>7. top' = j + 1 /\ len' = len /\ UNCHANGED <<args, i, j>>
  BY <1>1, <1>6 DEF top, len
<1>8. whole' = [nums' EXCEPT ![j + 1] = nums[j]]
  BY <1>1, <1>6, <1>7 DEF whole
<1> DEFINE b == [nums' EXCEPT ![j + 1] = nums[j]]
<1>9. /\ b \in [0 .. len - 1 -> Int]
      /\ \A p \in 0 .. len - 1 : b[p] = IF p = j THEN nums[j + 1]
                                        ELSE IF p = j + 1 THEN nums[j] ELSE nums[p]
  BY <1>1, <1>2, <1>4, <1>5
<1> HIDE DEF b
<1>10. TailSorted(b, len, i["myMed"]) /\ LargestAt(b, j + 1)
  BY <1>1, <1>2, <1>3, <1>9, ExchangeOrdered
<1>11. Permuted(b, args, len)
  BY <1>2, <1>3, <1>4, <1>9, ExchangePermuted
<1>12. SortInv'
  <2>1. SortPlace'
    BY <1>1, <1>6, <1>7 DEF StatInv, SortInv, SortPlace
  <2>2. Sorts'
    BY <1>7, <1>8, <1>10, <1>11 DEF Sorts, b
  <2> QED
    BY <1>6, <2>1, <2>2 DEF SortInv, MedianRight
<1>13. disturbed' \subseteq scans
  BY <1>1, ScanFacts DEF Disturb
<1>14. i' \in [Threads -> 0 .. len] /\ j' \in 0 .. len /\ r_med' \in Int
  BY <1>1, ScanFacts DEF StatInv, StatTypeOK
<1> QED
  BY <1>1, <1>5, <1>6, <1>12, <1>13, <1>14, SortStep

\* The second store, after which the array is what the first one promised.
LEMMA SwapSecondKeeps ==
  ASSUME StatInv, SwapSecond
  PROVE  StatInv'
<1>1. /\ at["myMed"] = "swap" /\ at' = [at EXCEPT !["myMed"] = "scan"]
      /\ nums' = [nums EXCEPT ![j + 1] = temp] /\ NextPair
      /\ UNCHANGED <<args, scans, main, temp, r_med, scanVars>> /\ Disturb
  BY DEF SwapSecond
<1>2. /\ len \in Nat /\ nums \in [0 .. len - 1 -> Int] /\ j \in Nat /\ i["myMed"] \in Nat
      /\ temp \in Int /\ whole = nums' /\ top = j + 1
      /\ whole \in [0 .. len - 1 -> Int]
  BY <1>1, Sizes DEF StatInv, whole, top
<1>3. i["myMed"] < len - 1
  BY <1>1 DEF StatInv, SortInv, SortPlace
<1>4. /\ TailSorted(nums', len, i["myMed"]) /\ LargestAt(nums', j + 1)
      /\ Permuted(nums', args, len)
  BY <1>2, <1>3 DEF StatInv, SortInv, Sorts
<1> DEFINE b == nums'
<1>5. b \in [0 .. len - 1 -> Int] /\ TailSorted(b, len, i["myMed"]) /\ LargestAt(b, j + 1)
  BY <1>2, <1>4
<1> HIDE DEF b
<1>6. /\ i' \in [Threads -> 0 .. len] /\ j' \in 0 .. len
      /\ \A t \in Scans : i'[t] = i[t]
      /\ i'["myMed"] <= len - 1
      /\ i'["myMed"] < len - 1 => j' + 1 < len - i'["myMed"]
      /\ TailSorted(b, len, i'["myMed"]) /\ LargestAt(b, j')
  BY <1>1, <1>3, <1>5, NextPairKeeps
<1>7. /\ at' \in [Threads -> Stages] /\ at'["myMed"] = "scan"
      /\ \A t \in Scans : at'[t] = at[t]
  BY <1>1, ScanFacts DEF Stages, Threads
<1>8. whole' = nums' /\ top' = j' /\ len' = len /\ UNCHANGED args
  BY <1>1, <1>7 DEF whole, top, len
<1>9. SortInv'
  BY <1>4, <1>6, <1>7, <1>8 DEF SortInv, SortPlace, Sorts, MedianRight, b
<1>10. nums' \in [0 .. len - 1 -> Int] /\ temp' \in Int /\ r_med' \in Int
  BY <1>1, <1>2 DEF StatInv, StatTypeOK
<1>11. disturbed' \subseteq scans
  BY <1>1, ScanFacts DEF Disturb
<1> QED
  BY <1>1, <1>6, <1>7, <1>9, <1>10, <1>11, SortStep

\* When the last round is done the middle of the array is the median.
LEMMA MedianKeeps ==
  ASSUME StatInv, Median
  PROVE  StatInv'
<1>1. /\ at["myMed"] \in {"none", "scan"} /\ len > 0 /\ ~Sorting
      /\ r_med' = nums[len \div 2] + nums[(len - 1) \div 2]
      /\ at' = [at EXCEPT !["myMed"] = "exit"]
      /\ UNCHANGED <<args, scans, main, i, disturbed, nums, j, temp, scanVars>>
  BY DEF Median
<1>2. /\ len \in Nat /\ args \in Seq(Int) /\ nums \in [0 .. len - 1 -> Int]
      /\ i["myMed"] \in Nat /\ whole = nums /\ temp \in Int /\ j \in Nat
  BY <1>1, Sizes DEF StatInv, whole
<1>3. len \div 2 \in 0 .. len - 1 /\ (len - 1) \div 2 \in 0 .. len - 1
  BY <1>1, <1>2
<1>4. /\ at' \in [Threads -> Stages] /\ at'["myMed"] = "exit"
      /\ \A t \in Scans : at'[t] = at[t]
  BY <1>1, ScanFacts DEF Stages, Threads
<1>5. whole' = nums /\ top' = j /\ top = j /\ len' = len /\ UNCHANGED <<args, i, j>>
  BY <1>1, <1>4 DEF whole, top, len
<1>6. SortPlace' /\ Sorts'
  BY <1>2, <1>4, <1>5 DEF StatInv, SortInv, SortPlace, Sorts
<1>7. ASSUME i["myMed"] = len - 1 PROVE MedianRight'
  <2>1. TailSorted(nums, len, len - 1) /\ Permuted(nums, args, len)
    BY <1>2, <1>7 DEF StatInv, SortInv, Sorts
  <2>2. /\ Ranked(len \div 2) = nums[len \div 2]
        /\ Ranked((len - 1) \div 2) = nums[(len - 1) \div 2]
    BY <1>2, <1>3, <2>1, RankedIs
  <2>3. \A k : Ranked(k)' = Ranked(k)
    BY <1>5 DEF Ranked
  <2> QED
    BY <1>1, <1>5, <2>2, <2>3 DEF MedianRight
<1>8. i["myMed"] = len - 1
  <2>1. i["myMed"] <= len - 1
    BY <1>1 DEF StatInv, SortInv, SortPlace
  <2>2. ~(i["myMed"] < len - 1)
    BY <1>1 DEF Sorting
  <2> QED
    BY <1>2, <2>1, <2>2
<1>9. r_med' \in Int
  BY <1>1, <1>2, <1>3
<1>10. disturbed' \subseteq scans /\ i' \in [Threads -> 0 .. len] /\ j' \in 0 .. len
  BY <1>1, ScanFacts DEF StatInv, StatTypeOK
<1> QED
  BY <1>1, <1>2, <1>4, <1>6, <1>7, <1>8, <1>9, <1>10, SortStep DEF SortInv

\* Every step of main(), of the scans and of the sort keeps the invariant.
LEMMA StatStepInv == StatInv /\ [StatNext]_statVars => StatInv'
<1> SUFFICES ASSUME StatInv, [StatNext]_statVars PROVE StatInv'
  OBVIOUS
<1>1. CASE Usage \/ PrintResults
  BY <1>1, MainKeeps
<1>2. CASE Add
  BY <1>2, AverageKeeps
<1>3. CASE AddToMean
  BY <1>3, MeanKeeps
<1>4. CASE ReadFactor
  BY <1>4, FactorKeeps
<1>5. CASE AddSquare
  BY <1>5, SquareKeeps
<1>6. CASE myMed
  BY <1>6, KeepPairKeeps, SwapFirstKeeps, SwapSecondKeeps, MedianKeeps DEF myMed
<1>7. ASSUME NEW t \in Scans, Scan(t) PROVE StatInv'
  BY <1>7, StartScanKeeps, CompareKeeps, TakeKeeps DEF Scan
<1>8. CASE UNCHANGED statVars
  <2>1. /\ UNCHANGED <<args, scans, main, at, i, disturbed>>
        /\ UNCHANGED <<result, mean, read, tornSquare>>
        /\ UNCHANGED <<args, sortVars>> /\ len' = len
    BY <1>8 DEF statVars, scanVars, len
  <2>2. ScanPlace' /\ RealUnlessTorn'
    BY <2>1 DEF StatInv, ScanPlace, RealUnlessTorn
  <2> QED
    BY <2>1, <2>2, ScanFacts, OtherStep
<1> QED
  BY <1>1, <1>2, <1>3, <1>4, <1>5, <1>6, <1>7, <1>8 DEF StatNext

-----------------------------------------------------------------------------
(* The extremes, which are exact between the stores of the sort.           *)

Extremes == {"myMin", "myMax"}

\* While a swap is under way one number stands in the array twice.
Doubled == at["myMed"] = "swap" => nums[j + 1] = nums[j]

\* What an extreme has found is one of the arguments.  As long as the sort has
\* not stored anything nothing it has looked at beats it, and the element it is
\* about to take does.
Extreme(t) ==
  /\ at[t] # "none" => t \in scans /\ result[t] \in Range(args)
  /\ at[t] \in {"scan", "again"} /\ t \notin disturbed =>
       /\ at["myMed"] # "swap"
       /\ \A p \in 0 .. i[t] - 1 : ~Beats(t, nums[p])
       /\ at[t] = "again" => Beats(t, nums[i[t]])
  /\ at[t] = "exit" /\ t \notin disturbed => result[t] = Extremum(t)

ExtremesInv == Doubled /\ \A t \in Extremes : Extreme(t)

\* The array always holds arguments, and between swaps all of them.
LEMMA ElementsGiven ==
  ASSUME StatInv, Doubled
  PROVE  /\ \A p \in 0 .. len - 1 : nums[p] \in Range(args)
         /\ at["myMed"] # "swap" =>
              \A x \in Range(args) : \E p \in 0 .. len - 1 : x = nums[p]
<1>1. /\ args \in Seq(Int) /\ len \in Nat /\ len = Len(args) /\ temp \in Int
      /\ nums \in [0 .. len - 1 -> Int] /\ i["myMed"] \in Nat /\ j \in Nat
  BY Sizes DEF StatInv
<1>2. DOMAIN args = 1 .. len
  BY <1>1, LenProperties
<1>3. PICK f \in Bijection(0 .. len - 1, 1 .. len) :
        \A p \in 0 .. len - 1 : whole[p] = args[f[p]]
  BY DEF StatInv, SortInv, Sorts, Permuted
<1>4. /\ f \in [0 .. len - 1 -> 1 .. len]
      /\ \A r \in 1 .. len : \E p \in 0 .. len - 1 : f[p] = r
  BY <1>3 DEF Bijection, Injection, Surjection, IsInjective
<1>5. \A p \in 0 .. len - 1 : whole[p] \in Range(args)
  BY <1>2, <1>3, <1>4 DEF Range
<1>6. CASE at["myMed"] # "swap"
  <2>1. whole = nums
    BY <1>6 DEF whole
  <2>2. ASSUME NEW x \in Range(args) PROVE \E p \in 0 .. len - 1 : x = nums[p]
    <3>1. PICK r \in 1 .. len : x = args[r]
      BY <1>2 DEF Range
    <3>2. PICK p \in 0 .. len - 1 : f[p] = r
      BY <1>4
    <3> QED
      BY <1>3, <2>1, <3>1, <3>2
  <2> QED
    BY <1>5, <2>1, <2>2
<1>7. CASE at["myMed"] = "swap"
  <2>1. whole = [nums EXCEPT ![j + 1] = temp]
    BY <1>7 DEF whole
  <2>2. i["myMed"] < len - 1 /\ j + 1 < len - i["myMed"]
    BY <1>7 DEF StatInv, SortInv, SortPlace
  <2>3. j \in 0 .. len - 1 /\ j # j + 1
    BY <1>1, <2>2
  <2>4. \A p \in 0 .. len - 1 : p # j + 1 => whole[p] = nums[p]
    BY <1>1, <2>1
  <2>5. nums[j + 1] = whole[j]
    BY <1>7, <2>3, <2>4 DEF Doubled
  <2>6. ASSUME NEW p \in 0 .. len - 1 PROVE nums[p] \in Range(args)
    BY <1>5, <2>3, <2>4, <2>5
  <2> QED
    BY <1>7, <2>6
<1> QED
  BY <1>6, <1>7

\* One of the arguments that none beats is the minimum or the maximum.
LEMMA UnbeatenIsExtremum ==
  ASSUME args \in Seq(Int), NEW t \in Extremes, NEW x \in Range(args),
         \A y \in Range(args) : IF t = "myMin" THEN ~(x > y) ELSE ~(x < y)
  PROVE  x = Extremum(t)
<1>1. \A y \in Range(args) : y \in Int
  <2>1. args \in [1 .. Len(args) -> Int]
    BY LenProperties
  <2> QED
    BY <2>1 DEF Range
<1> DEFINE S == Range(args)
<1> HIDE DEF S
<1>2. x \in S /\ \A y \in S : y \in Int
  BY <1>1 DEF S
<1>3. CASE t = "myMin"
  <2>1. \A y \in S : x <= y
    BY <1>2, <1>3 DEF S
  <2>2. Min(S) \in S /\ \A y \in S : Min(S) <= y
    BY <1>2, <2>1 DEF Min
  <2>3. x = Min(S)
    BY <1>2, <2>1, <2>2
  <2> QED
    BY <1>3, <2>3 DEF Extremum, S
<1>4. CASE t = "myMax"
  <2>1. \A y \in S : x >= y
    BY <1>2, <1>4 DEF S
  <2>2. Max(S) \in S /\ \A y \in S : Max(S) >= y
    BY <1>2, <2>1 DEF Max
  <2>3. x = Max(S)
    BY <1>2, <2>1, <2>2
  <2> QED
    BY <1>4, <2>3 DEF Extremum, S
<1> QED
  BY <1>3, <1>4 DEF Extremes

\* A thread that does not move keeps what it has found, unless the sort stores
\* and it is counted as disturbed.
LEMMA ExtremeKept ==
  ASSUME NEW t \in Extremes, Extreme(t), UNCHANGED <<args, scans>>,
         result'[t] = result[t], at'[t] = at[t], i'[t] = i[t],
         disturbed \subseteq disturbed',
         \/ at[t] \notin {"scan", "again"}
         \/ t \in disturbed'
         \/ (at["myMed"] = "swap" \/ at'["myMed"] # "swap") /\ nums' = nums
  PROVE  Extreme(t)'
<1>1. Extremum(t)' = Extremum(t)
  BY DEF Extremum
<1>2. \A x : Beats(t, x)' <=> Beats(t, x)
  BY DEF Beats
<1>3. at'[t] # "none" => t \in scans' /\ result'[t] \in Range(args')
  BY DEF Extreme
<1>4. at'[t] = "exit" /\ t \notin disturbed' => result'[t] = Extremum(t)'
  BY <1>1 DEF Extreme
<1>5. ASSUME at'[t] \in {"scan", "again"}, t \notin disturbed'
      PROVE  /\ at'["myMed"] # "swap"
             /\ \A p \in 0 .. i'[t] - 1 : ~Beats(t, nums[p])'
             /\ at'[t] = "again" => Beats(t, nums[i[t]])'
  <2>1. at[t] \in {"scan", "again"} /\ t \notin disturbed
    BY <1>5
  <2>2. at["myMed"] # "swap" /\ at'["myMed"] # "swap" /\ nums' = nums
    BY <1>5, <2>1 DEF Extreme
  <2>3. \A p \in 0 .. i'[t] - 1 : ~Beats(t, nums[p])'
    BY <2>1, <2>2 DEF Extreme, Beats
  <2>4. at'[t] = "again" => Beats(t, nums[i[t]])'
    BY <2>1, <2>2 DEF Extreme, Beats
  <2> QED
    BY <2>2, <2>3, <2>4
<1> QED
  BY <1>3, <1>4, <1>5 DEF Extreme

\* No extreme has been looked for yet.
LEMMA InitExtremes == StatInit => ExtremesInv
<1> SUFFICES ASSUME StatInit PROVE ExtremesInv
  OBVIOUS
<1>1. \A t \in Scans \union {"myMed"} : at[t] = "none"
  BY DEF StatInit
<1> QED
  BY <1>1 DEF ExtremesInv, Doubled, Extreme, Extremes, Scans

\* The steps of main() and of the two scans that add up.
LEMMA OthersKeepExtremes ==
  ASSUME StatInv, ExtremesInv, UNCHANGED <<args, scans, disturbed, sortVars>>,
         \A t \in Extremes : result'[t] = result[t] /\ at'[t] = at[t] /\ i'[t] = i[t],
         at'["myMed"] = at["myMed"]
  PROVE  ExtremesInv'
<1>1. UNCHANGED <<nums, j, args, scans>>
  BY DEF sortVars
<1>2. Doubled'
  BY <1>1 DEF ExtremesInv, Doubled
<1>3. ASSUME NEW t \in Extremes PROVE Extreme(t)'
  BY <1>1, ExtremeKept DEF ExtremesInv
<1> QED
  BY <1>2, <1>3 DEF ExtremesInv

\* Every store of the sort disturbs the scans that are under way.
LEMMA SortKeepsExtremes ==
  ASSUME StatInv, ExtremesInv, myMed
  PROVE  ExtremesInv'
<1>1. UNCHANGED <<args, scans, scanVars>> /\ UNCHANGED result
  BY DEF myMed, KeepPair, SwapFirst, SwapSecond, Median, scanVars
<1>2. /\ i \in [Threads -> 0 .. len] /\ at \in [Threads -> Stages]
      /\ \A t \in Extremes : t \in Threads /\ t # "myMed"
      /\ \A t \in Extremes : at[t] \in {"none", "scan", "again", "squares", "exit"}
      /\ "myMed" \in Threads
  <2>1. \A t \in Extremes : t \in Scans
    BY DEF Extremes, Scans
  <2>2. i \in [Threads -> 0 .. len] /\ at \in [Threads -> Stages]
    BY ScanFacts
  <2>3. \A t \in Extremes : t \in Threads /\ t # "myMed" /\ at[t] # "swap"
    BY <2>1, ScanFacts DEF StatInv, ScanPlace
  <2> QED
    BY <2>2, <2>3 DEF Stages, Threads
<1>3. at' = [at EXCEPT !["myMed"] = at'["myMed"]]
  BY <1>2 DEF myMed, KeepPair, SwapFirst, SwapSecond, Median
<1>4. \A t \in Extremes : at'[t] = at[t]
  BY <1>2, <1>3
<1>5. \A t \in Extremes : i'[t] = i[t]
  <2>1. i' = i \/ i' = [i EXCEPT !["myMed"] = @ + 1]
    BY DEF myMed, KeepPair, SwapFirst, SwapSecond, Median, NextPair
  <2> QED
    BY <1>2, <2>1
<1>6. CASE KeepPair \/ Median
  <2>1. nums' = nums /\ disturbed' = disturbed /\ at'["myMed"] # "swap"
    BY <1>2, <1>6 DEF KeepPair, Median
  <2>2. ASSUME NEW t \in Extremes PROVE Extreme(t)'
    BY <1>1, <1>4, <1>5, <2>1, ExtremeKept DEF ExtremesInv
  <2> QED
    BY <2>1, <2>2 DEF ExtremesInv, Doubled
<1>7. CASE SwapFirst \/ SwapSecond
  <2>1. Disturb
    BY <1>7 DEF SwapFirst, SwapSecond
  <2>2. ASSUME NEW t \in Extremes PROVE Extreme(t)'
    <3>1. at[t] \in {"scan", "again"} => t \in scans
      BY DEF ExtremesInv, Extreme
    <3>2. at[t] \in {"scan", "again"} => t \in disturbed'
      BY <2>1, <3>1 DEF Disturb
    <3>3. disturbed \subseteq disturbed'
      BY <2>1 DEF Disturb
    <3> QED
      BY <1>1, <1>4, <1>5, <3>2, <3>3, ExtremeKept DEF ExtremesInv
  <2>3. Doubled'
    <3>1. CASE SwapFirst
      <4>1. nums' = [nums EXCEPT ![j] = nums[j + 1]] /\ j' = j
        BY <3>1 DEF SwapFirst
      <4>2. /\ nums \in [0 .. len - 1 -> Int] /\ j \in Nat /\ len \in Nat
            /\ i["myMed"] \in Nat
        BY Sizes DEF StatInv
      <4>3. i["myMed"] < len - 1 /\ j + 1 < len - i["myMed"]
        BY <3>1 DEF SwapFirst, Sorting, StatInv, SortInv, SortPlace
      <4>4. j \in 0 .. len - 1 /\ j + 1 # j
        BY <4>2, <4>3
      <4>5. nums'[j] = nums[j + 1] /\ nums'[j + 1] = nums[j + 1]
        BY <4>1, <4>2, <4>4
      <4> QED
        BY <4>1, <4>5 DEF Doubled
    <3>2. CASE SwapSecond
      BY <1>2, <3>2 DEF SwapSecond, Doubled
    <3> QED
      BY <1>7, <3>1, <3>2
  <2> QED
    BY <2>2, <2>3 DEF ExtremesInv
<1> QED
  BY <1>6, <1>7 DEF myMed

\* What a step of one scan has to show: the other extreme does not notice it.
LEMMA ScanKeepsExtremes ==
  ASSUME StatInv, ExtremesInv, NEW t \in Scans,
         UNCHANGED <<args, scans, sortVars>>, disturbed \subseteq disturbed',
         at'["myMed"] = at["myMed"],
         \A u \in Extremes \ {t} : result'[u] = result[u] /\ at'[u] = at[u] /\ i'[u] = i[u],
         t \in Extremes => Extreme(t)'
  PROVE  ExtremesInv'
<1>1. UNCHANGED <<nums, j, args, scans>>
  BY DEF sortVars
<1>2. Doubled'
  BY <1>1 DEF ExtremesInv, Doubled
<1>3. ASSUME NEW u \in Extremes, u # t PROVE Extreme(u)'
  BY <1>1, <1>3, ExtremeKept DEF ExtremesInv
<1> QED
  BY <1>2, <1>3 DEF ExtremesInv

\* The first guess is nums[0], which is one of the arguments.
LEMMA StartKeepsExtremes ==
  ASSUME StatInv, ExtremesInv, NEW t \in Scans, StartScan(t)
  PROVE  ExtremesInv'
<1>1. /\ main = "join" /\ len > 0 /\ t \in scans /\ at[t] = "none"
      /\ at' = [at EXCEPT ![t] = "scan"]
      /\ result' = [result EXCEPT ![t] =
                      IF t \in {"myMin", "myMax"} THEN nums[0] ELSE 0]
      /\ disturbed' = IF at["myMed"] = "swap" THEN disturbed \union {t} ELSE disturbed
      /\ UNCHANGED <<args, scans, main, i, mean, read, tornSquare, sortVars>>
  BY DEF StartScan
<1>2. /\ t \in Threads /\ t # "myMed" /\ len \in Nat /\ result \in [Scans -> Int]
      /\ at \in [Threads -> Stages] /\ i[t] = 0
  BY <1>1, ScanFacts DEF StatInv, ScanPlace
<1>3. at'["myMed"] = at["myMed"] /\ at'[t] = "scan" /\ i'[t] = 0 /\ UNCHANGED nums
  BY <1>1, <1>2 DEF sortVars
<1>4. \A u \in Extremes \ {t} : result'[u] = result[u] /\ at'[u] = at[u] /\ i'[u] = i[u]
  BY <1>1, <1>2
<1>5. ASSUME t \in Extremes PROVE Extreme(t)'
  <2>1. result'[t] = nums[0]
    BY <1>1, <1>2, <1>5 DEF Extremes
  <2>2. nums[0] \in Range(args)
    <3>1. 0 \in 0 .. len - 1
      BY <1>1, <1>2
    <3> QED
      BY <3>1, ElementsGiven DEF ExtremesInv
  <2>3. \A p \in 0 .. i'[t] - 1 : FALSE
    BY <1>3
  <2>4. t \notin disturbed' => at'["myMed"] # "swap"
    BY <1>1, <1>3
  <2> QED
    BY <1>1, <1>3, <2>1, <2>2, <2>3, <2>4 DEF Extreme
<1>6. disturbed \subseteq disturbed'
  BY <1>1
<1> QED
  BY <1>1, <1>3, <1>4, <1>5, <1>6, ScanKeepsExtremes

\* The loop of an extreme goes on behind an element that does not beat it, or
\* ends with none that does.
LEMMA RoundKeepsExtreme ==
  ASSUME StatInv, ExtremesInv, NEW t \in Extremes, at[t] \in {"scan", "again"},
         NextRound(t, "scan", "exit"), UNCHANGED <<args, scans, disturbed,
                                                   sortVars>>,
         result'[t] \in Range(args),
         t \notin disturbed => \A p \in 0 .. i[t] : ~Beats(t, nums[p])'
  PROVE  Extreme(t)'
<1>1. /\ t \in Threads /\ t # "myMed" /\ len \in Nat /\ at \in [Threads -> Stages]
      /\ i \in [Threads -> 0 .. len] /\ i[t] \in 0 .. len - 1
  <2>1. t \in Scans
    BY DEF Extremes, Scans
  <2> QED
    BY <2>1, ScanFacts
<1>2. UNCHANGED <<nums, args, scans, disturbed>> /\ t \in scans
  BY DEF sortVars, ExtremesInv, Extreme
<1>3. CASE i[t] + 1 < len
  <2>1. i' = [i EXCEPT ![t] = i[t] + 1] /\ at' = [at EXCEPT ![t] = "scan"]
    BY <1>3 DEF NextRound
  <2>2. i'[t] = i[t] + 1 /\ at'[t] = "scan" /\ at'["myMed"] = at["myMed"]
    BY <1>1, <2>1
  <2>3. i'[t] - 1 = i[t]
    BY <1>1, <2>2
  <2>4. t \notin disturbed => at["myMed"] # "swap"
    BY DEF ExtremesInv, Extreme
  <2> QED
    BY <1>2, <2>2, <2>3, <2>4 DEF Extreme
<1>4. CASE ~(i[t] + 1 < len)
  <2>1. at' = [at EXCEPT ![t] = "exit"]
    BY <1>4 DEF NextRound
  <2>2. at'[t] = "exit" /\ i[t] = len - 1
    BY <1>1, <1>4, <2>1
  <2>3. ASSUME t \notin disturbed PROVE result'[t] = Extremum(t)'
    <3>1. at["myMed"] # "swap"
      BY <2>3 DEF ExtremesInv, Extreme
    <3>2. ASSUME NEW y \in Range(args)
          PROVE  IF t = "myMin" THEN ~(result'[t] > y) ELSE ~(result'[t] < y)
      <4>1. PICK p \in 0 .. len - 1 : y = nums[p]
        BY <3>1, ElementsGiven DEF ExtremesInv
      <4>2. ~Beats(t, nums[p])'
        BY <2>2, <2>3, <4>1
      <4> QED
        BY <1>2, <4>1, <4>2 DEF Beats
    <3>3. result'[t] = Extremum(t)
      BY <3>2, UnbeatenIsExtremum, Sizes DEF StatInv
    <3>4. Extremum(t)' = Extremum(t)
      BY DEF Extremum
    <3> QED
      BY <3>3, <3>4
  <2> QED
    BY <1>2, <2>2, <2>3 DEF Extreme
<1> QED
  BY <1>3, <1>4

\* An element that beats what was found is about to be taken, and one that does
\* not is passed.
LEMMA CompareKeepsExtremes ==
  ASSUME StatInv, ExtremesInv, NEW t \in Scans, Compare(t)
  PROVE  ExtremesInv'
<1>1. /\ t \in Extremes /\ at[t] = "scan"
      /\ IF Beats(t, nums[i[t]])
         THEN at' = [at EXCEPT ![t] = "again"] /\ UNCHANGED i
         ELSE NextRound(t, "scan", "exit")
      /\ UNCHANGED <<args, scans, main, disturbed, scanVars, sortVars>>
  BY DEF Compare, Extremes
<1>2. /\ t \in Threads /\ t # "myMed" /\ len \in Nat
      /\ at \in [Threads -> Stages] /\ i \in [Threads -> 0 .. len]
  BY ScanFacts
<1>3. UNCHANGED result /\ UNCHANGED nums
  BY <1>1 DEF scanVars, sortVars
<1>4. /\ at'["myMed"] = at["myMed"]
      /\ \A u \in Extremes \ {t} : result'[u] = result[u] /\ at'[u] = at[u] /\ i'[u] = i[u]
  <2>1. "myMed" \in Threads /\ \A u \in Extremes : u \in Threads /\ u \in Scans
    BY DEF Threads, Extremes, Scans
  <2> QED
    BY <1>1, <1>2, <1>3, <2>1 DEF NextRound
<1>5. /\ result[t] \in Range(args) /\ t \in scans
      /\ t \notin disturbed => /\ at["myMed"] # "swap"
                               /\ \A p \in 0 .. i[t] - 1 : ~Beats(t, nums[p])
  BY <1>1 DEF ExtremesInv, Extreme
<1>6. \A x : Beats(t, x)' <=> Beats(t, x')
  BY <1>3 DEF Beats
<1>7. Extreme(t)'
  <2>1. CASE Beats(t, nums[i[t]])
    <3>1. at'[t] = "again" /\ UNCHANGED i
      BY <1>1, <1>2, <2>1
    <3>2. Beats(t, nums[i[t]])'
      BY <1>3, <2>1, <3>1 DEF Beats
    <3>3. t \notin disturbed => \A p \in 0 .. i[t] - 1 : ~Beats(t, nums[p])'
      BY <1>3, <1>5 DEF Beats
    <3> QED
      BY <1>1, <1>3, <1>4, <1>5, <3>1, <3>2, <3>3 DEF Extreme
  <2>2. CASE ~Beats(t, nums[i[t]])
    <3>1. ASSUME t \notin disturbed, NEW p \in 0 .. i[t]
          PROVE  ~Beats(t, nums[p])'
      <4>1. p \in 0 .. i[t] - 1 \/ p = i[t]
        BY <1>2
      <4>2. ~Beats(t, nums[p])
        BY <1>5, <2>2, <3>1, <4>1
      <4> QED
        BY <1>3, <4>2 DEF Beats
    <3> QED
      BY <1>1, <1>3, <1>5, <2>2, <3>1, RoundKeepsExtreme
  <2> QED
    BY <2>1, <2>2
<1> QED
  BY <1>1, <1>4, <1>7, ScanKeepsExtremes

\* The element read again is the one that won, if the sort has stored nothing.
LEMMA TakeKeepsExtremes ==
  ASSUME StatInv, ExtremesInv, NEW t \in Scans, Take(t)
  PROVE  ExtremesInv'
<1>1. /\ t \in Extremes /\ at[t] = "again"
      /\ result' = [result EXCEPT ![t] = nums[i[t]]]
      /\ NextRound(t, "scan", "exit")
      /\ UNCHANGED <<args, scans, main, disturbed, mean, read, tornSquare,
                     sortVars>>
  BY DEF Take, Extremes
<1>2. /\ t \in Threads /\ t # "myMed" /\ len \in Nat /\ result \in [Scans -> Int]
      /\ at \in [Threads -> Stages] /\ i \in [Threads -> 0 .. len]
      /\ nums \in [0 .. len - 1 -> Int]
  BY ScanFacts
<1>3. i[t] \in 0 .. len - 1
  BY <1>1, ScanFacts
<1>4. /\ at'["myMed"] = at["myMed"]
      /\ \A u \in Extremes \ {t} : result'[u] = result[u] /\ at'[u] = at[u] /\ i'[u] = i[u]
  <2>1. "myMed" \in Threads /\ \A u \in Extremes : u \in Threads /\ u \in Scans
    BY DEF Threads, Extremes, Scans
  <2> QED
    BY <1>1, <1>2, <2>1 DEF NextRound
<1>5. result'[t] = nums[i[t]] /\ nums[i[t]] \in Range(args) /\ UNCHANGED nums
  BY <1>1, <1>2, <1>3, ElementsGiven DEF ExtremesInv, sortVars
<1>6. ASSUME t \notin disturbed, NEW p \in 0 .. i[t]
      PROVE  ~Beats(t, nums[p])'
  <2>1. /\ Beats(t, nums[i[t]])
        /\ \A q \in 0 .. i[t] - 1 : ~Beats(t, nums[q])
    BY <1>1, <1>6 DEF ExtremesInv, Extreme
  <2>2. p \in 0 .. i[t] - 1 \/ p = i[t]
    BY <1>3
  <2>3. /\ nums[p] \in Int /\ nums[i[t]] \in Int /\ result[t] \in Int
    BY <1>2, <1>3
  <2> QED
    BY <1>5, <2>1, <2>2, <2>3 DEF Beats
<1>7. Extreme(t)'
  BY <1>1, <1>5, <1>6, RoundKeepsExtreme
<1> QED
  BY <1>1, <1>4, <1>7, ScanKeepsExtremes

\* Every step keeps what is known of the extremes.
LEMMA StepExtremes == StatInv /\ ExtremesInv /\ [StatNext]_statVars => ExtremesInv'
<1> SUFFICES ASSUME StatInv, ExtremesInv, [StatNext]_statVars PROVE ExtremesInv'
  OBVIOUS
<1>1. CASE \/ Usage \/ PrintResults \/ UNCHANGED statVars
  <2>1. UNCHANGED <<args, scans, at, i, disturbed, scanVars, sortVars>>
    BY <1>1 DEF Usage, PrintResults, statVars
  <2>2. UNCHANGED result
    BY <2>1 DEF scanVars
  <2> QED
    BY <2>1, <2>2, OthersKeepExtremes
<1>2. CASE Add \/ AddToMean \/ ReadFactor \/ AddSquare
  <2>1. UNCHANGED <<args, scans, disturbed, sortVars>>
    BY <1>2 DEF Add, AddToMean, ReadFactor, AddSquare
  <2>2. /\ result \in [Scans -> Int] /\ i \in [Threads -> 0 .. len]
        /\ at \in [Threads -> Stages]
    BY ScanFacts
  <2>3. \A t \in Extremes : t \in Scans /\ t \in Threads /\ t \notin {"myAvg", "myStdDev"}
    BY DEF Extremes, Scans, Threads
  <2>4. \A t \in Extremes : result'[t] = result[t] /\ at'[t] = at[t] /\ i'[t] = i[t]
    BY <1>2, <2>2, <2>3 DEF Add, AddToMean, ReadFactor, AddSquare, NextRound
  <2>5. at'["myMed"] = at["myMed"]
    BY <1>2, <2>2 DEF Add, AddToMean, ReadFactor, AddSquare, NextRound, Threads
  <2> QED
    BY <2>1, <2>4, <2>5, OthersKeepExtremes
<1>3. CASE myMed
  BY <1>3, SortKeepsExtremes
<1>4. ASSUME NEW t \in Scans, Scan(t) PROVE ExtremesInv'
  BY <1>4, StartKeepsExtremes, CompareKeepsExtremes, TakeKeepsExtremes DEF Scan
<1> QED
  BY <1>1, <1>2, <1>3, <1>4 DEF StatNext

\* The invariant of Lab 3 holds in every state of the program.
THEOREM StatInvariance == StatSpec => []StatInv
BY StatInitInv, StatStepInv, PTL DEF StatSpec

\* Every variable of lab03_ex1.c keeps to its type; no index leaves the array.
THEOREM StatTypeCorrect == StatSpec => []StatTypeOK
BY StatInvariance, PTL DEF StatInv

\* myMed() finds the median of the arguments, however many there are, however
\* often one occurs and whatever the scans do meanwhile.
THEOREM MedianCorrect == StatSpec => []MedianRight
BY StatInvariance, PTL DEF StatInv, SortInv

\* The sum of squares that myStdDev() hands to sqrt() is not negative unless a
\* swap came between the two reads of one factor.
THEOREM RootReal == StatSpec => []RealUnlessTorn
BY StatInvariance, PTL DEF StatInv

\* myMin() and myMax() return one of the arguments, and the right one if the sort
\* stored nothing while they ran.
THEOREM ExtremesCorrect == StatSpec => []ExtremesExact
<1>1. StatInit => StatInv /\ ExtremesInv
  BY StatInitInv, InitExtremes
<1>2. StatInv /\ ExtremesInv /\ [StatNext]_statVars => (StatInv /\ ExtremesInv)'
  BY StatStepInv, StepExtremes
<1>3. StatInv /\ ExtremesInv => ExtremesExact
  BY DEF ExtremesInv, Extremes, Extreme, ExtremesExact
<1> QED
  BY <1>1, <1>2, <1>3, PTL DEF StatSpec

-----------------------------------------------------------------------------
(* Sums of arrays.                                                         *)

\* Induction over the numbers up to bound, for the set Q of those with the property.
LEMMA UpTo ==
  ASSUME NEW bound \in Nat, NEW Q, 0 \in Q,
         \A k \in 1 .. bound : k - 1 \in Q => k \in Q
  PROVE  \A k \in 0 .. bound : k \in Q
<1> DEFINE T == (0 .. bound) \ Q
<1> SUFFICES ASSUME T # {} PROVE FALSE
  OBVIOUS
<1>1. T \in SUBSET Nat
  OBVIOUS
<1> HIDE DEF T
<1>2. PICK r \in T : \A y \in T : ~ (<<y, r>> \in OpToRel(<, Nat))
  BY <1>1, NatLessThanWellFounded, WFMin
<1>3. r \in 0 .. bound /\ r \notin Q
  BY DEF T
<1>4. r # 0 /\ r \in 1 .. bound /\ r - 1 \in Nat /\ r \in Nat /\ r - 1 < r
  BY <1>3
<1>5. r - 1 \notin T
  BY <1>2, <1>4 DEF OpToRel
<1> QED
  BY <1>3, <1>4, <1>5 DEF T

\* g is defined on 0 .. bound by its first value v0 and what step makes of a value
Iterates(g, bound, V, v0, step) ==
  /\ g \in [0 .. bound -> V]
  /\ g[0] = v0
  /\ \A k \in 1 .. bound : g[k] = step[k][g[k - 1]]

\* A function on 0 .. bound may be defined by recursion.
LEMMA RecursionExists ==
  ASSUME NEW bound \in Nat, NEW V, NEW v0 \in V,
         NEW step \in [1 .. bound -> [V -> V]]
  PROVE  \E g : Iterates(g, bound, V, v0, step)
<1> DEFINE Solves(g, m) == g[0] = v0 /\ \A k \in 1 .. m : g[k] = step[k][g[k - 1]]
           Q == {m \in 0 .. bound : \E g \in [0 .. m -> V] : Solves(g, m)}
<1>1. 0 \in Q
  <2> DEFINE g == [k \in 0 .. 0 |-> v0]
  <2>1. g \in [0 .. 0 -> V] /\ Solves(g, 0)
    OBVIOUS
  <2> HIDE DEF g, Solves
  <2>2. 0 \in 0 .. bound
    OBVIOUS
  <2> QED
    BY <2>1, <2>2
<1>2. ASSUME NEW m \in 1 .. bound, m - 1 \in Q PROVE m \in Q
  <2>1. PICK g \in [0 .. m - 1 -> V] : Solves(g, m - 1)
    BY <1>2
  <2> DEFINE h == [k \in 0 .. m |-> IF k = m THEN step[m][g[m - 1]] ELSE g[k]]
  <2>2. step[m][g[m - 1]] \in V
    OBVIOUS
  <2>3. h \in [0 .. m -> V]
    BY <2>2
  <2>4. ASSUME NEW k \in 1 .. m PROVE h[k] = step[k][h[k - 1]]
    BY <2>1
  <2>5. Solves(h, m)
    BY <2>1, <2>4
  <2> HIDE DEF h, Solves
  <2>6. m \in 0 .. bound
    OBVIOUS
  <2> QED
    BY <2>3, <2>5, <2>6
<1> HIDE DEF Q
<1>3. \A m \in 1 .. bound : m - 1 \in Q => m \in Q
  BY <1>2
<1>4. \A m \in 0 .. bound : m \in Q
  BY <1>1, <1>3, UpTo
<1>5. bound \in Q
  BY <1>4
<1> QED
  BY <1>5 DEF Q, Iterates

\* Sums is defined by its recursion.
LEMMA SumsUnfold ==
  ASSUME NEW N \in Nat, NEW a \in [0 .. N - 1 -> Int], NEW e \in 0 .. N
  PROVE  /\ Sums(a, e) \in [0 .. e -> Int]
         /\ Sums(a, e)[0] = 0
         /\ \A k \in 1 .. e : Sums(a, e)[k] = Sums(a, e)[k - 1] + a[k - 1]
<1> DEFINE step == [k \in 1 .. e |-> [x \in Int |-> x + a[k - 1]]]
           Def(f) == f = [k \in 0 .. e |-> IF k = 0 THEN 0 ELSE f[k - 1] + a[k - 1]]
<1>1. step \in [1 .. e -> [Int -> Int]]
  <2> SUFFICES ASSUME NEW k \in 1 .. e, NEW x \in Int PROVE x + a[k - 1] \in Int
    OBVIOUS
  <2>1. k - 1 \in 0 .. N - 1
    OBVIOUS
  <2> QED
    BY <2>1
<1>2. PICK g : Iterates(g, e, Int, 0, step)
  <2>1. e \in Nat /\ 0 \in Int
    OBVIOUS
  <2> HIDE DEF step
  <2> QED
    BY <1>1, <2>1, RecursionExists
<1>3. /\ g \in [0 .. e -> Int] /\ g[0] = 0
      /\ \A k \in 1 .. e : g[k] = g[k - 1] + a[k - 1]
  <2>1. g \in [0 .. e -> Int] /\ g[0] = 0 /\ \A k \in 1 .. e : g[k] = step[k][g[k - 1]]
    BY <1>2 DEF Iterates
  <2>2. \A k \in 1 .. e : g[k - 1] \in Int
    BY <2>1
  <2> QED
    BY <2>1, <2>2
<1>4. Def(g)
  BY <1>3
<1>5. Sums(a, e) = CHOOSE f : Def(f)
  BY DEF Sums
<1>6. Def(Sums(a, e))
  BY <1>4, <1>5
<1> DEFINE S == Sums(a, e)
<1>7. S = [k \in 0 .. e |-> IF k = 0 THEN 0 ELSE S[k - 1] + a[k - 1]]
  BY <1>6
<1> HIDE DEF S
<1>8. S[0] = 0 /\ \A k \in 1 .. e : S[k] = S[k - 1] + a[k - 1]
  BY <1>7
<1>9. S \in [0 .. e -> Int]
  <2> DEFINE Q == {k \in 0 .. e : S[k] \in Int}
  <2>1. e \in Nat /\ 0 \in Q
    BY <1>8
  <2>2. ASSUME NEW k \in 1 .. e, k - 1 \in Q PROVE k \in Q
    <3>1. k - 1 \in 0 .. N - 1 /\ k \in 0 .. e
      OBVIOUS
    <3>2. a[k - 1] \in Int /\ S[k - 1] \in Int
      BY <2>2, <3>1
    <3> QED
      BY <1>8, <3>1, <3>2
  <2> HIDE DEF Q
  <2>3. \A k \in 1 .. e : k - 1 \in Q => k \in Q
    BY <2>2
  <2>4. \A k \in 0 .. e : k \in Q
    BY <2>1, <2>3, UpTo
  <2>5. \A k \in 0 .. e : S[k] \in Int
    BY <2>4 DEF Q
  <2> QED
    BY <1>7, <2>5
<1> QED
  BY <1>8, <1>9 DEF S

\* One more number is added to the sum of those before it.
LEMMA SumStep ==
  ASSUME NEW N \in Nat, NEW a \in [0 .. N - 1 -> Int]
  PROVE  /\ SumOf(a, 0) = 0
         /\ \A e \in 0 .. N : SumOf(a, e) \in Int
         /\ \A e \in 0 .. N - 1 : SumOf(a, e + 1) = SumOf(a, e) + a[e]
<1>1. SumOf(a, 0) = 0 /\ \A e \in 0 .. N : SumOf(a, e) \in Int
  <2>1. 0 \in 0 .. N
    OBVIOUS
  <2>2. ASSUME NEW e \in 0 .. N PROVE SumOf(a, e) \in Int
    <3>1. e \in 0 .. e
      OBVIOUS
    <3> QED
      BY <3>1, SumsUnfold DEF SumOf
  <2> QED
    BY <2>1, <2>2, SumsUnfold DEF SumOf
<1>2. ASSUME NEW e \in 0 .. N - 1 PROVE SumOf(a, e + 1) = SumOf(a, e) + a[e]
  <2>1. e \in Nat /\ e \in 0 .. N /\ e + 1 \in 0 .. N /\ e + 1 \in 1 .. e + 1
    OBVIOUS
  <2> DEFINE S == Sums(a, e)
             T == Sums(a, e + 1)
             Q == {k \in 0 .. e : S[k] = T[k]}
  <2>2. S[0] = 0 /\ \A k \in 1 .. e : S[k] = S[k - 1] + a[k - 1]
    BY <2>1, SumsUnfold
  <2>3. T[0] = 0 /\ \A k \in 1 .. e + 1 : T[k] = T[k - 1] + a[k - 1]
    BY <2>1, SumsUnfold
  <2> HIDE DEF S, T
  <2>4. 0 \in Q
    BY <2>1, <2>2, <2>3
  <2>5. \A k \in 1 .. e : k - 1 \in Q => k \in Q
    <3> SUFFICES ASSUME NEW k \in 1 .. e, k - 1 \in Q PROVE S[k] = T[k]
      BY <2>1
    <3>1. k \in 1 .. e + 1
      BY <2>1
    <3> QED
      BY <2>2, <2>3, <3>1
  <2> HIDE DEF Q
  <2>6. \A k \in 0 .. e : k \in Q
    BY <2>1, <2>4, <2>5, UpTo
  <2>7. S[e] = T[e]
    BY <2>1, <2>6 DEF Q
  <2>8. T[e + 1] = T[e] + a[e]
    BY <2>1, <2>3
  <2> QED
    BY <2>7, <2>8 DEF SumOf, S, T
<1> QED
  BY <1>1, <1>2

\* Exchanging two neighbours does not change the sum.
LEMMA ExchangeSum ==
  ASSUME NEW N \in Nat, NEW a \in [0 .. N - 1 -> Int], NEW b \in [0 .. N - 1 -> Int],
         NEW k \in Nat, k + 1 < N,
         \A p \in 0 .. N - 1 : b[p] = IF p = k THEN a[k + 1]
                                      ELSE IF p = k + 1 THEN a[k] ELSE a[p]
  PROVE  SumOf(b, N) = SumOf(a, N)
<1> DEFINE Same(e) == SumOf(b, e) = IF e = k + 1 THEN SumOf(a, k) + a[k + 1]
                                    ELSE SumOf(a, e)
           Q == {e \in 0 .. N : Same(e)}
<1>1. /\ SumOf(a, 0) = 0 /\ SumOf(b, 0) = 0
      /\ \A e \in 0 .. N : SumOf(a, e) \in Int /\ SumOf(b, e) \in Int
      /\ \A e \in 0 .. N - 1 : /\ SumOf(a, e + 1) = SumOf(a, e) + a[e]
                               /\ SumOf(b, e + 1) = SumOf(b, e) + b[e]
  BY SumStep
<1>2. k \in 0 .. N - 1 /\ k + 1 \in 0 .. N - 1 /\ k \in 0 .. N
  OBVIOUS
<1>3. 0 \in Q
  BY <1>1
<1>4. ASSUME NEW e \in 1 .. N, e - 1 \in Q PROVE e \in Q
  <2>1. e - 1 \in 0 .. N - 1 /\ e - 1 + 1 = e /\ e \in 0 .. N /\ e - 1 \in 0 .. N
    OBVIOUS
  <2>2. PICK m \in 0 .. N - 1 : m = e - 1 /\ e = m + 1
    BY <2>1
  <2>3. /\ SumOf(a, e) = SumOf(a, m) + a[m] /\ SumOf(b, e) = SumOf(b, m) + b[m]
        /\ SumOf(b, m) = IF m = k + 1 THEN SumOf(a, k) + a[k + 1] ELSE SumOf(a, m)
    BY <1>1, <1>4, <2>2
  <2>4. /\ SumOf(a, m) \in Int /\ a[m] \in Int /\ a[k] \in Int /\ a[k + 1] \in Int
        /\ SumOf(a, k) \in Int
    BY <1>1, <1>2, <2>1, <2>2
  <2>5. b[m] = IF m = k THEN a[k + 1] ELSE IF m = k + 1 THEN a[k] ELSE a[m]
    OBVIOUS
  <2>6. Same(e)
    <3>1. CASE m = k
      BY <2>2, <2>3, <2>5, <3>1
    <3>2. CASE m = k + 1
      <4>1. SumOf(a, k + 1) = SumOf(a, k) + a[k]
        BY <1>1, <1>2
      <4>2. SumOf(b, e) = SumOf(a, k) + a[k + 1] + a[k]
        BY <2>3, <2>5, <3>2
      <4>3. SumOf(a, e) = SumOf(a, k) + a[k] + a[k + 1]
        BY <2>3, <3>2, <4>1
      <4>4. e # k + 1
        BY <2>2, <3>2
      <4> QED
        BY <2>4, <4>2, <4>3, <4>4
    <3>3. CASE m # k /\ m # k + 1
      <4>1. e # k + 1
        BY <2>2, <3>3
      <4> QED
        BY <2>3, <2>5, <3>3, <4>1
    <3> QED
      BY <3>1, <3>2, <3>3
  <2> QED
    BY <2>1, <2>6
<1> HIDE DEF Q
<1>5. \A e \in 1 .. N : e - 1 \in Q => e \in Q
  BY <1>4
<1>6. \A e \in 0 .. N : e \in Q
  BY <1>3, <1>5, UpTo
<1>7. Same(N) /\ N # k + 1
  BY <1>6 DEF Q
<1> QED
  BY <1>7

-----------------------------------------------------------------------------
(* The average and the deviation, exact between the stores of the sort.    *)

\* Exchanges leave the sums as they are.
SumsKept ==
  /\ SumOf(whole, len) = Total
  /\ SumOf(Squares(whole), len) = SumOf(Squares(given), len)

least == Extremum("myMin")
greatest == Extremum("myMax")

\* myAvg() adds up arguments, and as long as the sort has not stored anything the
\* numbers in the order of the array.
Average ==
  LET t == "myAvg" IN
    /\ at[t] \in {"none", "scan", "exit"}
    /\ at[t] # "none" => t \in scans
    /\ at[t] = "scan" =>
         /\ i[t] * least <= result[t] /\ result[t] <= i[t] * greatest
         /\ t \notin disturbed =>
              at["myMed"] # "swap" /\ result[t] = SumOf(nums, i[t])
    /\ at[t] = "exit" =>
         /\ len > 0 /\ len * least <= result[t] /\ result[t] <= len * greatest
         /\ t \notin disturbed => result[t] = Total

\* So does myStdDev(), first the numbers and then the squares.
Deviation ==
  LET t == "myStdDev" IN
    /\ at[t] # "none" => t \in scans
    /\ at[t] = "none" => mean = 0
    /\ at[t] = "scan" =>
         /\ result[t] = 0
         /\ t \notin disturbed =>
              at["myMed"] # "swap" /\ mean = SumOf(nums, i[t])
    /\ at[t] \in {"squares", "again"} /\ t \notin disturbed =>
         /\ at["myMed"] # "swap"
         /\ mean = Total
         /\ result[t] = SumOf(Squares(nums), i[t])
         /\ at[t] = "again" => read = nums[i[t]]
    /\ at[t] = "exit" /\ t \notin disturbed => result[t] = SumFor(t)

SumsInv == SumsKept /\ Average /\ Deviation

\* Among numbers there are a least and a greatest one.
LEMMA ExtremaExist ==
  ASSUME args \in Seq(Int), len > 0, NEW t \in Extremes
  PROVE  \E x \in Range(args) :
           \A y \in Range(args) : IF t = "myMin" THEN ~(x > y) ELSE ~(x < y)
<1> DEFINE Best(c, e) == \A p \in 1 .. e : IF t = "myMin" THEN ~(args[c] > args[p])
                                                      ELSE ~(args[c] < args[p])
           Q == {e \in 0 .. len - 1 : \E c \in 1 .. e + 1 : Best(c, e + 1)}
<1>1. /\ len \in Nat /\ len - 1 \in Nat /\ DOMAIN args = 1 .. len
      /\ \A p \in 1 .. len : args[p] \in Int
  BY LenProperties DEF len
<1>2. 0 \in Q
  <2>1. 1 \in 1 .. 0 + 1 /\ \A p \in 1 .. 0 + 1 : p = 1
    OBVIOUS
  <2>2. args[1] \in Int
    BY <1>1
  <2>3. Best(1, 0 + 1)
    BY <2>1, <2>2
  <2> HIDE DEF Best
  <2>4. 0 \in 0 .. len - 1
    BY <1>1
  <2> QED
    BY <2>1, <2>3, <2>4
<1>3. ASSUME NEW e \in 1 .. len - 1, e - 1 \in Q PROVE e \in Q
  <2>1. PICK c \in 1 .. (e - 1) + 1 : Best(c, (e - 1) + 1)
    BY <1>3
  <2>2. (e - 1) + 1 = e /\ e \in 0 .. len - 1
    BY <1>1
  <2>3. c \in 1 .. e /\ c \in 1 .. e + 1 /\ e + 1 \in 1 .. e + 1
        /\ c \in 1 .. len /\ e + 1 \in 1 .. len
    BY <1>1, <2>1, <2>2
  <2>4. \A p \in 1 .. e + 1 : p \in 1 .. e \/ p = e + 1
    BY <1>1
  <2>5. \A p \in 1 .. e : args[p] \in Int
    BY <1>1
  <2>6. Best(c, e)
    BY <2>1, <2>2
  <2>7. args[c] \in Int /\ args[e + 1] \in Int
    BY <1>1, <2>3
  <2>8. Best(c, e + 1) \/ Best(e + 1, e + 1)
    <3>1. CASE IF t = "myMin" THEN args[c] > args[e + 1] ELSE args[c] < args[e + 1]
      <4>1. Best(e + 1, e + 1)
        BY <2>4, <2>5, <2>6, <2>7, <3>1
      <4> QED
        BY <4>1
    <3>2. CASE ~(IF t = "myMin" THEN args[c] > args[e + 1] ELSE args[c] < args[e + 1])
      <4>1. Best(c, e + 1)
        BY <2>4, <2>6, <3>2
      <4> QED
        BY <4>1
    <3> QED
      BY <3>1, <3>2
  <2> HIDE DEF Best
  <2> QED
    BY <2>2, <2>3, <2>8
<1> HIDE DEF Best, Q
<1>4. \A e \in 1 .. len - 1 : e - 1 \in Q => e \in Q
  BY <1>3
<1>5. \A e \in 0 .. len - 1 : e \in Q
  BY <1>1, <1>2, <1>4, UpTo
<1>6. len - 1 \in Q /\ len - 1 + 1 = len
  BY <1>1, <1>5
<1>7. PICK c \in 1 .. len : Best(c, len)
  BY <1>6 DEF Q
<1>8. args[c] \in Range(args)
  BY <1>1 DEF Range
<1>9. \A y \in Range(args) : \E p \in 1 .. len : y = args[p]
  BY <1>1 DEF Range
<1> QED
  BY <1>7, <1>8, <1>9 DEF Best

\* Every argument lies between them.
LEMMA BetweenExtrema ==
  ASSUME args \in Seq(Int), len > 0
  PROVE  /\ least \in Int /\ greatest \in Int
         /\ \A x \in Range(args) : x \in Int /\ least <= x /\ x <= greatest
<1>1. \A x \in Range(args) : x \in Int
  <2>1. args \in [1 .. Len(args) -> Int]
    BY LenProperties
  <2> QED
    BY <2>1 DEF Range
<1>2. PICK x \in Range(args) : \A y \in Range(args) : ~(x > y)
  BY ExtremaExist DEF Extremes
<1>3. x = least
  BY <1>2, UnbeatenIsExtremum DEF least, Extremes
<1>4. PICK z \in Range(args) : \A y \in Range(args) : ~(z < y)
  BY ExtremaExist DEF Extremes
<1>5. z = greatest
  BY <1>4, UnbeatenIsExtremum DEF greatest, Extremes
<1> QED
  BY <1>1, <1>2, <1>3, <1>4, <1>5

\* What the sums depend on.
LEMMA SumsStable ==
  ASSUME UNCHANGED args
  PROVE  /\ len' = len /\ Total' = Total /\ given' = given
         /\ least' = least /\ greatest' = greatest
         /\ \A t : SumFor(t)' = SumFor(t)
<1>1. len' = len /\ given' = given
  BY DEF len, given
<1>2. Total' = Total
  BY <1>1 DEF Total, SumOf, Sums
<1>3. Squares(given)' = Squares(given)
  BY <1>1, <1>2 DEF Squares
<1>4. \A t : SumFor(t)' = SumFor(t)
  BY <1>1, <1>2, <1>3 DEF SumFor, SumOf, Sums
<1>5. least' = least /\ greatest' = greatest
  BY DEF least, greatest, Extremum
<1> QED
  BY <1>1, <1>2, <1>4, <1>5

\* Sums and squares are numbers, of whatever numbers the array holds.
LEMMA SumsType ==
  ASSUME StatTypeOK
  PROVE  /\ given \in [0 .. len - 1 -> Int] /\ Total \in Int
         /\ \A a \in [0 .. len - 1 -> Int] : Squares(a) \in [0 .. len - 1 -> Int]
<1>1. args \in Seq(Int) /\ len \in Nat /\ len = Len(args)
  BY Sizes
<1>2. given \in [0 .. len - 1 -> Int]
  <2>1. ASSUME NEW k \in 0 .. len - 1 PROVE args[k + 1] \in Int
    <3>1. k + 1 \in 1 .. Len(args)
      BY <1>1
    <3> QED
      BY <1>1, <3>1, ElementOfSeq
  <2> QED
    BY <2>1 DEF given
<1>3. Total \in Int
  <2>1. len \in 0 .. len
    BY <1>1
  <2> QED
    BY <1>1, <1>2, <2>1, SumStep DEF Total
<1>4. ASSUME NEW a \in [0 .. len - 1 -> Int]
      PROVE  Squares(a) \in [0 .. len - 1 -> Int]
  <2>1. ASSUME NEW k \in 0 .. len - 1
        PROVE  (len * a[k] - Total) * (len * a[k] - Total) \in Int
    <3>1. len * a[k] - Total \in Int
      BY <1>1, <1>3
    <3>2. \A x \in Int : x * x \in Int
      OBVIOUS
    <3> QED
      BY <3>1, <3>2
  <2> QED
    BY <2>1 DEF Squares
<1> QED
  BY <1>2, <1>3, <1>4

\* What the squares depend on.
LEMMA SquaresStable ==
  ASSUME UNCHANGED args
  PROVE  /\ Squares(given)' = Squares(given)
         /\ nums' = nums => Squares(nums)' = Squares(nums)
         /\ whole' = whole => Squares(whole)' = Squares(whole)
<1>1. len' = len /\ Total' = Total /\ given' = given
  BY SumsStable
<1> QED
  BY <1>1 DEF Squares

\* Nothing has been added up yet.
LEMMA InitSums == StatInit => SumsInv
<1> SUFFICES ASSUME StatInit PROVE SumsInv
  OBVIOUS
<1>1. \A t \in Scans \union {"myMed"} : at[t] = "none"
  BY DEF StatInit
<1>2. whole = given /\ mean = 0
  BY <1>1 DEF StatInit, whole
<1>3. SumsKept
  BY <1>2 DEF SumsKept, Total
<1>4. at["myAvg"] = "none" /\ at["myStdDev"] = "none"
  BY <1>1 DEF Scans
<1> QED
  BY <1>2, <1>3, <1>4 DEF SumsInv, Average, Deviation

\* The sums of an array that is, with the swap under way, the same.
LEMMA WholeKept ==
  ASSUME SumsKept, UNCHANGED args, whole' = whole
  PROVE  SumsKept'
<1>1. len' = len /\ Total' = Total /\ given' = given
  BY SumsStable
<1>2. Squares(given)' = Squares(given) /\ Squares(whole)' = Squares(whole)
  BY SquaresStable
<1> QED
  BY <1>1, <1>2 DEF SumsKept

\* A step of another thread leaves the average alone.
LEMMA AverageKept ==
  ASSUME StatInv, Average, UNCHANGED <<args, scans>>, disturbed \subseteq disturbed',
         result'["myAvg"] = result["myAvg"], at'["myAvg"] = at["myAvg"],
         i'["myAvg"] = i["myAvg"],
         at["myAvg"] = "scan" /\ "myAvg" \notin disturbed' =>
           nums' = nums /\ (at["myMed"] # "swap" => at'["myMed"] # "swap")
  PROVE  Average'
<1>1. len' = len /\ Total' = Total /\ least' = least /\ greatest' = greatest
  BY SumsStable
<1> QED
  BY <1>1 DEF Average

\* A step of another thread leaves the deviation alone.
LEMMA DeviationKept ==
  ASSUME StatInv, Deviation, UNCHANGED <<args, scans, mean, read>>,
         disturbed \subseteq disturbed',
         result'["myStdDev"] = result["myStdDev"], at'["myStdDev"] = at["myStdDev"],
         i'["myStdDev"] = i["myStdDev"],
         at["myStdDev"] \in {"scan", "squares", "again"} /\ "myStdDev" \notin disturbed' =>
           nums' = nums /\ (at["myMed"] # "swap" => at'["myMed"] # "swap")
  PROVE  Deviation'
<1>1. len' = len /\ Total' = Total /\ \A t : SumFor(t)' = SumFor(t)
  BY SumsStable
<1>2. nums' = nums => Squares(nums)' = Squares(nums)
  BY SquaresStable
<1> QED
  BY <1>1, <1>2 DEF Deviation

\* An exchange of two neighbours changes no sum.
LEMMA SwapKeepsSums ==
  ASSUME StatInv, SumsKept, SwapFirst
  PROVE  SumsKept'
<1>1. /\ at["myMed"] \in {"none", "scan"} /\ i["myMed"] < len - 1
      /\ at' = [at EXCEPT !["myMed"] = "swap"]
      /\ temp' = nums[j] /\ nums' = [nums EXCEPT ![j] = nums[j + 1]]
      /\ UNCHANGED args /\ j' = j
  BY DEF SwapFirst, Sorting
<1>2. /\ len \in Nat /\ nums \in [0 .. len - 1 -> Int] /\ j \in Nat /\ i["myMed"] \in Nat
      /\ whole = nums
  BY <1>1, Sizes DEF StatInv, whole
<1>3. j + 1 < len - i["myMed"]
  BY <1>1 DEF StatInv, SortInv, SortPlace
<1>4. j \in 0 .. len - 1 /\ j + 1 \in 0 .. len - 1 /\ j + 1 < len /\ j # j + 1
  BY <1>2, <1>3
<1>5. at'["myMed"] = "swap"
  BY <1>1, ScanFacts DEF Threads
<1>6. PICK b : b = [nums' EXCEPT ![j + 1] = nums[j]]
  OBVIOUS
<1>7. whole' = b
  BY <1>1, <1>5, <1>6 DEF whole
<1>8. /\ b \in [0 .. len - 1 -> Int]
      /\ \A p \in 0 .. len - 1 : b[p] = IF p = j THEN nums[j + 1]
                                        ELSE IF p = j + 1 THEN nums[j] ELSE nums[p]
  BY <1>1, <1>2, <1>4, <1>6
<1>9. SumOf(b, len) = SumOf(nums, len)
  BY <1>2, <1>4, <1>8, ExchangeSum
<1>10. SumOf(Squares(b), len) = SumOf(Squares(nums), len)
  <2>1. /\ Squares(nums) \in [0 .. len - 1 -> Int]
        /\ Squares(b) \in [0 .. len - 1 -> Int]
    BY <1>2, <1>8, SumsType DEF StatInv
  <2>2. \A p \in 0 .. len - 1 :
          Squares(b)[p] = IF p = j THEN Squares(nums)[j + 1]
                          ELSE IF p = j + 1 THEN Squares(nums)[j] ELSE Squares(nums)[p]
    BY <1>4, <1>8 DEF Squares
  <2> QED
    BY <1>2, <1>4, <2>1, <2>2, ExchangeSum
<1>11. len' = len /\ Total' = Total /\ given' = given /\ Squares(given)' = Squares(given)
  BY <1>1, SumsStable, SquaresStable
<1>12. Squares(whole)' = Squares(b)
  BY <1>7, <1>11 DEF Squares
<1> QED
  BY <1>2, <1>7, <1>9, <1>10, <1>11, <1>12 DEF SumsKept

\* No store of the sort changes a sum, and every one disturbs the scans.
LEMMA SortKeepsSums ==
  ASSUME StatInv, SumsInv, myMed
  PROVE  SumsInv'
<1>1. UNCHANGED <<args, scans>> /\ UNCHANGED <<result, mean, read>>
  BY DEF myMed, KeepPair, SwapFirst, SwapSecond, Median, scanVars
<1>2. /\ i \in [Threads -> 0 .. len] /\ at \in [Threads -> Stages]
      /\ \A t \in Scans : t \in Threads /\ t # "myMed"
      /\ "myMed" \in Threads /\ "myAvg" \in Scans /\ "myStdDev" \in Scans
  BY ScanFacts DEF Threads, Scans
<1>3. at' = [at EXCEPT !["myMed"] = at'["myMed"]]
  BY <1>2 DEF myMed, KeepPair, SwapFirst, SwapSecond, Median
<1>4. \A t \in Scans : at'[t] = at[t]
  BY <1>2, <1>3
<1>5. \A t \in Scans : i'[t] = i[t]
  <2>1. i' = i \/ i' = [i EXCEPT !["myMed"] = @ + 1]
    BY DEF myMed, KeepPair, SwapFirst, SwapSecond, Median, NextPair
  <2> QED
    BY <1>2, <2>1
<1>6. SumsKept'
  <2>1. CASE KeepPair \/ Median
    <3>1. whole' = whole
      BY <1>2, <2>1 DEF KeepPair, Median, whole
    <3> QED
      BY <1>1, <3>1, WholeKept DEF SumsInv
  <2>2. CASE SwapFirst
    BY <2>2, SwapKeepsSums DEF SumsInv
  <2>3. CASE SwapSecond
    <3>1. whole' = whole
      BY <1>2, <2>3 DEF SwapSecond, whole
    <3> QED
      BY <1>1, <3>1, WholeKept DEF SumsInv
  <2> QED
    BY <2>1, <2>2, <2>3 DEF myMed
<1>7. disturbed \subseteq disturbed'
  BY DEF myMed, KeepPair, SwapFirst, SwapSecond, Median, Disturb
<1>8. ASSUME NEW t \in Scans, at[t] \in {"scan", "squares", "again"}, t \in scans,
             t \notin disturbed'
      PROVE  nums' = nums /\ (at["myMed"] # "swap" => at'["myMed"] # "swap")
  <2>1. ~Disturb
    BY <1>8 DEF Disturb
  <2>2. KeepPair \/ Median
    BY <2>1 DEF myMed, SwapFirst, SwapSecond
  <2> QED
    BY <1>2, <2>2 DEF KeepPair, Median
<1>9. Average'
  <2>1. at["myAvg"] = "scan" => "myAvg" \in scans
    BY DEF SumsInv, Average
  <2> QED
    BY <1>1, <1>2, <1>4, <1>5, <1>7, <1>8, <2>1, AverageKept DEF SumsInv
<1>10. Deviation'
  <2>1. at["myStdDev"] # "none" => "myStdDev" \in scans
    BY DEF SumsInv, Deviation
  <2> QED
    BY <1>1, <1>2, <1>4, <1>5, <1>7, <1>8, <2>1, DeviationKept DEF SumsInv
<1> QED
  BY <1>6, <1>9, <1>10 DEF SumsInv

\* The steps of main() and of the scans for the extremes.
LEMMA OthersKeepSums ==
  ASSUME StatInv, SumsInv, UNCHANGED <<args, scans, mean, read, sortVars>>,
         \A t \in {"myAvg", "myStdDev"} :
           result'[t] = result[t] /\ at'[t] = at[t] /\ i'[t] = i[t],
         at'["myMed"] = at["myMed"], disturbed \subseteq disturbed'
  PROVE  SumsInv'
<1>1. UNCHANGED <<nums, j, temp, args, scans>>
  BY DEF sortVars
<1>2. whole' = whole
  BY <1>1 DEF whole
<1>3. SumsKept'
  BY <1>1, <1>2, WholeKept DEF SumsInv
<1>4. Average' /\ Deviation'
  BY <1>1, AverageKept, DeviationKept DEF SumsInv
<1> QED
  BY <1>3, <1>4 DEF SumsInv

\* A sum starts at 0, and between two stores of a swap it starts disturbed.
LEMMA StartKeepsSums ==
  ASSUME StatInv, SumsInv, NEW t \in Scans, StartScan(t)
  PROVE  SumsInv'
<1>1. /\ len > 0 /\ t \in scans /\ at[t] = "none"
      /\ at' = [at EXCEPT ![t] = "scan"]
      /\ result' = [result EXCEPT ![t] =
                      IF t \in {"myMin", "myMax"} THEN nums[0] ELSE 0]
      /\ disturbed' = IF at["myMed"] = "swap" THEN disturbed \union {t} ELSE disturbed
      /\ UNCHANGED <<args, scans, main, i, mean, read, tornSquare, sortVars>>
  BY DEF StartScan
<1>2. /\ t \in Threads /\ t # "myMed" /\ len \in Nat /\ result \in [Scans -> Int]
      /\ at \in [Threads -> Stages] /\ i[t] = 0 /\ nums \in [0 .. len - 1 -> Int]
  BY <1>1, ScanFacts DEF StatInv, ScanPlace
<1>3. /\ at'["myMed"] = at["myMed"] /\ at'[t] = "scan" /\ i'[t] = 0 /\ nums' = nums
      /\ \A u \in {"myAvg", "myStdDev"} \ {t} :
           result'[u] = result[u] /\ at'[u] = at[u] /\ i'[u] = i[u]
      /\ t \in {"myAvg", "myStdDev"} => result'[t] = 0
  BY <1>1, <1>2 DEF sortVars, Threads, Scans
<1>4. whole' = whole /\ SumsKept'
  <2>1. whole' = whole
    BY <1>1, <1>3 DEF whole, sortVars
  <2> QED
    BY <1>1, <2>1, WholeKept DEF SumsInv
<1>5. t \notin disturbed' => at'["myMed"] # "swap"
  BY <1>1, <1>3
<1>6. SumOf(nums, 0) = 0
  BY <1>2, SumStep
<1>7. Average'
  <2>1. CASE t = "myAvg"
    <3>1. least' = least /\ greatest' = greatest /\ least \in Int /\ greatest \in Int
      BY <1>1, SumsStable, BetweenExtrema, Sizes DEF StatInv
    <3>2. 0 * least = 0 /\ 0 * greatest = 0
      BY <3>1
    <3> QED
      BY <1>1, <1>3, <1>5, <1>6, <2>1, <3>1, <3>2 DEF Average
  <2>2. CASE t # "myAvg"
    BY <1>1, <1>3, <2>2, AverageKept DEF SumsInv
  <2> QED
    BY <2>1, <2>2
<1>8. Deviation'
  <2>1. CASE t = "myStdDev"
    <3>1. mean' = 0
      BY <1>1, <2>1 DEF SumsInv, Deviation
    <3> QED
      BY <1>1, <1>3, <1>5, <1>6, <2>1, <3>1 DEF Deviation
  <2>2. CASE t # "myStdDev"
    BY <1>1, <1>3, <2>2, DeviationKept DEF SumsInv
  <2> QED
    BY <2>1, <2>2
<1> QED
  BY <1>4, <1>7, <1>8 DEF SumsInv

\* Where a scan gets to when it has dealt with an element.
LEMMA RoundGoes ==
  ASSUME StatInv, NEW t \in Scans, at[t] \in {"scan", "again", "squares"},
         NEW here \in Stages, NEW after \in Stages, NextRound(t, here, after)
  PROVE  /\ \/ i[t] + 1 < len /\ i'[t] = i[t] + 1 /\ at'[t] = here
            \/ i[t] + 1 = len /\ i'[t] = 0 /\ at'[t] = after
         /\ \A u \in Threads \ {t} : i'[u] = i[u] /\ at'[u] = at[u]
         /\ at'["myMed"] = at["myMed"]
<1>1. /\ i \in [Threads -> 0 .. len] /\ at \in [Threads -> Stages] /\ len \in Nat
      /\ t \in Threads /\ t # "myMed" /\ i[t] \in 0 .. len - 1
  BY ScanFacts
<1> QED
  BY <1>1 DEF NextRound, Threads

\* One more number is added; at the end all of them have been.
LEMMA AddKeepsSums ==
  ASSUME StatInv, Doubled, SumsInv, Add
  PROVE  SumsInv'
<1> DEFINE t == "myAvg"
<1>1. /\ at[t] = "scan" /\ NextRound(t, "scan", "exit")
      /\ result' = [result EXCEPT ![t] = result[t] + nums[i[t]]]
      /\ UNCHANGED <<args, scans, main, disturbed, mean, read, tornSquare, sortVars>>
  BY DEF Add
<1>2. /\ t \in Scans /\ "scan" \in Stages /\ "exit" \in Stages
      /\ "myStdDev" \in Threads \ {t} /\ "myStdDev" \in Scans
  BY DEF Scans, Stages, Threads
<1>3. /\ \/ i[t] + 1 < len /\ i'[t] = i[t] + 1 /\ at'[t] = "scan"
         \/ i[t] + 1 = len /\ i'[t] = 0 /\ at'[t] = "exit"
      /\ i'["myStdDev"] = i["myStdDev"] /\ at'["myStdDev"] = at["myStdDev"]
      /\ at'["myMed"] = at["myMed"]
  BY <1>1, <1>2, RoundGoes
<1>4. /\ len \in Nat /\ i[t] \in 0 .. len - 1 /\ i[t] + 1 \in 0 .. len /\ len > 0
      /\ nums \in [0 .. len - 1 -> Int] /\ result \in [Scans -> Int]
      /\ nums' = nums
  BY <1>1, <1>2, ScanFacts DEF sortVars
<1>5. PICK x : x = nums[i[t]]
  OBVIOUS
<1>6. x \in Int /\ least \in Int /\ greatest \in Int /\ least <= x /\ x <= greatest
  <2>1. x \in Range(args)
    BY <1>4, <1>5, ElementsGiven
  <2> QED
    BY <1>4, <2>1, BetweenExtrema, Sizes DEF StatInv
<1>7. result'[t] = result[t] + x /\ result'["myStdDev"] = result["myStdDev"]
      /\ result[t] \in Int
  BY <1>1, <1>2, <1>4, <1>5
<1>8. (i[t] + 1) * least <= result'[t] /\ result'[t] <= (i[t] + 1) * greatest
  <2>1. \A k, y \in Int : (k + 1) * y = k * y + y /\ k * y \in Int
    OBVIOUS
  <2>2. i[t] * least <= result[t] /\ result[t] <= i[t] * greatest
    BY <1>1 DEF SumsInv, Average
  <2>3. i[t] \in Int
    BY <1>4
  <2>4. PICK lo, hi \in Int : lo = i[t] * least /\ hi = i[t] * greatest
    BY <1>6, <2>1, <2>3
  <2>5. (i[t] + 1) * least = lo + least /\ (i[t] + 1) * greatest = hi + greatest
    BY <1>6, <2>1, <2>3, <2>4
  <2> QED
    BY <1>6, <1>7, <2>2, <2>4, <2>5
<1>9. t \notin disturbed =>
        at["myMed"] # "swap" /\ result'[t] = SumOf(nums, i[t] + 1)
  BY <1>1, <1>4, <1>5, <1>7, SumStep DEF SumsInv, Average
<1>10. at["myMed"] # "swap" => SumOf(nums, len) = Total
  BY DEF SumsInv, SumsKept, whole
<1>11. /\ len' = len /\ Total' = Total /\ least' = least /\ greatest' = greatest
  BY <1>1, SumsStable
<1>12. t \in scans
  BY <1>1 DEF SumsInv, Average
<1>13. Average'
  <2>1. CASE i[t] + 1 < len
    <3>1. i'[t] = i[t] + 1 /\ at'[t] = "scan"
      BY <1>3, <1>4, <2>1
    <3> QED
      BY <1>1, <1>3, <1>4, <1>8, <1>9, <1>11, <1>12, <3>1 DEF Average
  <2>2. CASE i[t] + 1 = len
    <3>1. at'[t] = "exit"
      BY <1>3, <1>4, <2>2
    <3>2. t \notin disturbed => result'[t] = Total
      BY <1>9, <1>10, <2>2
    <3> QED
      BY <1>1, <1>4, <1>8, <1>11, <1>12, <2>2, <3>1, <3>2 DEF Average
  <2> QED
    BY <1>3, <2>1, <2>2
<1>14. Deviation'
  BY <1>1, <1>3, <1>4, <1>7, DeviationKept DEF SumsInv
<1>15. SumsKept'
  <2>1. whole' = whole
    BY <1>1, <1>3 DEF whole, sortVars
  <2> QED
    BY <1>1, <2>1, WholeKept DEF SumsInv
<1> QED
  BY <1>13, <1>14, <1>15 DEF SumsInv

\* The first loop of myStdDev(), which ends with the mean.
LEMMA MeanKeepsSums ==
  ASSUME StatInv, SumsInv, AddToMean
  PROVE  SumsInv'
<1> DEFINE t == "myStdDev"
<1>1. /\ at[t] = "scan" /\ NextRound(t, "scan", "squares")
      /\ mean' = mean + nums[i[t]]
      /\ UNCHANGED <<args, scans, main, disturbed, result, read, tornSquare, sortVars>>
  BY DEF AddToMean
<1>2. /\ t \in Scans /\ "scan" \in Stages /\ "squares" \in Stages
      /\ "myAvg" \in Threads \ {t} /\ "myAvg" \in Scans
  BY DEF Scans, Stages, Threads
<1>3. /\ \/ i[t] + 1 < len /\ i'[t] = i[t] + 1 /\ at'[t] = "scan"
         \/ i[t] + 1 = len /\ i'[t] = 0 /\ at'[t] = "squares"
      /\ i'["myAvg"] = i["myAvg"] /\ at'["myAvg"] = at["myAvg"]
      /\ at'["myMed"] = at["myMed"]
  BY <1>1, <1>2, RoundGoes
<1>4. /\ len \in Nat /\ i[t] \in 0 .. len - 1 /\ i[t] + 1 \in 0 .. len
      /\ nums \in [0 .. len - 1 -> Int] /\ nums' = nums /\ UNCHANGED <<args, scans>>
  BY <1>1, <1>2, ScanFacts DEF sortVars
<1>5. t \notin disturbed => at["myMed"] # "swap" /\ mean' = SumOf(nums, i[t] + 1)
  BY <1>1, <1>4, SumStep DEF SumsInv, Deviation
<1>6. at["myMed"] # "swap" => SumOf(nums, len) = Total
  BY DEF SumsInv, SumsKept, whole
<1>7. len' = len /\ Total' = Total /\ Squares(nums)' = Squares(nums)
  BY <1>4, SumsStable, SquaresStable
<1>8. SumOf(Squares(nums), 0) = 0
  BY <1>4, SumsType, SumStep DEF StatInv
<1>9. t \in scans /\ result[t] = 0
  BY <1>1 DEF SumsInv, Deviation
<1>10. Deviation'
  <2>1. CASE i[t] + 1 < len
    <3>1. i'[t] = i[t] + 1 /\ at'[t] = "scan"
      BY <1>3, <1>4, <2>1
    <3> QED
      BY <1>1, <1>3, <1>4, <1>5, <1>9, <3>1 DEF Deviation
  <2>2. CASE i[t] + 1 = len
    <3>1. i'[t] = 0 /\ at'[t] = "squares"
      BY <1>3, <1>4, <2>2
    <3>2. t \notin disturbed => mean' = Total
      BY <1>5, <1>6, <2>2
    <3> QED
      BY <1>1, <1>3, <1>4, <1>5, <1>7, <1>8, <1>9, <3>1, <3>2 DEF Deviation
  <2> QED
    BY <1>3, <2>1, <2>2
<1>11. Average'
  BY <1>1, <1>3, <1>4, AverageKept DEF SumsInv
<1>12. SumsKept'
  <2>1. whole' = whole
    BY <1>1, <1>3 DEF whole, sortVars
  <2> QED
    BY <1>1, <2>1, WholeKept DEF SumsInv
<1> QED
  BY <1>10, <1>11, <1>12 DEF SumsInv

\* The first read of a square is of the element the second one reads.
LEMMA FactorKeepsSums ==
  ASSUME StatInv, SumsInv, ReadFactor
  PROVE  SumsInv'
<1> DEFINE t == "myStdDev"
<1>1. /\ at[t] = "squares" /\ read' = nums[i[t]] /\ at' = [at EXCEPT ![t] = "again"]
      /\ UNCHANGED <<args, scans, main, i, disturbed, result, mean, tornSquare,
                     sortVars>>
  BY DEF ReadFactor
<1>2. t \in Threads /\ at \in [Threads -> Stages] /\ "myAvg" \in Threads
      /\ "myMed" \in Threads
  BY ScanFacts DEF Scans, Threads
<1>3. at'[t] = "again" /\ at'["myAvg"] = at["myAvg"] /\ at'["myMed"] = at["myMed"]
  BY <1>1, <1>2
<1>4. nums' = nums /\ UNCHANGED <<args, scans>>
  BY <1>1 DEF sortVars
<1>5. Total' = Total /\ Squares(nums)' = Squares(nums)
  BY <1>4, SumsStable, SquaresStable
<1>6. Deviation'
  BY <1>1, <1>3, <1>4, <1>5 DEF SumsInv, Deviation
<1>7. Average'
  BY <1>1, <1>3, <1>4, AverageKept DEF SumsInv
<1>8. SumsKept'
  <2>1. whole' = whole
    BY <1>1, <1>3 DEF whole, sortVars
  <2> QED
    BY <1>1, <2>1, WholeKept DEF SumsInv
<1> QED
  BY <1>6, <1>7, <1>8 DEF SumsInv

\* One more square is added; at the end all of them have been.
LEMMA SquareKeepsSums ==
  ASSUME StatInv, SumsInv, AddSquare
  PROVE  SumsInv'
<1> DEFINE t == "myStdDev"
<1>1. PICK other, product :
        /\ other = nums[i[t]]
        /\ product = (len * read - mean) * (len * other - mean)
  OBVIOUS
<1>2. /\ at[t] = "again" /\ result' = [result EXCEPT ![t] = result[t] + product]
      /\ NextRound(t, "squares", "exit")
      /\ UNCHANGED <<args, scans, main, disturbed, mean, read, sortVars>>
  BY <1>1 DEF AddSquare
<1>3. /\ t \in Scans /\ "exit" \in Stages /\ "squares" \in Stages
      /\ "myAvg" \in Threads \ {t} /\ "myAvg" \in Scans
  BY DEF Scans, Stages, Threads
<1>4. /\ \/ i[t] + 1 < len /\ i'[t] = i[t] + 1 /\ at'[t] = "squares"
         \/ i[t] + 1 = len /\ i'[t] = 0 /\ at'[t] = "exit"
      /\ i'["myAvg"] = i["myAvg"] /\ at'["myAvg"] = at["myAvg"]
      /\ at'["myMed"] = at["myMed"]
  BY <1>2, <1>3, RoundGoes
<1>5. /\ len \in Nat /\ i[t] \in 0 .. len - 1 /\ i[t] + 1 \in 0 .. len
      /\ nums \in [0 .. len - 1 -> Int] /\ nums' = nums /\ UNCHANGED <<args, scans>>
      /\ result \in [Scans -> Int]
  BY <1>2, <1>3, ScanFacts DEF sortVars
<1>6. /\ result'[t] = result[t] + product /\ result'["myAvg"] = result["myAvg"]
  BY <1>2, <1>3, <1>5
<1>7. ASSUME t \notin disturbed
      PROVE  /\ at["myMed"] # "swap" /\ mean = Total
             /\ result'[t] = SumOf(Squares(nums), i[t] + 1)
  <2>1. /\ at["myMed"] # "swap" /\ mean = Total /\ read = other
        /\ result[t] = SumOf(Squares(nums), i[t])
    BY <1>1, <1>2, <1>7 DEF SumsInv, Deviation
  <2>2. product = Squares(nums)[i[t]]
    BY <1>1, <1>5, <2>1 DEF Squares
  <2>3. Squares(nums) \in [0 .. len - 1 -> Int]
    BY <1>5, SumsType DEF StatInv
  <2>4. SumOf(Squares(nums), i[t] + 1) = SumOf(Squares(nums), i[t]) + Squares(nums)[i[t]]
    BY <1>5, <2>3, SumStep
  <2> QED
    BY <1>6, <2>1, <2>2, <2>4
<1>8. at["myMed"] # "swap" => SumOf(Squares(nums), len) = SumFor(t)
  BY DEF SumsInv, SumsKept, whole, SumFor
<1>9. /\ Total' = Total /\ Squares(nums)' = Squares(nums) /\ SumFor(t)' = SumFor(t)
  BY <1>5, SumsStable, SquaresStable
<1>10. t \in scans
  BY <1>2 DEF SumsInv, Deviation
<1>11. Deviation'
  <2>1. CASE i[t] + 1 < len
    <3>1. i'[t] = i[t] + 1 /\ at'[t] = "squares"
      BY <1>4, <1>5, <2>1
    <3> QED
      BY <1>2, <1>4, <1>5, <1>7, <1>9, <1>10, <3>1 DEF Deviation
  <2>2. CASE i[t] + 1 = len
    <3>1. at'[t] = "exit"
      BY <1>4, <1>5, <2>2
    <3>2. t \notin disturbed => result'[t] = SumFor(t)
      BY <1>7, <1>8, <2>2
    <3> QED
      BY <1>2, <1>5, <1>9, <1>10, <3>1, <3>2 DEF Deviation
  <2> QED
    BY <1>4, <2>1, <2>2
<1>12. Average'
  BY <1>2, <1>4, <1>5, <1>6, AverageKept DEF SumsInv
<1>13. SumsKept'
  <2>1. whole' = whole
    BY <1>2, <1>4 DEF whole, sortVars
  <2> QED
    BY <1>2, <2>1, WholeKept DEF SumsInv
<1> QED
  BY <1>11, <1>12, <1>13 DEF SumsInv

\* Every step keeps what is known of the sums.
LEMMA StepSums ==
  StatInv /\ ExtremesInv /\ SumsInv /\ [StatNext]_statVars => SumsInv'
<1> SUFFICES ASSUME StatInv, ExtremesInv, SumsInv, [StatNext]_statVars PROVE SumsInv'
  OBVIOUS
<1>1. CASE Usage \/ PrintResults \/ UNCHANGED statVars
  <2>1. UNCHANGED <<args, scans, at, i, disturbed, scanVars, sortVars>>
    BY <1>1 DEF Usage, PrintResults, statVars
  <2>2. UNCHANGED <<result, mean, read>>
    BY <2>1 DEF scanVars
  <2> QED
    BY <2>1, <2>2, OthersKeepSums
<1>2. CASE Add
  BY <1>2, AddKeepsSums DEF ExtremesInv
<1>3. CASE AddToMean
  BY <1>3, MeanKeepsSums
<1>4. CASE ReadFactor
  BY <1>4, FactorKeepsSums
<1>5. CASE AddSquare
  BY <1>5, SquareKeepsSums
<1>6. CASE myMed
  BY <1>6, SortKeepsSums
<1>7. ASSUME NEW t \in Scans, Compare(t) \/ Take(t) PROVE SumsInv'
  <2>1. /\ t \in Extremes /\ UNCHANGED <<args, scans, mean, read, sortVars>>
        /\ disturbed' = disturbed
    BY <1>7 DEF Compare, Take, Extremes, scanVars
  <2>2. /\ result \in [Scans -> Int] /\ i \in [Threads -> 0 .. len]
        /\ at \in [Threads -> Stages]
    BY ScanFacts
  <2>3. /\ \A u \in {"myAvg", "myStdDev"} : u \in Scans /\ u \in Threads /\ u # t
        /\ "myMed" \in Threads /\ t # "myMed"
    BY <2>1 DEF Extremes, Scans, Threads
  <2>4. /\ at'["myMed"] = at["myMed"]
        /\ \A u \in {"myAvg", "myStdDev"} :
             result'[u] = result[u] /\ at'[u] = at[u] /\ i'[u] = i[u]
    BY <1>7, <2>2, <2>3 DEF Compare, Take, NextRound, scanVars
  <2> QED
    BY <2>1, <2>4, OthersKeepSums
<1>8. ASSUME NEW t \in Scans, Scan(t) PROVE SumsInv'
  BY <1>7, <1>8, StartKeepsSums DEF Scan
<1> QED
  BY <1>1, <1>2, <1>3, <1>4, <1>5, <1>6, <1>8 DEF StatNext

\* What the invariant says of the sums that are returned.
LEMMA SumsFound == StatInv /\ SumsInv => SumsExact
<1> SUFFICES ASSUME StatInv, SumsInv, NEW t \in scans \intersect {"myAvg", "myStdDev"},
                    at[t] = "exit"
             PROVE  /\ t \notin disturbed => result[t] = SumFor(t)
                    /\ t = "myAvg" =>
                         result[t] \in len * Min(Range(args)) .. len * Max(Range(args))
  BY DEF SumsExact
<1>1. t \notin disturbed => result[t] = SumFor(t)
  BY DEF SumsInv, Average, Deviation, SumFor
<1>2. ASSUME t = "myAvg"
      PROVE  result[t] \in len * Min(Range(args)) .. len * Max(Range(args))
  <2>1. len * least <= result[t] /\ result[t] <= len * greatest
    BY <1>2 DEF SumsInv, Average
  <2>2. least = Min(Range(args)) /\ greatest = Max(Range(args))
    BY DEF least, greatest, Extremum
  <2>3. result[t] \in Int
    BY <1>2, ScanFacts DEF Scans
  <2>4. len * least \in Int /\ len * greatest \in Int
    <3>1. len > 0
      BY <1>2 DEF SumsInv, Average
    <3> QED
      BY <3>1, BetweenExtrema, Sizes DEF StatInv
  <2> QED
    BY <2>1, <2>2, <2>3, <2>4
<1> QED
  BY <1>1, <1>2

\* What a thread of Lab 3 returns is exact if the sort stored nothing while it
\* ran; an average that was disturbed still lies between the extremes.
THEOREM ScansExact == StatSpec => []ExactUnlessSwapping
<1>1. StatInit => StatInv /\ ExtremesInv /\ SumsInv
  BY StatInitInv, InitExtremes, InitSums
<1>2. StatInv /\ ExtremesInv /\ SumsInv /\ [StatNext]_statVars
      => (StatInv /\ ExtremesInv /\ SumsInv)'
  BY StatStepInv, StepExtremes, StepSums
<1>3. StatInv /\ ExtremesInv /\ SumsInv => ExactUnlessSwapping
  BY SumsFound DEF StatInv, ExtremesInv, Extremes, Extreme, ExtremesExact,
                   ExactUnlessSwapping
<1> QED
  BY <1>1, <1>2, <1>3, PTL DEF StatSpec
=============================================================================
