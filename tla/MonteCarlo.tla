----------------------------- MODULE MonteCarlo -----------------------------
(***************************************************************************)
(* lab05_ex3.c: four threads throw points into a square and count in the   *)
(* shared pts_circle those that fall into the circle.  The increment       *)
(* stands before the lock, not under it, so it is a load and a store that  *)
(* other threads can come between; the lock guards nothing.                *)
(***************************************************************************)
EXTENDS Integers

CONSTANT Arguments        \* the values argv[1] may have

ASSUME ArgumentsAreCounts == Arguments \subseteq Nat

\* pts_todraw * pts_total is an int.  Beyond it (from an argument of 92684 on) the
\* product is undefined in C, and the program is not modelled.
INT_MAX == 2147483647
ASSUME ProductsFit == \A N \in Arguments : (N \div 4) * N <= INT_MAX

VARIABLES
  pts_total, pts_circle,  \* the globals
  lock,                   \* a worker or Free
  main_at,                \* 0..3: creating that thread, 4..7: joining thread
                          \* main_at - 4, 8: computing pi, 9: returned
  pc, drawn, n,           \* of each worker: where it is, the value of i, and
                          \* the value of pts_circle it has loaded
  stored, overlapped      \* history: hits each worker has stored, and whether
                          \* two workers were ever between load and store

vars == <<pts_total, pts_circle, lock, main_at, pc, drawn, n, stored,
          overlapped>>

Workers == 0 .. 3
Free == 4
AllWorkers(f) == f[0] + f[1] + f[2] + f[3]

\* the draws of each thread: pts_todraw for three of them, and
\* pts_todraw * pts_total % 4, which C reads from the left, for the last
pts_todraw == pts_total \div 4
n_to_draw(w) == IF w = 3 THEN (pts_todraw * pts_total) % 4 ELSE pts_todraw

TypeOK ==
  /\ pts_total \in Arguments
  /\ pts_circle \in Nat
  /\ lock \in Workers \union {Free}
  /\ main_at \in 0 .. 9
  /\ pc \in [Workers -> {"none", "draw", "add", "lock", "unlock", "exit"}]
  /\ drawn \in [Workers -> Nat]
  /\ n \in [Workers -> Nat]
  /\ stored \in [Workers -> Nat]
  /\ overlapped \in BOOLEAN

-----------------------------------------------------------------------------
Init ==
  /\ pts_total \in Arguments
  /\ pts_circle = 0
  /\ lock = Free
  /\ main_at = 0
  /\ pc = [w \in Workers |-> "none"]
  /\ drawn = [w \in Workers |-> 0]
  /\ n = [w \in Workers |-> 0]
  /\ stored = [w \in Workers |-> 0]
  /\ overlapped = FALSE

Create ==
  /\ main_at < 4
  /\ pc' = [pc EXCEPT ![main_at] = "draw"]
  /\ main_at' = main_at + 1
  /\ UNCHANGED <<pts_total, pts_circle, lock, drawn, n, stored, overlapped>>

Join ==
  /\ main_at \in 4 .. 7
  /\ pc[main_at - 4] = "exit"
  /\ main_at' = main_at + 1
  /\ UNCHANGED <<pts_total, pts_circle, lock, pc, drawn, n, stored,
                 overlapped>>

\* 4.0 * pts_circle / pts_total is printed
Report ==
  /\ main_at = 8
  /\ main_at' = 9
  /\ UNCHANGED <<pts_total, pts_circle, lock, pc, drawn, n, stored,
                 overlapped>>

Main == Create \/ Join \/ Report

\* a point outside the circle
Miss(w) ==
  /\ pc[w] = "draw"
  /\ drawn[w] < n_to_draw(w)
  /\ drawn' = [drawn EXCEPT ![w] = @ + 1]
  /\ UNCHANGED <<pts_total, pts_circle, lock, main_at, pc, n, stored,
                 overlapped>>

\* Faulty variant: the loop runs once too often.
LoadOneMore(w) ==
  /\ pc[w] = "draw"
  /\ drawn[w] <= n_to_draw(w)
  /\ drawn' = [drawn EXCEPT ![w] = @ + 1]
  /\ n' = [n EXCEPT ![w] = pts_circle]
  /\ pc' = [pc EXCEPT ![w] = "add"]
  /\ overlapped' = (overlapped \/ \E v \in Workers : pc[v] = "add")
  /\ UNCHANGED <<pts_total, pts_circle, lock, main_at, stored>>

\* a point inside it: pts_circle += 1 begins with a load
Load(w) ==
  /\ pc[w] = "draw"
  /\ drawn[w] < n_to_draw(w)
  /\ drawn' = [drawn EXCEPT ![w] = @ + 1]
  /\ n' = [n EXCEPT ![w] = pts_circle]
  /\ pc' = [pc EXCEPT ![w] = "add"]
  /\ overlapped' = (overlapped \/ \E v \in Workers : pc[v] = "add")
  /\ UNCHANGED <<pts_total, pts_circle, lock, main_at, stored>>

\* Faulty variant: the loaded value is written back.
StoreUnchanged(w) ==
  /\ pc[w] = "add"
  /\ pts_circle' = n[w]
  /\ stored' = [stored EXCEPT ![w] = @ + 1]
  /\ pc' = [pc EXCEPT ![w] = "lock"]
  /\ UNCHANGED <<pts_total, lock, main_at, drawn, n, overlapped>>

Store(w) ==
  /\ pc[w] = "add"
  /\ pts_circle' = n[w] + 1
  /\ stored' = [stored EXCEPT ![w] = @ + 1]
  /\ pc' = [pc EXCEPT ![w] = "lock"]
  /\ UNCHANGED <<pts_total, lock, main_at, drawn, n, overlapped>>

Lock(w) ==
  /\ pc[w] = "lock"
  /\ lock = Free
  /\ lock' = w
  /\ pc' = [pc EXCEPT ![w] = "unlock"]
  /\ UNCHANGED <<pts_total, pts_circle, main_at, drawn, n, stored, overlapped>>

\* Faulty variant: pthread_mutex_unlock() is forgotten.
UnlockForgotten(w) ==
  /\ pc[w] = "unlock"
  /\ pc' = [pc EXCEPT ![w] = "draw"]
  /\ UNCHANGED <<pts_total, pts_circle, lock, main_at, drawn, n, stored,
                 overlapped>>

Unlock(w) ==
  /\ pc[w] = "unlock"
  /\ lock' = Free
  /\ pc' = [pc EXCEPT ![w] = "draw"]
  /\ UNCHANGED <<pts_total, pts_circle, main_at, drawn, n, stored, overlapped>>

Exit(w) ==
  /\ pc[w] = "draw"
  /\ drawn[w] = n_to_draw(w)
  /\ pc' = [pc EXCEPT ![w] = "exit"]
  /\ UNCHANGED <<pts_total, pts_circle, lock, main_at, drawn, n, stored,
                 overlapped>>

worker(w) ==
  Miss(w) \/ Load(w) \/ Store(w) \/ Lock(w) \/ Unlock(w) \/ Exit(w)

Next == Main \/ \E w \in Workers : worker(w)

Spec == Init /\ [][Next]_vars

\* Threads that can run do run.  The number of lock operations is bounded, so a
\* worker that is passed over finds the mutex free in the end.
FairSpec == Spec /\ WF_vars(Main) /\ \A w \in Workers : WF_vars(worker(w))

-----------------------------------------------------------------------------
\* The estimate stays between 0 and 4 for every argument, although increments
\* can be lost, old values be written back, and the four quotas (n_to_draw) do
\* not add up to pts_total: no count ever exceeds the points asked for.
EstimateWithinRange ==
  /\ pts_circle <= AllWorkers(drawn)
  /\ AllWorkers(drawn) <= pts_total

\* The count is wrong only if the race really happened: as long as no two
\* workers were between the load and the store of pts_circle += 1 together,
\* every point in the circle has been counted.
ExactUnlessOverlap == ~overlapped => pts_circle = AllWorkers(stored)

\* How much the race can lose: everything but two points, and only a worker
\* with a single hit can bring the count down to one.
TwoSurvive ==
  main_at = 9 /\ AllWorkers(stored) > 0 =>
    /\ pts_circle > 0
    /\ (\A w \in Workers : stored[w] # 1) => pts_circle >= 2

\* The lock that guards nothing stops nobody for good: main() reports.
Reports == <>(main_at = 9)
=============================================================================
