----------------------------- MODULE BridgeMutex -----------------------------
(***************************************************************************)
(* Lab 6, exercise 2: a mutex, a condition variable, a flag "crossing", the *)
(* side that entered last in "prev" (1 for North), and two counters of     *)
(* waiting farmers.                                                        *)
(*                                                                         *)
(* A farmer locks the mutex in enter_bridge and unlocks it in exit_bridge, *)
(* so it holds the mutex for the whole crossing.  The counters are         *)
(* incremented before the lock is taken: the load and the store of an      *)
(* increment or a decrement are steps of their own.                        *)
(***************************************************************************)
EXTENDS BridgeMain

Nobody == -1

VARIABLES
  owner,        \* the thread that holds c_mutex
  num_waiting,  \* num_waiting[1] is num_Nwaiting, num_waiting[0] num_Swaiting
  loaded,       \* the counter value a thread has loaded but not stored back
  crossing, prev

vars == <<mainVars, owner, num_waiting, loaded, crossing, prev>>

Locations == {"none", "start", "increment", "lock", "test", "waiting",
              "decrement", "bridge", "unlock", "broadcast", "exited"}

TypeOK ==
  /\ MainTypeOK
  /\ pc \in [Farmers -> Locations]
  /\ owner \in Farmers \union {Nobody}
  /\ num_waiting \in [{0, 1} -> Int]
  /\ loaded \in [Farmers -> Int]
  /\ crossing \in {0, 1}
  /\ prev \in {0, 1}

-----------------------------------------------------------------------------
Init ==
  /\ MainInit
  /\ owner = Nobody
  /\ num_waiting = [side \in {0, 1} |-> 0]
  /\ loaded = [f \in Farmers |-> 0]
  /\ crossing = 0
  /\ prev = 0

Go(f, from, to) ==
  /\ pc[f] = from
  /\ pc' = [pc EXCEPT ![f] = to]
  /\ UNCHANGED <<created, joined, freed>>

Load(f) ==
  /\ loaded' = [loaded EXCEPT ![f] = num_waiting[isNorth(f)]]
  /\ UNCHANGED num_waiting

Store(f, n) ==
  /\ num_waiting' = [num_waiting EXCEPT ![isNorth(f)] = n]
  /\ UNCHANGED loaded

\* num_Nwaiting++ without the lock
LoadWaiting(f) ==
  /\ Go(f, "start", "increment")
  /\ Load(f)
  /\ UNCHANGED <<owner, crossing, prev>>

StoreWaiting(f) ==
  /\ Go(f, "increment", "lock")
  /\ Store(f, loaded[f] + 1)
  /\ UNCHANGED <<owner, crossing, prev>>

\* Faulty variant: entering without waiting for the mutex.
LockUnguarded(f) ==
  /\ \E from \in {"lock", "waiting"} : Go(f, from, "test")
  /\ owner' = f
  /\ UNCHANGED <<num_waiting, loaded, crossing, prev>>

\* pthread_mutex_lock(), and the lock that pthread_cond_wait() takes again
\* when it returns without having been signalled
Lock(f) ==
  /\ owner = Nobody
  /\ \E from \in {"lock", "waiting"} : Go(f, from, "test")
  /\ owner' = f
  /\ UNCHANGED <<num_waiting, loaded, crossing, prev>>

\* the conditions of the two while loops: the bridge is taken, and the farmer
\* who entered it last came from the other side
NorthWaits == crossing = 1 /\ prev = 0
SouthWaits == crossing = 1 /\ prev = 1
MustWait(f) == IF isNorth(f) = 1 THEN NorthWaits ELSE SouthWaits

\* one test of the loop, with pthread_cond_wait(); behind the loop the farmer
\* loads its counter for the decrement
Test(f) ==
  IF MustWait(f)
  THEN /\ Go(f, "test", "waiting")
       /\ owner' = Nobody
       /\ UNCHANGED <<num_waiting, loaded, crossing, prev>>
  ELSE /\ Go(f, "test", "decrement")
       /\ Load(f)
       /\ UNCHANGED <<owner, crossing, prev>>

\* Faulty variant: the decrement is missing.
EnterKeepsCount(f) ==
  /\ Go(f, "decrement", "bridge")
  /\ prev' = isNorth(f)
  /\ crossing' = 1
  /\ UNCHANGED <<owner, num_waiting, loaded>>

Enter(f) ==
  /\ Go(f, "decrement", "bridge")
  /\ Store(f, loaded[f] - 1)
  /\ prev' = isNorth(f)
  /\ crossing' = 1
  /\ UNCHANGED owner

\* Faulty variant: exit_bridge leaves the flag set, so that the next farmer from
\* the other side waits, and nobody may come to wake it.
FlagStaysSet(f) ==
  /\ Go(f, "bridge", "unlock")
  /\ UNCHANGED <<owner, num_waiting, loaded, crossing, prev>>

\* exit_bridge: the flag, the mutex and the broadcast, one after the other
ClearCrossing(f) ==
  /\ Go(f, "bridge", "unlock")
  /\ crossing' = 0
  /\ UNCHANGED <<owner, num_waiting, loaded, prev>>

Unlock(f) ==
  /\ Go(f, "unlock", "broadcast")
  /\ owner' = Nobody
  /\ UNCHANGED <<num_waiting, loaded, crossing, prev>>

\* the broadcast wakes every waiting thread; then pthread_exit()
Broadcast(f) ==
  /\ pc[f] = "broadcast"
  /\ pc' = [g \in Farmers |-> IF g = f THEN "exited"
                              ELSE IF pc[g] = "waiting" THEN "lock"
                              ELSE pc[g]]
  /\ UNCHANGED <<created, joined, freed, owner, num_waiting, loaded,
                 crossing, prev>>

Farmer(f) ==
  \/ LoadWaiting(f)
  \/ StoreWaiting(f)
  \/ Lock(f)
  \/ Test(f)
  \/ Enter(f)
  \/ ClearCrossing(f)
  \/ Unlock(f)
  \/ Broadcast(f)

MainStep == Main /\ UNCHANGED <<owner, num_waiting, loaded, crossing, prev>>

Next == MainStep \/ \E f \in Farmers : Farmer(f)

Spec == Init /\ [][Next]_vars

\* The scheduler runs every thread that can run.  A thread blocked in
\* pthread_cond_wait() need not be woken without a signal, so nothing is
\* assumed of it there.
FairSpec ==
  /\ Spec
  /\ WF_vars(MainStep)
  /\ \A f \in Farmers : WF_vars(pc[f] # "waiting" /\ Farmer(f))

-----------------------------------------------------------------------------
\* The flag is set exactly while a farmer is on the bridge, and that farmer
\* holds the mutex; so a farmer that gets the mutex always finds it clear.
CrossingMatchesBridge ==
  /\ crossing = 1 <=> \E f \in Farmers : pc[f] = "bridge"
  /\ \A f \in Farmers : pc[f] = "bridge" => owner = f

\* The race on a counter loses updates, but what is left of them when everyone
\* has crossed is less than the number of farmers on that side.
CounterDriftBounded ==
  freed =>
    \A side \in {0, 1} :
      LET n == Cardinality({f \in Farmers : isNorth(f) = side})
      IN IF n = 0 THEN num_waiting[side] = 0
         ELSE num_waiting[side] \in 1 - n .. n - 1

\* Exercise 2 is exercise 1 with other means: holding c_mutex is having passed
\* sem_wait(), and releasing it is sem_post().  The counters, the flag and prev
\* decide nothing, and no farmer ever gives the bridge away by waiting on the
\* condition variable, which would be a step exercise 1 does not have.
Place(l) ==
  CASE l \in {"start", "increment", "lock", "waiting"} -> "start"
    [] l \in {"test", "decrement", "bridge", "unlock"} -> "bridge"
    [] l = "broadcast" -> "leaving"
    [] OTHER -> l

pcEx1  == [f \in Farmers |-> Place(pc[f])]
semEx1 == IF owner = Nobody THEN 1 ELSE 0

Exercise1 == INSTANCE BridgeSem WITH pc <- pcEx1, sem <- semEx1

\* Every step of exercise 2 is a step of exercise 1 or invisible there.
ImplementsExercise1 == Exercise1!Spec

\* Everybody gets across and main() returns: no farmer is left behind at the
\* mutex or asleep on the condition variable, whose broadcast comes only after
\* the mutex has been released.
EveryoneCrosses == <>freed
=============================================================================
