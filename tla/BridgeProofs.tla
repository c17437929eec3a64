---------------------------- MODULE BridgeProofs ----------------------------
(***************************************************************************)
(* Proofs about Lab 6, for any number of farmers.  Exercise 2: the         *)
(* crossing is safe, it implements what exercise 1 does with a semaphore,  *)
(* and each counter is off by less than the farmers of its side.  Exercise *)
(* 1 itself comes last.                                                    *)
(***************************************************************************)
EXTENDS BridgeMutex, FiniteSetTheorems, TLAPS

\* Where a farmer holds c_mutex.
Holding == {"test", "decrement", "bridge", "unlock"}

\* The mutex is held by the one thread that is in such a place.
OwnerHolds == \A f \in Farmers : pc[f] \in Holding <=> owner = f

\* Nobody is ever asleep on the condition variable.
NeverWaits == \A f \in Farmers : pc[f] # "waiting"

\* A farmer whose thread is not created yet has not started.
NotCreatedYet == \A f \in Farmers : f >= created => pc[f] = "none"

Inv == TypeOK /\ OwnerHolds /\ NeverWaits /\ NotCreatedYet /\ CrossingMatchesBridge

USE FarmersAssumption

-----------------------------------------------------------------------------
\* The initial state satisfies the invariant.
LEMMA InitInv == Init => Inv
<1> SUFFICES ASSUME Init PROVE Inv
  OBVIOUS
<1> USE DEF Init, MainInit
<1>1. nFarmers \in Nat
  BY DEF nFarmers
<1>2. TypeOK
  <2>1. MainTypeOK
    <3>1. created = 0 /\ joined = 0 /\ freed \in BOOLEAN
      OBVIOUS
    <3> QED
      BY ONLY <1>1, <3>1 DEF MainTypeOK
  <2>2. pc \in [Farmers -> Locations]
    BY DEF Locations
  <2>3. num_waiting \in [{0, 1} -> Int] /\ loaded \in [Farmers -> Int]
    OBVIOUS
  <2> QED
    BY <2>1, <2>2, <2>3 DEF TypeOK
<1>3. OwnerHolds
  BY DEF OwnerHolds, Holding, Nobody, Farmers
<1>4. NeverWaits /\ NotCreatedYet /\ CrossingMatchesBridge
  BY DEF NeverWaits, NotCreatedYet, CrossingMatchesBridge
<1> QED
  BY <1>2, <1>3, <1>4 DEF Inv

\* A step of main() preserves it: it only starts threads and waits for them.
LEMMA MainInv == Inv /\ MainStep => Inv'
<1> SUFFICES ASSUME Inv, MainStep PROVE Inv'
  OBVIOUS
<1> USE DEF Inv, TypeOK, MainTypeOK, OwnerHolds, Holding, NeverWaits,
            NotCreatedYet, CrossingMatchesBridge, Locations, MainStep
<1>1. CASE Create
  <2>1. created \in Farmers /\ pc[created] = "none"
    BY <1>1 DEF Create, Farmers, nFarmers
  <2>2. pc' = [pc EXCEPT ![created] = "start"] /\ created' = created + 1
    BY <1>1 DEF Create
  <2>3. TypeOK'
    BY <1>1, <2>1, <2>2 DEF Create, nFarmers
  <2>4. OwnerHolds' /\ NeverWaits' /\ CrossingMatchesBridge'
    BY <2>1, <2>2
  <2>5. NotCreatedYet'
    BY <2>1, <2>2 DEF Farmers
  <2> QED
    BY <2>3, <2>4, <2>5
<1>2. CASE Join
  BY <1>2 DEF Join
<1>3. CASE Free
  BY <1>3 DEF Free
<1> QED
  BY <1>1, <1>2, <1>3 DEF Main

\* So does a step of a farmer, one case for each place it can be in.
LEMMA FarmerInv ==
  ASSUME Inv, NEW f \in Farmers, Farmer(f)
  PROVE  Inv'
<1> USE DEF Inv, TypeOK, MainTypeOK, OwnerHolds, Holding, NeverWaits,
            NotCreatedYet, CrossingMatchesBridge, Locations, Go
<1>1. isNorth(f) \in {0, 1}
  BY DEF isNorth
<1>2. CASE LoadWaiting(f)
  BY <1>1, <1>2 DEF LoadWaiting, Load
<1>3. CASE StoreWaiting(f)
  BY <1>1, <1>3 DEF StoreWaiting, Store
<1>4. CASE Lock(f)
  <2>1. pc[f] = "lock" /\ pc' = [pc EXCEPT ![f] = "test"]
    BY <1>4 DEF Lock
  <2>2. \A g \in Farmers : g # Nobody
    BY DEF Nobody, Farmers
  <2> QED
    BY <1>4, <2>1, <2>2 DEF Lock
<1>5. CASE Test(f)
  <2>1. pc[f] = "test" /\ owner = f
    BY <1>5 DEF Test
  <2>2. crossing = 0
    BY <2>1
  <2> QED
    BY <1>1, <1>5, <2>1, <2>2 DEF Test, MustWait, NorthWaits, SouthWaits, Load
<1>6. CASE Enter(f)
  BY <1>1, <1>6 DEF Enter, Store
<1>7. CASE ClearCrossing(f)
  BY <1>7 DEF ClearCrossing
<1>8. CASE Unlock(f)
  <2>1. \A g \in Farmers : g # Nobody
    BY DEF Nobody, Farmers
  <2> QED
    BY <1>8, <2>1 DEF Unlock
<1>9. CASE Broadcast(f)
  BY <1>9 DEF Broadcast
<1> QED
  BY <1>2, <1>3, <1>4, <1>5, <1>6, <1>7, <1>8, <1>9 DEF Farmer

\* The invariant holds in every reachable state.
THEOREM Invariance == Spec => []Inv
<1>1. Inv /\ [Next]_vars => Inv'
  <2> SUFFICES ASSUME Inv, [Next]_vars PROVE Inv'
    OBVIOUS
  <2>1. CASE MainStep
    BY <2>1, MainInv
  <2>2. CASE \E f \in Farmers : Farmer(f)
    BY <2>2, FarmerInv
  <2>3. CASE UNCHANGED vars
    BY <2>3 DEF vars, mainVars, Inv, TypeOK, MainTypeOK, OwnerHolds,
                NeverWaits, NotCreatedYet, CrossingMatchesBridge
  <2> QED
    BY <2>1, <2>2, <2>3 DEF Next
<1> QED
  BY InitInv, <1>1, PTL DEF Spec

\* Every variable of exercise 2 keeps its type.
THEOREM TypeCorrect == Spec => []TypeOK
  BY Invariance, PTL DEF Inv

\* crossing says whether a farmer is on the bridge, and that farmer holds
\* c_mutex, for any number of farmers.
THEOREM CrossingCorrect == Spec => []CrossingMatchesBridge
  BY Invariance, PTL DEF Inv

-----------------------------------------------------------------------------
(* The counters.                                                           *)

Side(s) == {f \in Farmers : isNorth(f) = s}

\* Farmers of a side that have stored their increment, and their decrement.
NotCounted == {"none", "start", "increment"}
Across == {"bridge", "unlock", "broadcast", "exited"}
Counted(s) == {f \in Side(s) : pc[f] \notin NotCounted}
Crossed(s) == {f \in Side(s) : pc[f] \in Across}

\* A counter, and what is loaded from it, is at most the number of increments
\* stored; it is positive but for the decrements stored, from the first
\* increment on; and the last decrement leaves it below the number of farmers.
DriftOf(s) ==
  LET up == Cardinality(Counted(s))
      down == Cardinality(Crossed(s))
  IN  /\ num_waiting[s] <= up
      /\ IF Counted(s) = {} THEN num_waiting[s] = 0
         ELSE num_waiting[s] >= 1 - down
      /\ Side(s) # {} /\ Crossed(s) = Side(s) =>
           num_waiting[s] <= Cardinality(Side(s)) - 1
      /\ \A f \in Side(s) :
           /\ pc[f] = "increment" => loaded[f] >= 0 - down /\ loaded[f] <= up
           /\ pc[f] = "decrement" => loaded[f] >= 1 - down /\ loaded[f] <= up

Drift == \A s \in {0, 1} : DriftOf(s)

\* main() frees what the farmers use once it has joined them all.
AllJoined ==
  /\ \A f \in Farmers : f < joined => pc[f] = "exited"
  /\ freed => joined = nFarmers

\* The sets are finite, each within the next.
LEMMA Sizes ==
  ASSUME NEW s
  PROVE  /\ IsFiniteSet(Counted(s)) /\ IsFiniteSet(Crossed(s))
         /\ Cardinality(Side(s)) \in Nat /\ Cardinality(Counted(s)) \in Nat
         /\ Cardinality(Crossed(s)) \in Nat
         /\ Cardinality(Counted(s)) <= Cardinality(Side(s))
<1>1. IsFiniteSet(Farmers)
  <2>1. 0 \in Int /\ nFarmers - 1 \in Int
    BY DEF nFarmers
  <2> QED
    BY <2>1, FS_Interval DEF Farmers
<1>2. Side(s) \in SUBSET Farmers /\ Counted(s) \in SUBSET Side(s)
      /\ Crossed(s) \in SUBSET Side(s)
  BY DEF Side, Counted, Crossed
<1>3. IsFiniteSet(Side(s))
  BY <1>1, <1>2, FS_Subset
<1>4. IsFiniteSet(Counted(s)) /\ IsFiniteSet(Crossed(s))
      /\ Cardinality(Counted(s)) <= Cardinality(Side(s))
  BY <1>2, <1>3, FS_Subset
<1> QED
  BY <1>3, <1>4, FS_CardinalityType

\* The counter of a side that stores nothing, and whose farmers at most load it.
LEMMA DriftKept ==
  ASSUME TypeOK, NEW s \in {0, 1}, DriftOf(s),
         Counted(s)' = Counted(s), Crossed(s)' = Crossed(s),
         num_waiting'[s] = num_waiting[s],
         \A f \in Side(s) : pc'[f] = "increment" =>
           \/ pc[f] = "increment" /\ loaded'[f] = loaded[f]
           \/ loaded'[f] = num_waiting[s],
         \A f \in Side(s) : pc'[f] = "decrement" =>
           \/ pc[f] = "decrement" /\ loaded'[f] = loaded[f]
           \/ loaded'[f] = num_waiting[s] /\ f \in Counted(s)
  PROVE  DriftOf(s)'
<1> DEFINE up == Cardinality(Counted(s))
           down == Cardinality(Crossed(s))
<1>1. up \in Nat /\ down \in Nat /\ num_waiting[s] \in Int
  BY Sizes DEF TypeOK
<1>2. /\ num_waiting[s] <= up
      /\ IF Counted(s) = {} THEN num_waiting[s] = 0 ELSE num_waiting[s] >= 1 - down
      /\ Side(s) # {} /\ Crossed(s) = Side(s) =>
           num_waiting[s] <= Cardinality(Side(s)) - 1
  BY DEF DriftOf
<1>3. \A f \in Side(s) :
        /\ pc[f] = "increment" => loaded[f] >= 0 - down /\ loaded[f] <= up
        /\ pc[f] = "decrement" => loaded[f] >= 1 - down /\ loaded[f] <= up
  BY DEF DriftOf
<1> HIDE DEF up, down
<1>4. num_waiting[s] >= 0 - down /\ (Counted(s) # {} => num_waiting[s] >= 1 - down)
  BY <1>1, <1>2
<1>5. ASSUME NEW f \in Side(s)
      PROVE  /\ pc'[f] = "increment" => loaded'[f] >= 0 - down /\ loaded'[f] <= up
             /\ pc'[f] = "decrement" => loaded'[f] >= 1 - down /\ loaded'[f] <= up
  <2>1. ASSUME pc'[f] = "increment" PROVE loaded'[f] >= 0 - down /\ loaded'[f] <= up
    BY <1>2, <1>3, <1>4, <2>1
  <2>2. ASSUME pc'[f] = "decrement" PROVE loaded'[f] >= 1 - down /\ loaded'[f] <= up
    BY <1>2, <1>3, <1>4, <2>2
  <2> QED
    BY <2>1, <2>2
<1>6. up' = up /\ down' = down
  BY DEF up, down
<1> QED
  BY <1>2, <1>5, Zenon DEF DriftOf, up, down

\* A farmer's step that is not a store leaves the sets as they are.
LEMMA Unmoved ==
  ASSUME NEW f \in Farmers, NEW to, pc \in [Farmers -> Locations],
         pc' = [pc EXCEPT ![f] = to],
         pc[f] \in NotCounted <=> to \in NotCounted,
         pc[f] \in Across <=> to \in Across
  PROVE  \A s : Counted(s)' = Counted(s) /\ Crossed(s)' = Crossed(s)
  BY DEF Counted, Crossed, Side

\* A step that stores no counter, and loads one only in the places where the
\* farmer then stores it.
LEMMA DriftQuiet ==
  ASSUME TypeOK, Drift, NEW f \in Farmers, NEW to, pc' = [pc EXCEPT ![f] = to],
         pc[f] \in NotCounted <=> to \in NotCounted,
         pc[f] \in Across <=> to \in Across,
         num_waiting' = num_waiting,
         \/ loaded' = loaded /\ to \notin {"increment", "decrement"}
         \/ Load(f)
  PROVE  Drift'
<1> SUFFICES ASSUME NEW s \in {0, 1} PROVE DriftOf(s)'
  BY DEF Drift
<1>1. pc \in [Farmers -> Locations] /\ loaded \in [Farmers -> Int]
  BY DEF TypeOK
<1>2. Counted(s)' = Counted(s) /\ Crossed(s)' = Crossed(s)
  BY <1>1, Unmoved
<1>3. ASSUME NEW g \in Side(s)
      PROVE  /\ pc'[g] = "increment" =>
                  \/ pc[g] = "increment" /\ loaded'[g] = loaded[g]
                  \/ loaded'[g] = num_waiting[s]
             /\ pc'[g] = "decrement" =>
                  \/ pc[g] = "decrement" /\ loaded'[g] = loaded[g]
                  \/ loaded'[g] = num_waiting[s] /\ g \in Counted(s)
  <2>1. g \in Farmers /\ isNorth(g) = s
    BY DEF Side
  <2>2. CASE g # f
    <3>1. pc'[g] = pc[g] /\ loaded'[g] = loaded[g]
      BY <1>1, <2>1, <2>2 DEF Load
    <3> QED
      BY <3>1
  <2>3. CASE g = f
    <3>1. pc'[g] = to
      BY <1>1, <2>3
    <3>2. CASE to \notin {"increment", "decrement"}
      BY <3>1, <3>2
    <3>3. CASE to \in {"increment", "decrement"}
      <4>1. loaded'[g] = num_waiting[s]
        BY <1>1, <2>1, <2>3, <3>3 DEF Load
      <4>2. to = "decrement" => g \in Counted(s)
        BY <2>1, <2>3 DEF Counted, Side, NotCounted
      <4> QED
        BY <3>1, <4>1, <4>2
    <3> QED
      BY <3>2, <3>3
  <2> QED
    BY <2>2, <2>3
<1>4. DriftOf(s)
  BY DEF Drift
<1> QED
  BY <1>2, <1>3, <1>4, DriftKept

\* num_Nwaiting++: the farmer counts, with what it loaded and one more.
LEMMA DriftStoreWaiting ==
  ASSUME TypeOK, Drift, NEW f \in Farmers, StoreWaiting(f)
  PROVE  Drift'
<1> DEFINE side == isNorth(f)
<1>0. /\ pc \in [Farmers -> Locations] /\ num_waiting \in [{0, 1} -> Int]
      /\ loaded[f] \in Int /\ side \in {0, 1}
  BY DEF TypeOK, isNorth
<1>1. /\ pc[f] = "increment" /\ pc' = [pc EXCEPT ![f] = "lock"]
      /\ num_waiting' = [num_waiting EXCEPT ![side] = loaded[f] + 1]
      /\ loaded' = loaded
  BY DEF StoreWaiting, Go, Store
<1>2. ASSUME NEW s \in {0, 1}, s # side PROVE DriftOf(s)'
  <2>1. \A g \in Side(s) : g \in Farmers /\ g # f
    BY <1>2 DEF Side
  <2>2. \A g \in Side(s) : pc'[g] = pc[g] /\ loaded'[g] = loaded[g]
    BY <1>0, <1>1, <2>1
  <2>3. Counted(s)' = Counted(s) /\ Crossed(s)' = Crossed(s)
    BY <2>2 DEF Counted, Crossed
  <2>4. num_waiting'[s] = num_waiting[s] /\ DriftOf(s)
    BY <1>0, <1>1, <1>2 DEF Drift
  <2> QED
    BY <2>2, <2>3, <2>4, DriftKept
<1>3. DriftOf(side)'
  <2> DEFINE up == Cardinality(Counted(side))
             down == Cardinality(Crossed(side))
  <2>0. f \in Side(side) /\ f \notin Counted(side) /\ f \notin Crossed(side)
    BY <1>1 DEF Side, Counted, Crossed, NotCounted, Across
  <2>1. Counted(side)' = Counted(side) \union {f} /\ Crossed(side)' = Crossed(side)
    BY <1>0, <1>1, <2>0 DEF Counted, Crossed, Side, NotCounted, Across
  <2>2. up' = up + 1 /\ down' = down /\ up \in Nat /\ down \in Nat
    <3>1. Cardinality(Counted(side) \union {f}) = Cardinality(Counted(side)) + 1
      BY <2>0, Sizes, FS_AddElement
    <3> QED
      BY <2>1, <3>1, Sizes
  <2>3. \A g \in Side(side) :
          /\ pc[g] = "increment" => loaded[g] >= 0 - down /\ loaded[g] <= up
          /\ pc[g] = "decrement" => loaded[g] >= 1 - down /\ loaded[g] <= up
    BY <1>0 DEF Drift, DriftOf
  <2> HIDE DEF up, down
  <2>4. num_waiting'[side] = loaded[f] + 1
    BY <1>0, <1>1
  <2>5. num_waiting'[side] <= up' /\ num_waiting'[side] >= 1 - down'
    BY <1>0, <1>1, <2>0, <2>2, <2>3, <2>4
  <2>6. Counted(side)' # {} /\ Crossed(side)' # Side(side)
    BY <2>0, <2>1
  <2>7. ASSUME NEW g \in Side(side)
        PROVE  /\ pc'[g] = "increment" => loaded'[g] >= 0 - down' /\ loaded'[g] <= up'
               /\ pc'[g] = "decrement" => loaded'[g] >= 1 - down' /\ loaded'[g] <= up'
    <3>1. g \in Farmers /\ loaded[g] \in Int
      BY DEF Side, TypeOK
    <3>2. CASE g = f
      BY <1>0, <1>1, <3>2
    <3>3. CASE g # f
      <4>1. pc'[g] = pc[g] /\ loaded'[g] = loaded[g]
        BY <1>0, <1>1, <3>1, <3>3
      <4> QED
        BY <2>2, <2>3, <3>1, <4>1
    <3> QED
      BY <3>2, <3>3
  <2> QED
    BY <2>5, <2>6, <2>7, Zenon DEF DriftOf, up, down
<1> QED
  BY <1>2, <1>3, Zenon DEF Drift

\* num_Nwaiting--: the mutex keeps the other decrements away between the load
\* and the store.
LEMMA DriftEnter ==
  ASSUME Inv, Drift, NEW f \in Farmers, Enter(f)
  PROVE  Drift'
<1> DEFINE side == isNorth(f)
<1>0. /\ pc \in [Farmers -> Locations] /\ num_waiting \in [{0, 1} -> Int]
      /\ loaded[f] \in Int /\ side \in {0, 1} /\ TypeOK
  BY DEF Inv, TypeOK, isNorth
<1>1. /\ pc[f] = "decrement" /\ pc' = [pc EXCEPT ![f] = "bridge"]
      /\ num_waiting' = [num_waiting EXCEPT ![side] = loaded[f] - 1]
      /\ loaded' = loaded
  BY DEF Enter, Go, Store
<1>2. ASSUME NEW s \in {0, 1}, s # side PROVE DriftOf(s)'
  <2>1. \A g \in Side(s) : g \in Farmers /\ g # f
    BY <1>2 DEF Side
  <2>2. \A g \in Side(s) : pc'[g] = pc[g] /\ loaded'[g] = loaded[g]
    BY <1>0, <1>1, <2>1
  <2>3. Counted(s)' = Counted(s) /\ Crossed(s)' = Crossed(s)
    BY <2>2 DEF Counted, Crossed
  <2>4. num_waiting'[s] = num_waiting[s] /\ DriftOf(s)
    BY <1>0, <1>1, <1>2 DEF Drift
  <2> QED
    BY <1>0, <2>2, <2>3, <2>4, DriftKept
<1>3. DriftOf(side)'
  <2> DEFINE up == Cardinality(Counted(side))
             down == Cardinality(Crossed(side))
             all == Cardinality(Side(side))
  <2>0. f \in Side(side) /\ f \in Counted(side) /\ f \notin Crossed(side)
    BY <1>1 DEF Side, Counted, Crossed, NotCounted, Across
  <2>1. Counted(side)' = Counted(side) /\ Crossed(side)' = Crossed(side) \union {f}
    BY <1>0, <1>1, <2>0 DEF Counted, Crossed, Side, NotCounted, Across
  <2>2. up' = up /\ down' = down + 1 /\ up \in Nat /\ down \in Nat /\ up <= all
        /\ all \in Nat
    <3>1. Cardinality(Crossed(side) \union {f}) = Cardinality(Crossed(side)) + 1
      BY <2>0, Sizes, FS_AddElement
    <3> QED
      BY <2>1, <3>1, Sizes
  <2>3. \A g \in Side(side) :
          /\ pc[g] = "increment" => loaded[g] >= 0 - down /\ loaded[g] <= up
          /\ pc[g] = "decrement" => loaded[g] >= 1 - down /\ loaded[g] <= up
    BY <1>0 DEF Drift, DriftOf
  <2> HIDE DEF up, down, all
  <2>4. num_waiting'[side] = loaded[f] - 1
    BY <1>0, <1>1
  <2>5. num_waiting'[side] <= up' /\ num_waiting'[side] >= 1 - down'
        /\ num_waiting'[side] <= all - 1
    <3>1. loaded[f] >= 1 - down /\ loaded[f] <= up
      BY <1>1, <2>0, <2>3
    <3> QED
      BY <1>0, <2>2, <2>4, <3>1
  <2>6. Counted(side)' # {}
    BY <2>0, <2>1
  <2>7. ASSUME NEW g \in Side(side)
        PROVE  /\ pc'[g] = "increment" => loaded'[g] >= 0 - down' /\ loaded'[g] <= up'
               /\ pc'[g] = "decrement" => loaded'[g] >= 1 - down' /\ loaded'[g] <= up'
    <3>1. g \in Farmers /\ loaded[g] \in Int
      BY <1>0 DEF Side, TypeOK
    <3>2. CASE g = f
      BY <1>0, <1>1, <3>2
    <3>3. CASE g # f
      <4>1. pc'[g] = pc[g] /\ loaded'[g] = loaded[g]
        BY <1>0, <1>1, <3>1, <3>3
      <4>2. pc[g] # "decrement"
        BY <1>1, <3>1, <3>3 DEF Inv, OwnerHolds, Holding
      <4>3. pc'[g] = "increment" => loaded[g] >= 0 - down /\ loaded[g] <= up
        BY <2>3, <4>1
      <4> QED
        BY <2>2, <3>1, <4>1, <4>2, <4>3
    <3> QED
      BY <3>2, <3>3
  <2> QED
    BY <2>5, <2>6, <2>7, Zenon DEF DriftOf, up, down, all
<1> QED
  BY <1>2, <1>3, Zenon DEF Drift

\* Every step keeps the counters within those bounds.
LEMMA DriftStep == Inv /\ Drift /\ [Next]_vars => Drift'
<1> SUFFICES ASSUME Inv, Drift, [Next]_vars PROVE Drift'
  OBVIOUS
<1>0. TypeOK
  BY DEF Inv
<1>1. CASE MainStep
  <2>1. num_waiting' = num_waiting /\ loaded' = loaded
    BY <1>1 DEF MainStep
  <2>2. CASE Create
    <3>1. created \in Farmers /\ pc[created] = "none"
          /\ pc' = [pc EXCEPT ![created] = "start"]
      BY <1>0, <2>2 DEF Inv, TypeOK, MainTypeOK, Create, NotCreatedYet, Farmers,
                        nFarmers
    <3> QED
      BY <1>0, <2>1, <3>1, DriftQuiet DEF NotCounted, Across
  <2>3. CASE Join \/ Free
    BY <2>1, <2>3 DEF Join, Free, Drift, DriftOf, Counted, Crossed
  <2> QED
    BY <1>1, <2>2, <2>3 DEF MainStep, Main
<1>2. ASSUME NEW f \in Farmers, Farmer(f) PROVE Drift'
  <2>1. CASE LoadWaiting(f)
    BY <1>0, <2>1, DriftQuiet DEF LoadWaiting, Go, Load, NotCounted, Across
  <2>2. CASE StoreWaiting(f)
    BY <1>0, <2>2, DriftStoreWaiting
  <2>3. CASE Lock(f)
    BY <1>0, <2>3, DriftQuiet DEF Lock, Go, NotCounted, Across
  <2>4. CASE Test(f)
    <3>1. pc[f] = "test" /\ num_waiting' = num_waiting
      BY <2>4 DEF Test, Go, Load
    <3>2. \/ pc' = [pc EXCEPT ![f] = "waiting"] /\ loaded' = loaded
          \/ pc' = [pc EXCEPT ![f] = "decrement"] /\ Load(f)
      BY <2>4 DEF Test, Go
    <3> QED
      BY <1>0, <3>1, <3>2, DriftQuiet DEF NotCounted, Across
  <2>5. CASE Enter(f)
    BY <2>5, DriftEnter
  <2>6. CASE ClearCrossing(f)
    BY <1>0, <2>6, DriftQuiet DEF ClearCrossing, Go, NotCounted, Across
  <2>7. CASE Unlock(f)
    BY <1>0, <2>7, DriftQuiet DEF Unlock, Go, NotCounted, Across
  <2>8. CASE Broadcast(f)
    <3>1. /\ pc[f] = "broadcast" /\ pc' = [pc EXCEPT ![f] = "exited"]
          /\ num_waiting' = num_waiting /\ loaded' = loaded
      BY <2>8 DEF Broadcast, Inv, NeverWaits, TypeOK
    <3> QED
      BY <1>0, <3>1, DriftQuiet DEF NotCounted, Across
  <2> QED
    BY <1>2, <2>1, <2>2, <2>3, <2>4, <2>5, <2>6, <2>7, <2>8 DEF Farmer
<1>3. CASE UNCHANGED vars
  BY <1>3 DEF vars, mainVars, Drift, DriftOf, Counted, Crossed
<1> QED
  BY <1>1, <1>2, <1>3 DEF Next

\* Farmers that have exited stay so, and main() has joined all it frees.
LEMMA JoinedStep == Inv /\ AllJoined /\ [Next]_vars => AllJoined'
<1> SUFFICES ASSUME Inv, AllJoined, [Next]_vars PROVE AllJoined'
  OBVIOUS
<1> USE DEF Inv, TypeOK, MainTypeOK, AllJoined
<1>1. CASE MainStep
  <2>1. CASE Create
    BY <2>1 DEF Create, Farmers, nFarmers
  <2>2. CASE Join
    BY <2>2 DEF Join, Farmers, nFarmers
  <2>3. CASE Free
    BY <2>3 DEF Free
  <2> QED
    BY <1>1, <2>1, <2>2, <2>3 DEF MainStep, Main
<1>2. ASSUME NEW f \in Farmers, Farmer(f) PROVE AllJoined'
  <2>1. UNCHANGED <<joined, freed>>
    BY <1>2 DEF Farmer, LoadWaiting, StoreWaiting, Lock, Test, Enter,
                ClearCrossing, Unlock, Broadcast, Go
  <2>2. \A g \in Farmers : pc[g] = "exited" => pc'[g] = "exited"
    BY <1>2 DEF Farmer, LoadWaiting, StoreWaiting, Lock, Test, Enter,
                ClearCrossing, Unlock, Broadcast, Go
  <2> QED
    BY <2>1, <2>2
<1>3. CASE UNCHANGED vars
  BY <1>3 DEF vars, mainVars
<1> QED
  BY <1>1, <1>2, <1>3 DEF Next

\* The unlocked increments of exercise 2 can be lost, but when main() frees what
\* the farmers use each counter is off by less than the farmers of its side, for
\* any number of farmers.
THEOREM CounterDrift == Spec => []CounterDriftBounded
<1>1. Init => Drift /\ AllJoined
  <2> SUFFICES ASSUME Init PROVE Drift /\ AllJoined
    OBVIOUS
  <2>1. /\ pc = [f \in Farmers |-> "none"] /\ ~freed /\ joined = 0
        /\ num_waiting = [side \in {0, 1} |-> 0]
    BY DEF Init, MainInit
  <2>2. AllJoined
    BY <2>1 DEF AllJoined, Farmers
  <2>3. ASSUME NEW s \in {0, 1} PROVE DriftOf(s)
    <3>1. Counted(s) = {} /\ Crossed(s) = {} /\ num_waiting[s] = 0
      BY <2>1 DEF Counted, Crossed, Side, NotCounted, Across
    <3>2. Cardinality(Counted(s)) = 0 /\ Cardinality(Crossed(s)) = 0
      BY <3>1, FS_EmptySet
    <3>3. \A f \in Side(s) : pc[f] = "none"
      BY <2>1 DEF Side
    <3> QED
      BY <3>1, <3>2, <3>3 DEF DriftOf
  <2> QED
    BY <2>2, <2>3 DEF Drift
<1>2. Inv /\ Drift /\ AllJoined => CounterDriftBounded
  <2> SUFFICES ASSUME Inv, Drift, AllJoined, freed, NEW s \in {0, 1}
               PROVE  LET n == Cardinality({f \in Farmers : isNorth(f) = s})
                      IN IF n = 0 THEN num_waiting[s] = 0
                         ELSE num_waiting[s] \in 1 - n .. n - 1
    BY DEF CounterDriftBounded
  <2>1. \A f \in Farmers : pc[f] = "exited"
    BY DEF AllJoined, Farmers, nFarmers
  <2>2. Counted(s) = Side(s) /\ Crossed(s) = Side(s)
    BY <2>1 DEF Counted, Crossed, Side, NotCounted, Across
  <2>3. Cardinality(Side(s)) \in Nat /\ (Cardinality(Side(s)) = 0 <=> Side(s) = {})
    BY <2>2, Sizes, FS_EmptySet
  <2>4. num_waiting[s] \in Int
    BY DEF Inv, TypeOK
  <2>5. DriftOf(s)
    BY DEF Drift
  <2>6. CASE Side(s) = {}
    BY <2>2, <2>3, <2>5, <2>6 DEF DriftOf, Side
  <2>7. CASE Side(s) # {}
    <3>1. num_waiting[s] <= Cardinality(Side(s)) - 1
          /\ num_waiting[s] >= 1 - Cardinality(Side(s))
      BY <2>2, <2>5, <2>7 DEF DriftOf
    <3>2. num_waiting[s] \in 1 - Cardinality(Side(s)) .. Cardinality(Side(s)) - 1
      BY <2>3, <2>4, <3>1
    <3> QED
      BY <2>3, <2>7, <3>2 DEF Side
  <2> QED
    BY <2>6, <2>7
<1> QED
  BY <1>1, <1>2, Invariance, DriftStep, JoinedStep, PTL DEF Spec

-----------------------------------------------------------------------------
\* Exercise 1 sees a farmer move when its own place of the farmer changes.
LEMMA PlaceMoves ==
  ASSUME NEW f \in Farmers, NEW to, pc \in [Farmers -> Locations],
         pc' = [pc EXCEPT ![f] = to]
  PROVE  pcEx1' = [pcEx1 EXCEPT ![f] = Place(to)]
  BY DEF pcEx1

\* The initial state of exercise 2 is that of exercise 1.
LEMMA InitImplements == Init => Exercise1!Init
  BY DEF Init, MainInit, Exercise1!Init, Exercise1!MainInit, pcEx1, semEx1,
         Place, Farmers, Exercise1!Farmers, nFarmers, Exercise1!nFarmers

\* The steps of main() are the same.
LEMMA MainImplements == Inv /\ MainStep => Exercise1!Next
<1> SUFFICES ASSUME Inv, MainStep PROVE Exercise1!Main /\ UNCHANGED semEx1
  BY DEF Exercise1!Next
<1>0. UNCHANGED semEx1
  BY DEF MainStep, semEx1
<1> USE DEF Inv, TypeOK, MainTypeOK, MainStep, Exercise1!nFarmers, nFarmers,
            Exercise1!Main
<1>1. CASE Create
  <2>1. created \in Farmers /\ pc' = [pc EXCEPT ![created] = "start"]
    BY <1>1 DEF Create, Farmers
  <2>2. pcEx1' = [pcEx1 EXCEPT ![created] = "start"]
    BY <2>1, PlaceMoves DEF Place
  <2> QED
    BY <1>0, <1>1, <2>2 DEF Create, Exercise1!Create
<1>2. CASE Join
  <2>1. joined \in Farmers /\ pc[joined] = "exited"
    BY <1>2 DEF Join, Farmers
  <2>2. pcEx1[joined] = "exited" /\ UNCHANGED pcEx1
    BY <1>2, <2>1 DEF Join, pcEx1, Place
  <2> QED
    BY <1>0, <1>2, <2>2 DEF Join, Exercise1!Join
<1>3. CASE Free
  BY <1>0, <1>3 DEF Free, Exercise1!Free, pcEx1
<1> QED
  BY <1>1, <1>2, <1>3 DEF Main

\* Taking the mutex is sem_wait(), releasing it is sem_post(), the broadcast
\* (which finds nobody) ends the thread, and all else is invisible.
LEMMA FarmerImplements ==
  ASSUME Inv, NEW f \in Farmers, Farmer(f)
  PROVE  Exercise1!Next \/ UNCHANGED Exercise1!vars
<1> USE DEF Inv, TypeOK, Go
<1>1. pcEx1[f] = Place(pc[f])
  BY DEF pcEx1
<1>2. f # Nobody /\ f \in Exercise1!Farmers
  BY DEF Nobody, Farmers, Exercise1!Farmers, nFarmers, Exercise1!nFarmers
<1>3. ASSUME NEW l \in Locations, UNCHANGED <<created, joined, freed, owner>>,
             pc' = [pc EXCEPT ![f] = l], Place(l) = Place(pc[f])
      PROVE  UNCHANGED Exercise1!vars
  <2>1. pcEx1' = [pcEx1 EXCEPT ![f] = pcEx1[f]]
    BY <1>1, <1>3, PlaceMoves
  <2>2. UNCHANGED pcEx1
    BY <2>1 DEF pcEx1
  <2> QED
    BY <1>3, <2>2 DEF Exercise1!vars, Exercise1!mainVars, semEx1
<1>4. CASE LoadWaiting(f)
  BY <1>3, <1>4 DEF LoadWaiting, Place, Locations
<1>5. CASE StoreWaiting(f)
  BY <1>3, <1>5 DEF StoreWaiting, Place, Locations
<1>6. CASE Lock(f)
  <2>1. pc' = [pc EXCEPT ![f] = "test"] /\ Place(pc[f]) = "start"
    BY <1>6 DEF Lock, Place
  <2>2. pcEx1' = [pcEx1 EXCEPT ![f] = "bridge"]
    BY <2>1, PlaceMoves DEF Place
  <2>3. semEx1 = 1 /\ semEx1' = 0
    BY <1>2, <1>6 DEF Lock, semEx1
  <2>4. Exercise1!Enter(f)
    BY <1>1, <1>6, <2>1, <2>2, <2>3 DEF Lock, Exercise1!Enter
  <2> QED
    BY <1>2, <2>4 DEF Exercise1!Next, Exercise1!Farmer
<1>7. CASE Test(f)
  <2>1. pc[f] = "test" /\ crossing = 0
    BY <1>7 DEF Test, OwnerHolds, Holding, CrossingMatchesBridge
  <2> QED
    BY <1>3, <1>7, <2>1 DEF Test, MustWait, NorthWaits, SouthWaits, Place, Locations
<1>8. CASE Enter(f)
  BY <1>3, <1>8 DEF Enter, Place, Locations
<1>9. CASE ClearCrossing(f)
  BY <1>3, <1>9 DEF ClearCrossing, Place, Locations
<1>10. CASE Unlock(f)
  <2>1. pc' = [pc EXCEPT ![f] = "broadcast"] /\ Place(pc[f]) = "bridge"
    BY <1>10 DEF Unlock, Place
  <2>2. pcEx1' = [pcEx1 EXCEPT ![f] = "leaving"]
    BY <2>1, PlaceMoves DEF Place
  <2>3. semEx1 = 0 /\ semEx1' = 1
    BY <1>2, <1>10 DEF Unlock, semEx1, OwnerHolds, Holding
  <2>4. Exercise1!Exit(f)
    BY <1>1, <1>10, <2>1, <2>2, <2>3 DEF Unlock, Exercise1!Exit
  <2> QED
    BY <1>2, <2>4 DEF Exercise1!Next, Exercise1!Farmer
<1>11. CASE Broadcast(f)
  <2>1. pc' = [pc EXCEPT ![f] = "exited"] /\ Place(pc[f]) = "leaving"
    BY <1>11 DEF Broadcast, NeverWaits, Place
  <2>2. pcEx1' = [pcEx1 EXCEPT ![f] = "exited"]
    BY <2>1, PlaceMoves DEF Place
  <2>3. Exercise1!Finish(f)
    BY <1>1, <1>11, <2>1, <2>2 DEF Broadcast, Exercise1!Finish, semEx1
  <2> QED
    BY <1>2, <2>3 DEF Exercise1!Next, Exercise1!Farmer
<1> QED
  BY <1>4, <1>5, <1>6, <1>7, <1>8, <1>9, <1>10, <1>11 DEF Farmer

\* Exercise 2 implements exercise 1, for any number of farmers: the mutex alone
\* decides who crosses, and no farmer ever waits on the condition variable.
THEOREM Exercise2ImplementsExercise1 == Spec => ImplementsExercise1
<1>1. Inv /\ [Next]_vars => [Exercise1!Next]_(Exercise1!vars)
  <2> SUFFICES ASSUME Inv, [Next]_vars
               PROVE  Exercise1!Next \/ UNCHANGED Exercise1!vars
    OBVIOUS
  <2>1. CASE MainStep
    BY <2>1, MainImplements
  <2>2. CASE \E f \in Farmers : Farmer(f)
    BY <2>2, FarmerImplements
  <2>3. CASE UNCHANGED vars
    BY <2>3 DEF vars, mainVars, Exercise1!vars, Exercise1!mainVars, pcEx1,
                semEx1
  <2> QED
    BY <2>1, <2>2, <2>3 DEF Next
<1> QED
  BY Invariance, InitImplements, <1>1, PTL
     DEF Spec, ImplementsExercise1, Exercise1!Spec

-----------------------------------------------------------------------------
(* Exercise 1 on its own: the same farmers, with a semaphore.              *)

VARIABLE sem

Sem == INSTANCE BridgeSem

\* The semaphore is taken exactly while somebody is on the bridge.
SemMatchesBridge == sem = 0 <=> \E f \in Sem!Farmers : pc[f] = "bridge"

\* A farmer whose thread is not created yet has not started.
SemNotCreatedYet == \A f \in Sem!Farmers : f >= created => pc[f] = "none"

SemInv == Sem!TypeOK /\ SemMatchesBridge /\ SemNotCreatedYet /\ Sem!MutualExclusion

-----------------------------------------------------------------------------
\* The initial state satisfies the invariant.
LEMMA SemInitInv == Sem!Init => SemInv
<1> SUFFICES ASSUME Sem!Init PROVE SemInv
  OBVIOUS
<1>1. Sem!nFarmers \in Nat
  BY DEF Sem!nFarmers
<1>2. created = 0 /\ joined = 0 /\ freed \in BOOLEAN /\ sem = 1
      /\ pc = [f \in Sem!Farmers |-> "none"]
  BY DEF Sem!Init, Sem!MainInit
<1>3. Sem!MainTypeOK
  BY ONLY <1>1, <1>2 DEF Sem!MainTypeOK
<1> QED
  BY <1>2, <1>3 DEF SemInv, Sem!TypeOK, Sem!Locations, SemMatchesBridge,
                    SemNotCreatedYet,
                    Sem!MutualExclusion

\* A step of main() preserves it.
LEMMA SemMainInv == SemInv /\ Sem!Main /\ UNCHANGED sem => SemInv'
<1> SUFFICES ASSUME SemInv, Sem!Main, UNCHANGED sem PROVE SemInv'
  OBVIOUS
<1> USE DEF SemInv, Sem!TypeOK, Sem!MainTypeOK, SemMatchesBridge, SemNotCreatedYet,
            Sem!MutualExclusion, Sem!Locations
<1>1. CASE Sem!Create
  <2>1. created \in Sem!Farmers /\ pc[created] = "none"
    BY <1>1 DEF Sem!Create, Sem!Farmers, Sem!nFarmers
  <2>2. pc' = [pc EXCEPT ![created] = "start"] /\ created' = created + 1
    BY <1>1 DEF Sem!Create
  <2>3. Sem!TypeOK'
    BY <1>1, <2>1, <2>2 DEF Sem!Create, Sem!nFarmers
  <2>4. SemMatchesBridge' /\ Sem!MutualExclusion'
    BY <2>1, <2>2
  <2>5. SemNotCreatedYet'
    BY <2>1, <2>2 DEF Sem!Farmers
  <2> QED
    BY <2>3, <2>4, <2>5
<1>2. CASE Sem!Join
  BY <1>2 DEF Sem!Join
<1>3. CASE Sem!Free
  BY <1>3 DEF Sem!Free
<1> QED
  BY <1>1, <1>2, <1>3 DEF Sem!Main

\* So does a step of a farmer.
LEMMA SemFarmerInv ==
  ASSUME SemInv, NEW f \in Sem!Farmers, Sem!Farmer(f)
  PROVE  SemInv'
<1> USE DEF SemInv, Sem!TypeOK, Sem!MainTypeOK, SemMatchesBridge, SemNotCreatedYet,
            Sem!MutualExclusion, Sem!Locations
<1>1. CASE Sem!Enter(f)
  BY <1>1 DEF Sem!Enter
<1>2. CASE Sem!Exit(f)
  BY <1>2 DEF Sem!Exit
<1>3. CASE Sem!Finish(f)
  BY <1>3 DEF Sem!Finish
<1> QED
  BY <1>1, <1>2, <1>3 DEF Sem!Farmer

\* At most one farmer is on the bridge of exercise 1, however many there are.
THEOREM Exercise1Safe == Sem!Spec => []Sem!MutualExclusion
<1>1. SemInv /\ [Sem!Next]_(Sem!vars) => SemInv'
  <2> SUFFICES ASSUME SemInv, UNCHANGED Sem!vars PROVE SemInv'
    BY SemMainInv, SemFarmerInv DEF Sem!Next
  <2> QED
    BY DEF Sem!vars, Sem!mainVars, SemInv, Sem!TypeOK, Sem!MainTypeOK,
           SemMatchesBridge,
           SemNotCreatedYet, Sem!MutualExclusion
<1>2. SemInv => Sem!MutualExclusion
  BY DEF SemInv
<1> QED
  BY SemInitInv, <1>1, <1>2, PTL DEF Sem!Spec
=============================================================================
