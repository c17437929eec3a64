----------------------------- MODULE BridgeMain -----------------------------
(***************************************************************************)
(* What the two programs of Lab 6 share: main() starts a thread for every  *)
(* farmer, those from the north first, joins them in the same order, and   *)
(* then frees what they use.  Farmers are numbered in the order of their   *)
(* creation; nNorth of them come from the north.                           *)
(***************************************************************************)
EXTENDS Integers, FiniteSets

CONSTANTS nNorth, nSouth

ASSUME FarmersAssumption == nNorth \in Nat /\ nSouth \in Nat

nFarmers == nNorth + nSouth
Farmers  == 0 .. nFarmers - 1

\* f->isNorth
isNorth(f) == IF f < nNorth THEN 1 ELSE 0

VARIABLES
  pc,        \* where each thread is; "none" before pthread_create
  created,   \* threads main() has created
  joined,    \* threads main() has joined
  freed      \* main() has freed the farmers and destroyed the lock

mainVars == <<pc, created, joined, freed>>

MainTypeOK ==
  /\ created \in 0 .. nFarmers
  /\ joined \in 0 .. created
  /\ freed \in BOOLEAN

MainInit ==
  /\ pc = [f \in Farmers |-> "none"]
  /\ created = 0
  /\ joined = 0
  /\ freed = FALSE

\* pthread_create() of the next farmer
Create ==
  /\ created < nFarmers
  /\ created' = created + 1
  /\ pc' = [pc EXCEPT ![created] = "start"]
  /\ UNCHANGED <<joined, freed>>

\* pthread_join() of the next farmer
Join ==
  /\ created = nFarmers
  /\ joined < nFarmers
  /\ pc[joined] = "exited"
  /\ joined' = joined + 1
  /\ UNCHANGED <<pc, created, freed>>

\* free(), sem_destroy() or pthread_cond_destroy(), return
Free ==
  /\ joined = nFarmers
  /\ ~freed
  /\ freed' = TRUE
  /\ UNCHANGED <<pc, created, joined>>

Main == Create \/ Join \/ Free
=============================================================================
