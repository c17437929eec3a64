------------------------------ MODULE BridgeSem ------------------------------
(***************************************************************************)
(* Lab 6, exercise 1: the bridge is a semaphore that starts at one.        *)
(***************************************************************************)
EXTENDS BridgeMain

VARIABLE sem

vars == <<mainVars, sem>>

Locations == {"none", "start", "bridge", "leaving", "exited"}

TypeOK ==
  /\ MainTypeOK
  /\ pc \in [Farmers -> Locations]
  /\ sem \in {0, 1}

Init == MainInit /\ sem = 1

\* enter_bridge(): sem_wait() returns once the value is positive
Enter(f) ==
  /\ pc[f] = "start"
  /\ sem > 0
  /\ sem' = sem - 1
  /\ pc' = [pc EXCEPT ![f] = "bridge"]
  /\ UNCHANGED <<created, joined, freed>>

\* exit_bridge(), after the sleep on the bridge
Exit(f) ==
  /\ pc[f] = "bridge"
  /\ sem' = sem + 1
  /\ pc' = [pc EXCEPT ![f] = "leaving"]
  /\ UNCHANGED <<created, joined, freed>>

\* pthread_exit()
Finish(f) ==
  /\ pc[f] = "leaving"
  /\ pc' = [pc EXCEPT ![f] = "exited"]
  /\ UNCHANGED <<created, joined, freed, sem>>

Farmer(f) == Enter(f) \/ Exit(f) \/ Finish(f)

Next == (Main /\ UNCHANGED sem) \/ \E f \in Farmers : Farmer(f)

Spec == Init /\ [][Next]_vars

-----------------------------------------------------------------------------
\* At most one farmer of exercise 1 is on the bridge.
MutualExclusion ==
  \A f, g \in Farmers : pc[f] = "bridge" /\ pc[g] = "bridge" => f = g
=============================================================================
