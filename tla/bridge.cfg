SPECIFICATION FairSpec
CONSTANTS
  nNorth = 2
  nSouth = 2
\* the program ends once main() has joined every thread
CHECK_DEADLOCK FALSE
INVARIANTS
  CounterDriftBounded
PROPERTIES
  ImplementsExercise1
  EveryoneCrosses
