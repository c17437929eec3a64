SPECIFICATION StatSpec
CONSTANTS
  ArgumentLists <- MCLists
  ThreadSets <- MCThreadSets
\* the program ends
CHECK_DEADLOCK FALSE
INVARIANTS
  MedianRight
  ExactUnlessSwapping
  RealUnlessTorn
