SPECIFICATION PrSpec
CONSTANTS
  RefPages <- MCRefPages
  RefCounts <- MCRefCounts
  Arguments <- MCArguments
  FirstSlots <- MCFirstSlots
\* the program ends
CHECK_DEADLOCK FALSE
INVARIANTS
  FifoCountsFaults
  LruCountsOneFrameFewer
  OptimalIsMinimal
