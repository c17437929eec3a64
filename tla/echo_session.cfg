SPECIFICATION FairSpec
CONSTANTS
  Inputs <- MCInputs
  BufferSize = 6
\* both programs end, or wait for each other at the end of the input
CHECK_DEADLOCK FALSE
INVARIANTS
  UnsplitRoundTrip
  BothWaitOnlyAtEnd
PROPERTIES
  ImplementsEchoQueue
  StopTogether
