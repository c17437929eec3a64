SPECIFICATION FairSpec
CONSTANTS
  Lines <- MCLines
  Programs <- MCPrograms
  Home <- MCHome
  Spelling <- MCSpelling
  Leftovers <- MCLeftovers
  Size <- MCSize
  MAX_LINE = 12
  PipeCapacity = 1
  MaxLines = 3
\* the shell exits, or reads no more lines
CHECK_DEADLOCK FALSE
INVARIANTS
  HistoryIsLastLine
  ForegroundRunsAlone
  RightSideComplete
  
PROPERTIES
  PromptReturns
