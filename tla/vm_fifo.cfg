SPECIFICATION Spec
CONSTANTS
  NumPages = 4
  PageSize = 2
  FrameMax = 5
  PTEntryMax = 4
  TLBEntryMax = 2
  Addresses <- MCAddresses
  FileLens <- MCFileLens
INVARIANTS
  TranslationCorrect
  ReplacementUnreachable
  TLBIsAccessWindow
  OnlyUnterminatedLineDropped
PROPERTIES
  ImplementsPagedMemory
\* the program ends with the address file
CHECK_DEADLOCK FALSE
