SPECIFICATION Spec
CONSTANTS
  NumPages = 5
  PageSize = 2
  FrameMax = 3
  PTEntryMax = 5
  TLBEntryMax = 2
  Addresses <- MCAddresses
  FileLens <- MCFileLens
\* the program ends with the address file
CHECK_DEADLOCK FALSE
INVARIANTS
  TranslationCorrect
