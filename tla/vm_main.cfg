SPECIFICATION Spec
CONSTANTS
  NumPages = 4
  PageSize = 2
  FrameMax = 4
  PTEntryMax = 4
  TLBEntryMax = 3
  Addresses <- MCAddresses
  FileLens <- MCFileLens
\* the program ends with the address file
CHECK_DEADLOCK FALSE
INVARIANTS
  OnlyPageZeroMistranslated
  OneFaultPerPageButZero
  TLBIsRecencyQueue
