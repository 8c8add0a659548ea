SPECIFICATION Spec
CONSTANTS
  U64 = 32
  WORD = 2
  STACK_SIZE = 5
  Sp <- Pointers
  Ip <- CodeAddresses
  Map <- TheMaps
  Section <- TheSections
  Encoding <- Encodings
  MaxDepth = 3
  MaxCalls = 2
INVARIANTS
  TypeOK
  StackReadsInCapture
  ReportedFramesAreFresh
  TableReadsBack
  RegistersAreTheirs
CHECK_DEADLOCK FALSE
