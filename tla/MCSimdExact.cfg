SPECIFICATION KSpec
CONSTANTS
  U32 = 1048576
  DefaultContext = 262144
  Disks <- SimdDisks
  Nesting = 3
  Rows <- Ends
  Paths = {"x86", "arm"}
CHECK_DEADLOCK FALSE
INVARIANT SimdExact
