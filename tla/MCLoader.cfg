SPECIFICATION KSpec
CONSTANTS
  U32 = 1048576
  DefaultContext = 262144
  Disks <- MCDisks
  Nesting = 3
  Rows <- Ends
  Paths = {"scalar", "x86", "arm"}
CHECK_DEADLOCK FALSE
INVARIANTS TypeOK ReadsWhatWasWritten IndexFits ReadsItsOwnData MissingNowhereElse LoadsWhatIsExpected  DotReadsTheSame RowUsesItsBytes FailsOnlyByShape
