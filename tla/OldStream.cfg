CONSTANTS
  BlockSize = 2
  W = 2
  Options <- AllOptions
  WriteSizes = {1, 3}
  MaxWritten = 3
  MaxRaises = 2
  EncoderFaults = {"coder", "port"}
  ReadSizes = {1, 3}
  MaxFailed = 2
  DecoderFaults = {"corrupt", "port"}
  Packed = packed
  Junk = junk
  Files <- ForeignFiles
SPECIFICATION FairSpec
INVARIANTS TypeOK EveryByteOnce SumMatches ReadIsWritten Repaired NilIsTheEnd
PROPERTIES ReadReturns
CHECK_DEADLOCK FALSE
