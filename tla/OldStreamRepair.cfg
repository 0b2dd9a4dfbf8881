CONSTANTS
  BlockSize = 2
  W = 3
  Options <- LinkedOptions
  WriteSizes = {4}
  MaxWritten = 4
  MaxRaises = 1
  EncoderFaults = {}
  ReadSizes = {3}
  MaxFailed = 1
  DecoderFaults = {}
  Packed = packed
  Junk = junk
  Files = {}
SPECIFICATION Spec
INVARIANTS LinkedRepairedIsRead
CHECK_DEADLOCK FALSE
