CONSTANTS
  BlockSize = 2
  W = 2
  Options <- LinkedOptions
  WriteSizes = {6}
  MaxWritten = 6
  MaxRaises = 1
  EncoderFaults = {}
  ReadSizes = {3}
  MaxFailed = 1
  DecoderFaults = {}
  Packed = packed
  Junk = junk
  Files = {}
SPECIFICATION Spec
INVARIANTS LinkedReadIsWritten
CHECK_DEADLOCK FALSE
