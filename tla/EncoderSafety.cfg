CONSTANTS
  io = io
  file = file
  array = array
  BlockSizes <- Sizes
  IntMax = 7
  SizeMod = 16
  Options <- Hashes
  WriteSizes = {1, 6}
  Ports = {io, file}
  Arrays = {}
  Faults = {"port", "interrupt"}
  MaxWritten = 6
  MaxPushes = 3
SPECIFICATION EncodeSpec
INVARIANTS TypeOK FrameInOrder EveryByteOnce EncodeEnds
PROPERTIES FlushDelivers OptionsHonoured
CHECK_DEADLOCK FALSE
