CONSTANTS
  io = io
  file = file
  array = array
  BlockSizes <- Sizes
  IntMax = 7
  SizeMod = 16
  Options <- NoOptions
  WriteSizes = {1, 6}
  Ports = {io, array}
  Arrays = {array}
  Faults = {}
  MaxWritten = 6
  MaxPushes = 2
SPECIFICATION EncodeSpec
INVARIANTS PortsKeepTheFrame
CHECK_DEADLOCK FALSE
