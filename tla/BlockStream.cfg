CONSTANTS
  W = 2
  Bytes = {0, 1}
  Zero = 0
  Inputs <- Strings
  EncoderFaults = {"argument", "memory", "small", "interrupt"}
  DecoderFaults = {"corrupt", "interrupt", "memory"}
  MaxBlocks = 2
SPECIFICATION Spec
INVARIANTS TypeOK BlocksDecode SavedictIsShared
