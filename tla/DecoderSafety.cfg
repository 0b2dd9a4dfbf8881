CONSTANTS
  Frames <- Anything
  HeaderSize = 1
  TmpSize = 2
  ReadSizes = {0, 1, 2, 3}
  Faults = {"port", "corrupt", "interrupt", "close"}
SPECIFICATION FairSpec
INVARIANTS TypeOK Conservation InOrder NothingLeftBehind
PROPERTIES NoByteAfterError CallReturns ReadAllIsAll ReaderSpec
CHECK_DEADLOCK FALSE
