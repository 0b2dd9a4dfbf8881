CONSTANTS
  Disks <- SmallDisks
  Commands <- AllCommands
  MaxRuns = 3
  Checked = TRUE
  BlockSlices = 2
  Faults = {"system", "corrupt", "kill"}
SPECIFICATION Spec
INVARIANTS TypeOK ContentSafe
PROPERTIES RemovedWhenWhole NothingOverwritten
CHECK_DEADLOCK FALSE
