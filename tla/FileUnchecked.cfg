CONSTANTS
  Disks <- FrameDisk
  Commands <- FrameCommand
  MaxRuns = 1
  Checked = FALSE
  BlockSlices = 2
  Faults = {}
SPECIFICATION Spec
PROPERTIES RemovedWhenWhole
CHECK_DEADLOCK FALSE
