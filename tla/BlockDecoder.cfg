CONSTANTS
  W = 3
  Bytes = {0, 1}
  Zero = 0
  Inputs <- Strings
  Faults = {"corrupt", "interrupt", "memory"}
SPECIFICATION Spec
INVARIANTS TypeOK
PROPERTIES WindowSlides
