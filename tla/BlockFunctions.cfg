CONSTANTS
  Names = {"a", "b"}
  Texts <- SmallTexts
  Arguments <- Lists
  MaxInput = 1
  IntMax = 3
  LongMax = 4
  Faults = {"memory"}
SPECIFICATION Spec
INVARIANTS TypeOK RoomIsThere CalcSuffices
PROPERTIES OthersKept ResultOrNothing
