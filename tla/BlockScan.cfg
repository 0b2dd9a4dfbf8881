CONSTANT Blocks <- SmallBlocks
SPECIFICATION Spec
INVARIANTS TypeOK ScansWellFormed SizeIsDecoded LinkIsLeast
CHECK_DEADLOCK FALSE
