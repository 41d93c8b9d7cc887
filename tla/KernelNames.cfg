SPECIFICATION BothSpec
CONSTANT MaxLoads = 2
INVARIANTS
  TypeOK
  LeavesBehind
  HwidLeavesOnlyMemory
PROPERTIES
  LeftoverBlocksLoad
