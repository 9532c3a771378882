CONSTANTS
  Byte = {a, b}
  Junk = Junk
  InitSizes <- MCInitSizes
  GrowNum = 1
  GrowDen = 2
  HeapLimit = 4
  MaxOp = 3
SPECIFICATION Spec
INVARIANTS TypeOK FileInBlock HangsOnlyOnFirstSize
PROPERTY ImplementsByteFile
CHECK_DEADLOCK FALSE
