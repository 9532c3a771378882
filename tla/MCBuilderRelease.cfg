CONSTANTS
  Lib <- MCCoreLibs
  LibOrder <- MCCoreOrder
  NoteOrder <- MCCoreOrder
  CoreOrder <- MCCoreOrder
  SysLibs = {}
  NPatches <- MCCorePatches
  MakeOrder <- MCCoreMake
  Targets <- MCCoreTargets
  GLTargets = {"iupgl"}
  Essential = {"iup"}
  MinLibs = 2
  Stamps = {}
  Flavours = {"rel"}
  Travis = FALSE
SPECIFICATION Spec
INVARIANTS TypeOK MarkedBuildIsWhole
PROPERTY ImplementsFinishedBuild
