CONSTANTS
  Lib <- MCCoreLibs
  LibOrder <- MCCoreOrder
  NoteOrder <- MCCoreOrder
  CoreOrder <- MCCoreOrder
  SysLibs = {}
  NPatches <- MCCorePatches
  MakeOrder <- MCCoreMake
  Targets <- MCFewTargets
  GLTargets = {}
  Essential = {"iup"}
  MinLibs = 1
  Stamps = {"d1"}
  Flavours = {"cvs"}
  Travis = TRUE
SPECIFICATION Spec
INVARIANT SourcesOfItsRepository
