CONSTANTS
  Lib <- MCLibs
  LibOrder <- MCOrder
  MakeOrder <- MCOrder
  NoteOrder <- MCOrder
  CoreOrder <- MCOrder
  SysLibs = {}
  NPatches <- MCPatches
  Targets <- MCTargets
  GLTargets = {}
  Essential = {"iup"}
  MinLibs = 1
  Stamps = {"d1"}
  Flavours = {"rel", "cvs"}
  Travis = TRUE
SPECIFICATION InstallSpec
INVARIANTS InstallTypeOK InstalledIsUsable BlibIsWhole
