CONSTANTS
  Lib <- MCMixedLibs
  LibOrder <- MCMixedOrder
  NoteOrder <- MCMixedOrder
  CoreOrder <- MCMixedCore
  SysLibs = {}
  NPatches <- MCMixedPatches
  MakeOrder <- MCMixedMake
  Targets <- MCMixedTargets
  GLTargets = {}
  Essential = {"iup"}
  MinLibs = 1
  Stamps = {"d1"}
  Flavours = {"rel", "cvs"}
  Travis = TRUE
SPECIFICATION CalmSpec
INVARIANTS UnpackedIsVerified MadeFromCleanSources
PROPERTY BuildsEventually
