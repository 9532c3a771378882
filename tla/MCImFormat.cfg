CONSTANTS
  Internal <- MCInternal
  Plugin = {"JP2"}
  Tiff = {"TIFF"}
  Lenient = {"GIF"}
  Traits <- MCTraits
  MaxFormats = 9
  MaxOpen = 2
  MaxLost = 1
SPECIFICATION Spec
INVARIANTS TypeOK SearchEndsRight NothingLeftBehind ListFits
CHECK_DEADLOCK FALSE
