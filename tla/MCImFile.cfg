CONSTANTS
  Level = 16
  Page <- MCPage
  MaxImages = 2
  Garbled = Garbled
SPECIFICATION Spec
INVARIANTS TypeOK InfoIsOfImage DataIsOfImage
