CONSTANTS
  Image <- MCImages
  MaxCount = 6
SPECIFICATION Spec
INVARIANTS
  TypeOK
  RegionsAreRight
\* the function has returned
CHECK_DEADLOCK FALSE
