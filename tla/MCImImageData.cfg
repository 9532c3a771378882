CONSTANTS
  Picture <- MCPicture
  Layout <- MCLayout
SPECIFICATION DataSpec
INVARIANT ImageComesBack
PROPERTY LineFits
