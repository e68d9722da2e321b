SPECIFICATION Spec
CONSTANTS
  Char = {"h", ":", "/", "q"}
  UrlChar = {"h", "/"}
  Prefix <- MCPrefix
  Pages <- MCPages
  MaxLength = 8
INVARIANTS LinesAreLinks PlainLinksWritten
\* main returns
CHECK_DEADLOCK FALSE
