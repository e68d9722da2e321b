SPECIFICATION FairSpec
CONSTANTS
  Char <- MCChar
  Meta <- MCMeta
  NameKey <- MCNameKey
  PropertyKey <- MCPropertyKey
  ContentKey <- MCContentKey
  Attributes <- MCAttributes
  Pages <- MCPages
  MaxPieces = 3
INVARIANTS ValuesAreContent PlainMetaCopied OneValuePerTag
PROPERTY Returns
\* main returns
CHECK_DEADLOCK FALSE
