SPECIFICATION FairSpec
CONSTANTS
  Char <- MCChar
  Pages <- MCPages
  MaxPieces = 4
INVARIANTS CopiedOnce HeadingsCopied NothingElseCopied CopiedBehindTag
PROPERTY Returns
\* main returns
CHECK_DEADLOCK FALSE
