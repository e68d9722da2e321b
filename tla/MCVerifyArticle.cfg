SPECIFICATION Spec
CONSTANTS
  Char = {"<", "m", ">"}
  Elements <- MCElements
  Pages <- MCPages
  MaxLength = 9
  None = None
INVARIANTS ArticleHasElements NoArticleLacksElement
\* main returns
CHECK_DEADLOCK FALSE
