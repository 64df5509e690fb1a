CONSTANTS
  MaxBody = 3
  Diffs <- MCDiffs
  Hints <- MCHints
SPECIFICATION Spec
CHECK_DEADLOCK FALSE
INVARIANTS
  TypeOK
  CommentLineIsReal
  QuotedLinesArePlaced
