CONSTANTS
  Token <- Tokens
  Piece <- Pieces
  start_tokens <- Start
  end_tokens <- End
  forced_tokens <- Forced
  budget = 2
  MaxTokens = 7
  MaxPrefill = 4
  MaxRewind = 1
  MaxRewinds = 1
SPECIFICATION Spec
INVARIANTS TypeOK BudgetAccounting OverBudgetOnlyForUtf8
PROPERTIES ForcedAtCharBoundary ForcedSequenceEmitted OpenedByStartTag
CHECK_DEADLOCK FALSE
