SPECIFICATION Spec
CONSTANTS
  SetTop = 5
  MapTop = 3
  ElementTop = 5
  Before <- SetBefore
  Comparisons <- AllComparisons
CHECK_DEADLOCK FALSE
INVARIANT TypeOK
PROPERTY AnswersAsPromised
