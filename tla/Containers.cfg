SPECIFICATION Spec
CONSTANTS
  a = a
  b = b
  NoValue = NoValue
  Top = 4
  Values <- TwoValues
  MaxOperand = 3
  MaxSegments = 3
  MaxPassed = 1
SYMMETRY Swapped
INVARIANTS TypeOK SegmentOpsExact OperandOpsExact SetOpsExact QueriesExact JoinCoalesces IterationExact
