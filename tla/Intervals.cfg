SPECIFICATION Spec
CONSTANTS
  Lo = 0
  Hi = 4
INVARIANTS
  TypeOK
  OperationsExact
  ConstructorsExact
  RelationsExact
  OrderIsTotal
  SizesExact
