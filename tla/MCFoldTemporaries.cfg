SPECIFICATION Spec
CONSTANTS
  MaxTemp = 3
  MaxLen = 3
  Codes <- MCCodes
INVARIANTS TypeOK NeverOutOfRegisters Separated OperatorAgrees
PROPERTIES ImplementsAllocation
CHECK_DEADLOCK FALSE
