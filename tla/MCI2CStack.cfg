SPECIFICATION Spec
CONSTANTS
  Divider = 2
  Width = 2
  Max_Bytes = 3
  Requests <- Mixed
  PowerUp = {0, 1}
  ResetFirst = TRUE
  Settle = 9
  Answers = {0, 1}
  Holds = {0, 7}
INVARIANTS
  TypeOK
PROPERTIES
  ImplementsTransfer
  KeepsReadContract
  EveryRequestAnswered
