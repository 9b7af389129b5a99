SPECIFICATION Spec
CONSTANTS
  Divider = 2
  Width = 2
  Max_Bytes = 2
  Requests <- OneByte
  PowerUp = {0}
  ResetFirst = FALSE
  Settle = 0
  Answers = {0}
  Holds = {0}
INVARIANTS
  NoExtraBytes
