SPECIFICATION Spec
CONSTANTS
  BitClocks = 9
  OS_Rate = 4
  D_Width = 3
  Parity = 1
  Parity_EO = 0
  Bytes <- AllBytes
INVARIANTS
  TypeOK
PROPERTIES
  InOrder
  GoodFrame
  EverySentByteArrives
