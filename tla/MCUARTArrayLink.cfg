SPECIFICATION Spec
CONSTANTS
  Payloads <- OnePayload
  Max_Bytes = 3
  Timeout = 32
  Byte <- TwoBits
  NoByte <- ZeroByte
  BitClocks = 4
  OS_Rate = 4
  D_Width = 2
  Parity = 0
  Parity_EO = 0
INVARIANTS
  TypeOK
PROPERTIES
  BytesInOrder
  WholeMessages
  EveryMessageArrives
  RxBusySeen
