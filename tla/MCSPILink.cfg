SPECIFICATION Spec
CONSTANTS
  Bits = 2
  Ratios = {1, 2}
  TxWords <- Mirrored
INVARIANTS
  TypeOK
PROPERTIES
  SlaveGetsWord
  MasterGetsWord
  SelectFramesWords
  MosiStable
  TransfersEnd
