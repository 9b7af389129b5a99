SPECIFICATION Spec
CONSTANTS
  Divider = 2
  Width = 2
  UserBytes <- TwoBytes
INVARIANTS
  TypeOK
  IdleBusReleased
  IInv
PROPERTIES
  SdaDiscipline
