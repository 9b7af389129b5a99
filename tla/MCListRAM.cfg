SPECIFICATION Spec
CONSTANTS
  Width = 3
  Data = {0, 1}
INVARIANTS
  IInv
PROPERTIES
  ImplementsList
  BusyEnds
