SPECIFICATION EoESpec
CONSTANTS
  Lengths <- OneToThreeFragments
  Block = 2
  MaxData = 3
  Room = 8
  FrameNos = 3
  Tags = 6
  MaxQueue = 2
  MaxFaults = 2
  None = None
INVARIANT
  EoETypeOK
PROPERTIES
  ImplementsFrameChannel
  WholeFrameArrives
