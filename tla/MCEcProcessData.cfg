CONSTANTS
  Buffers = 2
  NoFrame = NoFrame
  Nothing = Nothing
  MaxTries = 2
  MaxCounter = 7
  Setups <- MCSetups
SPECIFICATION Spec
INVARIANTS TypeOK BuffersReleased FullCounterMeansFresh LossEndsWithCycle AnswersItsQuestion
PROPERTY ReceiveReturns
