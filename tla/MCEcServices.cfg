CONSTANTS
  Nothing = Nothing
  Mishaps = {"read_answer", "write_answer", "emergency", "stop"}
  MaxMishaps = 1
  Timely = TRUE
  MaxCnt = 2
  UnitsFirst = 1
  UnitsMore = 2
  MaxList = 2
  Errors = {"report", "other"}
  NoError = NoError
  Contents <- MCContents
  Rooms = {3, 4}
  Refusable = TRUE
  CanBeBusy = TRUE
  ErrorOf <- MCErrorOf
SPECIFICATION Spec
INVARIANTS TypeOK ErrorFlagged
PROPERTIES ImplementsObjectAccess ImplementsErrorQueue EveryCallReturns
