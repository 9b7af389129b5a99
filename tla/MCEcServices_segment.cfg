CONSTANTS
  Nothing = Nothing
  Mishaps = {"read_answer"}
  MaxMishaps = 1
  Timely = FALSE
  MaxCnt = 2
  UnitsFirst = 1
  UnitsMore = 2
  MaxList = 1
  Errors = {"report", "other"}
  NoError = NoError
  Contents <- MCContents
  Rooms = {4}
  Refusable = FALSE
  CanBeBusy = FALSE
  ErrorOf <- MCErrorOf
SPECIFICATION Spec
INVARIANT SegmentsCombined
