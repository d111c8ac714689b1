SPECIFICATION Spec
CONSTANTS
  Clients = {c1, c2}
  Keys = {"a"}
  StoredAs <- KeyStored
  SoughtAs <- KeySought
  NoRoute = NoRoute
  NoURL = NoURL
  Values = {1}
  Locs = {w1, w2}
  NoLoc = NoLoc
  NoValue = NoValue
  Ram = 2
  Failing = {}
  Malformed = FALSE
  Requests = 3
CHECK_DEADLOCK FALSE
INVARIANT AckedIsFound
