SPECIFICATION Spec
CONSTANTS
  Clients = {c1}
  Keys = {"a", "a?x", "%", "%2Fa"}
  StoredAs <- KeyStored
  SoughtAs <- KeySought
  NoRoute = NoRoute
  NoURL = NoURL
  Values = {1, 2}
  Locs = {w1, w2}
  NoLoc = NoLoc
  NoValue = NoValue
  Ram = 3
  Failing = {}
  Malformed = FALSE
  Requests = 6
CHECK_DEADLOCK FALSE
PROPERTY KeepsPromise
