SPECIFICATION Spec
CONSTANTS
  Clients = {c1, c2}
  Keys = {"a", "a?x", "b"}
  StoredAs <- KeyStored
  SoughtAs <- KeySought
  NoRoute = NoRoute
  NoURL = NoURL
  Values = {1, 2}
  Locs = {w1, w2}
  NoLoc = NoLoc
  NoValue = NoValue
  Ram = 3
  Failing = {w1}
  Malformed = TRUE
  Requests = 2
CHECK_DEADLOCK FALSE
INVARIANTS
  TypeOK
  NothingInvented
  MappedWorkerHasKey
  NeverOvercharged
