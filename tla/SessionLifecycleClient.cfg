\* A client whose ConnectEx may fail.
SPECIFICATION Spec
CONSTANTS
  w1 = w1
  w2 = w2
  w3 = w3
  s1 = s1
  s2 = s2
  s3 = s3
  e1 = e1
  e2 = e2
  Main = Main
  None = None
  Workers <- TwoWorkers
  Sessions <- TwoSessions
  Events <- TwoEvents
  Roles = {"client"}
  Errors = {"reset", "disconnect"}
SYMMETRY Symmetry
INVARIANTS
  OnConnectedWhenUp
