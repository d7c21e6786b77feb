\* A server or a client: three workers, two sessions in turn or at once.
SPECIFICATION Spec
CONSTANTS
  w1 = w1
  w2 = w2
  w3 = w3
  s1 = s1
  s2 = s2
  s3 = s3
  e1 = e1
  e2 = e2
  Main = Main
  None = None
  Workers <- ThreeWorkers
  Sessions <- TwoSessions
  Events <- OneEvent
  Roles = {"server", "client"}
  Errors = {"reset", "other", "disconnect"}
SYMMETRY Symmetry
INVARIANTS
  OwnersHeld
  NeverCrashes
  GameWithinService
PROPERTIES
  ImplementsSessionLife
