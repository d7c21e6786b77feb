\* No symmetry; requests fail at once only with a reset, DisconnectEx never.
SPECIFICATION FairSpec
CONSTANTS
  w1 = w1
  w2 = w2
  w3 = w3
  s1 = s1
  s2 = s2
  s3 = s3
  e1 = e1
  e2 = e2
  Main = Main
  None = None
  Workers <- ThreeWorkers
  Sessions <- OneSession
  Events <- OneEvent
  Roles = {"server"}
  Errors = {"reset"}
INVARIANTS
  ConnectedListens
PROPERTIES
  BroadcastEnds
  DisconnectedIsFreed
