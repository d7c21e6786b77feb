\* A server or a client of two sessions, as many threads as owners of two
\* bits; up to three buffs that fill their buffer to the last byte; two
\* threads, three variables and two counted objects; nine pages of four bytes.
SPECIFICATION PartsSpec
CONSTANTS
  Main = Main
  Workers = {w1, w2}
  Sessions = {s1, s2, s3, s4}
  None = None
  Roles = {"server", "client"}
  MaxSessionCount = 2
  MaxDepth = 2
  IdLimit = 4
  AllocSize = 56
  MaxBuffs = 3
  Values = {v1, v2}
  Garbage = Garbage
  Users = {u1, u2}
  Roots = {r1, r2, r3}
  Objects = {o1, o2}
  Null = Null
  PageSize = 4
  Granule = 2
  LastPage = 9
  BlockSizes = {1, 3, 4, 5, 8, 9, 12}
SYMMETRY Symmetry
INVARIANTS
  LockIdsFit
  WorkersFindService
  SessionsAccounted
  RoundTrip
  StaysWithin
  HeldIsAlive
  CountsReferences
  OneRegionEach
  OverrunFaults
