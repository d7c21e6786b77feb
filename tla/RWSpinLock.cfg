\* Three threads, no symmetry; users may break the rule against R -> W.
SPECIFICATION FairSpec
CONSTANTS
  t1 = t1
  t2 = t2
  t3 = t3
  NoThread = NoThread
  Threads <- ThreeThreads
  Depth = 3
INVARIANTS
  TypeOK
  Exclusion
  FlagCountsHolds
  NoUpgrade
  OnlyTimeoutsCrash
PROPERTIES
  ImplementsRWLock
  WaitersServed
