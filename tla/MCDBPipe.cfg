SPECIFICATION Spec
CONSTANTS
  w1 = w1
  w2 = w2
  h1 = h1
  h2 = h2
  s1 = s1
  Workers <- MCWorkers2
  Humans <- MCHumans
  Shared <- MCShared
  NoCo = NoCo
  Idle = Idle
  QueueLen = 2
  MaxTid = 5
  MaxVer = 1
CHECK_DEADLOCK FALSE
SYMMETRY MCSymmetry
INVARIANTS
  TypeOK
  AnswersAwaited
  CleanExitStoresAll
PROPERTIES
  SavesInOrder
  ImplementsStore
