SPECIFICATION Spec
CONSTANTS
  w1 = w1
  w2 = w2
  h1 = h1
  h2 = h2
  s1 = s1
  Workers <- MCWorkers1
  Humans <- MCHumans
  Shared <- MCShared
  NoCo = NoCo
  Idle = Idle
  QueueLen = 1
  MaxTid = 4
  MaxVer = 1
CHECK_DEADLOCK FALSE
INVARIANT ExitStoresEveryone
