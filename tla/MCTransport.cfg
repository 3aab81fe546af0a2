SPECIFICATION Spec
CONSTANTS
  Fds <- MCFds
  RecvLen = 3
  SendLen = 1
  MaxConns = 2
INVARIANTS
  TypeOK
  NeverStrays
  WorldReachesAll
  StaleIsNoticed
  HandledForSender
