SPECIFICATION Spec
CONSTANTS
  Fds <- MCFds
  RecvLen = 2
  SendLen = 1
  MaxConns = 2
INVARIANT OwnMessagesOnly
