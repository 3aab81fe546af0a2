SPECIFICATION Spec
CONSTANTS
  f1 = f1
  f2 = f2
  a1 = a1
  a2 = a2
  l1 = l1
  l2 = l2
  Fds <- MCFds
  Accounts <- MCAccounts2
  FirstAccount = a1
  Logins <- MCLogins1
  None = None
  MaxHumans = 3
  MaxVer = 2
  OfflineLoads = FALSE
SYMMETRY MCSymmetry
INVARIANTS
  
  OnePlayer
  
 
