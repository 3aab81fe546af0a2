SPECIFICATION Spec
CONSTANTS
  m1 = m1
  m2 = m2
  m3 = m3
  m4 = m4
  Items <- MCItems
  MaxLen = 3
  NULL = NULL
INVARIANTS
  IInv
  NoSlotRace
  QueuedHasID
PROPERTY ImplementsFifo
