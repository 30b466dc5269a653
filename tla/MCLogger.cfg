CONSTANTS
  Threads = {t1, t2}
  NoThread = NoThread
  MaxEntries = 3
  MaxClock = 2
SYMMETRY ThreadSymmetry
SPECIFICATION Spec
CHECK_DEADLOCK FALSE
INVARIANTS
  TypeOK
  ReturnedIsOnDisk
  AloneIsWhole
  OnlyOverlapsMix
