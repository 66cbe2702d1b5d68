SPECIFICATION FairSpec
CONSTANTS
  Files = {f1, f2}
  DiskFiles = {f2}
  Undeletable = {f1}
  Contents = {c1}
  Sessions = {s1, s2}
  KMaxStartTries = 1
  MaxHandlers = 2
  None = None
INVARIANTS GrantedOnce LeftOnlyWhereStopped BackupHasHandler
PROPERTY ClientReleased
