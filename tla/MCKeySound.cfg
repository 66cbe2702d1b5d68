\* Three clients with sound maps and the lock, or two of one or two applications with two
\* sounds each.
SPECIFICATION Spec
CONSTANTS
  s1 = s1
  s2 = s2
  s3 = s3
  None = None
  Sessions = {s1, s2, s3}
  Uids = {1, 3}
  SoundsPerLoad = 2
  MaxSids = 4
  MaxMaps = 3
  MaxDepth = 2
  ScanCodes = {7}
SYMMETRY Symmetry
INVARIANTS MapsLive OneDefaultLoader SidListSound
PROPERTY ImplementsSoundContext
CONSTRAINT SoundsOrContext
CHECK_DEADLOCK FALSE
