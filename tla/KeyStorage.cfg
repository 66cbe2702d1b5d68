\* Two roots, one of them in ROM too, so that an import can hide it and can come
\* before it; one key pair beside that of ROM; chains of two signing certificates in
\* ROM, and with one or none to import.
CONSTANTS
  RootCount = 2
  RomRoots = {2}
  CmlaRoots = {2}
  Signing = 2
  Chains = {0, 1}
  Pairs = {p1}
  RomPair = rom
  Serials = {s1}
  None = None
  Empty = Empty
SPECIFICATION StorageSpec
INVARIANTS ChainFitsKey KeyFitsPath
PROPERTY RootsNeverLost
