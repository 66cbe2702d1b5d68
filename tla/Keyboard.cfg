\* A ring of two slots wraps twice; every place of the DFC is interrupted,
\* and two HAL clients switch the keyboard on and off meanwhile.
SPECIFICATION FairDriverSpec
CONSTANTS
  FIFO_SIZE = 2
  MaxKeys = 5
  DeathKeys = {5}
  Clients = {c1, c2}
  MaxCalls = 2
CHECK_DEADLOCK FALSE
INVARIANTS InOrderUnlessRaced NeverMoreThanAccepted RxDfcComes
PROPERTY RingDrains
