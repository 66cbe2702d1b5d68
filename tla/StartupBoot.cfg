\* Two resets allowed; the device is switched off once at any moment.
SPECIFICATION FairSpec
CONSTANTS
  ResetLimit = 2
  MaxPowerOffs = 1
CHECK_DEADLOCK FALSE
INVARIANTS DeferredAwaited ServicesInOrder
PROPERTY SettlesDown
