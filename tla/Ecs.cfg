\* Two digits make the service number; the queue holds three.
SPECIFICATION FairDetectorSpec
CONSTANTS
  TypedScanCodes <- TypedKeys
  ServiceNumber <- OneThree
  KAknServiceCallMinLength = 2
  KAknEcsMaxMatchingLength = 3
  Buffers <- ApplicationBuffers
  MaxTyped = 5
INVARIANT MatchIsCurrent
PROPERTIES CallsServiceNumber MatchEnds
