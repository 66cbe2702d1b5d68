\* Plain, compressed, protected and compressed protected pictures, text or binary, and a
\* file of one byte; up to two images per picture, three on their way at a time.
SPECIFICATION DocumentSpec
CONSTANTS
  Contents <- MCContents
  MaxImages = 2
  MaxFetches = 3
  None = None
INVARIANTS SuccessShowsContent LeftOnlyByFailure FreeIsMarked ImagesToldWhenLoaded
