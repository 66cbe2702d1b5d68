\* Two documents and a file with three links, a link into the document and one out of it, two
\* buffers, and two engine calls inside each other.
SPECIFICATION EngineSpec
CONSTANTS
  d1 = d1
  d2 = d2
  a1 = a1
  a2 = a2
  f1 = f1
  small = small
  large = large
  Documents = {d1, d2}
  ThumbnailOnly = {d2}
  Links = {a1, a2, f1}
  DocumentOf <- MCDocumentOf
  Unnamed = {a2}
  Uris = {inside, outside}
  Internal = {inside}
  Buffers = {small, large}
  SizeOf <- MCSizeOf
  Sizes = {0, 3}
  MaxDepth = 2
  None = None
INVARIANTS ListenersKnowHover HoverInDocument EachLinkFollowedOnce
PROPERTY FileLeavesEngineAsItWas
CONSTRAINT OneQuestion
CHECK_DEADLOCK FALSE
