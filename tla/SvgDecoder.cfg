\* A root and three elements of twelve sorts, or four of five sorts, in any tree.
SPECIFICATION Spec
CONSTANTS
  Shapes <- MCShapes
  RootShapes <- MCRootShapes
  Features = {"Image"}
  Language = "en"
  MaxElements = 5
  MaxBound = 1
INVARIANTS ListsAlive LeavesWhatPasses DrawsWhatIsShown
CONSTRAINT LongFilesAreSimple
CHECK_DEADLOCK FALSE
