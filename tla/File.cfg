SPECIFICATION Spec
CONSTANTS
  Word = 4
  MaxSize = 4
  DesLength = 1
  Statuses = {s1, s2}
  Named = {1, 2, 3, 4}
  MaxCalls = 3
SYMMETRY StatusSymmetry
INVARIANTS
  ServedWhereAsked
  AnsweredOnce
  CancelSettles
CHECK_DEADLOCK FALSE
