\* Three listeners, one of which reports all elements; up to three entries in all lists.
SPECIFICATION ListenersSpec
CONSTANTS
  Listeners = {l1, l2, l3}
  ReportingAll = {l1}
  MaxRegistered = 3
  None = None
CHECK_DEADLOCK FALSE
INVARIANT ToldUnlessRemoved
