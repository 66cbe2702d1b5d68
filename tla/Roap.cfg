\* One issuer, one domain, and two roots that a context or an RI Hello may choose;
\* the second trigger or one-pass response meets what the first has left.
CONSTANTS
  Issuers = {ri1}
  Domains = {d1}
  Roots = {rootA, rootB}
  DefaultRoot = rootA
  None = None
  MaxTriggers = 2
  MaxEvents = 1
SPECIFICATION Spec
\* An idle engine waits for the next trigger, and here for no more of them.
CHECK_DEADLOCK FALSE
INVARIANT DomainsAgree
PROPERTIES TimeRepaired SecuredTimeWasShown RightsStoredWhenDone
