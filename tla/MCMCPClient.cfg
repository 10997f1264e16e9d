\* Two servers may be configured and two commands open at a time, so that one
\* may write over the other; three lines are enough for an answer given twice or
\* a request of the server beside the two answers a call needs.
SPECIFICATION FairSpec
CONSTANTS
  n1 = n1
  n2 = n2
  c1 = c1
  c2 = c2
  Names = {n1, n2}
  Commands = {c1, c2}
  MaxCommands = 2
  MaxLines = 3
INVARIANTS TypeOK AsConfigured
PROPERTIES ImplementsRequestReply CallEnds
CHECK_DEADLOCK FALSE
