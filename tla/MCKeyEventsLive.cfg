\* Two processes, each of any application, and a press with its release; fair scheduling.
\* When the edges are used up and both processes sleep, nothing is left to happen.
CONSTANTS
  MaxEdges = 2
  Procs = {p1, p2}
  Signalled = {}
SPECIFICATION FairSpec
CHECK_DEADLOCK FALSE
PROPERTIES
  EventIsConsumed
  SelectReturns
  EventIsFetched
