\* A SIGIO handler in a file that lost O_NONBLOCK, beside another reader.
CONSTANTS
  MaxEdges = 3
  Procs = {p1, p2}
  Signalled = {p1, p2}
SPECIFICATION Spec
INVARIANT HandlerNeverBlocks
