\* Two processes, each of any application, and two presses with a release between.
CONSTANTS
  MaxEdges = 3
  Procs = {p1, p2}
  Signalled = {p1, p2}
SYMMETRY Symmetry
SPECIFICATION Spec
INVARIANTS
  TypeOK
  NoLostWakeup
  NoLostSignal
  NoDanglingEntry
PROPERTY EventsInOrder
