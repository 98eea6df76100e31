\* Three processes of which each may hold two descriptors and pass them on.
CONSTANTS
  Procs = {p1, p2, p3}
  Files = {f1, f2, f3}
  NoFile = NoFile
  Nobody = Nobody
  Sharers = {p1, p2, p3}
  MaxFds = 2
SYMMETRY Symmetry
SPECIFICATION Spec
INVARIANTS
  TypeOK
  IInv
  AtMostOneOpen
  GuardAccounts
PROPERTIES
  ImplementsExclusive
  SpinRefusesOnlyBusy
