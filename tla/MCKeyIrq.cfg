\* Two readers contending with the timer function, two presses with their releases.
CONSTANTS
  MaxEdges = 4
  Readers = {r1, r2}
SPECIFICATION FairSpec
INVARIANTS
  TypeOK
  IInv
  LockOwner
  StatusIsLatest
  TakenOnce
  TakenIsGone
  SettledIsLevel
PROPERTIES
  ImplementsMailbox
  Debounced
