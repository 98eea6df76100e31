\* Three processes with one descriptor each, as the applications have, and two files; fair scheduling.
CONSTANTS
  Procs = {p1, p2, p3}
  Files = {f1, f2}
  NoFile = NoFile
  Nobody = Nobody
  Sharers = {}
  MaxFds = 1
SPECIFICATION FairSpec
PROPERTY OpenReturns
