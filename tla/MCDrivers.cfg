\* Every driver loaded twice with up to two files; two transfers of up to two blocks on
\* three; two users of a gpio, two periods; three clients of the IIO device; two samples.
CONSTANTS
  Devices <- AllDevices
  Drivers <- AllDrivers
  MaxLoads = 2
  MaxFiles = 2
  Tags = {t1, t2}
  NoTag = NoTag
  Blank = Blank
  NBlocks = 3
  RequestSegments = 2
  BioSegments = 2
  Users = {u1, u2}
  Periods = {ms1000, ms500}
  Default = ms1000
  Off = Off
  Clients = {c1, c2, c3}
  NoClient = NoClient
  Handler = Handler
  Temperatures <- WarmAndCold
  Garbled <- SilentLine
  Frames <- TwoFrames
SPECIFICATION FairBoardSpec
INVARIANTS
  BoardTypeOK
  LeftBehind
  InUseIsHeld
  LiveIsComplete
  TimerStops
  GpioOwned
  TimerStopsWithFile
  DepthPairs
  RestIsCurrent
  ReportsReal
  SamplingEnds
  BufferGetsData
PROPERTIES
  ImplementsDisk
  PeriodCatchesUp
  InterruptReturns
  KeepsSampling
\* The last load is followed by nothing.
CHECK_DEADLOCK FALSE
