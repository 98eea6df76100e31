\* The application of DS18B20 below zero.
CONSTANTS
  Devices <- OnlyOneWire
  Drivers <- OneDriver
  MaxLoads = 2
  MaxFiles = 2
  Tags = {t1, t2}
  NoTag = NoTag
  Blank = Blank
  NBlocks = 3
  RequestSegments = 1
  BioSegments = 2
  Users = {u1, u2}
  Periods = {ms1000, ms500}
  Default = ms1000
  Off = Off
  Clients = {c1, c2}
  NoClient = NoClient
  Handler = Handler
  Temperatures <- WarmAndCold
  Garbled <- SilentLine
  Frames <- TwoFrames
SPECIFICATION BoardSpec
INVARIANT ShowsMeasured
