CONSTANTS
  Text <- GarbageText
  StreamLen <- GarbageLen
  Header <- GarbageHeader
  PayLen <- GarbagePayLen
  HeadLen = 4
  MaxPayload = 2
  MaxLen = 4
  CacheSize = 5
  Lens = {0, 2, 3}
  Buffer = 5
  MaxFrames = 3
SPECIFICATION MCSpec
INVARIANTS
  Window
  NoHeaderSkipped
  WholeUntilError
PROPERTIES
  FifoLive
  Heals
\* the receiver stops for good when the peer has closed
CHECK_DEADLOCK FALSE
