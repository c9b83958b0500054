CONSTANTS
  OutN = 2
  InN = 4
  Mss = 2
  BufSize = 3
  MaxWindow = 2
  MaxLen = 2
  Retries = 2
  RecvRetries = 1
  ChunkSpace = 4
  SeqSpace = 20
  ISS = 18
  PeerISS = 17
  ClockRuns = TRUE
SPECIFICATION Spec
INVARIANTS SentInOrder ReportedDelivered ReceivedInOrder AcksCoverStored
PROPERTY EndOfFileFinal
