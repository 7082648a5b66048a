SPECIFICATION MCSpec
CONSTANTS
  Texts <- ShortAndLong
  ChunkSize = 3
  LastChunk = 4
  MaxBlock = 4
  PasteLength = 2
  FileLength = 5
  FileBlock = 3
  Replies <- ReplyLengths
  MaxAccepted = 10
  BlockSize = 2
  Bits = {1}
  IP <- Reversed
  FP <- Reversed
  RoundKeys = {1, 2, 3}
  Choice <- KeyAfter
  Mangle <- Mixed
  Keys <- ThreeKeys
  Modes <- AllModes
  Feedback = 1
  MaxBytes = 4
CHECK_DEADLOCK FALSE
INVARIANTS NothingLost ReadAsSent ReadBack
PROPERTIES PasteEnds
