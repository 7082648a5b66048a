CONSTANTS
  ChunkSize = 2
  MaxBytes = 5
  MaxPut = 3
  Users <- AllUsers
  BufferLines = 4
  BufferColumns = 2
  MaxMoves = 5
  ScreenSession <- ScreenSessions
  Name = {"Default", "p"}
  Key = {1, 2}
  Shift = {0, 1}
  Cmd = {500}
  TableChar = {0, 1}
  Dir = {"trInput"}
  EditBuf = 24
  ExportBuf = 14
  MaxSteps = 8
  Nothing = Nothing
  ProfileSession <- ProfileSessions
SPECIFICATION MCSpec
INVARIANTS NoDangling NoLostWakeup ShownIsHeld NothingFreedIsUsed CopiesAgree
PROPERTIES StreamPromise ScrollbackKept SavedIsMeant
CHECK_DEADLOCK FALSE
