SPECIFICATION LiveSpec
CHECK_DEADLOCK FALSE
CONSTANTS
  Tracks = {"audio", "video"}
  FileLen = 1
  MinAudio = 1
  MinVideo = 1
  MaxTotal = 2
  MaxSeeks = 1
  MaxErrors = 1
  MaxMarks = 2
PROPERTIES
  ReadReturns
  StopReturns
