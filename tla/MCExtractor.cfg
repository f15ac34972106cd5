SPECIFICATION Spec
CONSTANTS
  Tracks = {"audio", "video"}
  FileLen = 1
  MinAudio = 1
  MinVideo = 1
  MaxTotal = 2
  MaxSeeks = 2
  MaxErrors = 1
  MaxMarks = 2
INVARIANTS SeekLandsThere PacketsInOrder ClosedAfterEnd
CHECK_DEADLOCK FALSE
