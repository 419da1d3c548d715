\* A live packet lost in ordinary flow, followed by a later packet that
\* reveals the gap, is never recovered.
CONSTANTS
  MaxSeq = 4
  MaxCount = 2
  CountBits = 3
  Duplicating = FALSE
  RewinderChecksSession = FALSE
  FeedSession = FeedSession
  UnsetSession = UnsetSession

SPECIFICATION Spec

PROPERTY DetectedGapsFilled

CHECK_DEADLOCK FALSE
