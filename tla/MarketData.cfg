\* Gap recovery with a lossy, reordering, duplicating live feed and a
\* rewinder that serves every request.
CONSTANTS
  MaxSeq = 4
  MaxCount = 2
  CountBits = 3
  Duplicating = TRUE
  RewinderChecksSession = FALSE
  FeedSession = FeedSession
  UnsetSession = UnsetSession

SPECIFICATION Spec

INVARIANT TypeOK
INVARIANT MissingBackDefined
INVARIANT RecoveredWereApplied

PROPERTY CatchUp

\* The feed is bounded at MaxSeq: once it is fully delivered the client
\* blocks in recvfrom forever.
CHECK_DEADLOCK FALSE
