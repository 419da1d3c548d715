\* m_buffer scaled from 4096 to 6 bytes; frames of 3, 4 and 6 bytes, so a
\* read may end anywhere in a frame, a leftover is moved to the front, and
\* a frame may fill the buffer exactly.
CONSTANTS
  BufSize = 6
  Lengths = {1, 2, 4}
  MaxFrames = 4

SPECIFICATION Spec

INVARIANT FramingTypeOK

PROPERTIES
  FrameChannelRefined
  EveryFrameHandled

\* The exchange stops writing after MaxFrames frames and need not close:
\* the reader then waits in read() for good.
CHECK_DEADLOCK FALSE
