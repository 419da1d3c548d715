\* One client whose credentials the emulator rejects.
CONSTANTS
  Clients = {c1}
  NoClient = NoClient
  GoodCreds = {}
  Segmenting = FALSE
  ClientLogsOut = FALSE
SPECIFICATION Spec
INVARIANT NoUseAfterErase
CHECK_DEADLOCK FALSE
