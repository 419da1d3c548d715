\* One client with the emulator's credentials, one without; both may run
\* the destructor.  read() returns whole writes (the loopback case).
CONSTANTS
  Clients = {c1, c2}
  NoClient = NoClient
  GoodCreds = {c1}
  Segmenting = FALSE
  ClientLogsOut = TRUE
SPECIFICATION Spec
INVARIANT SoupBinTypeOK
PROPERTIES LoginAnswered ClosedClientsRemoved
CHECK_DEADLOCK FALSE
