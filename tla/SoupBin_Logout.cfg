\* One well-configured client that logs in and then runs its destructor.
CONSTANTS
  Clients = {c1}
  NoClient = NoClient
  GoodCreds = {c1}
  Segmenting = FALSE
  ClientLogsOut = TRUE
SPECIFICATION Spec
PROPERTY LogoutEndsSession
CHECK_DEADLOCK FALSE
