SPECIFICATION FairSpec
CONSTANTS
  MaxSessions = 1
  QueueSize = 1
  MaxAttempts = 2
  MaxRetries = 1
  LogSize = 8
  MaxLine = 2
  MaxBody = 2
  MaxRequests = 2
  MaxMessages = 3
CHECK_DEADLOCK FALSE
PROPERTY StopIsCarriedOut
