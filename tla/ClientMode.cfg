\* All requests in every order, the station failing and losing connections.
CONSTANTS
  NotifyLimit = 2
  MaxRequests = 4
  MaxLosses = 1
SPECIFICATION Spec
INVARIANTS
  TypeOK
  TimerModeIsTrue
  LastPutOffWorkAwaited
  UpdateStartsOnline
  AccessPointStopsAfterClient
PROPERTY
  PollsEnd
CHECK_DEADLOCK FALSE
