CONSTANTS
  MQTT_SEND_TIMEOUT = 1
  KeepAlive = 0
  DnsTries = 1
  IdMod = 3
  UsedIds = 1
  MaxMessages = 2
  MaxFaults = 1
  MaxInbox = 2
SPECIFICATION Spec
INVARIANT SentReached
