SPECIFICATION SocketSpec
CONSTANTS
  PingEvery = 30
  PongWithin = 10
  MaxDelay = 30
  MaxAttempts = 20
  Unarmed = Unarmed
PROPERTY
  AnsweredPingKeepsConnection
CHECK_DEADLOCK FALSE
