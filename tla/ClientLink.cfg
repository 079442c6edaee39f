SPECIFICATION LinkSpec
CONSTANTS
  PingEvery = 30
  PongWithin = 10
  MaxDelay = 30
  MaxAttempts = 20
  Unarmed = Unarmed
  App = {"web", "mini"}
  Tab = {t1, t2}
  Request = {r1, r2}
  MaxPairs = 3
  MaxSends = 2
  Account = {"u", "v"}
  Chat = {"c", "d"}
  NoChat = "none"
  Unborn = "unborn"
  Works = 2
  MaxWorks = 3
  MaxCrashes = 1
  Window = {1, 2}
  MostAsked = 1
  MaxCodes = 2
  MaxTries = 6
  MaxBroken = 1
INVARIANTS
  SocketSound
  
  TelegramSound
PROPERTIES
  ComesBack
  RequestsSettle
CHECK_DEADLOCK FALSE
