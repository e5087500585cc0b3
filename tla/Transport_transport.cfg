CONSTANTS
  r1 = r1
  r2 = r2
  r3 = r3
  Req = {r1, r2, r3}
  LongOpening = {r1}
  LongClosing = {r2}
  MaxConn = 2
  MaxCrashes = 1
  MaxNotices = 1
  WireCap = 2
  Faults = {"client_write", "server_write", "framer", "close"}
SPECIFICATION TransportSpec
INVARIANT ReplyNotLost
PROPERTY EveryRequestSettles
CHECK_DEADLOCK FALSE
