CONSTANTS
  call1 = call1
  call2 = call2
  push1 = push1
  push2 = push2
  event1 = event1
  Sends = {call1, call2}
  Pushes = {push1, push2}
  Emits = {event1}
  Kind <- Kinds
  Pattern <- OnPattern
  NoAnswer = NoAnswer
  Transports = {"TCP", "REDIS", "RABBITMQ"}
  MaxMessages = 2
  Conns = {1, 2}
  MaxDrops = 1
  Instances = {"s1", "s2"}
  Pusher = "s1"
SPECIFICATION FairSpec
CHECK_DEADLOCK FALSE
INVARIANT NoOrphan
INVARIANT ServersKeepAccount
PROPERTY RequestSpec
PROPERTY RequestSettles
