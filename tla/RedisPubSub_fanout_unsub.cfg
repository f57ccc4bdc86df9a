CONSTANTS
  ChannelNames = {t1}
  PatternNames = {}
  MaxSubs = 3
  MaxMessages = 1
  MaxDrops = 0
  HandlerOps = {"unsubscribe"}
SPECIFICATION Spec
CHECK_DEADLOCK FALSE
INVARIANT FanoutComplete
