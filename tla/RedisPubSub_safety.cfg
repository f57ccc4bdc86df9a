CONSTANTS
  ChannelNames = {t1}
  PatternNames = {t2}
  MaxSubs = 3
  MaxMessages = 2
  MaxDrops = 1
  HandlerOps = {"subscribe", "unsubscribe", "throw"}
SPECIFICATION FairSpec
CHECK_DEADLOCK FALSE
INVARIANT TypeOK
INVARIANT RefsConsistent
INVARIANT RedisInStep
PROPERTY EngineSpec
PROPERTY SubscribeSettles
