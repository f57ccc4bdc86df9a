CONSTANTS
  Aspects = {"schema", "http", "iterator"}
  Classes <- ThreeClasses
  Programs <- Declarations
  NameOf <- Named
  Props = {"p", "q"}
  Kinds = {"query"}
  MaxDecorators = 3
  Posts = {"r1"}
  Uploads <- Multipart
  MaxFiles = 2
  Oversized = {"large"}
  Unsafe = {"proto"}
  MaxDepth = 3
  MaxChunks = 1
  Null = "null"
  Text = "text"
  Trigs = {t1, t2}
  MaxQueue = 2
  MaxMessages = 4
  MaxNext = 3
  MaxReturn = 1
  IdleTimeout = TRUE
SPECIFICATION FairSpec
CHECK_DEADLOCK FALSE
INVARIANT SchemaFaithful
INVARIANT RequestsServed
INVARIANT DeliveredInOrder
INVARIANT NothingLeaked
PROPERTY EngineSpec
PROPERTY EverythingSettles
