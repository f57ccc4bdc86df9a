CONSTANTS
  single = single
  tagged = tagged
  batch = batch
  rpc1 = rpc1
  rpc2 = rpc2
  rpc3 = rpc3
  request1 = request1
  request2 = request2
  e1 = e1
  e2 = e2
  e3 = e3
  Handlers = {single, tagged, batch, rpc1, rpc2, rpc3}
  Kind <- Kinds
  Queue <- Queues
  FixedTag = {tagged}
  Differing = {rpc3}
  Apps <- Small
  MaxChannels = 2
  Requests = {request1, request2}
  Events = {e1, e2, e3}
  To <- Routes
  Key <- RoutingKey
  Pattern <- Bindings
  Words = {"a", "b"}
  MaxWords = 3
  BatchSize = 2
  Prefetch = 2
  NoAnswer = NoAnswer
SPECIFICATION FairSpec
CHECK_DEADLOCK FALSE
INVARIANT RegistryInStep
INVARIANT MessagesAccounted
PROPERTY RpcPromise
PROPERTY CloseDrains
