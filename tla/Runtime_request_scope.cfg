CONSTANTS
  Parts = {"http"}
  Requests = {"r1", "r2"}
  Routes <- Considered
  FilterKinds <- Catching
  MaxFilters = 2
  Bodies <- Posted
  Emitters = {"core", "package"}
  Handlers = {"h1", "h2"}
  Event <- Name
  Patterns <- Registered
  MaxRegs = 2
  Emissions = {"e1", "e2"}
  Ids = {"t1", "t2", "t3"}
  MaxTasks = 2
  MaxRuns = 2
  Readers = {"q1", "q2"}
  Visits <- MCVisits
  Stores <- MCStores
  DefaultSize = 2
  Unset = Unset
  MaxLookups = 5
  Names = {"mail", "sms"}
  Shutdowns = {"s1", "s2"}
  MaxClients = 2
  Strategies = {"jwt", "local", "key"}
  Unnamed = {"key"}
  Setups <- Restarts
  Attempts = {"a1", "a2"}
  Guards <- Types
  Writers = {"Logger", "orders"}
  Contexts <- Named
  Entries <- Logged
  Replacements <- Overrides
  MaxBuffer = 2
  MaxLogged = 3
  MaxReplaced = 2
SPECIFICATION Spec
CHECK_DEADLOCK FALSE
INVARIANT RequestScopeHonoured
