SPECIFICATION FairSpec
CONSTANTS
    Scenes = {"modules", "packages", "handlers", "hooks", "testing", "transports", "errors"}
    Root = Root
    ma = ma
    mb = mb
    mc = mc
    ta = ta
    tb = tb
    qa = qa
    qb = qb
    qc = qc
    Controllers = {qa, qb, qc}
    None = None
    Modules = {Root, ma, mb, mc}
    Tokens = {ta, tb}
    Graphs <- MCGraphs
    Programs <- MCPrograms
    Places = {"root", "global", "nowhere"}
    Order <- MCOrder
    Values = {pv}
    Transports <- MCTransports
    Closers = {c1, c2, c3}
    MaxApps = 2
    OneAtATime = TRUE
    pa = pa
    pv = pv
    pb = pb
    Kin <- MCKin
    Hierarchies <- MCHierarchies
    Names = {"m", "n"}
    Families = {"event", "worker", "process", "job", "hook", "file", "route", "param", "rabbit", "pattern", "gateway"}
    Contents <- MCContents
    Benches <- MCBenches
    Mocks <- MCMocks
    Cleaners = {x1, x2}
    x1 = x1
    x2 = x2
    MaxOverrides = 2
    Kinds = {"tcp", "redis", "custom"}
    MaxServers = 2
    Starters = {s1, s2}
    Stoppers = {c1}
    s1 = s1
    s2 = s2
    Reactions = {"skips", "passes", "answers", "throws", "unknown"}
    MaxGlobal = 2
    Webs = {1, 2}
    Faults = {r1}
    r1 = r1
    Causes = {"error", "exception", "missing"}
INVARIANT RootLast
INVARIANT FailsFast
INVARIANT SharesInstances
INVARIANT HandlersRegistered
INVARIANT GracefulStop
INVARIANT EveryHookFires
PROPERTY EverythingSettles
CHECK_DEADLOCK FALSE
