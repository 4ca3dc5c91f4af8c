\* Two apps, two processes, a handler that saves stale rows of one of the
\* apps, a server that dies or a statement that fails.
CONSTANTS
    Apps = {a1, a2}
    Threads = {t1}
    Procs = {i1, i2}
    Pids = {p1, p2}
    Handlers = {h1}
    ConfigKeys = {}
    Configs <- AllConfigs
    Calls <- PathCalls
    Changes <- RendersOfOne
    PidReuse = FALSE
    MaxCrashes = 1
    MaxFaults = 1
    NoRecord = NoRecord
    NoPid = NoPid
    NoConfig = NoConfig
    NoProc = NoProc
    Free = Free
SPECIFICATION ApiSpec
SYMMETRY Symmetry
INVARIANT ApiIInv
PROPERTY
    OwnProcessSignalled
CONSTRAINT OneMishap
