\* One app, one thread, one handler, two processes.
CONSTANTS
    Apps = {a1}
    Threads = {t1}
    Procs = {i1, i2}
    Pids = {p1, p2}
    Handlers = {h1}
    ConfigKeys = {}
    Configs <- AllConfigs
    Calls <- AllCalls
    Changes <- EachButRender
    PidReuse = FALSE
    MaxCrashes = 0
    MaxFaults = 0
    NoRecord = NoRecord
    NoPid = NoPid
    NoConfig = NoConfig
    NoProc = NoProc
    Free = Free
SPECIFICATION ApiSpec
SYMMETRY Symmetry
INVARIANT
    ApiIInv
    SavesKeepLifecycle
CONSTRAINT OnlyClean
