\* One app, one request thread, two processes in a row, two connections,
\* two updates of the configuration; the server dies or a statement fails.
CONSTANTS
    Apps = {a1}
    Threads = {t1}
    Procs = {i1, i2}
    Pids = {p1, p2}
    Configs = {}
    Calls <- StartStop
    PidReuse = FALSE
    MaxCrashes = 1
    MaxFaults = 1
    Forms <- SomeForms
    Conns = {c1, c2}
    MaxUpdates = 2
    NoRecord = NoRecord
    NoPid = NoPid
    NoConfig = NoConfig
    NoProc = NoProc
    Free = Free
    NoApp = NoApp
    NoConn = NoConn
    NoReport = NoReport
SPECIFICATION CenterSpec
SYMMETRY Symmetry
INVARIANTS
    CenterIInv
    ReportsKeepLifecycle
    ActiveIsServed
    ConnectedIsListed
    NoUpdateMissed
CONSTRAINT OnlyTimely
