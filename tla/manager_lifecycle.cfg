\* Two threads, two processes: a late exit report meets the next start.
CONSTANTS
    Apps = {a1}
    Threads = {t1, t2}
    Procs = {i1, i2}
    Pids = {p1, p2}
    Configs = {}
    Calls <- PlainCalls
    PidReuse = FALSE
    MaxCrashes = 0
    MaxFaults = 0
    NoRecord = NoRecord
    NoPid = NoPid
    NoConfig = NoConfig
    NoProc = NoProc
    Free = Free
SPECIFICATION FairSpec
INVARIANT RowInv
PROPERTIES
    ImplementsLifecycle
    SettlesEventually
    ExitIsRecorded
    RequestsReturn
CONSTRAINT NotExposed
