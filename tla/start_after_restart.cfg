\* A restart of the server between an exit and its record.
CONSTANTS
    Apps = {a1}
    Threads = {t1}
    Procs = {i1, i2}
    Pids = {p1, p2}
    Configs = {}
    Calls <- PlainCalls
    PidReuse = FALSE
    MaxCrashes = 1
    MaxFaults = 0
    NoRecord = NoRecord
    NoPid = NoPid
    NoConfig = NoConfig
    NoProc = NoProc
    Free = Free
SPECIFICATION Spec
PROPERTY StartedMeansProcess
