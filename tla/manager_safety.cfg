\* One app, two request threads, three processes in a row; the server
\* dies at any point or any access to the table fails.  The removal of an
\* ingress file or of a directory may always fail.
CONSTANTS
    Apps = {a1}
    Threads = {t1, t2}
    Procs = {i1, i2, i3}
    Pids = {p1, p2, p3}
    Configs = {}
    Calls <- MixedCalls
    PidReuse = FALSE
    MaxCrashes = 1
    MaxFaults = 1
    NoRecord = NoRecord
    NoPid = NoPid
    NoConfig = NoConfig
    NoProc = NoProc
    Free = Free
SPECIFICATION Spec
SYMMETRY Symmetry
INVARIANTS
    TypeOK
    IInv
    SingleInstance
    LiveIsRecorded
    RunningIsAttended
    IngressHasRecord
PROPERTY StoppedOrDeletedIsFinal
CONSTRAINT OneMishap
