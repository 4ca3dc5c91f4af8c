\* Two threads compete for the mutex; loads and writes fail, rows are missed.
CONSTANTS
    Apps = {a1}
    Threads = {t1, t2}
    Keys = {k1}
    Values = {v1}
    PartialLoads = TRUE
    Absent = Absent
    Free = Free
SPECIFICATION FairSpec
PROPERTY CallsReturn
