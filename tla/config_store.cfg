\* Two threads, two apps, two keys, any number of restarts.
CONSTANTS
    Apps = {a1, a2}
    Threads = {t1, t2}
    Keys = {k1, k2}
    Values = {v1}
    PartialLoads = FALSE
    Absent = Absent
    Free = Free
SPECIFICATION Spec
SYMMETRY Symmetry
INVARIANTS
    CacheCoherent
    IInv
PROPERTY ImplementsStore
