\* Two new databases, two requests at a time; no statement on the maps fails.
CONSTANTS
    Apps = {a1}
    Databases = {d1, d2}
    Users = {}
    Existing = {}
    Threads = {t1, t2}
    Secrets = {s1, s2}
    Known = Known
    Wrong = Wrong
    Inputs = {}
    Requests <- PlainRequests
    Faults = FALSE
    None = None
SPECIFICATION Spec
PROPERTY BoundIsReused
