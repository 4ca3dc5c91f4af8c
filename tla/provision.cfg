\* Two databases, one of which exists while the other's user may be left
\* over, and a Redis user; two requests at a time; any statement may fail and
\* the server may die, within the bounds of FewSecrets.
CONSTANTS
    Apps = {a1}
    Databases = {d1, d2}
    Users = {u1}
    Existing = {d2}
    Threads = {t1, t2}
    Secrets = {s1, s2}
    Known = Known
    Wrong = Wrong
    Inputs = {Known, Wrong}
    Requests <- MixedRequests
    Faults = TRUE
    None = None
SPECIFICATION Spec
CONSTRAINT FewSecrets
SYMMETRY Symmetry
INVARIANTS
    CredentialsWork
    CreatedIsStored
    IInv
PROPERTY BindIsRepeatable
