\* Production, where a failing Qdrant raises, and development, where it is passed over.
SPECIFICATION Spec
CONSTANTS
    t1 = t1
    t2 = t2
    m1 = m1
    m2 = m2
    m3 = m3
    ann = ann
    ben = ben
    w1 = w1
    NoMemory = NoMemory
    Tasks = {t1, t2}
    Memories = {m1, m2, m3}
    Users = {ann, ben}
    Workspaces = {w1}
    TaskOf <- MCTaskOf
    UserOf <- MCUserOf
    WorkspaceOf <- MCWorkspaceOf

INVARIANTS
    ExchangeIsAtomic
    RowIsSearchable
    PurgeIsFinal
    OrphansAccountedFor

\* Every task and request of the model ends.
CHECK_DEADLOCK FALSE
