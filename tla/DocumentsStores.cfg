\* Production mode, two uploads to two workspaces.
SPECIFICATION Spec
CONSTANTS
    d1 = d1
    d2 = d2
    d3 = d3
    w1 = w1
    w2 = w2
    Docs = {d1, d2}
    Workspaces = {w1, w2}
    Home <- TwoWorkspaces
    MaxDocuments = 1
    NewLimits = {}
    Workers = 2
    PoolSize = 1
    IsProduction = TRUE

INVARIANTS
    NoPartialContent
    UnsettledOnlyInFlight
    AnsweredIsIndexed

PROPERTIES
    AnswersMatchStore
    UploadsAreAnswered

\* Every request of the model ends, and then nothing is left to do.
CHECK_DEADLOCK FALSE
