\* Development mode, three uploads to one workspace that may hold one document
\* or, when its settings are changed, two.
SPECIFICATION Spec
CONSTANTS
    d1 = d1
    d2 = d2
    d3 = d3
    w1 = w1
    w2 = w2
    Docs = {d1, d2, d3}
    Workspaces = {w1}
    Home <- OneWorkspace
    MaxDocuments = 1
    NewLimits = {2}
    Workers = 2
    PoolSize = 1
    IsProduction = FALSE
SYMMETRY DocSymmetry

INVARIANTS
    QuotaOvershootBounded
    PurgeOnlyRacesIndexing

\* Every request of the model ends, and then nothing is left to do.
CHECK_DEADLOCK FALSE
