SPECIFICATION Spec
CONSTANTS
    a = a
    copyOfA = copyOfA
    b = b
    c = c
    big = big
    alien = alien
    w1 = w1
    w2 = w2
    red = red
    blue = blue
    NoPage = NoPage
    NoFilter = NoFilter
    Chunks <- AllChunks
    WorkspaceOf <- Workspaces
    KeyOf <- Keys
    Length <- Lengths
    PageOf <- Pages
    TagOf <- Tags
    IndexOf <- Indexes
    Score <- Scores
    Informative <- Useful
    Questions <- Asked
    OverFetch = 2
    MaxContext = 24
    Production = FALSE
INVARIANTS
    WorkspaceIsolation
    ContextIsLongestFit
    CitationsReachContext
CHECK_DEADLOCK FALSE
