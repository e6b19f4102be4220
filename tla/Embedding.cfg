SPECIFICATION Spec
CONSTANTS
    a = a
    spacedA = spacedA
    b = b
    c = c
    r1 = r1
    r2 = r2
    r3 = r3
    r4 = r4
    Texts = {a, spacedA, b, c}
    Requests = {r1, r2, r3, r4}
    KeyOf <- StrippedKey
    BatchOf <- Batches
    Capacity = 2
    RetryLimit = 1
    NoVector = NoVector
INVARIANTS
    KeepsMostRecent
    EntriesFitTheirKeys
PROPERTIES
    ImplementsEmbedding
    EveryBatchEnds
CHECK_DEADLOCK FALSE
