\* Two requests of any three users to a workspace that exists and one that may be made.
SPECIFICATION Spec
CONSTANTS
    ann = ann
    ben = ben
    cat = cat
    w1 = w1
    w2 = w2
    r1 = r1
    r2 = r2
    Users = {ann, ben, cat}
    Founder = ann
    Spaces = {w1, w2}
    First = w1
    Requests = {r1, r2}
    Nothing = Nothing
SYMMETRY CallSymmetry
INVARIANTS
    AuditMatchesAnswers
    DeletedSpaceIsEmpty
PROPERTIES
    ChangesWereAuthorised
    OnlyOverlappingWritesAreLost
\* Every request is served once, and then nothing is left to do.
CHECK_DEADLOCK FALSE
