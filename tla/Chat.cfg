SPECIFICATION Spec
CONSTANTS
    q1 = q1
    q2 = q2
    c1 = c1
    Requests = {q1, q2}
    Conversations = {c1}
    ConversationOf <- TwoInOne
    HistoryLimit = 2
    MaxDeltas = 2
INVARIANTS
    SavedCoversDelivered
    ReadsInOrder
    QuestionReachesModel
    DeletedIsEmpty
PROPERTIES
    StreamsEnd
