\* All conversations of up to three messages; two retries; streams of up to two pieces.
SPECIFICATION LlmSpec
CONSTANTS
    MaxRetries = 2
    MaxMessages = 3
    MaxParts = 2
INVARIANTS
    PayloadKeepsTheConversation
    OnlyTransientFailuresAreRetried
    StreamForwardsOnce
PROPERTIES
    RequestsEnd
\* A request ends and nothing follows it.
CHECK_DEADLOCK FALSE
