\* Two processes, two clients with one key, two requests per window of six ticks.
SPECIFICATION Spec
CONSTANTS
    p1 = p1
    p2 = p2
    alice = alice
    bob = bob
    aliceToken = aliceToken
    bobToken = bobToken
    jwtHead = jwtHead
    ip1 = ip1
    ip2 = ip2
    NoHeader = NoHeader
    Processes = {p1, p2}
    Clients = {alice, bob}
    ApiKey <- MCApiKey
    Authorization <- MCAuthorization
    Prefix <- JwtPrefix
    Address <- MCAddress
    Limit = 2
    WindowSeconds = 3
    Second = 2
    MaxTime = 8
SYMMETRY ProcessSymmetry

INVARIANTS
    WindowBound
    AnswerMatchesWindow
    RetryWithinASecond
