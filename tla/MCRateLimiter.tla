--------------------------- MODULE MCRateLimiter ---------------------------
(* Instances of RateLimiter for TLC.                                       *)
EXTENDS RateLimiter, TLC

CONSTANTS p1, p2,             \* two worker processes
          alice, bob,         \* two users with a token each
          aliceToken, bobToken, jwtHead, ip1, ip2

MCApiKey == alice :> NoHeader @@ bob :> NoHeader

MCAuthorization == alice :> aliceToken @@ bob :> bobToken

\* "Bearer " and the 25 characters after it lie within the header part of a
\* token, which is the same for every token the server signs.
JwtPrefix == aliceToken :> jwtHead @@ bobToken :> jwtHead

MCAddress == alice :> ip1 @@ bob :> ip2

\* The processes are interchangeable.
ProcessSymmetry == Permutations(Processes)
=============================================================================
