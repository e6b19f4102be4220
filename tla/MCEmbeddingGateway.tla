-------------------------- MODULE MCEmbeddingGateway --------------------------
\* Four texts with three keys, and four batches: one that repeats a key, one
\* that is larger than the cache, and two that overlap with both.
EXTENDS EmbeddingGateway, TLC

CONSTANTS a, spacedA, b, c, r1, r2, r3, r4

StrippedKey == a :> "a" @@ spacedA :> "a" @@ b :> "b" @@ c :> "c"

Batches == r1 :> <<a, b>> @@ r2 :> <<c, spacedA, b>> @@ r3 :> <<spacedA, a>> @@ r4 :> <<b>>

=============================================================================
