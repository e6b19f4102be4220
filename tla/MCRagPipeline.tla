----------------------------- MODULE MCRagPipeline -----------------------------
\* Five chunks of one workspace and one of another. a and copyOfA begin with the
\* same words; big does not fit the budget of 24 by itself, a and b fit with
\* one line break to spare, b and c do only without it.
EXTENDS RagPipeline, TLC

CONSTANTS a, copyOfA, b, c, big, alien, w1, w2, red, blue

AllChunks == {a, copyOfA, b, c, big, alien}

Workspaces == [x \in AllChunks |-> IF x = alien THEN w2 ELSE w1]
Keys    == [x \in AllChunks |-> IF x = copyOfA THEN a ELSE x]
Lengths == a :> 10 @@ copyOfA :> 9 @@ b :> 11 @@ c :> 11 @@ big :> 30 @@ alien :> 5
Pages   == a :> 1 @@ copyOfA :> 1 @@ b :> 1 @@ c :> 2 @@ big :> 2 @@ alien :> 1
Tags    == [x \in AllChunks |-> IF x \in {a, c} THEN red ELSE blue]
Indexes == a :> 0 @@ copyOfA :> 0 @@ b :> 1 @@ c :> 1 @@ big :> 2 @@ alien :> 0
Scores  == a :> 2 @@ copyOfA :> 2 @@ b :> 1 @@ c :> 3 @@ big :> 0 @@ alien :> 4
Useful  == AllChunks \ {b}

Asked == [workspace : {w1}, topK : {1, 3}, page : {NoPage, 1}, filter : {NoFilter, red},
          greeting : {FALSE}]
         \cup {[workspace |-> w1, topK |-> 3, page |-> NoPage, filter |-> NoFilter, greeting |-> TRUE]}

=============================================================================
