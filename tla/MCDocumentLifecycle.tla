------------------------ MODULE MCDocumentLifecycle ------------------------
(* Instances of DocumentLifecycle for TLC.                                 *)
EXTENDS DocumentLifecycle, TLC

CONSTANTS d1, d2, d3, w1, w2

\* Three uploads to one workspace: two, of two workers with a connection each,
\* can be past the quota check while the third waits for a connection.
OneWorkspace == d1 :> w1 @@ d2 :> w1 @@ d3 :> w1

\* Two uploads to workspaces of their own.
TwoWorkspaces == d1 :> w1 @@ d2 :> w2

\* The uploads to one workspace are interchangeable.
DocSymmetry == Permutations(Docs)
=============================================================================
