----------------------------- MODULE MCWorkspaces -----------------------------
(* Instances of Workspaces for TLC.                                        *)
EXTENDS Workspaces, TLC

CONSTANTS ann, ben, cat, w1, w2, r1, r2

\* The founder is told apart, the other members and the requests are not.
CallSymmetry == Permutations(Users \ {Founder}) \cup Permutations(Requests)
=============================================================================
