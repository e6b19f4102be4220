--------------------------- MODULE MCMemoryStore ---------------------------
(* Instances of MemoryStore for TLC.                                       *)
EXTENDS MemoryStore, TLC

CONSTANTS t1, t2, m1, m2, m3, ann, ben, w1

\* Two exchanges of two members of one workspace; the first yields up to two
\* facts.
MCTaskOf == m1 :> t1 @@ m2 :> t1 @@ m3 :> t2
MCUserOf == t1 :> ann @@ t2 :> ben
MCWorkspaceOf == t1 :> w1 @@ t2 :> w1
=============================================================================
