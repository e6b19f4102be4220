---------------------------- MODULE EmbeddingSpec ----------------------------
(***************************************************************************)
(* What embed_batch promises its callers, whatever the cache and the other *)
(* batches do: a batch is answered once, for good, and with a vector of    *)
(* the right text in every place, or with an error.                        *)
(***************************************************************************)
EXTENDS Sequences, Naturals

CONSTANTS
    Requests,
    Texts,
    KeyOf,        \* KeyOf[x]: the cache key of text x
    BatchOf,      \* BatchOf[r]: the texts of request r
    NoVector      \* the [] of a text the provider gave no vector for

VARIABLES
    state,        \* state[r] \in {"pending", "answered", "error"}
    vectors       \* vectors[r]: the list that was returned

vars == <<state, vectors>>

\* A vector is named by the text it was computed from. The texts of one key
\* differ in surrounding white space only, and stand for each other.
FitsText(v, x) == v = NoVector \/ (v \in Texts /\ KeyOf[v] = KeyOf[x])

Fits(vs, xs) ==
    /\ Len(vs) = Len(xs)
    /\ \A i \in 1..Len(xs) : FitsText(vs[i], xs[i])

Init ==
    /\ state = [r \in Requests |-> "pending"]
    /\ vectors = [r \in Requests |-> <<>>]

Return(r) ==
    /\ state[r] = "pending"
    /\ state' = [state EXCEPT ![r] = "answered"]
    /\ Fits(vectors'[r], BatchOf[r])
    /\ \A q \in Requests \ {r} : vectors'[q] = vectors[q]

Raise(r) ==
    /\ state[r] = "pending"
    /\ state' = [state EXCEPT ![r] = "error"]
    /\ UNCHANGED vectors

Next == \E r \in Requests : Return(r) \/ Raise(r)

SafeSpec == Init /\ [][Next]_vars
=============================================================================
