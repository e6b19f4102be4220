---------------------------- MODULE RateLimiter ----------------------------
(***************************************************************************)
(* The sliding-window rate limiter of middleware/rate_limit.py.            *)
(*                                                                         *)
(* RateLimitMiddleware.dispatch derives a key from the headers of a        *)
(* request and asks RateLimiter.is_allowed.  is_allowed awaits nothing, so *)
(* on the event loop a request is checked and counted in one step.         *)
(* Requests for the whitelisted paths never reach it and change nothing.   *)
(*                                                                         *)
(* The dictionary of timestamps lives in a process, and the deployment     *)
(* runs several worker processes behind one port (docker-compose.prod.yml, *)
(* uvicorn --workers 4): which of them answers a request is not the        *)
(* client's choice.  A bucket is the list one process keeps for one key.   *)
(* A worker that replaces a stopped one is a process of its own, whose     *)
(* lists start empty.                                                      *)
(*                                                                         *)
(* The list of timestamps in a bucket is represented by the admissions of  *)
(* the bucket (a history the code does not keep) and the positions of      *)
(* those still in the list.  Time is counted in ticks that                 *)
(* round(retry_after, 1) leaves exact; the processes share one clock,      *)
(* which is taken not to go back.                                          *)
(***************************************************************************)
EXTENDS Naturals, Sequences, FiniteSets

CONSTANTS
    Processes,       \* worker processes, with those that replace a stopped one
    Clients,         \* callers of the API
    ApiKey,          \* ApiKey[c]: the X-API-Key header of c, or NoHeader
    Authorization,   \* Authorization[c]: that header of c, or NoHeader
    Prefix,          \* Prefix[h]: the first 32 characters of header h
    Address,         \* Address[c]: the IP address of c
    NoHeader,
    Limit,           \* requests_per_minute
    WindowSeconds,   \* window_seconds
    Second,          \* ticks per second
    MaxTime          \* bound of the clock

ASSUME LimiterAssumption ==
    /\ IsFiniteSet(Processes)
    /\ Limit \in Nat \ {0}
    /\ WindowSeconds \in Nat \ {0}
    /\ Second \in Nat \ {0}
    /\ MaxTime \in Nat \ {0}

Window == WindowSeconds * Second

\* client_key: the API key, else the start of the Authorization header, else
\* the address.
ClientKey(c) ==
    IF ApiKey[c] # NoHeader THEN ApiKey[c]
    ELSE IF Authorization[c] # NoHeader THEN Prefix[Authorization[c]]
    ELSE Address[c]

Keys == {ClientKey(c) : c \in Clients}

\* The timestamp lists: RateLimiter._clients of every process.
Buckets == Processes \X Keys

\* The list that process p consults for a request of client c.
Bucket(p, c) == <<p, ClientKey(c)>>

VARIABLES
    now,         \* time.time()
    admissions,  \* history: admissions[b], when requests were admitted in b
    kept,        \* kept[b]: the positions in admissions[b] still in the list
    due,         \* history: due[b], when the last refusal in bucket b told the
                 \* client to come back, 0 if a request was admitted since
    answer       \* history: the answer to the last request, and who gave it

vars == <<now, admissions, kept, due, answer>>

Answer   == [from : Processes, by : Clients, at : Nat, status : {200, 429},
             remaining : Nat, due : Nat]
NoAnswer == [status |-> 0]

TypeOK ==
    /\ now \in Nat
    /\ admissions \in [Buckets -> Seq(Nat)]
    /\ kept \in [Buckets -> SUBSET Nat]
    /\ \A b \in Buckets : kept[b] \subseteq 1..Len(admissions[b])
    /\ due \in [Buckets -> Nat]
    /\ answer \in Answer \cup {NoAnswer}

Init ==
    /\ now = 1
    /\ admissions = [b \in Buckets |-> <<>>]
    /\ kept = [b \in Buckets |-> {}]
    /\ due = [b \in Buckets |-> 0]
    /\ answer = NoAnswer

\* Mutant of Fresh: the window is closed at its start.
FreshClosed(b) == {i \in kept[b] : admissions[b][i] + Window >= now}

\* The timestamps of bucket b that the window starting at now - Window leaves
\* in the list.
Fresh(b) == {i \in kept[b] : admissions[b][i] + Window > now}

\* timestamps[0], the head of the list.
Oldest(b) == admissions[b][CHOOSE i \in Fresh(b) : \A j \in Fresh(b) : i <= j]

\* Mutant of RetryAfter: the window is not added to the oldest timestamp.
RetryAfterNoWindow(b) ==
    LET wait == Oldest(b) - now
    IN  IF wait < Second THEN 1 ELSE wait \div Second

\* int(round(max(1.0, oldest + window - now), 1)), as sent in Retry-After.
RetryAfter(b) ==
    LET wait == Oldest(b) + Window - now
    IN  IF wait < Second THEN 1 ELSE wait \div Second

\* Mutant of Admit: one request too many.
AdmitOneMore(p, c) ==
    LET b == Bucket(p, c) IN
    /\ Cardinality(Fresh(b)) <= Limit
    /\ admissions' = [admissions EXCEPT ![b] = Append(@, now)]
    /\ kept' = [kept EXCEPT ![b] = Fresh(b) \cup {Len(admissions[b]) + 1}]
    /\ due' = [due EXCEPT ![b] = 0]
    /\ answer' = [from |-> p, by |-> c, at |-> now, status |-> 200,
                  remaining |-> 0, due |-> due[b]]
    /\ UNCHANGED now

\* A request within the limit is recorded and passed on.
Admit(p, c) ==
    LET b == Bucket(p, c) IN
    /\ Cardinality(Fresh(b)) < Limit
    /\ admissions' = [admissions EXCEPT ![b] = Append(@, now)]
    /\ kept' = [kept EXCEPT ![b] = Fresh(b) \cup {Len(admissions[b]) + 1}]
    /\ due' = [due EXCEPT ![b] = 0]
    /\ answer' = [from |-> p, by |-> c, at |-> now, status |-> 200,
                  remaining |-> Limit - (Cardinality(Fresh(b)) + 1), due |-> due[b]]
    /\ UNCHANGED now

\* A request over the limit is answered 429 and not recorded.
Refuse(p, c) ==
    LET b == Bucket(p, c) IN
    /\ Cardinality(Fresh(b)) >= Limit
    /\ kept' = [kept EXCEPT ![b] = Fresh(b)]
    /\ due' = [due EXCEPT ![b] = now + RetryAfter(b) * Second]
    /\ answer' = [from |-> p, by |-> c, at |-> now, status |-> 429,
                  remaining |-> 0, due |-> due[b]]
    /\ UNCHANGED <<now, admissions>>

\* Time passes between requests, by any amount.
Tick ==
    /\ now' \in (now + 1)..MaxTime
    /\ UNCHANGED <<admissions, kept, due, answer>>

Next == Tick \/ \E p \in Processes, c \in Clients : Admit(p, c) \/ Refuse(p, c)

Spec == Init /\ [][Next]_vars

-----------------------------------------------------------------------------
(***************************************************************************)
(* Safety                                                                  *)
(***************************************************************************)

\* The admissions of bucket b in the window_seconds that start at time t.
Served(b, t) ==
    {i \in 1..Len(admissions[b]) : t <= admissions[b][i] /\ admissions[b][i] < t + Window}

\* The processes that admitted a request under key k in that interval, and what
\* the service as a whole admitted under k.
Serving(k, t)  == {p \in Processes : Served(<<p, k>>, t) # {}}
Admitted(k, t) == UNION {{p} \X Served(<<p, k>>, t) : p \in Processes}

\* The limit, wherever the interval of window_seconds starts: one process admits
\* at most requests_per_minute requests under a key, so the service admits at
\* most that many for every process that took part. (docs/optimization.md:113
\* gives the limit of one process as the limit of a client.)
WindowBound ==
    \A k \in Keys, t \in 0..now :
        /\ \A p \in Processes : Cardinality(Served(<<p, k>>, t)) <= Limit
        /\ Cardinality(Admitted(k, t)) <= Limit * Cardinality(Serving(k, t))

\* The admissions in bucket b in the window that ends at time t.
InWindow(b, t) == {i \in 1..Len(admissions[b]) : admissions[b][i] + Window > t}

\* The answer is exact for the process that gives it: a request is refused only
\* when the window of that process really holds Limit admissions (refused
\* requests are not held against the client), and X-RateLimit-Remaining is what
\* is left of that window.
AnswerMatchesWindow ==
    answer # NoAnswer =>
        LET used == Cardinality(InWindow(Bucket(answer.from, answer.by), answer.at)) IN
        /\ answer.status = 429 => used = Limit
        /\ answer.status = 200 => used + answer.remaining = Limit

\* A client that waits a second longer than the Retry-After of a process said is
\* not refused by that process again, unless somebody was admitted by it under
\* the same key in between.
RetryWithinASecond ==
    answer # NoAnswer =>
        (answer.status = 429 /\ answer.due # 0 => answer.at < answer.due + Second)
=============================================================================
