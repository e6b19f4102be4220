# A verification project for AURENIX AI

TLA+ models of the backend of AURENIX AI, the TLC configurations that check
them on small instances, and theorems about them that TLAPS proves for every
value of the constants. File references are relative to the root of the
repository; `app/` stands for `backend/app/`.

The repository is a FastAPI service over PostgreSQL (SQLite in development),
Qdrant and external model providers, with a Next.js front end. Development runs
one process; production runs four behind one port (`docker-compose.prod.yml:55`,
`uvicorn --workers 4`). In a process, code between two `await`s is atomic on its
event loop, and every `await` is a place where another request runs, where a
store may fail, where the client may go away, and where the process may stop.
Nothing spans two stores atomically. This is what the models are about.

The workers share PostgreSQL and Qdrant and nothing else. Three things exist once
per worker, and so four times in production:

| in each worker | where | in the models |
|---|---|---|
| the pool of SQL connections | `app/database.py:72` | `Workers * PoolSize` connections in `DocumentLifecycle` |
| the time stamps of the rate limiter | `app/middleware/rate_limit.py:30` | one list for each process and key in `RateLimiter` |
| the embedding cache | `app/services/embeddings/cache.py` | `EmbeddingGateway` is one worker; the caches never meet |

Which worker runs a request makes no other difference: the other modules
interleave requests at their database and network calls, whatever process they
are in, and lose requests one by one when a process stops.

## 1. Inventory

| component | state it keeps | operations | modelled in |
|---|---|---|---|
| Documents: `app/routes/documents.py`, `app/services/ingestion` | rows of `documents` and `document_chunks`, raw files, Qdrant points | upload, delete; `delete_workspace` from `routes/workspaces.py` | `DocumentLifecycle` |
| Vector store: `app/services/vector_store` | the two Qdrant collections | upsert, purge, search | `DocumentLifecycle`, `MemoryStore`, `RagPipeline` |
| Chat: `app/routes/conversations.py`, `app/services/chat` | rows of `conversations` and `messages`, one open stream per request | send a message, delete a conversation | `ChatStream` |
| Memory: `app/services/memory` | rows of `semantic_memories`, Qdrant points, background tasks | extract, delete, read for a prompt | `MemoryStore` |
| RAG: `app/services/rag` | none beyond a request | answer a question | `RagPipeline` |
| Embeddings: `app/services/embeddings` | one LRU cache for each process | embed a batch, embed a text | `EmbeddingGateway`, `EmbeddingSpec` |
| Agents: `app/services/agents` | the LangGraph state of a query | plan, retrieve, research, call a tool, judge, answer | `AgentGraph` |
| Rate limiting: `app/middleware/rate_limit.py` | time stamps per process and client key | admit or refuse | `RateLimiter` |
| Workspaces, members, API keys, audit log: `app/routes/workspaces.py`, `api_keys.py`, `audit.py`, `app/dependencies.py`, `app/services/audit` | `workspaces`, `workspace_members`, `api_keys`, `audit_logs`, settings JSON | every endpoint: create, list, get, update, delete, change a role, remove a member, settings, keys, the log | `Workspaces` |
| Accounts: `app/routes/auth.py`, `app/services/auth.py`; `auth-provider.tsx`, `lib/api.ts` and the login and register pages of `frontend/src` | `users`; token and user in the browser | register, log in, current user, log out, the check of a loaded page | `Accounts` |
| LLM gateway: `app/services/llm`; `app/routes/chat.py` | the HTTP client of a call | complete, structured, stream, with retries | `LlmGateway` |
| MCP: `app/services/mcp` | connected servers and their tools | connect, list, call | not modelled |
| Ingestion algorithms: `app/services/ingestion/chunker.py`, parsers | none | split a text | not modelled |
| Front end, but for the session: `frontend/src` | conversation shown, messages, workspace | chat, upload, switch | not modelled |
| Evaluation: `evaluation` | none | metrics over lists | not modelled |
| Analytics, health, configuration, logging, errors, migrations | plain rows or none | single statements | not modelled |

How they interact. A chat request commits the question, reads the history,
retrieves (embedding cache, then Qdrant, then the chunk rows), reads the
memories, streams the model, saves the answer and starts a memory task that
outlives it. An upload checks the quota, writes the file, commits three times
and then embeds and indexes. Deleting a workspace removes the rows of all of
them and then purges both collections. `get_db` (`app/database.py`) gives each
request one session, commits after the handler and rolls back on an exception.

What is hard here, by component, and the property that makes it right:

- **Documents**: the quota is read, compared and used in different transactions,
  in several workers, while settings change it (`QuotaOvershootBounded`); a stop, a
  failing commit or an error handler that itself raises between three commits
  (`NoPartialContent`, `UnsettledOnlyInFlight`); a deletion of the
  document or its workspace under a running upload (`PurgeOnlyRacesIndexing`,
  `AnswersMatchStore`, and the theorem `StatusMovesForward`); two stores written in
  sequence (`AnsweredIsIndexed`, and the theorem `VectorsFollowCommit`).
- **Chat**: a stream may end in the model, at a yield or inside an await
  (`SavedCoversDelivered`, `StreamsEnd`); overlapping requests, and time stamps
  taken at the start of transactions that stay open during a whole stream
  (`ReadsInOrder`, `QuestionReachesModel`); a deletion during a stream
  (`DeletedIsEmpty`); a task started by the save
  (`SavedCoversDelivered`).
- **Memory**: points written while the transaction of their rows is open
  (`RowIsSearchable`, `ExchangeIsAtomic`, `OrphansAccountedFor`); deletions and
  purges beside it (`PurgeIsFinal`, and the theorem `DeletedStaysDeleted`).
- **RAG**: three ways of retrieving with conditions of their own
  (`WorkspaceIsolation`); one loop that drops repetitions, numbers and cuts
  (`ContextIsLongestFit`, and the theorem `GroundedHasContext`), and a second
  pass that numbers again (`CitationsReachContext`).
- **Embeddings**: hits read before and merged after a call, while others evict
  them (`ImplementsEmbedding`, `EntriesFitTheirKeys`); a cache at its limit
  (`KeepsMostRecent`); a retry loop with three exits
  (`EveryBatchEnds`).
- **Agents**: a pending tool call and an approval in the state together
  (`AnswerUsesAllEvidence`, and the theorem `NoToolCallDropped`); an approval older than the
  analysis (`AnswerWasJudged`); a bound on rejections that is
  never reached (`RejectionsBounded`).
- **Rate limiter**: the ends of a sliding window, kept by each process for itself
  (`WindowBound`, `AnswerMatchesWindow`), and a rounded waiting time (`RetryWithinASecond`).
- **Workspaces**: roles and rows are read before a write that happens
  transactions later (`ChangesWereAuthorised`); a workspace deleted under a
  request (`DeletedSpaceIsEmpty`); the change and its audit entry in two commits
  (`AuditMatchesAnswers`); one JSON column read, changed and written whole
  (`OnlyOverlappingWritesAreLost`).
- **Accounts**: a SELECT and an INSERT that two registrations interleave
  (`OneAccountPerAddress`); answers for an earlier token that arrive after a
  login or a logout (`OnlyLateAnswersMisidentify`, `SignedOutForACause`).
- **LLM gateway**: one attempt counter raised in two branches
  (`OnlyTransientFailuresAreRetried`); a stream that breaks after part of it was
  forwarded (`StreamForwardsOnce`); a requester that leaves while a generator is
  suspended (`RequestsEnd`); two payload formats for one conversation
  (`PayloadKeepsTheConversation`).

`PROJECT.json` lists each hazard with its line.

## 2. Plan

The modules were written in this order: what stores user data through several
stores (documents, chat, memory), what shares state between requests (limiter,
cache), what computes an answer (agents, RAG), who may do what (workspaces with
their keys and audit log, accounts and tokens), and the gateway to the models.

Compositions and refinements: `EmbeddingGateway` implements `EmbeddingSpec`;
`Workspaces` composes the routes of workspaces, members, keys and the audit log
with the dependency that authorises them; `Accounts` composes the server with
the browser. The deletion of a workspace is in `DocumentLifecycle`,
`MemoryStore` and `Workspaces`, each for the rows of its own component.

Worth doing next, the most useful first:

1. The stream handler of `frontend/src/app/chat/page.tsx`, which writes into the
   conversation shown, composed with `ChatStream`.
2. The recursive splitter of `chunker.py` against a reference definition: no
   character lost, no chunk too long, and the overlap that docs/rag.md describes.
3. The registry of MCP tools, and the evaluation metrics.
4. An abstract specification of `build_context` that says what it computes for all
   results at once, with `RagPipeline` shown to implement it.

## 3. The models

Each module opens with the code it stands for, each definition names in
`PROJECT.json` the lines it translates. A definition called "mutant" is a
plausible bug of the definition that follows it; it takes no part in the
specification and is used to see that a property can fail. `AgentGraph` and
`LlmGateway` name their specification `GraphSpec` and `LlmSpec`, and what belongs
to it likewise, so that one module of proofs can extend them and another model.

### DocumentLifecycle
`upload[d]` is the program counter of an upload request, one phase per part
between two awaits that matter: counting (`limit[d]` is read), admitted (the count
is below it), stored (file written), inserted and parsing (the first two commits),
indexing (the document is completed), reading (before the answer). `row`,
`chunks`, `files`, `vectors` are the stores as others see them, that is, as
committed; a flushed and uncommitted row is part of the phase. `CommitFails` is the
rollback of `get_db` at any of the commits, `UploadLost` loses a request with its
process. `UpdateSettings` moves the limit; `highest` is the history of the largest
one. `Connected` counts pooled connections between the first query and the first
commit, which is what bounds the overshoot: there are `Workers * PoolSize` of them.

Two log calls decide how an upload ends. `ingestion/service.py:134` and `:156`
pass `extra={"filename": ...}`; `filename` is an attribute of every log record, and
`Logger.makeRecord` raises `KeyError` for such a key. The call of the except branch
raises at every level that lets errors through, so `ParseFails` leaves the row at
"processing" and answers 500: the status "failed" and the `DocumentError` below it
are never reached and are not in the model. The call after the third commit raises
where INFO is logged (`infoLogged`, as in production): then `Complete` leads to a
500 with the document completed and not indexed. Where only warnings are logged,
as in the tests, it goes on to the indexing.

### ChatStream
One request runs through `send_message` and the generator of
`stream_rag_chat`; `begun` is the start of its open transaction, and `stamp`
the `created_at` a row gets from it. `Disconnect` may happen at each await and
yield; a disconnect cancels the task, and a commit that is awaited in the
`finally` block of a cancelled task is cancelled again, because anyio cancels
a scope at every await. Delivered and accumulated text are counted in deltas.

### MemoryStore
A task flushes a row and writes its point, fact by fact, in one transaction;
`TaskLost` is the stop of its process. `Relevant` is the read for a prompt: each of
its two searches returns up to three of the points that match, and none when it
fails, which the code swallows. `RemoveWorkspaceRows` waits for it because the flushed rows refer to the
workspace.

### RagPipeline
One question. What the search finds is any sequence of chunks of the workspace,
what is stored is any set of rows; a chunk is characterised by its first twenty
words, the length of its entry, its page, index, score and tag. The loop of
`build_context` is one action per branch. The properties say what it should
compute without the loop: `Fresh(m)` are the places of the first `m` results
that begin like none before them, `Rank(i)` is the number such a place gets,
and `Total(s)` the length of a context of the parts `s`.

### EmbeddingGateway and EmbeddingSpec
`EmbeddingCache` as a sequence from the least to the most recently used entry.
`get_batch`, `put_batch` with the merge, and each outcome of a provider call
are one step each; `attempts[r]` is the counter of the retry loop and `RetryLimit`
its bound. `LookUp` and `Store` are one turn of the loops of `get_batch` and
`put_batch`, on the cache together with `recency`, the history of all keys in the
order of their last use; `AfterLookUps` and `AfterStores` are the loops, as
functions of the number of turns. A vector is named by the text it was computed
from, so a misplaced vector is visible. `EmbeddingSpec` is what a caller relies
on: one answer or error for each batch, each vector fitting its text. The
refinement maps all inner stages to "pending".

### AgentGraph
The state of a LangGraph run with one action per node and the conditional
edges; documents and tool results are counted, `analysis` remembers how many
of them it has seen. LangGraph is external: it runs the next node, and raises
at the recursion limit, which is 25 because `ainvoke` is called without one.

### RateLimiter
The list of time stamps of a process for a key (a bucket) on a clock of half
seconds, the derivation of the key from the headers, and the answer with its
headers. Any process may get any request. `admissions` is the history of
everything ever admitted in a bucket, which the list forgets. A worker that
replaces a stopped one is one more member of `Processes`, so the properties hold
through restarts.

### Workspaces
`request[r]` is one call of an endpoint: the stage it has reached, and what it
has read by then (the role of the caller, the role of the target, the settings).
The rows are as committed; a request reads in one step and commits in a later
one, and other requests run in between. `UpdateWorkspace` and `DeleteWorkspace` read
the workspace row and commit in one step: a workspace that goes between the two
makes the first answer 500 and the second 204 where the model answers 404, and
changes no row. `Audit` is the second transaction of `log_action`, which reads the
entry back after it; where that fails the request ends at "logged", answered 500
with its entry written. `RaisesAtCommit` is the session's flush: an UPDATE of a row that
is gone raises, a DELETE of one only warns, and an INSERT into a workspace that
is gone breaks its foreign key. Two histories say what a request met: `held`, the
roles its caller has had since it began, and `during`, the requests that
committed since then.

### Accounts
The server is `signup`, one stage per statement of a registration, and a clock;
it keeps no sessions. The browser is a token in the local storage, a user in
memory, and three requests that may be under way: the form, the check of a
loaded page and any other call. They are answered in any order. Loading a page
forgets what the last one waited for. The answer of a registration leaves before
its commit, as the FastAPI release of `uv.lock` has it.

### LlmGateway
One request of any kind with any conversation. `Call` is one HTTP call with the
payload of its provider, `FailTransient` and `FailPermanent` are the except
branches of the retry loop, and the actions from `OpenStream` on are the
generators of a stream, which end in `sse_generator`. `Cancel` closes the client
when the task is inside the provider; a generator suspended at a yield is left
to `Finalise`.

## 4. The runs

Runs that pass:

| run | bounds | shows |
|---|---|---|
| `documents_stores` | two uploads to two workspaces, production, both log levels, failing commits, lost requests | what a reader of either store can see, and that uploads are answered |
| `documents_shared` | three uploads, a limit that moves between 1 and 2, two workers with one connection each, development, symmetric uploads | how far the quota is overshot; what outlives a purge |
| `chat` | two requests in one conversation, history of 2, 2 deltas | saved covers delivered, order of messages, deletion, termination |
| `memory` | two tasks of two users, three facts, production and development | agreement of rows and points, with and without raising Qdrant errors |
| `rag` | six chunks, top_k 1 and 3, every stored subset, every search result | the context is the longest fitting beginning without repetitions |
| `embedding` | four batches, four texts with three keys, cache of 2, one retry | LRU order, the refinement of `EmbeddingSpec`, and that every batch ends |
| `agents` | the real limits 25 and 3 | every way through the graph |
| `workspaces` | two requests to any endpoints, three users, one workspace and one that a GET may create | authorisation, audit, deletion and lost updates in every interleaving |
| `accounts` | three registrations, two for one address, one browser, tokens of one tick on a clock of two | one account per address; who is signed in and who is signed out |
| `llm` | conversations of up to three messages, two retries, streams of two pieces | payloads, retries, what a stream forwards, and that requests end |
| `limiter` | two processes, limit 2, window 3 s, half-second ticks to 4 s, two clients under one key, symmetric processes | each process keeps the limit in every window, the service that many times the processes that took part; answers are exact |

Why these bounds are enough to meet the hard cases: with two uploads each
interleaving of two handlers occurs, and a third is only needed where a
counter is involved, with a connection in each of two workers for it to overshoot. Both
modes are covered: `documents_stores` is in production, `documents_shared` is
not, and `memory` starts in either. A
history of two messages is shorter than two overlapping exchanges, so the cut
happens in the middle of one. Three facts give one task two of them, so one
can fail after another was written. The cache holds fewer keys than a batch.
The RAG budget is such that two entries fit exactly, one does not, and one is
larger than the whole budget. A window of six ticks on a clock of eight leaves
room for the list to forget, and for an interval that begins anywhere.
`StepLimit` and `MaxIterations` are the values of the code. Deadlock is not
checked where all requests of the model come to an end.

One run finds a disagreement between the code and what the repository says of
it: `agents_rejections` checks `RejectionsBounded`, whose comment quotes the claim.
It is violated because `iterations` is only counted in a node that runs once.
`PROJECT.json` quotes the claim with its place.

Other differences met while modelling. The models show them in a few steps, and
no run is kept for them:

- `app/services/ingestion/service.py:156`: the log call of the except branch raises
  `KeyError`, so the status "failed" that `app/schemas/documents.py:37` and
  `app/services/ingestion/types.py:50` name is never stored, a refused file is
  answered 500 and not with its `DocumentError`, and the row stays "processing" for
  good (`ParseFails`). `UnsettledOnlyInFlight` allows for it.
- `app/services/ingestion/service.py:134` raises the same error after the third
  commit where INFO is logged, which is what `docker-compose.prod.yml:62` sets: no
  upload is then answered 201, and its document is completed without points
  (`Complete`). docs/deployment.md:79 also allows WARNING, which the tests use.
- `app/middleware/rate_limit.py:30`: the limit is kept by each worker process for
  itself, so the four of `docker-compose.prod.yml:55` admit up to four times the
  "120 requests/minute per client IP or API key" of docs/optimization.md:113, and a
  restarted worker begins anew. `WindowBound` says what holds: the limit for each
  process, and that many times the processes that took part for the service.
- `app/routes/documents.py:89`: the handler that is to tolerate a failure of the
  indexing ("dev fallback active") uses `logging`, which the module does not
  import, so the upload ends with an error (`IndexRaises` in
  `DocumentLifecycle`).
- `app/services/chat/service.py:242` promises to save an interrupted answer, but
  the commit in the `finally` block is cancelled with its task (`Disconnect`).
- `app/services/rag/context.py:70` numbers the entries of the context, and the
  citations are numbered by a second pass that counts near-duplicates the first
  one has dropped.
- `app/routes/workspaces.py:398` says "Only owners can modify other owners." and
  `:440` "Admins cannot remove owners."; an admin who read the target before it
  was made an owner does both. `ChangesWereAuthorised` allows for that race only.
- docs/security.md keeps API keys from admins; `api_keys.py` lets them create
  and revoke keys.
- The audit trail that the documents call immutable is deleted with its
  workspace.
- `app/routes/auth.py:136` documents 409 for an address that is taken; the one
  of two overlapping registrations that loses is answered with 500. 201 is
  answered before the commit.
- `app/config.py:183` describes `llm_timeout_seconds` as "Default HTTP timeout
  for LLM provider requests"; nothing reads it, and the providers use 30 s.
- `app/services/llm/service.py:136` retries an error of the vendor if its text
  has the digits "50", so some 4xx are retried and some 5xx are not.
- `app/services/llm/providers/anthropic.py:248`: an error inside a stream is
  skipped, and the stream ends with [DONE] (`StreamEnds`).
- `app/routes/documents.py:261` never removes the points of a document, although
  docs/api-design.md:402 says "Delete a document and all its chunks from the
  vector store"; `delete_document_vectors` has no caller.
- `app/routes/documents.py:57` counts before other uploads insert, although the
  settings page says "Usage limits are enforced based on these settings."
  `QuotaOvershootBounded` is what is left of the limit: the highest the workspace
  ever had, plus the connections of all the workers less one.
- `app/routes/workspaces.py:303`: an upload that is embedding writes its points
  after the purge, although the dialog says they "will be permanently deleted".
  `PurgeOnlyRacesIndexing` says that no other upload does.
- `app/services/rag/retriever.py:18`: the chunk fallback serves a workspace
  without any points only, so outside production one document without points is
  not found among others that have them, whatever `documents.py:89` logs.
- `app/middleware/rate_limit.py:106` cuts `Retry-After` and does not round it up;
  a client that obeys it may be refused once more (`RetryWithinASecond`).
- `app/middleware/rate_limit.py:86`: the first 32 characters of a bearer header
  are the same for all tokens, although docs/optimization.md:113 says "per client
  IP or API key". The run `limiter` has two such clients.
- `app/services/agents/service.py:43` passes no recursion limit to LangGraph,
  which stops at 25, although README.md:90 says "recursion limits (10 steps)".
- `app/services/memory/service.py:69` commits the removal of the row and then
  removes the point, so a failure between them cannot be repeated, although
  docs/memory.md:56 says "atomically". `OrphansAccountedFor` allows for it.
- `app/services/memory/service.py:160`: the workspace search filters neither by
  scope nor by owner (`Relevant`), although docs/memory.md:54 says "Private to
  the specific user account".
- `app/services/embeddings/service.py:168` tests for emptiness a list that is
  never empty, so a text without a vector is answered with an empty one.
- `app/services/rag/context.py:60`: line breaks between entries are not counted
  in the budget, so a context exceeds it by up to one character per entry after
  the first.
- `app/services/rag/retriever.py:51`: the database fallback does not know the
  filters of the question.

## 5. Fairness

Liveness is claimed only of what the event loop and the clients of the stores
guarantee.

- `DocumentLifecycle`, `ChatStream`: weak fairness of the steps of a handler
  that has started, since asyncio resumes a task whose awaited call has
  returned, and calls to the database, Qdrant and the model end, by an answer,
  an error or a time-out. Nothing makes a client send or disconnect. In
  `ChatStream` deltas are bounded by `MaxDeltas`: a model that streams forever
  is outside the claim.
- `EmbeddingGateway`: weak fairness for each batch: provider calls have a
  time-out of 30 s and sleeps end.
- `LlmGateway`: weak fairness of everything but the requester's leaving: reads
  have a time-out of 30 s, sleeps end, and the event loop finalises suspended
  generators.
- The other modules state no fairness and no liveness.

## 6. What is proved

The theorems hold for every value of the constants under the named ASSUME of
the module, which TLC evaluates in each run. In each case the invariant alone
is not inductive; what is added is said here.

- **DocumentLifecycleProofs**: `NoPartialContent` and `VectorsFollowCommit`
  need `PhaseBoundsStores` (what rows and points a request in a given phase
  can have). `PurgeOnlyRacesIndexing` needs that a deleted workspace has no
  rows. `AnsweredIsIndexed` needs both, and that a request is only answered
  after the indexing phase. `QuotaOvershootBounded` is proved with
  `QuotaInv` for `Claims(w)`, the rows of a workspace together with the requests
  between the count and the insert: such a request adds a claim only when it
  counted fewer rows than a limit no higher than the highest, and the claims
  without a row, its own included, hold a connection each. `QuotaInv` adds that the
  connections are not exceeded and that no limit, set or read, is above the highest.
  `StatusMovesForward` needs that a document has no trace before
  its row is inserted. `UnsettledOnlyInFlight` and `AnswersMatchStore` need
  `SettledInv`: besides that, a completed row has its chunks, and what a running
  deletion has removed stays removed.
- **RateLimiterProofs**: `WindowBound` needs that admissions of a bucket are
  ordered, that what the list forgot is older than a window (`ForgottenIsOld`), and
  that two admissions `Limit` places apart are a window apart (`Spaced`). What a
  process served in an interval is then within `Limit` places of its first
  admission in it (`ServedBounded`), and numbering these places maps all that the
  service admitted one to one into the processes that took part times `1..Limit`.
  `AnswerMatchesWindow` and `RetryWithinASecond` need that the list never holds
  more than the limit (`KeptBounded`), and that fewer than the limit of it last
  until a second after the time a client was told (`DueIsEnough`).
- **MemoryStoreProofs** (`RowIsSearchable`, `DeletedStaysDeleted`,
  `PurgeIsFinal`): `StoreInv` says that flushed facts belong to their
  task, have their point, and hold the workspace row. `ExchangeIsAtomic` and
  `OrphansAccountedFor` need `PointsAreFlushed` as well: the points of a running
  task are of facts it has flushed, so its commit finds a row for each.
- **ChatStreamProofs**: `SavedCoversDelivered` needs
  that delivered text is part of the accumulated one (`Counted`);
  `ReadsInOrder` needs `Stamped`, which relates each stamp to the start of its
  transaction and each question to the answers written before it.
  `QuestionReachesModel` needs that the messages of a prompt are written for good
  (`PromptsAreOld`), and the lemma `Displaced`: the latest of the newer messages
  that were not read back is older than `HistoryLimit` messages that were.
- **AnswerProofs**, the models that compute an answer. For `RagPipeline`,
  isolation and the non-empty context need `LoopInv`: the loop starts from
  nothing on a result that is not empty. `ContextIsLongestFit` and
  `CitationsReachContext` need `Built`, which says after each turn that `parts` are
  exactly the fresh results before `position`, that `seen` are their beginnings,
  and that `current_length` is their `Total`; without the last two, neither the
  test for a duplicate nor the one of the budget means anything. The lemmas
  `FreshNext` and `TotalOfAppend` say what one more result adds. For `AgentGraph`,
  `GraphInv` says at which node the last analysis is current and the last verdict
  is about it.
- **GatewayProofs**, the models of calls that leave the process.
  - The cache: `KeepsMostRecent` needs that the history lists each key once and
    that the cache is its end (`Sound`); `MoveSound` and `AddSound` show that a hit, a
    replacement, an insertion and an eviction keep it so, and `AfterLookUpsSound`
    and `AfterStoresSound` that whole batches do, whatever their length and
    however often they repeat a key.
  - `ImplementsEmbedding` needs `EmbeddingInv`: the hits kept with a request go on
    fitting its texts after other batches have replaced or evicted their entries.
    Each step is then mapped to a step of `EmbeddingSpec` or to none
    (`RefineStep`).
  - `OnlyTransientFailuresAreRetried` needs `RetryInv`: until a request is over its
    calls are failed attempts and the counter is their number. `StreamForwardsOnce`
    needs `ForwardInv`: what was handed on is what was read (`Reading`).
  - `PayloadKeepsTheConversation` needs `PayloadInv`, that the body of every call is
    the payload of its provider, and then a fact about data: `OpenAIKeeps` and
    `AnthropicKeeps` show for conversations of every length that a payload loses,
    repeats and reorders nothing. They rest on lemmas about `FlattenSeq`
    (`FlattenConcat`, `FlattenInFront`, `FlattenKeeps`).
- **WorkspacesProofs**: `SpaceInv` adds to the three safety invariants that what
  a request has read was so while it ran: the role it holds (`RoleIsHeld`), the
  target's role unless a promotion overlapped (`RoleWasHeld`,
  `OwnersArePromoted`), the settings unless another settings request overlapped
  (`SettingsAreFresh`), and that only requests that began have committed.
- **AccountsProofs**: `AccountInv` adds that tokens in the browser were issued
  (`TokensAreIssued`, `FormIsNamed`, `CheckHasToken`), and that a token once
  refused stays refused (`RefusedForGood`), which is what `SignedOutForACause`
  rests on.

The type invariants of the ten modules are theorems and are not
repeated in the runs, like `StatusMovesForward`, `VectorsFollowCommit`,
`NoToolCallDropped`, `DeletedStaysDeleted` and `GroundedHasContext`.

How recursion over data is proved. The theorems of the library on induction take
a predicate as a parameter, which the provers at hand cannot instantiate. The
modules `AnswerProofs` and `GatewayProofs` use a set in its place:
`LeastElement`, from the well-foundedness of the naturals, gives the induction
`UpTo`, and `Stepwise` the existence of a function that is defined step by step.
A recursive function of the model is then equal to one that exists
(`JoinIsFlatten`, `SumIsTotal`), and what it computes is shown by `UpTo`. This
is done for one recursion at a time; there is no general theorem on folds to
cite, which is why `LeastElement`, `UpTo` and `Stepwise` stand at the head of
both modules.

Only model-checked: liveness (`UploadsAreAnswered`, `StreamsEnd`, `EveryBatchEnds`,
`RequestsEnd`), since the provers at hand have neither ENABLED nor liveness under
fairness. Every invariant and action property of a passing run is also a theorem,
and so is the refinement of `EmbeddingSpec`, which is a safety property. The
violation of `RejectionsBounded` is a counterexample of TLC.

## 7. Assumptions and limits

- The ORM models (`backend/app/models`) are not in the repository, and its one
  migration, 0001, creates `users`, `workspaces` and `workspace_members` only. That
  the other tables refer to their workspace or conversation by a foreign key, that
  those of `api_keys` and `audit_logs` cascade like the one of `workspace_members`,
  and that `created_at` defaults to the start of the transaction, is assumed: the
  order of the deletes in `delete_workspace` and the uses of the columns speak for
  it. The assumption is about PostgreSQL; SQLite in development enforces no foreign
  key and stamps whole seconds. Resting on an assumed foreign key:
  `PurgeOnlyRacesIndexing` (documents), `PurgeIsFinal` (memories), `DeletedIsEmpty`
  (messages) and, for keys and the audit log, `DeletedSpaceIsEmpty` and
  `AuditMatchesAnswers`. Resting on the assumed default: `ReadsInOrder` and
  `QuestionReachesModel`.
- Library behaviour is external: the cancellation of anyio under starlette,
  autobegin of the SQLAlchemy session, LangGraph's recursion limit.
- `LOG_LEVEL` lets errors through. `app/config.py:143` also accepts CRITICAL, which
  nothing in the repository sets; with it the except branch of
  `ingestion/service.py:155` would get as far as the status "failed".
- Accounts are deactivated by an operator only; no route does it.
- A vendor gives the finish reason of a stream last.
- The processes of the limiter share one clock, which does not go back
  (`time.time()` may; a step back keeps a time stamp longer by its size).
- The audit log names requests that were committed. A role that is given again, or
  a row another request removed first, is logged like a change.
- Raw files are only ever added: `StorageManager.delete_file` has no caller, so
  a refused insert, a deleted document and a deleted workspace leave the file.
  No property relates to it.
- File contents, prompts, similarity and formatting are abstract. Which
  questions are greetings or name a page is an input.
- The pools of connections are counted only where they bound something, in
  `DocumentLifecycle`, and as one number: whose pool a connection comes from is
  left out, so the model has every distribution over the workers, and more. A chat
  stream holds a connection while it runs, and waits for no second one.
- Not modelled, with reasons, in `PROJECT.json`: analytics, health and
  configuration (single statements or reads), parsers (libraries), what the mock
  provider writes, the MCP client (a subprocess of an external server), the pages
  of the front end but for the session, evaluation, deployment and migrations.
