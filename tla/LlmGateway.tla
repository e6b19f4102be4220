------------------------------ MODULE LlmGateway ------------------------------
(***************************************************************************)
(* One request to a language model, from the route or the service that     *)
(* makes it to the HTTP calls of a provider (services/llm/service.py and   *)
(* its providers, routes/chat.py).                                         *)
(*                                                                         *)
(* LLMService retries calls that fail for a while and hands on everything  *)
(* else; a stream is never retried. Each call opens an HTTP client of its  *)
(* own and closes it in a finally block, or, when the requester of a       *)
(* stream goes away while a chunk is being sent, once the event loop       *)
(* finalises the generators.                                               *)
(***************************************************************************)
EXTENDS Naturals, Sequences, SequencesExt

CONSTANTS
    MaxRetries,   \* llm_max_retries
    MaxMessages,  \* bound: the length of a conversation
    MaxParts      \* bound: the pieces of text of a stream

ASSUME BoundsAssumption ==
    MaxRetries \in Nat /\ MaxMessages \in Nat /\ MaxParts \in Nat \ {0}

VARIABLES
    job,          \* what is asked for, and the settings the process runs with
    phase,
    provider,     \* the provider that get_provider returned
    body,         \* the payload of the last call
    attempt,      \* the counter of _execute_with_retry
    calls,        \* history: how the calls of the provider ended
    client,       \* the HTTP client of the call
    read,         \* the pieces of text read from the current response; MaxParts + 1
                  \* after its finish reason
    out           \* what was handed to the requester

llmVars == <<job, phase, provider, body, attempt, calls, client, read, out>>

Vendors == {"openai", "anthropic"}

\* A message is the number of its text: 1, 2, ... The gateway adds two texts.
SchemaText   == MaxMessages + 1      \* "Return ONLY valid JSON matching this schema"
GreetingText == MaxMessages + 2      \* "Hello"

Roles         == {"system", "user", "assistant"}
Conversations == UNION {[1..n -> Roles] : n \in 1..MaxMessages}

Jobs == [mode : {"complete", "structured", "stream"}, asked : Vendors \cup {"mock", "other"},
         keyed : BOOLEAN, production : BOOLEAN, roles : Conversations]

\* "upstream": an error status whose message contains "50", wherever it does.
Transient == {"limited", "timeout", "unreachable", "upstream"}
\* "garbled": a body that is not what the code indexes into.
Permanent == {"denied", "garbled", "mismatch"}
Failures  == Transient \cup Permanent \cup {"unresolved"}

NoBody   == [system |-> <<>>, messages |-> <<>>]
Chunk(n) == [kind |-> "text", n |-> n]
Event(k) == [kind |-> k, n |-> 0]

LlmTypeOK ==
    /\ job \in Jobs
    /\ phase \in {"begin", "ready", "calling", "waiting", "streaming", "sending", "orphaned", "over"}
    /\ provider \in Vendors \cup {"mock", "none"}
    /\ attempt \in 0..(MaxRetries + 1)
    /\ calls \in Seq({"ok"} \cup Failures)
    /\ client \in {"closed", "open"}
    /\ read \in 0..(MaxParts + 1)
    /\ out \in Seq([kind : {"text", "finish", "answer", "done"} \cup Failures, n : 0..MaxParts])

LlmInit ==
    /\ job \in Jobs
    /\ phase = "begin"
    /\ provider = "none"
    /\ body = NoBody
    /\ attempt = 0
    /\ calls = <<>>
    /\ client = "closed"
    /\ read = 0
    /\ out = <<>>

-----------------------------------------------------------------------------
(***************************************************************************)
(* The payloads                                                            *)
(***************************************************************************)
Messages == [i \in DOMAIN job.roles |-> [role |-> job.roles[i], text |-> <<i>>]]

System(m)  == m.role = "system"
Spoken(ms) == FlattenSeq([i \in DOMAIN ms |-> IF System(ms[i]) THEN <<>> ELSE <<ms[i]>>])
SystemTexts(ms) ==
    FlattenSeq([i \in DOMAIN ms |-> IF System(ms[i]) THEN ms[i].text ELSE <<>>])

\* OpenAIProvider: the schema is added to every system message, or in one of its own.
OpenAIPayload ==
    LET instructed == [i \in DOMAIN Messages |->
                         IF System(Messages[i]) THEN [Messages[i] EXCEPT !.text = Append(@, SchemaText)]
                                                ELSE Messages[i]]
        own == <<[role |-> "system", text |-> <<SchemaText>>]>>
    IN  [system |-> <<>>,
         messages |-> IF job.mode # "structured" THEN Messages
                      ELSE IF \E i \in DOMAIN Messages : System(Messages[i]) THEN instructed
                      ELSE own \o Messages]

\* Mutant of AnthropicPayload: each system message replaces the one before.
AnthropicPayloadLast ==
    LET texts == SystemTexts(Messages)
    IN  [system   |-> (IF job.mode = "structured" THEN <<SchemaText>> ELSE <<>>)
                      \o (IF texts = <<>> THEN <<>> ELSE <<Last(texts)>>),
         messages |-> Spoken(Messages)]

\* AnthropicProvider: the system messages are one field, the schema its first
\* line; a conversation of system messages alone is given something to answer.
AnthropicPayload ==
    [system   |-> (IF job.mode = "structured" THEN <<SchemaText>> ELSE <<>>) \o SystemTexts(Messages),
     messages |-> IF Spoken(Messages) = <<>> THEN <<[role |-> "user", text |-> <<GreetingText>>]>>
                  ELSE Spoken(Messages)]

\* MockLLMProvider is handed the messages.
Payload ==
    CASE provider = "openai" -> OpenAIPayload
      [] provider = "anthropic" -> AnthropicPayload
      [] OTHER -> [system |-> <<>>, messages |-> Messages]

-----------------------------------------------------------------------------
(***************************************************************************)
(* LLMService                                                              *)
(***************************************************************************)
\* get_provider: without a key the mock stands in, outside production.
Resolve ==
    /\ phase = "begin"
    /\ IF job.asked = "other" \/ (job.asked \in Vendors /\ ~job.keyed /\ job.production)
         THEN phase' = "over" /\ out' = <<Event("unresolved")>> /\ UNCHANGED provider
         ELSE /\ provider' = IF job.asked \in Vendors /\ job.keyed THEN job.asked ELSE "mock"
              /\ phase' = "ready"
              /\ UNCHANGED out
    /\ UNCHANGED <<job, body, attempt, calls, client, read>>

\* The next call of the provider, the first or one after a sleep.
Call ==
    /\ phase \in {"ready", "waiting"}
    /\ phase' = "calling"
    /\ body' = Payload
    /\ client' = IF provider = "mock" THEN "closed" ELSE "open"
    /\ read' = 0
    /\ UNCHANGED <<job, provider, attempt, calls, out>>

\* The call is over: its client is closed.
CallEnds(o) ==
    /\ phase = "calling"
    /\ calls' = Append(calls, o)
    /\ client' = "closed"
    /\ UNCHANGED <<job, provider, body, read>>

\* What a call may end with; the mock fails only for a schema it cannot fill.
Possible(o) ==
    /\ o = "mismatch" => job.mode = "structured" /\ provider # "mock"
    /\ provider = "mock" => o = "garbled" /\ job.mode = "structured"

HandOn(o) ==
    /\ phase' = "over"
    /\ out' = Append(out, Event(o))

Succeed ==
    /\ job.mode # "stream"
    /\ CallEnds("ok")
    /\ HandOn("answer")
    /\ UNCHANGED attempt

\* Rate limits, time-outs, broken connections and errors that look like 50x.
FailTransient(o) ==
    /\ job.mode # "stream" /\ Possible(o)
    /\ CallEnds(o)
    /\ attempt' = attempt + 1
    /\ \/ attempt + 1 > MaxRetries /\ HandOn(o)
       \/ /\ attempt + 1 <= MaxRetries
          /\ phase' = "waiting"
          /\ UNCHANGED out

\* Mutant of FailPermanent: an answer that fails its schema is asked for again.
FailPermanentRetried(o) ==
    /\ job.mode # "stream" /\ Possible(o)
    /\ CallEnds(o)
    /\ attempt' = attempt + 1
    /\ IF attempt < MaxRetries /\ o = "mismatch"
         THEN phase' = "waiting" /\ UNCHANGED out
         ELSE HandOn(o)

FailPermanent(o) ==
    /\ job.mode # "stream" /\ Possible(o)
    /\ CallEnds(o)
    /\ HandOn(o)
    /\ UNCHANGED attempt

-----------------------------------------------------------------------------
(***************************************************************************)
(* Streams: the SSE events of chat_completion, one generator inside        *)
(* another down to the lines of the response                               *)
(***************************************************************************)
OpenStream ==
    /\ phase = "calling" /\ job.mode = "stream"
    /\ phase' = "streaming"
    /\ UNCHANGED <<job, provider, body, attempt, calls, client, read, out>>

\* Mutant of StreamFails: a stream that breaks is begun again, like a call.
StreamFailsRetried(o) ==
    /\ phase \in {"calling", "streaming"} /\ job.mode = "stream"
    /\ o \in {"limited", "timeout", "unreachable"} /\ Possible(o)
    /\ calls' = Append(calls, o)
    /\ client' = "closed"
    /\ attempt' = attempt + 1
    /\ IF attempt < MaxRetries THEN phase' = "ready" /\ UNCHANGED out ELSE HandOn(o)
    /\ UNCHANGED <<job, provider, body, read>>

\* An error status, or a connection that breaks: one event tells the requester.
StreamFails(o) ==
    /\ job.mode = "stream" /\ Possible(o)
    /\ \/ phase = "calling" /\ o # "garbled"
       \/ phase = "streaming" /\ o \in {"timeout", "unreachable", "garbled"}
    /\ calls' = Append(calls, o)
    /\ client' = "closed"
    /\ HandOn(o)
    /\ UNCHANGED <<job, provider, body, attempt, read>>

\* The lines of a response arrive in order, and the finish reason comes last: in a
\* line of its own, or, but for Anthropic, in the one of the last piece, where the
\* mock always has it. Lines without text or finish reason, and lines that are no
\* JSON, are skipped; so is an error that the vendor reports in a line.
ReadChunk ==
    /\ phase = "streaming" /\ read <= MaxParts
    /\ \/ /\ read + (IF provider = "mock" THEN 1 ELSE 0) < MaxParts
          /\ read' = read + 1
          /\ out' = Append(out, Chunk(read + 1))
       \/ /\ provider # "mock"
          /\ read' = MaxParts + 1
          /\ out' = Append(out, Event("finish"))
       \/ /\ read < MaxParts /\ provider # "anthropic"
          /\ read' = MaxParts + 1
          /\ out' = out \o <<Chunk(read + 1), Event("finish")>>
    /\ phase' = "sending"
    /\ UNCHANGED <<job, provider, body, attempt, calls, client>>

ChunkSent ==
    /\ phase = "sending"
    /\ phase' = "streaming"
    /\ UNCHANGED <<job, provider, body, attempt, calls, client, read, out>>

\* "[DONE]" of OpenAI, or the end of the response.
StreamEnds ==
    /\ phase = "streaming"
    /\ provider = "mock" => read = MaxParts + 1
    /\ calls' = Append(calls, "ok")
    /\ client' = "closed"
    /\ HandOn("done")
    /\ UNCHANGED <<job, provider, body, attempt, read>>

\* The requester goes away or the server stops: the task is cancelled at its
\* await, inside the provider or while a chunk is sent.
Cancel ==
    /\ phase \notin {"orphaned", "over"}
    /\ IF phase = "sending" THEN phase' = "orphaned" /\ UNCHANGED client
                            ELSE phase' = "over" /\ client' = "closed"
    /\ UNCHANGED <<job, provider, body, attempt, calls, read, out>>

\* Mutant of Finalise: generators left suspended keep their client.
FinaliseLeaks ==
    /\ phase = "orphaned"
    /\ phase' = "over"
    /\ UNCHANGED <<job, provider, body, attempt, calls, client, read, out>>

Finalise ==
    /\ phase = "orphaned"
    /\ phase' = "over"
    /\ client' = "closed"
    /\ UNCHANGED <<job, provider, body, attempt, calls, read, out>>

Step ==
    \/ Resolve \/ Call \/ Succeed
    \/ \E o \in Transient : FailTransient(o) \/ StreamFails(o)
    \/ \E o \in Permanent : FailPermanent(o) \/ StreamFails(o)
    \/ OpenStream \/ ReadChunk \/ ChunkSent \/ StreamEnds \/ Finalise

LlmNext == Step \/ Cancel

\* Every read of a response has a time-out, sleeps end, a client reads what it is
\* sent or goes away, and the event loop finalises the generators that nobody
\* refers to.
LlmSpec == LlmInit /\ [][LlmNext]_llmVars /\ WF_llmVars(Step)

-----------------------------------------------------------------------------
(***************************************************************************)
(* Safety                                                                  *)
(***************************************************************************)
OfTheConversation(ts) ==
    FlattenSeq([i \in DOMAIN ts |-> IF ts[i] <= MaxMessages THEN <<ts[i]>> ELSE <<>>])

\* Whatever the vendor's format, the payload of every call, the repeated ones
\* too, holds each text of the conversation once, the spoken ones in their order
\* and with their roles, the system ones in their order; a structured request
\* tells the schema (the _build_payload methods, complete_structured).
PayloadKeepsTheConversation ==
    body # NoBody =>
        LET instructions == body.system \o SystemTexts(body.messages) IN
        /\ Spoken(Messages) # <<>> => Spoken(body.messages) = Spoken(Messages)
        /\ OfTheConversation(instructions) = SystemTexts(Messages)
        /\ job.mode = "structured" /\ provider # "mock" => Contains(instructions, SchemaText)

\* Only a failure that may pass is followed by another call, and only in a
\* request whose answer has not begun; what the requester is told is how the last
\* call ended, and it is told of a passing failure only when all the attempts
\* failed (_execute_with_retry; stream_complete has no retry).
OnlyTransientFailuresAreRetried ==
    /\ Len(calls) <= MaxRetries + 1
    /\ job.mode = "stream" => Len(calls) <= 1
    /\ \A i \in DOMAIN calls : i < Len(calls) => calls[i] \in Transient
    /\ phase = "over" /\ out # <<>> /\ calls # <<>> =>
         LET end == Last(out).kind IN
         /\ end \in Failures => end = Last(calls)
         /\ end \in {"answer", "done"} => Last(calls) = "ok"
         /\ end \in Transient /\ job.mode # "stream" => Len(calls) = MaxRetries + 1

\* What the client of a stream reads is a beginning of what the model wrote:
\* every piece once and in order, at most one finish reason after them, and at the
\* end one "[DONE]" or one error, or nothing if the client left (sse_generator).
StreamForwardsOnce ==
    job.mode = "stream" =>
        /\ \A i \in DOMAIN out : out[i].kind = "text" => out[i].n = i
        /\ \A i \in DOMAIN out : i < Len(out) => out[i].kind \in {"text", "finish"}
        /\ \A i, j \in DOMAIN out : i < j /\ out[i].kind = "finish" => out[j].kind \notin {"text", "finish"}

-----------------------------------------------------------------------------
(***************************************************************************)
(* Liveness                                                                *)
(***************************************************************************)
\* Every request ends, and no HTTP client stays open after it, wherever the
\* requester or the connection was lost (the finally blocks of the providers).
RequestsEnd == <>[](phase = "over" /\ client = "closed")
=============================================================================
