----------------------------- MODULE ChatStream -----------------------------
(***************************************************************************)
(* A question in a conversation: send_message of routes/conversations runs *)
(* stream_rag_chat of services/chat as the body of an SSE response. The    *)
(* question is committed first, the history is read back, documents are    *)
(* retrieved, and the answer is accumulated while it is streamed and saved *)
(* when the stream is over, however it ended.                              *)
(*                                                                         *)
(* Requests of one conversation overlap (two tabs, an API client). Between *)
(* any two awaits another request may run, the conversation may be deleted *)
(* and the client may go away. Deltas are counted. A message is committed  *)
(* with the time stamp that orders it in the conversation: PostgreSQL's  *)
(* CURRENT_TIMESTAMP is the start of the transaction.                      *)
(***************************************************************************)
EXTENDS Naturals, FiniteSets

CONSTANTS
    Requests,
    Conversations,
    ConversationOf,   \* ConversationOf[q]: the conversation q asks in
    HistoryLimit,     \* messages read back for the prompt
    MaxDeltas         \* bound: deltas of one answer

ASSUME ChatAssumption ==
    /\ IsFiniteSet(Requests)
    /\ ConversationOf \in [Requests -> Conversations]
    /\ HistoryLimit \in Nat \ {0}
    /\ MaxDeltas \in Nat \ {0}

Question(q) == <<q, "user">>
Answer(q)   == <<q, "assistant">>
Messages    == Requests \X {"user", "assistant"}
Of(c)       == {m \in Messages : ConversationOf[m[1]] = c}

VARIABLES
    now,        \* clock of the database
    deleted,    \* conversations that were deleted
    log,        \* committed messages
    stamp,      \* stamp[m]: created_at of a committed message
    stage,      \* stage[q]: where stream_rag_chat stands
    begun,      \* begun[q]: start of the current transaction of q
    prompt,     \* prompt[q]: history messages given to the model
    text,       \* text[q]: deltas in full_response
    sent,       \* sent[q]: deltas the client received
    saved,      \* saved[q]: deltas in the saved answer
    extracted,  \* requests whose exchange went to memory extraction
    earlier     \* history: earlier[q]: requests that were over when q came

vars == <<now, deleted, log, stamp, stage, begun, prompt, text, sent, saved,
          extracted, earlier>>

Stages == {"new", "opened", "asked", "prompted", "empty", "answered", "streaming",
           "yielding", "closing", "cancelled", "ended", "unsaved"}
Over(q) == stage[q] \in {"ended", "unsaved"}

TypeOK ==
    /\ now \in Nat
    /\ deleted \subseteq Conversations
    /\ log \subseteq Messages
    /\ stamp \in [Messages -> Nat]
    /\ stage \in [Requests -> Stages]
    /\ begun \in [Requests -> Nat]
    /\ prompt \in [Requests -> SUBSET Messages]
    /\ text \in [Requests -> Nat] /\ sent \in [Requests -> Nat]
    /\ saved \in [Requests -> Nat]
    /\ extracted \subseteq Requests
    /\ earlier \in [Requests -> SUBSET Requests]

Init ==
    /\ now = 1
    /\ deleted = {} /\ log = {} /\ extracted = {}
    /\ stamp = [m \in Messages |-> 0]
    /\ stage = [q \in Requests |-> "new"]
    /\ begun = [q \in Requests |-> 0]
    /\ prompt = [q \in Requests |-> {}]
    /\ text = [q \in Requests |-> 0]
    /\ sent = [q \in Requests |-> 0]
    /\ saved = [q \in Requests |-> 0]
    /\ earlier = [q \in Requests |-> {}]

-----------------------------------------------------------------------------
Exists(q) == ConversationOf[q] \notin deleted

Goes(q, from, to) ==
    /\ stage[q] = from
    /\ stage' = [stage EXCEPT ![q] = to]

\* A transaction of q starts with its first statement.
Begins(q) ==
    /\ begun' = [begun EXCEPT ![q] = now]
    /\ now' = now + 1

\* A message is inserted and committed.
Inserts(q, m) ==
    /\ log' = log \cup {m}
    /\ stamp' = [stamp EXCEPT ![m] = begun[q]]

Prepared == <<deleted, prompt, text, sent, saved, extracted, earlier>>

\* The caller is authenticated and owns the conversation; the same
\* transaction finds the conversation.
Open(q) ==
    /\ Exists(q)
    /\ Goes(q, "new", "opened")
    /\ Begins(q)
    /\ earlier' = [earlier EXCEPT ![q] = {p \in Requests : Over(p)}]
    /\ UNCHANGED <<deleted, log, stamp, prompt, text, sent, saved, extracted>>

\* get_conversation raises: the conversation is gone or belongs to another.
Refuse(q) ==
    /\ Goes(q, "new", "ended")
    /\ UNCHANGED <<now, log, stamp, begun>> /\ UNCHANGED Prepared

\* The question is committed before anything else is done.
SaveQuestion(q) ==
    /\ Exists(q)
    /\ Goes(q, "opened", "asked")
    /\ Inserts(q, Question(q))
    /\ UNCHANGED <<now, begun>> /\ UNCHANGED Prepared

\* Mutant of Recent: the first messages and not the last ones.
RecentAscending(c) ==
    {m \in log \cap Of(c) :
        Cardinality({n \in log \cap Of(c) : stamp[n] < stamp[m]}) < HistoryLimit}

\* The newest messages of a conversation.
Recent(c) ==
    {m \in log \cap Of(c) :
        Cardinality({n \in log \cap Of(c) : stamp[n] > stamp[m]}) < HistoryLimit}

\* Mutant of ReadHistory: it still runs in the transaction of the question.
ReadHistorySameTransaction(q) ==
    /\ Goes(q, "asked", "prompted")
    /\ prompt' = [prompt EXCEPT ![q] = Recent(ConversationOf[q])]
    /\ UNCHANGED <<now, begun, deleted, log, stamp, text, sent, saved, extracted, earlier>>

\* The history is read in a transaction that stays open until the answer is
\* committed.
ReadHistory(q) ==
    /\ Goes(q, "asked", "prompted")
    /\ Begins(q)
    /\ prompt' = [prompt EXCEPT ![q] = Recent(ConversationOf[q])]
    /\ UNCHANGED <<deleted, log, stamp, text, sent, saved, extracted, earlier>>

\* The retriever finds something or nothing.
Retrieve(q) ==
    /\ \/ Goes(q, "prompted", "streaming")
       \/ Goes(q, "prompted", "empty")
    /\ UNCHANGED <<now, log, stamp, begun>> /\ UNCHANGED Prepared

\* Without documents a fixed answer is committed, then sent.
SaveFallback(q) ==
    /\ Exists(q)
    /\ Goes(q, "empty", "answered")
    /\ Inserts(q, Answer(q))
    /\ saved' = [saved EXCEPT ![q] = 1]
    /\ UNCHANGED <<now, begun, deleted, prompt, text, sent, extracted, earlier>>

SendFallback(q) ==
    /\ Goes(q, "answered", "ended")
    /\ sent' = [sent EXCEPT ![q] = 1]
    /\ UNCHANGED <<now, log, stamp, begun, deleted, prompt, text, saved, extracted, earlier>>

\* Before the stream starts a failure ends the request: a commit that finds
\* the conversation gone, an unreachable database or vector store, or a
\* client that left. A cancelled commit may have reached the database.
Abort(q) ==
    /\ \E from \in {"opened", "asked", "prompted", "empty", "answered"} : Goes(q, from, "ended")
    /\ UNCHANGED <<now, log, stamp, begun>> /\ UNCHANGED Prepared

-----------------------------------------------------------------------------
Streamed == <<now, deleted, log, stamp, begun, prompt, extracted, earlier>>

\* A delta of the model is accumulated, then yielded.
Delta(q) ==
    /\ text[q] < MaxDeltas
    /\ Goes(q, "streaming", "yielding")
    /\ text' = [text EXCEPT ![q] = @ + 1]
    /\ UNCHANGED <<sent, saved>> /\ UNCHANGED Streamed

Deliver(q) ==
    /\ Goes(q, "yielding", "streaming")
    /\ sent' = [sent EXCEPT ![q] = @ + 1]
    /\ UNCHANGED <<text, saved>> /\ UNCHANGED Streamed

\* The model is done, or its stream fails; [DONE] or an error event is sent.
Finish(q) ==
    /\ Goes(q, "streaming", "closing")
    /\ UNCHANGED <<text, sent, saved>> /\ UNCHANGED Streamed

\* The client goes away: the generator is cancelled, or closed at a yield.
Disconnect(q) ==
    /\ \E from \in {"streaming", "yielding", "closing"} : Goes(q, from, "cancelled")
    /\ UNCHANGED <<text, sent, saved>> /\ UNCHANGED Streamed

Closing(q) == stage[q] \in {"closing", "cancelled"}

\* Mutant of Save: only a stream that was not cut short is saved.
SaveUnlessCancelled(q) ==
    /\ Closing(q)
    /\ stage[q] = "closing" /\ text[q] > 0 => Exists(q)
    /\ stage' = [stage EXCEPT ![q] = "ended"]
    /\ IF stage[q] = "closing" /\ text[q] > 0
       THEN /\ Inserts(q, Answer(q))
            /\ saved' = [saved EXCEPT ![q] = text[q]]
            /\ extracted' = extracted \cup {q}
       ELSE UNCHANGED <<log, stamp, saved, extracted>>
    /\ UNCHANGED <<now, begun, deleted, prompt, text, sent, earlier>>

\* The finally block: the accumulated answer is committed, with the
\* conversation's updated_at, and its exchange goes to memory extraction.
\* There is nothing to do for an empty answer.
Save(q) ==
    /\ Closing(q)
    /\ text[q] > 0 => Exists(q)
    /\ stage' = [stage EXCEPT ![q] = "ended"]
    /\ IF text[q] > 0
       THEN /\ Inserts(q, Answer(q))
            /\ saved' = [saved EXCEPT ![q] = text[q]]
            /\ extracted' = extracted \cup {q}
       ELSE UNCHANGED <<log, stamp, saved, extracted>>
    /\ UNCHANGED <<now, begun, deleted, prompt, text, sent, earlier>>

\* Mutant of SaveFails: the commit is tried again until it succeeds.
SaveFailsRetrying(q) ==
    /\ Closing(q)
    /\ text[q] > 0
    /\ stage' = [stage EXCEPT ![q] = "closing"]
    /\ UNCHANGED <<text, sent, saved>> /\ UNCHANGED Streamed

\* The commit raises: the conversation was deleted, the database fails, or the
\* commit is itself cancelled, as it awaits in the cancelled scope. It may
\* still have reached the database.
SaveFails(q) ==
    /\ Closing(q)
    /\ text[q] > 0
    /\ stage' = [stage EXCEPT ![q] = "unsaved"]
    /\ \/ UNCHANGED <<log, stamp, saved>>
       \/ /\ Exists(q)
          /\ Inserts(q, Answer(q))
          /\ saved' = [saved EXCEPT ![q] = text[q]]
    /\ UNCHANGED <<now, deleted, begun, prompt, text, sent, extracted, earlier>>

-----------------------------------------------------------------------------
Untouched == <<now, stage, begun, prompt, text, sent, saved, extracted, earlier>>

\* Mutant of DeleteConversation: the messages are left to a cascade.
DeleteConversationOnly(c) ==
    /\ c \notin deleted
    /\ deleted' = deleted \cup {c}
    /\ UNCHANGED <<log, stamp>> /\ UNCHANGED Untouched

\* delete_conversation: the messages and the conversation, in one commit.
DeleteConversation(c) ==
    /\ c \notin deleted
    /\ deleted' = deleted \cup {c}
    /\ log' = log \ Of(c)
    /\ UNCHANGED stamp /\ UNCHANGED Untouched

Serve(q) ==
    \/ Open(q) \/ Refuse(q) \/ SaveQuestion(q) \/ ReadHistory(q) \/ Retrieve(q)
    \/ SaveFallback(q) \/ SendFallback(q) \/ Abort(q)
    \/ Delta(q) \/ Deliver(q) \/ Finish(q) \/ Disconnect(q)
    \/ Save(q) \/ SaveFails(q)

\* All streams are over and nothing is left to delete.
Idle ==
    /\ \A q \in Requests : Over(q)
    /\ deleted = Conversations
    /\ UNCHANGED vars

Next ==
    \/ \E q \in Requests : Serve(q)
    \/ \E c \in Conversations : DeleteConversation(c)
    \/ Idle

\* The event loop runs every request that was opened, and the database answers
\* a commit; the model's stream ends or fails (its client has a timeout).
\* Nobody has to ask, to leave or to delete, and nothing else has to fail.
Proceed(q) ==
    \/ SaveQuestion(q) \/ ReadHistory(q) \/ Retrieve(q)
    \/ SaveFallback(q) \/ SendFallback(q)
    \/ Delta(q) \/ Deliver(q) \/ Finish(q) \/ Save(q)
    \/ ~Exists(q) /\ (Abort(q) \/ SaveFails(q))

Fairness == \A q \in Requests : WF_vars(Proceed(q))

Spec == Init /\ [][Next]_vars /\ Fairness

-----------------------------------------------------------------------------
(***************************************************************************)
(* Safety and liveness                                                     *)
(***************************************************************************)

\* What the client has read is what the conversation shows later: unless the
\* commit itself failed, the saved answer covers every delta delivered, also
\* when the stream failed or the client left at a yield. And memories are
\* extracted from the exchange that was saved, and from no other.
SavedCoversDelivered ==
    \A q \in Requests :
        /\ stage[q] = "ended" => saved[q] >= sent[q]
        /\ q \in extracted => saved[q] = text[q] /\ saved[q] > 0

\* The stored order reads as a conversation: an answer comes after its question,
\* and a question comes after the answers that were complete when it was asked.
\* This is so although PostgreSQL dates an answer to before it was written.
ReadsInOrder ==
    \A q \in Requests :
        /\ {Question(q), Answer(q)} \subseteq log => stamp[Question(q)] < stamp[Answer(q)]
        /\ \A p \in earlier[q] :
              {Answer(p), Question(q)} \subseteq log => stamp[Answer(p)] < stamp[Question(q)]

\* The question itself reaches the model, although it is only read back with the
\* history: it is missing only if HistoryLimit later messages displaced it, or
\* the conversation was deleted meanwhile.
QuestionReachesModel ==
    \A q \in Requests :
        stage[q] \in {"streaming", "yielding", "closing", "cancelled"} =>
            \/ Question(q) \in prompt[q]
            \/ Cardinality({m \in prompt[q] : stamp[m] > stamp[Question(q)]}) >= HistoryLimit
            \/ ~Exists(q)

\* A deleted conversation has no messages, also if an answer was still being
\* streamed: its commit finds the conversation gone.
DeletedIsEmpty == \A c \in deleted : log \cap Of(c) = {}

\* Every request that was opened ends.
StreamsEnd == \A q \in Requests : stage[q] = "opened" ~> Over(q)

=============================================================================
