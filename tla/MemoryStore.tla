----------------------------- MODULE MemoryStore -----------------------------
(***************************************************************************)
(* The semantic memories of services/memory: facts that a background task  *)
(* extracts from a finished chat exchange and keeps as rows of the SQL     *)
(* database and as points of the Qdrant collection aurenix_memories.       *)
(*   extract_and_save_memories   the task, started by stream_rag_chat      *)
(*   delete_memory               DELETE /memories/{id}                     *)
(*   get_relevant_memories       the read for the next prompt              *)
(*   delete_workspace            rows first, points afterwards             *)
(*                                                                         *)
(* A task adds all its rows in one transaction and writes each point while *)
(* that transaction is open. The flushed rows refer to the workspace, so   *)
(* the database lets nobody remove the workspace row before the            *)
(* transaction ends, and refuses rows of a workspace that is gone (the     *)
(* foreign key that the order of the deletes in delete_workspace serves).  *)
(***************************************************************************)
EXTENDS Naturals, FiniteSets

CONSTANTS
    Tasks,         \* extraction tasks, one per chat exchange
    Memories,      \* ids of the facts that may be extracted
    Users,
    Workspaces,
    TaskOf,        \* TaskOf[m]: the task that may extract fact m
    UserOf,        \* UserOf[t]: owner of the conversation of task t
    WorkspaceOf,   \* WorkspaceOf[t]: workspace of that conversation
    NoMemory

ASSUME StoreAssumption ==
    /\ TaskOf \in [Memories -> Tasks]
    /\ UserOf \in [Tasks -> Users]
    /\ WorkspaceOf \in [Tasks -> Workspaces]
    /\ NoMemory \notin Memories

Owner(m) == UserOf[TaskOf[m]]
Home(m)  == WorkspaceOf[TaskOf[m]]
Of(w)    == {m \in Memories : Home(m) = w}

VARIABLES
    task,       \* task[t]: where the extraction stands
    facts,      \* facts[t]: the facts the model extracted
    flushed,    \* flushed[t]: rows of the open transaction of t
    current,    \* current[t]: the fact being embedded and upserted
    rows,       \* memories with a committed row
    vectors,    \* memories with a point in Qdrant
    deletion,   \* deletion[m]: the request that deletes m
    workspace,  \* workspace[w]: the workspace row, and its delete request
    production  \* settings.is_production, read when the process starts

vars == <<task, facts, flushed, current, rows, vectors, deletion, workspace, production>>

Live == {w \in Workspaces : workspace[w] = "live"}

TypeOK ==
    /\ task \in [Tasks -> {"idle", "adding", "upserting", "saved", "nothing", "failed"}]
    /\ facts \in [Tasks -> SUBSET Memories]
    /\ flushed \in [Tasks -> SUBSET Memories]
    /\ current \in [Tasks -> Memories \cup {NoMemory}]
    /\ rows \subseteq Memories
    /\ vectors \subseteq Memories
    /\ deletion \in [Memories -> {"idle", "found", "removed", "done", "error", "missing"}]
    /\ workspace \in [Workspaces -> {"live", "deleted", "purged", "unpurged"}]
    /\ production \in BOOLEAN

Init ==
    /\ task = [t \in Tasks |-> "idle"]
    /\ facts = [t \in Tasks |-> {}]
    /\ flushed = [t \in Tasks |-> {}]
    /\ current = [t \in Tasks |-> NoMemory]
    /\ rows = {}
    /\ vectors = {}
    /\ deletion = [m \in Memories |-> "idle"]
    /\ workspace = [w \in Workspaces |-> "live"]
    /\ production \in BOOLEAN

-----------------------------------------------------------------------------
(***************************************************************************)
(* extract_and_save_memories                                               *)
(***************************************************************************)
Elsewhere == UNCHANGED <<deletion, workspace, production>>

\* The except branch logs; leaving the session rolls the transaction back.
RollBack(t) ==
    /\ task' = [task EXCEPT ![t] = "failed"]
    /\ flushed' = [flushed EXCEPT ![t] = {}]
    /\ current' = [current EXCEPT ![t] = NoMemory]
    /\ UNCHANGED <<facts, rows>> /\ Elsewhere

\* The model answers with a list of facts, which may be empty.
Extract(t) ==
    /\ task[t] = "idle"
    /\ \E found \in SUBSET {m \in Memories : TaskOf[m] = t} :
         /\ facts' = [facts EXCEPT ![t] = found]
         /\ task' = [task EXCEPT ![t] = IF found = {} THEN "nothing" ELSE "adding"]
    /\ UNCHANGED <<flushed, current, rows, vectors>> /\ Elsewhere

\* The call of the model fails.
ExtractFails(t) ==
    /\ task[t] = "idle"
    /\ RollBack(t)
    /\ UNCHANGED vectors

\* Mutants of Flush: the row is not flushed before its point is written, or
\* it is committed at once.
FlushDeferred(t) ==
    /\ task[t] = "adding"
    /\ \E m \in facts[t] \ flushed[t] : current' = [current EXCEPT ![t] = m]
    /\ task' = [task EXCEPT ![t] = "upserting"]
    /\ UNCHANGED <<facts, flushed, rows, vectors>> /\ Elsewhere

FlushCommits(t) ==
    /\ task[t] = "adding"
    /\ WorkspaceOf[t] \in Live
    /\ \E m \in facts[t] \ flushed[t] :
         /\ flushed' = [flushed EXCEPT ![t] = @ \cup {m}]
         /\ rows' = rows \cup {m}
         /\ current' = [current EXCEPT ![t] = m]
    /\ task' = [task EXCEPT ![t] = "upserting"]
    /\ UNCHANGED <<facts, vectors>> /\ Elsewhere

\* The row of the next fact is flushed, which fixes its id.
Flush(t) ==
    /\ task[t] = "adding"
    /\ WorkspaceOf[t] \in Live
    /\ \E m \in facts[t] \ flushed[t] :
         /\ flushed' = [flushed EXCEPT ![t] = @ \cup {m}]
         /\ current' = [current EXCEPT ![t] = m]
    /\ task' = [task EXCEPT ![t] = "upserting"]
    /\ UNCHANGED <<facts, rows, vectors>> /\ Elsewhere

\* A flush or the commit fails: the database is unreachable, or it refuses
\* the row of a workspace or conversation that is gone.
TransactionFails(t) ==
    /\ task[t] = "adding"
    /\ RollBack(t)
    /\ UNCHANGED vectors

\* The fact is embedded and its point written, in the open transaction.
Upsert(t) ==
    /\ task[t] = "upserting"
    /\ vectors' = vectors \cup {current[t]}
    /\ current' = [current EXCEPT ![t] = NoMemory]
    /\ task' = [task EXCEPT ![t] = "adding"]
    /\ UNCHANGED <<facts, flushed, rows>> /\ Elsewhere

\* Outside production a failed upsert is logged and the task goes on.
UpsertFailsInDev(t) ==
    /\ ~production
    /\ task[t] = "upserting"
    /\ vectors' \in {vectors, vectors \cup {current[t]}}
    /\ current' = [current EXCEPT ![t] = NoMemory]
    /\ task' = [task EXCEPT ![t] = "adding"]
    /\ UNCHANGED <<facts, flushed, rows>> /\ Elsewhere

\* The embedding fails, or in production the upsert does, before or after
\* Qdrant applied it. The points of the earlier facts stay.
UpsertRaises(t) ==
    /\ task[t] = "upserting"
    /\ vectors' \in IF production THEN {vectors, vectors \cup {current[t]}}
                    ELSE {vectors}
    /\ RollBack(t)

\* One commit at the end makes all rows visible.
Commit(t) ==
    /\ task[t] = "adding"
    /\ flushed[t] = facts[t]
    /\ rows' = rows \cup flushed[t]
    /\ flushed' = [flushed EXCEPT ![t] = {}]
    /\ task' = [task EXCEPT ![t] = "saved"]
    /\ UNCHANGED <<facts, current, vectors>> /\ Elsewhere

\* The process that runs the task stops: the database rolls the transaction
\* back and nothing resumes the task. Tasks that another worker process runs go
\* on. (A delete request that is lost with its process leaves what RemoveRow,
\* RemoveVectorFails or PurgeVectors leave when they fail.)
TaskLost(t) ==
    /\ task[t] \in {"adding", "upserting"}
    /\ RollBack(t)
    /\ UNCHANGED vectors

ExtractStep(t) ==
    \/ Extract(t) \/ ExtractFails(t) \/ Flush(t) \/ TransactionFails(t)
    \/ Upsert(t) \/ UpsertFailsInDev(t) \/ UpsertRaises(t) \/ Commit(t)
    \/ TaskLost(t)

-----------------------------------------------------------------------------
(***************************************************************************)
(* delete_memory, called by the owner                                      *)
(***************************************************************************)
Rest == UNCHANGED <<task, facts, flushed, current, workspace, production>>

\* The row is looked up; a repeated request for a removed one gets a 404.
FindMemory(m) ==
    /\ \/ deletion[m] = "idle" /\ m \in rows
       \/ deletion[m] = "error"
    /\ deletion' = [deletion EXCEPT ![m] = IF m \in rows THEN "found" ELSE "missing"]
    /\ UNCHANGED <<rows, vectors>> /\ Rest

\* Mutant of RemoveRow: the point is removed before the commit that may fail.
RemoveRowAndVector(m) ==
    /\ deletion[m] = "found"
    /\ vectors' = vectors \ {m}
    /\ \/ rows' = rows \ {m} /\ deletion' = [deletion EXCEPT ![m] = "removed"]
       \/ rows' = rows /\ deletion' = [deletion EXCEPT ![m] = "error"]
    /\ Rest

\* The row is deleted and committed. A failed commit ends the request.
RemoveRow(m) ==
    /\ deletion[m] = "found"
    /\ \/ rows' = rows \ {m} /\ deletion' = [deletion EXCEPT ![m] = "removed"]
       \/ rows' = rows /\ deletion' = [deletion EXCEPT ![m] = "error"]
    /\ UNCHANGED vectors /\ Rest

\* The point is deleted and the 204 is sent.
RemoveVector(m) ==
    /\ deletion[m] = "removed"
    /\ vectors' = vectors \ {m}
    /\ deletion' = [deletion EXCEPT ![m] = "done"]
    /\ UNCHANGED rows /\ Rest

\* Mutant of RemoveVectorFails: tolerated as elsewhere outside production.
RemoveVectorFailsTolerated(m) ==
    /\ deletion[m] = "removed"
    /\ vectors' \in {vectors, vectors \ {m}}
    /\ deletion' = [deletion EXCEPT ![m] = "done"]
    /\ UNCHANGED rows /\ Rest

\* Qdrant fails; delete_memory_vector raises in every environment.
RemoveVectorFails(m) ==
    /\ deletion[m] = "removed"
    /\ vectors' \in {vectors, vectors \ {m}}
    /\ deletion' = [deletion EXCEPT ![m] = "error"]
    /\ UNCHANGED rows /\ Rest

DeleteStep(m) ==
    FindMemory(m) \/ RemoveRow(m) \/ RemoveVector(m) \/ RemoveVectorFails(m)

-----------------------------------------------------------------------------
(***************************************************************************)
(* delete_workspace, its part for memories                                 *)
(***************************************************************************)
\* Rows that were flushed for the workspace hold off the removal.
Held(w) == \E t \in Tasks : WorkspaceOf[t] = w /\ flushed[t] # {}

\* All rows of the workspace go in one transaction.
RemoveWorkspaceRows(w) ==
    /\ workspace[w] = "live"
    /\ ~Held(w)
    /\ workspace' = [workspace EXCEPT ![w] = "deleted"]
    /\ rows' = rows \ Of(w)
    /\ UNCHANGED <<task, facts, flushed, current, vectors, deletion, production>>

\* Then the points, best effort.
PurgeVectors(w) ==
    /\ workspace[w] = "deleted"
    /\ \/ /\ workspace' = [workspace EXCEPT ![w] = "purged"]
          /\ vectors' = vectors \ Of(w)
       \/ /\ workspace' = [workspace EXCEPT ![w] = "unpurged"]
          /\ vectors' \in {vectors, vectors \ Of(w)}
    /\ UNCHANGED <<task, facts, flushed, current, rows, deletion, production>>

Next ==
    \/ \E t \in Tasks : ExtractStep(t)
    \/ \E m \in Memories : DeleteStep(m)
    \/ \E w \in Workspaces : RemoveWorkspaceRows(w) \/ PurgeVectors(w)

Spec == Init /\ [][Next]_vars

-----------------------------------------------------------------------------
(***************************************************************************)
(* get_relevant_memories: two searches, one by workspace, whoever the      *)
(* memories belong to, and one by user, wherever they come from.           *)
(***************************************************************************)
\* What search_memories may return for the points its filter matches: the three
\* nearest; the scores are left open. When the embedding or a search fails, the
\* answer is empty.
Nearest(points) == {found \in SUBSET points : Cardinality(found) <= 3}

Relevant(u, w) ==
    {a \cup b : a \in Nearest({m \in vectors : Home(m) = w}),
                b \in Nearest({m \in vectors : Owner(m) = u})}

-----------------------------------------------------------------------------
(***************************************************************************)
(* Safety                                                                  *)
(***************************************************************************)

\* The facts of an exchange are remembered together or not at all: rows are
\* visible only for a task whose commit succeeded, and then for each of its
\* facts, except those deleted since.
ExchangeIsAtomic ==
    \A m \in Memories :
        /\ m \in rows => task[TaskOf[m]] = "saved"
        /\ m \in facts[TaskOf[m]] /\ task[TaskOf[m]] = "saved" =>
             m \in rows \/ deletion[m] # "idle" \/ Home(m) \notin Live

\* In production a memory that its owner sees in the list can be found by the
\* search for the prompt: points are written before the row is committed and
\* removed after the row is gone, also when commits fail and the process stops.
RowIsSearchable ==
    production =>
        \A m \in rows : \E found \in Relevant(Owner(m), Home(m)) : m \in found

\* A deletion that was answered 204 is final: no task writes the point of a
\* memory that could already be deleted.
DeletedStaysDeleted ==
    \A m \in Memories : deletion[m] = "done" => m \notin rows /\ m \notin vectors

\* After a workspace was deleted and purged none of its memories reappears in
\* Qdrant: the flush before each upsert holds off the removal of the workspace.
PurgeIsFinal == \A w \in Workspaces : workspace[w] = "purged" => vectors \cap Of(w) = {}

\* A point without a row is left only by a task that is running or failed, by
\* a deletion that did not end with 204, or by a workspace that was not purged.
OrphansAccountedFor ==
    \A m \in vectors \ rows :
        \/ task[TaskOf[m]] \in {"adding", "upserting", "failed"}
        \/ deletion[m] \in {"removed", "error", "missing"}
        \/ workspace[Home(m)] \in {"deleted", "unpurged"}
=============================================================================
