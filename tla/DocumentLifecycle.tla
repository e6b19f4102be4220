------------------------- MODULE DocumentLifecycle -------------------------
(***************************************************************************)
(* The life of an uploaded document across the three stores the backend    *)
(* keeps it in: the raw file on disk, the documents and document_chunks    *)
(* rows of the SQL database, and the points of the Qdrant collection.      *)
(* Three handlers move a document between them, one awaited call at a      *)
(* time, and nothing spans two stores atomically:                          *)
(*   upload_document   routes/documents.py, services/ingestion/service.py  *)
(*   delete_document   routes/documents.py                                 *)
(*   delete_workspace  routes/workspaces.py                                *)
(* Every await is a point where the other handlers may run, where the      *)
(* database or Qdrant may fail, and where the process of the request may   *)
(* stop.  In production several worker processes serve the requests        *)
(* (docker-compose.prod.yml, uvicorn --workers 4): they share the three    *)
(* stores, and each has an SQL connection pool of its own.  A fourth       *)
(* handler, update_settings of routes/workspaces.py, changes the number of *)
(* documents a workspace may hold.                                         *)
(*                                                                         *)
(* A document id is drawn by uuid4 for one upload request, so a request    *)
(* and the document it creates share a name.                               *)
(***************************************************************************)
EXTENDS Naturals, FiniteSets

CONSTANTS
    Docs,          \* document ids, one per upload request
    Workspaces,    \* workspace ids
    Home,          \* Home[d]: the workspace d is uploaded to
    MaxDocuments,  \* settings["max_documents"] of a new workspace
    NewLimits,     \* the values update_settings may give it
    Workers,       \* number of worker processes
    PoolSize,      \* pool_size + max_overflow of the pool of a worker
    IsProduction   \* settings.is_production

ASSUME ConstantsAssumption ==
    /\ IsFiniteSet(Docs)
    /\ Home \in [Docs -> Workspaces]
    /\ MaxDocuments \in Nat
    /\ NewLimits \subseteq Nat
    /\ Workers \in Nat \ {0}
    /\ PoolSize \in Nat \ {0}
    /\ IsProduction \in BOOLEAN

VARIABLES
    infoLogged, \* LOG_LEVEL lets records of level INFO through; errors it lets
                \* through in every configuration of the repository
    upload,     \* upload[d]: where the request that uploads d stands
    limit,      \* limit[d]: the max_docs that request has read, 0 when unused
    row,        \* row[d]: documents.status of d, "none" when there is no row
    chunks,     \* documents with rows in document_chunks
    files,      \* documents whose raw file is on disk
    vectors,    \* documents with points in Qdrant
    deletion,   \* deletion[d]: where the request that deletes d stands
    audit,      \* documents with a "document.deleted" audit record
    workspace,  \* workspace[w]: the workspace row, and its delete request
    settings,   \* settings[w]: settings["max_documents"] of w
    highest,    \* history: highest[w], the most settings[w] has ever been
    overlapped  \* history: uploads that were indexing when delete_workspace
                \* committed the removal of their rows

stores == <<row, chunks, files, vectors>>
quota  == <<limit, settings, highest>>
vars   == <<infoLogged, upload, stores, quota, deletion, audit, workspace, overlapped>>

(***************************************************************************)
(* Phases of an upload request, and what it ends with: created is the 201, *)
(* quota 402, invalid a refused file, missing 404, error 500, lost no      *)
(* answer (the process stopped).  The DocumentError the pipeline is        *)
(* written to raise is not among them, nor is "failed" among the statuses  *)
(* a row can have: see ParseFails.                                         *)
(***************************************************************************)
InFlight == {"counting", "admitted", "stored", "inserted", "parsing", "indexing",
             "reading"}
Outcomes == {"created", "quota", "invalid", "missing", "error", "lost"}

Status   == {"uploaded", "processing", "completed"}
Live     == {w \in Workspaces : workspace[w] = "live"}
Rows(w)  == {d \in Docs : Home[d] = w /\ row[d] # "none"}

\* Requests that hold a pooled connection, from the first query to the commit
\* of the new row, and the connections of all the workers.
Connected   == {d \in Docs : upload[d] \in {"counting", "admitted", "stored"}}
Connections == Workers * PoolSize

TypeOK ==
    /\ infoLogged \in BOOLEAN
    /\ upload \in [Docs -> {"idle"} \cup InFlight \cup Outcomes]
    /\ limit \in [Docs -> Nat]
    /\ row \in [Docs -> Status \cup {"none"}]
    /\ chunks \subseteq Docs
    /\ files \subseteq Docs
    /\ vectors \subseteq Docs
    /\ deletion \in [Docs -> {"idle", "found", "removed", "done", "lost"}]
    /\ audit \subseteq Docs
    /\ workspace \in [Workspaces -> {"live", "deleted", "purged", "unpurged"}]
    /\ settings \in [Workspaces -> Nat]
    /\ highest \in [Workspaces -> Nat]
    /\ overlapped \subseteq Docs

Init ==
    /\ infoLogged \in BOOLEAN
    /\ upload = [d \in Docs |-> "idle"]
    /\ limit = [d \in Docs |-> 0]
    /\ row = [d \in Docs |-> "none"]
    /\ chunks = {}
    /\ files = {}
    /\ vectors = {}
    /\ deletion = [d \in Docs |-> "idle"]
    /\ audit = {}
    /\ workspace = [w \in Workspaces |-> "live"]
    /\ settings = [w \in Workspaces |-> MaxDocuments]
    /\ highest = [w \in Workspaces |-> MaxDocuments]
    /\ overlapped = {}

-----------------------------------------------------------------------------
(***************************************************************************)
(* upload_document                                                         *)
(***************************************************************************)
Ends(d, outcome) == upload' = [upload EXCEPT ![d] = outcome]

Elsewhere == UNCHANGED <<infoLogged, quota, deletion, audit, workspace, overlapped>>

\* get_workspace_member finds no active workspace: 404.
UploadToMissing(d) ==
    /\ upload[d] = "idle"
    /\ Home[d] \notin Live
    /\ Ends(d, "missing")
    /\ UNCHANGED stores /\ Elsewhere

\* The member and the workspace are found and the limit is read. The first of
\* these queries takes the connection; every worker has PoolSize of them.
ReadLimit(d) ==
    /\ upload[d] = "idle"
    /\ Home[d] \in Live
    /\ Cardinality(Connected) < Connections
    /\ limit' = [limit EXCEPT ![d] = settings[Home[d]]]
    /\ Ends(d, "counting")
    /\ UNCHANGED <<infoLogged, stores, settings, highest, deletion, audit, workspace,
                   overlapped>>

\* Mutant of CheckQuota: the comparison is off by one.
CheckQuotaOffByOne(d) ==
    /\ upload[d] = "counting"
    /\ Ends(d, IF Cardinality(Rows(Home[d])) > limit[d] THEN "quota" ELSE "admitted")
    /\ limit' = [limit EXCEPT ![d] = 0]
    /\ UNCHANGED <<infoLogged, stores, settings, highest, deletion, audit, workspace,
                   overlapped>>

\* The documents of the workspace are counted. The limit was read before, and
\* the row it is meant to hold off is inserted later.
CheckQuota(d) ==
    /\ upload[d] = "counting"
    /\ Ends(d, IF Cardinality(Rows(Home[d])) >= limit[d] THEN "quota" ELSE "admitted")
    /\ limit' = [limit EXCEPT ![d] = 0]
    /\ UNCHANGED <<infoLogged, stores, settings, highest, deletion, audit, workspace,
                   overlapped>>

\* validate_file_upload refuses the file, or it cannot be written.
RefuseFile(d) ==
    /\ upload[d] = "admitted"
    /\ \E outcome \in {"invalid", "error"} : Ends(d, outcome)
    /\ UNCHANGED stores /\ Elsewhere

\* The raw file is written before any row exists.
SaveFile(d) ==
    /\ upload[d] = "admitted"
    /\ files' = files \cup {d}
    /\ Ends(d, "stored")
    /\ UNCHANGED <<row, chunks, vectors>> /\ Elsewhere

\* First commit: the row, status "uploaded". The foreign key refuses it once
\* the workspace is gone; nothing removes the file then.
InsertRow(d) ==
    /\ upload[d] = "stored"
    /\ Home[d] \in Live
    /\ row' = [row EXCEPT ![d] = "uploaded"]
    /\ Ends(d, "inserted")
    /\ UNCHANGED <<chunks, files, vectors>> /\ Elsewhere

\* Second commit: status "processing". An UPDATE of a row deleted meanwhile
\* matches nothing and raises.
MarkProcessing(d) ==
    /\ upload[d] = "inserted"
    /\ row[d] # "none"
    /\ row' = [row EXCEPT ![d] = "processing"]
    /\ Ends(d, "parsing")
    /\ UNCHANGED <<chunks, files, vectors>> /\ Elsewhere

\* Mutants of Complete: the row is not checked to be there, or the status is
\* left out.
CompleteUnchecked(d) ==
    /\ upload[d] = "parsing"
    /\ row' = [row EXCEPT ![d] = "completed"]
    /\ chunks' = chunks \cup {d}
    /\ Ends(d, IF infoLogged THEN "error" ELSE "indexing")
    /\ UNCHANGED <<files, vectors>> /\ Elsewhere

CompleteWithoutStatus(d) ==
    /\ upload[d] = "parsing"
    /\ row[d] # "none"
    /\ chunks' = chunks \cup {d}
    /\ Ends(d, IF infoLogged THEN "error" ELSE "indexing")
    /\ UNCHANGED <<row, files, vectors>> /\ Elsewhere

\* Third commit: chunk rows and status "completed" in one transaction. The
\* logger.info after it passes an "extra" with the key "filename", which
\* logging refuses to let overwrite an attribute of the record: where INFO is
\* logged it raises KeyError, and so does the logger.exception of the except
\* branch. The request ends in a 500 with its document complete, unindexed.
Complete(d) ==
    /\ upload[d] = "parsing"
    /\ row[d] # "none"
    /\ row' = [row EXCEPT ![d] = "completed"]
    /\ chunks' = chunks \cup {d}
    /\ Ends(d, IF infoLogged THEN "error" ELSE "indexing")
    /\ UNCHANGED <<files, vectors>> /\ Elsewhere

\* Parser or chunker raises. The except branch is written to commit status
\* "failed" and to raise a DocumentError, but its first statement is the
\* logger.exception with the key "filename" in "extra", which raises KeyError
\* wherever errors are logged: the request ends in a 500 and the row stays
\* "processing". (Only LOG_LEVEL=CRITICAL, which config.py accepts and nothing
\* in the repository sets, would get to the commit; it is left out.)
ParseFails(d) ==
    /\ upload[d] = "parsing"
    /\ Ends(d, "error")
    /\ UNCHANGED stores /\ Elsewhere

\* Mutant of CommitFails: the chunks were committed before the status.
CommitFailsKeepsChunks(d) ==
    /\ upload[d] \in {"stored", "inserted", "parsing"}
    /\ Ends(d, "error")
    /\ chunks' = IF upload[d] = "parsing" /\ row[d] # "none" THEN chunks \cup {d} ELSE chunks
    /\ UNCHANGED <<row, files, vectors>> /\ Elsewhere

\* A commit of the pipeline fails: the database refuses it, or the row it
\* updates or the workspace it refers to is gone. Before the try block the
\* error goes straight to the client. Inside it the except branch raises in
\* turn, so the row keeps the status of the last commit that succeeded.
CommitFails(d) ==
    /\ upload[d] \in {"stored", "inserted", "parsing"}
    /\ Ends(d, "error")
    /\ UNCHANGED stores /\ Elsewhere

\* index_document embeds the chunks and upserts the points.
Index(d) ==
    /\ upload[d] = "indexing"
    /\ vectors' = vectors \cup {d}
    /\ Ends(d, "reading")
    /\ UNCHANGED <<row, chunks, files>> /\ Elsewhere

\* The upsert fails, after or before Qdrant applied it. Outside production
\* upsert_vectors swallows the error.
UpsertFailsInDev(d) ==
    /\ ~IsProduction
    /\ upload[d] = "indexing"
    /\ vectors' \in {vectors, vectors \cup {d}}
    /\ Ends(d, "reading")
    /\ UNCHANGED <<row, chunks, files>> /\ Elsewhere

\* Mutant of IndexRaises: the failure is logged and the upload goes on.
IndexRaisesTolerated(d) ==
    /\ upload[d] = "indexing"
    /\ vectors' \in IF IsProduction THEN {vectors, vectors \cup {d}} ELSE {vectors}
    /\ Ends(d, "reading")
    /\ UNCHANGED <<row, chunks, files>> /\ Elsewhere

\* An error leaves index_document: the embedding failed, or in production
\* the upsert did. The handler of the route names a module it never
\* imported, so the request ends in a 500 although the document is complete.
IndexRaises(d) ==
    /\ upload[d] = "indexing"
    /\ vectors' \in IF IsProduction THEN {vectors, vectors \cup {d}} ELSE {vectors}
    /\ Ends(d, "error")
    /\ UNCHANGED <<row, chunks, files>> /\ Elsewhere

\* Mutants of Respond: the answer is not taken from the store, or is only
\* given when the document is found.
RespondUnread(d) ==
    /\ upload[d] = "reading"
    /\ Ends(d, "created")
    /\ UNCHANGED stores /\ Elsewhere

RespondOnlyIfFound(d) ==
    /\ upload[d] = "reading"
    /\ row[d] # "none"
    /\ Ends(d, "created")
    /\ UNCHANGED stores /\ Elsewhere

\* The document is read back for the answer.
Respond(d) ==
    /\ upload[d] = "reading"
    /\ Ends(d, IF row[d] = "none" THEN "missing" ELSE "created")
    /\ UNCHANGED stores /\ Elsewhere

\* The worker process that runs the request stops. The requests of a worker are
\* lost with it, those of the others go on: which are lost together is left
\* open, so they are lost one by one. lifespan repairs nothing when a process
\* starts again.
UploadLost(d) ==
    /\ upload[d] \in InFlight
    /\ Ends(d, "lost")
    /\ limit' = [limit EXCEPT ![d] = 0]
    /\ UNCHANGED <<infoLogged, stores, settings, highest, deletion, audit, workspace,
                   overlapped>>

UploadStep(d) ==
    \/ CheckQuota(d) \/ RefuseFile(d) \/ SaveFile(d)
    \/ InsertRow(d) \/ MarkProcessing(d)
    \/ Complete(d) \/ ParseFails(d) \/ CommitFails(d)
    \/ Index(d) \/ UpsertFailsInDev(d) \/ IndexRaises(d) \/ Respond(d)

-----------------------------------------------------------------------------
(***************************************************************************)
(* delete_document, by a caller whose role allows it                       *)
(***************************************************************************)
FindForDelete(d) ==
    /\ deletion[d] \in {"idle", "lost"}
    /\ row[d] # "none"
    /\ Home[d] \in Live
    /\ deletion' = [deletion EXCEPT ![d] = "found"]
    /\ UNCHANGED <<infoLogged, upload, stores, quota, audit, workspace, overlapped>>

\* The row and, through the ORM cascade, its chunks are deleted and committed.
\* Neither the points in Qdrant nor the file are touched.
RemoveRow(d) ==
    /\ deletion[d] = "found"
    /\ row' = [row EXCEPT ![d] = "none"]
    /\ chunks' = chunks \ {d}
    /\ deletion' = [deletion EXCEPT ![d] = "removed"]
    /\ UNCHANGED <<infoLogged, upload, files, vectors, quota, audit, workspace, overlapped>>

\* A second transaction records the action, which refers to the workspace. The
\* record is read back, which may fail, and the 204 is sent.
AuditDeletion(d) ==
    /\ deletion[d] = "removed"
    /\ Home[d] \in Live
    /\ audit' = audit \cup {d}
    /\ \E end \in {"done", "lost"} : deletion' = [deletion EXCEPT ![d] = end]
    /\ UNCHANGED <<infoLogged, upload, stores, quota, workspace, overlapped>>

\* Either commit fails and the request ends with a 500, or its process stops.
DeletionFails(d) ==
    /\ deletion[d] \in {"found", "removed"}
    /\ deletion' = [deletion EXCEPT ![d] = "lost"]
    /\ UNCHANGED <<infoLogged, upload, stores, quota, audit, workspace, overlapped>>

DeletionStep(d) == RemoveRow(d) \/ AuditDeletion(d) \/ DeletionFails(d)

-----------------------------------------------------------------------------
(***************************************************************************)
(* delete_workspace, by an owner                                           *)
(***************************************************************************)
In(w) == {d \in Docs : Home[d] = w}

\* One transaction removes chunks, documents and the workspace row.
RemoveWorkspaceRows(w) ==
    /\ workspace[w] = "live"
    /\ workspace' = [workspace EXCEPT ![w] = "deleted"]
    /\ row' = [d \in Docs |-> IF d \in In(w) THEN "none" ELSE row[d]]
    /\ chunks' = chunks \ In(w)
    /\ overlapped' = overlapped \cup {d \in In(w) : upload[d] = "indexing"}
    /\ UNCHANGED <<infoLogged, upload, files, vectors, quota, deletion, audit>>

\* Then the points that carry the workspace_id are deleted from Qdrant.
PurgeVectors(w) ==
    /\ workspace[w] = "deleted"
    /\ workspace' = [workspace EXCEPT ![w] = "purged"]
    /\ vectors' = vectors \ In(w)
    /\ UNCHANGED <<infoLogged, upload, row, chunks, files, quota, deletion, audit,
                   overlapped>>

\* Both callers of the Qdrant client swallow its failure, or the process stops
\* before the call is made; nobody retries.
PurgeFails(w) ==
    /\ workspace[w] = "deleted"
    /\ workspace' = [workspace EXCEPT ![w] = "unpurged"]
    /\ vectors' \in {vectors, vectors \ In(w)}
    /\ UNCHANGED <<infoLogged, upload, row, chunks, files, quota, deletion, audit,
                   overlapped>>

WorkspaceStep(w) == PurgeVectors(w) \/ PurgeFails(w)

-----------------------------------------------------------------------------
(***************************************************************************)
(* update_settings, by an admin or owner                                   *)
(***************************************************************************)
\* The limit of a workspace changes, up or down. The column is written whole, so
\* a request for the other field puts back a limit it has read, which may be an
\* earlier one. A negative limit is taken like zero by upload_document.
UpdateSettings(w) ==
    /\ workspace[w] = "live"
    /\ \E m \in NewLimits \cup {MaxDocuments} :
          /\ settings' = [settings EXCEPT ![w] = m]
          /\ highest' = [highest EXCEPT ![w] = IF m > @ THEN m ELSE @]
    /\ UNCHANGED <<infoLogged, upload, limit, stores, deletion, audit, workspace,
                   overlapped>>

-----------------------------------------------------------------------------
Next ==
    \/ \E d \in Docs : \/ UploadToMissing(d) \/ ReadLimit(d) \/ UploadStep(d)
                       \/ UploadLost(d) \/ FindForDelete(d) \/ DeletionStep(d)
    \/ \E w \in Workspaces : \/ RemoveWorkspaceRows(w) \/ WorkspaceStep(w)
                             \/ UpdateSettings(w)

\* The event loop of a worker runs every handler it has started to its end;
\* nothing makes a client send a request.
Fairness ==
    /\ \A d \in Docs : WF_vars(UploadStep(d)) /\ WF_vars(DeletionStep(d))
    /\ \A w \in Workspaces : WF_vars(WorkspaceStep(w))

Spec == Init /\ [][Next]_vars /\ Fairness

-----------------------------------------------------------------------------
(***************************************************************************)
(* Safety                                                                  *)
(***************************************************************************)

\* Chunk rows exist only for a document whose row says "completed": no reader
\* of the database ever sees part of a failed or unfinished ingestion,
\* whatever commit failed and whenever the process stopped
\* (ingestion/service.py, step 7 and 8 share one transaction).
NoPartialContent == \A d \in chunks : row[d] = "completed"

\* A point in Qdrant was written from content that was committed first: its
\* document is completed, or was and has been deleted since. The vector
\* index never runs ahead of the database (routes/documents.py indexes after
\* ingest_document returned).
VectorsFollowCommit == \A d \in vectors : row[d] \in {"completed", "none"}

\* A row shows a status short of "completed" only while its request is at the
\* commit after that status, or was lost or answered with a 500 there: a request
\* that got any further has settled its document, and one answered 402, 404 or
\* with a refused file has left none behind. (That a 500 leaves a row at
\* "processing" for good is what the code does, also for a file its parsers
\* refuse: ingestion/service.py:156 raises before the status is set.)
UnsettledOnlyInFlight ==
    \A d \in Docs :
        /\ row[d] = "uploaded" => upload[d] \in {"inserted", "error", "lost"}
        /\ row[d] = "processing" => upload[d] \in {"parsing", "error", "lost"}
        /\ upload[d] \in {"quota", "invalid", "missing"} => row[d] = "none"

\* The quota is read, compared and used in different transactions, so concurrent
\* uploads overshoot it, and so they do when the limit is lowered. But a
\* workspace never holds more documents than the highest limit it ever had, plus
\* the requests that can sit between the comparison and the commit: each of them
\* holds a connection, of the pool of one of the workers.
QuotaOvershootBounded ==
    \A w \in Workspaces : Cardinality(Rows(w)) < highest[w] + Connections

\* After a workspace was deleted and Qdrant purged, the only points that can
\* reappear under its id were written by uploads that were already indexing
\* when the rows were removed: no other upload gets as far as Qdrant.
PurgeOnlyRacesIndexing ==
    \A d \in vectors : workspace[Home[d]] = "purged" => d \in overlapped

\* In production a document whose upload was answered with 201 can be searched
\* for as long as its chunks exist: an indexing failure never passes for a
\* success, and no purge takes the points of a document that still exists.
AnsweredIsIndexed ==
    IsProduction => \A d \in chunks : upload[d] = "created" => d \in vectors

(***************************************************************************)
(* Action properties                                                       *)
(***************************************************************************)
\* The steps of the pipeline from one committed status to the next.
Advances ==
    {<<"none", "uploaded">>, <<"uploaded", "processing">>,
     <<"processing", "completed">>}

\* How the row of d may change.
StatusStep(d) ==
    \/ row'[d] = "none"
    \/ /\ <<row[d], row'[d]>> \in Advances
       /\ row[d] = "none" => d \notin audit /\ deletion[d] = "idle" /\ Home[d] \in Live

\* A status only moves forward along the pipeline. In particular a pipeline
\* step that runs after the document, or its workspace, was deleted never
\* brings the row back.
StatusMovesForward == [][\A d \in Docs : row'[d] # row[d] => StatusStep(d)]_vars

\* The client is told 201 only for a document that is completed and stored at
\* that moment, and 204 only for one that is gone and whose deletion is on record.
AnswersMatchStore ==
    [][\A d \in Docs :
         /\ upload[d] # "created" /\ upload'[d] = "created" =>
              row[d] = "completed" /\ d \in chunks
         /\ deletion[d] # "done" /\ deletion'[d] = "done" =>
              row'[d] = "none" /\ d \notin chunks' /\ d \in audit'
      ]_vars

(***************************************************************************)
(* Liveness                                                                *)
(***************************************************************************)

\* Every upload that was admitted is answered, also when its document or its
\* workspace is deleted under it, unless the process stops.
UploadsAreAnswered ==
    \A d \in Docs : upload[d] \in InFlight ~> upload[d] \in Outcomes
=============================================================================
