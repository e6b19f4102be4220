---------------------- MODULE DocumentLifecycleProofs ----------------------
(***************************************************************************)
(* Theorems about DocumentLifecycle, for any finite set of documents, any  *)
(* limits of documents, any number of workers, any pool size and both      *)
(* settings of IsProduction and of the log level.                          *)
(***************************************************************************)
EXTENDS DocumentLifecycle, FiniteSetTheorems, TLAPS

-----------------------------------------------------------------------------
\* The stores start empty and no request has been sent.
LEMMA TypeInit == Init => TypeOK
  BY ConstantsAssumption DEF Init, TypeOK, InFlight, Outcomes, Status

\* No step of any handler leaves the types.
LEMMA TypeStep == TypeOK /\ [Next]_vars => TypeOK'
<1> USE DEF TypeOK, InFlight, Outcomes, Status, Ends, stores, quota, Elsewhere
<1> SUFFICES ASSUME TypeOK, [Next]_vars PROVE TypeOK'
  OBVIOUS
<1>1. ASSUME NEW d \in Docs, UploadToMissing(d) \/ ReadLimit(d) \/ UploadLost(d) PROVE TypeOK'
  BY <1>1, ConstantsAssumption DEF UploadToMissing, ReadLimit, UploadLost
<1>2. ASSUME NEW d \in Docs, UploadStep(d) PROVE TypeOK'
  <2>1. CASE CheckQuota(d) \/ RefuseFile(d) \/ SaveFile(d) \/ ParseFails(d) \/ CommitFails(d) \/ Respond(d)
    BY <2>1 DEF CheckQuota, RefuseFile, SaveFile, ParseFails, CommitFails, Respond
  <2>2. CASE InsertRow(d)
    BY <2>2 DEF InsertRow
  <2>3. CASE MarkProcessing(d)
    BY <2>3 DEF MarkProcessing
  <2>4. CASE Complete(d)
    BY <2>4 DEF Complete
  <2>5. CASE Index(d) \/ UpsertFailsInDev(d) \/ IndexRaises(d)
    BY <2>5 DEF Index, UpsertFailsInDev, IndexRaises
  <2>6. QED
    BY <1>2, <2>1, <2>2, <2>3, <2>4, <2>5 DEF UploadStep
<1>3. ASSUME NEW d \in Docs, FindForDelete(d) \/ DeletionStep(d) PROVE TypeOK'
  BY <1>3 DEF FindForDelete, DeletionStep, RemoveRow, AuditDeletion, DeletionFails
<1>4. ASSUME NEW w \in Workspaces, RemoveWorkspaceRows(w) PROVE TypeOK'
  BY <1>4 DEF RemoveWorkspaceRows, In
<1>5. ASSUME NEW w \in Workspaces, WorkspaceStep(w) PROVE TypeOK'
  BY <1>5 DEF WorkspaceStep, PurgeVectors, PurgeFails, In
<1>6. ASSUME NEW w \in Workspaces, UpdateSettings(w) PROVE TypeOK'
  <2>1. PICK m \in NewLimits \cup {MaxDocuments} :
          /\ settings' = [settings EXCEPT ![w] = m]
          /\ highest' = [highest EXCEPT ![w] = IF m > @ THEN m ELSE @]
    BY <1>6 DEF UpdateSettings
  <2>2. m \in Nat
    BY ConstantsAssumption
  <2>3. QED
    BY <1>6, <2>1, <2>2 DEF UpdateSettings
<1>7. CASE UNCHANGED vars
  BY <1>7 DEF vars
<1>8. QED
  BY <1>1, <1>2, <1>3, <1>4, <1>5, <1>6, <1>7 DEF Next

\* Type correctness: every store only ever holds the model's documents, and
\* every request stands at a phase of its handler.
THEOREM TypeCorrect == Spec => []TypeOK
  BY TypeInit, TypeStep, PTL DEF Spec

-----------------------------------------------------------------------------
(***************************************************************************)
(* The inductive invariant behind the agreement of the stores: how far the *)
(* request of a document has come bounds what its row and its points can   *)
(* be, and the row may always have been deleted under the request.         *)
(***************************************************************************)
PhaseBoundsStores ==
    \A d \in Docs :
      /\ upload[d] \in {"idle", "counting", "admitted", "stored"} =>
           row[d] = "none" /\ d \notin vectors
      /\ upload[d] = "inserted" => row[d] \in {"uploaded", "none"} /\ d \notin vectors
      /\ upload[d] = "parsing" => row[d] \in {"processing", "none"} /\ d \notin vectors
      /\ upload[d] \in {"indexing", "reading"} => row[d] \in {"completed", "none"}

StoresInv == TypeOK /\ PhaseBoundsStores /\ NoPartialContent /\ VectorsFollowCommit

\* Each action keeps the stores in agreement with the phases.
LEMMA StoresInvInductive == StoresInv /\ [Next]_vars => StoresInv'
<1> USE DEF TypeOK, InFlight, Outcomes, Status, Ends, stores, quota, Elsewhere
<1> SUFFICES ASSUME StoresInv, [Next]_vars, TypeOK'
             PROVE  /\ PhaseBoundsStores'
                    /\ NoPartialContent'
                    /\ VectorsFollowCommit'
  BY TypeStep DEF StoresInv
<1> USE DEF StoresInv, PhaseBoundsStores, NoPartialContent, VectorsFollowCommit
<1> DEFINE Goal == /\ PhaseBoundsStores' /\ NoPartialContent' /\ VectorsFollowCommit'
<1>1. ASSUME NEW d \in Docs, UploadToMissing(d) \/ ReadLimit(d) \/ UploadLost(d) PROVE Goal
  BY <1>1 DEF UploadToMissing, ReadLimit, UploadLost
<1>2. ASSUME NEW d \in Docs, UploadStep(d) PROVE Goal
  <2>1. CASE CheckQuota(d) \/ RefuseFile(d) \/ SaveFile(d) \/ ParseFails(d) \/ CommitFails(d) \/ Respond(d)
    BY <2>1 DEF CheckQuota, RefuseFile, SaveFile, ParseFails, CommitFails, Respond
  <2>2. CASE InsertRow(d)
    BY <2>2 DEF InsertRow
  <2>3. CASE MarkProcessing(d)
    BY <2>3 DEF MarkProcessing
  <2>4. CASE Complete(d)
    BY <2>4 DEF Complete
  <2>5. CASE Index(d)
    BY <2>5 DEF Index
  <2>6. CASE UpsertFailsInDev(d)
    BY <2>6 DEF UpsertFailsInDev
  <2>7. CASE IndexRaises(d)
    BY <2>7 DEF IndexRaises
  <2>8. QED
    BY <1>2, <2>1, <2>2, <2>3, <2>4, <2>5, <2>6, <2>7 DEF UploadStep
<1>3. ASSUME NEW d \in Docs, FindForDelete(d) \/ AuditDeletion(d) \/ DeletionFails(d)
      PROVE  Goal
  BY <1>3 DEF FindForDelete, AuditDeletion, DeletionFails
<1>4. ASSUME NEW d \in Docs, RemoveRow(d) PROVE Goal
  BY <1>4 DEF RemoveRow
<1>5. ASSUME NEW w \in Workspaces, RemoveWorkspaceRows(w) PROVE Goal
  BY <1>5 DEF RemoveWorkspaceRows, In
<1>6. ASSUME NEW w \in Workspaces, WorkspaceStep(w) PROVE Goal
  BY <1>6 DEF WorkspaceStep, PurgeVectors, PurgeFails, In
<1>7. ASSUME NEW w \in Workspaces, UpdateSettings(w) PROVE Goal
  BY <1>7 DEF UpdateSettings
<1>8. CASE UNCHANGED vars
  BY <1>8 DEF vars
<1>9. QED
  BY <1>1, <1>2, <1>3, <1>4, <1>5, <1>6, <1>7, <1>8 DEF Next, DeletionStep

\* The strengthened invariant holds in every reachable state.
LEMMA StoresInvariant == Spec => []StoresInv
<1>1. Init => StoresInv
  BY TypeInit DEF Init, StoresInv, PhaseBoundsStores, NoPartialContent, VectorsFollowCommit
<1>2. QED
  BY <1>1, StoresInvInductive, PTL DEF Spec

\* Whatever fails and whoever deletes, chunk rows belong to completed
\* documents only: no reader sees part of an ingestion.
THEOREM NoPartialContentHolds == Spec => []NoPartialContent
  BY StoresInvariant, PTL DEF StoresInv

\* Qdrant never holds a point whose content was not committed to the database
\* before.
THEOREM VectorsFollowCommitHolds == Spec => []VectorsFollowCommit
  BY StoresInvariant, PTL DEF StoresInv

-----------------------------------------------------------------------------
(***************************************************************************)
(* Deleting a workspace.  Once its row is gone no document of it has a     *)
(* row, so no request of it can commit and reach the indexing phase: the   *)
(* ones that index are those recorded at the deletion.                     *)
(***************************************************************************)
DeletedHasNoRows ==
    \A d \in Docs : workspace[Home[d]] # "live" =>
      /\ row[d] = "none"
      /\ upload[d] = "indexing" => d \in overlapped

PurgeInv == TypeOK /\ DeletedHasNoRows /\ PurgeOnlyRacesIndexing

\* Each action keeps it: only InsertRow creates a row, for a live workspace,
\* and only Complete starts indexing, for a document that has a row.
LEMMA PurgeInvInductive == PurgeInv /\ [Next]_vars => PurgeInv'
<1> USE ConstantsAssumption
    DEF TypeOK, InFlight, Outcomes, Status, Ends, stores, quota, Elsewhere, Live
<1> SUFFICES ASSUME PurgeInv, [Next]_vars, TypeOK'
             PROVE  DeletedHasNoRows' /\ PurgeOnlyRacesIndexing'
  BY TypeStep DEF PurgeInv
<1> USE DEF PurgeInv, DeletedHasNoRows, PurgeOnlyRacesIndexing
<1> DEFINE Goal == DeletedHasNoRows' /\ PurgeOnlyRacesIndexing'
<1>1. ASSUME NEW d \in Docs, UploadToMissing(d) \/ ReadLimit(d) \/ UploadLost(d) PROVE Goal
  BY <1>1 DEF UploadToMissing, ReadLimit, UploadLost
<1>2. ASSUME NEW d \in Docs, UploadStep(d) PROVE Goal
  <2>1. CASE CheckQuota(d) \/ RefuseFile(d) \/ SaveFile(d) \/ ParseFails(d) \/ CommitFails(d) \/ Respond(d)
    BY <2>1 DEF CheckQuota, RefuseFile, SaveFile, ParseFails, CommitFails, Respond
  <2>2. CASE InsertRow(d)
    BY <2>2 DEF InsertRow
  <2>3. CASE MarkProcessing(d)
    BY <2>3 DEF MarkProcessing
  <2>4. CASE Complete(d)
    BY <2>4 DEF Complete
  <2>5. CASE Index(d)
    BY <2>5 DEF Index
  <2>6. CASE UpsertFailsInDev(d)
    BY <2>6 DEF UpsertFailsInDev
  <2>7. CASE IndexRaises(d)
    BY <2>7 DEF IndexRaises
  <2>8. QED
    BY <1>2, <2>1, <2>2, <2>3, <2>4, <2>5, <2>6, <2>7 DEF UploadStep
<1>3. ASSUME NEW d \in Docs, FindForDelete(d) \/ DeletionStep(d) PROVE Goal
  BY <1>3 DEF FindForDelete, DeletionStep, RemoveRow, AuditDeletion, DeletionFails
<1>4. ASSUME NEW w \in Workspaces, RemoveWorkspaceRows(w) PROVE Goal
  BY <1>4 DEF RemoveWorkspaceRows, In
<1>5. ASSUME NEW w \in Workspaces, PurgeVectors(w) PROVE Goal
  BY <1>5 DEF PurgeVectors, In
<1>6. ASSUME NEW w \in Workspaces, PurgeFails(w) PROVE Goal
  BY <1>6 DEF PurgeFails, In
<1>7. ASSUME NEW w \in Workspaces, UpdateSettings(w) PROVE Goal
  BY <1>7 DEF UpdateSettings
<1>8. CASE UNCHANGED vars
  BY <1>8 DEF vars
<1>9. QED
  BY <1>1, <1>2, <1>3, <1>4, <1>5, <1>6, <1>7, <1>8 DEF Next, WorkspaceStep

\* After a successful purge only uploads that were indexing when the rows
\* were removed can leave points behind.
THEOREM PurgeOnlyRacesIndexingHolds == Spec => []PurgeOnlyRacesIndexing
<1>1. Init => PurgeInv
  BY TypeInit, ConstantsAssumption
     DEF Init, PurgeInv, DeletedHasNoRows, PurgeOnlyRacesIndexing
<1>2. PurgeInv => PurgeOnlyRacesIndexing
  BY DEF PurgeInv
<1>3. QED
  BY <1>1, <1>2, PurgeInvInductive, PTL DEF Spec

-----------------------------------------------------------------------------
(***************************************************************************)
(* What a 201 promises in production.  A request leaves the indexing phase *)
(* for the answer only with its points written, and a purge finds chunks   *)
(* of no document that it takes the points of.                             *)
(***************************************************************************)
IndexedWhenRead ==
    IsProduction =>
      \A d \in chunks : upload[d] \in {"reading", "created"} => d \in vectors

AnswerInv == StoresInv /\ PurgeInv /\ IndexedWhenRead

\* Each action keeps it: only Complete adds chunks, before the indexing phase,
\* and only a purge removes points, of documents without a row.
LEMMA AnswerInvInductive == AnswerInv /\ [Next]_vars => AnswerInv'
<1> USE ConstantsAssumption
    DEF TypeOK, InFlight, Outcomes, Status, Ends, stores, quota, Elsewhere
<1> SUFFICES ASSUME AnswerInv, [Next]_vars, TypeOK
             PROVE  IndexedWhenRead'
  BY StoresInvInductive, PurgeInvInductive DEF AnswerInv, PurgeInv
<1> USE DEF AnswerInv, IndexedWhenRead
<1>1. ASSUME NEW d \in Docs, UploadToMissing(d) \/ ReadLimit(d) \/ UploadLost(d) PROVE IndexedWhenRead'
  BY <1>1 DEF UploadToMissing, ReadLimit, UploadLost
<1>2. ASSUME NEW d \in Docs, UploadStep(d) PROVE IndexedWhenRead'
  <2>1. CASE CheckQuota(d) \/ RefuseFile(d) \/ SaveFile(d) \/ ParseFails(d) \/ CommitFails(d) \/ Respond(d)
    BY <2>1 DEF CheckQuota, RefuseFile, SaveFile, ParseFails, CommitFails, Respond
  <2>2. CASE InsertRow(d) \/ MarkProcessing(d) \/ Complete(d)
    BY <2>2 DEF InsertRow, MarkProcessing, Complete
  <2>3. CASE Index(d) \/ UpsertFailsInDev(d) \/ IndexRaises(d)
    BY <2>3 DEF Index, UpsertFailsInDev, IndexRaises
  <2>4. QED
    BY <1>2, <2>1, <2>2, <2>3 DEF UploadStep
<1>3. ASSUME NEW d \in Docs, FindForDelete(d) \/ DeletionStep(d) PROVE IndexedWhenRead'
  BY <1>3 DEF FindForDelete, DeletionStep, RemoveRow, AuditDeletion, DeletionFails
<1>4. ASSUME NEW w \in Workspaces, RemoveWorkspaceRows(w) PROVE IndexedWhenRead'
  BY <1>4 DEF RemoveWorkspaceRows, In
<1>5. ASSUME NEW w \in Workspaces, WorkspaceStep(w) PROVE IndexedWhenRead'
  <2>1. chunks \cap In(w) = {}
    BY <1>5 DEF WorkspaceStep, PurgeVectors, PurgeFails, In, StoresInv, NoPartialContent,
                PurgeInv, DeletedHasNoRows
  <2>2. QED
    BY <1>5, <2>1 DEF WorkspaceStep, PurgeVectors, PurgeFails
<1>6. ASSUME NEW w \in Workspaces, UpdateSettings(w) PROVE IndexedWhenRead'
  BY <1>6 DEF UpdateSettings
<1>7. CASE UNCHANGED vars
  BY <1>7 DEF vars
<1>8. QED
  BY <1>1, <1>2, <1>3, <1>4, <1>5, <1>6, <1>7 DEF Next

\* In production an upload answered with 201 can be searched while it exists.
THEOREM AnsweredIsIndexedHolds == Spec => []AnsweredIsIndexed
<1>1. Init => AnswerInv
  BY TypeInit, ConstantsAssumption
     DEF Init, AnswerInv, StoresInv, PurgeInv, PhaseBoundsStores, NoPartialContent,
         VectorsFollowCommit, DeletedHasNoRows, PurgeOnlyRacesIndexing, IndexedWhenRead
<1>2. AnswerInv => AnsweredIsIndexed
  BY DEF AnswerInv, IndexedWhenRead, AnsweredIsIndexed
<1>3. QED
  BY <1>1, <1>2, AnswerInvInductive, PTL DEF Spec

-----------------------------------------------------------------------------
(***************************************************************************)
(* The quota.  A place is claimed by a row, and by a request between the   *)
(* comparison and the insertion of its row.  InsertRow turns one claim     *)
(* into the other; only CheckQuota adds one, when fewer rows exist than    *)
(* the limit it has read.  Every claim without a row holds a connection,   *)
(* as the request that adds one does before it is added.                   *)
(***************************************************************************)
Admitted  == {d \in Docs : upload[d] \in {"admitted", "stored"}}
Claims(w) == Rows(w) \cup {d \in Admitted : Home[d] = w}

QuotaInv ==
    /\ TypeOK
    /\ Cardinality(Connected) <= Connections
    /\ \A d \in Docs : limit[d] <= highest[Home[d]]
    /\ \A w \in Workspaces : /\ settings[w] <= highest[w]
                             /\ Cardinality(Claims(w)) < highest[w] + Connections

\* There is at least one connection.
LEMMA ConnectionsType == Connections \in Nat \ {0}
<1>1. Workers \in Nat \ {0} /\ PoolSize \in Nat \ {0}
  BY ConstantsAssumption
<1>2. \A m, n \in Nat \ {0} : m * n \in Nat \ {0}
  OBVIOUS
<1>3. QED
  BY <1>1, <1>2 DEF Connections

\* A set of documents is finite, and a part of it is no larger.
LEMMA DocSetBounds ==
    ASSUME NEW S \in SUBSET Docs, NEW T \in SUBSET S
    PROVE  /\ IsFiniteSet(S) /\ IsFiniteSet(T)
           /\ Cardinality(S) \in Nat /\ Cardinality(T) \in Nat
           /\ Cardinality(T) <= Cardinality(S)
  BY ConstantsAssumption, FS_Subset, FS_CardinalityType

\* A union has at most as many elements as its parts together.
LEMMA UnionBound ==
    ASSUME NEW S, IsFiniteSet(S), NEW T, IsFiniteSet(T)
    PROVE  Cardinality(S \cup T) <= Cardinality(S) + Cardinality(T)
<1>1. /\ Cardinality(S) \in Nat /\ Cardinality(T) \in Nat
      /\ Cardinality(S \cap T) \in Nat
  BY FS_Intersection, FS_CardinalityType
<1>2. Cardinality(S \cup T) = Cardinality(S) + Cardinality(T) - Cardinality(S \cap T)
  BY FS_Union
<1>3. QED
  BY <1>1, <1>2

\* Adding one element makes a set at most one larger.
LEMMA AddBound ==
    ASSUME NEW S, IsFiniteSet(S), NEW x
    PROVE  IsFiniteSet(S \cup {x}) /\ Cardinality(S \cup {x}) <= Cardinality(S) + 1
<1>1. Cardinality(S) \in Nat
  BY FS_CardinalityType
<1>2. /\ IsFiniteSet(S \cup {x})
      /\ Cardinality(S \cup {x}) = IF x \in S THEN Cardinality(S) ELSE Cardinality(S) + 1
  BY FS_AddElement
<1>3. QED
  BY <1>1, <1>2

\* Only ReadLimit takes a connection, and only one that is free.
LEMMA ConnectedBounded ==
    ASSUME QuotaInv, [Next]_vars
    PROVE  Cardinality(Connected') <= Connections
<1> USE DEF QuotaInv, TypeOK, InFlight, Outcomes, Status, Ends, stores, quota, Elsewhere
<1>1. CASE Connected' \subseteq Connected
  <2>1. Connected \in SUBSET Docs /\ Connected' \in SUBSET Connected
    BY <1>1 DEF Connected
  <2> HIDE DEF QuotaInv
  <2>2. Cardinality(Connected') <= Cardinality(Connected)
        /\ Cardinality(Connected) \in Nat /\ Cardinality(Connected') \in Nat
    BY <2>1, DocSetBounds
  <2>3. QED
    BY <2>2, ConnectionsType DEF QuotaInv
<1>2. ASSUME NEW d \in Docs, ReadLimit(d) PROVE Cardinality(Connected') <= Connections
  <2>1. Connected' = Connected \cup {d} /\ Cardinality(Connected) < Connections
    BY <1>2 DEF ReadLimit, Connected
  <2>2. Connected \in SUBSET Docs
    BY DEF Connected
  <2>3. IsFiniteSet(Connected) /\ Cardinality(Connected) \in Nat
    BY <2>2, DocSetBounds
  <2>4. /\ Cardinality(Connected \cup {d}) <= Cardinality(Connected) + 1
        /\ IsFiniteSet(Connected \cup {d})
    BY <2>3, AddBound
  <2>5. Cardinality(Connected \cup {d}) \in Nat
    BY <2>4, FS_CardinalityType
  <2>6. QED
    BY <2>1, <2>3, <2>4, <2>5, ConnectionsType
<1>3. ASSUME NEW d \in Docs, UploadToMissing(d) \/ UploadLost(d) \/ UploadStep(d)
      PROVE  Connected' \subseteq Connected
  <2> USE DEF Connected
  <2>1. CASE UploadToMissing(d) \/ UploadLost(d) \/ CheckQuota(d) \/ RefuseFile(d) \/ SaveFile(d)
    BY <2>1 DEF UploadToMissing, UploadLost, CheckQuota, RefuseFile, SaveFile
  <2>2. CASE InsertRow(d) \/ MarkProcessing(d) \/ Complete(d) \/ ParseFails(d) \/ CommitFails(d)
    BY <2>2 DEF InsertRow, MarkProcessing, Complete, ParseFails, CommitFails
  <2>3. CASE Index(d) \/ UpsertFailsInDev(d) \/ IndexRaises(d) \/ Respond(d)
    BY <2>3 DEF Index, UpsertFailsInDev, IndexRaises, Respond
  <2>4. QED
    BY <1>3, <2>1, <2>2, <2>3 DEF UploadStep
<1>4. ASSUME NEW d \in Docs, FindForDelete(d) \/ DeletionStep(d)
      PROVE  Connected' \subseteq Connected
  BY <1>4 DEF FindForDelete, DeletionStep, RemoveRow, AuditDeletion, DeletionFails, Connected
<1>5. ASSUME NEW w \in Workspaces, RemoveWorkspaceRows(w) \/ WorkspaceStep(w) \/ UpdateSettings(w)
      PROVE  Connected' \subseteq Connected
  BY <1>5 DEF RemoveWorkspaceRows, WorkspaceStep, PurgeVectors, PurgeFails, UpdateSettings,
              Connected
<1>6. CASE UNCHANGED vars
  BY <1>6 DEF vars, Connected
<1>7. QED
  BY <1>1, <1>2, <1>3, <1>4, <1>5, <1>6 DEF Next

\* The limits stay below the highest, which never falls.
LEMMA LimitsBounded ==
    ASSUME QuotaInv, [Next]_vars
    PROVE  /\ \A d \in Docs : limit'[d] <= highest'[Home[d]]
           /\ \A w \in Workspaces : settings'[w] <= highest'[w] /\ highest[w] <= highest'[w]
<1> USE ConstantsAssumption DEF QuotaInv, TypeOK, Ends, stores, quota, Elsewhere
<1> DEFINE Goal == /\ \A d \in Docs : limit'[d] <= highest'[Home[d]]
                   /\ \A w \in Workspaces : settings'[w] <= highest'[w] /\ highest[w] <= highest'[w]
<1>1. ASSUME UNCHANGED quota PROVE Goal
  BY <1>1
<1>2. ASSUME NEW d \in Docs, ReadLimit(d) \/ CheckQuota(d) \/ UploadLost(d) PROVE Goal
  BY <1>2 DEF ReadLimit, CheckQuota, UploadLost
<1>3. ASSUME NEW w \in Workspaces, UpdateSettings(w) PROVE Goal
  <2>1. PICK m \in NewLimits \cup {MaxDocuments} :
          /\ settings' = [settings EXCEPT ![w] = m]
          /\ highest' = [highest EXCEPT ![w] = IF m > @ THEN m ELSE @]
    BY <1>3 DEF UpdateSettings
  <2>2. m \in Nat /\ limit' = limit
    BY <1>3, <2>1 DEF UpdateSettings
  <2>3. QED
    BY <2>1, <2>2
<1>4. ASSUME NEW d \in Docs, UploadStep(d), ~CheckQuota(d) PROVE UNCHANGED quota
  BY <1>4 DEF UploadStep, RefuseFile, SaveFile, InsertRow, MarkProcessing, Complete, ParseFails,
              CommitFails, Index, UpsertFailsInDev, IndexRaises, Respond
<1>5. ASSUME NEW d \in Docs, UploadToMissing(d) \/ FindForDelete(d) \/ DeletionStep(d)
      PROVE  UNCHANGED quota
  BY <1>5 DEF UploadToMissing, FindForDelete, DeletionStep, RemoveRow, AuditDeletion, DeletionFails
<1>6. ASSUME NEW w \in Workspaces, RemoveWorkspaceRows(w) \/ WorkspaceStep(w)
      PROVE  UNCHANGED quota
  BY <1>6 DEF RemoveWorkspaceRows, WorkspaceStep, PurgeVectors, PurgeFails
<1>7. ASSUME UNCHANGED vars PROVE Goal
  BY <1>1, <1>7 DEF vars
<1> HIDE DEF Goal, QuotaInv, TypeOK, Ends, stores, quota, Elsewhere
<1>8. ASSUME NEW d \in Docs, UploadToMissing(d) \/ ReadLimit(d) \/ UploadStep(d) \/ UploadLost(d)
                             \/ FindForDelete(d) \/ DeletionStep(d)
      PROVE  Goal
  BY <1>1, <1>2, <1>4, <1>5, <1>8
<1>9. ASSUME NEW w \in Workspaces, RemoveWorkspaceRows(w) \/ WorkspaceStep(w) \/ UpdateSettings(w)
      PROVE  Goal
  BY <1>1, <1>3, <1>6, <1>9
<1>10. Goal
  BY <1>7, <1>8, <1>9 DEF Next
<1>11. QED
  BY <1>10 DEF Goal

\* No step but CheckQuota adds a claim.
LEMMA ClaimsShrink ==
    ASSUME TypeOK, [Next]_vars, ~ \E d \in Docs : CheckQuota(d), NEW w \in Workspaces
    PROVE  Claims(w)' \subseteq Claims(w)
<1> USE DEF TypeOK, InFlight, Outcomes, Status, Ends, stores, quota, Elsewhere, Live,
        Claims, Rows, Admitted
<1>1. ASSUME NEW d \in Docs, UploadToMissing(d) \/ ReadLimit(d) \/ UploadLost(d)
      PROVE  Claims(w)' \subseteq Claims(w)
  BY <1>1 DEF UploadToMissing, ReadLimit, UploadLost
<1>2. ASSUME NEW d \in Docs, UploadStep(d) PROVE Claims(w)' \subseteq Claims(w)
  <2>1. CASE RefuseFile(d) \/ ParseFails(d) \/ CommitFails(d) \/ Respond(d)
    BY <2>1 DEF RefuseFile, ParseFails, CommitFails, Respond
  <2>2. CASE SaveFile(d)
    BY <2>2 DEF SaveFile
  <2>3. CASE InsertRow(d)
    BY <2>3 DEF InsertRow
  <2>4. CASE MarkProcessing(d)
    BY <2>4 DEF MarkProcessing
  <2>5. CASE Complete(d)
    BY <2>5 DEF Complete
  <2>6. CASE Index(d) \/ UpsertFailsInDev(d) \/ IndexRaises(d)
    BY <2>6 DEF Index, UpsertFailsInDev, IndexRaises
  <2>7. QED
    BY <1>2, <2>1, <2>2, <2>3, <2>4, <2>5, <2>6 DEF UploadStep
<1>3. ASSUME NEW d \in Docs, FindForDelete(d) \/ DeletionStep(d)
      PROVE  Claims(w)' \subseteq Claims(w)
  BY <1>3 DEF FindForDelete, DeletionStep, RemoveRow, AuditDeletion, DeletionFails
<1>4. ASSUME NEW v \in Workspaces, RemoveWorkspaceRows(v) \/ WorkspaceStep(v)
      PROVE  Claims(w)' \subseteq Claims(w)
  BY <1>4 DEF RemoveWorkspaceRows, WorkspaceStep, PurgeVectors, PurgeFails, In
<1>5. ASSUME NEW v \in Workspaces, UpdateSettings(v) PROVE Claims(w)' \subseteq Claims(w)
  BY <1>5 DEF UpdateSettings
<1>6. CASE UNCHANGED vars
  BY <1>6 DEF vars
<1>7. QED
  BY <1>1, <1>2, <1>3, <1>4, <1>5, <1>6 DEF Next

\* A request that passes the comparison finds fewer rows than the limit it has
\* read, and it and all other claims without a row hold a connection.
LEMMA CheckQuotaKeepsClaims ==
    ASSUME QuotaInv, NEW d \in Docs, CheckQuota(d), NEW w \in Workspaces
    PROVE  Cardinality(Claims(w)') < highest[w] + Connections
<1> USE ConstantsAssumption DEF TypeOK, Ends, stores, Claims, Rows, Admitted, Connected
<1> TypeOK
  BY DEF QuotaInv
<1>0. Claims(w) \in SUBSET Docs /\ Claims(w)' \in SUBSET Docs
  OBVIOUS
<1>1. CASE upload'[d] = "admitted" /\ Home[d] = w
  <2> DEFINE C == {e \in Docs : upload[e] \in {"counting", "admitted", "stored"}}
             R == {e \in Docs : Home[e] = w /\ row[e] # "none"}
  <2>1. /\ R \in SUBSET Docs /\ C \in SUBSET Docs
        /\ Claims(w)' \subseteq R \cup C
    BY DEF CheckQuota
  <2>2. Cardinality(R) \in Nat /\ Cardinality(C) \in Nat /\ IsFiniteSet(R) /\ IsFiniteSet(C)
    BY <2>1, DocSetBounds
  <2>3. Cardinality(R) < limit[d] /\ limit[d] <= highest[w] /\ Cardinality(C) <= Connections
    BY <1>1, <2>2 DEF CheckQuota, QuotaInv
  <2> DEFINE K == Claims(w)'
             U == R \cup C
  <2>4. K \in SUBSET U /\ U \in SUBSET Docs
    BY <2>1
  <2>5. limit[d] \in Nat /\ highest[w] \in Nat
    OBVIOUS
  <2> HIDE DEF C, R
  <2>6. Cardinality(U) <= Cardinality(R) + Cardinality(C)
    BY <2>2, UnionBound
  <2> HIDE DEF K, U
  <2>7. Cardinality(K) <= Cardinality(U) /\ Cardinality(K) \in Nat /\ Cardinality(U) \in Nat
    BY <2>4, DocSetBounds
  <2>8. Cardinality(K) < highest[w] + Connections
    BY <2>2, <2>3, <2>5, <2>6, <2>7, ConnectionsType
  <2>9. QED
    BY <2>8 DEF K
<1>2. CASE ~(upload'[d] = "admitted" /\ Home[d] = w)
  <2>1. Claims(w)' \in SUBSET Claims(w)
    BY <1>2 DEF CheckQuota
  <2>2. Cardinality(Claims(w)) < highest[w] + Connections /\ highest[w] \in Nat
    BY DEF QuotaInv
  <2> DEFINE K == Claims(w)'
             L == Claims(w)
  <2> HIDE DEF K, L
  <2>3. Cardinality(K) <= Cardinality(L) /\ Cardinality(K) \in Nat /\ Cardinality(L) \in Nat
    BY <1>0, <2>1, DocSetBounds DEF K, L
  <2>4. Cardinality(K) < highest[w] + Connections
    BY <2>2, <2>3, ConnectionsType DEF L
  <2>5. QED
    BY <2>4 DEF K
<1>3. QED
  BY <1>1, <1>2

\* However many uploads run at once and however the limit is changed, a workspace
\* holds fewer documents than the highest limit it had plus the connections of
\* all the workers.
THEOREM QuotaOvershootBoundedHolds == Spec => []QuotaOvershootBounded
<1>1. Init => QuotaInv
  <2> SUFFICES ASSUME Init PROVE QuotaInv
    OBVIOUS
  <2>1. Connected = {} /\ \A w \in Workspaces : Claims(w) = {}
    BY DEF Init, Claims, Rows, Connected, Admitted
  <2>2. Cardinality({}) = 0
    BY FS_EmptySet
  <2>3. \A d \in Docs : limit[d] <= highest[Home[d]]
    BY ConstantsAssumption DEF Init
  <2>4. \A w \in Workspaces : settings[w] <= highest[w] /\ highest[w] \in Nat
    BY ConstantsAssumption DEF Init
  <2>5. QED
    BY <2>1, <2>2, <2>3, <2>4, TypeInit, ConnectionsType DEF QuotaInv
<1>2. QuotaInv /\ [Next]_vars => QuotaInv'
  <2> SUFFICES ASSUME QuotaInv, [Next]_vars PROVE QuotaInv'
    OBVIOUS
  <2>1. TypeOK'
    BY TypeStep DEF QuotaInv
  <2>2. Cardinality(Connected') <= Connections
    BY ConnectedBounded
  <2>3. /\ \A d \in Docs : limit'[d] <= highest'[Home[d]]
        /\ \A w \in Workspaces : settings'[w] <= highest'[w] /\ highest[w] <= highest'[w]
    BY LimitsBounded
  <2>4. ASSUME NEW w \in Workspaces PROVE Cardinality(Claims(w)') < highest[w] + Connections
    <3>1. CASE \E d \in Docs : CheckQuota(d)
      BY <3>1, CheckQuotaKeepsClaims
    <3>2. CASE ~ \E d \in Docs : CheckQuota(d)
      <4> DEFINE K == Claims(w)'
                 L == Claims(w)
      <4>1. K \in SUBSET L /\ L \in SUBSET Docs
        BY <3>2, ClaimsShrink DEF QuotaInv, Claims, Rows, Admitted
      <4>2. Cardinality(L) < highest[w] + Connections /\ highest[w] \in Nat
        BY DEF QuotaInv, TypeOK
      <4> HIDE DEF K, L
      <4>3. Cardinality(K) <= Cardinality(L) /\ Cardinality(K) \in Nat /\ Cardinality(L) \in Nat
        BY <4>1, DocSetBounds
      <4>4. Cardinality(K) < highest[w] + Connections
        BY <4>2, <4>3, ConnectionsType
      <4>5. QED
        BY <4>4 DEF K
    <3>3. QED
      BY <3>1, <3>2
  <2>5. ASSUME NEW w \in Workspaces PROVE Cardinality(Claims(w)') < highest'[w] + Connections
    <3>1. Cardinality(Claims(w)') \in Nat
      <4>1. Claims(w)' \in SUBSET Docs
        BY DEF Claims, Rows, Admitted
      <4> DEFINE K == Claims(w)'
      <4> HIDE DEF K
      <4>2. Cardinality(K) \in Nat
        BY <4>1, DocSetBounds DEF K
      <4>3. QED
        BY <4>2 DEF K
    <3>2. highest[w] \in Nat /\ highest'[w] \in Nat /\ highest[w] <= highest'[w]
      BY <2>1, <2>3 DEF QuotaInv, TypeOK
    <3>3. QED
      BY <2>4, <3>1, <3>2, ConnectionsType
  <2>6. QED
    BY <2>1, <2>2, <2>3, <2>5 DEF QuotaInv, Connections
<1>3. QuotaInv => QuotaOvershootBounded
  <2> SUFFICES ASSUME QuotaInv, NEW w \in Workspaces
               PROVE  Cardinality(Rows(w)) < highest[w] + Connections
    BY DEF QuotaOvershootBounded
  <2>1. Claims(w) \in SUBSET Docs /\ Rows(w) \in SUBSET Claims(w)
    BY DEF Claims, Rows, Admitted
  <2>2. /\ Cardinality(Rows(w)) <= Cardinality(Claims(w))
        /\ Cardinality(Rows(w)) \in Nat /\ Cardinality(Claims(w)) \in Nat
    BY <2>1, DocSetBounds
  <2>3. highest[w] \in Nat /\ Cardinality(Claims(w)) < highest[w] + Connections
    BY DEF QuotaInv, TypeOK
  <2>4. QED
    BY <2>2, <2>3, ConnectionsType
<1>4. QED
  BY <1>1, <1>2, <1>3, PTL DEF Spec

-----------------------------------------------------------------------------
(***************************************************************************)
(* A row is created once: until InsertRow nobody can have found, deleted   *)
(* or audited the document, and afterwards its request never inserts again.*)
(***************************************************************************)
UntouchedBeforeInsert ==
    \A d \in Docs : upload[d] \in {"idle", "counting", "admitted", "stored"} =>
        row[d] = "none" /\ deletion[d] = "idle" /\ d \notin audit

\* Each action keeps it: a delete request needs a row to find.
LEMMA UntouchedInductive ==
    TypeOK /\ UntouchedBeforeInsert /\ [Next]_vars => UntouchedBeforeInsert'
<1> USE DEF TypeOK, InFlight, Outcomes, Status, Ends, stores, quota, Elsewhere,
            UntouchedBeforeInsert
<1> SUFFICES ASSUME TypeOK, UntouchedBeforeInsert, [Next]_vars
             PROVE  UntouchedBeforeInsert'
  OBVIOUS
<1>1. ASSUME NEW d \in Docs, UploadToMissing(d) \/ ReadLimit(d) \/ UploadLost(d)
      PROVE  UntouchedBeforeInsert'
  BY <1>1 DEF UploadToMissing, ReadLimit, UploadLost
<1>2. ASSUME NEW d \in Docs, UploadStep(d) PROVE UntouchedBeforeInsert'
  <2>1. CASE CheckQuota(d) \/ RefuseFile(d) \/ SaveFile(d) \/ ParseFails(d) \/ CommitFails(d) \/ Respond(d)
    BY <2>1 DEF CheckQuota, RefuseFile, SaveFile, ParseFails, CommitFails, Respond
  <2>2. CASE InsertRow(d) \/ MarkProcessing(d) \/ Complete(d)
    BY <2>2 DEF InsertRow, MarkProcessing, Complete
  <2>3. CASE Index(d) \/ UpsertFailsInDev(d) \/ IndexRaises(d)
    BY <2>3 DEF Index, UpsertFailsInDev, IndexRaises
  <2>4. QED
    BY <1>2, <2>1, <2>2, <2>3 DEF UploadStep
<1>3. ASSUME NEW d \in Docs, FindForDelete(d) \/ DeletionStep(d)
      PROVE  UntouchedBeforeInsert'
  BY <1>3 DEF FindForDelete, DeletionStep, RemoveRow, AuditDeletion, DeletionFails
<1>4. ASSUME NEW w \in Workspaces, RemoveWorkspaceRows(w) \/ WorkspaceStep(w)
      PROVE  UntouchedBeforeInsert'
  BY <1>4 DEF RemoveWorkspaceRows, WorkspaceStep, PurgeVectors, PurgeFails
<1>5. ASSUME NEW w \in Workspaces, UpdateSettings(w) PROVE UntouchedBeforeInsert'
  BY <1>5 DEF UpdateSettings
<1>6. CASE UNCHANGED vars
  BY <1>6 DEF vars
<1>7. QED
  BY <1>1, <1>2, <1>3, <1>4, <1>5, <1>6 DEF Next

\* Only the pipeline changes a row other than by deleting it, and only from
\* the status its previous commit left.
LEMMA StatusStepOfNext ==
    ASSUME StoresInv, UntouchedBeforeInsert, [Next]_vars,
           NEW e \in Docs, row'[e] # row[e]
    PROVE  StatusStep(e)
<1> USE DEF TypeOK, InFlight, Outcomes, Status, Ends, stores, quota, Elsewhere,
            StatusStep, Advances, StoresInv, PhaseBoundsStores, UntouchedBeforeInsert
<1>1. ASSUME NEW d \in Docs, UploadToMissing(d) \/ ReadLimit(d) \/ UploadLost(d) PROVE FALSE
  BY <1>1 DEF UploadToMissing, ReadLimit, UploadLost
<1>2. ASSUME NEW d \in Docs, UploadStep(d) PROVE StatusStep(e)
  <2>1. CASE CheckQuota(d) \/ RefuseFile(d) \/ SaveFile(d) \/ ParseFails(d) \/ CommitFails(d) \/ Respond(d)
    BY <2>1 DEF CheckQuota, RefuseFile, SaveFile, ParseFails, CommitFails, Respond
  <2>2. CASE InsertRow(d)
    BY <2>2 DEF InsertRow
  <2>3. CASE MarkProcessing(d)
    BY <2>3 DEF MarkProcessing
  <2>4. CASE Complete(d)
    BY <2>4 DEF Complete
  <2>5. CASE Index(d) \/ UpsertFailsInDev(d) \/ IndexRaises(d)
    BY <2>5 DEF Index, UpsertFailsInDev, IndexRaises
  <2>6. QED
    BY <1>2, <2>1, <2>2, <2>3, <2>4, <2>5 DEF UploadStep
<1>3. ASSUME NEW d \in Docs, FindForDelete(d) \/ DeletionStep(d) PROVE StatusStep(e)
  BY <1>3 DEF FindForDelete, DeletionStep, RemoveRow, AuditDeletion, DeletionFails
<1>4. ASSUME NEW w \in Workspaces, RemoveWorkspaceRows(w) \/ WorkspaceStep(w)
      PROVE  StatusStep(e)
  BY <1>4 DEF RemoveWorkspaceRows, WorkspaceStep, PurgeVectors, PurgeFails
<1>5. ASSUME NEW w \in Workspaces, UpdateSettings(w) PROVE StatusStep(e)
  BY <1>5 DEF UpdateSettings
<1>6. CASE UNCHANGED vars
  BY <1>6 DEF vars
<1>7. QED
  BY <1>1, <1>2, <1>3, <1>4, <1>5, <1>6 DEF Next

\* A status only moves forward, and a deleted document never comes back.
THEOREM StatusMovesForwardHolds == Spec => StatusMovesForward
<1>1. Init => UntouchedBeforeInsert
  BY DEF Init, UntouchedBeforeInsert
<1>2. Spec => []UntouchedBeforeInsert
  BY <1>1, UntouchedInductive, TypeCorrect, PTL DEF Spec
<1>3. StoresInv /\ UntouchedBeforeInsert /\ [Next]_vars
        => [\A d \in Docs : row'[d] # row[d] => StatusStep(d)]_vars
  BY StatusStepOfNext
<1>4. QED
  BY <1>2, <1>3, StoresInvariant, PTL DEF Spec, StatusMovesForward

-----------------------------------------------------------------------------
(***************************************************************************)
(* What the answers say.  A row and its chunks are committed together, and *)
(* what a deletion has removed its request finds removed to the end.       *)
(***************************************************************************)
CompletedHasChunks == \A d \in Docs : row[d] = "completed" => d \in chunks

RemovedIsGone == \A d \in Docs : deletion[d] = "removed" => row[d] = "none"

SettledInv ==
    StoresInv /\ UntouchedBeforeInsert /\ UnsettledOnlyInFlight /\ CompletedHasChunks /\ RemovedIsGone

\* Each action keeps it: an upload answered otherwise than with an error has
\* settled its row.
LEMMA SettledInductive == SettledInv /\ [Next]_vars => SettledInv'
<1> USE DEF TypeOK, InFlight, Outcomes, Status, Ends, stores, quota, Elsewhere
<1> SUFFICES ASSUME SettledInv, [Next]_vars
             PROVE  UnsettledOnlyInFlight' /\ CompletedHasChunks' /\ RemovedIsGone'
  BY StoresInvInductive, UntouchedInductive DEF SettledInv, StoresInv
<1> USE DEF SettledInv, StoresInv, PhaseBoundsStores, UntouchedBeforeInsert,
            UnsettledOnlyInFlight, CompletedHasChunks, RemovedIsGone
<1> DEFINE Goal == UnsettledOnlyInFlight' /\ CompletedHasChunks' /\ RemovedIsGone'
<1>1. ASSUME NEW d \in Docs, UploadToMissing(d) \/ ReadLimit(d) \/ UploadLost(d) PROVE Goal
  BY <1>1 DEF UploadToMissing, ReadLimit, UploadLost
<1>2. ASSUME NEW d \in Docs, UploadStep(d) PROVE Goal
  <2>1. CASE CheckQuota(d) \/ RefuseFile(d) \/ SaveFile(d) \/ ParseFails(d) \/ CommitFails(d) \/ Respond(d)
    BY <2>1 DEF CheckQuota, RefuseFile, SaveFile, ParseFails, CommitFails, Respond
  <2>2. CASE InsertRow(d)
    BY <2>2 DEF InsertRow
  <2>3. CASE MarkProcessing(d)
    BY <2>3 DEF MarkProcessing
  <2>4. CASE Complete(d)
    BY <2>4 DEF Complete
  <2>5. CASE Index(d) \/ UpsertFailsInDev(d) \/ IndexRaises(d)
    BY <2>5 DEF Index, UpsertFailsInDev, IndexRaises
  <2>6. QED
    BY <1>2, <2>1, <2>2, <2>3, <2>4, <2>5 DEF UploadStep
<1>3. ASSUME NEW d \in Docs, FindForDelete(d) \/ DeletionStep(d) PROVE Goal
  BY <1>3 DEF FindForDelete, DeletionStep, RemoveRow, AuditDeletion, DeletionFails
<1>4. ASSUME NEW w \in Workspaces, RemoveWorkspaceRows(w) \/ WorkspaceStep(w) PROVE Goal
  BY <1>4 DEF RemoveWorkspaceRows, WorkspaceStep, PurgeVectors, PurgeFails, In
<1>5. ASSUME NEW w \in Workspaces, UpdateSettings(w) PROVE Goal
  BY <1>5 DEF UpdateSettings
<1>6. CASE UNCHANGED vars
  BY <1>6 DEF vars
<1>7. QED
  BY <1>1, <1>2, <1>3, <1>4, <1>5, <1>6 DEF Next

LEMMA SettledInvariant == Spec => []SettledInv
<1>1. Init => SettledInv
  BY TypeInit DEF Init, SettledInv, StoresInv, PhaseBoundsStores, NoPartialContent, VectorsFollowCommit,
                  UntouchedBeforeInsert, UnsettledOnlyInFlight, CompletedHasChunks, RemovedIsGone
<1>2. QED
  BY <1>1, SettledInductive, PTL DEF Spec

\* A document is left unsettled only by a request that runs, was lost or failed.
THEOREM UnsettledOnlyInFlightHolds == Spec => []UnsettledOnlyInFlight
<1>1. SettledInv => UnsettledOnlyInFlight
  BY DEF SettledInv
<1>2. QED
  BY <1>1, SettledInvariant, PTL

\* What AnswersMatchStore says of one document.
AnswerMatches(d) ==
    /\ upload[d] # "created" /\ upload'[d] = "created" => row[d] = "completed" /\ d \in chunks
    /\ deletion[d] # "done" /\ deletion'[d] = "done" => row'[d] = "none" /\ d \notin chunks' /\ d \in audit'

\* Only two actions answer, and each finds the stores as it says.
LEMMA AnswerMatchesStep ==
    ASSUME SettledInv, [Next]_vars, NEW e \in Docs PROVE AnswerMatches(e)
<1> USE DEF TypeOK, InFlight, Outcomes, Status, Ends, stores, quota, Elsewhere, AnswerMatches,
            SettledInv, StoresInv, PhaseBoundsStores, CompletedHasChunks, RemovedIsGone, NoPartialContent
<1>1. ASSUME NEW d \in Docs, UploadToMissing(d) \/ ReadLimit(d) \/ UploadLost(d) PROVE AnswerMatches(e)
  BY <1>1 DEF UploadToMissing, ReadLimit, UploadLost
<1>2. ASSUME NEW d \in Docs, UploadStep(d) PROVE AnswerMatches(e)
  <2>1. CASE CheckQuota(d) \/ RefuseFile(d) \/ SaveFile(d) \/ ParseFails(d) \/ CommitFails(d)
    BY <2>1 DEF CheckQuota, RefuseFile, SaveFile, ParseFails, CommitFails
  <2>2. CASE InsertRow(d) \/ MarkProcessing(d) \/ Complete(d)
    BY <2>2 DEF InsertRow, MarkProcessing, Complete
  <2>3. CASE Index(d) \/ UpsertFailsInDev(d) \/ IndexRaises(d)
    BY <2>3 DEF Index, UpsertFailsInDev, IndexRaises
  <2>4. CASE Respond(d)
    BY <2>4 DEF Respond
  <2>5. QED
    BY <1>2, <2>1, <2>2, <2>3, <2>4 DEF UploadStep
<1>3. ASSUME NEW d \in Docs, FindForDelete(d) \/ DeletionStep(d) PROVE AnswerMatches(e)
  BY <1>3 DEF FindForDelete, DeletionStep, RemoveRow, AuditDeletion, DeletionFails
<1>4. ASSUME NEW w \in Workspaces, RemoveWorkspaceRows(w) \/ WorkspaceStep(w) PROVE AnswerMatches(e)
  BY <1>4 DEF RemoveWorkspaceRows, WorkspaceStep, PurgeVectors, PurgeFails
<1>5. ASSUME NEW w \in Workspaces, UpdateSettings(w) PROVE AnswerMatches(e)
  BY <1>5 DEF UpdateSettings
<1>6. CASE UNCHANGED vars
  BY <1>6 DEF vars
<1>7. QED
  BY <1>1, <1>2, <1>3, <1>4, <1>5, <1>6 DEF Next

\* Every answer is true of the stores at its moment.
THEOREM AnswersMatchStoreHolds == Spec => AnswersMatchStore
<1>1. SettledInv /\ [Next]_vars => [\A d \in Docs : AnswerMatches(d)]_vars
  BY AnswerMatchesStep
<1>2. QED
  BY <1>1, SettledInvariant, PTL DEF Spec, AnswersMatchStore, AnswerMatches
=============================================================================
