------------------------- MODULE MemoryStoreProofs -------------------------
(***************************************************************************)
(* Theorems about MemoryStore, for any sets of tasks, memories, users and  *)
(* workspaces, in production and outside it.                               *)
(***************************************************************************)
EXTENDS MemoryStore, FiniteSetTheorems, TLAPS

-----------------------------------------------------------------------------
(***************************************************************************)
(* The inductive invariant. What a task has flushed is the key to it: it   *)
(* belongs to the task, holds its workspace, is not yet a row, and in      *)
(* production has its point but for the fact being upserted.               *)
(***************************************************************************)
FlushedBelongs ==
    \A t \in Tasks :
        /\ \A m \in facts[t] : TaskOf[m] = t
        /\ flushed[t] \subseteq facts[t]
        /\ flushed[t] # {} => task[t] \in {"adding", "upserting"} /\ WorkspaceOf[t] \in Live
        /\ task[t] = "upserting" => current[t] \in flushed[t]

FlushedHasPoint ==
    production =>
        \A t \in Tasks : \A m \in flushed[t] :
            m \in vectors \/ (task[t] = "upserting" /\ m = current[t])

RowsAreSaved ==
    \A m \in Memories :
        /\ m \in rows \/ deletion[m] # "idle" => task[TaskOf[m]] = "saved"
        /\ deletion[m] \in {"removed", "done", "missing"} => m \notin rows
        /\ m \in rows => Home(m) \in Live

RowHasPoint == production => rows \subseteq vectors

StoreInv ==
    /\ TypeOK
    /\ FlushedBelongs
    /\ FlushedHasPoint
    /\ RowsAreSaved
    /\ RowHasPoint
    /\ DeletedStaysDeleted
    /\ PurgeIsFinal

-----------------------------------------------------------------------------
\* Nothing is remembered at the start.
LEMMA TypeInit == Init => TypeOK
  BY DEF Init, TypeOK

\* No step leaves the types.
LEMMA TypeStep == TypeOK /\ FlushedBelongs /\ [Next]_vars => TypeOK'
<1> SUFFICES ASSUME TypeOK, FlushedBelongs, [Next]_vars PROVE TypeOK'
  OBVIOUS
<1> USE StoreAssumption DEF TypeOK, Elsewhere, RollBack
<1>1. ASSUME NEW t \in Tasks, ExtractStep(t) PROVE TypeOK'
  <2>1. CASE Extract(t)
    BY <2>1 DEF Extract
  <2>2. CASE ExtractFails(t) \/ TransactionFails(t) \/ TaskLost(t)
    BY <2>2 DEF ExtractFails, TransactionFails, TaskLost
  <2>3. CASE Flush(t)
    BY <2>3 DEF Flush
  <2>4. CASE Upsert(t) \/ UpsertFailsInDev(t) \/ UpsertRaises(t)
    <3>1. current[t] \in Memories
      BY <2>4 DEF FlushedBelongs, Upsert, UpsertFailsInDev, UpsertRaises
    <3>2. QED
      BY <2>4, <3>1 DEF Upsert, UpsertFailsInDev, UpsertRaises
  <2>5. CASE Commit(t)
    BY <2>5 DEF Commit
  <2>6. QED
    BY <1>1, <2>1, <2>2, <2>3, <2>4, <2>5 DEF ExtractStep
<1>2. ASSUME NEW m \in Memories, DeleteStep(m) PROVE TypeOK'
  BY <1>2 DEF DeleteStep, FindMemory, RemoveRow, RemoveVector, RemoveVectorFails, Rest
<1>3. ASSUME NEW w \in Workspaces, RemoveWorkspaceRows(w) \/ PurgeVectors(w) PROVE TypeOK'
  BY <1>3 DEF RemoveWorkspaceRows, PurgeVectors
<1>4. CASE UNCHANGED vars
  BY <1>4 DEF vars
<1>5. QED
  BY <1>1, <1>2, <1>3, <1>4 DEF Next

-----------------------------------------------------------------------------
\* Every memory belongs to a task of a workspace.
LEMMA MemoryTypes ==
  \A m \in Memories : TaskOf[m] \in Tasks /\ Home(m) \in Workspaces
  BY StoreAssumption DEF Home

\* A rolled back transaction leaves nothing behind but points of memories
\* that have no row and cannot have been deleted.
LEMMA RollBackKeepsInv ==
  ASSUME StoreInv, TypeOK', NEW t \in Tasks, RollBack(t),
         task[t] \in {"idle", "adding", "upserting"},
         vectors' = vectors \/ (task[t] = "upserting" /\ vectors' = vectors \cup {current[t]})
  PROVE  StoreInv'
<1> USE DEF RollBack, Elsewhere, StoreInv
<1>1. FlushedBelongs'
  BY DEF FlushedBelongs, Live, TypeOK
<1>2. FlushedHasPoint'
  BY DEF FlushedHasPoint, TypeOK
<1>3. RowsAreSaved'
  BY DEF RowsAreSaved, Live, TypeOK, Home
<1>4. RowHasPoint'
  BY DEF RowHasPoint
<1>5. task[t] = "upserting" =>
        /\ current[t] \in flushed[t] /\ TaskOf[current[t]] = t
        /\ WorkspaceOf[t] \in Live /\ current[t] \in Memories
  BY DEF FlushedBelongs, TypeOK
<1>6. DeletedStaysDeleted'
  BY <1>5 DEF DeletedStaysDeleted, RowsAreSaved
<1>7. PurgeIsFinal'
  BY <1>5 DEF PurgeIsFinal, Of, Home, Live
<1>8. QED
  BY <1>1, <1>2, <1>3, <1>4, <1>6, <1>7

\* Every step of an extraction keeps the invariant.
LEMMA ExtractKeepsInv ==
  ASSUME StoreInv, TypeOK', NEW t \in Tasks, ExtractStep(t)
  PROVE  StoreInv'
<1> USE DEF Elsewhere, StoreInv
<1>1. CASE Extract(t)
  <2> USE <1>1 DEF Extract
  <2>1. FlushedBelongs'
    BY DEF FlushedBelongs, Live, TypeOK
  <2>2. FlushedHasPoint' /\ RowHasPoint' /\ DeletedStaysDeleted' /\ PurgeIsFinal'
    BY DEF FlushedHasPoint, RowHasPoint, DeletedStaysDeleted, PurgeIsFinal, TypeOK,
           Of, Home
  <2>3. RowsAreSaved'
    BY DEF RowsAreSaved, Live, TypeOK, Home
  <2>4. QED
    BY <2>1, <2>2, <2>3
<1>2. CASE ExtractFails(t) \/ TransactionFails(t) \/ TaskLost(t) \/ UpsertRaises(t)
  BY <1>2, RollBackKeepsInv DEF ExtractFails, TransactionFails, TaskLost, UpsertRaises
<1>3. CASE Flush(t)
  <2>1. PICK m \in facts[t] \ flushed[t] :
          /\ flushed' = [flushed EXCEPT ![t] = @ \cup {m}]
          /\ current' = [current EXCEPT ![t] = m]
    BY <1>3 DEF Flush
  <2> USE <1>3 DEF Flush
  <2>2. FlushedBelongs'
    BY <2>1 DEF FlushedBelongs, Live, TypeOK
  <2>3. FlushedHasPoint'
    <3>1. production => flushed[t] \subseteq vectors
      BY DEF FlushedHasPoint
    <3>2. flushed'[t] = flushed[t] \cup {m} /\ current'[t] = m /\ task'[t] = "upserting"
      BY <2>1 DEF TypeOK
    <3>3. \A u \in Tasks \ {t} : /\ flushed'[u] = flushed[u] /\ current'[u] = current[u]
                                /\ task'[u] = task[u]
      BY <2>1 DEF TypeOK
    <3>4. vectors' = vectors
      OBVIOUS
    <3>5. ASSUME production, NEW u \in Tasks, NEW f \in flushed'[u]
          PROVE  f \in vectors' \/ (task'[u] = "upserting" /\ f = current'[u])
      <4>1. CASE u = t
        BY <4>1, <3>1, <3>2, <3>4, <3>5
      <4>2. CASE u # t
        BY <4>2, <3>3, <3>4, <3>5 DEF FlushedHasPoint
      <4>3. QED
        BY <4>1, <4>2
    <3>6. QED
      BY <3>5 DEF FlushedHasPoint
  <2>4. RowsAreSaved'
    BY DEF RowsAreSaved, Live, TypeOK, Home
  <2>5. RowHasPoint' /\ DeletedStaysDeleted' /\ PurgeIsFinal'
    BY DEF RowHasPoint, DeletedStaysDeleted, PurgeIsFinal, Of, Home
  <2>6. QED
    BY <2>2, <2>3, <2>4, <2>5
<1>4. CASE Upsert(t) \/ UpsertFailsInDev(t)
  <2> USE <1>4 DEF Upsert, UpsertFailsInDev
  <2>1. /\ current[t] \in flushed[t] /\ TaskOf[current[t]] = t
        /\ WorkspaceOf[t] \in Live /\ current[t] \in Memories
    BY DEF FlushedBelongs, TypeOK
  <2>2. FlushedBelongs'
    BY DEF FlushedBelongs, Live, TypeOK
  <2>3. FlushedHasPoint'
    <3>1. vectors \subseteq vectors' /\ flushed' = flushed
      OBVIOUS
    <3>2. ASSUME production, NEW u \in Tasks, NEW f \in flushed[u]
          PROVE  f \in vectors' \/ (task'[u] = "upserting" /\ f = current'[u])
      <4>1. CASE u = t
        <5>1. vectors' = vectors \cup {current[t]}
          BY <3>2
        <5>2. QED
          BY <4>1, <3>2, <5>1 DEF FlushedHasPoint
      <4>2. CASE u # t
        <5>1. task'[u] = task[u] /\ current'[u] = current[u]
          BY <4>2 DEF TypeOK
        <5>2. QED
          BY <3>1, <3>2, <5>1 DEF FlushedHasPoint
      <4>3. QED
        BY <4>1, <4>2
    <3>3. QED
      BY <3>1, <3>2 DEF FlushedHasPoint
  <2>4. RowsAreSaved'
    <3>1. UNCHANGED <<rows, deletion, workspace>> /\ task[t] # "saved"
      OBVIOUS
    <3>2. \A u \in Tasks : task[u] = "saved" => task'[u] = "saved"
      BY DEF TypeOK
    <3>3. QED
      BY <3>1, <3>2, MemoryTypes DEF RowsAreSaved, Live, Home
  <2>5. RowHasPoint' /\ DeletedStaysDeleted'
    BY <2>1 DEF RowHasPoint, DeletedStaysDeleted, RowsAreSaved
  <2>6. PurgeIsFinal'
    BY <2>1 DEF PurgeIsFinal, Of, Home, Live
  <2>7. QED
    BY <2>2, <2>3, <2>4, <2>5, <2>6
<1>5. CASE Commit(t)
  <2> USE <1>5 DEF Commit
  <2>1. \A m \in flushed[t] : /\ TaskOf[m] = t /\ m \in Memories
                              /\ WorkspaceOf[t] \in Live
                              /\ production => m \in vectors
                              /\ deletion[m] = "idle"
    BY DEF FlushedBelongs, FlushedHasPoint, RowsAreSaved, TypeOK
  <2>2. FlushedBelongs'
    BY DEF FlushedBelongs, Live, TypeOK
  <2> flushed'[t] = {} /\ task'[t] = "saved"
    BY DEF TypeOK
  <2> \A u \in Tasks \ {t} : flushed'[u] = flushed[u] /\ task'[u] = task[u]
    BY DEF TypeOK
  <2>3. FlushedHasPoint'
    BY DEF FlushedHasPoint
  <2>4. RowsAreSaved'
    <3> SUFFICES ASSUME NEW m \in Memories
                 PROVE  /\ m \in rows' \/ deletion[m] # "idle" => task'[TaskOf[m]] = "saved"
                        /\ deletion[m] \in {"removed", "done", "missing"} => m \notin rows'
                        /\ m \in rows' => Home(m) \in Live
      BY DEF RowsAreSaved, Live, Home
    <3>1. TaskOf[m] \in Tasks
      BY MemoryTypes
    <3>2. QED
      BY <2>1, <3>1 DEF RowsAreSaved, Home
  <2>5. RowHasPoint' /\ DeletedStaysDeleted'
    BY <2>1 DEF RowHasPoint, DeletedStaysDeleted
  <2>6. PurgeIsFinal'
    BY DEF PurgeIsFinal, Of, Home
  <2>7. QED
    BY <2>2, <2>3, <2>4, <2>5, <2>6
<1>6. QED
  BY <1>1, <1>2, <1>3, <1>4, <1>5 DEF ExtractStep

\* Every step of a deletion keeps the invariant: what is deleted was saved,
\* so no task holds it.
LEMMA DeleteKeepsInv ==
  ASSUME StoreInv, TypeOK', NEW m \in Memories, DeleteStep(m)
  PROVE  StoreInv'
<1> USE DEF Rest, StoreInv
<1> SUFFICES FlushedBelongs' /\ FlushedHasPoint' /\ RowsAreSaved' /\ RowHasPoint'
             /\ DeletedStaysDeleted' /\ PurgeIsFinal'
  OBVIOUS
<1>0. /\ rows' \subseteq rows /\ vectors' \subseteq vectors
      /\ UNCHANGED <<task, facts, flushed, current, workspace>>
  BY DEF DeleteStep, FindMemory, RemoveRow, RemoveVector, RemoveVectorFails
<1>1. FlushedBelongs'
  BY <1>0 DEF FlushedBelongs, Live
<1>2. PurgeIsFinal'
  BY <1>0 DEF PurgeIsFinal, Of, Home
<1>3. \A t \in Tasks : deletion[m] = "removed" => m \notin flushed[t]
  BY DEF FlushedBelongs, RowsAreSaved, TypeOK
<1>4. FlushedHasPoint'
  BY <1>0, <1>3 DEF DeleteStep, FindMemory, RemoveRow, RemoveVector, RemoveVectorFails,
                    FlushedHasPoint
<1>5. RowsAreSaved' /\ RowHasPoint' /\ DeletedStaysDeleted'
  <2>1. CASE FindMemory(m)
    BY <1>0, <2>1 DEF FindMemory, RowsAreSaved, RowHasPoint, DeletedStaysDeleted, Live,
                      TypeOK, Home
  <2>2. CASE RemoveRow(m)
    BY <1>0, <2>2 DEF RemoveRow, RowsAreSaved, RowHasPoint, DeletedStaysDeleted, Live,
                      TypeOK, Home
  <2>3. CASE RemoveVector(m) \/ RemoveVectorFails(m)
    BY <1>0, <2>3 DEF RemoveVector, RemoveVectorFails, RowsAreSaved, RowHasPoint,
                      DeletedStaysDeleted, Live, TypeOK, Home
  <2>4. QED
    BY <2>1, <2>2, <2>3 DEF DeleteStep
<1>6. QED
  BY <1>1, <1>2, <1>4, <1>5

\* The removal of a workspace keeps the invariant: no task holds a row of it.
LEMMA WorkspaceKeepsInv ==
  ASSUME StoreInv, TypeOK', NEW w \in Workspaces, RemoveWorkspaceRows(w) \/ PurgeVectors(w)
  PROVE  StoreInv'
<1>1. CASE RemoveWorkspaceRows(w)
  <2> USE <1>1 DEF RemoveWorkspaceRows, StoreInv
  <2>1. FlushedBelongs'
    BY DEF FlushedBelongs, Live, Held, TypeOK
  <2>2. FlushedHasPoint' /\ RowHasPoint' /\ DeletedStaysDeleted'
    BY DEF FlushedHasPoint, RowHasPoint, DeletedStaysDeleted
  <2>3. RowsAreSaved'
    BY MemoryTypes DEF RowsAreSaved, Live, TypeOK, Of, Home
  <2>4. PurgeIsFinal'
    BY DEF PurgeIsFinal, Of, Home, TypeOK
  <2>5. QED
    BY <2>1, <2>2, <2>3, <2>4
<1>2. CASE PurgeVectors(w)
  <2> USE <1>2 DEF PurgeVectors, StoreInv
  <2>0. /\ w \notin Live /\ Live' = Live
        /\ vectors' \in {vectors, vectors \ Of(w)}
    BY DEF Live, TypeOK
  <2>1. FlushedBelongs'
    BY <2>0 DEF FlushedBelongs
  <2>2. \A t \in Tasks : \A m \in flushed[t] : m \notin Of(w)
    BY <2>0 DEF FlushedBelongs, Of, Home
  <2>3. FlushedHasPoint'
    BY <2>0, <2>2 DEF FlushedHasPoint
  <2>4. RowsAreSaved'
    BY <2>0 DEF RowsAreSaved, Home
  <2>5. RowHasPoint'
    BY <2>0 DEF RowsAreSaved, RowHasPoint, Of, TypeOK
  <2>6. DeletedStaysDeleted'
    BY <2>0 DEF DeletedStaysDeleted
  <2>7. PurgeIsFinal'
    BY <2>0 DEF PurgeIsFinal, Of, Home, TypeOK
  <2>8. QED
    BY <2>1, <2>3, <2>4, <2>5, <2>6, <2>7
<1>3. QED
  BY <1>1, <1>2

\* The invariant holds at the start and every step keeps it.
LEMMA StoreInvInductive ==
  /\ Init => StoreInv
  /\ StoreInv /\ [Next]_vars => StoreInv'
<1>1. Init => StoreInv
  BY TypeInit DEF Init, StoreInv, FlushedBelongs, FlushedHasPoint, RowsAreSaved,
                  RowHasPoint, DeletedStaysDeleted, PurgeIsFinal
<1>2. ASSUME StoreInv, [Next]_vars PROVE StoreInv'
  <2>1. TypeOK'
    BY <1>2, TypeStep DEF StoreInv
  <2>2. CASE UNCHANGED vars
    BY <1>2, <2>1, <2>2 DEF vars, StoreInv, FlushedBelongs, FlushedHasPoint, RowsAreSaved,
       RowHasPoint, DeletedStaysDeleted, PurgeIsFinal, Live, Of, Home
  <2>3. CASE Next
    BY <1>2, <2>1, <2>3, ExtractKeepsInv, DeleteKeepsInv, WorkspaceKeepsInv DEF Next
  <2>4. QED
    BY <1>2, <2>2, <2>3
<1>3. QED
  BY <1>1, <1>2

\* Type correctness of the memory stores.
THEOREM TypeCorrect == Spec => []TypeOK
<1>1. StoreInv => TypeOK
  BY DEF StoreInv
<1>2. QED
  BY <1>1, StoreInvInductive, PTL DEF Spec

\* In production every visible memory can be found by the search.
THEOREM RowIsSearchableHolds == Spec => []RowIsSearchable
<1>1. StoreInv => RowIsSearchable
  <2> SUFFICES ASSUME StoreInv, production, NEW m \in rows
               PROVE  {m} \in Relevant(Owner(m), Home(m))
    BY DEF RowIsSearchable
  <2>1. m \in Memories /\ m \in vectors
    BY DEF StoreInv, TypeOK, RowHasPoint
  <2>2. Cardinality({}) <= 3 /\ Cardinality({m}) <= 3
    BY FS_EmptySet, FS_Singleton
  <2>3. /\ {m} \in Nearest({q \in vectors : Home(q) = Home(m)})
        /\ {} \in Nearest({q \in vectors : Owner(q) = Owner(m)})
    BY <2>1, <2>2 DEF Nearest
  <2> DEFINE A == Nearest({q \in vectors : Home(q) = Home(m)})
             B == Nearest({q \in vectors : Owner(q) = Owner(m)})
  <2>4. Relevant(Owner(m), Home(m)) = {x \cup y : x \in A, y \in B}
    BY DEF Relevant
  <2>5. {m} \in A /\ {} \in B /\ {m} = {m} \cup {}
    BY <2>3
  <2> HIDE DEF A, B
  <2>6. {m} \cup {} \in {x \cup y : x \in A, y \in B}
    BY <2>5
  <2>7. QED
    BY <2>4, <2>5, <2>6
<1>2. QED
  BY <1>1, StoreInvInductive, PTL DEF Spec

\* A memory whose deletion was answered 204 has neither row nor point again.
THEOREM DeletedStaysDeletedHolds == Spec => []DeletedStaysDeleted
<1>1. StoreInv => DeletedStaysDeleted
  BY DEF StoreInv
<1>2. QED
  BY <1>1, StoreInvInductive, PTL DEF Spec

\* No memory of a purged workspace reappears in Qdrant.
THEOREM PurgeIsFinalHolds == Spec => []PurgeIsFinal
<1>1. StoreInv => PurgeIsFinal
  BY DEF StoreInv
<1>2. QED
  BY <1>1, StoreInvInductive, PTL DEF Spec

-----------------------------------------------------------------------------
(***************************************************************************)
(* Completeness of the stores. While a task runs its points are those of   *)
(* facts it has flushed, so that the commit finds a row for each of them.  *)
(***************************************************************************)
PointsAreFlushed ==
    \A m \in vectors :
        /\ task[TaskOf[m]] \notin {"idle", "nothing"}
        /\ task[TaskOf[m]] \in {"adding", "upserting"} => m \in flushed[TaskOf[m]]

KeepInv == StoreInv /\ PointsAreFlushed /\ ExchangeIsAtomic /\ OrphansAccountedFor

\* Every step of an extraction keeps it.
LEMMA ExtractKeeps ==
  ASSUME KeepInv, StoreInv', NEW t \in Tasks, ExtractStep(t)
  PROVE  PointsAreFlushed' /\ ExchangeIsAtomic' /\ OrphansAccountedFor'
<1> USE MemoryTypes DEF Elsewhere, KeepInv, StoreInv, TypeOK, PointsAreFlushed, ExchangeIsAtomic,
                        OrphansAccountedFor
<1>1. CASE Extract(t)
  BY <1>1 DEF Extract, RowsAreSaved, Live
<1>2. CASE ExtractFails(t) \/ TransactionFails(t) \/ TaskLost(t)
  BY <1>2 DEF ExtractFails, TransactionFails, TaskLost, RollBack, RowsAreSaved, Live
<1>3. CASE Flush(t)
  BY <1>3 DEF Flush, RowsAreSaved, Live
<1>4. ASSUME task[t] = "upserting"
      PROVE  current[t] \in flushed[t] /\ TaskOf[current[t]] = t /\ current[t] \in Memories
  BY <1>4 DEF FlushedBelongs
<1>5. CASE Upsert(t) \/ UpsertFailsInDev(t)
  BY <1>4, <1>5 DEF Upsert, UpsertFailsInDev, RowsAreSaved, Live
<1>6. CASE UpsertRaises(t)
  BY <1>4, <1>6 DEF UpsertRaises, RollBack, RowsAreSaved, Live
<1>7. CASE Commit(t)
  BY <1>7 DEF Commit, RowsAreSaved, FlushedBelongs, Live
<1>8. QED
  BY <1>1, <1>2, <1>3, <1>5, <1>6, <1>7 DEF ExtractStep

\* So do the deletions: they end with 204 only when the point is gone.
LEMMA DeletionsKeep ==
  ASSUME KeepInv, StoreInv',
         \/ \E m \in Memories : DeleteStep(m)
         \/ \E w \in Workspaces : RemoveWorkspaceRows(w) \/ PurgeVectors(w)
  PROVE  PointsAreFlushed' /\ ExchangeIsAtomic' /\ OrphansAccountedFor'
<1> USE MemoryTypes DEF KeepInv, StoreInv, TypeOK, PointsAreFlushed, ExchangeIsAtomic,
                        OrphansAccountedFor, Rest
<1>1. ASSUME NEW m \in Memories, FindMemory(m) \/ RemoveRow(m)
      PROVE  PointsAreFlushed' /\ ExchangeIsAtomic' /\ OrphansAccountedFor'
  BY <1>1 DEF FindMemory, RemoveRow, RowsAreSaved, Live
<1>2. ASSUME NEW m \in Memories, RemoveVector(m) \/ RemoveVectorFails(m)
      PROVE  PointsAreFlushed' /\ ExchangeIsAtomic' /\ OrphansAccountedFor'
  BY <1>2 DEF RemoveVector, RemoveVectorFails, RowsAreSaved, Live
<1>3. ASSUME NEW w \in Workspaces, RemoveWorkspaceRows(w)
      PROVE  PointsAreFlushed' /\ ExchangeIsAtomic' /\ OrphansAccountedFor'
  BY <1>3 DEF RemoveWorkspaceRows, RowsAreSaved, Live, Of
<1>4. ASSUME NEW w \in Workspaces, PurgeVectors(w)
      PROVE  PointsAreFlushed' /\ ExchangeIsAtomic' /\ OrphansAccountedFor'
  BY <1>4 DEF PurgeVectors, RowsAreSaved, Live, Of
<1>5. QED
  BY <1>1, <1>2, <1>3, <1>4 DEF DeleteStep

\* The invariant holds at the start and every step keeps it.
LEMMA KeepInvInductive ==
  /\ Init => KeepInv
  /\ KeepInv /\ [Next]_vars => KeepInv'
<1>1. Init => KeepInv
  BY StoreInvInductive, MemoryTypes DEF Init, KeepInv, PointsAreFlushed, ExchangeIsAtomic, OrphansAccountedFor
<1>2. ASSUME KeepInv, [Next]_vars PROVE KeepInv'
  <2>1. StoreInv'
    BY <1>2, StoreInvInductive DEF KeepInv
  <2>2. CASE UNCHANGED vars
    BY <1>2, <2>1, <2>2 DEF vars, KeepInv, PointsAreFlushed, ExchangeIsAtomic, OrphansAccountedFor, Live
  <2>3. CASE \E t \in Tasks : ExtractStep(t)
    BY <1>2, <2>1, <2>3, ExtractKeeps DEF KeepInv
  <2>4. CASE \/ \E m \in Memories : DeleteStep(m)
             \/ \E w \in Workspaces : RemoveWorkspaceRows(w) \/ PurgeVectors(w)
    BY <1>2, <2>1, <2>4, DeletionsKeep DEF KeepInv
  <2>5. QED
    BY <1>2, <2>2, <2>3, <2>4 DEF Next
<1>3. QED
  BY <1>1, <1>2

\* The facts of an exchange are remembered together or not at all.
THEOREM ExchangeIsAtomicHolds == Spec => []ExchangeIsAtomic
<1>1. KeepInv => ExchangeIsAtomic
  BY DEF KeepInv
<1>2. QED
  BY <1>1, KeepInvInductive, PTL DEF Spec

\* Each point without a row has one of the listed causes.
THEOREM OrphansAccountedForHolds == Spec => []OrphansAccountedFor
<1>1. KeepInv => OrphansAccountedFor
  BY DEF KeepInv
<1>2. QED
  BY <1>1, KeepInvInductive, PTL DEF Spec
=============================================================================
