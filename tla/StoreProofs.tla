----------------------------- MODULE StoreProofs -----------------------------
(***************************************************************************)
(* Theorems about the project databases, for any number of projects,       *)
(* scenarios, uploads and queue rows.                                      *)
(***************************************************************************)
EXTENDS WorkbenchStore, TLAPS, FiniteSetTheorems

-----------------------------------------------------------------------------
\* Maxima and ranks

\* The usual order of the naturals is well-founded.
LEMMA NatOrder == IsWellFoundedOn({ss \in Nat \X Nat : ss[1] < ss[2]}, Nat)
BY NatLessThanWellFounded DEF OpToRel

\* A finite set of integers that is not empty has a largest element.
LEMMA LargestOfFinite ==
  ASSUME NEW S \in SUBSET Int, IsFiniteSet(S), S # {}
  PROVE  Max(S) \in S /\ \A y \in S : Max(S) >= y
<1> DEFINE Above(x) == {y \in S : y > x}
           Sizes == {Cardinality(Above(x)) : x \in S}
           Less == {ss \in Nat \X Nat : ss[1] < ss[2]}
<1>1. \A x \in S : IsFiniteSet(Above(x)) /\ Cardinality(Above(x)) \in Nat
  BY FS_Subset, FS_CardinalityType
<1>2. \E m \in Sizes : \A n \in Sizes : ~(<<n, m>> \in Less)
  <2>1. Sizes \subseteq Nat /\ Sizes # {}
    BY <1>1
  <2>2. IsWellFoundedOn(Less, Nat)
    BY NatOrder
  <2> HIDE DEF Less, Sizes
  <2> QED BY <2>1, <2>2, WFMin
<1>3. PICK m \in Sizes : \A n \in Sizes : ~(<<n, m>> \in Less)
  BY <1>2
<1>4. PICK x \in S : m = Cardinality(Above(x))
  OBVIOUS
<1>5. ASSUME NEW y \in S PROVE Cardinality(Above(x)) <= Cardinality(Above(y))
  <2>1. Cardinality(Above(y)) \in Sizes
    OBVIOUS
  <2>2. ~(<<Cardinality(Above(y)), Cardinality(Above(x))>> \in Less)
    BY <2>1, <1>3, <1>4
  <2> HIDE DEF Above, Sizes
  <2> QED BY <1>1, <2>2
<1>6. \A y \in S : x >= y
  <2> SUFFICES ASSUME NEW y \in S, y > x PROVE FALSE
    OBVIOUS
  <2>1. Above(y) \in SUBSET Above(x) /\ Above(y) # Above(x)
    <3>1. y \in Above(x) /\ y \notin Above(y)
      OBVIOUS
    <3>2. \A z \in Above(y) : z \in Above(x)
      OBVIOUS
    <3> QED BY <3>1, <3>2
  <2>2. Cardinality(Above(y)) <= Cardinality(Above(x)) /\ Cardinality(Above(y)) # Cardinality(Above(x))
    <3> HIDE DEF Above
    <3> QED BY <1>1, <2>1, FS_Subset
  <2> QED BY <1>1, <1>5, <2>2
<1> QED BY <1>6 DEF Max

\* There are finitely many rows.
LEMMA ItemsFinite == IsFiniteSet(Items)
BY StoreAssumption, FS_Interval DEF Items

\* The last of some rows ("ORDER BY ... DESC LIMIT 1") is one of them.
LEMMA LargestItem ==
  ASSUME NEW S \in SUBSET Items, S # {}
  PROVE  Max(S) \in S /\ \A y \in S : Max(S) >= y
<1>1. IsFiniteSet(S)
  BY ItemsFinite, FS_Subset
<1>2. S \in SUBSET Int
  BY StoreAssumption DEF Items
<1> QED BY <1>1, <1>2, LargestOfFinite

\* A set of rows is finite, so the ranks of its rows are naturals.
LEMMA RankType == ASSUME NEW W \in SUBSET Items, NEW i PROVE Rank(i, W) \in Nat
<1>1. {j \in W : queue[j].order <= queue[i].order} \in SUBSET Items
  OBVIOUS
<1> QED BY <1>1, ItemsFinite, FS_Subset, FS_CardinalityType DEF Rank

\* The place of a new row exists and comes after every other.
LEMMA NextOrderType ==
  ASSUME StoreTypeOK, NEW p
  PROVE  NextOrder(p) \in Nat /\ \A j \in Waiting(p) : queue[j].order < NextOrder(p)
<1> DEFINE f == [i \in Waiting(p) |-> queue[i].order]
           T == {queue[i].order : i \in Waiting(p)}
<1>1. Waiting(p) \in SUBSET Items
  BY DEF Waiting
<1>2. IsFiniteSet(Waiting(p))
  BY <1>1, ItemsFinite, FS_Subset
<1>3. f \in Surjection(Waiting(p), T)
  BY DEF Surjection
<1>4. IsFiniteSet(T)
  <2> HIDE DEF f, T
  <2> QED BY <1>2, <1>3, FS_Surjection
<1>5. T \in SUBSET Nat
  <2>1. \A i \in Items : queue[i].order \in Nat
    BY DEF StoreTypeOK, QueueRow
  <2> QED BY <1>1, <2>1
<1>6. {0} \cup T \in SUBSET Int /\ IsFiniteSet({0} \cup T) /\ {0} \cup T # {}
  <2> HIDE DEF T
  <2>1. {0} \cup T = T \cup {0}
    OBVIOUS
  <2> QED BY <1>4, <1>5, <2>1, FS_AddElement
<1>7. Max({0} \cup T) \in Nat /\ \A o \in T : Max({0} \cup T) >= o
  <2> HIDE DEF T
  <2> DEFINE m == Max({0} \cup T)
  <2>1. m \in {0} \cup T /\ \A o \in {0} \cup T : m >= o
    BY <1>6, LargestOfFinite
  <2> HIDE DEF m
  <2>2. m \in Nat /\ \A o \in T : m >= o
    BY <1>5, <2>1
  <2> QED BY <2>2 DEF m
<1>8. NextOrder(p) = 1 + Max({0} \cup T)
  BY DEF NextOrder
<1>9. ASSUME NEW j \in Waiting(p) PROVE queue[j].order \in T
  OBVIOUS
<1> HIDE DEF T
<1>10. ASSUME NEW j \in Waiting(p) PROVE queue[j].order < NextOrder(p)
  <2>1. queue[j].order \in Nat /\ Max({0} \cup T) >= queue[j].order
    BY <1>5, <1>7, <1>9
  <2> QED BY <1>7, <1>8, <2>1
<1> QED BY <1>7, <1>8, <1>10

\* What a scenario is shown as after its rows changed is a status.
LEMMA RestoredType ==
  ASSUME StoreTypeOK, NEW q \in [Items -> QueueRow], NEW s \in Scenarios
  PROVE  RestoredStatus(s, q) \in {"draft", "ready"} \cup Live \cup Terminal
<1> DEFINE rows == {i \in Items : q[i].scenario = s}
           active == {i \in rows : q[i].status \in Active /\ ~q[i].deleted}
           staged == {i \in rows : q[i].status \in Staged /\ ~q[i].deleted}
           ended == {i \in rows : q[i].status \in Terminal /\ (~q[i].deleted \/ runs[i].status # "none")}
<1> HIDE DEF active, staged, ended
<1>1. active \in SUBSET Items /\ staged \in SUBSET Items /\ ended \in SUBSET Items
  BY DEF active, staged, ended
<1>2. CASE active # {}
  <2>1. Max(active) \in active
    BY <1>1, <1>2, LargestItem
  <2>2. q[Max(active)].status \in Active
    BY <2>1 DEF active
  <2> QED BY <1>2, <2>2 DEF RestoredStatus, active, Live
<1>3. CASE active = {} /\ staged # {}
  <2>1. Max(staged) \in staged
    BY <1>1, <1>3, LargestItem
  <2>2. q[Max(staged)].status \in Staged
    BY <2>1 DEF staged
  <2> QED BY <1>3, <2>2 DEF RestoredStatus, active, staged, Live
<1>4. CASE active = {} /\ staged = {} /\ ended # {}
  <2>1. Max(ended) \in ended
    BY <1>1, <1>4, LargestItem
  <2>2. q[Max(ended)].status \in Terminal /\ runs[Max(ended)].status \in {"none"} \cup Active \cup RunEnd
    BY <2>1, <1>1 DEF ended, StoreTypeOK, RunRow
  <2> QED BY <1>4, <2>2 DEF RestoredStatus, active, staged, ended, Live, Terminal
<1>5. CASE active = {} /\ staged = {} /\ ended = {}
  BY <1>5 DEF RestoredStatus, active, staged, ended
<1> QED BY <1>2, <1>3, <1>4, <1>5

-----------------------------------------------------------------------------
\* Type correctness

\* The three ways of writing many rows at once keep the rows well formed.
LEMMA WithStatusType ==
  ASSUME StoreTypeOK, NEW I, NEW st \in {"absent"} \cup Live \cup Terminal
  PROVE  WithStatus(I, st) \in [Items -> QueueRow]
BY DEF StoreTypeOK, WithStatus, QueueRow

\* Cancelling rows keeps them well formed.
LEMMA CancelledType ==
  ASSUME StoreTypeOK, NEW I, NEW why \in {"draft_changed", "preflight_failed", "asset_deleted", "queue_deleted"}
  PROVE  Cancelled(I, why) \in [Items -> QueueRow]
<1>1. "cancelled" \in Terminal
  BY DEF Terminal
<1> QED BY <1>1 DEF StoreTypeOK, Cancelled, QueueRow

\* So does restoring the status column of scenarios.
LEMMA RestoredRowsType ==
  ASSUME StoreTypeOK, NEW S, NEW q \in [Items -> QueueRow]
  PROVE  Restored(S, q) \in [Scenarios -> ScenarioRow]
<1>1. ASSUME NEW s \in Scenarios PROVE [scenarios[s] EXCEPT !.status = RestoredStatus(s, q)] \in ScenarioRow
  BY RestoredType DEF StoreTypeOK, ScenarioRow
<1> QED BY <1>1 DEF Restored, StoreTypeOK

\* The row that create_scenario and a save write is well formed.
LEMMA NewScenarioType ==
  ASSUME NEW par \in Params, NEW bind \in SUBSET Assets, NEW rev \in 0 .. MaxRevisions, NEW v \in Nat
  PROVE  NewScenario(par, bind, rev, v) \in ScenarioRow
BY DEF NewScenario, ScenarioRow

\* The mark of a deleted scenario is well formed.
LEMMA NoScenarioType == NoScenario \in ScenarioRow
BY StoreAssumption DEF NoScenario, ScenarioRow

\* The first state is well typed.
LEMMA InitType == StoreInit => StoreTypeOK
<1> SUFFICES ASSUME StoreInit PROVE StoreTypeOK
  OBVIOUS
<1>1. queue \in [Items -> QueueRow]
  <2>1. NoRow \in QueueRow
    BY StoreAssumption DEF NoRow, QueueRow
  <2> QED BY <2>1 DEF StoreInit
<1>2. runs \in [Items -> RunRow]
  BY StoreAssumption DEF StoreInit, RunRow
<1>3. scenarios \in [Scenarios -> ScenarioRow]
  <2>1. PICK par \in [Seeded -> ValidParams] :
          scenarios = [s \in Scenarios |->
            IF s \in Seeded THEN NewScenario(par[s], OwnAssets(s), 0, 2) ELSE NoScenario]
    BY DEF StoreInit
  <2>2. ASSUME NEW s \in Seeded PROVE NewScenario(par[s], OwnAssets(s), 0, 2) \in ScenarioRow
    BY StoreAssumption, NewScenarioType DEF OwnAssets
  <2> QED BY <2>1, <2>2, NoScenarioType
<1>4. uploads \in [Assets -> {"absent", "present", "archived", "deleted"}]
  BY DEF StoreInit
<1>5. revisions \in [Revisions -> RevisionRow]
  BY DEF StoreInit, RevisionRow
<1>6. asked \in [Items -> Content]
  BY StoreAssumption DEF StoreInit, Content
<1> QED BY <1>1, <1>2, <1>3, <1>4, <1>5, <1>6 DEF StoreTypeOK

\* The bindings that a scenario shows are uploads.
LEMMA BindingsType == ASSUME StoreTypeOK, NEW s \in Scenarios PROVE Bindings(s) \in SUBSET Assets
<1>1. scenarios[s].revision # 0 => scenarios[s].revision \in Revisions
  BY StoreAssumption DEF StoreTypeOK, ScenarioRow, Revisions
<1> QED BY <1>1 DEF Bindings, StoreTypeOK, ScenarioRow, RevisionRow

\* Requests on scenarios, uploads and revisions keep the types.
LEMMA DraftRequestType == StoreTypeOK /\ DraftRequest => StoreTypeOK'
<1> SUFFICES ASSUME StoreTypeOK, DraftRequest PROVE StoreTypeOK'
  OBVIOUS
<1>1. ASSUME NEW a \in Assets, IngestUpload(a) \/ ArchiveAsset(a) PROVE StoreTypeOK'
  BY <1>1 DEF IngestUpload, ArchiveAsset, StoreTypeOK
<1>2. ASSUME NEW s \in Scenarios, NEW par \in Params, NEW rev \in {0} \cup Revisions, CreateScenario(s, par, rev)
      PROVE  StoreTypeOK'
  <2>1. NewScenario(par, {}, rev, 1) \in ScenarioRow
    BY StoreAssumption, NewScenarioType DEF Revisions
  <2> QED BY <1>2, <2>1 DEF CreateScenario, StoreTypeOK
<1>3. ASSUME NEW s \in Scenarios, NEW t \in Scenarios, DuplicateScenario(s, t) PROVE StoreTypeOK'
  <2>1. scenarios[s].par \in Params
    BY DEF StoreTypeOK, ScenarioRow
  <2>2. /\ NewScenario(scenarios[s].par, Bindings(s), 0, 2) \in ScenarioRow
        /\ NewScenario(scenarios[s].par, {}, 0, 1) \in ScenarioRow
    BY <2>1, StoreAssumption, BindingsType, NewScenarioType
  <2> QED BY <1>3, <2>2 DEF DuplicateScenario, StoreTypeOK
<1>4. ASSUME NEW s \in Scenarios, NEW par \in Params, NEW bind \in SUBSET Assets, UpdateScenario(s, par, bind)
      PROVE  StoreTypeOK'
  <2>1. scenarios' \in [Scenarios -> ScenarioRow]
    <3>1. NewScenario(par, bind, 0, scenarios[s].version + 1) \in ScenarioRow
      BY StoreAssumption, NewScenarioType DEF StoreTypeOK, ScenarioRow
    <3> QED BY <1>4, <3>1 DEF UpdateScenario, StoreTypeOK
  <2>2. queue' \in [Items -> QueueRow]
    BY <1>4, CancelledType DEF UpdateScenario, StoreTypeOK
  <2> QED BY <1>4, <2>1, <2>2 DEF UpdateScenario, StoreTypeOK
<1>5. ASSUME NEW s \in Scenarios, ArchiveScenario(s) PROVE StoreTypeOK'
  BY <1>5 DEF ArchiveScenario, StoreTypeOK, ScenarioRow
<1>6. ASSUME NEW s \in Scenarios, DeleteScenario(s) PROVE StoreTypeOK'
  BY <1>6, NoScenarioType DEF DeleteScenario, StoreTypeOK
<1>7. ASSUME NEW A \in SUBSET Assets, BatchDeleteAssets(A) PROVE StoreTypeOK'
  <2>1. queue' \in [Items -> QueueRow]
    BY <1>7, CancelledType DEF BatchDeleteAssets
  <2>2. ASSUME NEW s \in Scenarios
        PROVE  /\ [scenarios[s] EXCEPT !.bind = Detached(s, A), !.status = "draft", !.version = @ + 1] \in ScenarioRow
               /\ [scenarios[s] EXCEPT !.bind = Detached(s, A)] \in ScenarioRow
    <3>1. scenarios[s] \in ScenarioRow /\ scenarios[s].version + 1 \in Nat
      BY DEF StoreTypeOK, ScenarioRow
    <3>2. Detached(s, A) \in SUBSET Assets
      BY <3>1 DEF Detached, ScenarioRow
    <3> QED BY <3>1, <3>2 DEF ScenarioRow
  <2>3. scenarios' \in [Scenarios -> ScenarioRow]
    BY <1>7, <2>2 DEF BatchDeleteAssets
  <2> QED BY <1>7, <2>1, <2>3 DEF BatchDeleteAssets, StoreTypeOK
<1>8. ASSUME NEW r \in Revisions, NEW bind \in SUBSET Assets, NEW ok \in BlobChecks, CreateInputRevision(r, bind, ok)
      PROVE  StoreTypeOK'
  BY <1>8 DEF CreateInputRevision, StoreTypeOK, RevisionRow
<1>9. ASSUME NEW r \in Revisions, NEW ok \in BlobChecks, ValidateInputRevision(r, ok) PROVE StoreTypeOK'
  BY <1>9 DEF ValidateInputRevision, StoreTypeOK, RevisionRow
<1> QED BY <1>1, <1>2, <1>3, <1>4, <1>5, <1>6, <1>7, <1>8, <1>9 DEF DraftRequest

\* A row exists once it names a scenario.
RowsNamed == \A i \in Items : queue[i].status = "absent" <=> queue[i].scenario = None

\* A row that exists belongs to a scenario.
LEMMA RowType ==
  ASSUME StoreTypeOK, RowsNamed, NEW i \in Items, queue[i].status # "absent"
  PROVE  queue[i].scenario \in Scenarios /\ scenarios[queue[i].scenario] \in ScenarioRow
BY DEF StoreTypeOK, RowsNamed, QueueRow

\* A new row is well formed, whichever snapshot it brings.
LEMMA EnqueueType ==
  ASSUME StoreTypeOK, NEW i \in Items, NEW s \in Scenarios, NEW snapshot \in 0 .. MaxRevisions,
         EnqueueScenario(i, s, snapshot)
  PROVE  StoreTypeOK'
<1> DEFINE frozen == IF snapshot # 0 THEN snapshot ELSE scenarios[s].revision
           row == [status |-> "waiting", scenario |-> s, version |-> scenarios[s].version,
                   revision |-> frozen, order |-> NextOrder(ProjectOf[s]), deleted |-> FALSE, reason |-> ""]
           content == [par |-> scenarios[s].par,
                       bind |-> IF frozen # 0 THEN revisions[frozen].bind ELSE scenarios[s].bind]
<1>1. scenarios[s] \in ScenarioRow
  BY DEF StoreTypeOK
<1>2. frozen \in 0 .. MaxRevisions
  BY <1>1 DEF ScenarioRow
<1>3. frozen # 0 => frozen \in Revisions
  BY <1>2, StoreAssumption DEF Revisions
<1>4. NextOrder(ProjectOf[s]) \in Nat
  BY NextOrderType
<1>5. row \in QueueRow
  BY <1>1, <1>2, <1>4 DEF ScenarioRow, QueueRow, Live, Staged
<1>6. content \in Content
  BY <1>1, <1>3 DEF ScenarioRow, Content, StoreTypeOK, RevisionRow
<1>7. [scenarios[s] EXCEPT !.status = "waiting"] \in ScenarioRow
  BY <1>1 DEF ScenarioRow, Live, Staged
<1>8. /\ queue' = [queue EXCEPT ![i] = row]
      /\ scenarios' = [scenarios EXCEPT ![s].status = "waiting"]
      /\ asked' = [asked EXCEPT ![i] = content]
      /\ UNCHANGED <<runs, uploads, revisions>>
  BY DEF EnqueueScenario
<1> HIDE DEF row, content
<1> QED BY <1>5, <1>6, <1>7, <1>8 DEF StoreTypeOK

\* Moving a row to another place keeps it well formed.
LEMMA RenumberedType ==
  ASSUME StoreTypeOK, NEW i \in Items, NEW o \in Nat
  PROVE  [queue[i] EXCEPT !.order = o] \in QueueRow
BY DEF StoreTypeOK, QueueRow

\* Removing a row, with or without cancelling it, keeps it well formed.
LEMMA RemovedType ==
  ASSUME StoreTypeOK, NEW i \in Items
  PROVE  /\ [queue[i] EXCEPT !.deleted = TRUE, !.status = "cancelled", !.reason = "queue_deleted"] \in QueueRow
         /\ [queue[i] EXCEPT !.deleted = TRUE] \in QueueRow
BY DEF StoreTypeOK, QueueRow, Terminal

\* Requests on the queue keep the types; a retry needs the old row to name a
\* scenario.
LEMMA QueueRequestType == StoreTypeOK /\ RowsNamed /\ QueueRequest => StoreTypeOK'
<1> SUFFICES ASSUME StoreTypeOK, RowsNamed, QueueRequest PROVE StoreTypeOK'
  OBVIOUS
<1>1. ASSUME NEW i \in Items, NEW s \in Scenarios, EnqueueScenario(i, s, 0) PROVE StoreTypeOK'
  BY <1>1, StoreAssumption, EnqueueType
<1>2. ASSUME NEW i \in Items, NEW old \in Items, RetryQueueItem(i, old) PROVE StoreTypeOK'
  <2>1. queue[old].status # "absent" /\ EnqueueScenario(i, queue[old].scenario, queue[old].revision)
    BY <1>2 DEF RetryQueueItem, Retryable
  <2>2. queue[old].scenario \in Scenarios /\ queue[old].revision \in 0 .. MaxRevisions
    BY <2>1, RowType DEF StoreTypeOK, QueueRow
  <2> QED BY <2>1, <2>2, EnqueueType
<1>3. ASSUME NEW p \in Projects, StartQueueBatch(p) PROVE StoreTypeOK'
  <2>1. queue' \in [Items -> QueueRow]
    BY <1>3, WithStatusType DEF StartQueueBatch, Live, Staged
  <2>2. scenarios' \in [Scenarios -> ScenarioRow]
    BY <1>3 DEF StartQueueBatch, StoreTypeOK, ScenarioRow, Live, Staged
  <2> QED BY <1>3, <2>1, <2>2 DEF StartQueueBatch, StoreTypeOK
<1>4. ASSUME NEW i \in Items, NEW k \in Items, NEW p \in Projects, ReorderQueue(i, k, p) PROVE StoreTypeOK'
  <2> DEFINE others == Waiting(p) \ {i}
  <2>1. others \in SUBSET Items
    BY DEF Waiting
  <2>2. \A j \in Items : Rank(j, others) + (IF Rank(j, others) < k THEN 0 ELSE 1) \in Nat
    <3> HIDE DEF others
    <3> QED BY <2>1, RankType
  <2>3. k \in Nat
    BY StoreAssumption DEF Items
  <2>4. queue' = [j \in Items |->
           IF j = i THEN [queue[j] EXCEPT !.order = k]
           ELSE IF j \in others
                THEN [queue[j] EXCEPT !.order = Rank(j, others) + (IF Rank(j, others) < k THEN 0 ELSE 1)]
                ELSE queue[j]]
    BY <1>4 DEF ReorderQueue
  <2>5. queue' \in [Items -> QueueRow]
    <3> HIDE DEF others
    <3>1. \A j \in Items :
            [queue[j] EXCEPT !.order = Rank(j, others) + (IF Rank(j, others) < k THEN 0 ELSE 1)] \in QueueRow
      BY <2>2, RenumberedType
    <3>2. [queue[i] EXCEPT !.order = k] \in QueueRow
      BY <2>3, RenumberedType
    <3> QED BY <2>4, <3>1, <3>2 DEF StoreTypeOK
  <2> QED BY <1>4, <2>5 DEF ReorderQueue, StoreTypeOK
<1>5. ASSUME NEW i \in Items, CancelQueueItem(i) PROVE StoreTypeOK'
  <2>1. queue' \in [Items -> QueueRow]
    BY <1>5, WithStatusType DEF CancelQueueItem, Terminal
  <2>2. scenarios' \in [Scenarios -> ScenarioRow]
    BY <1>5, <2>1, RestoredRowsType DEF CancelQueueItem
  <2> QED BY <1>5, <2>1, <2>2 DEF CancelQueueItem, StoreTypeOK
<1>6. ASSUME NEW p \in Projects, NEW D \in SUBSET Items, BatchDeleteQueueItems(D, p) PROVE StoreTypeOK'
  <2> DEFINE kept == Waiting(p) \ D
  <2>1. kept \in SUBSET Items
    BY DEF Waiting
  <2>2. \A i \in Items : Rank(i, kept) \in Nat
    BY <2>1, RankType
  <2>3. queue' = [i \in Items |->
           IF i \in D
           THEN IF queue[i].status \in Staged
                THEN [queue[i] EXCEPT !.deleted = TRUE, !.status = "cancelled", !.reason = "queue_deleted"]
                ELSE [queue[i] EXCEPT !.deleted = TRUE]
           ELSE IF i \in kept THEN [queue[i] EXCEPT !.order = Rank(i, kept)] ELSE queue[i]]
    BY <1>6 DEF BatchDeleteQueueItems
  <2>4. queue' \in [Items -> QueueRow]
    <3> HIDE DEF kept
    <3>1. \A j \in Items : [queue[j] EXCEPT !.order = Rank(j, kept)] \in QueueRow
      BY <2>2, RenumberedType
    <3> QED BY <2>3, <3>1, RemovedType DEF StoreTypeOK
  <2>5. scenarios' \in [Scenarios -> ScenarioRow]
    BY <1>6, <2>4, RestoredRowsType DEF BatchDeleteQueueItems
  <2> QED BY <1>6, <2>4, <2>5 DEF BatchDeleteQueueItems, StoreTypeOK
<1> QED BY <1>1, <1>2, <1>3, <1>4, <1>5, <1>6 DEF QueueRequest

\* A claim keeps the types, whether it starts or refuses the row.
LEMMA ClaimType == ASSUME StoreTypeOK, RowsNamed, NEW i \in Items, ClaimQueueItem(i) PROVE StoreTypeOK'
<1>1. queue[i].status # "absent"
  BY DEF ClaimQueueItem, ClaimFrozen, ClaimStale, ClaimDraft
<1> DEFINE s == queue[i].scenario
<1>2. s \in Scenarios /\ scenarios[s] \in ScenarioRow
  BY <1>1, RowType
<1>3. ASSUME NEW rev \in 0 .. MaxRevisions, ClaimStarts(i, rev), revisions' \in [Revisions -> RevisionRow]
      PROVE  StoreTypeOK'
  <2>1. queue' \in [Items -> QueueRow]
    <3>1. [queue[i] EXCEPT !.status = "starting", !.revision = rev] \in QueueRow
      BY DEF StoreTypeOK, QueueRow, Live, Active
    <3> QED BY <1>3, <3>1 DEF ClaimStarts, StoreTypeOK
  <2>2. runs' \in [Items -> RunRow]
    <3>1. [status |-> "starting", revision |-> rev, par |-> scenarios[s].par] \in RunRow
      BY <1>2 DEF RunRow, ScenarioRow, Active
    <3> QED BY <1>3, <3>1 DEF ClaimStarts, StoreTypeOK
  <2>3. scenarios' \in [Scenarios -> ScenarioRow]
    <3>1. [scenarios[s] EXCEPT !.revision = rev, !.status = "running"] \in ScenarioRow
      BY <1>2 DEF ScenarioRow, Live, Active
    <3> QED BY <1>2, <1>3, <3>1 DEF ClaimStarts, StoreTypeOK
  <2> QED BY <1>3, <2>1, <2>2, <2>3 DEF ClaimStarts, StoreTypeOK
<1>4. ASSUME NEW why \in {"draft_changed", "preflight_failed"}, ClaimRefused(i, why),
             revisions' \in [Revisions -> RevisionRow]
      PROVE  StoreTypeOK'
  <2>1. queue' \in [Items -> QueueRow]
    BY <1>4, CancelledType DEF ClaimRefused
  <2>2. scenarios' \in [Scenarios -> ScenarioRow]
    BY <1>2, <1>4 DEF ClaimRefused, StoreTypeOK, ScenarioRow
  <2> QED BY <1>4, <2>1, <2>2 DEF ClaimRefused, StoreTypeOK
<1>5. CASE ClaimFrozen(i)
  <2>1. queue[i].revision \in 0 .. MaxRevisions /\ revisions' \in [Revisions -> RevisionRow]
    BY <1>5 DEF ClaimFrozen, StoreTypeOK, QueueRow
  <2> QED BY <1>3, <1>4, <1>5, <2>1 DEF ClaimFrozen
<1>6. CASE ClaimStale(i)
  <2>1. revisions' \in [Revisions -> RevisionRow]
    BY <1>6 DEF ClaimStale, StoreTypeOK
  <2> QED BY <1>4, <1>6, <2>1 DEF ClaimStale
<1>7. ASSUME NEW ok \in BlobChecks, ClaimDraft(i, ok) PROVE StoreTypeOK'
  <2>1. revisions' \in [Revisions -> RevisionRow]
    BY <1>2, <1>7 DEF ClaimDraft, StoreTypeOK, RevisionRow, ScenarioRow
  <2>2. i \in 0 .. MaxRevisions
    BY StoreAssumption DEF Items
  <2> QED BY <1>3, <1>4, <1>7, <2>1, <2>2 DEF ClaimDraft
<1> QED BY <1>5, <1>6, <1>7 DEF ClaimQueueItem

\* The calls of the scheduler keep the types.
LEMMA RuntimeCallType == StoreTypeOK /\ RowsNamed /\ RuntimeCall => StoreTypeOK'
<1> SUFFICES ASSUME StoreTypeOK, RowsNamed, RuntimeCall PROVE StoreTypeOK'
  OBVIOUS
<1>1. ASSUME NEW i \in Items, ClaimQueueItem(i) PROVE StoreTypeOK'
  BY <1>1, ClaimType
<1>2. ASSUME NEW i \in Items, NEW st \in Active \cup Outcomes, UpdateRun(i, st) PROVE StoreTypeOK'
  <2>1. st \in Active \cup RunEnd
    BY StoreAssumption DEF RunEnd
  <2>2. [runs[i] EXCEPT !.status = st] \in RunRow
    BY <2>1 DEF StoreTypeOK, RunRow
  <2>3. st \in Active => [queue[i] EXCEPT !.status = st] \in QueueRow
    BY DEF StoreTypeOK, QueueRow, Live
  <2> QED BY <1>2, <2>2, <2>3 DEF UpdateRun, StoreTypeOK
<1>3. ASSUME NEW i \in Items, NEW st \in Outcomes \cup {"interrupted"}, queue[i].status \in Active, FinishRun(i, st)
      PROVE  StoreTypeOK'
  <2>1. st \in RunEnd
    BY StoreAssumption DEF RunEnd
  <2>2. [runs[i] EXCEPT !.status = st] \in RunRow
    BY <2>1 DEF StoreTypeOK, RunRow
  <2>3. [queue[i] EXCEPT !.status = st] \in QueueRow
    BY <2>1 DEF StoreTypeOK, QueueRow, Terminal
  <2>4. \A s \in Scenarios : [scenarios[s] EXCEPT !.status = st] \in ScenarioRow
    BY <2>1 DEF StoreTypeOK, ScenarioRow, Terminal
  <2> QED BY <1>3, <2>2, <2>3, <2>4 DEF FinishRun, StoreTypeOK
<1>4. ASSUME NEW P \in SUBSET Projects, RecoverInterruptedRuns(P) PROVE StoreTypeOK'
  <2> DEFINE lost == {i \in Items : queue[i].status \in Active /\ \E p \in P : InProject(i, p)}
  <2>1. queue' = WithStatus(lost, "interrupted")
    BY <1>4 DEF RecoverInterruptedRuns
  <2>2. queue' \in [Items -> QueueRow]
    <3> HIDE DEF lost
    <3> QED BY <2>1, WithStatusType DEF Terminal, RunEnd
  <2>3. runs' \in [Items -> RunRow]
    BY <1>4 DEF RecoverInterruptedRuns, StoreTypeOK, RunRow, RunEnd
  <2>4. scenarios' \in [Scenarios -> ScenarioRow]
    BY <1>4 DEF RecoverInterruptedRuns, StoreTypeOK, ScenarioRow, Terminal, RunEnd
  <2> QED BY <1>4, <2>2, <2>3, <2>4 DEF RecoverInterruptedRuns, StoreTypeOK
<1> QED BY <1>1, <1>2, <1>3, <1>4 DEF RuntimeCall

-----------------------------------------------------------------------------
\* What a step does to the rows

Rows == RowsNamed /\ DeletedIsTerminal /\ RecoverableRuns

StoreInv == StoreTypeOK /\ Rows

\* The rows I take the status st, the others keep theirs; none is renamed.
StatusStep(I, st) ==
  \A j \in Items : /\ queue'[j].scenario = queue[j].scenario
                   /\ queue'[j].status = IF j \in I THEN st ELSE queue[j].status

\* Removal marks stay as they are.
MarksKept == \A j \in Items : queue'[j].deleted = queue[j].deleted

\* The five ways in which a handler moves rows on.
Releases(I, st) == st = "queued" /\ \A i \in I : queue[i].status = "waiting"
Withdraws(I, st) == st = "cancelled" /\ \A i \in I : queue[i].status \in Staged
Begins(I, st) ==
  /\ st = "starting"
  /\ \E i \in Items :
       /\ I = {i}
       /\ queue[i].status = "queued"
       /\ \A j \in Items :
            queue[j].scenario # None /\ ProjectOf[queue[j].scenario] = ProjectOf[queue[i].scenario]
              => queue[j].status \notin Active
Reports(I, st) == st \in Active /\ \A i \in I : queue[i].status \in Active
Ends(I, st) == st \in RunEnd /\ \A i \in I : queue[i].status \in Active

Moves(I, st) == Releases(I, st) \/ Withdraws(I, st) \/ Begins(I, st) \/ Reports(I, st) \/ Ends(I, st)

\* A new row of a scenario that has no live one.
Stages(i, s) ==
  /\ queue[i].status = "absent" /\ queue'[i].status = "waiting"
  /\ queue'[i].scenario = s
  /\ \A j \in Items : queue[j].scenario = s => queue[j].status \notin Live
  /\ \A j \in Items \ {i} : queue'[j].status = queue[j].status /\ queue'[j].scenario = queue[j].scenario

RowsMove == (\E i \in Items, s \in Scenarios : Stages(i, s))
           \/ (\E I \in SUBSET Items : \E st : StatusStep(I, st) /\ Moves(I, st))

\* A row whose status alone is written.
LEMMA RowWritten ==
  ASSUME NEW r \in QueueRow, NEW st
  PROVE  LET t == [r EXCEPT !.status = st]
         IN  t.status = st /\ t.scenario = r.scenario /\ t.deleted = r.deleted
BY DEF QueueRow

\* Writing a status to rows changes nothing else of them.
LEMMA WithStatusMoves ==
  ASSUME StoreTypeOK, NEW I \in SUBSET Items, NEW st, queue' = WithStatus(I, st)
  PROVE  StatusStep(I, st) /\ MarksKept
<1> SUFFICES ASSUME NEW j \in Items
             PROVE  /\ queue'[j].scenario = queue[j].scenario
                    /\ queue'[j].status = IF j \in I THEN st ELSE queue[j].status
                    /\ queue'[j].deleted = queue[j].deleted
  BY DEF StatusStep, MarksKept
<1>1. queue'[j] = IF j \in I THEN [queue[j] EXCEPT !.status = st] ELSE queue[j]
  BY DEF WithStatus
<1>2. queue[j] \in QueueRow
  BY DEF StoreTypeOK
<1> QED BY <1>1, <1>2, RowWritten

\* Neither does cancelling rows.
LEMMA CancelledMoves ==
  ASSUME StoreTypeOK, NEW I \in SUBSET Items, NEW why, queue' = Cancelled(I, why)
  PROVE  StatusStep(I, "cancelled") /\ MarksKept
<1> SUFFICES ASSUME NEW j \in Items
             PROVE  /\ queue'[j].scenario = queue[j].scenario
                    /\ queue'[j].status = IF j \in I THEN "cancelled" ELSE queue[j].status
                    /\ queue'[j].deleted = queue[j].deleted
  BY DEF StatusStep, MarksKept
<1>1. queue'[j] = IF j \in I THEN [queue[j] EXCEPT !.status = "cancelled", !.reason = why] ELSE queue[j]
  BY DEF Cancelled
<1>2. queue[j] \in QueueRow
  BY DEF StoreTypeOK
<1> QED BY <1>1, <1>2 DEF QueueRow

\* Nor writing the status of a single row.
LEMMA ExceptMoves ==
  ASSUME StoreTypeOK, NEW i \in Items, NEW st, queue' = [queue EXCEPT ![i].status = st]
  PROVE  StatusStep({i}, st) /\ MarksKept
<1>1. queue' = WithStatus({i}, st)
  BY DEF WithStatus, StoreTypeOK
<1> QED BY <1>1, WithStatusMoves

\* Rows move on, runs are left alone: nothing is lost.
LEMMA MovedRows ==
  ASSUME StoreInv, NEW I \in SUBSET Items, NEW st, StatusStep(I, st), MarksKept, Moves(I, st),
         \A i \in I : queue[i].deleted => st \in Terminal,
         RecoverableRuns'
  PROVE  Rows'
<1>1. st # "absent" /\ \A i \in I : queue[i].status # "absent"
  BY DEF Moves, Releases, Withdraws, Begins, Reports, Ends, Active, Staged, RunEnd
<1>2. RowsNamed'
  BY <1>1 DEF StoreInv, Rows, RowsNamed, StatusStep
<1>3. DeletedIsTerminal'
  BY DEF StoreInv, Rows, DeletedIsTerminal, StatusStep, MarksKept
<1> QED BY <1>2, <1>3 DEF Rows

\* Cancelling staged rows is a withdrawal and keeps the invariant.
LEMMA WithdrawnRows ==
  ASSUME StoreInv, NEW I \in SUBSET Items, \A i \in I : queue[i].status \in Staged,
         NEW why, queue' = Cancelled(I, why), UNCHANGED runs
  PROVE  Rows' /\ RowsMove
<1>1. StatusStep(I, "cancelled") /\ MarksKept
  BY CancelledMoves DEF StoreInv
<1>2. Moves(I, "cancelled")
  BY DEF Moves, Withdraws
<1>3. RecoverableRuns'
  BY <1>1 DEF StoreInv, Rows, RecoverableRuns, StatusStep, Active, Staged
<1> QED BY <1>1, <1>2, <1>3, MovedRows DEF RowsMove, Terminal

\* A step that leaves the rows and the runs alone.
LEMMA SameRows == ASSUME StoreInv, UNCHANGED <<queue, runs>> PROVE Rows' /\ RowsMove
<1>1. StatusStep({}, "cancelled") /\ Moves({}, "cancelled")
  BY DEF StatusStep, Moves, Withdraws
<1> QED BY <1>1 DEF StoreInv, Rows, RowsNamed, DeletedIsTerminal, RecoverableRuns, RowsMove

\* Saves and deletions of inputs withdraw staged rows; the other requests on
\* drafts leave the queue alone.
LEMMA DraftRequestRows == StoreInv /\ DraftRequest => Rows' /\ RowsMove
<1> SUFFICES ASSUME StoreInv, DraftRequest PROVE Rows' /\ RowsMove
  OBVIOUS
<1>1. ASSUME NEW s \in Scenarios, NEW par \in Params, NEW bind \in SUBSET Assets, UpdateScenario(s, par, bind)
      PROVE  Rows' /\ RowsMove
  <2>1. CASE queue' = queue
    BY <1>1, <2>1, SameRows DEF UpdateScenario
  <2>2. CASE queue' = Cancelled(StagedItemsOf(s), "draft_changed")
    <3>1. StagedItemsOf(s) \in SUBSET Items /\ \A i \in StagedItemsOf(s) : queue[i].status \in Staged
      BY DEF StagedItemsOf, ItemsOf
    <3>2. UNCHANGED runs
      BY <1>1 DEF UpdateScenario
    <3> QED BY <2>2, <3>1, <3>2, WithdrawnRows
  <2> QED BY <1>1, <2>1, <2>2 DEF UpdateScenario
<1>2. ASSUME NEW A \in SUBSET Assets, BatchDeleteAssets(A) PROVE Rows' /\ RowsMove
  <2> DEFINE I == UNION {StagedItemsOf(s) : s \in {t \in Scenarios : scenarios[t].bind \cap A # {}}}
  <2>1. I \in SUBSET Items /\ \A i \in I : queue[i].status \in Staged
    BY DEF StagedItemsOf, ItemsOf
  <2>2. queue' = Cancelled(I, "asset_deleted") /\ UNCHANGED runs
    BY <1>2 DEF BatchDeleteAssets
  <2> QED BY <2>1, <2>2, WithdrawnRows
<1>3. CASE UNCHANGED <<queue, runs>>
  BY <1>3, SameRows
<1> QED BY <1>1, <1>2, <1>3 DEF DraftRequest, IngestUpload, ArchiveAsset, CreateScenario, DuplicateScenario,
             ArchiveScenario, DeleteScenario, CreateInputRevision, ValidateInputRevision

\* Enqueueing stages a row of a scenario that has no live one: the search of
\* enqueue_scenario skips removed rows, which are not live.
LEMMA EnqueueRows ==
  ASSUME StoreInv, NEW i \in Items, NEW s \in Scenarios, NEW snapshot, EnqueueScenario(i, s, snapshot)
  PROVE  Rows' /\ RowsMove
<1>1. queue[i].status = "absent" /\ UNCHANGED runs
  BY DEF EnqueueScenario, Fresh
<1>2. queue'[i].status = "waiting" /\ queue'[i].scenario = s /\ ~queue'[i].deleted
  BY DEF EnqueueScenario, StoreInv, StoreTypeOK
<1>3. \A j \in Items \ {i} : queue'[j] = queue[j]
  BY DEF EnqueueScenario, StoreInv, StoreTypeOK
<1>4. \A j \in Items : queue[j].scenario = s => queue[j].status \notin Live
  <2>1. \A j \in Items : queue[j].deleted => queue[j].status \notin Live
    BY DEF StoreInv, Rows, DeletedIsTerminal, Live, Staged, Active, Terminal, RunEnd
  <2>2. LiveItemsOf(s) = {}
    BY DEF EnqueueScenario, AlreadyQueued
  <2> QED BY <2>1, <2>2 DEF LiveItemsOf, ItemsOf, StoreInv, StoreTypeOK, QueueRow
<1>5. Stages(i, s)
  BY <1>1, <1>2, <1>3, <1>4 DEF Stages
<1>6. RowsNamed' /\ DeletedIsTerminal'
  BY <1>2, <1>3, StoreAssumption DEF StoreInv, Rows, RowsNamed, DeletedIsTerminal
<1>7. RecoverableRuns'
  BY <1>1, <1>2, <1>3 DEF StoreInv, Rows, RecoverableRuns, Active
<1> QED BY <1>5, <1>6, <1>7 DEF Rows, RowsMove

\* Requests on the queue stage, release or withdraw rows.
LEMMA QueueRequestRows == StoreInv /\ QueueRequest => Rows' /\ RowsMove
<1> SUFFICES ASSUME StoreInv, QueueRequest PROVE Rows' /\ RowsMove
  OBVIOUS
<1>1. ASSUME NEW i \in Items, NEW s \in Scenarios, EnqueueScenario(i, s, 0) PROVE Rows' /\ RowsMove
  BY <1>1, EnqueueRows
<1>2. ASSUME NEW i \in Items, NEW old \in Items, RetryQueueItem(i, old) PROVE Rows' /\ RowsMove
  <2>1. queue[old].scenario \in Scenarios
    BY <1>2, RowType DEF RetryQueueItem, Retryable, StoreInv, Rows
  <2>2. EnqueueScenario(i, queue[old].scenario, queue[old].revision)
    BY <1>2 DEF RetryQueueItem
  <2> QED BY <2>1, <2>2, EnqueueRows
<1>3. ASSUME NEW p \in Projects, StartQueueBatch(p) PROVE Rows' /\ RowsMove
  <2>1. /\ Waiting(p) \in SUBSET Items
        /\ \A i \in Waiting(p) : queue[i].status = "waiting" /\ ~queue[i].deleted
    BY DEF Waiting
  <2>2. queue' = WithStatus(Waiting(p), "queued") /\ UNCHANGED runs
    BY <1>3 DEF StartQueueBatch
  <2>3. StatusStep(Waiting(p), "queued") /\ MarksKept
    BY <2>1, <2>2, WithStatusMoves DEF StoreInv
  <2>4. Moves(Waiting(p), "queued")
    BY <2>1 DEF Moves, Releases
  <2>5. RecoverableRuns'
    BY <2>1, <2>2, <2>3 DEF StoreInv, Rows, RecoverableRuns, StatusStep, Active
  <2> QED BY <2>1, <2>3, <2>4, <2>5, MovedRows DEF RowsMove
<1>4. ASSUME NEW i \in Items, NEW k \in Items, NEW p \in Projects, ReorderQueue(i, k, p) PROVE Rows' /\ RowsMove
  <2>1. \A j \in Items : \E o : queue'[j] = [queue[j] EXCEPT !.order = o] \/ queue'[j] = queue[j]
    BY <1>4 DEF ReorderQueue
  <2>2. \A j \in Items : queue[j] \in QueueRow
    BY DEF StoreInv, StoreTypeOK
  <2>3. ASSUME NEW j \in Items
        PROVE  /\ queue'[j].status = queue[j].status
               /\ queue'[j].scenario = queue[j].scenario
               /\ queue'[j].deleted = queue[j].deleted
    BY <2>1, <2>2 DEF QueueRow
  <2>4. StatusStep({}, "cancelled") /\ MarksKept /\ Moves({}, "cancelled")
    BY <2>3 DEF StatusStep, MarksKept, Moves, Withdraws
  <2>5. RecoverableRuns'
    BY <1>4, <2>3 DEF ReorderQueue, StoreInv, Rows, RecoverableRuns
  <2> QED BY <2>4, <2>5, MovedRows DEF RowsMove
<1>5. ASSUME NEW i \in Items, CancelQueueItem(i) PROVE Rows' /\ RowsMove
  <2>1. queue[i].status \in Staged /\ queue' = WithStatus({i}, "cancelled") /\ UNCHANGED runs
    BY <1>5 DEF CancelQueueItem
  <2>2. StatusStep({i}, "cancelled") /\ MarksKept
    BY <2>1, WithStatusMoves DEF StoreInv
  <2>3. Moves({i}, "cancelled")
    BY <2>1 DEF Moves, Withdraws
  <2>4. RecoverableRuns'
    BY <2>1, <2>2 DEF StoreInv, Rows, RecoverableRuns, StatusStep, Active, Staged
  <2> QED BY <2>2, <2>3, <2>4, MovedRows DEF RowsMove, Terminal
<1>6. ASSUME NEW p \in Projects, NEW D \in SUBSET Items, BatchDeleteQueueItems(D, p) PROVE Rows' /\ RowsMove
  <2> DEFINE I == {i \in D : queue[i].status \in Staged}
  <2>1. \A j \in Items : queue[j] \in QueueRow
    BY DEF StoreInv, StoreTypeOK
  <2>2. \A j \in D : /\ queue[j].scenario # None /\ queue[j].status \notin Active
                     /\ queue'[j] = IF queue[j].status \in Staged
                                    THEN [queue[j] EXCEPT !.deleted = TRUE, !.status = "cancelled",
                                                          !.reason = "queue_deleted"]
                                    ELSE [queue[j] EXCEPT !.deleted = TRUE]
    BY <1>6 DEF BatchDeleteQueueItems, InProject, Removable
  <2>3. \A j \in Items \ D : \E o : queue'[j] = [queue[j] EXCEPT !.order = o] \/ queue'[j] = queue[j]
    BY <1>6 DEF BatchDeleteQueueItems
  <2>4. ASSUME NEW j \in D
        PROVE  /\ queue'[j].scenario = queue[j].scenario
               /\ queue'[j].status = IF queue[j].status \in Staged THEN "cancelled" ELSE queue[j].status
               /\ queue[j].status \in Staged \cup Terminal
    <3>1. queue[j].status \in Staged \cup Terminal
      BY <2>1, <2>2 DEF StoreInv, Rows, RowsNamed, QueueRow, Live
    <3>2. CASE queue[j].status \in Staged
      BY <2>1, <2>2, <3>2 DEF QueueRow
    <3>3. CASE queue[j].status \notin Staged
      <4>1. queue'[j] = [queue[j] EXCEPT !.deleted = TRUE]
        BY <2>2, <3>3
      <4> QED BY <2>1, <3>1, <3>3, <4>1 DEF QueueRow
    <3> QED BY <3>2, <3>3
  <2>5. ASSUME NEW j \in Items \ D
        PROVE  /\ queue'[j].scenario = queue[j].scenario
               /\ queue'[j].status = queue[j].status
               /\ queue'[j].deleted = queue[j].deleted
    BY <2>1, <2>3 DEF QueueRow
  <2>6. StatusStep(I, "cancelled") /\ Moves(I, "cancelled")
    BY <2>4, <2>5 DEF StatusStep, Moves, Withdraws
  <2>7. RowsNamed'
    BY <2>6 DEF StoreInv, Rows, RowsNamed, StatusStep, Staged
  <2>8. DeletedIsTerminal'
    BY <2>4, <2>5 DEF StoreInv, Rows, DeletedIsTerminal, Terminal
  <2>9. RecoverableRuns'
    BY <1>6, <2>6 DEF BatchDeleteQueueItems, StoreInv, Rows, RecoverableRuns, StatusStep, Staged, Active
  <2> QED BY <2>6, <2>7, <2>8, <2>9 DEF Rows, RowsMove
<1> QED BY <1>1, <1>2, <1>3, <1>4, <1>5, <1>6 DEF QueueRequest

\* A claim begins or withdraws the row.
LEMMA ClaimRows ==
  ASSUME StoreInv, NEW i \in Items, ~queue[i].deleted, ClaimQueueItem(i),
         \A j \in Items : queue[j].scenario # None /\ ProjectOf[queue[j].scenario] = ProjectOf[queue[i].scenario]
           => queue[j].status \notin Active
  PROVE  Rows' /\ RowsMove
<1>1. queue[i].status = "queued"
  BY DEF ClaimQueueItem, ClaimFrozen, ClaimStale, ClaimDraft
<1>2. ASSUME NEW rev, ClaimStarts(i, rev) PROVE Rows' /\ RowsMove
  <2>1. queue[i] \in QueueRow
    BY DEF StoreInv, StoreTypeOK
  <2>2. queue' = [queue EXCEPT ![i] = [queue[i] EXCEPT !.status = "starting", !.revision = rev]]
    BY <1>2 DEF ClaimStarts, StoreInv, StoreTypeOK
  <2>3. queue'[i] = [queue[i] EXCEPT !.status = "starting", !.revision = rev]
          /\ \A j \in Items \ {i} : queue'[j] = queue[j]
    BY <2>2 DEF StoreInv, StoreTypeOK
  <2>4. StatusStep({i}, "starting") /\ MarksKept
    BY <2>1, <2>3 DEF QueueRow, StatusStep, MarksKept
  <2>5. Moves({i}, "starting")
    BY <1>1 DEF Moves, Begins
  <2>6. \A j \in Items \ {i} : runs'[j] = runs[j]
    BY <1>2 DEF ClaimStarts, StoreInv, StoreTypeOK
  <2>7. RecoverableRuns'
    BY <2>4, <2>6 DEF StoreInv, Rows, RecoverableRuns, StatusStep, Active
  <2> QED BY <2>4, <2>5, <2>7, MovedRows DEF RowsMove
<1>3. ASSUME NEW why, ClaimRefused(i, why) PROVE Rows' /\ RowsMove
  <2>1. queue' = Cancelled({i}, why) /\ UNCHANGED runs
    BY <1>3 DEF ClaimRefused
  <2> QED BY <1>1, <2>1, WithdrawnRows DEF Staged
<1> QED BY <1>2, <1>3 DEF ClaimQueueItem, ClaimFrozen, ClaimStale, ClaimDraft

\* A report keeps an active row active.
LEMMA UpdateRunRows ==
  ASSUME StoreInv, NEW i \in Items, NEW st \in Active \cup Outcomes, queue[i].status \in Active, UpdateRun(i, st)
  PROVE  Rows' /\ RowsMove
<1>1. ~queue[i].deleted
  BY DEF StoreInv, StoreTypeOK, QueueRow, Rows, DeletedIsTerminal, Active, Terminal, RunEnd
<1>2. runs[i] \in RunRow /\ runs' = [runs EXCEPT ![i].status = st]
  BY DEF StoreInv, StoreTypeOK, UpdateRun
<1>3. runs'[i].status = st /\ \A j \in Items \ {i} : runs'[j].status = runs[j].status
  BY <1>2 DEF StoreInv, StoreTypeOK, RunRow
<1>4. CASE st \in Active
  <2>1. queue' = [queue EXCEPT ![i].status = st]
    BY <1>4 DEF UpdateRun
  <2>2. StatusStep({i}, st) /\ MarksKept
    BY <2>1, ExceptMoves DEF StoreInv
  <2>3. Moves({i}, st)
    BY <1>4 DEF Moves, Reports
  <2>4. RecoverableRuns'
    BY <1>3, <1>4, <2>2 DEF StoreInv, Rows, RecoverableRuns, StatusStep
  <2> QED BY <1>1, <2>2, <2>3, <2>4, MovedRows DEF RowsMove
<1>5. CASE st \notin Active
  <2>1. queue' = queue
    BY <1>5 DEF UpdateRun
  <2>2. StatusStep({}, "cancelled") /\ Moves({}, "cancelled") /\ MarksKept
    BY <2>1 DEF StatusStep, Moves, Withdraws, MarksKept
  <2>3. RecoverableRuns'
    BY <1>3, <1>5, <2>1 DEF StoreInv, Rows, RecoverableRuns
  <2> QED BY <2>2, <2>3, MovedRows DEF RowsMove
<1> QED BY <1>4, <1>5

\* The end of a run ends its row.
LEMMA FinishRunRows ==
  ASSUME StoreInv, NEW i \in Items, NEW st \in Outcomes \cup {"interrupted"}, queue[i].status \in Active,
         FinishRun(i, st)
  PROVE  Rows' /\ RowsMove
<1>1. st \in RunEnd /\ st \notin Active
  BY StoreAssumption DEF RunEnd, Active
<1>2. runs[i] \in RunRow /\ runs' = [runs EXCEPT ![i].status = st]
  BY DEF StoreInv, StoreTypeOK, FinishRun
<1>3. runs'[i].status = st /\ \A j \in Items \ {i} : runs'[j].status = runs[j].status
  BY <1>2 DEF StoreInv, StoreTypeOK, RunRow
<1>4. StatusStep({i}, st) /\ MarksKept
  BY ExceptMoves DEF FinishRun, StoreInv
<1>5. Moves({i}, st)
  BY <1>1 DEF Moves, Ends
<1>6. RecoverableRuns'
  BY <1>1, <1>3, <1>4 DEF StoreInv, Rows, RecoverableRuns, StatusStep
<1> QED BY <1>1, <1>4, <1>5, <1>6, MovedRows DEF RowsMove, Terminal

\* The recovery ends active rows and their runs.
LEMMA RecoverRows ==
  ASSUME StoreInv, NEW P \in SUBSET Projects, RecoverInterruptedRuns(P)
  PROVE  Rows' /\ RowsMove
<1> DEFINE lost == {i \in Items : queue[i].status \in Active /\ \E p \in P : InProject(i, p)}
<1>1. lost \in SUBSET Items /\ \A i \in lost : queue[i].status \in Active
  OBVIOUS
<1>2. queue' = WithStatus(lost, "interrupted")
  BY DEF RecoverInterruptedRuns
<1>3. \A i \in Items : runs'[i] = IF i \in lost /\ runs[i].status # "none"
                                  THEN [runs[i] EXCEPT !.status = "interrupted"] ELSE runs[i]
  BY DEF RecoverInterruptedRuns
<1> HIDE DEF lost
<1>4. StatusStep(lost, "interrupted") /\ MarksKept
  BY <1>1, <1>2, WithStatusMoves DEF StoreInv
<1>5. Moves(lost, "interrupted")
  BY <1>1 DEF Moves, Ends, RunEnd
<1>6. ASSUME NEW i \in Items, runs'[i].status \in Active PROVE i \notin lost /\ runs[i].status \in Active
  <2>1. runs[i] \in RunRow
    BY DEF StoreInv, StoreTypeOK
  <2> QED BY <1>3, <1>6, <2>1 DEF RunRow, Active
<1>7. RecoverableRuns'
  BY <1>4, <1>6 DEF StoreInv, Rows, RecoverableRuns, StatusStep
<1> QED BY <1>1, <1>4, <1>5, <1>7, MovedRows DEF RowsMove, Terminal, RunEnd

\* The scheduler only begins, reports on and ends rows.
LEMMA RuntimeCallRows == StoreInv /\ RuntimeCall => Rows' /\ RowsMove
<1> SUFFICES ASSUME StoreInv, RuntimeCall PROVE Rows' /\ RowsMove
  OBVIOUS
<1>1. ASSUME NEW p \in Projects, NEW i \in Items, IsHead(i, p),
             \A j \in Items : InProject(j, p) => queue[j].status \notin Active,
             ClaimQueueItem(i)
      PROVE  Rows' /\ RowsMove
  <2>1. ~queue[i].deleted /\ ProjectOf[queue[i].scenario] = p
    BY <1>1 DEF IsHead, Queued, InProject
  <2> QED BY <1>1, <2>1, ClaimRows DEF InProject
<1>2. ASSUME NEW i \in Items, NEW st \in Active \cup Outcomes, queue[i].status \in Active, UpdateRun(i, st)
      PROVE  Rows' /\ RowsMove
  BY <1>2, UpdateRunRows
<1>3. ASSUME NEW i \in Items, NEW st \in Outcomes \cup {"interrupted"}, queue[i].status \in Active, FinishRun(i, st)
      PROVE  Rows' /\ RowsMove
  BY <1>3, FinishRunRows
<1>4. ASSUME NEW P \in SUBSET Projects, RecoverInterruptedRuns(P) PROVE Rows' /\ RowsMove
  BY <1>4, RecoverRows
<1> QED BY <1>1, <1>2, <1>3, <1>4 DEF RuntimeCall

-----------------------------------------------------------------------------
\* Theorems

\* At first the queue is empty.
LEMMA NothingQueued ==
  StoreInit => \A i \in Items : /\ queue[i].status = "absent" /\ queue[i].scenario = None
                                /\ ~queue[i].deleted /\ runs[i].status = "none"
<1>1. NoRow.status = "absent" /\ NoRow.scenario = None /\ NoRow.deleted = FALSE
  BY DEF NoRow
<1>2. StoreInit => \A i \in Items : queue[i] = NoRow /\ runs[i].status = "none"
  BY DEF StoreInit
<1> QED BY <1>1, <1>2

\* The invariant holds at first.
LEMMA StoreInvInit == StoreInit => StoreInv
BY InitType, NothingQueued
   DEF StoreInv, Rows, RowsNamed, DeletedIsTerminal, RecoverableRuns, Active

\* Every step keeps the invariant and moves rows in one of the known ways.
LEMMA StoreInvStep == StoreInv /\ [StoreNext]_storeVars => StoreInv' /\ RowsMove
<1> SUFFICES ASSUME StoreInv, [StoreNext]_storeVars PROVE StoreInv' /\ RowsMove
  OBVIOUS
<1>1. CASE DraftRequest
  BY <1>1, DraftRequestType, DraftRequestRows DEF StoreInv
<1>2. CASE QueueRequest
  BY <1>2, QueueRequestType, QueueRequestRows DEF StoreInv, Rows
<1>3. CASE RuntimeCall
  BY <1>3, RuntimeCallType, RuntimeCallRows DEF StoreInv, Rows
<1>4. CASE UNCHANGED storeVars
  <2>1. StoreTypeOK'
    BY <1>4 DEF storeVars, StoreInv, StoreTypeOK
  <2> QED BY <1>4, <2>1, SameRows DEF storeVars, StoreInv
<1> QED BY <1>1, <1>2, <1>3, <1>4 DEF StoreNext

\* In every reachable state the tables are well formed, no work is hidden
\* behind a removed row and every active run is found by the recovery.
THEOREM StoreInvariant == StoreSpec => []StoreInv
BY StoreInvInit, StoreInvStep, PTL DEF StoreSpec

\* Every column of the project databases keeps its declared domain.
THEOREM StoreTypeCorrect == StoreSpec => []StoreTypeOK
<1>1. StoreInv => StoreTypeOK
  BY DEF StoreInv
<1> QED BY <1>1, StoreInvariant, PTL

\* A row removed from the queue is never staged, active or claimed again.
THEOREM RemovedRowsEnded == StoreSpec => []DeletedIsTerminal
<1>1. StoreInv => DeletedIsTerminal
  BY DEF StoreInv, Rows
<1> QED BY <1>1, StoreInvariant, PTL

\* A restart finds every simulation row that is marked active.
THEOREM EveryRunRecoverable == StoreSpec => []RecoverableRuns
<1>1. StoreInv => RecoverableRuns
  BY DEF StoreInv, Rows
<1> QED BY <1>1, StoreInvariant, PTL

\* The states of a row and the phases of its request.
LEMMA PhaseFacts ==
  ASSUME NEW st
  PROVE  /\ st = "absent" => PhaseOf(st) = "absent"
         /\ st = "waiting" => PhaseOf(st) = "staged"
         /\ st = "queued" => PhaseOf(st) = "released"
         /\ st \in Active => PhaseOf(st) = "active"
         /\ st \in Terminal => PhaseOf(st) = "ended"
BY DEF PhaseOf, Active, Terminal, RunEnd

\* Each of these ways is a step of the abstract lifecycle or changes no phase.
LEMMA LifecycleStep == StoreInv /\ RowsMove => [Lifecycle!Next]_(Lifecycle!lifecycleVars)
<1> SUFFICES ASSUME StoreInv, RowsMove PROVE [Lifecycle!Next]_(Lifecycle!lifecycleVars)
  OBVIOUS
<1> DEFINE phase == [i \in Items |-> PhaseOf(queue[i].status)]
           subject == [i \in Items |-> queue[i].scenario]
<1>1. ASSUME NEW i \in Items, NEW s \in Scenarios, Stages(i, s) PROVE Lifecycle!Stage(i, s)
  <2>1. phase[i] = "absent"
    BY <1>1, PhaseFacts DEF Stages
  <2>2. \A j \in Items : queue[j].status \in {"absent"} \cup Live \cup Terminal
    BY DEF StoreInv, StoreTypeOK, QueueRow
  <2>3. \A j \in Items : subject[j] = s => phase[j] \notin Lifecycle!Unfinished
    BY <1>1, <2>2, PhaseFacts DEF Stages, Lifecycle!Unfinished
  <2>4. phase' = Lifecycle!Moved({i}, "staged")
    BY <1>1, PhaseFacts DEF Stages, Lifecycle!Moved
  <2>5. subject' = [subject EXCEPT ![i] = s]
    BY <1>1 DEF Stages
  <2> QED BY <2>1, <2>3, <2>4, <2>5 DEF Lifecycle!Stage
<1>2. ASSUME NEW I \in SUBSET Items, NEW st, StatusStep(I, st), Moves(I, st)
      PROVE  [Lifecycle!Next]_(Lifecycle!lifecycleVars)
  <2>1. phase' = Lifecycle!Moved(I, PhaseOf(st)) /\ subject' = subject
    BY <1>2 DEF StatusStep, Lifecycle!Moved
  <2>2. CASE Releases(I, st)
    <3>1. \A i \in I : phase[i] = "staged"
      BY <2>2, PhaseFacts DEF Releases
    <3>2. Lifecycle!Release(I)
      BY <2>1, <2>2, <3>1, PhaseFacts DEF Releases, Lifecycle!Release
    <3> QED BY <3>2 DEF Lifecycle!Next
  <2>3. CASE Withdraws(I, st)
    <3>1. \A i \in I : phase[i] \in {"staged", "released"}
      BY <2>3, PhaseFacts DEF Withdraws, Staged
    <3>2. Lifecycle!Withdraw(I)
      BY <2>1, <2>3, <3>1, PhaseFacts DEF Withdraws, Terminal, Lifecycle!Withdraw
    <3> QED BY <3>2 DEF Lifecycle!Next
  <2>4. CASE Begins(I, st)
    <3>1. PICK i \in Items :
            /\ I = {i}
            /\ queue[i].status = "queued"
            /\ \A j \in Items :
                 queue[j].scenario # None /\ ProjectOf[queue[j].scenario] = ProjectOf[queue[i].scenario]
                   => queue[j].status \notin Active
      BY <2>4 DEF Begins
    <3>2. phase[i] = "released"
      BY <3>1, PhaseFacts
    <3>3. \A j \in Items : phase[j] = "active" => queue[j].scenario # None /\ queue[j].status \in Active
      BY PhaseFacts DEF StoreInv, StoreTypeOK, QueueRow, Rows, RowsNamed, Live, Staged
    <3>4. Lifecycle!ActiveIn(ProjectOf[subject[i]]) = {}
      BY <3>1, <3>3 DEF Lifecycle!ActiveIn
    <3>5. PhaseOf(st) = "active"
      BY <2>4, PhaseFacts DEF Begins, Active
    <3>6. Lifecycle!Begin(i)
      BY <2>1, <3>1, <3>2, <3>4, <3>5 DEF Lifecycle!Begin
    <3> QED BY <3>6 DEF Lifecycle!Next
  <2>5. CASE Reports(I, st)
    <3>1. phase' = phase
      BY <1>2, <2>5, PhaseFacts DEF StatusStep, Reports
    <3> QED BY <2>1, <3>1 DEF Lifecycle!lifecycleVars
  <2>6. CASE Ends(I, st)
    <3>1. \A i \in I : phase[i] = "active"
      BY <2>6, PhaseFacts DEF Ends
    <3>2. Lifecycle!End(I)
      BY <2>1, <2>6, <3>1, PhaseFacts DEF Ends, Terminal, Lifecycle!End
    <3> QED BY <3>2 DEF Lifecycle!Next
  <2> QED BY <1>2, <2>2, <2>3, <2>4, <2>5, <2>6 DEF Moves
<1>3. CASE \E i \in Items, s \in Scenarios : Stages(i, s)
  BY <1>1, <1>3 DEF Lifecycle!Next
<1> QED BY <1>2, <1>3 DEF RowsMove

\* The tables implement the life of a request: whatever handler runs, a row
\* only moves forward from waiting to queued to active to ended.
THEOREM StoreImplementsLifecycle == StoreSpec => LifecycleSpec
<1>1. StoreInit => Lifecycle!Init
  BY NothingQueued, PhaseFacts DEF Lifecycle!Init
<1>2. StoreInv /\ [StoreNext]_storeVars => [Lifecycle!Next]_(Lifecycle!lifecycleVars)
  BY StoreInvStep, LifecycleStep
<1> QED BY <1>1, <1>2, StoreInvariant, PTL DEF StoreSpec, LifecycleSpec, Lifecycle!Spec

\* The abstract invariant, carried down: a scenario never has two rows that
\* are waiting, queued or active, so no handler can make it run twice at once.
THEOREM OneLiveItem == StoreSpec => []OneLiveItemPerScenario
<1>1. LifecycleSpec => []Lifecycle!Exclusive
  BY Lifecycle!ExclusiveAlways, PTL DEF LifecycleSpec
<1>2. StoreTypeOK /\ Lifecycle!Exclusive => OneLiveItemPerScenario
  BY PhaseFacts DEF Lifecycle!Exclusive, OneLiveItemPerScenario, LiveItemsOf, ItemsOf, Lifecycle!Unfinished, Live, Staged
<1> QED BY <1>1, <1>2, StoreImplementsLifecycle, StoreTypeCorrect, PTL
=============================================================================
