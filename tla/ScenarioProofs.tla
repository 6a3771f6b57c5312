--------------------------- MODULE ScenarioProofs ---------------------------
(***************************************************************************)
(* More theorems about the project databases: what drafts are bound to,    *)
(* what a run is run with, what a scenario is shown as, and the places of  *)
(* the waiting rows.                                                       *)
(***************************************************************************)
EXTENDS StoreProofs

-----------------------------------------------------------------------------
(* What the ways of writing rows leave alone.                              *)

\* A row keeps the request it stands for.
RowKept(j) ==
  /\ queue'[j].scenario = queue[j].scenario
  /\ queue'[j].revision = queue[j].revision
  /\ queue'[j].order = queue[j].order
  /\ queue'[j].deleted = queue[j].deleted

\* The rows I take the status st, and all keep the rest.
Marks(I, st) ==
  \A j \in Items : RowKept(j) /\ queue'[j].status = IF j \in I THEN st ELSE queue[j].status

\* A scenario keeps its contents.
ContentKept(s) ==
  /\ scenarios'[s].par = scenarios[s].par
  /\ scenarios'[s].bind = scenarios[s].bind
  /\ scenarios'[s].revision = scenarios[s].revision
  /\ scenarios'[s].archived = scenarios[s].archived

\* A status written into a row.
LEMMA RowMarked ==
  ASSUME NEW r \in QueueRow, NEW st
  PROVE  LET t == [r EXCEPT !.status = st]
         IN  /\ t.status = st /\ t.scenario = r.scenario /\ t.revision = r.revision
             /\ t.order = r.order /\ t.deleted = r.deleted
BY DEF QueueRow

\* A cancellation written into a row.
LEMMA RowCancelled ==
  ASSUME NEW r \in QueueRow, NEW why
  PROVE  LET t == [r EXCEPT !.status = "cancelled", !.reason = why]
         IN  /\ t.status = "cancelled" /\ t.scenario = r.scenario /\ t.revision = r.revision
             /\ t.order = r.order /\ t.deleted = r.deleted
BY DEF QueueRow

\* A status written into many rows.
LEMMA WithStatusMarks ==
  ASSUME StoreTypeOK, NEW I \in SUBSET Items, NEW st, queue' = WithStatus(I, st)
  PROVE  Marks(I, st)
<1> SUFFICES ASSUME NEW j \in Items
             PROVE  RowKept(j) /\ queue'[j].status = IF j \in I THEN st ELSE queue[j].status
  BY DEF Marks
<1>1. queue'[j] = IF j \in I THEN [queue[j] EXCEPT !.status = st] ELSE queue[j]
  BY DEF WithStatus
<1>2. queue[j] \in QueueRow
  BY DEF StoreTypeOK
<1> QED BY <1>1, <1>2, RowMarked DEF RowKept

\* A cancellation written into many rows.
LEMMA CancelledMarks ==
  ASSUME StoreTypeOK, NEW I \in SUBSET Items, NEW why, queue' = Cancelled(I, why)
  PROVE  Marks(I, "cancelled")
<1> SUFFICES ASSUME NEW j \in Items
             PROVE  RowKept(j) /\ queue'[j].status = IF j \in I THEN "cancelled" ELSE queue[j].status
  BY DEF Marks
<1>1. queue'[j] = IF j \in I THEN [queue[j] EXCEPT !.status = "cancelled", !.reason = why] ELSE queue[j]
  BY DEF Cancelled
<1>2. queue[j] \in QueueRow
  BY DEF StoreTypeOK
<1> QED BY <1>1, <1>2, RowCancelled DEF RowKept

\* A status written into one row.
LEMMA ExceptMarks ==
  ASSUME StoreTypeOK, NEW i \in Items, NEW st, queue' = [queue EXCEPT ![i].status = st]
  PROVE  Marks({i}, st)
<1>1. queue' = WithStatus({i}, st)
  BY DEF WithStatus, StoreTypeOK
<1> QED BY <1>1, WithStatusMarks

\* Nothing written.
LEMMA SameMarks == ASSUME NEW st, UNCHANGED queue PROVE Marks({}, st)
BY DEF Marks, RowKept

\* A status written into a scenario.
LEMMA ScenarioMarked ==
  ASSUME NEW r \in ScenarioRow, NEW st
  PROVE  LET t == [r EXCEPT !.status = st]
         IN  /\ t.status = st /\ t.par = r.par /\ t.bind = r.bind
             /\ t.revision = r.revision /\ t.archived = r.archived
BY DEF ScenarioRow

WithScenarioStatus(s, st) == [scenarios EXCEPT ![s].status = st]

\* A status written into one scenario.
LEMMA ScenarioExcept ==
  ASSUME StoreTypeOK, NEW s \in Scenarios, NEW st, scenarios' = WithScenarioStatus(s, st)
  PROVE  \A t \in Scenarios : /\ ContentKept(t)
                              /\ scenarios'[t].status = IF t = s THEN st ELSE scenarios[t].status
<1> SUFFICES ASSUME NEW t \in Scenarios
             PROVE  ContentKept(t) /\ scenarios'[t].status = IF t = s THEN st ELSE scenarios[t].status
  OBVIOUS
<1>0. scenarios' = [x \in Scenarios |-> IF x = s THEN [scenarios[x] EXCEPT !.status = st] ELSE scenarios[x]]
  BY DEF StoreTypeOK, WithScenarioStatus
<1>1. scenarios'[t] = IF t = s THEN [scenarios[t] EXCEPT !.status = st] ELSE scenarios[t]
  BY <1>0
<1>2. scenarios[t] \in ScenarioRow
  BY DEF StoreTypeOK
<1> QED BY <1>1, <1>2, ScenarioMarked DEF ContentKept

\* Statuses restored from the rows.
LEMMA RestoredFields ==
  ASSUME StoreTypeOK, NEW S, NEW q, scenarios' = Restored(S, q)
  PROVE  \A t \in Scenarios :
           /\ ContentKept(t)
           /\ scenarios'[t].status = IF t \in S THEN RestoredStatus(t, q) ELSE scenarios[t].status
<1> SUFFICES ASSUME NEW t \in Scenarios
             PROVE  /\ ContentKept(t)
                    /\ scenarios'[t].status = IF t \in S THEN RestoredStatus(t, q) ELSE scenarios[t].status
  OBVIOUS
<1>1. scenarios'[t] = IF t \in S THEN [scenarios[t] EXCEPT !.status = RestoredStatus(t, q)] ELSE scenarios[t]
  BY DEF Restored
<1>2. scenarios[t] \in ScenarioRow
  BY DEF StoreTypeOK
<1> QED BY <1>1, <1>2, ScenarioMarked DEF ContentKept

-----------------------------------------------------------------------------
(* What the queue and the scheduler leave of drafts and inputs.            *)

\* A scenario keeps its parameters and its draft.
DraftKept(s) ==
  /\ scenarios'[s].par = scenarios[s].par
  /\ scenarios'[s].bind = scenarios[s].bind
  /\ scenarios'[s].archived = scenarios[s].archived

\* Requests on the queue write statuses only.
LEMMA QueueKeepsContents ==
  ASSUME StoreInv, QueueRequest
  PROVE  UNCHANGED <<runs, uploads, revisions>> /\ \A s \in Scenarios : ContentKept(s)
<1> StoreTypeOK
  BY DEF StoreInv
<1>1. ASSUME NEW i \in Items, NEW s \in Scenarios, NEW snapshot, EnqueueScenario(i, s, snapshot)
      PROVE  UNCHANGED <<runs, uploads, revisions>> /\ \A t \in Scenarios : ContentKept(t)
  <2>1. scenarios' = WithScenarioStatus(s, "waiting") /\ UNCHANGED <<runs, uploads, revisions>>
    BY <1>1 DEF EnqueueScenario, WithScenarioStatus
  <2> QED BY <2>1, ScenarioExcept
<1>2. ASSUME NEW i \in Items, NEW old \in Items, RetryQueueItem(i, old)
      PROVE  UNCHANGED <<runs, uploads, revisions>> /\ \A t \in Scenarios : ContentKept(t)
  <2>1. queue[old].scenario \in Scenarios /\ EnqueueScenario(i, queue[old].scenario, queue[old].revision)
    BY <1>2, RowType DEF RetryQueueItem, Retryable, StoreInv, Rows
  <2> QED BY <1>1, <2>1
<1>3. ASSUME NEW p \in Projects, StartQueueBatch(p)
      PROVE  UNCHANGED <<runs, uploads, revisions>> /\ \A t \in Scenarios : ContentKept(t)
  <2> DEFINE Released(s) == \E i \in Waiting(p) : queue[i].scenario = s
  <2>1. /\ scenarios' = [s \in Scenarios |->
             IF Released(s) THEN [scenarios[s] EXCEPT !.status = "queued"] ELSE scenarios[s]]
        /\ UNCHANGED <<runs, uploads, revisions>>
    BY <1>3 DEF StartQueueBatch
  <2> HIDE DEF Released
  <2>2. ASSUME NEW t \in Scenarios PROVE ContentKept(t)
    <3>1. scenarios'[t] = IF Released(t) THEN [scenarios[t] EXCEPT !.status = "queued"] ELSE scenarios[t]
      BY <2>1
    <3>2. scenarios[t] \in ScenarioRow
      BY DEF StoreTypeOK
    <3> QED BY <3>1, <3>2, ScenarioMarked DEF ContentKept
  <2> QED BY <2>1, <2>2
<1>4. ASSUME NEW i \in Items, NEW k \in Items, NEW p \in Projects, ReorderQueue(i, k, p)
      PROVE  UNCHANGED <<runs, uploads, revisions>> /\ \A t \in Scenarios : ContentKept(t)
  BY <1>4 DEF ReorderQueue, ContentKept
<1>5. ASSUME NEW i \in Items, CancelQueueItem(i)
      PROVE  UNCHANGED <<runs, uploads, revisions>> /\ \A t \in Scenarios : ContentKept(t)
  <2>1. scenarios' = Restored({queue[i].scenario}, queue') /\ UNCHANGED <<runs, uploads, revisions>>
    BY <1>5 DEF CancelQueueItem
  <2> QED BY <2>1, RestoredFields
<1>6. ASSUME NEW p \in Projects, NEW D \in SUBSET Items, BatchDeleteQueueItems(D, p)
      PROVE  UNCHANGED <<runs, uploads, revisions>> /\ \A t \in Scenarios : ContentKept(t)
  <2>1. scenarios' = Restored({queue[i].scenario : i \in D}, queue') /\ UNCHANGED <<runs, uploads, revisions>>
    BY <1>6 DEF BatchDeleteQueueItems
  <2> QED BY <2>1, RestoredFields
<1> QED BY <1>1, <1>2, <1>3, <1>4, <1>5, <1>6 DEF QueueRequest

\* A claim writes a revision and a status.
LEMMA ClaimedScenario ==
  ASSUME StoreInv, NEW i \in Items, NEW rev, queue[i].status = "queued", ClaimStarts(i, rev)
  PROVE  /\ \A t \in Scenarios : DraftKept(t)
         /\ \A t \in Scenarios :
              scenarios'[t].revision = IF t = queue[i].scenario THEN rev ELSE scenarios[t].revision
         /\ \A t \in Scenarios :
              scenarios'[t].status = IF t = queue[i].scenario THEN "running" ELSE scenarios[t].status
<1> DEFINE s == queue[i].scenario
<1>1. \A t \in Scenarios :
        scenarios'[t] = IF t = s THEN [scenarios[t] EXCEPT !.revision = rev, !.status = "running"] ELSE scenarios[t]
  <2>1. s \in Scenarios
    BY RowType DEF StoreInv, Rows
  <2> HIDE DEF s
  <2>2. scenarios' = [scenarios EXCEPT ![s] = [scenarios[s] EXCEPT !.revision = rev, !.status = "running"]]
    BY DEF ClaimStarts, StoreInv, StoreTypeOK, s
  <2> QED BY <2>1, <2>2 DEF StoreInv, StoreTypeOK
<1>2. ASSUME NEW t \in Scenarios
      PROVE  /\ DraftKept(t)
             /\ scenarios'[t].revision = IF t = s THEN rev ELSE scenarios[t].revision
             /\ scenarios'[t].status = IF t = s THEN "running" ELSE scenarios[t].status
  <2>1. scenarios[t] \in ScenarioRow
    BY DEF StoreInv, StoreTypeOK
  <2> HIDE DEF s
  <2> QED BY <1>1, <2>1 DEF ScenarioRow, DraftKept
<1> QED BY <1>2

\* The recovery writes statuses of scenarios.
LEMMA RecoveredScenarios ==
  ASSUME StoreTypeOK, NEW P \in SUBSET Projects, RecoverInterruptedRuns(P), NEW t \in Scenarios
  PROVE  /\ ContentKept(t)
         /\ scenarios'[t].status =
              IF \E i \in Items : /\ queue[i].status \in Active /\ (\E p \in P : InProject(i, p))
                                  /\ queue[i].scenario = t
              THEN "stopped" ELSE scenarios[t].status
<1> DEFINE Stopped(s) == \E i \in Items : /\ queue[i].status \in Active /\ (\E p \in P : InProject(i, p))
                                          /\ queue[i].scenario = s
<1>1. scenarios' = [s \in Scenarios |->
         IF Stopped(s) THEN [scenarios[s] EXCEPT !.status = "stopped"] ELSE scenarios[s]]
  BY DEF RecoverInterruptedRuns
<1> HIDE DEF Stopped
<1>2. scenarios'[t] = IF Stopped(t) THEN [scenarios[t] EXCEPT !.status = "stopped"] ELSE scenarios[t]
  BY <1>1
<1>3. scenarios[t] \in ScenarioRow
  BY DEF StoreTypeOK
<1>4. ContentKept(t) /\ scenarios'[t].status = IF Stopped(t) THEN "stopped" ELSE scenarios[t].status
  BY <1>2, <1>3, ScenarioMarked DEF ContentKept
<1> QED BY <1>4 DEF Stopped

\* The scheduler leaves uploads, parameters and drafts alone.
LEMMA RuntimeKeepsDrafts ==
  ASSUME StoreInv, RuntimeCall
  PROVE  UNCHANGED uploads /\ \A s \in Scenarios : DraftKept(s)
<1> StoreTypeOK
  BY DEF StoreInv
<1>1. ASSUME NEW i \in Items, ClaimQueueItem(i) PROVE UNCHANGED uploads /\ \A t \in Scenarios : DraftKept(t)
  <2>1. queue[i].status = "queued"
    BY <1>1 DEF ClaimQueueItem, ClaimFrozen, ClaimStale, ClaimDraft
  <2>2. ASSUME NEW rev, ClaimStarts(i, rev) PROVE UNCHANGED uploads /\ \A t \in Scenarios : DraftKept(t)
    BY <2>1, <2>2, ClaimedScenario DEF ClaimStarts
  <2>3. ASSUME NEW why, ClaimRefused(i, why) PROVE UNCHANGED uploads /\ \A t \in Scenarios : DraftKept(t)
    <3>1. queue[i].scenario \in Scenarios
      BY <2>1, RowType DEF StoreInv, Rows
    <3>2. scenarios' = WithScenarioStatus(queue[i].scenario, "draft") /\ UNCHANGED uploads
      BY <2>3 DEF ClaimRefused, WithScenarioStatus
    <3> QED BY <3>1, <3>2, ScenarioExcept DEF ContentKept, DraftKept
  <2> QED BY <1>1, <2>2, <2>3 DEF ClaimQueueItem, ClaimFrozen, ClaimStale, ClaimDraft
<1>2. ASSUME NEW i \in Items, NEW st, UpdateRun(i, st) PROVE UNCHANGED uploads /\ \A t \in Scenarios : DraftKept(t)
  BY <1>2 DEF UpdateRun, DraftKept
<1>3. ASSUME NEW i \in Items, NEW st, queue[i].status \in Active, FinishRun(i, st)
      PROVE  UNCHANGED uploads /\ \A t \in Scenarios : DraftKept(t)
  <2>1. queue[i].scenario \in Scenarios
    BY <1>3, RowType DEF StoreInv, Rows, Active
  <2>2. scenarios' = WithScenarioStatus(queue[i].scenario, st) /\ UNCHANGED uploads
    BY <1>3 DEF FinishRun, WithScenarioStatus
  <2> QED BY <2>1, <2>2, ScenarioExcept DEF ContentKept, DraftKept
<1>4. ASSUME NEW P \in SUBSET Projects, RecoverInterruptedRuns(P)
      PROVE  UNCHANGED uploads /\ \A t \in Scenarios : DraftKept(t)
  <2>1. UNCHANGED uploads
    BY <1>4 DEF RecoverInterruptedRuns
  <2> QED BY <1>4, <2>1, RecoveredScenarios DEF ContentKept, DraftKept
<1> QED BY <1>1, <1>2, <1>3, <1>4 DEF RuntimeCall

-----------------------------------------------------------------------------
(* Draft bindings.                                                         *)

\* A new scenario is what it was created with.
LEMMA NewScenarioFields ==
  ASSUME NEW par, NEW bind, NEW rev, NEW version
  PROVE  LET n == NewScenario(par, bind, rev, version)
         IN  /\ n.par = par /\ n.bind = bind /\ n.revision = rev /\ ~n.archived
             /\ n.status \in {"ready", "draft"}
BY DEF NewScenario

\* Inputs are deleted together with the bindings of every draft.
LEMMA DeletedAssets ==
  ASSUME StoreTypeOK, NEW A \in SUBSET Assets, BatchDeleteAssets(A), NEW s \in Scenarios
  PROVE  /\ scenarios'[s].bind = scenarios[s].bind \ A
         /\ scenarios'[s].par = scenarios[s].par
         /\ scenarios'[s].revision = scenarios[s].revision
         /\ scenarios'[s].archived = scenarios[s].archived
         /\ scenarios'[s].status =
              IF /\ scenarios[s].bind \cap A # {} /\ ~scenarios[s].archived
                 /\ scenarios[s].status \in {"draft", "ready", "queued", "waiting"}
              THEN "draft" ELSE scenarios[s].status
<1> DEFINE Redraft(t) == /\ scenarios[t].bind \cap A # {} /\ ~scenarios[t].archived
                         /\ scenarios[t].status \in {"draft", "ready", "queued", "waiting"}
<1>1. scenarios'[s] = IF Redraft(s)
                      THEN [scenarios[s] EXCEPT !.bind = Detached(s, A), !.status = "draft", !.version = @ + 1]
                      ELSE [scenarios[s] EXCEPT !.bind = Detached(s, A)]
  BY DEF BatchDeleteAssets
<1>2. scenarios[s] \in ScenarioRow
  BY DEF StoreTypeOK
<1> DEFINE r == scenarios[s]
<1>3. /\ scenarios'[s].bind = Detached(s, A) /\ scenarios'[s].par = r.par
      /\ scenarios'[s].revision = r.revision /\ scenarios'[s].archived = r.archived
      /\ scenarios'[s].status = IF Redraft(s) THEN "draft" ELSE r.status
  <2> HIDE DEF Redraft
  <2> QED BY <1>1, <1>2 DEF ScenarioRow
<1> QED BY <1>3 DEF Detached

\* Bindings are made to existing uploads, and unmade before one goes.
LEMMA BindingsNext == StoreInv /\ DraftBindingsExist /\ [StoreNext]_storeVars => DraftBindingsExist'
<1> SUFFICES ASSUME StoreInv, DraftBindingsExist, [StoreNext]_storeVars PROVE DraftBindingsExist'
  OBVIOUS
<1> StoreTypeOK
  BY DEF StoreInv
<1>1. ASSUME NEW a \in Assets, IngestUpload(a) \/ ArchiveAsset(a) PROVE DraftBindingsExist'
  BY <1>1 DEF IngestUpload, ArchiveAsset, DraftBindingsExist, PresentAssets, StoreTypeOK
<1>2. ASSUME NEW s \in Scenarios, NEW par \in Params, NEW rev, CreateScenario(s, par, rev) PROVE DraftBindingsExist'
  BY <1>2, NewScenarioFields DEF CreateScenario, DraftBindingsExist, PresentAssets, StoreTypeOK
<1>3. ASSUME NEW s \in Scenarios, NEW t \in Scenarios, DuplicateScenario(s, t) PROVE DraftBindingsExist'
  <2>1. scenarios'[t].bind \in {{}, Bindings(s)} /\ (scenarios'[t].bind # {} => Bindings(s) \subseteq PresentAssets)
    <3>1. scenarios'[t] = IF Rebindable(s)
                          THEN NewScenario(scenarios[s].par, Bindings(s), 0, 2)
                          ELSE NewScenario(scenarios[s].par, {}, 0, 1)
      BY <1>3 DEF DuplicateScenario, StoreTypeOK
    <3> QED BY <3>1, NewScenarioFields DEF Rebindable
  <2>2. \A u \in Scenarios \ {t} : scenarios'[u] = scenarios[u]
    BY <1>3 DEF DuplicateScenario, StoreTypeOK
  <2>3. UNCHANGED uploads
    BY <1>3 DEF DuplicateScenario
  <2> QED BY <2>1, <2>2, <2>3 DEF DraftBindingsExist, PresentAssets
<1>4. ASSUME NEW s \in Scenarios, NEW par \in Params, NEW bind \in SUBSET Assets, UpdateScenario(s, par, bind)
      PROVE  DraftBindingsExist'
  <2>1. scenarios'[s].bind = bind /\ bind \subseteq PresentAssets /\ UNCHANGED uploads
    BY <1>4, NewScenarioFields DEF UpdateScenario, StoreTypeOK
  <2>2. \A u \in Scenarios \ {s} : scenarios'[u] = scenarios[u]
    BY <1>4 DEF UpdateScenario, StoreTypeOK
  <2> QED BY <2>1, <2>2 DEF DraftBindingsExist, PresentAssets
<1>5. ASSUME NEW s \in Scenarios, ArchiveScenario(s) PROVE DraftBindingsExist'
  BY <1>5 DEF ArchiveScenario, DraftBindingsExist, PresentAssets, StoreTypeOK, ScenarioRow
<1>6. ASSUME NEW s \in Scenarios, DeleteScenario(s) PROVE DraftBindingsExist'
  BY <1>6 DEF DeleteScenario, NoScenario, DraftBindingsExist, PresentAssets, StoreTypeOK
<1>7. ASSUME NEW A \in SUBSET Assets, BatchDeleteAssets(A) PROVE DraftBindingsExist'
  <2>1. uploads' = [a \in Assets |-> IF a \in A THEN "deleted" ELSE uploads[a]]
    BY <1>7 DEF BatchDeleteAssets
  <2>2. PresentAssets \ A \subseteq PresentAssets'
    BY <2>1 DEF PresentAssets
  <2> QED BY <1>7, <2>2, DeletedAssets DEF DraftBindingsExist
<1>8. CASE UNCHANGED <<scenarios, uploads>>
  BY <1>8 DEF DraftBindingsExist, PresentAssets
<1>9. CASE QueueRequest
  BY <1>9, QueueKeepsContents DEF DraftBindingsExist, PresentAssets, ContentKept
<1>10. CASE RuntimeCall
  BY <1>10, RuntimeKeepsDrafts DEF DraftBindingsExist, PresentAssets, DraftKept
<1>11. CASE DraftRequest
  BY <1>1, <1>2, <1>3, <1>4, <1>5, <1>6, <1>7, <1>8, <1>11 DEF DraftRequest, CreateInputRevision, ValidateInputRevision
<1>12. CASE UNCHANGED storeVars
  BY <1>8, <1>12 DEF storeVars
<1> QED BY <1>9, <1>10, <1>11, <1>12 DEF StoreNext

\* Seeded scenarios are bound to uploads of their project.
LEMMA BindingsInit == StoreInit => DraftBindingsExist
<1> SUFFICES ASSUME StoreInit, NEW s \in Scenarios PROVE scenarios[s].bind \subseteq PresentAssets
  BY DEF DraftBindingsExist
<1>1. PICK par \in [Seeded -> ValidParams] :
        scenarios = [t \in Scenarios |->
          IF t \in Seeded THEN NewScenario(par[t], OwnAssets(t), 0, 2) ELSE NoScenario]
  BY DEF StoreInit
<1>2. scenarios[s].bind = IF s \in Seeded THEN OwnAssets(s) ELSE {}
  BY <1>1, NewScenarioFields DEF NoScenario
<1>3. \A a \in Assets : (\E t \in Seeded : HomeOf[a] = ProjectOf[t]) => uploads[a] = "present"
  BY DEF StoreInit
<1> QED BY <1>2, <1>3 DEF OwnAssets, PresentAssets

\* No draft, archived ones included, is bound to an upload that is gone,
\* whatever is saved, copied and deleted.
THEOREM BoundInputsExist == StoreSpec => []DraftBindingsExist
BY BindingsInit, BindingsNext, StoreInvariant, PTL DEF StoreSpec
-----------------------------------------------------------------------------
(* The places of the waiting rows.                                         *)

\* A row is moved on and keeps its place, or was not waiting.
Narrows ==
  \A j \in Items : queue'[j].status = "waiting" => queue[j].status = "waiting" /\ RowKept(j)

\* The rows I leave the waiting list.
LEMMA MarksNarrow == ASSUME NEW I \in SUBSET Items, NEW st, Marks(I, st), st # "waiting" PROVE Narrows
BY DEF Marks, Narrows

\* Rows that leave the list do not disturb the places of the others.
LEMMA NarrowPlaces == ASSUME WaitingOrdersDistinct, Narrows PROVE WaitingOrdersDistinct'
<1>1. \A p \in Projects : \A j \in Waiting(p)' : j \in Waiting(p) /\ queue'[j].order = queue[j].order
  BY DEF Narrows, RowKept, Waiting, InProject
<1> QED BY <1>1 DEF WaitingOrdersDistinct

\* Requests on drafts cancel staged rows at most.
LEMMA DraftRequestMarks ==
  ASSUME StoreInv, DraftRequest
  PROVE  /\ UNCHANGED <<runs, asked>>
         /\ \E I \in SUBSET Items : Marks(I, "cancelled") /\ \A i \in I : queue[i].status \in Staged
<1> StoreTypeOK
  BY DEF StoreInv
<1> DEFINE Goal == /\ UNCHANGED <<runs, asked>>
                   /\ \E I \in SUBSET Items : Marks(I, "cancelled") /\ \A i \in I : queue[i].status \in Staged
<1>1. ASSUME UNCHANGED <<runs, asked, queue>> PROVE Goal
  BY <1>1, SameMarks
<1>2. ASSUME NEW I \in SUBSET Items, \A i \in I : queue[i].status \in Staged, NEW why, queue' = Cancelled(I, why),
             UNCHANGED <<runs, asked>>
      PROVE  Goal
  BY <1>2, CancelledMarks
<1>3. ASSUME NEW s \in Scenarios, NEW par \in Params, NEW bind \in SUBSET Assets, UpdateScenario(s, par, bind)
      PROVE  Goal
  <2>1. StagedItemsOf(s) \in SUBSET Items /\ \A i \in StagedItemsOf(s) : queue[i].status \in Staged
    BY DEF StagedItemsOf, ItemsOf
  <2>2. UNCHANGED <<runs, asked>> /\ (queue' = queue \/ queue' = Cancelled(StagedItemsOf(s), "draft_changed"))
    BY <1>3 DEF UpdateScenario
  <2> HIDE DEF Goal
  <2> QED BY <1>1, <1>2, <2>1, <2>2
<1>4. ASSUME NEW A \in SUBSET Assets, BatchDeleteAssets(A) PROVE Goal
  <2> DEFINE I == UNION {StagedItemsOf(s) : s \in {s \in Scenarios : scenarios[s].bind \cap A # {}}}
  <2>1. I \in SUBSET Items /\ \A i \in I : queue[i].status \in Staged
    BY DEF StagedItemsOf, ItemsOf
  <2>2. queue' = Cancelled(I, "asset_deleted") /\ UNCHANGED <<runs, asked>>
    BY <1>4 DEF BatchDeleteAssets
  <2> HIDE DEF I, Goal
  <2> QED BY <1>2, <2>1, <2>2
<1> HIDE DEF Goal
<1>5. ASSUME NEW a \in Assets, IngestUpload(a) \/ ArchiveAsset(a) PROVE Goal
  BY <1>1, <1>5 DEF IngestUpload, ArchiveAsset
<1>6. ASSUME NEW s \in Scenarios, NEW par \in Params, NEW rev, CreateScenario(s, par, rev) PROVE Goal
  BY <1>1, <1>6 DEF CreateScenario
<1>7. ASSUME NEW s \in Scenarios, NEW t \in Scenarios, DuplicateScenario(s, t) PROVE Goal
  BY <1>1, <1>7 DEF DuplicateScenario
<1>8. ASSUME NEW s \in Scenarios, ArchiveScenario(s) \/ DeleteScenario(s) PROVE Goal
  BY <1>1, <1>8 DEF ArchiveScenario, DeleteScenario
<1>9. ASSUME NEW r \in Revisions, NEW bind \in SUBSET Assets, NEW ok \in BlobChecks,
              CreateInputRevision(r, bind, ok) \/ ValidateInputRevision(r, ok)
       PROVE  Goal
  BY <1>1, <1>9 DEF CreateInputRevision, ValidateInputRevision
<1>10. Goal
  BY <1>3, <1>4, <1>5, <1>6, <1>7, <1>8, <1>9 DEF DraftRequest
<1> QED BY <1>10 DEF Goal

\* A claimed row takes its revision with it.
LEMMA ClaimedRow ==
  ASSUME StoreInv, NEW i \in Items, NEW rev, ClaimStarts(i, rev)
  PROVE  /\ queue'[i].status = "starting" /\ queue'[i].scenario = queue[i].scenario
         /\ queue'[i].revision = rev /\ queue'[i].order = queue[i].order
         /\ queue'[i].deleted = queue[i].deleted
         /\ \A j \in Items \ {i} : queue'[j] = queue[j]
<1>1. queue[i] \in QueueRow
  BY DEF StoreInv, StoreTypeOK
<1>2. queue' = [queue EXCEPT ![i] = [queue[i] EXCEPT !.status = "starting", !.revision = rev]]
  BY DEF ClaimStarts, StoreInv, StoreTypeOK
<1>3. queue'[i] = [queue[i] EXCEPT !.status = "starting", !.revision = rev]
  BY <1>2 DEF StoreInv, StoreTypeOK
<1> QED BY <1>1, <1>2, <1>3 DEF StoreInv, StoreTypeOK, QueueRow

\* The scheduler takes rows off the list only.
LEMMA RuntimeNarrows == ASSUME StoreInv, RuntimeCall PROVE Narrows
<1> StoreTypeOK
  BY DEF StoreInv
<1>1. ASSUME NEW i \in Items, ClaimQueueItem(i) PROVE Narrows
  <2>1. ASSUME NEW rev, ClaimStarts(i, rev) PROVE Narrows
    BY <2>1, ClaimedRow DEF Narrows, RowKept
  <2>2. ASSUME NEW why, ClaimRefused(i, why) PROVE Narrows
    <3>1. queue' = Cancelled({i}, why)
      BY <2>2 DEF ClaimRefused
    <3> QED BY <3>1, CancelledMarks, MarksNarrow
  <2> QED BY <1>1, <2>1, <2>2 DEF ClaimQueueItem, ClaimFrozen, ClaimStale, ClaimDraft
<1>2. ASSUME NEW i \in Items, NEW st \in Active \cup Outcomes, UpdateRun(i, st) PROVE Narrows
  <2>1. CASE st \in Active
    <3>1. queue' = [queue EXCEPT ![i].status = st] /\ st # "waiting"
      BY <1>2, <2>1 DEF UpdateRun, Active
    <3> QED BY <3>1, ExceptMarks, MarksNarrow
  <2>2. CASE st \notin Active
    BY <1>2, <2>2 DEF UpdateRun, Narrows, RowKept
  <2> QED BY <2>1, <2>2
<1>3. ASSUME NEW i \in Items, NEW st \in Outcomes \cup {"interrupted"}, FinishRun(i, st) PROVE Narrows
  <2>1. queue' = [queue EXCEPT ![i].status = st] /\ st # "waiting"
    BY <1>3, StoreAssumption DEF FinishRun
  <2> QED BY <2>1, ExceptMarks, MarksNarrow
<1>4. ASSUME NEW P \in SUBSET Projects, RecoverInterruptedRuns(P) PROVE Narrows
  <2> DEFINE lost == {i \in Items : queue[i].status \in Active /\ \E p \in P : InProject(i, p)}
  <2>1. queue' = WithStatus(lost, "interrupted") /\ lost \in SUBSET Items
    BY <1>4 DEF RecoverInterruptedRuns
  <2> HIDE DEF lost
  <2> QED BY <2>1, WithStatusMarks, MarksNarrow
<1> QED BY <1>1, <1>2, <1>3, <1>4 DEF RuntimeCall

\* Rows with distinct places have distinct ranks.
LEMMA RankInjective ==
  ASSUME StoreTypeOK, NEW W \in SUBSET Items, NEW i \in W, NEW j \in W, i # j,
         \A x, y \in W : queue[x].order = queue[y].order => x = y
  PROVE  Rank(i, W) # Rank(j, W)
<1> DEFINE Before(x) == {y \in W : queue[y].order <= queue[x].order}
<1>1. \A x \in W : queue[x].order \in Nat
  BY DEF StoreTypeOK, QueueRow
<1>2. ASSUME NEW x \in W, NEW y \in W, queue[x].order < queue[y].order PROVE Rank(x, W) # Rank(y, W)
  <2>1. Before(x) \in SUBSET Before(y) /\ y \in Before(y) /\ y \notin Before(x)
    BY <1>1, <1>2
  <2>2. IsFiniteSet(Before(y))
    <3>1. Before(y) \in SUBSET Items
      OBVIOUS
    <3> HIDE DEF Before
    <3> QED BY <3>1, ItemsFinite, FS_Subset
  <2>3. Cardinality(Before(x)) # Cardinality(Before(y))
    <3> HIDE DEF Before
    <3> QED BY <2>1, <2>2, FS_Subset
  <2> QED BY <2>3 DEF Rank
<1>3. queue[i].order < queue[j].order \/ queue[j].order < queue[i].order
  BY <1>1
<1> QED BY <1>2, <1>3

\* A place written into a row.
LEMMA RowPlaced ==
  ASSUME NEW r \in QueueRow, NEW o
  PROVE  LET t == [r EXCEPT !.order = o]
         IN  t.status = r.status /\ t.scenario = r.scenario /\ t.deleted = r.deleted /\ t.order = o
BY DEF QueueRow

\* A removed row is marked.
LEMMA RowRemoved ==
  ASSUME NEW r \in QueueRow
  PROVE  /\ [r EXCEPT !.deleted = TRUE].deleted
         /\ [r EXCEPT !.deleted = TRUE, !.status = "cancelled", !.reason = "queue_deleted"].deleted
BY DEF QueueRow

\* A project owns its waiting rows alone.
LEMMA OneProject == ASSUME NEW p, NEW q, NEW j \in Waiting(p), j \in Waiting(q) PROVE p = q
BY DEF Waiting, InProject

\* Renumbering a list with distinct numbers leaves the places distinct.
LEMMA RenumberedPlaces ==
  ASSUME WaitingOrdersDistinct, NEW p \in Projects,
         \A q \in Projects : \A j \in Waiting(q)' : j \in Waiting(q),
         \A j \in Items : j \notin Waiting(p) => queue'[j].order = queue[j].order,
         \A x, y \in Waiting(p)' : queue'[x].order = queue'[y].order => x = y
  PROVE  WaitingOrdersDistinct'
<1> SUFFICES ASSUME NEW q \in Projects, NEW x \in Waiting(q)', NEW y \in Waiting(q)',
                    queue'[x].order = queue'[y].order
             PROVE  x = y
  BY DEF WaitingOrdersDistinct
<1>1. CASE q = p
  BY <1>1
<1>2. CASE q # p
  <2>1. x \in Waiting(q) /\ y \in Waiting(q) /\ x \in Items /\ y \in Items
    BY DEF Waiting
  <2>2. x \notin Waiting(p) /\ y \notin Waiting(p)
    BY <1>2, <2>1, OneProject
  <2> QED BY <2>1, <2>2 DEF WaitingOrdersDistinct
<1> QED BY <1>1, <1>2

\* Moving a row keeps the places distinct.
LEMMA ReorderPlaces ==
  ASSUME StoreInv, WaitingOrdersDistinct,
         NEW i \in Items, NEW k \in Items, NEW p \in Projects, ReorderQueue(i, k, p)
  PROVE  WaitingOrdersDistinct'
<1> DEFINE others == Waiting(p) \ {i}
           New(j) == Rank(j, others) + (IF Rank(j, others) < k THEN 0 ELSE 1)
<1>1. i \in Waiting(p) /\ k \in Nat /\ others \in SUBSET Items
  BY StoreAssumption DEF ReorderQueue, Items, Waiting
<1>2. \A j \in Items : queue'[j] = IF j = i THEN [queue[j] EXCEPT !.order = k]
                                   ELSE IF j \in others THEN [queue[j] EXCEPT !.order = New(j)]
                                   ELSE queue[j]
  BY DEF ReorderQueue
<1>3. \A j \in Items : queue[j] \in QueueRow
  BY DEF StoreInv, StoreTypeOK
<1>4. \A j \in others : Rank(j, others) \in Nat
  BY <1>1, RankType
<1>5. \A x, y \in others : x # y => Rank(x, others) # Rank(y, others)
  <2>1. \A x, y \in others : queue[x].order = queue[y].order => x = y
    BY DEF WaitingOrdersDistinct
  <2> HIDE DEF others
  <2> QED BY <1>1, <2>1, RankInjective DEF StoreInv
<1>6. \A x, y \in others : New(x) = New(y) => x = y
  <2> HIDE DEF others
  <2> QED BY <1>1, <1>4, <1>5
<1>7. \A x \in others : New(x) # k
  <2> HIDE DEF others
  <2> QED BY <1>1, <1>4
<1>8. ASSUME NEW j \in Items
      PROVE  /\ queue'[j].status = queue[j].status
             /\ queue'[j].scenario = queue[j].scenario
             /\ queue'[j].deleted = queue[j].deleted
             /\ queue'[j].order = IF j = i THEN k ELSE IF j \in others THEN New(j) ELSE queue[j].order
  <2> HIDE DEF others, New
  <2>1. CASE j = i
    <3>1. queue'[j] = [queue[j] EXCEPT !.order = k]
      BY <1>2, <2>1
    <3> QED BY <1>3, <2>1, <3>1, RowPlaced
  <2>2. CASE j # i /\ j \in others
    <3>1. queue'[j] = [queue[j] EXCEPT !.order = New(j)]
      BY <1>2, <2>2
    <3> QED BY <1>3, <2>2, <3>1, RowPlaced
  <2>3. CASE j # i /\ j \notin others
    BY <1>2, <2>3
  <2> QED BY <2>1, <2>2, <2>3
<1>9. \A q : \A j : j \in Waiting(q)' => j \in Waiting(q)
  BY <1>8 DEF Waiting, InProject
<1>10. \A j \in Items : j \notin Waiting(p) => queue'[j].order = queue[j].order
  BY <1>1, <1>8
<1>11. ASSUME NEW x \in Waiting(p)', NEW y \in Waiting(p)', queue'[x].order = queue'[y].order PROVE x = y
  <2>1. x \in Items /\ y \in Items /\ x \in {i} \cup others /\ y \in {i} \cup others
    BY <1>9 DEF Waiting
  <2> HIDE DEF others, New
  <2> QED BY <1>6, <1>7, <1>8, <1>11, <2>1
<1> HIDE DEF others, New
<1> QED BY <1>9, <1>10, <1>11, RenumberedPlaces

\* Removing rows renumbers the rest of the list.
LEMMA RemovalPlaces ==
  ASSUME StoreInv, WaitingOrdersDistinct, NEW p \in Projects, NEW D \in SUBSET Items, BatchDeleteQueueItems(D, p)
  PROVE  WaitingOrdersDistinct'
<1> DEFINE kept == Waiting(p) \ D
<1>1. kept \in SUBSET Items
  BY DEF Waiting
<1>2. \A j \in Items : queue[j] \in QueueRow
  BY DEF StoreInv, StoreTypeOK
<1>3. \A j \in D : queue'[j].deleted
  <2>1. \A j \in D : queue'[j] \in {[queue[j] EXCEPT !.deleted = TRUE],
            [queue[j] EXCEPT !.deleted = TRUE, !.status = "cancelled", !.reason = "queue_deleted"]}
    BY DEF BatchDeleteQueueItems
  <2> QED BY <1>2, <2>1, RowRemoved
<1>4. \A j \in Items \ D : queue'[j] = IF j \in kept THEN [queue[j] EXCEPT !.order = Rank(j, kept)] ELSE queue[j]
  BY DEF BatchDeleteQueueItems
<1>5. \A x, y \in kept : x # y => Rank(x, kept) # Rank(y, kept)
  <2>1. \A x, y \in kept : queue[x].order = queue[y].order => x = y
    BY DEF WaitingOrdersDistinct
  <2> HIDE DEF kept
  <2> QED BY <1>1, <2>1, RankInjective DEF StoreInv
<1>6. ASSUME NEW j \in Items \ D
      PROVE  /\ queue'[j].status = queue[j].status
             /\ queue'[j].scenario = queue[j].scenario
             /\ queue'[j].deleted = queue[j].deleted
             /\ queue'[j].order = IF j \in kept THEN Rank(j, kept) ELSE queue[j].order
  <2> HIDE DEF kept
  <2>1. CASE j \in kept
    <3>1. queue'[j] = [queue[j] EXCEPT !.order = Rank(j, kept)]
      BY <1>4, <2>1
    <3> QED BY <1>2, <2>1, <3>1, RowPlaced
  <2>2. CASE j \notin kept
    BY <1>4, <2>2
  <2> QED BY <2>1, <2>2
<1>7. \A q : \A j : j \in Waiting(q)' => j \in Waiting(q) \ D
  BY <1>3, <1>6 DEF Waiting, InProject
<1>8. \A x, y \in Waiting(p)' : queue'[x].order = queue'[y].order => x = y
  <2>1. \A x \in Waiting(p)' : x \in Items \ D /\ x \in kept
    BY <1>7 DEF Waiting
  <2> HIDE DEF kept
  <2> QED BY <1>5, <1>6, <2>1
<1> SUFFICES ASSUME NEW q \in Projects, NEW x \in Waiting(q)', NEW y \in Waiting(q)',
                    queue'[x].order = queue'[y].order
             PROVE  x = y
  BY DEF WaitingOrdersDistinct
<1>9. CASE q = p
  BY <1>8, <1>9
<1>10. CASE q # p
  <2>1. x \in Waiting(q) /\ y \in Waiting(q) /\ x \in Items \ D /\ y \in Items \ D
    BY <1>7 DEF Waiting
  <2>2. x \notin kept /\ y \notin kept
    BY <1>10, <2>1, OneProject
  <2> HIDE DEF kept
  <2> QED BY <1>6, <2>1, <2>2 DEF WaitingOrdersDistinct
<1> QED BY <1>9, <1>10

\* A new row comes last.
LEMMA EnqueuePlaces ==
  ASSUME StoreInv, WaitingOrdersDistinct, NEW i \in Items, NEW s \in Scenarios, NEW snapshot,
         EnqueueScenario(i, s, snapshot)
  PROVE  WaitingOrdersDistinct'
<1>1. /\ queue'[i].scenario = s /\ queue'[i].order = NextOrder(ProjectOf[s])
      /\ \A j \in Items \ {i} : queue'[j] = queue[j]
  BY DEF EnqueueScenario, StoreInv, StoreTypeOK
<1>2. \A q : \A j \in Waiting(q)' : j # i => j \in Waiting(q) /\ queue'[j].order = queue[j].order
  BY <1>1 DEF Waiting, InProject
<1>3. \A q : i \in Waiting(q)' => q = ProjectOf[s]
  BY <1>1 DEF Waiting, InProject
<1>4. \A j \in Waiting(ProjectOf[s]) : queue[j].order < NextOrder(ProjectOf[s]) /\ queue[j].order \in Nat
  BY NextOrderType DEF StoreInv, StoreTypeOK, QueueRow, Waiting
<1>5. NextOrder(ProjectOf[s]) \in Nat
  BY NextOrderType DEF StoreInv
<1> SUFFICES ASSUME NEW q \in Projects, NEW x \in Waiting(q)', NEW y \in Waiting(q)',
                    queue'[x].order = queue'[y].order
             PROVE  x = y
  BY DEF WaitingOrdersDistinct
<1>6. CASE x # i /\ y # i
  BY <1>2, <1>6 DEF WaitingOrdersDistinct
<1>7. CASE x = i /\ y # i
  BY <1>1, <1>2, <1>3, <1>4, <1>5, <1>7
<1>8. CASE x # i /\ y = i
  BY <1>1, <1>2, <1>3, <1>4, <1>5, <1>8
<1> QED BY <1>6, <1>7, <1>8

\* Requests on the queue keep the places distinct.
LEMMA QueuePlaces == ASSUME StoreInv, WaitingOrdersDistinct, QueueRequest PROVE WaitingOrdersDistinct'
<1>1. ASSUME NEW i \in Items, NEW s \in Scenarios, EnqueueScenario(i, s, 0) PROVE WaitingOrdersDistinct'
  BY <1>1, EnqueuePlaces
<1>2. ASSUME NEW i \in Items, NEW old \in Items, RetryQueueItem(i, old) PROVE WaitingOrdersDistinct'
  <2>1. queue[old].scenario \in Scenarios
    BY <1>2, RowType DEF RetryQueueItem, Retryable, StoreInv, Rows
  <2> QED BY <1>2, <2>1, EnqueuePlaces DEF RetryQueueItem
<1>3. ASSUME NEW p \in Projects, StartQueueBatch(p) PROVE WaitingOrdersDistinct'
  <2>1. queue' = WithStatus(Waiting(p), "queued") /\ Waiting(p) \in SUBSET Items
    BY <1>3 DEF StartQueueBatch, Waiting
  <2> QED BY <2>1, WithStatusMarks, MarksNarrow, NarrowPlaces DEF StoreInv
<1>4. ASSUME NEW i \in Items, CancelQueueItem(i) PROVE WaitingOrdersDistinct'
  <2>1. queue' = WithStatus({i}, "cancelled")
    BY <1>4 DEF CancelQueueItem
  <2> QED BY <2>1, WithStatusMarks, MarksNarrow, NarrowPlaces DEF StoreInv
<1> QED BY <1>1, <1>2, <1>3, <1>4, ReorderPlaces, RemovalPlaces DEF QueueRequest

\* Every step keeps the places distinct.
LEMMA PlacesNext == StoreInv /\ WaitingOrdersDistinct /\ [StoreNext]_storeVars => WaitingOrdersDistinct'
<1> SUFFICES ASSUME StoreInv, WaitingOrdersDistinct, [StoreNext]_storeVars PROVE WaitingOrdersDistinct'
  OBVIOUS
<1>1. CASE DraftRequest
  BY <1>1, DraftRequestMarks, MarksNarrow, NarrowPlaces
<1>2. CASE QueueRequest
  BY <1>2, QueuePlaces
<1>3. CASE RuntimeCall
  BY <1>3, RuntimeNarrows, NarrowPlaces
<1>4. CASE UNCHANGED storeVars
  BY <1>4, NarrowPlaces DEF storeVars, Narrows, RowKept
<1> QED BY <1>1, <1>2, <1>3, <1>4 DEF StoreNext

\* The waiting rows of a project always have distinct places: enqueues count
\* on from the largest, moves and removals renumber by rank.
THEOREM PlacesDistinct == StoreSpec => []WaitingOrdersDistinct
<1>1. StoreInit => WaitingOrdersDistinct
  BY NothingQueued DEF WaitingOrdersDistinct, Waiting
<1> QED BY <1>1, PlacesNext, StoreInvariant, PTL DEF StoreSpec

-----------------------------------------------------------------------------
(* The status a scenario is shown with.                                    *)

\* A live row of a scenario, in the states St.
HasLive(s, St) == \E i \in Items : queue[i].scenario = s /\ ~queue[i].deleted /\ queue[i].status \in St

\* The status column of one scenario agrees with the queue.
Shown(s) ==
  ~scenarios[s].archived =>
    /\ scenarios[s].status \in Staged => HasLive(s, {scenarios[s].status})
    /\ scenarios[s].status \in Active => HasLive(s, Active)

AllShown == \A s \in Scenarios : Shown(s)

\* The property, scenario by scenario.
LEMMA ShownPerScenario == AllShown <=> ShownStatusIsReal
<1>1. \A s \in Scenarios, st \in Staged :
        HasLive(s, {st}) <=> \E i \in LiveItemsOf(s) : queue[i].status = st
  BY DEF HasLive, LiveItemsOf, ItemsOf, Live
<1>2. \A s \in Scenarios :
        HasLive(s, Active) <=> \E i \in LiveItemsOf(s) : queue[i].status \in Active
  BY DEF HasLive, LiveItemsOf, ItemsOf, Live
<1> QED BY <1>1, <1>2 DEF AllShown, Shown, ShownStatusIsReal

\* A row keeps its scenario, its state and its mark.
RowShown(i) ==
  /\ queue'[i].scenario = queue[i].scenario
  /\ queue'[i].status = queue[i].status
  /\ queue'[i].deleted = queue[i].deleted

\* A scenario whose rows are left alone.
LEMMA ShownKept ==
  ASSUME NEW s \in Scenarios, Shown(s),
         scenarios'[s].archived = scenarios[s].archived, scenarios'[s].status = scenarios[s].status,
         \A i \in Items : queue[i].scenario = s => RowShown(i)
  PROVE  Shown(s)'
<1>1. \A St : HasLive(s, St) => HasLive(s, St)'
  BY DEF HasLive, RowShown
<1> QED BY <1>1 DEF Shown, HasLive

\* A scenario that is shown as neither staged nor running.
LEMMA ShownIdle ==
  ASSUME NEW s \in Scenarios, scenarios'[s].archived \/ scenarios'[s].status \notin Staged \cup Active
  PROVE  Shown(s)'
BY DEF Shown

\* The status that a cancellation or a removal restores is that of a row.
LEMMA ShownRestored ==
  ASSUME StoreInv, StoreInv', UNCHANGED runs, NEW s \in Scenarios,
         scenarios'[s].status = RestoredStatus(s, queue')
  PROVE  Shown(s)'
<1> DEFINE q == queue'
           rows == {i \in Items : q[i].scenario = s}
           active == {i \in rows : q[i].status \in Active /\ ~q[i].deleted}
           staged == {i \in rows : q[i].status \in Staged /\ ~q[i].deleted}
           ended == {i \in rows : q[i].status \in Terminal /\ (~q[i].deleted \/ runs[i].status # "none")}
<1> HIDE DEF active, staged, ended
<1>1. active \in SUBSET Items /\ staged \in SUBSET Items /\ ended \in SUBSET Items
  BY DEF active, staged, ended
<1>2. CASE active # {}
  <2>1. Max(active) \in active
    BY <1>1, <1>2, LargestItem
  <2>2. HasLive(s, Active)'
    BY <2>1 DEF active, HasLive
  <2>3. scenarios'[s].status = q[Max(active)].status
    BY <1>2 DEF RestoredStatus, active
  <2>4. scenarios'[s].status \notin Staged
    BY <2>1, <2>3 DEF active, Active, Staged
  <2> QED BY <2>2, <2>4 DEF Shown
<1>3. CASE active = {} /\ staged # {}
  <2>1. Max(staged) \in staged
    BY <1>1, <1>3, LargestItem
  <2>2. scenarios'[s].status = q[Max(staged)].status
    BY <1>3 DEF RestoredStatus, active, staged
  <2>3. HasLive(s, {scenarios[s].status})'
    BY <2>1, <2>2 DEF staged, HasLive
  <2>4. scenarios'[s].status \notin Active
    BY <2>1, <2>2 DEF staged, Active, Staged
  <2> QED BY <2>3, <2>4 DEF Shown
<1>4. CASE active = {} /\ staged = {} /\ ended # {}
  <2>1. Max(ended) \in ended
    BY <1>1, <1>4, LargestItem
  <2>2. scenarios'[s].status =
          IF runs[Max(ended)].status # "none" THEN runs[Max(ended)].status ELSE q[Max(ended)].status
    BY <1>4 DEF RestoredStatus, active, staged, ended
  <2>3. q[Max(ended)].status \in Terminal /\ Max(ended) \in Items
    BY <2>1 DEF ended
  <2>4. runs[Max(ended)].status \notin Active /\ runs[Max(ended)].status \in {"none"} \cup Active \cup RunEnd
    BY <2>3 DEF StoreInv, Rows, RecoverableRuns, StoreTypeOK, RunRow, Active, Terminal, RunEnd
  <2>5. scenarios'[s].status \notin Staged \cup Active
    BY <2>2, <2>3, <2>4 DEF Staged, Active, Terminal, RunEnd
  <2> QED BY <2>5, ShownIdle
<1>5. CASE active = {} /\ staged = {} /\ ended = {}
  <2>1. scenarios'[s].status \in {"ready", "draft"}
    BY <1>5 DEF RestoredStatus, active, staged, ended
  <2> QED BY <2>1, ShownIdle DEF Staged, Active
<1> QED BY <1>2, <1>3, <1>4, <1>5

\* Nothing shown changes.
LEMMA SameShown ==
  ASSUME AllShown, UNCHANGED queue,
         \A s \in Scenarios : \/ scenarios'[s].archived \/ scenarios'[s].status \notin Staged \cup Active
                              \/ /\ scenarios'[s].archived = scenarios[s].archived
                                 /\ scenarios'[s].status = scenarios[s].status
  PROVE  AllShown'
<1>1. \A i \in Items : RowShown(i)
  BY DEF RowShown
<1> QED BY <1>1, ShownKept, ShownIdle DEF AllShown

\* Rows outside I are shown as before.
LEMMA MarksShown ==
  ASSUME NEW I \in SUBSET Items, NEW st, Marks(I, st)
  PROVE  \A i \in Items \ I : RowShown(i)
BY DEF Marks, RowKept, RowShown

\* A save shows a draft, and leaves the other scenarios alone.
LEMMA SaveShown ==
  ASSUME StoreInv, AllShown, NEW s \in Scenarios, NEW par \in Params, NEW bind \in SUBSET Assets,
         UpdateScenario(s, par, bind)
  PROVE  AllShown'
<1> StoreTypeOK
  BY DEF StoreInv
<1>1. scenarios'[s] = NewScenario(par, bind, 0, scenarios[s].version + 1)
      /\ \A t \in Scenarios \ {s} : scenarios'[t] = scenarios[t]
  BY DEF UpdateScenario, StoreTypeOK
<1>2. Shown(s)'
  BY <1>1, NewScenarioFields, ShownIdle DEF Staged, Active
<1>3. \A i \in Items : queue[i].scenario # s => RowShown(i)
  <2>1. queue' = queue \/ queue' = Cancelled(StagedItemsOf(s), "draft_changed")
    BY DEF UpdateScenario
  <2>2. CASE queue' = queue
    BY <2>2 DEF RowShown
  <2>3. CASE queue' = Cancelled(StagedItemsOf(s), "draft_changed")
    <3>1. StagedItemsOf(s) \in SUBSET Items /\ \A i \in StagedItemsOf(s) : queue[i].scenario = s
      BY DEF StagedItemsOf, ItemsOf
    <3> QED BY <2>3, <3>1, CancelledMarks, MarksShown
  <2> QED BY <2>1, <2>2, <2>3
<1> QED BY <1>1, <1>2, <1>3, ShownKept DEF AllShown

\* A deletion of inputs shows the drafts it unbinds as drafts.
LEMMA AssetsShown ==
  ASSUME StoreInv, AllShown, NEW A \in SUBSET Assets, BatchDeleteAssets(A)
  PROVE  AllShown'
<1> StoreTypeOK
  BY DEF StoreInv
<1> DEFINE affected == {s \in Scenarios : scenarios[s].bind \cap A # {}}
           I == UNION {StagedItemsOf(s) : s \in affected}
<1>1. queue' = Cancelled(I, "asset_deleted")
  BY DEF BatchDeleteAssets
<1>2. I \in SUBSET Items /\ \A i \in I : queue[i].status \in Staged /\ queue[i].scenario \in affected
  BY DEF StagedItemsOf, ItemsOf
<1> HIDE DEF I
<1>3. Marks(I, "cancelled")
  BY <1>1, <1>2, CancelledMarks
<1>4. ASSUME NEW s \in Scenarios PROVE Shown(s)'
  <2>1. /\ scenarios'[s].archived = scenarios[s].archived
        /\ scenarios'[s].status =
             IF s \in affected /\ ~scenarios[s].archived /\ scenarios[s].status \in {"draft", "ready", "queued", "waiting"}
             THEN "draft" ELSE scenarios[s].status
    BY DeletedAssets
  <2>2. CASE s \notin affected
    <3>1. \A i \in Items : queue[i].scenario = s => RowShown(i)
      BY <1>2, <1>3, <2>2, MarksShown
    <3> QED BY <2>1, <2>2, <3>1, ShownKept DEF AllShown
  <2>3. CASE s \in affected /\ ~scenarios[s].archived /\ scenarios'[s].status \in Active
    <3>1. scenarios[s].status \in Active
      BY <2>1, <2>3 DEF Active
    <3>2. PICK i \in Items : queue[i].scenario = s /\ ~queue[i].deleted /\ queue[i].status \in Active
      BY <2>3, <3>1 DEF AllShown, Shown, HasLive
    <3>3. RowShown(i)
      BY <1>2, <1>3, <3>2, MarksShown DEF Staged, Active
    <3>4. HasLive(s, Active)'
      BY <3>2, <3>3 DEF HasLive, RowShown
    <3> QED BY <2>3, <3>4 DEF Shown, Staged, Active
  <2>4. CASE s \in affected /\ (scenarios[s].archived \/ scenarios'[s].status \notin Active)
    <3>1. scenarios'[s].archived \/ scenarios'[s].status \notin Staged \cup Active
      BY <2>1, <2>4 DEF Staged
    <3> QED BY <3>1, ShownIdle
  <2> QED BY <2>1, <2>2, <2>3, <2>4
<1> QED BY <1>4 DEF AllShown

\* The other requests on drafts write idle statuses.
LEMMA DraftShown == ASSUME StoreInv, AllShown, DraftRequest PROVE AllShown'
<1> StoreTypeOK
  BY DEF StoreInv
<1>1. ASSUME NEW a \in Assets, IngestUpload(a) \/ ArchiveAsset(a) PROVE AllShown'
  BY <1>1, SameShown DEF IngestUpload, ArchiveAsset
<1>2. ASSUME NEW s \in Scenarios, UNCHANGED queue, \A t \in Scenarios \ {s} : scenarios'[t] = scenarios[t],
             scenarios'[s].archived \/ scenarios'[s].status \notin Staged \cup Active
      PROVE  AllShown'
  BY <1>2, SameShown
<1>3. ASSUME NEW s \in Scenarios, NEW par \in Params, NEW rev, CreateScenario(s, par, rev) PROVE AllShown'
  <2>1. scenarios'[s] = NewScenario(par, {}, rev, 1) /\ \A t \in Scenarios \ {s} : scenarios'[t] = scenarios[t]
    BY <1>3 DEF CreateScenario, StoreTypeOK
  <2>2. scenarios'[s].status \notin Staged \cup Active /\ UNCHANGED queue
    BY <1>3, <2>1, NewScenarioFields DEF CreateScenario, Staged, Active
  <2> QED BY <1>2, <2>1, <2>2
<1>4. ASSUME NEW s \in Scenarios, NEW t \in Scenarios, DuplicateScenario(s, t) PROVE AllShown'
  <2>1. scenarios'[t] = IF Rebindable(s) THEN NewScenario(scenarios[s].par, Bindings(s), 0, 2)
                                         ELSE NewScenario(scenarios[s].par, {}, 0, 1)
    BY <1>4 DEF DuplicateScenario, StoreTypeOK
  <2>2. scenarios'[t].status \notin Staged \cup Active /\ UNCHANGED queue
    BY <1>4, <2>1, NewScenarioFields DEF DuplicateScenario, Staged, Active
  <2>3. \A u \in Scenarios \ {t} : scenarios'[u] = scenarios[u]
    BY <1>4 DEF DuplicateScenario, StoreTypeOK
  <2> QED BY <1>2, <2>2, <2>3
<1>5. ASSUME NEW s \in Scenarios, ArchiveScenario(s) PROVE AllShown'
  <2>1. scenarios'[s].archived /\ \A t \in Scenarios \ {s} : scenarios'[t] = scenarios[t]
    BY <1>5 DEF ArchiveScenario, StoreTypeOK, ScenarioRow
  <2> QED BY <1>2, <1>5, <2>1 DEF ArchiveScenario
<1>6. ASSUME NEW s \in Scenarios, DeleteScenario(s) PROVE AllShown'
  <2>1. scenarios'[s] = NoScenario /\ \A t \in Scenarios \ {s} : scenarios'[t] = scenarios[t]
    BY <1>6 DEF DeleteScenario, StoreTypeOK
  <2>2. scenarios'[s].status \notin Staged \cup Active
    BY <2>1 DEF NoScenario, Staged, Active
  <2> QED BY <1>2, <1>6, <2>1, <2>2 DEF DeleteScenario
<1>7. ASSUME UNCHANGED <<queue, scenarios>> PROVE AllShown'
  BY <1>7, SameShown
<1> QED BY <1>1, <1>3, <1>4, <1>5, <1>6, <1>7, SaveShown, AssetsShown
        DEF DraftRequest, CreateInputRevision, ValidateInputRevision

\* Requests on the queue show what they did to the rows.
LEMMA QueueShown == ASSUME StoreInv, StoreInv', AllShown, QueueRequest PROVE AllShown'
<1> StoreTypeOK
  BY DEF StoreInv
<1>0. UNCHANGED runs /\ \A t \in Scenarios : scenarios'[t].archived = scenarios[t].archived
  BY QueueKeepsContents DEF ContentKept
<1>1. ASSUME NEW i \in Items, NEW s \in Scenarios, NEW snapshot, EnqueueScenario(i, s, snapshot) PROVE AllShown'
  <2>1. /\ queue[i].status = "absent" /\ queue'[i].status = "waiting" /\ queue'[i].scenario = s
        /\ ~queue'[i].deleted /\ \A j \in Items \ {i} : queue'[j] = queue[j]
    BY <1>1 DEF EnqueueScenario, Fresh, StoreTypeOK
  <2>2. scenarios' = WithScenarioStatus(s, "waiting")
    BY <1>1 DEF EnqueueScenario, WithScenarioStatus
  <2>3. \A t \in Scenarios : scenarios'[t].status = IF t = s THEN "waiting" ELSE scenarios[t].status
    BY <2>2, ScenarioExcept
  <2>4. Shown(s)'
    BY <2>1, <2>3 DEF Shown, HasLive, Staged, Active
  <2>5. \A t \in Scenarios : \A j \in Items : queue[j].scenario = t => RowShown(j)
    <3>1. queue[i].scenario \notin Scenarios
      BY <2>1, StoreAssumption DEF StoreInv, Rows, RowsNamed
    <3> QED BY <2>1, <3>1 DEF RowShown
  <2> QED BY <1>0, <2>3, <2>4, <2>5, ShownKept DEF AllShown
<1>2. ASSUME NEW i \in Items, NEW old \in Items, RetryQueueItem(i, old) PROVE AllShown'
  <2>1. queue[old].scenario \in Scenarios /\ EnqueueScenario(i, queue[old].scenario, queue[old].revision)
    BY <1>2, RowType DEF RetryQueueItem, Retryable, StoreInv, Rows
  <2> QED BY <1>1, <2>1
<1>3. ASSUME NEW p \in Projects, StartQueueBatch(p) PROVE AllShown'
  <2> DEFINE Released(s) == \E i \in Waiting(p) : queue[i].scenario = s
  <2>1. /\ scenarios' = [s \in Scenarios |->
             IF Released(s) THEN [scenarios[s] EXCEPT !.status = "queued"] ELSE scenarios[s]]
        /\ queue' = WithStatus(Waiting(p), "queued") /\ Waiting(p) \in SUBSET Items
    BY <1>3 DEF StartQueueBatch, Waiting
  <2>2. Marks(Waiting(p), "queued")
    BY <2>1, WithStatusMarks
  <2>3. ASSUME NEW s \in Scenarios, Released(s) PROVE Shown(s)'
    <3>1. PICK i \in Waiting(p) : queue[i].scenario = s
      BY <2>3
    <3>2. /\ i \in Items /\ ~queue'[i].deleted
          /\ queue'[i].status = "queued" /\ queue'[i].scenario = s
      BY <2>2, <3>1 DEF Marks, RowKept, Waiting
    <3>3. scenarios'[s].status = "queued"
      <4> HIDE DEF Released
      <4>1. scenarios'[s] = [scenarios[s] EXCEPT !.status = "queued"]
        BY <2>1, <2>3
      <4> QED BY <4>1, ScenarioMarked DEF StoreTypeOK
    <3> QED BY <3>2, <3>3 DEF Shown, HasLive, Active
  <2>4. ASSUME NEW s \in Scenarios, ~Released(s) PROVE Shown(s)'
    <3>1. \A i \in Items : queue[i].scenario = s => RowShown(i)
      <4>1. Waiting(p) \in SUBSET Items
        BY DEF Waiting
      <4>2. \A i \in Items \ Waiting(p) : RowShown(i)
        BY <2>2, <4>1, MarksShown
      <4> QED BY <2>4, <4>2
    <3>2. scenarios'[s] = scenarios[s]
      <4> HIDE DEF Released
      <4> QED BY <2>1, <2>4
    <3> QED BY <3>1, <3>2, ShownKept DEF AllShown
  <2> HIDE DEF Released
  <2> QED BY <2>3, <2>4 DEF AllShown
<1>4. ASSUME NEW i \in Items, NEW k \in Items, NEW p \in Projects, ReorderQueue(i, k, p) PROVE AllShown'
  <2>1. \A j \in Items : \E o : queue'[j] = [queue[j] EXCEPT !.order = o] \/ queue'[j] = queue[j]
    BY <1>4 DEF ReorderQueue
  <2>2. ASSUME NEW j \in Items PROVE RowShown(j)
    <3>1. queue[j] \in QueueRow
      BY DEF StoreTypeOK
    <3>2. PICK o : queue'[j] = [queue[j] EXCEPT !.order = o] \/ queue'[j] = queue[j]
      BY <2>1
    <3>3. CASE queue'[j] = [queue[j] EXCEPT !.order = o]
      BY <3>1, <3>3, RowPlaced DEF RowShown
    <3> QED BY <3>2, <3>3 DEF RowShown
  <2>3. UNCHANGED scenarios
    BY <1>4 DEF ReorderQueue
  <2> QED BY <2>2, <2>3, ShownKept DEF AllShown
<1>5. ASSUME NEW S, scenarios' = Restored(S, queue'),
             \A i \in Items : queue[i].scenario \notin S => RowShown(i)
      PROVE  AllShown'
  <2>1. \A t \in Scenarios : scenarios'[t].status = IF t \in S THEN RestoredStatus(t, queue') ELSE scenarios[t].status
    BY <1>5, RestoredFields
  <2>2. ASSUME NEW t \in Scenarios PROVE Shown(t)'
    <3>1. CASE t \in S
      BY <1>0, <2>1, <3>1, ShownRestored
    <3>2. CASE t \notin S
      <4>1. \A i \in Items : queue[i].scenario = t => RowShown(i)
        BY <1>5, <3>2
      <4> QED BY <1>0, <2>1, <3>2, <4>1, ShownKept DEF AllShown
    <3> QED BY <3>1, <3>2
  <2> QED BY <2>2 DEF AllShown
<1>6. ASSUME NEW i \in Items, CancelQueueItem(i) PROVE AllShown'
  <2>1. queue' = WithStatus({i}, "cancelled") /\ scenarios' = Restored({queue[i].scenario}, queue')
    BY <1>6 DEF CancelQueueItem
  <2>2. \A j \in Items : queue[j].scenario \notin {queue[i].scenario} => RowShown(j)
    BY <2>1, WithStatusMarks, MarksShown
  <2> QED BY <1>5, <2>1, <2>2
<1>7. ASSUME NEW p \in Projects, NEW D \in SUBSET Items, BatchDeleteQueueItems(D, p) PROVE AllShown'
  <2>1. scenarios' = Restored({queue[i].scenario : i \in D}, queue')
    BY <1>7 DEF BatchDeleteQueueItems
  <2>2. ASSUME NEW j \in Items \ D PROVE RowShown(j)
    <3>1. queue[j] \in QueueRow
      BY DEF StoreTypeOK
    <3>2. \E o : queue'[j] = [queue[j] EXCEPT !.order = o] \/ queue'[j] = queue[j]
      BY <1>7 DEF BatchDeleteQueueItems
    <3>3. PICK o : queue'[j] = [queue[j] EXCEPT !.order = o] \/ queue'[j] = queue[j]
      BY <3>2
    <3>4. CASE queue'[j] = [queue[j] EXCEPT !.order = o]
      BY <3>1, <3>4, RowPlaced DEF RowShown
    <3> QED BY <3>3, <3>4 DEF RowShown
  <2>3. \A j \in Items : queue[j].scenario \notin {queue[i].scenario : i \in D} => RowShown(j)
    BY <2>2
  <2> QED BY <1>5, <2>1, <2>3
<1> QED BY <1>1, <1>2, <1>3, <1>4, <1>6, <1>7 DEF QueueRequest

\* One row takes a status that its scenario is not shown as needing.
LEMMA OneRowShown ==
  ASSUME StoreInv, AllShown, NEW i \in Items, NEW st, Marks({i}, st),
         NEW s \in Scenarios, queue[i].scenario = s,
         \A t \in Scenarios : scenarios'[t].archived = scenarios[t].archived,
         \A t \in Scenarios \ {s} : scenarios'[t].status = scenarios[t].status,
         Shown(s)'
  PROVE  AllShown'
<1>1. \A j \in Items \ {i} : RowShown(j)
  BY MarksShown
<1>2. ASSUME NEW t \in Scenarios, t # s PROVE Shown(t)'
  <2>1. \A j \in Items : queue[j].scenario = t => RowShown(j)
    BY <1>1, <1>2
  <2> QED BY <1>2, <2>1, ShownKept DEF AllShown
<1> QED BY <1>2 DEF AllShown

\* The scheduler shows a scenario as running only while a row of it runs.
LEMMA RuntimeShown == ASSUME StoreInv, StoreInv', AllShown, RuntimeCall PROVE AllShown'
<1> StoreTypeOK
  BY DEF StoreInv
<1>1. \A t \in Scenarios : scenarios'[t].archived = scenarios[t].archived
  BY RuntimeKeepsDrafts DEF DraftKept
<1>2. \A j \in Items : queue[j].status # "absent" => queue[j].scenario \in Scenarios
  BY RowType DEF StoreInv, Rows
<1>3. \A j \in Items : queue'[j].status \in Live => ~queue'[j].deleted
  BY DEF StoreInv, StoreTypeOK, QueueRow, Rows, DeletedIsTerminal, Live, Staged, Active, Terminal, RunEnd
<1>4. ASSUME NEW i \in Items, ClaimQueueItem(i) PROVE AllShown'
  <2>0. queue[i].status = "queued"
    BY <1>4 DEF ClaimQueueItem, ClaimFrozen, ClaimStale, ClaimDraft
  <2>1. PICK s \in Scenarios : queue[i].scenario = s
    BY <1>2, <2>0
  <2>2. ASSUME NEW rev, ClaimStarts(i, rev) PROVE AllShown'
    <3>1. \A t \in Scenarios : scenarios'[t].status = IF t = s THEN "running" ELSE scenarios[t].status
      BY <2>0, <2>1, <2>2, ClaimedScenario
    <3>2. /\ queue'[i].status = "starting" /\ queue'[i].scenario = s
          /\ \A j \in Items \ {i} : queue'[j] = queue[j]
      BY <2>1, <2>2, ClaimedRow
    <3>3. Shown(s)'
      <4>1. ~queue'[i].deleted
        BY <1>3, <3>2 DEF Live, Active
      <4> QED BY <3>1, <3>2, <4>1 DEF Shown, HasLive, Staged, Active
    <3>4. ASSUME NEW t \in Scenarios, t # s PROVE Shown(t)'
      <4>1. \A j \in Items : queue[j].scenario = t => RowShown(j)
        BY <2>1, <3>2, <3>4 DEF RowShown
      <4> QED BY <1>1, <3>1, <3>4, <4>1, ShownKept DEF AllShown
    <3> QED BY <3>3, <3>4 DEF AllShown
  <2>3. ASSUME NEW why, ClaimRefused(i, why) PROVE AllShown'
    <3>1. Marks({i}, "cancelled")
      BY <2>3, CancelledMarks DEF ClaimRefused
    <3>2. scenarios' = WithScenarioStatus(queue[i].scenario, "draft")
      BY <2>3 DEF ClaimRefused, WithScenarioStatus
    <3>3. \A t \in Scenarios : scenarios'[t].status = IF t = s THEN "draft" ELSE scenarios[t].status
      BY <2>1, <3>2, ScenarioExcept
    <3>4. Shown(s)'
      BY <2>1, <3>3, ShownIdle DEF Staged, Active
    <3> QED BY <1>1, <2>1, <3>1, <3>3, <3>4, OneRowShown
  <2> QED BY <1>4, <2>2, <2>3 DEF ClaimQueueItem, ClaimFrozen, ClaimStale, ClaimDraft
<1>5. ASSUME NEW i \in Items, NEW st \in Active \cup Outcomes, queue[i].status \in Active, UpdateRun(i, st)
      PROVE  AllShown'
  <2>1. UNCHANGED scenarios
    BY <1>5 DEF UpdateRun
  <2>2. CASE st \notin Active
    BY <1>5, <2>1, <2>2, SameShown DEF UpdateRun
  <2>3. CASE st \in Active
    <3>1. Marks({i}, st)
      BY <1>5, <2>3, ExceptMarks DEF UpdateRun
    <3>2. ASSUME NEW t \in Scenarios, NEW j \in Items, queue[j].scenario = t, ~queue[j].deleted,
                 queue[j].status \in Live
          PROVE  /\ queue'[j].scenario = t /\ ~queue'[j].deleted
                 /\ queue[j].status \in Staged => queue'[j].status = queue[j].status
                 /\ queue[j].status \in Active => queue'[j].status \in Active
      BY <1>5, <2>3, <3>1, <3>2 DEF Marks, RowKept, Staged, Active
    <3>3. ASSUME NEW t \in Scenarios PROVE Shown(t)'
      <4>1. HasLive(t, Active) => HasLive(t, Active)'
        BY <3>2 DEF HasLive, Live
      <4>2. \A a \in Staged : HasLive(t, {a}) => HasLive(t, {a})'
        BY <3>2 DEF HasLive, Live
      <4> QED BY <2>1, <4>1, <4>2 DEF AllShown, Shown, HasLive
    <3> QED BY <3>3 DEF AllShown
  <2> QED BY <2>2, <2>3
<1>6. ASSUME NEW i \in Items, NEW st \in Outcomes \cup {"interrupted"}, queue[i].status \in Active, FinishRun(i, st)
      PROVE  AllShown'
  <2>0. PICK s \in Scenarios : queue[i].scenario = s
    BY <1>2, <1>6 DEF Active
  <2>1. st \notin Staged \cup Active
    BY <1>6, StoreAssumption DEF Staged, Active
  <2>2. scenarios' = WithScenarioStatus(queue[i].scenario, st)
    BY <1>6 DEF FinishRun, WithScenarioStatus
  <2>3. \A t \in Scenarios : scenarios'[t].status = IF t = s THEN st ELSE scenarios[t].status
    BY <2>0, <2>2, ScenarioExcept
  <2>4. Marks({i}, st)
    BY <1>6, ExceptMarks DEF FinishRun
  <2>5. Shown(s)'
    BY <2>1, <2>3, ShownIdle
  <2> QED BY <1>1, <2>0, <2>3, <2>4, <2>5, OneRowShown
<1>7. ASSUME NEW P \in SUBSET Projects, RecoverInterruptedRuns(P) PROVE AllShown'
  <2> DEFINE lost == {i \in Items : queue[i].status \in Active /\ \E p \in P : InProject(i, p)}
             Stopped(t) == \E i \in lost : queue[i].scenario = t
  <2>1. queue' = WithStatus(lost, "interrupted") /\ lost \in SUBSET Items
    BY <1>7 DEF RecoverInterruptedRuns
  <2>2. Marks(lost, "interrupted")
    <3> HIDE DEF lost
    <3> QED BY <2>1, WithStatusMarks
  <2>3. \A t \in Scenarios : scenarios'[t].status = IF Stopped(t) THEN "stopped" ELSE scenarios[t].status
    BY <1>7, RecoveredScenarios
  <2> HIDE DEF lost
  <2>4. ASSUME NEW t \in Scenarios PROVE Shown(t)'
    <3>1. CASE Stopped(t)
      <4> HIDE DEF Stopped
      <4> QED BY <2>3, <3>1, ShownIdle DEF Staged, Active
    <3>2. CASE ~Stopped(t)
      <4>1. \A j \in Items \ lost : RowShown(j)
        BY <2>1, <2>2, MarksShown
      <4>2. \A j \in Items : queue[j].scenario = t => RowShown(j)
        BY <3>2, <4>1
      <4>3. scenarios'[t].status = scenarios[t].status
        <5> HIDE DEF Stopped
        <5> QED BY <2>3, <3>2
      <4> QED BY <1>1, <4>2, <4>3, ShownKept DEF AllShown
    <3> QED BY <3>1, <3>2
  <2> QED BY <2>4 DEF AllShown
<1> QED BY <1>4, <1>5, <1>6, <1>7 DEF RuntimeCall

\* Every step keeps what is shown true.
LEMMA ShownNext == StoreInv /\ AllShown /\ [StoreNext]_storeVars => AllShown'
<1> SUFFICES ASSUME StoreInv, AllShown, [StoreNext]_storeVars PROVE AllShown'
  OBVIOUS
<1>1. StoreInv'
  BY StoreInvStep
<1>2. CASE UNCHANGED storeVars
  BY <1>2, SameShown DEF storeVars
<1> QED BY <1>1, <1>2, DraftShown, QueueShown, RuntimeShown DEF StoreNext

\* A scenario is shown as waiting, queued or running only if one of its rows
\* is, although ten handlers write the status column on their own.
THEOREM ShownStatusHolds == StoreSpec => []ShownStatusIsReal
<1>1. StoreInit => AllShown
  <2> SUFFICES ASSUME StoreInit, NEW s \in Scenarios PROVE Shown(s)
    BY DEF AllShown
  <2>1. PICK par \in [Seeded -> ValidParams] :
          scenarios = [t \in Scenarios |->
            IF t \in Seeded THEN NewScenario(par[t], OwnAssets(t), 0, 2) ELSE NoScenario]
    BY DEF StoreInit
  <2>2. scenarios[s].status \in {"absent", "draft", "ready"}
    BY <2>1, NewScenarioFields DEF NoScenario
  <2> QED BY <2>2 DEF Shown, Staged, Active
<1>2. AllShown => ShownStatusIsReal
  BY ShownPerScenario
<1> QED BY <1>1, <1>2, ShownNext, StoreInvariant, PTL DEF StoreSpec
=============================================================================
