--------------------------- MODULE RunInputProofs ---------------------------
(***************************************************************************)
(* A run gets what its scenario asked for when it was queued, for every    *)
(* number of projects, scenarios, inputs and rows.                         *)
(***************************************************************************)
EXTENDS ScenarioProofs

\* A row that was claimed or withdrawn.
Past(i) == queue[i].status \notin {"absent"} \cup Staged

\* Revisions that rows, scenarios and runs name were frozen.
ReferencesExist ==
  /\ \A i \in Items : queue[i].revision # 0 => revisions[queue[i].revision].status # "none"
  /\ \A s \in Scenarios : scenarios[s].revision # 0 => revisions[scenarios[s].revision].status # "none"
  /\ \A i \in Items : runs[i].status # "none" =>
       runs[i].revision # 0 /\ revisions[runs[i].revision].status # "none"

\* The claim of a row writes its run and its revision, so both are written once.
WrittenOnce == \A i \in Items : runs[i].status # "none" \/ revisions[i].status # "none" => Past(i)

\* A row is active only with a run.
ActiveRowsRun == \A i \in Items : queue[i].status \in Active => runs[i].status # "none"

\* A scenario with rows is never deleted.
NoOrphans == \A s \in Scenarios : scenarios[s].status = "absent" => ItemsOf(s) = {}

\* A row that waits would still be run as it was asked for.
StagedAsAsked ==
  \A i \in Items : queue[i].status \in Staged =>
    /\ asked[i].par = scenarios[queue[i].scenario].par
    /\ asked[i].bind = IF queue[i].revision # 0 THEN revisions[queue[i].revision].bind
                                                ELSE scenarios[queue[i].scenario].bind

ContentInv ==
  /\ ReferencesExist
  /\ WrittenOnce
  /\ ActiveRowsRun
  /\ NoOrphans
  /\ StagedAsAsked
  /\ RunsWhatWasQueued
  /\ ParametersFixedByRun

-----------------------------------------------------------------------------
(* Steps that ask for no run and begin none.                               *)

RowsQuiet ==
  \A i \in Items :
    /\ queue'[i].scenario = queue[i].scenario
    /\ queue'[i].revision = queue[i].revision
    /\ queue'[i].status \in Staged => queue[i].status \in Staged
    /\ queue'[i].status \in Active => queue[i].status \in Active

RunsQuiet ==
  \A i \in Items :
    /\ runs'[i].par = runs[i].par
    /\ runs'[i].revision = runs[i].revision
    /\ runs'[i].status # "none" <=> runs[i].status # "none"

\* What was frozen stays, and only a claim freezes for a row.
RevisionsQuiet ==
  \A r \in Revisions :
    /\ revisions[r].status # "none" =>
         revisions'[r].status # "none" /\ revisions'[r].bind = revisions[r].bind
    /\ r \in Items /\ revisions'[r].status # "none" => revisions[r].status # "none" \/ Past(r)'

\* Drafts that a row depends on stay as they are.
DraftsQuiet ==
  /\ \A i \in Items : runs[i].status # "none" =>
       scenarios'[queue[i].scenario].par = scenarios[queue[i].scenario].par
  /\ \A i \in Items : queue'[i].status \in Staged =>
       /\ scenarios'[queue[i].scenario].par = scenarios[queue[i].scenario].par
       /\ scenarios'[queue[i].scenario].bind = scenarios[queue[i].scenario].bind
  /\ \A s \in Scenarios : scenarios'[s].status = "absent" => ItemsOf(s) = {}
  /\ \A s \in Scenarios : scenarios'[s].revision # 0 => revisions'[scenarios'[s].revision].status # "none"

Quiet == RowsQuiet /\ RunsQuiet /\ RevisionsQuiet /\ DraftsQuiet /\ UNCHANGED asked

\* A revision that is named is one.
LEMMA NamedRevisions ==
  ASSUME StoreTypeOK
  PROVE  /\ \A i \in Items : queue[i].revision # 0 => queue[i].revision \in Revisions
         /\ \A s \in Scenarios : scenarios[s].revision # 0 => scenarios[s].revision \in Revisions
         /\ \A i \in Items : runs[i].revision # 0 => runs[i].revision \in Revisions
         /\ Items \subseteq Revisions
<1>1. \A n \in 0 .. MaxRevisions : n # 0 => n \in Revisions
  BY StoreAssumption DEF Revisions
<1>2. /\ \A i \in Items : queue[i].revision \in 0 .. MaxRevisions
      /\ \A s \in Scenarios : scenarios[s].revision \in 0 .. MaxRevisions
      /\ \A i \in Items : runs[i].revision \in 0 .. MaxRevisions
  BY DEF StoreTypeOK, QueueRow, ScenarioRow, RunRow
<1>3. Items \subseteq Revisions
  BY StoreAssumption DEF Items, Revisions
<1> QED BY <1>1, <1>2, <1>3

\* A row is claimed or withdrawn once and for all.
LEMMA PastStays == ASSUME StoreInv, RowsMove, NEW i \in Items, Past(i) PROVE Past(i)'
<1>1. CASE \E k \in Items, s \in Scenarios : Stages(k, s)
  BY <1>1 DEF Stages, Past
<1>2. ASSUME NEW I \in SUBSET Items, NEW st, StatusStep(I, st), Moves(I, st) PROVE Past(i)'
  <2>1. CASE i \notin I
    BY <1>2, <2>1 DEF StatusStep, Past
  <2>2. CASE i \in I
    <3>1. queue'[i].status = st /\ queue[i].status \notin Staged
      BY <1>2, <2>2 DEF StatusStep, Past
    <3>2. ~Releases(I, st)
      BY <2>2, <3>1 DEF Releases, Staged
    <3>3. st \notin {"absent"} \cup Staged
      BY <1>2, <3>2 DEF Moves, Withdraws, Begins, Reports, Ends, Staged, Active, RunEnd
    <3> QED BY <3>1, <3>3 DEF Past
  <2> QED BY <2>1, <2>2
<1> QED BY <1>1, <1>2 DEF RowsMove

\* Quiet steps keep the invariant.
LEMMA QuietContent == ASSUME StoreInv, ContentInv, RowsMove, Quiet PROVE ContentInv'
<1> StoreTypeOK
  BY DEF StoreInv
<1>1. ReferencesExist'
  <2>1. \A i \in Items : queue'[i].revision # 0 => revisions'[queue'[i].revision].status # "none"
    BY NamedRevisions DEF ContentInv, ReferencesExist, Quiet, RowsQuiet, RevisionsQuiet
  <2>2. \A i \in Items : runs'[i].status # "none" =>
          runs'[i].revision # 0 /\ revisions'[runs'[i].revision].status # "none"
    BY NamedRevisions DEF ContentInv, ReferencesExist, Quiet, RunsQuiet, RevisionsQuiet
  <2> QED BY <2>1, <2>2 DEF ReferencesExist, Quiet, DraftsQuiet
<1>2. WrittenOnce'
  BY NamedRevisions, PastStays DEF ContentInv, WrittenOnce, Quiet, RunsQuiet, RevisionsQuiet
<1>3. ActiveRowsRun'
  BY DEF ContentInv, ActiveRowsRun, Quiet, RowsQuiet, RunsQuiet
<1>4. NoOrphans'
  BY DEF NoOrphans, Quiet, RowsQuiet, DraftsQuiet, ItemsOf
<1>5. StagedAsAsked'
  <2> SUFFICES ASSUME NEW i \in Items, queue'[i].status \in Staged
               PROVE  /\ asked'[i].par = scenarios'[queue'[i].scenario].par
                      /\ asked'[i].bind = IF queue'[i].revision # 0 THEN revisions'[queue'[i].revision].bind
                                                                    ELSE scenarios'[queue'[i].scenario].bind
    BY DEF StagedAsAsked
  <2>1. queue[i].status \in Staged /\ queue'[i].scenario = queue[i].scenario /\ queue'[i].revision = queue[i].revision
    BY DEF Quiet, RowsQuiet
  <2>2. queue[i].revision # 0 => revisions'[queue[i].revision].bind = revisions[queue[i].revision].bind
    BY NamedRevisions DEF ContentInv, ReferencesExist, Quiet, RevisionsQuiet
  <2> QED BY <2>1, <2>2 DEF ContentInv, StagedAsAsked, Quiet, DraftsQuiet
<1>6. RunsWhatWasQueued'
  BY NamedRevisions DEF ContentInv, ReferencesExist, RunsWhatWasQueued, Quiet, RunsQuiet, RevisionsQuiet
<1>7. ParametersFixedByRun'
  BY DEF ContentInv, ParametersFixedByRun, Quiet, RowsQuiet, RunsQuiet, DraftsQuiet
<1> QED BY <1>1, <1>2, <1>3, <1>4, <1>5, <1>6, <1>7 DEF ContentInv

-----------------------------------------------------------------------------
(* Requests on drafts.                                                     *)

\* Withdrawn rows are quiet, and so are untouched ones.
LEMMA WithdrawalQuiet ==
  ASSUME NEW I \in SUBSET Items, NEW st, Marks(I, st), st \notin Staged \cup Active
  PROVE  RowsQuiet
BY DEF Marks, RowKept, RowsQuiet

\* Nothing frozen.
LEMMA SameRevisions == ASSUME UNCHANGED revisions PROVE RevisionsQuiet
BY DEF RevisionsQuiet

\* Runs as they were.
LEMMA SameRuns == ASSUME UNCHANGED runs PROVE RunsQuiet
BY DEF RunsQuiet

\* Contents as they were, and no scenario lost.
LEMMA ContentQuiet ==
  ASSUME StoreInv, ContentInv, RevisionsQuiet, \A s \in Scenarios : ContentKept(s),
         \A s \in Scenarios : scenarios'[s].status = "absent" => scenarios[s].status = "absent",
         RowsQuiet
  PROVE  DraftsQuiet
<1>1. \A i \in Items : queue[i].status # "absent" => queue[i].scenario \in Scenarios
  BY RowType DEF StoreInv, Rows
<1>2. \A i \in Items : runs[i].status # "none" => queue[i].scenario \in Scenarios
  BY <1>1 DEF ContentInv, WrittenOnce, Past
<1>3. \A i \in Items : queue'[i].status \in Staged => queue[i].scenario \in Scenarios
  BY <1>1 DEF RowsQuiet, Staged
<1>4. \A s \in Scenarios : scenarios'[s].status = "absent" => ItemsOf(s) = {}
  BY DEF ContentInv, NoOrphans
<1>5. \A s \in Scenarios : scenarios'[s].revision # 0 => revisions'[scenarios'[s].revision].status # "none"
  BY NamedRevisions DEF StoreInv, ContentInv, ReferencesExist, RevisionsQuiet, ContentKept
<1> QED BY <1>2, <1>3, <1>4, <1>5 DEF DraftsQuiet, ContentKept

\* One scenario that no row depends on is written.
LEMMA OneScenarioQuiet ==
  ASSUME StoreInv, ContentInv, NEW s \in Scenarios,
         \A t \in Scenarios \ {s} : scenarios'[t] = scenarios[t],
         \A i \in ItemsOf(s) : runs[i].status = "none",
         \A i \in ItemsOf(s) : queue'[i].status \in Staged =>
           scenarios'[s].par = scenarios[s].par /\ scenarios'[s].bind = scenarios[s].bind,
         scenarios'[s].status = "absent" => ItemsOf(s) = {},
         scenarios'[s].revision # 0 => revisions[scenarios'[s].revision].status # "none",
         UNCHANGED revisions, RowsQuiet
  PROVE  DraftsQuiet
<1>1. \A i \in Items : queue[i].status # "absent" => queue[i].scenario \in Scenarios
  BY RowType DEF StoreInv, Rows
<1>2. ASSUME NEW i \in Items, runs[i].status # "none"
      PROVE  scenarios'[queue[i].scenario].par = scenarios[queue[i].scenario].par
  BY <1>1, <1>2 DEF ContentInv, WrittenOnce, Past, ItemsOf
<1>3. ASSUME NEW i \in Items, queue'[i].status \in Staged
      PROVE  /\ scenarios'[queue[i].scenario].par = scenarios[queue[i].scenario].par
             /\ scenarios'[queue[i].scenario].bind = scenarios[queue[i].scenario].bind
  BY <1>1, <1>3 DEF RowsQuiet, Staged, ItemsOf
<1>4. \A t \in Scenarios : scenarios'[t].status = "absent" => ItemsOf(t) = {}
  BY DEF ContentInv, NoOrphans
<1>5. \A t \in Scenarios : scenarios'[t].revision # 0 => revisions'[scenarios'[t].revision].status # "none"
  BY DEF ContentInv, ReferencesExist
<1> QED BY <1>2, <1>3, <1>4, <1>5 DEF DraftsQuiet

\* A save of a draft that changes it cancels the row that waits for it.
LEMMA SaveQuiet ==
  ASSUME StoreInv, ContentInv, NEW s \in Scenarios, NEW par \in Params, NEW bind \in SUBSET Assets,
         UpdateScenario(s, par, bind)
  PROVE  Quiet
<1> StoreTypeOK
  BY DEF StoreInv
<1> DEFINE old == IF scenarios[s].bind # {} THEN scenarios[s].bind ELSE Bindings(s)
           changed == bind # old \/ par # scenarios[s].par \/ scenarios[s].revision # 0
<1>1. UNCHANGED <<runs, uploads, revisions, asked>>
  BY DEF UpdateScenario
<1>2. queue' = IF changed THEN Cancelled(StagedItemsOf(s), "draft_changed") ELSE queue
  BY DEF UpdateScenario
<1>3. StagedItemsOf(s) \in SUBSET Items
  BY DEF StagedItemsOf, ItemsOf
<1>4. Marks(IF changed THEN StagedItemsOf(s) ELSE {}, "cancelled")
  <2> HIDE DEF changed
  <2>1. CASE changed
    BY <1>2, <1>3, <2>1, CancelledMarks
  <2>2. CASE ~changed
    BY <1>2, <2>2, SameMarks
  <2> QED BY <2>1, <2>2
<1>5. RowsQuiet
  <2> HIDE DEF changed
  <2> QED BY <1>3, <1>4, WithdrawalQuiet DEF Staged, Active
<1>6. /\ scenarios'[s].par = par /\ scenarios'[s].bind = bind /\ scenarios'[s].revision = 0
      /\ scenarios'[s].status \in {"ready", "draft"}
      /\ \A t \in Scenarios \ {s} : scenarios'[t] = scenarios[t]
  <2>1. scenarios'[s] = NewScenario(par, bind, 0, scenarios[s].version + 1)
    BY DEF UpdateScenario, StoreTypeOK
  <2>2. \A t \in Scenarios \ {s} : scenarios'[t] = scenarios[t]
    BY DEF UpdateScenario, StoreTypeOK
  <2> QED BY <2>1, <2>2, NewScenarioFields
<1>7. \A i \in ItemsOf(s) : runs[i].status = "none"
  BY DEF UpdateScenario, Editable, HasHistory
<1>8. ASSUME NEW i \in ItemsOf(s), queue'[i].status \in Staged
      PROVE  scenarios'[s].par = scenarios[s].par /\ scenarios'[s].bind = scenarios[s].bind
  <2>1. i \in Items /\ queue[i].status \in Staged
    BY <1>5, <1>8 DEF RowsQuiet, ItemsOf
  <2>2. ~queue[i].deleted
    BY <2>1 DEF StoreInv, Rows, DeletedIsTerminal, StoreTypeOK, QueueRow, Staged, Terminal, RunEnd
  <2>3. i \in StagedItemsOf(s)
    BY <2>1, <2>2 DEF StagedItemsOf
  <2>4. ~changed
    <3> HIDE DEF changed
    <3> QED BY <1>4, <1>8, <2>1, <2>3 DEF Marks, Staged
  <2>5. bind = old /\ par = scenarios[s].par /\ scenarios[s].revision = 0
    BY <2>4
  <2>6. old = scenarios[s].bind
    BY <2>5 DEF Bindings
  <2> QED BY <1>6, <2>5, <2>6
<1>9. DraftsQuiet
  BY <1>1, <1>5, <1>6, <1>7, <1>8, OneScenarioQuiet
<1> QED BY <1>1, <1>5, <1>9, SameRevisions, SameRuns DEF Quiet

\* A deletion of inputs cancels the rows of the drafts that were bound to them.
LEMMA AssetsQuiet ==
  ASSUME StoreInv, ContentInv, NEW A \in SUBSET Assets, BatchDeleteAssets(A)
  PROVE  Quiet
<1> StoreTypeOK
  BY DEF StoreInv
<1> DEFINE affected == {s \in Scenarios : scenarios[s].bind \cap A # {}}
           I == UNION {StagedItemsOf(s) : s \in affected}
<1>1. UNCHANGED <<runs, revisions, asked>> /\ queue' = Cancelled(I, "asset_deleted")
  BY DEF BatchDeleteAssets
<1>2. I \in SUBSET Items
  BY DEF StagedItemsOf, ItemsOf
<1>3. Marks(I, "cancelled")
  <2> HIDE DEF I
  <2> QED BY <1>1, <1>2, CancelledMarks
<1>4. RowsQuiet
  <2> HIDE DEF I
  <2> QED BY <1>2, <1>3, WithdrawalQuiet DEF Staged, Active
<1>5. \A s \in Scenarios : /\ scenarios'[s].bind = scenarios[s].bind \ A
                           /\ scenarios'[s].par = scenarios[s].par
                           /\ scenarios'[s].revision = scenarios[s].revision
                           /\ scenarios'[s].status = "absent" => scenarios[s].status = "absent"
  BY DeletedAssets
<1>6. \A i \in Items : queue[i].status # "absent" => queue[i].scenario \in Scenarios
  BY RowType DEF StoreInv, Rows
<1>7. ASSUME NEW i \in Items, queue'[i].status \in Staged
      PROVE  /\ scenarios'[queue[i].scenario].par = scenarios[queue[i].scenario].par
             /\ scenarios'[queue[i].scenario].bind = scenarios[queue[i].scenario].bind
  <2>1. queue[i].status \in Staged /\ queue[i].scenario \in Scenarios
    BY <1>4, <1>6, <1>7 DEF RowsQuiet, Staged
  <2>2. ~queue[i].deleted
    BY <2>1 DEF StoreInv, Rows, DeletedIsTerminal, StoreTypeOK, QueueRow, Staged, Terminal, RunEnd
  <2>3. i \in StagedItemsOf(queue[i].scenario)
    BY <2>1, <2>2 DEF StagedItemsOf, ItemsOf
  <2>4. i \notin I
    <3> HIDE DEF I
    <3> QED BY <1>3, <1>7 DEF Marks, Staged
  <2>5. queue[i].scenario \notin affected
    BY <2>3, <2>4
  <2> QED BY <1>5, <2>1, <2>5
<1>8. \A i \in Items : runs[i].status # "none" => queue[i].scenario \in Scenarios
  BY <1>6 DEF ContentInv, WrittenOnce, Past
<1>9. DraftsQuiet
  BY <1>1, <1>5, <1>7, <1>8 DEF DraftsQuiet, ContentInv, NoOrphans, ReferencesExist
<1> QED BY <1>1, <1>4, <1>9, SameRevisions, SameRuns DEF Quiet

\* A scenario that has no rows is created, copied to or deleted.
LEMMA NewQuiet ==
  ASSUME StoreInv, ContentInv, NEW s \in Scenarios, ItemsOf(s) = {},
         \A t \in Scenarios \ {s} : scenarios'[t] = scenarios[t],
         scenarios'[s].revision # 0 => revisions[scenarios'[s].revision].status # "none",
         UNCHANGED <<queue, runs, revisions, asked>>
  PROVE  Quiet
<1>1. RowsQuiet
  BY DEF RowsQuiet
<1>2. DraftsQuiet
  BY <1>1, OneScenarioQuiet
<1> QED BY <1>1, <1>2, SameRevisions, SameRuns DEF Quiet

\* Requests on drafts are quiet.
LEMMA DraftQuiet == ASSUME StoreInv, ContentInv, DraftRequest PROVE Quiet
<1> StoreTypeOK
  BY DEF StoreInv
<1>1. ASSUME UNCHANGED <<queue, runs, asked>>, RevisionsQuiet, \A s \in Scenarios : ContentKept(s),
             \A s \in Scenarios : scenarios'[s].status = "absent" => scenarios[s].status = "absent"
      PROVE  Quiet
  <2>1. RowsQuiet
    BY <1>1 DEF RowsQuiet
  <2> QED BY <1>1, <2>1, ContentQuiet, SameRuns DEF Quiet
<1>2. ASSUME NEW a \in Assets, IngestUpload(a) \/ ArchiveAsset(a) PROVE Quiet
  <2>1. UNCHANGED <<queue, runs, scenarios, revisions, asked>>
    BY <1>2 DEF IngestUpload, ArchiveAsset
  <2> QED BY <1>1, <2>1, SameRevisions DEF ContentKept
<1>3. ASSUME NEW s \in Scenarios, NEW par \in Params, NEW rev \in {0} \cup Revisions, CreateScenario(s, par, rev)
      PROVE  Quiet
  <2>1. scenarios'[s] = NewScenario(par, {}, rev, 1) /\ \A t \in Scenarios \ {s} : scenarios'[t] = scenarios[t]
    BY <1>3 DEF CreateScenario, StoreTypeOK
  <2>2. scenarios'[s].revision = rev /\ (rev # 0 => revisions[rev].status # "none")
    BY <1>3, <2>1, NewScenarioFields DEF CreateScenario
  <2>3. ItemsOf(s) = {} /\ UNCHANGED <<queue, runs, revisions, asked>>
    BY <1>3 DEF CreateScenario, ContentInv, NoOrphans
  <2> QED BY <2>1, <2>2, <2>3, NewQuiet
<1>4. ASSUME NEW s \in Scenarios, NEW t \in Scenarios, DuplicateScenario(s, t) PROVE Quiet
  <2>1. scenarios'[t].revision = 0
    <3>1. scenarios'[t] = IF Rebindable(s) THEN NewScenario(scenarios[s].par, Bindings(s), 0, 2)
                                           ELSE NewScenario(scenarios[s].par, {}, 0, 1)
      BY <1>4 DEF DuplicateScenario, StoreTypeOK
    <3> QED BY <3>1, NewScenarioFields
  <2>2. \A u \in Scenarios \ {t} : scenarios'[u] = scenarios[u]
    BY <1>4 DEF DuplicateScenario, StoreTypeOK
  <2>3. ItemsOf(t) = {} /\ UNCHANGED <<queue, runs, revisions, asked>>
    BY <1>4 DEF DuplicateScenario, ContentInv, NoOrphans
  <2> QED BY <2>1, <2>2, <2>3, NewQuiet
<1>5. ASSUME NEW s \in Scenarios, ArchiveScenario(s) PROVE Quiet
  <2>1. UNCHANGED <<queue, runs, revisions, asked>>
    BY <1>5 DEF ArchiveScenario
  <2>2. ASSUME NEW t \in Scenarios
        PROVE  /\ scenarios'[t].par = scenarios[t].par /\ scenarios'[t].bind = scenarios[t].bind
               /\ scenarios'[t].revision = scenarios[t].revision
               /\ scenarios'[t].status = "absent" => scenarios[t].status = "absent"
    BY <1>5 DEF ArchiveScenario, StoreTypeOK, ScenarioRow
  <2>3. RowsQuiet
    BY <2>1 DEF RowsQuiet
  <2>4. DraftsQuiet
    <3>1. \A i \in Items : runs[i].status # "none" => queue[i].scenario \in Scenarios
      BY RowType DEF StoreInv, Rows, ContentInv, WrittenOnce, Past
    <3>2. \A i \in Items : queue'[i].status \in Staged => queue[i].scenario \in Scenarios
      BY <2>1, RowType DEF StoreInv, Rows, Staged
    <3> QED BY <2>1, <2>2, <3>1, <3>2 DEF DraftsQuiet, ContentInv, NoOrphans, ReferencesExist
  <2> QED BY <2>1, <2>3, <2>4, SameRevisions, SameRuns DEF Quiet
<1>6. ASSUME NEW s \in Scenarios, DeleteScenario(s) PROVE Quiet
  <2>1. scenarios'[s].revision = 0 /\ \A u \in Scenarios \ {s} : scenarios'[u] = scenarios[u]
    BY <1>6 DEF DeleteScenario, NoScenario, StoreTypeOK
  <2>2. ItemsOf(s) = {} /\ UNCHANGED <<queue, runs, revisions, asked>>
    BY <1>6 DEF DeleteScenario
  <2> QED BY <2>1, <2>2, NewQuiet
<1>7. ASSUME NEW r \in Revisions, NEW bind \in SUBSET Assets, NEW ok, CreateInputRevision(r, bind, ok) PROVE Quiet
  <2>1. UNCHANGED <<queue, runs, scenarios, asked>>
    BY <1>7 DEF CreateInputRevision
  <2>2. r \notin Items /\ revisions[r].status = "none" /\ \A q \in Revisions \ {r} : revisions'[q] = revisions[q]
    BY <1>7, StoreAssumption DEF CreateInputRevision, Items, StoreTypeOK
  <2>3. RevisionsQuiet
    BY <2>2 DEF RevisionsQuiet
  <2> QED BY <1>1, <2>1, <2>3 DEF ContentKept
<1>8. ASSUME NEW r \in Revisions, NEW ok, ValidateInputRevision(r, ok) PROVE Quiet
  <2>1. UNCHANGED <<queue, runs, scenarios, asked>> /\ revisions[r].status # "none"
    BY <1>8 DEF ValidateInputRevision
  <2>2. revisions'[r].bind = revisions[r].bind /\ revisions'[r].status \in {"ready", "invalid"}
    BY <1>8 DEF ValidateInputRevision, StoreTypeOK, RevisionRow
  <2>3. \A q \in Revisions \ {r} : revisions'[q] = revisions[q]
    BY <1>8 DEF ValidateInputRevision, StoreTypeOK
  <2>4. RevisionsQuiet
    BY <2>1, <2>2, <2>3 DEF RevisionsQuiet
  <2> QED BY <1>1, <2>1, <2>4 DEF ContentKept
<1> QED BY <1>2, <1>3, <1>4, <1>5, <1>6, <1>7, <1>8, SaveQuiet, AssetsQuiet DEF DraftRequest

-----------------------------------------------------------------------------
(* Requests on the queue.                                                  *)

\* The queue moves no scenario to "absent".
LEMMA QueueKeepsScenarios ==
  ASSUME StoreInv, QueueRequest, NEW t \in Scenarios, scenarios'[t].status = "absent"
  PROVE  scenarios[t].status = "absent"
<1> StoreTypeOK
  BY DEF StoreInv
<1>1. ASSUME NEW i \in Items, NEW s \in Scenarios, NEW snapshot, EnqueueScenario(i, s, snapshot)
      PROVE  scenarios[t].status = "absent"
  <2>1. scenarios' = WithScenarioStatus(s, "waiting")
    BY <1>1 DEF EnqueueScenario, WithScenarioStatus
  <2> QED BY <2>1, ScenarioExcept
<1>2. ASSUME NEW i \in Items, NEW old \in Items, RetryQueueItem(i, old) PROVE scenarios[t].status = "absent"
  <2>1. queue[old].scenario \in Scenarios /\ EnqueueScenario(i, queue[old].scenario, queue[old].revision)
    BY <1>2, RowType DEF RetryQueueItem, Retryable, StoreInv, Rows
  <2> QED BY <1>1, <2>1
<1>3. ASSUME NEW p \in Projects, StartQueueBatch(p) PROVE scenarios[t].status = "absent"
  <2> DEFINE Released(s) == \E i \in Waiting(p) : queue[i].scenario = s
  <2>1. scenarios' = [s \in Scenarios |->
          IF Released(s) THEN [scenarios[s] EXCEPT !.status = "queued"] ELSE scenarios[s]]
    BY <1>3 DEF StartQueueBatch
  <2> HIDE DEF Released
  <2>2. scenarios'[t] = IF Released(t) THEN [scenarios[t] EXCEPT !.status = "queued"] ELSE scenarios[t]
    BY <2>1
  <2>3. scenarios[t] \in ScenarioRow
    BY DEF StoreTypeOK
  <2> QED BY <2>2, <2>3, ScenarioMarked
<1>4. ASSUME NEW i \in Items, NEW k \in Items, NEW p \in Projects, ReorderQueue(i, k, p)
      PROVE  scenarios[t].status = "absent"
  BY <1>4 DEF ReorderQueue
<1>5. ASSUME NEW S, scenarios' = Restored(S, queue') PROVE scenarios[t].status = "absent"
  <2>1. RestoredStatus(t, queue') \in {"draft", "ready"} \cup Live \cup Terminal
    BY RestoredType, QueueRequestType DEF StoreInv, Rows, StoreTypeOK
  <2>2. RestoredStatus(t, queue') # "absent"
    BY <2>1 DEF Live, Staged, Active, Terminal, RunEnd
  <2> QED BY <1>5, <2>2, RestoredFields
<1>6. ASSUME NEW i \in Items, CancelQueueItem(i) PROVE scenarios[t].status = "absent"
  BY <1>5, <1>6 DEF CancelQueueItem
<1>7. ASSUME NEW p \in Projects, NEW D \in SUBSET Items, BatchDeleteQueueItems(D, p)
      PROVE  scenarios[t].status = "absent"
  BY <1>5, <1>7 DEF BatchDeleteQueueItems
<1> QED BY <1>1, <1>2, <1>3, <1>4, <1>6, <1>7 DEF QueueRequest

\* An enqueue records what its scenario would run now.
LEMMA EnqueueContent ==
  ASSUME StoreInv, ContentInv, QueueRequest, NEW i \in Items, NEW s \in Scenarios, NEW snapshot,
         EnqueueScenario(i, s, snapshot)
  PROVE  ContentInv'
<1> StoreTypeOK
  BY DEF StoreInv
<1> DEFINE frozen == IF snapshot # 0 THEN snapshot ELSE scenarios[s].revision
           content == [par |-> scenarios[s].par,
                       bind |-> IF frozen # 0 THEN revisions[frozen].bind ELSE scenarios[s].bind]
<1>1. /\ queue[i].status = "absent" /\ runs[i].status = "none" /\ revisions[i].status = "none"
      /\ UNCHANGED <<runs, uploads, revisions>>
  BY DEF EnqueueScenario, Fresh, ContentInv, WrittenOnce, Past
<1>2. /\ queue'[i].status = "waiting" /\ queue'[i].scenario = s /\ queue'[i].revision = frozen
      /\ \A j \in Items \ {i} : queue'[j] = queue[j]
  BY DEF EnqueueScenario, StoreTypeOK
<1>3. asked'[i] = content /\ \A j \in Items \ {i} : asked'[j] = asked[j]
  BY DEF EnqueueScenario, StoreTypeOK
<1>4. asked'[i].par = scenarios[s].par
      /\ asked'[i].bind = IF frozen # 0 THEN revisions[frozen].bind ELSE scenarios[s].bind
  BY <1>3
<1>5. frozen # 0 => revisions[frozen].status # "none"
  BY DEF EnqueueScenario
<1>6. \A t \in Scenarios : ContentKept(t) /\ (scenarios'[t].status = "absent" => scenarios[t].status = "absent")
  BY QueueKeepsContents, QueueKeepsScenarios
<1>7. scenarios'[s].status # "absent"
  BY <1>6 DEF EnqueueScenario
<1>8. \A j \in Items : queue[j].status # "absent" => queue[j].scenario \in Scenarios
  BY RowType DEF StoreInv, Rows
<1> HIDE DEF frozen, content
<1>9. ReferencesExist'
  BY <1>1, <1>2, <1>5, <1>6 DEF ReferencesExist, ContentInv, ContentKept
<1>10. WrittenOnce'
  BY <1>1, <1>2 DEF WrittenOnce, ContentInv, Past
<1>11. ActiveRowsRun'
  BY <1>1, <1>2 DEF ActiveRowsRun, ContentInv, Active
<1>12. NoOrphans'
  BY <1>2, <1>6, <1>7 DEF NoOrphans, ContentInv, ItemsOf
<1>13. StagedAsAsked'
  <2> SUFFICES ASSUME NEW j \in Items, queue'[j].status \in Staged
               PROVE  /\ asked'[j].par = scenarios'[queue'[j].scenario].par
                      /\ asked'[j].bind = IF queue'[j].revision # 0 THEN revisions'[queue'[j].revision].bind
                                                                    ELSE scenarios'[queue'[j].scenario].bind
    BY DEF StagedAsAsked
  <2>1. CASE j = i
    BY <1>1, <1>2, <1>4, <1>6, <2>1 DEF ContentKept
  <2>2. CASE j # i
    <3>1. queue[j].status \in Staged /\ queue[j].scenario \in Scenarios
      BY <1>2, <1>8, <2>2 DEF Staged
    <3> QED BY <1>1, <1>2, <1>3, <1>6, <2>2, <3>1 DEF ContentInv, StagedAsAsked, ContentKept
  <2> QED BY <2>1, <2>2
<1>14. RunsWhatWasQueued'
  BY <1>1, <1>3 DEF RunsWhatWasQueued, ContentInv
<1>15. ParametersFixedByRun'
  <2>1. \A j \in Items : runs[j].status # "none" => j # i /\ queue[j].scenario \in Scenarios
    BY <1>1, <1>8 DEF ContentInv, WrittenOnce, Past
  <2> QED BY <1>1, <1>2, <1>6, <2>1 DEF ParametersFixedByRun, ContentInv, ContentKept
<1> QED BY <1>9, <1>10, <1>11, <1>12, <1>13, <1>14, <1>15 DEF ContentInv

\* A row is moved, left alone, or removed with or without a cancellation.
Moved(j) == \E o : queue'[j] = [queue[j] EXCEPT !.order = o]
Removed(j) == queue'[j] = [queue[j] EXCEPT !.deleted = TRUE]
Withdrawn(j) == queue'[j] = [queue[j] EXCEPT !.deleted = TRUE, !.status = "cancelled", !.reason = "queue_deleted"]

\* A row that is moved or removed keeps its revision.
LEMMA RewrittenQuiet ==
  ASSUME StoreTypeOK, \A j \in Items : Moved(j) \/ queue'[j] = queue[j] \/ Removed(j) \/ Withdrawn(j)
  PROVE  RowsQuiet
<1>1. ASSUME NEW j \in Items
      PROVE  /\ queue'[j].scenario = queue[j].scenario /\ queue'[j].revision = queue[j].revision
             /\ queue'[j].status = queue[j].status \/ queue'[j].status = "cancelled"
  <2>1. queue[j] \in QueueRow
    BY DEF StoreTypeOK
  <2>2. CASE Moved(j)
    <3>1. PICK o : queue'[j] = [queue[j] EXCEPT !.order = o]
      BY <2>2 DEF Moved
    <3> QED BY <2>1, <3>1 DEF QueueRow
  <2>3. CASE Removed(j)
    BY <2>1, <2>3 DEF Removed, QueueRow
  <2>4. CASE Withdrawn(j)
    BY <2>1, <2>4 DEF Withdrawn, QueueRow
  <2> QED BY <2>2, <2>3, <2>4
<1> QED BY <1>1 DEF RowsQuiet, Staged, Active

\* Releasing, moving, cancelling and removing rows is quiet.
LEMMA QueueContent == ASSUME StoreInv, ContentInv, RowsMove, QueueRequest PROVE ContentInv'
<1> StoreTypeOK
  BY DEF StoreInv
<1>1. ASSUME NEW i \in Items, NEW s \in Scenarios, EnqueueScenario(i, s, 0) PROVE ContentInv'
  BY <1>1, EnqueueContent
<1>2. ASSUME NEW i \in Items, NEW old \in Items, RetryQueueItem(i, old) PROVE ContentInv'
  <2>1. queue[old].scenario \in Scenarios
    BY <1>2, RowType DEF RetryQueueItem, Retryable, StoreInv, Rows
  <2> QED BY <1>2, <2>1, EnqueueContent DEF RetryQueueItem
<1>3. ASSUME RowsQuiet, UNCHANGED asked PROVE ContentInv'
  <2>1. UNCHANGED <<runs, revisions>> /\ \A t \in Scenarios : ContentKept(t)
    BY QueueKeepsContents
  <2>2. DraftsQuiet
    BY <1>3, <2>1, ContentQuiet, SameRevisions, QueueKeepsScenarios
  <2>3. Quiet
    BY <1>3, <2>1, <2>2, SameRevisions, SameRuns DEF Quiet
  <2> QED BY <2>3, QuietContent
<1>4. ASSUME NEW p \in Projects, StartQueueBatch(p) PROVE ContentInv'
  <2>1. queue' = WithStatus(Waiting(p), "queued") /\ Waiting(p) \in SUBSET Items /\ UNCHANGED asked
    BY <1>4 DEF StartQueueBatch, Waiting
  <2>2. Marks(Waiting(p), "queued") /\ \A i \in Waiting(p) : queue[i].status \in Staged
    BY <2>1, WithStatusMarks DEF Waiting, Staged
  <2>3. RowsQuiet
    BY <2>2 DEF Marks, RowKept, RowsQuiet, Active
  <2> QED BY <1>3, <2>1, <2>3
<1>5. ASSUME NEW i \in Items, NEW k \in Items, NEW p \in Projects, ReorderQueue(i, k, p) PROVE ContentInv'
  <2>1. \A j \in Items : Moved(j) \/ queue'[j] = queue[j]
    BY <1>5 DEF ReorderQueue, Moved
  <2>2. UNCHANGED asked
    BY <1>5 DEF ReorderQueue
  <2>3. RowsQuiet
    BY <2>1, RewrittenQuiet
  <2> QED BY <1>3, <2>2, <2>3
<1>6. ASSUME NEW i \in Items, CancelQueueItem(i) PROVE ContentInv'
  <2>1. queue' = WithStatus({i}, "cancelled") /\ UNCHANGED asked
    BY <1>6 DEF CancelQueueItem
  <2>2. RowsQuiet
    BY <2>1, WithStatusMarks, WithdrawalQuiet DEF Staged, Active
  <2> QED BY <1>3, <2>1, <2>2
<1>7. ASSUME NEW p \in Projects, NEW D \in SUBSET Items, BatchDeleteQueueItems(D, p) PROVE ContentInv'
  <2>1. UNCHANGED asked
    BY <1>7 DEF BatchDeleteQueueItems
  <2>2. \A j \in Items : Moved(j) \/ queue'[j] = queue[j] \/ Removed(j) \/ Withdrawn(j)
    BY <1>7 DEF BatchDeleteQueueItems, Moved, Removed, Withdrawn
  <2>3. RowsQuiet
    BY <2>2, RewrittenQuiet
  <2> QED BY <1>3, <2>1, <2>3
<1> QED BY <1>1, <1>2, <1>4, <1>5, <1>6, <1>7 DEF QueueRequest

-----------------------------------------------------------------------------
(* The scheduler.                                                          *)

\* A claim begins the run with what the row asked for.
LEMMA ClaimContent ==
  ASSUME StoreInv, ContentInv, RowsMove, NEW i \in Items, queue[i].status = "queued",
         NEW rev \in Revisions, ClaimStarts(i, rev), RevisionsQuiet,
         revisions'[rev].status # "none", revisions'[rev].bind = asked[i].bind
  PROVE  ContentInv'
<1> StoreTypeOK
  BY DEF StoreInv
<1> DEFINE s == queue[i].scenario
<1>1. s \in Scenarios /\ \A j \in Items : queue[j].status # "absent" => queue[j].scenario \in Scenarios
  BY RowType DEF StoreInv, Rows
<1>2. /\ queue'[i].status = "starting" /\ queue'[i].scenario = s /\ queue'[i].revision = rev
      /\ \A j \in Items \ {i} : queue'[j] = queue[j]
  BY ClaimedRow
<1>3. /\ runs'[i].status = "starting" /\ runs'[i].revision = rev /\ runs'[i].par = scenarios[s].par
      /\ \A j \in Items \ {i} : runs'[j] = runs[j]
  <2>1. runs'[i] = [status |-> "starting", revision |-> rev, par |-> scenarios[s].par]
    BY DEF ClaimStarts, StoreTypeOK
  <2>2. \A j \in Items \ {i} : runs'[j] = runs[j]
    BY DEF ClaimStarts, StoreTypeOK
  <2> HIDE DEF s
  <2> QED BY <2>1, <2>2
<1>4. UNCHANGED asked
  BY DEF ClaimStarts
<1>5. /\ \A t \in Scenarios : DraftKept(t)
      /\ \A t \in Scenarios : scenarios'[t].revision = IF t = s THEN rev ELSE scenarios[t].revision
      /\ \A t \in Scenarios : scenarios'[t].status = IF t = s THEN "running" ELSE scenarios[t].status
  BY ClaimedScenario
<1>6. asked[i].par = scenarios[s].par
  BY DEF ContentInv, StagedAsAsked, Staged
<1>7. rev # 0
  BY StoreAssumption DEF Revisions
<1> HIDE DEF s
<1>8. ReferencesExist'
  <2>1. \A j \in Items : queue'[j].revision # 0 => revisions'[queue'[j].revision].status # "none"
    BY <1>2, NamedRevisions DEF ContentInv, ReferencesExist, RevisionsQuiet
  <2>2. \A t \in Scenarios : scenarios'[t].revision # 0 => revisions'[scenarios'[t].revision].status # "none"
    BY <1>5, NamedRevisions DEF ContentInv, ReferencesExist, RevisionsQuiet
  <2>3. \A j \in Items : runs'[j].status # "none" =>
          runs'[j].revision # 0 /\ revisions'[runs'[j].revision].status # "none"
    BY <1>3, <1>7, NamedRevisions DEF ContentInv, ReferencesExist, RevisionsQuiet
  <2> QED BY <2>1, <2>2, <2>3 DEF ReferencesExist
<1>9. WrittenOnce'
  <2>1. Past(i)'
    BY <1>2 DEF Past, Staged
  <2>2. ASSUME NEW j \in Items, runs'[j].status # "none" \/ revisions'[j].status # "none" PROVE Past(j)'
    BY <1>3, <2>1, <2>2, NamedRevisions, PastStays DEF ContentInv, WrittenOnce, RevisionsQuiet
  <2> QED BY <2>2 DEF WrittenOnce
<1>10. ActiveRowsRun'
  BY <1>2, <1>3 DEF ContentInv, ActiveRowsRun
<1>11. NoOrphans'
  BY <1>2, <1>5 DEF ContentInv, NoOrphans, ItemsOf
<1>12. StagedAsAsked'
  <2> SUFFICES ASSUME NEW j \in Items, queue'[j].status \in Staged
               PROVE  /\ asked'[j].par = scenarios'[queue'[j].scenario].par
                      /\ asked'[j].bind = IF queue'[j].revision # 0 THEN revisions'[queue'[j].revision].bind
                                                                    ELSE scenarios'[queue'[j].scenario].bind
    BY DEF StagedAsAsked
  <2>1. j # i /\ queue'[j] = queue[j] /\ queue[j].scenario \in Scenarios
    BY <1>1, <1>2 DEF Staged
  <2>2. queue[j].revision # 0 => revisions'[queue[j].revision].bind = revisions[queue[j].revision].bind
    BY NamedRevisions DEF ContentInv, ReferencesExist, RevisionsQuiet
  <2> QED BY <1>4, <1>5, <2>1, <2>2 DEF ContentInv, StagedAsAsked, DraftKept
<1>13. RunsWhatWasQueued'
  <2> SUFFICES ASSUME NEW j \in Items, runs'[j].status # "none"
               PROVE  runs'[j].par = asked'[j].par /\ revisions'[runs'[j].revision].bind = asked'[j].bind
    BY DEF RunsWhatWasQueued
  <2>1. CASE j = i
    BY <1>3, <1>4, <1>6, <2>1
  <2>2. CASE j # i
    <3>1. runs'[j] = runs[j] /\ runs[j].revision \in Revisions /\ revisions[runs[j].revision].status # "none"
      BY <1>3, <2>2, NamedRevisions DEF ContentInv, ReferencesExist
    <3> QED BY <1>4, <3>1 DEF ContentInv, RunsWhatWasQueued, RevisionsQuiet
  <2> QED BY <2>1, <2>2
<1>14. ParametersFixedByRun'
  <2>1. \A j \in Items \ {i} : runs[j].status # "none" => queue[j].scenario \in Scenarios
    BY <1>1 DEF ContentInv, WrittenOnce, Past
  <2> QED BY <1>1, <1>2, <1>3, <1>5, <2>1 DEF ContentInv, ParametersFixedByRun, DraftKept
<1> QED BY <1>8, <1>9, <1>10, <1>11, <1>12, <1>13, <1>14 DEF ContentInv

\* A refused claim is a withdrawal.
LEMMA RefusalContent ==
  ASSUME StoreInv, ContentInv, RowsMove, NEW i \in Items, queue[i].status = "queued",
         NEW why, ClaimRefused(i, why), RevisionsQuiet
  PROVE  ContentInv'
<1> StoreTypeOK
  BY DEF StoreInv
<1>1. queue' = Cancelled({i}, why) /\ UNCHANGED <<runs, asked>>
  BY DEF ClaimRefused
<1>2. RowsQuiet
  BY <1>1, CancelledMarks, WithdrawalQuiet DEF Staged, Active
<1>3. queue[i].scenario \in Scenarios
  BY RowType DEF StoreInv, Rows
<1>4. scenarios' = WithScenarioStatus(queue[i].scenario, "draft")
  BY DEF ClaimRefused, WithScenarioStatus
<1>5. DraftsQuiet
  BY <1>2, <1>3, <1>4, ScenarioExcept, ContentQuiet
<1> QED BY <1>1, <1>2, <1>5, SameRuns, QuietContent DEF Quiet

\* Only the claim of a draft freezes a revision.
LEMMA ClaimRevisions == ASSUME StoreInv, RowsMove, NEW i \in Items, ClaimFrozen(i) \/ ClaimStale(i) PROVE RevisionsQuiet
BY SameRevisions DEF ClaimFrozen, ClaimStale

\* Every outcome of a claim keeps the invariant.
LEMMA ClaimedContent ==
  ASSUME StoreInv, ContentInv, RowsMove, NEW i \in Items, ClaimQueueItem(i)
  PROVE  ContentInv'
<1> StoreTypeOK
  BY DEF StoreInv
<1>1. queue[i].status = "queued"
  BY DEF ClaimQueueItem, ClaimFrozen, ClaimStale, ClaimDraft
<1>2. CASE ClaimFrozen(i)
  <2>1. CASE revisions[queue[i].revision].status = "ready"
    <3>1. ClaimStarts(i, queue[i].revision) /\ queue[i].revision # 0 /\ UNCHANGED revisions
      BY <1>2, <2>1 DEF ClaimFrozen
    <3>2. revisions[queue[i].revision].bind = asked[i].bind
      BY <1>1, <3>1 DEF ContentInv, StagedAsAsked, Staged
    <3> QED BY <1>1, <2>1, <3>1, <3>2, NamedRevisions, SameRevisions, ClaimContent
  <2>2. CASE revisions[queue[i].revision].status # "ready"
    BY <1>1, <1>2, <2>2, ClaimRevisions, RefusalContent DEF ClaimFrozen
  <2> QED BY <2>1, <2>2
<1>3. CASE ClaimStale(i)
  BY <1>1, <1>3, ClaimRevisions, RefusalContent DEF ClaimStale
<1>4. ASSUME NEW ok \in BlobChecks, ClaimDraft(i, ok) PROVE ContentInv'
  <2> DEFINE frozen == [status |-> IF ok THEN "ready" ELSE "invalid", bind |-> scenarios[queue[i].scenario].bind]
  <2>1. revisions' = [revisions EXCEPT ![i] = frozen] /\ i \in Revisions /\ queue[i].revision = 0
    BY <1>4, NamedRevisions DEF ClaimDraft
  <2>2. revisions'[i] = frozen /\ \A r \in Revisions \ {i} : revisions'[r] = revisions[r]
    BY <2>1 DEF StoreTypeOK
  <2>3. revisions'[i].status # "none" /\ revisions'[i].bind = scenarios[queue[i].scenario].bind
    BY <2>2
  <2>4. revisions[i].status = "none"
    BY <1>1 DEF ContentInv, WrittenOnce, Past, Staged
  <2>5. asked[i].bind = scenarios[queue[i].scenario].bind
    BY <1>1, <2>1 DEF ContentInv, StagedAsAsked, Staged
  <2>6. CASE ok
    <3>1. ClaimStarts(i, i)
      BY <1>4, <2>6 DEF ClaimDraft
    <3>2. Past(i)'
      BY <3>1, ClaimedRow DEF Past, Staged
    <3>3. RevisionsQuiet
      BY <2>2, <2>4, <3>2 DEF RevisionsQuiet
    <3> QED BY <1>1, <2>1, <2>3, <2>5, <3>1, <3>3, ClaimContent
  <2>7. CASE ~ok
    <3>1. ClaimRefused(i, "preflight_failed")
      BY <1>4, <2>7 DEF ClaimDraft
    <3>2. Marks({i}, "cancelled")
      BY <3>1, CancelledMarks DEF ClaimRefused
    <3>3. Past(i)'
      BY <3>2 DEF Marks, Past, Staged
    <3>4. RevisionsQuiet
      BY <2>2, <2>4, <3>3 DEF RevisionsQuiet
    <3> QED BY <1>1, <3>1, <3>4, RefusalContent
  <2> QED BY <2>6, <2>7
<1> QED BY <1>2, <1>3, <1>4 DEF ClaimQueueItem

\* A status written into a run.
LEMMA RunMarked ==
  ASSUME NEW r \in RunRow, NEW st
  PROVE  LET t == [r EXCEPT !.status = st]
         IN  t.status = st /\ t.par = r.par /\ t.revision = r.revision
BY DEF RunRow

\* The status of a run that has begun.
LEMMA RunReported ==
  ASSUME StoreTypeOK, ContentInv, NEW i \in Items, NEW st, st # "none", queue[i].status \in Active,
         runs' = [runs EXCEPT ![i].status = st]
  PROVE  RunsQuiet
<1>1. runs[i].status # "none"
  BY DEF ContentInv, ActiveRowsRun
<1>2. ASSUME NEW j \in Items
      PROVE  /\ runs'[j].par = runs[j].par /\ runs'[j].revision = runs[j].revision
             /\ runs'[j].status # "none" <=> runs[j].status # "none"
  <2>1. runs'[j] = IF j = i THEN [runs[j] EXCEPT !.status = st] ELSE runs[j]
    BY DEF StoreTypeOK
  <2>2. runs[j] \in RunRow
    BY DEF StoreTypeOK
  <2> QED BY <1>1, <2>1, <2>2, RunMarked
<1> QED BY <1>2 DEF RunsQuiet

\* What the scheduler does keeps the invariant.
LEMMA RuntimeContent == ASSUME StoreInv, ContentInv, RowsMove, RuntimeCall PROVE ContentInv'
<1> StoreTypeOK
  BY DEF StoreInv
<1>1. ASSUME NEW i \in Items, ClaimQueueItem(i) PROVE ContentInv'
  BY <1>1, ClaimedContent
<1>2. ASSUME NEW i \in Items, NEW st \in Active \cup Outcomes, queue[i].status \in Active, UpdateRun(i, st)
      PROVE  ContentInv'
  <2>1. st # "none"
    BY StoreAssumption DEF Active
  <2>2. runs' = [runs EXCEPT ![i].status = st] /\ UNCHANGED <<scenarios, revisions, asked>>
    BY <1>2 DEF UpdateRun
  <2>3. RunsQuiet
    BY <1>2, <2>1, <2>2, RunReported
  <2>4. RowsQuiet
    <3>1. CASE st \in Active
      <4>1. Marks({i}, st)
        BY <1>2, <3>1, ExceptMarks DEF UpdateRun
      <4> QED BY <1>2, <3>1, <4>1 DEF Marks, RowKept, RowsQuiet, Staged, Active
    <3>2. CASE st \notin Active
      BY <1>2, <3>2 DEF UpdateRun, RowsQuiet
    <3> QED BY <3>1, <3>2
  <2>5. DraftsQuiet
    BY <2>2, <2>4, SameRevisions, ContentQuiet DEF ContentKept
  <2> QED BY <2>2, <2>3, <2>4, <2>5, SameRevisions, QuietContent DEF Quiet
<1>3. ASSUME NEW i \in Items, NEW st \in Outcomes \cup {"interrupted"}, queue[i].status \in Active, FinishRun(i, st)
      PROVE  ContentInv'
  <2>1. st \notin {"none", "absent"} \cup Staged \cup Active
    BY StoreAssumption DEF Staged, Active
  <2>2. /\ runs' = [runs EXCEPT ![i].status = st]
        /\ queue' = [queue EXCEPT ![i].status = st]
        /\ scenarios' = WithScenarioStatus(queue[i].scenario, st)
        /\ UNCHANGED <<revisions, asked>>
    BY <1>3 DEF FinishRun, WithScenarioStatus
  <2>3. RunsQuiet
    BY <1>3, <2>1, <2>2, RunReported
  <2>4. RowsQuiet
    BY <2>1, <2>2, ExceptMarks, WithdrawalQuiet
  <2>5. queue[i].scenario \in Scenarios
    BY <1>3, RowType DEF StoreInv, Rows, Active
  <2>6. DraftsQuiet
    BY <2>1, <2>2, <2>4, <2>5, ScenarioExcept, SameRevisions, ContentQuiet
  <2> QED BY <2>2, <2>3, <2>4, <2>6, SameRevisions, QuietContent DEF Quiet
<1>4. ASSUME NEW P \in SUBSET Projects, RecoverInterruptedRuns(P) PROVE ContentInv'
  <2> DEFINE lost == {i \in Items : queue[i].status \in Active /\ \E p \in P : InProject(i, p)}
  <2>1. queue' = WithStatus(lost, "interrupted") /\ lost \in SUBSET Items /\ UNCHANGED <<revisions, asked>>
    BY <1>4 DEF RecoverInterruptedRuns
  <2>2. \A j \in Items : runs'[j] = IF j \in lost /\ runs[j].status # "none"
                                    THEN [runs[j] EXCEPT !.status = "interrupted"] ELSE runs[j]
    BY <1>4 DEF RecoverInterruptedRuns
  <2> HIDE DEF lost
  <2>3. RowsQuiet
    BY <2>1, WithStatusMarks, WithdrawalQuiet DEF Staged, Active
  <2>4. RunsQuiet
    <3>1. ASSUME NEW j \in Items
          PROVE  /\ runs'[j].par = runs[j].par /\ runs'[j].revision = runs[j].revision
                 /\ runs'[j].status # "none" <=> runs[j].status # "none"
      <4>1. runs[j] \in RunRow
        BY DEF StoreTypeOK
      <4>2. CASE j \in lost /\ runs[j].status # "none"
        <5>1. runs'[j] = [runs[j] EXCEPT !.status = "interrupted"]
          BY <2>2, <4>2
        <5> QED BY <4>1, <4>2, <5>1, RunMarked
      <4>3. CASE ~(j \in lost /\ runs[j].status # "none")
        BY <2>2, <4>3
      <4> QED BY <4>2, <4>3
    <3> QED BY <3>1 DEF RunsQuiet
  <2>5. \A s \in Scenarios : ContentKept(s) /\ (scenarios'[s].status = "absent" => scenarios[s].status = "absent")
    BY <1>4, RecoveredScenarios
  <2>6. DraftsQuiet
    BY <2>1, <2>3, <2>5, SameRevisions, ContentQuiet
  <2> QED BY <2>1, <2>3, <2>4, <2>6, SameRevisions, QuietContent DEF Quiet
<1> QED BY <1>1, <1>2, <1>3, <1>4 DEF RuntimeCall

-----------------------------------------------------------------------------
(* The theorems.                                                           *)

\* Nothing is queued, frozen or run at first.
LEMMA ContentInit == StoreInit => ContentInv
<1> SUFFICES ASSUME StoreInit PROVE ContentInv
  OBVIOUS
<1>1. \A i \in Items : queue[i].status = "absent" /\ queue[i].scenario = None /\ runs[i].status = "none"
  BY NothingQueued
<1>2. \A i \in Items : queue[i].revision = 0 /\ revisions[i].status = "none"
  BY NamedRevisions, InitType DEF StoreInit, NoRow
<1>3. \A s \in Scenarios : scenarios[s].revision = 0
  <2>1. PICK par \in [Seeded -> ValidParams] :
          scenarios = [t \in Scenarios |->
            IF t \in Seeded THEN NewScenario(par[t], OwnAssets(t), 0, 2) ELSE NoScenario]
    BY DEF StoreInit
  <2> QED BY <2>1, NewScenarioFields DEF NoScenario
<1>4. \A s \in Scenarios : ItemsOf(s) = {}
  BY <1>1, StoreAssumption DEF ItemsOf
<1> QED BY <1>1, <1>2, <1>3, <1>4
        DEF ContentInv, ReferencesExist, WrittenOnce, ActiveRowsRun, NoOrphans, StagedAsAsked,
            RunsWhatWasQueued, ParametersFixedByRun, Active, Staged

\* Every step keeps the invariant.
LEMMA ContentNext == StoreInv /\ ContentInv /\ [StoreNext]_storeVars => ContentInv'
<1> SUFFICES ASSUME StoreInv, ContentInv, [StoreNext]_storeVars PROVE ContentInv'
  OBVIOUS
<1>1. RowsMove
  BY StoreInvStep
<1>2. CASE DraftRequest
  BY <1>1, <1>2, DraftQuiet, QuietContent
<1>3. CASE QueueRequest
  BY <1>1, <1>3, QueueContent
<1>4. CASE RuntimeCall
  BY <1>1, <1>4, RuntimeContent
<1>5. CASE UNCHANGED storeVars
  <2>1. UNCHANGED <<queue, runs, scenarios, revisions, asked>>
    BY <1>5 DEF storeVars
  <2>2. RowsQuiet /\ RunsQuiet /\ RevisionsQuiet
    BY <2>1, SameRuns, SameRevisions DEF RowsQuiet
  <2>3. DraftsQuiet
    BY <2>1, <2>2, ContentQuiet DEF ContentKept
  <2> QED BY <1>1, <2>1, <2>2, <2>3, QuietContent DEF Quiet
<1> QED BY <1>2, <1>3, <1>4, <1>5 DEF StoreNext

\* Waiting rows keep asking for what their scenario would run, frozen
\* revisions keep their inputs, and a row is claimed once.
THEOREM ContentInvariant == StoreSpec => []ContentInv
BY ContentInit, ContentNext, StoreInvariant, PTL DEF StoreSpec

\* A run uses the parameters and inputs its scenario had when it was queued.
THEOREM RunsAsQueued == StoreSpec => []RunsWhatWasQueued
<1>1. ContentInv => RunsWhatWasQueued
  BY DEF ContentInv
<1> QED BY <1>1, ContentInvariant, PTL

\* A scenario that ran keeps the parameters of all its runs.
THEOREM ParametersKept == StoreSpec => []ParametersFixedByRun
<1>1. ContentInv => ParametersFixedByRun
  BY DEF ContentInv
<1> QED BY <1>1, ContentInvariant, PTL
=============================================================================
