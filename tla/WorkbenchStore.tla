--------------------------- MODULE WorkbenchStore ---------------------------
(***************************************************************************)
(* The tables of the project databases (api/services/workbench_store.py)   *)
(* and every operation of WorkbenchStore that changes the run queue, the   *)
(* scenarios, their draft bindings, the uploads, the frozen revisions and  *)
(* the simulation rows.  One action is one transaction, or the whole       *)
(* handler when no other code can run between its transactions.            *)
(*                                                                         *)
(* Rows are numbered.  Queue item i is the i-th row ever inserted, which   *)
(* is also its "position" and the order of "enqueued_at".  An item is      *)
(* claimed at most once, so simulation i is the run of item i and revision *)
(* i is the snapshot frozen by the claim of item i; revisions above        *)
(* MaxItems are those a request created.  0 is SQL NULL.                   *)
(***************************************************************************)
EXTENDS Integers, FiniteSets, FiniteSetsExt

CONSTANTS
  Projects,     \* project databases
  Scenarios,    \* scenario identities
  ProjectOf,    \* the project that owns a scenario
  Assets,       \* upload identities
  HomeOf,       \* the project an asset is uploaded to
  Params,       \* contents of name, template and parameter patch
  ValidParams,  \* those that pass validate_scenario_configuration
  Seeded,       \* scenarios that exist, bound and valid, in the first state
  BlobChecks,   \* outcomes of re-reading snapshot blobs from disk
  Outcomes,     \* statuses an executor may report at the end of a run
  MaxItems,     \* bound: queue rows ever inserted
  MaxRevisions, \* bound: MaxItems, and one more for each requested revision
  MaxVersion,   \* bound: versions of a scenario reached by edits
  None          \* no scenario

Staged == {"waiting", "queued"}
Active == {"starting", "running", "stopping"}
Live == Staged \cup Active
RunEnd == {"completed", "failed", "stopped", "interrupted"}
Terminal == RunEnd \cup {"cancelled"}
Retryable == {"cancelled", "failed", "interrupted", "stopped"}

ASSUME StoreAssumption ==
  /\ ProjectOf \in [Scenarios -> Projects]
  /\ HomeOf \in [Assets -> Projects]
  /\ ValidParams \subseteq Params
  /\ Params # {}
  /\ Seeded \subseteq Scenarios
  /\ BlobChecks \subseteq BOOLEAN
  /\ Outcomes \subseteq {"completed", "failed", "stopped"}
  /\ MaxItems \in Nat
  /\ MaxRevisions \in Nat
  /\ MaxItems <= MaxRevisions
  /\ MaxVersion \in Nat
  /\ None \notin Scenarios

Items == 1 .. MaxItems
Revisions == 1 .. MaxRevisions

VARIABLES
  queue,       \* queue_items
  runs,        \* simulation_runs
  scenarios,   \* scenarios and scenario_draft_bindings
  uploads,     \* uploads
  revisions,   \* input_revisions and input_revision_bindings
  asked        \* history: what the scenario would have run when enqueued

storeVars == <<queue, runs, scenarios, uploads, revisions, asked>>

-----------------------------------------------------------------------------
\* Types

Content == [par : Params, bind : SUBSET Assets]

QueueRow ==
  [status : {"absent"} \cup Live \cup Terminal, scenario : Scenarios \cup {None},
   version : Nat, revision : 0 .. MaxRevisions, order : Nat, deleted : BOOLEAN,
   reason : {"", "draft_changed", "preflight_failed", "asset_deleted", "queue_deleted"}]

RunRow == [status : {"none"} \cup Active \cup RunEnd, revision : 0 .. MaxRevisions, par : Params]

ScenarioRow ==
  [status : {"absent", "draft", "ready", "archived"} \cup Live \cup Terminal,
   archived : BOOLEAN, version : Nat, revision : 0 .. MaxRevisions,
   par : Params, bind : SUBSET Assets]

RevisionRow == [status : {"none", "ready", "invalid"}, bind : SUBSET Assets]

\* Every column keeps its declared domain.
StoreTypeOK ==
  /\ queue \in [Items -> QueueRow]
  /\ runs \in [Items -> RunRow]
  /\ scenarios \in [Scenarios -> ScenarioRow]
  /\ uploads \in [Assets -> {"absent", "present", "archived", "deleted"}]
  /\ revisions \in [Revisions -> RevisionRow]
  /\ asked \in [Items -> Content]

-----------------------------------------------------------------------------
\* Queries

ItemsOf(s) == {i \in Items : queue[i].scenario = s}
InProject(i, p) == queue[i].scenario # None /\ ProjectOf[queue[i].scenario] = p
WaitingUnlessRemoved(p) == {i \in Items : ~queue[i].deleted /\ InProject(i, p)}  \* mutant: any status
Waiting(p) == {i \in Items : queue[i].status = "waiting" /\ ~queue[i].deleted /\ InProject(i, p)}
Queued(p) == {i \in Items : queue[i].status = "queued" /\ ~queue[i].deleted /\ InProject(i, p)}
LiveItemsOf(s) == {i \in ItemsOf(s) : queue[i].status \in Live /\ ~queue[i].deleted}
UnfrozenItemsOf(s) ==  \* mutant: spares the rows that hold a revision
  {i \in ItemsOf(s) : queue[i].status \in Staged /\ ~queue[i].deleted /\ queue[i].revision = 0}
StagedItemsOf(s) == {i \in ItemsOf(s) : queue[i].status \in Staged /\ ~queue[i].deleted}
HasHistory(s) == \E i \in ItemsOf(s) : runs[i].status # "none"
OwnAssets(s) == {a \in Assets : HomeOf[a] = ProjectOf[s]}
PresentAssets == {a \in Assets : uploads[a] \in {"present", "archived"}}

\* The preflight: the parameters are consistent and a DEM is bound.
Valid(s) == scenarios[s].par \in ValidParams /\ scenarios[s].bind # {}

EditableWhenIdle(s) ==  \* mutant: forgets the run history
  scenarios[s].status # "absent" /\ ~scenarios[s].archived /\ \A i \in ItemsOf(s) : queue[i].status \notin Active

\* Only a scenario that never ran, is not running and is not archived is a draft.
Editable(s) ==
  /\ scenarios[s].status # "absent"
  /\ ~scenarios[s].archived
  /\ ~HasHistory(s)
  /\ \A i \in ItemsOf(s) : queue[i].status \notin Active

AlreadyStaged(s) == StagedItemsOf(s) # {}  \* mutant: overlooks the active row
AlreadyQueued(s) == LiveItemsOf(s) # {}

RemovableOnceStarted(i) == ~queue[i].deleted /\ queue[i].status # "running"  \* mutant
Removable(i) == ~queue[i].deleted /\ queue[i].status \notin Active

LockedWhileRunning(A) ==  \* mutant
  \E i \in Items : runs[i].status = "running" /\ revisions[runs[i].revision].bind \cap A # {}
RuntimeLocked(A) ==
  \E i \in Items : runs[i].status \in Active /\ revisions[runs[i].revision].bind \cap A # {}

\* The draft bindings that a deletion of the assets A leaves.
Detached(s, A) == scenarios[s].bind \ A

\* What the scenario would run now: its frozen inputs if it has some, else
\* the draft bindings (_public_scenario, "input_bindings").
Bindings(s) ==
  IF scenarios[s].revision # 0 THEN revisions[scenarios[s].revision].bind ELSE scenarios[s].bind

Fresh(i) == queue[i].status = "absent" /\ \A j \in Items : j < i => queue[j].status # "absent"

NextOrderByCount(p) == 1 + Cardinality(Waiting(p))  \* mutant
NextOrder(p) == 1 + Max({0} \cup {queue[i].order : i \in Waiting(p)})

\* 1-based place of a waiting row in "ORDER BY queue_order" among the rows W.
Rank(i, W) == Cardinality({j \in W : queue[j].order <= queue[i].order})

\* The next queued row of a project: "ORDER BY queue_order, enqueued_at".
IsHead(i, p) ==
  /\ i \in Queued(p)
  /\ \A j \in Queued(p) :
       \/ queue[i].order < queue[j].order
       \/ queue[i].order = queue[j].order /\ i <= j

-----------------------------------------------------------------------------
\* Row updates

WithStatus(I, st) == [i \in Items |-> IF i \in I THEN [queue[i] EXCEPT !.status = st] ELSE queue[i]]

Cancelled(I, why) ==
  [i \in Items |-> IF i \in I THEN [queue[i] EXCEPT !.status = "cancelled", !.reason = why] ELSE queue[i]]

RunStatusOnly(s, q) ==  \* mutant: no COALESCE for a row without a run
  LET ended == {i \in Items : q[i].scenario = s /\ q[i].status \in Terminal}
  IN  IF ended # {} THEN runs[Max(ended)].status ELSE "draft"

\* _restore_scenario_status_connection over the queue rows q: the status of
\* the active row, else of the staged row, else of the last ended row that
\* is visible or has a run (its run's status first), else ready or draft.
RestoredStatus(s, q) ==
  LET rows == {i \in Items : q[i].scenario = s}
      active == {i \in rows : q[i].status \in Active /\ ~q[i].deleted}
      staged == {i \in rows : q[i].status \in Staged /\ ~q[i].deleted}
      ended == {i \in rows : q[i].status \in Terminal /\ (~q[i].deleted \/ runs[i].status # "none")}
  IN  CASE active # {} -> q[Max(active)].status
        [] active = {} /\ staged # {} -> q[Max(staged)].status
        [] active = {} /\ staged = {} /\ ended # {} ->
             IF runs[Max(ended)].status # "none" THEN runs[Max(ended)].status ELSE q[Max(ended)].status
        [] OTHER -> IF scenarios[s].revision # 0 THEN "ready" ELSE "draft"

NotRestored(S, q) == scenarios  \* mutant
Restored(S, q) ==
  [s \in Scenarios |-> IF s \in S THEN [scenarios[s] EXCEPT !.status = RestoredStatus(s, q)] ELSE scenarios[s]]

-----------------------------------------------------------------------------
\* Uploads and scenarios

IngestUpload(a) ==
  /\ uploads[a] = "absent"
  /\ uploads' = [uploads EXCEPT ![a] = "present"]
  /\ UNCHANGED <<queue, runs, scenarios, revisions, asked>>

\* An archived asset is only hidden from the lists; a binding still finds it.
ArchiveAsset(a) ==
  /\ a \in PresentAssets
  /\ uploads' = [uploads EXCEPT ![a] = "archived"]
  /\ UNCHANGED <<queue, runs, scenarios, revisions, asked>>

NewScenario(par, bind, rev, version) ==
  [status |-> IF rev # 0 THEN "ready" ELSE "draft", archived |-> FALSE,
   version |-> version, revision |-> rev, par |-> par, bind |-> bind]

\* A new scenario starts unbound, or on a ready revision of its project.
CreateScenario(s, par, rev) ==
  /\ scenarios[s].status = "absent"
  /\ rev # 0 => revisions[rev].status = "ready" /\ revisions[rev].bind \subseteq OwnAssets(s)
  /\ scenarios' = [scenarios EXCEPT ![s] = NewScenario(par, {}, rev, 1)]
  /\ UNCHANGED <<queue, runs, uploads, revisions, asked>>

RebindableBlindly(s) == Bindings(s) # {}  \* mutant: does not look the uploads up
Rebindable(s) == Bindings(s) # {} /\ Bindings(s) \subseteq PresentAssets

\* Create a copy, then bind it like its source.  If an input of the source
\* is gone the second half fails and the unbound copy remains.
DuplicateScenario(s, t) ==
  /\ scenarios[s].status # "absent"
  /\ scenarios[t].status = "absent"
  /\ ProjectOf[s] = ProjectOf[t]
  /\ scenarios' = [scenarios EXCEPT ![t] =
       IF Rebindable(s)
       THEN NewScenario(scenarios[s].par, Bindings(s), 0, 2)
       ELSE NewScenario(scenarios[s].par, {}, 0, 1)]
  /\ UNCHANGED <<queue, runs, uploads, revisions, asked>>

\* Save a draft.  A run, an active row or the archive flag makes it read-only.
\* A save that changes nothing still takes a new version.
UpdateScenario(s, par, bind) ==
  LET old == IF scenarios[s].bind # {} THEN scenarios[s].bind ELSE Bindings(s)
      changed == bind # old \/ par # scenarios[s].par \/ scenarios[s].revision # 0
  IN  /\ Editable(s)
      /\ bind \subseteq OwnAssets(s) \cap PresentAssets
      /\ scenarios[s].version < MaxVersion
      /\ scenarios' = [scenarios EXCEPT ![s] = NewScenario(par, bind, 0, scenarios[s].version + 1)]
      /\ queue' = IF changed THEN Cancelled(StagedItemsOf(s), "draft_changed") ELSE queue
      /\ UNCHANGED <<runs, uploads, revisions, asked>>

\* Archiving looks at neither the queue nor the runs.
ArchiveScenario(s) ==
  /\ scenarios[s].status # "absent"
  /\ scenarios' = [scenarios EXCEPT ![s].archived = TRUE, ![s].status = "archived"]
  /\ UNCHANGED <<queue, runs, uploads, revisions, asked>>

NoScenario == [status |-> "absent", archived |-> FALSE, version |-> 0, revision |-> 0,
               par |-> CHOOSE p \in Params : TRUE, bind |-> {}]

DeleteScenario(s) ==
  /\ scenarios[s].status # "absent"
  /\ ItemsOf(s) = {}
  /\ scenarios' = [scenarios EXCEPT ![s] = NoScenario]
  /\ UNCHANGED <<queue, runs, uploads, revisions, asked>>

\* Delete inputs: refused while a running simulation was frozen on one of
\* them; staged rows of the scenarios whose draft binds one are cancelled.
BatchDeleteAssets(A) ==
  LET affected == {s \in Scenarios : scenarios[s].bind \cap A # {}}
      redraft == {s \in affected : /\ ~scenarios[s].archived
                                   /\ scenarios[s].status \in {"draft", "ready", "queued", "waiting"}}
  IN  /\ A # {} /\ \A a \in A : uploads[a] = "present"
      /\ \A a, b \in A : HomeOf[a] = HomeOf[b]
      /\ ~RuntimeLocked(A)
      /\ queue' = Cancelled(UNION {StagedItemsOf(s) : s \in affected}, "asset_deleted")
      /\ scenarios' = [s \in Scenarios |->
           IF s \in redraft
           THEN [scenarios[s] EXCEPT !.bind = Detached(s, A), !.status = "draft", !.version = @ + 1]
           ELSE [scenarios[s] EXCEPT !.bind = Detached(s, A)]]
      /\ uploads' = [a \in Assets |-> IF a \in A THEN "deleted" ELSE uploads[a]]
      /\ UNCHANGED <<runs, revisions, asked>>

\* Freeze a revision on request; it is invalid if a blob cannot be read.
CreateInputRevision(r, bind, ok) ==
  /\ r > MaxItems
  /\ \A q \in Revisions : revisions[q].status = "none" => q <= MaxItems \/ r <= q
  /\ revisions[r].status = "none"
  /\ bind # {} /\ bind \subseteq PresentAssets
  /\ \A a, b \in bind : HomeOf[a] = HomeOf[b]
  /\ revisions' = [revisions EXCEPT ![r] = [status |-> IF ok THEN "ready" ELSE "invalid", bind |-> bind]]
  /\ UNCHANGED <<queue, runs, scenarios, uploads, asked>>

\* Re-read the blobs of a revision and store the verdict.
ValidateInputRevision(r, ok) ==
  /\ revisions[r].status # "none"
  /\ revisions' = [revisions EXCEPT ![r].status = IF ok THEN "ready" ELSE "invalid"]
  /\ UNCHANGED <<queue, runs, scenarios, uploads, asked>>

-----------------------------------------------------------------------------
\* The queue

\* Stage a scenario.  Its frozen inputs (or the snapshot a retry brings) are
\* taken as they are; a draft is only preflighted, and frozen by the claim.
EnqueueScenario(i, s, snapshot) ==
  LET frozen == IF snapshot # 0 THEN snapshot ELSE scenarios[s].revision
  IN  /\ scenarios[s].status \notin {"absent", "archived"}
      /\ IF frozen # 0 THEN revisions[frozen].status = "ready" ELSE Valid(s)
      /\ ~AlreadyQueued(s)
      /\ Fresh(i)
      /\ queue' = [queue EXCEPT ![i] =
           [status |-> "waiting", scenario |-> s, version |-> scenarios[s].version,
            revision |-> frozen, order |-> NextOrder(ProjectOf[s]), deleted |-> FALSE, reason |-> ""]]
      /\ scenarios' = [scenarios EXCEPT ![s].status = "waiting"]
      /\ asked' = [asked EXCEPT ![i] =
           [par |-> scenarios[s].par,
            bind |-> IF frozen # 0 THEN revisions[frozen].bind ELSE scenarios[s].bind]]
      /\ UNCHANGED <<runs, uploads, revisions>>

\* A retry stages the scenario again on the snapshot of the old row.
RetryQueueItem(i, old) ==
  /\ queue[old].status \in Retryable
  /\ EnqueueScenario(i, queue[old].scenario, queue[old].revision)

\* Release the waiting rows as one batch; they keep their queue_order.
StartQueueBatch(p) ==
  /\ Waiting(p) # {}
  /\ queue' = WithStatus(Waiting(p), "queued")
  /\ scenarios' = [s \in Scenarios |->
       IF \E i \in Waiting(p) : queue[i].scenario = s
       THEN [scenarios[s] EXCEPT !.status = "queued"] ELSE scenarios[s]]
  /\ UNCHANGED <<runs, uploads, revisions, asked>>

\* Move a waiting row to place k of the waiting list and renumber the list.
ReorderQueue(i, k, p) ==
  LET others == Waiting(p) \ {i}
  IN  /\ i \in Waiting(p)
      /\ \A j \in Items : InProject(j, p) /\ ~queue[j].deleted =>
           queue[j].status \notin {"queued"} \cup Active
      /\ k \in 1 .. Cardinality(Waiting(p))
      /\ queue' = [j \in Items |->
           IF j = i THEN [queue[j] EXCEPT !.order = k]
           ELSE IF j \in others
                THEN [queue[j] EXCEPT !.order = Rank(j, others) + (IF Rank(j, others) < k THEN 0 ELSE 1)]
                ELSE queue[j]]
      /\ UNCHANGED <<runs, scenarios, uploads, revisions, asked>>

CancelQueueItem(i) ==
  /\ queue[i].status \in Staged
  /\ ~queue[i].deleted
  /\ queue' = WithStatus({i}, "cancelled")
  /\ scenarios' = Restored({queue[i].scenario}, queue')
  /\ UNCHANGED <<runs, uploads, revisions, asked>>

\* Soft-delete inactive rows, cancel the staged ones among them, restore the
\* statuses of their scenarios and renumber the waiting rows.
BatchDeleteQueueItems(D, p) ==
  LET kept == Waiting(p) \ D
  IN  /\ D # {}
      /\ \A i \in D : InProject(i, p) /\ Removable(i)
      /\ queue' = [i \in Items |->
           IF i \in D
           THEN IF queue[i].status \in Staged
                THEN [queue[i] EXCEPT !.deleted = TRUE, !.status = "cancelled", !.reason = "queue_deleted"]
                ELSE [queue[i] EXCEPT !.deleted = TRUE]
           ELSE IF i \in kept THEN [queue[i] EXCEPT !.order = Rank(i, kept)] ELSE queue[i]]
      /\ scenarios' = Restored({queue[i].scenario : i \in D}, queue')
      /\ UNCHANGED <<runs, uploads, revisions, asked>>

-----------------------------------------------------------------------------
\* The scheduler's calls

\* The claim hands a queued row to the runtime on snapshot rev.
ClaimStarts(i, rev) ==
  LET s == queue[i].scenario
  IN  /\ queue' = [queue EXCEPT ![i].status = "starting", ![i].revision = rev]
      /\ runs' = [runs EXCEPT ![i] = [status |-> "starting", revision |-> rev, par |-> scenarios[s].par]]
      /\ scenarios' = [scenarios EXCEPT ![s].revision = rev, ![s].status = "running"]
      /\ UNCHANGED <<uploads, asked>>

\* The claim refuses the row: it is cancelled and its scenario is a draft.
ClaimRefused(i, why) ==
  /\ queue' = Cancelled({i}, why)
  /\ scenarios' = [scenarios EXCEPT ![queue[i].scenario].status = "draft"]
  /\ UNCHANGED <<runs, uploads, asked>>

\* claim_queue_item: a frozen row needs its revision to be ready; a draft row
\* needs the version it was queued with and a valid draft, which is frozen
\* as revision i after its blobs were read (an invalid one is kept too).
ClaimFrozen(i) ==
  /\ queue[i].status = "queued"
  /\ queue[i].revision # 0
  /\ IF revisions[queue[i].revision].status = "ready"
     THEN ClaimStarts(i, queue[i].revision)
     ELSE ClaimRefused(i, "preflight_failed")
  /\ UNCHANGED revisions

ClaimStale(i) ==
  /\ queue[i].status = "queued"
  /\ queue[i].revision = 0
  /\ LET stale == queue[i].version # scenarios[queue[i].scenario].version
     IN  /\ stale \/ ~Valid(queue[i].scenario)
         /\ ClaimRefused(i, IF stale THEN "draft_changed" ELSE "preflight_failed")
  /\ UNCHANGED revisions

ClaimDraft(i, ok) ==
  /\ queue[i].status = "queued"
  /\ queue[i].revision = 0
  /\ queue[i].version = scenarios[queue[i].scenario].version
  /\ Valid(queue[i].scenario)
  /\ revisions' = [revisions EXCEPT ![i] =
       [status |-> IF ok THEN "ready" ELSE "invalid", bind |-> scenarios[queue[i].scenario].bind]]
  /\ IF ok THEN ClaimStarts(i, i) ELSE ClaimRefused(i, "preflight_failed")

ClaimQueueItem(i) == ClaimFrozen(i) \/ ClaimStale(i) \/ \E ok \in BlobChecks : ClaimDraft(i, ok)

UpdateRunGuarded(i, st) ==  \* mutant: copied only while the row is active
  /\ runs' = [runs EXCEPT ![i].status = st]
  /\ queue' = IF st \in Active /\ queue[i].status \in Active THEN [queue EXCEPT ![i].status = st] ELSE queue
  /\ UNCHANGED <<scenarios, uploads, revisions, asked>>

\* Write a run status; an active one is copied to the queue row unguarded.
UpdateRun(i, st) ==
  /\ runs' = [runs EXCEPT ![i].status = st]
  /\ queue' = IF st \in Active THEN [queue EXCEPT ![i].status = st] ELSE queue
  /\ UNCHANGED <<scenarios, uploads, revisions, asked>>

FinishRun(i, st) ==
  /\ runs' = [runs EXCEPT ![i].status = st]
  /\ queue' = [queue EXCEPT ![i].status = st]
  /\ scenarios' = [scenarios EXCEPT ![queue[i].scenario].status = st]
  /\ UNCHANGED <<uploads, revisions, asked>>

RecoverRunning(P) ==  \* mutant
  LET lost == {i \in Items : queue[i].status = "running" /\ \E p \in P : InProject(i, p)}
  IN  /\ queue' = WithStatus(lost, "interrupted")
      /\ runs' = [i \in Items |-> IF i \in lost THEN [runs[i] EXCEPT !.status = "interrupted"] ELSE runs[i]]
      /\ UNCHANGED <<scenarios, uploads, revisions, asked>>

\* Service start: every active row of the available projects P was interrupted.
RecoverInterruptedRuns(P) ==
  LET lost == {i \in Items : queue[i].status \in Active /\ \E p \in P : InProject(i, p)}
  IN  /\ queue' = WithStatus(lost, "interrupted")
      /\ runs' = [i \in Items |->
           IF i \in lost /\ runs[i].status # "none"
           THEN [runs[i] EXCEPT !.status = "interrupted"] ELSE runs[i]]
      /\ scenarios' = [s \in Scenarios |->
           IF \E i \in lost : queue[i].scenario = s
           THEN [scenarios[s] EXCEPT !.status = "stopped"] ELSE scenarios[s]]
      /\ UNCHANGED <<uploads, revisions, asked>>

-----------------------------------------------------------------------------
NoRow == [status |-> "absent", scenario |-> None, version |-> 0, revision |-> 0,
          order |-> 0, deleted |-> FALSE, reason |-> ""]

\* Seeded scenarios were created and then saved once with every input bound.
StoreInit ==
  /\ queue = [i \in Items |-> NoRow]
  /\ runs = [i \in Items |-> [status |-> "none", revision |-> 0, par |-> CHOOSE p \in Params : TRUE]]
  /\ uploads = [a \in Assets |-> IF \E s \in Seeded : HomeOf[a] = ProjectOf[s] THEN "present" ELSE "absent"]
  /\ \E par \in [Seeded -> ValidParams] :
       scenarios = [s \in Scenarios |->
         IF s \in Seeded THEN NewScenario(par[s], OwnAssets(s), 0, 2) ELSE NoScenario]
  /\ revisions = [r \in Revisions |-> [status |-> "none", bind |-> {}]]
  /\ asked = [i \in Items |-> [par |-> CHOOSE p \in Params : TRUE, bind |-> {}]]

\* The requests of the HTTP API.
DraftRequest ==
  \/ \E a \in Assets : IngestUpload(a)
  \/ \E s \in Scenarios, par \in Params, rev \in {0} \cup Revisions : CreateScenario(s, par, rev)
  \/ \E a \in Assets : ArchiveAsset(a)
  \/ \E s, t \in Scenarios : DuplicateScenario(s, t)
  \/ \E s \in Scenarios, par \in Params, bind \in SUBSET Assets : UpdateScenario(s, par, bind)
  \/ \E s \in Scenarios : ArchiveScenario(s)
  \/ \E s \in Scenarios : DeleteScenario(s)
  \/ \E A \in SUBSET Assets : BatchDeleteAssets(A)
  \/ \E r \in Revisions, bind \in SUBSET Assets, ok \in BlobChecks : CreateInputRevision(r, bind, ok)
  \/ \E r \in Revisions, ok \in BlobChecks : ValidateInputRevision(r, ok)

QueueRequest ==
  \/ \E i \in Items, s \in Scenarios : EnqueueScenario(i, s, 0)
  \/ \E i, old \in Items : RetryQueueItem(i, old)
  \/ \E p \in Projects : StartQueueBatch(p)
  \/ \E i, k \in Items, p \in Projects : ReorderQueue(i, k, p)
  \/ \E i \in Items : CancelQueueItem(i)
  \/ \E p \in Projects, D \in SUBSET Items : BatchDeleteQueueItems(D, p)

\* The runtime as the store may assume it: it claims the head of a project
\* that has no active row, and reports on a run until it finishes it.
RuntimeCall ==
  \/ \E p \in Projects, i \in Items :
       /\ IsHead(i, p)
       /\ \A j \in Items : InProject(j, p) => queue[j].status \notin Active
       /\ ClaimQueueItem(i)
  \/ \E i \in Items, st \in Active \cup Outcomes : queue[i].status \in Active /\ UpdateRun(i, st)
  \/ \E i \in Items, st \in Outcomes \cup {"interrupted"} : queue[i].status \in Active /\ FinishRun(i, st)
  \/ \E P \in SUBSET Projects : RecoverInterruptedRuns(P)

StoreNext == DraftRequest \/ QueueRequest \/ RuntimeCall

StoreSpec == StoreInit /\ [][StoreNext]_storeVars

-----------------------------------------------------------------------------
\* Properties

\* How far the request of a row got.
PhaseOf(st) ==
  CASE st = "absent" -> "absent"
    [] st = "waiting" -> "staged"
    [] st = "queued" -> "released"
    [] st \in Active -> "active"
    [] st \in Terminal -> "ended"

Lifecycle == INSTANCE RunLifecycle WITH
  Requests <- Items,
  phase <- [i \in Items |-> PhaseOf(queue[i].status)],
  subject <- [i \in Items |-> queue[i].scenario]

\* The tables implement the life of a request: no handler skips a state, goes
\* back or restages a row, and none lets a scenario or a project run twice.
LifecycleSpec == Lifecycle!Spec

\* At most one row of a scenario is waiting, queued or active, whatever the
\* order of enqueues, retries, saves, claims and deletions: the duplicate
\* check of enqueue_scenario is the only thing that keeps a scenario from
\* being simulated twice at once in one output directory.
OneLiveItemPerScenario == \A s \in Scenarios : \A i, j \in LiveItemsOf(s) : i = j

\* A row removed from the queue has no work left: nothing that is staged or
\* still reports to the database is hidden from the queue and the scheduler.
DeletedIsTerminal == \A i \in Items : queue[i].deleted => queue[i].status \in Terminal

\* The waiting rows of a project have distinct places, although enqueues,
\* cancellations, reorders and removals number them in four different ways.
WaitingOrdersDistinct ==
  \A p \in Projects : \A i, j \in Waiting(p) : queue[i].order = queue[j].order => i = j

\* No draft, archived ones included, is bound to an upload that is gone.
DraftBindingsExist == \A s \in Scenarios : scenarios[s].bind \subseteq PresentAssets

\* A run uses the parameters and the inputs its scenario had when it was
\* queued: whatever is saved, deleted or revalidated while the row waits
\* either cancels it or leaves it as it was asked for.
RunsWhatWasQueued ==
  \A i \in Items : runs[i].status # "none" =>
    /\ runs[i].par = asked[i].par
    /\ revisions[runs[i].revision].bind = asked[i].bind

\* Once a scenario ran, its parameters are those of every run it has.
ParametersFixedByRun ==
  \A i \in Items : runs[i].status # "none" => scenarios[queue[i].scenario].par = runs[i].par

\* A scenario that is shown as staged or running has a row that is, in the
\* same state if it is staged; the status column is written by ten handlers.
\* (An archived scenario is left out: see ArchivedNotQueued.)
ShownStatusIsReal ==
  \A s \in Scenarios : ~scenarios[s].archived =>
    /\ scenarios[s].status \in Staged => \E i \in LiveItemsOf(s) : queue[i].status = scenarios[s].status
    /\ scenarios[s].status \in Active => \E i \in LiveItemsOf(s) : queue[i].status \in Active

\* Recovery looks at queue rows only, and it finds every run that is marked
\* active: no run can keep its inputs locked after the next restart.
RecoverableRuns == \A i \in Items : runs[i].status \in Active => queue[i].status \in Active

\* "Starting a queue freezes that batch order": the next row to run stays
\* the next one until it is claimed or withdrawn.
BatchOrderFrozen ==
  [][\A p \in Projects, i \in Items :
       IsHead(i, p) /\ queue'[i].status = "queued" /\ ~queue'[i].deleted => IsHead(i, p)']_storeVars

\* "Archived scenarios cannot be queued."
ArchivedNotQueued ==
  [][\A i \in Items :
       queue[i].status = "absent" /\ queue'[i].status = "waiting" =>
         ~scenarios[queue'[i].scenario].archived]_storeVars

\* "Scenarios become immutable after completion/archive or any run history":
\* the runs of one scenario all have the same inputs.
SameInputsEveryRun ==
  \A i, j \in Items :
    runs[i].status # "none" /\ runs[j].status # "none" /\ queue[i].scenario = queue[j].scenario =>
      revisions[runs[i].revision].bind = revisions[runs[j].revision].bind
=============================================================================
