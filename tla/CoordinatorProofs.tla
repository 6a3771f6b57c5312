-------------------------- MODULE CoordinatorProofs --------------------------
(***************************************************************************)
(* The scheduler owns what runs: the jobs, the worker threads and the      *)
(* active rows fit together after every step of the event loop, of a       *)
(* worker and of the process, whatever goes wrong.                         *)
(***************************************************************************)
EXTENDS Coordinator, ScenarioProofs

Alive == {i \in Items : thread[i] # "none"}

\* A job is an active row of its project, and its worker is alive.
JobsRun ==
  \A p \in Projects : jobs[p] # 0 =>
    /\ queue[jobs[p]].status \in Active
    /\ Project(jobs[p]) = p
    /\ thread[jobs[p]] # "none"

\* A worker runs a row that started, and outlives its job in a shutdown only.
WorkersOwned ==
  \A i \in Alive :
    /\ queue[i].status \in Active \cup RunEnd
    /\ ~queue[i].deleted
    /\ proc = "stopping" \/ \E p \in Projects : Owns(p, i)

\* A dispatch pass looks at heads of projects without a job.
TodoHeads == \A i \in todo : Project(i) \notin Owned /\ IsHead(i, Project(i))

\* What is going on in each phase of the process and of the event loop.
Phases ==
  /\ proc = "down" => Alive = {} /\ \A p \in Projects : jobs[p] = 0
  /\ proc # "up" => todo = {} /\ hold = 0
  /\ hold # 0 => todo = {}

\* While the service is up the run of a worker that still computes is active.
RunsMarked ==
  proc = "up" => \A i \in Items : thread[i] \in {"task"} \cup Working => runs[i].status \in Active

OwnerInv ==
  /\ StoreInv
  /\ CoordinatorTypeOK
  /\ JobsRun
  /\ WorkersOwned
  /\ TodoHeads
  /\ Phases
  /\ RunsMarked
  /\ AdmissionGate

\* A row that ended stays as it ended while the service is up.
TerminalKept ==
  proc = "up" => \A i \in Items : queue[i].status \in Terminal => queue'[i].status = queue[i].status

-----------------------------------------------------------------------------
(* Consequences of the invariant.                                          *)

\* The states of rows and workers are told apart by their names.
LEMMA StatesDiffer ==
  /\ Active \cap Staged = {} /\ Active \cap Terminal = {} /\ Staged \cap Terminal = {}
  /\ RunEnd \subseteq Terminal /\ Results \subseteq RunEnd
  /\ "none" \notin {"task"} \cup Working \cup Results /\ ({"task"} \cup Working) \cap Results = {}
BY DEF Active, Staged, Terminal, RunEnd, Results, Working, InSession

\* A project has one head at most.
LEMMA HeadsAgree ==
  ASSUME StoreTypeOK, NEW p, NEW i, NEW j, IsHead(i, p), IsHead(j, p)
  PROVE  i = j
<1>1. i \in Queued(p) /\ j \in Queued(p) /\ i \in Int /\ j \in Int
  BY StoreAssumption DEF IsHead, Queued, Items
<1>2. queue[i].order \in Nat /\ queue[j].order \in Nat
  BY <1>1 DEF Queued, StoreTypeOK, QueueRow
<1> QED BY <1>1, <1>2 DEF IsHead

\* The first candidate of a pass is one of them.
LEMMA FirstCandidate ==
  ASSUME NEW S \in SUBSET Items, S # {}
  PROVE  Min(S) \in S
<1> DEFINE Less == {ss \in Nat \X Nat : ss[1] < ss[2]}
<1>1. S \subseteq Nat
  BY StoreAssumption DEF Items
<1>2. \E x \in S : \A y \in S : ~(<<y, x>> \in Less)
  <2>1. IsWellFoundedOn(Less, Nat)
    BY NatOrder
  <2> HIDE DEF Less
  <2> QED BY <1>1, <2>1, WFMin
<1>3. PICK x \in S : \A y \in S : ~(<<y, x>> \in Less)
  BY <1>2
<1>4. ASSUME NEW y \in S PROVE x <= y
  <2>1. x \in Nat /\ y \in Nat
    BY <1>1
  <2>2. ~(<<y, x>> \in Less)
    BY <1>3
  <2> QED BY <2>1, <2>2
<1> QED BY <1>4 DEF Min

\* Jobs are items, and their rows belong to scenarios of their projects.
LEMMA JobFacts ==
  ASSUME OwnerInv, NEW p \in Projects, jobs[p] # 0
  PROVE  /\ jobs[p] \in Alive /\ queue[jobs[p]].status \in Active /\ ~queue[jobs[p]].deleted
         /\ queue[jobs[p]].scenario \in Scenarios /\ Project(jobs[p]) = p
<1>1. jobs[p] \in Items
  BY DEF OwnerInv, CoordinatorTypeOK
<1>2. jobs[p] \in Alive /\ queue[jobs[p]].status \in Active /\ Project(jobs[p]) = p
  BY <1>1 DEF OwnerInv, JobsRun, Alive
<1> QED BY <1>1, <1>2, RowType DEF OwnerInv, WorkersOwned, StoreInv, Rows, Active

\* The row of a worker started, and its scenario exists.
LEMMA WorkerFacts ==
  ASSUME OwnerInv, NEW i \in Alive
  PROVE  /\ i \in Items /\ queue[i].status \in Active \cup RunEnd /\ ~queue[i].deleted
         /\ queue[i].scenario \in Scenarios /\ i \notin todo
         /\ proc = "up" => queue[i].status \in Active
<1>1. i \in Items /\ queue[i].status \in Active \cup RunEnd /\ ~queue[i].deleted
  BY DEF OwnerInv, WorkersOwned, Alive
<1>2. queue[i].scenario \in Scenarios
  BY <1>1, RowType DEF OwnerInv, StoreInv, Rows, Active, RunEnd
<1>3. i \notin todo
  BY <1>1 DEF OwnerInv, CoordinatorTypeOK, Active, RunEnd
<1>4. proc = "up" => queue[i].status \in Active
  BY JobFacts DEF OwnerInv, WorkersOwned, Owns
<1> QED BY <1>1, <1>2, <1>3, <1>4

-----------------------------------------------------------------------------
(* What keeps the parts of the invariant.                                  *)

\* A row of a worker may be reported on, and ended once its job is gone.
RowSettles(j) ==
  /\ queue'[j].scenario = queue[j].scenario
  /\ queue'[j].deleted = queue[j].deleted
  /\ \/ queue'[j].status = queue[j].status
     \/ queue'[j].status \in Active
     \/ queue'[j].status \in RunEnd /\ \A p \in Projects : jobs'[p] # j

\* Workers that end leave the gate open.
LEMMA GateKept ==
  ASSUME AdmissionGate, Alive' \in SUBSET Alive, N \in Nat,
         \A j \in Alive : queue'[j].scenario = queue[j].scenario
  PROVE  AdmissionGate'
<1>1. IsFiniteSet(Alive)
  BY ItemsFinite, FS_Subset DEF Alive
<1>2. Cardinality(Alive') <= Cardinality(Alive) /\ Cardinality(Alive') \in Nat /\ Cardinality(Alive) \in Nat
  BY <1>1, FS_Subset, FS_CardinalityType
<1>3. Cardinality(Alive) <= N /\ \A i, j \in Alive : i # j =>
        Project(i) # Project(j) /\ Signature[queue[i].scenario] = Signature[queue[j].scenario]
  BY DEF AdmissionGate, Alive
<1>4. Cardinality(Alive') <= N
  BY <1>2, <1>3
<1>5. \A i, j \in Alive' : i # j =>
        ProjectOf[queue'[i].scenario] # ProjectOf[queue'[j].scenario]
        /\ Signature[queue'[i].scenario] = Signature[queue'[j].scenario]
  BY <1>3 DEF Project
<1> QED BY <1>4, <1>5 DEF AdmissionGate, Alive, Project

\* A step that begins no worker and hands out no job keeps the invariant if
\* it settles the rows of the workers.
LEMMA OwnersKept ==
  ASSUME OwnerInv, StoreInv', CoordinatorTypeOK', TodoHeads', Phases', RunsMarked',
         \A j \in Alive : RowSettles(j),
         Alive' \in SUBSET Alive,
         \A p \in Projects : jobs'[p] \in {0, jobs[p]},
         \A p \in Projects : jobs'[p] # 0 => jobs'[p] \in Alive',
         \A i \in Alive' : proc' = "stopping" \/ \E p \in Projects : jobs'[p] = i
  PROVE  OwnerInv'
<1>1. JobsRun'
  <2> SUFFICES ASSUME NEW p \in Projects, jobs'[p] # 0
               PROVE  /\ queue'[jobs'[p]].status \in Active
                      /\ ProjectOf[queue'[jobs'[p]].scenario] = p
                      /\ thread'[jobs'[p]] # "none"
    BY DEF JobsRun, Project
  <2>1. jobs'[p] = jobs[p] /\ jobs[p] # 0 /\ jobs[p] \in Alive /\ jobs[p] \in Alive'
    OBVIOUS
  <2>2. queue[jobs[p]].status \in Active /\ Project(jobs[p]) = p
    BY <2>1, JobFacts
  <2>3. RowSettles(jobs[p])
    BY <2>1
  <2>4. thread'[jobs[p]] # "none"
    BY <2>1 DEF Alive
  <2> QED BY <2>1, <2>2, <2>3, <2>4 DEF RowSettles, Project
<1>2. WorkersOwned'
  <2> SUFFICES ASSUME NEW i \in Alive'
               PROVE  /\ queue'[i].status \in Active \cup RunEnd
                      /\ ~queue'[i].deleted
                      /\ proc' = "stopping" \/ \E p \in Projects : jobs'[p] = i /\ i # 0
    BY DEF WorkersOwned, Owns
  <2>1. i \in Alive /\ RowSettles(i)
    OBVIOUS
  <2>2. queue[i].status \in Active \cup RunEnd /\ ~queue[i].deleted /\ i # 0
    BY <2>1, WorkerFacts, StoreAssumption DEF Items
  <2> QED BY <2>1, <2>2 DEF RowSettles
<1>3. AdmissionGate'
  BY GateKept, CoordinatorAssumption DEF OwnerInv, RowSettles
<1> QED BY <1>1, <1>2, <1>3 DEF OwnerInv

\* Candidates stay heads while only rows of workers change.
LEMMA TodoKept ==
  ASSUME OwnerInv, todo' \in SUBSET todo,
         \A p \in Projects : jobs'[p] \in {0, jobs[p]},
         \A j \in Items : /\ RowKept(j)
                          /\ queue'[j].status = queue[j].status \/ (j \in Alive /\ queue'[j].status # "queued")
  PROVE  TodoHeads' /\ \A i \in todo' : i \in Items /\ queue'[i].status = "queued"
<1>1. \A j \in Items : queue'[j].status = "queued" <=> queue[j].status = "queued"
  BY WorkerFacts DEF Active, RunEnd
<1>2. \A p : Queued(p)' = Queued(p)
  BY <1>1 DEF Queued, InProject, RowKept
<1>3. \A i \in todo : i \in Items /\ queue[i].status = "queued"
  BY DEF OwnerInv, CoordinatorTypeOK
<1>4. ASSUME NEW i \in todo' PROVE Project(i)' \notin Owned' /\ IsHead(i, Project(i))'
  <2>1. i \in todo /\ i \in Items
    BY <1>3
  <2> PICK p : p = Project(i)
    OBVIOUS
  <2>2. p \notin Owned /\ IsHead(i, p)
    BY <2>1 DEF OwnerInv, TodoHeads
  <2>3. Project(i)' = p
    BY <2>1 DEF Project, RowKept
  <2>4. p \notin Owned'
    BY <2>2 DEF Owned
  <2>5. \A j \in Queued(p) : queue'[j].order = queue[j].order
    BY DEF Queued, RowKept
  <2>6. Queued(p)' = Queued(p)
    BY <1>2
  <2>7. i \in Queued(p)' /\ \A j \in Queued(p)' :
          queue'[i].order < queue'[j].order \/ (queue'[i].order = queue'[j].order /\ i <= j)
    BY <2>2, <2>5, <2>6 DEF IsHead
  <2>8. IsHead(i, Project(i))'
    BY <2>3, <2>7 DEF IsHead
  <2> QED BY <2>3, <2>4, <2>8
<1> QED BY <1>1, <1>3, <1>4 DEF TodoHeads

-----------------------------------------------------------------------------
(* What the calls to the store do to the rows.                             *)

\* A report of a run that started, the late report of a cut-off worker
\* included, is copied to the row when it is an active status.
LEMMA ReportFacts ==
  ASSUME StoreInv, NEW i \in Items, queue[i].status \in Active \cup RunEnd, ~queue[i].deleted,
         NEW st \in Active \cup RunEnd, UpdateRun(i, st)
  PROVE  /\ StoreInv'
         /\ Marks(IF st \in Active THEN {i} ELSE {}, st)
         /\ runs'[i].status = st /\ \A j \in Items \ {i} : runs'[j].status = runs[j].status
<1> StoreTypeOK
  BY DEF StoreInv
<1>1. StoreTypeOK'
  <2>1. [runs[i] EXCEPT !.status = st] \in RunRow
    BY DEF StoreTypeOK, RunRow
  <2>2. st \in Active => [queue[i] EXCEPT !.status = st] \in QueueRow
    BY DEF StoreTypeOK, QueueRow, Live
  <2> QED BY <2>1, <2>2 DEF UpdateRun, StoreTypeOK
<1>2. Marks(IF st \in Active THEN {i} ELSE {}, st)
  <2>1. CASE st \in Active
    <3>1. queue' = [queue EXCEPT ![i].status = st]
      BY <2>1 DEF UpdateRun
    <3> QED BY <2>1, <3>1, ExceptMarks
  <2>2. CASE st \notin Active
    BY <2>2, SameMarks DEF UpdateRun
  <2> QED BY <2>1, <2>2
<1>3. runs'[i].status = st /\ \A j \in Items \ {i} : runs'[j].status = runs[j].status
  <2>1. runs[i] \in RunRow /\ runs' = [runs EXCEPT ![i].status = st]
    BY DEF StoreTypeOK, UpdateRun
  <2> QED BY <2>1 DEF StoreTypeOK, RunRow
<1>4. \A j \in Items : /\ queue'[j].scenario = queue[j].scenario /\ queue'[j].deleted = queue[j].deleted
                       /\ queue'[j].status = IF j = i /\ st \in Active THEN st ELSE queue[j].status
  BY <1>2 DEF Marks, RowKept
<1>5. RowsNamed'
  BY <1>4 DEF StoreInv, Rows, RowsNamed, Active, RunEnd
<1>6. DeletedIsTerminal'
  BY <1>4 DEF StoreInv, Rows, DeletedIsTerminal
<1>7. RecoverableRuns'
  BY <1>3, <1>4 DEF StoreInv, Rows, RecoverableRuns
<1> QED BY <1>1, <1>2, <1>3, <1>5, <1>6, <1>7 DEF StoreInv, Rows

\* The end of a run ends its row.
LEMMA EndFacts ==
  ASSUME StoreInv, NEW i \in Items, queue[i].status \in Active, NEW st \in RunEnd, FinishRun(i, st)
  PROVE  /\ StoreInv'
         /\ Marks({i}, st)
         /\ \A j \in Items \ {i} : runs'[j].status = runs[j].status
<1> StoreTypeOK
  BY DEF StoreInv
<1>1. StoreTypeOK'
  <2>1. [runs[i] EXCEPT !.status = st] \in RunRow
    BY DEF StoreTypeOK, RunRow
  <2>2. [queue[i] EXCEPT !.status = st] \in QueueRow
    BY DEF StoreTypeOK, QueueRow, Terminal
  <2>3. \A s \in Scenarios : [scenarios[s] EXCEPT !.status = st] \in ScenarioRow
    BY DEF StoreTypeOK, ScenarioRow, Terminal
  <2> QED BY <2>1, <2>2, <2>3 DEF FinishRun, StoreTypeOK
<1>2. Marks({i}, st)
  BY ExceptMarks DEF FinishRun
<1>3. runs'[i].status = st /\ \A j \in Items \ {i} : runs'[j].status = runs[j].status
  <2>1. runs[i] \in RunRow /\ runs' = [runs EXCEPT ![i].status = st]
    BY DEF StoreTypeOK, FinishRun
  <2> QED BY <2>1 DEF StoreTypeOK, RunRow
<1>4. \A j \in Items : /\ queue'[j].scenario = queue[j].scenario /\ queue'[j].deleted = queue[j].deleted
                       /\ queue'[j].status = IF j = i THEN st ELSE queue[j].status
  BY <1>2 DEF Marks, RowKept
<1>5. RowsNamed'
  BY <1>4 DEF StoreInv, Rows, RowsNamed, Active, RunEnd
<1>6. DeletedIsTerminal'
  BY <1>4 DEF StoreInv, Rows, DeletedIsTerminal, Terminal
<1>7. RecoverableRuns'
  BY <1>3, <1>4, StatesDiffer DEF StoreInv, Rows, RecoverableRuns
<1> QED BY <1>1, <1>2, <1>3, <1>5, <1>6, <1>7 DEF StoreInv, Rows

\* A claim starts or cancels the row, and touches no other.
LEMMA ClaimFacts ==
  ASSUME StoreInv, NEW i \in Items, ~queue[i].deleted, ClaimQueueItem(i)
  PROVE  /\ StoreInv' /\ queue[i].status = "queued"
         /\ queue'[i].scenario = queue[i].scenario /\ queue'[i].deleted = queue[i].deleted
         /\ queue'[i].status \in {"starting", "cancelled"}
         /\ queue'[i].status = "starting" => runs'[i].status = "starting"
         /\ \A j \in Items \ {i} : queue'[j] = queue[j] /\ runs'[j].status = runs[j].status
<1> StoreTypeOK
  BY DEF StoreInv
<1>1. queue[i].status = "queued"
  BY DEF ClaimQueueItem, ClaimFrozen, ClaimStale, ClaimDraft
<1> DEFINE Goal == /\ queue'[i].scenario = queue[i].scenario /\ queue'[i].deleted = queue[i].deleted
                   /\ queue'[i].status \in {"starting", "cancelled"}
                   /\ queue'[i].status = "starting" => runs'[i].status = "starting"
                   /\ \A j \in Items \ {i} : queue'[j] = queue[j] /\ runs'[j].status = runs[j].status
                   /\ RecoverableRuns'
<1>2. ASSUME NEW rev, ClaimStarts(i, rev) PROVE Goal
  <2>1. /\ queue'[i].status = "starting" /\ queue'[i].scenario = queue[i].scenario
        /\ queue'[i].deleted = queue[i].deleted /\ \A j \in Items \ {i} : queue'[j] = queue[j]
    BY <1>2, ClaimedRow
  <2>2. runs'[i].status = "starting" /\ \A j \in Items \ {i} : runs'[j] = runs[j]
    BY <1>2 DEF ClaimStarts, StoreTypeOK
  <2>3. RecoverableRuns'
    BY <2>1, <2>2 DEF StoreInv, Rows, RecoverableRuns, Active
  <2> QED BY <2>1, <2>2, <2>3
<1>3. ASSUME NEW why, ClaimRefused(i, why) PROVE Goal
  <2>1. queue' = Cancelled({i}, why) /\ UNCHANGED runs
    BY <1>3 DEF ClaimRefused
  <2>2. Marks({i}, "cancelled")
    BY <2>1, CancelledMarks
  <2>3. queue'[i].scenario = queue[i].scenario /\ queue'[i].deleted = queue[i].deleted /\ queue'[i].status = "cancelled"
    BY <2>2 DEF Marks, RowKept
  <2>4. \A j \in Items \ {i} : queue'[j] = queue[j]
    BY <2>1 DEF Cancelled
  <2>5. RecoverableRuns'
    BY <1>1, <2>1, <2>4 DEF StoreInv, Rows, RecoverableRuns, Active
  <2> QED BY <2>1, <2>3, <2>4, <2>5
<1> HIDE DEF Goal
<1>4. Goal
  BY <1>2, <1>3 DEF ClaimQueueItem, ClaimFrozen, ClaimStale, ClaimDraft
<1> USE DEF Goal
<1>5. StoreTypeOK'
  BY ClaimType DEF StoreInv, Rows
<1>6. RowsNamed'
  BY <1>1, <1>4 DEF StoreInv, Rows, RowsNamed
<1>7. DeletedIsTerminal'
  BY <1>1, <1>4 DEF StoreInv, Rows, DeletedIsTerminal
<1> QED BY <1>1, <1>4, <1>5, <1>6, <1>7 DEF StoreInv, Rows

\* A request leaves the rows that started, and every run, as they are, and
\* starts none.
LEMMA RequestFacts ==
  ASSUME StoreInv, DraftRequest \/ QueueRequest
  PROVE  /\ StoreInv' /\ UNCHANGED runs
         /\ \A j \in Items : queue[j].status \in Active \cup Terminal =>
              queue'[j].status = queue[j].status /\ queue'[j].scenario = queue[j].scenario
         /\ \A j \in Items : queue'[j].status \in Active => queue[j].status \in Active
<1> StoreTypeOK
  BY DEF StoreInv
<1>0. StoreInv'
  BY StoreInvStep DEF StoreNext
<1> DEFINE Same(j) == queue'[j].status = queue[j].status /\ queue'[j].scenario = queue[j].scenario
           Withdrawn(j) == queue[j].status \in {"absent"} \cup Staged /\ queue'[j].status \in Staged \cup {"cancelled"}
           Stay == \A j \in Items : Same(j) \/ Withdrawn(j)
<1>1. ASSUME DraftRequest PROVE Stay /\ UNCHANGED runs
  <2>1. PICK I \in SUBSET Items : Marks(I, "cancelled") /\ \A i \in I : queue[i].status \in Staged
    BY <1>1, DraftRequestMarks
  <2>2. Stay
    BY <2>1 DEF Marks, RowKept
  <2>3. UNCHANGED runs
    BY <1>1, DraftRequestMarks
  <2> QED BY <2>2, <2>3
<1>2. ASSUME NEW i \in Items, NEW s, NEW snapshot, EnqueueScenario(i, s, snapshot) PROVE Stay
  BY <1>2 DEF EnqueueScenario, Fresh, StoreTypeOK, Staged
<1>3. ASSUME NEW i \in Items, NEW old, RetryQueueItem(i, old) PROVE Stay
  BY <1>2, <1>3 DEF RetryQueueItem
<1>4. ASSUME NEW I \in SUBSET Items, \A i \in I : queue[i].status \in Staged,
             NEW st \in Staged \cup {"cancelled"}, queue' = WithStatus(I, st)
      PROVE  Stay
  BY <1>4, WithStatusMarks DEF Marks, RowKept
<1>5. ASSUME NEW p \in Projects, StartQueueBatch(p) PROVE Stay
  BY <1>4, <1>5 DEF StartQueueBatch, Waiting, Staged
<1>6. ASSUME NEW i \in Items, CancelQueueItem(i) PROVE Stay
  BY <1>4, <1>6 DEF CancelQueueItem
<1>7. ASSUME NEW j \in Items,
             \/ queue'[j] = queue[j]
             \/ \E o : queue'[j] = [queue[j] EXCEPT !.order = o]
             \/ queue'[j] = [queue[j] EXCEPT !.deleted = TRUE]
      PROVE  Same(j)
  <2>1. queue[j] \in QueueRow
    BY DEF StoreTypeOK
  <2>2. CASE queue'[j] = queue[j]
    BY <2>2
  <2>3. ASSUME NEW o, queue'[j] = [queue[j] EXCEPT !.order = o] PROVE Same(j)
    BY <2>1, <2>3, RowPlaced
  <2>4. CASE queue'[j] = [queue[j] EXCEPT !.deleted = TRUE]
    BY <2>1, <2>4 DEF QueueRow
  <2> QED BY <1>7, <2>2, <2>3, <2>4
<1>8. ASSUME NEW i, NEW k, NEW p, ReorderQueue(i, k, p) PROVE Stay
  <2>1. \A j \in Items : queue'[j] = queue[j] \/ \E o : queue'[j] = [queue[j] EXCEPT !.order = o]
    BY <1>8 DEF ReorderQueue
  <2> QED BY <1>7, <2>1
<1>9. ASSUME NEW p, NEW D \in SUBSET Items, BatchDeleteQueueItems(D, p) PROVE Stay
  <2>1. \A j \in Items \ D : queue'[j] = queue[j] \/ \E o : queue'[j] = [queue[j] EXCEPT !.order = o]
    BY <1>9 DEF BatchDeleteQueueItems
  <2>2. \A j \in D : queue[j].status \notin Staged => queue'[j] = [queue[j] EXCEPT !.deleted = TRUE]
    BY <1>9 DEF BatchDeleteQueueItems
  <2>3. ASSUME NEW j \in D, queue[j].status \in Staged PROVE queue'[j].status = "cancelled"
    <3>1. queue'[j] = [queue[j] EXCEPT !.deleted = TRUE, !.status = "cancelled", !.reason = "queue_deleted"]
      BY <1>9, <2>3 DEF BatchDeleteQueueItems
    <3>2. queue[j] \in QueueRow
      BY DEF StoreTypeOK
    <3> QED BY <3>1, <3>2 DEF QueueRow
  <2> HIDE DEF Same
  <2> QED BY <1>7, <2>1, <2>2, <2>3
<1> HIDE DEF Stay
<1>10. ASSUME QueueRequest PROVE Stay /\ UNCHANGED runs
  <2>1. Stay
    BY <1>2, <1>3, <1>5, <1>6, <1>8, <1>9, <1>10 DEF QueueRequest
  <2>2. UNCHANGED runs
    BY <1>10, QueueKeepsContents
  <2> QED BY <2>1, <2>2
<1>11. Stay /\ UNCHANGED runs
  BY <1>1, <1>10
<1> QED BY <1>0, <1>11 DEF Stay, Active, Terminal, RunEnd, Staged

-----------------------------------------------------------------------------
(* The steps of the workers, of stop requests and of the event loop.       *)

\* A report, or nothing, is written for a worker.
Reported(i) == UNCHANGED storeVars \/ \E st \in Active \cup RunEnd : UpdateRun(i, st)

\* What a report does to the rows and to the candidates of a pass.
LEMMA ReportStep ==
  ASSUME OwnerInv, NEW i \in Alive, Reported(i), todo' \in SUBSET todo, UNCHANGED jobs
  PROVE  /\ StoreInv' /\ TodoHeads' /\ TerminalKept
         /\ todo' \in SUBSET {j \in Items : queue'[j].status = "queued"}
         /\ \A j \in Alive : RowSettles(j)
         /\ \A j \in Items \ {i} : runs'[j].status = runs[j].status
<1>1. /\ i \in Items /\ queue[i].status \in Active \cup RunEnd /\ ~queue[i].deleted
      /\ proc = "up" => queue[i].status \in Active
  BY WorkerFacts
<1>2. StoreInv
  BY DEF OwnerInv
<1>3. /\ StoreInv'
      /\ \A j \in Items : /\ RowKept(j)
                          /\ queue'[j].status = queue[j].status \/ (j = i /\ queue'[j].status \in Active)
      /\ \A j \in Items \ {i} : runs'[j].status = runs[j].status
  <2>1. CASE UNCHANGED storeVars
    BY <1>2, <2>1 DEF storeVars, RowKept, StoreInv, StoreTypeOK, Rows, RowsNamed, DeletedIsTerminal, RecoverableRuns
  <2>2. ASSUME NEW st \in Active \cup RunEnd, UpdateRun(i, st)
        PROVE  /\ StoreInv'
               /\ \A j \in Items : /\ RowKept(j)
                                   /\ queue'[j].status = queue[j].status \/ (j = i /\ queue'[j].status \in Active)
               /\ \A j \in Items \ {i} : runs'[j].status = runs[j].status
    <3>1. /\ StoreInv' /\ Marks(IF st \in Active THEN {i} ELSE {}, st)
          /\ \A j \in Items \ {i} : runs'[j].status = runs[j].status
      BY <1>1, <1>2, <2>2, ReportFacts
    <3> QED BY <3>1 DEF Marks
  <2> QED BY <2>1, <2>2 DEF Reported
<1>4. TodoHeads' /\ \A j \in todo' : j \in Items /\ queue'[j].status = "queued"
  <2>1. \A j \in Items : /\ RowKept(j)
                         /\ queue'[j].status = queue[j].status \/ (j \in Alive /\ queue'[j].status # "queued")
    BY <1>3 DEF Active
  <2> QED BY <2>1, TodoKept
<1>5. \A j \in Alive : RowSettles(j)
  BY <1>3 DEF RowSettles, RowKept, Alive
<1>6. TerminalKept
  BY <1>1, <1>3, StatesDiffer DEF TerminalKept
<1> QED BY <1>3, <1>4, <1>5, <1>6

\* A worker moves on, reports, or returns to nobody.
LEMMA WorkerStep ==
  ASSUME OwnerInv, NEW i \in Items, NEW to \in {"none", "task"} \cup Working \cup Results,
         thread[i] # "none", Goes(i, to), Reported(i),
         to = "none" => \A p \in Projects : ~Owns(p, i),
         to \in {"task"} \cup Working =>
           runs'[i].status \in Active \/ (UNCHANGED runs /\ thread[i] \in {"task"} \cup Working)
  PROVE  OwnerInv' /\ TerminalKept
<1>1. i \in Alive /\ thread \in [Items -> {"none", "task"} \cup Working \cup Results]
  BY DEF Alive, OwnerInv, CoordinatorTypeOK
<1>2. /\ thread' = [thread EXCEPT ![i] = to]
      /\ UNCHANGED <<proc, loop, online, jobs, stopreq, todo, hold>>
  BY DEF Goes
<1>3. /\ StoreInv' /\ TodoHeads' /\ TerminalKept
      /\ todo' \in SUBSET {j \in Items : queue'[j].status = "queued"}
      /\ \A j \in Alive : RowSettles(j)
      /\ \A j \in Items \ {i} : runs'[j].status = runs[j].status
  BY <1>1, <1>2, ReportStep
<1>4. thread'[i] = to /\ \A j \in Items \ {i} : thread'[j] = thread[j]
  BY <1>1, <1>2
<1>5. CoordinatorTypeOK'
  <2>1. thread' \in [Items -> {"none", "task"} \cup Working \cup Results]
    BY <1>1, <1>2
  <2> QED BY <1>2, <1>3, <2>1 DEF OwnerInv, CoordinatorTypeOK
<1>6. Alive' \in SUBSET Alive
  BY <1>1, <1>4 DEF Alive
<1>7. Phases'
  BY <1>2, <1>6 DEF OwnerInv, Phases
<1>8. RunsMarked'
  <2> SUFFICES ASSUME proc = "up", NEW j \in Items, thread'[j] \in {"task"} \cup Working
               PROVE  runs'[j].status \in Active
    BY <1>2 DEF RunsMarked
  <2>1. CASE j = i
    BY <1>4, <2>1 DEF OwnerInv, RunsMarked
  <2>2. CASE j # i
    BY <1>3, <1>4, <2>2 DEF OwnerInv, RunsMarked
  <2> QED BY <2>1, <2>2
<1>9. \A p \in Projects : jobs'[p] # 0 => jobs'[p] \in Alive'
  <2> SUFFICES ASSUME NEW p \in Projects, jobs[p] # 0 PROVE jobs[p] \in Alive'
    BY <1>2
  <2>1. jobs[p] \in Alive
    BY JobFacts
  <2>2. jobs[p] = i => to # "none"
    BY DEF Owns
  <2> QED BY <1>4, <2>1, <2>2 DEF Alive
<1>10. \A j \in Alive' : proc' = "stopping" \/ \E p \in Projects : jobs'[p] = j
  BY <1>2, <1>6 DEF OwnerInv, WorkersOwned, Owns
<1>11. \A p \in Projects : jobs'[p] \in {0, jobs[p]}
  BY <1>2
<1>12. OwnerInv'
  BY <1>3, <1>5, <1>6, <1>7, <1>8, <1>9, <1>10, <1>11, OwnersKept
<1> QED BY <1>3, <1>12

\* The steps of a worker thread and of the task that starts it.
LEMMA WorkersStep ==
  ASSUME OwnerInv, NEW i \in Items, TaskStart(i) \/ Worker(i)
  PROVE  OwnerInv' /\ TerminalKept
<1>0. runs[i] \in RunRow /\ runs \in [Items -> RunRow]
  BY DEF OwnerInv, StoreInv, StoreTypeOK
<1>1. ASSUME NEW st, UpdateRun(i, st) PROVE runs'[i].status = st
  BY <1>0, <1>1 DEF UpdateRun, RunRow
<1>2. CASE TaskStart(i)
  <2>1. Goes(i, "prepare") /\ UpdateRun(i, "starting") /\ thread[i] # "none"
    BY <1>2 DEF TaskStart, Goes
  <2> QED BY <1>1, <2>1, WorkerStep DEF Reported, Active, Working
<1>3. CASE Prepared(i)
  BY <1>3, WorkerStep DEF Prepared, Reported, Working, InSession, storeVars
<1>4. CASE PreparationFails(i)
  BY <1>4, WorkerStep DEF PreparationFails, Reported, Working, InSession, Results, storeVars
<1>5. CASE Initialized(i)
  BY <1>1, <1>5, WorkerStep DEF Initialized, Reported, Active, Working, InSession
<1>6. CASE RunBegins(i)
  BY <1>1, <1>6, WorkerStep DEF RunBegins, Reported, Active, Working, InSession
<1>7. CASE StopSeen(i)
  BY <1>7, WorkerStep DEF StopSeen, Reported, RunEnd, Working, InSession, Results
<1>8. CASE Solved(i)
  BY <1>8, WorkerStep DEF Solved, Reported, Working, InSession, storeVars
<1>9. CASE RunFails(i)
  BY <1>9, WorkerStep DEF RunFails, Reported, RunEnd, Working, InSession, Results
<1>10. CASE RunCompletes(i)
  BY <1>10, WorkerStep DEF RunCompletes, Reported, RunEnd, Working, InSession, Results
<1>11. CASE ReturnsToNobody(i)
  BY <1>11, WorkerStep DEF ReturnsToNobody, Reported, Working, InSession, Results
<1> QED BY <1>2, <1>3, <1>4, <1>5, <1>6, <1>7, <1>8, <1>9, <1>10, <1>11 DEF Worker

\* A step of the event loop or of the process that leaves the databases alone.
LEMMA QuietStep ==
  ASSUME OwnerInv, UNCHANGED storeVars, CoordinatorTypeOK', TodoHeads', Phases',
         \A j \in Items : thread'[j] \in {"none", thread[j]},
         \A p \in Projects : jobs'[p] \in {0, jobs[p]},
         \A p \in Projects : jobs'[p] # 0 => jobs'[p] \in Alive',
         \A i \in Alive' : proc' = "stopping" \/ \E p \in Projects : jobs'[p] = i,
         proc' = "up" => proc = "up" \/ Alive' = {}
  PROVE  OwnerInv' /\ TerminalKept
<1>1. StoreInv' /\ TerminalKept /\ \A j \in Alive : RowSettles(j)
  BY DEF OwnerInv, storeVars, TerminalKept, RowSettles, StoreInv, StoreTypeOK, Rows, RowsNamed,
         DeletedIsTerminal, RecoverableRuns
<1>2. Alive' \in SUBSET Alive
  BY DEF Alive
<1>3. RunsMarked'
  <2> SUFFICES ASSUME proc' = "up", NEW j \in Items, thread'[j] \in {"task"} \cup Working
               PROVE  runs[j].status \in Active
    BY DEF RunsMarked, storeVars
  <2>1. thread'[j] # "none" /\ thread'[j] = thread[j]
    BY StatesDiffer
  <2> QED BY <2>1 DEF OwnerInv, RunsMarked, Alive
<1> QED BY <1>1, <1>2, <1>3, OwnersKept

\* The stop requests and the dispatch pass.
LEMMA LoopStep ==
  ASSUME OwnerInv,
         \/ DispatchBegin \/ DispatchSkip
         \/ \E i \in Items : StopThread(i) \/ StopBegin(i)
         \/ \E p \in Projects : Unmount(p) \/ Mount(p)
  PROVE  OwnerInv' /\ TerminalKept
<1> DEFINE Same == UNCHANGED <<storeVars, proc, jobs, thread>>
<1>1. ASSUME Same, CoordinatorTypeOK', TodoHeads', Phases' PROVE OwnerInv' /\ TerminalKept
  <2>1. \A p \in Projects : jobs[p] # 0 => jobs[p] \in Alive
    BY JobFacts
  <2>2. \A i \in Alive : proc = "stopping" \/ \E p \in Projects : jobs[p] = i
    BY DEF OwnerInv, WorkersOwned, Owns
  <2>3. Alive' = Alive
    BY <1>1 DEF Alive
  <2>4. \A j \in Items : thread'[j] \in {"none", thread[j]}
    BY <1>1
  <2>5. \A p \in Projects : jobs'[p] \in {0, jobs[p]} /\ (jobs'[p] # 0 => jobs'[p] \in Alive')
    BY <1>1, <2>1, <2>3
  <2>6. \A i \in Alive' : proc' = "stopping" \/ \E p \in Projects : jobs'[p] = i
    BY <1>1, <2>2, <2>3
  <2>7. proc' = "up" => proc = "up"
    BY <1>1
  <2> HIDE DEF Same
  <2> QED BY <1>1, <2>4, <2>5, <2>6, <2>7, QuietStep DEF Same
<1>2. ASSUME Same, todo' \in SUBSET todo PROVE TodoHeads'
  <2>1. \A j \in Items : RowKept(j) /\ queue'[j].status = queue[j].status
    BY <1>2 DEF storeVars, RowKept
  <2> QED BY <1>2, <2>1, TodoKept
<1>3. CASE DispatchBegin
  <2>1. proc = "up" /\ hold = 0 /\ Same /\ todo' = {i \in Items : Candidate(i)} /\ UNCHANGED <<loop, online, stopreq, hold>>
    BY <1>3 DEF DispatchBegin, Serving, LoopFree
  <2>2. ASSUME NEW i \in todo'
        PROVE  i \in Items /\ queue[i].status = "queued" /\ Project(i) \notin Owned /\ IsHead(i, Project(i))
    <3>1. PICK p \in online \ Owned : IsHead(i, p)
      BY <2>1, <2>2 DEF Candidate
    <3>2. Project(i) = p
      BY <3>1 DEF IsHead, Queued, InProject, Project
    <3> QED BY <2>1, <2>2, <3>1, <3>2 DEF IsHead, Queued
  <2>3. TodoHeads'
    BY <2>1, <2>2 DEF TodoHeads, Owned, Project, IsHead, Queued, InProject, storeVars
  <2>4. CoordinatorTypeOK'
    BY <2>1, <2>2 DEF OwnerInv, CoordinatorTypeOK, storeVars
  <2>5. Phases'
    BY <2>1 DEF OwnerInv, Phases, Alive
  <2> QED BY <1>1, <2>1, <2>3, <2>4, <2>5
<1>4. CASE DispatchSkip
  <2>1. Same /\ todo' \in SUBSET todo /\ UNCHANGED <<loop, online, stopreq, hold>>
    BY <1>4 DEF DispatchSkip
  <2>2. CoordinatorTypeOK' /\ Phases'
    BY <2>1 DEF OwnerInv, CoordinatorTypeOK, Phases, Alive, storeVars
  <2> QED BY <1>1, <1>2, <2>1, <2>2
<1>5. ASSUME NEW i \in Items, StopThread(i) PROVE OwnerInv' /\ TerminalKept
  <2>1. Same /\ stopreq' = [stopreq EXCEPT ![i] = "session"] /\ UNCHANGED <<loop, online, todo, hold>>
    BY <1>5 DEF StopThread
  <2>2. CoordinatorTypeOK' /\ Phases'
    BY <2>1 DEF OwnerInv, CoordinatorTypeOK, Phases, Alive, storeVars
  <2> QED BY <1>1, <1>2, <2>1, <2>2
<1>6. ASSUME NEW i \in Items, StopBegin(i) PROVE OwnerInv' /\ TerminalKept
  <2>1. /\ Same /\ stopreq' = [stopreq EXCEPT ![i] = Told(i)] /\ hold' = i /\ todo = {} /\ proc = "up"
        /\ jobs[Project(i)] = i /\ i # 0 /\ UNCHANGED <<loop, online, todo>>
    BY <1>6 DEF StopBegin, Serving, LoopFree, Owns
  <2>2. Told(i) \in {"event", "session"}
    BY DEF Told
  <2>3. Project(i) \in Projects
    <3>1. i \in Items /\ queue[i].status # "absent"
      BY <1>6 DEF StopBegin, OwnerInv, StoreInv, StoreTypeOK, Rows, RecoverableRuns, Active
    <3>2. queue[i].scenario \in Scenarios
      BY <3>1, RowType DEF OwnerInv, StoreInv, Rows
    <3> QED BY <3>2, StoreAssumption DEF Project
  <2>4. CoordinatorTypeOK'
    <3>1. stopreq' \in [Items -> {"no", "event", "session"}]
      BY <2>1, <2>2 DEF OwnerInv, CoordinatorTypeOK
    <3> QED BY <2>1, <2>3, <3>1 DEF OwnerInv, CoordinatorTypeOK, storeVars
  <2>5. Phases'
    BY <2>1 DEF OwnerInv, Phases, Alive
  <2> QED BY <1>1, <1>2, <2>1, <2>4, <2>5
<1>7. ASSUME NEW p \in Projects, Unmount(p) \/ Mount(p) PROVE OwnerInv' /\ TerminalKept
  <2>1. Same /\ online' \in {online \ {p}, online \cup {p}} /\ UNCHANGED <<loop, stopreq, todo, hold>>
    BY <1>7 DEF Unmount, Mount
  <2>2. CoordinatorTypeOK' /\ Phases'
    BY <2>1 DEF OwnerInv, CoordinatorTypeOK, Phases, Alive, storeVars
  <2> QED BY <1>1, <1>2, <2>1, <2>2
<1> HIDE DEF Same
<1> QED BY <1>3, <1>4, <1>5, <1>6, <1>7

\* The stop handler marks the run it stops.
LEMMA StopEndStep == ASSUME OwnerInv, StopEnd PROVE OwnerInv' /\ TerminalKept
<1>1. /\ hold # 0 /\ UpdateRun(hold, "stopping") /\ hold' = 0
      /\ UNCHANGED <<proc, loop, online, jobs, thread, stopreq, todo>>
  BY DEF StopEnd
<1>2. PICK o \in Projects : jobs[o] = hold
  BY <1>1 DEF OwnerInv, CoordinatorTypeOK
<1>3. hold \in Alive /\ hold \in Items
  BY <1>1, <1>2, JobFacts, WorkerFacts
<1>4. Reported(hold)
  BY <1>1 DEF Reported, Active
<1>5. PICK i : i = hold
  OBVIOUS
<1>6. /\ StoreInv' /\ TodoHeads' /\ TerminalKept
      /\ todo' \in SUBSET {j \in Items : queue'[j].status = "queued"}
      /\ \A j \in Alive : RowSettles(j)
      /\ \A j \in Items \ {i} : runs'[j].status = runs[j].status
  BY <1>1, <1>3, <1>4, <1>5, ReportStep
<1>7. CoordinatorTypeOK' /\ Phases'
  BY <1>1, <1>6 DEF OwnerInv, CoordinatorTypeOK, Phases, Alive
<1>8. runs'[i].status = "stopping"
  BY <1>1, <1>3, <1>5 DEF UpdateRun, OwnerInv, StoreInv, StoreTypeOK, RunRow
<1>9. RunsMarked'
  BY <1>1, <1>6, <1>8 DEF OwnerInv, RunsMarked, Active
<1>10. Alive' = Alive
  BY <1>1 DEF Alive
<1>11. \A p \in Projects : jobs'[p] \in {0, jobs[p]} /\ (jobs'[p] # 0 => jobs'[p] \in Alive')
  BY <1>1, <1>10, JobFacts
<1>12. \A j \in Alive' : proc' = "stopping" \/ \E p \in Projects : jobs'[p] = j
  BY <1>1, <1>10 DEF OwnerInv, WorkersOwned, Owns
<1>13. OwnerInv'
  BY <1>6, <1>7, <1>9, <1>10, <1>11, <1>12, OwnersKept
<1> QED BY <1>6, <1>13

\* The end of a job: its worker is done, or outlives it in a shutdown.
LEMMA JobsEnd ==
  ASSUME OwnerInv, NEW p \in Projects, jobs[p] # 0, StoreInv', todo = {}, hold = 0,
         UNCHANGED <<proc, loop, online, stopreq, todo, hold>>,
         jobs' = [jobs EXCEPT ![p] = 0],
         \/ thread' = [thread EXCEPT ![jobs[p]] = "none"]
         \/ proc = "stopping" /\ UNCHANGED thread,
         \A j \in Items \ {jobs[p]} : runs'[j].status = runs[j].status,
         \/ UNCHANGED queue
         \/ \E st \in RunEnd : Marks({jobs[p]}, st)
  PROVE  OwnerInv' /\ TerminalKept
<1> PICK i : i = jobs[p]
  OBVIOUS
<1>1. /\ i \in Alive /\ i \in Items /\ queue[i].status \in Active
  BY JobFacts, WorkerFacts
<1>2. /\ thread \in [Items -> {"none", "task"} \cup Working \cup Results]
      /\ jobs \in [Projects -> {0} \cup Items]
  BY DEF OwnerInv, CoordinatorTypeOK
<1>3. /\ jobs'[p] = 0 /\ \A q \in Projects \ {p} : jobs'[q] = jobs[q]
      /\ jobs' \in [Projects -> {0} \cup Items]
  BY <1>2
<1>4. /\ \A j \in Items \ {i} : thread'[j] = thread[j]
      /\ thread'[i] = "none" \/ (proc = "stopping" /\ thread'[i] = thread[i])
      /\ thread' \in [Items -> {"none", "task"} \cup Working \cup Results]
  BY <1>1, <1>2
<1>5. ASSUME NEW q \in Projects \ {p}, jobs[q] # 0 PROVE jobs[q] # i /\ jobs[q] \in Alive
  BY <1>5, JobFacts
<1>6. CoordinatorTypeOK'
  BY <1>3, <1>4 DEF OwnerInv, CoordinatorTypeOK
<1>7. TodoHeads'
  BY DEF TodoHeads
<1>8. Alive' \in SUBSET Alive /\ \A j \in Alive : j # i => j \in Alive'
  BY <1>1, <1>4 DEF Alive
<1>9. Phases'
  BY <1>3, <1>8 DEF OwnerInv, Phases
<1>10. RunsMarked'
  BY <1>4, StatesDiffer DEF OwnerInv, RunsMarked
<1>11. \A q \in Projects : jobs'[q] \in {0, jobs[q]} /\ jobs'[q] # i
  BY <1>1, <1>3, <1>5, StoreAssumption DEF Items
<1>12. \A j \in Alive : RowSettles(j)
  <2>1. CASE UNCHANGED queue
    BY <2>1 DEF RowSettles
  <2>2. ASSUME NEW st \in RunEnd, Marks({i}, st) PROVE \A j \in Alive : RowSettles(j)
    BY <1>11, <2>2 DEF RowSettles, Marks, RowKept, Alive
  <2> QED BY <2>1, <2>2
<1>13. TerminalKept
  <2>1. CASE UNCHANGED queue
    BY <2>1 DEF TerminalKept
  <2>2. ASSUME NEW st \in RunEnd, Marks({i}, st) PROVE TerminalKept
    BY <1>1, <2>2, StatesDiffer DEF TerminalKept, Marks
  <2> QED BY <2>1, <2>2
<1>14. \A q \in Projects : jobs'[q] # 0 => jobs'[q] \in Alive'
  BY <1>3, <1>5, <1>8
<1>15. \A j \in Alive' : proc' = "stopping" \/ \E q \in Projects : jobs'[q] = j
  <2> SUFFICES ASSUME NEW j \in Alive', proc # "stopping" PROVE \E q \in Projects : jobs'[q] = j
    OBVIOUS
  <2>1. j \in Alive /\ j # i
    BY <1>4, <1>8 DEF Alive
  <2>2. PICK q \in Projects : jobs[q] = j
    BY <2>1 DEF OwnerInv, WorkersOwned, Owns
  <2> QED BY <1>3, <2>1, <2>2
<1>16. OwnerInv'
  BY <1>6, <1>7, <1>8, <1>9, <1>10, <1>11, <1>12, <1>14, <1>15, OwnersKept
<1> QED BY <1>13, <1>16

\* The scheduler's task finishes a run, fails to, or is cut off.
LEMMA EndStep ==
  ASSUME OwnerInv, NEW p \in Projects, Finish(p) \/ FinishFails(p) \/ Cut(p)
  PROVE  OwnerInv' /\ TerminalKept
<1> PICK i : i = jobs[p]
  OBVIOUS
<1>1. jobs[p] # 0 /\ i \in Items /\ queue[i].status \in Active /\ StoreInv
  BY JobFacts, WorkerFacts DEF Finish, FinishFails, Cut, OwnerInv
<1>2. CASE Finish(p)
  <2>1. /\ thread[i] \in RunEnd /\ FinishRun(i, thread[i]) /\ todo = {} /\ hold = 0
        /\ jobs' = [jobs EXCEPT ![p] = 0] /\ thread' = [thread EXCEPT ![jobs[p]] = "none"]
        /\ UNCHANGED <<proc, loop, online, stopreq, todo, hold>>
    BY <1>2, StatesDiffer DEF Finish, LoopFree
  <2>2. PICK st \in RunEnd : st = thread[i]
    BY <2>1
  <2>3. StoreInv' /\ Marks({i}, st) /\ \A j \in Items \ {i} : runs'[j].status = runs[j].status
    BY <1>1, <2>1, <2>2, EndFacts
  <2> QED BY <1>1, <2>1, <2>3, JobsEnd
<1>3. CASE FinishFails(p)
  <2>1. /\ UNCHANGED storeVars /\ todo = {} /\ hold = 0
        /\ jobs' = [jobs EXCEPT ![p] = 0] /\ thread' = [thread EXCEPT ![jobs[p]] = "none"]
        /\ UNCHANGED <<proc, loop, online, stopreq, todo, hold>>
    BY <1>3 DEF FinishFails, LoopFree
  <2>2. StoreInv'
    BY <1>1, <2>1, StoreInvStep
  <2> QED BY <1>1, <2>1, <2>2, JobsEnd DEF storeVars
<1>4. CASE Cut(p)
  <2>1. /\ proc = "stopping" /\ FinishRun(i, "interrupted") /\ jobs' = [jobs EXCEPT ![p] = 0]
        /\ UNCHANGED <<proc, loop, online, thread, stopreq, todo, hold>>
    BY <1>4 DEF Cut
  <2>2. todo = {} /\ hold = 0
    BY <2>1 DEF OwnerInv, Phases
  <2>3. "interrupted" \in RunEnd
    BY DEF RunEnd
  <2>4. StoreInv' /\ Marks({i}, "interrupted") /\ \A j \in Items \ {i} : runs'[j].status = runs[j].status
    BY <1>1, <2>1, <2>3, EndFacts
  <2> QED BY <1>1, <2>1, <2>2, <2>3, <2>4, JobsEnd
<1> QED BY <1>2, <1>3, <1>4

\* A shutdown begins, and the process ends and starts.
LEMMA ProcessStep ==
  ASSUME OwnerInv, Shutdown \/ ProcessEnds \/ Start
  PROVE  OwnerInv' /\ TerminalKept
<1>1. CASE Shutdown
  <2>1. /\ UNCHANGED <<storeVars, loop, online, jobs, thread, todo, hold>> /\ todo = {} /\ hold = 0
        /\ proc' = "stopping"
        /\ stopreq' = [i \in Items |-> IF \E p \in Projects : Owns(p, i) THEN Told(i) ELSE stopreq[i]]
    BY <1>1 DEF Shutdown, Serving, LoopFree
  <2>2. stopreq' \in [Items -> {"no", "event", "session"}]
    BY <2>1 DEF Told, OwnerInv, CoordinatorTypeOK
  <2>3. CoordinatorTypeOK'
    BY <2>1, <2>2 DEF OwnerInv, CoordinatorTypeOK
  <2>4. TodoHeads' /\ Phases'
    BY <2>1 DEF TodoHeads, Phases
  <2>5. \A p \in Projects : jobs'[p] \in {0, jobs[p]} /\ (jobs'[p] # 0 => jobs'[p] \in Alive')
    BY <2>1, JobFacts DEF Alive
  <2>6. \A j \in Items : thread'[j] \in {"none", thread[j]}
    BY <2>1
  <2>7. \A i \in Alive' : proc' = "stopping" \/ \E p \in Projects : jobs'[p] = i
    BY <2>1
  <2> QED BY <2>1, <2>3, <2>4, <2>5, <2>6, <2>7, QuietStep
<1>2. CASE ProcessEnds
  <2>1. /\ UNCHANGED <<storeVars, loop, online>> /\ proc' = "down" /\ todo' = {} /\ hold' = 0
        /\ jobs' = [p \in Projects |-> 0] /\ thread' = [i \in Items |-> "none"] /\ stopreq' = [i \in Items |-> "no"]
    BY <1>2 DEF ProcessEnds
  <2>2. CoordinatorTypeOK' /\ TodoHeads' /\ Alive' = {}
    BY <2>1 DEF OwnerInv, CoordinatorTypeOK, TodoHeads, Alive
  <2>3. Phases'
    BY <2>1, <2>2 DEF Phases
  <2>4. \A p \in Projects : jobs'[p] \in {0, jobs[p]} /\ (jobs'[p] # 0 => jobs'[p] \in Alive')
    BY <2>1
  <2>5. \A j \in Items : thread'[j] \in {"none", thread[j]}
    BY <2>1
  <2> QED BY <2>1, <2>2, <2>3, <2>4, <2>5, QuietStep
<1>3. CASE Start
  <2>1. /\ proc = "down" /\ RecoverInterruptedRuns(online) /\ proc' = "up" /\ loop' = "on"
        /\ UNCHANGED <<online, jobs, thread, stopreq, todo, hold>>
    BY <1>3 DEF Start
  <2>2. Alive = {} /\ todo = {} /\ hold = 0 /\ \A p \in Projects : jobs[p] = 0
    BY <2>1 DEF OwnerInv, Phases
  <2>3. StoreInv'
    <3>1. RuntimeCall
      BY <2>1 DEF RuntimeCall, OwnerInv, CoordinatorTypeOK
    <3> QED BY <3>1, StoreInvStep DEF StoreNext, OwnerInv
  <2>4. CoordinatorTypeOK' /\ TodoHeads' /\ Alive' = {}
    BY <2>1, <2>2 DEF OwnerInv, CoordinatorTypeOK, TodoHeads, Alive
  <2>5. Phases' /\ RunsMarked'
    BY <2>1, <2>2, <2>4, StatesDiffer DEF Phases, RunsMarked, Alive
  <2>6. OwnerInv'
    BY <2>1, <2>2, <2>3, <2>4, <2>5, OwnersKept
  <2> QED BY <2>1, <2>6 DEF TerminalKept
<1> QED BY <1>1, <1>2, <1>3

\* A request is served between two handlers, and leaves what runs alone.
LEMMA RequestStep == ASSUME OwnerInv, Request PROVE OwnerInv' /\ TerminalKept
<1>1. /\ proc = "up" /\ todo = {} /\ hold = 0 /\ (DraftRequest \/ QueueRequest)
      /\ UNCHANGED <<proc, loop, online, jobs, thread, stopreq, todo, hold>>
  BY DEF Request, EditRequest, Serving, LoopFree, coordVars
<1>2. /\ StoreInv' /\ UNCHANGED runs
      /\ \A j \in Items : queue[j].status \in Active \cup Terminal =>
           queue'[j].status = queue[j].status /\ queue'[j].scenario = queue[j].scenario
  BY <1>1, RequestFacts DEF OwnerInv
<1>3. ASSUME NEW j \in Alive PROVE RowSettles(j)
  <2>1. j \in Items /\ queue[j].status \in Active /\ ~queue[j].deleted
    BY <1>1, WorkerFacts
  <2>2. queue'[j].status \in Active /\ queue'[j].scenario = queue[j].scenario
    BY <1>2, <2>1
  <2>3. ~queue'[j].deleted
    BY <1>2, <2>1, <2>2, StatesDiffer DEF StoreInv, Rows, DeletedIsTerminal
  <2>4. queue[j].deleted \in BOOLEAN /\ queue'[j].deleted \in BOOLEAN
    BY <1>2, <2>1 DEF OwnerInv, StoreInv, StoreTypeOK, QueueRow
  <2> QED BY <2>1, <2>2, <2>3, <2>4 DEF RowSettles
<1>4. CoordinatorTypeOK' /\ TodoHeads' /\ Phases' /\ RunsMarked' /\ Alive' = Alive
  BY <1>1, <1>2 DEF OwnerInv, CoordinatorTypeOK, TodoHeads, Phases, RunsMarked, Alive
<1>5. \A p \in Projects : jobs'[p] \in {0, jobs[p]} /\ (jobs'[p] # 0 => jobs'[p] \in Alive')
  BY <1>1, <1>4, JobFacts
<1>6. \A j \in Alive' : proc' = "stopping" \/ \E p \in Projects : jobs'[p] = j
  BY <1>1, <1>4 DEF OwnerInv, WorkersOwned, Owns
<1>7. OwnerInv'
  BY <1>2, <1>3, <1>4, <1>5, <1>6, OwnersKept
<1>8. TerminalKept
  BY <1>2 DEF TerminalKept
<1> QED BY <1>7, <1>8

-----------------------------------------------------------------------------
(* The claims.                                                             *)

\* While the service is up there are as many workers as jobs.
LEMMA WorkersAreJobs ==
  ASSUME OwnerInv, proc = "up"
  PROVE  IsFiniteSet(Alive) /\ Cardinality(Alive) = Cardinality(Owned)
<1> DEFINE f == [i \in Alive |-> Project(i)]
<1>1. IsFiniteSet(Alive)
  BY ItemsFinite, FS_Subset DEF Alive
<1>2. \A i \in Alive : \E p \in Owned : jobs[p] = i /\ Project(i) = p
  BY JobFacts DEF OwnerInv, WorkersOwned, Owns, Owned
<1>3. f \in [Alive -> Owned] /\ \A i \in Alive : f[i] = Project(i)
  BY <1>2
<1>4. \A i, j \in Alive : f[i] = f[j] => i = j
  BY <1>2, <1>3
<1>5. \A p \in Owned : \E i \in Alive : f[i] = p
  BY <1>3, JobFacts DEF Owned
<1> HIDE DEF f
<1>6. f \in Injection(Alive, Owned)
  BY <1>3, <1>4 DEF Injection, IsInjective
<1>7. f \in Surjection(Alive, Owned)
  BY <1>3, <1>5 DEF Surjection
<1> QED BY <1>1, <1>6, <1>7, FS_Surjection

\* A candidate is a row without a worker, of a project without one.
LEMMA CandidateFacts ==
  ASSUME OwnerInv, NEW i \in todo
  PROVE  /\ i \in Items /\ i # 0 /\ queue[i].status = "queued" /\ ~queue[i].deleted
         /\ queue[i].scenario \in Scenarios /\ Project(i) \in Projects /\ Project(i) \notin Owned
         /\ IsHead(i, Project(i)) /\ thread[i] = "none"
         /\ proc = "up" /\ hold = 0
<1>1. i \in Items /\ queue[i].status = "queued" /\ Project(i) \notin Owned /\ IsHead(i, Project(i)) /\ i # 0
  BY StoreAssumption DEF OwnerInv, CoordinatorTypeOK, TodoHeads, Items
<1>2. queue[i].scenario \in Scenarios /\ Project(i) \in Projects /\ ~queue[i].deleted
  BY <1>1, RowType, StoreAssumption DEF OwnerInv, StoreInv, Rows, Project, IsHead, Queued
<1>3. thread[i] = "none"
  BY <1>1, WorkerFacts DEF Alive
<1>4. proc = "up" /\ hold = 0
  BY DEF OwnerInv, Phases
<1> QED BY <1>1, <1>2, <1>3, <1>4

\* A claim takes its project out of the pass and disturbs no other.
LEMMA ClaimTodo ==
  ASSUME OwnerInv, NEW i \in todo, queue'[i].scenario = queue[i].scenario,
         \A j \in Items \ {i} : queue'[j] = queue[j],
         todo' \in SUBSET (todo \ {i}),
         \A q \in Projects : jobs'[q] = jobs[q] \/ q = Project(i)
  PROVE  TodoHeads' /\ todo' \in SUBSET {j \in Items : queue'[j].status = "queued"}
<1>1. ASSUME NEW j \in todo' PROVE Project(j)' \notin Owned' /\ IsHead(j, Project(j))' /\ j \in Items /\ queue'[j].status = "queued"
  <2>1. j \in todo /\ j \in Items /\ j # i /\ queue[j].status = "queued"
    BY CandidateFacts
  <2> PICK p : p = Project(j)
    OBVIOUS
  <2>2. p \notin Owned /\ IsHead(j, p) /\ IsHead(i, Project(i)) /\ p \in Projects
    BY <2>1, CandidateFacts
  <2>3. p # Project(i)
    BY <2>1, <2>2, HeadsAgree DEF OwnerInv, StoreInv
  <2>4. Project(j)' = p
    BY <2>1 DEF Project
  <2>5. p \notin Owned'
    BY <2>2, <2>3 DEF Owned
  <2>6. \A k \in Items : k # i => queue'[k] = queue[k]
    OBVIOUS
  <2>7. \A k \in Queued(p)' : k # i
    BY <2>3 DEF Queued, InProject, Project
  <2>8. i \notin Queued(p)
    BY <2>3 DEF Queued, InProject, Project
  <2>9. Queued(p)' = Queued(p)
    BY <2>6, <2>7, <2>8 DEF Queued, InProject
  <2>10. \A k \in Queued(p) : queue'[k].order = queue[k].order
    BY <2>6, <2>8 DEF Queued
  <2>11. j \in Queued(p)' /\ \A k \in Queued(p)' :
           queue'[j].order < queue'[k].order \/ (queue'[j].order = queue'[k].order /\ j <= k)
    BY <2>2, <2>9, <2>10 DEF IsHead
  <2>12. IsHead(j, Project(j))'
    BY <2>4, <2>11 DEF IsHead
  <2>13. queue'[j].status = "queued"
    BY <2>1, <2>6
  <2> QED BY <2>1, <2>4, <2>5, <2>12, <2>13
<1> QED BY <1>1 DEF TodoHeads

\* A claim that was refused, or whose pass died, leaves the workers alone.
LEMMA ClaimWithoutWorker ==
  ASSUME OwnerInv, NEW i \in todo, ClaimQueueItem(i), todo' \in SUBSET (todo \ {i}),
         UNCHANGED <<proc, online, jobs, thread, stopreq, hold>>, loop' \in {"on", "dead"}
  PROVE  OwnerInv' /\ TerminalKept
<1>1. /\ i \in Items /\ queue[i].status = "queued" /\ ~queue[i].deleted /\ i \notin Alive
  BY CandidateFacts DEF Alive
<1>2. /\ StoreInv' /\ queue'[i].scenario = queue[i].scenario
      /\ \A j \in Items \ {i} : queue'[j] = queue[j] /\ runs'[j].status = runs[j].status
  BY <1>1, ClaimFacts DEF OwnerInv
<1>3. TodoHeads' /\ todo' \in SUBSET {j \in Items : queue'[j].status = "queued"}
  BY <1>2, ClaimTodo
<1>4. CoordinatorTypeOK' /\ Phases' /\ Alive' = Alive
  BY <1>3 DEF OwnerInv, CoordinatorTypeOK, Phases, Alive
<1>5. RunsMarked'
  BY <1>1, <1>2, StatesDiffer DEF OwnerInv, RunsMarked, Alive
<1>6. \A j \in Alive : RowSettles(j)
  BY <1>1, <1>2 DEF RowSettles, Alive
<1>7. \A p \in Projects : jobs'[p] \in {0, jobs[p]} /\ (jobs'[p] # 0 => jobs'[p] \in Alive')
  BY <1>4, JobFacts
<1>8. \A j \in Alive' : proc' = "stopping" \/ \E p \in Projects : jobs'[p] = j
  BY <1>4 DEF OwnerInv, WorkersOwned, Owns
<1>9. OwnerInv'
  BY <1>2, <1>3, <1>4, <1>5, <1>6, <1>7, <1>8, OwnersKept
<1>10. TerminalKept
  BY <1>1, <1>2 DEF TerminalKept, Terminal, RunEnd
<1> QED BY <1>9, <1>10

\* A claim starts one worker more, if there is room for one that is compatible.
LEMMA ClaimWithWorker ==
  ASSUME OwnerInv, NEW i \in todo, ClaimQueueItem(i), queue'[i].status = "starting",
         Room, Compatible(i), todo' = todo \ {i},
         jobs' = [jobs EXCEPT ![Project(i)] = i], thread' = [thread EXCEPT ![i] = "task"],
         UNCHANGED <<proc, loop, online, stopreq, hold>>
  PROVE  OwnerInv' /\ TerminalKept
<1> PICK p : p = Project(i)
  OBVIOUS
<1>1. /\ i \in Items /\ i # 0 /\ queue[i].status = "queued" /\ ~queue[i].deleted /\ thread[i] = "none"
      /\ p \in Projects /\ p \notin Owned /\ proc = "up" /\ hold = 0
  BY CandidateFacts
<1>2. /\ StoreInv' /\ queue'[i].scenario = queue[i].scenario /\ queue'[i].deleted = queue[i].deleted
      /\ runs'[i].status = "starting"
      /\ \A j \in Items \ {i} : queue'[j] = queue[j] /\ runs'[j].status = runs[j].status
  BY <1>1, ClaimFacts DEF OwnerInv
<1>3. /\ jobs' \in [Projects -> {0} \cup Items] /\ jobs'[p] = i
      /\ \A q \in Projects \ {p} : jobs'[q] = jobs[q]
  BY <1>1 DEF OwnerInv, CoordinatorTypeOK
<1>4. /\ thread' \in [Items -> {"none", "task"} \cup Working \cup Results] /\ thread'[i] = "task"
      /\ \A j \in Items \ {i} : thread'[j] = thread[j]
  BY <1>1 DEF OwnerInv, CoordinatorTypeOK
<1>5. TodoHeads' /\ todo' \in SUBSET {j \in Items : queue'[j].status = "queued"}
  BY <1>2, <1>3, ClaimTodo
<1>6. CoordinatorTypeOK'
  BY <1>1, <1>3, <1>4, <1>5 DEF OwnerInv, CoordinatorTypeOK
<1>7. Phases'
  BY <1>1 DEF Phases
<1>8. RunsMarked'
  BY <1>2, <1>4 DEF OwnerInv, RunsMarked, Active
<1>9. Alive' = Alive \cup {i} /\ i \notin Alive
  BY <1>1, <1>4 DEF Alive
<1>10. \A j \in Alive : j \in Items \ {i} /\ queue'[j] = queue[j] /\ Project(j) \in Owned /\ jobs[Project(j)] = j
  <2> SUFFICES ASSUME NEW j \in Alive
               PROVE  j \in Items \ {i} /\ queue'[j] = queue[j] /\ Project(j) \in Owned /\ jobs[Project(j)] = j
    OBVIOUS
  <2>1. PICK q \in Projects : jobs[q] = j /\ j # 0
    BY <1>1 DEF OwnerInv, WorkersOwned, Owns
  <2>2. Project(j) = q
    BY <2>1, JobFacts
  <2> QED BY <1>2, <1>9, <2>1, <2>2 DEF Alive, Owned
<1>11. JobsRun'
  <2> SUFFICES ASSUME NEW q \in Projects, jobs'[q] # 0
               PROVE  /\ queue'[jobs'[q]].status \in Active
                      /\ ProjectOf[queue'[jobs'[q]].scenario] = q
                      /\ thread'[jobs'[q]] # "none"
    BY DEF JobsRun, Project
  <2>1. CASE q = p
    BY <1>2, <1>3, <1>4, <2>1 DEF Project, Active
  <2>2. CASE q # p
    <3>1. jobs'[q] = jobs[q] /\ jobs[q] # 0 /\ jobs[q] \in Alive
      BY <1>3, <2>2, JobFacts
    <3>2. queue[jobs[q]].status \in Active /\ Project(jobs[q]) = q
      BY <3>1, JobFacts
    <3>3. queue'[jobs[q]] = queue[jobs[q]] /\ thread'[jobs[q]] = thread[jobs[q]]
      BY <1>4, <1>10, <3>1
    <3> QED BY <3>1, <3>2, <3>3 DEF Project, Alive
  <2> QED BY <2>1, <2>2
<1>12. WorkersOwned'
  <2> SUFFICES ASSUME NEW j \in Alive'
               PROVE  /\ queue'[j].status \in Active \cup RunEnd
                      /\ ~queue'[j].deleted
                      /\ \E q \in Projects : jobs'[q] = j /\ j # 0
    BY DEF WorkersOwned, Owns
  <2>1. CASE j = i
    BY <1>1, <1>2, <1>3, <2>1 DEF Active
  <2>2. CASE j # i
    <3>1. j \in Alive /\ queue'[j] = queue[j] /\ Project(j) \in Owned /\ jobs[Project(j)] = j
      BY <1>9, <1>10, <2>2
    <3>2. Project(j) \in Projects \ {p} /\ j # 0
      BY <1>1, <3>1 DEF Owned
    <3>3. queue[j].status \in Active \cup RunEnd /\ ~queue[j].deleted
      BY <3>1, WorkerFacts
    <3> QED BY <1>3, <3>1, <3>2, <3>3
  <2> QED BY <2>1, <2>2
<1>13. AdmissionGate'
  <2>1. IsFiniteSet(Alive) /\ Cardinality(Alive) < N
    BY <1>1, WorkersAreJobs DEF Room
  <2>2. Cardinality(Alive') = Cardinality(Alive) + 1 /\ Cardinality(Alive) \in Nat
    BY <1>9, <2>1, FS_AddElement, FS_CardinalityType
  <2>3. Cardinality(Alive') <= N
    BY <2>1, <2>2, CoordinatorAssumption
  <2>4. ASSUME NEW j \in Alive
        PROVE  /\ ProjectOf[queue'[j].scenario] # ProjectOf[queue'[i].scenario]
               /\ Signature[queue'[j].scenario] = Signature[queue'[i].scenario]
    <3>1. queue'[j] = queue[j] /\ Project(j) \in Owned /\ jobs[Project(j)] = j
      BY <1>10
    <3>2. Project(j) # Project(i)
      BY <1>1, <3>1
    <3>3. Signature[queue[j].scenario] = Signature[queue[i].scenario]
      BY <3>1 DEF Compatible
    <3> QED BY <1>2, <3>1, <3>2, <3>3 DEF Project
  <2>5. ASSUME NEW j \in Alive, NEW k \in Alive, j # k
        PROVE  /\ ProjectOf[queue'[j].scenario] # ProjectOf[queue'[k].scenario]
               /\ Signature[queue'[j].scenario] = Signature[queue'[k].scenario]
    BY <1>10, <2>5 DEF OwnerInv, AdmissionGate, Alive, Project
  <2>6. \A j, k \in Alive' : j # k =>
          /\ ProjectOf[queue'[j].scenario] # ProjectOf[queue'[k].scenario]
          /\ Signature[queue'[j].scenario] = Signature[queue'[k].scenario]
    BY <1>9, <2>4, <2>5
  <2> QED BY <2>3, <2>6 DEF AdmissionGate, Alive, Project
<1>14. TerminalKept
  BY <1>1, <1>2 DEF TerminalKept, Terminal, RunEnd
<1> QED BY <1>2, <1>5, <1>6, <1>7, <1>8, <1>11, <1>12, <1>13, <1>14 DEF OwnerInv

\* A dispatch pass claims its first candidate, or dies.
LEMMA ClaimStep == ASSUME OwnerInv, DispatchClaim \/ DispatchDies PROVE OwnerInv' /\ TerminalKept
<1> PICK i : i = Min(todo)
  OBVIOUS
<1>1. todo # {} /\ todo \in SUBSET Items
  BY DEF DispatchClaim, DispatchDies, OwnerInv, CoordinatorTypeOK
<1>2. i \in todo
  BY <1>1, FirstCandidate
<1>3. CASE DispatchClaim
  <2>1. /\ Room /\ Compatible(i) /\ ClaimQueueItem(i) /\ todo' = todo \ {i}
        /\ jobs' = IF queue'[i].status = "starting" THEN [jobs EXCEPT ![Project(i)] = i] ELSE jobs
        /\ thread' = IF queue'[i].status = "starting" THEN [thread EXCEPT ![i] = "task"] ELSE thread
        /\ UNCHANGED <<proc, loop, online, stopreq, hold>>
    BY <1>3 DEF DispatchClaim
  <2>2. CASE queue'[i].status = "starting"
    BY <1>2, <2>1, <2>2, ClaimWithWorker
  <2>3. CASE queue'[i].status # "starting"
    BY <1>2, <2>1, <2>3, ClaimWithoutWorker DEF OwnerInv, CoordinatorTypeOK
  <2> QED BY <2>2, <2>3
<1>4. CASE DispatchDies
  <2>1. /\ UNCHANGED storeVars \/ ClaimQueueItem(i)
        /\ loop' = "dead" /\ todo' = {} /\ UNCHANGED <<proc, online, jobs, thread, stopreq, hold>>
    BY <1>4 DEF DispatchDies
  <2>2. CASE ClaimQueueItem(i)
    BY <1>2, <2>1, <2>2, ClaimWithoutWorker
  <2>3. CASE UNCHANGED storeVars
    <3>1. CoordinatorTypeOK' /\ TodoHeads' /\ Phases' /\ Alive' = Alive
      BY <2>1, <2>3 DEF OwnerInv, CoordinatorTypeOK, TodoHeads, Phases, Alive
    <3>2. \A p \in Projects : jobs'[p] \in {0, jobs[p]} /\ (jobs'[p] # 0 => jobs'[p] \in Alive')
      BY <2>1, <3>1, JobFacts
    <3>3. \A j \in Alive' : proc' = "stopping" \/ \E p \in Projects : jobs'[p] = j
      BY <2>1, <3>1 DEF OwnerInv, WorkersOwned, Owns
    <3>4. (\A j \in Items : thread'[j] \in {"none", thread[j]}) /\ (proc' = "up" => proc = "up")
      BY <2>1
    <3> QED BY <2>3, <3>1, <3>2, <3>3, <3>4, QuietStep
  <2> QED BY <2>1, <2>2, <2>3
<1> QED BY <1>3, <1>4

-----------------------------------------------------------------------------
(* The theorems for every disruption.                                      *)

\* At first the service is down and nothing runs.
LEMMA OwnerInit == CoordinatorInit => OwnerInv
<1> SUFFICES ASSUME CoordinatorInit PROVE OwnerInv
  OBVIOUS
<1>1. StoreInv /\ Alive = {} /\ todo = {}
  BY StoreInvInit DEF CoordinatorInit, Alive
<1>2. CoordinatorTypeOK
  BY DEF CoordinatorInit, CoordinatorTypeOK
<1>3. JobsRun /\ WorkersOwned /\ TodoHeads
  BY <1>1 DEF CoordinatorInit, JobsRun, WorkersOwned, TodoHeads
<1>4. Phases /\ RunsMarked
  BY <1>1 DEF CoordinatorInit, Phases, RunsMarked
<1>5. AdmissionGate
  <2>1. Cardinality({}) <= N
    BY FS_EmptySet, CoordinatorAssumption
  <2> QED BY <1>1, <2>1 DEF AdmissionGate, Alive
<1> QED BY <1>1, <1>2, <1>3, <1>4, <1>5 DEF OwnerInv

\* Every step keeps the invariant, and revives no row while the service is up.
LEMMA OwnerNext == OwnerInv /\ [CoordinatorNext]_vars => OwnerInv' /\ TerminalKept
<1> SUFFICES ASSUME OwnerInv, [CoordinatorNext]_vars PROVE OwnerInv' /\ TerminalKept
  OBVIOUS
<1>1. CASE Dispatch
  BY <1>1, LoopStep, ClaimStep DEF Dispatch
<1>2. ASSUME NEW i \in Items, TaskStart(i) \/ Worker(i) \/ StopThread(i) \/ StopBegin(i)
      PROVE  OwnerInv' /\ TerminalKept
  BY <1>2, WorkersStep, LoopStep
<1>3. ASSUME NEW p \in Projects, Finish(p) \/ FinishFails(p) \/ Cut(p) \/ Unmount(p) \/ Mount(p)
      PROVE  OwnerInv' /\ TerminalKept
  BY <1>3, EndStep, LoopStep
<1>4. CASE StopEnd \/ Shutdown \/ ProcessEnds \/ Start \/ Request
  BY <1>4, StopEndStep, ProcessStep, RequestStep
<1>5. CASE UNCHANGED vars
  <2>1. StoreInv' /\ TerminalKept
    BY <1>5, StoreInvStep DEF OwnerInv, vars, storeVars, TerminalKept
  <2>2. CoordinatorTypeOK' /\ JobsRun' /\ WorkersOwned' /\ TodoHeads'
    BY <1>5 DEF OwnerInv, vars, storeVars, coordVars, CoordinatorTypeOK, JobsRun, WorkersOwned, TodoHeads,
                Alive, Owns, Owned, Project, IsHead, Queued, InProject
  <2>3. Phases' /\ RunsMarked' /\ AdmissionGate'
    BY <1>5 DEF OwnerInv, vars, storeVars, coordVars, Phases, RunsMarked, AdmissionGate, Alive, Project
  <2> QED BY <2>1, <2>2, <2>3 DEF OwnerInv
<1> QED BY <1>1, <1>2, <1>3, <1>4, <1>5 DEF CoordinatorNext

\* What the scheduler owns fits together, and the databases keep their
\* invariant under its calls, whatever is disturbed.
THEOREM OwnershipInvariant == CoordinatorSpec => []OwnerInv
BY OwnerInit, OwnerNext, PTL DEF CoordinatorSpec

\* Every variable of the scheduler keeps its range.
THEOREM CoordinatorTypes == CoordinatorSpec => []CoordinatorTypeOK
<1>1. OwnerInv => CoordinatorTypeOK
  BY DEF OwnerInv
<1> QED BY <1>1, OwnershipInvariant, PTL

\* At most N workers are alive, of different projects and of one signature,
\* those that a shutdown cut off included.
THEOREM AdmissionGateHolds == CoordinatorSpec => []AdmissionGate
<1>1. OwnerInv => AdmissionGate
  BY DEF OwnerInv
<1> QED BY <1>1, OwnershipInvariant, PTL

\* The recovery finds every run that is marked active, although a failed
\* write, a cut and a late worker leave runs and rows in different states.
THEOREM RunsStayRecoverable == CoordinatorSpec => []RecoverableRuns
<1>1. OwnerInv => RecoverableRuns
  BY DEF OwnerInv, StoreInv, Rows
<1> QED BY <1>1, OwnershipInvariant, PTL

\* While the service is up no late write revives a row that ended.
THEOREM EndedRowsStayEnded == CoordinatorSpec => TerminalIsFinal
<1>1. OwnerInv /\ [CoordinatorNext]_vars =>
        [proc = "up" => \A i \in Items : queue[i].status \in Terminal => queue'[i].status = queue[i].status]_vars
  BY OwnerNext DEF TerminalKept
<1> QED BY <1>1, OwnershipInvariant, PTL DEF CoordinatorSpec, TerminalIsFinal

\* Only a deletion of assets deletes uploads, and it looks at the runs first.
LEMMA DeletionsAsk ==
  ASSUME OwnerInv, [CoordinatorNext]_vars,
         NEW a \in Assets, NEW i \in Items, uploads[a] = "present", uploads'[a] = "deleted",
         thread[i] \in {"task"} \cup Working
  PROVE  a \notin revisions[runs[i].revision].bind
<1>1. Request
  <2>1. \/ ~UNCHANGED uploads
    OBVIOUS
  <2>2. CASE Dispatch
    BY <2>1, <2>2 DEF Dispatch, DispatchBegin, DispatchSkip, DispatchClaim, DispatchDies, storeVars, ClaimQueueItem,
                      ClaimFrozen, ClaimStale, ClaimDraft, ClaimStarts, ClaimRefused
  <2>3. ASSUME NEW j \in Items, TaskStart(j) \/ Worker(j) \/ StopThread(j) \/ StopBegin(j) PROVE FALSE
    BY <2>1, <2>3 DEF TaskStart, Worker, StopThread, StopBegin, storeVars, UpdateRun, Prepared, PreparationFails,
                      Initialized, RunBegins, StopSeen, Solved, RunFails, RunCompletes, ReturnsToNobody
  <2>4. ASSUME NEW p \in Projects, Finish(p) \/ FinishFails(p) \/ Cut(p) \/ Unmount(p) \/ Mount(p) PROVE FALSE
    BY <2>1, <2>4 DEF Finish, FinishFails, Cut, Unmount, Mount, storeVars, FinishRun
  <2>5. CASE StopEnd \/ Shutdown \/ ProcessEnds \/ Start
    BY <2>1, <2>5 DEF StopEnd, Shutdown, ProcessEnds, Start, storeVars, UpdateRun, RecoverInterruptedRuns
  <2>6. CASE UNCHANGED vars
    BY <2>1, <2>6 DEF vars, storeVars
  <2> QED BY <2>2, <2>3, <2>4, <2>5, <2>6 DEF CoordinatorNext
<1>2. proc = "up" /\ (DraftRequest \/ QueueRequest)
  BY <1>1 DEF Request, EditRequest, Serving
<1>3. DraftRequest
  BY <1>2, QueueKeepsContents DEF OwnerInv
<1>4. \E A \in SUBSET Assets : BatchDeleteAssets(A) /\ a \in A
  <2>1. uploads \in [Assets -> {"absent", "present", "archived", "deleted"}]
    BY DEF OwnerInv, StoreInv, StoreTypeOK
  <2> QED BY <1>3, <2>1 DEF DraftRequest, IngestUpload, CreateScenario, ArchiveAsset, DuplicateScenario, UpdateScenario,
             ArchiveScenario, DeleteScenario, BatchDeleteAssets, CreateInputRevision, ValidateInputRevision
<1>5. runs[i].status \in Active
  BY <1>2 DEF OwnerInv, RunsMarked
<1> QED BY <1>4, <1>5 DEF BatchDeleteAssets, RuntimeLocked

\* No upload is deleted under a worker that was frozen on it.
THEOREM LiveRunsSpared == CoordinatorSpec => DeletionSparesLiveRuns
<1>1. OwnerInv /\ [CoordinatorNext]_vars =>
        [\A a \in Assets, i \in Items :
           /\ uploads[a] = "present" /\ uploads'[a] = "deleted"
           /\ thread[i] \in {"task"} \cup Working
           => a \notin revisions[runs[i].revision].bind]_vars
  BY DeletionsAsk
<1> QED BY <1>1, OwnershipInvariant, PTL DEF CoordinatorSpec, DeletionSparesLiveRuns

-----------------------------------------------------------------------------
(* Crashes and shutdowns alone.  A failed final write leaves an active row *)
(* without a job, a dead loop likewise, and a project that is away during  *)
(* the start is not recovered: the assumption below is needed.             *)

OnlyStops == Disruptions \subseteq {"crash", "shutdown"}

\* Every project takes part in the recovery, and active rows have jobs.
StartedInv == OwnerInv /\ online = Projects /\ ActiveRowsOwned

\* A job is an active row, so only the other half of the property is at stake.
LEMMA RowsOwned ==
  ASSUME OwnerInv,
         proc = "up" => \A i \in Items : queue[i].status \in Active => \E p \in Projects : jobs[p] = i
  PROVE  ActiveRowsOwned
<1>1. \A i \in Items : i # 0
  BY StoreAssumption DEF Items
<1>2. \A p \in Projects, i \in Items : Owns(p, i) => queue[i].status \in Active
  BY JobFacts DEF Owns
<1> QED BY <1>1, <1>2 DEF ActiveRowsOwned, Owns

\* A worker reports on its own row.
LEMMA ReportsStart ==
  ASSUME OwnerInv, proc = "up", NEW i \in Alive, Reported(i), UNCHANGED <<jobs, todo>>
  PROVE  \A j \in Items : queue'[j].status \in Active => queue[j].status \in Active
<1>1. i \in Items /\ queue[i].status \in Active
  BY WorkerFacts
<1>2. ASSUME NEW st, UpdateRun(i, st) PROVE \A j \in Items \ {i} : queue'[j] = queue[j]
  BY <1>2 DEF UpdateRun, OwnerInv, StoreInv, StoreTypeOK
<1>3. \A j \in Items \ {i} : queue'[j] = queue[j]
  BY <1>2 DEF Reported, storeVars
<1> QED BY <1>1, <1>3

\* Each worker step is a report on a worker that is alive.
LEMMA WorkersReport ==
  ASSUME NEW i \in Items, TaskStart(i) \/ Worker(i)
  PROVE  /\ thread[i] # "none"
         /\ UNCHANGED storeVars \/ \E st \in Active \cup Results : UpdateRun(i, st)
         /\ UNCHANGED <<proc, online, jobs, todo>>
BY DEF TaskStart, Worker, Goes, Prepared, PreparationFails, Initialized, RunBegins, StopSeen, Solved, RunFails,
       RunCompletes, ReturnsToNobody, Active, Results, Working, InSession

\* While the service stays up, an active row was active and keeps its job, or
\* was claimed and gets one.
LEMMA RowsOwnedNext ==
  ASSUME OnlyStops, StartedInv, [CoordinatorNext]_vars, proc' = "up"
  PROVE  \A i \in Items : queue'[i].status \in Active => \E p \in Projects : jobs'[p] = i
<1> DEFINE Goal == \A i \in Items : queue'[i].status \in Active => \E p \in Projects : jobs'[p] = i
<1> OwnerInv /\ OwnerInv'
  BY OwnerNext DEF StartedInv
<1>1. proc = "up" => \A i \in Items : queue[i].status \in Active => \E p \in Projects : jobs[p] = i
  BY DEF StartedInv, ActiveRowsOwned, Owns
<1>2. ASSUME proc = "up", UNCHANGED jobs, \A i \in Items : queue'[i].status \in Active => queue[i].status \in Active
      PROVE  Goal
  BY <1>1, <1>2
<1>3. ASSUME proc = "up", UNCHANGED <<storeVars, jobs>> PROVE Goal
  BY <1>2, <1>3 DEF storeVars
<1>4. ASSUME DispatchClaim PROVE Goal
  <2> PICK i : i = Min(todo)
    OBVIOUS
  <2>1. i \in todo
    <3>1. todo # {} /\ todo \in SUBSET Items
      BY <1>4 DEF DispatchClaim, OwnerInv, CoordinatorTypeOK
    <3> QED BY <3>1, FirstCandidate
  <2>2. /\ i \in Items /\ ~queue[i].deleted /\ proc = "up" /\ Project(i) \in Projects /\ jobs[Project(i)] = 0
    BY <2>1, CandidateFacts DEF Owned
  <2>3. /\ ClaimQueueItem(i)
        /\ jobs' = IF queue'[i].status = "starting" THEN [jobs EXCEPT ![Project(i)] = i] ELSE jobs
    BY <1>4 DEF DispatchClaim
  <2>4. /\ queue'[i].status \in {"starting", "cancelled"}
        /\ \A j \in Items \ {i} : queue'[j] = queue[j]
    BY <2>2, <2>3, ClaimFacts DEF OwnerInv
  <2> PICK p : p = Project(i)
    OBVIOUS
  <2>5. ASSUME NEW j \in Items, queue'[j].status \in Active PROVE \E q \in Projects : jobs'[q] = j
    <3>1. CASE j = i
      <4>1. queue'[i].status = "starting" /\ jobs' = [jobs EXCEPT ![p] = i]
        BY <2>3, <2>4, <2>5, <3>1 DEF Active
      <4>2. jobs'[p] = i
        BY <2>2, <4>1 DEF OwnerInv, CoordinatorTypeOK
      <4> QED BY <2>2, <3>1, <4>2
    <3>2. CASE j # i
      <4>1. PICK q \in Projects : jobs[q] = j
        BY <1>1, <2>2, <2>4, <2>5, <3>2
      <4>2. j # 0 /\ q # p
        BY <2>2, <4>1, StoreAssumption DEF Items
      <4>3. jobs'[q] = jobs[q]
        BY <2>3, <4>2 DEF OwnerInv, CoordinatorTypeOK
      <4> QED BY <4>1, <4>3
    <3> QED BY <3>1, <3>2
  <2> QED BY <2>5
<1>5. ASSUME NEW p \in Projects, Finish(p) PROVE Goal
  <2> PICK i : i = jobs[p]
    OBVIOUS
  <2>1. /\ i \in Items /\ i \in Alive /\ queue[i].status \in Active /\ thread[i] \in RunEnd /\ FinishRun(i, thread[i])
        /\ jobs' = [jobs EXCEPT ![p] = 0] /\ proc = "up"
    BY <1>5, JobFacts, WorkerFacts, StatesDiffer DEF Finish
  <2>2. PICK st \in RunEnd : st = thread[i]
    BY <2>1
  <2>3. Marks({i}, st)
    BY <2>1, <2>2, EndFacts DEF OwnerInv
  <2>4. ASSUME NEW j \in Items, queue'[j].status \in Active PROVE \E q \in Projects : jobs'[q] = j
    <3>1. j # i /\ queue[j].status \in Active
      BY <2>3, <2>4, StatesDiffer DEF Marks
    <3>2. PICK q \in Projects : jobs[q] = j
      BY <1>1, <2>1, <3>1
    <3>3. jobs'[q] = jobs[q]
      BY <2>1, <3>1, <3>2 DEF OwnerInv, CoordinatorTypeOK
    <3> QED BY <3>2, <3>3
  <2> QED BY <2>4
<1>6. ASSUME Start PROVE Goal
  <2>1. RecoverInterruptedRuns(Projects)
    BY <1>6 DEF Start, StartedInv
  <2> DEFINE lost == {i \in Items : queue[i].status \in Active /\ \E p \in Projects : InProject(i, p)}
  <2>2. queue' = WithStatus(lost, "interrupted") /\ lost \in SUBSET Items
    BY <2>1 DEF RecoverInterruptedRuns
  <2>3. ASSUME NEW i \in Items, queue[i].status \in Active PROVE i \in lost
    <3>1. queue[i].scenario \in Scenarios
      BY <2>3, RowType DEF OwnerInv, StoreInv, Rows, Active
    <3> QED BY <2>3, <3>1, StoreAssumption DEF InProject
  <2> HIDE DEF lost
  <2>4. Marks(lost, "interrupted")
    BY <2>2, WithStatusMarks DEF OwnerInv, StoreInv
  <2>5. \A i \in Items : queue'[i].status \notin Active
    BY <2>3, <2>4 DEF Marks, Active
  <2> QED BY <2>5
<1> HIDE DEF Goal
<1>7. ASSUME DispatchBegin \/ DispatchSkip PROVE Goal
  <2>1. UNCHANGED <<storeVars, proc, jobs>>
    BY <1>7 DEF DispatchBegin, DispatchSkip
  <2> QED BY <1>3, <2>1
<1>8. ~DispatchDies /\ \A p \in Projects : ~FinishFails(p) /\ ~Cut(p) /\ ~Unmount(p)
  BY DEF OnlyStops, DispatchDies, FinishFails, Unmount, Cut
<1>9. ASSUME NEW i \in Items, TaskStart(i) \/ Worker(i) PROVE Goal
  <2>1. i \in Alive /\ Reported(i) /\ UNCHANGED <<proc, jobs, todo>>
    BY <1>9, WorkersReport, StatesDiffer DEF Alive, Reported
  <2>2. \A j \in Items : queue'[j].status \in Active => queue[j].status \in Active
    BY <2>1, ReportsStart
  <2> QED BY <1>2, <2>1, <2>2
<1>10. ASSUME NEW i \in Items, StopThread(i) \/ StopBegin(i) PROVE Goal
  <2>1. UNCHANGED <<storeVars, proc, jobs>>
    BY <1>10 DEF StopThread, StopBegin
  <2> QED BY <1>3, <2>1
<1>11. ASSUME NEW p \in Projects, Mount(p) PROVE Goal
  <2>1. UNCHANGED <<storeVars, proc, jobs>>
    BY <1>11 DEF Mount
  <2> QED BY <1>3, <2>1
<1>12. ASSUME StopEnd PROVE Goal
  <2> PICK i : i = hold
    OBVIOUS
  <2>1. /\ i # 0 /\ UpdateRun(i, "stopping") /\ UNCHANGED <<proc, jobs, todo>>
    BY <1>12 DEF StopEnd
  <2>2. i \in Alive
    BY <2>1, JobFacts DEF OwnerInv, CoordinatorTypeOK
  <2>3. Reported(i)
    BY <2>1 DEF Reported, Active
  <2>4. \A j \in Items : queue'[j].status \in Active => queue[j].status \in Active
    BY <2>1, <2>2, <2>3, ReportsStart
  <2> QED BY <1>2, <2>1, <2>4
<1>13. ~Shutdown /\ ~ProcessEnds
  BY DEF Shutdown, ProcessEnds
<1>14. ASSUME Request PROVE Goal
  <2>1. proc = "up" /\ (DraftRequest \/ QueueRequest) /\ UNCHANGED jobs
    BY <1>14 DEF Request, EditRequest, Serving, coordVars
  <2>2. \A j \in Items : queue'[j].status \in Active => queue[j].status \in Active
    BY <2>1, RequestFacts DEF OwnerInv
  <2> QED BY <1>2, <2>1, <2>2
<1>15. ASSUME UNCHANGED vars PROVE Goal
  BY <1>3, <1>15 DEF vars, coordVars
<1>16. Goal
  BY <1>4, <1>5, <1>6, <1>7, <1>8, <1>9, <1>10, <1>11, <1>12, <1>13, <1>14, <1>15 DEF CoordinatorNext, Dispatch
<1> QED BY <1>16 DEF Goal

\* Projects stay available and active rows keep their jobs.
LEMMA StartedNext ==
  ASSUME OnlyStops, StartedInv, [CoordinatorNext]_vars
  PROVE  StartedInv'
<1>1. OwnerInv'
  BY OwnerNext DEF StartedInv
<1>2. online' = Projects
  <2>1. online = Projects
    BY DEF StartedInv
  <2>2. CASE Dispatch
    BY <2>1, <2>2 DEF Dispatch, DispatchBegin, DispatchSkip, DispatchClaim, DispatchDies
  <2>3. ASSUME NEW i \in Items, TaskStart(i) \/ Worker(i) \/ StopThread(i) \/ StopBegin(i) PROVE online' = Projects
    <3>1. UNCHANGED online
      BY <2>3, WorkersReport DEF StopThread, StopBegin
    <3> QED BY <2>1, <3>1
  <2>4. ASSUME NEW p \in Projects, Finish(p) \/ FinishFails(p) \/ Cut(p) \/ Unmount(p) \/ Mount(p)
        PROVE  online' = Projects
    BY <2>1, <2>4 DEF Finish, FinishFails, Cut, Unmount, Mount, OnlyStops
  <2>5. CASE StopEnd \/ Shutdown \/ ProcessEnds \/ Start \/ Request
    BY <2>1, <2>5 DEF StopEnd, Shutdown, ProcessEnds, Start, Request, coordVars
  <2>6. CASE UNCHANGED vars
    BY <2>1, <2>6 DEF vars, coordVars
  <2> QED BY <2>2, <2>3, <2>4, <2>5, <2>6 DEF CoordinatorNext
<1>3. ActiveRowsOwned'
  <2>1. \A i \in Items : i # 0
    BY StoreAssumption DEF Items
  <2>2. ASSUME NEW p \in Projects, NEW i \in Items, jobs'[p] = i PROVE queue'[i].status \in Active
    BY <1>1, <2>1, <2>2 DEF OwnerInv, JobsRun
  <2>3. proc' = "up" => \A i \in Items : queue'[i].status \in Active => \E p \in Projects : jobs'[p] = i
    BY RowsOwnedNext
  <2> QED BY <2>1, <2>2, <2>3 DEF ActiveRowsOwned, Owns
<1> QED BY <1>1, <1>2, <1>3 DEF StartedInv

\* If nothing but crashes and shutdowns disturbs the service, the rows that
\* are marked active are exactly those the scheduler owns while it is up.
THEOREM ActiveRowsHaveJobs == ASSUME OnlyStops PROVE CoordinatorSpec => []ActiveRowsOwned
<1>1. CoordinatorInit => StartedInv
  BY OwnerInit DEF CoordinatorInit, StartedInv, ActiveRowsOwned
<1>2. StartedInv /\ [CoordinatorNext]_vars => StartedInv'
  BY StartedNext
<1>3. StartedInv => ActiveRowsOwned
  BY DEF StartedInv
<1> QED BY <1>1, <1>2, <1>3, PTL DEF CoordinatorSpec

-----------------------------------------------------------------------------
(* Crashes alone: the service keeps what the databases assume of it.       *)

OnlyCrashes == Disruptions \subseteq {"crash"} /\ Results \subseteq Outcomes

\* Without a shutdown no worker outlives its job.
ServingInv == StartedInv /\ proc # "stopping"

\* Only a shutdown leads to a process that is stopping.
LEMMA ServingNext ==
  ASSUME OnlyCrashes, ServingInv, [CoordinatorNext]_vars
  PROVE  ServingInv'
<1>1. StartedInv'
  BY StartedNext DEF ServingInv, OnlyCrashes, OnlyStops
<1>2. proc' # "stopping"
  <2>1. proc # "stopping"
    BY DEF ServingInv
  <2>2. CASE Dispatch
    BY <2>1, <2>2 DEF Dispatch, DispatchBegin, DispatchSkip, DispatchClaim, DispatchDies
  <2>3. ASSUME NEW i \in Items, TaskStart(i) \/ Worker(i) \/ StopThread(i) \/ StopBegin(i) PROVE proc' = proc
    BY <2>3, WorkersReport DEF StopThread, StopBegin
  <2>4. ASSUME NEW p \in Projects, Finish(p) \/ FinishFails(p) \/ Cut(p) \/ Unmount(p) \/ Mount(p)
        PROVE  proc' = proc
    BY <2>4 DEF Finish, FinishFails, Cut, Unmount, Mount
  <2>5. CASE StopEnd \/ Shutdown \/ ProcessEnds \/ Start \/ Request
    BY <2>1, <2>5 DEF StopEnd, Shutdown, ProcessEnds, Start, Request, coordVars, OnlyCrashes
  <2>6. CASE UNCHANGED vars
    BY <2>1, <2>6 DEF vars, coordVars
  <2> QED BY <2>1, <2>2, <2>3, <2>4, <2>5, <2>6 DEF CoordinatorNext
<1> QED BY <1>1, <1>2 DEF ServingInv

\* Every step of the service is a request or a call the store may assume.
LEMMA ServiceCalls ==
  ASSUME OnlyCrashes, ServingInv, [CoordinatorNext]_vars
  PROVE  [StoreNext]_storeVars
<1> OwnerInv /\ ActiveRowsOwned
  BY DEF ServingInv, StartedInv
<1>1. ASSUME UNCHANGED storeVars PROVE [StoreNext]_storeVars
  BY <1>1
<1>2. ASSUME NEW i \in Alive, NEW st \in Active \cup Results, UpdateRun(i, st) PROVE StoreNext
  <2>1. i \in Items /\ queue[i].status \in Active
    <3>1. proc = "up"
      BY DEF ServingInv, OwnerInv, Phases, CoordinatorTypeOK
    <3> QED BY <3>1, WorkerFacts
  <2>2. st \in Active \cup Outcomes
    BY DEF OnlyCrashes
  <2> QED BY <1>2, <2>1, <2>2 DEF StoreNext, RuntimeCall
<1>3. ASSUME DispatchClaim PROVE StoreNext
  <2> PICK i : i = Min(todo)
    OBVIOUS
  <2>1. i \in todo
    <3>1. todo # {} /\ todo \in SUBSET Items
      BY <1>3 DEF DispatchClaim, OwnerInv, CoordinatorTypeOK
    <3> QED BY <3>1, FirstCandidate
  <2> PICK p : p = Project(i)
    OBVIOUS
  <2>2. i \in Items /\ p \in Projects /\ p \notin Owned /\ IsHead(i, p) /\ proc = "up"
    BY <2>1, CandidateFacts
  <2>3. ASSUME NEW j \in Items, InProject(j, p), queue[j].status \in Active PROVE FALSE
    <3>1. PICK q \in Projects : jobs[q] = j /\ j # 0
      BY <2>2, <2>3 DEF ActiveRowsOwned, Owns
    <3>2. Project(j) = q
      BY <3>1, JobFacts
    <3> QED BY <2>2, <2>3, <3>1, <3>2 DEF InProject, Project, Owned
  <2>4. ClaimQueueItem(i)
    BY <1>3 DEF DispatchClaim
  <2> QED BY <2>2, <2>3, <2>4 DEF StoreNext, RuntimeCall
<1>4. ASSUME DispatchBegin \/ DispatchSkip PROVE [StoreNext]_storeVars
  BY <1>1, <1>4 DEF DispatchBegin, DispatchSkip
<1>5. ASSUME NEW i \in Items, TaskStart(i) \/ Worker(i) PROVE [StoreNext]_storeVars
  <2>1. i \in Alive /\ (UNCHANGED storeVars \/ \E st \in Active \cup Results : UpdateRun(i, st))
    BY <1>5, WorkersReport DEF Alive
  <2> QED BY <1>2, <2>1
<1>6. ASSUME NEW i \in Items, StopThread(i) \/ StopBegin(i) PROVE [StoreNext]_storeVars
  BY <1>6 DEF StopThread, StopBegin
<1>7. ASSUME NEW p \in Projects, Finish(p) PROVE StoreNext
  <2> PICK i : i = jobs[p]
    OBVIOUS
  <2>1. i \in Items /\ queue[i].status \in Active /\ FinishRun(i, thread[i]) /\ thread[i] \in Outcomes
    BY <1>7, JobFacts, WorkerFacts DEF Finish, OnlyCrashes
  <2> QED BY <2>1 DEF StoreNext, RuntimeCall
<1>8. ASSUME NEW p \in Projects, Unmount(p) \/ Mount(p) PROVE [StoreNext]_storeVars
  BY <1>8 DEF Unmount, Mount
<1>9. ~DispatchDies /\ \A p \in Projects : ~FinishFails(p) /\ ~Cut(p)
  BY DEF OnlyCrashes, DispatchDies, FinishFails, Cut, ServingInv
<1>10. ASSUME StopEnd PROVE StoreNext
  <2> PICK i : i = hold
    OBVIOUS
  <2>1. i # 0 /\ UpdateRun(i, "stopping")
    BY <1>10 DEF StopEnd
  <2>2. i \in Alive
    BY <2>1, JobFacts DEF OwnerInv, CoordinatorTypeOK
  <2> QED BY <1>2, <2>1, <2>2 DEF Active
<1>11. ASSUME Shutdown \/ ProcessEnds PROVE [StoreNext]_storeVars
  BY <1>11 DEF Shutdown, ProcessEnds
<1>12. ASSUME Start PROVE StoreNext
  BY <1>12 DEF Start, StoreNext, RuntimeCall, OwnerInv, CoordinatorTypeOK
<1>13. ASSUME Request PROVE StoreNext
  BY <1>13 DEF Request, EditRequest, StoreNext
<1>14. ASSUME UNCHANGED vars PROVE [StoreNext]_storeVars
  BY <1>14 DEF vars
<1> QED BY <1>3, <1>4, <1>5, <1>6, <1>7, <1>8, <1>9, <1>10, <1>11, <1>12, <1>13, <1>14 DEF CoordinatorNext, Dispatch

\* The service under crashes implements the store's specification, in which
\* the scheduler claims heads of idle projects only and reports on active rows.
THEOREM ServiceImplementsStore == ASSUME OnlyCrashes PROVE CoordinatorSpec => StoreSpec
<1>1. CoordinatorInit => StoreInit /\ ServingInv
  BY OwnerInit DEF CoordinatorInit, ServingInv, StartedInv, ActiveRowsOwned
<1>2. ServingInv /\ [CoordinatorNext]_vars => ServingInv' /\ [StoreNext]_storeVars
  BY ServingNext, ServiceCalls
<1> QED BY <1>1, <1>2, PTL DEF CoordinatorSpec, StoreSpec

\* Hence a scenario is not run twice at once by the whole service either.
THEOREM ServiceRunsOnce == ASSUME OnlyCrashes PROVE CoordinatorSpec => []OneLiveItemPerScenario
BY ServiceImplementsStore, OneLiveItem, PTL
=============================================================================
