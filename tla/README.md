# Taichi-Flow: models, model checking and proofs

Taichi-Flow is a debris-flow simulator with a workbench around it: a FastAPI
service keeps projects, inputs, scenarios and a run queue in one SQLite
database per project, a coordinator runs queued scenarios in worker threads of
the same process, and a browser client edits and follows them. This directory
models what depends on the order of events: the queue and everything that
reads or writes it, the scheduler, the worker threads, stop, shutdown, crash
and restart; the Taichi runtime that the workers share; how a solver's fields
are filled; and the solver's loop with its retries, outputs, windows and
checkpoints. TLC checks all of it, TLAPS proves the properties of the database
layer, of the shared runtime and of the loop. Paths below are relative to the
repository (`src/`).

## 1. Inventory

| Component | State | Operations | Hard because |
|---|---|---|---|
| `WorkbenchStore` (`api/services/workbench_store.py`) | per project: `queue_items`, `scenarios` + `scenario_draft_bindings`, `uploads`, `input_revisions`, `simulation_runs`, map state, exports; a catalog of projects | upload, archive, delete assets; create, duplicate, save, archive, delete scenarios; freeze and validate revisions; enqueue, retry, reorder, release, cancel, remove; claim, update, finish, recover | ten handlers write one scenario status column; checks and writes are in different transactions; threads of the scheduler write the same tables |
| `SimulationCoordinator`, `RuntimeRunExecutor` (`api/services/scheduler.py`) | `_active` jobs, the dispatch task, per run a task, a worker thread, a stop event, a session | dispatch pass, claim, execute, request stop, stop (shutdown) | event loop and threads, cancellation that a thread ignores, failure of a database write |
| `RuntimeSession` (`api/services/runtime_session.py`, `runtime_profile.py`) | stop flag, the runtime lock and active set, process environment | initialize, run to completion, reset, dispose | process-wide state shared by sessions |
| `BackendManager` (`edda/backend`) | the active Taichi signature | initialize, reset | check and act in two steps |
| set-up of a solver (`EDDASolver.initialize`, `edda_input_mapper.py`) | the solver's fields, the manifest of consumed inputs | fill from DEM and configuration, replace by files, configure hooks | fields derived from fields that are replaced later; fallbacks that are only logged |
| routes and lifespan (`api/routes/*`, `api/app.py`) | none | every request; start: recover, start coordinator; shutdown | `async def` handlers call the store between awaits, some in a thread pool |
| results and exports (`result_service.py`, `results_v2.py`) | `exports` rows, files of a run directory | create, run, download, delete an export | concurrent jobs share file names; a crash leaves `running` |
| realtime channel (`api/websocket`) | subscriptions, a replaced client | subscribe, push, replace | late messages of an old subscription |
| map state and raster engine | layers, sources | read, update with the version that was read | - |
| parameter catalog, templates, resolvers, mapper, parsers | none | conversions | volume, not order |
| project catalog and migrations | `catalog.json`, schema versions | open, move, migrate | one shot |
| `TimeStepper`, `EDDASolver` (`edda/solver`) | time, step, carried step, output count, maxima and samples | candidate step, retry, accept, output, finish, save and load state | two cuts of the step at each of three places; a run cut into windows must go on as one |
| DFS step (`dfs_dynamic_wave.py`, `double_layer_soil.py`) | some sixty Taichi fields, a workspace, host values | an attempt of about thirty kernels, rejection at two places, commit | a rejected attempt must leave nothing behind, for every combination of gates |
| landslide schedule (`dfs_dynamic_wave.py`) | fired cells on host and device, candidates | stage, discard, commit, restore | three ways of staging with fallbacks |
| modular step (`hydrology`, `stability`, `erosion`, `deposition`, `rheology`, `shallow_water`) | the same fields | one step of each component | derived fields that others leave stale |
| arithmetic of the kernels | - | - | floating point |
| input and output formats (`edda/io`, `edda/config`) | none | read, write | formats |
| browser client (`frontend/taichi-flow/src`) | a store of server state | load, save, poll | overlapping requests |
| desktop shell, scripts, examples, tests | none | start-up | - |

How they interact. A request handler of the routes runs on the event loop and
calls the store synchronously, so two handlers never interleave inside a store
call; the exceptions are uploads, parameter imports and the legacy migration,
which run in a thread pool. The dispatch loop is a task of the same event
loop: it asks the store for the next queued row of every project, claims rows
and starts a task per claimed run; the task starts a worker thread and, when
the thread returns, calls `finish_run`. The worker writes its progress to the
store itself (`update_run`). A stop request sets an event that a second thread
hands to the session when there is one. On start the service calls
`recover_interrupted_runs` before the coordinator starts.

A worker thread drives one `RuntimeSession`: it sets the environment of its
profile, registers itself, has Taichi initialized unless it is, builds a
solver, applies the scenario's files to it, runs it, and disposes of it all;
Taichi, its signature, the count of sessions and the environment belong to the
process. The solver calls back after each accepted step; the callback raises
when the run was stopped. A run may end at a window, be saved, and be continued
by another solver.

What makes the components correct:

* queue: one live row per scenario, a removed row has no work, places are
  distinct, a row only moves forward;
* scenarios: a draft binds existing inputs, a run uses what was queued, a
  scenario with a run keeps its parameters, a shown status is true;
* scheduler: rows marked active are exactly the runs it owns, at most N runs
  of different projects and one signature, an ended row stays ended, a stop
  ends its run, a released row is served;
* failure: whatever stops the process, the next start finds every active run;
* runtime: no reset takes Taichi from a session, no initialization takes the
  fields of a running solver, nothing is left when the last session goes;
* set-up: derived fields belong to the fields they are derived from, and what
  the manifest calls consumed is in effect;
* loop: outputs are met and never overrun, rejections leave no trace and come
  to an end, windows and checkpoints do not change the run, results stay and
  are complete, a landslide happens once.

## 2. Modules

| Module | Models |
|---|---|
| `RunLifecycle` | abstract: a request is staged, released, active, ended; one unfinished request per scenario, one active run per project. Holds its own theorem. |
| `WorkbenchStore` | the tables and every store operation on them, one action per transaction, or per handler where nothing can run between its transactions |
| `Coordinator` | extends `WorkbenchStore` with the dispatch loop, tasks, worker threads, stop requests, shutdown, crash and start |
| `StoreProofs` | theorems about `WorkbenchStore`: types, rows, refinement |
| `ScenarioProofs` | further ones: draft bindings, places of waiting rows, shown statuses |
| `RunInputProofs` | what runs are run with |
| `CoordinatorProofs` | theorems about `Coordinator`: what it owns, and that it implements `WorkbenchStore` |
| `Runtime` | sessions of worker threads over one Taichi program and one environment |
| `SolverSetup` | operators: the fields of a solver and where their values come from; used by `Runtime` |
| `RuntimeProofs` | theorems about `Runtime` and the set-up |
| `SolverRun` | `EDDASolver.run` with windows and resumption |
| `TimeStepper`, `FailureSchedule`, `SolverOutput`, `DfsStep`, `ModularStep` | operators `SolverRun` is composed of: the clock, the landslide schedule, the results, the flow of data through a step of either branch |
| `StepProofs` | lemmas about `DfsStep` and `ModularStep`: what the effects of a step do to the fields that depend on something, for every case and both branches |
| `SolverProofs` | theorems about `SolverRun` |
| `MCStore`, `MCCoordinator`, `MCRuntime`, `MCSolver` | constants for TLC |

### WorkbenchStore

`queue[i]` is the i-th row ever inserted into `queue_items` (so `i` is
`position` and the order of `enqueued_at`), `runs[i]` the simulation row that
the claim of row i creates, `revisions[i]` the revision that this claim
freezes; revisions above `MaxItems` are those a request created. `scenarios[s]`
joins the scenario row with its draft bindings; `revision` is
`current_revision_id`, 0 is NULL. `uploads[a]` is the lifecycle column of an
asset. `asked[i]` is a history variable: the parameters and inputs the
scenario had when row i was enqueued.

Contents are abstract. A parameter set (name, template, patch) is a member of
`Params`; `validate_scenario_configuration` is membership in `ValidParams`;
the preflight also wants at least one bound input. Re-reading a blob is a
choice in `BlobChecks`. Each action has the guard of its handler in the
handler's order and everything it writes, renumbering and status restoration
included; requests that a handler rejects are simply not enabled.

`RuntimeCall` states what the store may assume of its scheduler: claims are of
the head of a project without active row, reports are about active rows. The
run `service` checks that `Coordinator` keeps to it (property `StoreSpec`).

### Coordinator

`jobs` is `_active`; `thread[i]` is where the worker of row i is (`task` before
the thread exists, then `prepare`, `initialize`, `run`, `solving`,
`exporting`, then its result); `stopreq` how far a stop got (event, session
flag); `todo` the candidates a dispatch pass has still to look at; `hold` a stop
handler between its two store calls; `proc` and `loop` the process and the
dispatch task. The pass does not await: on the event loop no other handler comes
in between its claims, but worker threads do, and the model lets requests in as
well, which allows more than the code does. Handlers of the event loop are
atomic except where they call the store more than once while a worker may
write; worker steps are separate actions at each store call. A crash loses
every variable but the tables. `Disruptions` switches on crashes, shutdowns
(which cut tasks off but not their threads), database faults in the two
places where they are not reported to a client, and projects whose directory
is away while the service is down.

### Runtime and SolverSetup

Each action of `Runtime` is a stretch between two points where another thread
can come in: the two locks (`_active_lock`, `_RUNTIME_LOCK`) are each held for
one action, and `BackendManager.initialize` is two actions because it releases
its lock between the test of the signature and `ti.init`. `phase` says where a
session is, `active` is `_active_sessions`, `signature` the signature of the
runtime, `env` the variables the profiles touch, `previous` what a session will
restore. Taichi is external: an initialization or a reset turns the `fields` of
every living solver to `"lost"`. `Enter` keeps to what the coordinator
guarantees (its limit, one profile at a time). `overlapped`, `raced` and
`unsigned` are history variables.

`SolverSetup` follows each field by the inputs its value comes from: a call
that determines a field from others gives it the union of theirs. `Initialize`
and `apply_native_runtime_inputs` are sequences of such calls in the order of
the code, chosen by the case (which files are absent, missing on disk, do not
fit, or are good; double layer or not). A derived field is `Outdated` when it
misses an input of a field it is derived from.

### SolverRun and its parts

`TimeStepper` is exact over integers: times are ticks, halving rounds up, and
the 1e-6 of `should_output` is `OutputTolerance`. `clock` is the time stepper
with the carried `fortran_tempdt`; `phase` says where an iteration is.

Whether an attempt holds is the physics' choice: a step of at most `Stable`
ticks is accepted, a longer one may be accepted, rejected at the CFL test or at
the end, or rejected by the volume balance, with the step that each suggests.

`DfsStep` and `ModularStep` abstract the kernels by the fields they read and
write. A call that changes a field in part, or from its old value, reads it
too. The soil of the double layer is split in two, since its kernels pass over
the cells that have failed: `kkt`, `kkt1`, `FS` and the others stand for the
sound cells, the same names with `_failed` for the failed ones, and
`fail_cells` moves cells from the first to the second. `Influence` then follows
a set of fields through the sequence of calls of an attempt: `left` are the
fields that depend on a rejected attempt, `lost` those that depend on the
change from one solver to the next (whatever `save_state` leaves on the host).
A committed field in `left` is a difference between the run and one that had
tried the accepted steps only. The variants (`Variants`) are the branches and
gates that choose the calls. Three of them, `parity`, `carry` and `inject`,
imitate quirks of the Fortran original which carry values from one attempt to
the next by design; the properties exempt them by name.

`FailureSchedule` is cell by cell: the half-open window of a step, the marks
on host and device, the candidate that only a commit makes permanent, the
validation of the device against the host and its fallbacks, and what a new
solver restores. `SolverOutput` keeps which result is in which numbered file,
over which results its maxima are taken, and which samples the exports hold.

A rejection copies `kkt1` over `kkt` on every cell, but only the sound cells had
their `kkt1` refreshed by the attempt. `heads` says how the failed cells stand:
`"even"` while `kkt1` is their committed head, `"behind"` after a cell failed in
an accepted step (its `kkt1` is the head before that step), `"rolled"` after a
rejection has put such a head back over the committed one. The properties about
rejections name this case (`WhenRolled`) and exclude nothing else on its account.

`owed`, `releases`, `whole`, `aligned`, `ends`, `due` and `slid` are history:
what should have been released and what was, the clock of the same run
without windows, the results that were due.

## 3. Runs

| Run | Bounds | Shows |
|---|---|---|
| `store_queue` | 2 interchangeable scenarios of one project, 3 rows, 1 input | refinement of `RunLifecycle`, one live row per scenario, removed rows ended, distinct places, bindings exist. Three rows of two scenarios are needed for a duplicate, a reorder and a batch to meet |
| `store_draft` | 1 scenario that starts absent, 2 parameter sets of which 1 valid, 2 rows, 3 revisions | types; a run uses what was queued; parameters are fixed by a run; the shown status is real. Two rows give a retry, the third revision one made on request |
| `service` | 3 scenarios of 2 projects, 2 rows, N = 2, one scenario with a signature of its own, crashes | types, ownership of active rows, `StoreSpec`, and with fairness: a stop ends its run, a released row is served. Two rows may run side by side (first and second scenario), wait for their project (first and third) or for the signature of the other (second and third) |
| `shutdown` | 2 projects of one scenario each, different signatures, 2 rows, drafts and inputs of the first project editable, every disruption | admission; recoverability; inputs of live runs are not deleted; ended rows stay ended |
| `solver` | a day of 12 ticks, a result every 6, tolerance 1, steps from 2 to 5, windows ending at 6 and at 8, 2 cells that fail at 3 and at 6, 9 cases | every property of `SolverRun`, with `Returns` under fairness |
| `runtime` | 2 sessions, 2 profiles, 2 signatures; combinations of the inputs that touch the same fields | every property of `Runtime` and of the set-up |
| `batch_order`, `archived_queued`, `retry_inputs`, `remount`, `partial_commit`, `runtime_race` | small | a sentence of the documentation or of the code that the program does not keep, see section 6 |

`MaxItems`, `MaxRevisions` and `MaxVersion` bound counters that only grow; a
request beyond a bound is not enabled, hence `CHECK_DEADLOCK FALSE` (and the
system may stop: nobody has to send a request). `Editing` and `Disruptions`
switch whole families of steps off so that each run fits its question.

The day of `solver` is long enough for each cut to meet each other: steps of 5
do not divide the interval of 6, so the carried step is used; with the
tolerance a result may come at tick 5; a window ends on a result (6) and
between two (8); one cell fails inside an interval, the other exactly when a
result is due; and a step of 5 can be rejected three times before it is
`Stable`. The nine cases take each gate of the schedule, each way of
infiltration, of runoff and of probing, and the two branches. `runtime` needs
two sessions for every race there is (the code counts sessions and knows only
first, last and other); it multiplies only files that write common fields. It
checks deadlock; `solver` does not, since a stopped run is an end.

Every property has a mutant of one definition of the code (`PROJECT.json`)
that TLC refutes; the mutant operators stand before their originals.

Fairness (`FairCoordinatorSpec`). The dispatch task, the tasks and the stop
handler are callbacks of one event loop, which serves its ready queue in
order: a callback that is ready again and again runs, although other handlers
come in between (strong fairness where a handler can disable it for a moment,
weak fairness elsewhere). Worker steps and the stop thread are scheduled by
the operating system (weak fairness). The solver reads the stop flag at every
step, so `StopSeen` is fair; that the solver ends by itself is not assumed,
`ReleasedIsServed` states it as its premise (`SolverEnds`). Nothing is assumed
of clients, faults, crashes or shutdowns.

The code does not promise a released row its turn: rows of other projects with
the running signature, or a later batch of its own project, may be claimed
before it again and again. `ReleasedIsServed` therefore says that a row is
served unless it is overtaken for ever (`Overtaken`). With two rows in all a row
is overtaken once at most, so the run shows what is left: that the end of a
run frees its project and its signature, and that a pass which skipped a
row comes back to it. Waiting for a slot alone takes N = 1 or three running
projects; the room is counted in the same `jobs` that hold the project, and no
run checks that wait.

`FairSpec` of `SolverRun` asks only that the loop of `run` goes on (weak
fairness of one loop in one thread); whether an attempt is rejected stays the
physics' choice. `Returns` then rests on two things of the configuration: a
step that the physics always accepts and the code can reach (`Stable >=
DtMin`), and `DtDecrease > 0`. With the default `dt_decrease = 0` a rejection
by the volume balance proposes the same step again, without the halving of the
flux test, and the retry loop has no limit and does not look at the stop flag
(`dfs_dynamic_wave.py:8141`, `edda_solver.py`). `EveryStepCounts` says the same
without fairness: under these two conditions every step of the loop leaves less
to do, by the lexicographic order of four numbers (`ToDo`).

## 4. Proofs

`RunLifecycle` proves `ExclusiveAlways`: `Exclusive` is inductive together
with the types.

`StoreProofs` proves, for any constants that meet `StoreAssumption`:

* `StoreTypeCorrect`: `StoreSpec => []StoreTypeOK`;
* `RemovedRowsEnded`, `EveryRunRecoverable`;
* `StoreImplementsLifecycle`: `StoreSpec => Lifecycle!Spec`;
* `OneLiveItem`: the abstract invariant carried through the refinement.

The inductive invariant is `StoreInv`: the types, `RowsNamed` (a row exists
exactly if it names a scenario; a retry takes the scenario from the old row,
so even the types need this), `DeletedIsTerminal` (enqueueing searches rows
that are not removed, so a removed live row would allow a second one) and
`RecoverableRuns`. The proof classifies every step once (`RowsMove`): it
either stages a new row of a scenario without live rows, or moves a set of
rows to one status in one of five ways (`Releases`, `Withdraws`, `Begins`,
`Reports`, `Ends`). The invariant and the refinement both follow from the
classification. Typing rests on lemmas about maxima of finite sets
(`LargestOfFinite`, from the well-foundedness of the naturals) and ranks.

`ScenarioProofs` adds three invariants that are inductive over `StoreInv`:

* `BoundInputsExist`: bindings are made to uploads that are there, and a
  deletion unbinds every draft, archived ones included, before it marks them;
* `PlacesDistinct`: a new row comes after the largest place (`NextOrderType`),
  and ranks in a list with distinct places are distinct (`RankInjective`),
  which moves and removals rely on; every other step only shortens the list
  (`Narrows`);
* `ShownStatusHolds`: stated per scenario (`Shown`), a step must keep it for
  the scenarios it writes and for those whose rows it writes; a restored status
  is that of a row because the run of an ended row is not active
  (`RecoverableRuns`).

`RunInputProofs` proves `RunsAsQueued` and `ParametersKept`. Neither property
is inductive. `ContentInv` adds that the revisions which rows, scenarios and
runs name were frozen (`ReferencesExist`); that run and revision of a row are
written by its claim alone, so that no claim overwrites a revision another row
names (`WrittenOnce`); that active rows have runs and scenarios with rows are
not deleted (`ActiveRowsRun`, `NoOrphans`); and that a row which still waits
would be run as it was asked for (`StagedAsAsked`), the part that the
cancellations of saves and deletions are there for. All steps but an enqueue
and a claim are `Quiet`: they write nothing a row depends on.

`CoordinatorProofs` proves, for any projects, rows and slots that meet
`CoordinatorAssumption`, and first for every set of disruptions:
`CoordinatorTypes`, `AdmissionGateHolds`, `RunsStayRecoverable`,
`EndedRowsStayEnded`, `LiveRunsSpared`. They follow from `OwnerInv`, since none of
these properties is inductive alone:

* `StoreInv` again, now under the scheduler's calls in the order it makes them,
  not the order the store may assume;
* `JobsRun`: a job is an active row of its project with a living worker;
  `WorkersOwned`: a worker runs a row that started and was not removed, and
  outlives its job only while the process is stopping. Together they make jobs
  and workers one to one while the service is up (`WorkersAreJobs`), so that
  the room a dispatch pass counts in `jobs` bounds the threads
  `AdmissionGate` speaks of;
* `TodoHeads`: what a pass still has to look at are heads of projects without
  a job, although reports of workers and, in the model, requests come in between
  its claims;
* `Phases`: a process that is down has neither jobs nor workers, and the loop
  holds a stop or a pass, not both;
* `RunsMarked`: a run that still computes is marked active, which is what a
  deletion looks at.

Two groups of results need less disruption. Under
`OnlyStops` (crashes and shutdowns) `ActiveRowsHaveJobs` holds; a failed final
write, a dead dispatch loop and an unmounted project each leave a row active
without a job. Under `OnlyCrashes`, with all three outcomes enabled, every step
of the service is a step of the store or none (`ServiceImplementsStore`), and
`ServiceRunsOnce` carries the store's `OneLiveItem` over; after a shutdown the
workers it cut off write to rows that have ended, which the store's
specification does not have.

`RuntimeProofs` proves, for any number of sessions, profiles, signatures and
inputs that meet `RuntimeAssumption`: `RuntimeTypes`, `ReleasedAtTheEnd`,
`ResetsSpareSessions`, `SerializedButForTheRace`, `ScopedEnvironment`. The
arguments are separate inductive invariants over the types: `active` is the
number of registered sessions (`CountInv`, needed because the test for the last
session is a test of the count); while Taichi is initialized some session is
registered or one that has left will still reset it (`HeldInv`); while nothing
has raced, a built solver has live fields (`SerialInv`); without an overlap the
one session in the environment holds in `previous` exactly what turns it back
into `Base` (`ScopeInv`).

`SolverProofs` proves, for any ticks, tolerances, windows, cells, failure times
and cases that meet the assumptions:

* `OutputGridHolds`, `ResultsAreOnTime` from `ClockInv`: the step is positive
  and bounded, the time lies between two results, and an attempt fits in front
  of the next one, through candidate, retry, both ways of preparing the next
  step, and resumption;
* `FiresOnce` from `LandInv`: what host and device have marked is contained in
  what was owed, in every state of the gates and fallbacks, and the half-open
  windows of successive accepted steps cover the time without overlapping;
* `ResultsAreKept` from `Kept`; `SolverTypes`;
* `WindowsAreInvisible` from `WindowInv`: while the two runs are aligned they
  have the same clock but for `t_end`, and a window end that is an output cuts
  no step that the output does not cut;
* `ResultsAreComplete` from `CompleteInv`: in the first window the files, the
  cached maxima and the samples grow together, one of each per due result, and
  a resumption makes `ends` a set of two.

* `NoTraceOfRetries` and `FreshDerivedFields` from `LeftInv`: the fields that
  last through an attempt (`Lasting`) are free of what was rejected at all times,
  those a result shows whenever no attempt is under way, and no modular step
  begins or ends with a field out of date. `left` need not be empty: the work
  fields of an attempt keep traces of the one before, and the proof is that each
  of them is overwritten before a committed field is computed from it. Where a
  rejection has rolled the heads of failed cells back, the trace may hold these
  heads and their saturation: what they influence is followed apart
  (`InfluenceUnion`) and stays in them (`Confined`), since no other kernel reads
  the soil of a failed cell;
* `ResumptionContinues` from `LostInv`: only what lives on the host ever depends
  on the change of solver; and `TracelessResults` from both;
* `NoEndlessRun` from `EndInv` (`t_current <= t_end <= TEnd`): an accepted step
  lessens the time left in the window, a rejected one the step that is tried
  (`RetryShortens`, which needs a positive decrement where the volume balance
  rejects), a resumption the windows to come, and the other steps the rest of
  the iteration. This is all of `Returns` that is not about fairness; what
  stays with TLC is that a loop that goes on and has ever less to do, ends.

The four theorems before it need to know what a whole step does to a set of
fields, that is, the result of a recursion over its calls (`Influence`,
`StaleAt`). The library's induction theorem takes a predicate, so `StepProofs`
first proves `StepInduction`: a subset of `0..n` that holds 0 and with each i
also i + 1 is all of it, by cardinalities of finite sets. From it follow what a
sequence of calls does if each call does it, and that two parts in a row compose
(`ConcatSequence`). A part `Cleans` a set of fields if none of them carries
anything on after it and nothing else caught it, `Spares` one if it neither
reads nor writes it, `Records` if it copies, `Serves` if it finds the derived
fields it reads up to date. Each named part of `dfs_dynamic_wave.py` and of the
modular step has its lemma, and each variant (rainfall, infiltration, double
layer, failures, the probing and the runoff hook, retry, resumption) is a
composition of parts.

`RuntimeProofs` treats the set-up the same way: `SetupInv` says that the origins
of a session's fields are those of `Initialize` and `ApplyRasters`,
`ApplySidecars` performed for its own case, however sessions interleave; the
rest is about those sequences for an arbitrary case. `Surface` and `Layered`
name, family by family, where the fields come from; every call has a lemma that
carries them over (`RestartLayer`, `SlopesApplied`, `ThicknessApplied`, ...),
`Initialized` is their chain over `EDDASolver.initialize`, `RastersApplied` over
the rasters in their order, `SidecarsApplied` over the sidecars. `SetupOrigins`
is the result: the origin of each field as a function of the statuses of the
files. From it follow `SetupsAreFresh` (`OutdatedLayer`: exactly the double layer
under replaced slopes is out of date) and `ConsumedFilesCount` (`ConsumedGoverns`).
The run `runtime` takes 22 cases; the theorems hold for all of them.

`AloneIsSafe` asks what `TAICHI_FLOW_MAX_CONCURRENT_PROJECTS=1` buys (the default
is 2): then a session that is to initialize Taichi finds it as its check did
(`AloneInv`), so the race that the run `runtime_race` shows and the mixed
environments are both excluded.

Every invariant and action property of a passing run is stated by a theorem.
TLC checked each inductive invariant (`LeftInv`, `LostInv`, `SetupInv` on the
constants of `solver` and `runtime`) before it was proved.

Out of the prover's reach and left to TLC: liveness under fairness and ENABLED
(`StopIsHonoured`, `ReleasedIsServed`, `Returns`), and the six runs that show a
disagreement, whose point is a counterexample.

## 5. Not modelled, and the plan

In the order planned:

1. `EnqueueScenario` split at its transaction, with the thread-pool callers.
2. `ExportJobs`: concurrent exports of one run, deletion, crash.
3. `ClientStore`: overlapping requests of the browser client; the realtime
   channel; the map state with its version and its conflicts.
4. The configuration of the runoff and stormdrain hooks in `SolverSetup`.

Limits of the solver modules. The arithmetic of a kernel is abstracted to what
it reads and writes, so nothing is said of the numbers, of conservation or of
the volume balance. Fields are followed as wholes: `Influence` reports a
dependence where one may be, provided a call that leaves cells out is listed as
one that reads what it writes, or its field is split, as the soil is by
`is_failed`; a kernel that forgot a cell by mistake would not be seen.
Floating-point times are ticks, so
effects of rounding at the comparisons are only those of the tolerance.
Rainfall series, spatial zones beyond their file, and checkpoint files as such
are not modelled. The modular branch does not adapt its step at a window end,
so `WindowsDoNotMatter` is stated for the Fortran path.

Left out for good: the arithmetic of the kernels, file formats and conversions
of configuration values (no state, no order), migrations (one shot), desktop
scripts.

## 6. Where the code and its documentation disagree

* `BatchOrderFrozen` (`batch_order`): a second release overtakes the batch
  that is still queued, since places are counted among waiting rows only.
* `ArchivedNotQueued` (`archived_queued`): cancelling the row of an archived
  scenario overwrites the status that the archive test reads.
* `SameInputsEveryRun` (`retry_inputs`): a retry of a withdrawn row brings
  back an older frozen revision after the scenario has run on another one.
* `RestartInterrupts` (`remount`): a project that is away when the service
  starts keeps its active rows when it comes back.
* `NoPartialCommit` (`partial_commit`): a double-layer cell that fails in a
  rejected attempt stays marked as failed; the retry does not release it, and
  its mass never enters the flow. Apart from this run's trace, the same sentence
  and the docstring of `restore_richards_committed_state` ("roll back to the same
  state") fail in a second way, which `RetryLeavesNoTrace` carries as an
  exception: `_solve_richards_kernel` skips failed cells
  (`double_layer_soil.py:297`) before it copies `kkt` to `kkt1`, the restoration
  (276-284) does not, so the first rejection after a cell failed in an accepted
  step gives that cell the head it had before the step.
* `RuntimeIsSerialized` (`runtime_race`): two sessions that start together both
  find Taichi uninitialized; the second initialization takes the fields of the
  first session's solver.

Noted while modelling, where no document says otherwise: sessions that overlap
restore each other's environment, so that a solver may be built outside its
profile and a profile may stay in the process (`EnvironmentIsScoped` holds
without an overlap only); slopes from a file leave the double layer as it was
computed from the DEM (`SetupIsFresh` names the case); a zone file that cannot
be used is called consumed (`ConsumedIsInEffect` names the case); the parity
carry is not in a checkpoint (`ResumeContinues` names it); the Manning
coefficients of the Froude limiter are overwritten before the next step reads
them (`rheology.py:390`); the outflow observer reads depths of outflow cells
that the step has emptied, and the two observers label their maxima with the
time after and before the step (`edda_solver.py:1264`, `1955`); the stormdrain
exchange and the late runoff hook change water after the terms of the volume
balance were fixed (`dfs_dynamic_wave.py:6084`).
