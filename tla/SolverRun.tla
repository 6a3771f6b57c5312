----------------------------- MODULE SolverRun -----------------------------
(***************************************************************************)
(* EDDASolver.run: the loop over candidate steps, the retries of a         *)
(* rejected step, outputs, the progress callback that may stop the run,    *)
(* and a run that ends at a window and is resumed from its checkpoint by a *)
(* new solver.  The clock is TimeStepper's, the release of landslides      *)
(* FailureSchedule's, and the state is followed by what still depends on   *)
(* something that should have left no trace (DfsStep): on a rejected       *)
(* attempt ("left"), on the change of solver ("lost").                     *)
(*                                                                         *)
(* The physics decides whether an attempt holds: with a step of at most    *)
(* Stable it does, with a longer one it may or may not.                    *)
(***************************************************************************)
EXTENDS TimeStepper, FailureSchedule, DfsStep, ModularStep, SolverOutput, FiniteSets

CONSTANTS
    TEnd,          \* t_end of the last window
    WindowEnds,    \* ends of the windows before it
    Stable,        \* every step up to it is accepted
    Cases          \* the cases run: [path, variant, gate]

Paths == {"dfs", "modular"}

ASSUME SolverRunAssumption ==
    /\ TEnd \in Nat \ {0}
    /\ WindowEnds \subseteq 1..TEnd
    /\ Stable \in Nat
    /\ Cases \subseteq [path : Paths, variant : Variants, gate : Gates]

VARIABLES
    case,       \* the case: which branch, which variant, which gates
    phase,      \* where the loop is
    clock,      \* time_stepper and fortran_tempdt
    dt,         \* dt_candidate of the attempt
    sched,      \* the landslide schedule
    deep,       \* cells with erodible soil left in this step
    stale,      \* derived fields that no longer belong to Cv (modular path)
    misread,    \* derived fields read while stale (modular path)
    left,       \* fields that depend on a rejected attempt
    lost,       \* fields that depend on the change of solver
    results,    \* what the run has shown so far (SolverOutput)
    slid,       \* a rejected attempt released a cell of the double layer
    heads,      \* kkt1 of the failed cells (HeadStates)
    owed,       \* history: cells whose accepted window held their failure
    releases,   \* history: how often a cell's mass entered the flow
    whole,      \* history: the clock of a run without windows
    aligned,    \* history: that run would have tried the same steps so far
    ends,       \* history: the ends of the windows so far
    due         \* history: the times of the results that were due

loopVars == <<clock, dt, phase>>
historyVars == <<owed, releases, whole, aligned, ends, due>>
outputVars == <<results, due>>
stateVarsButDeep == <<sched, stale, misread, left, lost, slid, heads>>
stateVars == <<sched, deep, stale, misread, left, lost, slid, heads>>
vars == <<case, loopVars, stateVars, results, historyVars>>

Phases == {"ready", "attempt", "callback", "returned", "stopped"}
(* even: it holds the committed head of each; behind: of some an older     *)
(* one; rolled: a rejection has put such an older one back.                *)
HeadStates == {"even", "behind", "rolled"}

Scheduled == case.path = "dfs" /\ case.variant.failure = "schedule"

SolverTypeOK ==
    /\ case \in Cases /\ phase \in Phases
    /\ clock \in Clocks /\ whole \in Clocks /\ dt \in Nat
    /\ \A c \in {clock, whole} : c.dt_current <= Larger(DtInitial, DtMax)
    /\ sched \in Schedules /\ deep \subseteq Cells /\ owed \subseteq Cells
    /\ slid \in BOOLEAN /\ heads \in HeadStates /\ aligned \in BOOLEAN /\ ends \subseteq Nat
    /\ releases \in [Cells -> Nat]
    /\ due \in Seq(Nat) /\ results \in Results

Init ==
    /\ case \in Cases
    /\ phase = "ready"
    /\ \E t_end \in WindowEnds \cup {TEnd} : clock = NewClock(t_end) /\ ends = {t_end}
    /\ whole = NewClock(TEnd)
    /\ dt = 0
    /\ sched = NewSchedule(case.gate)
    /\ deep = {} /\ stale = {} /\ misread = {} /\ left = {} /\ lost = {}
    /\ slid = FALSE /\ heads = "even" /\ owed = {} /\ releases = [c \in Cells |-> 0]
    /\ aligned = TRUE
    /\ results = NewResults /\ due = <<>>
-----------------------------------------------------------------------------
(* The top of the loop.                                                    *)

Tempdt(c) == IF case.path = "dfs" THEN KeepTempdt(c) ELSE c

BeginStep ==
    /\ phase = "ready" /\ ~IsFinished(clock)
    /\ dt' = CandidateDt(clock)
    /\ clock' = Tempdt(clock) /\ whole' = Tempdt(whole)
    /\ aligned' = (aligned /\ CandidateDt(whole) = CandidateDt(clock))
    /\ deep' \in IF Scheduled THEN SUBSET Cells ELSE {{}}
    /\ phase' = "attempt"
    /\ UNCHANGED <<case, stateVarsButDeep, owed, releases, ends, outputVars>>

(* A rejected attempt.  The Fortran branch may return at the CFL test      *)
(* already; the volume balance, at the end, overrides the suggested step.  *)

Staged(agrees) ==
    IF Scheduled THEN Stage(sched, clock.t_current, dt, deep, agrees) ELSE sched

\* A cell of the double layer may fail in an attempt.
MayRelease == IF case.variant.failure = "double_layer" THEN BOOLEAN ELSE {FALSE}

\* The effects of an attempt in each case: with and without a failing cell, a head behind.
AtCourant ==
    [k \in Cases |-> [r \in BOOLEAN |-> [b \in BOOLEAN |-> RejectedAtCourant(k.variant, r, b)]]]
AtEnd ==
    [k \in Cases |-> [r \in BOOLEAN |-> [b \in BOOLEAN |-> RejectedAtEnd(k.variant, r, b)]]]
ToCommit == [k \in Cases |-> [r \in BOOLEAN |-> Accepted(k.variant, r)]]

\* A cell that fails in an accepted step keeps the head before that step in kkt1.
Behind == heads # "even"
AfterRelease(released) == IF released /\ heads = "even" THEN "behind" ELSE heads
AfterRestore == IF Behind THEN "rolled" ELSE heads

Rejected(effects, suggested, released) ==
    /\ phase = "attempt" /\ case.path = "dfs" /\ dt > Stable
    /\ dt' = RetryDt(clock, suggested)
    /\ \E agrees \in BOOLEAN : sched' = IF Scheduled THEN Discard(Staged(agrees)) ELSE sched
    /\ left' = AfterRejection(effects, left)
    /\ lost' = Influence(effects, lost)
    /\ slid' = (slid \/ released)
    /\ heads' = AfterRestore
    /\ UNCHANGED <<case, phase, clock, deep, stale, misread, results, historyVars>>

RejectAtCourant ==
    \E released \in MayRelease :
        /\ case.variant.shortcut
        /\ Rejected(AtCourant[case][released][Behind], FluxRejectDt(dt), released)

RejectByFlux ==
    \E released \in MayRelease :
        Rejected(AtEnd[case][released][Behind], FluxRejectDt(dt), released)

RejectByVolume ==
    \E released \in MayRelease :
        Rejected(AtEnd[case][released][Behind], VolumeRejectDt(dt), released)

(* An accepted attempt: commit, advance, output if due, prepare the next   *)
(* step, report progress.                                                  *)

ShowResults ==
    LET now == Advance(clock, dt)
    IN  IF ShouldOutput(now)
        THEN /\ results' = output_due(results, now.t_current)
             /\ due' = Append(due, now.t_current)
        ELSE UNCHANGED outputVars

AcceptDfs ==
    /\ phase = "attempt" /\ case.path = "dfs"
    /\ ShowResults
    /\ clock' = PrepareFortran(Advance(clock, dt), dt)
    /\ whole' = PrepareFortran(Advance(whole, dt), dt)
    /\ \E agrees \in BOOLEAN :
          /\ sched' = IF Scheduled THEN Commit(Staged(agrees)) ELSE sched
          /\ releases' = IF Scheduled
                         THEN [c \in Cells |-> releases[c] +
                                  IF c \in Staged(agrees).candidate.cells THEN 1 ELSE 0]
                         ELSE releases
    /\ owed' = IF Scheduled THEN owed \cup Crossing(clock.t_current, dt, deep) ELSE owed
    /\ \E released \in MayRelease :
          /\ left' = Influence(ToCommit[case][released], left)
          /\ lost' = Influence(ToCommit[case][released], lost)
          /\ heads' = AfterRelease(released)
    /\ phase' = "callback"
    /\ UNCHANGED <<case, dt, deep, stale, misread, slid, aligned, ends>>

AcceptModular ==
    /\ phase = "attempt" /\ case.path = "modular"
    /\ ShowResults
    /\ \E cfl \in DtMin..DtMax :
          clock' = PrepareModular(Advance([clock EXCEPT !.dt_current = dt], dt), cfl)
    /\ stale' = StaleAfter(physics_step, stale)
    /\ misread' = misread \cup Misread(physics_step, stale)
    /\ left' = Influence(physics_step, left)
    /\ lost' = Influence(physics_step, lost)
    /\ phase' = "callback"
    /\ UNCHANGED <<case, dt, sched, deep, slid, heads, owed, releases, whole, aligned, ends>>

Continue ==
    /\ phase = "callback"
    /\ phase' = "ready"
    /\ UNCHANGED <<case, clock, dt, stateVars, results, historyVars>>

\* The progress callback raises when the run was cancelled.
StopRequested ==
    /\ phase = "callback"
    /\ phase' = "stopped"
    /\ UNCHANGED <<case, clock, dt, stateVars, results, historyVars>>

\* The loop is over: the final output is written, run returns and the worker
\* exports what is left.
Return ==
    /\ phase = "ready" /\ IsFinished(clock)
    /\ phase' = "returned"
    /\ results' = output_final(results, clock.t_current)
    /\ UNCHANGED <<case, clock, dt, stateVars, historyVars>>

(* save_state, a new solver, and load_state with the end of a later window.*)

Resume(t_end) ==
    /\ phase = "returned" /\ t_end > clock.t_end
    /\ clock' = [clock EXCEPT !.t_end = t_end]
    /\ sched' = IF Scheduled THEN RestoredSchedule(sched) ELSE sched
    /\ lost' = AfterResume(lost)
    /\ results' = RestoredResults(results)
    /\ phase' = "ready"
    /\ ends' = ends \cup {t_end}
    /\ UNCHANGED <<case, dt, deep, stale, misread, left, slid, heads, owed, releases, whole,
                   aligned, due>>

Retry == RejectAtCourant \/ RejectByFlux \/ RejectByVolume
Accept == AcceptDfs \/ AcceptModular
Loop == BeginStep \/ Retry \/ Accept \/ Continue \/ Return
Next == Loop \/ StopRequested \/ \E t_end \in WindowEnds \cup {TEnd} : Resume(t_end)

Spec == Init /\ [][Next]_vars

(* The loop runs until it returns or the callback raises.                  *)
FairSpec == Spec /\ WF_vars(Loop)
-----------------------------------------------------------------------------
(* A result is never overrun: at every step the loop takes, the step is    *)
(* positive, ends at the latest at the next output and at the end of the   *)
(* window, and no iteration starts with an output due.  (run, reject_step: *)
(* the error "reduced dt to a non-positive value" cannot occur.)           *)
OutputGrid ==
    /\ phase = "attempt" =>
         /\ dt > 0
         /\ clock.t_current + dt <= NextOutput(clock)
         /\ clock.t_current + dt <= clock.t_end
    /\ phase = "ready" => ~ShouldOutput(clock)

(* Successive results lie one output interval apart, up to the tolerance.  *)
(* (EDDASolver.run, should_output, mark_output)                            *)
ResultsOnTime ==
    [][clock'.t_last_output # clock.t_last_output =>
         clock'.t_last_output - clock.t_last_output \in (DtOutput - OutputTolerance)..DtOutput]_vars

(* "Perform one DFS step on workspace state without partial main-state     *)
(* commits": whatever was tried and rejected, and in whatever order, no    *)
(* committed field depends on it - as long as no double-layer cell failed  *)
(* in a rejected attempt, and outside the three quirks of dfs.F90 that     *)
(* carry values from attempt to attempt - but for one: once a cell has     *)
(* failed in an accepted step, the next rejection rolls its head back to   *)
(* the one before that step.                                               *)
(* (DFSDynamicWaveSolver.step, restore_richards_committed_state)           *)
RetrySafe == ~(case.variant.parity \/ case.variant.carry \/ case.variant.inject)
WhenRolled(fields) == IF heads = "rolled" THEN fields ELSE {}
RetryLeavesNoTrace ==
    RetrySafe /\ ~slid => left \cap Committed \subseteq WhenRolled({"kkt_failed"})

(* The docstring without that condition on the double layer.               *)
NoPartialCommit == RetrySafe => left \cap Committed = {}

(* A run resumed from a checkpoint by a new solver computes the committed  *)
(* fields the first solver would have computed, except with the parity     *)
(* carry, which save_state leaves out and only that variant reads.         *)
(* (save_state, load_state)                                                *)
Saved == (Committed \ {"legacy_previous_face_cvbar"}) \cup {"v_prev"}
ResumeContinues == ~case.variant.parity => lost \cap Saved = {}

(* What a result or a sample shows, fields of the workspace included, is   *)
(* of the accepted step alone: nothing of a rejected attempt or of the     *)
(* change of solver is in it, with the exceptions above; of the heads that *)
(* were rolled back only the saturation of the failed cells shows.         *)
(* (_output_results, get_full_state, _collect_hydrograph_monitor_samples)  *)
ResultsAreTraceless ==
    phase \in {"callback", "returned"} =>
        /\ RetrySafe /\ ~slid => left \cap Shown \subseteq WhenRolled({"desat_failed"})
        /\ ~case.variant.parity => lost \cap Shown = {}

(* Every result that was due stays on disk under its number, also when     *)
(* later windows write into the same directory; only the last result of a  *)
(* window, written when it ends, may be replaced by the next one.          *)
(* (_output_results, mark_output, load_state)                              *)
ResultsKept ==
    /\ results.output_count = Len(due)
    /\ Len(results.files) \in {Len(due), Len(due) + 1}
    /\ \A k \in 1..Len(due) : results.files[k].time = due[k]

(* Without a change of solver the maxima of a result are taken over all    *)
(* results up to it, and the exports hold a sample of every due result; a  *)
(* resumed solver has neither its predecessor's maxima nor its samples.    *)
(* (_update_output_max_cache, _export_outflow_process_text)                *)
ResultsComplete ==
    Cardinality(ends) = 1 =>
        /\ \A k \in 1..Len(results.files) :
              results.files[k].maxima = {results.files[j].time : j \in 1..k}
        /\ phase = "returned" => results.exported = due

(* The mass of a scheduled landslide enters the flow once, in the accepted *)
(* step whose window holds its failure time: retries, the three ways of    *)
(* staging with their fallbacks, and a resumption with an empty list of    *)
(* fired cells neither repeat nor drop it.                                 *)
(* (_stage_precomputed_failure_sources, _commit_precomputed_failure_schedule) *)
FiresOnceInItsWindow ==
    \A c \in Cells : /\ releases[c] = IF c \in owed THEN 1 ELSE 0
                     /\ c \in owed => FailTime[c] < clock.t_current

(* "This keeps restart checkpoints continuation-ready": on the Fortran     *)
(* path, windows that end where results are due leave the clock - step,    *)
(* carried tempdt and output times - exactly as in a run without windows.  *)
(* (EDDASolver.run, save_state, load_state)                                *)
Grid == {n * DtOutput : n \in 0..TEnd}
OnGrid == ends \subseteq Grid /\ \A k \in 1..Len(due) : due[k] \in Grid
WindowsDoNotMatter ==
    case.path = "dfs" =>
      /\ aligned => clock = [whole EXCEPT !.t_end = clock.t_end]
      /\ OnGrid => aligned

(* After every modular step density and rheology belong to the present     *)
(* concentration, and no component has read one that did not.              *)
(* (_physics_step, RheologyModel.prepare_for_flow and finalize_after_flow) *)
DerivedIsFresh == stale = {} /\ misread = {}

(* Every step of the loop leaves less to do than there was: fewer windows, *)
(* less time in this one, less of this iteration, or a shorter step to try.*)
(* So no course of rejections, outputs and resumptions can go on for ever; *)
(* as Returns, it needs Stable >= DtMin and a DtDecrease above 0.          *)
(* (EDDASolver.run, reject_step, _finalize_volume_balance)                 *)
Ahead == [callback |-> 3, ready |-> 2, attempt |-> 1, returned |-> 0, stopped |-> 0][phase]
ToDo == << TEnd - clock.t_end, clock.t_end - clock.t_current, Ahead, dt >>
Less(a, b) == \E i \in 1..4 : a[i] < b[i] /\ \A j \in 1..(i - 1) : a[j] = b[j]
EveryStepCounts ==
    [][Stable >= DtMin /\ DtDecrease > 0 =>
         Less(ToDo', ToDo) /\ \A i \in 1..4 : ToDo[i] >= 0 /\ ToDo'[i] >= 0]_vars

(* A run that is not cancelled returns: every chain of rejections ends.    *)
(* It needs Stable >= DtMin and a DtDecrease above 0.                      *)
(* (EDDASolver.run, _finalize_volume_balance, reject_step)                 *)
Returns == <>(phase \in {"returned", "stopped"})
=============================================================================
