-------------------------- MODULE FailureSchedule --------------------------
(***************************************************************************)
(* The precomputed landslide schedule of DFSDynamicWaveSolver: each cell   *)
(* of Cells releases its mass in the accepted step whose half-open window  *)
(* holds its failure time.  Host and device both remember who has fired;   *)
(* which of them stages the release depends on gates and on a validation   *)
(* the first stage makes.                                                  *)
(*                                                                         *)
(* "gate" is what the environment enables: the host path alone, the device *)
(* fields checked against the host at every stage, the device fields alone *)
(* after a first check ("fast"), or the device kernel whose sums the host  *)
(* checks ("kernel").  "deep" is the set of cells with erodible soil left. *)
(***************************************************************************)
EXTENDS Integers

CONSTANTS Cells,      \* cells with a schedule entry (gindx > 0, fdepth > 0)
          FailTime    \* tfail of each

ASSUME FailureScheduleAssumption == FailTime \in [Cells -> Nat]

Gates == {"host", "field", "fast", "kernel"}

\* candidate is the pair <<held, cells>>: None in the code is <<FALSE, {}>>
NoCandidate == [held |-> FALSE, cells |-> {}]

Schedules ==
    [gate : Gates, fired : SUBSET Cells, mask : SUBSET Cells,
     staged : SUBSET Cells,
     candidate : [held : BOOLEAN, cells : SUBSET Cells],
     field : BOOLEAN, validated : BOOLEAN, kernel : BOOLEAN]

\* configure_precomputed_failure_schedule and the upload to the device
NewSchedule(gate) ==
    [gate |-> gate, fired |-> {}, mask |-> {}, staged |-> {},
     candidate |-> NoCandidate,
     field |-> gate # "host", validated |-> FALSE, kernel |-> FALSE]

\* what load_state gives the schedule of a new solver: the device fields only
RestoredSchedule(s) ==
    [NewSchedule(s.gate) EXCEPT !.mask = s.mask, !.staged = s.staged]

Crossing(t, dt, deep) == {c \in deep : t <= FailTime[c] /\ FailTime[c] < t + dt}

(* _stage_precomputed_failure_sources, "agrees" saying whether the device  *)
(* computed the same depths as the host.                                   *)

HostStage(s, t, dt, deep)   == Crossing(t, dt, deep) \ s.fired
DeviceStage(s, t, dt, deep) == Crossing(t, dt, deep) \ s.mask

Holding(s, cells) == [s EXCEPT !.candidate = [held |-> TRUE, cells |-> cells]]

FallBack(s, host) ==
    [Holding(s, host) EXCEPT !.field = FALSE, !.validated = FALSE, !.kernel = FALSE]

StageOnHost(s, t, dt, deep) == Holding(s, HostStage(s, t, dt, deep))

StageWithKernel(s, t, dt, deep, agrees) ==
    LET host   == HostStage(s, t, dt, deep)
        device == DeviceStage(s, t, dt, deep)
    IN  IF agrees /\ device = host
        THEN [Holding(s, host) EXCEPT !.staged = device, !.kernel = TRUE]
        ELSE [FallBack(s, host) EXCEPT !.staged = device]

StageOnDevice(s, t, dt, deep) ==
    LET device == DeviceStage(s, t, dt, deep)
    IN  [Holding(s, device) EXCEPT !.staged = device, !.kernel = FALSE]

StageAndValidate(s, t, dt, deep, agrees) ==
    LET host   == HostStage(s, t, dt, deep)
        device == DeviceStage(s, t, dt, deep)
    IN  IF agrees /\ device = host
        THEN [Holding(s, device) EXCEPT !.staged = device,
                  !.validated = s.validated \/ s.gate \in {"fast", "kernel"}]
        ELSE [FallBack(s, host) EXCEPT !.staged = device, !.kernel = s.kernel]

Stage(s, t, dt, deep, agrees) ==
    IF ~s.field THEN StageOnHost(s, t, dt, deep)
    ELSE IF ~s.validated THEN StageAndValidate(s, t, dt, deep, agrees)
    ELSE IF s.gate = "kernel" THEN StageWithKernel(s, t, dt, deep, agrees)
    ELSE StageOnDevice(s, t, dt, deep)
-----------------------------------------------------------------------------
(* The end of the attempt.                                                 *)

\* mutant: a rejected attempt leaves its cells fired
DiscardAfterFiring(s) ==
    [s EXCEPT !.fired = s.fired \cup s.candidate.cells,
              !.candidate = NoCandidate, !.kernel = FALSE]

Discard(s) == [s EXCEPT !.candidate = NoCandidate, !.kernel = FALSE]

Commit(s) ==
    LET fired == s.fired \cup s.candidate.cells
    IN  IF s.gate = "host" THEN [s EXCEPT !.fired = fired, !.candidate = NoCandidate]
        ELSE IF s.kernel
        THEN [s EXCEPT !.fired = fired, !.candidate = NoCandidate,
                       !.mask = s.mask \cup s.staged, !.staged = {}]
        ELSE [s EXCEPT !.fired = fired, !.candidate = NoCandidate, !.mask = fired]
=============================================================================
