---------------------------- MODULE SolverProofs ----------------------------
(* Theorems about SolverRun, for all values of its constants.              *)
EXTENDS SolverRun, StepProofs, FiniteSetTheorems, TLAPS

MaxDt == Larger(DtInitial, DtMax)

(* Parts of the inductive invariant.                                       *)

Bounded(c) == c \in Clocks /\ c.dt_current <= MaxDt /\ c.tempdt <= MaxDt

\* The clock of a run between two iterations and during an attempt.
Going(c) ==
    /\ Bounded(c) /\ c.dt_current > 0
    /\ c.t_last_output <= c.t_current
    /\ c.t_current < c.t_last_output + DtOutput - OutputTolerance

Fits(c, d) == d \in 1..MaxDt /\ c.t_current + d <= NextOutput(c) /\ c.t_current + d <= c.t_end

ClockInv ==
    /\ Going(clock) /\ Bounded(whole)
    /\ dt \in Nat
    /\ phase = "attempt" => Fits(clock, dt)

-----------------------------------------------------------------------------
\* The clocks of the code after each of its operations.

\* What the assumptions say of the constants.
LEMMA ConstantFacts ==
    /\ DtInitial \in Nat /\ DtInitial > 0 /\ DtOutput \in Nat /\ DtOutput > 0
    /\ DtMin \in Nat /\ DtMin > 0 /\ DtMax \in Nat /\ DtMin <= DtMax
    /\ DtDecrease \in Nat /\ DtIncrease \in Nat
    /\ OutputTolerance \in Nat /\ OutputTolerance < DtOutput
    /\ MaxDt \in Nat /\ DtInitial <= MaxDt /\ DtMax <= MaxDt
    /\ TEnd \in Nat /\ WindowEnds \subseteq Nat
BY TimeStepperAssumption, SolverRunAssumption DEF MaxDt, Larger

\* A new run stands between outputs.
LEMMA NewClockGoing ==
    ASSUME NEW t_end \in Nat PROVE Going(NewClock(t_end))
BY ConstantFacts DEF Going, Bounded, NewClock, Clocks

\* KeepTempdt changes tempdt only, to the present step.
LEMMA KeepTempdtFields ==
    ASSUME NEW c \in Clocks
    PROVE  /\ KeepTempdt(c) \in Clocks
           /\ KeepTempdt(c).t_current = c.t_current /\ KeepTempdt(c).dt_current = c.dt_current
           /\ KeepTempdt(c).t_last_output = c.t_last_output /\ KeepTempdt(c).t_end = c.t_end
           /\ KeepTempdt(c).tempdt \in {c.tempdt, c.dt_current}
BY DEF KeepTempdt, Clocks

\* It keeps the steps bounded.
LEMMA TempdtBounded ==
    ASSUME NEW c, Bounded(c) PROVE Bounded(Tempdt(c))
BY KeepTempdtFields DEF Bounded, Tempdt, Clocks

\* It changes nothing a step has to fit in.
LEMMA TempdtGoing ==
    ASSUME NEW c, Going(c)
    PROVE  /\ Going(Tempdt(c))
           /\ \A d : Fits(Tempdt(c), d) <=> Fits(c, d)
BY KeepTempdtFields, TempdtBounded DEF Going, Bounded, Tempdt, Fits, NextOutput

\* A candidate step fits: positive, no longer than output and end allow.
LEMMA CandidateFits ==
    ASSUME NEW c, Going(c), ~IsFinished(c) PROVE Fits(c, CandidateDt(c))
BY ConstantFacts DEF Going, Bounded, Clocks, Fits, CandidateDt, Smaller, NextOutput, IsFinished

\* So does the step of a retry, whatever the physics suggests.
LEMMA RetryFits ==
    ASSUME NEW c, Going(c), NEW d, Fits(c, d), NEW suggested \in Int
    PROVE  Fits(c, RetryDt(c, suggested))
BY ConstantFacts
   DEF Going, Bounded, Clocks, Fits, RetryDt, RejectStep, Clip, Smaller, NextOutput

\* The state of the clock after an accepted step of a run between outputs.
LEMMA AdvanceFields ==
    ASSUME NEW c \in Clocks, NEW d \in Nat
    PROVE  /\ Advance(c, d) \in Clocks
           /\ Advance(c, d).t_current = c.t_current + d
           /\ Advance(c, d).t_last_output = c.t_last_output
           /\ Advance(c, d).dt_current = c.dt_current
           /\ Advance(c, d).tempdt = c.tempdt /\ Advance(c, d).t_end = c.t_end
BY DEF Advance, Clocks

\* OutputIfDue changes the time of the last output only.
LEMMA OutputFields ==
    ASSUME NEW c \in Clocks
    PROVE  /\ OutputIfDue(c) \in Clocks
           /\ OutputIfDue(c).t_current = c.t_current
           /\ OutputIfDue(c).dt_current = c.dt_current
           /\ OutputIfDue(c).tempdt = c.tempdt /\ OutputIfDue(c).t_end = c.t_end
           /\ OutputIfDue(c).t_last_output =
                 IF ShouldOutput(c) THEN c.t_current ELSE c.t_last_output
BY DEF OutputIfDue, MarkOutput, Clocks

\* A grown step is positive and at most DtMax.
LEMMA GrownBounded ==
    ASSUME NEW d \in Nat
    PROVE  GrownDt(d) \in Nat /\ GrownDt(d) <= DtMax /\ (d > 0 => GrownDt(d) > 0)
BY ConstantFacts DEF GrownDt

\* PrepareFortran keeps the times and leaves a step that is bounded.
LEMMA PrepareFortranFields ==
    ASSUME NEW c \in Clocks, c.tempdt <= MaxDt, NEW d \in Nat
    PROVE  /\ Bounded(PrepareFortran(c, d))
           /\ d > 0 => PrepareFortran(c, d).dt_current > 0
           /\ PrepareFortran(c, d).t_current = c.t_current
           /\ PrepareFortran(c, d).t_last_output = OutputIfDue(c).t_last_output
           /\ PrepareFortran(c, d).t_end = c.t_end
<1> DEFINE step == IF ShouldOutput(c) /\ c.tempdt > GrownDt(d) THEN c.tempdt ELSE GrownDt(d)
<1>1. step \in Nat /\ step <= MaxDt /\ (d > 0 => step > 0)
  BY ConstantFacts, GrownBounded DEF Clocks
<1>2. PrepareFortran(c, d) = [OutputIfDue(c) EXCEPT !.dt_current = step]
  BY DEF PrepareFortran
<1> HIDE DEF step
<1> QED BY <1>1, <1>2, OutputFields DEF Bounded, Clocks

\* An accepted step leaves the clock where no result is due.
LEMMA OutputCatchesUp ==
    ASSUME NEW c, Going(c), NEW d, Fits(c, d)
    PROVE  LET now == Advance(c, d)
               out == OutputIfDue(now)
           IN  /\ out.t_last_output <= out.t_current
               /\ out.t_current < out.t_last_output + DtOutput - OutputTolerance
               /\ out.t_last_output # c.t_last_output =>
                    out.t_last_output - c.t_last_output \in
                       (DtOutput - OutputTolerance)..DtOutput
<1> DEFINE now == Advance(c, d)
           out == OutputIfDue(now)
<1>1. /\ c \in Clocks /\ d \in Nat
      /\ c.t_current \in Nat /\ c.t_last_output \in Nat
      /\ c.t_last_output <= c.t_current /\ c.t_current + d <= c.t_last_output + DtOutput
  BY ConstantFacts DEF Going, Bounded, Fits, NextOutput, Clocks
<1>2. now \in Clocks /\ now.t_current = c.t_current + d /\ now.t_last_output = c.t_last_output
  BY <1>1, AdvanceFields
<1> HIDE DEF now
<1>3. /\ out.t_current = c.t_current + d
      /\ out.t_last_output = IF c.t_current + d - c.t_last_output >= DtOutput - OutputTolerance
                             THEN c.t_current + d ELSE c.t_last_output
  <2>1. /\ out.t_current = now.t_current
        /\ out.t_last_output = IF ShouldOutput(now) THEN now.t_current ELSE now.t_last_output
    BY <1>2, OutputFields
  <2>2. ShouldOutput(now) <=> c.t_current + d - c.t_last_output >= DtOutput - OutputTolerance
    BY <1>1, <1>2, ConstantFacts DEF ShouldOutput
  <2> HIDE DEF out
  <2> QED BY <1>1, <1>2, <2>1, <2>2
<1> HIDE DEF out
<1>4. /\ out.t_last_output <= out.t_current
      /\ out.t_current < out.t_last_output + DtOutput - OutputTolerance
      /\ out.t_last_output # c.t_last_output =>
           out.t_last_output - c.t_last_output \in (DtOutput - OutputTolerance)..DtOutput
  BY <1>1, <1>3, ConstantFacts
<1> QED BY <1>4 DEF now, out

\* After an accepted step of the Fortran path the clock is between outputs.
LEMMA PrepareFortranGoing ==
    ASSUME NEW c, Going(c), NEW d, Fits(c, d)
    PROVE  Going(PrepareFortran(Advance(c, d), d))
<1>1. c \in Clocks /\ d \in Nat /\ d > 0
  BY DEF Going, Bounded, Fits
<1>2. Advance(c, d).tempdt <= MaxDt
  BY <1>1, AdvanceFields DEF Going, Bounded
<1> QED BY <1>1, <1>2, AdvanceFields, OutputFields, PrepareFortranFields, OutputCatchesUp DEF Going

\* The smoothed and cut step of the modular branch.
LEMMA AdaptGoing ==
    ASSUME NEW c, Going(c), ~IsFinished(c), NEW cfl \in DtMin..DtMax
    PROVE  /\ Going(AdaptTimeStep(c, cfl))
           /\ AdaptTimeStep(c, cfl).t_last_output = c.t_last_output
<1> DEFINE smooth == Clip(Clip(cfl, DtMin, DtMax), Half(c.dt_current), 2 * c.dt_current)
           step == Smaller(Smaller(smooth, NextOutput(c) - c.t_current), c.t_end - c.t_current)
<1>1. c \in Clocks /\ c.dt_current \in 1..MaxDt /\ c.t_end > c.t_current
  BY DEF Going, Bounded, Clocks, IsFinished
<1>2. Half(c.dt_current) \in 1..MaxDt
  BY <1>1, ConstantFacts DEF Half
<1>3. smooth \in 1..MaxDt
  BY <1>1, <1>2, ConstantFacts DEF Clip, Smaller
<1>4. NextOutput(c) - c.t_current \in Nat \ {0}
  BY ConstantFacts DEF NextOutput, Going, Bounded, Clocks
<1> HIDE DEF smooth
<1>5. step \in 1..MaxDt
  BY <1>1, <1>3, <1>4, ConstantFacts DEF Smaller, Clocks
<1>6. AdaptTimeStep(c, cfl) = [c EXCEPT !.dt_current = step]
  BY <1>1 DEF AdaptTimeStep, smooth
<1> HIDE DEF step
<1> QED BY <1>1, <1>5, <1>6, ConstantFacts DEF Going, Bounded, Clocks

\* So it is after a step of the modular path.
LEMMA PrepareModularGoing ==
    ASSUME NEW c, Going(c), NEW d, Fits(c, d), NEW cfl \in DtMin..DtMax
    PROVE  LET now == Advance([c EXCEPT !.dt_current = d], d)
           IN  /\ Going(PrepareModular(now, cfl))
               /\ PrepareModular(now, cfl).t_last_output = OutputIfDue(now).t_last_output
<1> DEFINE with == [c EXCEPT !.dt_current = d]
           now == Advance(with, d)
           out == OutputIfDue(now)
<1>1. with \in Clocks /\ Going(with) /\ Fits(with, d) /\ with.dt_current = d /\ d \in 1..MaxDt
  BY ConstantFacts DEF Going, Bounded, Fits, NextOutput, Clocks
<1> HIDE DEF with
<1>2. Going(out)
  BY <1>1, AdvanceFields, OutputFields, OutputCatchesUp DEF Going, Bounded
<1>3. /\ Going(PrepareModular(now, cfl))
      /\ PrepareModular(now, cfl).t_last_output = out.t_last_output
  <2> HIDE DEF now
  <2>1. PrepareModular(now, cfl) = IF IsFinished(out) THEN out ELSE AdaptTimeStep(out, cfl)
    BY DEF PrepareModular
  <2> HIDE DEF out
  <2> QED BY <1>2, <2>1, AdaptGoing
<1> QED BY <1>3 DEF with

-----------------------------------------------------------------------------
\* The inductive invariant.

\* Initially the clock stands between outputs.
LEMMA ClockInit == Init => ClockInv
BY ConstantFacts, NewClockGoing DEF Init, ClockInv, Going

\* A rejected attempt leaves the clock and retries with a step that fits.
LEMMA RetryClock ==
    ASSUME ClockInv, Retry PROVE ClockInv' /\ clock' = clock
<1>1. \A x : FluxRejectDt(dt) \in Int /\ VolumeRejectDt(dt) \in Int
  BY ConstantFacts DEF ClockInv, FluxRejectDt, VolumeRejectDt, Half
<1>2. PICK suggested \in Int :
         /\ phase = "attempt" /\ dt' = RetryDt(clock, suggested)
         /\ UNCHANGED <<phase, clock, whole>>
  BY <1>1 DEF Retry, RejectAtCourant, RejectByFlux, RejectByVolume, Rejected, historyVars
<1>3. Fits(clock, dt')
  BY <1>2, RetryFits DEF ClockInv
<1> QED BY <1>2, <1>3, ConstantFacts DEF ClockInv, Fits

\* An accepted attempt moves the clock on, past no output.
LEMMA AcceptClock ==
    ASSUME ClockInv, Accept PROVE ClockInv'
<1>1. CASE AcceptDfs
  <2>1. /\ Fits(clock, dt) /\ phase' = "callback" /\ dt' = dt
        /\ clock' = PrepareFortran(Advance(clock, dt), dt)
        /\ whole' = PrepareFortran(Advance(whole, dt), dt)
    BY <1>1 DEF AcceptDfs, ClockInv
  <2>2. Bounded(whole')
    BY <2>1, AdvanceFields, PrepareFortranFields DEF ClockInv, Bounded
  <2> QED BY <2>1, <2>2, PrepareFortranGoing DEF ClockInv
<1>2. CASE AcceptModular
  <2>1. PICK cfl \in DtMin..DtMax :
          clock' = PrepareModular(Advance([clock EXCEPT !.dt_current = dt], dt), cfl)
    BY <1>2 DEF AcceptModular
  <2>2. Fits(clock, dt) /\ phase' = "callback" /\ dt' = dt /\ whole' = whole
    BY <1>2 DEF AcceptModular, ClockInv
  <2> QED BY <2>1, <2>2, PrepareModularGoing DEF ClockInv
<1> QED BY <1>1, <1>2 DEF Accept

\* A later end does not disturb the clock.
LEMMA ResumeGoing ==
    ASSUME NEW c, Going(c), NEW t_end \in Nat PROVE Going([c EXCEPT !.t_end = t_end])
BY DEF Going, Bounded, Clocks

\* The invariant of the clock is inductive.
LEMMA ClockNext == ClockInv /\ [Next]_vars => ClockInv'
<1> SUFFICES ASSUME ClockInv, [Next]_vars PROVE ClockInv'
  OBVIOUS
<1>1. CASE BeginStep
  <2>1. /\ phase' = "attempt" /\ dt' = CandidateDt(clock)
        /\ clock' = Tempdt(clock) /\ whole' = Tempdt(whole) /\ ~IsFinished(clock)
    BY <1>1 DEF BeginStep
  <2>2. Fits(clock', dt') /\ Going(clock') /\ Bounded(whole')
    BY <2>1, CandidateFits, TempdtGoing, TempdtBounded DEF ClockInv
  <2> QED BY <2>1, <2>2, ConstantFacts DEF ClockInv, Fits
<1>2. CASE Retry
  BY <1>2, RetryClock
<1>3. CASE Accept
  BY <1>3, AcceptClock
<1>4. CASE Continue \/ Return \/ StopRequested
  BY <1>4 DEF Continue, Return, StopRequested, ClockInv, historyVars
<1>5. ASSUME NEW t_end \in WindowEnds \cup {TEnd}, Resume(t_end) PROVE ClockInv'
  BY <1>5, ResumeGoing, ConstantFacts DEF Resume, ClockInv
<1>6. CASE UNCHANGED vars
  BY <1>6 DEF vars, loopVars, historyVars, ClockInv
<1> QED BY <1>1, <1>2, <1>3, <1>4, <1>5, <1>6 DEF Next, Loop

\* It holds throughout.
LEMMA ClockAlways == Spec => []ClockInv
BY ClockInit, ClockNext, PTL DEF Spec

(* No result is overrun and no step is empty, for every configuration of   *)
(* the time stepper and every course of rejections, windows and            *)
(* resumptions.  (EDDASolver.run, TimeStepper)                             *)
THEOREM OutputGridHolds == Spec => []OutputGrid
<1>1. ClockInv => OutputGrid
  BY ConstantFacts
     DEF ClockInv, OutputGrid, Going, Bounded, Clocks, Fits, NextOutput, ShouldOutput
<1> QED BY <1>1, ClockAlways, PTL

(* Results lie one interval apart, up to the tolerance.                    *)
(* (EDDASolver.run, should_output, mark_output)                            *)
THEOREM ResultsAreOnTime == Spec => ResultsOnTime
<1> DEFINE OnTime == clock'.t_last_output # clock.t_last_output =>
                       clock'.t_last_output - clock.t_last_output
                         \in (DtOutput - OutputTolerance)..DtOutput
<1>1. ASSUME ClockInv, [Next]_vars PROVE OnTime
  <2>1. CASE BeginStep
    <3>1. clock \in Clocks /\ clock' \in {clock, KeepTempdt(clock)}
      BY <1>1, <2>1 DEF BeginStep, Tempdt, ClockInv, Going, Bounded
    <3> QED BY <3>1, KeepTempdtFields
  <2>2. CASE Retry
    BY <1>1, <2>2, RetryClock
  <2>3. CASE AcceptDfs
    <3>1. Fits(clock, dt) /\ clock' = PrepareFortran(Advance(clock, dt), dt)
      BY <1>1, <2>3 DEF AcceptDfs, ClockInv
    <3>2. /\ Going(clock) /\ clock \in Clocks /\ dt \in Nat
          /\ Advance(clock, dt) \in Clocks /\ Advance(clock, dt).tempdt <= MaxDt
      BY <1>1, <3>1, AdvanceFields DEF ClockInv, Going, Bounded
    <3>3. clock'.t_last_output = OutputIfDue(Advance(clock, dt)).t_last_output
      BY <3>1, <3>2, PrepareFortranFields
    <3> QED BY <3>1, <3>2, <3>3, OutputCatchesUp
  <2>4. CASE AcceptModular
    <3>1. PICK cfl \in DtMin..DtMax :
            clock' = PrepareModular(Advance([clock EXCEPT !.dt_current = dt], dt), cfl)
      BY <2>4 DEF AcceptModular
    <3> DEFINE with == [clock EXCEPT !.dt_current = dt]
    <3>2. Going(with) /\ Fits(with, dt) /\ with.t_last_output = clock.t_last_output
      BY <1>1, <2>4, ConstantFacts
         DEF AcceptModular, ClockInv, Going, Bounded, Fits, NextOutput, Clocks
    <3> HIDE DEF with
    <3>3. clock'.t_last_output = OutputIfDue(Advance(with, dt)).t_last_output
      BY <1>1, <2>4, <3>1, PrepareModularGoing DEF AcceptModular, ClockInv, with
    <3> QED BY <3>2, <3>3, OutputCatchesUp
  <2>5. CASE Continue \/ Return \/ StopRequested \/ UNCHANGED vars
    BY <2>5 DEF Continue, Return, StopRequested, vars, loopVars
  <2>6. ASSUME NEW t_end \in WindowEnds \cup {TEnd}, Resume(t_end) PROVE OnTime
    BY <1>1, <2>6 DEF Resume, ClockInv, Going, Bounded, Clocks
  <2> QED BY <1>1, <2>1, <2>2, <2>3, <2>4, <2>5, <2>6 DEF Next, Loop, Accept
<1> QED BY <1>1, ClockAlways, PTL DEF Spec, ResultsOnTime

-----------------------------------------------------------------------------
(* The landslide schedule.  Host and device stage the same cells, those    *)
(* whose failure time lies in the window: a cell either of them has marked *)
(* is owed already, so its failure time lies before the window.            *)

Marked(s, cells) ==
    /\ s \in Schedules /\ s.candidate = NoCandidate
    /\ s.fired \subseteq cells /\ s.mask \subseteq cells
    /\ s.kernel => s.gate = "kernel" /\ s.field /\ s.validated

StagedAs(s, old, cells) ==
    /\ s \in Schedules
    /\ s.candidate.cells = cells
    /\ s.fired = old.fired /\ s.mask = old.mask /\ s.gate = old.gate
    /\ s.kernel => s.gate = "kernel" /\ s.field /\ s.validated /\ s.staged = cells

\* Holding changes the candidate only.
LEMMA HoldingFields ==
    ASSUME NEW s \in Schedules, NEW cells \in SUBSET Cells
    PROVE  /\ Holding(s, cells) \in Schedules
           /\ Holding(s, cells).candidate.cells = cells
           /\ Holding(s, cells).fired = s.fired /\ Holding(s, cells).mask = s.mask
           /\ Holding(s, cells).gate = s.gate /\ Holding(s, cells).field = s.field
           /\ Holding(s, cells).validated = s.validated
           /\ Holding(s, cells).kernel = s.kernel /\ Holding(s, cells).staged = s.staged
BY DEF Holding, Schedules

\* FallBack also gives up the device.
LEMMA FallBackFields ==
    ASSUME NEW s \in Schedules, NEW cells \in SUBSET Cells
    PROVE  /\ FallBack(s, cells) \in Schedules
           /\ FallBack(s, cells).candidate.cells = cells
           /\ FallBack(s, cells).fired = s.fired /\ FallBack(s, cells).mask = s.mask
           /\ FallBack(s, cells).gate = s.gate /\ FallBack(s, cells).kernel = FALSE
<1>1. FallBack(s, cells) =
        [Holding(s, cells) EXCEPT !.field = FALSE, !.validated = FALSE, !.kernel = FALSE]
  BY DEF FallBack
<1> DEFINE h == Holding(s, cells)
<1>2. h \in Schedules /\ h.candidate.cells = cells
      /\ h.fired = s.fired /\ h.mask = s.mask /\ h.gate = s.gate
  BY HoldingFields
<1> HIDE DEF h
<1>3. [h EXCEPT !.field = FALSE, !.validated = FALSE, !.kernel = FALSE] \in Schedules
  BY <1>2 DEF Schedules
<1>4. LET f == [h EXCEPT !.field = FALSE, !.validated = FALSE, !.kernel = FALSE]
      IN  /\ f.candidate = h.candidate /\ f.fired = h.fired /\ f.mask = h.mask
          /\ f.gate = h.gate /\ f.kernel = FALSE
  BY <1>2 DEF Schedules
<1> QED BY <1>1, <1>2, <1>3, <1>4 DEF h

\* Every branch of Stage stages the cells of the window.
LEMMA StageAsCrossing ==
    ASSUME NEW s, NEW cells, Marked(s, cells), NEW t \in Nat, NEW d \in Nat,
           NEW soil \in SUBSET Cells, NEW agrees \in BOOLEAN,
           cells \cap Crossing(t, d, soil) = {}
    PROVE  StagedAs(Stage(s, t, d, soil, agrees), s, Crossing(t, d, soil))
<1> DEFINE X == Crossing(t, d, soil)
<1>1. s \in Schedules /\ X \in SUBSET Cells
  BY DEF Marked, Crossing
<1>2. HostStage(s, t, d, soil) = X /\ DeviceStage(s, t, d, soil) = X
  BY DEF Marked, HostStage, DeviceStage
<1> HIDE DEF X
<1>3. CASE ~s.field
  <2>1. Stage(s, t, d, soil, agrees) = Holding(s, X) /\ ~s.kernel
    BY <1>2, <1>3 DEF Stage, StageOnHost, Marked
  <2> QED BY <1>1, <2>1, HoldingFields DEF StagedAs, X
<1>4. CASE s.field /\ ~s.validated
  <2> DEFINE now == [Holding(s, X) EXCEPT !.staged = X,
                       !.validated = s.validated \/ s.gate \in {"fast", "kernel"}]
             back == [FallBack(s, X) EXCEPT !.staged = X, !.kernel = s.kernel]
  <2>1. s.kernel = FALSE
    BY <1>1, <1>4 DEF Marked, Schedules
  <2>2. Stage(s, t, d, soil, agrees) \in {now, back}
    BY <1>2, <1>4 DEF Stage, StageAndValidate
  <2>3. StagedAs(now, s, X)
    <3> DEFINE h == Holding(s, X)
    <3>1. /\ h \in Schedules /\ h.candidate.cells = X /\ h.fired = s.fired /\ h.mask = s.mask
          /\ h.gate = s.gate /\ h.kernel = s.kernel
      BY <1>1, HoldingFields
    <3>2. X \subseteq Cells /\ (s.validated \/ s.gate \in {"fast", "kernel"}) \in BOOLEAN
      BY <1>1 DEF Marked, Schedules
    <3> HIDE DEF h
    <3>3. StagedAs([h EXCEPT !.staged = X, !.validated = s.validated \/ s.gate \in {"fast", "kernel"}], s, X)
      BY <2>1, <3>1, <3>2 DEF StagedAs, Schedules
    <3> QED BY <3>3 DEF h
  <2>4. StagedAs(back, s, X)
    BY <1>1, <2>1, FallBackFields DEF StagedAs, Schedules
  <2> HIDE DEF now, back
  <2> QED BY <2>2, <2>3, <2>4 DEF X
<1>5. CASE s.field /\ s.validated /\ s.gate = "kernel"
  <2> DEFINE now == [Holding(s, X) EXCEPT !.staged = X, !.kernel = TRUE]
             back == [FallBack(s, X) EXCEPT !.staged = X]
  <2>1. Stage(s, t, d, soil, agrees) \in {now, back}
    BY <1>2, <1>5 DEF Stage, StageWithKernel
  <2>2. StagedAs(now, s, X)
    <3> DEFINE h == Holding(s, X)
    <3>1. /\ h \in Schedules /\ h.candidate.cells = X /\ h.fired = s.fired
          /\ h.mask = s.mask /\ h.gate = s.gate /\ h.field /\ h.validated
      BY <1>1, <1>5, HoldingFields
    <3> HIDE DEF h
    <3>2. [h EXCEPT !.staged = X, !.kernel = TRUE] \in Schedules
      BY <1>1, <3>1 DEF Schedules
    <3>3. LET f == [h EXCEPT !.staged = X, !.kernel = TRUE]
          IN  /\ f.candidate = h.candidate /\ f.fired = h.fired /\ f.mask = h.mask
              /\ f.gate = h.gate /\ f.field = h.field /\ f.validated = h.validated
              /\ f.staged = X
      BY <3>1 DEF Schedules
    <3> QED BY <1>5, <3>1, <3>2, <3>3 DEF StagedAs, h
  <2>3. StagedAs(back, s, X)
    BY <1>1, FallBackFields DEF StagedAs, Schedules
  <2> HIDE DEF now, back
  <2> QED BY <2>1, <2>2, <2>3 DEF X
<1>6. CASE s.field /\ s.validated /\ s.gate # "kernel"
  <2> DEFINE now == [Holding(s, X) EXCEPT !.staged = X, !.kernel = FALSE]
  <2>1. Stage(s, t, d, soil, agrees) = now
    BY <1>2, <1>6 DEF Stage, StageOnDevice
  <2>2. StagedAs(now, s, X)
    <3> DEFINE h == Holding(s, X)
    <3>1. /\ h \in Schedules /\ h.candidate.cells = X /\ h.fired = s.fired
          /\ h.mask = s.mask /\ h.gate = s.gate
      BY <1>1, HoldingFields
    <3> HIDE DEF h
    <3>2. [h EXCEPT !.staged = X, !.kernel = FALSE] \in Schedules
      BY <1>1, <3>1 DEF Schedules
    <3>3. LET f == [h EXCEPT !.staged = X, !.kernel = FALSE]
          IN  /\ f.candidate = h.candidate /\ f.fired = h.fired /\ f.mask = h.mask
              /\ f.gate = h.gate /\ f.kernel = FALSE
      BY <3>1 DEF Schedules
    <3> QED BY <3>1, <3>2, <3>3 DEF StagedAs, h
  <2> HIDE DEF now
  <2> QED BY <2>1, <2>2 DEF X
<1> QED BY <1>3, <1>4, <1>5, <1>6

\* A rejected attempt leaves no mark.
LEMMA DiscardMarked ==
    ASSUME NEW s, NEW old, NEW cells, NEW new, Marked(old, cells), StagedAs(s, old, new)
    PROVE  Marked(Discard(s), cells) /\ Discard(s).gate = old.gate
BY DEF Marked, StagedAs, Discard, Schedules, NoCandidate

\* An accepted one marks its cells and no others.
LEMMA CommitMarked ==
    ASSUME NEW s, NEW old, NEW cells, NEW new \in SUBSET Cells,
           Marked(old, cells), StagedAs(s, old, new)
    PROVE  Marked(Commit(s), cells \cup new) /\ Commit(s).gate = old.gate
<1>1. /\ s \in Schedules /\ s.fired \cup new \in SUBSET Cells
      /\ s.fired \subseteq cells /\ s.mask \subseteq cells /\ s.candidate.cells = new
      /\ s.gate = old.gate
      /\ s.kernel => s.gate = "kernel" /\ s.field /\ s.validated /\ s.staged = new
  BY DEF Marked, StagedAs, Schedules
<1>2. CASE s.gate = "host"
  <2>1. Commit(s) = [s EXCEPT !.fired = s.fired \cup new, !.candidate = NoCandidate]
    BY <1>1, <1>2 DEF Commit
  <2> QED BY <1>1, <2>1 DEF Marked, Schedules, NoCandidate
<1>3. CASE s.gate # "host" /\ s.kernel
  <2>1. Commit(s) = [s EXCEPT !.fired = s.fired \cup new, !.candidate = NoCandidate,
                              !.mask = s.mask \cup new, !.staged = {}]
    BY <1>1, <1>3 DEF Commit
  <2>2. Commit(s) \in Schedules
    <3>1. NoCandidate \in [held : BOOLEAN, cells : SUBSET Cells]
      BY DEF NoCandidate
    <3> DEFINE fired == s.fired \cup new
               mask == s.mask \cup new
    <3>2. s \in Schedules /\ fired \in SUBSET Cells /\ mask \in SUBSET Cells
      BY <1>1 DEF Schedules
    <3>3. Commit(s) = [s EXCEPT !.fired = fired, !.candidate = NoCandidate,
                                !.mask = mask, !.staged = {}]
      BY <2>1
    <3> HIDE DEF fired, mask
    <3> QED BY <3>1, <3>2, <3>3 DEF Schedules
  <2>3. /\ Commit(s).candidate = NoCandidate /\ Commit(s).gate = s.gate
        /\ Commit(s).fired = s.fired \cup new /\ Commit(s).mask = s.mask \cup new
        /\ Commit(s).kernel = s.kernel /\ Commit(s).field = s.field
        /\ Commit(s).validated = s.validated
    BY <1>1, <2>1 DEF Schedules
  <2> QED BY <1>1, <2>2, <2>3 DEF Marked
<1>4. CASE s.gate # "host" /\ ~s.kernel
  <2>1. Commit(s) = [s EXCEPT !.fired = s.fired \cup new, !.candidate = NoCandidate,
                              !.mask = s.fired \cup new]
    BY <1>1, <1>4 DEF Commit
  <2>2. Commit(s) \in Schedules
    <3>1. NoCandidate \in [held : BOOLEAN, cells : SUBSET Cells]
      BY DEF NoCandidate
    <3> QED BY <1>1, <2>1, <3>1 DEF Schedules
  <2>3. /\ Commit(s).candidate = NoCandidate /\ Commit(s).gate = s.gate
        /\ Commit(s).fired = s.fired \cup new /\ Commit(s).mask = s.fired \cup new
        /\ Commit(s).kernel = s.kernel
    BY <1>1, <2>1 DEF Schedules
  <2> QED BY <1>1, <1>4, <2>2, <2>3 DEF Marked
<1> QED BY <1>2, <1>3, <1>4

\* A new schedule has no marks.
LEMMA NewMarked ==
    ASSUME NEW gate \in Gates, NEW cells
    PROVE  Marked(NewSchedule(gate), cells) /\ NewSchedule(gate).gate = gate
BY DEF Marked, NewSchedule, Schedules, NoCandidate

\* A restored one has those of the device.
LEMMA RestoredMarked ==
    ASSUME NEW s, NEW cells, Marked(s, cells)
    PROVE  Marked(RestoredSchedule(s), cells) /\ RestoredSchedule(s).gate = s.gate
<1>1. s.gate \in Gates /\ s \in Schedules
  BY DEF Marked, Schedules
<1>2. Marked(NewSchedule(s.gate), cells) /\ NewSchedule(s.gate).gate = s.gate
      /\ NewSchedule(s.gate).kernel = FALSE
  BY <1>1, NewMarked DEF NewSchedule
<1> HIDE DEF Marked
<1> QED BY <1>1, <1>2 DEF Marked, RestoredSchedule, Schedules

LandInv ==
    /\ case \in Cases
    /\ Marked(sched, owed)
    /\ deep \in SUBSET Cells /\ owed \in SUBSET Cells
    /\ releases = [c \in Cells |-> IF c \in owed THEN 1 ELSE 0]
    /\ \A c \in owed : FailTime[c] < clock.t_current
    /\ ~Scheduled => owed = {}

\* Initially nothing is owed.
LEMMA LandInit == Init => LandInv
<1> SUFFICES ASSUME Init PROVE LandInv
  OBVIOUS
<1>1. case \in Cases /\ case.gate \in Gates
  BY SolverRunAssumption DEF Init
<1>2. Marked(sched, {})
  BY <1>1, NewMarked DEF Init
<1> QED BY <1>1, <1>2 DEF Init, LandInv

\* What an attempt has staged when it is rejected or accepted.
LEMMA StagedFacts ==
    ASSUME LandInv, ClockInv, Scheduled, NEW agrees \in BOOLEAN
    PROVE  /\ StagedAs(Staged(agrees), sched, Crossing(clock.t_current, dt, deep))
           /\ Crossing(clock.t_current, dt, deep) \in SUBSET Cells
           /\ owed \cap Crossing(clock.t_current, dt, deep) = {}
<1>1. clock.t_current \in Nat /\ dt \in Nat /\ FailTime \in [Cells -> Nat]
  BY FailureScheduleAssumption DEF ClockInv, Going, Bounded, Clocks
<1>2. owed \cap Crossing(clock.t_current, dt, deep) = {}
  BY <1>1 DEF LandInv, Crossing
<1>3. Crossing(clock.t_current, dt, deep) \in SUBSET Cells
  BY DEF LandInv, Crossing
<1> QED BY <1>1, <1>2, <1>3, StageAsCrossing DEF LandInv, Staged

\* Rejections do not change what is owed.
LEMMA RetryLand == ASSUME LandInv, ClockInv, Retry PROVE LandInv'
<1>1. /\ UNCHANGED <<case, clock, deep, owed, releases>>
      /\ \E agrees \in BOOLEAN : sched' = IF Scheduled THEN Discard(Staged(agrees)) ELSE sched
  BY DEF Retry, RejectAtCourant, RejectByFlux, RejectByVolume, Rejected, historyVars
<1>2. Marked(sched', owed)
  BY <1>1, StagedFacts, DiscardMarked DEF LandInv
<1> QED BY <1>1, <1>2 DEF LandInv, Scheduled

\* An accepted step releases what its window owes.
LEMMA AcceptDfsLand == ASSUME LandInv, ClockInv, AcceptDfs PROVE LandInv'
<1> DEFINE X == Crossing(clock.t_current, dt, deep)
<1>1. CASE ~Scheduled
  BY <1>1 DEF AcceptDfs, LandInv, Scheduled
<1>2. CASE Scheduled
  <2>1. PICK agrees \in BOOLEAN :
          /\ sched' = Commit(Staged(agrees))
          /\ releases' = [c \in Cells |-> releases[c] +
                            IF c \in Staged(agrees).candidate.cells THEN 1 ELSE 0]
    BY <1>2 DEF AcceptDfs
  <2>2. /\ owed' = owed \cup X /\ case' = case /\ deep' = deep
        /\ clock' = PrepareFortran(Advance(clock, dt), dt)
    BY <1>2 DEF AcceptDfs
  <2>3. clock.t_current \in Nat /\ dt \in Nat /\ clock'.t_current = clock.t_current + dt
    <3>1. clock \in Clocks /\ clock.tempdt <= MaxDt /\ dt \in Nat
      BY DEF ClockInv, Going, Bounded
    <3>2. Advance(clock, dt) \in Clocks /\ Advance(clock, dt).tempdt <= MaxDt
      BY <3>1, AdvanceFields
    <3>3. clock'.t_current = Advance(clock, dt).t_current
      BY <2>2, <3>1, <3>2, PrepareFortranFields
    <3> QED BY <3>1, <3>3, AdvanceFields DEF Clocks
  <2>4. /\ StagedAs(Staged(agrees), sched, X) /\ X \in SUBSET Cells /\ owed \cap X = {}
    BY <1>2, StagedFacts
  <2>5. \A c \in X : FailTime[c] < clock'.t_current
    BY <2>3 DEF Crossing
  <2>6. Staged(agrees).candidate.cells = X
    BY <2>4 DEF StagedAs
  <2> HIDE DEF X
  <2>7. Marked(sched', owed')
    BY <2>1, <2>2, <2>4, CommitMarked DEF LandInv
  <2>8. \A c \in owed : FailTime[c] < clock'.t_current
    BY <2>3, FailureScheduleAssumption DEF LandInv
  <2>9. releases' = [c \in Cells |-> IF c \in owed' THEN 1 ELSE 0]
    BY <2>1, <2>2, <2>4, <2>6 DEF LandInv
  <2> QED BY <1>2, <2>2, <2>4, <2>5, <2>7, <2>8, <2>9 DEF LandInv, Scheduled
<1> QED BY <1>1, <1>2

\* The invariant of the schedule is inductive, next to that of the clock.
LEMMA LandNext == LandInv /\ ClockInv /\ [Next]_vars => LandInv'
<1> SUFFICES ASSUME LandInv, ClockInv, [Next]_vars PROVE LandInv'
  OBVIOUS
<1>1. CASE BeginStep
  <2>1. /\ deep' \in SUBSET Cells /\ clock'.t_current = clock.t_current
        /\ UNCHANGED <<case, sched, owed, releases>>
    <3>1. clock \in Clocks /\ clock' \in {clock, KeepTempdt(clock)}
      BY <1>1 DEF BeginStep, Tempdt, ClockInv, Going, Bounded
    <3> QED BY <1>1, <3>1, KeepTempdtFields DEF BeginStep, stateVarsButDeep
  <2> QED BY <2>1 DEF LandInv, Scheduled
<1>2. CASE Retry
  BY <1>2, RetryLand
<1>3. CASE AcceptDfs
  BY <1>3, AcceptDfsLand
<1>4. CASE AcceptModular
  BY <1>4 DEF AcceptModular, LandInv, Scheduled
<1>5. CASE Continue \/ Return \/ StopRequested \/ UNCHANGED vars
  BY <1>5 DEF Continue, Return, StopRequested, vars, loopVars, stateVars, historyVars,
              LandInv, Scheduled
<1>6. ASSUME NEW t_end \in WindowEnds \cup {TEnd}, Resume(t_end) PROVE LandInv'
  <2>1. /\ UNCHANGED <<case, deep, owed, releases>> /\ clock'.t_current = clock.t_current
        /\ sched' \in {sched, RestoredSchedule(sched)}
    BY <1>6 DEF Resume, ClockInv, Going, Bounded, Clocks
  <2> QED BY <2>1, RestoredMarked DEF LandInv, Scheduled
<1> QED BY <1>1, <1>2, <1>3, <1>4, <1>5, <1>6 DEF Next, Loop, Accept

\* It holds throughout.
LEMMA LandAlways == Spec => []LandInv
BY LandInit, LandNext, ClockAlways, PTL DEF Spec

(* The mass of every scheduled landslide enters the flow exactly once, for *)
(* any cells, failure times, gates and steps.                              *)
(* (_stage_precomputed_failure_sources, _commit_precomputed_failure_schedule) *)
THEOREM FiresOnce == Spec => []FiresOnceInItsWindow
<1>1. LandInv => FiresOnceInItsWindow
  BY DEF LandInv, FiresOnceInItsWindow
<1> QED BY <1>1, LandAlways, PTL

-----------------------------------------------------------------------------
(* The results on disk.                                                    *)

Kept(r, times) ==
    /\ r \in Results /\ times \in Seq(Nat)
    /\ r.output_count = Len(times)
    /\ Len(r.files) \in {Len(times), Len(times) + 1}
    /\ \A k \in 1..Len(times) : r.files[k].time = times[k]

ResultFiles == [time : Nat, maxima : SUBSET Nat]

\* Writing a file under the next number keeps those before it.
LEMMA WriteFile ==
    ASSUME NEW files \in Seq(ResultFiles), NEW n \in Nat, Len(files) \in {n, n + 1},
           NEW file \in ResultFiles
    PROVE  LET new == write_file(files, n + 1, file)
           IN  /\ new \in Seq(ResultFiles) /\ Len(new) = n + 1 /\ new[n + 1] = file
               /\ \A k \in 1..n : new[k] = files[k]
<1>1. CASE Len(files) = n
  <2>1. write_file(files, n + 1, file) = Append(files, file)
    BY <1>1 DEF write_file
  <2>2. /\ Append(files, file) \in Seq(ResultFiles) /\ Len(Append(files, file)) = n + 1
        /\ Append(files, file)[n + 1] = file
        /\ \A k \in 1..n : Append(files, file)[k] = files[k]
    BY <1>1
  <2> QED BY <2>1, <2>2
<1>2. CASE Len(files) = n + 1
  <2> DEFINE new == [files EXCEPT ![n + 1] = file]
  <2>1. write_file(files, n + 1, file) = new
    BY <1>2 DEF write_file
  <2>2. new \in Seq(ResultFiles) /\ Len(new) = n + 1
    BY <1>2
  <2>3. new[n + 1] = file /\ \A k \in 1..n : new[k] = files[k]
    BY <1>2
  <2> HIDE DEF new
  <2> QED BY <2>1, <2>2, <2>3
<1> QED BY <1>1, <1>2

\* So does writing a result.
LEMMA OutputResults ==
    ASSUME NEW r \in Results, NEW t \in Nat, Len(r.files) \in {r.output_count, r.output_count + 1}
    PROVE  LET out == output_results(r, t)
           IN  /\ out \in Results /\ out.output_count = r.output_count
               /\ out.samples = r.samples /\ out.exported = r.exported
               /\ Len(out.files) = r.output_count + 1
               /\ out.files[r.output_count + 1].time = t
               /\ \A k \in 1..r.output_count : out.files[k] = r.files[k]
<1> DEFINE seen == update_output_max_cache(r, t)
           file == [time |-> t, maxima |-> seen]
           new == write_file(r.files, r.output_count + 1, file)
           out == output_results(r, t)
<1>1. /\ r.files \in Seq(ResultFiles) /\ r.output_count \in Nat /\ seen \in SUBSET Nat
      /\ file \in ResultFiles /\ file.time = t
  BY DEF Results, ResultFiles, update_output_max_cache
<1>2. out = [r EXCEPT !.cached = seen, !.files = new]
  BY DEF output_results
<1> HIDE DEF seen, file
<1>3. /\ new \in Seq(ResultFiles) /\ Len(new) = r.output_count + 1 /\ new[r.output_count + 1] = file
      /\ \A k \in 1..r.output_count : new[k] = r.files[k]
  <2> DEFINE files == r.files
             n == r.output_count
  <2>1. /\ files \in Seq(ResultFiles) /\ n \in Nat /\ Len(files) \in {n, n + 1}
        /\ file \in ResultFiles
    BY <1>1
  <2> HIDE DEF files, n
  <2> DEFINE now == write_file(files, n + 1, file)
  <2>2. /\ now \in Seq(ResultFiles) /\ Len(now) = n + 1 /\ now[n + 1] = file
        /\ \A k \in 1..n : now[k] = files[k]
    BY <2>1, WriteFile, Zenon
  <2> QED BY <2>2 DEF files, n
<1> HIDE DEF new, out
<1>4. out \in Results
  BY <1>1, <1>2, <1>3 DEF Results, ResultFiles
<1>5. /\ out.files = new /\ out.output_count = r.output_count
      /\ out.samples = r.samples /\ out.exported = r.exported
  BY <1>2 DEF Results
<1> QED BY <1>1, <1>3, <1>4, <1>5 DEF out

\* A due result is kept under its number.
LEMMA DueKept ==
    ASSUME NEW r, NEW times, Kept(r, times), NEW t \in Nat
    PROVE  Kept(output_due(r, t), Append(times, t))
<1> DEFINE sampled == record_output_samples(r, t)
           written == output_results(sampled, t)
<1>0. /\ r \in Results /\ r.output_count = Len(times)
      /\ Len(r.files) \in {Len(times), Len(times) + 1} /\ times \in Seq(Nat)
  BY DEF Kept
<1>1. /\ sampled \in Results /\ sampled.output_count = r.output_count
      /\ sampled.files = r.files
  <2>1. r.samples \in Seq(Nat) /\ Append(r.samples, t) \in Seq(Nat)
    BY <1>0 DEF Results
  <2> QED BY <1>0, <2>1 DEF Results, record_output_samples
<1> HIDE DEF sampled
<1>2. /\ written \in Results /\ Len(written.files) = r.output_count + 1
      /\ written.files[r.output_count + 1].time = t
      /\ \A k \in 1..r.output_count : written.files[k] = r.files[k]
  <2>1. Len(sampled.files) \in {sampled.output_count, sampled.output_count + 1}
    BY <1>0, <1>1
  <2>2. /\ written \in Results /\ Len(written.files) = sampled.output_count + 1
        /\ written.files[sampled.output_count + 1].time = t
        /\ \A k \in 1..sampled.output_count : written.files[k] = sampled.files[k]
    BY <1>1, <2>1, OutputResults, Zenon
  <2> QED BY <1>1, <2>2
<1> HIDE DEF written
<1>3. output_due(r, t) = [written EXCEPT !.output_count = r.output_count + 1]
  BY DEF output_due, written, sampled
<1>4. /\ output_due(r, t) \in Results /\ output_due(r, t).files = written.files
      /\ output_due(r, t).output_count = r.output_count + 1
  <2>1. r.output_count + 1 \in Nat
    BY <1>0 DEF Results
  <2> QED BY <1>2, <1>3, <2>1 DEF Results
<1>5. /\ times \in Seq(Nat) /\ Len(times) \in Nat /\ r.output_count = Len(times)
      /\ Append(times, t) \in Seq(Nat) /\ Len(Append(times, t)) = Len(times) + 1
      /\ Append(times, t)[Len(times) + 1] = t
      /\ \A k \in 1..Len(times) : Append(times, t)[k] = times[k]
  BY DEF Kept
<1>6. \A k \in 1..Len(times) : r.files[k].time = times[k]
  BY DEF Kept
<1>7. \A k \in 1..Len(times) + 1 : written.files[k].time = Append(times, t)[k]
  BY <1>2, <1>5, <1>6
<1> QED BY <1>2, <1>4, <1>5, <1>7 DEF Kept

\* The result at the end of a run replaces no due result.
LEMMA FinalKept ==
    ASSUME NEW r, NEW times, Kept(r, times), NEW t \in Nat
    PROVE  Kept(output_final(r, t), times)
<1> DEFINE written == output_results(r, t)
<1>1. /\ written \in Results /\ Len(written.files) = r.output_count + 1
      /\ written.output_count = r.output_count
      /\ \A k \in 1..r.output_count : written.files[k] = r.files[k]
  BY OutputResults DEF Kept
<1> HIDE DEF written
<1>2. output_final(r, t) = [written EXCEPT !.exported = IF written.samples = <<>>
                               THEN written.exported ELSE written.samples]
  BY DEF output_final, export_final_results, written
<1>3. /\ output_final(r, t) \in Results /\ output_final(r, t).files = written.files
      /\ output_final(r, t).output_count = written.output_count
  BY <1>1, <1>2 DEF Results
<1> QED BY <1>1, <1>3 DEF Kept

\* A new solver on the directory goes on with the numbers.
LEMMA RestoredKept ==
    ASSUME NEW r, NEW times, Kept(r, times) PROVE Kept(RestoredResults(r), times)
<1>1. r \in Results
  BY DEF Kept
<1>2. /\ RestoredResults(r) \in Results /\ RestoredResults(r).files = r.files
      /\ RestoredResults(r).output_count = r.output_count
  <2> DEFINE none == <<>>
  <2>1. none \in Seq(Nat)
    OBVIOUS
  <2>2. RestoredResults(r) = [r EXCEPT !.cached = {}, !.samples = none]
    BY DEF RestoredResults
  <2> HIDE DEF none
  <2> QED BY <1>1, <2>1, <2>2 DEF Results
<1> QED BY <1>2 DEF Kept

\* A new run has no results.
LEMMA NewKept == Kept(NewResults, <<>>)
BY DEF Kept, NewResults, Results

\* Results are kept by every step.
LEMMA KeptNext == Kept(results, due) /\ ClockInv /\ [Next]_vars => Kept(results, due)'
<1> SUFFICES ASSUME Kept(results, due), ClockInv, [Next]_vars PROVE Kept(results', due')
  OBVIOUS
<1>1. CASE Accept
  <2>1. Advance(clock, dt).t_current \in Nat
    BY AdvanceFields DEF ClockInv, Going, Bounded, Clocks
  <2>2. ShowResults
    BY <1>1 DEF Accept, AcceptDfs, AcceptModular
  <2> QED BY <2>1, <2>2, DueKept DEF ShowResults, outputVars
<1>2. CASE Return
  <2>1. clock.t_current \in Nat
    BY DEF ClockInv, Going, Bounded, Clocks
  <2> QED BY <1>2, <2>1, FinalKept DEF Return, historyVars
<1>3. ASSUME NEW t_end \in WindowEnds \cup {TEnd}, Resume(t_end) PROVE Kept(results', due')
  BY <1>3, RestoredKept DEF Resume
<1>4. CASE BeginStep \/ Retry \/ Continue \/ StopRequested \/ UNCHANGED vars
  BY <1>4 DEF BeginStep, Retry, RejectAtCourant, RejectByFlux, RejectByVolume, Rejected,
              Continue, StopRequested, vars, outputVars, historyVars
<1> QED BY <1>1, <1>2, <1>3, <1>4 DEF Next, Loop

\* They are kept throughout.
LEMMA KeptAlways == Spec => []Kept(results, due)
<1>1. Init => Kept(results, due)
  BY NewKept DEF Init
<1> QED BY <1>1, KeptNext, ClockAlways, PTL DEF Spec

(* No due result is lost or displaced, over any number of windows.         *)
(* (_output_results, mark_output, load_state)                              *)
THEOREM ResultsAreKept == Spec => []ResultsKept
<1>1. Kept(results, due) => ResultsKept
  BY DEF Kept, ResultsKept
<1> QED BY <1>1, KeptAlways, PTL

-----------------------------------------------------------------------------
(* Types.                                                                  *)

RestOK ==
    /\ phase \in Phases /\ slid \in BOOLEAN /\ heads \in HeadStates
    /\ aligned \in BOOLEAN /\ ends \subseteq Nat

\* The types of the remaining variables are inductive.
LEMMA RestNext == RestOK /\ [Next]_vars => RestOK'
<1> SUFFICES ASSUME RestOK, [Next]_vars PROVE RestOK'
  OBVIOUS
<1> USE DEF RestOK, Phases, HeadStates
<1>1. CASE BeginStep
  BY <1>1 DEF BeginStep, stateVarsButDeep
<1>2. CASE Retry
  <2>1. \E released \in MayRelease : slid' = (slid \/ released)
    BY <1>2 DEF Retry, RejectAtCourant, RejectByFlux, RejectByVolume, Rejected
  <2>2. slid' \in BOOLEAN
    BY <2>1 DEF MayRelease
  <2>3. UNCHANGED <<phase, aligned, ends>>
    BY <1>2 DEF Retry, RejectAtCourant, RejectByFlux, RejectByVolume, Rejected, historyVars
  <2>4. heads' \in HeadStates
    BY <1>2 DEF Retry, RejectAtCourant, RejectByFlux, RejectByVolume, Rejected, AfterRestore
  <2> QED BY <2>2, <2>3, <2>4
<1>3. CASE Accept
  BY <1>3 DEF Accept, AcceptDfs, AcceptModular, AfterRelease
<1>4. CASE Continue \/ Return \/ StopRequested \/ UNCHANGED vars
  BY <1>4 DEF Continue, Return, StopRequested, vars, loopVars, stateVars, historyVars
<1>5. ASSUME NEW t_end \in WindowEnds \cup {TEnd}, Resume(t_end) PROVE RestOK'
  BY <1>5, ConstantFacts DEF Resume
<1> QED BY <1>1, <1>2, <1>3, <1>4, <1>5 DEF Next, Loop

(* Every variable that is not a set of fields has its type throughout.     *)
(* (EDDASolver)                                                            *)
THEOREM SolverTypes == Spec => []SolverTypeOK
<1>1. Init => RestOK
  BY ConstantFacts DEF Init, RestOK, Phases, HeadStates
<1>2. ClockInv /\ LandInv /\ Kept(results, due) /\ RestOK => SolverTypeOK
  BY DEF ClockInv, Going, Bounded, MaxDt, LandInv, Marked, Kept, RestOK, SolverTypeOK
<1> QED BY <1>1, <1>2, RestNext, ClockAlways, LandAlways, KeptAlways, PTL DEF Spec

-----------------------------------------------------------------------------
(* Windows.  As long as the windows end where results are due, the next    *)
(* output lies before the end of the window, so that the end cuts nothing. *)

\* Different points of the output grid are an output interval apart.
LEMMA GridGap ==
    ASSUME NEW a \in Grid, NEW b \in Grid, a < b PROVE a + DtOutput <= b
<1>1. PICK m \in Nat, n \in Nat : a = m * DtOutput /\ b = n * DtOutput
  BY ConstantFacts DEF Grid
<1>2. DtOutput \in Nat /\ DtOutput > 0
  BY ConstantFacts
<1>3. ASSUME n <= m PROVE FALSE
  <2> DEFINE k == m - n
  <2>1. k \in Nat /\ m = n + k
    BY <1>3
  <2> HIDE DEF k
  <2>2. k * DtOutput \in Nat /\ m * DtOutput = n * DtOutput + k * DtOutput
    BY <1>2, <2>1
  <2> QED BY <1>1, <1>2, <2>2
<1>4. n > m
  BY <1>3
<1> DEFINE k == n - m - 1
<1>5. k \in Nat /\ n = m + 1 + k
  BY <1>4
<1> HIDE DEF k
<1>6. k * DtOutput \in Nat /\ n * DtOutput = m * DtOutput + DtOutput + k * DtOutput
  BY <1>2, <1>5
<1> QED BY <1>1, <1>2, <1>6

WindowInv ==
    /\ ends \subseteq WindowEnds \cup {TEnd} /\ clock.t_end \in ends
    /\ whole.t_end = TEnd
    /\ clock.t_last_output \in {0} \cup {due[k] : k \in 1..Len(due)}
    /\ case.path = "dfs" =>
         /\ aligned => clock = [whole EXCEPT !.t_end = clock.t_end]
         /\ OnGrid => aligned

\* The operations do not look at the end of the run.
LEMMA SameButEnd ==
    ASSUME NEW c \in Clocks, NEW w \in Clocks, c = [w EXCEPT !.t_end = c.t_end]
    PROVE  /\ KeepTempdt(c) = [KeepTempdt(w) EXCEPT !.t_end = c.t_end]
           /\ \A d \in Nat : PrepareFortran(Advance(c, d), d)
                = [PrepareFortran(Advance(w, d), d) EXCEPT !.t_end = c.t_end]
<1>1. /\ c.t_current = w.t_current /\ c.dt_current = w.dt_current
      /\ c.t_last_output = w.t_last_output /\ c.tempdt = w.tempdt
  BY DEF Clocks
<1> DEFINE Record(a, b, f, g, h) ==
      [t_current |-> a, dt_current |-> b, t_last_output |-> f, t_end |-> g, tempdt |-> h]
<1>2. \A x \in Clocks : x = Record(x.t_current, x.dt_current, x.t_last_output, x.t_end, x.tempdt)
  BY DEF Clocks
<1>3. KeepTempdt(c) = [KeepTempdt(w) EXCEPT !.t_end = c.t_end]
  <2> DEFINE kept == IF c.t_current + c.dt_current > NextOutput(c) THEN c.dt_current ELSE c.tempdt
  <2>1. KeepTempdt(c) = Record(c.t_current, c.dt_current, c.t_last_output, c.t_end, kept)
    BY DEF KeepTempdt, Clocks
  <2>2. KeepTempdt(w) = Record(c.t_current, c.dt_current, c.t_last_output, w.t_end, kept)
    BY <1>1 DEF KeepTempdt, Clocks, NextOutput
  <2> HIDE DEF kept
  <2> QED BY <2>1, <2>2
<1>4. ASSUME NEW d \in Nat
      PROVE  PrepareFortran(Advance(c, d), d)
                = [PrepareFortran(Advance(w, d), d) EXCEPT !.t_end = c.t_end]
  <2> DEFINE now == c.t_current + d
             is_due == now - c.t_last_output >= DtOutput - OutputTolerance
             out == IF is_due THEN now ELSE c.t_last_output
             step == IF is_due /\ c.tempdt > GrownDt(d) THEN c.tempdt ELSE GrownDt(d)
  <2>1. ASSUME NEW x \in Clocks, x.t_current = c.t_current, x.dt_current = c.dt_current,
               x.t_last_output = c.t_last_output, x.tempdt = c.tempdt
        PROVE  PrepareFortran(Advance(x, d), d) = Record(now, step, out, x.t_end, c.tempdt)
    <3>1. Advance(x, d) = Record(now, x.dt_current, c.t_last_output, x.t_end, c.tempdt)
      BY <2>1 DEF Advance, Clocks
    <3>2. ShouldOutput(Advance(x, d)) <=> is_due
      BY <3>1 DEF ShouldOutput
    <3>3. OutputIfDue(Advance(x, d)) = Record(now, x.dt_current, out, x.t_end, c.tempdt)
      BY <3>1, <3>2 DEF OutputIfDue, MarkOutput
    <3>4. Advance(x, d).tempdt = c.tempdt
      BY <3>1
    <3> HIDE DEF now, is_due, out
    <3> QED BY <3>2, <3>3, <3>4 DEF PrepareFortran
  <2> HIDE DEF now, is_due, out, step
  <2> QED BY <1>1, <2>1
<1> QED BY <1>3, <1>4

\* A window that ends on the grid beyond now ends no earlier than the output.
LEMMA SameCandidate ==
    ASSUME ClockInv, WindowInv, OnGrid, case.path = "dfs", ~IsFinished(clock)
    PROVE  CandidateDt(whole) = CandidateDt(clock)
<1>1. clock = [whole EXCEPT !.t_end = clock.t_end] /\ clock \in Clocks /\ whole \in Clocks
  BY DEF WindowInv, ClockInv, Going, Bounded
<1>2. /\ clock.t_current = whole.t_current /\ clock.dt_current = whole.dt_current
      /\ clock.t_last_output = whole.t_last_output
  BY <1>1 DEF Clocks
<1>3. clock.t_last_output \in Grid /\ clock.t_end \in Grid
  <2>1. 0 \in Grid
    BY ConstantFacts DEF Grid
  <2> QED BY <2>1 DEF WindowInv, OnGrid
<1>4. /\ clock.t_last_output <= clock.t_current /\ clock.t_current < clock.t_end
      /\ clock.t_last_output \in Nat /\ clock.t_current \in Nat /\ clock.t_end \in Nat
  BY <1>1 DEF ClockInv, Going, IsFinished, Clocks
<1>5. NextOutput(clock) <= clock.t_end
  BY <1>3, <1>4, GridGap DEF NextOutput
<1>6. clock.t_end <= TEnd /\ whole.t_end = TEnd /\ TEnd \in Nat
  BY SolverRunAssumption DEF WindowInv
<1>7. NextOutput(clock) \in Nat /\ clock.t_current + clock.dt_current \in Nat
  BY <1>1, <1>4, ConstantFacts DEF NextOutput, Clocks
<1> QED BY <1>2, <1>4, <1>5, <1>6, <1>7 DEF CandidateDt, Smaller, NextOutput

\* Initially the windows have not mattered.
LEMMA WindowInit == Init => WindowInv
<1> SUFFICES ASSUME Init PROVE WindowInv
  OBVIOUS
<1>1. PICK t_end \in WindowEnds \cup {TEnd} : clock = NewClock(t_end) /\ ends = {t_end}
  BY DEF Init
<1>2. whole = NewClock(TEnd) /\ aligned = TRUE
  BY DEF Init
<1> QED BY <1>1, <1>2 DEF WindowInv, NewClock

\* A candidate step on the grid is that of the run without windows.
LEMMA WindowBegin == ASSUME ClockInv, WindowInv, BeginStep PROVE WindowInv'
<1>1. /\ UNCHANGED <<case, ends, due>> /\ ~IsFinished(clock)
      /\ clock' = Tempdt(clock) /\ whole' = Tempdt(whole)
      /\ aligned' = (aligned /\ CandidateDt(whole) = CandidateDt(clock))
  BY DEF BeginStep, outputVars
<1>2. clock \in Clocks /\ whole \in Clocks
  BY DEF ClockInv, Going, Bounded
<1>3. /\ clock'.t_end = clock.t_end /\ clock'.t_last_output = clock.t_last_output
      /\ whole'.t_end = whole.t_end
  BY <1>1, <1>2, KeepTempdtFields DEF Tempdt
<1>4. ASSUME case.path = "dfs", aligned' PROVE clock' = [whole' EXCEPT !.t_end = clock'.t_end]
  <2>1. clock' = KeepTempdt(clock) /\ whole' = KeepTempdt(whole) /\ aligned
    BY <1>1, <1>4 DEF Tempdt
  <2>2. clock = [whole EXCEPT !.t_end = clock.t_end]
    BY <1>4, <2>1 DEF WindowInv
  <2>3. KeepTempdt(clock) = [KeepTempdt(whole) EXCEPT !.t_end = clock.t_end]
    BY <1>2, <2>2, SameButEnd
  <2> QED BY <1>3, <2>1, <2>3
<1>5. ASSUME case.path = "dfs", OnGrid' PROVE aligned'
  <2>1. OnGrid
    BY <1>1, <1>5 DEF OnGrid
  <2> QED BY <1>1, <1>5, <2>1, SameCandidate DEF WindowInv
<1> QED BY <1>1, <1>3, <1>4, <1>5 DEF WindowInv

\* An accepted step keeps the two clocks together.
LEMMA WindowAccept == ASSUME ClockInv, WindowInv, Kept(results, due), Accept PROVE WindowInv'
<1>1. /\ clock \in Clocks /\ whole \in Clocks /\ dt \in Nat /\ Fits(clock, dt) /\ Going(clock)
      /\ clock.tempdt <= MaxDt /\ whole.tempdt <= MaxDt
  BY DEF Accept, AcceptDfs, AcceptModular, ClockInv, Going, Bounded
<1> DEFINE now == Advance(clock, dt)
<1>2. /\ now \in Clocks /\ now.t_current \in Nat /\ now.t_last_output = clock.t_last_output
      /\ now.t_end = clock.t_end /\ now.tempdt = clock.tempdt
  BY <1>1, AdvanceFields DEF Clocks
<1>3. /\ UNCHANGED <<case, ends, aligned>>
      /\ due' = IF ShouldOutput(now) THEN Append(due, now.t_current) ELSE due
  BY DEF Accept, AcceptDfs, AcceptModular, ShowResults, outputVars
<1>4. /\ clock'.t_end = clock.t_end
      /\ clock'.t_last_output = IF ShouldOutput(now) THEN now.t_current ELSE clock.t_last_output
      /\ whole'.t_end = whole.t_end
  <2>1. CASE AcceptDfs
    <3>1. clock' = PrepareFortran(now, dt) /\ whole' = PrepareFortran(Advance(whole, dt), dt)
      BY <2>1 DEF AcceptDfs
    <3>2. /\ Advance(whole, dt) \in Clocks /\ Advance(whole, dt).tempdt <= MaxDt
          /\ Advance(whole, dt).t_end = whole.t_end
      BY <1>1, AdvanceFields
    <3>3. /\ clock'.t_end = now.t_end /\ clock'.t_last_output = OutputIfDue(now).t_last_output
      BY <1>1, <1>2, <3>1, PrepareFortranFields
    <3>4. whole'.t_end = whole.t_end
      BY <1>1, <3>1, <3>2, PrepareFortranFields
    <3> HIDE DEF now
    <3> QED BY <1>2, <3>3, <3>4, OutputFields
  <2>2. CASE AcceptModular
    <3>1. PICK cfl \in DtMin..DtMax :
            clock' = PrepareModular(Advance([clock EXCEPT !.dt_current = dt], dt), cfl)
      BY <2>2 DEF AcceptModular
    <3> DEFINE with == Advance([clock EXCEPT !.dt_current = dt], dt)
    <3>2. /\ with \in Clocks /\ with.t_end = clock.t_end
          /\ with.t_current = now.t_current /\ with.t_last_output = clock.t_last_output
      <4> DEFINE before == [clock EXCEPT !.dt_current = dt]
      <4>1. /\ before \in Clocks /\ before.t_end = clock.t_end
            /\ before.t_current = clock.t_current /\ before.t_last_output = clock.t_last_output
        BY <1>1 DEF Clocks
      <4> HIDE DEF before
      <4> DEFINE after == Advance(before, dt)
      <4>2. /\ after \in Clocks /\ after.t_end = clock.t_end
            /\ after.t_current = now.t_current /\ after.t_last_output = clock.t_last_output
        BY <1>1, <4>1, AdvanceFields
      <4> HIDE DEF after
      <4>3. with = after
        BY DEF before, after
      <4> HIDE DEF with
      <4> QED BY <4>2, <4>3
    <3>3. clock'.t_last_output = OutputIfDue(with).t_last_output
      BY <1>1, <3>1, PrepareModularGoing
    <3> HIDE DEF with
    <3>4. clock'.t_end = with.t_end
      <4> DEFINE out == OutputIfDue(Advance([clock EXCEPT !.dt_current = dt], dt))
      <4>1. out \in Clocks /\ out.t_end = with.t_end
        BY <3>2, OutputFields DEF with
      <4>2. clock' = IF IsFinished(out) THEN out ELSE AdaptTimeStep(out, cfl)
        BY <3>1 DEF PrepareModular
      <4> HIDE DEF out
      <4>3. AdaptTimeStep(out, cfl).t_end = out.t_end
        BY <4>1 DEF AdaptTimeStep, Clocks
      <4> QED BY <4>1, <4>2, <4>3
    <3>5. ShouldOutput(with) <=> ShouldOutput(now)
      BY <1>2, <3>2 DEF ShouldOutput
    <3>6. whole' = whole
      BY <2>2 DEF AcceptModular
    <3> HIDE DEF now
    <3> QED BY <3>2, <3>3, <3>4, <3>5, <3>6, OutputFields
  <2> QED BY <2>1, <2>2 DEF Accept
<1> HIDE DEF now
<1>5. /\ due \in Seq(Nat) /\ Len(due) \in Nat
      /\ \A k \in 1..Len(due) : Append(due, now.t_current)[k] = due[k]
      /\ Append(due, now.t_current)[Len(due) + 1] = now.t_current
      /\ Len(Append(due, now.t_current)) = Len(due) + 1
  BY <1>2 DEF Kept
<1>6. clock'.t_last_output \in {0} \cup {due'[k] : k \in 1..Len(due')}
  <2>1. CASE ShouldOutput(now)
    BY <1>3, <1>4, <1>5, <2>1
  <2>2. CASE ~ShouldOutput(now)
    BY <1>3, <1>4, <2>2 DEF WindowInv
  <2> QED BY <2>1, <2>2
<1>7. OnGrid' => OnGrid
  BY <1>3, <1>5 DEF OnGrid
<1>8. ASSUME case.path = "dfs", aligned PROVE clock' = [whole' EXCEPT !.t_end = clock'.t_end]
  <2>1. /\ clock' = PrepareFortran(Advance(clock, dt), dt)
        /\ whole' = PrepareFortran(Advance(whole, dt), dt)
    BY <1>8 DEF Accept, AcceptDfs, AcceptModular
  <2> QED BY <1>1, <1>4, <1>8, <2>1, SameButEnd DEF WindowInv
<1> QED BY <1>3, <1>4, <1>6, <1>7, <1>8 DEF WindowInv

\* The invariant of the windows is inductive, next to clock and results.
LEMMA WindowNext == WindowInv /\ ClockInv /\ Kept(results, due) /\ [Next]_vars => WindowInv'
<1> SUFFICES ASSUME WindowInv, ClockInv, Kept(results, due), [Next]_vars PROVE WindowInv'
  OBVIOUS
<1>1. CASE BeginStep
  BY <1>1, WindowBegin
<1>2. CASE Accept
  BY <1>2, WindowAccept
<1>3. CASE Retry \/ Continue \/ Return \/ StopRequested \/ UNCHANGED vars
  <2>1. UNCHANGED <<case, clock, whole, aligned, ends, due>>
    BY <1>3 DEF Retry, RejectAtCourant, RejectByFlux, RejectByVolume, Rejected, Continue,
                Return, StopRequested, vars, loopVars, historyVars
  <2> QED BY <2>1 DEF WindowInv, OnGrid
<1>4. ASSUME NEW t_end \in WindowEnds \cup {TEnd}, Resume(t_end) PROVE WindowInv'
  <2>1. /\ UNCHANGED <<case, whole, aligned, due>> /\ ends' = ends \cup {t_end}
        /\ clock' = [clock EXCEPT !.t_end = t_end]
    BY <1>4 DEF Resume
  <2>2. clock \in Clocks /\ whole \in Clocks
    BY DEF ClockInv, Going, Bounded
  <2>3. clock'.t_end = t_end /\ clock'.t_last_output = clock.t_last_output
    BY <2>1, <2>2 DEF Clocks
  <2>4. OnGrid' => OnGrid
    BY <2>1 DEF OnGrid
  <2>5. ASSUME clock = [whole EXCEPT !.t_end = clock.t_end]
        PROVE  clock' = [whole' EXCEPT !.t_end = clock'.t_end]
    BY <2>1, <2>2, <2>3, <2>5 DEF Clocks
  <2> QED BY <2>1, <2>3, <2>4, <2>5 DEF WindowInv
<1> QED BY <1>1, <1>2, <1>3, <1>4 DEF Next, Loop

\* It holds throughout.
LEMMA WindowAlways == Spec => []WindowInv
BY WindowInit, WindowNext, ClockAlways, KeptAlways, PTL DEF Spec

(* On the Fortran path, windows that end on the output grid are invisible: *)
(* whatever the constants, rejections and resumptions, the clock is that   *)
(* of a run without windows.  (EDDASolver.run, save_state, load_state)     *)
THEOREM WindowsAreInvisible == Spec => []WindowsDoNotMatter
<1>1. WindowInv => WindowsDoNotMatter
  BY DEF WindowInv, WindowsDoNotMatter
<1> QED BY <1>1, WindowAlways, PTL

-----------------------------------------------------------------------------
(* What one solver shows is complete.                                      *)

TimesUpTo(files, k) == {files[j].time : j \in 1..k}
MaximaOf(files) == \A k \in 1..Len(files) : files[k].maxima = TimesUpTo(files, k)

\* Files, cached maxima and samples of a solver that started anew.
Complete(r, times) ==
    /\ MaximaOf(r.files) /\ r.cached = TimesUpTo(r.files, Len(r.files))
    /\ r.samples = times

\* The next result takes its maxima over all results up to itself.
LEMMA NextMaxima ==
    ASSUME NEW files \in Seq(ResultFiles), MaximaOf(files), NEW t \in Nat, NEW file \in ResultFiles,
           file.time = t, file.maxima = TimesUpTo(files, Len(files)) \cup {t}
    PROVE  LET new == Append(files, file)
           IN  MaximaOf(new) /\ TimesUpTo(new, Len(new)) = file.maxima
<1> DEFINE new == Append(files, file)
           n == Len(files)
<1>1. /\ n \in Nat /\ Len(new) = n + 1 /\ new[n + 1] = file
      /\ \A k \in 1..n : new[k] = files[k]
  OBVIOUS
<1>2. \A k \in 1..n : files[k].maxima = TimesUpTo(files, k)
  BY DEF MaximaOf
<1>3. file.maxima = TimesUpTo(files, n) \cup {t}
  OBVIOUS
<1> HIDE DEF new, n
<1>4. ASSUME NEW k \in 1..n PROVE TimesUpTo(new, k) = TimesUpTo(files, k)
  <2>1. \A j \in 1..k : new[j] = files[j]
    BY <1>1, <1>4
  <2> QED BY <2>1 DEF TimesUpTo
<1>5. TimesUpTo(new, n + 1) = TimesUpTo(files, n) \cup {t}
  <2>1. 1..(n + 1) = 1..n \cup {n + 1}
    BY <1>1
  <2>2. \A j \in 1..n : new[j].time = files[j].time
    BY <1>1
  <2>3. new[n + 1].time = t
    BY <1>1
  <2> QED BY <2>1, <2>2, <2>3 DEF TimesUpTo
<1>6. MaximaOf(new)
  <2> SUFFICES ASSUME NEW k \in 1..(n + 1) PROVE new[k].maxima = TimesUpTo(new, k)
    BY <1>1 DEF MaximaOf
  <2>1. CASE k \in 1..n
    BY <1>1, <1>2, <1>4, <2>1
  <2>2. CASE k = n + 1
    BY <1>1, <1>3, <1>5, <2>2
  <2> QED BY <1>1, <2>1, <2>2
<1>7. MaximaOf(new) /\ TimesUpTo(new, Len(new)) = file.maxima
  BY <1>1, <1>3, <1>5, <1>6
<1> QED BY <1>7 DEF new

\* Writing the next result leaves files and cache complete.
LEMMA OutputMaxima ==
    ASSUME NEW r \in Results, Len(r.files) = r.output_count, NEW t \in Nat,
           MaximaOf(r.files), r.cached = TimesUpTo(r.files, Len(r.files))
    PROVE  LET out == output_results(r, t)
           IN  MaximaOf(out.files) /\ out.cached = TimesUpTo(out.files, Len(out.files))
<1> DEFINE seen == update_output_max_cache(r, t)
           file == [time |-> t, maxima |-> seen]
           new == Append(r.files, file)
           out == output_results(r, t)
<1>1. r.files \in Seq(ResultFiles) /\ r.output_count \in Nat /\ seen \in SUBSET Nat
  BY DEF Results, ResultFiles, update_output_max_cache
<1>2. seen = TimesUpTo(r.files, Len(r.files)) \cup {t}
  BY DEF update_output_max_cache
<1>3. out = [r EXCEPT !.cached = seen, !.files = new]
  <2>1. write_file(r.files, r.output_count + 1, file) = new
    BY <1>1 DEF write_file
  <2> QED BY <2>1 DEF output_results
<1> HIDE DEF seen
<1>4. file \in ResultFiles /\ file.time = t /\ file.maxima = seen
  BY <1>1 DEF ResultFiles
<1> HIDE DEF file
<1>5. MaximaOf(new) /\ TimesUpTo(new, Len(new)) = seen
  BY <1>1, <1>2, <1>4, NextMaxima
<1> HIDE DEF new, out
<1>6. out.files = new /\ out.cached = seen
  BY <1>3 DEF Results
<1> QED BY <1>5, <1>6 DEF out

\* A due result is sampled and counted as well.
LEMMA DueComplete ==
    ASSUME NEW r, NEW times, Kept(r, times), Complete(r, times), Len(r.files) = Len(times), NEW t \in Nat
    PROVE  LET out == output_due(r, t)
           IN  /\ Complete(out, Append(times, t)) /\ out.exported = r.exported
               /\ Len(out.files) = Len(Append(times, t))
<1> DEFINE sampled == record_output_samples(r, t)
           written == output_results(sampled, t)
           out == output_due(r, t)
<1>1. r \in Results /\ times \in Seq(Nat) /\ r.output_count = Len(times) /\ r.samples = times
  BY DEF Kept, Complete
<1>2. /\ sampled \in Results /\ sampled.output_count = r.output_count /\ sampled.files = r.files
      /\ sampled.cached = r.cached /\ sampled.samples = Append(times, t) /\ sampled.exported = r.exported
  <2>1. Append(r.samples, t) \in Seq(Nat)
    BY <1>1
  <2> QED BY <1>1, <2>1 DEF Results, record_output_samples
<1> HIDE DEF sampled
<1>3. Len(sampled.files) = sampled.output_count
  BY <1>1, <1>2
<1>4. MaximaOf(written.files) /\ written.cached = TimesUpTo(written.files, Len(written.files))
  BY <1>2, <1>3, OutputMaxima DEF Complete
<1>5. /\ written \in Results /\ Len(written.files) = sampled.output_count + 1
      /\ written.samples = sampled.samples /\ written.exported = sampled.exported
  BY <1>2, <1>3, OutputResults, Zenon
<1> HIDE DEF written
<1>6. out = [written EXCEPT !.output_count = r.output_count + 1]
  BY DEF output_due, written, sampled
<1> HIDE DEF out
<1>7. /\ out.files = written.files /\ out.cached = written.cached
      /\ out.samples = written.samples /\ out.exported = written.exported
  BY <1>5, <1>6 DEF Results
<1>8. Len(Append(times, t)) = Len(times) + 1
  BY <1>1
<1> QED BY <1>1, <1>2, <1>4, <1>5, <1>7, <1>8 DEF Complete, out

\* The end of a run writes the last result and exports every sample.
LEMMA FinalComplete ==
    ASSUME NEW r, NEW times, Kept(r, times), Complete(r, times), Len(r.files) = Len(times),
           r.exported = <<>>, NEW t \in Nat
    PROVE  LET out == output_final(r, t)
           IN  Complete(out, times) /\ out.exported = times
<1> DEFINE written == output_results(r, t)
           out == output_final(r, t)
<1>1. r \in Results /\ r.output_count = Len(r.files) /\ r.samples = times
  BY DEF Kept, Complete
<1>2. MaximaOf(written.files) /\ written.cached = TimesUpTo(written.files, Len(written.files))
  BY <1>1, OutputMaxima DEF Complete
<1>3. written \in Results /\ written.samples = times /\ written.exported = <<>>
  BY <1>1, OutputResults, Zenon
<1> HIDE DEF written
<1>4. out = [written EXCEPT !.exported = times]
  <2>1. out = [written EXCEPT !.exported = IF written.samples = <<>> THEN written.exported
                                           ELSE written.samples]
    BY DEF output_final, export_final_results, written
  <2> QED BY <1>3, <2>1
<1> HIDE DEF out
<1>5. /\ out.files = written.files /\ out.cached = written.cached
      /\ out.samples = written.samples /\ out.exported = times
  BY <1>3, <1>4 DEF Results
<1> QED BY <1>2, <1>3, <1>5 DEF Complete, out

\* The first window: complete, one file per due result, exported at its end.
CompleteInv ==
    /\ IsFiniteSet(ends)
    /\ Cardinality(ends) = 1 =>
         /\ Complete(results, due)
         /\ IF phase = "returned" THEN results.exported = due
            ELSE results.exported = <<>> /\ Len(results.files) = Len(due)

\* It holds of a new solver.
LEMMA CompleteInit == Init => CompleteInv
<1> SUFFICES ASSUME Init PROVE CompleteInv
  OBVIOUS
<1>1. IsFiniteSet(ends)
  BY FS_Singleton DEF Init
<1>2. results = NewResults /\ due = <<>> /\ phase = "ready"
  BY DEF Init
<1>3. Complete(NewResults, <<>>) /\ NewResults.exported = <<>> /\ NewResults.files = <<>>
  <2>1. TimesUpTo(<<>>, 0) = {} /\ MaximaOf(<<>>)
    BY DEF TimesUpTo, MaximaOf
  <2> QED BY <2>1 DEF Complete, NewResults
<1> QED BY <1>1, <1>2, <1>3 DEF CompleteInv

\* And it is inductive; a resumption ends the first window.
LEMMA CompleteNext == CompleteInv /\ WindowInv /\ ClockInv /\ Kept(results, due) /\ [Next]_vars => CompleteInv'
<1> SUFFICES ASSUME CompleteInv, WindowInv, ClockInv, Kept(results, due), [Next]_vars PROVE CompleteInv'
  OBVIOUS
<1>1. CASE Accept
  <2>1. Advance(clock, dt).t_current \in Nat
    BY AdvanceFields DEF ClockInv, Going, Bounded, Clocks
  <2>2. ShowResults /\ phase = "attempt" /\ phase' = "callback" /\ ends' = ends
    BY <1>1 DEF Accept, AcceptDfs, AcceptModular
  <2>3. CASE UNCHANGED outputVars
    BY <2>2, <2>3 DEF CompleteInv, outputVars
  <2>4. CASE /\ results' = output_due(results, Advance(clock, dt).t_current)
             /\ due' = Append(due, Advance(clock, dt).t_current)
    BY <2>1, <2>2, <2>4, DueComplete DEF CompleteInv
  <2> QED BY <2>2, <2>3, <2>4 DEF ShowResults
<1>2. CASE Return
  <2>1. clock.t_current \in Nat
    BY DEF ClockInv, Going, Bounded, Clocks
  <2>2. /\ phase = "ready" /\ phase' = "returned" /\ UNCHANGED <<ends, due>>
        /\ results' = output_final(results, clock.t_current)
    BY <1>2 DEF Return, historyVars
  <2> QED BY <2>1, <2>2, FinalComplete DEF CompleteInv
<1>3. ASSUME NEW t_end \in WindowEnds \cup {TEnd}, Resume(t_end) PROVE CompleteInv'
  <2>1. ends' = ends \cup {t_end} /\ t_end > clock.t_end
    BY <1>3 DEF Resume
  <2>2. t_end # clock.t_end
    BY <2>1, ConstantFacts DEF ClockInv, Going, Bounded, Clocks
  <2>3. clock.t_end \in ends
    BY DEF WindowInv
  <2>4. IsFiniteSet(ends')
    BY <2>1, FS_AddElement DEF CompleteInv
  <2>5. Cardinality(ends') # 1
    <3>1. SUFFICES ASSUME NEW e, ends' = {e} PROVE FALSE
      BY <2>4, FS_Singleton
    <3> QED BY <2>1, <2>2, <2>3, <3>1
  <2> QED BY <2>4, <2>5 DEF CompleteInv
<1>4. CASE BeginStep \/ Retry \/ Continue \/ StopRequested \/ UNCHANGED vars
  <2>1. UNCHANGED <<results, due, ends>>
    BY <1>4 DEF BeginStep, Retry, RejectAtCourant, RejectByFlux, RejectByVolume, Rejected,
                Continue, StopRequested, vars, outputVars, historyVars
  <2>2. (phase = "returned") = (phase' = "returned")
    BY <1>4 DEF BeginStep, Retry, RejectAtCourant, RejectByFlux, RejectByVolume, Rejected,
                Continue, StopRequested, vars, loopVars
  <2> QED BY <2>1, <2>2 DEF CompleteInv
<1> QED BY <1>1, <1>2, <1>3, <1>4 DEF Next, Loop

(* In a run without change of solver every result has the maxima of all    *)
(* results up to it, and the exports every due sample, however many there  *)
(* are.  (_update_output_max_cache, _export_outflow_process_text)          *)
THEOREM ResultsAreComplete == Spec => []ResultsComplete
<1>1. CompleteInv => ResultsComplete
  BY DEF CompleteInv, Complete, MaximaOf, TimesUpTo, ResultsComplete
<1>2. Spec => []CompleteInv
  BY CompleteInit, CompleteNext, WindowAlways, ClockAlways, KeptAlways, PTL DEF Spec
<1> QED BY <1>1, <1>2, PTL

-----------------------------------------------------------------------------
(* How the groups of fields lie to each other.                             *)

LEMMA HostFieldsApart ==
    /\ HostState \cap WithHeads = {} /\ HostState \cap ModularFields = {}
    /\ HostState \cap Shown = {} /\ HostState \cap Saved = {}
<1>1. HostState \cap ((Committed \ {"legacy_previous_face_cvbar"}) \cup {"kkt_failed"}) = {}
  BY DEF HostState, Committed, Transported, Bed, Maxima, Soil, Limiter, Totals
<1>2. HostState \cap {"fire_mask", "attempt", "v_prev"} = {}
  BY DEF HostState
<1>3. HostState \cap ModularFields = {}
  BY DEF HostState, ModularFields
<1>4. HostState \cap Shown = {}
  BY DEF HostState, Shown, text_outputs, erosion_depth_output, flow_velocity_output,
         sediment_output, get_full_state, outflow_sample, hydrograph_sample
<1> QED BY <1>1, <1>2, <1>3, <1>4 DEF WithHeads, Given, Saved

\* The marks of an attempt and of the record are no lasting fields.
LEMMA LastingApart ==
    ASSUME NEW v PROVE "attempt" \notin Lasting(v) /\ "erosion_record" \notin Lasting(v) \cup Shown
<1>1. "attempt" \notin Lasting(v)
  BY DEF Lasting, Committed, Transported, Bed, Maxima, Soil, Limiter, Totals
<1>2. "erosion_record" \notin Lasting(v)
  BY DEF Lasting, Committed, Transported, Bed, Maxima, Soil, Limiter, Totals
<1>3. "erosion_record" \notin Shown
  BY HostFieldsApart DEF HostState
<1> QED BY <1>1, <1>2, <1>3

\* What is shown either lasts or is computed by the accepted attempt.
LEMMA ShownFields ==
    ASSUME NEW v \in Variants PROVE Shown \subseteq Lasting(v) \cup AtHalf(v) \cup {"qnet"}
<1> DEFINE all == Lasting(v) \cup AtHalf(v) \cup {"qnet"}
<1>1. {"h", "u", "v", "Cv", "rho", "z_bed", "fv"} \subseteq all
  BY DEF Lasting, Committed, Transported
<1>2. {"erosion_depth", "deposition_depth", "depo_thickness", "max_flow_depth",
       "max_flow_velocity", "total_depth", "rholimit"} \subseteq all
  BY DEF Lasting, Committed, Bed, Maxima, Limiter
<1>3. {"FS", "fdepth", "desat", "FS_failed", "fdepth_failed", "desat_failed"} \subseteq all
  BY DEF Lasting, AtHalf, FailureState, Variants, Committed, Soil
<1>4. {"tanslo", "fhpredi", "frhopredi", "fhpredi2", "frhopredi2", "tempele", "tempfsh",
       "tempfsrho", "qtnet", "qmassnet", "cvlimit", "tau", "absubar", "rhodepo", "qqt"}
         \subseteq all
  BY DEF AtHalf, Sourced, Prepared, Workspace
<1>5. {"fhpredi1", "frhopredi1", "taoc", "erorate_raw", "deporate_raw", "gates"} \subseteq all
  BY DEF AtHalf, Sourced, Forcing, SourceRates, SourceDiagnostics
<1>6. "qnet" \in all
  OBVIOUS
<1> HIDE DEF all
<1>7. text_outputs \subseteq all
  BY <1>1, <1>2, <1>3
     DEF text_outputs, erosion_depth_output, flow_velocity_output, sediment_output
<1>8. get_full_state \subseteq all
  BY <1>1, <1>2, <1>3, <1>4, <1>5, <1>6 DEF get_full_state
<1>9. outflow_sample \subseteq all /\ hydrograph_sample \subseteq all
  BY <1>1, <1>4 DEF outflow_sample, hydrograph_sample
<1> QED BY <1>7, <1>8, <1>9 DEF Shown, all

\* Of the heads of the failed cells and what is made of them, one lasts and one is shown.
LEMMA HeadsThatLast ==
    ASSUME NEW v, v.failure = "double_layer"
    PROVE  /\ Heads \cap Lasting(v) \subseteq {"kkt_failed"}
           /\ Heads \cap Shown \subseteq {"desat_failed"} /\ "attempt" \notin Heads
<1>1. Heads \cap Lasting(v) \subseteq {"kkt_failed"}
  BY DEF Heads, Lasting, Committed, Transported, Bed, Maxima, Soil, Limiter, Totals
<1>2. Heads \cap Shown \subseteq {"desat_failed"}
  BY DEF Heads, Shown, text_outputs, erosion_depth_output, flow_velocity_output,
         sediment_output, get_full_state, outflow_sample, hydrograph_sample
<1> QED BY <1>1, <1>2 DEF Heads

\* A rejected attempt leaves what lasts as it was.
LEMMA LeftByRejection ==
    ASSUME NEW v, NEW effects, Spares(effects, Lasting(v), Lasting(v)),
           NEW before, before \cap Lasting(v) = {}
    PROVE  /\ AfterRejection(effects, before) \cap Lasting(v) = {}
           /\ "attempt" \notin AfterRejection(effects, before)
BY LastingApart DEF AfterRejection, Spares

\* Where heads of failed cells are rolled back, nothing else that lasts is changed.
LEMMA LeftByRollback ==
    ASSUME NEW v \in Variants, v.failure = "double_layer", NEW effects, Len(effects) \in Nat,
           NEW behind, Spares(effects, Lasting(v), Restored(v, behind)), Confined(effects),
           NEW before, before \cap Lasting(v) \subseteq {"kkt_failed"}
    PROVE  /\ AfterRejection(effects, before) \cap Lasting(v) \subseteq {"kkt_failed"}
           /\ "attempt" \notin AfterRejection(effects, before)
<1> DEFINE rolled == before \cap Heads
           rest == (before \ Heads) \cup {"attempt"}
<1>1. rest \cap Lasting(v) = {}
  BY LastingApart DEF Heads
<1>2. Influence(effects, rest) \cap (Lasting(v) \ {"kkt_failed"}) = {}
  <2> HIDE DEF rest
  <2> QED BY <1>1 DEF Spares, Restored
<1>3. Influence(effects, rolled) \subseteq Heads
  BY DEF Confined
<1>4. before \cup {"attempt"} = rest \cup rolled
  OBVIOUS
<1> HIDE DEF rest, rolled
<1>5. Influence(effects, before \cup {"attempt"})
        = Influence(effects, rest) \cup Influence(effects, rolled)
  BY <1>4, InfluenceUnion
<1> QED BY <1>2, <1>3, <1>5, HeadsThatLast DEF AfterRejection

\* An accepted attempt commits and shows nothing but what it was given.
LEMMA LeftByAcceptance ==
    ASSUME NEW v \in Variants, ~v.parity, NEW released,
           NEW before, before \cap Lasting(v) = {}, "attempt" \notin before
    PROVE  /\ Influence(Accepted(v, released), before) \cap Lasting(v) = {}
           /\ Influence(Accepted(v, released), before) \cap Shown = {}
           /\ "attempt" \notin Influence(Accepted(v, released), before)
<1> DEFINE after == Influence(Accepted(v, released), before)
<1>1. WithHeads \subseteq Lasting(v) \cup {"attempt"}
  BY DEF WithHeads, Given, Lasting, Committed, Soil
<1>2. after \subseteq (before \cup {"erosion_record"}) \ (AtHalf(v) \cup {"qnet"})
  BY <1>1, AcceptedCleans DEF Records
<1> HIDE DEF after
<1>3. after \cap Lasting(v) = {} /\ "attempt" \notin after
  BY <1>2, LastingApart
<1>4. after \cap Shown = {}
  BY <1>2, LastingApart, ShownFields
<1> QED BY <1>3, <1>4 DEF after

\* Nor does it after a rollback, but for the heads that were rolled back and their saturation.
LEMMA RolledByAcceptance ==
    ASSUME NEW v \in Variants, ~v.parity, v.failure = "double_layer", NEW released,
           NEW before, before \cap Lasting(v) \subseteq {"kkt_failed"}, "attempt" \notin before
    PROVE  /\ Influence(Accepted(v, released), before) \cap Lasting(v) \subseteq {"kkt_failed"}
           /\ Influence(Accepted(v, released), before) \cap Shown \subseteq {"desat_failed"}
           /\ "attempt" \notin Influence(Accepted(v, released), before)
<1> DEFINE effects == Accepted(v, released)
           rolled == before \cap Heads
           rest == before \ Heads
<1>1. rest \cap Lasting(v) = {} /\ "attempt" \notin rest
  BY DEF Heads
<1>2. Influence(effects, rolled) \subseteq Heads
  BY AcceptedConfined DEF Confined
<1>3. Len(effects) \in Nat
  <2>1. Sequence(effects)
    BY AcceptedConfined DEF Confined
  <2> HIDE DEF effects
  <2> QED BY <2>1 DEF Sequence
<1>4. before = rest \cup rolled
  OBVIOUS
<1> HIDE DEF rest, rolled
<1>5. /\ Influence(effects, rest) \cap Lasting(v) = {}
      /\ Influence(effects, rest) \cap Shown = {}
      /\ "attempt" \notin Influence(effects, rest)
  BY <1>1, LeftByAcceptance
<1> HIDE DEF effects
<1>6. Influence(effects, before) = Influence(effects, rest) \cup Influence(effects, rolled)
  BY <1>3, <1>4, InfluenceUnion
<1>7. Influence(effects, before) \cap Lasting(v) \subseteq {"kkt_failed"}
      /\ Influence(effects, before) \cap Shown \subseteq {"desat_failed"}
      /\ "attempt" \notin Influence(effects, before)
  BY <1>2, <1>5, <1>6, HeadsThatLast
<1> QED BY <1>7 DEF effects

-----------------------------------------------------------------------------
(* What is left of rejected attempts, and what a change of solver changes. *)

(* In the modular branch nothing is rejected, and nothing is ever stale.   *)
(* In the Fortran branch the fields that last through an attempt are free  *)
(* of it all the time, the ones that are shown whenever no attempt is      *)
(* under way; once heads of failed cells were rolled back, these heads and *)
(* their saturation are not.                                               *)
LeftInv ==
    /\ case \in Cases
    /\ stale = {} /\ misread = {}
    /\ case.path = "modular" => left = {}
    /\ heads \in HeadStates
    /\ case.variant.failure # "double_layer" => heads = "even"
    /\ RetrySafe /\ ~slid =>
         /\ left \cap Lasting(case.variant) \subseteq WhenRolled({"kkt_failed"})
         /\ "attempt" \notin left
         /\ phase # "attempt" => left \cap Shown \subseteq WhenRolled({"desat_failed"})

(* Only what lives on the host depends on the change of solver.            *)
LostInv == ~case.variant.parity => lost \subseteq HostState

\* A case has a variant of the step and one of the two paths.
LEMMA CaseFacts ==
    ASSUME NEW k \in Cases
    PROVE  k.variant \in Variants /\ k.path \in {"dfs", "modular"}
BY SolverRunAssumption DEF Paths

\* The tables of a case hold the effects of its own variant.
LEMMA AttemptEffects ==
    ASSUME NEW k \in Cases, NEW released \in BOOLEAN, NEW behind \in BOOLEAN
    PROVE  /\ AtCourant[k][released][behind] = RejectedAtCourant(k.variant, released, behind)
           /\ AtEnd[k][released][behind] = RejectedAtEnd(k.variant, released, behind)
           /\ ToCommit[k][released] = Accepted(k.variant, released)
BY DEF AtCourant, AtEnd, ToCommit

\* A rejection is one of the two sequences of effects.
Rejections(v, released, behind) ==
    {RejectedAtCourant(v, released, behind), RejectedAtEnd(v, released, behind)}

\* A retry applies one of them to what is followed.
LEMMA RetryEffects ==
    ASSUME case \in Cases, Retry
    PROVE  \E released \in MayRelease : \E effects \in Rejections(case.variant, released, Behind) :
             /\ left' = AfterRejection(effects, left) /\ lost' = Influence(effects, lost)
             /\ slid' = (slid \/ released)
<1>1. MayRelease \subseteq BOOLEAN /\ Behind \in BOOLEAN
  BY DEF MayRelease, Behind
<1>2. CASE RejectAtCourant
  <2>1. PICK released \in MayRelease :
               /\ left' = AfterRejection(AtCourant[case][released][Behind], left)
               /\ lost' = Influence(AtCourant[case][released][Behind], lost)
               /\ slid' = (slid \/ released)
    BY <1>2 DEF RejectAtCourant, Rejected
  <2>2. released \in BOOLEAN
    BY <1>1
  <2>3. AtCourant[case][released][Behind] \in Rejections(case.variant, released, Behind)
    BY <1>1, <2>2, AttemptEffects DEF Rejections
  <2> QED BY <2>1, <2>3
<1>3. CASE RejectByFlux \/ RejectByVolume
  <2>1. PICK released \in MayRelease :
               /\ left' = AfterRejection(AtEnd[case][released][Behind], left)
               /\ lost' = Influence(AtEnd[case][released][Behind], lost)
               /\ slid' = (slid \/ released)
    BY <1>3 DEF RejectByFlux, RejectByVolume, Rejected
  <2>2. released \in BOOLEAN
    BY <1>1
  <2>3. AtEnd[case][released][Behind] \in Rejections(case.variant, released, Behind)
    BY <1>1, <2>2, AttemptEffects DEF Rejections
  <2> QED BY <2>1, <2>3
<1> QED BY <1>2, <1>3 DEF Retry

\* A retry preserves LeftInv: where it applies, the rejected attempt marks no lasting field
\* but the heads it rolls back.
LEMMA RetryLeft == ASSUME LeftInv, Retry PROVE LeftInv'
<1>1. case \in Cases /\ case.variant \in Variants /\ Behind \in BOOLEAN
  BY CaseFacts DEF LeftInv, Behind
<1> DEFINE v == case.variant
<1> PICK released \in MayRelease : \E effects \in Rejections(v, released, Behind) :
             left' = AfterRejection(effects, left) /\ slid' = (slid \/ released)
  BY <1>1, RetryEffects
<1>2. PICK effects \in Rejections(v, released, Behind) :
             left' = AfterRejection(effects, left) /\ slid' = (slid \/ released)
  OBVIOUS
<1>3. /\ UNCHANGED <<case, phase, stale, misread>> /\ case.path = "dfs" /\ phase = "attempt"
      /\ heads' = AfterRestore
  BY DEF Retry, RejectAtCourant, RejectByFlux, RejectByVolume, Rejected
<1>4. /\ heads' \in HeadStates
      /\ v.failure # "double_layer" => heads' = "even"
      /\ heads' = "rolled" <=> Behind
  BY <1>3 DEF AfterRestore, Behind, HeadStates, LeftInv
<1>5. ASSUME RetrySafe, ~slid'
      PROVE  left' \cap Lasting(v) \subseteq WhenRolled({"kkt_failed"})' /\ "attempt" \notin left'
  <2>1. released = FALSE /\ ~slid
    BY <1>2, <1>5 DEF MayRelease
  <2>2. Spares(effects, Lasting(v), Restored(v, Behind)) /\ Confined(effects)
    <3>1. /\ Spares(RejectedAtCourant(v, FALSE, Behind), Lasting(v), Restored(v, Behind))
          /\ Spares(RejectedAtEnd(v, FALSE, Behind), Lasting(v), Restored(v, Behind))
      BY <1>1, <1>5, RejectedSpares DEF RetrySafe
    <3>2. /\ Confined(RejectedAtCourant(v, FALSE, Behind))
          /\ Confined(RejectedAtEnd(v, FALSE, Behind))
      BY <1>1, <1>5, RejectedConfined DEF RetrySafe
    <3> QED BY <2>1, <3>1, <3>2 DEF Rejections
  <2>3. left \cap Lasting(v) \subseteq WhenRolled({"kkt_failed"})
    BY <1>5, <2>1 DEF LeftInv
  <2>4. CASE Behind
    <3>1. v.failure = "double_layer"
      BY <2>4 DEF LeftInv, Behind
    <3>2. left \cap Lasting(v) \subseteq {"kkt_failed"}
      BY <2>3 DEF WhenRolled
    <3>3. Len(effects) \in Nat
      BY <2>2 DEF Confined, Sequence
    <3>4. left' \cap Lasting(v) \subseteq {"kkt_failed"} /\ "attempt" \notin left'
      BY <1>1, <1>2, <2>2, <3>1, <3>2, <3>3, LeftByRollback
    <3> QED BY <1>4, <2>4, <3>4 DEF WhenRolled
  <2>5. CASE ~Behind
    <3>1. Restored(v, Behind) = Lasting(v)
      BY <2>5 DEF Restored
    <3>2. left \cap Lasting(v) = {}
      BY <2>3, <2>5 DEF WhenRolled, Behind
    <3>3. left' \cap Lasting(v) = {} /\ "attempt" \notin left'
      BY <1>2, <2>2, <3>1, <3>2, LeftByRejection
    <3> QED BY <3>3 DEF WhenRolled
  <2> QED BY <2>4, <2>5
<1> QED BY <1>3, <1>4, <1>5 DEF LeftInv, RetrySafe, WhenRolled

\* So does an accepted step, which computes anew what is shown.
LEMMA AcceptLeft == ASSUME LeftInv, Accept PROVE LeftInv'
<1>1. case \in Cases /\ case.variant \in Variants
  BY CaseFacts DEF LeftInv
<1>2. CASE AcceptDfs
  <2> DEFINE v == case.variant
  <2>1. /\ UNCHANGED <<case, stale, misread, slid>> /\ case.path = "dfs" /\ phase' = "callback"
    BY <1>2 DEF AcceptDfs
  <2>2. PICK released \in MayRelease :
           left' = Influence(ToCommit[case][released], left) /\ heads' = AfterRelease(released)
    BY <1>2 DEF AcceptDfs
  <2>3. left' = Influence(Accepted(v, released), left)
    BY <1>1, <2>2, AttemptEffects DEF MayRelease
  <2>4. /\ heads' \in HeadStates
        /\ v.failure # "double_layer" => heads' = "even"
        /\ heads' = "rolled" <=> heads = "rolled"
    BY <2>2 DEF AfterRelease, MayRelease, HeadStates, LeftInv
  <2>5. ASSUME RetrySafe, ~slid
        PROVE  /\ left' \cap Lasting(v) \subseteq WhenRolled({"kkt_failed"})'
               /\ "attempt" \notin left'
               /\ left' \cap Shown \subseteq WhenRolled({"desat_failed"})'
    <3>1. left \cap Lasting(v) \subseteq WhenRolled({"kkt_failed"}) /\ "attempt" \notin left
      BY <2>5 DEF LeftInv
    <3>2. CASE heads = "rolled"
      <4>1. v.failure = "double_layer"
        BY <3>2 DEF LeftInv
      <4>2. left \cap Lasting(v) \subseteq {"kkt_failed"}
        BY <3>1 DEF WhenRolled
      <4>3. /\ left' \cap Lasting(v) \subseteq {"kkt_failed"}
            /\ left' \cap Shown \subseteq {"desat_failed"} /\ "attempt" \notin left'
        BY <1>1, <2>3, <2>5, <3>1, <4>1, <4>2, RolledByAcceptance DEF RetrySafe
      <4> QED BY <2>4, <3>2, <4>3 DEF WhenRolled
    <3>3. CASE heads # "rolled"
      <4>1. left \cap Lasting(v) = {}
        BY <3>1, <3>3 DEF WhenRolled
      <4>2. left' \cap Lasting(v) = {} /\ left' \cap Shown = {} /\ "attempt" \notin left'
        BY <1>1, <2>3, <2>5, <3>1, <4>1, LeftByAcceptance DEF RetrySafe
      <4> QED BY <4>2 DEF WhenRolled
    <3> QED BY <3>2, <3>3
  <2> QED BY <2>1, <2>4, <2>5 DEF LeftInv, RetrySafe, WhenRolled
<1>3. CASE AcceptModular
  <2>1. /\ UNCHANGED <<case, slid, heads>> /\ case.path = "modular"
        /\ left = {} /\ stale = {} /\ misread = {}
        /\ left' = Influence(physics_step, left)
        /\ stale' = StaleAfter(physics_step, stale)
        /\ misread' = misread \cup Misread(physics_step, stale)
    BY <1>3 DEF AcceptModular, LeftInv
  <2>2. left' = {}
    BY <2>1, ModularCleans DEF Cleans
  <2>3. stale' = {} /\ misread' = {}
    BY <2>1, ModularServes DEF Serves
  <2> QED BY <2>1, <2>2, <2>3 DEF LeftInv, RetrySafe
<1> QED BY <1>2, <1>3 DEF Accept

\* Every step preserves LeftInv.
LEMMA LeftNext == LeftInv /\ [Next]_vars => LeftInv'
<1> SUFFICES ASSUME LeftInv, [Next]_vars PROVE LeftInv'
  OBVIOUS
<1>1. CASE BeginStep
  BY <1>1 DEF BeginStep, stateVarsButDeep, LeftInv, RetrySafe, WhenRolled
<1>2. CASE Continue \/ Return \/ StopRequested \/ UNCHANGED vars
  BY <1>2 DEF Continue, Return, StopRequested, vars, loopVars, stateVars, LeftInv, RetrySafe,
                    WhenRolled
<1>3. ASSUME NEW t_end \in WindowEnds \cup {TEnd}, Resume(t_end) PROVE LeftInv'
  BY <1>3 DEF Resume, LeftInv, RetrySafe, WhenRolled
<1> QED BY <1>1, <1>2, <1>3, RetryLeft, AcceptLeft DEF Next, Loop

\* Every step preserves LostInv, given LeftInv.
LEMMA LostNext == LostInv /\ LeftInv /\ [Next]_vars => LostInv'
<1> SUFFICES ASSUME LostInv, LeftInv, [Next]_vars PROVE LostInv'
  OBVIOUS
<1>7. case' = case
  <2>1. CASE Retry
    BY <2>1 DEF Retry, RejectAtCourant, RejectByFlux, RejectByVolume, Rejected
  <2>2. CASE Accept
    BY <2>2 DEF Accept, AcceptDfs, AcceptModular
  <2>3. CASE BeginStep \/ Continue \/ Return \/ StopRequested \/ UNCHANGED vars
    BY <2>3 DEF BeginStep, Continue, Return, StopRequested, vars
  <2>4. ASSUME NEW t_end \in WindowEnds \cup {TEnd}, Resume(t_end) PROVE case' = case
    BY <2>4 DEF Resume
  <2> QED BY <2>1, <2>2, <2>3, <2>4 DEF Next, Loop
<1> SUFFICES ASSUME ~case.variant.parity PROVE lost' \subseteq HostState
  BY <1>7 DEF LostInv
<1>0. case \in Cases /\ case.variant \in Variants
  BY CaseFacts DEF LeftInv
<1>1. lost \subseteq HostState /\ lost \cap WithHeads = {} /\ lost \cap ModularFields = {}
  BY HostFieldsApart DEF LostInv
<1>2. CASE Retry
  <2> PICK released \in MayRelease : \E effects \in Rejections(case.variant, released, Behind) :
             lost' = Influence(effects, lost)
    BY <1>0, <1>2, RetryEffects
  <2>1. PICK effects \in Rejections(case.variant, released, Behind) : lost' = Influence(effects, lost)
    OBVIOUS
  <2>2. Cleans(effects, WithHeads, {})
    BY <1>0, <2>1, RejectedCleans DEF Rejections, Behind
  <2> QED BY <1>1, <2>1, <2>2 DEF Cleans
<1>3. CASE AcceptDfs
  <2>1. PICK released \in MayRelease : lost' = Influence(ToCommit[case][released], lost)
    BY <1>3 DEF AcceptDfs
  <2>2. lost' = Influence(Accepted(case.variant, released), lost)
    BY <1>0, <2>1, AttemptEffects DEF MayRelease
  <2>3. Records(Accepted(case.variant, released), WithHeads, AtHalf(case.variant) \cup {"qnet"})
    BY <1>0, AcceptedCleans
  <2>4. lost' \subseteq lost \cup {"erosion_record"}
    BY <1>1, <2>2, <2>3 DEF Records
  <2> QED BY <1>1, <2>4 DEF HostState
<1>4. CASE AcceptModular
  BY <1>1, <1>4, ModularCleans DEF AcceptModular, Cleans
<1>5. CASE BeginStep \/ Continue \/ Return \/ StopRequested \/ UNCHANGED vars
  BY <1>1, <1>5 DEF BeginStep, stateVarsButDeep, Continue, Return, StopRequested, vars, stateVars
<1>6. ASSUME NEW t_end \in WindowEnds \cup {TEnd}, Resume(t_end) PROVE lost' \subseteq HostState
  BY <1>1, <1>6 DEF Resume, AfterResume
<1> QED BY <1>2, <1>3, <1>4, <1>5, <1>6 DEF Next, Loop, Accept

\* Both hold in every reachable state.
LEMMA TraceAlways == Spec => [](LeftInv /\ LostInv)
<1>1. Init => LeftInv /\ LostInv
  BY DEF Init, LeftInv, LostInv, HeadStates, WhenRolled
<1> QED BY <1>1, LeftNext, LostNext, PTL DEF Spec

(* However often steps were rejected, and at whichever test, no committed  *)
(* field depends on a rejected attempt - in every variant without the      *)
(* three carries of dfs.F90, as long as no double-layer cell failed in a   *)
(* rejected attempt; but for the heads of cells that failed in an accepted *)
(* one, and these only once a rejection has put them back too far.         *)
(* (DFSDynamicWaveSolver.step, restore_richards_committed_state)           *)
THEOREM NoTraceOfRetries == Spec => []RetryLeavesNoTrace
<1>1. LeftInv => RetryLeavesNoTrace
  BY DEF LeftInv, RetryLeavesNoTrace, Lasting
<1> QED BY <1>1, TraceAlways, PTL

(* The fields that are saved never depend on the change of solver, in      *)
(* every variant without the parity carry.  (save_state, load_state)       *)
THEOREM ResumptionContinues == Spec => []ResumeContinues
<1>1. LostInv => ResumeContinues
  BY HostFieldsApart DEF LostInv, ResumeContinues
<1> QED BY <1>1, TraceAlways, PTL

(* Nothing of either is in a result or a sample, but for the saturation of *)
(* the cells whose heads were put back too far.  (_output_results)         *)
THEOREM TracelessResults == Spec => []ResultsAreTraceless
<1>1. LeftInv /\ LostInv => ResultsAreTraceless
  BY HostFieldsApart DEF LeftInv, LostInv, ResultsAreTraceless
<1> QED BY <1>1, TraceAlways, PTL

(* No modular step reads a density or rheology that does not belong to the *)
(* present concentration, or leaves one.  (_physics_step)                  *)
THEOREM FreshDerivedFields == Spec => []DerivedIsFresh
<1>1. LeftInv => DerivedIsFresh
  BY DEF LeftInv, DerivedIsFresh
<1> QED BY <1>1, TraceAlways, PTL

-----------------------------------------------------------------------------
(* What there is left to do.                                               *)

\* The windows still to come end by TEnd, and no window is overrun.
EndInv ==
    /\ phase \in Phases
    /\ clock.t_end <= TEnd /\ clock.t_current <= clock.t_end

\* The four parts of what is left are natural numbers.
LEMMA ToDoParts ==
    ASSUME ClockInv, EndInv
    PROVE  /\ ToDo[1] = TEnd - clock.t_end /\ ToDo[2] = clock.t_end - clock.t_current
           /\ ToDo[3] = Ahead /\ ToDo[4] = dt
           /\ \A i \in 1..4 : ToDo[i] >= 0
<1>1. /\ clock.t_end \in Nat /\ clock.t_current \in Nat /\ TEnd \in Nat /\ dt \in Nat
  BY ConstantFacts DEF ClockInv, Going, Bounded, Clocks
<1>2. Ahead \in 0..3
  BY DEF EndInv, Phases, Ahead
<1>3. /\ ToDo[1] = TEnd - clock.t_end /\ ToDo[2] = clock.t_end - clock.t_current
      /\ ToDo[3] = Ahead /\ ToDo[4] = dt
  BY DEF ToDo
<1>4. ToDo[1] >= 0 /\ ToDo[2] >= 0 /\ ToDo[3] >= 0 /\ ToDo[4] >= 0
  BY <1>1, <1>2, <1>3 DEF EndInv
<1> QED BY <1>3, <1>4

\* How far an iteration is, by the phase of the loop.
LEMMA AheadByPhase ==
    /\ phase = "callback" => Ahead = 3
    /\ phase = "ready" => Ahead = 2
    /\ phase = "attempt" => Ahead = 1
    /\ phase \in {"returned", "stopped"} => Ahead = 0
    /\ phase' = "callback" => Ahead' = 3
    /\ phase' = "ready" => Ahead' = 2
    /\ phase' = "attempt" => Ahead' = 1
    /\ phase' \in {"returned", "stopped"} => Ahead' = 0
BY DEF Ahead

\* An accepted step moves the time by its length, within the window.
LEMMA AcceptTime ==
    ASSUME ClockInv, Accept
    PROVE  /\ phase = "attempt" /\ phase' = "callback"
           /\ clock'.t_end = clock.t_end /\ clock'.t_current = clock.t_current + dt
<1>1. clock \in Clocks /\ Going(clock) /\ dt \in Nat /\ phase = "attempt" /\ Fits(clock, dt)
  BY DEF ClockInv, Going, Bounded, Accept, AcceptDfs, AcceptModular
<1>2. CASE AcceptDfs
  <2>1. clock' = PrepareFortran(Advance(clock, dt), dt) /\ phase' = "callback"
    BY <1>2 DEF AcceptDfs
  <2>2. Advance(clock, dt).tempdt <= MaxDt
    BY <1>1, AdvanceFields DEF Going, Bounded
  <2> QED BY <1>1, <2>1, <2>2, AdvanceFields, PrepareFortranFields
<1>3. CASE AcceptModular
  <2> DEFINE with == [clock EXCEPT !.dt_current = dt]
             now == Advance(with, dt)
             out == OutputIfDue(now)
  <2>1. PICK cfl \in DtMin..DtMax : clock' = PrepareModular(now, cfl)
    BY <1>3 DEF AcceptModular
  <2>2. phase' = "callback"
    BY <1>3 DEF AcceptModular
  <2>3. with \in Clocks /\ with.t_current = clock.t_current /\ with.t_end = clock.t_end
    BY <1>1 DEF Clocks
  <2> HIDE DEF with
  <2>4. now \in Clocks /\ now.t_current = clock.t_current + dt /\ now.t_end = clock.t_end
    BY <1>1, <2>3, AdvanceFields
  <2> HIDE DEF now
  <2>5. out \in Clocks /\ out.t_current = clock.t_current + dt /\ out.t_end = clock.t_end
    BY <2>4, OutputFields
  <2>6. clock' = out \/ clock' = AdaptTimeStep(out, cfl)
    BY <2>1 DEF PrepareModular
  <2> HIDE DEF out
  <2>7. /\ AdaptTimeStep(out, cfl).t_current = out.t_current
        /\ AdaptTimeStep(out, cfl).t_end = out.t_end
    BY <2>5 DEF AdaptTimeStep, Clocks
  <2> QED BY <1>1, <2>2, <2>5, <2>6, <2>7
<1> QED BY <1>2, <1>3 DEF Accept

\* The top of the loop leaves the times.
LEMMA BeginTime ==
    ASSUME ClockInv, BeginStep
    PROVE  /\ phase = "ready" /\ phase' = "attempt"
           /\ clock'.t_end = clock.t_end /\ clock'.t_current = clock.t_current
BY KeepTempdtFields DEF BeginStep, Tempdt, ClockInv, Going, Bounded

\* A later window is one that was to come.
LEMMA ResumeTime ==
    ASSUME ClockInv, NEW t_end \in WindowEnds \cup {TEnd}, Resume(t_end)
    PROVE  /\ phase = "returned" /\ phase' = "ready"
           /\ clock'.t_end = t_end /\ clock.t_end < t_end /\ t_end <= TEnd
           /\ clock'.t_current = clock.t_current
<1>1. t_end \in Nat /\ t_end <= TEnd
  BY SolverRunAssumption
<1> QED BY <1>1 DEF Resume, ClockInv, Going, Bounded, Clocks

\* With the two conditions a rejection makes the step shorter.
LEMMA RetryShortens ==
    ASSUME ClockInv, Retry, Stable >= DtMin, DtDecrease > 0
    PROVE  /\ phase = "attempt" /\ phase' = "attempt" /\ clock' = clock
           /\ dt' \in Nat /\ dt' < dt
<1>1. dt \in Nat /\ dt > Stable /\ dt > DtMin /\ phase = "attempt" /\ phase' = "attempt" /\ clock' = clock
  BY SolverRunAssumption, ConstantFacts
     DEF ClockInv, Retry, RejectAtCourant, RejectByFlux, RejectByVolume, Rejected
<1>2. FluxRejectDt(dt) \in Int /\ FluxRejectDt(dt) < dt
  BY <1>1, ConstantFacts DEF FluxRejectDt
<1>3. VolumeRejectDt(dt) \in Int /\ VolumeRejectDt(dt) < dt
  BY <1>1, ConstantFacts DEF VolumeRejectDt
<1>4. PICK suggested \in Int : suggested < dt /\ dt' = RetryDt(clock, suggested)
  BY <1>2, <1>3 DEF Retry, RejectAtCourant, RejectByFlux, RejectByVolume, Rejected
<1>5. RejectStep(suggested) \in Int /\ RejectStep(suggested) < dt
  BY <1>1, <1>4, ConstantFacts DEF RejectStep, Clip, Smaller
<1>6. clock \in Clocks
  BY DEF ClockInv, Going, Bounded
<1>7. dt' \in Int /\ dt' < dt
  <2> DEFINE reject == RejectStep(suggested)
             output == NextOutput(clock) - clock.t_current
             end == clock.t_end - clock.t_current
  <2>1. reject \in Int /\ output \in Int /\ end \in Int /\ reject < dt
    BY <1>5, <1>6, ConstantFacts DEF NextOutput, Clocks
  <2>2. dt' = Smaller(Smaller(reject, output), end)
    BY <1>4 DEF RetryDt
  <2> HIDE DEF reject, output, end
  <2> QED BY <1>1, <2>1, <2>2 DEF Smaller
<1>8. dt' \in Nat
  BY RetryClock DEF ClockInv
<1> QED BY <1>1, <1>7, <1>8

\* The windows are never overrun.
LEMMA EndNext == ClockInv /\ EndInv /\ [Next]_vars => EndInv'
<1> SUFFICES ASSUME ClockInv, EndInv, [Next]_vars PROVE EndInv'
  OBVIOUS
<1>1. clock.t_end \in Nat /\ clock.t_current \in Nat /\ TEnd \in Nat
  BY ConstantFacts DEF ClockInv, Going, Bounded, Clocks
<1>2. CASE BeginStep
  BY <1>2, BeginTime DEF EndInv, Phases
<1>3. CASE Retry
  BY <1>3, RetryClock DEF EndInv, Retry, RejectAtCourant, RejectByFlux, RejectByVolume, Rejected
<1>4. CASE Accept
  <2>1. phase = "attempt" => clock.t_current + dt <= clock.t_end
    BY DEF ClockInv, Fits
  <2> QED BY <1>4, <2>1, AcceptTime DEF EndInv, Phases
<1>5. CASE Continue \/ StopRequested \/ Return
  BY <1>5 DEF Continue, StopRequested, Return, EndInv, Phases
<1>6. ASSUME NEW t_end \in WindowEnds \cup {TEnd}, Resume(t_end) PROVE EndInv'
  <2>1. t_end \in Nat
    BY ConstantFacts
  <2> QED BY <1>1, <1>6, <2>1, ResumeTime DEF EndInv, Phases
<1>7. CASE UNCHANGED vars
  BY <1>7 DEF vars, loopVars, EndInv
<1> QED BY <1>2, <1>3, <1>4, <1>5, <1>6, <1>7 DEF Next, Loop

\* Throughout.
LEMMA EndAlways == Spec => []EndInv
<1>1. Init => EndInv
  <2> SUFFICES ASSUME Init PROVE EndInv
    OBVIOUS
  <2>1. PICK t_end \in WindowEnds \cup {TEnd} : clock = NewClock(t_end)
    BY DEF Init
  <2>2. t_end \in Nat /\ t_end <= TEnd
    BY SolverRunAssumption
  <2> QED BY <2>1, <2>2 DEF Init, EndInv, NewClock, Phases
<1> QED BY <1>1, EndNext, ClockAlways, PTL DEF Spec

\* It is enough to say which part is less, and that the weightier ones stay.
LEMMA LessBy ==
    ASSUME NEW a, NEW b,
           \/ a[1] < b[1]
           \/ a[1] = b[1] /\ a[2] < b[2]
           \/ a[1] = b[1] /\ a[2] = b[2] /\ a[3] < b[3]
           \/ a[1] = b[1] /\ a[2] = b[2] /\ a[3] = b[3] /\ a[4] < b[4]
    PROVE  Less(a, b)
<1>1. CASE a[1] < b[1]
  BY <1>1, 1 \in 1..4 DEF Less
<1>2. CASE a[1] = b[1] /\ a[2] < b[2]
  <2>1. 2 \in 1..4 /\ \A j \in 1..(2 - 1) : j = 1
    OBVIOUS
  <2> QED BY <1>2, <2>1 DEF Less
<1>3. CASE a[1] = b[1] /\ a[2] = b[2] /\ a[3] < b[3]
  <2>1. 3 \in 1..4 /\ \A j \in 1..(3 - 1) : j = 1 \/ j = 2
    OBVIOUS
  <2> QED BY <1>3, <2>1 DEF Less
<1>4. CASE a[1] = b[1] /\ a[2] = b[2] /\ a[3] = b[3] /\ a[4] < b[4]
  <2>1. 4 \in 1..4 /\ \A j \in 1..(4 - 1) : j = 1 \/ j = 2 \/ j = 3
    OBVIOUS
  <2> QED BY <1>4, <2>1 DEF Less
<1> QED BY <1>1, <1>2, <1>3, <1>4

(* Whatever the physics rejects, a run cannot go on for ever: each step of *)
(* the loop, of the callback and of a resumption leaves less to do, in an  *)
(* order without infinite descent - for every configuration in which a     *)
(* step the physics accepts can be reached and a rejection takes something *)
(* off.  (EDDASolver.run, reject_step, _finalize_volume_balance)           *)
THEOREM NoEndlessRun == Spec => EveryStepCounts
<1> DEFINE Counts == Stable >= DtMin /\ DtDecrease > 0 =>
                       Less(ToDo', ToDo) /\ \A i \in 1..4 : ToDo[i] >= 0 /\ ToDo'[i] >= 0
<1>1. ASSUME ClockInv, EndInv, ClockInv', EndInv', Next, Stable >= DtMin, DtDecrease > 0
      PROVE  Less(ToDo', ToDo)
  <2>0. /\ ToDo[1] = TEnd - clock.t_end /\ ToDo[2] = clock.t_end - clock.t_current
        /\ ToDo[3] = Ahead /\ ToDo[4] = dt
        /\ ToDo'[1] = TEnd - clock'.t_end /\ ToDo'[2] = clock'.t_end - clock'.t_current
        /\ ToDo'[3] = Ahead' /\ ToDo'[4] = dt'
    BY DEF ToDo
  <2> DEFINE a == ToDo'
             b == ToDo
  <2>t. /\ clock.t_end \in Nat /\ clock.t_current \in Nat /\ TEnd \in Nat
        /\ clock'.t_end \in Nat /\ clock'.t_current \in Nat
    BY <1>1, ConstantFacts DEF ClockInv, Going, Bounded, Clocks
  <2>1. CASE BeginStep
    <3>1. /\ clock'.t_end = clock.t_end /\ clock'.t_current = clock.t_current
          /\ Ahead = 2 /\ Ahead' = 1
      BY <1>1, <2>1, BeginTime, AheadByPhase
    <3> QED BY <2>0, <3>1, LessBy
  <2>2. CASE Retry
    <3>1. clock' = clock /\ dt' < dt /\ Ahead = 1 /\ Ahead' = 1
      BY <1>1, <2>2, RetryShortens, AheadByPhase
    <3> QED BY <2>0, <3>1, LessBy
  <2>3. CASE Accept
    <3>1. clock'.t_end = clock.t_end /\ clock'.t_current = clock.t_current + dt /\ phase = "attempt"
      BY <1>1, <2>3, AcceptTime
    <3>2. dt \in Nat /\ dt > 0
      BY <1>1, <3>1, ConstantFacts DEF ClockInv, Fits
    <3>3. ToDo'[1] = ToDo[1] /\ ToDo'[2] < ToDo[2]
      BY <2>0, <2>t, <3>1, <3>2
    <3> QED BY <3>3, LessBy
  <2>4. CASE Continue \/ StopRequested
    <3>1. clock' = clock /\ Ahead = 3 /\ Ahead' \in {0, 2}
      BY <2>4, AheadByPhase DEF Continue, StopRequested
    <3> QED BY <2>0, <3>1, LessBy
  <2>5. CASE Return
    <3>1. clock' = clock /\ Ahead = 2 /\ Ahead' = 0
      BY <2>5, AheadByPhase DEF Return
    <3> QED BY <2>0, <3>1, LessBy
  <2>6. ASSUME NEW t_end \in WindowEnds \cup {TEnd}, Resume(t_end) PROVE Less(ToDo', ToDo)
    <3>1. clock'.t_end = t_end /\ clock.t_end < t_end
      BY <1>1, <2>6, ResumeTime
    <3>2. ToDo'[1] < ToDo[1]
      BY <2>0, <2>t, <3>1
    <3> QED BY <3>2, LessBy
  <2> QED BY <1>1, <2>1, <2>2, <2>3, <2>4, <2>5, <2>6 DEF Next, Loop
<1>2. ASSUME ClockInv, EndInv, ClockInv', EndInv'
      PROVE  \A i \in 1..4 : ToDo[i] >= 0 /\ ToDo'[i] >= 0
  <2>1. \A i \in 1..4 : ToDo[i] >= 0
    BY <1>2, ToDoParts
  <2>2. /\ clock'.t_end \in Nat /\ clock'.t_current \in Nat /\ TEnd \in Nat /\ dt' \in Nat
        /\ clock'.t_end <= TEnd /\ clock'.t_current <= clock'.t_end
    BY <1>2, ConstantFacts DEF ClockInv, EndInv, Going, Bounded, Clocks
  <2>3. Ahead' \in 0..3
    BY <1>2 DEF EndInv, Phases, Ahead
  <2>4. /\ ToDo'[1] = TEnd - clock'.t_end /\ ToDo'[2] = clock'.t_end - clock'.t_current
        /\ ToDo'[3] = Ahead' /\ ToDo'[4] = dt'
    BY DEF ToDo
  <2>5. ToDo'[1] >= 0 /\ ToDo'[2] >= 0 /\ ToDo'[3] >= 0 /\ ToDo'[4] >= 0
    BY <2>2, <2>3, <2>4
  <2> QED BY <2>1, <2>5
<1>3. ClockInv /\ EndInv /\ ClockInv' /\ EndInv' /\ Next => Counts
  <2> HIDE DEF Counts
  <2> QED BY <1>1, <1>2 DEF Counts
<1>4. ClockInv /\ EndInv /\ ClockInv' /\ EndInv' /\ [Next]_vars => [Counts]_vars
  BY <1>3
<1>5. Spec => []([Counts]_vars)
  BY <1>4, ClockAlways, EndAlways, PTL DEF Spec
<1> QED BY <1>5, PTL DEF EveryStepCounts
=============================================================================
