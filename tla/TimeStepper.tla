---------------------------- MODULE TimeStepper ----------------------------
(***************************************************************************)
(* edda/solver/time_stepper.py and the clock part of EDDASolver.run: how   *)
(* the candidate step is cut to the next output and to the end of the run, *)
(* what a rejection makes of it, when a result is due, and which step the  *)
(* next iteration starts from.                                             *)
(*                                                                         *)
(* The clock is a record.  Times are whole ticks, the tick being as fine   *)
(* as one likes; where the code halves a step the model rounds up.         *)
(***************************************************************************)
EXTENDS Integers

CONSTANTS
    DtInitial,        \* time_stepper.dt_initial
    DtMin, DtMax,     \* the range a step is clipped to
    DtOutput,         \* time_stepper.dt_output
    DtDecrease,       \* DFS: what a rejection takes off the step, 0 = halve it
    DtIncrease,       \* DFS: what an accepted step adds, 0 = nothing
    OutputTolerance   \* the 1e-6 of should_output

ASSUME TimeStepperAssumption ==
    /\ DtInitial \in Nat \ {0} /\ DtOutput \in Nat \ {0}
    /\ DtMin \in Nat \ {0} /\ DtMax \in Nat /\ DtMin <= DtMax
    /\ DtDecrease \in Nat /\ DtIncrease \in Nat
    /\ OutputTolerance \in Nat /\ OutputTolerance < DtOutput

Smaller(a, b) == IF a <= b THEN a ELSE b
Larger(a, b) == IF a >= b THEN a ELSE b
Clip(x, low, high) == IF x < low THEN low ELSE Smaller(x, high)
Half(x) == (x + 1) \div 2

Clocks == [t_current : Nat, dt_current : Nat, t_last_output : Nat,
           t_end : Nat, tempdt : Nat]

NewClock(t_end) ==
    [t_current |-> 0, dt_current |-> DtInitial, t_last_output |-> 0,
     t_end |-> t_end, tempdt |-> 0]

IsFinished(c) == c.t_current >= c.t_end
NextOutput(c) == c.t_last_output + DtOutput
-----------------------------------------------------------------------------
(* The candidate of an iteration: first the next output, then the end.     *)

\* mutant: the candidate is cut to the end of the run only
CandidateDtUncut(c) == Smaller(c.t_current + c.dt_current, c.t_end) - c.t_current

CandidateDt(c) ==
    Smaller(Smaller(c.t_current + c.dt_current, NextOutput(c)), c.t_end) - c.t_current

\* mutant: the cut to the end of the run hides the output from tempdt
KeepTempdtUnlessLast(c) ==
    IF c.t_current + c.dt_current > NextOutput(c) /\ NextOutput(c) < c.t_end
    THEN [c EXCEPT !.tempdt = c.dt_current] ELSE c

\* dfs.F90's tempdt: the step an output cut short, kept for after it.
KeepTempdt(c) ==
    IF c.t_current + c.dt_current > NextOutput(c)
    THEN [c EXCEPT !.tempdt = c.dt_current] ELSE c

(* A rejected attempt with step dt: what the physics suggests, what        *)
(* reject_step makes of it, and the cuts of the retry.                     *)

FluxRejectDt(dt) ==
    LET less == IF DtDecrease > 0 THEN dt - DtDecrease ELSE Half(dt)
    IN  IF less < DtMin THEN DtMin ELSE less

\* _finalize_volume_balance replaces the suggestion, without the halving
VolumeRejectDt(dt) ==
    IF dt - DtDecrease < DtMin THEN DtMin ELSE dt - DtDecrease

\* mutant: a rejection starts over from the initial step
RejectStepAnew(suggested) == Clip(suggested, DtInitial, DtMax)

RejectStep(suggested) == Clip(suggested, DtMin, DtMax)

RetryDt(c, suggested) ==
    Smaller(Smaller(RejectStep(suggested), NextOutput(c) - c.t_current),
            c.t_end - c.t_current)

(* An accepted step.                                                       *)

Advance(c, dt) == [c EXCEPT !.t_current = c.t_current + dt]

\* mutant: a result is due only after a full interval and more
ShouldOutputLate(c) == c.t_current - c.t_last_output > DtOutput

ShouldOutput(c) == c.t_current - c.t_last_output >= DtOutput - OutputTolerance

MarkOutput(c) == [c EXCEPT !.t_last_output = c.t_current]

OutputIfDue(c) == IF ShouldOutput(c) THEN MarkOutput(c) ELSE c

\* mutant: the step grows without end
GrownDtUncapped(dt) == dt + DtIncrease

GrownDt(dt) == IF dt + DtIncrease > DtMax THEN DtMax ELSE dt + DtIncrease

\* The Fortran path: the grown step, or the step an output had cut short.
PrepareFortran(c, dt) ==
    LET next == GrownDt(dt)
        out  == OutputIfDue(c)
    IN  [out EXCEPT !.dt_current =
             IF ShouldOutput(c) /\ c.tempdt > next THEN c.tempdt ELSE next]

\* adapt_time_step: the CFL step, at most a factor of two away, and cut.
AdaptTimeStep(c, cfl) ==
    LET smooth == IF c.dt_current > 0
                  THEN Clip(Clip(cfl, DtMin, DtMax), Half(c.dt_current), 2 * c.dt_current)
                  ELSE Clip(cfl, DtMin, DtMax)
        toOutput == Smaller(smooth, NextOutput(c) - c.t_current)
    IN  [c EXCEPT !.dt_current = Smaller(toOutput, c.t_end - c.t_current)]

\* The modular path adapts its step only when the run goes on.
PrepareModular(c, cfl) ==
    LET out == OutputIfDue(c)
    IN  IF IsFinished(out) THEN out ELSE AdaptTimeStep(out, cfl)
=============================================================================
