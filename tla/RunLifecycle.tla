---------------------------- MODULE RunLifecycle ----------------------------
(***************************************************************************)
(* What the run queue promises, without its tables: a request for a run of *)
(* a scenario is staged, released, active and ended, in that order and     *)
(* never back; a scenario has one unfinished request at a time and a       *)
(* project one active run.  WorkbenchStore implements it.                  *)
(***************************************************************************)
EXTENDS TLAPS

CONSTANTS
  Requests,   \* requests that can ever be made
  Scenarios,  \* what they ask to run
  ProjectOf,  \* the project that owns a scenario
  None        \* no scenario yet

VARIABLES
  phase,   \* how far a request got
  subject  \* the scenario it asks to run, None before it is made

lifecycleVars == <<phase, subject>>

Unfinished == {"staged", "released", "active"}
Phases == {"absent", "ended"} \cup Unfinished

ActiveIn(p) == {i \in Requests : phase[i] = "active" /\ ProjectOf[subject[i]] = p}

Moved(I, ph) == [i \in Requests |-> IF i \in I THEN ph ELSE phase[i]]

Stage(i, s) ==
  /\ phase[i] = "absent"
  /\ \A j \in Requests : subject[j] = s => phase[j] \notin Unfinished
  /\ phase' = Moved({i}, "staged")
  /\ subject' = [subject EXCEPT ![i] = s]

Release(I) ==
  /\ \A i \in I : phase[i] = "staged"
  /\ phase' = Moved(I, "released")
  /\ UNCHANGED subject

Withdraw(I) ==
  /\ \A i \in I : phase[i] \in {"staged", "released"}
  /\ phase' = Moved(I, "ended")
  /\ UNCHANGED subject

Begin(i) ==
  /\ phase[i] = "released"
  /\ ActiveIn(ProjectOf[subject[i]]) = {}
  /\ phase' = Moved({i}, "active")
  /\ UNCHANGED subject

End(I) ==
  /\ \A i \in I : phase[i] = "active"
  /\ phase' = Moved(I, "ended")
  /\ UNCHANGED subject

Init ==
  /\ phase = [i \in Requests |-> "absent"]
  /\ subject = [i \in Requests |-> None]

Next ==
  \/ \E i \in Requests, s \in Scenarios : Stage(i, s)
  \/ \E i \in Requests : Begin(i)
  \/ \E I \in SUBSET Requests : Release(I) \/ Withdraw(I) \/ End(I)

Spec == Init /\ [][Next]_lifecycleVars

-----------------------------------------------------------------------------
\* A request is in one phase and asks for at most one scenario.
TypeOK ==
  /\ phase \in [Requests -> Phases]
  /\ subject \in [Requests -> Scenarios \cup {None}]

\* No scenario is asked for twice at a time, and no project computes two runs.
Exclusive ==
  \A i, j \in Requests : i # j =>
    /\ phase[i] \in Unfinished /\ phase[j] \in Unfinished => subject[i] # subject[j]
    /\ phase[i] = "active" /\ phase[j] = "active" => ProjectOf[subject[i]] # ProjectOf[subject[j]]

\* A type-correct state stays type correct.
LEMMA TypeStep == TypeOK /\ [Next]_lifecycleVars => TypeOK'
<1> SUFFICES ASSUME TypeOK, [Next]_lifecycleVars PROVE TypeOK'
  OBVIOUS
<1> USE DEF TypeOK, Phases, Unfinished
<1>1. ASSUME NEW i \in Requests, NEW s \in Scenarios, Stage(i, s) PROVE TypeOK'
  BY <1>1 DEF Stage, Moved
<1>2. ASSUME NEW i \in Requests, Begin(i) PROVE TypeOK'
  BY <1>2 DEF Begin, Moved
<1>3. ASSUME NEW I \in SUBSET Requests, Release(I) \/ Withdraw(I) \/ End(I) PROVE TypeOK'
  BY <1>3 DEF Release, Withdraw, End, Moved
<1>4. CASE UNCHANGED lifecycleVars
  BY <1>4 DEF lifecycleVars
<1> QED BY <1>1, <1>2, <1>3, <1>4 DEF Next

\* Only Stage makes a request unfinished and only Begin makes one active, and
\* both look at every other request first.
LEMMA ExclusiveStep == TypeOK /\ Exclusive /\ [Next]_lifecycleVars => Exclusive'
<1> SUFFICES ASSUME TypeOK, Exclusive, [Next]_lifecycleVars PROVE Exclusive'
  OBVIOUS
<1> USE DEF Exclusive
<1>1. ASSUME NEW i \in Requests, NEW s \in Scenarios, Stage(i, s) PROVE Exclusive'
  BY <1>1 DEF Stage, Moved, TypeOK, Unfinished
<1>2. ASSUME NEW i \in Requests, Begin(i) PROVE Exclusive'
  BY <1>2 DEF Begin, Moved, TypeOK, Unfinished, ActiveIn
<1>3. ASSUME NEW I \in SUBSET Requests, Release(I) \/ Withdraw(I) \/ End(I) PROVE Exclusive'
  BY <1>3 DEF Release, Withdraw, End, Moved, TypeOK, Unfinished
<1>4. CASE UNCHANGED lifecycleVars
  BY <1>4 DEF lifecycleVars
<1> QED BY <1>1, <1>2, <1>3, <1>4 DEF Next

\* Whatever is staged, released, withdrawn and ended, in any order: one
\* unfinished request per scenario and one active run per project.
THEOREM ExclusiveAlways == Spec => [](TypeOK /\ Exclusive)
<1>1. Init => TypeOK /\ Exclusive
  BY DEF Init, TypeOK, Exclusive, Phases, Unfinished
<1>2. TypeOK /\ Exclusive /\ [Next]_lifecycleVars => (TypeOK /\ Exclusive)'
  BY TypeStep, ExclusiveStep
<1> QED BY <1>1, <1>2, PTL DEF Spec
=============================================================================
