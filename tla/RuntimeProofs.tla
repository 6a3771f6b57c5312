---------------------------- MODULE RuntimeProofs ----------------------------
(***************************************************************************)
(* Theorems about Runtime: for any sessions, requests and profiles, and    *)
(* for any case of inputs a session may get.                               *)
(*                                                                         *)
(* First the sessions and what they share: types, the count of sessions,   *)
(* the release of Taichi, the race of two initializations, the environment.*)
(* Then the setup of a solver: what performing a sequence of calls does to *)
(* origins, the initialization and each family of files in their order,    *)
(* and from them what is out of date and what is in effect at the end.     *)
(***************************************************************************)
EXTENDS Runtime, TLAPS, FiniteSetTheorems

(* Parts of the inductive invariant.                                       *)

TypesInv ==
    /\ phase \in [Sessions -> Phases]
    /\ should_reset \in [Sessions -> BOOLEAN]
    /\ fields \in [Sessions -> {"none", "live", "lost"}]
    /\ DOMAIN request = Sessions
    /\ \A s \in Sessions : phase[s] = "idle" \/ request[s] \in Requests[s]
    /\ signature \in Signatures \cup {Nobody}
    /\ overlapped \in BOOLEAN /\ raced \in BOOLEAN /\ unsigned \in BOOLEAN

\* The count is that of the registered sessions.
CountInv == active = Cardinality(RegisteredSessions)

-----------------------------------------------------------------------------
\* The signature of a request is one.
LEMMA RequestedSignature ==
    ASSUME NEW s \in Sessions, NEW r \in Requests[s]
    PROVE  r \in AllRequests /\ r.signature \in Signatures /\ r.signature # Nobody
BY RuntimeAssumption DEF AllRequests, Signatures

\* Sets of sessions are finite.
LEMMA SessionsFinite ==
    ASSUME NEW S \in SUBSET Sessions
    PROVE  /\ IsFiniteSet(S) /\ Cardinality(S) \in Nat
           /\ Cardinality(S) <= Cardinality(Sessions)
           /\ Cardinality(S) = 0 <=> S = {}
BY RuntimeAssumption, FS_Subset, FS_CardinalityType, FS_EmptySet

\* Types at the start.
LEMMA TypesInit == Init => TypesInv
BY DEF Init, TypesInv, Phases

\* Types are kept.
LEMMA TypesNext == TypesInv /\ [Next]_vars => TypesInv'
<1> SUFFICES ASSUME TypesInv, [Next]_vars PROVE TypesInv'
  OBVIOUS
<1> USE DEF TypesInv
<1>1. ASSUME NEW s \in Sessions, NEW r \in Requests[s], Enter(s, r) PROVE TypesInv'
  BY <1>1 DEF Enter, Phases
<1>2. ASSUME NEW s \in Sessions, Register(s) \/ CheckRuntime(s) \/ Deregister(s) PROVE TypesInv'
  BY <1>2 DEF Register, CheckRuntime, Deregister, Phases, Registered, processVars, historyVars
<1>3. ASSUME NEW s \in Sessions, InitTaichi(s) \/ InitTaichiFails(s) PROVE TypesInv'
  <2>1. Lost \in [Sessions -> {"none", "live", "lost"}]
    BY DEF Lost
  <2>2. request[s].signature \in Signatures
    BY <1>3, RequestedSignature DEF InitTaichi, InitTaichiFails
  <2> QED BY <1>3, <2>1, <2>2
          DEF InitTaichi, InitTaichiFails, Phases, Registered, processVars, historyVars
<1>4. ASSUME NEW s \in Sessions, Build(s) \/ ApplyInputs(s) PROVE TypesInv'
  BY <1>4 DEF Build, ApplyInputs, Phases, Registered, processVars, historyVars
<1>5. ASSUME NEW s \in Sessions, RestoreEnvironment(s) \/ ResetRuntime(s) PROVE TypesInv'
  <2>1. Lost \in [Sessions -> {"none", "live", "lost"}]
    BY DEF Lost
  <2> QED BY <1>5, <2>1
          DEF RestoreEnvironment, ResetRuntime, Left, Phases, Registered, processVars, historyVars
<1>6. CASE UNCHANGED vars
  BY <1>6 DEF vars, sessionVars, processVars, historyVars
<1> QED BY <1>1, <1>2, <1>3, <1>4, <1>5, <1>6 DEF Next, Step

\* Types throughout.
LEMMA TypesAlways == Spec => []TypesInv
BY TypesInit, TypesNext, PTL DEF Spec

-----------------------------------------------------------------------------
(* The count and the release of Taichi.                                    *)

\* Taichi is initialized only while a session needs it or will reset it.
HeldInv ==
    signature # Nobody =>
        \/ RegisteredSessions # {}
        \/ \E s \in Sessions : phase[s] \in {"leaving", "restored"} /\ should_reset[s]

\* How a session changes the set of registered ones.
LEMMA RegisteredChange ==
    ASSUME TypesInv, NEW s \in Sessions, NEW p \in Phases, phase' = [phase EXCEPT ![s] = p]
    PROVE  RegisteredSessions' = IF p \in Registered THEN RegisteredSessions \cup {s}
                                 ELSE RegisteredSessions \ {s}
BY DEF TypesInv, RegisteredSessions

\* A session comes between entering and leaving the count.
LEMMA CountNext == TypesInv /\ CountInv /\ [Next]_vars => CountInv'
<1> SUFFICES ASSUME TypesInv, CountInv, [Next]_vars PROVE CountInv'
  OBVIOUS
<1>0. RegisteredSessions \in SUBSET Sessions /\ IsFiniteSet(RegisteredSessions)
  BY SessionsFinite DEF RegisteredSessions
<1>1. ASSUME NEW s \in Sessions, Register(s) PROVE CountInv'
  <2>1. phase' = [phase EXCEPT ![s] = "registered"] /\ active' = active + 1
    BY <1>1 DEF Register
  <2>2. RegisteredSessions' = RegisteredSessions \cup {s} /\ s \notin RegisteredSessions
    BY <1>1, <2>1, RegisteredChange DEF Register, Phases, Registered, RegisteredSessions
  <2> QED BY <1>0, <2>1, <2>2, FS_AddElement DEF CountInv
<1>2. ASSUME NEW s \in Sessions, Deregister(s) PROVE CountInv'
  <2>1. phase' = [phase EXCEPT ![s] = "leaving"] /\ active' = OneLess
    BY <1>2 DEF Deregister
  <2>2. RegisteredSessions' = RegisteredSessions \ {s} /\ s \in RegisteredSessions
    <3>1. "leaving" \in Phases /\ "leaving" \notin Registered
      BY DEF Phases, Registered
    <3>2. s \in RegisteredSessions
      BY <1>2 DEF Deregister, RegisteredSessions, Registered
    <3> QED BY <2>1, <3>1, <3>2, RegisteredChange
  <2>3. Cardinality(RegisteredSessions) \in Nat /\ Cardinality(RegisteredSessions) # 0
    BY <1>0, <2>2, SessionsFinite
  <2>4. Cardinality(RegisteredSessions') = Cardinality(RegisteredSessions) - 1
    BY <1>0, <2>2, FS_RemoveElement
  <2> QED BY <2>1, <2>3, <2>4 DEF CountInv, OneLess
<1>3. ASSUME NEW s \in Sessions, NEW p \in Phases, phase' = [phase EXCEPT ![s] = p],
             active' = active, phase[s] \in Registered <=> p \in Registered
      PROVE  CountInv'
  <2>1. s \in RegisteredSessions <=> p \in Registered
    BY <1>3 DEF RegisteredSessions
  <2>2. RegisteredSessions' = RegisteredSessions
    BY <1>3, <2>1, RegisteredChange
  <2> QED BY <1>3, <2>2 DEF CountInv
<1>4. ASSUME NEW s \in Sessions, NEW r \in Requests[s], Enter(s, r) PROVE CountInv'
  BY <1>3, <1>4 DEF Enter, Phases, Registered
<1>5. ASSUME NEW s \in Sessions, CheckRuntime(s) PROVE CountInv'
  BY <1>3, <1>5 DEF CheckRuntime, Phases, Registered, processVars
<1>6. ASSUME NEW s \in Sessions, InitTaichi(s) PROVE CountInv'
  BY <1>3, <1>6 DEF InitTaichi, Phases, Registered, processVars
<1>7. ASSUME NEW s \in Sessions, InitTaichiFails(s) PROVE CountInv'
  BY <1>3, <1>7 DEF InitTaichiFails, Phases, Registered, processVars
<1>8. ASSUME NEW s \in Sessions, Build(s) \/ ApplyInputs(s) PROVE CountInv'
  BY <1>3, <1>8 DEF Build, ApplyInputs, Phases, Registered, processVars
<1>9. ASSUME NEW s \in Sessions, RestoreEnvironment(s) \/ ResetRuntime(s) PROVE CountInv'
  BY <1>3, <1>9 DEF RestoreEnvironment, ResetRuntime, Left, Phases, Registered
<1>10. CASE UNCHANGED vars
  BY <1>10 DEF vars, sessionVars, processVars, CountInv, RegisteredSessions
<1> QED BY <1>1, <1>2, <1>4, <1>5, <1>6, <1>7, <1>8, <1>9, <1>10 DEF Next, Step

\* The count is right throughout.
LEMMA CountAlways == Spec => []CountInv
<1>1. Init => CountInv
  <2> SUFFICES ASSUME Init PROVE CountInv
    OBVIOUS
  <2>1. RegisteredSessions = {}
    BY DEF Init, RegisteredSessions, Registered
  <2> QED BY <2>1, FS_EmptySet DEF Init, CountInv
<1> QED BY <1>1, CountNext, TypesAlways, PTL DEF Spec

(* Types, and a count that never exceeds the sessions there are.           *)
(* (RuntimeSession._active_sessions)                                       *)
THEOREM RuntimeTypes == Spec => []RuntimeTypeOK
<1>1. TypesInv /\ CountInv => RuntimeTypeOK
  <2> SUFFICES ASSUME TypesInv, CountInv PROVE RuntimeTypeOK
    OBVIOUS
  <2>1. active \in 0 .. Cardinality(Sessions)
    <3>1. RegisteredSessions \in SUBSET Sessions /\ Cardinality(Sessions) \in Nat
      BY SessionsFinite DEF RegisteredSessions
    <3> QED BY <3>1, SessionsFinite DEF CountInv
  <2> QED BY <2>1 DEF TypesInv, RuntimeTypeOK
<1> QED BY <1>1, TypesAlways, CountAlways, PTL

\* A session that is the last one keeps the duty to reset, until it does.
LEMMA HeldNext == TypesInv /\ CountInv /\ CountInv' /\ HeldInv /\ [Next]_vars => HeldInv'
<1> SUFFICES ASSUME TypesInv, CountInv, CountInv', HeldInv, [Next]_vars PROVE HeldInv'
  OBVIOUS
<1>0. RegisteredSessions \in SUBSET Sessions /\ RegisteredSessions' \in SUBSET Sessions
  BY DEF RegisteredSessions
<1>1. ASSUME NEW s \in Sessions, Deregister(s) PROVE HeldInv'
  <2>1. CASE RegisteredSessions' = {}
    <3>1. active' = 0
      BY <2>1, FS_EmptySet DEF CountInv
    <3>2. phase'[s] = "leaving" /\ should_reset'[s]
      BY <1>1, <3>1 DEF Deregister, TypesInv
    <3> QED BY <3>2 DEF HeldInv
  <2>2. CASE RegisteredSessions' # {}
    BY <2>2 DEF HeldInv
  <2> QED BY <2>1, <2>2
<1>2. ASSUME NEW s \in Sessions, ResetRuntime(s) PROVE HeldInv'
  <2>1. phase' = [phase EXCEPT ![s] = "idle"] /\ should_reset' = [should_reset EXCEPT ![s] = FALSE]
    BY <1>2 DEF ResetRuntime, Left
  <2>2. phase[s] = "restored"
    BY <1>2 DEF ResetRuntime, Left
  <2>3. RegisteredSessions' = RegisteredSessions
    BY <2>1, <2>2, RegisteredChange DEF RegisteredSessions, Phases, Registered
  <2>4. CASE should_reset[s] /\ active = 0
    BY <1>2, <2>4 DEF ResetRuntime, HeldInv
  <2>5. CASE should_reset[s] /\ active # 0
    BY <1>0, <2>3, <2>5, FS_EmptySet DEF CountInv, HeldInv
  <2>6. CASE ~should_reset[s]
    <3>1. signature' = signature
      BY <1>2, <2>6 DEF ResetRuntime
    <3>2. ASSUME NEW t \in Sessions, phase[t] \in {"leaving", "restored"}, should_reset[t]
          PROVE  phase'[t] \in {"leaving", "restored"} /\ should_reset'[t]
      BY <2>1, <2>6, <3>2 DEF TypesInv
    <3> QED BY <2>3, <3>1, <3>2 DEF HeldInv
  <2> QED BY <2>4, <2>5, <2>6
<1>3. ASSUME NEW s \in Sessions, NEW p \in Registered, phase' = [phase EXCEPT ![s] = p]
      PROVE  HeldInv'
  <2>1. s \in RegisteredSessions'
    BY <1>3, RegisteredChange DEF Phases
  <2> QED BY <2>1 DEF HeldInv
<1>4. ASSUME NEW s \in Sessions, NEW r \in Requests[s], Enter(s, r) PROVE HeldInv'
  <2>1. /\ phase' = [phase EXCEPT ![s] = "entered"] /\ phase[s] = "idle"
        /\ UNCHANGED <<should_reset, signature>>
    BY <1>4 DEF Enter
  <2>2. RegisteredSessions' = RegisteredSessions
    BY <2>1, RegisteredChange DEF RegisteredSessions, Phases, Registered
  <2>3. \A t \in Sessions : phase[t] \in {"leaving", "restored"} => phase'[t] = phase[t]
    BY <2>1 DEF TypesInv
  <2> QED BY <2>1, <2>2, <2>3 DEF HeldInv
<1>5. ASSUME NEW s \in Sessions, RestoreEnvironment(s) PROVE HeldInv'
  <2>1. /\ phase' = [phase EXCEPT ![s] = "restored"] /\ phase[s] = "leaving"
        /\ UNCHANGED <<should_reset, signature>>
    BY <1>5 DEF RestoreEnvironment
  <2>2. RegisteredSessions' = RegisteredSessions
    BY <2>1, RegisteredChange DEF RegisteredSessions, Phases, Registered
  <2>3. \A t \in Sessions : phase[t] \in {"leaving", "restored"} =>
                             phase'[t] \in {"leaving", "restored"}
    BY <2>1 DEF TypesInv
  <2> QED BY <2>1, <2>2, <2>3 DEF HeldInv
<1>6. ASSUME NEW s \in Sessions,
             Register(s) \/ CheckRuntime(s) \/ InitTaichi(s) \/ InitTaichiFails(s)
               \/ Build(s) \/ ApplyInputs(s)
      PROVE  HeldInv'
  <2>1. \E p \in Registered : phase' = [phase EXCEPT ![s] = p]
    BY <1>6 DEF Register, CheckRuntime, InitTaichi, InitTaichiFails, Build, ApplyInputs, Registered
  <2> QED BY <1>3, <2>1
<1>7. CASE UNCHANGED vars
  BY <1>7 DEF vars, sessionVars, processVars, HeldInv, RegisteredSessions
<1> QED BY <1>1, <1>2, <1>4, <1>5, <1>6, <1>7 DEF Next, Step

\* Taichi is held by somebody throughout.
LEMMA HeldAlways == Spec => []HeldInv
<1>1. Init => HeldInv
  BY DEF Init, HeldInv
<1> QED BY <1>1, HeldNext, TypesAlways, CountAlways, PTL DEF Spec

(* When no session is left Taichi has been released, for any number of     *)
(* sessions.  (RuntimeSession.dispose, reset_taichi_runtime)               *)
THEOREM ReleasedAtTheEnd == Spec => []ReleasedWhenIdle
<1>1. CountInv /\ HeldInv => ReleasedWhenIdle
  <2> SUFFICES ASSUME CountInv, HeldInv, Busy = {} PROVE active = 0 /\ signature = Nobody
    BY DEF ReleasedWhenIdle
  <2>1. \A s \in Sessions : phase[s] = "idle"
    BY DEF Busy
  <2>2. RegisteredSessions = {}
    BY <2>1 DEF RegisteredSessions, Registered
  <2> QED BY <2>1, <2>2, FS_EmptySet DEF CountInv, HeldInv
<1> QED BY <1>1, CountAlways, HeldAlways, PTL

(* A reset takes Taichi from no registered session.                        *)
(* (RuntimeSession.dispose)                                                *)
THEOREM ResetsSpareSessions == Spec => ResetSparesSessions
<1> DEFINE Spared == signature # Nobody /\ signature' = Nobody => RegisteredSessions = {}
<1>1. ASSUME TypesInv, CountInv, [Next]_vars PROVE Spared
  <2>1. ASSUME NEW s \in Sessions, ResetRuntime(s) PROVE Spared
    <3>1. CASE active = 0
      BY <1>1, <3>1, SessionsFinite DEF CountInv, RegisteredSessions
    <3>2. CASE active # 0
      BY <2>1, <3>2 DEF ResetRuntime
    <3> QED BY <3>1, <3>2
  <2>2. ASSUME NEW s \in Sessions, InitTaichi(s) PROVE Spared
    BY <1>1, <2>2, RequestedSignature DEF InitTaichi, TypesInv
  <2>3. ASSUME NEW s \in Sessions, NEW r \in Requests[s], Enter(s, r) PROVE Spared
    BY <2>3 DEF Enter
  <2>4. ASSUME NEW s \in Sessions,
               Register(s) \/ CheckRuntime(s) \/ InitTaichiFails(s) \/ Build(s) \/ ApplyInputs(s)
                 \/ Deregister(s) \/ RestoreEnvironment(s)
        PROVE  Spared
    BY <2>4 DEF Register, CheckRuntime, InitTaichiFails, Build, ApplyInputs, Deregister,
                RestoreEnvironment, processVars
  <2>5. CASE UNCHANGED vars
    BY <2>5 DEF vars, processVars
  <2> QED BY <1>1, <2>1, <2>2, <2>3, <2>4, <2>5 DEF Next, Step
<1> QED BY <1>1, TypesAlways, CountAlways, PTL DEF Spec, ResetSparesSessions

-----------------------------------------------------------------------------
(* Serialization.                                                          *)

\* Sessions past the check have the signature they asked for.
SerialInv ==
    raced \/ unsigned \/
      \A s \in Sessions :
        /\ phase[s] \in {"ready", "built", "running"} => signature = request[s].signature
        /\ phase[s] \in {"built", "running"} => fields[s] = "live"

\* Unless the check was raced or a failed CPU passed over.
LEMMA SerialNext == TypesInv /\ CountInv /\ SerialInv /\ [Next]_vars => SerialInv'
<1> SUFFICES ASSUME TypesInv, CountInv, SerialInv, [Next]_vars, ~raced', ~unsigned'
             PROVE  SerialInv'
  BY DEF SerialInv
<1>0. /\ ~raced /\ ~unsigned
      /\ \A s \in Sessions :
           /\ phase[s] \in {"ready", "built", "running"} => signature = request[s].signature
           /\ phase[s] \in {"built", "running"} => fields[s] = "live"
  <2>1. ~raced /\ ~unsigned
    <3>1. ASSUME NEW s \in Sessions, Step(s) PROVE ~raced /\ ~unsigned
      <4>1. CASE \E r \in Requests[s] : Enter(s, r)
        BY <4>1 DEF Enter
      <4>2. CASE InitTaichi(s)
        BY <4>2 DEF InitTaichi
      <4>3. CASE InitTaichiFails(s)
        <5>1. raced' = (raced \/ signature # Nobody)
          BY <4>3 DEF InitTaichiFails
        <5>2. unsigned' = TRUE \/ unsigned' = unsigned
          BY <4>3 DEF InitTaichiFails
        <5>3. ~raced
          BY <5>1
        <5>4. ~unsigned
          BY <5>2
        <5> QED BY <5>3, <5>4
      <4>4. CASE Register(s) \/ CheckRuntime(s) \/ Build(s) \/ ApplyInputs(s)
        <5>1. UNCHANGED historyVars
          BY <4>4 DEF Register, CheckRuntime, Build, ApplyInputs
        <5> QED BY <5>1 DEF historyVars
      <4>5. CASE Deregister(s) \/ RestoreEnvironment(s) \/ ResetRuntime(s)
        BY <4>5 DEF Deregister, RestoreEnvironment, ResetRuntime, Left, historyVars
      <4> QED BY <3>1, <4>1, <4>2, <4>3, <4>4, <4>5 DEF Step
    <3>2. CASE UNCHANGED vars
      BY <3>2 DEF vars, historyVars
    <3> QED BY <3>1, <3>2 DEF Next
  <2> QED BY <2>1 DEF SerialInv
<1>1. ASSUME signature = Nobody, NEW t \in Sessions
      PROVE  phase[t] \notin {"ready", "built", "running"}
  BY <1>0, <1>1, RequestedSignature DEF TypesInv
<1>2. ASSUME NEW s \in Sessions, NEW r \in Requests[s], Enter(s, r) PROVE SerialInv'
  BY <1>0, <1>2 DEF Enter, SerialInv, TypesInv
<1>3. ASSUME NEW s \in Sessions, Register(s) \/ CheckRuntime(s) PROVE SerialInv'
  BY <1>0, <1>3 DEF Register, CheckRuntime, SerialInv, TypesInv, processVars, historyVars
<1>4. ASSUME NEW s \in Sessions, InitTaichi(s) PROVE SerialInv'
  <2>1. signature = Nobody
    BY <1>4 DEF InitTaichi
  <2> QED BY <1>1, <1>4, <2>1 DEF InitTaichi, SerialInv, TypesInv
<1>5. ASSUME NEW s \in Sessions, InitTaichiFails(s) PROVE SerialInv'
  <2>1. signature = Nobody /\ phase' = [phase EXCEPT ![s] = "failed"]
    BY <1>5 DEF InitTaichiFails
  <2> QED BY <1>1, <2>1 DEF SerialInv, TypesInv
<1>6. ASSUME NEW s \in Sessions, Build(s) PROVE SerialInv'
  BY <1>0, <1>6 DEF Build, SerialInv, TypesInv, processVars, historyVars
<1>7. ASSUME NEW s \in Sessions, ApplyInputs(s) PROVE SerialInv'
  <2>1. /\ UNCHANGED <<request, signature, fields>> /\ phase[s] = "built"
        /\ \/ phase' = [phase EXCEPT ![s] = "failed"]
           \/ phase' = [phase EXCEPT ![s] = "running"]
    BY <1>7 DEF ApplyInputs, processVars
  <2> QED BY <1>0, <2>1 DEF SerialInv, TypesInv
<1>8. ASSUME NEW s \in Sessions, Deregister(s) \/ RestoreEnvironment(s) PROVE SerialInv'
  BY <1>0, <1>8 DEF Deregister, RestoreEnvironment, SerialInv, TypesInv, historyVars
<1>9. ASSUME NEW s \in Sessions, ResetRuntime(s) PROVE SerialInv'
  <2>1. /\ phase' = [phase EXCEPT ![s] = "idle"] /\ request' = [request EXCEPT ![s] = << >>]
    BY <1>9 DEF ResetRuntime, Left
  <2>2. CASE active = 0
    <3>1. \A t \in Sessions : phase[t] \notin Registered
      BY <2>2, SessionsFinite DEF CountInv, RegisteredSessions
    <3> QED BY <2>1, <3>1 DEF SerialInv, TypesInv, Registered
  <2>3. CASE active # 0
    <3>1. signature' = signature /\ fields' = [fields EXCEPT ![s] = "none"]
      BY <1>9, <2>3 DEF ResetRuntime
    <3> QED BY <1>0, <2>1, <3>1 DEF SerialInv, TypesInv
  <2> QED BY <2>2, <2>3
<1>10. CASE UNCHANGED vars
  BY <1>0, <1>10 DEF vars, sessionVars, processVars, historyVars, SerialInv
<1> QED BY <1>2, <1>3, <1>4, <1>5, <1>6, <1>7, <1>8, <1>9, <1>10 DEF Next, Step

(* No running solver is left without its fields or under another           *)
(* signature, unless two sessions raced the check or the CPU failed.       *)
(* (BackendManager.initialize)                                             *)
THEOREM SerializedButForTheRace == Spec => []SerializedUnlessRaced
<1>1. Init => SerialInv
  BY DEF Init, SerialInv
<1>2. SerialInv => SerializedUnlessRaced
  BY DEF SerialInv, SerializedUnlessRaced, RuntimeIsSerialized, Running
<1> QED BY <1>1, <1>2, SerialNext, TypesAlways, CountAlways, PTL DEF Spec

-----------------------------------------------------------------------------
(* The environment.                                                        *)

\* As long as sessions do not overlap there is one, in its environment.
ScopeInv ==
    ~overlapped =>
      /\ \A s, t \in Busy : s = t
      /\ Busy = {} => env = Base
      /\ \A s \in Sessions :
           /\ phase[s] = "restored" => env = Base
           /\ phase[s] \notin {"idle", "restored"} =>
                /\ env = ProfileEnvironment(request[s].profile)
                /\ previous[s] = [k \in DOMAIN Environment[request[s].profile] |-> Base[k]]
                /\ request[s].profile \in Profiles
           /\ phase[s] \in {"built", "running"} =>
                gates[s] = ProfileEnvironment(request[s].profile)

EnvTypes == DOMAIN previous = Sessions /\ DOMAIN gates = Sessions /\ DOMAIN origin = Sessions

\* A profile sets variables the process has.
LEMMA ProfileKeys ==
    ASSUME NEW s \in Sessions, NEW r \in Requests[s]
    PROVE  r.profile \in Profiles /\ DOMAIN Environment[r.profile] \subseteq Keys
BY RuntimeAssumption DEF AllRequests

\* Entering an untouched process, a session gets its profile and saves the rest.
LEMMA EnterScope ==
    ASSUME NEW p \in Profiles, env = Base
    PROVE  /\ Applied(p) = ProfileEnvironment(p)
           /\ Captured(p) = [k \in DOMAIN Environment[p] |-> Base[k]]
BY DEF Applied, ProfileEnvironment, Captured

\* Restoring what was saved gives back the environment there was.
LEMMA RestoreScope ==
    ASSUME NEW p \in Profiles, env = ProfileEnvironment(p)
    PROVE  Restored([k \in DOMAIN Environment[p] |-> Base[k]]) = Base
<1>1. Base = [k \in Keys |-> Base[k]]
  BY RuntimeAssumption
<1>2. \A k \in Keys : (IF k \in DOMAIN Environment[p] THEN Base[k] ELSE env[k]) = Base[k]
  BY DEF ProfileEnvironment
<1>3. Restored([k \in DOMAIN Environment[p] |-> Base[k]])
        = [k \in Keys |-> IF k \in DOMAIN Environment[p] THEN Base[k] ELSE env[k]]
  BY DEF Restored
<1> QED BY <1>1, <1>2, <1>3

\* A session that stays in its environment keeps it.
LEMMA StayScope ==
    ASSUME TypesInv, EnvTypes, ScopeInv, NEW s \in Sessions, NEW p \in Phases,
           phase' = [phase EXCEPT ![s] = p],
           phase[s] \notin {"idle", "restored"}, p \notin {"idle", "restored"},
           UNCHANGED <<request, previous, env, overlapped>>,
           \A t \in Sessions : phase'[t] \in {"built", "running"} =>
              \/ phase[t] \in {"built", "running"} /\ gates'[t] = gates[t]
              \/ gates'[t] = env /\ phase[t] \notin {"idle", "restored"}
    PROVE  ScopeInv'
<1>1. /\ \A t \in Sessions : phase'[t] = IF t = s THEN p ELSE phase[t]
  BY DEF TypesInv
<1>2. Busy' = Busy /\ s \in Busy
  BY <1>1 DEF Busy
<1> SUFFICES ASSUME ~overlapped PROVE ScopeInv'
  BY DEF ScopeInv
<1>3. \A t \in Sessions :
        phase'[t] \notin {"idle", "restored"} <=> phase[t] \notin {"idle", "restored"}
  BY <1>1
<1>4. \A t \in Sessions : phase'[t] = "restored" => phase[t] = "restored"
  BY <1>1
<1>5. \A t \in Sessions : phase'[t] \in {"built", "running"} =>
                             gates'[t] = ProfileEnvironment(request[t].profile)
  BY DEF ScopeInv
<1>6. \A q : ProfileEnvironment(q)' = ProfileEnvironment(q)
  BY DEF ProfileEnvironment
<1> QED BY <1>2, <1>3, <1>4, <1>5, <1>6 DEF ScopeInv

\* Sessions that do not overlap do not meet in the environment.
LEMMA ScopeNext == TypesInv /\ EnvTypes /\ ScopeInv /\ [Next]_vars => ScopeInv' /\ EnvTypes'
<1> SUFFICES ASSUME TypesInv, EnvTypes, ScopeInv, [Next]_vars PROVE ScopeInv' /\ EnvTypes'
  OBVIOUS
<1>0. EnvTypes'
  BY DEF EnvTypes, Next, Step, Enter, Register, CheckRuntime, InitTaichi, InitTaichiFails, Build,
         ApplyInputs, Deregister, RestoreEnvironment, ResetRuntime, Left, vars, sessionVars
<1>1. ASSUME NEW s \in Sessions, NEW r \in Requests[s], Enter(s, r) PROVE ScopeInv'
  <2> SUFFICES ASSUME ~overlapped' PROVE ScopeInv'
    BY DEF ScopeInv
  <2>1. ~overlapped /\ Busy = {}
    BY <1>1 DEF Enter, TypesInv
  <2>2. env = Base /\ \A t \in Sessions : phase[t] = "idle"
    BY <2>1 DEF ScopeInv, Busy
  <2>3. /\ \A t \in Sessions : phase'[t] = IF t = s THEN "entered" ELSE "idle"
        /\ request'[s] = r
    BY <1>1, <2>2 DEF Enter, TypesInv
  <2>4. Busy' = {s}
    BY <2>3 DEF Busy
  <2>5. r.profile \in Profiles
    BY ProfileKeys
  <2>6. /\ env' = ProfileEnvironment(r.profile)
        /\ previous'[s] = [k \in DOMAIN Environment[r.profile] |-> Base[k]]
    BY <1>1, <2>2, <2>5, EnterScope DEF Enter, EnvTypes
  <2>7. ProfileEnvironment(r.profile)' = ProfileEnvironment(r.profile)
    BY DEF ProfileEnvironment
  <2> QED BY <2>3, <2>4, <2>5, <2>6, <2>7 DEF ScopeInv
<1>2. ASSUME NEW s \in Sessions,
             Register(s) \/ CheckRuntime(s) \/ InitTaichi(s) \/ InitTaichiFails(s) \/ Deregister(s)
      PROVE  ScopeInv'
  <2>1. PICK p \in {"registered", "ready", "checked", "failed", "leaving"} :
          /\ phase' = [phase EXCEPT ![s] = p] /\ phase[s] \notin {"idle", "restored"}
          /\ UNCHANGED <<request, previous, env, overlapped, gates>>
    <3>1. CASE Register(s)
      BY <3>1 DEF Register, historyVars
    <3>2. CASE CheckRuntime(s)
      <4>1. /\ phase[s] = "registered"
            /\ UNCHANGED <<request, previous, env, overlapped, gates>>
        BY <3>2 DEF CheckRuntime, processVars, historyVars
      <4>2. \/ phase' = [phase EXCEPT ![s] = "ready"]
            \/ phase' = [phase EXCEPT ![s] = "checked"]
            \/ phase' = [phase EXCEPT ![s] = "failed"]
        <5>1. request[s].signature # Nobody
          BY <4>1, RequestedSignature DEF TypesInv
        <5>2. CASE signature = request[s].signature
          BY <3>2, <5>1, <5>2 DEF CheckRuntime
        <5>3. CASE signature = Nobody
          BY <3>2, <5>1, <5>3 DEF CheckRuntime
        <5>4. CASE signature # Nobody /\ signature # request[s].signature
          BY <3>2, <5>4 DEF CheckRuntime
        <5> QED BY <5>2, <5>3, <5>4
      <4> QED BY <4>1, <4>2
    <3>3. CASE InitTaichi(s)
      BY <3>3 DEF InitTaichi
    <3>4. CASE InitTaichiFails(s)
      BY <3>4 DEF InitTaichiFails, processVars
    <3>5. CASE Deregister(s)
      BY <3>5 DEF Deregister, historyVars
    <3> QED BY <1>2, <3>1, <3>2, <3>3, <3>4, <3>5
  <2>2. \A t \in Sessions : phase'[t] \in {"built", "running"} => phase[t] \in {"built", "running"}
    BY <2>1 DEF TypesInv
  <2>3. p \in Phases /\ p \notin {"idle", "restored"}
    BY DEF Phases, Registered
  <2> QED BY <2>1, <2>2, <2>3, StayScope
<1>3. ASSUME NEW s \in Sessions, Build(s) PROVE ScopeInv'
  <2>1. PICK p \in {"failed", "built"} :
          /\ phase' = [phase EXCEPT ![s] = p] /\ phase[s] = "ready"
          /\ p = "built" => gates' = [gates EXCEPT ![s] = env]
          /\ p = "failed" => gates' = gates
          /\ UNCHANGED <<request, previous, env, overlapped>>
    BY <1>3 DEF Build, processVars, historyVars
  <2>2. \A t \in Sessions : phase'[t] \in {"built", "running"} =>
          \/ phase[t] \in {"built", "running"} /\ gates'[t] = gates[t]
          \/ gates'[t] = env /\ phase[t] \notin {"idle", "restored"}
    BY <2>1 DEF TypesInv, EnvTypes
  <2>3. p \in Phases /\ p \notin {"idle", "restored"}
    BY DEF Phases, Registered
  <2> QED BY <2>1, <2>2, <2>3, StayScope
<1>4. ASSUME NEW s \in Sessions, ApplyInputs(s) PROVE ScopeInv'
  <2>1. PICK p \in {"failed", "running"} :
          /\ phase' = [phase EXCEPT ![s] = p] /\ phase[s] = "built"
          /\ UNCHANGED <<request, previous, env, overlapped, gates>>
    BY <1>4 DEF ApplyInputs, processVars, historyVars
  <2>2. \A t \in Sessions : phase'[t] \in {"built", "running"} => phase[t] \in {"built", "running"}
    BY <2>1 DEF TypesInv
  <2>3. p \in Phases /\ p \notin {"idle", "restored"}
    BY DEF Phases, Registered
  <2> QED BY <2>1, <2>2, <2>3, StayScope
<1>5. ASSUME NEW s \in Sessions, RestoreEnvironment(s) PROVE ScopeInv'
  <2>0. overlapped' = overlapped
    BY <1>5 DEF RestoreEnvironment, historyVars
  <2> SUFFICES ASSUME ~overlapped PROVE ScopeInv'
    BY <2>0 DEF ScopeInv
  <2>1. /\ phase[s] = "leaving" /\ phase' = [phase EXCEPT ![s] = "restored"]
        /\ env' = Restored(previous[s]) /\ UNCHANGED <<request, gates>>
    BY <1>5 DEF RestoreEnvironment
  <2>2. \A t \in Sessions : t # s => phase[t] = "idle"
    BY <2>1 DEF ScopeInv, Busy
  <2>3. env' = Base
    <3> DEFINE p == request[s].profile
    <3>1. /\ p \in Profiles /\ env = ProfileEnvironment(p)
          /\ previous[s] = [k \in DOMAIN Environment[p] |-> Base[k]]
      BY <2>1 DEF ScopeInv
    <3> HIDE DEF p
    <3>2. Restored([k \in DOMAIN Environment[p] |-> Base[k]]) = Base
      BY <3>1, RestoreScope
    <3> QED BY <2>1, <3>1, <3>2
  <2>4. \A t \in Sessions : phase'[t] = IF t = s THEN "restored" ELSE "idle"
    BY <2>1, <2>2 DEF TypesInv
  <2>5. Busy' = {s}
    BY <2>4 DEF Busy
  <2> QED BY <2>3, <2>4, <2>5 DEF ScopeInv
<1>6. ASSUME NEW s \in Sessions, ResetRuntime(s) PROVE ScopeInv'
  <2>0. overlapped' = overlapped
    BY <1>6 DEF ResetRuntime, Left, historyVars
  <2> SUFFICES ASSUME ~overlapped PROVE ScopeInv'
    BY <2>0 DEF ScopeInv
  <2>1. /\ phase[s] = "restored" /\ phase' = [phase EXCEPT ![s] = "idle"] /\ env' = env
    BY <1>6 DEF ResetRuntime, Left
  <2>2. env' = Base /\ \A t \in Sessions : t # s => phase[t] = "idle"
    BY <2>1 DEF ScopeInv, Busy
  <2>3. \A t \in Sessions : phase'[t] = "idle"
    BY <2>1, <2>2 DEF TypesInv
  <2>4. Busy' = {}
    BY <2>3 DEF Busy
  <2> QED BY <2>2, <2>3, <2>4 DEF ScopeInv
<1>7. ASSUME UNCHANGED vars PROVE ScopeInv'
  <2>1. \A q : ProfileEnvironment(q)' = ProfileEnvironment(q)
    BY DEF ProfileEnvironment
  <2>2. UNCHANGED <<phase, request, previous, gates, env, overlapped>>
    BY <1>7 DEF vars, sessionVars, processVars, historyVars
  <2>3. Busy' = Busy /\ overlapped' = overlapped
    BY <2>2 DEF Busy
  <2> SUFFICES ASSUME ~overlapped' PROVE ScopeInv'
    BY DEF ScopeInv
  <2>6. ~overlapped
    BY <2>3
  <2>4. (\A s, t \in Busy' : s = t) /\ (Busy' = {} => env' = Base)
    BY <2>2, <2>3, <2>6 DEF ScopeInv
  <2>5. \A s \in Sessions :
           /\ phase'[s] = "restored" => env' = Base
           /\ phase'[s] \notin {"idle", "restored"} =>
                /\ env' = ProfileEnvironment(request'[s].profile)
                /\ previous'[s] = [k \in DOMAIN Environment[request'[s].profile] |-> Base[k]]
                /\ request'[s].profile \in Profiles
           /\ phase'[s] \in {"built", "running"} =>
                gates'[s] = ProfileEnvironment(request'[s].profile)
    BY <2>2, <2>6 DEF ScopeInv
  <2> QED BY <2>1, <2>4, <2>5 DEF ScopeInv
<1> QED BY <1>0, <1>1, <1>2, <1>3, <1>4, <1>5, <1>6, <1>7 DEF Next, Step

(* Without overlap a solver is built in its profile's environment, and     *)
(* none of it is left behind.                                              *)
(* (apply_profile_environment, restore_profile_environment)                *)
THEOREM ScopedEnvironment == Spec => []EnvironmentIsScoped
<1>1. Init => ScopeInv /\ EnvTypes
  BY DEF Init, ScopeInv, EnvTypes, Busy
<1>2. ScopeInv => EnvironmentIsScoped
  BY DEF ScopeInv, EnvironmentIsScoped, Running
<1> QED BY <1>1, <1>2, ScopeNext, TypesAlways, PTL DEF Spec

-----------------------------------------------------------------------------
(* Performing calls is following the origins through them.                 *)

Induction == INSTANCE StepProofs

Traces(g, calls, start) ==
    /\ g = [i \in 0..Len(calls) |-> g[i]] /\ g[0] = start
    /\ \A i \in 1..Len(calls) : g[i] = After(g[i - 1], calls[i])

\* Perform ends where the origins are after the last call.
LEMMA PerformTraces ==
    ASSUME NEW calls, Len(calls) \in Nat, NEW o
    PROVE  \E g : Traces(g, calls, o) /\ Perform(calls, o) = g[Len(calls)]
<1> DEFINE n == Len(calls)
           Is(f) == f = [i \in 0..Len(calls) |->
                           IF i = 0 THEN o ELSE After(f[i - 1], calls[i])]
           Upto(f, m) == /\ f = [i \in 0..m |-> f[i]] /\ f[0] = o
                         /\ \A i \in 1..m : f[i] = After(f[i - 1], calls[i])
           P == {m \in 0..n : \E f : Upto(f, m)}
           after == CHOOSE f : Is(f)
<1>1. 0 \in P
  <2> DEFINE f == [i \in 0..0 |-> o]
  <2>1. Upto(f, 0)
    OBVIOUS
  <2> HIDE DEF f
  <2> QED BY <2>1
<1>2. \A m \in 0..n : m < n /\ m \in P => m + 1 \in P
  <2> TAKE m \in 0..n
  <2> HAVE m < n /\ m \in P
  <2>1. PICK f : Upto(f, m)
    OBVIOUS
  <2> DEFINE last == After(f[m], calls[m + 1])
             h == [i \in 0..m + 1 |-> IF i = m + 1 THEN last ELSE f[i]]
  <2>2. \A i \in 1..m : f[i] = After(f[i - 1], calls[i])
    BY <2>1
  <2>3. f[0] = o
    BY <2>1
  <2> HIDE DEF last
  <2>4. h = [i \in 0..m + 1 |-> h[i]] /\ h[0] = o
    BY <2>3
  <2>5. ASSUME NEW i \in 1..m + 1 PROVE h[i] = After(h[i - 1], calls[i])
    <3>1. CASE i = m + 1
      <4>1. h[i] = last /\ h[i - 1] = f[m]
        BY <3>1
      <4> QED BY <3>1, <4>1 DEF last
    <3>2. CASE i # m + 1
      <4>1. h[i] = f[i] /\ h[i - 1] = f[i - 1] /\ i \in 1..m
        BY <3>2
      <4> QED BY <2>2, <4>1
    <3> QED BY <3>1, <3>2
  <2>6. Upto(h, m + 1)
    BY <2>4, <2>5
  <2> HIDE DEF h, Upto
  <2>7. m + 1 \in 0..n
    OBVIOUS
  <2> QED BY <2>6, <2>7
<1>3. \A m \in 0..n : m \in P
  <2> HIDE DEF P
  <2> QED BY <1>1, <1>2, Induction!StepInduction
<1>4. PICK f : Upto(f, n)
  <2>1. n \in 0..n
    OBVIOUS
  <2> QED BY <1>3, <2>1
<1>5. Is(f)
  <2>1. \A i \in 0..n : f[i] = IF i = 0 THEN o ELSE After(f[i - 1], calls[i])
    BY <1>4
  <2>2. f = [i \in 0..n |-> f[i]]
    BY <1>4
  <2> QED BY <2>1, <2>2
<1>6. Is(after)
  <2> HIDE DEF Is
  <2> QED BY <1>5
<1>7. Perform(calls, o) = after[n]
  BY DEF Perform
<1> HIDE DEF after
<1>8. \A i \in 0..n : after[i] = IF i = 0 THEN o ELSE After(after[i - 1], calls[i])
  BY <1>6
<1>9. after = [i \in 0..n |-> after[i]]
  <2> DEFINE body(i) == IF i = 0 THEN o ELSE After(after[i - 1], calls[i])
  <2>1. after = [i \in 0..n |-> body(i)]
    BY <1>6
  <2> HIDE DEF body
  <2> QED BY <2>1
<1>10. Traces(after, calls, o)
  BY <1>8, <1>9 DEF Traces
<1> QED BY <1>7, <1>10

\* The trace of a sequence of calls, without the function.
LEMMA PerformSteps ==
    ASSUME NEW calls, Induction!Sequence(calls), NEW o
    PROVE  \E g : /\ g[0] = o /\ Perform(calls, o) = g[Len(calls)]
                  /\ \A i \in 1..Len(calls) : g[i] = After(g[i - 1], calls[i])
<1>1. Len(calls) \in Nat
  BY DEF Induction!Sequence
<1> QED BY <1>1, PerformTraces DEF Traces

\* No calls change nothing.
LEMMA PerformNothing == \A o : Perform(<< >>, o) = o
<1> TAKE o
<1>1. Len(<< >>) = 0 /\ Len(<< >>) \in Nat
  OBVIOUS
<1> QED BY <1>1, PerformTraces DEF Traces

\* One call.
LEMMA PerformOne == \A call, o : Perform(<< call >>, o) = After(o, call)
<1> TAKE call, o
<1>1. Len(<< call >>) = 1 /\ << call >>[1] = call
  OBVIOUS
<1>2. PICK g : /\ g[0] = o /\ Perform(<< call >>, o) = g[1]
               /\ \A i \in 1..1 : g[i] = After(g[i - 1], << call >>[i])
  <2>1. Len(<< call >>) \in Nat
    BY <1>1
  <2> QED BY <1>1, <2>1, PerformTraces DEF Traces
<1>3. g[1] = After(g[0], call)
  BY <1>1, <1>2
<1> QED BY <1>2, <1>3

\* Two parts in a row are performed one after the other.
LEMMA PerformConcat ==
    ASSUME NEW first, NEW second,
           Induction!Sequence(first), Induction!Sequence(second), NEW o
    PROVE  Perform(first \o second, o) = Perform(second, Perform(first, o))
<1> DEFINE n == Len(first)
           k == Len(second)
           both == first \o second
           middle == Perform(first, o)
<1>1. /\ n \in Nat /\ k \in Nat /\ Len(both) = n + k /\ Induction!Sequence(both)
      /\ \A i \in 1..n : both[i] = first[i]
      /\ \A i \in 1..k : both[n + i] = second[i]
  BY Induction!ConcatSequence
<1>2. PICK f : /\ f[0] = o /\ middle = f[n]
               /\ \A i \in 1..n : f[i] = After(f[i - 1], first[i])
  BY PerformSteps
<1>3. PICK s : /\ s[0] = middle /\ Perform(second, middle) = s[k]
               /\ \A i \in 1..k : s[i] = After(s[i - 1], second[i])
  BY PerformSteps
<1> HIDE DEF both, middle
<1>4. PICK b : /\ b[0] = o /\ Perform(both, o) = b[n + k]
               /\ \A i \in 1..n + k : b[i] = After(b[i - 1], both[i])
  BY <1>1, PerformSteps
<1>6. \A i \in 0..n : b[i] = f[i]
  <2> DEFINE P == {i \in 0..n : b[i] = f[i]}
  <2>1. 0 \in P
    BY <1>1, <1>2, <1>4
  <2>2. \A i \in 0..n : i < n /\ i \in P => i + 1 \in P
    <3> TAKE i \in 0..n
    <3> HAVE i < n /\ i \in P
    <3>1. i + 1 \in 1..n /\ i + 1 \in 1..n + k /\ i + 1 - 1 = i
      BY <1>1
    <3>2. b[i + 1] = After(b[i], first[i + 1]) /\ f[i + 1] = After(f[i], first[i + 1])
      BY <1>1, <1>2, <1>4, <3>1
    <3> QED BY <3>1, <3>2
  <2> HIDE DEF P
  <2>3. \A i \in 0..n : i \in P
    BY <1>1, <2>1, <2>2, Induction!StepInduction
  <2> QED BY <2>3 DEF P
<1>7. \A i \in 0..k : b[n + i] = s[i]
  <2> DEFINE P == {i \in 0..k : b[n + i] = s[i]}
  <2>1. 0 \in P
    BY <1>1, <1>2, <1>3, <1>6
  <2>2. \A i \in 0..k : i < k /\ i \in P => i + 1 \in P
    <3> TAKE i \in 0..k
    <3> HAVE i < k /\ i \in P
    <3>1. /\ i + 1 \in 1..k /\ n + i + 1 \in 1..n + k /\ n + i + 1 - 1 = n + i
          /\ n + (i + 1) = n + i + 1
      BY <1>1
    <3>2. both[n + i + 1] = second[i + 1]
      BY <1>1, <3>1
    <3>3. /\ b[n + i + 1] = After(b[n + i], second[i + 1])
          /\ s[i + 1] = After(s[i], second[i + 1])
      BY <1>3, <1>4, <3>1, <3>2
    <3> QED BY <3>1, <3>3
  <2> HIDE DEF P
  <2>3. \A i \in 0..k : i \in P
    BY <1>1, <2>1, <2>2, Induction!StepInduction
  <2> QED BY <2>3 DEF P
<1> QED BY <1>1, <1>3, <1>4, <1>7 DEF both, middle

Keeps(calls, names) ==
    /\ Induction!Sequence(calls)
    /\ \A i \in 1..Len(calls) : calls[i].writes \cap names = {}

\* What no call writes keeps its origin.
LEMMA KeptOrigins ==
    ASSUME NEW calls, NEW names, Keeps(calls, names), NEW o
    PROVE  /\ DOMAIN Perform(calls, o) = DOMAIN o
           /\ \A f \in DOMAIN o \cap names : Perform(calls, o)[f] = o[f]
<1> DEFINE n == Len(calls)
<1>1. n \in Nat /\ \A i \in 1..n : calls[i].writes \cap names = {}
  BY DEF Keeps, Induction!Sequence
<1>2. PICK g : /\ g[0] = o /\ Perform(calls, o) = g[n]
               /\ \A i \in 1..n : g[i] = After(g[i - 1], calls[i])
  BY PerformSteps DEF Keeps
<1> DEFINE Q == {i \in 0..n : DOMAIN g[i] = DOMAIN o /\ \A f \in DOMAIN o \cap names : g[i][f] = o[f]}
<1>3. 0 \in Q
  BY <1>1, <1>2
<1>4. \A i \in 0..n : i < n /\ i \in Q => i + 1 \in Q
  <2> TAKE i \in 0..n
  <2> HAVE i < n /\ i \in Q
  <2>1. i + 1 \in 1..n /\ i + 1 - 1 = i
    BY <1>1
  <2>2. g[i + 1] = After(g[i], calls[i + 1]) /\ calls[i + 1].writes \cap names = {}
    BY <1>1, <1>2, <2>1
  <2>3. DOMAIN g[i] = DOMAIN o /\ \A f \in DOMAIN o \cap names : g[i][f] = o[f]
    OBVIOUS
  <2> HIDE DEF Q
  <2>4. /\ DOMAIN g[i + 1] = DOMAIN o
        /\ \A f \in DOMAIN o \cap names : g[i + 1][f] = o[f]
    BY <2>2, <2>3 DEF After
  <2> QED BY <2>1, <2>4 DEF Q
<1>5. n \in Q
  <2> HIDE DEF Q
  <2>1. \A i \in 0..n : i \in Q
    BY <1>1, <1>3, <1>4, Induction!StepInduction
  <2> QED BY <1>1, <2>1
<1> QED BY <1>2, <1>5

-----------------------------------------------------------------------------
(* The setup of a solver, evaluated for every case.                        *)

\* What one call does to the origins.
LEMMA PerformEffect ==
    ASSUME NEW call, NEW files, NEW reads, NEW writes,
           call = Effect(files, reads, writes), NEW o, NEW p, p = Perform(<< call >>, o)
    PROVE  /\ DOMAIN p = DOMAIN o
           /\ \A f \in DOMAIN o : f \in writes => p[f] = files \cup UNION {o[g] : g \in reads}
           /\ \A f \in DOMAIN o : f \notin writes => p[f] = o[f]
<1>1. call.files = files /\ call.reads = reads /\ call.writes = writes
  BY DEF Effect
<1>2. p = After(o, call)
  BY PerformOne
<1> QED BY <1>1, <1>2 DEF After

\* Two calls in a row.
LEMMA PerformTwo ==
    \A a, b, o : Perform(<< a, b >>, o) = Perform(<< b >>, Perform(<< a >>, o))
<1> TAKE a, b, o
<1> DEFINE calls == << a, b >>
<1>1. Len(calls) = 2 /\ calls[1] = a /\ calls[2] = b
  OBVIOUS
<1> HIDE DEF calls
<1>2. PICK g : /\ g[0] = o /\ Perform(calls, o) = g[2]
               /\ \A i \in 1..2 : g[i] = After(g[i - 1], calls[i])
  <2>1. Len(calls) \in Nat
    BY <1>1
  <2>2. PICK g : Traces(g, calls, o) /\ Perform(calls, o) = g[Len(calls)]
    BY <2>1, PerformTraces
  <2>3. /\ g[0] = o /\ Perform(calls, o) = g[2]
        /\ \A i \in 1..2 : g[i] = After(g[i - 1], calls[i])
    BY <1>1, <2>2 DEF Traces
  <2> QED BY <2>3
<1>3. g[1] = After(g[0], a) /\ g[2] = After(g[1], b)
  BY <1>1, <1>2, 1 \in 1..2, 2 \in 1..2
<1> QED BY <1>2, <1>3, PerformOne DEF calls

Zones(k) == IF Reads(k, "zonfil") THEN "zonfil" ELSE "config"

\* Fields that nothing replaces but the DEM.
Terrain == {"z_bed", "is_nodata", "slope_x", "cell_id"}
Mannings == {"n_manning_field", "manning", "manning_ori"}
Soil == {"depth_field", "erodible_thickness"}
TopSlopes == {"slope_mag", "slope_angle"}
Scalars == {"depthwt0_field", "rizero0_field"}
Core == Terrain \cup Mannings \cup Soil \cup TopSlopes \cup Scalars \cup LayerParameters
          \cup LayerFields \cup {"initial_rikzero_field"}
Observed == {"is_boundary", "dfs_outflow_mask", "hydrograph_monitors", "inflow_hydrographs",
             "precomputed_failure_schedule"}

\* These are fields of a solver.
LEMMA NamedFields == Core \subseteq Fields /\ Observed \subseteq Fields
BY DEF Core, Observed, Fields, Terrain, Mannings, Soil, TopSlopes, Scalars, LayerParameters,
       LayerFields, Slopes, Topology, Parameters, Boundary, WaveFields, FlowFields,
       SoilParameters, ErosionFields

\* Where the values of the surface and of the parameters come from.
Surface(k, o, slope, manning, depth, rate, thickness) ==
    /\ DOMAIN o = Fields
    /\ \A f \in Terrain : o[f] = {"demfil"}
    /\ \A f \in TopSlopes : o[f] = slope
    /\ \A f \in Mannings : o[f] = manning
    /\ \A f \in Soil : o[f] = {Zones(k)}
    /\ o["depthwt0_field"] = depth /\ o["rizero0_field"] = rate
    /\ k.double_layer => /\ o["ltstar_field"] = thickness
                         /\ \A f \in LayerParameters \ {"ltstar_field"} : o[f] = {Zones(k)}

\* Where those of the double layer come from.
Layered(k, o, steady, thickness) ==
    k.double_layer => /\ o["initial_rikzero_field"] = steady
                      /\ \A f \in LayerFields : o[f] = steady \cup thickness

\* A restart computes the double layer from what there is.
LEMMA RestartLayer ==
    ASSUME NEW k, k.double_layer \in BOOLEAN, NEW file, NEW o,
           NEW slope, NEW manning, NEW depth, NEW rate, NEW thickness,
           Surface(k, o, slope, manning, depth, rate, thickness)
    PROVE  LET p == Perform(restart_double_layer(k, file), o)
           IN  /\ Surface(k, p, slope, manning, depth, rate, thickness)
               /\ Layered(k, p, {file, Zones(k), "demfil"} \cup slope, thickness)
<1>1. CASE ~k.double_layer
  <2>1. restart_double_layer(k, file) = << >>
    BY <1>1 DEF restart_double_layer
  <2> QED BY <1>1, <2>1, PerformNothing DEF Layered
<1>2. CASE k.double_layer
  <2> DEFINE a == build_initial_rikzero_field(file)
             b == initialize_double_layer
             m == Perform(<< a >>, o)
             p == Perform(<< b >>, m)
             steady == {file, Zones(k), "demfil"} \cup slope
  <2>1. Perform(restart_double_layer(k, file), o) = p
    <3>1. restart_double_layer(k, file) = << a, b >>
      BY <1>2 DEF restart_double_layer
    <3> HIDE DEF a, b
    <3> QED BY <3>1, PerformTwo
  <2>2. Core \subseteq Fields /\ Observed \subseteq Fields /\ DOMAIN o = Fields
    BY NamedFields DEF Surface
  <2>3. /\ DOMAIN m = Fields
        /\ \A f \in Fields : f # "initial_rikzero_field" => m[f] = o[f]
        /\ m["initial_rikzero_field"]
             = {file} \cup UNION {o[g] : g \in {"K_sat_top_field", "slope_angle", "is_nodata"}}
    <3>1. "initial_rikzero_field" \in Fields
      BY <2>2 DEF Core
    <3>2. a = Effect({file}, {"K_sat_top_field", "slope_angle", "is_nodata"},
                     {"initial_rikzero_field"})
      BY DEF build_initial_rikzero_field
    <3> HIDE DEF a
    <3> QED BY <2>2, <3>1, <3>2, PerformEffect
  <2>4. o["K_sat_top_field"] = {Zones(k)} /\ o["slope_angle"] = slope /\ o["is_nodata"] = {"demfil"}
    BY <1>2 DEF Surface, Terrain, TopSlopes, LayerParameters
  <2>5. m["initial_rikzero_field"] = steady
    BY <2>3, <2>4
  <2> DEFINE read == {"is_nodata", "slope_angle", "initial_rikzero_field"} \cup LayerParameters
  <2>6. /\ DOMAIN p = Fields
        /\ \A f \in Fields : f \notin LayerFields => p[f] = m[f]
        /\ \A f \in LayerFields : p[f] = UNION {m[g] : g \in read}
    <3>1. LayerFields \subseteq Fields
      BY <2>2 DEF Core
    <3>2. b = Effect({}, read, LayerFields)
      BY DEF initialize_double_layer
    <3> HIDE DEF m, b, read
    <3> QED BY <2>3, <3>1, <3>2, PerformEffect
  <2> HIDE DEF m, p
  <2>7. UNION {m[g] : g \in read} = steady \cup thickness
    <3>1. m["is_nodata"] = {"demfil"} /\ m["slope_angle"] = slope
      BY <2>2, <2>3, <2>4 DEF Core, Terrain, TopSlopes
    <3>2. m["ltstar_field"] = thickness
      BY <1>2, <2>2, <2>3 DEF Surface, Core, LayerParameters
    <3>3. \A g \in LayerParameters \ {"ltstar_field"} : m[g] = {Zones(k)}
      BY <1>2, <2>2, <2>3 DEF Surface, Core, LayerParameters
    <3>4. "ltstar_field" \in read
      BY DEF LayerParameters
    <3>5. \A g \in read : m[g] \subseteq steady \cup thickness
      BY <2>5, <3>1, <3>2, <3>3
    <3>6. steady \subseteq UNION {m[g] : g \in read}
      BY <2>5
    <3>7. thickness \subseteq UNION {m[g] : g \in read}
      BY <3>2, <3>4
    <3> HIDE DEF steady, read
    <3> QED BY <3>5, <3>6, <3>7
  <2>8. \A f \in Core \ (LayerFields \cup {"initial_rikzero_field"}) : p[f] = o[f]
    BY <2>2, <2>3, <2>6
  <2>9. Surface(k, p, slope, manning, depth, rate, thickness)
    <3>1. (Terrain \cup TopSlopes \cup Mannings \cup Soil \cup Scalars \cup LayerParameters)
            \subseteq Core \ (LayerFields \cup {"initial_rikzero_field"})
      BY DEF Core, Terrain, TopSlopes, Mannings, Soil, Scalars, LayerParameters, LayerFields
    <3>2. \A f \in Terrain \cup TopSlopes \cup Mannings \cup Soil \cup Scalars \cup LayerParameters :
             p[f] = o[f]
      BY <2>8, <3>1
    <3>3. "depthwt0_field" \in Scalars /\ "rizero0_field" \in Scalars /\ "ltstar_field" \in LayerParameters
      BY DEF Scalars, LayerParameters
    <3> QED BY <2>6, <3>2, <3>3 DEF Surface
  <2>10. Layered(k, p, steady, thickness)
    <3>1. p["initial_rikzero_field"] = steady
      <4>1. "initial_rikzero_field" \in Fields /\ "initial_rikzero_field" \notin LayerFields
        BY <2>2 DEF Core, LayerFields
      <4> QED BY <2>5, <2>6, <4>1
    <3> QED BY <2>6, <2>7, <3>1 DEF Layered
  <2> QED BY <2>1, <2>9, <2>10
<1> QED BY <1>1, <1>2

\* The parts of Core have nothing in common.
LEMMA CoreParts ==
    /\ Core \subseteq Fields /\ "initial_rikzero_field" \in Core \ LayerFields
    /\ Scalars = {"depthwt0_field", "rizero0_field"} /\ Scalars \subseteq Core
    /\ Terrain \subseteq Core \ (Mannings \cup Soil \cup TopSlopes \cup Scalars \cup LayerParameters)
    /\ Mannings \subseteq Core \ (Soil \cup TopSlopes \cup Scalars \cup LayerParameters)
    /\ Soil \subseteq Core \ (Mannings \cup TopSlopes \cup Scalars \cup LayerParameters)
    /\ TopSlopes \subseteq Core \ (Mannings \cup Soil \cup Scalars \cup LayerParameters)
    /\ LayerParameters \subseteq Core \ (Mannings \cup TopSlopes \cup Scalars)
    /\ LayerFields \subseteq Core \ (Mannings \cup TopSlopes \cup Scalars \cup LayerParameters)
    /\ "initial_rikzero_field" \notin Mannings \cup TopSlopes \cup Scalars \cup LayerParameters
    /\ "ltstar_field" \in LayerParameters
<1>1. Core \subseteq Fields
  BY NamedFields
<1>2. Scalars = {"depthwt0_field", "rizero0_field"} /\ "ltstar_field" \in LayerParameters
  BY DEF Scalars, LayerParameters
<1>3. /\ Terrain \cap (Mannings \cup Soil \cup TopSlopes \cup Scalars \cup LayerParameters) = {}
      /\ Mannings \cap (Soil \cup TopSlopes \cup Scalars \cup LayerParameters) = {}
  BY DEF Terrain, Mannings, Soil, TopSlopes, Scalars, LayerParameters
<1>4. /\ Soil \cap (TopSlopes \cup Scalars \cup LayerParameters) = {}
      /\ TopSlopes \cap (Scalars \cup LayerParameters) = {} /\ Scalars \cap LayerParameters = {}
  BY DEF Soil, TopSlopes, Scalars, LayerParameters
<1>5. LayerFields \cap (Mannings \cup TopSlopes \cup Scalars \cup LayerParameters) = {}
  BY DEF LayerFields, Mannings, TopSlopes, Scalars, LayerParameters
<1>6. "initial_rikzero_field" \notin LayerFields \cup Mannings \cup TopSlopes \cup Scalars \cup LayerParameters
  BY DEF LayerFields, Mannings, TopSlopes, Scalars, LayerParameters
<1>7. /\ Terrain \subseteq Core /\ Mannings \subseteq Core /\ Soil \subseteq Core
      /\ TopSlopes \subseteq Core /\ Scalars \subseteq Core /\ LayerParameters \subseteq Core
      /\ LayerFields \subseteq Core /\ "initial_rikzero_field" \in Core
  BY DEF Core
<1> QED BY <1>1, <1>2, <1>3, <1>4, <1>5, <1>6, <1>7

\* A file that replaces some fields.
LEMMA FileReplaces ==
    ASSUME NEW call, call.reads = {}, NEW o, DOMAIN o = Fields,
           NEW p, p = Perform(<< call >>, o)
    PROVE  /\ DOMAIN p = Fields
           /\ \A f \in Core : p[f] = IF f \in call.writes THEN call.files ELSE o[f]
<1>1. p = After(o, call)
  BY PerformOne
<1>2. UNION {o[g] : g \in call.reads} = {}
  OBVIOUS
<1> QED BY <1>1, <1>2, NamedFields DEF After

\* Slopes from a file.
LEMMA SlopesApplied ==
    ASSUME NEW k, NEW o, NEW slope, NEW manning, NEW depth, NEW rate, NEW thickness, NEW steady,
           Surface(k, o, slope, manning, depth, rate, thickness), Layered(k, o, steady, thickness),
           Reads(k, "slofil"), NEW p, p = Perform(apply_slofil(k), o)
    PROVE  /\ Surface(k, p, {"slofil"}, manning, depth, rate, thickness)
           /\ Layered(k, p, steady, thickness)
<1> DEFINE call == Effect({"slofil"}, {}, TopSlopes)
<1> HIDE DEF call
<1>1. p = Perform(<< call >>, o)
  BY DEF call, apply_slofil, TopSlopes
<1>2. DOMAIN o = Fields
  BY DEF Surface
<1>3. DOMAIN p = Fields /\ \A f \in Core : p[f] = IF f \in TopSlopes THEN {"slofil"} ELSE o[f]
  <2>1. call.reads = {} /\ call.files = {"slofil"} /\ call.writes = TopSlopes
    BY DEF call, Effect
  <2>2. /\ DOMAIN p = Fields
        /\ \A f \in Core : p[f] = IF f \in call.writes THEN call.files ELSE o[f]
    <3>1. call.reads = {}
      BY <2>1
    <3> QED BY <1>1, <1>2, <3>1, FileReplaces
  <2> QED BY <2>1, <2>2
<1> QED BY <1>3, CoreParts DEF Surface, Layered

\* Manning coefficients from a file.
LEMMA ManningApplied ==
    ASSUME NEW k, NEW o, NEW slope, NEW manning, NEW depth, NEW rate, NEW thickness, NEW steady,
           Surface(k, o, slope, manning, depth, rate, thickness), Layered(k, o, steady, thickness),
           Reads(k, "manningfil"), NEW p, p = Perform(apply_manningfil(k), o)
    PROVE  /\ Surface(k, p, slope, {"manningfil"}, depth, rate, thickness)
           /\ Layered(k, p, steady, thickness)
<1> DEFINE call == Effect({"manningfil"}, {}, Mannings)
<1> HIDE DEF call
<1>1. p = Perform(<< call >>, o)
  BY DEF call, apply_manningfil, Mannings
<1>2. DOMAIN o = Fields
  BY DEF Surface
<1>3. DOMAIN p = Fields /\ \A f \in Core : p[f] = IF f \in Mannings THEN {"manningfil"} ELSE o[f]
  <2>1. call.reads = {} /\ call.files = {"manningfil"} /\ call.writes = Mannings
    BY DEF call, Effect
  <2>2. /\ DOMAIN p = Fields
        /\ \A f \in Core : p[f] = IF f \in call.writes THEN call.files ELSE o[f]
    <3>1. call.reads = {}
      BY <2>1
    <3> QED BY <1>1, <1>2, <3>1, FileReplaces
  <2> QED BY <2>1, <2>2
<1> QED BY <1>3, CoreParts DEF Surface, Layered

\* A value for the depth of the water table.
LEMMA DepthApplied ==
    ASSUME NEW k, NEW o, NEW slope, NEW manning, NEW depth, NEW rate, NEW thickness, NEW steady,
           Surface(k, o, slope, manning, depth, rate, thickness), Layered(k, o, steady, thickness),
           NEW file, NEW call, call = Load(file, "depthwt0_field"),
           NEW p, p = Perform(<< call >>, o)
    PROVE  /\ Surface(k, p, slope, manning, {file}, rate, thickness)
           /\ Layered(k, p, steady, thickness)
<1>2. DOMAIN o = Fields
  BY DEF Surface
<1>3. DOMAIN p = Fields /\ \A f \in Core : p[f] = IF f \in {"depthwt0_field"} THEN {file} ELSE o[f]
  <2>1. call.reads = {} /\ call.files = {file} /\ call.writes = {"depthwt0_field"}
    BY DEF Load, Effect
  <2>2. /\ DOMAIN p = Fields
        /\ \A f \in Core : p[f] = IF f \in call.writes THEN call.files ELSE o[f]
    <3>1. call.reads = {}
      BY <2>1
    <3> QED BY <1>2, <3>1, FileReplaces
  <2> QED BY <2>1, <2>2
<1> QED BY <1>3, CoreParts DEF Surface, Layered

\* A value for the steady rate; it needs a restart.
LEMMA RateApplied ==
    ASSUME NEW k, NEW o, NEW slope, NEW manning, NEW depth, NEW rate, NEW thickness,
           Surface(k, o, slope, manning, depth, rate, thickness),
           NEW file, NEW call, call = Load(file, "rizero0_field"),
           NEW p, p = Perform(<< call >>, o)
    PROVE  Surface(k, p, slope, manning, depth, {file}, thickness)
<1>2. DOMAIN o = Fields
  BY DEF Surface
<1>3. DOMAIN p = Fields /\ \A f \in Core : p[f] = IF f \in {"rizero0_field"} THEN {file} ELSE o[f]
  <2>1. call.reads = {} /\ call.files = {file} /\ call.writes = {"rizero0_field"}
    BY DEF Load, Effect
  <2>2. /\ DOMAIN p = Fields
        /\ \A f \in Core : p[f] = IF f \in call.writes THEN call.files ELSE o[f]
    <3>1. call.reads = {}
      BY <2>1
    <3> QED BY <1>2, <3>1, FileReplaces
  <2> QED BY <2>1, <2>2
<1> QED BY <1>3, CoreParts DEF Surface

\* A thickness of the layer; it needs one too.
LEMMA ThicknessApplied ==
    ASSUME NEW k, NEW o, NEW slope, NEW manning, NEW depth, NEW rate, NEW thickness,
           Surface(k, o, slope, manning, depth, rate, thickness),
           NEW call, call = Load("zfil", "ltstar_field"),
           NEW p, p = Perform(<< call >>, o)
    PROVE  Surface(k, p, slope, manning, depth, rate, {"zfil"})
<1>2. DOMAIN o = Fields
  BY DEF Surface
<1>3. DOMAIN p = Fields /\ \A f \in Core : p[f] = IF f \in {"ltstar_field"} THEN {"zfil"} ELSE o[f]
  <2>1. call.reads = {} /\ call.files = {"zfil"} /\ call.writes = {"ltstar_field"}
    BY DEF Load, Effect
  <2>2. /\ DOMAIN p = Fields
        /\ \A f \in Core : p[f] = IF f \in call.writes THEN call.files ELSE o[f]
    <3>1. call.reads = {}
      BY <2>1
    <3> QED BY <1>2, <3>1, FileReplaces
  <2> QED BY <2>1, <2>2
<1> QED BY <1>3, CoreParts DEF Surface

\* Two parts in a row are a part.
LEMMA PartsInARow ==
    ASSUME NEW first, NEW second, Induction!Sequence(first), Induction!Sequence(second)
    PROVE  /\ Induction!Sequence(first \o second)
           /\ \A o : Perform(first \o second, o) = Perform(second, Perform(first, o))
BY PerformConcat, Induction!ConcatSequence

\* No calls are a part too.
LEMMA NoCalls == Induction!Sequence(<< >>)
<1>1. << >> \in Seq({})
  OBVIOUS
<1> QED BY <1>1 DEF Induction!Sequence

\* A restart is a part.
LEMMA RestartIsPart ==
    ASSUME NEW k, NEW file PROVE Induction!Sequence(restart_double_layer(k, file))
<1> DEFINE a == build_initial_rikzero_field(file)
           b == initialize_double_layer
<1>1. Induction!Sequence(<< a, b >>)
  <2> HIDE DEF a, b
  <2> QED BY Induction!ListedSequences
<1>2. restart_double_layer(k, file) = << a, b >> \/ restart_double_layer(k, file) = << >>
  BY DEF restart_double_layer
<1> QED BY <1>1, <1>2, NoCalls

\* The loading of one field.
LEMMA LoadIsPart == ASSUME NEW file, NEW field PROVE Induction!Sequence(<< Load(file, field) >>)
<1> DEFINE a == Load(file, field)
<1> HIDE DEF a
<1>1. Induction!Sequence(<< a >>)
  BY Induction!ListedSequences
<1> QED BY <1>1 DEF a

\* The cases of the water table, as the branches of apply_native_runtime_inputs.
LEMMA DepthBranches ==
    ASSUME NEW k
    PROVE  /\ Reads(k, "depfil") => apply_depfil(k) = << Load("depfil", "depthwt0_field") >>
           /\ ~Reads(k, "depfil") =>
                \/ apply_depfil(k) = << >>
                \/ apply_depfil(k) = << Load("config", "depthwt0_field") >>
<1>1. "missing" # "good"
  OBVIOUS
<1>2. CASE Reads(k, "depfil")
  <2>1. k.status["depfil"] # "missing"
    BY <1>1, <1>2 DEF Reads
  <2> QED BY <1>2, <2>1 DEF apply_depfil
<1>3. CASE ~Reads(k, "depfil")
  BY <1>3 DEF apply_depfil, scalar_depthwt
<1> QED BY <1>2, <1>3

\* The same for the rate, which restarts the layer.
LEMMA RateBranches ==
    ASSUME NEW k
    PROVE  /\ Reads(k, "rizerofil") =>
                apply_rizerofil(k) = << Load("rizerofil", "rizero0_field") >>
                                       \o restart_double_layer(k, "rizerofil")
           /\ k.status["rizerofil"] = "missing" =>
                apply_rizerofil(k) = << Load("config", "rizero0_field") >>
                                       \o restart_double_layer(k, "config")
           /\ ~Reads(k, "rizerofil") /\ k.status["rizerofil"] # "missing" =>
                apply_rizerofil(k) = << >>
<1>1. "missing" # "good"
  OBVIOUS
<1>2. CASE Reads(k, "rizerofil")
  <2>1. k.status["rizerofil"] # "missing"
    BY <1>1, <1>2 DEF Reads
  <2> QED BY <1>2, <2>1 DEF apply_rizerofil
<1>3. CASE ~Reads(k, "rizerofil") /\ k.status["rizerofil"] = "missing"
  BY <1>3 DEF apply_rizerofil, scalar_rizero
<1>4. CASE ~Reads(k, "rizerofil") /\ k.status["rizerofil"] # "missing"
  BY <1>4 DEF apply_rizerofil
<1> QED BY <1>2, <1>3, <1>4

\* Each raster is a part.
LEMMA RastersAreParts ==
    ASSUME NEW k
    PROVE  /\ Induction!Sequence(apply_slofil(k)) /\ Induction!Sequence(apply_manningfil(k))
           /\ Induction!Sequence(apply_zfil(k)) /\ Induction!Sequence(apply_depfil(k))
           /\ Induction!Sequence(apply_rizerofil(k))
<1>1. Induction!Sequence(apply_slofil(k))
  <2> DEFINE a == Effect({"slofil"}, {}, {"slope_mag", "slope_angle"})
  <2>1. apply_slofil(k) = << a >> \/ apply_slofil(k) = << >>
    BY DEF apply_slofil
  <2> HIDE DEF a
  <2> QED BY <2>1, NoCalls, Induction!ListedSequences
<1>2. Induction!Sequence(apply_manningfil(k))
  <2> DEFINE a == Effect({"manningfil"}, {}, {"n_manning_field", "manning", "manning_ori"})
  <2>1. apply_manningfil(k) = << a >> \/ apply_manningfil(k) = << >>
    BY DEF apply_manningfil
  <2> HIDE DEF a
  <2> QED BY <2>1, NoCalls, Induction!ListedSequences
<1>3. Induction!Sequence(apply_zfil(k))
  <2> DEFINE a == << Load("zfil", "ltstar_field") >>
             b == restart_double_layer(k, "config")
  <2>1. apply_zfil(k) = a \o b \/ apply_zfil(k) = << >>
    BY DEF apply_zfil
  <2>2. Induction!Sequence(a) /\ Induction!Sequence(b)
    BY LoadIsPart, RestartIsPart
  <2> HIDE DEF a, b
  <2> QED BY <2>1, <2>2, NoCalls, PartsInARow
<1>4. Induction!Sequence(apply_depfil(k))
  BY NoCalls, LoadIsPart, DepthBranches
<1>5. Induction!Sequence(apply_rizerofil(k))
  <2> DEFINE a(file) == << Load(file, "rizero0_field") >>
             b(file) == restart_double_layer(k, file)
  <2>1. \/ apply_rizerofil(k) = a("rizerofil") \o b("rizerofil")
        \/ apply_rizerofil(k) = a("config") \o b("config")
        \/ apply_rizerofil(k) = << >>
    BY RateBranches
  <2>2. \A file : Induction!Sequence(a(file)) /\ Induction!Sequence(b(file))
    BY LoadIsPart, RestartIsPart
  <2> HIDE DEF a, b
  <2> QED BY <2>1, <2>2, NoCalls, PartsInARow
<1> QED BY <1>1, <1>2, <1>3, <1>4, <1>5

-----------------------------------------------------------------------------
(* Where the values come from when the rasters are applied.                *)

SlopeOrigin(k) == IF Reads(k, "slofil") THEN {"slofil"} ELSE {"demfil"}
ManningOrigin(k) == IF Reads(k, "manningfil") THEN {"manningfil"} ELSE {Zones(k)}
ThicknessOrigin(k) == IF Reads(k, "zfil") THEN {"zfil"} ELSE {Zones(k)}
DepthOrigin(k) == IF Reads(k, "depfil") THEN {"depfil"} ELSE {"config"}
RateOrigin(k) == IF Reads(k, "rizerofil") THEN {"rizerofil"} ELSE {"config"}
RateRestarts(k) == k.status["rizerofil"] \in {"missing", "good"}
LayerSlope(k) == IF Reads(k, "zfil") \/ RateRestarts(k) THEN SlopeOrigin(k) ELSE {"demfil"}
SteadyOrigin(k) == RateOrigin(k) \cup {Zones(k), "demfil"} \cup LayerSlope(k)

\* The first two rasters replace what they name.
LEMMA FirstRasters ==
    ASSUME NEW k, NEW o, NEW steady,
           Surface(k, o, {"demfil"}, {Zones(k)}, {"config"}, {"config"}, {Zones(k)}),
           Layered(k, o, steady, {Zones(k)}),
           NEW p, p = Perform(apply_manningfil(k), Perform(apply_slofil(k), o))
    PROVE  /\ Surface(k, p, SlopeOrigin(k), ManningOrigin(k), {"config"}, {"config"}, {Zones(k)})
           /\ Layered(k, p, steady, {Zones(k)})
<1> DEFINE m == Perform(apply_slofil(k), o)
<1> HIDE DEF m
<1>1. /\ Surface(k, m, SlopeOrigin(k), {Zones(k)}, {"config"}, {"config"}, {Zones(k)})
      /\ Layered(k, m, steady, {Zones(k)})
  <2>1. CASE Reads(k, "slofil")
    <3>1. SlopeOrigin(k) = {"slofil"}
      BY <2>1 DEF SlopeOrigin
    <3>2. m = Perform(apply_slofil(k), o)
      BY DEF m
    <3> QED BY <2>1, <3>1, <3>2, SlopesApplied
  <2>2. CASE ~Reads(k, "slofil")
    <3>1. SlopeOrigin(k) = {"demfil"} /\ apply_slofil(k) = << >>
      BY <2>2 DEF SlopeOrigin, apply_slofil
    <3>2. m = o
      BY <3>1, PerformNothing DEF m
    <3> QED BY <3>1, <3>2
  <2> QED BY <2>1, <2>2
<1>2. p = Perform(apply_manningfil(k), m)
  BY DEF m
<1>3. CASE Reads(k, "manningfil")
  <2>1. ManningOrigin(k) = {"manningfil"}
    BY <1>3 DEF ManningOrigin
  <2> QED BY <1>1, <1>2, <1>3, <2>1, ManningApplied
<1>4. CASE ~Reads(k, "manningfil")
  <2>1. ManningOrigin(k) = {Zones(k)} /\ apply_manningfil(k) = << >>
    BY <1>4 DEF ManningOrigin, apply_manningfil
  <2>2. p = m
    BY <1>2, <2>1, PerformNothing
  <2> QED BY <1>1, <2>1, <2>2
<1> QED BY <1>3, <1>4

\* The thickness restarts the layer, which then has the present slopes.
LEMMA ThicknessRaster ==
    ASSUME NEW k, k.double_layer \in BOOLEAN, NEW o, NEW slope, NEW manning, NEW steady,
           Surface(k, o, slope, manning, {"config"}, {"config"}, {Zones(k)}),
           Layered(k, o, steady, {Zones(k)}), NEW p, p = Perform(apply_zfil(k), o),
           NEW after, after = IF Reads(k, "zfil") THEN {"config", Zones(k), "demfil"} \cup slope
                              ELSE steady
    PROVE  /\ Surface(k, p, slope, manning, {"config"}, {"config"}, ThicknessOrigin(k))
           /\ Layered(k, p, after, ThicknessOrigin(k))
<1>1. CASE Reads(k, "zfil") /\ k.double_layer
  <2> DEFINE call == Load("zfil", "ltstar_field")
             again == restart_double_layer(k, "config")
             m == Perform(<< call >>, o)
  <2>1. apply_zfil(k) = << call >> \o again /\ ThicknessOrigin(k) = {"zfil"}
    BY <1>1 DEF apply_zfil, ThicknessOrigin
  <2>2. Induction!Sequence(<< call >>) /\ Induction!Sequence(again)
    BY LoadIsPart, RestartIsPart
  <2>3. call = Load("zfil", "ltstar_field") /\ again = restart_double_layer(k, "config")
    OBVIOUS
  <2> HIDE DEF call, again
  <2>4. p = Perform(again, m)
    BY <2>1, <2>2, PartsInARow
  <2>5. m = Perform(<< call >>, o)
    OBVIOUS
  <2> HIDE DEF m
  <2>6. Surface(k, m, slope, manning, {"config"}, {"config"}, {"zfil"})
    BY <2>3, <2>5, ThicknessApplied
  <2>7. /\ Surface(k, p, slope, manning, {"config"}, {"config"}, {"zfil"})
        /\ Layered(k, p, {"config", Zones(k), "demfil"} \cup slope, {"zfil"})
    BY <2>3, <2>4, <2>6, RestartLayer
  <2> QED BY <1>1, <2>1, <2>7
<1>2. CASE ~(Reads(k, "zfil") /\ k.double_layer)
  <2>1. apply_zfil(k) = << >>
    BY <1>2 DEF apply_zfil
  <2>2. p = o
    BY <2>1, PerformNothing
  <2>3. CASE ~Reads(k, "zfil")
    BY <2>2, <2>3 DEF ThicknessOrigin
  <2>4. CASE ~k.double_layer
    BY <2>2, <2>4 DEF Surface, Layered
  <2> QED BY <1>2, <2>3, <2>4
<1> QED BY <1>1, <1>2

\* The water table is a scalar or a file.
LEMMA DepthRaster ==
    ASSUME NEW k, NEW o, NEW slope, NEW manning, NEW thickness, NEW steady,
           Surface(k, o, slope, manning, {"config"}, {"config"}, thickness),
           Layered(k, o, steady, thickness), NEW p, p = Perform(apply_depfil(k), o)
    PROVE  /\ Surface(k, p, slope, manning, DepthOrigin(k), {"config"}, thickness)
           /\ Layered(k, p, steady, thickness)
<1>1. ASSUME NEW file, apply_depfil(k) = << Load(file, "depthwt0_field") >>
      PROVE  /\ Surface(k, p, slope, manning, {file}, {"config"}, thickness)
             /\ Layered(k, p, steady, thickness)
  <2> DEFINE call == Load(file, "depthwt0_field")
  <2>1. call = Load(file, "depthwt0_field")
    OBVIOUS
  <2>2. p = Perform(<< call >>, o)
    BY <1>1
  <2> HIDE DEF call
  <2> QED BY <2>1, <2>2, DepthApplied
<1>2. CASE apply_depfil(k) = << >> /\ ~Reads(k, "depfil")
  <2>1. p = o /\ DepthOrigin(k) = {"config"}
    BY <1>2, PerformNothing DEF DepthOrigin
  <2> QED BY <2>1
<1>3. CASE Reads(k, "depfil")
  <2>1. DepthOrigin(k) = {"depfil"}
    BY <1>3 DEF DepthOrigin
  <2> QED BY <1>1, <1>3, <2>1, DepthBranches
<1>4. CASE apply_depfil(k) = << Load("config", "depthwt0_field") >> /\ ~Reads(k, "depfil")
  <2>1. DepthOrigin(k) = {"config"}
    BY <1>4 DEF DepthOrigin
  <2> QED BY <1>1, <1>4, <2>1
<1> QED BY <1>2, <1>3, <1>4, DepthBranches

\* So is the steady rate, and either restarts the layer.
LEMMA RateRaster ==
    ASSUME NEW k, k.double_layer \in BOOLEAN, NEW o, NEW slope, NEW manning, NEW depth,
           NEW thickness, NEW steady,
           Surface(k, o, slope, manning, depth, {"config"}, thickness),
           Layered(k, o, steady, thickness), NEW p, p = Perform(apply_rizerofil(k), o)
    PROVE  /\ Surface(k, p, slope, manning, depth, RateOrigin(k), thickness)
           /\ Layered(k, p, IF RateRestarts(k) THEN RateOrigin(k) \cup {Zones(k), "demfil"} \cup slope
                            ELSE steady, thickness)
<1>1. ASSUME NEW file,
             apply_rizerofil(k) = << Load(file, "rizero0_field") >> \o restart_double_layer(k, file)
      PROVE  /\ Surface(k, p, slope, manning, depth, {file}, thickness)
             /\ Layered(k, p, {file, Zones(k), "demfil"} \cup slope, thickness)
  <2> DEFINE call == Load(file, "rizero0_field")
             again == restart_double_layer(k, file)
             m == Perform(<< call >>, o)
  <2>1. apply_rizerofil(k) = << call >> \o again
    BY <1>1
  <2>2. Induction!Sequence(<< call >>) /\ Induction!Sequence(again)
    BY LoadIsPart, RestartIsPart
  <2>3. call = Load(file, "rizero0_field") /\ again = restart_double_layer(k, file)
    OBVIOUS
  <2> HIDE DEF call, again
  <2>4. p = Perform(again, m)
    BY <2>1, <2>2, PartsInARow
  <2>5. m = Perform(<< call >>, o)
    OBVIOUS
  <2> HIDE DEF m
  <2>6. Surface(k, m, slope, manning, depth, {file}, thickness)
    BY <2>3, <2>5, RateApplied
  <2> QED BY <2>3, <2>4, <2>6, RestartLayer
<1>2. CASE Reads(k, "rizerofil")
  <2>1. RateOrigin(k) = {"rizerofil"} /\ RateRestarts(k)
    BY <1>2 DEF RateOrigin, RateRestarts, Reads
  <2>2. {"rizerofil", Zones(k), "demfil"} = {"rizerofil"} \cup {Zones(k), "demfil"}
    OBVIOUS
  <2> QED BY <1>1, <1>2, <2>1, <2>2, RateBranches
<1>3. CASE k.status["rizerofil"] = "missing"
  <2>1. RateOrigin(k) = {"config"} /\ RateRestarts(k)
    BY <1>3 DEF RateOrigin, RateRestarts, Reads
  <2>2. {"config", Zones(k), "demfil"} = {"config"} \cup {Zones(k), "demfil"}
    OBVIOUS
  <2> QED BY <1>1, <1>3, <2>1, <2>2, RateBranches
<1>4. CASE ~Reads(k, "rizerofil") /\ k.status["rizerofil"] # "missing"
  <2>1. RateOrigin(k) = {"config"} /\ ~RateRestarts(k)
    BY <1>4 DEF RateOrigin, RateRestarts, Reads
  <2>2. p = o
    BY <1>4, PerformNothing, RateBranches
  <2> QED BY <2>1, <2>2
<1> QED BY <1>2, <1>3, <1>4

\* All rasters in their order.
LEMMA RastersApplied ==
    ASSUME NEW k, k.double_layer \in BOOLEAN, NEW o,
           Surface(k, o, {"demfil"}, {Zones(k)}, {"config"}, {"config"}, {Zones(k)}),
           Layered(k, o, {"config", Zones(k), "demfil"}, {Zones(k)}),
           NEW p, p = Perform(ApplyRasters(k), o)
    PROVE  /\ Surface(k, p, SlopeOrigin(k), ManningOrigin(k), DepthOrigin(k), RateOrigin(k),
                      ThicknessOrigin(k))
           /\ Layered(k, p, SteadyOrigin(k), ThicknessOrigin(k))
<1> DEFINE a == apply_slofil(k)
           b == apply_manningfil(k)
           c == apply_zfil(k)
           d == apply_depfil(k)
           e == apply_rizerofil(k)
           o2 == Perform(b, Perform(a, o))
           o3 == Perform(c, o2)
           o4 == Perform(d, o3)
<1>1. p = Perform(e, o4)
  <2>1. ApplyRasters(k) = a \o b \o c \o d \o e
    BY DEF ApplyRasters
  <2>2. /\ Induction!Sequence(a) /\ Induction!Sequence(b) /\ Induction!Sequence(c)
        /\ Induction!Sequence(d) /\ Induction!Sequence(e)
    BY RastersAreParts
  <2> HIDE DEF a, b, c, d, e
  <2>3. Induction!Sequence(a \o b) /\ Perform(a \o b, o) = o2
    BY <2>2, PartsInARow
  <2>4. Induction!Sequence(a \o b \o c) /\ Perform(a \o b \o c, o) = o3
    BY <2>2, <2>3, PartsInARow
  <2>5. Induction!Sequence(a \o b \o c \o d) /\ Perform(a \o b \o c \o d, o) = o4
    BY <2>2, <2>4, PartsInARow
  <2> QED BY <2>1, <2>2, <2>5, PartsInARow
<1> DEFINE slope == SlopeOrigin(k)
           manning == ManningOrigin(k)
           started == {"config", Zones(k), "demfil"}
           thick == IF Reads(k, "zfil") THEN {"config", Zones(k), "demfil"} \cup slope ELSE started
           last == IF RateRestarts(k) THEN RateOrigin(k) \cup {Zones(k), "demfil"} \cup slope
                   ELSE thick
<1>2. o2 = Perform(apply_manningfil(k), Perform(apply_slofil(k), o))
  OBVIOUS
<1>3. o3 = Perform(apply_zfil(k), o2)
  OBVIOUS
<1>4. o4 = Perform(apply_depfil(k), o3)
  OBVIOUS
<1>5. p = Perform(apply_rizerofil(k), o4)
  BY <1>1
<1> HIDE DEF o2, o3, o4
<1>6. /\ Surface(k, o2, slope, manning, {"config"}, {"config"}, {Zones(k)})
      /\ Layered(k, o2, started, {Zones(k)})
  BY <1>2, FirstRasters
<1>7. /\ Surface(k, o3, slope, manning, {"config"}, {"config"}, ThicknessOrigin(k))
      /\ Layered(k, o3, thick, ThicknessOrigin(k))
  <2> HIDE DEF slope, manning, started
  <2>1. thick = IF Reads(k, "zfil") THEN {"config", Zones(k), "demfil"} \cup slope ELSE started
    OBVIOUS
  <2> HIDE DEF thick
  <2> QED BY <1>3, <1>6, <2>1, ThicknessRaster
<1>8. /\ Surface(k, o4, slope, manning, DepthOrigin(k), {"config"}, ThicknessOrigin(k))
      /\ Layered(k, o4, thick, ThicknessOrigin(k))
  <2> HIDE DEF slope, manning, thick
  <2> QED BY <1>4, <1>7, DepthRaster
<1>9. /\ Surface(k, p, slope, manning, DepthOrigin(k), RateOrigin(k), ThicknessOrigin(k))
      /\ Layered(k, p, last, ThicknessOrigin(k))
  <2> HIDE DEF slope, manning, thick
  <2> QED BY <1>5, <1>8, RateRaster
<1>10. last = SteadyOrigin(k)
  <2>1. CASE RateRestarts(k)
    BY <2>1 DEF SteadyOrigin, LayerSlope
  <2>2. CASE ~RateRestarts(k)
    <3>1. RateOrigin(k) = {"config"}
      BY <2>2 DEF RateRestarts, RateOrigin, Reads
    <3>2. CASE Reads(k, "zfil")
      <4>1. LayerSlope(k) = slope /\ last = {"config", Zones(k), "demfil"} \cup slope
        BY <2>2, <3>2 DEF LayerSlope
      <4> QED BY <3>1, <4>1 DEF SteadyOrigin
    <3>3. CASE ~Reads(k, "zfil")
      <4>1. LayerSlope(k) = {"demfil"} /\ last = {"config", Zones(k), "demfil"}
        BY <2>2, <3>3 DEF LayerSlope
      <4> QED BY <3>1, <4>1 DEF SteadyOrigin
    <3> QED BY <3>2, <3>3
  <2> QED BY <2>1, <2>2
<1> QED BY <1>9, <1>10

\* What is out of date then: the layer under replaced slopes, and nothing else.
LEMMA OutdatedLayer ==
    ASSUME NEW k, k.double_layer \in BOOLEAN, k.status["rizerofil"] \in {"absent", "missing", "good"},
           NEW o, Surface(k, o, SlopeOrigin(k), ManningOrigin(k), DepthOrigin(k), RateOrigin(k),
                          ThicknessOrigin(k)),
           Layered(k, o, SteadyOrigin(k), ThicknessOrigin(k))
    PROVE  Outdated(k, o) # {} <=> SlopesReplacedUnderLayer(k)
<1> DEFINE Fresh(d) == \A f \in d.writes : \A g \in d.reads : o[g] \subseteq o[f]
           rate == Effect({}, {"K_sat_top_field", "slope_angle", "rizero0_field"},
                          {"initial_rikzero_field"})
<1>1. Outdated(k, o) = {} <=> \A d \in Derivations(k) : Fresh(d)
  BY DEF Outdated
<1>2. Fresh(initialize_manning)
  <2>1. initialize_manning.reads \subseteq Mannings /\ initialize_manning.writes \subseteq Mannings
    BY DEF initialize_manning, Effect, Mannings
  <2> QED BY <2>1 DEF Surface
<1>3. Fresh(erodible_from_depth)
  <2>1. erodible_from_depth.reads \subseteq Soil /\ erodible_from_depth.writes \subseteq Soil
    BY DEF erodible_from_depth, Effect, Soil
  <2> QED BY <2>1 DEF Surface
<1>4. CASE ~k.double_layer
  <2>1. Derivations(k) = {initialize_manning, erodible_from_depth}
    BY <1>4 DEF Derivations
  <2>2. Outdated(k, o) = {}
    <3> HIDE DEF Fresh
    <3> QED BY <1>1, <1>2, <1>3, <2>1
  <2> QED BY <1>4, <2>2 DEF SlopesReplacedUnderLayer
<1>5. CASE k.double_layer
  <2>1. Derivations(k) = {initialize_manning, erodible_from_depth, initialize_double_layer, rate}
    BY <1>5 DEF Derivations
  <2>2. /\ initialize_double_layer.writes = LayerFields
        /\ initialize_double_layer.reads
             = {"is_nodata", "slope_angle", "initial_rikzero_field"} \cup LayerParameters
        /\ rate.writes = {"initial_rikzero_field"}
        /\ rate.reads = {"K_sat_top_field", "slope_angle", "rizero0_field"}
    BY DEF initialize_double_layer, Effect
  <2>3. /\ o["is_nodata"] = {"demfil"} /\ o["slope_angle"] = SlopeOrigin(k)
        /\ o["rizero0_field"] = RateOrigin(k) /\ o["initial_rikzero_field"] = SteadyOrigin(k)
        /\ o["K_sat_top_field"] = {Zones(k)} /\ o["ltstar_field"] = ThicknessOrigin(k)
        /\ \A f \in LayerParameters \ {"ltstar_field"} : o[f] = {Zones(k)}
        /\ \A f \in LayerFields : o[f] = SteadyOrigin(k) \cup ThicknessOrigin(k)
    <3>1. /\ "is_nodata" \in Terrain /\ "slope_angle" \in TopSlopes
          /\ "K_sat_top_field" \in LayerParameters \ {"ltstar_field"}
      BY DEF Terrain, TopSlopes, LayerParameters
    <3> QED BY <1>5, <3>1 DEF Surface, Layered
  <2> HIDE DEF rate
  <2>4. CASE SlopesReplacedUnderLayer(k)
    <3>1. /\ Reads(k, "slofil") /\ ~Reads(k, "zfil") /\ ~RateRestarts(k) /\ ~Reads(k, "rizerofil")
      BY <2>4 DEF SlopesReplacedUnderLayer, RateRestarts, Reads
    <3>2. /\ SlopeOrigin(k) = {"slofil"} /\ LayerSlope(k) = {"demfil"} /\ RateOrigin(k) = {"config"}
          /\ ThicknessOrigin(k) = {Zones(k)} /\ Zones(k) \in {"zonfil", "config"}
      BY <3>1 DEF SlopeOrigin, LayerSlope, RateOrigin, ThicknessOrigin, Zones
    <3>3. "slofil" \notin SteadyOrigin(k) \cup ThicknessOrigin(k)
      BY <3>2 DEF SteadyOrigin
    <3>4. "pt" \in LayerFields
      BY DEF LayerFields
    <3>5. ~Fresh(initialize_double_layer)
      BY <2>2, <2>3, <3>2, <3>3, <3>4
    <3> HIDE DEF Fresh
    <3> QED BY <1>1, <2>1, <2>4, <3>5
  <2>5. CASE ~SlopesReplacedUnderLayer(k)
    <3>1. SlopeOrigin(k) \subseteq SteadyOrigin(k)
      <4>1. ~Reads(k, "slofil") \/ Reads(k, "zfil") \/ k.status["rizerofil"] # "absent"
        BY <1>5, <2>5 DEF SlopesReplacedUnderLayer
      <4>2. CASE ~Reads(k, "slofil")
        BY <4>2 DEF SlopeOrigin, SteadyOrigin
      <4>3. CASE Reads(k, "zfil") \/ k.status["rizerofil"] # "absent"
        <5>1. LayerSlope(k) = SlopeOrigin(k)
          BY <4>3 DEF LayerSlope, RateRestarts
        <5> QED BY <5>1 DEF SteadyOrigin
      <4> QED BY <4>1, <4>2, <4>3
    <3>2. {Zones(k)} \subseteq SteadyOrigin(k) /\ {"demfil"} \subseteq SteadyOrigin(k)
          /\ RateOrigin(k) \subseteq SteadyOrigin(k)
      BY DEF SteadyOrigin
    <3>3. Fresh(initialize_double_layer)
      <4> SUFFICES ASSUME NEW f \in LayerFields,
                          NEW g \in {"is_nodata", "slope_angle", "initial_rikzero_field"} \cup LayerParameters
                   PROVE  o[g] \subseteq o[f]
        BY <2>2
      <4>1. o[f] = SteadyOrigin(k) \cup ThicknessOrigin(k)
        BY <2>3
      <4>2. CASE g \in LayerParameters \ {"ltstar_field"}
        BY <2>3, <3>2, <4>1, <4>2
      <4>3. CASE g \in {"is_nodata", "slope_angle", "initial_rikzero_field", "ltstar_field"}
        BY <2>3, <3>1, <3>2, <4>1, <4>3
      <4> QED BY <4>2, <4>3
    <3>4. Fresh(rate)
      BY <2>2, <2>3, <3>1, <3>2
    <3> HIDE DEF Fresh
    <3> QED BY <1>1, <1>2, <1>3, <2>1, <2>5, <3>3, <3>4
  <2> QED BY <2>4, <2>5
<1> QED BY <1>4, <1>5

-----------------------------------------------------------------------------
(* The initialization, call by call.                                       *)

\* Three calls in a row.
LEMMA PerformThree ==
    \A a, b, c, o : Perform(<< a, b, c >>, o) = Perform(<< c >>, Perform(<< b >>, Perform(<< a >>, o)))
<1> TAKE a, b, c, o
<1> DEFINE calls == << a, b, c >>
<1>1. Len(calls) = 3 /\ calls[1] = a /\ calls[2] = b /\ calls[3] = c
  OBVIOUS
<1> HIDE DEF calls
<1>2. PICK g : /\ g[0] = o /\ Perform(calls, o) = g[3]
               /\ \A i \in 1..3 : g[i] = After(g[i - 1], calls[i])
  <2>1. Len(calls) \in Nat
    BY <1>1
  <2>2. PICK g : Traces(g, calls, o) /\ Perform(calls, o) = g[Len(calls)]
    BY <2>1, PerformTraces
  <2>3. /\ g[0] = o /\ Perform(calls, o) = g[3]
        /\ \A i \in 1..3 : g[i] = After(g[i - 1], calls[i])
    BY <1>1, <2>2 DEF Traces
  <2> QED BY <2>3
<1>3. g[1] = After(g[0], a) /\ g[2] = After(g[1], b) /\ g[3] = After(g[2], c)
  BY <1>1, <1>2, 1 \in 1..3, 2 \in 1..3, 3 \in 1..3
<1> QED BY <1>2, <1>3, PerformOne DEF calls

\* The DEM gives the bed and its mask.
LEMMA BedInitialized ==
    ASSUME NEW o, DOMAIN o = Fields,
           NEW a, a = initialize_from_numpy, NEW b, b = set_nodata_mask,
           NEW m, m = Perform(<< a >>, o), NEW p, p = Perform(<< b >>, m)
    PROVE  DOMAIN p = Fields /\ p["z_bed"] = {"demfil"} /\ p["is_nodata"] = {"demfil"}
<1>1. /\ a.reads = {} /\ a.files = {"demfil"} /\ a.writes = {"z_bed", "z_original"}
      /\ b.reads = {} /\ b.files = {"demfil"} /\ b.writes = {"is_nodata"}
  BY DEF initialize_from_numpy, set_nodata_mask, Load, Effect
<1>2. a.reads = {} /\ b.reads = {}
  BY <1>1
<1>3. DOMAIN m = Fields /\ \A f \in Core : m[f] = IF f \in a.writes THEN a.files ELSE o[f]
  BY <1>2, FileReplaces
<1>4. DOMAIN p = Fields /\ \A f \in Core : p[f] = IF f \in b.writes THEN b.files ELSE m[f]
  BY <1>2, <1>3, FileReplaces
<1>5. "z_bed" \in Core /\ "is_nodata" \in Core
  BY DEF Core, Terrain
<1> QED BY <1>1, <1>3, <1>4, <1>5

\* The zeros leave both alone.
LEMMA ZerosKeepBed ==
    ASSUME NEW o, DOMAIN o = Fields, NEW p, p = Perform(initialize_all, o)
    PROVE  DOMAIN p = Fields /\ p["z_bed"] = o["z_bed"] /\ p["is_nodata"] = o["is_nodata"]
<1> DEFINE names == {"z_bed", "is_nodata"}
<1>2. /\ zero_flow_variables.writes \cap names = {}
      /\ zero_hydrology_variables.writes \cap names = {}
      /\ zero_stability_variables.writes \cap names = {}
      /\ zero_erosion_variables.writes \cap names = {}
  BY DEF zero_flow_variables, zero_hydrology_variables, zero_stability_variables,
         zero_erosion_variables, FlowFields, HydrologyFields, StabilityFields, ErosionFields,
         Zero, Effect
<1>3. zero_dynamic_wave_variables.writes \cap names = {}
  BY DEF zero_dynamic_wave_variables, WaveFields, Topology, Zero, Effect
<1>4. /\ zero_doublelayer_variables.writes \cap names = {}
      /\ compute_slopes.writes \cap names = {}
  BY DEF zero_doublelayer_variables, LayerFields, compute_slopes, Slopes, Zero, Effect
<1>5. zero_spatial_zone_variables.writes \cap names = {}
  BY DEF zero_spatial_zone_variables, Parameters, HydrologyParameters, SoilParameters,
         LayerParameters, Zero, Effect
<1>6. Keeps(initialize_all, names)
  <2> DEFINE calls == initialize_all
             S == {zero_flow_variables, zero_hydrology_variables, zero_stability_variables,
                   zero_erosion_variables, zero_dynamic_wave_variables, zero_doublelayer_variables,
                   zero_spatial_zone_variables, compute_slopes}
  <2>1. calls \in Seq(S)
    BY DEF initialize_all
  <2>2. \A call \in S : call.writes \cap names = {}
    <3> HIDE DEF names
    <3> QED BY <1>2, <1>3, <1>4, <1>5
  <2> HIDE DEF calls, S, names
  <2>3. \A i \in 1..Len(calls) : calls[i] \in S
    BY <2>1
  <2>4. Induction!Sequence(calls)
    BY <2>1 DEF Induction!Sequence
  <2> QED BY <2>2, <2>3, <2>4 DEF Keeps, calls
<1>7. names \subseteq Fields
  BY NamedFields DEF Core, Terrain
<1>8. /\ DOMAIN p = Fields
      /\ \A f \in names : p[f] = o[f]
  <2> HIDE DEF names
  <2> QED BY <1>6, <1>7, KeptOrigins
<1> QED BY <1>8

\* The mask gives the neighbours of the cells.
LEMMA NeighboursInitialized ==
    ASSUME NEW o, DOMAIN o = Fields, o["z_bed"] = {"demfil"}, o["is_nodata"] = {"demfil"},
           NEW call, call = initialize_flow_connectivity, NEW p, p = Perform(<< call >>, o)
    PROVE  /\ DOMAIN p = Fields
           /\ p["z_bed"] = {"demfil"} /\ p["is_nodata"] = {"demfil"} /\ p["cell_id"] = {"demfil"}
<1> DEFINE dem == {"demfil"}
<1>1. call.reads = {"is_nodata"} /\ call.files = {} /\ call.writes = Topology
  BY DEF initialize_flow_connectivity, Effect
<1>2. call.reads # {} /\ \A g \in call.reads : o[g] = dem
  BY <1>1
<1>3. /\ DOMAIN p = Fields
      /\ \A f \in Core : p[f] = IF f \in call.writes THEN call.files \cup dem ELSE o[f]
  <2>1. p = After(o, call)
    BY PerformOne
  <2>2. UNION {o[g] : g \in call.reads} = dem
    BY <1>2
  <2> HIDE DEF dem
  <2> QED BY <2>1, <2>2, NamedFields DEF After
<1>4. /\ {"z_bed", "is_nodata", "cell_id"} \subseteq Core
      /\ "cell_id" \in Topology /\ {"z_bed", "is_nodata"} \cap Topology = {}
  BY DEF Core, Terrain, Topology
<1> QED BY <1>1, <1>3, <1>4

\* Bed and mask give the slopes.
LEMMA SlopesInitialized ==
    ASSUME NEW o, DOMAIN o = Fields, o["z_bed"] = {"demfil"}, o["is_nodata"] = {"demfil"},
           o["cell_id"] = {"demfil"},
           NEW call, call = compute_slopes, NEW p, p = Perform(<< call >>, o)
    PROVE  DOMAIN p = Fields /\ \A f \in Terrain \cup TopSlopes : p[f] = {"demfil"}
<1> DEFINE dem == {"demfil"}
<1>1. call.reads = {"z_bed", "is_nodata"} /\ call.files = {} /\ call.writes = Slopes
  BY DEF compute_slopes, Effect
<1>2. call.reads # {} /\ \A g \in call.reads : o[g] = dem
  BY <1>1
<1>3. /\ DOMAIN p = Fields
      /\ \A f \in Core : p[f] = IF f \in call.writes THEN call.files \cup dem ELSE o[f]
  <2>1. p = After(o, call)
    BY PerformOne
  <2>2. UNION {o[g] : g \in call.reads} = dem
    BY <1>2
  <2> HIDE DEF dem
  <2> QED BY <2>1, <2>2, NamedFields DEF After
<1>4. /\ Terrain \cup TopSlopes \subseteq Core
      /\ (Terrain \cup TopSlopes) \ Slopes \subseteq {"z_bed", "is_nodata", "cell_id"}
  BY DEF Core, Terrain, TopSlopes, Slopes
<1>5. \A f \in Slopes : f \in Core => p[f] = dem
  BY <1>1, <1>3
<1>6. \A f \in {"z_bed", "is_nodata", "cell_id"} : f \in Core => p[f] = dem
  BY <1>1, <1>3
<1> QED BY <1>3, <1>4, <1>5, <1>6

\* The boundary changes none of them.
LEMMA BoundaryInitialized ==
    ASSUME NEW o, DOMAIN o = Fields, \A f \in Terrain \cup TopSlopes : o[f] = {"demfil"},
           NEW call, call = set_boundary_conditions, NEW p, p = Perform(<< call >>, o)
    PROVE  DOMAIN p = Fields /\ \A f \in Terrain \cup TopSlopes : p[f] = {"demfil"}
<1> DEFINE dem == {"demfil"}
<1>1. call.reads = {"is_nodata"} /\ call.files = {} /\ call.writes = Boundary
  BY DEF set_boundary_conditions, Effect
<1>2. call.reads # {} /\ \A g \in call.reads : o[g] = dem
  BY <1>1 DEF Terrain
<1>3. /\ DOMAIN p = Fields
      /\ \A f \in Core : p[f] = IF f \in call.writes THEN call.files \cup dem ELSE o[f]
  <2>1. p = After(o, call)
    BY PerformOne
  <2>2. UNION {o[g] : g \in call.reads} = dem
    BY <1>2
  <2> HIDE DEF dem
  <2> QED BY <2>1, <2>2, NamedFields DEF After
<1>4. Terrain \cup TopSlopes \subseteq Core /\ (Terrain \cup TopSlopes) \cap Boundary = {}
  BY DEF Core, Terrain, TopSlopes, Boundary
<1> QED BY <1>1, <1>3, <1>4

Ground == Terrain \cup TopSlopes

\* The parameters come from the zones or from the configuration.
LEMMA ParametersInitialized ==
    ASSUME NEW k, NEW o, DOMAIN o = Fields, \A f \in Ground : o[f] = {"demfil"},
           NEW call, call = IF Reads(k, "zonfil") THEN set_zone_parameters ELSE uniform_parameters(k),
           NEW p, p = Perform(<< call >>, o)
    PROVE  /\ DOMAIN p = Fields /\ \A f \in Ground : p[f] = {"demfil"}
           /\ \A f \in {"n_manning_field", "depth_field"} : p[f] = {Zones(k)}
           /\ k.double_layer => \A f \in LayerParameters : p[f] = {Zones(k)}
<1>1. call.reads = {} /\ call.files = {Zones(k)}
  BY DEF set_zone_parameters, uniform_parameters, Effect, Zones
<1>2. /\ call.writes \subseteq Parameters
      /\ {"n_manning_field", "depth_field"} \subseteq call.writes
      /\ k.double_layer => LayerParameters \subseteq call.writes
  <2>1. \/ call.writes = Parameters
        \/ call.writes = Parameters \ ({"zone_id"} \cup (IF k.double_layer THEN {} ELSE LayerParameters))
    BY DEF set_zone_parameters, uniform_parameters, Effect
  <2>2. LayerParameters \subseteq Parameters /\ "zone_id" \notin LayerParameters
    BY DEF Parameters, LayerParameters
  <2>3. /\ {"n_manning_field", "depth_field"} \subseteq Parameters
        /\ {"n_manning_field", "depth_field"} \cap ({"zone_id"} \cup LayerParameters) = {}
    BY DEF Parameters, LayerParameters, SoilParameters
  <2> QED BY <2>1, <2>2, <2>3
<1>3. Ground \cap Parameters = {}
  BY DEF Ground, Terrain, TopSlopes, Parameters, HydrologyParameters, SoilParameters, LayerParameters
<1>4. Ground \subseteq Core /\ {"n_manning_field", "depth_field"} \subseteq Core /\ LayerParameters \subseteq Core
  BY DEF Ground, Core, Mannings, Soil
<1>5. /\ DOMAIN p = Fields
      /\ \A f \in Core : p[f] = IF f \in call.writes THEN call.files ELSE o[f]
  <2>1. call.reads = {}
    BY <1>1
  <2> QED BY <2>1, FileReplaces
<1>6. \A f \in Core : f \in call.writes => p[f] = {Zones(k)}
  BY <1>1, <1>5
<1>7. \A f \in Ground : p[f] = {"demfil"}
  BY <1>2, <1>3, <1>4, <1>5
<1> QED BY <1>2, <1>4, <1>5, <1>6, <1>7

\* The soil that can be eroded is as thick as the soil is deep.
LEMMA SoilInitialized ==
    ASSUME NEW k, NEW o, DOMAIN o = Fields, \A f \in Ground : o[f] = {"demfil"},
           \A f \in {"n_manning_field", "depth_field"} : o[f] = {Zones(k)},
           k.double_layer => \A f \in LayerParameters : o[f] = {Zones(k)},
           NEW call, call = erodible_from_depth, NEW p, p = Perform(<< call >>, o)
    PROVE  /\ DOMAIN p = Fields /\ \A f \in Ground : p[f] = {"demfil"}
           /\ p["n_manning_field"] = {Zones(k)} /\ \A f \in Soil : p[f] = {Zones(k)}
           /\ k.double_layer => \A f \in LayerParameters : p[f] = {Zones(k)}
<1> DEFINE zones == {Zones(k)}
<1>1. call.reads = {"depth_field"} /\ call.files = {} /\ call.writes = {"erodible_thickness"}
  BY DEF erodible_from_depth, Effect
<1>2. UNION {o[g] : g \in call.reads} = zones
  BY <1>1
<1>3. /\ DOMAIN p = Fields
      /\ \A f \in Core : p[f] = IF f \in call.writes THEN call.files \cup zones ELSE o[f]
  <2>1. p = After(o, call)
    BY PerformOne
  <2> HIDE DEF zones
  <2> QED BY <1>2, <2>1, NamedFields DEF After
<1>4. /\ Ground \subseteq Core \ {"erodible_thickness"}
      /\ LayerParameters \subseteq Core \ {"erodible_thickness"}
      /\ Soil = {"depth_field", "erodible_thickness"} /\ Soil \cup {"n_manning_field"} \subseteq Core
  BY CoreParts DEF Ground, Soil, Mannings
<1> QED BY <1>1, <1>3, <1>4

\* The physics take their Manning coefficients from the parameters.
LEMMA ManningInitialized ==
    ASSUME NEW k, NEW o, DOMAIN o = Fields, \A f \in Ground : o[f] = {"demfil"},
           o["n_manning_field"] = {Zones(k)}, \A f \in Soil : o[f] = {Zones(k)},
           k.double_layer => \A f \in LayerParameters : o[f] = {Zones(k)},
           NEW call, call = initialize_manning, NEW p, p = Perform(<< call >>, o)
    PROVE  /\ DOMAIN p = Fields /\ \A f \in Ground : p[f] = {"demfil"}
           /\ \A f \in Mannings \cup Soil : p[f] = {Zones(k)}
           /\ k.double_layer => \A f \in LayerParameters : p[f] = {Zones(k)}
<1> DEFINE zones == {Zones(k)}
<1>1. call.reads = {"n_manning_field"} /\ call.files = {} /\ call.writes = {"manning", "manning_ori"}
  BY DEF initialize_manning, Effect
<1>2. UNION {o[g] : g \in call.reads} = zones
  BY <1>1
<1>3. /\ DOMAIN p = Fields
      /\ \A f \in Core : p[f] = IF f \in call.writes THEN call.files \cup zones ELSE o[f]
  <2>1. p = After(o, call)
    BY PerformOne
  <2> HIDE DEF zones
  <2> QED BY <1>2, <2>1, NamedFields DEF After
<1>4. /\ Ground \subseteq Core \ Mannings /\ LayerParameters \subseteq Core \ Mannings
      /\ Soil \subseteq Core \ Mannings /\ Mannings \subseteq Core
      /\ Mannings = {"n_manning_field", "manning", "manning_ori"}
  BY CoreParts DEF Ground, Mannings
<1> QED BY <1>1, <1>3, <1>4

\* The scalars of the groundwater come from the configuration.
LEMMA ScalarsInitialized ==
    ASSUME NEW k, NEW o, DOMAIN o = Fields, \A f \in Ground : o[f] = {"demfil"},
           \A f \in Mannings \cup Soil : o[f] = {Zones(k)},
           k.double_layer => \A f \in LayerParameters : o[f] = {Zones(k)},
           NEW a, a = scalar_depthwt, NEW b, b = scalar_rizero,
           NEW m, m = Perform(<< a >>, o), NEW p, p = Perform(<< b >>, m)
    PROVE  Surface(k, p, {"demfil"}, {Zones(k)}, {"config"}, {"config"}, {Zones(k)})
<1>1. /\ a.reads = {} /\ a.files = {"config"} /\ a.writes = {"depthwt0_field"}
      /\ b.reads = {} /\ b.files = {"config"} /\ b.writes = {"rizero0_field"}
  BY DEF scalar_depthwt, scalar_rizero, Load, Effect
<1>2. a.reads = {} /\ b.reads = {}
  BY <1>1
<1>3. DOMAIN m = Fields /\ \A f \in Core : m[f] = IF f \in a.writes THEN a.files ELSE o[f]
  BY <1>2, FileReplaces
<1>4. DOMAIN p = Fields /\ \A f \in Core : p[f] = IF f \in b.writes THEN b.files ELSE m[f]
  BY <1>2, <1>3, FileReplaces
<1>5. /\ \A f \in Core \ Scalars : p[f] = o[f]
      /\ p["depthwt0_field"] = {"config"} /\ p["rizero0_field"] = {"config"}
  BY <1>1, <1>3, <1>4, CoreParts
<1>6. Ground \cup Mannings \cup Soil \cup LayerParameters \subseteq Core \ Scalars
  BY CoreParts DEF Ground
<1>7. "ltstar_field" \in LayerParameters
  BY CoreParts
<1> QED BY <1>4, <1>5, <1>6, <1>7 DEF Surface, Ground

\* Six parts in a row.
LEMMA SixParts ==
    ASSUME NEW a, NEW b, NEW c, NEW d, NEW e, NEW f,
           Induction!Sequence(a), Induction!Sequence(b), Induction!Sequence(c),
           Induction!Sequence(d), Induction!Sequence(e), Induction!Sequence(f), NEW o
    PROVE  Perform(a \o b \o c \o d \o e \o f, o)
             = Perform(f, Perform(e, Perform(d, Perform(c, Perform(b, Perform(a, o))))))
<1> DEFINE ab == a \o b
           abc == ab \o c
           abcd == abc \o d
           abcde == abcd \o e
<1>1. Induction!Sequence(ab) /\ Perform(ab, o) = Perform(b, Perform(a, o))
  BY PartsInARow
<1> HIDE DEF ab
<1>2. Induction!Sequence(abc) /\ Perform(abc, o) = Perform(c, Perform(ab, o))
  BY <1>1, PartsInARow
<1> HIDE DEF abc
<1>3. Induction!Sequence(abcd) /\ Perform(abcd, o) = Perform(d, Perform(abc, o))
  BY <1>2, PartsInARow
<1> HIDE DEF abcd
<1>4. Induction!Sequence(abcde) /\ Perform(abcde, o) = Perform(e, Perform(abcd, o))
  BY <1>3, PartsInARow
<1> HIDE DEF abcde
<1>5. Perform(abcde \o f, o) = Perform(f, Perform(abcde, o))
  BY <1>4, PartsInARow
<1>6. Perform(abcde \o f, o) = Perform(f, Perform(e, Perform(d, Perform(c, Perform(b, Perform(a, o))))))
  BY <1>1, <1>2, <1>3, <1>4, <1>5
<1> QED BY <1>6 DEF ab, abc, abcd, abcde

\* The zeros are a part.
LEMMA ZerosArePart == Induction!Sequence(initialize_all)
<1> DEFINE S == {zero_flow_variables, zero_hydrology_variables, zero_stability_variables,
                 zero_erosion_variables, zero_dynamic_wave_variables, zero_doublelayer_variables,
                 zero_spatial_zone_variables, compute_slopes}
<1>1. initialize_all \in Seq(S)
  BY DEF initialize_all
<1> HIDE DEF S
<1> QED BY <1>1 DEF Induction!Sequence

\* Up to the boundary everything comes from the DEM.
LEMMA GroundInitialized ==
    ASSUME NEW o, DOMAIN o = Fields, NEW first, NEW third,
           first = << initialize_from_numpy, set_nodata_mask >>,
           third = << initialize_flow_connectivity, compute_slopes, set_boundary_conditions >>,
           NEW p, p = Perform(third, Perform(initialize_all, Perform(first, o)))
    PROVE  /\ DOMAIN p = Fields /\ \A f \in Ground : p[f] = {"demfil"}
           /\ Induction!Sequence(first) /\ Induction!Sequence(third)
<1> DEFINE a == initialize_from_numpy
           b == set_nodata_mask
           c == initialize_flow_connectivity
           d == compute_slopes
           e == set_boundary_conditions
           o1 == Perform(<< a >>, o)
           o2 == Perform(<< b >>, o1)
           o3 == Perform(initialize_all, o2)
           o4 == Perform(<< c >>, o3)
           o5 == Perform(<< d >>, o4)
           o6 == Perform(<< e >>, o5)
<1>1. Perform(first, o) = o2 /\ Induction!Sequence(first)
  <2>1. first = << a, b >>
    OBVIOUS
  <2> HIDE DEF a, b
  <2> QED BY <2>1, PerformTwo, Induction!ListedSequences
<1>2. p = o6 /\ Induction!Sequence(third)
  <2>1. third = << c, d, e >> /\ p = Perform(third, o3)
    BY <1>1
  <2> HIDE DEF c, d, e, o3
  <2> QED BY <2>1, PerformThree, Induction!ListedSequences
<1>3. DOMAIN o2 = Fields /\ o2["z_bed"] = {"demfil"} /\ o2["is_nodata"] = {"demfil"}
  <2>1. a = initialize_from_numpy /\ b = set_nodata_mask
    OBVIOUS
  <2> HIDE DEF a, b
  <2> QED BY <2>1, BedInitialized
<1> HIDE DEF o1, o2
<1>4. DOMAIN o3 = Fields /\ o3["z_bed"] = {"demfil"} /\ o3["is_nodata"] = {"demfil"}
  BY <1>3, ZerosKeepBed
<1> HIDE DEF o3
<1>5. DOMAIN o4 = Fields /\ o4["z_bed"] = {"demfil"} /\ o4["is_nodata"] = {"demfil"} /\ o4["cell_id"] = {"demfil"}
  BY <1>4, NeighboursInitialized
<1> HIDE DEF o4
<1>6. DOMAIN o5 = Fields /\ \A f \in Terrain \cup TopSlopes : o5[f] = {"demfil"}
  BY <1>5, SlopesInitialized
<1> HIDE DEF o5
<1>7. DOMAIN o6 = Fields /\ \A f \in Terrain \cup TopSlopes : o6[f] = {"demfil"}
  BY <1>6, BoundaryInitialized
<1> QED BY <1>1, <1>2, <1>7 DEF Ground

\* Parameters and scalars follow from what the case names.
LEMMA SurfaceInitialized ==
    ASSUME NEW k, NEW o, DOMAIN o = Fields, \A f \in Ground : o[f] = {"demfil"}, NEW fifth,
           fifth = << initialize_manning, scalar_depthwt, scalar_rizero >>,
           NEW p, p = Perform(fifth, Perform(initialize_parameters(k), o))
    PROVE  /\ Surface(k, p, {"demfil"}, {Zones(k)}, {"config"}, {"config"}, {Zones(k)})
           /\ Induction!Sequence(initialize_parameters(k)) /\ Induction!Sequence(fifth)
<1> DEFINE a == IF Reads(k, "zonfil") THEN set_zone_parameters ELSE uniform_parameters(k)
           b == erodible_from_depth
           c == initialize_manning
           d == scalar_depthwt
           e == scalar_rizero
           o1 == Perform(<< a >>, o)
           o2 == Perform(<< b >>, o1)
           o3 == Perform(<< c >>, o2)
           o4 == Perform(<< d >>, o3)
           o5 == Perform(<< e >>, o4)
<1>1. Perform(initialize_parameters(k), o) = o2 /\ Induction!Sequence(initialize_parameters(k))
  <2>1. initialize_parameters(k) = << a, b >>
    BY DEF initialize_parameters
  <2> HIDE DEF a, b
  <2> QED BY <2>1, PerformTwo, Induction!ListedSequences
<1>2. p = o5 /\ Induction!Sequence(fifth)
  <2>1. fifth = << c, d, e >> /\ p = Perform(fifth, o2)
    BY <1>1
  <2> HIDE DEF c, d, e, o2
  <2> QED BY <2>1, PerformThree, Induction!ListedSequences
<1>3. /\ DOMAIN o1 = Fields /\ \A f \in Ground : o1[f] = {"demfil"}
      /\ \A f \in {"n_manning_field", "depth_field"} : o1[f] = {Zones(k)}
      /\ k.double_layer => \A f \in LayerParameters : o1[f] = {Zones(k)}
  <2>1. a = IF Reads(k, "zonfil") THEN set_zone_parameters ELSE uniform_parameters(k)
    OBVIOUS
  <2>2. o1 = Perform(<< a >>, o)
    OBVIOUS
  <2> HIDE DEF a, o1
  <2> QED BY <2>1, <2>2, ParametersInitialized
<1> HIDE DEF o1, a
<1>4. /\ DOMAIN o2 = Fields /\ \A f \in Ground : o2[f] = {"demfil"}
      /\ o2["n_manning_field"] = {Zones(k)} /\ \A f \in Soil : o2[f] = {Zones(k)}
      /\ k.double_layer => \A f \in LayerParameters : o2[f] = {Zones(k)}
  <2>1. b = erodible_from_depth /\ o2 = Perform(<< b >>, o1)
    OBVIOUS
  <2> HIDE DEF b, o2
  <2> QED BY <1>3, <2>1, SoilInitialized
<1> HIDE DEF o2, b
<1>5. /\ DOMAIN o3 = Fields /\ \A f \in Ground : o3[f] = {"demfil"}
      /\ \A f \in Mannings \cup Soil : o3[f] = {Zones(k)}
      /\ k.double_layer => \A f \in LayerParameters : o3[f] = {Zones(k)}
  <2>1. c = initialize_manning /\ o3 = Perform(<< c >>, o2)
    OBVIOUS
  <2> HIDE DEF c, o3
  <2> QED BY <1>4, <2>1, ManningInitialized
<1> HIDE DEF o3, c
<1>6. Surface(k, o5, {"demfil"}, {Zones(k)}, {"config"}, {"config"}, {Zones(k)})
  <2>1. d = scalar_depthwt /\ e = scalar_rizero /\ o4 = Perform(<< d >>, o3) /\ o5 = Perform(<< e >>, o4)
    OBVIOUS
  <2> HIDE DEF d, e, o4, o5
  <2> QED BY <1>5, <2>1, ScalarsInitialized
<1> QED BY <1>1, <1>2, <1>6

\* What a solver starts from before the files of the scenario.
LEMMA Initialized ==
    ASSUME NEW k, k.double_layer \in BOOLEAN,
           NEW p, p = Perform(Initialize(k), allocate_fields)
    PROVE  /\ Surface(k, p, {"demfil"}, {Zones(k)}, {"config"}, {"config"}, {Zones(k)})
           /\ Layered(k, p, {"config", Zones(k), "demfil"}, {Zones(k)})
<1> DEFINE a == << initialize_from_numpy, set_nodata_mask >>
           b == initialize_all
           c == << initialize_flow_connectivity, compute_slopes, set_boundary_conditions >>
           d == initialize_parameters(k)
           e == << initialize_manning, scalar_depthwt, scalar_rizero >>
           f == restart_double_layer(k, "config")
           o == allocate_fields
           ground == Perform(c, Perform(b, Perform(a, o)))
           surface == Perform(e, Perform(d, ground))
<1>1. DOMAIN o = Fields
  BY DEF allocate_fields
<1>2. /\ DOMAIN ground = Fields /\ \A g \in Ground : ground[g] = {"demfil"}
      /\ Induction!Sequence(a) /\ Induction!Sequence(c)
  <2>1. /\ a = << initialize_from_numpy, set_nodata_mask >>
        /\ c = << initialize_flow_connectivity, compute_slopes, set_boundary_conditions >>
        /\ ground = Perform(c, Perform(initialize_all, Perform(a, o)))
    OBVIOUS
  <2> HIDE DEF a, c, ground, o
  <2> QED BY <1>1, <2>1, GroundInitialized
<1>3. /\ Surface(k, surface, {"demfil"}, {Zones(k)}, {"config"}, {"config"}, {Zones(k)})
      /\ Induction!Sequence(d) /\ Induction!Sequence(e)
  <2>1. /\ e = << initialize_manning, scalar_depthwt, scalar_rizero >>
        /\ surface = Perform(e, Perform(initialize_parameters(k), ground))
    OBVIOUS
  <2> HIDE DEF e, surface, ground
  <2> QED BY <1>2, <2>1, SurfaceInitialized
<1>4. Induction!Sequence(b) /\ Induction!Sequence(f)
  BY ZerosArePart, RestartIsPart
<1>5. p = Perform(f, surface)
  <2>1. p = Perform(a \o b \o c \o d \o e \o f, o)
    BY DEF Initialize
  <2> HIDE DEF a, b, c, d, e, f, o
  <2>2. p = Perform(f, Perform(e, Perform(d, Perform(c, Perform(b, Perform(a, o))))))
    BY <1>2, <1>3, <1>4, <2>1, SixParts
  <2> QED BY <2>2
<1>6. {"config", Zones(k), "demfil"} \cup {"demfil"} = {"config", Zones(k), "demfil"}
  OBVIOUS
<1> HIDE DEF surface
<1>7. /\ Surface(k, p, {"demfil"}, {Zones(k)}, {"config"}, {"config"}, {Zones(k)})
      /\ Layered(k, p, {"config", Zones(k), "demfil"} \cup {"demfil"}, {Zones(k)})
  BY <1>3, <1>5, RestartLayer
<1> QED BY <1>6, <1>7

-----------------------------------------------------------------------------
(* The sidecars.                                                           *)

\* What a call does to fields it writes, and to those it does not.
LEMMA FileEnters ==
    ASSUME NEW call, NEW o, DOMAIN o = Fields, NEW p, p = Perform(<< call >>, o)
    PROVE  /\ DOMAIN p = Fields
           /\ \A f \in Fields \ call.writes : p[f] = o[f]
           /\ \A f \in Fields \cap call.writes : call.files \subseteq p[f]
<1>1. p = After(o, call)
  BY PerformOne
<1> QED BY <1>1 DEF After

\* A part that changes some fields, and puts a file into them if it is read.
Observes(calls, names, file, reads) ==
    /\ Induction!Sequence(calls)
    /\ \A o : DOMAIN o = Fields =>
                /\ DOMAIN Perform(calls, o) = Fields
                /\ \A f \in Fields \ names : Perform(calls, o)[f] = o[f]
                /\ reads => \A f \in Fields \cap names : file \in Perform(calls, o)[f]

\* One call is such a part.
LEMMA ObservingCall ==
    ASSUME NEW call, NEW file, call.files = {file}, NEW reads
    PROVE  Observes(<< call >>, call.writes, file, reads)
<1>1. Induction!Sequence(<< call >>)
  BY Induction!ListedSequences
<1>2. ASSUME NEW o, DOMAIN o = Fields
      PROVE  /\ DOMAIN Perform(<< call >>, o) = Fields
             /\ \A f \in Fields \ call.writes : Perform(<< call >>, o)[f] = o[f]
             /\ \A f \in Fields \cap call.writes : file \in Perform(<< call >>, o)[f]
  BY <1>2, FileEnters
<1> QED BY <1>1, <1>2 DEF Observes

\* No call is one for a file that is not read.
LEMMA ObservingNothing ==
    ASSUME NEW names, NEW file, NEW reads, ~reads PROVE Observes(<< >>, names, file, reads)
BY NoCalls, PerformNothing DEF Observes

\* The outflow cells are added to the boundary and to the mask.
LEMMA OutflowObserves ==
    ASSUME NEW k
    PROVE  Observes(IF Reads(k, "outflow.txt") THEN configure_outflow_process_observer ELSE << >>,
                    Boundary \cup {"dfs_outflow_mask"}, "outflow.txt", Reads(k, "outflow.txt"))
<1>1. CASE Reads(k, "outflow.txt")
  <2> DEFINE a == Effect({"outflow.txt"}, {"cell_id"} \cup Boundary, Boundary)
             b == Effect({"outflow.txt"}, {"cell_id", "dfs_outflow_mask"}, {"dfs_outflow_mask"})
             names == Boundary \cup {"dfs_outflow_mask"}
  <2>1. configure_outflow_process_observer = << a, b >>
    BY DEF configure_outflow_process_observer
  <2>2. /\ a.files = {"outflow.txt"} /\ a.writes = Boundary
        /\ b.files = {"outflow.txt"} /\ b.writes = {"dfs_outflow_mask"}
    BY DEF Effect
  <2> DEFINE file == "outflow.txt"
             mask == {"dfs_outflow_mask"}
  <2>3. names = Boundary \cup mask /\ Boundary \cap mask = {}
    BY DEF Boundary
  <2>4. a.files = {file} /\ a.writes = Boundary /\ b.files = {file} /\ b.writes = mask
    BY <2>2
  <2> HIDE DEF a, b, names, file, mask
  <2>5. ASSUME NEW o, DOMAIN o = Fields
        PROVE  /\ DOMAIN Perform(<< a, b >>, o) = Fields
               /\ \A f \in Fields \ names : Perform(<< a, b >>, o)[f] = o[f]
               /\ \A f \in Fields \cap names : file \in Perform(<< a, b >>, o)[f]
    <3> DEFINE m == Perform(<< a >>, o)
               p == Perform(<< b >>, m)
    <3>1. Perform(<< a, b >>, o) = p
      BY PerformTwo
    <3>2. /\ DOMAIN m = Fields
          /\ \A f \in Fields \ Boundary : m[f] = o[f]
          /\ \A f \in Fields \cap Boundary : {file} \subseteq m[f]
      BY <2>4, <2>5, FileEnters
    <3> HIDE DEF m
    <3>3. /\ DOMAIN p = Fields
          /\ \A f \in Fields \ mask : p[f] = m[f]
          /\ \A f \in Fields \cap mask : {file} \subseteq p[f]
      BY <2>4, <3>2, FileEnters
    <3> HIDE DEF p
    <3> QED BY <2>3, <3>1, <3>2, <3>3
  <2>6. Induction!Sequence(<< a, b >>)
    BY Induction!ListedSequences
  <2>7. \A reads : Observes(<< a, b >>, names, file, reads)
    BY <2>5, <2>6 DEF Observes
  <2> QED BY <1>1, <2>1, <2>7 DEF names, file
<1>2. CASE ~Reads(k, "outflow.txt")
  BY <1>2, ObservingNothing DEF Reads
<1> QED BY <1>1, <1>2

\* The monitors of the hydrograph.
LEMMA HydrographObserves ==
    ASSUME NEW k
    PROVE  Observes(IF Reads(k, "hydrograph.txt") THEN configure_hydrograph_monitor_observer ELSE << >>,
                    {"hydrograph_monitors"}, "hydrograph.txt", Reads(k, "hydrograph.txt"))
<1>1. CASE Reads(k, "hydrograph.txt")
  <2> DEFINE a == Effect({"hydrograph.txt"}, {"cell_id"}, {"hydrograph_monitors"})
  <2>1. configure_hydrograph_monitor_observer = << a >>
    BY DEF configure_hydrograph_monitor_observer
  <2>2. a.files = {"hydrograph.txt"} /\ a.writes = {"hydrograph_monitors"}
    BY DEF Effect
  <2> HIDE DEF a
  <2>3. Observes(<< a >>, a.writes, "hydrograph.txt", Reads(k, "hydrograph.txt"))
    BY <2>2, ObservingCall
  <2> QED BY <1>1, <2>1, <2>2, <2>3
<1>2. CASE ~Reads(k, "hydrograph.txt")
  BY <1>2, ObservingNothing DEF Reads
<1> QED BY <1>1, <1>2

\* The inflow.
LEMMA InflowObserves ==
    ASSUME NEW k
    PROVE  Observes(IF Reads(k, "inflow.txt") THEN configure_inflow_hydrograph_forcing ELSE << >>,
                    {"inflow_hydrographs"}, "inflow.txt", Reads(k, "inflow.txt"))
<1>1. CASE Reads(k, "inflow.txt")
  <2> DEFINE a == Effect({"inflow.txt"}, {"cell_id"}, {"inflow_hydrographs"})
  <2>1. configure_inflow_hydrograph_forcing = << a >>
    BY DEF configure_inflow_hydrograph_forcing
  <2>2. a.files = {"inflow.txt"} /\ a.writes = {"inflow_hydrographs"}
    BY DEF Effect
  <2> HIDE DEF a
  <2>3. Observes(<< a >>, a.writes, "inflow.txt", Reads(k, "inflow.txt"))
    BY <2>2, ObservingCall
  <2> QED BY <1>1, <2>1, <2>2, <2>3
<1>2. CASE ~Reads(k, "inflow.txt")
  BY <1>2, ObservingNothing DEF Reads
<1> QED BY <1>1, <1>2

\* The failures of the case, or what the provider feeds when it has none.
LEMMA ScheduleObserves ==
    ASSUME NEW k, NEW feeds
    PROVE  Observes(apply_failure_schedule(k, feeds),
                    {"precomputed_failure_schedule"}, "tfail", Reads(k, "tfail"))
<1> DEFINE names == {"precomputed_failure_schedule"}
<1>0. ASSUME NEW source, NEW reads
      PROVE  Observes(configure_precomputed_failure_schedule(source), names, source, reads)
  <2> DEFINE a == Load(source, "precomputed_failure_schedule")
  <2>1. configure_precomputed_failure_schedule(source) = << a >>
    BY DEF configure_precomputed_failure_schedule
  <2>2. a.files = {source} /\ a.writes = names
    BY DEF Load, Effect
  <2> HIDE DEF a, names
  <2>3. Observes(<< a >>, a.writes, source, reads)
    BY <2>2, ObservingCall
  <2> QED BY <2>1, <2>2, <2>3
<1>1. CASE Reads(k, "tfail")
  <2>1. k.status["tfail"] \notin {"absent", "missing"}
    BY <1>1 DEF Reads
  <2>2. apply_failure_schedule(k, feeds) = configure_precomputed_failure_schedule("tfail")
    BY <1>1, <2>1 DEF apply_failure_schedule, case_schedule
  <2> HIDE DEF names
  <2>3. Observes(configure_precomputed_failure_schedule("tfail"), names, "tfail", Reads(k, "tfail"))
    BY <1>0
  <2> QED BY <2>2, <2>3 DEF names
<1>2. CASE ~Reads(k, "tfail")
  <2>1. \/ apply_failure_schedule(k, feeds) = configure_precomputed_failure_schedule("provider")
        \/ apply_failure_schedule(k, feeds) = << >>
    BY <1>2 DEF apply_failure_schedule, case_schedule, configure_provider_runtime_feed
  <2> HIDE DEF names
  <2> DEFINE reads == Reads(k, "tfail")
             source == "provider"
             file == "tfail"
             schedule == configure_precomputed_failure_schedule(source)
  <2>2. Observes(schedule, names, source, reads) /\ ~reads
    BY <1>0, <1>2
  <2> HIDE DEF reads, source, file, schedule
  <2>3. Observes(schedule, names, file, reads)
    BY <2>2 DEF Observes
  <2>6. Observes(<< >>, names, file, reads)
    BY <2>2, ObservingNothing
  <2>4. apply_failure_schedule(k, feeds) = schedule \/ apply_failure_schedule(k, feeds) = << >>
    BY <2>1 DEF schedule, source
  <2>5. Observes(apply_failure_schedule(k, feeds), names, file, reads)
    BY <2>3, <2>4, <2>6
  <2> QED BY <2>5 DEF names, file, reads
<1> QED BY <1>1, <1>2

\* The sidecars leave what the rasters set, and those that are read come in.
LEMMA SidecarsApplied ==
    ASSUME NEW k, NEW feeds, NEW o, DOMAIN o = Fields, NEW p, p = Perform(ApplySidecars(k, feeds), o)
    PROVE  /\ Induction!Sequence(ApplySidecars(k, feeds))
           /\ DOMAIN p = Fields /\ \A f \in Core : p[f] = o[f]
           /\ Reads(k, "outflow.txt") =>
                "outflow.txt" \in p["is_boundary"] /\ "outflow.txt" \in p["dfs_outflow_mask"]
           /\ Reads(k, "hydrograph.txt") => "hydrograph.txt" \in p["hydrograph_monitors"]
           /\ Reads(k, "inflow.txt") => "inflow.txt" \in p["inflow_hydrographs"]
           /\ Reads(k, "tfail") => "tfail" \in p["precomputed_failure_schedule"]
<1> DEFINE a == IF Reads(k, "outflow.txt") THEN configure_outflow_process_observer ELSE << >>
           b == IF Reads(k, "hydrograph.txt") THEN configure_hydrograph_monitor_observer ELSE << >>
           c == IF Reads(k, "inflow.txt") THEN configure_inflow_hydrograph_forcing ELSE << >>
           d == apply_failure_schedule(k, feeds)
           outflow == Boundary \cup {"dfs_outflow_mask"}
           hydrograph == {"hydrograph_monitors"}
           inflow == {"inflow_hydrographs"}
           schedule == {"precomputed_failure_schedule"}
           ab == a \o b
           abc == ab \o c
           o1 == Perform(a, o)
           o2 == Perform(b, o1)
           o3 == Perform(c, o2)
           out(x) == Reads(k, "outflow.txt") => \A f \in Fields \cap outflow : "outflow.txt" \in x[f]
           hyd(x) == Reads(k, "hydrograph.txt") => \A f \in Fields \cap hydrograph : "hydrograph.txt" \in x[f]
           inf(x) == Reads(k, "inflow.txt") => \A f \in Fields \cap inflow : "inflow.txt" \in x[f]
           sch(x) == Reads(k, "tfail") => \A f \in Fields \cap schedule : "tfail" \in x[f]
<1>1. Observes(a, outflow, "outflow.txt", Reads(k, "outflow.txt"))
  BY OutflowObserves
<1>2. Observes(b, hydrograph, "hydrograph.txt", Reads(k, "hydrograph.txt"))
  BY HydrographObserves
<1>3. Observes(c, inflow, "inflow.txt", Reads(k, "inflow.txt"))
  BY InflowObserves
<1>4. Observes(d, schedule, "tfail", Reads(k, "tfail"))
  BY ScheduleObserves
<1>5. ApplySidecars(k, feeds) = abc \o d
  BY DEF ApplySidecars
<1>6. /\ outflow \cap hydrograph = {} /\ outflow \cap inflow = {} /\ outflow \cap schedule = {}
      /\ hydrograph \cap inflow = {} /\ hydrograph \cap schedule = {} /\ inflow \cap schedule = {}
  BY DEF Boundary
<1>7. Core \cap (outflow \cup hydrograph \cup inflow \cup schedule) = {}
  BY DEF Core, Boundary, Terrain, Mannings, Soil, TopSlopes, Scalars, LayerParameters, LayerFields
<1>8. /\ {"is_boundary", "dfs_outflow_mask"} \subseteq Fields \cap outflow
      /\ "hydrograph_monitors" \in Fields \cap hydrograph
      /\ "inflow_hydrographs" \in Fields \cap inflow
      /\ "precomputed_failure_schedule" \in Fields \cap schedule
  BY NamedFields DEF Observed, Boundary
<1> HIDE DEF a, b, c, d, outflow, hydrograph, inflow, schedule
<1>9. Induction!Sequence(a) /\ Induction!Sequence(b) /\ Induction!Sequence(c) /\ Induction!Sequence(d)
  BY <1>1, <1>2, <1>3, <1>4 DEF Observes
<1>10. p = Perform(d, o3) /\ Induction!Sequence(abc \o d)
  <2>1. Induction!Sequence(ab) /\ Perform(ab, o) = o2
    BY <1>9, PartsInARow
  <2> HIDE DEF ab, o2
  <2>2. Induction!Sequence(abc) /\ Perform(abc, o) = o3
    BY <1>9, <2>1, PartsInARow
  <2> HIDE DEF abc, o3
  <2>3. Perform(abc \o d, o) = Perform(d, o3) /\ Induction!Sequence(abc \o d)
    BY <1>9, <2>2, PartsInARow
  <2> QED BY <1>5, <2>3
<1>11. DOMAIN o1 = Fields /\ out(o1) /\ \A f \in Fields \ outflow : o1[f] = o[f]
  BY <1>1 DEF Observes
<1> HIDE DEF o1
<1>12. DOMAIN o2 = Fields /\ hyd(o2) /\ \A f \in Fields \ hydrograph : o2[f] = o1[f]
  BY <1>2, <1>11 DEF Observes
<1> HIDE DEF o2
<1>13. DOMAIN o3 = Fields /\ inf(o3) /\ \A f \in Fields \ inflow : o3[f] = o2[f]
  BY <1>3, <1>12 DEF Observes
<1> HIDE DEF o3
<1>14. DOMAIN p = Fields /\ sch(p) /\ \A f \in Fields \ schedule : p[f] = o3[f]
  BY <1>4, <1>10, <1>13 DEF Observes
<1>15. out(p) /\ hyd(p) /\ inf(p)
  BY <1>6, <1>11, <1>12, <1>13, <1>14
<1>16. \A f \in Core : p[f] = o[f]
  BY <1>7, <1>11, <1>12, <1>13, <1>14, NamedFields
<1>17. Induction!Sequence(ApplySidecars(k, feeds))
  BY <1>5, <1>10
<1> QED BY <1>8, <1>14, <1>15, <1>16, <1>17

-----------------------------------------------------------------------------
(* The whole setup.                                                        *)

\* The fields of a solver before its first step.
LEMMA SetupOrigins ==
    ASSUME NEW k, k.double_layer \in BOOLEAN, NEW feeds,
           NEW o, o = Perform(Initialize(k), allocate_fields),
           NEW p, p = Perform(apply_native_runtime_inputs(k, feeds), o)
    PROVE  /\ Surface(k, p, SlopeOrigin(k), ManningOrigin(k), DepthOrigin(k), RateOrigin(k),
                      ThicknessOrigin(k))
           /\ Layered(k, p, SteadyOrigin(k), ThicknessOrigin(k))
           /\ Reads(k, "outflow.txt") =>
                "outflow.txt" \in p["is_boundary"] /\ "outflow.txt" \in p["dfs_outflow_mask"]
           /\ Reads(k, "hydrograph.txt") => "hydrograph.txt" \in p["hydrograph_monitors"]
           /\ Reads(k, "inflow.txt") => "inflow.txt" \in p["inflow_hydrographs"]
           /\ Reads(k, "tfail") => "tfail" \in p["precomputed_failure_schedule"]
<1> DEFINE rasters == ApplyRasters(k)
           sidecars == ApplySidecars(k, feeds)
           m == Perform(rasters, o)
<1>1. /\ Surface(k, o, {"demfil"}, {Zones(k)}, {"config"}, {"config"}, {Zones(k)})
      /\ Layered(k, o, {"config", Zones(k), "demfil"}, {Zones(k)})
  BY Initialized
<1>2. /\ Surface(k, m, SlopeOrigin(k), ManningOrigin(k), DepthOrigin(k), RateOrigin(k),
                 ThicknessOrigin(k))
      /\ Layered(k, m, SteadyOrigin(k), ThicknessOrigin(k))
  <2>1. m = Perform(ApplyRasters(k), o)
    OBVIOUS
  <2> HIDE DEF m
  <2> QED BY <1>1, <2>1, RastersApplied
<1>3. Induction!Sequence(rasters)
  <2> DEFINE a == apply_slofil(k)
             b == apply_manningfil(k)
             c == apply_zfil(k)
             d == apply_depfil(k)
             e == apply_rizerofil(k)
             ab == a \o b
             abc == ab \o c
             abcd == abc \o d
  <2>1. rasters = abcd \o e
    BY DEF ApplyRasters
  <2>2. /\ Induction!Sequence(a) /\ Induction!Sequence(b) /\ Induction!Sequence(c)
        /\ Induction!Sequence(d) /\ Induction!Sequence(e)
    BY RastersAreParts
  <2> HIDE DEF a, b, c, d, e, rasters
  <2>3. Induction!Sequence(ab)
    BY <2>2, PartsInARow
  <2> HIDE DEF ab
  <2>4. Induction!Sequence(abc)
    BY <2>2, <2>3, PartsInARow
  <2> HIDE DEF abc
  <2>5. Induction!Sequence(abcd)
    BY <2>2, <2>4, PartsInARow
  <2> HIDE DEF abcd
  <2> QED BY <2>1, <2>2, <2>5, PartsInARow
<1>4. DOMAIN m = Fields
  BY <1>2 DEF Surface
<1>5. Induction!Sequence(sidecars)
  BY <1>4, SidecarsApplied
<1>6. p = Perform(sidecars, m)
  <2>1. p = Perform(rasters \o sidecars, o)
    BY DEF apply_native_runtime_inputs
  <2> HIDE DEF rasters, sidecars
  <2> QED BY <1>3, <1>5, <2>1, PartsInARow
<1> HIDE DEF m
<1>7. /\ DOMAIN p = Fields /\ \A f \in Core : p[f] = m[f]
      /\ Reads(k, "outflow.txt") =>
           "outflow.txt" \in p["is_boundary"] /\ "outflow.txt" \in p["dfs_outflow_mask"]
      /\ Reads(k, "hydrograph.txt") => "hydrograph.txt" \in p["hydrograph_monitors"]
      /\ Reads(k, "inflow.txt") => "inflow.txt" \in p["inflow_hydrographs"]
      /\ Reads(k, "tfail") => "tfail" \in p["precomputed_failure_schedule"]
  BY <1>4, <1>6, SidecarsApplied
<1>8. Surface(k, p, SlopeOrigin(k), ManningOrigin(k), DepthOrigin(k), RateOrigin(k),
              ThicknessOrigin(k))
  <2>1. Terrain \cup TopSlopes \cup Mannings \cup Soil \cup Scalars \cup LayerParameters \subseteq Core
    BY CoreParts
  <2>2. \A f \in Terrain \cup TopSlopes \cup Mannings \cup Soil \cup Scalars \cup LayerParameters :
           p[f] = m[f]
    BY <1>7, <2>1
  <2>3. "depthwt0_field" \in Scalars /\ "rizero0_field" \in Scalars /\ "ltstar_field" \in LayerParameters
    BY CoreParts
  <2> QED BY <1>2, <1>7, <2>2, <2>3 DEF Surface
<1>9. Layered(k, p, SteadyOrigin(k), ThicknessOrigin(k))
  <2>1. LayerFields \subseteq Core /\ "initial_rikzero_field" \in Core
    BY CoreParts
  <2> QED BY <1>2, <1>7, <2>1 DEF Layered
<1> QED BY <1>7, <1>8, <1>9

\* What each file stands for, file by file.
LEMMA Governed ==
    ASSUME NEW k
    PROVE  /\ Governs(k, "demfil") = Terrain
           /\ Governs(k, "zonfil") = {"n_manning_field", "depth_field", "erodible_thickness"}
                                       \ (IF Reads(k, "manningfil") THEN {"n_manning_field"} ELSE {})
           /\ Governs(k, "slofil") = TopSlopes
           /\ Governs(k, "manningfil") = Mannings
           /\ Governs(k, "zfil") = {"ltstar_field", "ltstar", "kkt"}
           /\ Governs(k, "depfil") = {"depthwt0_field"}
           /\ Governs(k, "rizerofil") =
                {"rizero0_field"} \cup (IF k.double_layer THEN {"initial_rikzero_field", "kkt"} ELSE {})
           /\ Governs(k, "outflow.txt") = {"is_boundary", "dfs_outflow_mask"}
           /\ Governs(k, "hydrograph.txt") = {"hydrograph_monitors"}
           /\ Governs(k, "inflow.txt") = {"inflow_hydrographs"}
           /\ Governs(k, "tfail") = {"precomputed_failure_schedule"}
<1>1. Governs(k, "demfil") = Terrain
  BY DEF Governs, Terrain
<1>2. Governs(k, "zonfil") = {"n_manning_field", "depth_field", "erodible_thickness"}
                               \ (IF Reads(k, "manningfil") THEN {"n_manning_field"} ELSE {})
  BY DEF Governs
<1>3. Governs(k, "slofil") = TopSlopes
  BY DEF Governs, TopSlopes
<1>4. Governs(k, "manningfil") = Mannings
  BY DEF Governs, Mannings
<1>5. Governs(k, "zfil") = {"ltstar_field", "ltstar", "kkt"}
  BY DEF Governs
<1>6. Governs(k, "depfil") = {"depthwt0_field"}
  BY DEF Governs
<1>7. Governs(k, "rizerofil") =
        {"rizero0_field"} \cup (IF k.double_layer THEN {"initial_rikzero_field", "kkt"} ELSE {})
  BY DEF Governs
<1>8. Governs(k, "outflow.txt") = {"is_boundary", "dfs_outflow_mask"}
  BY DEF Governs
<1>9. Governs(k, "hydrograph.txt") = {"hydrograph_monitors"}
  BY DEF Governs
<1>10. Governs(k, "inflow.txt") = {"inflow_hydrographs"}
  BY DEF Governs
<1>11. Governs(k, "tfail") = {"precomputed_failure_schedule"}
  BY DEF Governs
<1> QED BY <1>1, <1>2, <1>3, <1>4, <1>5, <1>6, <1>7, <1>8, <1>9, <1>10, <1>11

\* What the manifest calls consumed is in effect, file by file.
LEMMA ConsumedGoverns ==
    ASSUME NEW k, k.double_layer \in BOOLEAN, NEW p,
           Surface(k, p, SlopeOrigin(k), ManningOrigin(k), DepthOrigin(k), RateOrigin(k),
                   ThicknessOrigin(k)),
           Layered(k, p, SteadyOrigin(k), ThicknessOrigin(k)),
           Reads(k, "outflow.txt") =>
             "outflow.txt" \in p["is_boundary"] /\ "outflow.txt" \in p["dfs_outflow_mask"],
           Reads(k, "hydrograph.txt") => "hydrograph.txt" \in p["hydrograph_monitors"],
           Reads(k, "inflow.txt") => "inflow.txt" \in p["inflow_hydrographs"],
           Reads(k, "tfail") => "tfail" \in p["precomputed_failure_schedule"],
           NEW file \in Consumed(k)
    PROVE  \/ \A f \in Governs(k, file) : file \in p[f]
           \/ file = "zonfil" /\ ~Reads(k, file)
<1> DEFINE InEffect(x) == \A f \in Governs(k, x) : x \in p[f]
<1>1. InEffect("demfil")
  BY Governed DEF Surface
<1>2. Reads(k, "slofil") => InEffect("slofil")
  BY Governed DEF Surface, SlopeOrigin
<1>3. Reads(k, "manningfil") => InEffect("manningfil")
  BY Governed DEF Surface, ManningOrigin
<1>4. Reads(k, "zfil") /\ k.double_layer => InEffect("zfil")
  <2> SUFFICES ASSUME Reads(k, "zfil"), k.double_layer PROVE InEffect("zfil")
    OBVIOUS
  <2>1. ThicknessOrigin(k) = {"zfil"}
    BY DEF ThicknessOrigin
  <2>2. "ltstar" \in LayerFields /\ "kkt" \in LayerFields
    BY DEF LayerFields
  <2>3. /\ p["ltstar_field"] = {"zfil"} /\ p["ltstar"] = SteadyOrigin(k) \cup {"zfil"}
        /\ p["kkt"] = SteadyOrigin(k) \cup {"zfil"}
    BY <2>1, <2>2 DEF Surface, Layered
  <2> QED BY <2>3, Governed
<1>5. Reads(k, "depfil") => InEffect("depfil")
  BY Governed DEF Surface, DepthOrigin
<1>6. Reads(k, "rizerofil") => InEffect("rizerofil")
  <2> SUFFICES ASSUME Reads(k, "rizerofil") PROVE InEffect("rizerofil")
    OBVIOUS
  <2>1. p["rizero0_field"] = {"rizerofil"}
    BY DEF Surface, RateOrigin
  <2>2. "rizerofil" \in SteadyOrigin(k)
    BY DEF SteadyOrigin, RateOrigin
  <2>3. "kkt" \in LayerFields
    BY DEF LayerFields
  <2>4. k.double_layer => "rizerofil" \in p["initial_rikzero_field"] /\ "rizerofil" \in p["kkt"]
    BY <2>2, <2>3 DEF Layered
  <2> QED BY <2>1, <2>4, Governed
<1>7. Reads(k, "zonfil") => InEffect("zonfil")
  <2> SUFFICES ASSUME Reads(k, "zonfil") PROVE InEffect("zonfil")
    OBVIOUS
  <2>1. Zones(k) = "zonfil"
    BY DEF Zones
  <2>2. p["depth_field"] = {"zonfil"} /\ p["erodible_thickness"] = {"zonfil"}
    BY <2>1 DEF Surface, Soil
  <2>3. ~Reads(k, "manningfil") => p["n_manning_field"] = {"zonfil"}
    BY <2>1 DEF Surface, ManningOrigin, Mannings
  <2> QED BY <2>2, <2>3, Governed
<1>8. /\ Reads(k, "outflow.txt") => InEffect("outflow.txt")
      /\ Reads(k, "hydrograph.txt") => InEffect("hydrograph.txt")
      /\ Reads(k, "inflow.txt") => InEffect("inflow.txt")
      /\ Reads(k, "tfail") => InEffect("tfail")
  BY Governed
<1>9. \/ file = "demfil"
      \/ file = "zonfil" /\ ~Reads(k, file)
      \/ file = "zonfil" /\ Reads(k, "zonfil")
      \/ file = "slofil" /\ Reads(k, "slofil")
      \/ file = "manningfil" /\ Reads(k, "manningfil")
      \/ file = "zfil" /\ Reads(k, "zfil") /\ k.double_layer
      \/ file = "depfil" /\ Reads(k, "depfil")
      \/ file = "rizerofil" /\ Reads(k, "rizerofil")
      \/ file = "outflow.txt" /\ Reads(k, "outflow.txt")
      \/ file = "hydrograph.txt" /\ Reads(k, "hydrograph.txt")
      \/ file = "inflow.txt" /\ Reads(k, "inflow.txt")
      \/ file = "tfail" /\ Reads(k, "tfail")
  BY DEF Consumed, Rasters, Sidecars
<1>10. (file = "zonfil" /\ ~Reads(k, file)) \/ InEffect(file)
  <2> HIDE DEF InEffect
  <2> QED BY <1>1, <1>2, <1>3, <1>4, <1>5, <1>6, <1>7, <1>8, <1>9
<1> QED BY <1>10

-----------------------------------------------------------------------------
(* A setup follows from the case of its session alone, whatever other      *)
(* sessions do in between.                                                 *)
Started(k) == Perform(Initialize(k), allocate_fields)
SetupInv ==
    /\ DOMAIN origin = Sessions
    /\ \A s \in Sessions :
          /\ phase[s] = "built" => origin[s] = Started(request[s].case)
          /\ phase[s] = "running" =>
                /\ ~SetupFails(request[s].case)
                /\ \E feeds \in BOOLEAN :
                      origin[s] = Perform(apply_native_runtime_inputs(request[s].case, feeds),
                                          Started(request[s].case))

\* Before any session.
LEMMA SetupInit == Init => SetupInv
BY DEF Init, SetupInv

\* Sessions do not touch each other's origins.
LEMMA SetupNext == TypesInv /\ SetupInv /\ [Next]_vars => SetupInv'
<1> SUFFICES ASSUME TypesInv, SetupInv, [Next]_vars PROVE SetupInv'
  OBVIOUS
<1>1. ASSUME NEW s \in Sessions, NEW p, p \notin {"built", "running"},
             phase' = [phase EXCEPT ![s] = p],
             \A t \in Sessions \ {s} : request'[t] = request[t] /\ origin'[t] = origin[t],
             DOMAIN origin' = Sessions
      PROVE  SetupInv'
  BY <1>1 DEF SetupInv, TypesInv
<1>2. ASSUME NEW s \in Sessions, NEW r \in Requests[s], Enter(s, r) PROVE SetupInv'
  BY <1>1, <1>2 DEF Enter, SetupInv, TypesInv
<1>3. ASSUME NEW s \in Sessions, Register(s) PROVE SetupInv'
  BY <1>1, <1>3 DEF Register, SetupInv
<1>4. ASSUME NEW s \in Sessions, CheckRuntime(s) PROVE SetupInv'
  <2> DEFINE p == CASE signature = request[s].signature -> "ready"
                    [] signature = Nobody               -> "checked"
                    [] OTHER                            -> "failed"
  <2>1. p \notin {"built", "running"}
    OBVIOUS
  <2>2. phase' = [phase EXCEPT ![s] = p] /\ request' = request /\ origin' = origin
    BY <1>4 DEF CheckRuntime
  <2> HIDE DEF p
  <2> QED BY <1>1, <2>1, <2>2 DEF SetupInv
<1>5. ASSUME NEW s \in Sessions, InitTaichi(s) \/ InitTaichiFails(s) PROVE SetupInv'
  BY <1>1, <1>5 DEF InitTaichi, InitTaichiFails, SetupInv
<1>6. ASSUME NEW s \in Sessions, Build(s) PROVE SetupInv'
  <2>1. CASE request[s].case.status["demfil"] # "good"
    BY <1>1, <1>6, <2>1 DEF Build, SetupInv
  <2>2. CASE request[s].case.status["demfil"] = "good"
    <3> DEFINE start == Started(request[s].case)
    <3>1. /\ phase' = [phase EXCEPT ![s] = "built"] /\ request' = request
          /\ origin' = [origin EXCEPT ![s] = start]
      BY <1>6, <2>2 DEF Build, Started
    <3>2. phase'[s] = "built" /\ origin'[s] = start /\ request'[s] = request[s]
      BY <3>1 DEF SetupInv, TypesInv
    <3>3. \A t \in Sessions \ {s} : /\ phase'[t] = phase[t] /\ origin'[t] = origin[t]
                                    /\ request'[t] = request[t]
      BY <3>1 DEF SetupInv, TypesInv
    <3>4. DOMAIN origin' = Sessions
      BY <3>1 DEF SetupInv
    <3>5. start = Started(request'[s].case)
      BY <3>2
    <3> HIDE DEF start
    <3> QED BY <3>2, <3>3, <3>4, <3>5 DEF SetupInv
  <2> QED BY <2>1, <2>2
<1>7. ASSUME NEW s \in Sessions, ApplyInputs(s) PROVE SetupInv'
  <2>1. CASE SetupFails(request[s].case)
    BY <1>1, <1>7, <2>1 DEF ApplyInputs, SetupInv
  <2>2. CASE ~SetupFails(request[s].case)
    <3>1. origin[s] = Started(request[s].case)
      BY <1>7 DEF ApplyInputs, SetupInv
    <3>2. PICK feeds \in BOOLEAN :
             origin' = [origin EXCEPT ![s] =
                Perform(apply_native_runtime_inputs(request[s].case, feeds), origin[s])]
      BY <1>7, <2>2 DEF ApplyInputs
    <3>3. phase' = [phase EXCEPT ![s] = "running"] /\ request' = request
      BY <1>7, <2>2 DEF ApplyInputs
    <3> DEFINE end == Perform(apply_native_runtime_inputs(request[s].case, feeds),
                              Started(request[s].case))
    <3>4. origin'[s] = end
      BY <3>1, <3>2 DEF SetupInv
    <3>5. phase'[s] = "running" /\ request'[s] = request[s]
      BY <3>3 DEF TypesInv
    <3>6. \A t \in Sessions \ {s} : /\ phase'[t] = phase[t] /\ origin'[t] = origin[t]
                                    /\ request'[t] = request[t]
      BY <3>2, <3>3 DEF SetupInv, TypesInv
    <3>7. DOMAIN origin' = Sessions
      BY <3>2 DEF SetupInv
    <3> DEFINE Ends(k, o) == \E x \in BOOLEAN : o = Perform(apply_native_runtime_inputs(k, x), Started(k))
    <3>8. Ends(request'[s].case, origin'[s]) /\ ~SetupFails(request'[s].case)
      BY <2>2, <3>4, <3>5
    <3>9. \A t \in Sessions : phase[t] = "running" => ~SetupFails(request[t].case) /\ Ends(request[t].case, origin[t])
      BY DEF SetupInv
    <3>10. \A t \in Sessions : phase'[t] = "running" =>
              ~SetupFails(request'[t].case) /\ Ends(request'[t].case, origin'[t])
      <4> HIDE DEF Ends
      <4> QED BY <3>6, <3>8, <3>9
    <3>11. \A t \in Sessions : phase'[t] = "built" => origin'[t] = Started(request'[t].case)
      BY <3>5, <3>6 DEF SetupInv
    <3> QED BY <3>7, <3>10, <3>11 DEF SetupInv
  <2> QED BY <2>1, <2>2
<1>8. ASSUME NEW s \in Sessions, Deregister(s) \/ RestoreEnvironment(s) PROVE SetupInv'
  BY <1>1, <1>8 DEF Deregister, RestoreEnvironment, SetupInv
<1>9. ASSUME NEW s \in Sessions, ResetRuntime(s) PROVE SetupInv'
  <2>1. /\ phase' = [phase EXCEPT ![s] = "idle"] /\ request' = [request EXCEPT ![s] = << >>]
        /\ origin' = [origin EXCEPT ![s] = << >>]
    BY <1>9 DEF ResetRuntime, Left
  <2> QED BY <1>1, <2>1 DEF SetupInv, TypesInv
<1>10. CASE UNCHANGED vars
  BY <1>10 DEF vars, sessionVars, SetupInv
<1> QED BY <1>2, <1>3, <1>4, <1>5, <1>6, <1>7, <1>8, <1>9, <1>10 DEF Next, Step

\* The origins of a running session.
LEMMA RunningOrigins ==
    ASSUME TypesInv, SetupInv, NEW s \in Sessions, phase[s] = "running",
           NEW k, k = request[s].case, NEW p, p = origin[s]
    PROVE  /\ k.double_layer \in BOOLEAN /\ k.status["rizerofil"] \in {"absent", "missing", "good"}
           /\ Surface(k, p, SlopeOrigin(k), ManningOrigin(k), DepthOrigin(k), RateOrigin(k),
                      ThicknessOrigin(k))
           /\ Layered(k, p, SteadyOrigin(k), ThicknessOrigin(k))
           /\ Reads(k, "outflow.txt") =>
                "outflow.txt" \in p["is_boundary"] /\ "outflow.txt" \in p["dfs_outflow_mask"]
           /\ Reads(k, "hydrograph.txt") => "hydrograph.txt" \in p["hydrograph_monitors"]
           /\ Reads(k, "inflow.txt") => "inflow.txt" \in p["inflow_hydrographs"]
           /\ Reads(k, "tfail") => "tfail" \in p["precomputed_failure_schedule"]
<1>1. k \in Cases
  <2>1. request[s] \in Requests[s]
    BY DEF TypesInv
  <2>2. request[s] \in AllRequests
    BY <2>1, RequestedSignature
  <2> QED BY <2>2, RuntimeAssumption
<1>2. k.double_layer \in BOOLEAN /\ k.status["rizerofil"] \in Statuses
  <2>1. "rizerofil" \in Inputs
    BY DEF Inputs, Rasters
  <2> QED BY <1>1, <2>1 DEF Cases
<1>3. ~SetupFails(k)
  BY DEF SetupInv
<1>4. k.status["rizerofil"] # "bad"
  BY <1>3 DEF SetupFails, Rasters
<1>5. PICK feeds \in BOOLEAN : p = Perform(apply_native_runtime_inputs(k, feeds), Started(k))
  BY DEF SetupInv
<1> DEFINE o == Started(k)
<1>6. o = Perform(Initialize(k), allocate_fields) /\ p = Perform(apply_native_runtime_inputs(k, feeds), o)
  BY <1>5 DEF Started
<1> HIDE DEF o
<1> QED BY <1>2, <1>4, <1>6, SetupOrigins DEF Statuses

\* The setup is as its case says, throughout.
LEMMA SetupAlways == Spec => []SetupInv
BY SetupInit, SetupNext, TypesAlways, PTL DEF Spec

(* For any sessions and cases, no derived field is out of date when a      *)
(* solver takes its first step, but those of a double layer whose slopes   *)
(* a file has replaced without restarting it.                              *)
(* (EDDASolver.initialize, apply_native_runtime_inputs)                    *)
THEOREM SetupsAreFresh == Spec => []SetupIsFresh
<1>1. TypesInv /\ SetupInv => SetupIsFresh
  <2> SUFFICES ASSUME TypesInv, SetupInv, NEW s \in Sessions, phase[s] = "running"
               PROVE  Outdated(request[s].case, origin[s]) # {}
                        <=> SlopesReplacedUnderLayer(request[s].case)
    BY DEF SetupIsFresh
  <2> DEFINE k == request[s].case
             p == origin[s]
  <2>1. k = request[s].case /\ p = origin[s]
    OBVIOUS
  <2> HIDE DEF k, p
  <2>2. Outdated(k, p) # {} <=> SlopesReplacedUnderLayer(k)
    BY <2>1, RunningOrigins, OutdatedLayer
  <2> QED BY <2>2 DEF k, p
<1> QED BY <1>1, TypesAlways, SetupAlways, PTL

(* For any sessions and cases, each file that is called consumed has its   *)
(* share in every field it stands for, except a zone file that cannot be   *)
(* used. (apply_native_runtime_inputs, _initialize_spatial_zones)          *)
THEOREM ConsumedFilesCount == Spec => []ConsumedIsInEffect
<1>1. TypesInv /\ SetupInv => ConsumedIsInEffect
  <2> SUFFICES ASSUME TypesInv, SetupInv, NEW s \in Sessions, phase[s] = "running",
                      NEW file \in Consumed(request[s].case)
               PROVE  \/ \A f \in Governs(request[s].case, file) : file \in origin[s][f]
                      \/ file = "zonfil" /\ ~Reads(request[s].case, file)
    BY DEF ConsumedIsInEffect
  <2> DEFINE k == request[s].case
             p == origin[s]
  <2>1. k = request[s].case /\ p = origin[s] /\ file \in Consumed(k)
    OBVIOUS
  <2> HIDE DEF k, p
  <2>2. \/ \A f \in Governs(k, file) : file \in p[f]
        \/ file = "zonfil" /\ ~Reads(k, file)
    BY <2>1, RunningOrigins, ConsumedGoverns
  <2> QED BY <2>2 DEF k, p
<1> QED BY <1>1, TypesAlways, SetupAlways, PTL

-----------------------------------------------------------------------------
(* One session at a time (TAICHI_FLOW_MAX_CONCURRENT_PROJECTS=1).          *)

\* Then a session that is to initialize Taichi finds it as its check did.
AloneInv ==
    /\ \A s, t \in Sessions : phase[s] # "idle" /\ phase[t] # "idle" => s = t
    /\ \A s \in Sessions : phase[s] = "checked" => signature = Nobody
    /\ ~overlapped /\ ~raced

\* Nobody else comes in between.
LEMMA AloneNext ==
    ASSUME MaxActive = 1 PROVE TypesInv /\ AloneInv /\ [Next]_vars => AloneInv'
<1> SUFFICES ASSUME TypesInv, AloneInv, [Next]_vars PROVE AloneInv'
  OBVIOUS
<1>0. phase \in [Sessions -> Phases]
  BY DEF TypesInv
<1>1. ASSUME NEW s \in Sessions, phase[s] # "idle", NEW p, phase' = [phase EXCEPT ![s] = p],
             overlapped' = overlapped, raced' = raced,
             p = "checked" => signature' = Nobody
      PROVE  AloneInv'
  BY <1>0, <1>1 DEF AloneInv
<1>2. ASSUME NEW s \in Sessions, NEW r \in Requests[s], Enter(s, r) PROVE AloneInv'
  <2>1. Busy = {}
    <3>1. Busy \in SUBSET Sessions /\ Cardinality(Busy) < 1
      BY <1>2 DEF Enter, Busy
    <3> QED BY <3>1, SessionsFinite
  <2>2. /\ phase' = [phase EXCEPT ![s] = "entered"] /\ overlapped' = (overlapped \/ Busy # {})
        /\ raced' = raced /\ signature' = signature
    BY <1>2 DEF Enter
  <2>3. \A t \in Sessions : phase[t] = "idle"
    BY <2>1 DEF Busy
  <2>4. \A t \in Sessions : phase'[t] = IF t = s THEN "entered" ELSE "idle"
    BY <1>0, <2>2, <2>3
  <2>5. ~overlapped' /\ ~raced'
    BY <2>1, <2>2 DEF AloneInv
  <2>6. \A t \in Sessions : phase'[t] # "checked"
    BY <2>4
  <2>7. \A t, u \in Sessions : phase'[t] # "idle" /\ phase'[u] # "idle" => t = u
    BY <2>4
  <2> QED BY <2>5, <2>6, <2>7 DEF AloneInv
<1>3. ASSUME NEW s \in Sessions, Register(s) \/ Deregister(s) PROVE AloneInv'
  BY <1>1, <1>3 DEF Register, Deregister, historyVars
<1>4. ASSUME NEW s \in Sessions, CheckRuntime(s) PROVE AloneInv'
  <2>1. /\ phase[s] # "idle" /\ signature' = signature
        /\ overlapped' = overlapped /\ raced' = raced
    BY <1>4 DEF CheckRuntime, processVars, historyVars
  <2>2. CASE signature = Nobody
    <3>1. \/ phase' = [phase EXCEPT ![s] = "checked"]
          \/ phase' = [phase EXCEPT ![s] = "ready"]
      BY <1>4, <2>2 DEF CheckRuntime
    <3> QED BY <1>1, <2>1, <2>2, <3>1
  <2>3. CASE signature # Nobody
    <3>1. \/ phase' = [phase EXCEPT ![s] = "ready"]
          \/ phase' = [phase EXCEPT ![s] = "failed"]
      BY <1>4, <2>3 DEF CheckRuntime
    <3> QED BY <1>1, <2>1, <3>1
  <2> QED BY <2>2, <2>3
<1>5. ASSUME NEW s \in Sessions, InitTaichi(s) \/ InitTaichiFails(s) PROVE AloneInv'
  <2>1. signature = Nobody /\ phase[s] # "idle"
    BY <1>5 DEF InitTaichi, InitTaichiFails, AloneInv
  <2>2. overlapped' = overlapped /\ (raced' <=> raced)
    BY <1>5, <2>1 DEF InitTaichi, InitTaichiFails
  <2>3. raced' = raced
    BY <1>5, <2>1 DEF InitTaichi, InitTaichiFails, TypesInv
  <2>4. PICK p \in {"ready", "failed"} : phase' = [phase EXCEPT ![s] = p]
    BY <1>5 DEF InitTaichi, InitTaichiFails
  <2> QED BY <1>1, <2>1, <2>2, <2>3, <2>4
<1>6. ASSUME NEW s \in Sessions, Build(s) \/ ApplyInputs(s) PROVE AloneInv'
  BY <1>1, <1>6 DEF Build, ApplyInputs, historyVars
<1>7. ASSUME NEW s \in Sessions, RestoreEnvironment(s) \/ ResetRuntime(s) PROVE AloneInv'
  BY <1>1, <1>7 DEF RestoreEnvironment, ResetRuntime, Left, historyVars
<1>8. CASE UNCHANGED vars
  BY <1>8 DEF vars, sessionVars, processVars, historyVars, AloneInv
<1> QED BY <1>2, <1>3, <1>4, <1>5, <1>6, <1>7, <1>8 DEF Next, Step

(* With one project at a time neither of the two hazards of shared state   *)
(* can occur: no initialization takes the fields of a running solver, and  *)
(* every solver is built in its own profile's environment, of which        *)
(* nothing is left afterwards.                                             *)
(* (default_max_concurrent_projects, BackendManager, RuntimeSession)       *)
THEOREM AloneIsSafe ==
    ASSUME MaxActive = 1
    PROVE  Spec => [](/\ unsigned \/ RuntimeIsSerialized
                      /\ \A s \in Running : gates[s] = ProfileEnvironment(request[s].profile)
                      /\ Busy = {} => env = Base)
<1> DEFINE Safe == /\ unsigned \/ RuntimeIsSerialized
                   /\ \A s \in Running : gates[s] = ProfileEnvironment(request[s].profile)
                   /\ Busy = {} => env = Base
<1>1. Init => AloneInv
  BY DEF Init, AloneInv
<1>2. TypesInv /\ AloneInv /\ [Next]_vars => AloneInv'
  BY AloneNext
<1>3. AloneInv /\ SerializedUnlessRaced /\ EnvironmentIsScoped => Safe
  BY DEF AloneInv, SerializedUnlessRaced, EnvironmentIsScoped
<1> HIDE DEF Safe
<1>4. Spec => []Safe
  BY <1>1, <1>2, <1>3, TypesAlways, SerializedButForTheRace, ScopedEnvironment, PTL DEF Spec
<1> QED BY <1>4 DEF Safe
=============================================================================
