------------------------------ MODULE Runtime ------------------------------
(***************************************************************************)
(* RuntimeSession and BackendManager: worker threads of one process share  *)
(* a Taichi program, a count of sessions and the environment variables.    *)
(* A session sets the environment of its profile, registers, makes sure    *)
(* Taichi is initialized, fills its solver's fields (SolverSetup), runs,   *)
(* and disposes of it all, resetting Taichi if it was the last.            *)
(*                                                                         *)
(* Each action is one stretch between the points where another thread may  *)
(* come in between: _active_lock and _RUNTIME_LOCK are each held for one   *)
(* action.  Taichi is external: an initialization or a reset ends the      *)
(* program before it, and the fields allocated in that one are lost.       *)
(***************************************************************************)
EXTENDS SolverSetup, FiniteSets

CONSTANTS
    Sessions,       \* the worker threads
    MaxActive,      \* max_concurrent_projects
    Requests,       \* by session, the runs it may get: [profile, signature, case]
    Environment,    \* by profile, the variables it sets: [Keys -> values]
    Base,           \* the environment the process started with; "gates" stands
                    \* for the EDDA_EXPERIMENT_* and native feed switches
    Nobody,         \* no signature: Taichi is not initialized
    Unset           \* no value

Keys == DOMAIN Base
Profiles == DOMAIN Environment
AllRequests == UNION {Requests[s] : s \in Sessions}
Signatures == {r.signature : r \in AllRequests}

ASSUME RuntimeAssumption ==
    /\ IsFiniteSet(Sessions) /\ MaxActive \in Nat \ {0}
    /\ \A r \in AllRequests : r.profile \in Profiles /\ r.case \in Cases
    /\ \A p \in Profiles : DOMAIN Environment[p] \subseteq Keys
    /\ "gates" \in Keys /\ Base = [k \in Keys |-> Base[k]]
    /\ Nobody \notin Signatures

VARIABLES
    phase,        \* where a session is
    request,      \* what it runs
    previous,     \* _previous_environment: what it has to restore
    should_reset, \* whether it was the last when it left
    gates,        \* the environment its solver was constructed in
    fields,       \* whether its fields exist: "none", "live", "lost"
    origin,       \* where their values come from (SolverSetup)
    active,       \* RuntimeSession._active_sessions
    signature,    \* _RUNTIME_SIGNATURE, and that of the manager
    env,          \* os.environ, what the profiles touch of it
    overlapped,   \* history: two sessions were in the environment at once
    raced,        \* history: Taichi was initialized over another's check
    unsigned      \* history: a session went on without an initialization

sessionVars == <<phase, request, previous, should_reset, gates, fields, origin>>
processVars == <<active, signature, env>>
historyVars == <<overlapped, raced, unsigned>>
vars == <<sessionVars, processVars, historyVars>>

Registered == {"registered", "checked", "ready", "built", "running", "failed"}
Phases == {"idle", "entered", "leaving", "restored"} \cup Registered
RegisteredSessions == {s \in Sessions : phase[s] \in Registered}
Busy == {s \in Sessions : phase[s] # "idle"}

RuntimeTypeOK ==
    /\ phase \in [Sessions -> Phases]
    /\ \A s \in Sessions : phase[s] = "idle" \/ request[s] \in Requests[s]
    /\ should_reset \in [Sessions -> BOOLEAN]
    /\ fields \in [Sessions -> {"none", "live", "lost"}]
    /\ active \in 0 .. Cardinality(Sessions) /\ signature \in Signatures \cup {Nobody}
    /\ overlapped \in BOOLEAN /\ raced \in BOOLEAN /\ unsigned \in BOOLEAN

Init ==
    /\ phase = [s \in Sessions |-> "idle"]
    /\ request = [s \in Sessions |-> << >>]
    /\ previous = [s \in Sessions |-> << >>]
    /\ should_reset = [s \in Sessions |-> FALSE]
    /\ gates = [s \in Sessions |-> << >>]
    /\ fields = [s \in Sessions |-> "none"]
    /\ origin = [s \in Sessions |-> << >>]
    /\ active = 0 /\ signature = Nobody /\ env = Base
    /\ overlapped = FALSE /\ raced = FALSE /\ unsigned = FALSE
-----------------------------------------------------------------------------
(* The environment.                                                        *)

Applied(profile) ==
    [k \in Keys |-> IF k \in DOMAIN Environment[profile] THEN Environment[profile][k] ELSE env[k]]
Captured(profile) == [k \in DOMAIN Environment[profile] |-> env[k]]
Restored(saved) == [k \in Keys |-> IF k \in DOMAIN saved THEN saved[k] ELSE env[k]]

(* RuntimeSession.initialize.  The coordinator starts a run next to others *)
(* only within its limit and if they have its profile.                     *)

Enter(s, r) ==
    /\ phase[s] = "idle"
    /\ Cardinality(Busy) < MaxActive
    /\ \A t \in Busy : request[t].profile = r.profile
    /\ phase' = [phase EXCEPT ![s] = "entered"]
    /\ request' = [request EXCEPT ![s] = r]
    /\ previous' = [previous EXCEPT ![s] = Captured(r.profile)]
    /\ env' = Applied(r.profile)
    /\ overlapped' = (overlapped \/ Busy # {})
    /\ UNCHANGED <<should_reset, gates, fields, origin, active, signature, raced, unsigned>>

Register(s) ==
    /\ phase[s] = "entered"
    /\ active' = active + 1
    /\ phase' = [phase EXCEPT ![s] = "registered"]
    /\ UNCHANGED <<request, previous, should_reset, gates, fields, origin, signature, env, historyVars>>

(* BackendManager.initialize: the check, then the initialization.          *)

\* mutant: an initialized runtime is reused whatever its signature
CheckRuntimeAny(s) ==
    /\ phase[s] = "registered"
    /\ phase' = [phase EXCEPT ![s] = IF signature # Nobody THEN "ready" ELSE "checked"]
    /\ UNCHANGED <<request, previous, should_reset, gates, fields, origin, processVars, historyVars>>

CheckRuntime(s) ==
    /\ phase[s] = "registered"
    /\ phase' = [phase EXCEPT ![s] =
                    CASE signature = request[s].signature -> "ready"
                      [] signature = Nobody               -> "checked"
                      [] OTHER                            -> "failed"]
    /\ UNCHANGED <<request, previous, should_reset, gates, fields, origin, processVars, historyVars>>

Lost == [t \in Sessions |-> IF fields[t] = "live" THEN "lost" ELSE fields[t]]

\* The requested backend, or the CPU if it fails.
InitTaichi(s) ==
    /\ phase[s] = "checked"
    /\ phase' = [phase EXCEPT ![s] = "ready"]
    /\ signature' = request[s].signature
    /\ fields' = Lost
    /\ raced' = (raced \/ signature # Nobody)
    /\ UNCHANGED <<request, previous, should_reset, gates, origin, active, env, overlapped, unsigned>>

\* When the CPU was requested and fails, the error is logged and that is all.
InitTaichiFails(s) ==
    /\ phase[s] = "checked"
    /\ \/ /\ request[s].signature.backend = "cpu"
          /\ phase' = [phase EXCEPT ![s] = "ready"]
          /\ unsigned' = TRUE
       \/ /\ request[s].signature.backend # "cpu"
          /\ phase' = [phase EXCEPT ![s] = "failed"]
          /\ UNCHANGED unsigned
    /\ fields' = Lost
    /\ raced' = (raced \/ signature # Nobody)
    /\ UNCHANGED <<request, previous, should_reset, gates, origin, processVars, overlapped>>

(* EDDASolver.initialize after that, and apply_native_runtime_inputs.      *)

Build(s) ==
    /\ phase[s] = "ready"
    /\ \/ /\ request[s].case.status["demfil"] # "good"
          /\ phase' = [phase EXCEPT ![s] = "failed"]
          /\ UNCHANGED <<fields, gates, origin>>
       \/ /\ request[s].case.status["demfil"] = "good"
          /\ phase' = [phase EXCEPT ![s] = "built"]
          /\ fields' = [fields EXCEPT ![s] = "live"]
          /\ gates' = [gates EXCEPT ![s] = env]
          /\ origin' = [origin EXCEPT ![s] =
                           Perform(Initialize(request[s].case), allocate_fields)]
    /\ UNCHANGED <<request, previous, should_reset, processVars, historyVars>>

ApplyInputs(s) ==
    /\ phase[s] = "built"
    /\ \/ /\ SetupFails(request[s].case)
          /\ phase' = [phase EXCEPT ![s] = "failed"]
          /\ UNCHANGED origin
       \/ /\ ~SetupFails(request[s].case)
          /\ phase' = [phase EXCEPT ![s] = "running"]
          \* the native provider is asked for by the environment, and may feed nothing
          /\ \E provider_feeds \in IF env["gates"] = Unset THEN {FALSE} ELSE BOOLEAN :
                origin' = [origin EXCEPT ![s] =
                     Perform(apply_native_runtime_inputs(request[s].case, provider_feeds), origin[s])]
    /\ UNCHANGED <<request, previous, should_reset, gates, fields, processVars, historyVars>>

(* RuntimeSession.dispose, after the run or after an error.                *)

OneLess == IF active = 0 THEN 0 ELSE active - 1

\* mutant: a session that failed is not taken off
DeregisterSucceeded(s) ==
    /\ phase[s] \in {"running", "failed"}
    /\ active' = IF phase[s] = "failed" THEN active ELSE OneLess
    /\ should_reset' = [should_reset EXCEPT ![s] = (active' = 0)]
    /\ phase' = [phase EXCEPT ![s] = "leaving"]
    /\ UNCHANGED <<request, previous, gates, fields, origin, signature, env, historyVars>>

\* mutant: whether it is the last session is asked before it is taken off
DeregisterLate(s) ==
    /\ phase[s] \in {"running", "failed"}
    /\ active' = OneLess
    /\ should_reset' = [should_reset EXCEPT ![s] = (active = 0)]
    /\ phase' = [phase EXCEPT ![s] = "leaving"]
    /\ UNCHANGED <<request, previous, gates, fields, origin, signature, env, historyVars>>

Deregister(s) ==
    /\ phase[s] \in {"running", "failed"}
    /\ active' = OneLess
    /\ should_reset' = [should_reset EXCEPT ![s] = (active' = 0)]
    /\ phase' = [phase EXCEPT ![s] = "leaving"]
    /\ UNCHANGED <<request, previous, gates, fields, origin, signature, env, historyVars>>

\* mutant: the variables a profile added are kept
RestoreSetOnly(s) ==
    /\ phase[s] = "leaving"
    /\ phase' = [phase EXCEPT ![s] = "restored"]
    /\ env' = [k \in Keys |-> IF k \in DOMAIN previous[s] /\ previous[s][k] # Unset
                              THEN previous[s][k] ELSE env[k]]
    /\ previous' = [previous EXCEPT ![s] = << >>]
    /\ UNCHANGED <<request, should_reset, gates, fields, origin, active, signature, historyVars>>

RestoreEnvironment(s) ==
    /\ phase[s] = "leaving"
    /\ phase' = [phase EXCEPT ![s] = "restored"]
    /\ env' = Restored(previous[s])
    /\ previous' = [previous EXCEPT ![s] = << >>]
    /\ UNCHANGED <<request, should_reset, gates, fields, origin, active, signature, historyVars>>

Left(s) ==
    /\ phase[s] = "restored"
    /\ phase' = [phase EXCEPT ![s] = "idle"]
    /\ should_reset' = [should_reset EXCEPT ![s] = FALSE]
    /\ request' = [request EXCEPT ![s] = << >>]
    /\ gates' = [gates EXCEPT ![s] = << >>]
    /\ origin' = [origin EXCEPT ![s] = << >>]
    /\ UNCHANGED <<previous, active, env, historyVars>>

\* mutant: the last session resets without asking again
ResetUnchecked(s) ==
    /\ Left(s)
    /\ \/ should_reset[s] /\ signature' = Nobody /\ fields' = [Lost EXCEPT ![s] = "none"]
       \/ ~should_reset[s] /\ fields' = [fields EXCEPT ![s] = "none"] /\ UNCHANGED signature

ResetRuntime(s) ==
    /\ Left(s)
    /\ \/ /\ should_reset[s] /\ active = 0
          /\ signature' = Nobody
          /\ fields' = [Lost EXCEPT ![s] = "none"]
       \/ /\ ~(should_reset[s] /\ active = 0)
          /\ fields' = [fields EXCEPT ![s] = "none"]
          /\ UNCHANGED signature

Step(s) ==
    \/ \E r \in Requests[s] : Enter(s, r)
    \/ Register(s) \/ CheckRuntime(s) \/ InitTaichi(s) \/ InitTaichiFails(s)
    \/ Build(s) \/ ApplyInputs(s)
    \/ Deregister(s) \/ RestoreEnvironment(s) \/ ResetRuntime(s)
Next == \E s \in Sessions : Step(s)

Spec == Init /\ [][Next]_vars
-----------------------------------------------------------------------------
(* A reset never takes Taichi from a session that has registered, however  *)
(* the last one's leaving and the next one's coming interleave.            *)
(* (RuntimeSession.dispose: "a new session cannot race a reset between     *)
(* decrement and disposal")                                                *)
ResetSparesSessions ==
    [][signature # Nobody /\ signature' = Nobody => RegisteredSessions = {}]_vars

(* When no session is left Taichi has been released and nothing is         *)
(* counted, so that the next run may choose another signature.             *)
(* (RuntimeSession.dispose, reset_taichi_runtime)                          *)
ReleasedWhenIdle == Busy = {} => active = 0 /\ signature = Nobody

(* "It serializes runtime initialization/reset/disposal and never mixes    *)
(* incompatible Taichi initialization signatures in one active runtime     *)
(* set": a running solver has its fields, and the runtime its signature.   *)
(* (BackendManager.initialize)                                             *)
Running == {s \in Sessions : phase[s] \in {"built", "running"}}
RuntimeIsSerialized ==
    \A s \in Running : fields[s] = "live" /\ signature = request[s].signature

(* It does so unless two sessions passed the check before either of them   *)
(* initialized Taichi, or a failed CPU backend was passed over.            *)
SerializedUnlessRaced == raced \/ unsigned \/ RuntimeIsSerialized

(* A solver is built in the environment its profile asks for, and none of  *)
(* it outlives the session, as long as sessions do not overlap.            *)
(* (apply_profile_environment, restore_profile_environment)                *)
ProfileEnvironment(p) ==
    [k \in Keys |-> IF k \in DOMAIN Environment[p] THEN Environment[p][k] ELSE Base[k]]
EnvironmentIsScoped ==
    ~overlapped => /\ \A s \in Running : gates[s] = ProfileEnvironment(request[s].profile)
                   /\ Busy = {} => env = Base

(* Before its first step a solver's derived fields - Manning coefficients, *)
(* erodible soil, steady infiltration, heads of the double layer - belong  *)
(* to the fields they are derived from; only slopes that replace those of  *)
(* the DEM under a double layer that is not restarted leave it behind.     *)
(* (EDDASolver.initialize, apply_native_runtime_inputs)                    *)
SetupIsFresh ==
    \A s \in Sessions :
        phase[s] = "running" =>
            (Outdated(request[s].case, origin[s]) # {} <=> SlopesReplacedUnderLayer(request[s].case))

(* What the manifest calls consumed is in effect: later files and restarts *)
(* of the double layer leave every earlier file its share.  A zone file    *)
(* that cannot be used is called consumed too, and is not.                 *)
(* (apply_native_runtime_inputs, _initialize_spatial_zones)                *)
ConsumedIsInEffect ==
    \A s \in Sessions :
        phase[s] = "running" =>
            \A file \in Consumed(request[s].case) :
                \/ \A f \in Governs(request[s].case, file) : file \in origin[s][f]
                \/ file = "zonfil" /\ ~Reads(request[s].case, file)
=============================================================================
