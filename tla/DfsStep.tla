------------------------------ MODULE DfsStep ------------------------------
(***************************************************************************)
(* DFSDynamicWaveSolver.step as a flow of data.  An attempt is a sequence  *)
(* of effects, one for each kernel or host function the step calls, in the *)
(* order of the code.  An effect says which fields the call reads and      *)
(* which it determines; a field it changes only in part, or from its old   *)
(* value, is among those it reads.                                         *)
(*                                                                         *)
(* What is asked of the step is which fields still depend on something,    *)
(* say on an attempt that was rejected, after it: Influence follows a set  *)
(* of such fields through the effects.  The pseudo-field "attempt" stands  *)
(* for what is particular to one attempt: its dt, and that it happens.     *)
(* A recomputation from committed values alone does not read it.           *)
(*                                                                         *)
(* The parameter v of the operators is the variant of the step the case    *)
(* and the environment select (see Variants).                              *)
(***************************************************************************)
EXTENDS Naturals, Sequences

Kernel(reads, writes) == [reads |-> reads, writes |-> writes]
Fresh(writes) == Kernel({}, writes)
Nothing == <<>>

Through(effect, fields) ==
    IF effect.reads \cap fields = {} THEN fields \ effect.writes ELSE fields \cup effect.writes

Influence(effects, fields) ==
    LET all == fields \cup UNION {effects[i].writes : i \in 1..Len(effects)}
        from[at \in (1..Len(effects) + 1) \X SUBSET all] ==
            IF at[1] > Len(effects) THEN at[2]
            ELSE from[<<at[1] + 1, Through(effects[at[1]], at[2])>>]
    IN  from[<<1, fields>>]

(* infiltration: dfs_infiltration_variant, or transient Green-Ampt.        *)
(* failure: the double-layer model or the precomputed schedule.            *)
(* rnoff: hook off, applied late, or period precompute on host or device.  *)
(* parity: cvbar_erosion_parity; carry: tanslodir carry; inject: inflow    *)
(* with a directional velocity; shortcut: return at a CFL reject; probe,   *)
(* mutate: the diagnostics and the mutation gates of the environment; the  *)
(* probes come in a full and a light form.                                 *)
Variants ==
    [infiltration : {"default", "direct", "green_ampt"},
     failure      : {"double_layer", "schedule"},
     rnoff        : {"off", "late", "host", "device"},
     stormdrain   : BOOLEAN, parity : BOOLEAN, carry : BOOLEAN,
     inject       : BOOLEAN, shortcut : BOOLEAN, mutate : BOOLEAN,
     probe : {"off", "light", "full"}]
-----------------------------------------------------------------------------
(* The state that outlives a step, and the workspace of one attempt.  The  *)
(* soil of a cell stands under kkt, kkt1, pt, desat, FS and fdepth while   *)
(* the cell is sound and under the same names with _failed once it has     *)
(* failed (is_failed): the Richards and stability kernels pass over it     *)
(* then, the restoration and the pore pressure do not.                     *)

Transported == {"h", "rho", "Cv", "z_bed", "fv", "u", "v", "vdir"}
Bed         == {"erodible_thickness", "depo_thickness", "erosion_depth", "deposition_depth"}
Maxima      == {"max_flow_velocity", "max_flow_depth", "total_depth"}
Soil        == {"F_cumulative", "kkt", "is_failed", "fired", "kkt_failed", "kkt1_failed",
                "FS_failed", "fdepth_failed"}
Limiter     == {"rholimit", "rholimit_initialized", "tanslodir_carry"}
Totals      == {"total_volumes"}
Committed   == Transported \cup Bed \cup Maxima \cup Soil \cup Limiter \cup Totals
                 \cup {"legacy_previous_face_cvbar"}

Workspace ==
    {"tempri", "tempinflow", "fhw", "fhpredi1", "frhopredi1", "tempele", "tempfsh",
     "tempfsrho", "fhpredi", "frhopredi", "fhpredi2", "frhopredi2", "qtnet",
     "qmassnet", "absubar", "tau", "rhodepo", "fv_pred", "qq", "qqt", "qqmass", "fybar"}

reset_step_workspace ==
    << Fresh(Workspace),
       Kernel({"erodible_thickness"}, {"temp_erodible"}),
       Kernel({"depo_thickness"}, {"temp_depo"}) >>
-----------------------------------------------------------------------------
(* Before the sources: rainfall, slope limiter, inflow and infiltration.   *)

apply_rainfall == << Kernel({"attempt"}, {"rainfall"}) >>

zero_tanslodir_carry ==
    << Kernel({"rholimit_initialized", "tanslodir_carry"}, {"tanslodir_carry"}) >>

seed_initial_rholimit ==
    << Kernel({"rholimit_initialized", "rholimit"}, {"rholimit"}),
       Fresh({"rholimit_initialized"}) >>

\* A cell with a negative slope keeps its rholimit; recomputing changes nothing.
bed_slope_limiter ==
    << Kernel({"h", "z_bed"}, {"tanslo", "cvlimit"}),
       Kernel({"h", "z_bed", "rholimit"}, {"rholimit"}) >>

\* The carried slopes go from cell to cell and from attempt to attempt.
bed_slope_limiter_with_carry ==
    << Kernel({"h", "z_bed", "tanslodir_carry"}, {"tanslo", "cvlimit"}),
       Kernel({"h", "z_bed", "tanslodir_carry", "rholimit", "attempt"},
              {"rholimit", "tanslodir_carry"}) >>

reset_first_reject == << Kernel({"attempt"}, {"first_reject", "reject_flag", "suggested_dt"}) >>

\* The denominator comes from the configuration alone, also the directional one.
inflow_denominator == Fresh({"inflow_denominator"})
build_inflow_stage_arrays ==
    << inflow_denominator, Kernel({"attempt", "inflow_denominator"}, {"tempinflow"}) >>

\* The directional variant writes the velocity of the committed state.
stage_inflow_forcing(v) ==
    build_inflow_stage_arrays
      \o (IF v.inject THEN << Kernel({"attempt", "tempinflow", "fv"}, {"fv"}) >> ELSE Nothing)

Forcing == {"tempri", "fhw", "infiltration", "fhpredi1", "frhopredi1"}

stage_surface_forcing ==
    << Kernel({"h", "rho", "Cv", "rainfall", "tempinflow", "attempt"}, Forcing) >>
stage_surface_forcing_direct_rain_plus_storage ==
    << Kernel({"h", "rho", "Cv", "rainfall", "tempinflow", "attempt"}, Forcing) >>

\* mutant: the candidate advances from the last candidate
stage_surface_forcing_green_ampt_from_candidate ==
    build_inflow_stage_arrays \o
    << Kernel({"h", "rho", "Cv", "rainfall", "tempinflow", "ci_candidate", "attempt"},
              Forcing \cup {"ci_candidate"}) >>

\* The cumulative infiltration advances in a candidate only.
stage_surface_forcing_green_ampt ==
    build_inflow_stage_arrays \o
    << Kernel({"h", "rho", "Cv", "rainfall", "tempinflow", "F_cumulative", "attempt"},
              Forcing \cup {"ci_candidate"}) >>

surface_forcing(v) ==
    CASE v.infiltration = "direct"     -> stage_surface_forcing_direct_rain_plus_storage
      [] v.infiltration = "green_ampt" -> stage_surface_forcing_green_ampt
      [] OTHER                         -> stage_surface_forcing
-----------------------------------------------------------------------------
(* RNOFF: before the staging (precompute) or after it (late).              *)

(* The runoff of a cell is routed from zero in every attempt.              *)

rnoff_route_on_host   == << Kernel({"rainfall"}, {"rnoff_ir", "rnoff_ro"}) >>
rnoff_prepare_inputs  == << Kernel({"rainfall"}, {"rnoff_rideb", "rnoff_ir_cell"}),
                            Fresh({"rnoff_ro"}) >>
rnoff_route           == << Kernel({"rnoff_rideb", "rnoff_ir_cell", "rnoff_ro"},
                                   {"rnoff_ir_cell", "rnoff_ro"}) >>
rnoff_write_ir_grid   == << Kernel({"rnoff_ir_cell"}, {"rnoff_ir"}) >>
rnoff_route_on_device == rnoff_prepare_inputs \o rnoff_route \o rnoff_write_ir_grid

\* Precompute is refused with Green-Ampt infiltration.
rnoff_precomputes(v) == v.rnoff \in {"host", "device"} /\ v.infiltration # "green_ampt"

rnoff_period_precompute(v) ==
    IF ~rnoff_precomputes(v) THEN Nothing
    ELSE IF v.rnoff = "device" THEN rnoff_route_on_device ELSE rnoff_route_on_host

rnoff_surface_staging ==
    << Kernel({"h", "rho", "tempri", "rnoff_ir", "tempinflow", "attempt"},
              {"infiltration", "fhpredi1", "frhopredi1"}) >>

rnoff_late_hook == << Kernel({"tempri"}, {"infiltration", "rnoff_ro"}) >>

rnoff_after_staging(v) ==
    CASE rnoff_precomputes(v) -> rnoff_surface_staging
      [] v.rnoff = "late"     -> rnoff_late_hook
      [] OTHER                -> Nothing
-----------------------------------------------------------------------------
(* Sources: erosion, deposition, landslides, and their merge.              *)

SourceDiagnostics == {"absubar", "tau", "taoc", "erorate_raw", "deporate_raw", "gates"}

compute_source_rates(v) ==
    << Kernel({"fhpredi1", "frhopredi1", "fv", "h", "tanslo", "rholimit", "cvlimit",
               "erodible_thickness", "depo_thickness", "attempt"}
                \cup (IF v.parity THEN {"legacy_previous_face_cvbar"} ELSE {}),
              {"erosion_rate", "deposition_rate", "rhodepo", "temp_erodible", "temp_depo"}
                \cup SourceDiagnostics) >>

\* Of a sound cell kkt1 keeps the committed head that a rejection restores, of a failed
\* one the head before the step it failed in.  (Below slomin neither ever changes.)
solve_richards ==
    << Kernel({"kkt", "is_failed"}, {"kkt1"}),
       Kernel({"kkt1", "infiltration", "is_failed", "attempt"}, {"kkt"}) >>
compute_pore_pressure ==
    << Kernel({"kkt"}, {"pt", "desat"}), Kernel({"kkt_failed"}, {"pt_failed", "desat_failed"}) >>
\* Cells that have failed keep the factor and depth they failed with.
find_minimum_fs == << Kernel({"pt", "desat", "is_failed"}, {"FS", "fdepth"}) >>

\* The cells with FS < 1 have failed from here on.
fail_cells ==
    << Kernel({"FS", "fdepth", "is_failed", "attempt"}, {"is_failed"}),
       Kernel({"FS", "kkt", "kkt_failed"}, {"kkt_failed"}),
       Kernel({"FS", "kkt1", "kkt1_failed"}, {"kkt1_failed"}),
       Kernel({"FS", "pt", "desat", "pt_failed", "desat_failed"}, {"pt_failed", "desat_failed"}),
       Kernel({"FS", "fdepth", "FS_failed", "fdepth_failed"}, {"FS_failed", "fdepth_failed"}) >>

\* "released" says whether some cell failed in this attempt.
populate_failure_source_terms(released) ==
    << Kernel({"FS", "fdepth", "is_failed", "attempt"}, {"tempfsh", "tempfsrho"}) >>
      \o (IF released THEN fail_cells ELSE Nothing)

double_layer_failure(released) ==
    solve_richards \o compute_pore_pressure \o find_minimum_fs
      \o populate_failure_source_terms(released)

stage_failure_schedule ==
    << Kernel({"fired", "fire_mask", "erodible_thickness", "attempt"},
              {"tempfsh", "tempfsrho", "candidate_fired"}) >>

failure_sources(v, released) ==
    IF v.failure = "schedule" THEN stage_failure_schedule
    ELSE double_layer_failure(released)

merge_source_terms ==
    << Kernel({"z_bed", "erosion_rate", "deposition_rate", "tempfsh", "attempt"}, {"tempele"}),
       Kernel({"fhpredi1", "frhopredi1", "erosion_rate", "deposition_rate", "rhodepo",
               "tempfsh", "tempfsrho", "attempt"}, {"fhpredi", "frhopredi"}) >>
-----------------------------------------------------------------------------
(* Erosion and deposition, face fluxes, predictor and depth: each has a    *)
(* diagnostic copy and a gate that writes a copy that matched back.        *)

diagnostic_bookkeeping ==
    << Kernel({"erosion_rate", "deposition_rate", "tempfsh", "tempele", "erosion_depth",
               "deposition_depth", "attempt"},
              {"erorate_diag", "deporate_diag", "deep_state_diag"}) >>
\* What the kernel wrote is compared with what the host computes.
erosion_deposition_diagnostic ==
    diagnostic_bookkeeping \o
    << Kernel({"erorate_diag", "deporate_diag", "deep_state_diag", "erosion_rate",
               "deposition_rate", "tempfsh", "tempele", "erosion_depth", "attempt"},
              {"erosion_deposition_matched"}) >>
erosion_deposition_writeback ==
    << Kernel({"erosion_deposition_matched", "erorate_diag", "deporate_diag", "erosion_rate",
               "deposition_rate"}, {"erosion_rate", "deposition_rate"}) >>

face_flux_diagnostic == << Kernel({"fv_pred", "qq", "qqmass"}, {"face_flux_diag"}) >>

qnet_diagnostic == << Kernel({"qq", "qqmass"}, {"qnet_diag", "qmassnet_diag"}) >>
qnet_writeback  == << Kernel({"qnet_diag", "qmassnet_diag", "qnet", "qmassnet"},
                             {"qnet", "qmassnet"}) >>

predictor_diagnostic == << Kernel({"fhpredi", "frhopredi", "qnet", "qmassnet"},
                                  {"fhpredi2_diag", "frhopredi2_diag"}) >>
predictor_writeback  == << Kernel({"fhpredi2_diag", "frhopredi2_diag", "fhpredi2", "frhopredi2"},
                                  {"fhpredi2", "frhopredi2"}) >>

h_cv_rho_diagnostic == << Kernel({"fhpredi2", "frhopredi2"}, {"h_diag", "Cv_diag", "rho_diag"}) >>
h_cv_rho_writeback  == << Kernel({"h_diag", "Cv_diag", "rho_diag", "h", "Cv", "rho"},
                                 {"h", "Cv", "rho"}) >>

IfMutated(v, effects) == IF v.mutate THEN effects ELSE Nothing
-----------------------------------------------------------------------------
(* Face fluxes: the depth gate and velocity of a face, the limiter and the *)
(* CFL test, the discharge and its mirror at the neighbour.                *)

Face == {"fv_pred", "fybar", "qq", "qqt", "qqmass"}

\* The first of several rejections is recorded, and all of them set the flag.
record_first_reject(reads) ==
    Kernel(reads \cup {"reject_flag", "first_reject"}, {"reject_flag", "first_reject"})

reset_edge_fluxes == << Fresh(Face) >>
face_depth ==
    << Kernel({"fhpredi", "frhopredi", "tempele"}, {"face_grad", "fybar"}) >>
face_velocity ==
    << Kernel({"face_grad", "fybar", "fhpredi", "frhopredi", "tanslo", "fv", "tempfsh",
               "erosion_rate", "deposition_rate", "attempt"}, {"fv_pred", "face_dt0"}) >>
face_courant ==
    << Kernel({"fv_pred", "fybar", "attempt"}, {"max_wave_speed"}),
       record_first_reject({"fv_pred", "fybar", "attempt"}) >>
face_discharge ==
    << Kernel({"fv_pred", "face_dt0", "fhpredi", "frhopredi", "attempt"},
              {"qq", "qqt", "qqmass"}) >>

compute_edge_fluxes ==
    reset_edge_fluxes \o face_depth \o face_velocity \o face_courant \o face_discharge

\* The parity carry is taken before it is known whether the attempt holds.
update_legacy_previous_face_cvbar ==
    << Kernel({"fhpredi", "frhopredi", "legacy_previous_face_cvbar"},
              {"legacy_previous_face_cvbar"}) >>

accumulate_and_check ==
    << Kernel({"qq", "qqt", "qqmass"}, {"qnet", "qtnet", "qmassnet"}),
       Kernel({"qnet", "qmassnet", "fhpredi", "frhopredi"}, {"fhpredi2", "frhopredi2"}),
       record_first_reject({"fhpredi2", "fhpredi"}) >>

stormdrain_exchange == << Kernel({"fhpredi2", "attempt"}, {"fhpredi2"}) >>
-----------------------------------------------------------------------------
(* The volume balance.                                                     *)

reset_volume_accumulators == << Fresh({"acc_volumes"}) >>
accumulate_volume_balance ==
    << Kernel({"acc_volumes", "fhpredi2", "infiltration", "tempinflow", "tempri",
               "erosion_rate", "tempfsh", "deposition_rate", "temp_depo", "attempt"},
              {"acc_volumes"}) >>

finalize_volume_balance ==
    << Kernel({"total_volumes", "acc_volumes"}, {"cand_volumes"}),
       Kernel({"cand_volumes", "reject_flag", "first_reject", "suggested_dt", "attempt"},
              {"reject_flag", "first_reject", "suggested_dt"}) >>
post_balance_outflow == << Kernel({"fhpredi2", "frhopredi2"}, {"fhpredi2", "frhopredi2"}) >>

(* The probes only copy.                                                   *)

capture_depo_velocity(n) == << Kernel({"fv"}, {n}) >>
source_entry_probe  == << Kernel({"h", "rho", "fv", "fhpredi1", "frhopredi1", "attempt"},
                                 {"momentum_probe"}) >>
source_entry_probe_light == << Kernel({"h", "z_bed", "fv", "fhpredi1", "attempt"},
                                      {"momentum_probe"}) >>
face_flux_probe     == << Kernel({"fv", "fv_pred", "fhpredi", "frhopredi", "qq", "attempt"},
                                 {"momentum_probe"}) >>
face_flux_probe_light == << Kernel({"fv", "fv_pred", "fhpredi", "frhopredi", "qq",
                                     "momentum_probe", "attempt"}, {"momentum_probe"}) >>
post_edge_probe_light ==
    << Kernel({"fhpredi", "tempele", "fybar", "fv", "fv_pred", "qqt", "momentum_probe",
               "attempt"}, {"momentum_probe"}) >>
accumulate_probe    == << Kernel({"qnet", "fhpredi2", "momentum_probe"}, {"momentum_probe"}) >>
stage_trace         == << Kernel({"h", "fhpredi", "fhpredi2", "z_bed", "attempt"},
                                 {"stage_trace"}) >>
IfProbed(v, effects) == IF v.probe # "off" THEN effects ELSE Nothing
Probe(v, light, full) ==
    CASE v.probe = "light" -> light [] v.probe = "full" -> full [] OTHER -> Nothing

\* Rates, gates and sums of an accepted step, taken before its commit.
erosion_step_record ==
    << Kernel(SourceDiagnostics \cup {"fhpredi1", "frhopredi1", "h", "Cv", "cvlimit", "fv",
               "fv_pred", "tanslo", "tempfsh", "tempfsrho", "tempele", "erosion_depth",
               "deposition_depth", "erosion_rate", "deposition_rate", "fhpredi2", "qnet",
               "erosion_record", "attempt"}, {"erosion_record"}) >>
-----------------------------------------------------------------------------
(* The attempt up to the CFL test, and from there to its end.              *)

limiter(v) ==
    zero_tanslodir_carry \o seed_initial_rholimit \o reset_step_workspace
      \o (IF v.carry THEN bed_slope_limiter_with_carry ELSE bed_slope_limiter)

FirstHalf(v, released) ==
    apply_rainfall \o limiter(v) \o reset_first_reject \o stage_inflow_forcing(v)
      \o rnoff_period_precompute(v) \o surface_forcing(v) \o rnoff_after_staging(v)
      \o IfProbed(v, stage_trace \o capture_depo_velocity("depo_velocity_source_entry")
                       \o Probe(v, source_entry_probe_light, source_entry_probe))
      \o compute_source_rates(v) \o failure_sources(v, released) \o merge_source_terms
      \o IfMutated(v, erosion_deposition_diagnostic \o erosion_deposition_writeback)
      \o compute_edge_fluxes
      \o IfProbed(v, Probe(v, face_flux_probe_light, face_flux_probe) \o face_flux_diagnostic)
      \o (IF v.parity THEN update_legacy_previous_face_cvbar ELSE Nothing)

SecondHalf(v) ==
    Probe(v, post_edge_probe_light, Nothing) \o accumulate_and_check
      \o IfMutated(v, qnet_diagnostic \o qnet_writeback
                        \o predictor_diagnostic \o predictor_writeback)
      \o IfProbed(v, accumulate_probe)
      \o (IF v.stormdrain THEN stormdrain_exchange ELSE Nothing)
      \o reset_volume_accumulators \o accumulate_volume_balance
      \o finalize_volume_balance \o post_balance_outflow

(* A rejection puts back the soil heads and drops both candidates.  If     *)
(* some failed cell's kkt1 is not its committed head ("behind"), that cell *)
(* is put back further, and would not have been without the attempt.       *)

\* mutant: the heads of the rejected attempt stay
keep_richards(v, behind) == Nothing

restore_richards(v, behind) ==
    IF v.failure # "double_layer" THEN Nothing
    ELSE << Kernel({"kkt1"}, {"kkt"}),
            Kernel({"kkt_failed", "kkt1_failed"} \cup (IF behind THEN {"attempt"} ELSE {}),
                   {"kkt_failed"}) >>

discard_candidates == << Fresh({"ci_candidate", "candidate_fired"}) >>

Reject(v, behind) == restore_richards(v, behind) \o discard_candidates

RejectedAtCourant(v, released, behind) == FirstHalf(v, released) \o Reject(v, behind)
RejectedAtEnd(v, released, behind) ==
    FirstHalf(v, released) \o SecondHalf(v) \o Reject(v, behind)
-----------------------------------------------------------------------------
(* The commit of an accepted attempt.                                      *)

commit_volume_counters == << Kernel({"cand_volumes"}, {"total_volumes"}) >>

commit_step ==
    << Kernel({"fhpredi2", "frhopredi2"}, {"h", "rho", "Cv"}),
       Kernel({"tempele"}, {"z_bed"}),
       Kernel({"erosion_depth", "erosion_rate", "attempt"}, {"erosion_depth"}),
       Kernel({"deposition_depth", "deposition_rate", "attempt"}, {"deposition_depth"}),
       Kernel({"temp_erodible", "deposition_rate", "attempt"}, {"erodible_thickness"}),
       Kernel({"temp_depo"}, {"depo_thickness"}),
       Kernel({"fv_pred"}, {"fv"}),
       Kernel({"fv", "max_flow_velocity"}, {"max_flow_velocity"}),
       Kernel({"h", "max_flow_depth"}, {"max_flow_depth"}),
       Kernel({"h", "depo_thickness"}, {"total_depth"}) >>

commit_failure_schedule(v) ==
    IF v.failure = "schedule"
    THEN << Kernel({"fired", "candidate_fired"}, {"fired", "fire_mask"}),
            Fresh({"candidate_fired"}) >>
    ELSE Nothing

commit_cumulative_infiltration(v) ==
    IF v.infiltration = "green_ampt"
    THEN << Kernel({"ci_candidate"}, {"F_cumulative"}), Fresh({"ci_candidate"}) >>
    ELSE Nothing

sync_uv == << Kernel({"fv", "h"}, {"u", "v"}) >>
sync_directional_velocity == << Kernel({"fv"}, {"vdir"}) >>
outflow_boundaries == << Kernel({"h", "u", "v", "Cv"}, {"h", "u", "v", "Cv"}) >>

Accepted(v, released) ==
    FirstHalf(v, released) \o SecondHalf(v) \o IfProbed(v, erosion_step_record)
      \o IfMutated(v, h_cv_rho_diagnostic)
      \o commit_volume_counters \o commit_step \o IfMutated(v, h_cv_rho_writeback)
      \o commit_failure_schedule(v) \o commit_cumulative_infiltration(v)
      \o sync_uv \o sync_directional_velocity \o outflow_boundaries
-----------------------------------------------------------------------------
(* What differs after a rejected attempt from a run that never made it.    *)

AfterRejection(effects, left) ==
    Influence(effects, left \cup {"attempt"}) \ {"attempt"}

(* save_state writes every Taichi field; what lives on the host is lost.   *)
(* The host's list of fired cells is lost too; no later window notices it  *)
(* (FailureSchedule), so it is not followed here.                          *)

HostState ==
    {"legacy_previous_face_cvbar", "ci_candidate", "candidate_fired", "rnoff_ro",
     "stage_trace", "erosion_record"}

AfterResume(left) == left \cup HostState
=============================================================================
