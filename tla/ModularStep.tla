---------------------------- MODULE ModularStep ----------------------------
(***************************************************************************)
(* The modular branch of EDDASolver._physics_step, taken when no double    *)
(* layer is configured: hydrology, stability, erosion and deposition,      *)
(* failures and shallow water as separate components on shared fields.  A  *)
(* step of it is never rejected.  As in DfsStep each call is an effect on  *)
(* the fields it reads and writes.                                         *)
(*                                                                         *)
(* Density and rheology are derived from the concentration Cv, and kept in *)
(* fields that the components that change Cv mostly leave alone.  Stale    *)
(* follows which of them no longer belong to the present Cv.               *)
(***************************************************************************)
EXTENDS Naturals, Sequences

Call(reads, writes) == [reads |-> reads, writes |-> writes]

Derived == {"rho", "tau_y", "mu"}

Staled(call, stale) ==
    (stale \ call.writes) \cup (IF "Cv" \in call.writes THEN Derived \ call.writes ELSE {})

\* What is stale before the first of the calls (0) and after each of them.
StaleAt(calls, stale) ==
    LET after[i \in 0..Len(calls)] ==
            IF i = 0 THEN stale ELSE Staled(calls[i], after[i - 1])
    IN  after

StaleAfter(calls, stale) == StaleAt(calls, stale)[Len(calls)]

\* The derived fields some call reads while they are stale.
Misread(calls, stale) ==
    UNION {calls[i].reads \cap StaleAt(calls, stale)[i - 1] : i \in 1..Len(calls)}
-----------------------------------------------------------------------------
(* Hydrology and stability.                                                *)

compute_infiltration ==
    Call({"F_cumulative", "h", "rainfall"}, {"infiltration", "F_cumulative", "h"})
update_pore_pressure == Call({"F_cumulative"}, {"psi"})
hydrology_step == << compute_infiltration, update_pore_pressure >>

compute_factor_of_safety == Call({"psi"}, {"FS"})
stability_step == << compute_factor_of_safety >>

check_failure_and_mobilize ==
    Call({"FS", "is_failed", "h", "Cv", "u", "v", "z_bed"},
         {"is_failed", "h", "Cv", "u", "v", "z_bed"})

(* Density and rheology.                                                   *)

update_mixture_density     == Call({"Cv"}, {"rho"})
update_rheology_parameters == Call({"Cv"}, {"tau_y", "mu"})
update_properties == << update_mixture_density, update_rheology_parameters >>

adjust_manning_coefficient == Call({"h", "manning_ori"}, {"manning"})
prepare_for_flow == << adjust_manning_coefficient >> \o update_properties

limit_froude_number == Call({"h", "u", "v", "manning", "manning_ori"}, {"manning"})

\* mutant: the state after the flow keeps the density from before it
finalize_without_properties == << limit_froude_number >>

finalize_after_flow == update_properties \o << limit_froude_number >>

(* Erosion and deposition: the rates of both first, then both applied.     *)

compute_cvlimit          == Call({}, {"cvlimit"})
compute_bed_shear_stress == Call({"Cv", "h", "rho", "u", "v"}, {"tau"})
compute_erosion_rate     == Call({"Cv", "cvlimit", "h", "rho", "tau"}, {"erosion_rate"})
erosion_rates == << compute_cvlimit, compute_bed_shear_stress, compute_erosion_rate >>

compute_deposition_rate == Call({"Cv", "cvlimit", "h", "rho", "u", "v"}, {"deposition_rate"})

apply_erosion ==
    Call({"Cv", "h", "rho", "z_bed", "erosion_rate", "erodible_thickness", "depo_thickness",
          "erosion_depth"},
         {"Cv", "h", "rho", "z_bed", "erodible_thickness", "depo_thickness", "erosion_depth"})
apply_deposition ==
    Call({"Cv", "h", "rho", "z_bed", "deposition_rate", "depo_thickness", "deposition_depth"},
         {"Cv", "h", "rho", "z_bed", "depo_thickness", "deposition_depth"})
\* A cell that deposits all it holds loses its concentration and keeps its density.
apply_deposition_dry == Call({"Cv", "h", "u", "v"}, {"Cv", "h", "u", "v"})

(* Shallow water.                                                          *)

compute_fluxes_8dir      == Call({"h", "u", "v"}, {"flux_h", "flux_hu", "flux_hv"})
compute_sediment_fluxes  == Call({"Cv", "h", "flux_h"}, {"flux_hCv"})
update_conservative ==
    Call({"Cv", "h", "u", "v", "flux_h", "flux_hu", "flux_hv", "flux_hCv"}, {"conserved_new"})
apply_updates            == Call({"conserved_new"}, {"h", "u", "v", "Cv"})
solve_velocity_newton_raphson ==
    Call({"h", "z_bed", "manning", "v_prev"}, {"v_pred", "v_prev"})
apply_nr_velocities      == Call({"h", "u", "v", "v_pred"}, {"u", "v"})

shallow_water_step ==
    << compute_fluxes_8dir, compute_sediment_fluxes, update_conservative,
       apply_updates, solve_velocity_newton_raphson, apply_nr_velocities >>

outflow_cells_emptied == Call({"h", "u", "v", "Cv"}, {"h", "u", "v", "Cv"})
\* After finalize_after_flow the outflow cells are still as the call before left them.
outflow_cells_still_empty == Call({"h", "u", "v"}, {"h", "u", "v"})
-----------------------------------------------------------------------------
physics_step ==
    << Call({}, {"rainfall"}) >> \o hydrology_step \o stability_step \o update_properties
      \o erosion_rates \o << compute_deposition_rate, apply_erosion, apply_deposition,
                             apply_deposition_dry, check_failure_and_mobilize >>
      \o prepare_for_flow \o << outflow_cells_emptied >>
      \o shallow_water_step \o << outflow_cells_emptied >>
      \o finalize_after_flow \o << outflow_cells_still_empty >>
=============================================================================
