---------------------------- MODULE SolverSetup ----------------------------
(***************************************************************************)
(* How the fields of a solver get their values before its first step:      *)
(* EDDASolver.initialize fills them from the DEM and the configuration,    *)
(* then apply_native_runtime_inputs replaces some of them by the files of  *)
(* the scenario, one family after the other.  As in DfsStep and ModularStep*)
(* a call is an effect on the fields it reads and writes; "files" are the  *)
(* inputs that enter with it.                                              *)
(*                                                                         *)
(* Origin follows, field by field, the inputs a value comes from.  Some    *)
(* fields are derived from others (the heads of the double layer from the  *)
(* slopes), so a file that replaces a field late leaves what was computed  *)
(* from the old value behind, unless it is computed again.                 *)
(***************************************************************************)
EXTENDS Naturals, Sequences

Effect(files, reads, writes) == [files |-> files, reads |-> reads, writes |-> writes]
Load(file, field) == Effect({file}, {}, {field})
Zero(fields) == Effect({}, {}, fields)

Slopes == {"slope_x", "slope_y", "slope_mag", "slope_angle"}
FlowFields == {"h", "u", "v", "Cv"}
HydrologyFields == {"rainfall", "infiltration", "psi", "F_cumulative"}
StabilityFields == {"FS", "is_failed"}
ErosionFields == {"erosion_depth", "deposition_depth", "erodible_thickness", "depo_thickness"}
WaveFields == {"fv_fortran", "max_flow_depth", "max_flow_velocity", "total_depth"}
Topology == {"cell_id", "flow_neighbor_id"}
Boundary == {"is_boundary", "boundary_type"}
LayerFields == {"pt", "kkt", "desatt", "inidesatt", "zt", "beta", "ltstar", "lbstar"}
HydrologyParameters == {"K_sat_field", "theta_s_field", "theta_i_field", "psi_f_field"}
SoilParameters == {"c_field", "phi_field", "gamma_s_field", "depth_field"}
LayerParameters == {"alpha_top_field", "K_sat_top_field", "theta_sat_top_field",
                    "ltstar_field", "lbstar_field"}
Parameters == HydrologyParameters \cup SoilParameters \cup LayerParameters
                \cup {"zone_id", "n_manning_field", "kero_field", "ctao_field"}
Fields == {"z_bed", "z_original", "is_nodata", "dfs_outflow_mask"} \cup Slopes
            \cup FlowFields \cup HydrologyFields \cup StabilityFields \cup ErosionFields
            \cup WaveFields \cup Topology \cup Boundary \cup LayerFields \cup Parameters
            \cup {"manning", "manning_ori", "initial_rikzero_field", "depthwt0_field",
                  "rizero0_field", "inflow_hydrographs", "hydrograph_monitors",
                  "precomputed_failure_schedule"}

(* What a run asks for.  A file is absent (not named, or its branch is     *)
(* inactive), missing on disk, bad (it does not fit the DEM) or good.      *)
Rasters  == {"slofil", "manningfil", "zfil", "depfil", "rizerofil"}
Sidecars == {"outflow.txt", "hydrograph.txt", "inflow.txt", "tfail"}
Inputs   == Rasters \cup Sidecars \cup {"demfil", "zonfil"}
Statuses == {"absent", "missing", "bad", "good"}
Cases    == [double_layer : BOOLEAN, status : [Inputs -> Statuses]]

Reads(case, file) == case.status[file] = "good"

After(origin, call) ==
    [f \in DOMAIN origin |->
        IF f \in call.writes THEN call.files \cup UNION {origin[g] : g \in call.reads}
        ELSE origin[f]]
Perform(calls, origin) ==
    LET after[i \in 0..Len(calls)] ==
            IF i = 0 THEN origin ELSE After(after[i - 1], calls[i])
    IN  after[Len(calls)]

\* Taichi allocates zeros.
allocate_fields == [f \in Fields |-> {}]
-----------------------------------------------------------------------------
(* EDDAFields.                                                             *)

initialize_from_numpy == Effect({"demfil"}, {}, {"z_bed", "z_original"})
set_nodata_mask       == Load("demfil", "is_nodata")
compute_slopes        == Effect({}, {"z_bed", "is_nodata"}, Slopes)

zero_flow_variables         == Zero(FlowFields)
zero_hydrology_variables    == Zero(HydrologyFields)
zero_stability_variables    == Zero(StabilityFields)
zero_erosion_variables      == Zero(ErosionFields)
zero_dynamic_wave_variables == Zero(WaveFields \cup Topology \cup {"dfs_outflow_mask"})
zero_doublelayer_variables  == Zero(LayerFields)
zero_spatial_zone_variables == Zero(Parameters)

initialize_all ==
    << zero_flow_variables, zero_hydrology_variables, zero_stability_variables,
       zero_erosion_variables, zero_dynamic_wave_variables, zero_doublelayer_variables,
       zero_spatial_zone_variables, compute_slopes >>

initialize_flow_connectivity == Effect({}, {"is_nodata"}, Topology)
set_boundary_conditions      == Effect({}, {"is_nodata"}, Boundary)

(* Parameters: by zone, or uniform when there are none - also when the     *)
(* zone file cannot be used, whatever the reason.  The soil that can be    *)
(* eroded is as thick as the soil is deep.                                 *)

set_zone_parameters   == Effect({"zonfil"}, {}, Parameters)
erodible_from_depth   == Effect({}, {"depth_field"}, {"erodible_thickness"})
uniform_parameters(case) ==
    Effect({"config"}, {}, Parameters \ ({"zone_id"} \cup
                             (IF case.double_layer THEN {} ELSE LayerParameters)))

initialize_parameters(case) ==
    << IF Reads(case, "zonfil") THEN set_zone_parameters ELSE uniform_parameters(case),
       erodible_from_depth >>

(* The physics keep what they derive at construction: RheologyModel the    *)
(* Manning coefficients, the DFS solver the scalars of the groundwater.    *)

initialize_manning == Effect({}, {"n_manning_field"}, {"manning", "manning_ori"})
scalar_depthwt == Load("config", "depthwt0_field")
scalar_rizero  == Load("config", "rizero0_field")

(* The double layer starts from the steady infiltration of a scalar or a   *)
(* raster "rate".                                                          *)

build_initial_rikzero_field(rate) ==
    Effect({rate}, {"K_sat_top_field", "slope_angle", "is_nodata"}, {"initial_rikzero_field"})
initialize_double_layer ==
    Effect({}, {"is_nodata", "slope_angle", "initial_rikzero_field"} \cup LayerParameters,
           LayerFields)

restart_double_layer(case, rate) ==
    IF case.double_layer
    THEN << build_initial_rikzero_field(rate), initialize_double_layer >> ELSE << >>

\* mutant: the double layer starts before the parameters are known
InitializeEarly(case) ==
    << initialize_from_numpy, set_nodata_mask >> \o initialize_all
      \o << initialize_flow_connectivity, compute_slopes, set_boundary_conditions >>
      \o restart_double_layer(case, "config") \o initialize_parameters(case)
      \o << initialize_manning, scalar_depthwt, scalar_rizero >>

Initialize(case) ==
    << initialize_from_numpy, set_nodata_mask >> \o initialize_all
      \o << initialize_flow_connectivity, compute_slopes, set_boundary_conditions >>
      \o initialize_parameters(case)
      \o << initialize_manning, scalar_depthwt, scalar_rizero >>
      \o restart_double_layer(case, "config")
-----------------------------------------------------------------------------
(* The raster files of apply_native_runtime_inputs, in the order in which  *)
(* they are applied.                                                       *)

apply_slofil(case) ==
    IF Reads(case, "slofil")
    THEN << Effect({"slofil"}, {}, {"slope_mag", "slope_angle"}) >> ELSE << >>

apply_manningfil(case) ==
    IF Reads(case, "manningfil")
    THEN << Effect({"manningfil"}, {}, {"n_manning_field", "manning", "manning_ori"}) >>
    ELSE << >>

\* The layer thickness counts only with a double layer, and restarts it.
apply_zfil(case) ==
    IF Reads(case, "zfil") /\ case.double_layer
    THEN << Load("zfil", "ltstar_field") >> \o restart_double_layer(case, "config")
    ELSE << >>

apply_depfil(case) ==
    CASE Reads(case, "depfil")             -> << Load("depfil", "depthwt0_field") >>
      [] case.status["depfil"] = "missing" -> << scalar_depthwt >>
      [] OTHER                             -> << >>

apply_rizerofil(case) ==
    CASE Reads(case, "rizerofil") ->
           << Load("rizerofil", "rizero0_field") >> \o restart_double_layer(case, "rizerofil")
      [] case.status["rizerofil"] = "missing" ->
           << scalar_rizero >> \o restart_double_layer(case, "config")
      [] OTHER -> << >>

\* mutant: the layer thickness comes last and restarts with the scalar rate
ApplyRastersThicknessLast(case) ==
    apply_slofil(case) \o apply_manningfil(case) \o apply_depfil(case)
      \o apply_rizerofil(case) \o apply_zfil(case)

ApplyRasters(case) ==
    apply_slofil(case) \o apply_manningfil(case) \o apply_zfil(case)
      \o apply_depfil(case) \o apply_rizerofil(case)

(* The sidecars.  The outflow cells are added to the boundary.             *)

configure_outflow_process_observer ==
    << Effect({"outflow.txt"}, {"cell_id"} \cup Boundary, Boundary),
       Effect({"outflow.txt"}, {"cell_id", "dfs_outflow_mask"}, {"dfs_outflow_mask"}) >>
configure_hydrograph_monitor_observer ==
    << Effect({"hydrograph.txt"}, {"cell_id"}, {"hydrograph_monitors"}) >>
configure_inflow_hydrograph_forcing ==
    << Effect({"inflow.txt"}, {"cell_id"}, {"inflow_hydrographs"}) >>
configure_precomputed_failure_schedule(source) ==
    << Load(source, "precomputed_failure_schedule") >>

\* The schedule of the case's files, or, without them, what the native
\* provider feeds if the environment asks for it.
case_schedule(case) ==
    IF Reads(case, "tfail") THEN configure_precomputed_failure_schedule("tfail") ELSE << >>
configure_provider_runtime_feed == configure_precomputed_failure_schedule("provider")
apply_failure_schedule(case, provider_feeds) ==
    IF case.status["tfail"] \in {"absent", "missing"} /\ provider_feeds
    THEN configure_provider_runtime_feed ELSE case_schedule(case)

ApplySidecars(case, provider_feeds) ==
    (IF Reads(case, "outflow.txt") THEN configure_outflow_process_observer ELSE << >>)
      \o (IF Reads(case, "hydrograph.txt") THEN configure_hydrograph_monitor_observer ELSE << >>)
      \o (IF Reads(case, "inflow.txt") THEN configure_inflow_hydrograph_forcing ELSE << >>)
      \o apply_failure_schedule(case, provider_feeds)

apply_native_runtime_inputs(case, provider_feeds) ==
    ApplyRasters(case) \o ApplySidecars(case, provider_feeds)

\* A raster that does not fit the DEM, or an unreadable inflow, is an error.
SetupFails(case) ==
    case.status["demfil"] # "good" \/ \E f \in Rasters \cup {"inflow.txt"} : case.status[f] = "bad"

(* The manifest: the files marked as consumed.                             *)

Consumed(case) ==
    {"demfil"} \cup {f \in Rasters \ {"zfil"} : Reads(case, f)}
      \cup {f \in {"zfil"} : Reads(case, f) /\ case.double_layer}
      \cup {f \in {"zonfil"} : case.status[f] # "absent"}
      \cup {f \in Sidecars : Reads(case, f)}
-----------------------------------------------------------------------------
(* What a family stands for, and what is derived from what.                *)

Governs(case, file) ==
    CASE file = "demfil"      -> {"z_bed", "is_nodata", "slope_x", "cell_id"}
      [] file = "zonfil"      -> {"n_manning_field", "depth_field", "erodible_thickness"}
                                   \ (IF Reads(case, "manningfil") THEN {"n_manning_field"} ELSE {})
      [] file = "slofil"      -> {"slope_mag", "slope_angle"}
      [] file = "manningfil"  -> {"n_manning_field", "manning", "manning_ori"}
      [] file = "zfil"        -> {"ltstar_field", "ltstar", "kkt"}
      [] file = "depfil"      -> {"depthwt0_field"}
      [] file = "rizerofil"   -> {"rizero0_field"} \cup
                                   (IF case.double_layer THEN {"initial_rikzero_field", "kkt"} ELSE {})
      [] file = "outflow.txt" -> {"is_boundary", "dfs_outflow_mask"}
      [] file = "hydrograph.txt" -> {"hydrograph_monitors"}
      [] file = "inflow.txt"  -> {"inflow_hydrographs"}
      [] file = "tfail"       -> {"precomputed_failure_schedule"}

Derivations(case) ==
    {initialize_manning, erodible_from_depth}
      \cup (IF case.double_layer
            THEN {initialize_double_layer,
                  Effect({}, {"K_sat_top_field", "slope_angle", "rizero0_field"},
                         {"initial_rikzero_field"})}
            ELSE {})

\* The derived fields that miss an input one of their operands comes from.
Outdated(case, origin) ==
    UNION {{f \in d.writes : \E g \in d.reads : ~(origin[g] \subseteq origin[f])}
             : d \in Derivations(case)}

\* The slopes are replaced, and nothing starts the double layer again.
SlopesReplacedUnderLayer(case) ==
    /\ case.double_layer /\ Reads(case, "slofil")
    /\ ~Reads(case, "zfil") /\ case.status["rizerofil"] = "absent"
=============================================================================
