---------------------------- MODULE SolverOutput ----------------------------
(***************************************************************************)
(* What a run shows of its state: the numbered result files and the text   *)
(* grids with the maxima so far, the observers of outflow and monitor      *)
(* cells and their exports at the end.  The results are a record:          *)
(*                                                                         *)
(*   output_count  the time stepper's number of the next result file       *)
(*   files         the files on disk by number (the code counts from 0):   *)
(*                 the time they show, the times their maxima are taken of *)
(*   cached        the times the cached maxima of this process have seen   *)
(*   samples       the times the observers of this process have sampled    *)
(*   exported      the samples in the exports on disk                      *)
(***************************************************************************)
EXTENDS Naturals, Sequences

Results ==
    [output_count : Nat, files : Seq([time : Nat, maxima : SUBSET Nat]), cached : SUBSET Nat,
     samples : Seq(Nat), exported : Seq(Nat)]

NewResults == [output_count |-> 0, files |-> <<>>, cached |-> {}, samples |-> <<>>,
               exported |-> <<>>]

\* mutant: the maxima start again with every result
update_max_cache_anew(r, t) == {t}

update_output_max_cache(r, t) == r.cached \cup {t}

write_file(files, n, file) ==
    IF n > Len(files) THEN Append(files, file) ELSE [files EXCEPT ![n] = file]

output_results(r, t) ==
    LET seen == update_output_max_cache(r, t)
    IN  [r EXCEPT !.cached = seen,
                  !.files = write_file(r.files, r.output_count + 1, [time |-> t, maxima |-> seen])]

record_output_samples(r, t) == [r EXCEPT !.samples = Append(r.samples, t)]

\* A result that is due: sample, write, count.
output_due(r, t) ==
    LET written == output_results(record_output_samples(r, t), t)
    IN  [written EXCEPT !.output_count = r.output_count + 1]

\* The end of a run: a last result, not counted, and the observers' texts.
\* An observer that has sampled nothing leaves the text as it is.
export_final_results(r) ==
    [r EXCEPT !.exported = IF r.samples = <<>> THEN r.exported ELSE r.samples]
output_final(r, t) == export_final_results(output_results(r, t))

\* mutant: the number of the next file is not restored
RestoredResultsAnew(r) == [r EXCEPT !.output_count = 0, !.cached = {}, !.samples = <<>>]

\* A new solver on the old directory restores the count and nothing else.
RestoredResults(r) == [r EXCEPT !.cached = {}, !.samples = <<>>]
-----------------------------------------------------------------------------
(* The fields (of DfsStep) a result or a sample is made of.                *)

erosion_depth_output == {"z_bed"}
flow_velocity_output == {"fv"}
sediment_output      == {"Cv", "h"}
text_outputs ==
    {"h", "deposition_depth", "fdepth", "fdepth_failed"} \cup erosion_depth_output \cup flow_velocity_output
      \cup sediment_output

\* The state handed to the output callback: nearly every field of the solver.
get_full_state ==
    {"h", "u", "v", "Cv", "rho", "z_bed", "erosion_depth", "deposition_depth",
     "depo_thickness", "FS", "fv", "tanslo", "max_flow_depth", "max_flow_velocity",
     "total_depth", "fdepth", "fhpredi1", "frhopredi1", "fhpredi", "frhopredi", "fhpredi2",
     "frhopredi2", "tempele", "tempfsh", "tempfsrho", "qnet", "qtnet", "qmassnet", "cvlimit",
     "rholimit", "tau", "taoc", "absubar", "rhodepo", "erorate_raw", "deporate_raw", "gates",
     "desat", "FS_failed", "fdepth_failed", "desat_failed"}

outflow_sample    == {"h", "rho"}
hydrograph_sample == {"qqt", "frhopredi2"}

Shown == text_outputs \cup get_full_state \cup outflow_sample \cup hydrograph_sample
=============================================================================
