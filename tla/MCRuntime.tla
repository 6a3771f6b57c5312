----------------------------- MODULE MCRuntime -----------------------------
(* Runtime with two workers.  The first gets every combination of the      *)
(* inputs that touch the same fields (those of the double layer, and those *)
(* that compete with zones), the second a run with a good or a failing     *)
(* setup under each profile and signature.                                 *)
EXTENDS Runtime, TLC

CONSTANTS s1, s2

MCBase == [name |-> Unset, gates |-> Unset]
MCEnvironment ==
    [production |-> [name |-> "production"],
     candidate  |-> [name |-> "candidate", gates |-> "on"]]

Cuda == [backend |-> "cuda", precision |-> "f64"]
Cpu  == [backend |-> "cpu", precision |-> "f64"]

Run(profile, sig, case) == [profile |-> profile, signature |-> sig, case |-> case]

DemOnly == [f \in Inputs |-> IF f = "demfil" THEN "good" ELSE "absent"]
With(statuses) ==
    [f \in Inputs |-> IF f \in DOMAIN statuses THEN statuses[f] ELSE DemOnly[f]]
Plain == [double_layer |-> FALSE, status |-> DemOnly]

Layered ==
    {[double_layer |-> TRUE, status |-> With([slofil |-> a, zfil |-> b, rizerofil |-> c, zonfil |-> "good"])]
       : a \in {"absent", "good"}, b \in {"absent", "good"}, c \in {"absent", "missing", "good"}}
Zoned ==
    {[double_layer |-> FALSE, status |-> With([manningfil |-> a, zonfil |-> z, depfil |-> d])]
       : a \in {"absent", "good"}, z \in {"bad", "good"}, d \in {"missing", "good"}}
WithSidecars ==
    [double_layer |-> TRUE,
     status |-> [f \in Inputs |-> IF f \in Sidecars THEN "good" ELSE DemOnly[f]]]
BadRaster == [double_layer |-> FALSE, status |-> With([zfil |-> "bad"])]
NoDem     == [double_layer |-> FALSE, status |-> With([demfil |-> "missing"])]

MCRequests ==
    s1 :> ({Run("candidate", Cuda, case) : case \in Layered \cup Zoned \cup {WithSidecars}}
             \cup {Run("production", Cpu, Plain)})
    @@ s2 :> {Run("candidate", Cuda, BadRaster), Run("candidate", Cpu, Plain),
              Run("production", Cuda, NoDem), Run("production", Cuda, Plain)}
MCFewRequests ==
    [s \in Sessions |-> {Run("production", Cuda, Plain)}]
=============================================================================
