------------------------------ MODULE MCSolver ------------------------------
(* SolverRun with a day of twelve ticks, two outputs, one window end on an *)
(* output and one beside it, and two scheduled cells.                      *)
EXTENDS SolverRun, TLC

CONSTANTS c1, c2

\* One cell fails inside an interval, the other exactly when a result is due.
MCFailTime == c1 :> 3 @@ c2 :> 6

Plain == [infiltration |-> "default", failure |-> "double_layer", rnoff |-> "off",
          stormdrain |-> FALSE, parity |-> FALSE, carry |-> FALSE, inject |-> FALSE,
          shortcut |-> FALSE, probe |-> "off", mutate |-> FALSE]
ByTable == [Plain EXCEPT !.failure = "schedule"]

Dfs(variant, gate) == [path |-> "dfs", variant |-> variant, gate |-> gate]

MCCases ==
    { [path |-> "modular", variant |-> Plain, gate |-> "host"],
      Dfs(Plain, "host"),
      Dfs([Plain EXCEPT !.shortcut = TRUE, !.probe = "full"], "host"),
      Dfs([Plain EXCEPT !.rnoff = "late", !.stormdrain = TRUE], "host"),
      Dfs([Plain EXCEPT !.parity = TRUE, !.carry = TRUE, !.inject = TRUE], "host"),
      Dfs([ByTable EXCEPT !.infiltration = "green_ampt"], "host"),
      Dfs([ByTable EXCEPT !.infiltration = "direct", !.rnoff = "host"], "field"),
      Dfs([ByTable EXCEPT !.mutate = TRUE, !.probe = "light"], "fast"),
      Dfs([ByTable EXCEPT !.rnoff = "device", !.shortcut = TRUE], "kernel") }

MCPlainCase == { Dfs(Plain, "host") }
=============================================================================
