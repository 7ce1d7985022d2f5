------------------------------ MODULE MCSched ------------------------------
(* Sched on two harts; the calls of each run are chosen here. *)
EXTENDS Sched, TLC

CONSTANTS c1, c2

MCCPUs == {c1, c2}
Symmetry == Permutations(MCCPUs)

ExitingCalls == {"wait", "signal", "P", "V", "exit_trap"}
BusyCalls == {"wait", "signal", "intr", "P", "V"}
KillCalls == {"wait", "signal", "kill_self"}
OneHartCalls == {"P", "V", "sys_exit", "kill_self"}
ExitCalls == {"sys_exit"}
=============================================================================
