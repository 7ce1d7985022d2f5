------------------------------ MODULE MCHarts ------------------------------
(***************************************************************************)
(* Sched on two harts, with Calls or with a sys_kill of oneself among the  *)
(* calls, or on one hart alone, the other never having started.  Only then *)
(* threads call sys_exit.                                                  *)
(***************************************************************************)
EXTENDS MCSched

VARIABLE mode       \* "busy", "kill", or the hart that runs alone

Kills == INSTANCE Sched WITH Calls <- KillCalls
Alone == INSTANCE Sched WITH Calls <- OneHartCalls

MCInit == Init /\ mode \in CPUs \cup {"busy", "kill"}

BothHarts == mode = "busy" /\ Next /\ UNCHANGED mode
BothHartsKill == mode = "kill" /\ Kills!Next /\ UNCHANGED mode
OneHartSteps(c) == mode = c /\ Alone!Hart(c) /\ UNCHANGED mode
OneHartTicks(c) == mode = c /\ Alone!Timer(c) /\ UNCHANGED mode

MCNext ==
    \/ BothHarts \/ BothHartsKill
    \/ \E c \in CPUs : OneHartSteps(c) \/ OneHartTicks(c)

MCSpec == MCInit /\ [][MCNext]_<<vars, mode>>

\* both harts with Calls, and the fairness of Sched
LiveInit == Init /\ mode = "busy"
LiveSpec == LiveInit /\ [][MCNext]_<<vars, mode>> /\ Fairness
=============================================================================
