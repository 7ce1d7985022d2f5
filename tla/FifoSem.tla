------------------------------ MODULE FifoSem ------------------------------
(***************************************************************************)
(* What lm_P and lm_V promise: a counting semaphore that serves waiting    *)
(* processes in the order in which they came.  A token that lm_V puts back *)
(* while somebody waits goes to the first of them directly.                *)
(***************************************************************************)
EXTENDS Naturals, Sequences

CONSTANT Procs

VARIABLES tokens, waiting

Init == tokens = 0 /\ waiting = <<>>

Queued(p) == \E i \in DOMAIN waiting : waiting[i] = p

P(p) ==
    /\ ~Queued(p)
    /\ \/ tokens > 0 /\ tokens' = tokens - 1 /\ UNCHANGED waiting
       \/ tokens = 0 /\ waiting' = Append(waiting, p) /\ UNCHANGED tokens

V ==
    \/ waiting = <<>> /\ tokens' = tokens + 1 /\ UNCHANGED waiting
    \/ waiting # <<>> /\ waiting' = Tail(waiting) /\ UNCHANGED tokens

Next == V \/ \E p \in Procs : P(p)

Spec == Init /\ [][Next]_<<tokens, waiting>>
=============================================================================
