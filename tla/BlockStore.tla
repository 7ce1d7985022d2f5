----------------------------- MODULE BlockStore -----------------------------
(***************************************************************************)
(* What the buffer cache promises its callers: a store of disk blocks,     *)
(* each of which one task at a time may use.  A block keeps its contents   *)
(* until the task that uses it changes them.                               *)
(***************************************************************************)
CONSTANTS Tasks, Blocks, Values, Nobody

VARIABLES content,      \* what each block contains
          user          \* the task that uses it

Init ==
    /\ content \in [Blocks -> Values]
    /\ user = [k \in Blocks |-> Nobody]

Take(t, k) ==
    /\ user[k] = Nobody
    /\ user' = [user EXCEPT ![k] = t]
    /\ UNCHANGED content

Change(t, k, v) ==
    /\ user[k] = t
    /\ content' = [content EXCEPT ![k] = v]
    /\ UNCHANGED user

Return(t, k) ==
    /\ user[k] = t
    /\ user' = [user EXCEPT ![k] = Nobody]
    /\ UNCHANGED content

Next ==
    \E t \in Tasks, k \in Blocks :
        Take(t, k) \/ Return(t, k) \/ \E v \in Values : Change(t, k, v)

Spec == Init /\ [][Next]_<<content, user>>
=============================================================================
