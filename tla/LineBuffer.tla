----------------------------- MODULE LineBuffer -----------------------------
(***************************************************************************)
(* What the console promises: characters are edited until a newline, an    *)
(* end-of-file or a full buffer commits them; committed characters leave   *)
(* in the order in which they were typed.                                  *)
(***************************************************************************)
EXTENDS Sequences, Integers

CONSTANTS Plain, Cap    \* ordinary characters; the most the buffer holds

VARIABLES committed, edit

vars == <<committed, edit>>

Init == committed = <<>> /\ edit = <<>>

\* an ordinary character, or one that ends the line
Type(c) ==
    /\ Len(committed) + Len(edit) < Cap
    /\ IF c \in {"nl", "eof"} \/ Len(committed) + Len(edit) + 1 = Cap
       THEN committed' = (committed \o edit) \o <<c>> /\ edit' = <<>>
       ELSE committed' = committed /\ edit' = Append(edit, c)

Erase == edit # <<>> /\ edit' = SubSeq(edit, 1, Len(edit) - 1) /\ UNCHANGED committed
Kill == edit' = <<>> /\ UNCHANGED committed
Take == committed # <<>> /\ committed' = Tail(committed) /\ UNCHANGED edit

Next == (\E c \in Plain \cup {"nl", "eof"} : Type(c)) \/ Erase \/ Kill \/ Take

Spec == Init /\ [][Next]_vars
=============================================================================
