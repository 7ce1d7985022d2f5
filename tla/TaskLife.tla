------------------------------ MODULE TaskLife ------------------------------
(***************************************************************************)
(* The life of a user task: sys_fork, exit, reparent, sys_wait and         *)
(* sys_kill of kernel/proc.c, with the spinlocks they nest.  A slot of the *)
(* task table is reused after its task has been reaped.                    *)
(*                                                                         *)
(* Scheduling is left to Sched: every task that is not asleep may take its *)
(* next step.  sons_sem has at most one waiter, its owner.  Where a lock   *)
(* is taken and released with no other lock wanted in between, that is one *)
(* step; a lock held while another is wanted is in owner.                  *)
(***************************************************************************)
EXTENDS Integers, FiniteSetsExt

CONSTANTS NTASK,      \* slots of the task table
          MaxPid,     \* bound: no fork once this pid has been handed out
          Killers,    \* bound: the slots whose task calls kill
          InitExits   \* may the first task exit?

ASSUME TaskLifeAssumption ==
    /\ NTASK \in Nat \ {0} /\ MaxPid \in Nat \ {0}
    /\ Killers \subseteq 1 .. NTASK
    /\ InitExits \in BOOLEAN

Tasks == 1 .. NTASK
None == 0
init == 1               \* tasks[0], the first user task

T(t) == <<"t", t>>      \* t->lock
S(t) == <<"s", t>>      \* t->sons_sem.lk
W == <<"w", None>>      \* wait_lock
LockIds == {T(t) : t \in Tasks} \cup {S(t) : t \in Tasks} \cup {W}

VARIABLES
    task,       \* the task table
    loc,        \* where each task is: pc, the loop variable i, other locals
    owner,      \* the task that holds each spinlock
    nextpid,
    forker      \* history: the pid that forked the task in each slot

vars == <<task, loc, owner, nextpid, forker>>

PCs == {"none", "user", "gone", "stuck", "panic",
        "f_scan", "f_fill", "x_wait", "x_par", "x_wakepar", "x_rep", "x_v",
        "x_wakeinit", "x_gone", "p_lock", "p_sleep", "p_asleep", "w_scan",
        "w_zombie", "k_scan"}

TypeOK ==
    /\ task \in [Tasks -> [state : {"DEAD", "USED", "RUNNABLE", "SLEEPING", "ZOMBIE"},
                           id : -1 .. MaxPid + NTASK, parent : Tasks \cup {None},
                           killed : BOOLEAN, sem : Nat \cup {-1},
                           queued : BOOLEAN]]
    /\ loc \in [Tasks -> [pc : PCs, i : 1 .. NTASK + 1, arg : 0 .. MaxPid + NTASK]]
    /\ owner \in [LockIds -> Tasks \cup {None}]
    /\ nextpid \in 1 .. MaxPid + NTASK + 1
    /\ forker \in [Tasks -> 0 .. MaxPid + NTASK]

Dead == [state |-> "DEAD", id |-> -1, parent |-> None, killed |-> FALSE,
         sem |-> 0, queued |-> FALSE]

\* task_init, then user_init: one user task, in the first slot.
Init ==
    /\ task = [t \in Tasks |-> IF t = init THEN [Dead EXCEPT !.state = "RUNNABLE", !.id = 1]
                                           ELSE Dead]
    /\ loc = [t \in Tasks |-> [pc |-> IF t = init THEN "user" ELSE "none",
                               i |-> 1, arg |-> 0]]
    /\ owner = [l \in LockIds |-> None]
    /\ nextpid = 2
    /\ forker = [t \in Tasks |-> 0]
-----------------------------------------------------------------------------
At(t, here) == loc[t].pc = here
Goto(t, label) == loc' = [loc EXCEPT ![t].pc = label]
GotoAt(t, label, k) == loc' = [loc EXCEPT ![t].pc = label, ![t].i = k]
Free(l) == owner[l] = None
Lock(t, l) == Free(l) /\ owner' = [owner EXCEPT ![l] = t]
Unlock(l) == owner' = [owner EXCEPT ![l] = None]

\* usertrap: killed() under the task's lock, before and after each call.
Trap(t) == At(t, "user") /\ Free(T(t))
Syscall(t) == Trap(t) /\ ~task[t].killed
-----------------------------------------------------------------------------
(* sys_fork and utask_create *)

Fork(t) ==
    /\ Syscall(t) /\ nextpid <= MaxPid
    /\ GotoAt(t, "f_scan", 1)
    /\ UNCHANGED <<task, owner, nextpid, forker>>

ForkSkip(t) ==
    LET k == loc[t].i IN
    /\ At(t, "f_scan") /\ k <= NTASK
    /\ Free(T(k)) /\ task[k].state # "DEAD"
    /\ GotoAt(t, "f_scan", k + 1)
    /\ UNCHANGED <<task, owner, nextpid, forker>>

\* A DEAD slot: it stays locked until the child is complete.
ForkTake(t) ==
    LET k == loc[t].i IN
    /\ At(t, "f_scan") /\ k <= NTASK
    /\ task[k].state = "DEAD" /\ Lock(t, T(k))
    /\ task' = [task EXCEPT ![k].state = "USED", ![k].id = nextpid,
                            ![k].sem = 0, ![k].queued = FALSE]
    /\ nextpid' = nextpid + 1
    /\ Goto(t, "f_fill")
    /\ UNCHANGED forker

\* utask_create returns 0, and sys_fork follows it: the fault ends in panic(),
\* which never returns.
ForkFull(t) ==
    /\ At(t, "f_scan") /\ loc[t].i = NTASK + 1
    /\ GotoAt(t, "panic", 1)
    /\ UNCHANGED <<task, owner, nextpid, forker>>

ForkFill(t) ==
    LET k == loc[t].i IN
    /\ At(t, "f_fill")
    /\ task' = [task EXCEPT ![k].state = "RUNNABLE", ![k].parent = t]
    /\ loc' = [loc EXCEPT ![t].pc = "user", ![t].i = 1,
                          ![k] = [pc |-> "user", i |-> 1, arg |-> 0]]
    /\ Unlock(T(k))
    /\ forker' = [forker EXCEPT ![k] = task[t].id]
    /\ UNCHANGED nextpid
-----------------------------------------------------------------------------
(* lm_V on the sons_sem of u, called by t in exit() and reparent() *)

\* Nobody waits: sem.lk is taken and released around the increment.  The
\* owner of the semaphore waits: it comes off the list and sem.lk is kept.
VInc(t, u, after, wake) ==
    /\ Free(S(u))
    /\ IF task[u].sem + 1 > 0
       THEN /\ task' = [task EXCEPT ![u].sem = @ + 1]
            /\ Goto(t, after) /\ UNCHANGED owner
       ELSE /\ task' = [task EXCEPT ![u].sem = @ + 1, ![u].queued = FALSE]
            /\ Goto(t, wake) /\ Lock(t, S(u))

\* Mutant: lm_V that takes the waiter off the list and leaves it asleep.
VWakeNobody(t, u, after) ==
    /\ Unlock(S(u))
    /\ Goto(t, after)
    /\ UNCHANGED task

VWake(t, u, after) ==
    /\ Free(T(u))
    /\ task' = [task EXCEPT ![u].state = "RUNNABLE"]
    /\ Unlock(S(u))
    /\ Goto(t, after)
-----------------------------------------------------------------------------
(* exit and reparent *)

\* exit(): from sys_exit, or from usertrap when the task has been killed.
Exit(t) ==
    /\ Trap(t)
    /\ task[t].killed \/ t # init \/ InitExits
    /\ Lock(t, T(t))
    /\ task' = [task EXCEPT ![t].state = "ZOMBIE"]
    /\ Goto(t, "x_wait")
    /\ UNCHANGED <<nextpid, forker>>

ExitWaitLock(t) ==
    /\ At(t, "x_wait")
    /\ Lock(t, W)
    /\ GotoAt(t, IF task[t].parent = None THEN "x_rep" ELSE "x_par", 1)
    /\ UNCHANGED <<task, nextpid, forker>>

\* Mutant: exit() that does not tell the parent.
ExitSilent(t) ==
    /\ At(t, "x_par")
    /\ Goto(t, "x_rep")
    /\ UNCHANGED <<task, owner, nextpid, forker>>

ExitTellParent(t) ==
    /\ At(t, "x_par")
    /\ VInc(t, task[t].parent, "x_rep", "x_wakepar")
    /\ UNCHANGED <<nextpid, forker>>

ExitWakeParent(t) ==
    /\ At(t, "x_wakepar")
    /\ VWake(t, task[t].parent, "x_rep")
    /\ UNCHANGED <<nextpid, forker>>

\* Mutant: reparent() that is left out.
NoOrphans(t) == {}

\* The children that reparent()'s loop has still to visit.
Orphans(t) == {p \in loc[t].i .. NTASK : p # t /\ task[p].parent = t}

Reparent(t) ==
    /\ At(t, "x_rep") /\ Orphans(t) # {}
    /\ LET p == Min(Orphans(t)) IN
        /\ task' = [task EXCEPT ![p].parent = init]
        /\ GotoAt(t, "x_v", p + 1)
    /\ UNCHANGED <<owner, nextpid, forker>>

ReparentTellInit(t) ==
    /\ At(t, "x_v")
    /\ VInc(t, init, "x_rep", "x_wakeinit")
    /\ UNCHANGED <<nextpid, forker>>

ReparentWakeInit(t) ==
    /\ At(t, "x_wakeinit")
    /\ VWake(t, init, "x_rep")
    /\ UNCHANGED <<nextpid, forker>>

\* Mutant: exit() that unlocks the task before it has left its stack.
ExitUnlocksEarly(t) ==
    /\ At(t, "x_rep") /\ Orphans(t) = {}
    /\ owner' = [owner EXCEPT ![W] = None, ![T(t)] = None]
    /\ GotoAt(t, "x_gone", 1)
    /\ UNCHANGED <<task, nextpid, forker>>

\* Mutant: exit() that never releases wait_lock.
ExitKeepsWaitLock(t) ==
    /\ At(t, "x_rep") /\ Orphans(t) = {}
    /\ GotoAt(t, "x_gone", 1)
    /\ UNCHANGED <<task, owner, nextpid, forker>>

ReparentDone(t) ==
    /\ At(t, "x_rep") /\ Orphans(t) = {}
    /\ Unlock(W)
    /\ GotoAt(t, "x_gone", 1)
    /\ UNCHANGED <<task, nextpid, forker>>

\* swtch, after which the scheduler unlocks the task.
ExitSwtch(t) ==
    /\ At(t, "x_gone")
    /\ Unlock(T(t))
    /\ Goto(t, "gone")
    /\ UNCHANGED <<task, nextpid, forker>>
-----------------------------------------------------------------------------
(* sys_wait *)

Wait(t) ==
    /\ Syscall(t)
    /\ Goto(t, "p_lock")
    /\ UNCHANGED <<task, owner, nextpid, forker>>

\* lm_P(&t->sons_sem): a token is left, or the task joins the list.
WaitP(t) ==
    /\ At(t, "p_lock") /\ Free(S(t))
    /\ IF task[t].sem > 0
       THEN /\ task' = [task EXCEPT ![t].sem = @ - 1]
            /\ GotoAt(t, "w_scan", 1) /\ UNCHANGED owner
       ELSE /\ task' = [task EXCEPT ![t].sem = @ - 1, ![t].queued = TRUE]
            /\ Goto(t, "p_sleep") /\ Lock(t, S(t))
    /\ UNCHANGED <<nextpid, forker>>

WaitSleep(t) ==
    /\ At(t, "p_sleep") /\ Free(T(t))
    /\ task' = [task EXCEPT ![t].state = "SLEEPING"]
    /\ Unlock(S(t))
    /\ Goto(t, "p_asleep")
    /\ UNCHANGED <<nextpid, forker>>

WaitAwake(t) ==
    /\ At(t, "p_asleep") /\ Free(T(t)) /\ task[t].state = "RUNNABLE"
    /\ GotoAt(t, "w_scan", 1)
    /\ UNCHANGED <<task, owner, nextpid, forker>>

WaitSkip(t) ==
    LET k == loc[t].i IN
    /\ At(t, "w_scan") /\ k <= NTASK
    /\ Free(T(k)) /\ task[k].state # "ZOMBIE"
    /\ GotoAt(t, "w_scan", k + 1)
    /\ UNCHANGED <<task, owner, nextpid, forker>>

WaitZombie(t) ==
    LET k == loc[t].i IN
    /\ At(t, "w_scan") /\ k <= NTASK
    /\ task[k].state = "ZOMBIE" /\ Lock(t, T(k))
    /\ Goto(t, "w_zombie")
    /\ UNCHANGED <<task, nextpid, forker>>

\* Somebody else's zombie.
WaitNotMine(t) ==
    LET k == loc[t].i IN
    /\ At(t, "w_zombie") /\ Free(W) /\ task[k].parent # t
    /\ Unlock(T(k))
    /\ GotoAt(t, "w_scan", k + 1)
    /\ UNCHANGED <<task, nextpid, forker>>

\* free_task keeps killed and the semaphore of the slot.
free_task(k) ==
    task' = [task EXCEPT ![k].state = "DEAD", ![k].id = -1, ![k].parent = None]

\* A zombie of its own: free_task.  (The status copied out is not modelled.)
WaitReap(t) ==
    LET k == loc[t].i IN
    /\ At(t, "w_zombie") /\ Free(W) /\ task[k].parent = t
    /\ free_task(k)
    /\ Unlock(T(k))
    /\ GotoAt(t, "user", 1)
    /\ UNCHANGED <<nextpid, forker>>

\* A fake signal: wait again.
WaitAgain(t) ==
    /\ At(t, "w_scan") /\ loc[t].i = NTASK + 1
    /\ GotoAt(t, "p_lock", 1)
    /\ UNCHANGED <<task, owner, nextpid, forker>>
-----------------------------------------------------------------------------
(* sys_kill and force_exit *)

Kill(t, p) ==
    /\ Syscall(t) /\ t \in Killers /\ p < nextpid
    /\ loc' = [loc EXCEPT ![t] = [pc |-> "k_scan", i |-> 1, arg |-> p]]
    /\ UNCHANGED <<task, owner, nextpid, forker>>

KillSkip(t) ==
    LET k == loc[t].i IN
    /\ At(t, "k_scan") /\ k <= NTASK
    /\ Free(T(k)) /\ task[k].id # loc[t].arg
    /\ GotoAt(t, "k_scan", k + 1)
    /\ UNCHANGED <<task, owner, nextpid, forker>>

\* force_exit: the flag is set; a task that kills itself is switched away
\* from, still RUNNING, and no scheduler picks it again.
KillHit(t) ==
    LET k == loc[t].i IN
    /\ At(t, "k_scan") /\ k <= NTASK
    /\ Free(T(k)) /\ task[k].id = loc[t].arg
    /\ task' = [task EXCEPT ![k].killed = TRUE]
    /\ loc' = [loc EXCEPT ![t] = [pc |-> IF k = t THEN "stuck" ELSE "user",
                                  i |-> 1, arg |-> 0]]
    /\ UNCHANGED <<owner, nextpid, forker>>

KillMiss(t) ==
    /\ At(t, "k_scan") /\ loc[t].i = NTASK + 1
    /\ loc' = [loc EXCEPT ![t] = [pc |-> "user", i |-> 1, arg |-> 0]]
    /\ UNCHANGED <<task, owner, nextpid, forker>>
-----------------------------------------------------------------------------
\* A program makes its next system call.
Call(t) ==
    \/ Fork(t) \/ Wait(t) \/ Exit(t)
    \/ \E p \in 1 .. MaxPid + NTASK : Kill(t, p)

\* The kernel goes on with the call.
Step(t) ==
    \/ ForkSkip(t) \/ ForkTake(t) \/ ForkFull(t) \/ ForkFill(t)
    \/ ExitWaitLock(t) \/ ExitTellParent(t) \/ ExitWakeParent(t)
    \/ Reparent(t) \/ ReparentTellInit(t) \/ ReparentWakeInit(t) \/ ReparentDone(t)
    \/ ExitSwtch(t)
    \/ WaitP(t) \/ WaitSleep(t) \/ WaitAwake(t) \/ WaitSkip(t) \/ WaitZombie(t)
    \/ WaitNotMine(t) \/ WaitReap(t) \/ WaitAgain(t)
    \/ KillSkip(t) \/ KillHit(t) \/ KillMiss(t)

Next == \E t \in Tasks : Call(t) \/ Step(t)

\* A task that is in the kernel goes on (Sched: NoStarvation), and a spinlock
\* that is free again and again is obtained in the end.
Fairness == \A t \in Tasks : SF_vars(Step(t))

Spec == Init /\ [][Next]_vars /\ Fairness
-----------------------------------------------------------------------------
(* Properties *)

Live(t) == task[t].state \notin {"DEAD", "USED"}

\* parent pointers never dangle although slots are reused: a live task's
\* parent is a live task, and it is the very task that forked it or tasks[0]
\* (reparent before free_task, under wait_lock).
ParentValid ==
    \A t \in Tasks : Live(t) /\ task[t].parent # None =>
        /\ Live(task[t].parent)
        /\ task[t].parent = init \/ task[task[t].parent].id = forker[t]

\* A task that sleeps in wait has no zombie child that has told it so: every
\* exit, and every reparenting of a child that is already a zombie, leaves a
\* token that is not consumed by another child's.
NoStrandedZombie ==
    Free(W) =>
        \A t, p \in Tasks :
            task[t].state = "SLEEPING" /\ task[p].parent = t /\ task[p].state = "ZOMBIE"
                => loc[p].pc = "x_wait"

\* How many of t's children are zombies that have signalled.
Zombies(t) == {p \in Tasks : /\ task[p].parent = t /\ task[p].state = "ZOMBIE"
                             /\ loc[p].pc # "x_wait"}

\* sons_sem counts at least the zombies that wait to be reaped, the token
\* that a wait has taken and not yet used included.
TokensCoverZombies ==
    Free(W) =>
        \A t \in Tasks : Live(t) /\ task[t].state # "ZOMBIE" =>
            Cardinality(Zombies(t)) <=
                (IF task[t].sem > 0 THEN task[t].sem ELSE 0)
                + (IF \/ loc[t].pc \in {"w_scan", "w_zombie"}
                      \/ loc[t].pc = "p_asleep" /\ ~task[t].queued THEN 1 ELSE 0)

\* A slot is free only when its old task has left its kernel stack for good
\* and holds no lock: reaping cannot overtake the zombie's last steps.
NoUseAfterFree ==
    \A t \in Tasks : task[t].state = "DEAD" =>
        /\ loc[t].pc \in {"none", "gone"}
        /\ \A l \in LockIds : owner[l] # t

\* Slots through their reuse: parents do not dangle and nobody runs in a slot
\* that has been freed (exit, reparent, sys_wait, free_task).
SlotsSound == TypeOK /\ ParentValid /\ NoUseAfterFree

\* Every zombie's signal is there for the parent that has to reap it, through
\* reparenting and waits that find somebody else's token (exit, sys_wait).
ZombiesSignalled == NoStrandedZombie /\ TokensCoverZombies

\* Nobody is stuck in a nest of spinlocks: every lock is free again and again.
LocksReleased == \A l \in LockIds : []<>Free(l)

\* A wait that has a zombie child to find comes back.
WaitReturns ==
    \A t \in Tasks :
        (loc[t].pc \in {"p_asleep", "w_scan"} /\ Zombies(t) # {}) ~> loc[t].pc = "user"
=============================================================================
