------------------------------- MODULE Sched -------------------------------
(***************************************************************************)
(* Kernel threads on several harts: scheduler(), sched(), yield(), sleep() *)
(* and wakeup() of kernel/proc.c, the semaphores lm_P / lm_V of            *)
(* kernel/lock.c, and the interrupts of kernel/trap.c that drive them.     *)
(*                                                                         *)
(* Spinlocks are owned by harts, as lk->cpu records, and are taken in one  *)
(* step (SpinLock shows what that step stands for); a critical section     *)
(* that touches one lock only is one step.  Every call that a thread may   *)
(* make from the kernel is chosen by \E from Calls.                        *)
(***************************************************************************)
EXTENDS Integers, Sequences

CONSTANTS CPUs,       \* harts
          NTASK,      \* task slots
          Calls,      \* what threads and devices do in this instance
          MaxSem      \* bound: lm_V is not called above this value

AllCalls == {"wait", "signal", "intr", "P", "V", "exit_trap", "sys_exit", "kill_self"}

ASSUME SchedAssumption ==
    /\ NTASK \in Nat \ {0}
    /\ CPUs \cap (0 .. NTASK) = {} /\ "none" \notin CPUs
    /\ Calls \subseteq AllCalls
    /\ MaxSem \in Nat

Tasks == 1 .. NTASK
None == 0
SCHED == 0          \* a hart on the scheduler's own stack
Lk == -1            \* the lock of the condition that threads wait for
SemLk == -2         \* sem->lk
WaitLk == -3        \* wait_lock
Locks == Tasks \cup {Lk, SemLk, WaitLk}     \* a task stands for its t->lock

VARIABLES
    state,      \* t->state
    asleep,     \* t->chan = the condition's channel (FALSE: t->chan = 0)
    tpc,        \* where each thread is
    ret,        \* where a thread that a timer interrupt stopped resumes
    saved,      \* sched()'s local copy of intena
    vic,        \* exit()'s local t (None before it is loaded), and the hart
    run,        \* whose stack each hart is on: a task's or the scheduler's
    cur,        \* c->current
    spc, scan,  \* scheduler(): its position, and the task it is looking at
    hpc,        \* where the device interrupt handler of each hart is
    wscan,      \* the task that wakeup() looks at next, per hart
    cpu,        \* [sie, noff, intena] of each hart
    owner,      \* the hart that holds each lock, "none" if free
    cond,       \* the condition that threads wait for
    value, queue,   \* sem->value; the waiting tasks, oldest first
    panicked

tvars == <<state, asleep, tpc, ret, saved, vic>>
svars == <<run, cur, spc, scan>>
hvars == <<hpc, wscan>>
lvars == <<cpu, owner>>
dvars == <<cond, value, queue>>
vars == <<tvars, svars, hvars, lvars, dvars, panicked>>

Free == "none"
States == {"RUNNABLE", "RUNNING", "SLEEPING", "ZOMBIE"}
TPCs == {"start", "kern", "w_test", "w_done", "s_lock", "s_sleep", "s_sched",
         "s_back", "s_relk", "g_wake", "p_dec", "p_lock", "p_sleep",
         "p_sched", "p_back", "v_inc", "v_wake", "v_done", "y_lock", "y_sched",
         "y_back", "y_ret", "x_load", "x_lock", "x_wait", "x_V", "x_unwait",
         "x_swtch", "gone"}
HPCs == {"none", "h_lock", "h_wake", "h_done"}

TypeOK ==
    /\ state \in [Tasks -> States]
    /\ asleep \in [Tasks -> BOOLEAN]
    /\ tpc \in [Tasks -> TPCs]
    /\ ret \in [Tasks -> TPCs]
    /\ saved \in [Tasks -> BOOLEAN]
    /\ vic \in [Tasks -> Tasks \cup CPUs \cup {None}]
    /\ run \in [CPUs -> Tasks \cup {SCHED}]
    /\ cur \in [CPUs -> Tasks \cup {None}]
    /\ spc \in [CPUs -> {"top", "scan", "back"}]
    /\ scan \in [CPUs -> 1 .. NTASK + 1]
    /\ hpc \in [CPUs -> HPCs]
    /\ wscan \in [CPUs -> 1 .. NTASK + 1]
    /\ cpu \in [CPUs -> [sie : BOOLEAN, noff : Nat, intena : BOOLEAN]]
    /\ owner \in [Locks -> CPUs \cup {Free}]
    /\ cond \in BOOLEAN
    /\ value \in -NTASK .. MaxSem + NTASK
    /\ queue \in Seq(Tasks)
    /\ panicked \in BOOLEAN

\* task_init and task_create: every thread is RUNNABLE and will start at its
\* entry; every hart is about to enter the loop of scheduler().
Init ==
    /\ state = [t \in Tasks |-> "RUNNABLE"]
    /\ asleep = [t \in Tasks |-> FALSE]
    /\ tpc = [t \in Tasks |-> "start"]
    /\ ret = [t \in Tasks |-> "kern"]
    /\ saved = [t \in Tasks |-> FALSE]
    /\ vic = [t \in Tasks |-> None]
    /\ run = [c \in CPUs |-> SCHED]
    /\ cur = [c \in CPUs |-> None]
    /\ spc = [c \in CPUs |-> "top"]
    /\ scan = [c \in CPUs |-> 1]
    /\ hpc = [c \in CPUs |-> "none"]
    /\ wscan = [c \in CPUs |-> 1]
    /\ cpu = [c \in CPUs |-> [sie |-> FALSE, noff |-> 0, intena |-> FALSE]]
    /\ owner = [l \in Locks |-> Free]
    /\ cond = FALSE
    /\ value = 0
    /\ queue = <<>>
    /\ panicked = FALSE
-----------------------------------------------------------------------------
(* Spinlocks and the interrupt switch *)

push_off(r) == [sie |-> FALSE, noff |-> r.noff + 1,
                intena |-> IF r.noff = 0 THEN r.sie ELSE r.intena]

pop_off(r) == [r EXCEPT !.noff = @ - 1,
                        !.sie = r.noff = 1 /\ r.intena]

\* lm_lock: panics when this hart already has the lock, spins while another does.
Acquire(c, l) ==
    /\ owner[l] \in {c, Free}
    /\ IF owner[l] = c
       THEN panicked' = TRUE /\ UNCHANGED lvars
       ELSE /\ owner' = [owner EXCEPT ![l] = c]
            /\ cpu' = [cpu EXCEPT ![c] = push_off(@)]
            /\ UNCHANGED panicked

\* lm_unlock: panics when this hart does not have the lock.
Release(c, l) ==
    IF owner[l] # c
    THEN panicked' = TRUE /\ UNCHANGED lvars
    ELSE /\ owner' = [owner EXCEPT ![l] = Free]
         /\ cpu' = [cpu EXCEPT ![c] = pop_off(@)]
         /\ UNCHANGED panicked

\* Thread t executes on hart c, at label here.
At(c, t, here) ==
    /\ ~panicked
    /\ hpc[c] = "none" /\ run[c] = t /\ tpc[t] = here

Goto(t, label) == tpc' = [tpc EXCEPT ![t] = label]

\* Entering the kernel: interrupts on, no lock held, free to make a call.
Calling(c, t, call) == At(c, t, "kern") /\ call \in Calls
-----------------------------------------------------------------------------
(* scheduler() *)

InScheduler(c, here) ==
    /\ ~panicked
    /\ hpc[c] = "none" /\ run[c] = SCHED /\ spc[c] = here

\* The head of the endless loop: intr_on, and scan from the first task.
SchedTop(c) ==
    /\ InScheduler(c, "top")
    /\ cpu' = [cpu EXCEPT ![c].sie = TRUE]
    /\ scan' = [scan EXCEPT ![c] = 1]
    /\ spc' = [spc EXCEPT ![c] = "scan"]
    /\ UNCHANGED <<tvars, run, cur, hvars, owner, dvars, panicked>>

\* Lock the next task, find it is not RUNNABLE, unlock it.
SchedSkip(c) ==
    /\ InScheduler(c, "scan") /\ scan[c] <= NTASK
    /\ owner[scan[c]] = Free /\ state[scan[c]] # "RUNNABLE"
    /\ scan' = [scan EXCEPT ![c] = @ + 1]
    /\ UNCHANGED <<tvars, run, cur, spc, hvars, lvars, dvars, panicked>>

\* Mutant: the scheduler leaves the thread it switches to RUNNABLE.
SchedPickStaysRunnable(c) ==
    LET t == scan[c] IN
    /\ InScheduler(c, "scan") /\ t <= NTASK
    /\ owner[t] = Free /\ state[t] = "RUNNABLE"
    /\ Acquire(c, t)
    /\ cur' = [cur EXCEPT ![c] = t]
    /\ run' = [run EXCEPT ![c] = t]
    /\ spc' = [spc EXCEPT ![c] = "back"]
    /\ UNCHANGED <<tvars, scan, hvars, dvars>>

\* Lock the next task, find it RUNNABLE, and switch to it.
SchedPick(c) ==
    LET t == scan[c] IN
    /\ InScheduler(c, "scan") /\ t <= NTASK
    /\ owner[t] = Free /\ state[t] = "RUNNABLE"
    /\ Acquire(c, t)
    /\ state' = [state EXCEPT ![t] = "RUNNING"]
    /\ cur' = [cur EXCEPT ![c] = t]
    /\ run' = [run EXCEPT ![c] = t]
    /\ spc' = [spc EXCEPT ![c] = "back"]
    /\ UNCHANGED <<asleep, tpc, ret, saved, vic, scan, hvars, dvars>>

\* Mutant: the loop starts over after each thread that ran.
SchedBackRestarts(c) ==
    /\ InScheduler(c, "back")
    /\ cur' = [cur EXCEPT ![c] = None]
    /\ Release(c, scan[c])
    /\ spc' = [spc EXCEPT ![c] = "top"]
    /\ UNCHANGED <<tvars, run, scan, hvars, dvars>>

\* A thread switched back to the scheduler: unlock it and go on.
SchedBack(c) ==
    /\ InScheduler(c, "back")
    /\ cur' = [cur EXCEPT ![c] = None]
    /\ Release(c, scan[c])
    /\ scan' = [scan EXCEPT ![c] = @ + 1]
    /\ spc' = [spc EXCEPT ![c] = "scan"]
    /\ UNCHANGED <<tvars, run, hvars, dvars>>

SchedWrap(c) ==
    /\ InScheduler(c, "scan") /\ scan[c] = NTASK + 1
    /\ spc' = [spc EXCEPT ![c] = "top"]
    /\ UNCHANGED <<tvars, run, cur, scan, hvars, lvars, dvars, panicked>>

Scheduler(c) ==
    SchedTop(c) \/ SchedSkip(c) \/ SchedPick(c) \/ SchedBack(c) \/ SchedWrap(c)
-----------------------------------------------------------------------------
(* sched(), and the entry of a new thread *)

\* real_entry / ret_entry: the first thing a new thread does.
Entry(c, t) ==
    /\ At(c, t, "start")
    /\ owner[t] = c
    /\ owner' = [owner EXCEPT ![t] = Free]
    /\ cpu' = [cpu EXCEPT ![c] = [pop_off(@) EXCEPT !.sie = TRUE]]
    /\ Goto(t, "kern")
    /\ UNCHANGED <<state, asleep, ret, saved, vic, svars, hvars, dvars, panicked>>

\* Where the callers of sched() continue when they are scheduled again.
AfterSched == [y_sched |-> "y_back", s_sched |-> "s_back", p_sched |-> "p_back"]

SchedPanics(c, t) ==
    \/ owner[t] # c
    \/ cpu[c].noff # 1
    \/ state[t] = "RUNNING"
    \/ cpu[c].sie

\* sched(): its four checks, intena kept in a local, swtch to the scheduler.
sched(c, t) ==
    /\ ~panicked /\ hpc[c] = "none" /\ run[c] = t /\ tpc[t] \in DOMAIN AfterSched
    /\ IF SchedPanics(c, t)
       THEN panicked' = TRUE /\ UNCHANGED <<tvars, run>>
       ELSE /\ saved' = [saved EXCEPT ![t] = cpu[c].intena]
            /\ Goto(t, AfterSched[tpc[t]])
            /\ run' = [run EXCEPT ![c] = SCHED]
            /\ UNCHANGED <<state, asleep, ret, vic, panicked>>
    /\ UNCHANGED <<cur, spc, scan, hvars, lvars, dvars>>

\* Mutant: sched() that leaves the intena of whatever hart it woke up on.
ResumeKeepsHart(c, t) == Release(c, t) /\ saved' = [saved EXCEPT ![t] = FALSE]

\* sched() returns on the hart that picked t: intena restored, then the
\* caller's lm_unlock(&t->lock).
Resume(c, t) ==
    /\ IF owner[t] # c
       THEN panicked' = TRUE /\ UNCHANGED lvars
       ELSE /\ owner' = [owner EXCEPT ![t] = Free]
            /\ cpu' = [cpu EXCEPT ![c] = pop_off([@ EXCEPT !.intena = saved[t]])]
            /\ UNCHANGED panicked
    /\ saved' = [saved EXCEPT ![t] = FALSE]
-----------------------------------------------------------------------------
(* Timer interrupts and yield() *)

\* The timer stops a thread whose hart has interrupts on (handle_software).
Timer(c) ==
    /\ ~panicked /\ hpc[c] = "none" /\ cpu[c].sie
    /\ cur[c] # None /\ run[c] = cur[c] /\ state[cur[c]] = "RUNNING"
    /\ cpu' = [cpu EXCEPT ![c].sie = FALSE]
    /\ ret' = [ret EXCEPT ![cur[c]] = tpc[cur[c]]]
    /\ Goto(cur[c], "y_lock")
    /\ UNCHANGED <<state, asleep, saved, vic, svars, hvars, owner, dvars, panicked>>

Yield(c, t) ==
    /\ At(c, t, "y_lock")
    /\ Acquire(c, t)
    /\ state' = [state EXCEPT ![t] = "RUNNABLE"]
    /\ Goto(t, "y_sched")
    /\ UNCHANGED <<asleep, ret, saved, vic, svars, hvars, dvars>>

YieldBack(c, t) ==
    /\ At(c, t, "y_back")
    /\ Resume(c, t)
    /\ Goto(t, "y_ret")
    /\ UNCHANGED <<state, asleep, ret, vic, svars, hvars, dvars>>

\* handle_software puts sstatus back and sret turns interrupts on again.
TimerReturn(c, t) ==
    /\ At(c, t, "y_ret")
    /\ cpu' = [cpu EXCEPT ![c].sie = TRUE]
    /\ Goto(t, ret[t])
    /\ ret' = [ret EXCEPT ![t] = "kern"]
    /\ UNCHANGED <<state, asleep, saved, vic, svars, hvars, owner, dvars, panicked>>

YieldStep(c, t) == Yield(c, t) \/ YieldBack(c, t) \/ TimerReturn(c, t)
-----------------------------------------------------------------------------
(* sleep() and wakeup(), in the loop that their callers use:               *)
(*   lock lk; while(!cond) sleep(chan, lk); cond = 0; unlock lk            *)
(* So virtio_disk_rw waits for descriptors (cond: some are free), which    *)
(* another thread gives back, with a wakeup, before its own unlock.        *)

WaitCall(c, t) ==
    /\ Calling(c, t, "wait")
    /\ Acquire(c, Lk)
    /\ Goto(t, "w_test")
    /\ UNCHANGED <<state, asleep, ret, saved, vic, svars, hvars, dvars>>

WaitTest(c, t) ==
    /\ At(c, t, "w_test")
    /\ Goto(t, IF cond THEN "w_done" ELSE "s_lock")
    /\ cond' = FALSE
    /\ UNCHANGED <<state, asleep, ret, saved, vic, svars, hvars, lvars, value, queue, panicked>>

WaitDone(c, t) ==
    /\ At(c, t, "w_done")
    /\ Release(c, Lk)
    /\ Goto(t, "kern")
    /\ UNCHANGED <<state, asleep, ret, saved, vic, svars, hvars, dvars>>

SleepLock(c, t) ==
    /\ At(c, t, "s_lock")
    /\ Acquire(c, t)
    /\ Goto(t, "s_sleep")
    /\ UNCHANGED <<state, asleep, ret, saved, vic, svars, hvars, dvars>>

\* Mutant: sleep() that keeps lk.
SleepKeepsLock(c, t) ==
    /\ At(c, t, "s_sleep")
    /\ asleep' = [asleep EXCEPT ![t] = TRUE]
    /\ state' = [state EXCEPT ![t] = "SLEEPING"]
    /\ Goto(t, "s_sched")
    /\ UNCHANGED <<ret, saved, vic, svars, hvars, lvars, dvars, panicked>>

SleepUnlock(c, t) ==
    /\ At(c, t, "s_sleep")
    /\ Release(c, Lk)
    /\ asleep' = [asleep EXCEPT ![t] = TRUE]
    /\ state' = [state EXCEPT ![t] = "SLEEPING"]
    /\ Goto(t, "s_sched")
    /\ UNCHANGED <<ret, saved, vic, svars, hvars, dvars>>

\* Mutant: sleep() that does not tidy up t->chan.
SleepKeepsChan(c, t) ==
    /\ At(c, t, "s_back")
    /\ Resume(c, t)
    /\ Goto(t, "s_relk")
    /\ UNCHANGED <<state, asleep, ret, vic, svars, hvars, dvars>>

SleepBack(c, t) ==
    /\ At(c, t, "s_back")
    /\ asleep' = [asleep EXCEPT ![t] = FALSE]
    /\ Resume(c, t)
    /\ Goto(t, "s_relk")
    /\ UNCHANGED <<state, ret, vic, svars, hvars, dvars>>

SleepRelock(c, t) ==
    /\ At(c, t, "s_relk")
    /\ Acquire(c, Lk)
    /\ Goto(t, "w_test")
    /\ UNCHANGED <<state, asleep, ret, saved, vic, svars, hvars, dvars>>

WaitStep(c, t) ==
    \/ WaitCall(c, t) \/ WaitTest(c, t) \/ WaitDone(c, t) \/ SleepLock(c, t)
    \/ SleepUnlock(c, t) \/ SleepBack(c, t) \/ SleepRelock(c, t)

\* Mutant: wakeup() that passes over a task it could not wake at once.
WakeOneSkipsBusy(c) ==
    LET t == wscan[c] IN
    /\ t <= NTASK
    /\ state' = [state EXCEPT ![t] = IF owner[t] = Free /\ @ = "SLEEPING" /\ asleep[t]
                                     THEN "RUNNABLE" ELSE @]
    /\ wscan' = [wscan EXCEPT ![c] = @ + 1]

\* One round of wakeup()'s loop: lock the task, test it, unlock it; the
\* caller itself (mytask()) is passed over.
WakeOne(c) ==
    LET t == wscan[c] IN
    /\ t <= NTASK
    /\ t = cur[c] \/ owner[t] = Free
    /\ state' = [state EXCEPT ![t] = IF t # cur[c] /\ @ = "SLEEPING" /\ asleep[t]
                                     THEN "RUNNABLE" ELSE @]
    /\ wscan' = [wscan EXCEPT ![c] = @ + 1]

\* A thread makes the condition true and calls wakeup with lk held, as
\* free_desc at the end of virtio_disk_rw.
Signal(c, t) ==
    /\ Calling(c, t, "signal")
    /\ Acquire(c, Lk)
    /\ cond' = TRUE
    /\ Goto(t, "g_wake")
    /\ UNCHANGED <<state, asleep, ret, saved, vic, svars, hvars, value, queue>>

SignalWake(c, t) ==
    /\ At(c, t, "g_wake")
    /\ WakeOne(c)
    /\ UNCHANGED <<asleep, tpc, ret, saved, vic, svars, hpc, lvars, dvars, panicked>>

SignalDone(c, t) ==
    /\ At(c, t, "g_wake") /\ wscan[c] = NTASK + 1
    /\ Release(c, Lk)
    /\ wscan' = [wscan EXCEPT ![c] = 1]
    /\ Goto(t, "kern")
    /\ UNCHANGED <<state, asleep, ret, saved, vic, svars, hpc, dvars>>

\* A device interrupt does the same from its handler (virtio_disk_intr).
Interrupt(c) ==
    /\ ~panicked /\ "intr" \in Calls
    /\ hpc[c] = "none" /\ cpu[c].sie
    /\ cpu' = [cpu EXCEPT ![c].sie = FALSE]
    /\ hpc' = [hpc EXCEPT ![c] = "h_lock"]
    /\ UNCHANGED <<tvars, svars, wscan, owner, dvars, panicked>>

HandlerLock(c) ==
    /\ ~panicked /\ hpc[c] = "h_lock"
    /\ Acquire(c, Lk)
    /\ cond' = TRUE
    /\ hpc' = [hpc EXCEPT ![c] = "h_wake"]
    /\ UNCHANGED <<tvars, svars, wscan, value, queue>>

HandlerWake(c) ==
    /\ ~panicked /\ hpc[c] = "h_wake"
    /\ WakeOne(c)
    /\ UNCHANGED <<asleep, tpc, ret, saved, vic, svars, hpc, lvars, dvars, panicked>>

HandlerDone(c) ==
    /\ ~panicked /\ hpc[c] = "h_wake" /\ wscan[c] = NTASK + 1
    /\ Release(c, Lk)
    /\ wscan' = [wscan EXCEPT ![c] = 1]
    /\ hpc' = [hpc EXCEPT ![c] = "h_done"]
    /\ UNCHANGED <<tvars, svars, dvars>>

HandlerReturn(c) ==
    /\ ~panicked /\ hpc[c] = "h_done"
    /\ cpu' = [cpu EXCEPT ![c].sie = TRUE]
    /\ hpc' = [hpc EXCEPT ![c] = "none"]
    /\ UNCHANGED <<tvars, svars, wscan, owner, dvars, panicked>>

Handler(c) ==
    HandlerLock(c) \/ HandlerWake(c) \/ HandlerDone(c) \/ HandlerReturn(c)
-----------------------------------------------------------------------------
(* Semaphores: lm_P and lm_V *)

PCall(c, t) ==
    /\ Calling(c, t, "P")
    /\ Acquire(c, SemLk)
    /\ Goto(t, "p_dec")
    /\ UNCHANGED <<state, asleep, ret, saved, vic, svars, hvars, dvars>>

\* A token is left: take it and return.
PTake(c, t) ==
    /\ At(c, t, "p_dec") /\ value > 0
    /\ value' = value - 1
    /\ Release(c, SemLk)
    /\ Goto(t, "kern")
    /\ UNCHANGED <<state, asleep, ret, saved, vic, svars, hvars, cond, queue>>

\* None is left: join the list at its head (lm_V serves its tail).
PQueue(c, t) ==
    /\ At(c, t, "p_dec") /\ value <= 0
    /\ value' = value - 1
    /\ queue' = Append(queue, t)
    /\ Goto(t, "p_lock")
    /\ UNCHANGED <<state, asleep, ret, saved, vic, svars, hvars, lvars, cond, panicked>>

PLock(c, t) ==
    /\ At(c, t, "p_lock")
    /\ Acquire(c, t)
    /\ Goto(t, "p_sleep")
    /\ UNCHANGED <<state, asleep, ret, saved, vic, svars, hvars, dvars>>

PSleep(c, t) ==
    /\ At(c, t, "p_sleep")
    /\ state' = [state EXCEPT ![t] = "SLEEPING"]
    /\ Release(c, SemLk)
    /\ Goto(t, "p_sched")
    /\ UNCHANGED <<asleep, ret, saved, vic, svars, hvars, dvars>>

PBack(c, t) ==
    /\ At(c, t, "p_back")
    /\ Resume(c, t)
    /\ Goto(t, "kern")
    /\ UNCHANGED <<state, asleep, ret, vic, svars, hvars, dvars>>

PStep(c, t) ==
    PCall(c, t) \/ PTake(c, t) \/ PQueue(c, t) \/ PLock(c, t) \/ PSleep(c, t) \/ PBack(c, t)

VCall(c, t) ==
    /\ Calling(c, t, "V") /\ value < MaxSem
    /\ Acquire(c, SemLk)
    /\ Goto(t, "v_inc")
    /\ UNCHANGED <<state, asleep, ret, saved, vic, svars, hvars, dvars>>

VInc(c, t) ==
    /\ At(c, t, "v_inc")
    /\ value' = value + 1
    /\ Goto(t, IF value + 1 <= 0 THEN "v_wake" ELSE "v_done")
    /\ UNCHANGED <<state, asleep, ret, saved, vic, svars, hvars, lvars, cond, queue, panicked>>

\* Mutant: lm_V that takes the waiter that came last.
VWakeNewest(c, t) ==
    LET w == queue[Len(queue)] IN
    /\ At(c, t, "v_wake")
    /\ owner[w] = Free
    /\ queue' = SubSeq(queue, 1, Len(queue) - 1)
    /\ state' = [state EXCEPT ![w] = "RUNNABLE"]
    /\ Goto(t, "v_done")
    /\ UNCHANGED <<asleep, ret, saved, vic, svars, hvars, lvars, cond, value, panicked>>

\* Take the oldest waiter off the list; lock it, make it RUNNABLE, unlock it.
VWake(c, t) ==
    LET w == Head(queue) IN
    /\ At(c, t, "v_wake")
    /\ owner[w] = Free
    /\ queue' = Tail(queue)
    /\ state' = [state EXCEPT ![w] = "RUNNABLE"]
    /\ Goto(t, "v_done")
    /\ UNCHANGED <<asleep, ret, saved, vic, svars, hvars, lvars, cond, value, panicked>>

\* lm_V returns to its caller: exit() holds wait_lock, the others hold nothing.
VDone(c, t) ==
    /\ At(c, t, "v_done")
    /\ Release(c, SemLk)
    /\ Goto(t, IF owner[WaitLk] = c THEN "x_unwait" ELSE "kern")
    /\ UNCHANGED <<state, asleep, ret, saved, vic, svars, hvars, dvars>>

VStep(c, t) == VCall(c, t) \/ VInc(c, t) \/ VWake(c, t) \/ VDone(c, t)
-----------------------------------------------------------------------------
(* exit() and kill *)

\* The parent's sons_sem is the semaphore of this module; the threads have no
\* children, so reparent() finds nothing (TaskLife models both in full).

\* usertrap finds the thread killed before it turns interrupts on.
ExitFromTrap(c, t) ==
    /\ Calling(c, t, "exit_trap")
    /\ cpu' = [cpu EXCEPT ![c].sie = FALSE]
    /\ vic' = [vic EXCEPT ![t] = c]
    /\ Goto(t, "x_load")
    /\ UNCHANGED <<state, asleep, ret, saved, svars, hvars, owner, dvars, panicked>>

\* sys_exit, and usertrap after the system call, come with interrupts on.
\* mycpu() reads the hart number now; ->current is loaded in a later step.
ExitFromCall(c, t) ==
    /\ Calling(c, t, "sys_exit")
    /\ vic' = [vic EXCEPT ![t] = c]
    /\ Goto(t, "x_load")
    /\ UNCHANGED <<state, asleep, ret, saved, svars, hvars, lvars, dvars, panicked>>

\* t = mycpu()->current; a null t is an access fault in the next line.
ExitLoad(c, t) ==
    /\ At(c, t, "x_load")
    /\ vic' = [vic EXCEPT ![t] = cur[vic[t]]]
    /\ panicked' = (cur[vic[t]] = None)
    /\ Goto(t, "x_lock")
    /\ UNCHANGED <<state, asleep, ret, saved, svars, hvars, lvars, dvars>>

\* Mutant: exit() that leaves the state alone.
ExitStaysRunning(c, t) ==
    /\ At(c, t, "x_lock")
    /\ Acquire(c, vic[t])
    /\ Goto(t, "x_wait")
    /\ UNCHANGED <<state, asleep, ret, saved, vic, svars, hvars, dvars>>

ExitLock(c, t) ==
    /\ At(c, t, "x_lock")
    /\ Acquire(c, vic[t])
    /\ state' = [state EXCEPT ![vic[t]] = "ZOMBIE"]
    /\ Goto(t, "x_wait")
    /\ UNCHANGED <<asleep, ret, saved, vic, svars, hvars, dvars>>

ExitWaitLock(c, t) ==
    /\ At(c, t, "x_wait")
    /\ Acquire(c, WaitLk)
    /\ Goto(t, "x_V")
    /\ UNCHANGED <<state, asleep, ret, saved, vic, svars, hvars, dvars>>

\* lm_V(&t->parent->sons_sem)
ExitV(c, t) ==
    /\ At(c, t, "x_V")
    /\ Acquire(c, SemLk)
    /\ Goto(t, "v_inc")
    /\ UNCHANGED <<state, asleep, ret, saved, vic, svars, hvars, dvars>>

\* Mutant: exit() that unlocks the task along with wait_lock.
ExitUnlocksBoth(c, t) ==
    /\ At(c, t, "x_unwait")
    /\ owner' = [owner EXCEPT ![WaitLk] = Free, ![t] = Free]
    /\ cpu' = [cpu EXCEPT ![c] = pop_off(pop_off(@))]
    /\ Goto(t, "x_swtch")
    /\ UNCHANGED <<state, asleep, ret, saved, vic, svars, hvars, dvars, panicked>>

ExitUnlock(c, t) ==
    /\ At(c, t, "x_unwait")
    /\ Release(c, WaitLk)
    /\ Goto(t, "x_swtch")
    /\ UNCHANGED <<state, asleep, ret, saved, vic, svars, hvars, dvars>>

\* swtch to the scheduler, without the checks of sched().
ExitSwtch(c, t) ==
    /\ At(c, t, "x_swtch")
    /\ run' = [run EXCEPT ![c] = SCHED]
    /\ vic' = [vic EXCEPT ![t] = None]
    /\ Goto(t, "gone")
    /\ UNCHANGED <<state, asleep, ret, saved, cur, spc, scan, hvars, lvars, dvars, panicked>>

\* sys_kill of the caller's own pid: force_exit switches away at once.
KillSelf(c, t) ==
    /\ Calling(c, t, "kill_self")
    /\ Acquire(c, t)
    /\ Goto(t, "x_swtch")
    /\ UNCHANGED <<state, asleep, ret, saved, vic, svars, hvars, dvars>>

ExitStep(c, t) ==
    \/ ExitFromTrap(c, t) \/ ExitFromCall(c, t) \/ ExitLoad(c, t) \/ ExitLock(c, t)
    \/ ExitWaitLock(c, t) \/ ExitV(c, t) \/ ExitUnlock(c, t) \/ ExitSwtch(c, t)
    \/ KillSelf(c, t)
-----------------------------------------------------------------------------
Thread(c, t) ==
    \/ Entry(c, t) \/ sched(c, t)
    \/ YieldStep(c, t) \/ WaitStep(c, t)
    \/ Signal(c, t) \/ SignalWake(c, t) \/ SignalDone(c, t)
    \/ PStep(c, t) \/ VStep(c, t) \/ ExitStep(c, t)

\* What hart c executes next, if no interrupt comes.
Hart(c) == Scheduler(c) \/ Handler(c) \/ \E t \in Tasks : Thread(c, t)

Next == \E c \in CPUs : Hart(c) \/ Timer(c) \/ Interrupt(c)

\* Harts never stop, a spinning amoswap succeeds in the end, and a pending
\* timer interrupt is taken when interrupts are on often enough.
Fairness == \A c \in CPUs : SF_vars(Hart(c)) /\ SF_vars(Timer(c))

Spec == Init /\ [][Next]_vars /\ Fairness
-----------------------------------------------------------------------------
(* Properties *)

\* No panic of lock.c or sched() is reachable: whatever the interleaving, a
\* thread that calls sched() holds its own lock and no other, has left the
\* RUNNING state and has interrupts off (proc.c:253-273).
NoPanic == ~panicked

\* A thread's stack is used by one hart at a time, although yield() and
\* wakeup() make it RUNNABLE before it has left its hart; current is exact, and
\* a RUNNING thread that has not killed itself is on some hart (proc.c:181-205).
OneHart ==
    /\ \A c, d \in CPUs : c # d /\ run[c] # SCHED => run[c] # run[d]
    /\ \A c \in CPUs : run[c] # SCHED => cur[c] = run[c]
    /\ \A t \in Tasks : state[t] = "RUNNING" /\ tpc[t] # "gone" => \E c \in CPUs : cur[c] = t

\* "It should have changed its t->state before coming back" (proc.c:200-201):
\* the scheduler never resumes with the task it had picked still RUNNING.
StateChanged ==
    \A c \in CPUs : InScheduler(c, "back") => state[scan[c]] # "RUNNING"

\* "It is the process's job to release its lock and then reacquire it before
\* jumping back to us" (proc.c:193-195).
LockedOnReturn ==
    \A c \in CPUs : InScheduler(c, "back") => owner[scan[c]] = c

\* What the scheduler expects of every swtch back to it (proc.c:193-201).
ReturnsClean == StateChanged /\ LockedOnReturn

\* exit and kill panic nowhere and come back to the scheduler with the lock of
\* the task it had picked (proc.c:334-351, 385-393).  True of sys_exit, which
\* runs exit() with interrupts on, with one hart only: on two it may migrate
\* and come back with another task's lock.
ExitsLocked == NoPanic /\ LockedOnReturn

\* "Once we hold p->lock, we can be guaranteed that we won't miss any wakeup"
\* (proc.c:409-414): when nobody is inside the condition's lock, a true
\* condition leaves no thread asleep on the channel.
NoLostWakeup ==
    owner[Lk] = Free /\ cond =>
        \A t \in Tasks : ~(state[t] = "SLEEPING" /\ asleep[t])

\* lm_P returns only to a thread that lm_V chose: no wakeup() of the thread's
\* old channel, and no other step, makes a queued thread run.
PReturnsOnlyByV ==
    \A i \in DOMAIN queue :
        LET t == queue[i] IN
        \/ tpc[t] \in {"p_lock", "p_sleep"} /\ owner[SemLk] # Free
        \/ tpc[t] \in {"p_sched", "p_back"} /\ state[t] = "SLEEPING"

\* sem->value counts: negative, it is the number of queued threads, each of
\* them once, and no thread waits while a token is left.
SemCount ==
    owner[SemLk] = Free =>
        /\ Len(queue) = IF value < 0 THEN -value ELSE 0
        /\ \A i, j \in DOMAIN queue : queue[i] = queue[j] => i = j

\* A thread that is asleep in lm_P is in the list, so some lm_V will find it.
PSleeperQueued ==
    \A t \in Tasks : tpc[t] = "p_back" /\ state[t] = "SLEEPING" =>
        \E i \in DOMAIN queue : queue[i] = t

\* The semaphore between its operations: count, list and sleeping threads
\* agree, and no wakeup() ends an lm_P (lock.c:156-211).
SemConsistent == TypeOK /\ SemCount /\ PSleeperQueued /\ PReturnsOnlyByV

\* lm_P and lm_V, with their locks, list and sleeping threads, implement a
\* FIFO semaphore.  A waiter leaves the list of the abstract semaphore when
\* lm_V raises the count for it, just before it is taken off sem->tail.
FifoSemaphore ==
    INSTANCE FifoSem WITH
        Procs <- Tasks,
        tokens <- IF value > 0 THEN value ELSE 0,
        waiting <- IF \E t \in Tasks : tpc[t] = "v_wake" THEN Tail(queue) ELSE queue

ImplementsSemaphore == FifoSemaphore!Spec

\* A thread has after yield() or sleep() the interrupt state it had before,
\* whichever hart it comes back on: off in the timer's handler, on in the
\* body of a system call (sched() saves and restores intena, proc.c:254-257).
IntrPreserved ==
    \A c \in CPUs : run[c] # SCHED /\ hpc[c] = "none" =>
        /\ tpc[run[c]] = "y_ret" => ~cpu[c].sie
        /\ tpc[run[c]] \in {"kern", "s_relk"} => cpu[c].sie /\ cpu[c].noff = 0

\* The round-robin scan starves nobody: a RUNNABLE thread runs again.
NoStarvation ==
    \A t \in Tasks : state[t] = "RUNNABLE" ~> state[t] = "RUNNING"
=============================================================================
