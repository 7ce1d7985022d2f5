----------------------------- MODULE SchedProof -----------------------------
(***************************************************************************)
(* Proofs about Sched, for any number of harts and threads.                *)
(*                                                                         *)
(* Everything rests on where a thread is: Owners says which locks its hart *)
(* holds there, Harts how deep interrupts are off and what intena will     *)
(* restore, Threads which state it is in.  A thread that no hart runs is   *)
(* parked behind a swtch.  Wakeups and Semaphore are what the condition    *)
(* and the semaphore add to that.                                          *)
(***************************************************************************)
EXTENDS Sched, FiniteSetTheorems, SequenceTheorems, TLAPS

Sie(c) == cpu[c].sie
Noff(c) == cpu[c].noff
Ena(c) == cpu[c].intena

\* exit() from a system call reads the hart number and then current with
\* interrupts on: with a second hart it may end another thread's life, and the
\* theorems below fail.  They are about systems with one hart, or in which
\* threads exit only from traps and by kill.
SafeExits == "sys_exit" \in Calls => \A c, d \in CPUs : c = d

LkPCs == {"w_test", "w_done", "s_lock", "s_sleep", "g_wake"}
VPCs == {"v_inc", "v_wake", "v_done"}
SemPCs == {"p_dec", "p_lock", "p_sleep"} \cup VPCs
SelfPCs == {"start", "s_sleep", "s_sched", "s_back", "p_sleep", "p_sched", "p_back",
            "y_sched", "y_back", "x_wait", "x_V", "x_unwait", "x_swtch"}
YPCs == {"y_lock", "y_sched", "y_back", "y_ret"}
ExitPCs == {"x_load", "x_lock"}
CallPCs == {"w_test", "w_done", "s_lock", "s_sleep", "s_sched", "g_wake",
            "p_dec", "p_lock", "p_sleep", "p_sched"}

\* Which locks a thread's hart holds for it.  lm_V inside exit() is told from
\* other ones by the state of the thread.
Zombie(t) == state[t] = "ZOMBIE"
HasLk(t) == tpc[t] \in LkPCs
HasSem(t) == tpc[t] \in SemPCs
HasWait(t) == tpc[t] \in {"x_V", "x_unwait"} \/ (tpc[t] \in VPCs /\ Zombie(t))
HasSelf(t) == tpc[t] \in SelfPCs \/ (tpc[t] \in VPCs /\ Zombie(t))

One(b) == IF b THEN 1 ELSE 0
Depth(t) == One(HasLk(t)) + One(HasSem(t)) + One(HasWait(t)) + One(HasSelf(t))

\* Hart c is on the scheduler's stack and holds the task it came back from.
Back(c) == run[c] = SCHED /\ spc[c] = "back"

Owners ==
    \A c \in CPUs :
        /\ owner[Lk] = c <=> hpc[c] = "h_wake" \/ (run[c] # SCHED /\ HasLk(run[c]))
        /\ owner[SemLk] = c <=> run[c] # SCHED /\ HasSem(run[c])
        /\ owner[WaitLk] = c <=> run[c] # SCHED /\ HasWait(run[c])
        /\ \A t \in Tasks : owner[t] = c <=> (run[c] = t /\ HasSelf(t)) \/ (Back(c) /\ scan[c] = t)

\* Where a thread may be interrupted.
Open(t) == \/ tpc[t] \in {"kern", "s_relk"}
           \/ tpc[t] \in ExitPCs /\ "sys_exit" \in Calls

\* A thread on hart c.
OnHart(c, t) ==
    /\ cur[c] = t /\ spc[c] = "back" /\ scan[c] = t
    /\ hpc[c] # "none" => Open(t) /\ ~Sie(c)
    /\ hpc[c] = "none" => /\ Noff(c) = Depth(t)
                          /\ tpc[t] \in {"kern", "s_relk"} => Sie(c)
                          /\ Sie(c) => Open(t)
    /\ tpc[t] \in CallPCs \/ (tpc[t] \in VPCs /\ ~Zombie(t)) => Ena(c)
    /\ tpc[t] = "y_sched" => ~Ena(c)
    /\ tpc[t] = "x_load" => vic[t] = c

\* The scheduler of hart c on its own stack.
Scheduling(c) ==
    /\ spc[c] = "back" => cur[c] = scan[c] /\ scan[c] \in Tasks /\ hpc[c] = "none"
                          /\ Noff(c) = 1 /\ ~Sie(c)
    /\ spc[c] # "back" => cur[c] = None /\ (hpc[c] = "none" => Noff(c) = 0)
    /\ hpc[c] # "none" => ~Sie(c)

Waking(c) == hpc[c] = "h_wake" \/ (run[c] # SCHED /\ tpc[run[c]] = "g_wake")

HartOK(c) ==
    /\ IF run[c] = SCHED THEN Scheduling(c) ELSE OnHart(c, run[c])
    /\ hpc[c] # "none" => Noff(c) = One(hpc[c] = "h_wake")
    /\ hpc[c] = "h_wake" => ~Ena(c)
    /\ ~Waking(c) => wscan[c] = 1

Harts == /\ \A c \in CPUs : HartOK(c)
         /\ \A c, d \in CPUs : c # d /\ cur[c] # None => cur[c] # cur[d]

\* The state of a thread that a hart runs, and of one that is parked.
Active(t) ==
    /\ tpc[t] # "gone"
    /\ tpc[t] \in {"s_sched", "p_sched"} => state[t] = "SLEEPING"
    /\ tpc[t] = "y_sched" => state[t] = "RUNNABLE"
    /\ tpc[t] \in {"x_wait", "x_V", "x_unwait"} => state[t] = "ZOMBIE"
    /\ tpc[t] \in VPCs \cup {"x_swtch"} => state[t] \in {"RUNNING", "ZOMBIE"}
    /\ tpc[t] = "x_swtch" /\ state[t] = "RUNNING" => "kill_self" \in Calls
    /\ tpc[t] \notin VPCs \cup {"s_sched", "p_sched", "y_sched", "x_wait", "x_V", "x_unwait", "x_swtch"}
         => state[t] = "RUNNING"

Parked(t) ==
    /\ tpc[t] \in {"start", "y_back", "s_back", "p_back", "gone"}
    /\ tpc[t] \in {"start", "y_back"} => state[t] = "RUNNABLE"
    /\ tpc[t] \in {"s_back", "p_back"} => state[t] \in {"RUNNABLE", "SLEEPING"}
    /\ tpc[t] = "gone" => state[t] = "ZOMBIE" \/ (state[t] = "RUNNING" /\ "kill_self" \in Calls)

\* What a thread's locals hold.
Locals(t) ==
    /\ asleep[t] <=> tpc[t] \in {"s_sched", "s_back"}
    /\ tpc[t] \in {"s_back", "p_back"} => saved[t]
    /\ tpc[t] = "y_back" => ~saved[t]
    /\ ret[t] \in {"kern", "s_relk"} \cup ExitPCs
    /\ tpc[t] \in YPCs /\ ret[t] \in ExitPCs => "sys_exit" \in Calls
    /\ tpc[t] = "x_load" \/ (tpc[t] \in YPCs /\ ret[t] = "x_load") => vic[t] \in CPUs
    /\ tpc[t] = "x_lock" \/ (tpc[t] \in YPCs /\ ret[t] = "x_lock") => vic[t] = t

Threads ==
    \A t \in Tasks : /\ Locals(t)
                     /\ \A c \in CPUs : run[c] = t => Active(t)
                     /\ (\A c \in CPUs : run[c] # t) => Parked(t)

\* Whoever sleeps although the condition is true will be looked at.
Wakeups ==
    /\ \A t \in Tasks : cond /\ state[t] = "SLEEPING" /\ asleep[t] =>
                            \E c \in CPUs : Waking(c) /\ wscan[c] <= t
    /\ \A t \in Tasks : tpc[t] \in {"s_lock", "s_sleep"} => ~cond

\* The list and the count; lm_V takes a waiter off just after it has counted.
InQueue(t) == \E i \in DOMAIN queue : queue[i] = t
Waiter(t) == \/ tpc[t] \in {"p_lock", "p_sleep", "p_sched"}
             \/ tpc[t] = "p_back" /\ state[t] = "SLEEPING"
Serving == \E t \in Tasks : tpc[t] = "v_wake"
Told == {t \in Tasks : \/ tpc[t] \in {"x_unwait", "x_swtch", "gone"}
                       \/ tpc[t] \in {"v_wake", "v_done"} /\ Zombie(t)}
Semaphore ==
    /\ \A i, j \in DOMAIN queue : queue[i] = queue[j] => i = j
    /\ \A t \in Tasks : InQueue(t) <=> Waiter(t)
    /\ Len(queue) = (IF value < 0 THEN -value ELSE 0) + One(Serving)
    /\ value <= MaxSem + Cardinality(Told)
    /\ \A t \in Tasks : tpc[t] = "v_inc" /\ ~Zombie(t) => value < MaxSem

Inv == TypeOK /\ ~panicked /\ Owners /\ Harts /\ Threads /\ Wakeups /\ Semaphore
-----------------------------------------------------------------------------
(* What the assignments change *)

CpuKept(d) == Sie(d)' = Sie(d) /\ Noff(d)' = Noff(d) /\ Ena(d)' = Ena(d)
ThreadKept(u) == /\ state'[u] = state[u] /\ asleep'[u] = asleep[u] /\ tpc'[u] = tpc[u]
                 /\ ret'[u] = ret[u] /\ saved'[u] = saved[u] /\ vic'[u] = vic[u]
Cpus == [CPUs -> [sie : BOOLEAN, noff : Nat, intena : BOOLEAN]]
LockTypes == cpu' \in Cpus /\ owner' \in [Locks -> CPUs \cup {Free}]

TakesLock(c, l) ==
    /\ owner[l] = Free /\ owner'[l] = c /\ (\A m \in Locks \ {l} : owner'[m] = owner[m])
    /\ Noff(c)' = Noff(c) + 1 /\ ~Sie(c)' /\ (Noff(c) = 0 => Ena(c)' = Sie(c))
    /\ (Noff(c) # 0 => Ena(c)' = Ena(c))
    /\ (\A d \in CPUs \ {c} : CpuKept(d)) /\ LockTypes /\ panicked' = FALSE

DropsLock(c, l) ==
    /\ owner[l] = c /\ owner'[l] = Free /\ (\A m \in Locks \ {l} : owner'[m] = owner[m])
    /\ Noff(c)' = Noff(c) - 1 /\ Sie(c)' = (Noff(c) = 1 /\ Ena(c)) /\ Ena(c)' = Ena(c)
    /\ (\A d \in CPUs \ {c} : CpuKept(d)) /\ LockTypes /\ panicked' = FALSE

LEMMA Sets ==
    /\ NTASK \in Nat \ {0} /\ Tasks = 1 .. NTASK /\ Tasks \subseteq Nat /\ None \notin Tasks
    /\ SCHED \notin Tasks /\ SCHED = 0 /\ None = 0
    /\ Tasks \subseteq Locks /\ Lk \in Locks /\ SemLk \in Locks /\ WaitLk \in Locks
    /\ Lk \notin Tasks /\ SemLk \notin Tasks /\ WaitLk \notin Tasks
    /\ Lk # SemLk /\ Lk # WaitLk /\ SemLk # WaitLk /\ Free \notin CPUs
    /\ (\A t \in Tasks : t \notin CPUs) /\ None \notin CPUs /\ MaxSem \in Nat
    /\ \A l \in Locks : l \in Tasks \/ l = Lk \/ l = SemLk \/ l = WaitLk
<1>1. NTASK \in Nat \ {0} /\ MaxSem \in Nat /\ Free \notin CPUs /\ CPUs \cap (0 .. NTASK) = {}
  BY SchedAssumption DEF Free
<1>2. \A t \in 0 .. NTASK : t \notin CPUs
  BY <1>1
<1> QED
  BY <1>1, <1>2 DEF Tasks, None, SCHED, Lk, SemLk, WaitLk, Locks

LEMMA Typed ==
  ASSUME TypeOK
  PROVE  /\ \A t \in Tasks : /\ state[t] \in States /\ asleep[t] \in BOOLEAN /\ tpc[t] \in TPCs
                             /\ ret[t] \in TPCs /\ saved[t] \in BOOLEAN
                             /\ vic[t] \in Tasks \cup CPUs \cup {None}
         /\ \A c \in CPUs : /\ run[c] \in Tasks \cup {SCHED} /\ cur[c] \in Tasks \cup {None}
                            /\ spc[c] \in {"top", "scan", "back"} /\ scan[c] \in 1 .. NTASK + 1
                            /\ hpc[c] \in HPCs /\ wscan[c] \in 1 .. NTASK + 1
                            /\ Sie(c) \in BOOLEAN /\ Noff(c) \in Nat /\ Ena(c) \in BOOLEAN
         /\ \A l \in Locks : owner[l] \in CPUs \cup {Free}
         /\ cond \in BOOLEAN /\ value \in Int /\ queue \in Seq(Tasks) /\ panicked \in BOOLEAN
<1>1. \A c \in CPUs : Sie(c) \in BOOLEAN /\ Noff(c) \in Nat /\ Ena(c) \in BOOLEAN
  BY DEF TypeOK, Sie, Noff, Ena
<1>2. value \in Int
  BY Sets DEF TypeOK
<1> QED
  BY <1>1, <1>2 DEF TypeOK

LEMMA AcquireEffect ==
  ASSUME TypeOK, ~panicked, NEW c \in CPUs, NEW l \in Locks, owner[l] # c, Acquire(c, l)
  PROVE  TakesLock(c, l)
<1>1. /\ owner[l] = Free /\ owner' = [owner EXCEPT ![l] = c] /\ panicked' = panicked
      /\ cpu' = [cpu EXCEPT ![c] = push_off(cpu[c])]
      /\ owner \in [Locks -> CPUs \cup {Free}] /\ cpu \in Cpus
  BY DEF Acquire, TypeOK, Cpus
<1>2. PICK r \in [sie : BOOLEAN, noff : Nat, intena : BOOLEAN] : r = cpu[c]
  BY <1>1 DEF Cpus
<1>3. push_off(r) \in [sie : BOOLEAN, noff : Nat, intena : BOOLEAN]
  BY DEF push_off
<1>4. cpu' \in Cpus /\ cpu'[c] = push_off(r) /\ \A d \in CPUs \ {c} : cpu'[d] = cpu[d]
  BY <1>1, <1>2, <1>3 DEF Cpus
<1>5. /\ Noff(c)' = Noff(c) + 1 /\ ~Sie(c)' /\ (Noff(c) = 0 => Ena(c)' = Sie(c))
      /\ (Noff(c) # 0 => Ena(c)' = Ena(c))
  BY <1>2, <1>4 DEF Noff, Sie, Ena, push_off
<1>6. \A d \in CPUs \ {c} : CpuKept(d)
  BY <1>4 DEF CpuKept, Noff, Sie, Ena
<1> QED
  BY <1>1, <1>4, <1>5, <1>6 DEF TakesLock, LockTypes

\* The record of a hart after pop_off.
LEMMA PopEffect ==
  ASSUME NEW r \in [sie : BOOLEAN, noff : Nat, intena : BOOLEAN], r.noff >= 1
  PROVE  /\ pop_off(r) \in [sie : BOOLEAN, noff : Nat, intena : BOOLEAN]
         /\ pop_off(r).noff = r.noff - 1 /\ pop_off(r).intena = r.intena
         /\ pop_off(r).sie = (r.noff = 1 /\ r.intena)
<1>1. PICK m \in Nat : m = r.noff - 1
  OBVIOUS
<1>2. PICK b \in BOOLEAN : b = (r.noff = 1 /\ r.intena)
  OBVIOUS
<1>3. pop_off(r) = [r EXCEPT !.noff = m, !.sie = b]
  BY <1>1, <1>2, Zenon DEF pop_off
<1>4. /\ [r EXCEPT !.noff = m, !.sie = b] \in [sie : BOOLEAN, noff : Nat, intena : BOOLEAN]
      /\ [r EXCEPT !.noff = m, !.sie = b].noff = m /\ [r EXCEPT !.noff = m, !.sie = b].sie = b
      /\ [r EXCEPT !.noff = m, !.sie = b].intena = r.intena
  OBVIOUS
<1> QED
  BY <1>1, <1>2, <1>3, <1>4

LEMMA ReleaseEffect ==
  ASSUME TypeOK, ~panicked, NEW c \in CPUs, NEW l \in Locks, owner[l] = c, Noff(c) >= 1, Release(c, l)
  PROVE  DropsLock(c, l)
<1>1. /\ owner' = [owner EXCEPT ![l] = Free] /\ panicked' = panicked
      /\ cpu' = [cpu EXCEPT ![c] = pop_off(cpu[c])]
      /\ owner \in [Locks -> CPUs \cup {Free}] /\ cpu \in Cpus
  BY DEF Release, TypeOK, Cpus
<1>2. PICK r \in [sie : BOOLEAN, noff : Nat, intena : BOOLEAN] : r = cpu[c]
  BY <1>1 DEF Cpus
<1>3. PICK q \in [sie : BOOLEAN, noff : Nat, intena : BOOLEAN] :
           /\ q = pop_off(r) /\ q.noff = r.noff - 1 /\ q.intena = r.intena
           /\ q.sie = (r.noff = 1 /\ r.intena)
  BY <1>2, PopEffect DEF Noff
<1>4. cpu' \in Cpus /\ cpu'[c] = q /\ \A d \in CPUs \ {c} : cpu'[d] = cpu[d]
  BY <1>1, <1>2, <1>3 DEF Cpus
<1>5. Noff(c)' = Noff(c) - 1 /\ Sie(c)' = (Noff(c) = 1 /\ Ena(c)) /\ Ena(c)' = Ena(c)
  BY <1>2, <1>3, <1>4 DEF Noff, Sie, Ena
<1>6. \A d \in CPUs \ {c} : CpuKept(d)
  BY <1>4 DEF CpuKept, Noff, Sie, Ena
<1> QED
  BY <1>1, <1>4, <1>5, <1>6 DEF DropsLock, LockTypes

\* The return from sched(): intena is the thread's own again.
LEMMA ResumeEffect ==
  ASSUME TypeOK, ~panicked, NEW c \in CPUs, NEW t \in Tasks, owner[t] = c, Noff(c) = 1, Resume(c, t)
  PROVE  /\ owner'[t] = Free /\ (\A m \in Locks \ {t} : owner'[m] = owner[m])
         /\ Noff(c)' = 0 /\ Sie(c)' = saved[t] /\ (\A d \in CPUs \ {c} : CpuKept(d))
         /\ LockTypes /\ panicked' = FALSE /\ saved' = [saved EXCEPT ![t] = FALSE]
<1>0. saved[t] \in BOOLEAN
  BY Typed
<1>1. /\ owner' = [owner EXCEPT ![t] = Free] /\ panicked' = panicked
      /\ cpu' = [cpu EXCEPT ![c] = pop_off([cpu[c] EXCEPT !.intena = saved[t]])]
      /\ owner \in [Locks -> CPUs \cup {Free}] /\ cpu \in Cpus /\ t \in Locks
      /\ saved' = [saved EXCEPT ![t] = FALSE]
  BY Sets DEF Resume, TypeOK, Cpus
<1>2. PICK r \in [sie : BOOLEAN, noff : Nat, intena : BOOLEAN] :
           r = [cpu[c] EXCEPT !.intena = saved[t]] /\ r.noff = 1 /\ r.intena = saved[t]
  BY <1>0, <1>1 DEF Cpus, Noff
<1>3. PICK q \in [sie : BOOLEAN, noff : Nat, intena : BOOLEAN] :
           q = pop_off(r) /\ q.noff = 0 /\ q.sie = saved[t]
  <2>1. PICK q \in [sie : BOOLEAN, noff : Nat, intena : BOOLEAN] :
             q = pop_off(r) /\ q.noff = r.noff - 1 /\ q.sie = (r.noff = 1 /\ r.intena)
    BY <1>2, PopEffect
  <2>2. q.sie = TRUE <=> saved[t] = TRUE
    BY <1>0, <1>2, <2>1
  <2>3. q.sie = saved[t]
    BY <1>0, <2>1, <2>2
  <2> QED
    BY <1>2, <2>1, <2>3
<1>4. cpu' \in Cpus /\ cpu'[c] = q /\ \A d \in CPUs \ {c} : cpu'[d] = cpu[d]
  BY <1>1, <1>2, <1>3 DEF Cpus
<1>5. Noff(c)' = 0 /\ Sie(c)' = saved[t]
  BY <1>3, <1>4 DEF Noff, Sie
<1>6. \A d \in CPUs \ {c} : CpuKept(d)
  BY <1>4 DEF CpuKept, Noff, Sie, Ena
<1> QED
  BY <1>1, <1>4, <1>5, <1>6 DEF LockTypes

LEMMA SieEffect ==
  ASSUME TypeOK, NEW c \in CPUs, NEW b \in BOOLEAN, cpu' = [cpu EXCEPT ![c].sie = b]
  PROVE  /\ cpu' \in Cpus /\ Sie(c)' = b /\ Noff(c)' = Noff(c) /\ Ena(c)' = Ena(c)
         /\ \A d \in CPUs \ {c} : CpuKept(d)
<1>1. cpu \in Cpus
  BY DEF TypeOK, Cpus
<1> QED
  BY <1>1 DEF Cpus, CpuKept, Sie, Noff, Ena
-----------------------------------------------------------------------------
(* A step of one thread on its hart *)

OwnersOf(c) ==
    /\ owner[Lk] = c <=> hpc[c] = "h_wake" \/ (run[c] # SCHED /\ HasLk(run[c]))
    /\ owner[SemLk] = c <=> run[c] # SCHED /\ HasSem(run[c])
    /\ owner[WaitLk] = c <=> run[c] # SCHED /\ HasWait(run[c])
    /\ \A t \in Tasks : owner[t] = c <=> (run[c] = t /\ HasSelf(t)) \/ (Back(c) /\ scan[c] = t)

LEMMA Start ==
  ASSUME Inv
  PROVE  /\ TypeOK /\ panicked = FALSE /\ Owners /\ Harts /\ Threads /\ Wakeups /\ Semaphore
         /\ (\A c \in CPUs : OwnersOf(c) /\ HartOK(c))
         /\ \A t \in Tasks : /\ state[t] \in States /\ asleep[t] \in BOOLEAN /\ tpc[t] \in TPCs
                             /\ ret[t] \in TPCs /\ saved[t] \in BOOLEAN
                             /\ vic[t] \in Tasks \cup CPUs \cup {None}
         /\ \A c \in CPUs : /\ run[c] \in Tasks \cup {SCHED} /\ cur[c] \in Tasks \cup {None}
                            /\ spc[c] \in {"top", "scan", "back"} /\ scan[c] \in 1 .. NTASK + 1
                            /\ hpc[c] \in HPCs /\ wscan[c] \in 1 .. NTASK + 1
                            /\ Sie(c) \in BOOLEAN /\ Noff(c) \in Nat /\ Ena(c) \in BOOLEAN
         /\ \A l \in Locks : owner[l] \in CPUs \cup {Free}
         /\ cond \in BOOLEAN /\ value \in Int /\ queue \in Seq(Tasks)
         /\ NTASK \in Nat /\ SCHED \notin Tasks /\ None \notin Tasks /\ SCHED = None
         /\ Tasks \subseteq Locks /\ Lk \in Locks /\ SemLk \in Locks /\ WaitLk \in Locks
         /\ Lk \notin Tasks /\ SemLk \notin Tasks /\ WaitLk \notin Tasks
         /\ Lk # SemLk /\ Lk # WaitLk /\ SemLk # WaitLk /\ Free \notin CPUs
<1>1. TypeOK /\ panicked = FALSE /\ Owners /\ Harts /\ Threads /\ Wakeups /\ Semaphore
  BY DEF Inv, TypeOK
<1>2. \A c \in CPUs : OwnersOf(c) /\ HartOK(c)
  BY <1>1 DEF Owners, OwnersOf, Harts
<1> QED
  BY <1>1, <1>2, Typed, Sets

\* Only thread t and its hart c change.
Local(c, t) ==
    /\ UNCHANGED <<svars, hpc>>
    /\ \A u \in Tasks \ {t} : ThreadKept(u)
    /\ \A d \in CPUs \ {c} : CpuKept(d) /\ wscan'[d] = wscan[d]

\* No hart but c takes or drops a lock.
OthersKeep(c) == \A l \in Locks, d \in CPUs \ {c} : owner'[l] = d <=> owner[l] = d

LEMMA OneRuns ==
  ASSUME Inv, NEW c \in CPUs, NEW t \in Tasks, run[c] = t
  PROVE  /\ cur[c] = t /\ (\A d \in CPUs \ {c} : run[d] # t /\ cur[d] # t)
         /\ OnHart(c, t) /\ Active(t) /\ Locals(t)
<1>1. HartOK(c) /\ run[c] # SCHED
  BY Start
<1>2. OnHart(c, t) /\ cur[c] = t
  BY <1>1 DEF HartOK, OnHart
<1>3. \A d \in CPUs \ {c} : cur[d] # t
  BY <1>2, Start DEF Harts
<1>4. \A d \in CPUs \ {c} : run[d] # t
  <2> SUFFICES ASSUME NEW d \in CPUs \ {c}, run[d] = t PROVE FALSE
    OBVIOUS
  <2>1. HartOK(d) /\ run[d] # SCHED
    BY Start
  <2> QED
    BY <1>3, <2>1 DEF HartOK, OnHart
<1> QED
  BY <1>2, <1>3, <1>4, Start DEF Threads

\* Hart d is where it was.
StackSame(d) == /\ run'[d] = run[d] /\ cur'[d] = cur[d] /\ spc'[d] = spc[d] /\ scan'[d] = scan[d]
                /\ hpc'[d] = hpc[d]
HartSame(d) == StackSame(d) /\ wscan'[d] = wscan[d] /\ CpuKept(d)

LEMMA HartKept ==
  ASSUME Inv, NEW d \in CPUs, HartSame(d), run[d] # SCHED => ThreadKept(run[d])
  PROVE  HartOK(d)'
<1>1. HartOK(d)
  BY Start
<1>2. CASE run[d] = SCHED
  BY <1>1, <1>2 DEF HartOK, Scheduling, Waking, HartSame, StackSame, CpuKept
<1>3. CASE run[d] # SCHED
  <2>1. PICK u \in Tasks : u = run[d]
    BY <1>3, Start
  <2>2. Depth(u)' = Depth(u) /\ (Open(u)' <=> Open(u)) /\ (Zombie(u)' <=> Zombie(u)) /\ tpc'[u] = tpc[u]
        /\ vic'[u] = vic[u]
    BY <1>3, <2>1 DEF Depth, One, HasLk, HasSem, HasWait, HasSelf, Zombie, Open, ThreadKept
  <2>3. OnHart(d, u)
    BY <1>1, <1>3, <2>1 DEF HartOK
  <2>4. OnHart(d, u)'
    BY <2>2, <2>3 DEF OnHart, HartSame, StackSame, CpuKept
  <2> QED
    BY <1>1, <1>3, <2>1, <2>2, <2>4 DEF HartOK, Waking, HartSame, StackSame, CpuKept
<1> QED
  BY <1>2, <1>3

LEMMA OwnersKept ==
  ASSUME Inv, NEW d \in CPUs, StackSame(d),
         run[d] # SCHED => ThreadKept(run[d]), \A l \in Locks : owner'[l] = d <=> owner[l] = d
  PROVE  OwnersOf(d)'
<1>1. OwnersOf(d)
  BY Start
<1>2. run[d] # SCHED => /\ HasLk(run[d])' <=> HasLk(run[d])
                        /\ HasSem(run[d])' <=> HasSem(run[d])
                        /\ HasWait(run[d])' <=> HasWait(run[d])
                        /\ HasSelf(run[d])' <=> HasSelf(run[d])
  BY DEF ThreadKept, HasLk, HasSem, HasWait, HasSelf, Zombie, StackSame
<1>3. \A t \in Tasks : run[d] = t => run[d] # SCHED
  BY Sets
<1>4. (owner[Lk] = d)' <=> (hpc[d] = "h_wake" \/ (run[d] # SCHED /\ HasLk(run[d])))'
  BY <1>1, <1>2, Sets DEF OwnersOf, StackSame
<1>5. (owner[SemLk] = d)' <=> (run[d] # SCHED /\ HasSem(run[d]))'
  BY <1>1, <1>2, Sets DEF OwnersOf, StackSame
<1>6. (owner[WaitLk] = d)' <=> (run[d] # SCHED /\ HasWait(run[d]))'
  BY <1>1, <1>2, Sets DEF OwnersOf, StackSame
<1>7. ASSUME NEW t \in Tasks
      PROVE  (owner[t] = d)' <=> ((run[d] = t /\ HasSelf(t)) \/ (Back(d) /\ scan[d] = t))'
  BY <1>1, <1>2, <1>3, Sets DEF OwnersOf, StackSame, Back
<1> QED
  BY <1>4, <1>5, <1>6, <1>7 DEF OwnersOf

LEMMA LocalInv ==
  ASSUME Inv, NEW c \in CPUs, NEW t \in Tasks, run[c] = t, Local(c, t), OthersKeep(c),
         TypeOK', panicked' = FALSE, OwnersOf(c)', HartOK(c)', Active(t)', Locals(t)', Wakeups', Semaphore'
  PROVE  Inv'
<1>1. UNCHANGED <<run, cur, spc, scan, hpc>>
  BY DEF Local, svars
<1>2. \A d \in CPUs \ {c} : run[d] # SCHED => ThreadKept(run[d])
  BY OneRuns, Start DEF Local
<1>3. \A d \in CPUs \ {c} : HartOK(d)'
  BY <1>1, <1>2, HartKept DEF Local, HartSame, StackSame
<1>4. \A d \in CPUs \ {c} : OwnersOf(d)'
  BY <1>1, <1>2, OwnersKept DEF OthersKeep, StackSame
<1>5. Owners'
  BY <1>4 DEF Owners, OwnersOf
<1>6. Harts'
  BY <1>1, <1>3, Start DEF Harts
<1>7. Threads'
  <2> SUFFICES ASSUME NEW u \in Tasks
               PROVE  /\ Locals(u)'
                      /\ \A d \in CPUs : (run[d])' = u => Active(u)'
                      /\ (\A d \in CPUs : (run[d])' # u) => Parked(u)'
    BY DEF Threads
  <2>1. CASE u = t
    BY <1>1, <2>1
  <2>2. CASE u # t
    <3>1. ThreadKept(u)
      BY <2>2 DEF Local
    <3>2. Locals(u) /\ (\A d \in CPUs : run[d] = u => Active(u)) /\ ((\A d \in CPUs : run[d] # u) => Parked(u))
      BY Start DEF Threads
    <3>3. Locals(u)' /\ (Active(u) => Active(u)') /\ (Parked(u) => Parked(u)')
      BY <3>1, <3>2 DEF ThreadKept, Locals, Active, Parked
    <3> QED
      BY <1>1, <3>2, <3>3
  <2> QED
    BY <2>1, <2>2
<1> QED
  BY <1>5, <1>6, <1>7 DEF Inv

LEMMA WakeupsKept ==
  ASSUME Inv, NEW c \in CPUs, NEW t \in Tasks, run[c] = t, Local(c, t), cond' => cond,
         state'[t] = "SLEEPING" /\ asleep'[t] => ~cond' \/ (state[t] = "SLEEPING" /\ asleep[t]),
         Waking(c) => (Waking(c)' /\ wscan'[c] = wscan[c]) \/ wscan[c] = NTASK + 1,
         tpc'[t] \in {"s_lock", "s_sleep"} => ~cond'
  PROVE  Wakeups'
<1>1. ASSUME NEW u \in Tasks, cond', state'[u] = "SLEEPING", asleep'[u]
      PROVE  \E d \in CPUs : Waking(d)' /\ wscan'[d] <= u
  <2>1. cond /\ state[u] = "SLEEPING" /\ asleep[u]
    BY <1>1 DEF Local, ThreadKept
  <2>2. PICK d \in CPUs : Waking(d) /\ wscan[d] <= u
    BY <2>1, Start DEF Wakeups
  <2>3. CASE d = c
    <3>1. wscan[c] # NTASK + 1
      BY <2>2, <2>3, Sets
    <3> QED
      BY <2>2, <2>3, <3>1
  <2>4. CASE d # c
    <3>1. run[d] # SCHED => ThreadKept(run[d])
      BY <2>4, OneRuns, Start DEF Local
    <3>2. Waking(d)' /\ wscan'[d] = wscan[d]
      BY <2>2, <2>4, <3>1 DEF Waking, Local, svars, ThreadKept
    <3> QED
      BY <2>2, <3>2
  <2> QED
    BY <2>3, <2>4
<1>2. \A u \in Tasks : tpc'[u] \in {"s_lock", "s_sleep"} => ~cond'
  BY Start DEF Local, ThreadKept, Wakeups
<1> QED
  BY <1>1, <1>2 DEF Wakeups

LEMMA ToldMore ==
  ASSUME Told \subseteq Told'
  PROVE  Cardinality(Told) \in Nat /\ Cardinality(Told') \in Nat /\ Cardinality(Told) <= Cardinality(Told')
<1>1. PICK A, B : A = Told /\ B = Told' /\ A \subseteq B /\ B \subseteq Tasks
  BY DEF Told
<1>2. IsFiniteSet(Tasks)
  BY Sets, FS_Interval
<1>3. IsFiniteSet(B) /\ IsFiniteSet(A) /\ Cardinality(A) <= Cardinality(B)
  BY <1>1, <1>2, FS_Subset
<1> QED
  BY <1>1, <1>3, FS_CardinalityType

LEMMA OthersSemaphore ==
  ASSUME Inv, NEW t \in Tasks, \A u \in Tasks \ {t} : ThreadKept(u), UNCHANGED <<value, queue>>,
         Waiter(t)' <=> Waiter(t), tpc'[t] = "v_wake" <=> tpc[t] = "v_wake", t \in Told => t \in Told',
         tpc'[t] = "v_inc" /\ ~Zombie(t)' => value < MaxSem
  PROVE  Semaphore'
<1>1. \A u \in Tasks \ {t} : /\ Waiter(u)' <=> Waiter(u)
                             /\ tpc'[u] = tpc[u] /\ (Zombie(u)' <=> Zombie(u))
                             /\ u \in Told => u \in Told'
  BY DEF ThreadKept, Waiter, Zombie, Told
<1>2. Told \subseteq Told'
  BY <1>1 DEF Told
<1>3. value' <= MaxSem + Cardinality(Told')
  <2>1. value <= MaxSem + Cardinality(Told) /\ value \in Int /\ MaxSem \in Nat /\ value' = value
    BY Sets, Start DEF Semaphore
  <2> QED
    BY <1>2, <2>1, ToldMore
<1>4. Serving' <=> Serving
  BY <1>1 DEF Serving
<1>5. One(Serving)' = One(Serving)
  BY <1>4 DEF One
<1>6. \A u \in Tasks : InQueue(u)' <=> Waiter(u)'
  BY <1>1, Start DEF Semaphore, InQueue
<1>7. \A u \in Tasks : tpc'[u] = "v_inc" /\ ~Zombie(u)' => value' < MaxSem
  BY <1>1, Start DEF Semaphore
<1>8. Len(queue') = (IF value' < 0 THEN -value' ELSE 0) + One(Serving)'
  BY <1>5, Start DEF Semaphore
<1>9. \A i, j \in DOMAIN queue' : queue'[i] = queue'[j] => i = j
  BY Start DEF Semaphore
<1> QED
  BY <1>3, <1>6, <1>7, <1>8, <1>9 DEF Semaphore

LEMMA SemaphoreKept ==
  ASSUME Inv, NEW c \in CPUs, NEW t \in Tasks, run[c] = t, Local(c, t), UNCHANGED <<value, queue>>,
         Waiter(t)' <=> Waiter(t), tpc'[t] = "v_wake" <=> tpc[t] = "v_wake", t \in Told => t \in Told',
         tpc'[t] = "v_inc" /\ ~Zombie(t)' => value < MaxSem
  PROVE  Semaphore'
BY OthersSemaphore DEF Local

Good(c, t) == /\ Local(c, t) /\ OthersKeep(c) /\ panicked' = FALSE /\ LockTypes
              /\ OwnersOf(c)' /\ HartOK(c)' /\ Active(t)' /\ Locals(t)'

LEMMA GoodInv ==
  ASSUME Inv, NEW c \in CPUs, NEW t \in Tasks, run[c] = t, Good(c, t), TypeOK', Wakeups', Semaphore'
  PROVE  Inv'
BY LocalInv DEF Good

\* The thread moves to here and is in state st.
Moves(t, here, st) == /\ tpc'[t] = here /\ state'[t] = st
                      /\ \A u \in Tasks \ {t} : tpc'[u] = tpc[u] /\ state'[u] = state[u]

Enters(t, here, l, st) ==
    \/ tpc[t] = "kern" /\ here = "w_test" /\ l = Lk /\ st = state[t]
    \/ tpc[t] = "kern" /\ here = "g_wake" /\ l = Lk /\ st = state[t]
    \/ tpc[t] = "kern" /\ here = "p_dec" /\ l = SemLk /\ st = state[t]
    \/ tpc[t] = "kern" /\ here = "v_inc" /\ l = SemLk /\ st = state[t]
    \/ tpc[t] = "kern" /\ here = "x_swtch" /\ l = t /\ st = state[t] /\ "kill_self" \in Calls
    \/ tpc[t] = "s_relk" /\ here = "w_test" /\ l = Lk /\ st = state[t]
    \/ tpc[t] = "s_lock" /\ here = "s_sleep" /\ l = t /\ st = state[t]
    \/ tpc[t] = "p_lock" /\ here = "p_sleep" /\ l = t /\ st = state[t]
    \/ tpc[t] = "y_lock" /\ here = "y_sched" /\ l = t /\ st = "RUNNABLE"
    \/ tpc[t] = "x_lock" /\ here = "x_wait" /\ l = t /\ st = "ZOMBIE"
    \/ tpc[t] = "x_wait" /\ here = "x_V" /\ l = WaitLk /\ st = state[t]
    \/ tpc[t] = "x_V" /\ here = "v_inc" /\ l = SemLk /\ st = state[t]

LEMMA Taking ==
  ASSUME Inv, NEW c \in CPUs, NEW t \in Tasks, run[c] = t, hpc[c] = "none", NEW here, NEW l, NEW st,
         Enters(t, here, l, st), Moves(t, here, st), Acquire(c, l),
         UNCHANGED <<asleep, ret, saved, vic, svars, hvars>>
  PROVE  Good(c, t) /\ TakesLock(c, l)
<1>1. OnHart(c, t) /\ Active(t) /\ Locals(t) /\ run[c] # SCHED /\ OwnersOf(c) /\ HartOK(c)
  BY OneRuns, Start
<1>2. l \in Locks /\ owner[l] # c
  BY <1>1, Start DEF Enters, OwnersOf, HasLk, HasSem, HasWait, HasSelf, Zombie, Active, Back,
     LkPCs, SemPCs, VPCs, SelfPCs
<1>3. TakesLock(c, l)
  BY <1>2, AcquireEffect, Start
<1>4. Local(c, t) /\ UNCHANGED <<run, cur, spc, scan, hpc, wscan>>
  BY <1>3 DEF Local, TakesLock, ThreadKept, Moves, svars, hvars
<1>5. OthersKeep(c)
  BY <1>3, Start DEF OthersKeep, TakesLock
<1>6. Active(t)' /\ Locals(t)'
  BY <1>1 DEF Enters, Moves, Active, Locals, VPCs, YPCs, ExitPCs
<1>7. OwnersOf(c)'
  <2>1. owner'[l] = c /\ (\A m \in Locks \ {l} : owner'[m] = owner[m])
    BY <1>3 DEF TakesLock
  <2>2. owner'[Lk] = c <=> HasLk(t)'
    BY <1>1, <1>2, <2>1, Start DEF Enters, Moves, Active, OwnersOf, HasLk, LkPCs
  <2>3. owner'[SemLk] = c <=> HasSem(t)'
    BY <1>1, <1>2, <2>1, Start DEF Enters, Moves, Active, OwnersOf, HasSem, SemPCs, VPCs
  <2>4. owner'[WaitLk] = c <=> HasWait(t)'
    BY <1>1, <1>2, <2>1, Start DEF Enters, Moves, Active, OwnersOf, HasWait, VPCs, Zombie
  <2>5. owner'[t] = c <=> HasSelf(t)'
    BY <1>1, <1>2, <2>1, Start DEF Enters, Moves, Active, OwnersOf, HasSelf, SelfPCs, VPCs, Zombie, Back
  <2>6. \A u \in Tasks \ {t} : owner'[u] # c
    BY <1>1, <1>2, <2>1, Start DEF Enters, OwnersOf, Back
  <2> QED
    BY <1>1, <1>4, <2>2, <2>3, <2>4, <2>5, <2>6 DEF OwnersOf, Back
<1>8. HartOK(c)'
  <2>1. /\ Noff(c)' = Noff(c) + 1 /\ ~Sie(c)' /\ (Noff(c) = 0 => Ena(c)' = Sie(c))
        /\ (Noff(c) # 0 => Ena(c)' = Ena(c))
    BY <1>3 DEF TakesLock
  <2>2. Noff(c) = Depth(t) /\ Depth(t)' = Depth(t) + 1
    BY <1>1, Start DEF OnHart, Enters, Moves, Active, Depth, One, HasLk, HasSem, HasWait, HasSelf,
       LkPCs, SemPCs, SelfPCs, VPCs, Zombie
  <2>3. Depth(t) = 0 <=> ~(HasLk(t) \/ HasSem(t) \/ HasWait(t) \/ HasSelf(t))
    BY DEF Depth, One
  <2>4. OnHart(c, t)'
    BY <1>1, <1>4, <2>1, <2>2, <2>3, Start DEF OnHart, Enters, Moves, Active, Open, HasLk, HasSem, HasWait,
       HasSelf, LkPCs, SemPCs, SelfPCs, CallPCs, VPCs, ExitPCs, Zombie
  <2>5. ~Waking(c)' => wscan'[c] = 1
    BY <1>1, <1>4 DEF HartOK, Waking, Enters
  <2> QED
    BY <1>1, <1>4, <2>4, <2>5 DEF HartOK
<1> QED
  BY <1>3, <1>4, <1>5, <1>6, <1>7, <1>8 DEF Good, TakesLock

Leaves(t, here, l, st) ==
    \/ tpc[t] = "w_done" /\ here = "kern" /\ l = Lk /\ st = state[t]
    \/ tpc[t] = "g_wake" /\ here = "kern" /\ l = Lk /\ st = state[t]
    \/ tpc[t] = "s_sleep" /\ here = "s_sched" /\ l = Lk /\ st = "SLEEPING"
    \/ tpc[t] = "p_dec" /\ here = "kern" /\ l = SemLk /\ st = state[t]
    \/ tpc[t] = "p_sleep" /\ here = "p_sched" /\ l = SemLk /\ st = "SLEEPING"
    \/ tpc[t] = "v_done" /\ here = "kern" /\ l = SemLk /\ st = state[t] /\ ~Zombie(t)
    \/ tpc[t] = "v_done" /\ here = "x_unwait" /\ l = SemLk /\ st = state[t] /\ Zombie(t)
    \/ tpc[t] = "x_unwait" /\ here = "x_swtch" /\ l = WaitLk /\ st = state[t]

LEMMA Dropping ==
  ASSUME Inv, NEW c \in CPUs, NEW t \in Tasks, run[c] = t, hpc[c] = "none", NEW here, NEW l, NEW st,
         Leaves(t, here, l, st), Moves(t, here, st), Release(c, l),
         asleep'[t] = (here = "s_sched"), \A u \in Tasks \ {t} : asleep'[u] = asleep[u],
         wscan'[c] = 1, \A d \in CPUs \ {c} : wscan'[d] = wscan[d],
         UNCHANGED <<ret, saved, vic, svars, hpc>>
  PROVE  Good(c, t) /\ DropsLock(c, l)
<1>1. OnHart(c, t) /\ Active(t) /\ Locals(t) /\ run[c] # SCHED /\ OwnersOf(c) /\ HartOK(c)
  BY OneRuns, Start
<1>2. l \in Locks /\ owner[l] = c
  BY <1>1, Start DEF Leaves, OwnersOf, HasLk, HasSem, HasWait, HasSelf, Zombie, Active, Back,
     LkPCs, SemPCs, VPCs, SelfPCs
<1>3. Noff(c) = Depth(t) /\ Depth(t) >= 1 /\ Depth(t)' = Depth(t) - 1
  BY <1>1, Start DEF OnHart, Leaves, Moves, Active, Depth, One, HasLk, HasSem, HasWait, HasSelf,
     LkPCs, SemPCs, SelfPCs, VPCs, Zombie
<1>4. DropsLock(c, l)
  BY <1>2, <1>3, ReleaseEffect, Start
<1>5. Local(c, t) /\ UNCHANGED <<run, cur, spc, scan, hpc>>
  BY <1>4 DEF Local, DropsLock, ThreadKept, Moves, svars
<1>6. OthersKeep(c)
  BY <1>4, Start DEF OthersKeep, DropsLock
<1>7. Active(t)' /\ Locals(t)'
  BY <1>1 DEF Leaves, Moves, Active, Locals, VPCs, YPCs, ExitPCs, Zombie
<1>8. OwnersOf(c)'
  <2>1. owner'[l] = Free /\ Free # c /\ (\A m \in Locks \ {l} : owner'[m] = owner[m])
    BY <1>4, Sets DEF DropsLock
  <2>2. owner'[Lk] = c <=> HasLk(t)'
    BY <1>1, <1>2, <2>1, Start DEF Leaves, Moves, Active, OwnersOf, HasLk, LkPCs
  <2>3. owner'[SemLk] = c <=> HasSem(t)'
    BY <1>1, <1>2, <2>1, Start DEF Leaves, Moves, Active, OwnersOf, HasSem, SemPCs, VPCs
  <2>4. owner'[WaitLk] = c <=> HasWait(t)'
    BY <1>1, <1>2, <2>1, Start DEF Leaves, Moves, Active, OwnersOf, HasWait, VPCs, Zombie
  <2>5. owner'[t] = c <=> HasSelf(t)'
    BY <1>1, <1>2, <2>1, Start DEF Leaves, Moves, Active, OwnersOf, HasSelf, SelfPCs, VPCs, Zombie, Back
  <2>6. \A u \in Tasks \ {t} : owner'[u] # c
    BY <1>1, <1>2, <2>1, Start DEF Leaves, OwnersOf, Back
  <2> QED
    BY <1>1, <1>5, <2>2, <2>3, <2>4, <2>5, <2>6 DEF OwnersOf, Back
<1>9. HartOK(c)'
  <2>1. Noff(c)' = Noff(c) - 1 /\ (Sie(c)' <=> Noff(c) = 1 /\ Ena(c)) /\ (Ena(c)' <=> Ena(c))
    BY <1>4 DEF DropsLock
  <2>2. here = "kern" => Depth(t) = 1
    BY <1>1, Start DEF Leaves, Active, Depth, One, HasLk, HasSem, HasWait, HasSelf,
       LkPCs, SemPCs, SelfPCs, VPCs, Zombie
  <2>3. here # "kern" => Depth(t) # 1
    BY <1>1, Start DEF Leaves, Active, Depth, One, HasLk, HasSem, HasWait, HasSelf,
       LkPCs, SemPCs, SelfPCs, VPCs, Zombie
  <2>4. OnHart(c, t)'
    BY <1>1, <1>3, <1>5, <2>1, <2>2, <2>3, Start DEF OnHart, Leaves, Moves, Active, Open, CallPCs, VPCs,
       ExitPCs, Zombie
  <2> QED
    BY <1>1, <1>5, <2>4 DEF HartOK
<1> QED
  BY <1>4, <1>5, <1>6, <1>7, <1>8, <1>9 DEF Good, DropsLock

\* sched() returns, or a new thread enters: the thread's own lock is dropped.
Returns(t, here, on) ==
    \/ tpc[t] = "start" /\ here = "kern" /\ on
    \/ tpc[t] = "y_back" /\ here = "y_ret" /\ ~on
    \/ tpc[t] = "s_back" /\ here = "s_relk" /\ on
    \/ tpc[t] = "p_back" /\ here = "kern" /\ on

LEMMA Returning ==
  ASSUME Inv, NEW c \in CPUs, NEW t \in Tasks, run[c] = t, hpc[c] = "none", NEW here, NEW on \in BOOLEAN,
         Returns(t, here, on), Moves(t, here, state[t]),
         owner'[t] = Free, \A m \in Locks \ {t} : owner'[m] = owner[m],
         Noff(c)' = 0, Sie(c)' = on, \A d \in CPUs \ {c} : CpuKept(d), LockTypes, panicked' = FALSE,
         ~asleep'[t], \A u \in Tasks \ {t} : asleep'[u] = asleep[u] /\ saved'[u] = saved[u],
         UNCHANGED <<ret, vic, svars, hvars>>
  PROVE  Good(c, t)
<1>1. OnHart(c, t) /\ Active(t) /\ Locals(t) /\ run[c] # SCHED /\ OwnersOf(c) /\ HartOK(c)
  BY OneRuns, Start
<1>2. owner[t] = c /\ t \in Locks
  BY <1>1, Start DEF Returns, OwnersOf, HasSelf, SelfPCs
<1>3. Depth(t)' = 0
  BY DEF Returns, Moves, Depth, One, HasLk, HasSem, HasWait, HasSelf, LkPCs, SemPCs, SelfPCs, VPCs
<1>4. Local(c, t) /\ UNCHANGED <<run, cur, spc, scan, hpc, wscan>>
  BY DEF Local, ThreadKept, Moves, svars, hvars
<1>5. OthersKeep(c)
  BY <1>2, Start DEF OthersKeep
<1>6. Active(t)' /\ Locals(t)'
  BY <1>1 DEF Returns, Moves, Active, Locals, VPCs, YPCs, ExitPCs
<1>7. OwnersOf(c)'
  <2>1. owner'[Lk] = owner[Lk] /\ owner'[SemLk] = owner[SemLk] /\ owner'[WaitLk] = owner[WaitLk]
        /\ \A u \in Tasks \ {t} : owner'[u] = owner[u]
    BY Start
  <2>2. ~HasLk(t) /\ ~HasSem(t) /\ ~HasWait(t) /\ ~HasLk(t)' /\ ~HasSem(t)' /\ ~HasWait(t)' /\ ~HasSelf(t)'
    BY DEF Returns, Moves, HasLk, HasSem, HasWait, HasSelf, LkPCs, SemPCs, SelfPCs, VPCs
  <2>3. \A u \in Tasks \ {t} : owner[u] # c
    BY <1>1, Start DEF OwnersOf, Back
  <2> QED
    BY <1>1, <1>4, <2>1, <2>2, <2>3, Start DEF OwnersOf, Back
<1>8. HartOK(c)'
  <2>1. OnHart(c, t)'
    BY <1>1, <1>3, <1>4 DEF OnHart, Returns, Moves, Open, CallPCs, VPCs, ExitPCs
  <2>2. ~Waking(c)' => wscan'[c] = 1
    BY <1>1, <1>4 DEF HartOK, Waking, Returns, Moves
  <2> QED
    BY <1>1, <1>4, <2>1, <2>2 DEF HartOK
<1> QED
  BY <1>4, <1>5, <1>6, <1>7, <1>8 DEF Good

\* The locks stay as they are; interrupts may be switched.
Passes(c, t, here, on, off) ==
    \/ Open(t) /\ here = "y_lock" /\ ret'[t] = tpc[t] /\ vic'[t] = vic[t] /\ off
    \/ tpc[t] = "y_ret" /\ here = ret[t] /\ ret'[t] = "kern" /\ vic'[t] = vic[t] /\ on
    \/ tpc[t] = "w_test" /\ here \in {"w_done", "s_lock"} /\ ret'[t] = ret[t] /\ vic'[t] = vic[t]
       /\ ~on /\ ~off
    \/ tpc[t] = "p_dec" /\ here = "p_lock" /\ ret'[t] = ret[t] /\ vic'[t] = vic[t] /\ ~on /\ ~off
    \/ tpc[t] = "v_inc" /\ here \in {"v_wake", "v_done"} /\ ret'[t] = ret[t] /\ vic'[t] = vic[t]
       /\ ~on /\ ~off
    \/ tpc[t] = "kern" /\ here = "x_load" /\ ret'[t] = ret[t] /\ vic'[t] = c
       /\ ~on /\ (off \/ "sys_exit" \in Calls)
    \/ tpc[t] = "x_load" /\ here = "x_lock" /\ ret'[t] = ret[t] /\ vic'[t] = t /\ ~on /\ ~off

LEMMA Passing ==
  ASSUME Inv, SafeExits, NEW c \in CPUs, NEW t \in Tasks, run[c] = t, hpc[c] = "none", NEW here,
         NEW on \in BOOLEAN, NEW off \in BOOLEAN, Passes(c, t, here, on, off), Moves(t, here, state[t]),
         \A u \in Tasks \ {t} : ret'[u] = ret[u] /\ vic'[u] = vic[u],
         on => Sie(c)' = TRUE, off => Sie(c)' = FALSE, ~on /\ ~off => Sie(c)' = Sie(c),
         Noff(c)' = Noff(c), Ena(c)' = Ena(c), cpu' \in Cpus, \A d \in CPUs \ {c} : CpuKept(d),
         UNCHANGED <<asleep, saved, svars, hvars, owner, panicked>>
  PROVE  Good(c, t)
<1>1. OnHart(c, t) /\ Active(t) /\ Locals(t) /\ run[c] # SCHED /\ OwnersOf(c) /\ HartOK(c)
  BY OneRuns, Start
<1>2. here \in {"y_lock", "w_done", "s_lock", "p_lock", "v_wake", "v_done", "kern", "s_relk"} \cup ExitPCs
  BY <1>1 DEF Passes, Locals, ExitPCs
<1>3. /\ HasLk(t)' <=> HasLk(t)
      /\ HasSem(t)' <=> HasSem(t)
      /\ HasWait(t)' <=> HasWait(t)
      /\ HasSelf(t)' <=> HasSelf(t)
  BY <1>1, <1>2 DEF Passes, Moves, HasLk, HasSem, HasWait, HasSelf, LkPCs, SemPCs, SelfPCs, VPCs, Zombie,
     Open, ExitPCs, Locals
<1>4. Depth(t)' = Depth(t)
  BY <1>3 DEF Depth, One
<1>5. Local(c, t) /\ UNCHANGED <<run, cur, spc, scan, hpc, wscan>>
  BY DEF Local, ThreadKept, Moves, svars, hvars
<1>6. OthersKeep(c) /\ LockTypes
  BY Start DEF OthersKeep, LockTypes, TypeOK
<1>7. Active(t)' /\ Locals(t)'
  <2>1. Active(t)'
    BY <1>1, <1>2 DEF Passes, Moves, Active, VPCs, ExitPCs, Open
  <2>2. Locals(t)'
    BY <1>1, <1>2 DEF Passes, Moves, Locals, YPCs, ExitPCs, Open
  <2> QED
    BY <2>1, <2>2
<1>8. OwnersOf(c)'
  BY <1>1, <1>3, <1>5, Start DEF OwnersOf, Back
<1>9. HartOK(c)'
  <2>1. here \in {"kern", "s_relk"} => on
    BY DEF Passes
  <2>2. here \in ExitPCs /\ Sie(c)' => "sys_exit" \in Calls
    BY <1>1 DEF Passes, Locals, YPCs, OnHart, Open, ExitPCs
  <2>3. here = "x_load" => vic'[t] = c \/ ("sys_exit" \in Calls /\ vic'[t] \in CPUs)
    BY <1>1 DEF Passes, Locals, YPCs, ExitPCs
  <2>4. here = "x_load" => vic'[t] = c
    BY <2>3 DEF SafeExits
  <2>5. OnHart(c, t)'
    <3>1. tpc'[t] \in CallPCs \/ (tpc'[t] \in VPCs /\ ~Zombie(t)') => Ena(c)'
      BY <1>1, <1>2 DEF OnHart, Passes, Locals, Moves, CallPCs, VPCs, Zombie, ExitPCs
    <3>2. Sie(c)' => Open(t)'
      BY <1>1, <1>2, <2>2 DEF OnHart, Passes, Locals, Moves, Open, ExitPCs
    <3>3. tpc'[t] \in {"kern", "s_relk"} => Sie(c)'
      BY <2>1 DEF Moves
    <3> QED
      BY <1>1, <1>2, <1>4, <1>5, <2>4, <3>1, <3>2, <3>3 DEF OnHart, Moves, ExitPCs
  <2>6. ~Waking(c)' => wscan'[c] = 1
    BY <1>1, <1>5 DEF HartOK, Waking, Passes, Moves, Open, ExitPCs
  <2> QED
    BY <1>1, <1>5, <2>5, <2>6 DEF HartOK
<1> QED
  BY <1>5, <1>6, <1>7, <1>8, <1>9, Start DEF Good
-----------------------------------------------------------------------------
(* The threads' actions *)

LEMMA TypeStep ==
  ASSUME Inv, state' \in [Tasks -> States], asleep' \in [Tasks -> BOOLEAN], tpc' \in [Tasks -> TPCs],
         ret' \in [Tasks -> TPCs], saved' \in [Tasks -> BOOLEAN],
         vic' \in [Tasks -> Tasks \cup CPUs \cup {None}], wscan' \in [CPUs -> 1 .. NTASK + 1],
         UNCHANGED <<svars, hpc>>, LockTypes, cond' \in BOOLEAN,
         value' \in -NTASK .. MaxSem + NTASK, queue' \in Seq(Tasks), panicked' = FALSE
  PROVE  TypeOK'
BY Typed, Start DEF TypeOK, svars, LockTypes, Cpus

LEMMA DataSame ==
  ASSUME Inv, UNCHANGED dvars
  PROVE  UNCHANGED <<cond, value, queue>> /\ cond' \in BOOLEAN /\ queue' \in Seq(Tasks)
         /\ value' \in -NTASK .. MaxSem + NTASK
BY Start DEF TypeOK, dvars

Takes(c, t) == \/ WaitCall(c, t) \/ SleepLock(c, t) \/ SleepRelock(c, t) \/ PCall(c, t) \/ PLock(c, t)
               \/ VCall(c, t) \/ Yield(c, t) \/ ExitLock(c, t) \/ ExitWaitLock(c, t) \/ ExitV(c, t)
               \/ KillSelf(c, t)

LEMMA TakesOK == ASSUME Inv, NEW c \in CPUs, NEW t \in Tasks, Takes(c, t) PROVE Inv'
<1>1. run[c] = t /\ hpc[c] = "none" /\ UNCHANGED <<asleep, ret, saved, vic, svars, hvars, dvars>>
  BY DEF Takes, WaitCall, SleepLock, SleepRelock, PCall, PLock, VCall, Yield, ExitLock, ExitWaitLock,
     ExitV, KillSelf, Calling, At
<1>2. PICK here \in TPCs, l \in Locks, st \in States :
           /\ Enters(t, here, l, st) /\ Acquire(c, l) /\ Goto(t, here)
           /\ state' = [state EXCEPT ![t] = st]
           /\ here = "v_inc" => value < MaxSem \/ tpc[t] = "x_V"
  <2>1. state = [state EXCEPT ![t] = state[t]] /\ state[t] \in States
    BY Start DEF TypeOK
  <2>2. tpc[t] = "x_lock" => vic[t] = t
    BY <1>1, OneRuns DEF Locals
  <2>3. t \in Locks /\ Lk \in Locks /\ SemLk \in Locks /\ WaitLk \in Locks
    BY Sets
  <2>4. CASE WaitCall(c, t) \/ SleepRelock(c, t)
    BY <2>1, <2>3, <2>4 DEF WaitCall, SleepRelock, Calling, At, Enters, TPCs
  <2>5. CASE SleepLock(c, t) \/ PLock(c, t)
    BY <2>1, <2>3, <2>5 DEF SleepLock, PLock, At, Enters, TPCs
  <2>6. CASE PCall(c, t)
    BY <2>1, <2>3, <2>6 DEF PCall, Calling, At, Enters, TPCs
  <2>7. CASE VCall(c, t)
    BY <2>1, <2>3, <2>7 DEF VCall, Calling, At, Enters, TPCs
  <2>8. CASE Yield(c, t)
    BY <2>3, <2>8 DEF Yield, At, Enters, TPCs, States
  <2>9. CASE ExitLock(c, t)
    BY <2>2, <2>3, <2>9 DEF ExitLock, At, Enters, TPCs, States
  <2>10. CASE ExitWaitLock(c, t) \/ ExitV(c, t)
    BY <2>1, <2>3, <2>10 DEF ExitWaitLock, ExitV, At, Enters, TPCs
  <2>11. CASE KillSelf(c, t)
    BY <2>1, <2>3, <2>11 DEF KillSelf, Calling, At, Enters, TPCs
  <2> QED
    BY <2>4, <2>5, <2>6, <2>7, <2>8, <2>9, <2>10, <2>11 DEF Takes
<1>3. Moves(t, here, st) /\ tpc' \in [Tasks -> TPCs] /\ state' \in [Tasks -> States]
  BY <1>2, Start DEF Moves, Goto, TypeOK
<1>4. Good(c, t)
  BY <1>1, <1>2, <1>3, Taking
<1>5. TypeOK'
  BY <1>1, <1>3, <1>4, TypeStep, DataSame, Start DEF Good, TypeOK, hvars
<1>6. Wakeups'
  <2>1. tpc'[t] \in {"s_lock", "s_sleep"} => ~cond'
    BY <1>1, <1>2, <1>3, Start DEF Enters, Moves, Wakeups, dvars
  <2>2. ~Waking(c)
    BY <1>1, <1>2 DEF Enters, Waking
  <2>3. state'[t] = "SLEEPING" => state[t] = "SLEEPING"
    BY <1>2, <1>3 DEF Enters, Moves
  <2> QED
    BY <1>1, <1>4, <2>1, <2>2, <2>3, WakeupsKept DEF Good, dvars
<1>7. Semaphore'
  <2>1. Waiter(t)' <=> Waiter(t)
    BY <1>2, <1>3 DEF Enters, Moves, Waiter
  <2>2. t \notin Told /\ tpc'[t] # "v_wake" /\ tpc[t] # "v_wake"
    BY <1>2, <1>3 DEF Enters, Moves, Told
  <2>3. tpc'[t] = "v_inc" /\ ~Zombie(t)' => value < MaxSem
    <3>1. tpc[t] = "x_V" => state[t] = "ZOMBIE"
      BY <1>1, OneRuns DEF Active
    <3> QED
      BY <1>2, <1>3, <3>1 DEF Enters, Moves, Zombie
  <2> QED
    BY <1>1, <1>4, <2>1, <2>2, <2>3, SemaphoreKept DEF Good, dvars
<1> QED
  BY <1>1, <1>4, <1>5, <1>6, <1>7, GoodInv

\* A thread makes the condition true: whoever sleeps is looked at from now on.
LEMMA SignalOK == ASSUME Inv, NEW c \in CPUs, NEW t \in Tasks, Signal(c, t) PROVE Inv'
<1>1. /\ run[c] = t /\ hpc[c] = "none" /\ tpc[t] = "kern" /\ Acquire(c, Lk) /\ Goto(t, "g_wake") /\ cond' = TRUE
      /\ UNCHANGED <<state, asleep, ret, saved, vic, svars, hvars, value, queue>>
  BY DEF Signal, Calling, At
<1>2. /\ Moves(t, "g_wake", state[t]) /\ tpc' \in [Tasks -> TPCs] /\ Enters(t, "g_wake", Lk, state[t])
  BY <1>1, Start DEF Moves, Goto, TypeOK, Enters, TPCs
<1>3. Good(c, t) /\ TakesLock(c, Lk)
  BY <1>1, <1>2, Taking
<1>4. TypeOK'
  BY <1>1, <1>2, <1>3, TypeStep, Start DEF Good, TypeOK, hvars
<1>5. Wakeups'
  <2>1. Waking(c)' /\ wscan'[c] = 1
    <3>1. HartOK(c) /\ ~Waking(c)
      BY <1>1, Start DEF Waking
    <3> QED
      BY <1>1, <1>2, <3>1, Start DEF HartOK, Waking, Moves, svars, hvars
  <2>2. \A u \in Tasks : 1 <= u
    BY Sets
  <2>3. ASSUME NEW u \in Tasks PROVE tpc'[u] \notin {"s_lock", "s_sleep"}
    <3> SUFFICES ASSUME tpc'[u] \in {"s_lock", "s_sleep"} PROVE FALSE
      OBVIOUS
    <3>1. u # t /\ tpc[u] \in {"s_lock", "s_sleep"}
      BY <1>2 DEF Moves
    <3>2. PICK d \in CPUs : run[d] = u
      BY <3>1, Start DEF Threads, Parked
    <3>3. owner[Lk] = d
      BY <3>1, <3>2, Start DEF OwnersOf, HasLk, LkPCs
    <3> QED
      BY <1>3, <3>3, Sets DEF TakesLock
  <2> QED
    BY <2>1, <2>2, <2>3 DEF Wakeups
<1>6. Semaphore'
  <2>1. /\ Waiter(t)' <=> Waiter(t)
        /\ t \notin Told /\ tpc'[t] # "v_wake" /\ tpc[t] # "v_wake" /\ tpc'[t] # "v_inc"
    BY <1>1, <1>2 DEF Moves, Waiter, Told
  <2> QED
    BY <1>1, <1>3, <2>1, SemaphoreKept DEF Good
<1> QED
  BY <1>1, <1>3, <1>4, <1>5, <1>6, GoodInv

Drops(c, t) == \/ WaitDone(c, t) \/ SleepUnlock(c, t) \/ SignalDone(c, t) \/ PSleep(c, t) \/ VDone(c, t)
               \/ ExitUnlock(c, t)

LEMMA DropsOK == ASSUME Inv, NEW c \in CPUs, NEW t \in Tasks, Drops(c, t) PROVE Inv'
<1>1. run[c] = t /\ hpc[c] = "none" /\ UNCHANGED <<ret, saved, vic, svars, hpc, dvars>>
  BY DEF Drops, WaitDone, SleepUnlock, SignalDone, PSleep, VDone, ExitUnlock, At, hvars
<1>2. OnHart(c, t) /\ Active(t) /\ Locals(t) /\ run[c] # SCHED /\ OwnersOf(c) /\ HartOK(c)
  BY <1>1, OneRuns, Start
<1>3. PICK here \in TPCs, l \in Locks, st \in States :
           /\ Leaves(t, here, l, st) /\ Release(c, l) /\ Goto(t, here)
           /\ state' = [state EXCEPT ![t] = st]
           /\ asleep' = [asleep EXCEPT ![t] = (here = "s_sched")]
           /\ wscan' = [wscan EXCEPT ![c] = 1]
           /\ tpc[t] = "g_wake" => wscan[c] = NTASK + 1
  <2>1. state = [state EXCEPT ![t] = state[t]] /\ state[t] \in States
    BY Start DEF TypeOK
  <2>2. tpc[t] # "s_sched" /\ tpc[t] # "s_back" => asleep = [asleep EXCEPT ![t] = FALSE]
    BY <1>2, Start DEF Locals, TypeOK
  <2>3. tpc[t] # "g_wake" => wscan = [wscan EXCEPT ![c] = 1]
    BY <1>1, <1>2, Start DEF HartOK, Waking, TypeOK
  <2>4. t \in Locks /\ Lk \in Locks /\ SemLk \in Locks /\ WaitLk \in Locks
    BY Sets
  <2>5. CASE WaitDone(c, t)
    BY <2>1, <2>2, <2>3, <2>4, <2>5 DEF WaitDone, At, Leaves, TPCs, hvars
  <2>6. CASE SleepUnlock(c, t)
    BY <2>3, <2>4, <2>6 DEF SleepUnlock, At, Leaves, TPCs, States, hvars
  <2>7. CASE SignalDone(c, t)
    BY <2>1, <2>2, <2>4, <2>7 DEF SignalDone, At, Leaves, TPCs
  <2>8. CASE PSleep(c, t)
    BY <2>2, <2>3, <2>4, <2>8 DEF PSleep, At, Leaves, TPCs, States, hvars
  <2>9. CASE VDone(c, t)
    <3>1. tpc[t] = "v_done" => (owner[WaitLk] = c <=> Zombie(t))
      BY <1>1, <1>2 DEF OwnersOf, HasWait, VPCs
    <3> QED
      BY <2>1, <2>2, <2>3, <2>4, <2>9, <3>1 DEF VDone, At, Leaves, TPCs, hvars
  <2>10. CASE ExitUnlock(c, t)
    BY <2>1, <2>2, <2>3, <2>4, <2>10 DEF ExitUnlock, At, Leaves, TPCs, hvars
  <2> QED
    BY <2>5, <2>6, <2>7, <2>8, <2>9, <2>10 DEF Drops
<1>4. /\ Moves(t, here, st) /\ tpc' \in [Tasks -> TPCs] /\ state' \in [Tasks -> States]
      /\ asleep' \in [Tasks -> BOOLEAN] /\ asleep'[t] = (here = "s_sched")
      /\ (\A u \in Tasks \ {t} : asleep'[u] = asleep[u])
      /\ wscan' \in [CPUs -> 1 .. NTASK + 1] /\ wscan'[c] = 1 /\ \A d \in CPUs \ {c} : wscan'[d] = wscan[d]
  BY <1>3, Start DEF Moves, Goto, TypeOK
<1>5. Good(c, t)
  BY <1>1, <1>3, <1>4, Dropping
<1>6. TypeOK'
  BY <1>1, <1>4, <1>5, TypeStep, DataSame, Start DEF Good, TypeOK
<1>7. Wakeups'
  <2>1. tpc'[t] \notin {"s_lock", "s_sleep"} /\ (tpc[t] = "s_sleep" => ~cond)
    BY <1>3, <1>4, Start DEF Leaves, Moves, Wakeups
  <2>2. Waking(c) => wscan[c] = NTASK + 1
    BY <1>1, <1>3 DEF Waking
  <2>3. state'[t] = "SLEEPING" /\ asleep'[t] => ~cond
    BY <1>3, <1>4, <2>1 DEF Leaves, Moves
  <2> QED
    BY <1>1, <1>5, <2>1, <2>2, <2>3, WakeupsKept DEF Good, dvars
<1>8. Semaphore'
  <2>1. Waiter(t)' <=> Waiter(t)
    BY <1>3, <1>4 DEF Leaves, Moves, Waiter
  <2>2. tpc'[t] # "v_wake" /\ tpc[t] # "v_wake" /\ tpc'[t] # "v_inc"
    BY <1>3, <1>4 DEF Leaves, Moves
  <2>3. t \in Told => t \in Told'
    BY <1>3, <1>4 DEF Leaves, Moves, Told, Zombie
  <2> QED
    BY <1>1, <1>5, <2>1, <2>2, <2>3, SemaphoreKept DEF Good, dvars
<1> QED
  BY <1>1, <1>5, <1>6, <1>7, <1>8, GoodInv

BackFrom(c, t) == Entry(c, t) \/ YieldBack(c, t) \/ SleepBack(c, t) \/ PBack(c, t)

\* A parked thread that runs again comes back with its own lock, on a hart
\* that holds no other, and with the interrupt state it left.
LEMMA BackFromOK == ASSUME Inv, NEW c \in CPUs, NEW t \in Tasks, BackFrom(c, t) PROVE Inv'
<1>1. run[c] = t /\ hpc[c] = "none" /\ UNCHANGED <<state, ret, vic, svars, hvars, dvars>>
  BY DEF BackFrom, Entry, YieldBack, SleepBack, PBack, At
<1>2. OnHart(c, t) /\ Active(t) /\ Locals(t) /\ run[c] # SCHED /\ OwnersOf(c) /\ HartOK(c)
  BY <1>1, OneRuns, Start
<1>3. tpc[t] \in {"start", "y_back", "s_back", "p_back"} /\ owner[t] = c /\ Noff(c) = 1
  <2>1. tpc[t] \in {"start", "y_back", "s_back", "p_back"}
    BY DEF BackFrom, Entry, YieldBack, SleepBack, PBack, At
  <2>2. Depth(t) = 1 /\ HasSelf(t)
    BY <2>1 DEF Depth, One, HasLk, HasSem, HasWait, HasSelf, LkPCs, SemPCs, SelfPCs, VPCs
  <2> QED
    BY <1>1, <1>2, <2>1, <2>2 DEF OnHart, OwnersOf
<1>4. PICK here \in TPCs, on \in BOOLEAN :
           /\ Returns(t, here, on) /\ Goto(t, here) /\ Sie(c)' = on
           /\ owner'[t] = Free /\ (\A m \in Locks \ {t} : owner'[m] = owner[m])
           /\ Noff(c)' = 0 /\ (\A d \in CPUs \ {c} : CpuKept(d)) /\ LockTypes /\ panicked' = FALSE
           /\ saved' \in [Tasks -> BOOLEAN] /\ asleep' \in [Tasks -> BOOLEAN]
           /\ ~asleep'[t] /\ \A u \in Tasks \ {t} : asleep'[u] = asleep[u] /\ saved'[u] = saved[u]
  <2>1. saved \in [Tasks -> BOOLEAN] /\ asleep \in [Tasks -> BOOLEAN]
    BY Start DEF TypeOK
  <2>2. CASE Entry(c, t)
    <3>1. cpu' = [cpu EXCEPT ![c] = [pop_off(cpu[c]) EXCEPT !.sie = TRUE]]
          /\ owner' = [owner EXCEPT ![t] = Free] /\ panicked' = panicked
          /\ Goto(t, "kern") /\ UNCHANGED <<saved, asleep>> /\ tpc[t] = "start"
      BY <2>2 DEF Entry, At
    <3>2. PICK r \in [sie : BOOLEAN, noff : Nat, intena : BOOLEAN] : r = cpu[c] /\ r.noff = 1
      BY <1>3, Start DEF TypeOK, Noff
    <3>3. PICK q \in [sie : BOOLEAN, noff : Nat, intena : BOOLEAN] : q = pop_off(r) /\ q.noff = 0
      BY <3>2, PopEffect
    <3>4. PICK p \in [sie : BOOLEAN, noff : Nat, intena : BOOLEAN] :
               p = [q EXCEPT !.sie = TRUE] /\ p.noff = 0 /\ p.sie = TRUE
      <4>1. /\ [q EXCEPT !.sie = TRUE] \in [sie : BOOLEAN, noff : Nat, intena : BOOLEAN]
            /\ [q EXCEPT !.sie = TRUE].noff = q.noff /\ [q EXCEPT !.sie = TRUE].sie = TRUE
        OBVIOUS
      <4> QED
        BY <3>3, <4>1
    <3>5. cpu' \in Cpus /\ cpu'[c] = p /\ \A d \in CPUs \ {c} : cpu'[d] = cpu[d]
      BY <3>1, <3>2, <3>3, <3>4, Start DEF TypeOK, Cpus
    <3>6. Sie(c)' = TRUE /\ Noff(c)' = 0 /\ \A d \in CPUs \ {c} : CpuKept(d)
      BY <3>4, <3>5 DEF Sie, Noff, Ena, CpuKept
    <3>7. owner' \in [Locks -> CPUs \cup {Free}] /\ owner'[t] = Free /\ \A m \in Locks \ {t} : owner'[m] = owner[m]
      BY <3>1, Start DEF TypeOK
    <3>8. ~asleep[t]
      BY <1>2, <3>1 DEF Locals
    <3>9. Returns(t, "kern", TRUE) /\ "kern" \in TPCs
      BY <3>1 DEF Returns, TPCs
    <3> QED
      BY <2>1, <3>1, <3>5, <3>6, <3>7, <3>8, <3>9, Start DEF LockTypes
  <2>3. CASE YieldBack(c, t) \/ SleepBack(c, t) \/ PBack(c, t)
    <3>1. Resume(c, t)
      BY <2>3 DEF YieldBack, SleepBack, PBack
    <3>2. /\ owner'[t] = Free /\ (\A m \in Locks \ {t} : owner'[m] = owner[m])
          /\ Noff(c)' = 0 /\ Sie(c)' = saved[t] /\ (\A d \in CPUs \ {c} : CpuKept(d))
          /\ LockTypes /\ panicked' = FALSE /\ saved' = [saved EXCEPT ![t] = FALSE]
      BY <1>3, <3>1, ResumeEffect, Start
    <3>3. saved[t] \in BOOLEAN /\ saved' \in [Tasks -> BOOLEAN] /\ \A u \in Tasks \ {t} : saved'[u] = saved[u]
      BY <2>1, <3>2
    <3>4. asleep' = [asleep EXCEPT ![t] = FALSE]
      <4>1. tpc[t] # "s_back" => asleep[t] = FALSE
        BY <1>2, <1>3, Start DEF Locals
      <4> QED
        BY <2>1, <2>3, <4>1 DEF YieldBack, SleepBack, PBack, At
    <3>5. asleep' \in [Tasks -> BOOLEAN] /\ ~asleep'[t] /\ \A u \in Tasks \ {t} : asleep'[u] = asleep[u]
      BY <2>1, <3>4
    <3>6. PICK here \in TPCs : Returns(t, here, saved[t]) /\ Goto(t, here)
      BY <1>2, <2>3 DEF YieldBack, SleepBack, PBack, At, Locals, Returns, TPCs
    <3> QED
      BY <3>2, <3>3, <3>5, <3>6
  <2> QED
    BY <2>2, <2>3 DEF BackFrom
<1>5. Moves(t, here, state[t]) /\ tpc' \in [Tasks -> TPCs]
  BY <1>1, <1>4, Start DEF Moves, Goto, TypeOK
<1>6. Good(c, t)
  BY <1>1, <1>4, <1>5, Returning
<1>7. TypeOK'
  BY <1>1, <1>4, <1>5, <1>6, TypeStep, DataSame, Start DEF Good, TypeOK, hvars
<1>8. Wakeups'
  <2>1. tpc'[t] \notin {"s_lock", "s_sleep"} /\ ~Waking(c) /\ ~asleep'[t]
    BY <1>1, <1>4, <1>5 DEF Returns, Moves, Waking
  <2> QED
    BY <1>1, <1>6, <2>1, WakeupsKept DEF Good, dvars
<1>9. Semaphore'
  <2>1. Waiter(t)' <=> Waiter(t)
    BY <1>1, <1>2, <1>4, <1>5 DEF Returns, Moves, Waiter, Active, VPCs
  <2>2. tpc'[t] # "v_wake" /\ tpc[t] # "v_wake" /\ tpc'[t] # "v_inc" /\ t \notin Told
    BY <1>4, <1>5 DEF Returns, Moves, Told
  <2> QED
    BY <1>1, <1>6, <2>1, <2>2, SemaphoreKept DEF Good, dvars
<1> QED
  BY <1>1, <1>6, <1>7, <1>8, <1>9, GoodInv

PassOver(c, t) == \/ Timer(c) /\ cur[c] = t
                  \/ TimerReturn(c, t) \/ WaitTest(c, t)
                  \/ ExitFromTrap(c, t) \/ ExitFromCall(c, t) \/ ExitLoad(c, t)

LEMMA PassOverOK == ASSUME Inv, SafeExits, NEW c \in CPUs, NEW t \in Tasks, PassOver(c, t) PROVE Inv'
<1>1. /\ run[c] = t /\ hpc[c] = "none" /\ (cond' = cond \/ cond' = FALSE)
      /\ UNCHANGED <<state, asleep, saved, svars, hvars, owner, value, queue>>
  BY DEF PassOver, Timer, TimerReturn, WaitTest, ExitFromTrap, ExitFromCall, ExitLoad, Calling, At, lvars, dvars
<1>2. OnHart(c, t) /\ Active(t) /\ Locals(t) /\ run[c] # SCHED /\ OwnersOf(c) /\ HartOK(c)
  BY <1>1, OneRuns, Start
<1>3. /\ cpu \in Cpus /\ ret \in [Tasks -> TPCs] /\ vic \in [Tasks -> Tasks \cup CPUs \cup {None}]
      /\ panicked = FALSE /\ cond \in BOOLEAN /\ cond' \in BOOLEAN
  BY <1>1, Start DEF TypeOK, Cpus
<1>4. cpu' = cpu => /\ cpu' \in Cpus /\ Sie(c)' = Sie(c) /\ Noff(c)' = Noff(c) /\ Ena(c)' = Ena(c)
                    /\ \A d \in CPUs \ {c} : CpuKept(d)
  BY <1>3 DEF Sie, Noff, Ena, CpuKept
<1>5. PICK here \in TPCs, r \in TPCs, v \in Tasks \cup CPUs \cup {None}, on \in BOOLEAN, off \in BOOLEAN :
           /\ Goto(t, here) /\ ret' = [ret EXCEPT ![t] = r] /\ vic' = [vic EXCEPT ![t] = v]
           /\ Passes(c, t, here, on, off) /\ panicked' = panicked
           /\ (on => Sie(c)' = TRUE) /\ (off => Sie(c)' = FALSE) /\ (~on /\ ~off => Sie(c)' = Sie(c))
           /\ Noff(c)' = Noff(c) /\ Ena(c)' = Ena(c) /\ cpu' \in Cpus /\ \A d \in CPUs \ {c} : CpuKept(d)
           /\ here \in {"s_lock", "s_sleep"} => ~cond'
           /\ tpc[t] # "v_inc" /\ tpc[t] # "p_dec"
  <2>1. /\ ret = [ret EXCEPT ![t] = ret[t]] /\ ret[t] \in TPCs /\ tpc[t] \in TPCs
        /\ vic = [vic EXCEPT ![t] = vic[t]] /\ vic[t] \in Tasks \cup CPUs \cup {None}
    BY <1>3, Start
  <2>2. CASE Timer(c) /\ cur[c] = t
    <3>1. /\ cpu' = [cpu EXCEPT ![c].sie = FALSE] /\ Goto(t, "y_lock") /\ ret' = [ret EXCEPT ![t] = tpc[t]]
          /\ Sie(c) /\ UNCHANGED <<vic, panicked, cond>>
      BY <2>2 DEF Timer, Sie, dvars
    <3>2. Open(t)
      BY <1>1, <1>2, <3>1 DEF OnHart
    <3>3. /\ cpu' \in Cpus /\ Sie(c)' = FALSE /\ Noff(c)' = Noff(c) /\ Ena(c)' = Ena(c)
          /\ \A d \in CPUs \ {c} : CpuKept(d)
      BY <3>1, SieEffect, Start
    <3>4. Passes(c, t, "y_lock", FALSE, TRUE) /\ "y_lock" \in TPCs
      BY <1>3, <3>1, <3>2 DEF Passes, TPCs
    <3>5. tpc[t] # "v_inc" /\ tpc[t] # "p_dec"
      BY <3>2 DEF Open, ExitPCs
    <3> QED
      BY <2>1, <3>1, <3>3, <3>4, <3>5
  <2>3. CASE TimerReturn(c, t)
    <3>1. /\ cpu' = [cpu EXCEPT ![c].sie = TRUE] /\ Goto(t, ret[t]) /\ ret' = [ret EXCEPT ![t] = "kern"]
          /\ tpc[t] = "y_ret" /\ UNCHANGED <<vic, panicked, cond>>
      BY <2>3 DEF TimerReturn, At, dvars
    <3>2. /\ cpu' \in Cpus /\ Sie(c)' = TRUE /\ Noff(c)' = Noff(c) /\ Ena(c)' = Ena(c)
          /\ \A d \in CPUs \ {c} : CpuKept(d)
      BY <3>1, SieEffect, Start
    <3>3. Passes(c, t, ret[t], TRUE, FALSE) /\ "kern" \in TPCs
      BY <1>3, <3>1 DEF Passes, TPCs
    <3>4. ret[t] \notin {"s_lock", "s_sleep"}
      BY <1>2 DEF Locals, ExitPCs
    <3> QED
      BY <2>1, <3>1, <3>2, <3>3, <3>4
  <2>4. CASE WaitTest(c, t)
    <3>1. PICK here \in {"w_done", "s_lock"} : Goto(t, here)
      BY <2>4 DEF WaitTest
    <3>2. tpc[t] = "w_test" /\ UNCHANGED <<cpu, ret, vic, panicked>> /\ cond' = FALSE
      BY <2>4 DEF WaitTest, At, lvars
    <3>3. Passes(c, t, here, FALSE, FALSE) /\ here \in TPCs
      BY <3>1, <3>2 DEF Passes, TPCs
    <3> QED
      BY <1>4, <2>1, <3>1, <3>2, <3>3
  <2>5. CASE ExitFromTrap(c, t)
    <3>1. /\ cpu' = [cpu EXCEPT ![c].sie = FALSE] /\ Goto(t, "x_load") /\ vic' = [vic EXCEPT ![t] = c]
          /\ tpc[t] = "kern" /\ UNCHANGED <<ret, panicked, cond>>
      BY <2>5 DEF ExitFromTrap, Calling, At, dvars
    <3>2. /\ cpu' \in Cpus /\ Sie(c)' = FALSE /\ Noff(c)' = Noff(c) /\ Ena(c)' = Ena(c)
          /\ \A d \in CPUs \ {c} : CpuKept(d)
      BY <3>1, SieEffect, Start
    <3>3. Passes(c, t, "x_load", FALSE, TRUE) /\ "x_load" \in TPCs
      BY <1>3, <3>1 DEF Passes, TPCs
    <3> QED
      BY <2>1, <3>1, <3>2, <3>3
  <2>6. CASE ExitFromCall(c, t)
    <3>1. /\ Goto(t, "x_load") /\ vic' = [vic EXCEPT ![t] = c] /\ "sys_exit" \in Calls
          /\ tpc[t] = "kern" /\ UNCHANGED <<cpu, ret, panicked, cond>>
      BY <2>6 DEF ExitFromCall, Calling, At, dvars, lvars
    <3>2. Passes(c, t, "x_load", FALSE, FALSE) /\ "x_load" \in TPCs
      BY <1>3, <3>1 DEF Passes, TPCs
    <3> QED
      BY <1>4, <2>1, <3>1, <3>2
  <2>7. CASE ExitLoad(c, t)
    <3>1. tpc[t] = "x_load"
      BY <2>7 DEF ExitLoad, At
    <3>2. vic[t] = c /\ cur[c] = t /\ t # None
      BY <1>2, <3>1, Start DEF OnHart
    <3>3. /\ Goto(t, "x_lock") /\ vic' = [vic EXCEPT ![t] = t] /\ panicked' = FALSE
          /\ UNCHANGED <<cpu, ret, cond>>
      BY <2>7, <3>2 DEF ExitLoad, dvars, lvars
    <3>4. Passes(c, t, "x_lock", FALSE, FALSE) /\ "x_lock" \in TPCs
      BY <1>3, <3>1, <3>3 DEF Passes, TPCs
    <3> QED
      BY <1>3, <1>4, <2>1, <3>1, <3>3, <3>4
  <2> QED
    BY <2>2, <2>3, <2>4, <2>5, <2>6, <2>7 DEF PassOver
<1>6. /\ Moves(t, here, state[t]) /\ tpc' \in [Tasks -> TPCs] /\ ret' \in [Tasks -> TPCs]
      /\ vic' \in [Tasks -> Tasks \cup CPUs \cup {None}]
      /\ \A u \in Tasks \ {t} : ret'[u] = ret[u] /\ vic'[u] = vic[u]
  BY <1>1, <1>3, <1>5, Start DEF Moves, Goto, TypeOK
<1>7. Good(c, t)
  <2>1. UNCHANGED <<asleep, saved, svars, hvars, owner, panicked>>
    BY <1>1, <1>5
  <2>2. /\ Passes(c, t, here, on, off) /\ Noff(c)' = Noff(c) /\ Ena(c)' = Ena(c) /\ cpu' \in Cpus
        /\ (on => Sie(c)' = TRUE) /\ (off => Sie(c)' = FALSE) /\ (~on /\ ~off => Sie(c)' = Sie(c))
        /\ \A d \in CPUs \ {c} : CpuKept(d)
    BY <1>5
  <2> QED
    BY <1>1, <1>6, <2>1, <2>2, Passing
<1>8. TypeOK'
  BY <1>1, <1>3, <1>6, <1>7, TypeStep, Start DEF Good, TypeOK, hvars
<1>9. here \in {"y_lock", "w_done", "s_lock", "kern", "s_relk", "x_load", "x_lock"}
      /\ tpc[t] \in {"kern", "s_relk", "x_load", "x_lock", "y_ret", "w_test"}
  BY <1>2, <1>5 DEF Passes, Locals, Open, ExitPCs
<1>10. Wakeups'
  <2>1. tpc'[t] \in {"s_lock", "s_sleep"} => ~cond'
    BY <1>5, <1>6 DEF Moves
  <2>2. ~Waking(c)
    BY <1>1, <1>9 DEF Waking
  <2> QED
    BY <1>1, <1>7, <2>1, <2>2, WakeupsKept DEF Good
<1>11. Semaphore'
  <2>1. ~Waiter(t)' /\ ~Waiter(t)
    BY <1>6, <1>9 DEF Moves, Waiter
  <2>2. tpc'[t] # "v_wake" /\ tpc[t] # "v_wake" /\ tpc'[t] # "v_inc" /\ t \notin Told
    BY <1>6, <1>9 DEF Moves, Told
  <2> QED
    BY <1>1, <1>7, <2>1, <2>2, SemaphoreKept DEF Good
<1> QED
  BY <1>1, <1>7, <1>8, <1>10, <1>11, GoodInv
-----------------------------------------------------------------------------
(* The semaphore's own steps *)

LEMMA ListBound ==
  ASSUME NEW q \in Seq(Tasks), \A i, j \in DOMAIN q : q[i] = q[j] => i = j
  PROVE  Len(q) \in Nat /\ Len(q) <= NTASK
<1>1. Len(q) \in Nat /\ q \in [1 .. Len(q) -> Tasks] /\ DOMAIN q = 1 .. Len(q)
  BY LenProperties
<1>2. PICK A, B : A = 1 .. Len(q) /\ B = Tasks
  OBVIOUS
<1>3. IsFiniteSet(A) /\ Cardinality(A) = Len(q)
  <2>1. PICK n \in Nat : n = Len(q)
    BY <1>1
  <2>2. IsFiniteSet(1 .. n) /\ Cardinality(1 .. n) = IF 1 > n THEN 0 ELSE n - 1 + 1
    BY FS_Interval
  <2> QED
    BY <1>2, <2>1, <2>2
<1>4. IsFiniteSet(B) /\ Cardinality(B) = NTASK
  BY <1>2, FS_Interval, Sets
<1>5. ~(Cardinality(B) < Cardinality(A))
  <2> SUFFICES ASSUME Cardinality(B) < Cardinality(A) PROVE FALSE
    OBVIOUS
  <2>1. q \in [A -> B]
    BY <1>1, <1>2
  <2>2. \E x, y \in A : x # y /\ q[x] = q[y]
    BY <1>3, <1>4, <2>1, FS_PigeonHole
  <2> QED
    BY <1>1, <1>2, <2>2
<1> QED
  BY <1>1, <1>3, <1>4, <1>5, Sets

LEMMA ToldBound == Cardinality(Told') \in Nat /\ Cardinality(Told') <= NTASK
<1>1. PICK A : A = Told' /\ A \subseteq Tasks
  BY DEF Told
<1>2. IsFiniteSet(Tasks) /\ Cardinality(Tasks) = NTASK
  BY FS_Interval, Sets
<1>3. IsFiniteSet(A) /\ Cardinality(A) <= NTASK
  BY <1>1, <1>2, FS_Subset
<1> QED
  BY <1>1, <1>3, FS_CardinalityType

LEMMA ValueTyped ==
  ASSUME queue' \in Seq(Tasks), value' \in Int, Semaphore'
  PROVE  value' \in -NTASK .. MaxSem + NTASK
<1>1. PICK q \in Seq(Tasks) : q = queue'
  OBVIOUS
<1>2. \A i, j \in DOMAIN q : q[i] = q[j] => i = j
  BY <1>1 DEF Semaphore
<1>3. Len(q) \in Nat /\ Len(q) <= NTASK
  BY <1>2, ListBound
<1>4. Len(q) = (IF value' < 0 THEN -value' ELSE 0) + One(Serving)' /\ One(Serving)' \in {0, 1}
  BY <1>1 DEF Semaphore, One
<1>5. value' <= MaxSem + Cardinality(Told')
  BY DEF Semaphore
<1> QED
  BY <1>3, <1>4, <1>5, ToldBound, Sets

\* Only the hart that holds the semaphore's lock is between its lines.
LEMMA OneInSem ==
  ASSUME Inv, NEW c \in CPUs, NEW t \in Tasks, run[c] = t, tpc[t] \in SemPCs
  PROVE  owner[SemLk] = c /\ \A u \in Tasks \ {t} : tpc[u] \notin SemPCs
<1>1. owner[SemLk] = c
  BY Start DEF OwnersOf, HasSem
<1>2. ASSUME NEW u \in Tasks \ {t}, tpc[u] \in SemPCs PROVE FALSE
  <2>1. PICK d \in CPUs : run[d] = u
    BY <1>2, Start DEF Threads, Parked, SemPCs, VPCs
  <2>2. owner[SemLk] = d
    BY <1>2, <2>1, Start DEF OwnersOf, HasSem
  <2> QED
    BY <1>1, <1>2, <2>1, <2>2
<1> QED
  BY <1>1, <1>2

LEMMA PTakeOK == ASSUME Inv, NEW c \in CPUs, NEW t \in Tasks, PTake(c, t) PROVE Inv'
<1>1. /\ run[c] = t /\ hpc[c] = "none" /\ tpc[t] = "p_dec" /\ value > 0 /\ value' = value - 1
      /\ Release(c, SemLk) /\ Goto(t, "kern") /\ UNCHANGED <<state, asleep, ret, saved, vic, svars, hvars, cond, queue>>
  BY DEF PTake, At
<1>2. OnHart(c, t) /\ Active(t) /\ Locals(t) /\ run[c] # SCHED /\ OwnersOf(c) /\ HartOK(c)
  BY <1>1, OneRuns, Start
<1>3. Moves(t, "kern", state[t]) /\ tpc' \in [Tasks -> TPCs] /\ Leaves(t, "kern", SemLk, state[t])
  BY <1>1, Start DEF Moves, Goto, TypeOK, TPCs, Leaves
<1>4. wscan' = wscan /\ wscan[c] = 1 /\ hpc' = hpc /\ ~Waking(c)
  BY <1>1, <1>2 DEF HartOK, Waking, hvars
<1>5. asleep[t] = FALSE
  BY <1>1, <1>2, Start DEF Locals
<1>6. Good(c, t)
  <2>1. /\ asleep'[t] = ("kern" = "s_sched") /\ (\A u \in Tasks \ {t} : asleep'[u] = asleep[u])
        /\ wscan'[c] = 1 /\ (\A d \in CPUs \ {c} : wscan'[d] = wscan[d])
        /\ UNCHANGED <<ret, saved, vic, svars, hpc>>
    BY <1>1, <1>4, <1>5
  <2> QED
    BY <1>1, <1>3, <2>1, Dropping
<1>7. Local(c, t) /\ \A u \in Tasks \ {t} : ThreadKept(u)
  BY <1>6 DEF Good, Local
<1>8. Wakeups'
  BY <1>1, <1>3, <1>4, <1>5, <1>7, WakeupsKept DEF Moves
<1>9. Semaphore'
  <2>1. /\ \A u \in Tasks : tpc'[u] = "v_wake" <=> tpc[u] = "v_wake"
        /\ \A u \in Tasks : Waiter(u)' <=> Waiter(u)
        /\ Told \subseteq Told'
        /\ \A u \in Tasks : tpc'[u] = "v_inc" /\ ~Zombie(u)' => tpc[u] = "v_inc" /\ ~Zombie(u)
    BY <1>1, <1>3, <1>7 DEF Moves, ThreadKept, Waiter, Told, Zombie
  <2>2. One(Serving)' = One(Serving)
    BY <2>1 DEF One, Serving
  <2>3. value' <= MaxSem + Cardinality(Told')
    <3>1. value <= MaxSem + Cardinality(Told) /\ value \in Int
      BY Start DEF Semaphore
    <3> QED
      BY <1>1, <2>1, <3>1, ToldMore, Sets
  <2>4. \A u \in Tasks : InQueue(u)' <=> Waiter(u)'
    BY <1>1, <2>1, Start DEF Semaphore, InQueue
  <2>5. \A u \in Tasks : tpc'[u] = "v_inc" /\ ~Zombie(u)' => value' < MaxSem
    BY <1>1, <2>1, Start, Sets DEF Semaphore
  <2>6. Len(queue') = (IF value' < 0 THEN -value' ELSE 0) + One(Serving)'
    BY <1>1, <2>2, Start DEF Semaphore
  <2>7. \A i, j \in DOMAIN queue' : queue'[i] = queue'[j] => i = j
    BY <1>1, Start DEF Semaphore
  <2> QED
    BY <2>3, <2>4, <2>5, <2>6, <2>7 DEF Semaphore
<1>10. TypeOK'
  <2>1. value' \in Int /\ queue' \in Seq(Tasks) /\ cond' \in BOOLEAN
    BY <1>1, Start
  <2>2. value' \in -NTASK .. MaxSem + NTASK
    BY <1>9, <2>1, ValueTyped
  <2> QED
    BY <1>1, <1>3, <1>4, <1>6, <2>1, <2>2, TypeStep, Start DEF Good, TypeOK
<1> QED
  BY <1>1, <1>6, <1>8, <1>9, <1>10, GoodInv

LEMMA PQueueOK == ASSUME Inv, SafeExits, NEW c \in CPUs, NEW t \in Tasks, PQueue(c, t) PROVE Inv'
<1>1. /\ run[c] = t /\ hpc[c] = "none" /\ tpc[t] = "p_dec" /\ value <= 0 /\ value' = value - 1
      /\ queue' = Append(queue, t) /\ Goto(t, "p_lock")
      /\ UNCHANGED <<state, asleep, ret, saved, vic, svars, hvars, cpu, owner, cond, panicked>>
  BY DEF PQueue, At, lvars
<1>2. OnHart(c, t) /\ Active(t) /\ Locals(t) /\ run[c] # SCHED /\ OwnersOf(c) /\ HartOK(c)
  BY <1>1, OneRuns, Start
<1>3. Moves(t, "p_lock", state[t]) /\ tpc' \in [Tasks -> TPCs] /\ Passes(c, t, "p_lock", FALSE, FALSE)
  BY <1>1, Start DEF Moves, Goto, TypeOK, TPCs, Passes
<1>4. Good(c, t)
  <2>1. /\ cpu' \in Cpus /\ Sie(c)' = Sie(c) /\ Noff(c)' = Noff(c) /\ Ena(c)' = Ena(c)
        /\ \A d \in CPUs \ {c} : CpuKept(d)
    BY <1>1, Start DEF TypeOK, Cpus, CpuKept, Sie, Noff, Ena
  <2>2. /\ UNCHANGED <<asleep, saved, svars, hvars, owner, panicked>>
        /\ \A u \in Tasks \ {t} : ret'[u] = ret[u] /\ vic'[u] = vic[u]
    BY <1>1
  <2> QED
    BY <1>1, <1>3, <2>1, <2>2, Passing
<1>5. Local(c, t) /\ \A u \in Tasks \ {t} : ThreadKept(u)
  BY <1>4 DEF Good, Local
<1>6. ~Waking(c) /\ asleep[t] = FALSE
  BY <1>1, <1>2, Start DEF Waking, Locals
<1>7. Wakeups'
  BY <1>1, <1>3, <1>5, <1>6, WakeupsKept DEF Moves
<1>8. queue' \in Seq(Tasks) /\ Len(queue') = Len(queue) + 1 /\ Len(queue) \in Nat
      /\ DOMAIN queue = 1 .. Len(queue) /\ DOMAIN queue' = 1 .. Len(queue) + 1
      /\ (\A i \in 1 .. Len(queue) : queue'[i] = queue[i]) /\ queue'[Len(queue) + 1] = t
  BY <1>1, Start, AppendProperties, LenProperties
<1>9. Semaphore'
  <2>1. /\ \A u \in Tasks : tpc'[u] = "v_wake" <=> tpc[u] = "v_wake"
        /\ \A u \in Tasks \ {t} : Waiter(u)' <=> Waiter(u)
        /\ Told \subseteq Told'
        /\ \A u \in Tasks : tpc'[u] = "v_inc" /\ ~Zombie(u)' => tpc[u] = "v_inc" /\ ~Zombie(u)
        /\ Waiter(t)' /\ ~Waiter(t)
    BY <1>1, <1>3, <1>5 DEF Moves, ThreadKept, Waiter, Told, Zombie
  <2>2. One(Serving)' = One(Serving) /\ One(Serving) \in {0, 1}
    BY <2>1 DEF One, Serving
  <2>3. value' <= MaxSem + Cardinality(Told')
    <3>1. value <= MaxSem + Cardinality(Told) /\ value \in Int
      BY Start DEF Semaphore
    <3> QED
      BY <1>1, <2>1, <3>1, ToldMore, Sets
  <2>4. \A u \in Tasks : InQueue(u)' <=> InQueue(u) \/ u = t
    BY <1>8 DEF InQueue
  <2>5. \A u \in Tasks : InQueue(u)' <=> Waiter(u)'
    BY <2>1, <2>4, Start DEF Semaphore
  <2>6. \A u \in Tasks : tpc'[u] = "v_inc" /\ ~Zombie(u)' => value' < MaxSem
    BY <1>1, <2>1, Start, Sets DEF Semaphore
  <2>7. Len(queue') = (IF value' < 0 THEN -value' ELSE 0) + One(Serving)'
    BY <1>1, <1>8, <2>2, Start DEF Semaphore
  <2>8. \A i \in DOMAIN queue : queue[i] # t
    BY <2>1, Start DEF Semaphore, InQueue
  <2>9. \A i, j \in DOMAIN queue' : queue'[i] = queue'[j] => i = j
    BY <1>8, <2>8, Start DEF Semaphore
  <2> QED
    BY <2>3, <2>5, <2>6, <2>7, <2>9 DEF Semaphore
<1>10. TypeOK'
  <2>1. value' \in Int /\ cond' \in BOOLEAN
    BY <1>1, Start
  <2>2. value' \in -NTASK .. MaxSem + NTASK
    BY <1>8, <1>9, <2>1, ValueTyped
  <2> QED
    BY <1>1, <1>3, <1>4, <1>8, <2>1, <2>2, TypeStep, Start DEF Good, TypeOK, hvars
<1> QED
  BY <1>1, <1>4, <1>7, <1>9, <1>10, GoodInv

\* lm_V counts: when somebody waits it goes on to take the oldest off the list.
LEMMA VIncOK == ASSUME Inv, SafeExits, NEW c \in CPUs, NEW t \in Tasks, VInc(c, t) PROVE Inv'
<1>1. PICK here \in {"v_wake", "v_done"} :
      /\ run[c] = t /\ hpc[c] = "none" /\ tpc[t] = "v_inc" /\ value' = value + 1
      /\ (here = "v_wake" <=> value + 1 <= 0) /\ Goto(t, here)
      /\ UNCHANGED <<state, asleep, ret, saved, vic, svars, hvars, cpu, owner, cond, queue, panicked>>
  BY DEF VInc, At, lvars
<1>2. OnHart(c, t) /\ Active(t) /\ Locals(t) /\ run[c] # SCHED /\ OwnersOf(c) /\ HartOK(c)
  BY <1>1, OneRuns, Start
<1>3. Moves(t, here, state[t]) /\ tpc' \in [Tasks -> TPCs] /\ Passes(c, t, here, FALSE, FALSE)
  BY <1>1, Start DEF Moves, Goto, TypeOK, TPCs, Passes
<1>4. Good(c, t)
  <2>1. /\ cpu' \in Cpus /\ Sie(c)' = Sie(c) /\ Noff(c)' = Noff(c) /\ Ena(c)' = Ena(c)
        /\ \A d \in CPUs \ {c} : CpuKept(d)
    BY <1>1, Start DEF TypeOK, Cpus, CpuKept, Sie, Noff, Ena
  <2>2. /\ UNCHANGED <<asleep, saved, svars, hvars, owner, panicked>>
        /\ \A u \in Tasks \ {t} : ret'[u] = ret[u] /\ vic'[u] = vic[u]
    BY <1>1
  <2> QED
    BY <1>1, <1>3, <2>1, <2>2, Passing
<1>5. Local(c, t) /\ \A u \in Tasks \ {t} : ThreadKept(u)
  BY <1>4 DEF Good, Local
<1>6. ~Waking(c) /\ asleep[t] = FALSE
  BY <1>1, <1>2, Start DEF Waking, Locals
<1>7. Wakeups'
  BY <1>1, <1>3, <1>5, <1>6, WakeupsKept DEF Moves
<1>8. Semaphore'
  <2>1. \A u \in Tasks \ {t} : tpc[u] \notin SemPCs
    BY <1>1, OneInSem DEF SemPCs, VPCs
  <2>2. /\ ~Serving /\ (Serving' <=> here = "v_wake")
        /\ \A u \in Tasks : Waiter(u)' <=> Waiter(u)
        /\ Told \subseteq Told' /\ t \notin Told
        /\ \A u \in Tasks : tpc'[u] # "v_inc"
        /\ Zombie(t) => Told' = Told \cup {t}
    BY <1>1, <1>3, <1>5, <2>1 DEF Moves, ThreadKept, Waiter, Told, Zombie, Serving, SemPCs, VPCs
  <2>3. One(Serving) = 0 /\ One(Serving)' = IF here = "v_wake" THEN 1 ELSE 0
    BY <2>2 DEF One
  <2>4. value' <= MaxSem + Cardinality(Told')
    <3>1. value <= MaxSem + Cardinality(Told) /\ value \in Int /\ (~Zombie(t) => value < MaxSem)
      BY <1>1, Start DEF Semaphore
    <3>2. Cardinality(Told) \in Nat /\ Cardinality(Told') \in Nat
      BY <2>2, ToldMore
    <3>3. CASE Zombie(t)
      <4>1. PICK A : A = Told /\ A \subseteq Tasks
        BY DEF Told
      <4>2. IsFiniteSet(A)
        <5>1. IsFiniteSet(Tasks)
          BY Sets, FS_Interval
        <5> QED
          BY <4>1, <5>1, FS_Subset
      <4>3. Cardinality(A \cup {t}) = Cardinality(A) + 1
        BY <2>2, <4>1, <4>2, FS_AddElement
      <4>4. Cardinality(Told') = Cardinality(Told) + 1
        BY <2>2, <3>3, <4>1, <4>3
      <4> QED
        BY <1>1, <3>1, <3>2, <4>4, Sets
    <3>4. CASE ~Zombie(t)
      BY <1>1, <3>1, <3>2, <3>4, Sets
    <3> QED
      BY <3>3, <3>4
  <2>5. \A u \in Tasks : InQueue(u)' <=> Waiter(u)'
    BY <1>1, <2>2, Start DEF Semaphore, InQueue
  <2>6. Len(queue') = (IF value' < 0 THEN -value' ELSE 0) + One(Serving)'
    BY <1>1, <2>3, Start DEF Semaphore
  <2>7. \A i, j \in DOMAIN queue' : queue'[i] = queue'[j] => i = j
    BY <1>1, Start DEF Semaphore
  <2> QED
    BY <2>2, <2>4, <2>5, <2>6, <2>7 DEF Semaphore
<1>9. TypeOK'
  <2>1. value' \in Int /\ cond' \in BOOLEAN /\ queue' \in Seq(Tasks)
    BY <1>1, Start
  <2>2. value' \in -NTASK .. MaxSem + NTASK
    BY <1>8, <2>1, ValueTyped
  <2> QED
    BY <1>1, <1>3, <1>4, <2>1, <2>2, TypeStep, Start DEF Good, TypeOK, hvars
<1> QED
  BY <1>1, <1>4, <1>7, <1>8, <1>9, GoodInv
-----------------------------------------------------------------------------
(* Steps of a hart's scheduler, of its interrupt handler, and the steps that *)
(* touch a thread that no hart runs                                          *)

\* Hart c moves; the other harts and the threads they run stay as they are.
LEMMA StepInv ==
  ASSUME Inv, NEW c \in CPUs,
         \A d \in CPUs \ {c} : HartSame(d) /\ (run[d] # SCHED => ThreadKept(run[d])),
         OthersKeep(c), TypeOK', panicked' = FALSE, OwnersOf(c)', HartOK(c)',
         cur'[c] # None => \A d \in CPUs \ {c} : cur[d] # cur'[c],
         Threads', Wakeups', Semaphore'
  PROVE  Inv'
<1>1. \A d \in CPUs : HartOK(d)'
  BY HartKept
<1>2. \A d \in CPUs \ {c} : StackSame(d) /\ \A l \in Locks : owner'[l] = d <=> owner[l] = d
  BY DEF HartSame, OthersKeep
<1>3. \A d \in CPUs : OwnersOf(d)'
  BY <1>2, OwnersKept
<1>4. Owners'
  BY <1>3 DEF Owners, OwnersOf
<1>5. \A d, e \in CPUs : d # e /\ cur'[d] # None => cur'[d] # cur'[e]
  BY <1>2, Start DEF Harts, StackSame
<1>6. Harts'
  BY <1>1, <1>5 DEF Harts
<1> QED
  BY <1>4, <1>6 DEF Inv

\* The threads of the other harts keep their places.
OthersSame(c) == \A d \in CPUs \ {c} : HartSame(d)

LEMMA NoThreadMoves ==
  ASSUME Inv, UNCHANGED <<tvars, run>>
  PROVE  Threads' /\ \A u \in Tasks : ThreadKept(u)
<1>1. UNCHANGED <<state, asleep, tpc, ret, saved, vic, run>>
  BY DEF tvars
<1>2. \A u \in Tasks : ThreadKept(u)
  BY <1>1 DEF ThreadKept
<1>3. \A u \in Tasks : Locals(u)' = Locals(u) /\ Active(u)' = Active(u) /\ Parked(u)' = Parked(u)
  BY <1>1 DEF Locals, Active, Parked
<1> QED
  BY <1>1, <1>2, <1>3, Start DEF Threads

LEMMA SemaphoreSame ==
  ASSUME Inv, UNCHANGED <<tvars, value, queue>>
  PROVE  Semaphore'
<1>1. UNCHANGED <<state, tpc, value, queue>>
  BY DEF tvars
<1>2. Told' = Told /\ Serving' = Serving /\ \A u \in Tasks : Zombie(u)' = Zombie(u) /\ Waiter(u)' = Waiter(u)
                                                          /\ InQueue(u)' = InQueue(u)
  BY <1>1 DEF Told, Serving, Zombie, Waiter, InQueue
<1>3. One(Serving)' = One(Serving)
  BY <1>2 DEF One
<1> QED
  BY <1>1, <1>2, <1>3, Start DEF Semaphore

\* The handler, or the scheduler, of hart c moves and no thread does.
LEMMA HartStep ==
  ASSUME Inv, NEW c \in CPUs, OthersSame(c), OthersKeep(c), UNCHANGED <<tvars, run, value, queue>>,
         TypeOK', panicked' = FALSE, OwnersOf(c)', HartOK(c)', cur'[c] # None => cur'[c] = cur[c],
         Wakeups'
  PROVE  Inv'
<1>1. Threads' /\ \A u \in Tasks : ThreadKept(u)
  BY NoThreadMoves
<1>2. Semaphore'
  BY SemaphoreSame
<1>3. \A d \in CPUs \ {c} : HartSame(d) /\ (run[d] # SCHED => ThreadKept(run[d]))
  BY <1>1, Start DEF OthersSame
<1>4. cur'[c] # None => \A d \in CPUs \ {c} : cur[d] # cur'[c]
  BY Start DEF Harts
<1> QED
  BY <1>1, <1>2, <1>3, <1>4, StepInv

LEMMA WakeupsSame ==
  ASSUME Inv, NEW c \in CPUs, OthersSame(c), UNCHANGED <<tvars, run, cond>>,
         Waking(c) => (Waking(c)' /\ wscan'[c] = wscan[c]) \/ wscan[c] = NTASK + 1
  PROVE  Wakeups'
<1>1. UNCHANGED <<state, asleep, tpc, run, cond>>
  BY DEF tvars
<1>2. \A d \in CPUs \ {c} : (Waking(d) => Waking(d)') /\ wscan'[d] = wscan[d]
  BY <1>1 DEF OthersSame, HartSame, StackSame, Waking
<1>3. ASSUME NEW u \in Tasks, cond', state'[u] = "SLEEPING", asleep'[u]
      PROVE  \E d \in CPUs : Waking(d)' /\ wscan'[d] <= u
  <2>1. PICK d \in CPUs : Waking(d) /\ wscan[d] <= u
    BY <1>1, <1>3, Start DEF Wakeups
  <2>2. wscan[d] # NTASK + 1
    BY <2>1, Sets
  <2> QED
    BY <1>2, <2>1, <2>2
<1> QED
  BY <1>1, <1>3, Start DEF Wakeups

\* The parts of the type invariant that a hart's own step may change.
HartTypes == /\ spc' \in [CPUs -> {"top", "scan", "back"}] /\ scan' \in [CPUs -> 1 .. NTASK + 1]
             /\ cur' \in [CPUs -> Tasks \cup {None}] /\ hpc' \in [CPUs -> HPCs]
             /\ wscan' \in [CPUs -> 1 .. NTASK + 1] /\ LockTypes /\ cond' \in BOOLEAN /\ panicked' = FALSE

LEMMA HartTyped ==
  ASSUME Inv, UNCHANGED <<tvars, run, value, queue>>, HartTypes
  PROVE  TypeOK'
BY Start DEF TypeOK, tvars, HartTypes, LockTypes, Cpus

\* The scheduler looks for a task, without keeping a lock.
LEMMA LookOK ==
  ASSUME Inv, NEW c \in CPUs, SchedTop(c) \/ SchedSkip(c) \/ SchedWrap(c)
  PROVE  Inv'
<1>1. /\ run[c] = SCHED /\ hpc[c] = "none" /\ spc[c] \in {"top", "scan"}
      /\ UNCHANGED <<tvars, run, cur, hpc, wscan, owner, cond, value, queue, panicked>>
  BY DEF SchedTop, SchedSkip, SchedWrap, InScheduler, hvars, lvars, dvars
<1>2. PICK p \in {"top", "scan"}, n \in 1 .. NTASK + 1 :
           spc' = [spc EXCEPT ![c] = p] /\ scan' = [scan EXCEPT ![c] = n]
  <2>1. CASE SchedTop(c)
    <3>1. 1 \in 1 .. NTASK + 1
      BY Sets
    <3> QED
      BY <2>1, <3>1 DEF SchedTop
  <2>2. CASE SchedSkip(c)
    <3>1. spc = [spc EXCEPT ![c] = "scan"]
      BY <2>2, Start DEF SchedSkip, InScheduler, TypeOK
    <3>2. scan[c] + 1 \in 1 .. NTASK + 1 /\ scan' = [scan EXCEPT ![c] = scan[c] + 1] /\ spc' = spc
      BY <2>2, Start DEF SchedSkip
    <3> QED
      BY <3>1, <3>2
  <2>3. CASE SchedWrap(c)
    <3>1. scan = [scan EXCEPT ![c] = scan[c]] /\ scan[c] \in 1 .. NTASK + 1
      BY Start DEF TypeOK
    <3> QED
      BY <2>3, <3>1 DEF SchedWrap
  <2> QED
    BY <2>1, <2>2, <2>3
<1>3. PICK b \in BOOLEAN : cpu' = [cpu EXCEPT ![c].sie = b]
  <2>1. CASE SchedTop(c)
    BY <2>1 DEF SchedTop
  <2>2. CASE SchedSkip(c) \/ SchedWrap(c)
    <3>1. PICK r \in [sie : BOOLEAN, noff : Nat, intena : BOOLEAN] : r = cpu[c]
      BY Start DEF TypeOK
    <3>2. r.sie \in BOOLEAN /\ [r EXCEPT !.sie = r.sie] = r
      OBVIOUS
    <3>3. cpu = [cpu EXCEPT ![c] = [cpu[c] EXCEPT !.sie = r.sie]]
      BY <3>1, <3>2, Start DEF TypeOK
    <3>4. cpu' = [cpu EXCEPT ![c].sie = r.sie]
      BY <2>2, <3>3 DEF SchedSkip, SchedWrap, lvars
    <3> QED
      BY <3>2, <3>4
  <2> QED
    BY <2>1, <2>2
<1>4. cpu' \in Cpus /\ Noff(c)' = Noff(c) /\ Ena(c)' = Ena(c) /\ \A d \in CPUs \ {c} : CpuKept(d)
  BY <1>3, SieEffect, Start
<1>5. /\ spc' \in [CPUs -> {"top", "scan", "back"}] /\ scan' \in [CPUs -> 1 .. NTASK + 1] /\ spc'[c] # "back"
      /\ \A d \in CPUs \ {c} : spc'[d] = spc[d] /\ scan'[d] = scan[d]
  BY <1>2, Start DEF TypeOK
<1>6. HartTypes
  BY <1>1, <1>4, <1>5, Start DEF HartTypes, LockTypes, TypeOK
<1>7. OthersSame(c) /\ OthersKeep(c)
  BY <1>1, <1>4, <1>5 DEF OthersSame, OthersKeep, HartSame, StackSame
<1>8. OwnersOf(c)'
  BY <1>1, <1>5, Start DEF OwnersOf, Back
<1>9. HartOK(c)'
  <2>1. HartOK(c)
    BY Start
  <2> QED
    BY <1>1, <1>4, <1>5, <2>1 DEF HartOK, Scheduling, Waking
<1>10. Wakeups'
  BY <1>1, <1>7, WakeupsSame DEF Waking
<1>11. TypeOK'
  BY <1>1, <1>6, HartTyped
<1> QED
  BY <1>1, <1>6, <1>7, <1>8, <1>9, <1>10, <1>11, HartStep DEF HartTypes

\* A thread has switched away and the scheduler unlocks it.
LEMMA SchedBackOK == ASSUME Inv, NEW c \in CPUs, SchedBack(c) PROVE Inv'
<1>1. /\ run[c] = SCHED /\ hpc[c] = "none" /\ spc[c] = "back" /\ Release(c, scan[c])
      /\ cur' = [cur EXCEPT ![c] = None] /\ scan' = [scan EXCEPT ![c] = scan[c] + 1]
      /\ spc' = [spc EXCEPT ![c] = "scan"]
      /\ UNCHANGED <<tvars, run, hpc, wscan, cond, value, queue>>
  BY DEF SchedBack, InScheduler, hvars, dvars
<1>2. HartOK(c) /\ OwnersOf(c) /\ Back(c)
  BY <1>1, Start DEF Back
<1>3. PICK t \in Tasks : t = scan[c] /\ owner[t] = c /\ Noff(c) = 1 /\ t \in Locks
  BY <1>1, <1>2, Start DEF HartOK, Scheduling, OwnersOf
<1>4. DropsLock(c, t)
  BY <1>1, <1>3, ReleaseEffect, Start
<1>5. /\ spc' \in [CPUs -> {"top", "scan", "back"}] /\ scan' \in [CPUs -> 1 .. NTASK + 1]
      /\ cur' \in [CPUs -> Tasks \cup {None}] /\ cur'[c] = None /\ spc'[c] = "scan"
      /\ \A d \in CPUs \ {c} : spc'[d] = spc[d] /\ scan'[d] = scan[d] /\ cur'[d] = cur[d]
  <2>1. scan[c] + 1 \in 1 .. NTASK + 1
    BY <1>3, Sets
  <2> QED
    BY <1>1, <2>1, Start DEF TypeOK
<1>6. HartTypes
  BY <1>1, <1>4, <1>5, Start DEF HartTypes, DropsLock, TypeOK
<1>7. OthersSame(c)
  BY <1>1, <1>4, <1>5 DEF OthersSame, HartSame, StackSame, DropsLock
<1>8. OthersKeep(c)
  BY <1>4, Start DEF OthersKeep, DropsLock
<1>9. OwnersOf(c)'
  <2>1. \A l \in Locks \ {t} : owner[l] # c
    BY <1>1, <1>2, <1>3, Sets DEF OwnersOf
  <2>2. \A l \in Locks : owner'[l] # c
    BY <1>4, <2>1, Sets DEF DropsLock
  <2> QED
    BY <1>1, <1>5, <2>2, Start DEF OwnersOf, Back
<1>10. HartOK(c)'
  BY <1>1, <1>2, <1>3, <1>4, <1>5 DEF HartOK, Scheduling, Waking, DropsLock
<1>11. Wakeups'
  BY <1>1, <1>7, WakeupsSame DEF Waking
<1>12. TypeOK'
  BY <1>1, <1>6, HartTyped
<1> QED
  BY <1>1, <1>5, <1>6, <1>7, <1>8, <1>9, <1>10, <1>11, <1>12, HartStep DEF HartTypes

\* The device interrupts hart c, or its handler returns.
LEMMA EdgeOK == ASSUME Inv, NEW c \in CPUs, Interrupt(c) \/ HandlerReturn(c) PROVE Inv'
<1>1. PICK h \in {"h_lock", "none"}, b \in BOOLEAN :
      /\ hpc' = [hpc EXCEPT ![c] = h] /\ cpu' = [cpu EXCEPT ![c].sie = b]
      /\ h = "h_lock" => hpc[c] = "none" /\ Sie(c) /\ b = FALSE
      /\ h = "none" => hpc[c] = "h_done" /\ b = TRUE
      /\ UNCHANGED <<tvars, run, cur, spc, scan, wscan, owner, cond, value, queue, panicked>>
  BY DEF Interrupt, HandlerReturn, Sie, svars, dvars
<1>2. /\ cpu' \in Cpus /\ Sie(c)' = b /\ Noff(c)' = Noff(c) /\ Ena(c)' = Ena(c)
      /\ \A d \in CPUs \ {c} : CpuKept(d)
  BY <1>1, SieEffect, Start
<1>3. /\ hpc' \in [CPUs -> HPCs] /\ hpc'[c] = h /\ \A d \in CPUs \ {c} : hpc'[d] = hpc[d]
  BY <1>1, Start DEF TypeOK, HPCs
<1>4. HartTypes
  BY <1>1, <1>2, <1>3, Start DEF HartTypes, LockTypes, TypeOK
<1>5. OthersSame(c) /\ OthersKeep(c)
  BY <1>1, <1>2, <1>3 DEF OthersSame, OthersKeep, HartSame, StackSame
<1>6. Threads' /\ \A u \in Tasks : ThreadKept(u)
  BY <1>1, NoThreadMoves
<1>7. OwnersOf(c)'
  <2>1. OwnersOf(c)
    BY Start
  <2>2. \A u \in Tasks : (HasLk(u)' <=> HasLk(u)) /\ (HasSem(u)' <=> HasSem(u)) /\ (HasWait(u)' <=> HasWait(u))
                         /\ (HasSelf(u)' <=> HasSelf(u))
    BY <1>6 DEF ThreadKept, HasLk, HasSem, HasWait, HasSelf, Zombie
  <2> QED
    BY <1>1, <1>3, <2>1, <2>2, Start DEF OwnersOf, Back
<1>8. HartOK(c)'
  <2>1. HartOK(c)
    BY Start
  <2>2. CASE run[c] = SCHED
    BY <1>1, <1>2, <1>3, <2>1, <2>2 DEF HartOK, Scheduling, Waking, One
  <2>3. CASE run[c] # SCHED
    <3>1. PICK u \in Tasks : u = run[c]
      BY <2>3, Start
    <3>2. OnHart(c, u) /\ ThreadKept(u) /\ run'[c] = u
      BY <1>1, <1>6, <2>1, <2>3, <3>1 DEF HartOK
    <3>3. Open(u)
      BY <1>1, <3>2 DEF OnHart
    <3>4. Depth(u) = 0 /\ Depth(u)' = 0
      BY <3>2, <3>3 DEF Open, ThreadKept, ExitPCs, Depth, One, HasLk, HasSem, HasWait, HasSelf, LkPCs, SemPCs,
         VPCs, SelfPCs
    <3>5. Noff(c) = 0
      BY <1>1, <2>1, <3>2, <3>4 DEF HartOK, OnHart, One
    <3>6. OnHart(c, u)'
      BY <1>1, <1>2, <1>3, <3>2, <3>3, <3>4, <3>5 DEF OnHart, ThreadKept, Open, ExitPCs, CallPCs, VPCs
    <3>7. ~Waking(c) /\ ~Waking(c)'
      BY <1>1, <1>3, <3>1, <3>2, <3>3 DEF Waking, Open, ExitPCs, ThreadKept
    <3> QED
      BY <1>1, <1>2, <1>3, <2>1, <2>3, <3>1, <3>2, <3>5, <3>6, <3>7 DEF HartOK, One
  <2> QED
    BY <2>2, <2>3
<1>9. Wakeups'
  BY <1>1, <1>3, <1>5, WakeupsSame DEF Waking, tvars
<1>10. TypeOK'
  BY <1>1, <1>4, HartTyped
<1> QED
  BY <1>1, <1>4, <1>5, <1>7, <1>8, <1>9, <1>10, HartStep DEF HartTypes

\* The handler takes the condition's lock and makes the condition true.
LEMMA HandlerLockOK == ASSUME Inv, NEW c \in CPUs, HandlerLock(c) PROVE Inv'
<1>1. /\ hpc[c] = "h_lock" /\ Acquire(c, Lk) /\ cond' = TRUE /\ hpc' = [hpc EXCEPT ![c] = "h_wake"]
      /\ UNCHANGED <<tvars, run, cur, spc, scan, wscan, value, queue>>
  BY DEF HandlerLock, svars
<1>2. HartOK(c) /\ OwnersOf(c)
  BY Start
<1>3. run[c] # SCHED => run[c] \in Tasks /\ OnHart(c, run[c]) /\ Open(run[c])
  BY <1>1, <1>2, Start DEF HartOK, OnHart
<1>4. owner[Lk] # c /\ ~Waking(c)
  BY <1>1, <1>2, <1>3 DEF OwnersOf, HasLk, LkPCs, Open, ExitPCs, Waking
<1>5. TakesLock(c, Lk)
  BY <1>1, <1>4, AcquireEffect, Start
<1>6. /\ hpc' \in [CPUs -> HPCs] /\ hpc'[c] = "h_wake" /\ \A d \in CPUs \ {c} : hpc'[d] = hpc[d]
  BY <1>1, Start DEF TypeOK, HPCs
<1>7. HartTypes
  BY <1>1, <1>5, <1>6, Start DEF HartTypes, TakesLock, TypeOK
<1>8. OthersSame(c)
  BY <1>1, <1>5, <1>6 DEF OthersSame, HartSame, StackSame, TakesLock
<1>9. OthersKeep(c)
  BY <1>5, Start DEF OthersKeep, TakesLock
<1>10. Threads' /\ \A u \in Tasks : ThreadKept(u)
  BY <1>1, NoThreadMoves
<1>11. OwnersOf(c)'
  <2>1. \A u \in Tasks : (HasLk(u)' <=> HasLk(u)) /\ (HasSem(u)' <=> HasSem(u)) /\ (HasWait(u)' <=> HasWait(u))
                         /\ (HasSelf(u)' <=> HasSelf(u))
    BY <1>10 DEF ThreadKept, HasLk, HasSem, HasWait, HasSelf, Zombie
  <2>2. owner'[Lk] = c /\ \A m \in Locks \ {Lk} : owner'[m] = owner[m]
    BY <1>5 DEF TakesLock
  <2> QED
    BY <1>1, <1>2, <1>6, <2>1, <2>2, Start DEF OwnersOf, Back
<1>12. HartOK(c)'
  <2>1. Noff(c) = 0 /\ Noff(c)' = 1 /\ ~Sie(c)' /\ ~Ena(c)'
    <3>1. ~Sie(c)
      BY <1>1, <1>2 DEF HartOK, OnHart, Scheduling
    <3> QED
      BY <1>1, <1>2, <1>5, <3>1 DEF HartOK, One, TakesLock
  <2>2. CASE run[c] = SCHED
    BY <1>1, <1>2, <1>6, <2>1, <2>2 DEF HartOK, Scheduling, Waking, One
  <2>3. CASE run[c] # SCHED
    <3>1. PICK u \in Tasks : u = run[c] /\ OnHart(c, u) /\ ThreadKept(u) /\ run'[c] = u /\ Open(u)
      BY <1>1, <1>3, <1>10, <2>3
    <3>2. OnHart(c, u)'
      BY <1>1, <1>6, <2>1, <3>1 DEF OnHart, ThreadKept, Open, ExitPCs, CallPCs, VPCs
    <3> QED
      BY <1>1, <1>6, <2>1, <2>3, <3>1, <3>2 DEF HartOK, One, Waking
  <2> QED
    BY <2>2, <2>3
<1>13. Wakeups'
  <2>1. Waking(c)' /\ wscan'[c] = 1
    BY <1>1, <1>2, <1>4, <1>6 DEF HartOK, Waking
  <2>2. \A u \in Tasks : 1 <= u
    BY Sets
  <2>3. ASSUME NEW u \in Tasks PROVE tpc'[u] \notin {"s_lock", "s_sleep"}
    <3> SUFFICES ASSUME tpc'[u] \in {"s_lock", "s_sleep"} PROVE FALSE
      OBVIOUS
    <3>1. tpc[u] \in {"s_lock", "s_sleep"}
      BY <1>10 DEF ThreadKept
    <3>2. PICK d \in CPUs : run[d] = u
      BY <3>1, Start DEF Threads, Parked
    <3>3. owner[Lk] = d
      BY <3>1, <3>2, Start DEF OwnersOf, HasLk, LkPCs
    <3> QED
      BY <1>5, <3>3, Sets DEF TakesLock
  <2> QED
    BY <2>1, <2>2, <2>3 DEF Wakeups
<1>14. TypeOK'
  BY <1>1, <1>7, HartTyped
<1> QED
  BY <1>1, <1>7, <1>8, <1>9, <1>11, <1>12, <1>13, <1>14, HartStep DEF HartTypes

\* wakeup() has looked at every task and the handler drops the lock.
LEMMA HandlerDoneOK == ASSUME Inv, NEW c \in CPUs, HandlerDone(c) PROVE Inv'
<1>1. /\ hpc[c] = "h_wake" /\ Release(c, Lk) /\ hpc' = [hpc EXCEPT ![c] = "h_done"]
      /\ wscan[c] = NTASK + 1 /\ wscan' = [wscan EXCEPT ![c] = 1]
      /\ UNCHANGED <<tvars, run, cur, spc, scan, cond, value, queue>>
  BY DEF HandlerDone, svars, dvars
<1>2. HartOK(c) /\ OwnersOf(c)
  BY Start
<1>3. run[c] # SCHED => run[c] \in Tasks /\ OnHart(c, run[c]) /\ Open(run[c])
  BY <1>1, <1>2, Start DEF HartOK, OnHart
<1>4. owner[Lk] = c /\ Noff(c) = 1
  BY <1>1, <1>2 DEF OwnersOf, HartOK, One
<1>5. DropsLock(c, Lk)
  BY <1>1, <1>4, ReleaseEffect, Start
<1>6. /\ hpc' \in [CPUs -> HPCs] /\ hpc'[c] = "h_done"
      /\ wscan' \in [CPUs -> 1 .. NTASK + 1] /\ wscan'[c] = 1
      /\ \A d \in CPUs \ {c} : hpc'[d] = hpc[d] /\ wscan'[d] = wscan[d]
  <2>1. 1 \in 1 .. NTASK + 1
    BY Sets
  <2> QED
    BY <1>1, <2>1, Start DEF TypeOK, HPCs
<1>7. HartTypes
  BY <1>1, <1>5, <1>6, Start DEF HartTypes, DropsLock, TypeOK
<1>8. OthersSame(c)
  BY <1>1, <1>5, <1>6 DEF OthersSame, HartSame, StackSame, DropsLock
<1>9. OthersKeep(c)
  BY <1>5, Start DEF OthersKeep, DropsLock
<1>10. Threads' /\ \A u \in Tasks : ThreadKept(u)
  BY <1>1, NoThreadMoves
<1>11. OwnersOf(c)'
  <2>1. \A u \in Tasks : (HasLk(u)' <=> HasLk(u)) /\ (HasSem(u)' <=> HasSem(u)) /\ (HasWait(u)' <=> HasWait(u))
                         /\ (HasSelf(u)' <=> HasSelf(u))
    BY <1>10 DEF ThreadKept, HasLk, HasSem, HasWait, HasSelf, Zombie
  <2>2. owner'[Lk] # c /\ \A m \in Locks \ {Lk} : owner'[m] = owner[m]
    BY <1>5, Sets DEF DropsLock
  <2>3. run[c] # SCHED => ~HasLk(run[c]) /\ ~HasLk(run[c])'
    BY <1>1, <1>3 DEF HasLk, LkPCs, Open, ExitPCs, tvars
  <2> QED
    BY SMTT(40), <1>1, <1>2, <1>6, <2>1, <2>2, <2>3, Start DEF OwnersOf, Back
<1>12. HartOK(c)'
  <2>1. Noff(c)' = 0 /\ ~Sie(c)'
    <3>1. Noff(c)' = Noff(c) - 1 /\ (Sie(c)' <=> Noff(c) = 1 /\ Ena(c))
      BY <1>5 DEF DropsLock
    <3> QED
      BY <1>1, <1>2, <1>4, <3>1 DEF HartOK
  <2>2. CASE run[c] = SCHED
    BY <1>1, <1>2, <1>6, <2>1, <2>2 DEF HartOK, Scheduling, Waking, One
  <2>3. CASE run[c] # SCHED
    <3>1. PICK u \in Tasks : u = run[c] /\ OnHart(c, u) /\ ThreadKept(u) /\ run'[c] = u /\ Open(u)
      BY <1>1, <1>3, <1>10, <2>3
    <3>2. OnHart(c, u)'
      BY <1>1, <1>6, <2>1, <3>1 DEF OnHart, ThreadKept, Open, ExitPCs, CallPCs, VPCs
    <3> QED
      BY <1>1, <1>6, <2>1, <2>3, <3>1, <3>2 DEF HartOK, One, Waking
  <2> QED
    BY <2>2, <2>3
<1>13. Wakeups'
  BY <1>1, <1>8, WakeupsSame
<1>14. TypeOK'
  BY <1>1, <1>7, HartTyped
<1> QED
  BY <1>1, <1>7, <1>8, <1>9, <1>11, <1>12, <1>13, <1>14, HartStep DEF HartTypes
-----------------------------------------------------------------------------
(* Context switches: thread t leaves hart c, or comes to it *)

\* Only hart c and thread t change, and no hart but c runs t.
LEMMA SwitchInv ==
  ASSUME Inv, NEW c \in CPUs, NEW t \in Tasks, \A d \in CPUs \ {c} : HartSame(d) /\ run[d] # t /\ cur[d] # t,
         OthersKeep(c), \A u \in Tasks \ {t} : ThreadKept(u), run[c] \in {t, SCHED}, run'[c] \in {t, SCHED},
         TypeOK', panicked' = FALSE, OwnersOf(c)', HartOK(c)', cur'[c] = t, Locals(t)',
         run'[c] = t => Active(t)', run'[c] = SCHED => Parked(t)', Wakeups', Semaphore'
  PROVE  Inv'
<1>1. \A d \in CPUs \ {c} : HartSame(d) /\ (run[d] # SCHED => ThreadKept(run[d]))
  BY Start
<1>2. \A d \in CPUs \ {c} : run'[d] = run[d]
  BY DEF HartSame, StackSame
<1>3. Threads'
  <2> SUFFICES ASSUME NEW u \in Tasks
               PROVE  /\ Locals(u)'
                      /\ \A d \in CPUs : (run[d])' = u => Active(u)'
                      /\ (\A d \in CPUs : (run[d])' # u) => Parked(u)'
    BY DEF Threads
  <2>1. CASE u = t
    BY <1>2, <2>1, Sets
  <2>2. CASE u # t
    <3>1. ThreadKept(u)
      BY <2>2
    <3>2. Locals(u) /\ (\A d \in CPUs : run[d] = u => Active(u)) /\ ((\A d \in CPUs : run[d] # u) => Parked(u))
      BY Start DEF Threads
    <3>3. Locals(u)' /\ (Active(u) => Active(u)') /\ (Parked(u) => Parked(u)')
      BY <3>1, <3>2 DEF ThreadKept, Locals, Active, Parked
    <3>4. \A d \in CPUs : run'[d] = u <=> run[d] = u
      BY <1>2, <2>2, Sets
    <3> QED
      BY <3>2, <3>3, <3>4
  <2> QED
    BY <2>1, <2>2
<1> QED
  BY <1>1, <1>3, StepInv

LEMMA SwitchWakeups ==
  ASSUME Inv, NEW c \in CPUs, NEW t \in Tasks, \A d \in CPUs \ {c} : HartSame(d) /\ run[d] # t,
         \A u \in Tasks \ {t} : ThreadKept(u), cond' = cond, ~Waking(c),
         state'[t] = "SLEEPING" /\ asleep'[t] => state[t] = "SLEEPING" /\ asleep[t],
         tpc'[t] \notin {"s_lock", "s_sleep"}
  PROVE  Wakeups'
<1>1. \A d \in CPUs \ {c} : (Waking(d) => Waking(d)') /\ wscan'[d] = wscan[d]
  BY Start DEF HartSame, StackSame, Waking, ThreadKept
<1>2. ASSUME NEW u \in Tasks, cond', state'[u] = "SLEEPING", asleep'[u]
      PROVE  \E d \in CPUs : Waking(d)' /\ wscan'[d] <= u
  <2>1. state[u] = "SLEEPING" /\ asleep[u]
    BY <1>2 DEF ThreadKept
  <2>2. PICK d \in CPUs : Waking(d) /\ wscan[d] <= u
    BY <1>2, <2>1, Start DEF Wakeups
  <2> QED
    BY <1>1, <2>2
<1>3. \A u \in Tasks : tpc'[u] \in {"s_lock", "s_sleep"} => ~cond'
  BY Start DEF ThreadKept, Wakeups
<1> QED
  BY <1>2, <1>3 DEF Wakeups

\* What a thread leaves behind on the way to the scheduler.
SwitchesTo(t, here, s) ==
    \/ tpc[t] = "y_sched" /\ here = "y_back" /\ ~s
    \/ tpc[t] = "s_sched" /\ here = "s_back" /\ s
    \/ tpc[t] = "p_sched" /\ here = "p_back" /\ s
    \/ tpc[t] = "x_swtch" /\ here = "gone"

LEMMA AwayOK == ASSUME Inv, NEW c \in CPUs, NEW t \in Tasks, sched(c, t) \/ ExitSwtch(c, t) PROVE Inv'
<1>1. /\ run[c] = t /\ hpc[c] = "none" /\ tpc[t] \in {"y_sched", "s_sched", "p_sched", "x_swtch"}
      /\ UNCHANGED <<cur, spc, scan, hpc, wscan, cpu, owner, cond, value, queue>>
  BY DEF sched, ExitSwtch, At, AfterSched, hvars, lvars, dvars
<1>2. /\ OnHart(c, t) /\ Active(t) /\ Locals(t) /\ run[c] # SCHED /\ OwnersOf(c) /\ HartOK(c) /\ cur[c] = t
      /\ \A d \in CPUs \ {c} : run[d] # t /\ cur[d] # t
  BY <1>1, OneRuns, Start
<1>3. Depth(t) = 1 /\ HasSelf(t) /\ ~HasLk(t) /\ ~HasSem(t) /\ ~HasWait(t) /\ ~Open(t)
  BY <1>1 DEF Depth, One, HasLk, HasSem, HasWait, HasSelf, LkPCs, SemPCs, SelfPCs, VPCs, Open, ExitPCs
<1>4. owner[t] = c /\ Noff(c) = 1 /\ ~Sie(c)
  BY <1>1, <1>2, <1>3 DEF OnHart, OwnersOf
<1>5. PICK here \in TPCs, s \in BOOLEAN, v \in Tasks \cup CPUs \cup {None} :
           /\ SwitchesTo(t, here, s) /\ Goto(t, here) /\ saved' = [saved EXCEPT ![t] = s]
           /\ vic' = [vic EXCEPT ![t] = v] /\ (here # "gone" => v = vic[t]) /\ run' = [run EXCEPT ![c] = SCHED]
           /\ UNCHANGED <<state, asleep, ret, panicked>>
  <2>1. /\ vic = [vic EXCEPT ![t] = vic[t]] /\ vic[t] \in Tasks \cup CPUs \cup {None}
        /\ saved = [saved EXCEPT ![t] = saved[t]] /\ saved[t] \in BOOLEAN
    BY Start DEF TypeOK
  <2>2. CASE sched(c, t)
    <3>1. tpc[t] \in {"y_sched", "s_sched", "p_sched"}
      BY <2>2 DEF sched, AfterSched
    <3>2. ~SchedPanics(c, t)
      <4>1. state[t] # "RUNNING"
        BY <1>2, <3>1 DEF Active
      <4> QED
        BY <1>4, <4>1 DEF SchedPanics, Noff, Sie
    <3>3. /\ saved' = [saved EXCEPT ![t] = Ena(c)] /\ Goto(t, AfterSched[tpc[t]])
          /\ run' = [run EXCEPT ![c] = SCHED] /\ UNCHANGED <<state, asleep, ret, vic, panicked>>
      BY <2>2, <3>2 DEF sched, Ena
    <3>4. SwitchesTo(t, AfterSched[tpc[t]], Ena(c)) /\ AfterSched[tpc[t]] \in TPCs /\ Ena(c) \in BOOLEAN
      BY <1>2, <3>1, Start DEF OnHart, CallPCs, AfterSched, SwitchesTo, TPCs
    <3> QED
      BY ZenonT(40), <2>1, <3>3, <3>4
  <2>3. CASE ExitSwtch(c, t)
    <3>1. SwitchesTo(t, "gone", saved[t]) /\ "gone" \in TPCs
      BY <2>3 DEF ExitSwtch, At, SwitchesTo, TPCs
    <3> QED
      BY <2>1, <2>3, <3>1 DEF ExitSwtch
  <2> QED
    BY <2>2, <2>3
<1>6. /\ tpc' \in [Tasks -> TPCs] /\ tpc'[t] = here /\ saved' \in [Tasks -> BOOLEAN] /\ saved'[t] = s
      /\ vic' \in [Tasks -> Tasks \cup CPUs \cup {None}] /\ vic'[t] = v
      /\ run' \in [CPUs -> Tasks \cup {SCHED}] /\ run'[c] = SCHED /\ (\A d \in CPUs \ {c} : run'[d] = run[d])
      /\ \A u \in Tasks \ {t} : tpc'[u] = tpc[u] /\ saved'[u] = saved[u] /\ vic'[u] = vic[u]
  BY <1>5, Start DEF TypeOK, Goto
<1>7. \A u \in Tasks \ {t} : ThreadKept(u)
  BY <1>5, <1>6 DEF ThreadKept
<1>8. \A d \in CPUs : CpuKept(d)
  BY <1>1 DEF CpuKept, Sie, Noff, Ena
<1>9. \A d \in CPUs \ {c} : HartSame(d) /\ run[d] # t /\ cur[d] # t
  BY <1>1, <1>2, <1>6, <1>8 DEF HartSame, StackSame
<1>10. TypeOK'
  <2>1. UNCHANGED <<state, asleep, ret, cur, spc, scan, hpc, wscan, cpu, owner, cond, value, queue, panicked>>
    BY <1>1, <1>5
  <2> QED
    BY <1>6, <2>1, Start DEF TypeOK
<1>11. OwnersOf(c)'
  <2>1. scan[c] = t /\ spc[c] = "back"
    BY <1>2 DEF OnHart
  <2>2. \A u \in Tasks : owner[u] = c <=> u = t
    BY <1>2, <1>4 DEF OwnersOf, Back
  <2> QED
    BY <1>1, <1>2, <1>3, <1>6, <2>1, <2>2, Start DEF OwnersOf, Back
<1>12. HartOK(c)'
  <2>1. scan[c] = t /\ spc[c] = "back" /\ cur[c] = t /\ wscan[c] = 1
    BY <1>1, <1>2 DEF OnHart, HartOK, Waking
  <2> QED
    BY <1>1, <1>4, <1>6, <1>8, <2>1 DEF HartOK, Scheduling, CpuKept
<1>13. Locals(t)' /\ Parked(t)'
  <2>1. Locals(t)'
    BY <1>2, <1>5, <1>6 DEF SwitchesTo, Locals, YPCs, ExitPCs
  <2>2. Parked(t)'
    BY <1>2, <1>5, <1>6 DEF SwitchesTo, Active, Parked, VPCs
  <2> QED
    BY <2>1, <2>2
<1>14. Wakeups'
  <2>1. ~Waking(c) /\ tpc'[t] \notin {"s_lock", "s_sleep"}
    BY <1>1, <1>5, <1>6 DEF Waking, SwitchesTo
  <2> QED
    BY <1>1, <1>5, <1>7, <1>9, <2>1, SwitchWakeups
<1>15. Semaphore'
  <2>1. /\ Waiter(t)' <=> Waiter(t)
        /\ tpc'[t] = "v_wake" <=> tpc[t] = "v_wake"
        /\ t \in Told => t \in Told'
        /\ tpc'[t] # "v_inc"
    BY <1>2, <1>5, <1>6 DEF SwitchesTo, Waiter, Active, Told
  <2> QED
    BY <1>1, <1>7, <2>1, OthersSemaphore
<1>16. OthersKeep(c) /\ panicked' = FALSE /\ cur'[c] = t /\ t # SCHED
  BY <1>1, <1>2, <1>5, Start DEF OthersKeep
<1> QED
  BY <1>1, <1>6, <1>7, <1>9, <1>10, <1>11, <1>12, <1>13, <1>14, <1>15, <1>16, SwitchInv

\* The scheduler picks a RUNNABLE task: nobody runs it, because it is unlocked.
LEMMA SchedPickOK == ASSUME Inv, NEW c \in CPUs, SchedPick(c) PROVE Inv'
<1>1. PICK t \in Tasks :
      /\ t = scan[c] /\ run[c] = SCHED /\ hpc[c] = "none" /\ spc[c] = "scan" /\ owner[t] = Free
      /\ state[t] = "RUNNABLE" /\ Acquire(c, t) /\ state' = [state EXCEPT ![t] = "RUNNING"]
      /\ cur' = [cur EXCEPT ![c] = t] /\ run' = [run EXCEPT ![c] = t] /\ spc' = [spc EXCEPT ![c] = "back"]
      /\ UNCHANGED <<asleep, tpc, ret, saved, vic, scan, hpc, wscan, cond, value, queue>>
  <2>1. scan[c] \in Tasks
    BY Start, Sets DEF SchedPick
  <2> QED
    BY <2>1 DEF SchedPick, InScheduler, hvars, dvars
<1>2. HartOK(c) /\ OwnersOf(c) /\ t \in Locks /\ owner[t] # c /\ t # SCHED
  BY <1>1, Start
<1>3. TakesLock(c, t)
  BY <1>1, <1>2, AcquireEffect, Start
<1>4. ASSUME NEW d \in CPUs PROVE run[d] # t /\ cur[d] # t
  <2>1. owner[t] # d /\ OwnersOf(d) /\ HartOK(d)
    BY <1>1, Start
  <2>2. run[d] # t
    <3> SUFFICES ASSUME run[d] = t PROVE FALSE
      OBVIOUS
    <3>1. Active(t) /\ ~HasSelf(t)
      BY <2>1, OneRuns DEF OwnersOf
    <3> QED
      BY <1>1, <3>1 DEF Active, HasSelf, SelfPCs, VPCs
  <2>3. cur[d] # t
    BY <1>2, <2>1, <2>2, Start DEF HartOK, OnHart, Scheduling, OwnersOf, Back
  <2> QED
    BY <2>2, <2>3
<1>5. Parked(t) /\ Locals(t)
  BY <1>4, Start DEF Threads
<1>6. tpc[t] \in {"start", "y_back", "s_back", "p_back"}
  BY <1>1, <1>5 DEF Parked
<1>7. /\ state' \in [Tasks -> States] /\ state'[t] = "RUNNING" /\ cur' \in [CPUs -> Tasks \cup {None}]
      /\ run' \in [CPUs -> Tasks \cup {SCHED}] /\ spc' \in [CPUs -> {"top", "scan", "back"}]
      /\ cur'[c] = t /\ run'[c] = t /\ spc'[c] = "back"
      /\ (\A d \in CPUs \ {c} : cur'[d] = cur[d] /\ run'[d] = run[d] /\ spc'[d] = spc[d])
      /\ \A u \in Tasks \ {t} : state'[u] = state[u]
  BY <1>1, Start DEF TypeOK, States
<1>8. \A u \in Tasks \ {t} : ThreadKept(u)
  BY <1>1, <1>7 DEF ThreadKept
<1>9. \A d \in CPUs \ {c} : HartSame(d) /\ run[d] # t /\ cur[d] # t
  BY <1>1, <1>3, <1>4, <1>7 DEF HartSame, StackSame, TakesLock
<1>10. OthersKeep(c)
  BY <1>3, Start DEF OthersKeep, TakesLock
<1>11. TypeOK'
  <2>1. UNCHANGED <<asleep, tpc, ret, saved, vic, scan, hpc, wscan, cond, value, queue>>
    BY <1>1
  <2>2. panicked' = FALSE /\ LockTypes
    BY <1>3 DEF TakesLock
  <2> QED
    BY <1>7, <2>1, <2>2, Start DEF TypeOK, LockTypes, Cpus
<1>12. Active(t)' /\ Locals(t)'
  <2>1. Active(t)'
    BY <1>1, <1>6, <1>7 DEF Active, VPCs
  <2>2. Locals(t)'
    BY <1>1, <1>5 DEF Locals
  <2> QED
    BY <2>1, <2>2
<1>13. HasSelf(t)' /\ ~HasLk(t)' /\ ~HasSem(t)' /\ ~HasWait(t)' /\ Depth(t)' = 1
  BY <1>1, <1>6 DEF Depth, One, HasLk, HasSem, HasWait, HasSelf, LkPCs, SemPCs, SelfPCs, VPCs
<1>14. OwnersOf(c)'
  <2>1. \A l \in Locks : owner[l] # c
    BY <1>1, <1>2, Sets DEF OwnersOf, Back
  <2>2. owner'[t] = c /\ \A l \in Locks \ {t} : owner'[l] # c
    BY <1>3, <2>1 DEF TakesLock
  <2> QED
    BY <1>1, <1>2, <1>7, <1>13, <2>2, Start DEF OwnersOf, Back
<1>15. HartOK(c)'
  <2>1. Noff(c) = 0 /\ wscan[c] = 1
    BY <1>1, <1>2 DEF HartOK, Scheduling, Waking
  <2>2. Noff(c)' = 1 /\ ~Sie(c)'
    BY <1>3, <2>1 DEF TakesLock
  <2>3. OnHart(c, t)'
    BY <1>1, <1>6, <1>7, <1>13, <2>2 DEF OnHart, CallPCs, VPCs
  <2> QED
    BY <1>1, <1>2, <1>7, <2>1, <2>3 DEF HartOK
<1>16. Wakeups'
  <2>1. ~Waking(c) /\ tpc'[t] \notin {"s_lock", "s_sleep"} /\ state'[t] # "SLEEPING"
    BY <1>1, <1>6, <1>7 DEF Waking
  <2> QED
    BY <1>1, <1>8, <1>9, <2>1, SwitchWakeups
<1>17. Semaphore'
  <2>1. /\ ~Waiter(t)' /\ ~Waiter(t) /\ t \notin Told
        /\ tpc'[t] # "v_wake" /\ tpc[t] # "v_wake" /\ tpc'[t] # "v_inc"
    BY <1>1, <1>6, <1>7 DEF Waiter, Told
  <2> QED
    BY <1>1, <1>8, <2>1, OthersSemaphore
<1>18. panicked' = FALSE /\ run'[c] # SCHED
  BY <1>2, <1>3, <1>7 DEF TakesLock
<1> QED
  BY <1>1, <1>7, <1>8, <1>9, <1>10, <1>11, <1>12, <1>14, <1>15, <1>16, <1>17, <1>18, SwitchInv
-----------------------------------------------------------------------------
(* Waking a thread that is parked *)

\* A thread that sleeps and whose lock is free is parked.
LEMMA SleeperParked ==
  ASSUME Inv, NEW w \in Tasks, owner[w] = Free, tpc[w] \in {"s_sched", "s_back", "p_sched", "p_back"}
  PROVE  (\A d \in CPUs : run[d] # w) /\ tpc[w] \in {"s_back", "p_back"}
<1>1. \A d \in CPUs : run[d] # w
  BY Start DEF OwnersOf, HasSelf, SelfPCs
<1>2. Parked(w)
  BY <1>1, Start DEF Threads
<1> QED
  BY <1>1, <1>2 DEF Parked

LEMMA WakeOneOK ==
  ASSUME Inv, NEW c \in CPUs, Waking(c), WakeOne(c),
         UNCHANGED <<asleep, tpc, ret, saved, vic, svars, hpc, lvars, dvars, panicked>>
  PROVE  Inv'
<1>1. PICK w \in Tasks :
      /\ w = wscan[c] /\ (w = cur[c] \/ owner[w] = Free) /\ wscan' = [wscan EXCEPT ![c] = w + 1]
      /\ state' = [state EXCEPT ![w] = IF w # cur[c] /\ state[w] = "SLEEPING" /\ asleep[w]
                                       THEN "RUNNABLE" ELSE state[w]]
  <2>1. wscan[c] \in Tasks
    BY Start, Sets DEF WakeOne
  <2> QED
    BY <2>1 DEF WakeOne
<1>2. UNCHANGED <<asleep, tpc, ret, saved, vic, run, cur, spc, scan, hpc, cpu, owner, cond, value, queue, panicked>>
  BY DEF svars, lvars, dvars
<1>3. w = cur[c] => ~asleep[w]
  <2> SUFFICES ASSUME w = cur[c] PROVE ~asleep[w]
    OBVIOUS
  <2>1. HartOK(c) /\ Locals(w) /\ w # None
    BY Start DEF Threads
  <2>2. run[c] = w
    BY <2>1, Start DEF HartOK, OnHart, Scheduling, Waking
  <2>3. tpc[w] = "g_wake" \/ Open(w)
    BY <2>1, <2>2, Start DEF HartOK, OnHart, Waking
  <2> QED
    BY <2>1, <2>3 DEF Locals, Open, ExitPCs
<1>4. \/ state' = state /\ ~(state[w] = "SLEEPING" /\ asleep[w])
      \/ /\ state' = [state EXCEPT ![w] = "RUNNABLE"] /\ state[w] = "SLEEPING" /\ asleep[w]
         /\ (\A d \in CPUs : run[d] # w) /\ tpc[w] = "s_back"
  <2>1. CASE state[w] = "SLEEPING" /\ asleep[w]
    <3>1. w # cur[c] /\ owner[w] = Free
      BY <1>1, <1>3, <2>1
    <3>2. Locals(w)
      BY Start DEF Threads
    <3>3. tpc[w] \in {"s_sched", "s_back"}
      BY <2>1, <3>2 DEF Locals
    <3>4. (\A d \in CPUs : run[d] # w) /\ tpc[w] \in {"s_back", "p_back"}
      BY <3>1, <3>3, SleeperParked
    <3> QED
      BY <1>1, <2>1, <3>1, <3>3, <3>4
  <2>2. CASE ~(state[w] = "SLEEPING" /\ asleep[w])
    BY <1>1, <2>2, Start DEF TypeOK
  <2> QED
    BY <2>1, <2>2
<1>5. /\ state' \in [Tasks -> States] /\ (\A u \in Tasks \ {w} : state'[u] = state[u])
      /\ wscan' \in [CPUs -> 1 .. NTASK + 1] /\ wscan'[c] = w + 1 /\ \A d \in CPUs \ {c} : wscan'[d] = wscan[d]
  <2>1. w + 1 \in 1 .. NTASK + 1
    BY Sets
  <2> QED
    BY <1>1, <1>4, <2>1, Start DEF TypeOK, States
<1>6. \A u \in Tasks : u # w \/ state' = state => ThreadKept(u)
  BY <1>2, <1>5 DEF ThreadKept
<1>7. \A d \in CPUs : CpuKept(d) /\ StackSame(d) /\ (run[d] # SCHED => ThreadKept(run[d]))
  <2>1. \A d \in CPUs : CpuKept(d) /\ StackSame(d)
    BY <1>2 DEF CpuKept, Sie, Noff, Ena, StackSame
  <2>2. ASSUME NEW d \in CPUs, run[d] # SCHED PROVE ThreadKept(run[d])
    <3>1. run[d] \in Tasks /\ (run[d] # w \/ state' = state)
      BY <1>4, <2>2, Start
    <3> QED
      BY <1>6, <3>1
  <2> QED
    BY <2>1, <2>2
<1>8. OwnersOf(c)' /\ OthersKeep(c)
  <2>1. StackSame(c) /\ (run[c] # SCHED => ThreadKept(run[c])) /\ \A l \in Locks : owner'[l] = c <=> owner[l] = c
    BY <1>2, <1>7
  <2> QED
    BY <1>2, <2>1, OwnersKept DEF OthersKeep
<1>9. Waking(c)' /\ \A d \in CPUs \ {c} : Waking(d) => Waking(d)'
  BY <1>2 DEF Waking
<1>10. HartOK(c)'
  <2>1. HartOK(c)
    BY Start
  <2>2. CASE run[c] = SCHED
    BY <1>2, <1>7, <1>9, <2>1, <2>2 DEF HartOK, Scheduling, CpuKept
  <2>3. CASE run[c] # SCHED
    <3>1. PICK u \in Tasks : u = run[c] /\ OnHart(c, u) /\ ThreadKept(u) /\ run'[c] = u
      BY <1>2, <1>7, <2>1, <2>3, Start DEF HartOK
    <3>2. Depth(u)' = Depth(u) /\ (Open(u)' <=> Open(u)) /\ (Zombie(u)' <=> Zombie(u))
      BY <3>1 DEF ThreadKept, Depth, One, HasLk, HasSem, HasWait, HasSelf, Zombie, Open
    <3>3. OnHart(c, u)'
      BY <1>2, <1>7, <3>1, <3>2 DEF OnHart, CpuKept, ThreadKept
    <3> QED
      BY <1>2, <1>7, <1>9, <2>1, <2>3, <3>1, <3>3 DEF HartOK, CpuKept
  <2> QED
    BY <2>2, <2>3
<1>11. Threads'
  <2> SUFFICES ASSUME NEW u \in Tasks
               PROVE  /\ Locals(u)'
                      /\ \A d \in CPUs : (run[d])' = u => Active(u)'
                      /\ (\A d \in CPUs : (run[d])' # u) => Parked(u)'
    BY DEF Threads
  <2>1. Locals(u) /\ (\A d \in CPUs : run[d] = u => Active(u)) /\ ((\A d \in CPUs : run[d] # u) => Parked(u))
    BY Start DEF Threads
  <2>2. Locals(u)'
    BY <1>2, <2>1 DEF Locals
  <2>3. CASE state'[u] = state[u]
    <3>1. (Active(u) => Active(u)') /\ (Parked(u) => Parked(u)')
      BY <1>2, <2>3 DEF Active, Parked
    <3> QED
      BY <1>2, <2>1, <2>2, <3>1
  <2>4. CASE state'[u] # state[u]
    <3>1. u = w /\ state'[u] = "RUNNABLE" /\ (\A d \in CPUs : run[d] # w) /\ tpc[w] = "s_back"
      BY <1>4, <1>5, <2>4, Start DEF TypeOK
    <3>2. Parked(u)'
      BY <1>2, <2>1, <3>1 DEF Parked
    <3> QED
      BY <1>2, <2>2, <3>1, <3>2
  <2> QED
    BY <2>3, <2>4
<1>12. Wakeups'
  <2>1. ASSUME NEW u \in Tasks, cond', state'[u] = "SLEEPING", asleep'[u]
        PROVE  \E d \in CPUs : Waking(d)' /\ wscan'[d] <= u
    <3>1. u # w /\ cond /\ state[u] = "SLEEPING" /\ asleep[u]
      BY <1>2, <1>4, <1>5, <2>1, Start DEF TypeOK
    <3>2. PICK d \in CPUs : Waking(d) /\ wscan[d] <= u
      BY <3>1, Start DEF Wakeups
    <3>3. d = c => wscan'[d] <= u
      BY <1>1, <1>5, <3>1, <3>2, Sets
    <3> QED
      BY <1>5, <1>9, <3>2, <3>3
  <2> QED
    BY <1>2, <2>1, Start DEF Wakeups
<1>13. Semaphore'
  <2>1. \A u \in Tasks : (Waiter(u)' <=> Waiter(u)) /\ (Zombie(u)' <=> Zombie(u)) /\ (InQueue(u)' <=> InQueue(u))
    <3>1. \A u \in Tasks : state'[u] # state[u] => tpc[u] = "s_back" /\ state'[u] = "RUNNABLE" /\ state[u] = "SLEEPING"
      BY <1>4, <1>5, Start DEF TypeOK
    <3> QED
      BY <1>2, <3>1 DEF Waiter, Zombie, InQueue
  <2>2. Told' = Told /\ (Serving' <=> Serving)
    BY <1>2, <2>1 DEF Told, Serving
  <2>3. One(Serving)' = One(Serving)
    BY <2>2 DEF One
  <2> QED
    BY <1>2, <2>1, <2>2, <2>3, Start DEF Semaphore
<1>14. TypeOK'
  <2>1. UNCHANGED <<asleep, tpc, ret, saved, vic, run, cur, spc, scan, hpc, cpu, owner, cond, value, queue, panicked>>
    BY <1>2
  <2> QED
    BY <1>5, <2>1, Start DEF TypeOK
<1>15. panicked' = FALSE /\ (cur'[c] # None => \A d \in CPUs \ {c} : cur[d] # cur'[c])
  BY <1>2, Start DEF Harts
<1>16. \A d \in CPUs \ {c} : HartSame(d) /\ (run[d] # SCHED => ThreadKept(run[d]))
  BY <1>5, <1>7 DEF HartSame
<1> QED
  BY <1>8, <1>10, <1>11, <1>12, <1>13, <1>14, <1>15, <1>16, StepInv

\* lm_V takes the oldest waiter off the list: it sleeps, behind its swtch.
LEMMA VWakeOK == ASSUME Inv, NEW c \in CPUs, NEW t \in Tasks, VWake(c, t) PROVE Inv'
<1>1. /\ run[c] = t /\ hpc[c] = "none" /\ tpc[t] = "v_wake" /\ owner[Head(queue)] = Free
      /\ queue' = Tail(queue) /\ state' = [state EXCEPT ![Head(queue)] = "RUNNABLE"] /\ Goto(t, "v_done")
      /\ UNCHANGED <<asleep, ret, saved, vic, run, cur, spc, scan, hpc, wscan, cpu, owner, cond, value, panicked>>
  BY DEF VWake, At, svars, hvars, lvars
<1>2. OnHart(c, t) /\ Active(t) /\ Locals(t) /\ run[c] # SCHED /\ OwnersOf(c) /\ HartOK(c)
  BY <1>1, OneRuns, Start
<1>3. owner[SemLk] = c /\ \A u \in Tasks \ {t} : tpc[u] \notin SemPCs
  BY <1>1, OneInSem DEF SemPCs, VPCs
<1>4. /\ DOMAIN queue = 1 .. Len(queue) /\ Len(queue) \in Nat /\ Len(queue) >= 1
      /\ Len(queue) = (IF value < 0 THEN -value ELSE 0) + 1 /\ value \in Int
  <2>1. Serving
    BY <1>1 DEF Serving
  <2>2. Len(queue) = (IF value < 0 THEN -value ELSE 0) + 1 /\ value \in Int
    BY <2>1, Start DEF Semaphore, One
  <2>3. DOMAIN queue = 1 .. Len(queue) /\ Len(queue) \in Nat
    BY Start, LenProperties
  <2> QED
    BY <2>2, <2>3
<1>5. /\ queue # <<>> /\ queue' \in Seq(Tasks) /\ Len(queue') = Len(queue) - 1
      /\ DOMAIN queue' = 1 .. Len(queue) - 1 /\ \A i \in 1 .. Len(queue) - 1 : queue'[i] = queue[i + 1]
  <2>1. queue # <<>> /\ queue \in Seq(Tasks)
    BY <1>4, Start
  <2>2. /\ Tail(queue) \in Seq(Tasks) /\ Len(Tail(queue)) = Len(queue) - 1
        /\ \A i \in 1 .. Len(Tail(queue)) : Tail(queue)[i] = queue[i + 1]
    BY <2>1, HeadTailProperties
  <2> QED
    BY <1>1, <2>1, <2>2, LenProperties
<1>6. PICK w \in Tasks : w = Head(queue) /\ w = queue[1] /\ Waiter(w)
  <2>1. Head(queue) \in Tasks /\ Head(queue) = queue[1] /\ 1 \in DOMAIN queue
    BY <1>4, <1>5, Start, HeadTailProperties
  <2>2. InQueue(Head(queue))
    BY <2>1 DEF InQueue
  <2> QED
    BY <2>1, <2>2, Start DEF Semaphore
<1>7. w # t /\ (\A d \in CPUs : run[d] # w) /\ tpc[w] = "p_back" /\ state[w] = "SLEEPING"
  <2>1. w # t /\ tpc[w] \in {"p_sched", "p_back"}
    BY <1>1, <1>3, <1>6 DEF Waiter, SemPCs
  <2>2. (\A d \in CPUs : run[d] # w) /\ tpc[w] \in {"s_back", "p_back"}
    BY <1>1, <1>6, <2>1, SleeperParked
  <2> QED
    BY <1>6, <2>1, <2>2 DEF Waiter
<1>8. /\ state' \in [Tasks -> States] /\ state'[w] = "RUNNABLE" /\ (\A u \in Tasks \ {w} : state'[u] = state[u])
      /\ tpc' \in [Tasks -> TPCs] /\ tpc'[t] = "v_done" /\ \A u \in Tasks \ {t} : tpc'[u] = tpc[u]
  BY <1>1, <1>6, Start DEF TypeOK, States, TPCs, Goto
<1>9. \A u \in Tasks \ {t, w} : ThreadKept(u)
  BY <1>1, <1>8 DEF ThreadKept
<1>10. \A d \in CPUs : CpuKept(d) /\ StackSame(d) /\ wscan'[d] = wscan[d]
  BY <1>1 DEF CpuKept, Sie, Noff, Ena, StackSame
<1>11. \A d \in CPUs \ {c} : HartSame(d) /\ (run[d] # SCHED => ThreadKept(run[d]))
  <2>1. ASSUME NEW d \in CPUs \ {c}, run[d] # SCHED PROVE ThreadKept(run[d])
    <3>1. run[d] \in Tasks /\ run[d] # t /\ run[d] # w
      BY <1>1, <1>7, <2>1, OneRuns, Start
    <3> QED
      BY <1>9, <3>1
  <2> QED
    BY <1>10, <2>1 DEF HartSame
<1>12. /\ HasLk(t)' <=> HasLk(t)
       /\ HasSem(t)' <=> HasSem(t)
       /\ HasWait(t)' <=> HasWait(t)
       /\ HasSelf(t)' <=> HasSelf(t)
       /\ Zombie(t)' <=> Zombie(t)
  BY <1>1, <1>7, <1>8 DEF HasLk, HasSem, HasWait, HasSelf, Zombie, LkPCs, SemPCs, VPCs, SelfPCs
<1>13. Depth(t)' = Depth(t)
  BY <1>12 DEF Depth, One
<1>14. OwnersOf(c)' /\ OthersKeep(c)
  BY <1>1, <1>2, <1>12, Start DEF OwnersOf, Back, OthersKeep
<1>15. HartOK(c)'
  <2>1. OnHart(c, t)'
    BY <1>1, <1>2, <1>8, <1>10, <1>12, <1>13 DEF OnHart, CpuKept, Open, CallPCs, VPCs, ExitPCs
  <2>2. wscan'[c] = 1
    BY <1>1, <1>2 DEF HartOK, Waking
  <2> QED
    BY <1>1, <1>2, <2>1, <2>2 DEF HartOK
<1>16. Threads'
  <2> SUFFICES ASSUME NEW u \in Tasks
               PROVE  /\ Locals(u)'
                      /\ \A d \in CPUs : (run[d])' = u => Active(u)'
                      /\ (\A d \in CPUs : (run[d])' # u) => Parked(u)'
    BY DEF Threads
  <2>1. Locals(u) /\ (\A d \in CPUs : run[d] = u => Active(u)) /\ ((\A d \in CPUs : run[d] # u) => Parked(u))
    BY Start DEF Threads
  <2>2. CASE u = t
    <3>1. Locals(u)'
      BY <1>1, <1>8, <2>1, <2>2 DEF Locals, YPCs
    <3>2. Active(u)'
      BY <1>1, <1>2, <1>7, <1>8, <2>2 DEF Active, VPCs
    <3> QED
      BY <1>1, <2>2, <3>1, <3>2
  <2>3. CASE u = w
    <3>1. Locals(u)' /\ Parked(u)'
      BY <1>1, <1>7, <1>8, <2>1, <2>3 DEF Locals, Parked, YPCs
    <3> QED
      BY <1>1, <1>7, <2>3, <3>1
  <2>4. CASE u # t /\ u # w
    <3>1. ThreadKept(u)
      BY <1>9, <2>4
    <3>2. Locals(u)' /\ (Active(u) => Active(u)') /\ (Parked(u) => Parked(u)')
      BY <2>1, <3>1 DEF ThreadKept, Locals, Active, Parked
    <3> QED
      BY <1>1, <2>1, <3>2
  <2> QED
    BY <2>2, <2>3, <2>4
<1>17. Wakeups'
  <2>1. \A d \in CPUs : Waking(d) => Waking(d)'
    <3>1. ASSUME NEW d \in CPUs, Waking(d) PROVE Waking(d)'
      <4>1. run[d] # SCHED => run[d] \in Tasks
        BY Start
      <4> QED
        BY <1>1, <1>8, <3>1, <4>1 DEF Waking
    <3> QED
      BY <3>1
  <2>2. \A u \in Tasks : state'[u] = "SLEEPING" => state[u] = "SLEEPING"
    BY <1>8
  <2>3. \A u \in Tasks : tpc'[u] \in {"s_lock", "s_sleep"} => tpc[u] = tpc'[u]
    BY <1>8
  <2> QED
    BY <1>1, <1>10, <2>1, <2>2, <2>3, Start DEF Wakeups
<1>18. Semaphore'
  <2>1. /\ ~Serving'
        /\ \A u \in Tasks \ {w} : Waiter(u)' <=> Waiter(u)
        /\ ~Waiter(w)' /\ Told' = Told
        /\ \A u \in Tasks : tpc'[u] # "v_inc"
    BY <1>1, <1>3, <1>7, <1>8 DEF Serving, Waiter, Told, Zombie, SemPCs, VPCs
  <2>2. One(Serving)' = 0
    BY <2>1 DEF One
  <2>3. \A i, j \in DOMAIN queue : queue[i] = queue[j] => i = j
    BY Start DEF Semaphore
  <2>4. \A i, j \in DOMAIN queue' : queue'[i] = queue'[j] => i = j
    <3> SUFFICES ASSUME NEW i \in DOMAIN queue', NEW j \in DOMAIN queue', queue'[i] = queue'[j] PROVE i = j
      OBVIOUS
    <3>1. i \in Int /\ j \in Int /\ queue[i + 1] = queue[j + 1]
      BY <1>4, <1>5
    <3>2. i + 1 \in DOMAIN queue /\ j + 1 \in DOMAIN queue
      BY <1>4, <1>5
    <3>3. i + 1 = j + 1
      BY <2>3, <3>1, <3>2
    <3> QED
      BY <3>1, <3>3
  <2>5. \A u \in Tasks : InQueue(u)' <=> InQueue(u) /\ u # w
    <3>1. ASSUME NEW u \in Tasks, InQueue(u), u # w PROVE InQueue(u)'
      <4>1. PICK i \in DOMAIN queue : queue[i] = u
        BY <3>1 DEF InQueue
      <4>2. i - 1 \in DOMAIN queue' /\ queue'[i - 1] = u
        BY <1>4, <1>5, <1>6, <3>1, <4>1
      <4> QED
        BY <4>2 DEF InQueue
    <3>2. ASSUME NEW u \in Tasks, InQueue(u)' PROVE InQueue(u) /\ u # w
      <4>1. PICK i \in DOMAIN queue' : queue'[i] = u
        BY <3>2 DEF InQueue
      <4>2. i + 1 \in DOMAIN queue /\ queue[i + 1] = u /\ i + 1 # 1 /\ 1 \in DOMAIN queue
        BY <1>4, <1>5, <4>1
      <4> QED
        BY <1>6, <2>3, <4>2 DEF InQueue
    <3> QED
      BY <3>1, <3>2
  <2>6. \A u \in Tasks : InQueue(u)' <=> Waiter(u)'
    BY <2>1, <2>5, Start DEF Semaphore
  <2>7. Len(queue') = (IF value' < 0 THEN -value' ELSE 0) + One(Serving)'
    BY <1>1, <1>4, <1>5, <2>2
  <2>8. value' <= MaxSem + Cardinality(Told')
    BY <1>1, <2>1, Start DEF Semaphore
  <2> QED
    BY <2>1, <2>4, <2>6, <2>7, <2>8 DEF Semaphore
<1>19. TypeOK'
  <2>1. UNCHANGED <<asleep, ret, saved, vic, run, cur, spc, scan, hpc, wscan, cpu, owner, cond, value, panicked>>
    BY <1>1
  <2> QED
    BY <1>5, <1>8, <2>1, Start DEF TypeOK
<1>20. panicked' = FALSE /\ (cur'[c] # None => \A d \in CPUs \ {c} : cur[d] # cur'[c])
  BY <1>1, Start DEF Harts
<1> QED
  BY <1>11, <1>14, <1>15, <1>16, <1>17, <1>18, <1>19, <1>20, StepInv
-----------------------------------------------------------------------------
(* The invariant *)

LEMMA InitInv == Init => Inv
<1> SUFFICES ASSUME Init PROVE Inv
  OBVIOUS
<1>1. TypeOK
  <2>1. 0 \in -NTASK .. MaxSem + NTASK /\ 1 \in 1 .. NTASK + 1
    BY Sets
  <2>2. cpu \in [CPUs -> [sie : BOOLEAN, noff : Nat, intena : BOOLEAN]]
    BY DEF Init
  <2>3. queue \in Seq(Tasks)
    BY DEF Init
  <2>4. value \in -NTASK .. MaxSem + NTASK
    BY <2>1 DEF Init
  <2> QED
    BY <2>1, <2>2, <2>3, <2>4 DEF Init, TypeOK, States, TPCs, HPCs
<1>2. \A c \in CPUs : ~Sie(c) /\ Noff(c) = 0 /\ ~Ena(c)
  BY DEF Init, Sie, Noff, Ena
<1>3. Owners
  BY Sets DEF Init, Owners, Back
<1>4. Harts
  BY <1>2 DEF Init, Harts, HartOK, Scheduling, Waking
<1>5. Threads
  BY Sets DEF Init, Threads, Locals, Parked, Active, YPCs, ExitPCs
<1>6. Wakeups
  BY DEF Init, Wakeups
<1>7. Semaphore
  <2>1. Told = {} /\ ~Serving /\ \A t \in Tasks : ~Waiter(t)
    BY DEF Init, Told, Serving, Waiter
  <2>2. Cardinality(Told) = 0 /\ One(Serving) = 0
    BY <2>1, FS_EmptySet DEF One
  <2>3. Len(queue) = 0 /\ DOMAIN queue = {} /\ value = 0
    BY DEF Init
  <2> QED
    BY <2>1, <2>2, <2>3, Sets DEF Init, Semaphore, InQueue
<1> QED
  BY <1>1, <1>3, <1>4, <1>5, <1>6, <1>7 DEF Init, Inv

LEMMA StutterInv == ASSUME Inv, UNCHANGED vars PROVE Inv'
<1>1. UNCHANGED <<state, asleep, tpc, ret, saved, vic, run, cur, spc, scan, hpc, wscan, cpu, owner, cond, value,
                  queue, panicked>>
  BY DEF vars, tvars, svars, hvars, lvars, dvars
<1>2. TypeOK' = TypeOK
  BY <1>1 DEF TypeOK
<1>3. Owners' = Owners
  BY <1>1 DEF Owners, HasLk, HasSem, HasWait, HasSelf, Zombie, Back
<1>4. Harts' = Harts
  BY <1>1 DEF Harts, HartOK, Scheduling, OnHart, Waking, Sie, Noff, Ena, Open, Depth, One, HasLk, HasSem, HasWait,
     HasSelf, Zombie
<1>5. UNCHANGED <<tvars, run, value, queue>>
  BY <1>1 DEF tvars
<1>6. Threads' /\ Semaphore'
  BY <1>5, NoThreadMoves, SemaphoreSame
<1>7. Wakeups'
  BY <1>1, Start DEF Wakeups, Waking
<1> QED
  BY <1>1, <1>2, <1>3, <1>4, <1>6, <1>7 DEF Inv

\* The parts of Next, sorted by the lemmas that treat them.
LEMMA Steps ==
  ASSUME NEW c \in CPUs, Hart(c) \/ Timer(c) \/ Interrupt(c)
  PROVE  \/ SchedTop(c) \/ SchedSkip(c) \/ SchedWrap(c)
         \/ SchedPick(c) \/ SchedBack(c)
         \/ HandlerLock(c) \/ HandlerWake(c) \/ HandlerDone(c)
         \/ Interrupt(c) \/ HandlerReturn(c)
         \/ Timer(c)
         \/ \E t \in Tasks : \/ Takes(c, t) \/ Drops(c, t) \/ BackFrom(c, t) \/ PassOver(c, t)
                             \/ Signal(c, t) \/ SignalWake(c, t)
                             \/ PTake(c, t) \/ PQueue(c, t) \/ VInc(c, t) \/ VWake(c, t)
                             \/ sched(c, t) \/ ExitSwtch(c, t)
BY DEF Hart, Scheduler, Handler, Thread, YieldStep, WaitStep, PStep, VStep, ExitStep, Takes, Drops, BackFrom,
   PassOver

LEMMA TimerTask ==
  ASSUME Inv, NEW c \in CPUs, Timer(c)
  PROVE  \E t \in Tasks : PassOver(c, t)
<1>1. cur[c] \in Tasks
  BY Start DEF Timer
<1> QED
  BY <1>1 DEF PassOver

LEMMA InvStep == ASSUME SafeExits, Inv, [Next]_vars PROVE Inv'
<1>1. CASE UNCHANGED vars
  BY <1>1, StutterInv
<1>2. CASE Next
  <2>1. PICK c \in CPUs : Hart(c) \/ Timer(c) \/ Interrupt(c)
    BY <1>2 DEF Next
  <2>2. CASE SchedTop(c) \/ SchedSkip(c) \/ SchedWrap(c)
    BY <2>2, LookOK
  <2>3. CASE SchedPick(c)
    BY <2>3, SchedPickOK
  <2>4. CASE SchedBack(c)
    BY <2>4, SchedBackOK
  <2>5. CASE HandlerLock(c)
    BY <2>5, HandlerLockOK
  <2>6. CASE HandlerWake(c)
    BY <2>6, WakeOneOK DEF HandlerWake, Waking
  <2>7. CASE HandlerDone(c)
    BY <2>7, HandlerDoneOK
  <2>8. CASE Interrupt(c) \/ HandlerReturn(c)
    BY <2>8, EdgeOK
  <2>9. CASE Timer(c)
    BY <2>9, TimerTask, PassOverOK
  <2>10. ASSUME NEW t \in Tasks,
                \/ Takes(c, t) \/ Drops(c, t) \/ BackFrom(c, t) \/ PassOver(c, t)
                \/ Signal(c, t) \/ SignalWake(c, t)
                \/ PTake(c, t) \/ PQueue(c, t) \/ VInc(c, t) \/ VWake(c, t)
                \/ sched(c, t) \/ ExitSwtch(c, t)
         PROVE  Inv'
    <3>1. CASE Takes(c, t)
      BY <3>1, TakesOK
    <3>2. CASE Drops(c, t)
      BY <3>2, DropsOK
    <3>3. CASE BackFrom(c, t)
      BY <3>3, BackFromOK
    <3>4. CASE PassOver(c, t)
      BY <3>4, PassOverOK
    <3>5. CASE Signal(c, t)
      BY <3>5, SignalOK
    <3>6. CASE SignalWake(c, t)
      <4>1. Waking(c)
        BY <3>6, Start DEF SignalWake, At, Waking
      <4> QED
        BY <3>6, <4>1, WakeOneOK DEF SignalWake
    <3>7. CASE PTake(c, t)
      BY <3>7, PTakeOK
    <3>8. CASE PQueue(c, t)
      BY <3>8, PQueueOK
    <3>9. CASE VInc(c, t)
      BY <3>9, VIncOK
    <3>10. CASE VWake(c, t)
      BY <3>10, VWakeOK
    <3>11. CASE sched(c, t) \/ ExitSwtch(c, t)
      BY <3>11, AwayOK
    <3> QED
      BY <2>10, <3>1, <3>2, <3>3, <3>4, <3>5, <3>6, <3>7, <3>8, <3>9, <3>10, <3>11
  <2> QED
    BY <2>1, <2>2, <2>3, <2>4, <2>5, <2>6, <2>7, <2>8, <2>9, <2>10, Steps
<1> QED
  BY <1>1, <1>2

LEMMA Invariance == ASSUME SafeExits PROVE Spec => []Inv
<1>1. Init => Inv
  BY InitInv
<1>2. Inv /\ [Next]_vars => Inv'
  BY InvStep
<1> QED
  BY <1>1, <1>2, PTL DEF Spec
-----------------------------------------------------------------------------
(* What follows from it *)

\* For any number of harts and threads, no panic of lm_lock, lm_unlock or
\* sched() is reachable (lock.c:62, 83, proc.c:266-273).
THEOREM NeverPanics == ASSUME SafeExits PROVE Spec => []NoPanic
<1>1. Inv => NoPanic
  BY DEF Inv, NoPanic
<1> QED
  BY <1>1, Invariance, PTL

\* Every switch back gives the scheduler the lock of the task it had picked,
\* and nothing panics (proc.c:193-195): with one hart whatever the threads call,
\* and on any number of harts as long as no thread calls sys_exit, for every
\* interleaving of yield, sleep, lm_P, lm_V, kill of oneself and exit from a
\* trap.  On two harts sys_exit breaks it.
THEOREM SwitchesLocked == ASSUME SafeExits PROVE Spec => []ExitsLocked
<1>1. Inv => ExitsLocked
  <2> SUFFICES ASSUME Inv, NEW c \in CPUs, InScheduler(c, "back") PROVE owner[scan[c]] = c
    BY DEF Inv, ExitsLocked, NoPanic, LockedOnReturn
  <2>1. HartOK(c) /\ OwnersOf(c) /\ Back(c)
    BY Start DEF InScheduler, Back
  <2> QED
    BY <2>1 DEF HartOK, Scheduling, OwnersOf, Back
<1> QED
  BY <1>1, Invariance, PTL

\* A thread in the RUNNING state that has not killed itself is on some hart.
LEMMA NotRunning ==
  ASSUME Inv, NEW t \in Tasks, state[t] = "RUNNING", tpc[t] # "gone" \/ "kill_self" \notin Calls
  PROVE  \E c \in CPUs : run[c] = t /\ cur[c] = t
<1>1. \E c \in CPUs : run[c] = t
  BY Start DEF Threads, Parked
<1> QED
  BY <1>1, OneRuns

\* Without kill of oneself, the scheduler also finds that the task has left
\* the RUNNING state (proc.c:200-201); kill_self breaks exactly that.
THEOREM SwitchesClean == ASSUME SafeExits, "kill_self" \notin Calls PROVE Spec => []ReturnsClean
<1>1. Inv => StateChanged
  <2> SUFFICES ASSUME Inv, NEW c \in CPUs, InScheduler(c, "back"), state[scan[c]] = "RUNNING" PROVE FALSE
    BY DEF StateChanged
  <2>1. HartOK(c) /\ run[c] = SCHED /\ spc[c] = "back"
    BY Start DEF InScheduler
  <2>2. cur[c] = scan[c] /\ scan[c] \in Tasks
    BY <2>1 DEF HartOK, Scheduling
  <2>3. PICK d \in CPUs : run[d] = scan[c] /\ cur[d] = scan[c]
    BY <2>2, NotRunning
  <2>4. d # c
    BY <2>1, <2>2, <2>3, Sets
  <2> QED
    BY <2>2, <2>3, <2>4, OneRuns
<1>2. ExitsLocked => LockedOnReturn
  BY DEF ExitsLocked
<1>3. Spec => []Inv /\ []ExitsLocked
  BY Invariance, SwitchesLocked
<1> QED
  BY <1>1, <1>2, <1>3, PTL DEF ReturnsClean

\* Every stack is used by one hart at a time, c->current is exact, and a RUNNING
\* thread that has not killed itself is on some hart, for any number of harts
\* and threads (proc.c:181-205).
THEOREM StacksExclusive == ASSUME SafeExits PROVE Spec => []OneHart
<1>1. Inv => OneHart
  <2> SUFFICES ASSUME Inv PROVE OneHart
    OBVIOUS
  <2>1. \A c \in CPUs : run[c] # SCHED => cur[c] = run[c]
    BY OneRuns, Start
  <2>2. \A c, d \in CPUs : c # d /\ run[c] # SCHED => run[c] # run[d]
    BY OneRuns, Start
  <2>3. \A t \in Tasks : state[t] = "RUNNING" /\ tpc[t] # "gone" => \E c \in CPUs : cur[c] = t
    BY NotRunning
  <2> QED
    BY <2>1, <2>2, <2>3 DEF OneHart
<1> QED
  BY <1>1, Invariance, PTL

\* sleep() and wakeup() lose no wakeup between any number of threads, harts
\* and interrupt handlers (proc.c:409-414).
THEOREM NoWakeupLost == ASSUME SafeExits PROVE Spec => []NoLostWakeup
<1>1. Inv => NoLostWakeup
  <2> SUFFICES ASSUME Inv, owner[Lk] = Free, cond, NEW t \in Tasks, state[t] = "SLEEPING", asleep[t]
               PROVE  FALSE
    BY DEF NoLostWakeup
  <2>1. PICK c \in CPUs : Waking(c)
    BY Start DEF Wakeups
  <2>2. owner[Lk] = c
    BY <2>1, Start DEF Waking, OwnersOf, HasLk, LkPCs
  <2> QED
    BY <2>2, Sets
<1> QED
  BY <1>1, Invariance, PTL

\* A thread has after yield(), sleep() and lm_P the interrupt state it had
\* before, on whichever hart it comes back (proc.c:254-257).
THEOREM InterruptsPreserved == ASSUME SafeExits PROVE Spec => []IntrPreserved
<1>1. Inv => IntrPreserved
  <2> SUFFICES ASSUME Inv, NEW c \in CPUs, run[c] # SCHED, hpc[c] = "none"
               PROVE  /\ tpc[run[c]] = "y_ret" => ~cpu[c].sie
                      /\ tpc[run[c]] \in {"kern", "s_relk"} => cpu[c].sie /\ cpu[c].noff = 0
    BY DEF IntrPreserved
  <2>1. PICK t \in Tasks : t = run[c] /\ OnHart(c, t)
    BY OneRuns, Start
  <2>2. tpc[t] = "y_ret" => ~Sie(c)
    BY <2>1 DEF OnHart, Open, ExitPCs
  <2>3. tpc[t] \in {"kern", "s_relk"} => Sie(c) /\ Noff(c) = 0
    BY <2>1 DEF OnHart, Depth, One, HasLk, HasSem, HasWait, HasSelf, LkPCs, SemPCs, SelfPCs, VPCs
  <2> QED
    BY <2>1, <2>2, <2>3 DEF Sie, Noff
<1> QED
  BY <1>1, Invariance, PTL

\* The semaphore's count, its list and the threads that sleep in lm_P agree,
\* however many call lm_P, lm_V and exit at once (lock.c:156-211).
THEOREM SemaphoreAgrees == ASSUME SafeExits PROVE Spec => []SemConsistent
<1>1. Inv => SemConsistent
  <2> SUFFICES ASSUME Inv PROVE SemConsistent
    OBVIOUS
  <2>1. SemCount
    <3> SUFFICES ASSUME owner[SemLk] = Free
                 PROVE  /\ Len(queue) = IF value < 0 THEN -value ELSE 0
                        /\ \A i, j \in DOMAIN queue : queue[i] = queue[j] => i = j
      BY DEF SemCount
    <3>1. ~Serving
      <4> SUFFICES ASSUME NEW t \in Tasks, tpc[t] = "v_wake" PROVE FALSE
        BY DEF Serving
      <4>1. PICK c \in CPUs : run[c] = t
        BY Start DEF Threads, Parked
      <4> QED
        BY <4>1, OneInSem, Sets DEF SemPCs, VPCs
    <3>2. One(Serving) = 0 /\ value \in Int
      BY <3>1, Start DEF One
    <3> QED
      BY <3>2, Start DEF Semaphore
  <2>2. PSleeperQueued
    BY Start DEF PSleeperQueued, Semaphore, InQueue, Waiter
  <2>3. PReturnsOnlyByV
    <3> SUFFICES ASSUME NEW i \in DOMAIN queue
                 PROVE  \/ tpc[queue[i]] \in {"p_lock", "p_sleep"} /\ owner[SemLk] # Free
                        \/ tpc[queue[i]] \in {"p_sched", "p_back"} /\ state[queue[i]] = "SLEEPING"
      BY DEF PReturnsOnlyByV
    <3>1. PICK t \in Tasks : t = queue[i]
      BY Start, LenProperties
    <3>2. Waiter(t)
      BY <3>1, Start DEF Semaphore, InQueue
    <3>3. tpc[t] \in {"p_lock", "p_sleep", "p_sched"} => \E c \in CPUs : run[c] = t
      BY Start DEF Threads, Parked
    <3>4. tpc[t] \in {"p_lock", "p_sleep"} => owner[SemLk] # Free
      BY <3>3, OneInSem, Sets DEF SemPCs
    <3>5. tpc[t] = "p_sched" => state[t] = "SLEEPING"
      BY <3>3, OneRuns DEF Active
    <3> QED
      BY <3>1, <3>2, <3>4, <3>5 DEF Waiter
  <2> QED
    BY <2>1, <2>2, <2>3, Start DEF SemConsistent
<1> QED
  BY <1>1, Invariance, PTL

\* The list and the count that the abstract semaphore sees.
Tokens == IF value > 0 THEN value ELSE 0
Waiting == IF Serving THEN Tail(queue) ELSE queue

\* No other step touches the semaphore or moves into or out of lm_V's wakeup.
SemIdle == UNCHANGED <<value, queue>> /\ \A u \in Tasks : tpc'[u] = "v_wake" <=> tpc[u] = "v_wake"

LEMMA IdleSteps ==
  ASSUME Inv, NEW c \in CPUs, Hart(c) \/ Timer(c) \/ Interrupt(c)
  PROVE  SemIdle \/ \E t \in Tasks : PTake(c, t) \/ PQueue(c, t) \/ VInc(c, t) \/ VWake(c, t)
<1> USE Start
<1>1. tpc \in [Tasks -> TPCs] /\ \A t \in Tasks : ret[t] # "v_wake"
  BY DEF TypeOK, Threads, Locals, ExitPCs
<1>2. CASE SchedTop(c) \/ SchedSkip(c) \/ SchedWrap(c) \/ SchedPick(c) \/ SchedBack(c)
  BY <1>2 DEF SchedTop, SchedSkip, SchedWrap, SchedPick, SchedBack, SemIdle, tvars, dvars
<1>3. CASE HandlerLock(c) \/ HandlerWake(c) \/ HandlerDone(c) \/ Interrupt(c) \/ HandlerReturn(c)
  BY <1>3 DEF HandlerLock, HandlerWake, HandlerDone, Interrupt, HandlerReturn, SemIdle, tvars, dvars
<1>4. ASSUME NEW t \in Tasks, Takes(c, t) PROVE SemIdle
  BY <1>1, <1>4 DEF Takes, WaitCall, SleepLock, SleepRelock, PCall, PLock, VCall, Yield, ExitLock, ExitWaitLock,
     ExitV, KillSelf, Calling, At, Goto, SemIdle, dvars
<1>5. ASSUME NEW t \in Tasks, Drops(c, t) PROVE SemIdle
  BY <1>1, <1>5 DEF Drops, WaitDone, SleepUnlock, SignalDone, PSleep, VDone, ExitUnlock, At, Goto, SemIdle, dvars
<1>6. ASSUME NEW t \in Tasks, BackFrom(c, t) PROVE SemIdle
  BY <1>1, <1>6 DEF BackFrom, Entry, YieldBack, SleepBack, PBack, At, Goto, SemIdle, dvars
<1>7. ASSUME NEW t \in Tasks, PassOver(c, t) PROVE SemIdle
  <2>1. run[c] = t /\ hpc[c] = "none"
    BY <1>7 DEF PassOver, Timer, TimerReturn, WaitTest, ExitFromTrap, ExitFromCall, ExitLoad, Calling, At
  <2>2. OnHart(c, t)
    BY <2>1, OneRuns
  <2>3. Timer(c) => tpc[t] # "v_wake"
    BY <2>1, <2>2 DEF Timer, OnHart, Open, Sie, ExitPCs
  <2> QED
    BY ZenonT(40), <1>1, <1>7, <2>3 DEF PassOver, Timer, TimerReturn, WaitTest, ExitFromTrap, ExitFromCall, ExitLoad, Calling,
       At, Goto, SemIdle, dvars
<1>8. ASSUME NEW t \in Tasks, Signal(c, t) \/ SignalWake(c, t) PROVE SemIdle
  BY <1>1, <1>8 DEF Signal, SignalWake, Calling, At, Goto, SemIdle, dvars
<1>9. ASSUME NEW t \in Tasks, sched(c, t) \/ ExitSwtch(c, t) PROVE SemIdle
  <2>1. CASE sched(c, t)
    <3>1. tpc[t] \in {"y_sched", "s_sched", "p_sched"}
      BY <2>1 DEF sched, AfterSched
    <3>2. tpc' = tpc \/ tpc' = [tpc EXCEPT ![t] = AfterSched[tpc[t]]]
      BY <2>1 DEF sched, Goto, tvars
    <3>3. AfterSched[tpc[t]] # "v_wake"
      BY <3>1 DEF AfterSched
    <3> QED
      BY <1>1, <2>1, <3>1, <3>2, <3>3 DEF sched, SemIdle, dvars
  <2>2. CASE ExitSwtch(c, t)
    BY <1>1, <2>2 DEF ExitSwtch, At, Goto, SemIdle, dvars
  <2> QED
    BY <1>9, <2>1, <2>2
<1>10. CASE Timer(c)
  BY <1>7, <1>10, TimerTask
<1> QED
  BY <1>2, <1>3, <1>4, <1>5, <1>6, <1>7, <1>8, <1>9, <1>10, Steps

LEMMA SemaphoreStep ==
  ASSUME Inv, [Next]_vars
  PROVE  [FifoSemaphore!Next]_<<Tokens, Waiting>>
<1> USE DEF FifoSemaphore!Next
<1>1. CASE UNCHANGED vars
  BY <1>1 DEF vars, tvars, dvars, Tokens, Waiting, Serving
<1>2. ASSUME SemIdle PROVE UNCHANGED <<Tokens, Waiting>>
  <2>1. Serving' <=> Serving
    BY <1>2 DEF SemIdle, Serving
  <2> QED
    BY <1>2, <2>1 DEF SemIdle, Tokens, Waiting
<1>3. ASSUME NEW c \in CPUs, NEW t \in Tasks, PTake(c, t) \/ PQueue(c, t) PROVE FifoSemaphore!P(t)
  <2>1. /\ run[c] = t /\ tpc[t] = "p_dec" /\ tpc' \in [Tasks -> TPCs] /\ tpc'[t] # "v_wake"
        /\ \A u \in Tasks \ {t} : tpc'[u] = tpc[u]
    BY ZenonT(40), <1>3, Start DEF PTake, PQueue, At, Goto, TypeOK, TPCs
  <2>2. ~Serving /\ ~Serving'
    BY <2>1, OneInSem DEF Serving, SemPCs, VPCs
  <2>3. Waiting = queue /\ Waiting' = queue' /\ value \in Int
    BY <2>2, Start DEF Waiting
  <2>4. ~InQueue(t)
    BY <2>1, Start DEF Semaphore, Waiter
  <2>5. ~FifoSemaphore!Queued(t)
    BY <2>3, <2>4 DEF FifoSemaphore!Queued, InQueue, Waiting, Serving
  <2>6. CASE PTake(c, t)
    <3>1. Tokens > 0 /\ Tokens' = Tokens - 1 /\ Waiting' = Waiting
      BY <2>3, <2>6 DEF PTake, Tokens
    <3> QED
      BY <2>5, <3>1 DEF FifoSemaphore!P, Tokens, Waiting, Serving
  <2>7. CASE PQueue(c, t)
    <3>1. Tokens = 0 /\ Waiting' = Append(Waiting, t) /\ Tokens' = Tokens
      BY <2>3, <2>7 DEF PQueue, Tokens
    <3> QED
      BY <2>5, <3>1 DEF FifoSemaphore!P, Tokens, Waiting, Serving
  <2> QED
    BY <1>3, <2>6, <2>7
<1>4. ASSUME NEW c \in CPUs, NEW t \in Tasks, VInc(c, t) PROVE FifoSemaphore!V
  <2>1. /\ run[c] = t /\ tpc[t] = "v_inc" /\ value' = value + 1 /\ queue' = queue /\ value \in Int
        /\ (tpc'[t] = "v_wake" <=> value + 1 <= 0) /\ \A u \in Tasks \ {t} : tpc'[u] = tpc[u]
    BY <1>4, Start DEF VInc, At, Goto, TypeOK
  <2>2. ~Serving /\ (Serving' <=> value + 1 <= 0)
    BY <2>1, OneInSem DEF Serving, SemPCs, VPCs
  <2>3. Len(queue) = IF value < 0 THEN -value ELSE 0
    BY <2>1, <2>2, Start DEF Semaphore, One
  <2>4. CASE value + 1 <= 0
    <3>1. queue # <<>>
      BY <2>1, <2>3, <2>4
    <3>2. Waiting # <<>> /\ Waiting' = Tail(Waiting) /\ Tokens' = Tokens
      BY <2>1, <2>2, <2>4, <3>1 DEF Waiting, Tokens
    <3> QED
      BY <3>2 DEF FifoSemaphore!V, Tokens, Waiting, Serving
  <2>5. CASE ~(value + 1 <= 0)
    <3>1. queue = <<>>
      BY <2>1, <2>3, <2>5, Start
    <3>2. Waiting = <<>> /\ Waiting' = Waiting /\ Tokens' = Tokens + 1
      BY <2>1, <2>2, <2>5, <3>1 DEF Waiting, Tokens
    <3> QED
      BY <3>2 DEF FifoSemaphore!V, Tokens, Waiting, Serving
  <2> QED
    BY <2>4, <2>5
<1>5. ASSUME NEW c \in CPUs, NEW t \in Tasks, VWake(c, t) PROVE UNCHANGED <<Tokens, Waiting>>
  <2>1. /\ run[c] = t /\ tpc[t] = "v_wake" /\ value' = value /\ queue' = Tail(queue) /\ tpc'[t] = "v_done"
        /\ \A u \in Tasks \ {t} : tpc'[u] = tpc[u]
    BY <1>5, Start DEF VWake, At, Goto, TypeOK
  <2>2. Serving /\ ~Serving'
    BY <2>1, OneInSem DEF Serving, SemPCs, VPCs
  <2> QED
    BY <2>1, <2>2 DEF Tokens, Waiting
<1>6. CASE Next
  <2>1. PICK c \in CPUs : Hart(c) \/ Timer(c) \/ Interrupt(c)
    BY <1>6 DEF Next
  <2>2. SemIdle \/ \E t \in Tasks : PTake(c, t) \/ PQueue(c, t) \/ VInc(c, t) \/ VWake(c, t)
    BY <2>1, IdleSteps
  <2> QED
    BY <1>2, <1>3, <1>4, <1>5, <2>2
<1> QED
  BY <1>1, <1>6

LEMMA SemaphoreInit == Init => FifoSemaphore!Init
BY DEF Init, FifoSemaphore!Init

\* lm_P and lm_V, with their lock, their list and the threads that sleep and
\* are woken, implement a FIFO semaphore for any number of threads and harts.
THEOREM SemaphoreIsFifo == ASSUME SafeExits PROVE Spec => ImplementsSemaphore
<1>1. Init => FifoSemaphore!Init
  BY SemaphoreInit
<1>2. Inv /\ [Next]_vars => [FifoSemaphore!Next]_<<Tokens, Waiting>>
  BY SemaphoreStep
<1> QED
  BY <1>1, <1>2, Invariance, PTL DEF Spec, ImplementsSemaphore, FifoSemaphore!Spec, Tokens, Waiting, Serving
=============================================================================
