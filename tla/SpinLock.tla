------------------------------ MODULE SpinLock ------------------------------
(***************************************************************************)
(* The spinlocks of kernel/lock.c: lm_lock, lm_unlock, check_lock and the  *)
(* nesting interrupt switch push_off / pop_off, one step per access to     *)
(* memory that another hart can see.                                       *)
(*                                                                         *)
(* A context is a kernel thread or an interrupt handler.  A thread runs on *)
(* one hart at a time, may be preempted whenever interrupts are on there   *)
(* and may resume on another hart; a handler is entered on top of whatever *)
(* the hart runs, with interrupts off.  Callers take spinlocks in          *)
(* increasing order (the kernel's lock order) and release them in any      *)
(* order, as lm_P does.                                                    *)
(***************************************************************************)
EXTENDS Integers, FiniteSets

CONSTANTS CPUs,           \* hart ids; 0 is the boot hart
          Threads,        \* kernel threads
          Handlers,       \* interrupt handler activations
          Locks,          \* spinlocks, numbered by the lock order
          ZeroInit        \* locks no code passes to lm_lockinit (all zero at boot)

ASSUME SpinLockAssumption ==
    /\ CPUs \subseteq Nat
    /\ Locks \subseteq Nat /\ IsFiniteSet(Locks) /\ Locks # {}
    /\ ZeroInit \subseteq Locks
    /\ Threads \cap Handlers = {}

VARIABLES
    locked,     \* lk->locked
    lkcpu,      \* lk->cpu: the hart recorded as the holder, -1 for none
    sie,        \* sstatus.SIE of each hart
    noff,       \* cpu_t.noff: depth of push_off nesting
    intena,     \* cpu_t.intena: were interrupts on before the first push_off?
    on,         \* the hart each context is on, NoCpu when it is on none
    pc,         \* where each context is inside lock.c
    arg,        \* the lock that its current call is about
    reg,        \* the value of lk->cpu that holding() loaded
    hold        \* the locks each context has won and not yet released

vars == <<locked, lkcpu, sie, noff, intena, on, pc, arg, reg, hold>>

NoCpu == -1
Contexts == Threads \cup Handlers
CpuIds == CPUs \cup {NoCpu}

PCs == {"idle",                                   \* the caller's own code
        "hold1", "hold2", "swap", "setcpu",       \* lm_lock
        "chk1", "chk2", "chk3", "nested",         \* check_lock
        "release", "popoff",                      \* lm_unlock
        "panic"}

TypeOK ==
    /\ locked \in [Locks -> BOOLEAN]
    /\ lkcpu \in [Locks -> CPUs \cup {NoCpu, 0}]
    /\ sie \in [CPUs -> BOOLEAN]
    /\ noff \in [CPUs -> Nat]
    /\ intena \in [CPUs -> BOOLEAN]
    /\ on \in [Contexts -> CpuIds]
    /\ pc \in [Contexts -> PCs]
    /\ arg \in [Contexts -> Locks]
    /\ reg \in [Contexts -> CPUs \cup {NoCpu, 0}]
    /\ hold \in [Contexts -> SUBSET Locks]

\* task_init and main clear noff and intena, scheduler() turns interrupts on;
\* lm_lockinit sets lk->cpu to -1, a lock it never sees keeps the 0 of .bss.
Init ==
    /\ locked = [l \in Locks |-> FALSE]
    /\ lkcpu = [l \in Locks |-> IF l \in ZeroInit THEN 0 ELSE NoCpu]
    /\ sie = [c \in CPUs |-> TRUE]
    /\ noff = [c \in CPUs |-> 0]
    /\ intena = [c \in CPUs |-> FALSE]
    /\ on = [x \in Contexts |-> NoCpu]
    /\ pc = [x \in Contexts |-> "idle"]
    /\ arg = [x \in Contexts |-> CHOOSE l \in Locks : TRUE]
    /\ reg = [x \in Contexts |-> NoCpu]
    /\ hold = [x \in Contexts |-> {}]
-----------------------------------------------------------------------------
(* Harts, threads and handlers *)

\* x is the context whose instructions its hart is executing.
Running(x) ==
    /\ on[x] # NoCpu
    /\ x \in Threads => \A h \in Handlers : on[h] # on[x]

Goto(x, label) == pc' = [pc EXCEPT ![x] = label]

\* scheduler() switches to a thread, which resumes with interrupts on.
Dispatch(x, c) ==
    /\ x \in Threads /\ on[x] = NoCpu
    /\ \A y \in Contexts : on[y] # c
    /\ on' = [on EXCEPT ![x] = c]
    /\ sie' = [sie EXCEPT ![c] = TRUE]
    /\ UNCHANGED <<locked, lkcpu, noff, intena, pc, arg, reg, hold>>

\* A timer interrupt makes the thread yield the hart, wherever it is.
Preempt(x) ==
    /\ x \in Threads /\ Running(x) /\ sie[on[x]]
    /\ on' = [on EXCEPT ![x] = NoCpu]
    /\ UNCHANGED <<locked, lkcpu, sie, noff, intena, pc, arg, reg, hold>>

\* A device interrupt: the hardware clears SIE and enters the handler.
Interrupt(h, c) ==
    /\ h \in Handlers /\ on[h] = NoCpu /\ sie[c]
    /\ on' = [on EXCEPT ![h] = c]
    /\ sie' = [sie EXCEPT ![c] = FALSE]
    /\ UNCHANGED <<locked, lkcpu, noff, intena, pc, arg, reg, hold>>

\* sret from the handler restores SIE.
IntrReturn(h) ==
    /\ h \in Handlers /\ on[h] # NoCpu
    /\ pc[h] = "idle" /\ hold[h] = {}
    /\ on' = [on EXCEPT ![h] = NoCpu]
    /\ sie' = [sie EXCEPT ![on[h]] = TRUE]
    /\ UNCHANGED <<locked, lkcpu, noff, intena, pc, arg, reg, hold>>
-----------------------------------------------------------------------------
(* push_off and pop_off *)

\* Mutant: push_off that records the state of every call, not only the first.
PushOffOverwrites(c) ==
    /\ intena' = [intena EXCEPT ![c] = sie[c]]
    /\ noff' = [noff EXCEPT ![c] = @ + 1]
    /\ sie' = [sie EXCEPT ![c] = FALSE]

push_off(c) ==
    /\ intena' = [intena EXCEPT ![c] = IF noff[c] = 0 THEN sie[c] ELSE @]
    /\ noff' = [noff EXCEPT ![c] = @ + 1]
    /\ sie' = [sie EXCEPT ![c] = FALSE]

\* The two panics of pop_off.
PopOffPanics(c) == sie[c] \/ noff[c] < 1

\* Mutant: pop_off that counts twice.
PopOffTwice(c) ==
    /\ noff' = [noff EXCEPT ![c] = @ - 2]
    /\ sie' = [sie EXCEPT ![c] = @ \/ (noff[c] = 1 /\ intena[c])]
    /\ UNCHANGED intena

\* Mutant: pop_off that turns interrupts on at any depth.
PopOffAtAnyDepth(c) ==
    /\ noff' = [noff EXCEPT ![c] = @ - 1]
    /\ sie' = [sie EXCEPT ![c] = @ \/ intena[c]]
    /\ UNCHANGED intena

pop_off(c) ==
    /\ noff' = [noff EXCEPT ![c] = @ - 1]
    /\ sie' = [sie EXCEPT ![c] = @ \/ (noff[c] = 1 /\ intena[c])]
    /\ UNCHANGED intena
-----------------------------------------------------------------------------
(* lm_lock *)

\* The lock order: a caller asks for a lock above all those it holds.
MayAsk(x, l) == \A m \in hold[x] : m < l

CallLock(x, l) ==
    /\ Running(x) /\ pc[x] = "idle" /\ MayAsk(x, l)
    /\ push_off(on[x])
    /\ arg' = [arg EXCEPT ![x] = l]
    /\ Goto(x, "hold1")
    /\ UNCHANGED <<locked, lkcpu, on, reg, hold>>

\* holding() loads lk->locked; when it is set it goes on to load lk->cpu.
Holding1(x) ==
    /\ Running(x) /\ pc[x] = "hold1"
    /\ Goto(x, IF locked[arg[x]] THEN "hold2" ELSE "swap")
    /\ UNCHANGED <<locked, lkcpu, sie, noff, intena, on, arg, reg, hold>>

Holding2(x) ==
    /\ Running(x) /\ pc[x] = "hold2"
    /\ Goto(x, IF lkcpu[arg[x]] = on[x] THEN "panic" ELSE "swap")
    /\ UNCHANGED <<locked, lkcpu, sie, noff, intena, on, arg, reg, hold>>

\* Mutant: a test followed by a set instead of one atomic swap.
SwapWithoutTest(x) ==
    /\ Running(x) /\ pc[x] = "swap"
    /\ locked' = [locked EXCEPT ![arg[x]] = TRUE]
    /\ hold' = [hold EXCEPT ![x] = @ \cup {arg[x]}]
    /\ Goto(x, "setcpu")
    /\ UNCHANGED <<lkcpu, sie, noff, intena, on, arg, reg>>

\* The amoswap that finds the lock free; one that finds it taken spins.
Swap(x) ==
    /\ Running(x) /\ pc[x] = "swap" /\ ~locked[arg[x]]
    /\ locked' = [locked EXCEPT ![arg[x]] = TRUE]
    /\ hold' = [hold EXCEPT ![x] = @ \cup {arg[x]}]
    /\ Goto(x, "setcpu")
    /\ UNCHANGED <<lkcpu, sie, noff, intena, on, arg, reg>>

SetCpu(x) ==
    /\ Running(x) /\ pc[x] = "setcpu"
    /\ lkcpu' = [lkcpu EXCEPT ![arg[x]] = on[x]]
    /\ Goto(x, "idle")
    /\ UNCHANGED <<locked, sie, noff, intena, on, arg, reg, hold>>
-----------------------------------------------------------------------------
(* lm_unlock *)

\* Mutant: lm_unlock that frees the lock word before it resets lk->cpu.
UnlockKeepsCpu(x, l) ==
    /\ Running(x) /\ pc[x] = "idle" /\ l \in hold[x]
    /\ arg' = [arg EXCEPT ![x] = l]
    /\ Goto(x, "release")
    /\ UNCHANGED <<lkcpu, locked, sie, noff, intena, on, reg, hold>>

\* The check of holding() and lk->cpu = -1.
CallUnlock(x, l) ==
    /\ Running(x) /\ pc[x] = "idle" /\ l \in hold[x]
    /\ arg' = [arg EXCEPT ![x] = l]
    /\ IF locked[l] /\ lkcpu[l] = on[x]
       THEN lkcpu' = [lkcpu EXCEPT ![l] = NoCpu] /\ Goto(x, "release")
       ELSE Goto(x, "panic") /\ UNCHANGED lkcpu
    /\ UNCHANGED <<locked, sie, noff, intena, on, reg, hold>>

Release(x) ==
    /\ Running(x) /\ pc[x] = "release"
    /\ locked' = [locked EXCEPT ![arg[x]] = FALSE]
    /\ hold' = [hold EXCEPT ![x] = @ \ {arg[x]}]
    /\ Goto(x, "popoff")
    /\ UNCHANGED <<lkcpu, sie, noff, intena, on, arg, reg>>

PopOff(x) ==
    /\ Running(x) /\ pc[x] = "popoff"
    /\ IF PopOffPanics(on[x])
       THEN Goto(x, "panic") /\ UNCHANGED <<sie, noff, intena>>
       ELSE Goto(x, "idle") /\ pop_off(on[x])
    /\ UNCHANGED <<locked, lkcpu, on, arg, reg, hold>>
-----------------------------------------------------------------------------
(* check_lock: holding() without push_off, then lm_lock.  Its callers come    *)
(* with interrupts off (page faults, callers that hold a lock) and on (exec,  *)
(* munmap); in the second case they may be preempted at any of these steps.   *)

CallCheckLock(x, l) ==
    /\ Running(x) /\ pc[x] = "idle"
    /\ l \in hold[x] \/ MayAsk(x, l)
    /\ arg' = [arg EXCEPT ![x] = l]
    /\ Goto(x, "chk1")
    /\ UNCHANGED <<locked, lkcpu, sie, noff, intena, on, reg, hold>>

\* Not held: fall through to lm_lock.
CheckToLock(x) == push_off(on[x]) /\ Goto(x, "hold1")

Check1(x) ==
    /\ Running(x) /\ pc[x] = "chk1"
    /\ \/ locked[arg[x]] /\ Goto(x, "chk2") /\ UNCHANGED <<sie, noff, intena>>
       \/ ~locked[arg[x]] /\ CheckToLock(x)
    /\ UNCHANGED <<locked, lkcpu, on, arg, reg, hold>>

Check2(x) ==
    /\ Running(x) /\ pc[x] = "chk2"
    /\ reg' = [reg EXCEPT ![x] = lkcpu[arg[x]]]
    /\ Goto(x, "chk3")
    /\ UNCHANGED <<locked, lkcpu, sie, noff, intena, on, arg, hold>>

\* Mutant: holding() that ignores which hart has the lock.
Check3AnyCpu(x) ==
    /\ Running(x) /\ pc[x] = "chk3"
    /\ Goto(x, "nested")
    /\ UNCHANGED <<sie, noff, intena, locked, lkcpu, on, arg, reg, hold>>

\* cpuid() is read last, on the hart the thread is on by then.  A caller that
\* is told it already holds the lock works on the data and does not unlock.
Check3(x) ==
    /\ Running(x) /\ pc[x] = "chk3"
    /\ \/ reg[x] = on[x] /\ Goto(x, "nested") /\ UNCHANGED <<sie, noff, intena>>
       \/ reg[x] # on[x] /\ CheckToLock(x)
    /\ UNCHANGED <<locked, lkcpu, on, arg, reg, hold>>

NestedDone(x) ==
    /\ Running(x) /\ pc[x] = "nested"
    /\ Goto(x, "idle")
    /\ UNCHANGED <<locked, lkcpu, sie, noff, intena, on, arg, reg, hold>>
-----------------------------------------------------------------------------
Step(x) ==
    \/ \E l \in Locks : CallLock(x, l) \/ CallUnlock(x, l) \/ CallCheckLock(x, l)
    \/ Holding1(x) \/ Holding2(x) \/ Swap(x) \/ SetCpu(x)
    \/ Release(x) \/ PopOff(x)
    \/ Check1(x) \/ Check2(x) \/ Check3(x) \/ NestedDone(x)

Next ==
    \/ \E x \in Contexts : Step(x) \/ Preempt(x) \/ IntrReturn(x)
    \/ \E x \in Contexts, c \in CPUs : Dispatch(x, c) \/ Interrupt(x, c)

Spec == Init /\ [][Next]_vars
-----------------------------------------------------------------------------
(* Properties *)

\* The lock word decides: a lock has at most one holder, and a lock whose word
\* is clear has none, whatever lk->cpu says meanwhile (lm_lock's amoswap).
MutualExclusion ==
    /\ \A x, y \in Contexts : x # y => hold[x] \cap hold[y] = {}
    /\ \A x \in Contexts : \A l \in hold[x] : locked[l]

\* While a context is inside a critical section, interrupts are off on its
\* hart, so it is neither preempted nor interrupted by a handler that wants
\* the same lock (push_off in lm_lock; released only by the last pop_off).
IntrOffWhileHeld ==
    \A x \in Contexts : hold[x] # {} =>
        /\ on[x] # NoCpu
        /\ ~sie[on[x]]
        /\ \A y \in Contexts \ {x} : on[y] = on[x] => y \in Threads /\ hold[y] = {}

\* "It takes two pop_off()s to undo two push_off()s ... if interrupts are
\* initially off, then push_off, pop_off leaves them off" (lock.c:14-16): a
\* context back in its own code with no lock finds interrupts as it left them,
\* on in a thread and off in a handler, and no nesting is left behind.
IntrRestored ==
    \A x \in Contexts : Running(x) /\ pc[x] = "idle" =>
        /\ noff[on[x]] = Cardinality(hold[x])
        /\ hold[x] = {} => (sie[on[x]] <=> x \in Threads)

\* holding() called with interrupts off is exact although it reads two words
\* without a lock: it never takes another hart's half-finished lm_lock or
\* lm_unlock for its own.  So neither lm_lock's "holding lock" nor
\* lm_unlock's "unlock" nor pop_off's two panics is reached.
NoPanic == \A x \in Contexts : pc[x] # "panic"

\* Called with interrupts off, by a handler or under another lock, check_lock
\* returns 0 only to a caller that holds the lock, whatever the other harts are
\* in the middle of (lock.c:51-56, holding() without push_off).
CheckLockSound ==
    \A x \in Contexts : Running(x) /\ ~sie[on[x]] /\ pc[x] = "nested" => arg[x] \in hold[x]

\* "if the lock is not held, acquire it and return 1" (lock.c:50), for every
\* caller: whoever goes on without having acquired the lock holds it.
CheckLockExact == \A x \in Contexts : pc[x] = "nested" => arg[x] \in hold[x]
=============================================================================
