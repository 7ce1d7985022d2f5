--------------------------- MODULE SpinLockProof ---------------------------
(***************************************************************************)
(* Proofs about SpinLock, for any number of harts, threads, handlers and   *)
(* locks.  Local ties the interrupt state of a hart to the context that    *)
(* runs on it; InvHart spreads it over all harts; InvLock ties lk->locked  *)
(* and lk->cpu to the holder.  A step of a context changes its own hart    *)
(* only (Frame), so InvHart is preserved once Local is re-established for  *)
(* the context that moved.                                                 *)
(***************************************************************************)
EXTENDS SpinLock, FiniteSetTheorems, TLAPS

\* Between push_off and the step that puts lk into hold, or after lk left it.
Entered == {"hold1", "hold2", "swap", "popoff", "panic"}

\* x has a push_off outstanding.
Inside(x) == hold[x] # {} \/ pc[x] \in Entered

\* How many push_offs x has outstanding.
Depth(x) == Cardinality(hold[x]) + (IF pc[x] \in Entered THEN 1 ELSE 0)

\* The interrupt state of the hart that x runs on.
Local(x) ==
    /\ noff[on[x]] = Depth(x)
    /\ Inside(x) => ~sie[on[x]] /\ (intena[on[x]] <=> x \in Threads)
    /\ ~Inside(x) => (sie[on[x]] <=> x \in Threads)

Vacant(c) == \A x \in Contexts : on[x] # c

InvHart ==
    /\ \A x, y \in Threads : x # y /\ on[x] # NoCpu => on[x] # on[y]
    /\ \A x, y \in Handlers : x # y /\ on[x] # NoCpu => on[x] # on[y]
    /\ \A x \in Contexts : Inside(x) => Running(x)
    /\ \A x \in Contexts : Running(x) => Local(x)
    /\ \A c \in CPUs : Vacant(c) => sie[c] /\ noff[c] = 0

InvLock ==
    /\ MutualExclusion
    /\ \A x \in Contexts :
        /\ pc[x] \in {"setcpu", "release"} => arg[x] \in hold[x]
        /\ pc[x] \in {"hold1", "hold2", "swap"} => arg[x] \notin hold[x]
        /\ pc[x] = "release" => lkcpu[arg[x]] = NoCpu
        /\ pc[x] = "chk3" /\ arg[x] \in hold[x] => reg[x] = on[x]
        /\ \A l \in hold[x] :
            ~(l = arg[x] /\ pc[x] \in {"setcpu", "release"}) => lkcpu[l] = on[x]

Inv == TypeOK /\ InvHart /\ InvLock

\* lk->cpu names a hart only while the holder is on it.
CpuTruthful ==
    \A l \in Locks : lkcpu[l] # NoCpu =>
        \E x \in Contexts : l \in hold[x] /\ on[x] = lkcpu[l]

\* A context that stays on its hart while it calls check_lock.
Steady(x) == x \in Handlers \/ hold[x] # {}
InCheck(x) == pc[x] \in {"chk1", "chk2", "chk3", "nested"}

CheckInv ==
    \A x \in Contexts :
        /\ x \in Handlers /\ InCheck(x) => on[x] # NoCpu
        /\ Steady(x) /\ pc[x] = "chk3" /\ reg[x] = on[x] => arg[x] \in hold[x]
        /\ Steady(x) /\ pc[x] = "nested" => arg[x] \in hold[x]
-----------------------------------------------------------------------------
(* Harts and contexts *)

LEMMA NoCpuNotCpu == NoCpu \notin CPUs
BY SpinLockAssumption DEF NoCpu

LEMMA OnCpu ==
  ASSUME TypeOK, NEW x \in Contexts, on[x] # NoCpu
  PROVE  on[x] \in CPUs
BY DEF TypeOK, CpuIds

\* At most one context runs on a hart.
LEMMA RunningUnique ==
  ASSUME InvHart, NEW x \in Contexts, NEW y \in Contexts,
         Running(x), Running(y), on[x] = on[y]
  PROVE  x = y
BY DEF InvHart, Running, Contexts

\* A handler that is on a hart runs there; a thread does unless a handler is.
LEMMA SomeRunning ==
  ASSUME NEW c \in CPUs, NEW y \in Contexts, on[y] = c
  PROVE  \E x \in Contexts : Running(x) /\ on[x] = c
<1> USE NoCpuNotCpu, SpinLockAssumption DEF Contexts, Running
<1>1. CASE \E h \in Handlers : on[h] = c
  <2>1. PICK h \in Handlers : on[h] = c
    BY <1>1
  <2>2. Running(h)
    BY <2>1
  <2> QED
    BY <2>1, <2>2
<1>2. CASE \A h \in Handlers : on[h] # c
  BY <1>2
<1> QED
  BY <1>1, <1>2

LEMMA DepthFacts ==
  ASSUME TypeOK, NEW x \in Contexts
  PROVE  /\ IsFiniteSet(hold[x]) /\ Cardinality(hold[x]) \in Nat
         /\ Depth(x) \in Nat
         /\ Depth(x) = 0 <=> ~Inside(x)
<1>1. IsFiniteSet(hold[x])
  BY SpinLockAssumption, FS_Subset DEF TypeOK
<1>2. Cardinality(hold[x]) \in Nat /\ (Cardinality(hold[x]) = 0 <=> hold[x] = {})
  BY <1>1, FS_CardinalityType, FS_EmptySet
<1> QED
  BY <1>1, <1>2 DEF Depth, Inside

\* A hart whose interrupts are on has no push_off outstanding.
LEMMA IntrOnNoff ==
  ASSUME TypeOK, InvHart, NEW c \in CPUs, sie[c]
  PROVE  noff[c] = 0
<1>1. CASE Vacant(c)
  BY <1>1 DEF InvHart
<1>2. CASE ~Vacant(c)
  <2>1. PICK x \in Contexts : Running(x) /\ on[x] = c
    BY <1>2, SomeRunning DEF Vacant
  <2>2. Local(x)
    BY <2>1 DEF InvHart
  <2> QED
    BY <2>1, <2>2, DepthFacts DEF Local
<1> QED
  BY <1>1, <1>2
-----------------------------------------------------------------------------
(* push_off and pop_off, hart by hart *)

PushEffect(c) ==
    /\ sie' \in [CPUs -> BOOLEAN] /\ noff' \in [CPUs -> Nat]
    /\ intena' \in [CPUs -> BOOLEAN]
    /\ ~sie'[c]
    /\ noff'[c] = noff[c] + 1
    /\ noff[c] = 0 => (intena'[c] <=> sie[c])
    /\ noff[c] # 0 => (intena'[c] <=> intena[c])
    /\ \A d \in CPUs \ {c} : /\ sie'[d] = sie[d]
                             /\ noff'[d] = noff[d]
                             /\ intena'[d] = intena[d]

LEMMA PushOff ==
  ASSUME TypeOK, NEW c \in CPUs, push_off(c)
  PROVE  PushEffect(c)
<1>1. (IF noff[c] = 0 THEN sie[c] ELSE intena[c]) \in BOOLEAN
  BY Zenon DEF TypeOK
<1>2. intena' = [intena EXCEPT ![c] = IF noff[c] = 0 THEN sie[c] ELSE intena[c]]
  BY DEF push_off
<1>3. intena' \in [CPUs -> BOOLEAN]
  BY <1>1, <1>2, Zenon DEF TypeOK
<1>4. sie' \in [CPUs -> BOOLEAN] /\ noff' \in [CPUs -> Nat] /\ ~sie'[c] /\ noff'[c] = noff[c] + 1
  BY SMT DEF push_off, TypeOK
<1>5. intena'[c] = IF noff[c] = 0 THEN sie[c] ELSE intena[c]
  BY <1>2, Zenon DEF TypeOK
<1>6. ASSUME NEW d \in CPUs \ {c}
      PROVE  sie'[d] = sie[d] /\ noff'[d] = noff[d] /\ intena'[d] = intena[d]
  BY Zenon DEF push_off, TypeOK
<1>7. QED
  BY <1>3, <1>4, <1>5, <1>6, Zenon DEF PushEffect

PopEffect(c) ==
    /\ sie' \in [CPUs -> BOOLEAN] /\ noff' \in [CPUs -> Nat]
    /\ intena' = intena
    /\ noff'[c] = noff[c] - 1
    /\ sie'[c] <=> noff[c] = 1 /\ intena[c]
    /\ \A d \in CPUs \ {c} : sie'[d] = sie[d] /\ noff'[d] = noff[d]

LEMMA PopOffEffect ==
  ASSUME TypeOK, NEW c \in CPUs, pop_off(c), ~PopOffPanics(c)
  PROVE  PopEffect(c)
<1>1. (sie[c] \/ (noff[c] = 1 /\ intena[c])) \in BOOLEAN
  OBVIOUS
<1>2. sie' = [sie EXCEPT ![c] = sie[c] \/ (noff[c] = 1 /\ intena[c])]
  BY DEF pop_off
<1>3. sie' \in [CPUs -> BOOLEAN]
  BY <1>1, <1>2, Zenon DEF TypeOK
<1>4. sie'[c] <=> noff[c] = 1 /\ intena[c]
  BY <1>2, Zenon DEF TypeOK, PopOffPanics
<1>5. noff' \in [CPUs -> Nat] /\ noff'[c] = noff[c] - 1 /\ intena' = intena
  BY SMT DEF pop_off, TypeOK, PopOffPanics
<1>6. ASSUME NEW d \in CPUs \ {c} PROVE sie'[d] = sie[d] /\ noff'[d] = noff[d]
  BY Zenon DEF pop_off, TypeOK
<1>7. QED
  BY <1>3, <1>4, <1>5, <1>6, Zenon DEF PopEffect
-----------------------------------------------------------------------------
(* Types *)

LEMMA TypeStep ==
  ASSUME TypeOK, [Next]_vars
  PROVE  TypeOK'
<1> USE NoCpuNotCpu
<1>1. CASE UNCHANGED vars
  BY <1>1 DEF vars, TypeOK, PCs, Contexts, CpuIds, Running
<1>2. ASSUME NEW x \in Contexts, NEW l \in Locks, CallLock(x, l) PROVE TypeOK'
  <2>1. PushEffect(on[x])
    BY <1>2, OnCpu, PushOff DEF CallLock, Running
  <2> QED
    BY <1>2, <2>1, OnCpu, SMT DEF PushEffect, CallLock, Goto, TypeOK, PCs, Contexts, CpuIds, Running
<1>3. ASSUME NEW x \in Contexts, NEW l \in Locks, CallUnlock(x, l) PROVE TypeOK'
  BY <1>3, SMT DEF CallUnlock, Goto, TypeOK, PCs, Contexts, CpuIds, Running
<1>4. ASSUME NEW x \in Contexts, NEW l \in Locks, CallCheckLock(x, l) PROVE TypeOK'
  BY <1>4, SMT DEF CallCheckLock, Goto, TypeOK, PCs, Contexts, CpuIds, Running
<1>5. ASSUME NEW x \in Contexts, Holding1(x) PROVE TypeOK'
  BY <1>5, SMT DEF Holding1, Goto, TypeOK, PCs, Contexts, CpuIds, Running
<1>6. ASSUME NEW x \in Contexts, Holding2(x) PROVE TypeOK'
  BY <1>6, SMT DEF Holding2, Goto, TypeOK, PCs, Contexts, CpuIds, Running
<1>7. ASSUME NEW x \in Contexts, Swap(x) PROVE TypeOK'
  BY <1>7, SMT DEF Swap, Goto, TypeOK, PCs, Contexts, CpuIds, Running
<1>8. ASSUME NEW x \in Contexts, SetCpu(x) PROVE TypeOK'
  BY <1>8, SMT DEF SetCpu, Goto, TypeOK, PCs, Contexts, CpuIds, Running
<1>9. ASSUME NEW x \in Contexts, Release(x) PROVE TypeOK'
  BY <1>9, SMT DEF Release, Goto, TypeOK, PCs, Contexts, CpuIds, Running
<1>10. ASSUME NEW x \in Contexts, PopOff(x) PROVE TypeOK'
  <2>1. CASE PopOffPanics(on[x])
    BY <1>10, <2>1, SMT DEF PopOff, Goto, TypeOK, PCs, Contexts, CpuIds, Running
  <2>2. CASE ~PopOffPanics(on[x])
    <3>1. PopEffect(on[x])
      BY <1>10, <2>2, OnCpu, PopOffEffect DEF PopOff, Running
    <3> QED
      BY <1>10, <2>2, <3>1, OnCpu, SMT DEF PopEffect, PopOff, Goto, TypeOK, PCs, Contexts, CpuIds, Running
  <2> QED
    BY <2>1, <2>2
<1>11. ASSUME NEW x \in Contexts, Check1(x) PROVE TypeOK'
  <2>1. CASE CheckToLock(x)
    <3>1. PushEffect(on[x])
      BY <1>11, <2>1, OnCpu, PushOff DEF Check1, CheckToLock, Running
    <3> QED
      BY <1>11, <2>1, <3>1, OnCpu, SMT DEF PushEffect, Check1, CheckToLock, Goto, TypeOK, PCs, Contexts, CpuIds, Running
  <2>2. CASE UNCHANGED <<sie, noff, intena>> /\ ~CheckToLock(x)
    BY <1>11, <2>2, SMT DEF Check1, CheckToLock, Goto, TypeOK, PCs, Contexts, CpuIds, Running
  <2> QED
    BY <1>11, <2>1, <2>2 DEF Check1
<1>12. ASSUME NEW x \in Contexts, Check2(x) PROVE TypeOK'
  <2>1. arg[x] \in Locks
    BY DEF TypeOK
  <2>2. lkcpu[arg[x]] \in CPUs \cup {NoCpu, 0}
    BY <2>1 DEF TypeOK
  <2> QED
    BY <1>12, <2>2 DEF Check2, Goto, TypeOK, PCs, Contexts, CpuIds, Running
<1>13. ASSUME NEW x \in Contexts, Check3(x) PROVE TypeOK'
  <2>1. CASE CheckToLock(x)
    <3>1. PushEffect(on[x])
      BY <1>13, <2>1, OnCpu, PushOff DEF Check3, CheckToLock, Running
    <3> QED
      BY <1>13, <2>1, <3>1, OnCpu, SMT DEF PushEffect, Check3, CheckToLock, Goto, TypeOK, PCs, Contexts, CpuIds, Running
  <2>2. CASE UNCHANGED <<sie, noff, intena>> /\ ~CheckToLock(x)
    BY <1>13, <2>2, SMT DEF Check3, CheckToLock, Goto, TypeOK, PCs, Contexts, CpuIds, Running
  <2> QED
    BY <1>13, <2>1, <2>2 DEF Check3
<1>14. ASSUME NEW x \in Contexts, NestedDone(x) PROVE TypeOK'
  BY <1>14, SMT DEF NestedDone, Goto, TypeOK, PCs, Contexts, CpuIds, Running
<1>15. ASSUME NEW x \in Contexts, Preempt(x) PROVE TypeOK'
  BY <1>15, SMT DEF Preempt, TypeOK, PCs, Contexts, CpuIds, Running
<1>16. ASSUME NEW x \in Contexts, IntrReturn(x) PROVE TypeOK'
  BY <1>16, SMT DEF IntrReturn, TypeOK, PCs, Contexts, CpuIds, Running
<1>17. ASSUME NEW x \in Contexts, NEW c \in CPUs, Dispatch(x, c) PROVE TypeOK'
  BY <1>17, SMT DEF Dispatch, TypeOK, PCs, Contexts, CpuIds, Running
<1>18. ASSUME NEW x \in Contexts, NEW c \in CPUs, Interrupt(x, c) PROVE TypeOK'
  BY <1>18, SMT DEF Interrupt, TypeOK, PCs, Contexts, CpuIds, Running
<1> QED
  BY <1>1, <1>2, <1>3, <1>4, <1>5, <1>6, <1>7, <1>8, <1>9, <1>10, <1>11, <1>12, <1>13, <1>14, <1>15, <1>16, <1>17, <1>18 DEF Next, Step

-----------------------------------------------------------------------------
(* InvHart *)

\* What a step of x leaves alone: every other context and every other hart.
Frame(x) ==
    /\ Running(x) /\ on' = on
    /\ \A y \in Contexts \ {x} : /\ pc'[y] = pc[y] /\ arg'[y] = arg[y]
                               /\ reg'[y] = reg[y] /\ hold'[y] = hold[y]
    /\ \A c \in CPUs \ {on[x]} :
        sie'[c] = sie[c] /\ noff'[c] = noff[c] /\ intena'[c] = intena[c]

LEMMA StepFrame ==
  ASSUME TypeOK, NEW x \in Contexts, Step(x)
  PROVE  Frame(x)
<1> USE NoCpuNotCpu
<1>1. ASSUME NEW l \in Locks, CallLock(x, l) PROVE Frame(x)
  <2>1. PushEffect(on[x])
    BY <1>1, OnCpu, PushOff DEF CallLock, Running
  <2> QED
    BY <1>1, <2>1, OnCpu, SMT DEF PushEffect, CallLock, Goto, Frame, TypeOK, Contexts, CpuIds, Running
<1>2. ASSUME NEW l \in Locks, CallUnlock(x, l) PROVE Frame(x)
  BY <1>2, SMT DEF CallUnlock, Goto, Frame, TypeOK, Contexts, CpuIds, Running
<1>3. ASSUME NEW l \in Locks, CallCheckLock(x, l) PROVE Frame(x)
  BY <1>3, SMT DEF CallCheckLock, Goto, Frame, TypeOK, Contexts, CpuIds, Running
<1>4. ASSUME Holding1(x) PROVE Frame(x)
  BY <1>4, SMT DEF Holding1, Goto, Frame, TypeOK, Contexts, CpuIds, Running
<1>5. ASSUME Holding2(x) PROVE Frame(x)
  BY <1>5, SMT DEF Holding2, Goto, Frame, TypeOK, Contexts, CpuIds, Running
<1>6. ASSUME Swap(x) PROVE Frame(x)
  BY <1>6, SMT DEF Swap, Goto, Frame, TypeOK, Contexts, CpuIds, Running
<1>7. ASSUME SetCpu(x) PROVE Frame(x)
  BY <1>7, SMT DEF SetCpu, Goto, Frame, TypeOK, Contexts, CpuIds, Running
<1>8. ASSUME Release(x) PROVE Frame(x)
  BY <1>8, SMT DEF Release, Goto, Frame, TypeOK, Contexts, CpuIds, Running
<1>9. ASSUME PopOff(x) PROVE Frame(x)
  <2>1. CASE PopOffPanics(on[x])
    BY <1>9, <2>1, SMT DEF PopOff, Goto, Frame, TypeOK, Contexts, CpuIds, Running
  <2>2. CASE ~PopOffPanics(on[x])
    <3>1. PopEffect(on[x])
      BY <1>9, <2>2, OnCpu, PopOffEffect DEF PopOff, Running
    <3> QED
      BY <1>9, <2>2, <3>1, OnCpu, SMT DEF PopEffect, PopOff, Goto, Frame, TypeOK, Contexts, CpuIds, Running
  <2> QED
    BY <2>1, <2>2
<1>10. ASSUME Check1(x) PROVE Frame(x)
  <2>1. CASE CheckToLock(x)
    <3>1. PushEffect(on[x])
      BY <1>10, <2>1, OnCpu, PushOff DEF Check1, CheckToLock, Running
    <3> QED
      BY <1>10, <2>1, <3>1, OnCpu, SMT DEF PushEffect, Check1, CheckToLock, Goto, Frame, TypeOK, Contexts, CpuIds, Running
  <2>2. CASE UNCHANGED <<sie, noff, intena>> /\ ~CheckToLock(x)
    BY <1>10, <2>2, SMT DEF Check1, CheckToLock, Goto, Frame, TypeOK, Contexts, CpuIds, Running
  <2> QED
    BY <1>10, <2>1, <2>2 DEF Check1
<1>11. ASSUME Check2(x) PROVE Frame(x)
  BY <1>11, SMT DEF Check2, Goto, Frame, TypeOK, Contexts, CpuIds, Running
<1>12. ASSUME Check3(x) PROVE Frame(x)
  <2>1. CASE CheckToLock(x)
    <3>1. PushEffect(on[x])
      BY <1>12, <2>1, OnCpu, PushOff DEF Check3, CheckToLock, Running
    <3> QED
      BY <1>12, <2>1, <3>1, OnCpu, SMT DEF PushEffect, Check3, CheckToLock, Goto, Frame, TypeOK, Contexts, CpuIds, Running
  <2>2. CASE UNCHANGED <<sie, noff, intena>> /\ ~CheckToLock(x)
    BY <1>12, <2>2, SMT DEF Check3, CheckToLock, Goto, Frame, TypeOK, Contexts, CpuIds, Running
  <2> QED
    BY <1>12, <2>1, <2>2 DEF Check3
<1>13. ASSUME NestedDone(x) PROVE Frame(x)
  BY <1>13, SMT DEF NestedDone, Goto, Frame, TypeOK, Contexts, CpuIds, Running
<1> QED
  BY <1>1, <1>2, <1>3, <1>4, <1>5, <1>6, <1>7, <1>8, <1>9, <1>10, <1>11, <1>12, <1>13 DEF Step

LEMMA FrameHart ==
  ASSUME TypeOK, TypeOK', InvHart, NEW x \in Contexts, Frame(x), Local(x)'
  PROVE  InvHart'
<1>1. \A y \in Contexts : Running(y)' <=> Running(y)
  BY DEF Frame, Running
<1>2. ASSUME NEW y \in Contexts, y # x
      PROVE  (Inside(y)' <=> Inside(y)) /\ Depth(y)' = Depth(y)
  BY <1>2 DEF Frame, Inside, Depth
<1>3. ASSUME NEW y \in Contexts, Inside(y)' PROVE Running(y)'
  BY <1>1, <1>2, <1>3 DEF Frame, InvHart
<1>4. ASSUME NEW y \in Contexts, Running(y)' PROVE Local(y)'
  <2>1. CASE y = x
    BY <2>1
  <2>2. CASE y # x
    <3>1. Running(y) /\ Running(x) /\ Local(y)
      BY <1>1, <1>4 DEF InvHart, Frame
    <3>2. on[y] # on[x]
      BY <2>2, <3>1, RunningUnique
    <3>3. on[y] \in CPUs
      BY <3>1, OnCpu DEF Running
    <3> QED
      BY <1>2, <2>2, <3>1, <3>2, <3>3 DEF Frame, Local
  <2> QED
    BY <2>1, <2>2
<1>5. ASSUME NEW c \in CPUs, Vacant(c)' PROVE sie'[c] /\ noff'[c] = 0
  BY <1>5 DEF Frame, Vacant, InvHart
<1> QED
  BY <1>3, <1>4, <1>5 DEF InvHart, Frame

\* Each step of x keeps noff, intena and SIE of its hart in line with x.
LEMMA LocalStep ==
  ASSUME TypeOK, TypeOK', InvHart, InvLock, NEW x \in Contexts, Step(x)
  PROVE  Local(x)'
<1> DEFINE c == on[x]
<1>1. Running(x) /\ Local(x) /\ c \in CPUs /\ on'[x] = c
  BY StepFrame, OnCpu DEF Frame, InvHart, Running
<1>2. /\ Depth(x) \in Nat /\ (Depth(x) = 0 <=> ~Inside(x))
      /\ IsFiniteSet(hold[x]) /\ Cardinality(hold[x]) \in Nat
  BY DepthFacts
<1>3. Depth(x)' \in Nat /\ (Depth(x)' = 0 <=> ~Inside(x)')
  <2>1. IsFiniteSet(hold'[x])
    BY SpinLockAssumption, FS_Subset DEF TypeOK
  <2>2. Cardinality(hold'[x]) \in Nat /\ (Cardinality(hold'[x]) = 0 <=> hold'[x] = {})
    BY <2>1, FS_CardinalityType, FS_EmptySet
  <2> QED
    BY <2>2 DEF Depth, Inside
<1>4. ASSUME UNCHANGED <<sie, noff, intena>>, Depth(x)' = Depth(x)
      PROVE  Local(x)'
  BY <1>1, <1>2, <1>3, <1>4 DEF Local
<1>5. ASSUME push_off(c), Depth(x)' = Depth(x) + 1
      PROVE  Local(x)'
  <2>1. PushEffect(c)
    BY <1>1, <1>5, PushOff
  <2>2. Inside(x)'
    BY <1>2, <1>3, <1>5
  <2>3. intena'[c] <=> x \in Threads
    BY <1>1, <1>2, <2>1 DEF PushEffect, Local
  <2> QED
    BY <1>1, <1>5, <2>1, <2>2, <2>3 DEF PushEffect, Local
<1>6. ASSUME NEW l \in Locks, CallLock(x, l) PROVE Local(x)'
  <2>1. Depth(x)' = Depth(x) + 1
    BY <1>2, <1>6 DEF CallLock, Goto, Depth, Entered, TypeOK
  <2> QED
    BY <1>5, <1>6, <2>1 DEF CallLock
<1>7. ASSUME NEW l \in Locks, CallUnlock(x, l) PROVE Local(x)'
  <2>1. locked[l] /\ lkcpu[l] = on[x]
    BY <1>7 DEF CallUnlock, InvLock, MutualExclusion
  <2>2. Depth(x)' = Depth(x)
    BY <1>2, <1>7, <2>1 DEF CallUnlock, Goto, Depth, Entered, TypeOK
  <2> QED
    BY <1>4, <1>7, <2>2 DEF CallUnlock
<1>8. ASSUME NEW l \in Locks, CallCheckLock(x, l) PROVE Local(x)'
  <2>1. Depth(x)' = Depth(x)
    BY <1>8 DEF CallCheckLock, Goto, Depth, Entered, TypeOK
  <2> QED
    BY <1>4, <1>8, <2>1 DEF CallCheckLock
<1>9. CASE Holding1(x)
  <2>1. Depth(x)' = Depth(x)
    BY <1>9 DEF Holding1, Goto, Depth, Entered, TypeOK
  <2> QED
    BY <1>4, <1>9, <2>1 DEF Holding1
<1>10. CASE Holding2(x)
  <2>1. Depth(x)' = Depth(x)
    BY <1>10 DEF Holding2, Goto, Depth, Entered, TypeOK
  <2> QED
    BY <1>4, <1>10, <2>1 DEF Holding2
<1>11. CASE Swap(x)
  <2>1. arg[x] \notin hold[x] /\ hold'[x] = hold[x] \cup {arg[x]}
    BY <1>11 DEF Swap, InvLock, TypeOK
  <2>2. Cardinality(hold'[x]) = Cardinality(hold[x]) + 1
    BY <1>2, <2>1, FS_AddElement
  <2>3. Depth(x)' = Depth(x)
    BY <1>2, <1>11, <2>2 DEF Swap, Goto, Depth, Entered, TypeOK
  <2> QED
    BY <1>4, <1>11, <2>3 DEF Swap
<1>12. CASE SetCpu(x)
  <2>1. Depth(x)' = Depth(x)
    BY <1>12 DEF SetCpu, Goto, Depth, Entered, TypeOK
  <2> QED
    BY <1>4, <1>12, <2>1 DEF SetCpu
<1>13. CASE Release(x)
  <2>1. arg[x] \in hold[x] /\ hold'[x] = hold[x] \ {arg[x]}
    BY <1>13 DEF Release, InvLock, TypeOK
  <2>2. Cardinality(hold'[x]) = Cardinality(hold[x]) - 1
    BY <1>2, <2>1, FS_RemoveElement
  <2>3. Depth(x)' = Depth(x)
    BY <1>2, <1>13, <2>2 DEF Release, Goto, Depth, Entered, TypeOK
  <2> QED
    BY <1>4, <1>13, <2>3 DEF Release
<1>14. CASE PopOff(x)
  <2>1. Inside(x) /\ pc[x] = "popoff"
    BY <1>14 DEF PopOff, Inside, Entered
  <2>2. ~PopOffPanics(c) /\ Depth(x) = Cardinality(hold[x]) + 1
    BY <1>1, <1>2, <2>1 DEF PopOffPanics, Local, Depth, Entered
  <2>3. pop_off(c) /\ pc'[x] = "idle" /\ hold' = hold
    BY <1>14, <2>2 DEF PopOff, Goto, TypeOK
  <2>4. PopEffect(c)
    BY <1>1, <2>2, <2>3, PopOffEffect
  <2>5. Depth(x)' = Cardinality(hold[x])
    BY <1>2, <2>3 DEF Depth, Entered
  <2>6. intena[c] <=> x \in Threads
    BY <1>1, <2>1 DEF Local
  <2>7. noff[c] = Cardinality(hold[x]) + 1
    BY <1>1, <2>2 DEF Local
  <2>8. noff'[c] = Depth(x)' /\ (noff[c] = 1 <=> Depth(x)' = 0)
    BY <1>2, <2>4, <2>5, <2>7 DEF PopEffect
  <2>9. intena'[c] = intena[c] /\ (sie'[c] <=> noff[c] = 1 /\ intena[c])
    BY <2>4 DEF PopEffect
  <2> HIDE DEF c
  <2> QED
    BY <1>1, <1>3, <2>6, <2>8, <2>9 DEF Local
<1>15. CASE Check1(x)
  <2>1. CASE CheckToLock(x)
    <3>1. Depth(x)' = Depth(x) + 1
      BY <1>2, <1>15, <2>1 DEF Check1, CheckToLock, Goto, Depth, Entered, TypeOK
    <3> QED
      BY <1>5, <2>1, <3>1 DEF CheckToLock
  <2>2. CASE UNCHANGED <<sie, noff, intena>> /\ Goto(x, "chk2")
    <3>1. Depth(x)' = Depth(x)
      BY <1>15, <2>2 DEF Check1, Goto, Depth, Entered, TypeOK
    <3> QED
      BY <1>4, <2>2, <3>1
  <2> QED
    BY <1>15, <2>1, <2>2 DEF Check1
<1>16. CASE Check2(x)
  <2>1. Depth(x)' = Depth(x)
    BY <1>16 DEF Check2, Goto, Depth, Entered, TypeOK
  <2> QED
    BY <1>4, <1>16, <2>1 DEF Check2
<1>17. CASE Check3(x)
  <2>1. CASE CheckToLock(x)
    <3>1. Depth(x)' = Depth(x) + 1
      BY <1>2, <1>17, <2>1 DEF Check3, CheckToLock, Goto, Depth, Entered, TypeOK
    <3> QED
      BY <1>5, <2>1, <3>1 DEF CheckToLock
  <2>2. CASE UNCHANGED <<sie, noff, intena>> /\ Goto(x, "nested")
    <3>1. Depth(x)' = Depth(x)
      BY <1>17, <2>2 DEF Check3, Goto, Depth, Entered, TypeOK
    <3> QED
      BY <1>4, <2>2, <3>1
  <2> QED
    BY <1>17, <2>1, <2>2 DEF Check3
<1>18. CASE NestedDone(x)
  <2>1. Depth(x)' = Depth(x)
    BY <1>18 DEF NestedDone, Goto, Depth, Entered, TypeOK
  <2> QED
    BY <1>4, <1>18, <2>1 DEF NestedDone
<1> QED
  BY <1>6, <1>7, <1>8, <1>9, <1>10, <1>11, <1>12, <1>13, <1>14, <1>15, <1>16,
     <1>17, <1>18 DEF Step

\* Threads and handlers come and go without disturbing the harts' state.
LEMMA HartStep ==
  ASSUME TypeOK, TypeOK', InvHart, InvLock, [Next]_vars
  PROVE  InvHart'
<1> USE NoCpuNotCpu
<1>1. CASE UNCHANGED vars
  BY <1>1 DEF vars, InvHart, Inside, Running, Local, Depth, Vacant
<1>2. ASSUME NEW x \in Contexts, Step(x) PROVE InvHart'
  BY <1>2, StepFrame, LocalStep, FrameHart
<1>3. ASSUME NEW y \in Contexts, UNCHANGED <<pc, hold>>
      PROVE  (Inside(y)' <=> Inside(y)) /\ Depth(y)' = Depth(y)
  BY <1>3 DEF Inside, Depth
<1>4. ASSUME NEW x \in Contexts, Preempt(x) PROVE InvHart'
  <2>1. ~Inside(x) /\ Running(x) /\ sie[on[x]] /\ on[x] \in CPUs /\ x \in Threads
    BY <1>4, OnCpu DEF Preempt, InvHart, Local, Running
  <2>2. noff[on[x]] = 0
    BY <2>1, IntrOnNoff
  <2>3. ASSUME NEW y \in Contexts, y # x
        PROVE  on'[y] = on[y] /\ (Running(y)' <=> Running(y))
    BY <1>4, <2>1, <2>3 DEF Preempt, Running, TypeOK, Contexts, InvHart
  <2>4. ~Running(x)'
    BY <1>4, <2>1 DEF Preempt, Running, TypeOK
  <2>5. ASSUME NEW y \in Contexts, Running(y)' PROVE Local(y)'
    BY <1>3, <1>4, <2>3, <2>4, <2>5 DEF Preempt, Local, InvHart
  <2>6. ASSUME NEW y \in Contexts, Inside(y)' PROVE Running(y)'
    BY <1>3, <1>4, <2>1, <2>3, <2>6 DEF Preempt, InvHart
  <2>7. ASSUME NEW c \in CPUs, Vacant(c)' PROVE sie'[c] /\ noff'[c] = 0
    <3>1. CASE c = on[x]
      BY <1>4, <2>1, <2>2, <3>1 DEF Preempt
    <3>2. CASE c # on[x]
      BY <1>4, <2>3, <2>7, <3>2 DEF Preempt, Vacant, InvHart
    <3> QED
      BY <3>1, <3>2
  <2>8. on' = [on EXCEPT ![x] = NoCpu]
    BY <1>4 DEF Preempt
  <2> QED
    BY <2>1, <2>5, <2>6, <2>7, <2>8 DEF InvHart, TypeOK, Contexts
<1>5. ASSUME NEW x \in Contexts, IntrReturn(x) PROVE InvHart'
  <2> DEFINE c == on[x]
  <2>1. /\ ~Inside(x) /\ Running(x) /\ Local(x) /\ c \in CPUs
        /\ x \in Handlers /\ x \notin Threads
    BY <1>5, OnCpu, SpinLockAssumption DEF IntrReturn, InvHart, Running, Inside, Entered
  <2>2. noff[c] = 0
    BY <2>1, DepthFacts DEF Local
  <2>3. /\ on' = [on EXCEPT ![x] = NoCpu] /\ sie' = [sie EXCEPT ![c] = TRUE]
        /\ UNCHANGED <<noff, intena, pc, hold>>
    BY <1>5 DEF IntrReturn
  <2>4. \A y \in Contexts : y # x => on'[y] = on[y]
    BY <2>3 DEF TypeOK
  <2>5. on'[x] = NoCpu /\ sie'[c] /\ \A d \in CPUs \ {c} : sie'[d] = sie[d]
    BY <2>1, <2>3 DEF TypeOK
  <2>6. ASSUME NEW y \in Contexts, Inside(y)' PROVE Running(y)' /\ on[y] # c
    <3>1. Inside(y) /\ Running(y) /\ y # x
      BY <1>3, <2>1, <2>3, <2>6 DEF InvHart
    <3>2. on[y] # c
      BY <2>1, <3>1, RunningUnique
    <3> QED
      BY <2>1, <2>4, <2>5, <3>1, <3>2 DEF Running, Contexts
  <2>7. ASSUME NEW y \in Contexts, Running(y)' PROVE Local(y)'
    <3>1. y # x /\ on[y] # NoCpu /\ on[y] \in CPUs
      BY <2>4, <2>5, <2>7, OnCpu DEF Running
    <3>2. CASE on[y] = c
      <4>1. ~Inside(y)'
        BY <2>6, <3>2
      <4>2. y \in Threads
        BY <2>1, <3>1, <3>2 DEF InvHart, Contexts
      <4>3. Depth(y)' = 0
        BY <1>3, <2>3, <4>1, DepthFacts
      <4> QED
        BY <2>2, <2>3, <2>4, <2>5, <3>1, <3>2, <4>1, <4>2, <4>3 DEF Local
    <3>3. CASE on[y] # c
      <4>1. Running(y) /\ Local(y)
        BY <2>1, <2>4, <2>7, <3>1, <3>3 DEF Running, InvHart, Contexts
      <4> QED
        BY <1>3, <2>3, <2>4, <2>5, <3>1, <3>3, <4>1 DEF Local
    <3> QED
      BY <3>2, <3>3
  <2>8. ASSUME NEW d \in CPUs, Vacant(d)' PROVE sie'[d] /\ noff'[d] = 0
    <3>1. CASE d = c
      BY <2>2, <2>3, <2>5, <3>1
    <3>2. CASE d # c
      BY <2>3, <2>4, <2>5, <2>8, <3>2 DEF Vacant, InvHart
    <3> QED
      BY <3>1, <3>2
  <2> QED
    BY <2>4, <2>5, <2>6, <2>7, <2>8 DEF InvHart, Contexts
<1>6. ASSUME NEW x \in Contexts, NEW c \in CPUs, Dispatch(x, c) PROVE InvHart'
  <2>1. on[x] = NoCpu /\ Vacant(c) /\ x \in Threads /\ ~Inside(x)
    BY <1>6 DEF Dispatch, Vacant, InvHart, Running
  <2>2. sie[c] /\ noff[c] = 0 /\ Depth(x) = 0
    BY <2>1, DepthFacts DEF InvHart
  <2>3. /\ on' = [on EXCEPT ![x] = c] /\ sie' = [sie EXCEPT ![c] = TRUE]
        /\ UNCHANGED <<noff, intena, pc, hold>>
    BY <1>6 DEF Dispatch
  <2>4. on'[x] = c /\ \A y \in Contexts : y # x => on'[y] = on[y]
    BY <2>3 DEF TypeOK
  <2>5. sie'[c] /\ \A d \in CPUs \ {c} : sie'[d] = sie[d]
    BY <2>3 DEF TypeOK
  <2>6. \A y \in Contexts : y # x => (Running(y)' <=> Running(y))
    BY <2>1, <2>4 DEF Running, Vacant, Contexts, TypeOK
  <2>7. ASSUME NEW y \in Contexts, Inside(y)' PROVE Running(y)'
    BY <1>3, <2>1, <2>3, <2>6, <2>7 DEF InvHart
  <2>8. ASSUME NEW y \in Contexts, Running(y)' PROVE Local(y)'
    <3>1. CASE y = x
      BY <1>3, <2>1, <2>2, <2>3, <2>4, <2>5, <3>1 DEF Local
    <3>2. CASE y # x
      <4>1. Running(y) /\ Local(y) /\ on[y] # c /\ on[y] \in CPUs
        BY <2>1, <2>6, <2>8, <3>2, OnCpu DEF InvHart, Vacant, Running
      <4> QED
        BY <1>3, <2>3, <2>4, <2>5, <3>2, <4>1 DEF Local
    <3> QED
      BY <3>1, <3>2
  <2>9. ASSUME NEW d \in CPUs, Vacant(d)' PROVE sie'[d] /\ noff'[d] = 0
    <3>1. Vacant(d)
      BY <2>1, <2>4, <2>9 DEF Vacant
    <3> QED
      BY <2>2, <2>3, <2>5, <3>1 DEF InvHart
  <2> QED
    BY <2>1, <2>4, <2>7, <2>8, <2>9, SpinLockAssumption DEF InvHart, Vacant, Contexts
<1>7. ASSUME NEW x \in Contexts, NEW c \in CPUs, Interrupt(x, c) PROVE InvHart'
  <2>1. on[x] = NoCpu /\ sie[c] /\ x \in Handlers /\ ~Inside(x) /\ x \notin Threads
    BY <1>7, SpinLockAssumption DEF Interrupt, InvHart, Running
  <2>2. noff[c] = 0 /\ Depth(x) = 0
    BY <2>1, DepthFacts, IntrOnNoff
  <2>3. \A y \in Contexts : on[y] = c => ~Inside(y) /\ y \in Threads
    BY <2>1, SpinLockAssumption DEF InvHart, Local, Running, Contexts
  <2>4. /\ on' = [on EXCEPT ![x] = c] /\ sie' = [sie EXCEPT ![c] = FALSE]
        /\ UNCHANGED <<noff, intena, pc, hold>>
    BY <1>7 DEF Interrupt
  <2>5. on'[x] = c /\ \A y \in Contexts : y # x => on'[y] = on[y]
    BY <2>4 DEF TypeOK
  <2>6. ~sie'[c] /\ \A d \in CPUs \ {c} : sie'[d] = sie[d]
    BY <2>4 DEF TypeOK
  <2>7. \A y \in Contexts : y # x => (Running(y)' <=> Running(y) /\ on[y] # c)
    BY <2>1, <2>3, <2>5, SpinLockAssumption DEF Running, Contexts, TypeOK
  <2>8. ASSUME NEW y \in Contexts, Inside(y)' PROVE Running(y)'
    BY <1>3, <2>1, <2>3, <2>4, <2>7, <2>8 DEF InvHart
  <2>9. ASSUME NEW y \in Contexts, Running(y)' PROVE Local(y)'
    <3>1. CASE y = x
      BY <1>3, <2>1, <2>2, <2>4, <2>5, <2>6, <3>1 DEF Local
    <3>2. CASE y # x
      <4>1. Running(y) /\ Local(y) /\ on[y] # c /\ on[y] \in CPUs
        BY <2>7, <2>9, <3>2, OnCpu DEF InvHart, Running
      <4> QED
        BY <1>3, <2>4, <2>5, <2>6, <3>2, <4>1 DEF Local
    <3> QED
      BY <3>1, <3>2
  <2>10. ASSUME NEW d \in CPUs, Vacant(d)' PROVE sie'[d] /\ noff'[d] = 0
    <3>1. Vacant(d) /\ d # c
      BY <2>1, <2>5, <2>10 DEF Vacant
    <3> QED
      BY <2>4, <2>6, <3>1 DEF InvHart
  <2> QED
    BY <2>1, <2>3, <2>5, <2>8, <2>9, <2>10, SpinLockAssumption DEF InvHart, Contexts
<1> QED
  BY <1>1, <1>2, <1>4, <1>5, <1>6, <1>7 DEF Next

-----------------------------------------------------------------------------
(* InvLock *)

LEMMA LockStep ==
  ASSUME TypeOK, InvHart, InvLock, [Next]_vars
  PROVE  InvLock'
<1> USE NoCpuNotCpu
<1>1. CASE UNCHANGED vars
  BY <1>1 DEF vars, TypeOK, InvLock, MutualExclusion, Contexts
<1>2. ASSUME NEW x \in Contexts, NEW l \in Locks, CallLock(x, l) PROVE InvLock'
  <2>1. l \notin hold[x]
    BY <1>2, SpinLockAssumption DEF CallLock, MayAsk
  <2> QED
    BY <1>2, <2>1 DEF CallLock, Goto, TypeOK, InvLock, MutualExclusion, Contexts
<1>3. ASSUME NEW x \in Contexts, NEW l \in Locks, CallUnlock(x, l) PROVE InvLock'
  BY <1>3, SMT DEF CallUnlock, Goto, TypeOK, InvLock, MutualExclusion, Contexts
<1>4. ASSUME NEW x \in Contexts, NEW l \in Locks, CallCheckLock(x, l) PROVE InvLock'
  BY <1>4, SMT DEF CallCheckLock, Goto, TypeOK, InvLock, MutualExclusion, Contexts
<1>5. ASSUME NEW x \in Contexts, Holding1(x) PROVE InvLock'
  BY <1>5, SMT DEF Holding1, Goto, TypeOK, InvLock, MutualExclusion, Contexts
<1>6. ASSUME NEW x \in Contexts, Holding2(x) PROVE InvLock'
  BY <1>6, SMT DEF Holding2, Goto, TypeOK, InvLock, MutualExclusion, Contexts
<1>7. ASSUME NEW x \in Contexts, Swap(x) PROVE InvLock'
  BY <1>7, SMT DEF Swap, Goto, TypeOK, InvLock, MutualExclusion, Contexts
<1>8. ASSUME NEW x \in Contexts, SetCpu(x) PROVE InvLock'
  BY <1>8, SMT DEF SetCpu, Goto, TypeOK, InvLock, MutualExclusion, Contexts
<1>9. ASSUME NEW x \in Contexts, Release(x) PROVE InvLock'
  BY <1>9, SMT DEF Release, Goto, TypeOK, InvLock, MutualExclusion, Contexts
<1>10. ASSUME NEW x \in Contexts, PopOff(x) PROVE InvLock'
  <2>1. CASE PopOffPanics(on[x])
    BY <1>10, <2>1, SMT DEF PopOff, Goto, TypeOK, InvLock, MutualExclusion, Contexts
  <2>2. CASE ~PopOffPanics(on[x])
    <3>1. PopEffect(on[x])
      BY <1>10, <2>2, OnCpu, PopOffEffect DEF PopOff, Running
    <3> QED
      BY <1>10, <2>2, <3>1, OnCpu, SMT DEF PopEffect, PopOff, Goto, TypeOK, InvLock, MutualExclusion, Contexts
  <2> QED
    BY <2>1, <2>2
<1>11. ASSUME NEW x \in Contexts, Check1(x) PROVE InvLock'
  <2>1. CASE CheckToLock(x)
    <3>1. PushEffect(on[x])
      BY <1>11, <2>1, OnCpu, PushOff DEF Check1, CheckToLock, Running
    <3> QED
      BY <1>11, <2>1, <3>1, OnCpu, SMT DEF PushEffect, Check1, CheckToLock, Goto, TypeOK, InvLock, MutualExclusion, Contexts
  <2>2. CASE UNCHANGED <<sie, noff, intena>> /\ ~CheckToLock(x)
    BY <1>11, <2>2, SMT DEF Check1, CheckToLock, Goto, TypeOK, InvLock, MutualExclusion, Contexts
  <2> QED
    BY <1>11, <2>1, <2>2 DEF Check1
<1>12. ASSUME NEW x \in Contexts, Check2(x) PROVE InvLock'
  BY <1>12, SMT DEF Check2, Goto, TypeOK, InvLock, MutualExclusion, Contexts
<1>13. ASSUME NEW x \in Contexts, Check3(x) PROVE InvLock'
  <2>1. CASE CheckToLock(x)
    <3>1. PushEffect(on[x])
      BY <1>13, <2>1, OnCpu, PushOff DEF Check3, CheckToLock, Running
    <3> QED
      BY <1>13, <2>1, <3>1, OnCpu, SMT DEF PushEffect, Check3, CheckToLock, Goto, TypeOK, InvLock, MutualExclusion, Contexts
  <2>2. CASE UNCHANGED <<sie, noff, intena>> /\ ~CheckToLock(x)
    BY <1>13, <2>2, SMT DEF Check3, CheckToLock, Goto, TypeOK, InvLock, MutualExclusion, Contexts
  <2> QED
    BY <1>13, <2>1, <2>2 DEF Check3
<1>14. ASSUME NEW x \in Contexts, NestedDone(x) PROVE InvLock'
  BY <1>14, SMT DEF NestedDone, Goto, TypeOK, InvLock, MutualExclusion, Contexts
<1>15. ASSUME NEW x \in Contexts, Preempt(x) PROVE InvLock'
  <2>1. ~Inside(x)
    BY <1>15, OnCpu DEF Preempt, InvHart, Local, Running, Inside, Entered
  <2>2. hold[x] = {}
    BY <2>1 DEF Inside
  <2> QED
    BY <1>15, <2>2 DEF Preempt, TypeOK, InvLock, MutualExclusion, Contexts
<1>16. ASSUME NEW x \in Contexts, IntrReturn(x) PROVE InvLock'
  <2>1. ~Inside(x)
    BY <1>16, OnCpu DEF IntrReturn, InvHart, Local, Running, Inside, Entered
  <2>2. hold[x] = {}
    BY <2>1 DEF Inside
  <2> QED
    BY <1>16, <2>2 DEF IntrReturn, TypeOK, InvLock, MutualExclusion, Contexts
<1>17. ASSUME NEW x \in Contexts, NEW c \in CPUs, Dispatch(x, c) PROVE InvLock'
  <2>1. ~Inside(x)
    BY <1>17, OnCpu DEF Dispatch, InvHart, Local, Running, Inside, Entered
  <2>2. hold[x] = {}
    BY <2>1 DEF Inside
  <2> QED
    BY <1>17, <2>2 DEF Dispatch, TypeOK, InvLock, MutualExclusion, Contexts
<1>18. ASSUME NEW x \in Contexts, NEW c \in CPUs, Interrupt(x, c) PROVE InvLock'
  <2>1. ~Inside(x)
    BY <1>18, OnCpu DEF Interrupt, InvHart, Local, Running, Inside, Entered
  <2>2. hold[x] = {}
    BY <2>1 DEF Inside
  <2> QED
    BY <1>18, <2>2 DEF Interrupt, TypeOK, InvLock, MutualExclusion, Contexts
<1> QED
  BY <1>1, <1>2, <1>3, <1>4, <1>5, <1>6, <1>7, <1>8, <1>9, <1>10, <1>11, <1>12, <1>13, <1>14, <1>15, <1>16, <1>17, <1>18 DEF Next, Step

-----------------------------------------------------------------------------
(* The unconditional theorems *)

LEMMA InitInv == Init => Inv
<1> SUFFICES ASSUME Init PROVE Inv
  OBVIOUS
<1> USE SpinLockAssumption, NoCpuNotCpu DEF Init
<1>1. TypeOK
  BY DEF TypeOK, PCs, CpuIds
<1>2. InvHart
  BY FS_EmptySet DEF InvHart, Inside, Entered, Running, Local, Depth, Vacant, Contexts
<1>3. InvLock
  BY DEF InvLock, MutualExclusion
<1> QED
  BY <1>1, <1>2, <1>3 DEF Inv

LEMMA NextInv == Inv /\ [Next]_vars => Inv'
BY TypeStep, HartStep, LockStep DEF Inv

LEMMA SpecInv == Spec => []Inv
BY InitInv, NextInv, PTL DEF Spec

\* Every variable keeps its type: in particular noff never goes below zero.
THEOREM TypeCorrect == Spec => []TypeOK
<1>1. Inv => TypeOK
  BY DEF Inv
<1> QED
  BY <1>1, SpecInv, PTL

\* Two contexts never hold the same lock, on any number of harts and whether
\* or not the lock went through lm_lockinit.
THEOREM LocksExclude == Spec => []MutualExclusion
<1>1. Inv => MutualExclusion
  BY DEF Inv, InvLock
<1> QED
  BY <1>1, SpecInv, PTL

\* A critical section is never interrupted or preempted.
THEOREM CriticalSectionsUninterrupted == Spec => []IntrOffWhileHeld
<1>1. Inv => IntrOffWhileHeld
  <2> SUFFICES ASSUME Inv, NEW x \in Contexts, hold[x] # {}
               PROVE  /\ on[x] # NoCpu
                      /\ ~sie[on[x]]
                      /\ \A y \in Contexts \ {x} :
                            on[y] = on[x] => y \in Threads /\ hold[y] = {}
    BY DEF IntrOffWhileHeld
  <2>1. Inside(x) /\ Running(x) /\ Local(x)
    BY DEF Inv, InvHart, Inside
  <2>2. ASSUME NEW y \in Contexts \ {x}, on[y] = on[x]
        PROVE  y \in Threads /\ hold[y] = {}
    <3>1. ~Running(y)
      BY <2>1, <2>2, RunningUnique DEF Inv
    <3>2. ~Inside(y)
      BY <3>1 DEF Inv, InvHart
    <3> QED
      BY <2>1, <2>2, <3>1, <3>2 DEF Running, Inside, Contexts
  <2> QED
    BY <2>1, <2>2 DEF Running, Local
<1> QED
  BY <1>1, SpecInv, PTL

\* push_off and pop_off nest: outside lock.c, noff counts the locks held and
\* the interrupt state is the one the context had before its first push_off.
THEOREM InterruptsRestored == Spec => []IntrRestored
<1>1. Inv => IntrRestored
  <2> SUFFICES ASSUME Inv, NEW x \in Contexts, Running(x), pc[x] = "idle"
               PROVE  /\ noff[on[x]] = Cardinality(hold[x])
                      /\ hold[x] = {} => (sie[on[x]] <=> x \in Threads)
    BY DEF IntrRestored
  <2>1. Local(x) /\ Cardinality(hold[x]) \in Nat
    BY DepthFacts DEF Inv, InvHart
  <2> QED
    BY <2>1 DEF Local, Depth, Inside, Entered
<1> QED
  BY <1>1, SpecInv, PTL
-----------------------------------------------------------------------------
(* Locks that went through lm_lockinit *)

LEMMA CpuStep ==
  ASSUME TypeOK, InvHart, InvLock, CpuTruthful, [Next]_vars
  PROVE  CpuTruthful'
<1> USE NoCpuNotCpu
<1>1. CASE UNCHANGED vars
  BY <1>1 DEF vars, CpuTruthful, TypeOK
<1>2. ASSUME NEW x \in Contexts, NEW l \in Locks, CallLock(x, l) PROVE CpuTruthful'
  BY <1>2 DEF CallLock, CpuTruthful, TypeOK
<1>3. ASSUME NEW x \in Contexts, NEW l \in Locks, CallUnlock(x, l) PROVE CpuTruthful'
  BY <1>3 DEF CallUnlock, Goto, CpuTruthful, TypeOK
<1>4. ASSUME NEW x \in Contexts, NEW l \in Locks, CallCheckLock(x, l) PROVE CpuTruthful'
  BY <1>4, SMT DEF CallCheckLock, Goto, CpuTruthful, TypeOK
<1>5. ASSUME NEW x \in Contexts, Holding1(x) PROVE CpuTruthful'
  BY <1>5, SMT DEF Holding1, Goto, CpuTruthful, TypeOK
<1>6. ASSUME NEW x \in Contexts, Holding2(x) PROVE CpuTruthful'
  BY <1>6, SMT DEF Holding2, Goto, CpuTruthful, TypeOK
<1>7. ASSUME NEW x \in Contexts, Swap(x) PROVE CpuTruthful'
  BY <1>7, SMT DEF Swap, Goto, CpuTruthful, TypeOK
<1>8. ASSUME NEW x \in Contexts, SetCpu(x) PROVE CpuTruthful'
  <2>1. arg[x] \in hold[x]
    BY <1>8 DEF SetCpu, InvLock
  <2> QED
    BY <1>8, <2>1 DEF SetCpu, Goto, CpuTruthful, TypeOK
<1>9. ASSUME NEW x \in Contexts, Release(x) PROVE CpuTruthful'
  <2>1. lkcpu[arg[x]] = NoCpu
    BY <1>9 DEF Release, InvLock
  <2> QED
    BY <1>9, <2>1 DEF Release, Goto, CpuTruthful, TypeOK
<1>10. ASSUME NEW x \in Contexts, PopOff(x) PROVE CpuTruthful'
  BY <1>10 DEF PopOff, CpuTruthful, TypeOK
<1>11. ASSUME NEW x \in Contexts, Check1(x) PROVE CpuTruthful'
  BY <1>11 DEF Check1, CpuTruthful, TypeOK
<1>12. ASSUME NEW x \in Contexts, Check2(x) PROVE CpuTruthful'
  BY <1>12, SMT DEF Check2, Goto, CpuTruthful, TypeOK
<1>13. ASSUME NEW x \in Contexts, Check3(x) PROVE CpuTruthful'
  BY <1>13 DEF Check3, CpuTruthful, TypeOK
<1>14. ASSUME NEW x \in Contexts, NestedDone(x) PROVE CpuTruthful'
  BY <1>14, SMT DEF NestedDone, Goto, CpuTruthful, TypeOK
<1>15. ASSUME NEW x \in Contexts, Preempt(x) PROVE CpuTruthful'
  <2>1. ~Inside(x)
    BY <1>15, OnCpu DEF Preempt, InvHart, Local, Running, Inside, Entered
  <2>2. hold[x] = {}
    BY <2>1 DEF Inside
  <2> QED
    BY <1>15, <2>2 DEF Preempt, CpuTruthful, TypeOK
<1>16. ASSUME NEW x \in Contexts, IntrReturn(x) PROVE CpuTruthful'
  <2>1. ~Inside(x)
    BY <1>16, OnCpu DEF IntrReturn, InvHart, Local, Running, Inside, Entered
  <2>2. hold[x] = {}
    BY <2>1 DEF Inside
  <2> QED
    BY <1>16, <2>2 DEF IntrReturn, CpuTruthful, TypeOK
<1>17. ASSUME NEW x \in Contexts, NEW c \in CPUs, Dispatch(x, c) PROVE CpuTruthful'
  <2>1. ~Inside(x)
    BY <1>17, OnCpu DEF Dispatch, InvHart, Local, Running, Inside, Entered
  <2>2. hold[x] = {}
    BY <2>1 DEF Inside
  <2> QED
    BY <1>17, <2>2 DEF Dispatch, CpuTruthful, TypeOK
<1>18. ASSUME NEW x \in Contexts, NEW c \in CPUs, Interrupt(x, c) PROVE CpuTruthful'
  <2>1. ~Inside(x)
    BY <1>18, OnCpu DEF Interrupt, InvHart, Local, Running, Inside, Entered
  <2>2. hold[x] = {}
    BY <2>1 DEF Inside
  <2> QED
    BY <1>18, <2>2 DEF Interrupt, CpuTruthful, TypeOK
<1> QED
  BY <1>1, <1>2, <1>3, <1>4, <1>5, <1>6, <1>7, <1>8, <1>9, <1>10, <1>11, <1>12, <1>13, <1>14, <1>15, <1>16, <1>17, <1>18 DEF Next, Step

\* A running context whose hart is in lk->cpu is the one that holds lk.
LEMMA HoldingExact ==
  ASSUME TypeOK, InvHart, CpuTruthful, NEW x \in Contexts, NEW l \in Locks,
         Running(x), lkcpu[l] = on[x]
  PROVE  l \in hold[x]
<1>1. PICK y \in Contexts : l \in hold[y] /\ on[y] = lkcpu[l]
  BY DEF CpuTruthful, Running
<1>2. Running(y)
  BY <1>1 DEF InvHart, Inside
<1> QED
  BY <1>1, <1>2, RunningUnique

PanicInv == Inv /\ CpuTruthful /\ NoPanic

LEMMA PanicStep == PanicInv /\ [Next]_vars => PanicInv'
<1> SUFFICES ASSUME PanicInv, [Next]_vars PROVE PanicInv'
  OBVIOUS
<1> USE DEF PanicInv, Inv
<1>1. Inv' /\ CpuTruthful'
  BY NextInv, CpuStep
<1>2. ASSUME NEW x \in Contexts, NEW l \in Locks, CallUnlock(x, l) PROVE NoPanic'
  <2>1. locked[l] /\ lkcpu[l] = on[x]
    BY <1>2 DEF CallUnlock, InvLock, MutualExclusion
  <2> QED
    BY <1>2, <2>1 DEF CallUnlock, Goto, NoPanic, TypeOK
<1>3. ASSUME NEW x \in Contexts, Holding2(x) PROVE NoPanic'
  <2>1. arg[x] \in Locks /\ arg[x] \notin hold[x] /\ Running(x)
    BY <1>3 DEF Holding2, InvLock, TypeOK
  <2>2. lkcpu[arg[x]] # on[x]
    BY <2>1, HoldingExact
  <2> QED
    BY <1>3, <2>2 DEF Holding2, Goto, NoPanic, TypeOK
<1>4. ASSUME NEW x \in Contexts, PopOff(x) PROVE NoPanic'
  <2>1. Running(x) /\ Inside(x) /\ Local(x)
    BY <1>4 DEF PopOff, InvHart, Inside, Entered
  <2>2. Depth(x) \in Nat /\ Depth(x) # 0
    BY <2>1, DepthFacts
  <2>3. ~PopOffPanics(on[x])
    BY <2>1, <2>2 DEF PopOffPanics, Local
  <2> QED
    BY <1>4, <2>3 DEF PopOff, Goto, NoPanic, TypeOK
<1>5. ASSUME UNCHANGED vars PROVE NoPanic'
  <2>1. pc' = pc
    BY <1>5 DEF vars
  <2>2. NoPanic
    OBVIOUS
  <2> QED
    BY <2>1, <2>2, Zenon DEF NoPanic
<1>6. ASSUME NEW x \in Contexts, NEW l \in Locks, CallLock(x, l) \/ CallCheckLock(x, l)
      PROVE  NoPanic'
  BY <1>6 DEF CallLock, CallCheckLock, Goto, NoPanic, TypeOK
<1>7. ASSUME NEW x \in Contexts,
             Holding1(x) \/ Swap(x) \/ SetCpu(x) \/ Release(x) \/ NestedDone(x)
      PROVE  NoPanic'
  BY <1>7 DEF Holding1, Swap, SetCpu, Release, NestedDone, Goto, NoPanic, TypeOK
<1>8. ASSUME NEW x \in Contexts, Check1(x) \/ Check2(x) \/ Check3(x)
      PROVE  NoPanic'
  BY <1>8 DEF Check1, Check2, Check3, CheckToLock, Goto, NoPanic, TypeOK
<1>9. ASSUME NEW x \in Contexts, Preempt(x) \/ IntrReturn(x) PROVE NoPanic'
  BY <1>9 DEF Preempt, IntrReturn, NoPanic
<1>10. ASSUME NEW x \in Contexts, NEW c \in CPUs, Dispatch(x, c) \/ Interrupt(x, c)
       PROVE  NoPanic'
  BY <1>10 DEF Dispatch, Interrupt, NoPanic
<1> QED
  BY <1>1, <1>2, <1>3, <1>4, <1>5, <1>6, <1>7, <1>8, <1>9, <1>10 DEF Next, Step

\* When every lock went through lm_lockinit, none of lock.c's panics is
\* reachable: holding() never mistakes another hart's lock for its own.
THEOREM LockPanicsUnreachable ==
  ASSUME ZeroInit = {}
  PROVE  Spec => []NoPanic
<1>1. Init => PanicInv
  <2>1. Init => CpuTruthful /\ NoPanic
    BY DEF Init, CpuTruthful, NoPanic
  <2> QED
    BY <2>1, InitInv DEF PanicInv
<1>2. PanicInv => NoPanic
  BY DEF PanicInv
<1> QED
  BY <1>1, <1>2, PanicStep, PTL DEF Spec

CheckFullInv == PanicInv /\ CheckInv

LEMMA CheckStep == CheckFullInv /\ [Next]_vars => CheckFullInv'
<1> SUFFICES ASSUME CheckFullInv, [Next]_vars PROVE CheckFullInv'
  OBVIOUS
<1>0. TypeOK /\ InvHart /\ InvLock /\ CpuTruthful /\ CheckInv /\ PanicInv'
  BY PanicStep DEF CheckFullInv, PanicInv, Inv
<1> USE NoCpuNotCpu
<1>1. CASE UNCHANGED vars
  BY <1>0, <1>1 DEF vars, CheckFullInv, CheckInv, Steady, InCheck
<1>2. ASSUME NEW x \in Contexts, Step(x) PROVE CheckFullInv'
  <2>1. Frame(x) /\ on[x] # NoCpu /\ on' = on
    BY <1>0, <1>2, StepFrame DEF Frame, Running
  <2>2. (pc'[x] = "chk3" /\ reg'[x] = on'[x] => arg'[x] \in hold'[x])
    <3> SUFFICES ASSUME pc'[x] = "chk3", reg'[x] = on'[x] PROVE arg'[x] \in hold'[x]
      OBVIOUS
    <3>1. Check2(x)
      <4>1. ASSUME NEW l \in Locks, CallLock(x, l) \/ CallCheckLock(x, l) \/ CallUnlock(x, l)
            PROVE FALSE
        BY <1>0, <4>1 DEF CallLock, CallUnlock, CallCheckLock, Goto, TypeOK
      <4>2. ~(Holding1(x) \/ Holding2(x) \/ Swap(x) \/ SetCpu(x) \/ Release(x) \/ NestedDone(x))
        BY <1>0 DEF Holding1, Holding2, Swap, SetCpu, Release, NestedDone, Goto, TypeOK
      <4>3. ~PopOff(x) /\ ~Check1(x) /\ ~Check3(x)
        BY <1>0 DEF PopOff, Check1, Check3, CheckToLock, Goto, TypeOK
      <4> QED
        BY <1>2, <4>1, <4>2, <4>3 DEF Step
    <3>2. lkcpu[arg[x]] = on[x] /\ arg[x] \in Locks /\ Running(x)
      BY <1>0, <3>1 DEF Check2, TypeOK
    <3>3. arg[x] \in hold[x]
      BY <1>0, <3>2, HoldingExact
    <3> QED
      BY <3>1, <3>3 DEF Check2
  <2>3. Steady(x)' /\ pc'[x] = "nested" => arg'[x] \in hold'[x]
    <3> SUFFICES ASSUME Steady(x)', pc'[x] = "nested" PROVE arg'[x] \in hold'[x]
      OBVIOUS
    <3>1. Check3(x)
      <4>1. ASSUME NEW l \in Locks, CallLock(x, l) \/ CallCheckLock(x, l) \/ CallUnlock(x, l)
            PROVE FALSE
        BY <1>0, <4>1 DEF CallLock, CallUnlock, CallCheckLock, Goto, TypeOK
      <4>2. ~(Holding1(x) \/ Holding2(x) \/ Swap(x) \/ SetCpu(x) \/ Release(x) \/ NestedDone(x))
        BY <1>0 DEF Holding1, Holding2, Swap, SetCpu, Release, NestedDone, Goto, TypeOK
      <4>3. ~PopOff(x) /\ ~Check1(x) /\ ~Check2(x)
        BY <1>0 DEF PopOff, Check1, Check2, CheckToLock, Goto, TypeOK
      <4> QED
        BY <1>2, <4>1, <4>2, <4>3 DEF Step
    <3>2. reg[x] = on[x] /\ pc[x] = "chk3"
      BY <1>0, <3>1 DEF Check3, CheckToLock, Goto, TypeOK
    <3>3. Steady(x)
      BY <3>1 DEF Check3, Steady
    <3>4. arg[x] \in hold[x]
      BY <1>0, <3>2, <3>3 DEF CheckInv
    <3> QED
      BY <3>1, <3>4 DEF Check3
  <2>4. CheckInv'
    <3> SUFFICES ASSUME NEW y \in Contexts
                 PROVE  /\ y \in Handlers /\ InCheck(y)' => on'[y] # NoCpu
                        /\ Steady(y)' /\ pc'[y] = "chk3" /\ reg'[y] = on'[y] => arg'[y] \in hold'[y]
                        /\ Steady(y)' /\ pc'[y] = "nested" => arg'[y] \in hold'[y]
      BY DEF CheckInv
    <3>1. CASE y = x
      BY <2>1, <2>2, <2>3, <3>1
    <3>2. CASE y # x
      <4>1. /\ pc'[y] = pc[y] /\ hold'[y] = hold[y] /\ arg'[y] = arg[y]
            /\ reg'[y] = reg[y] /\ on' = on
        BY <2>1, <3>2 DEF Frame
      <4>2. (InCheck(y)' <=> InCheck(y)) /\ (Steady(y)' <=> Steady(y))
        BY <4>1 DEF InCheck, Steady
      <4> QED
        BY <1>0, <4>1, <4>2 DEF CheckInv
    <3> QED
      BY <3>1, <3>2
  <2> QED
    BY <1>0, <2>4 DEF CheckFullInv
<1>3. ASSUME UNCHANGED <<pc, arg, reg, hold>>,
             \A y \in Contexts : Steady(y) /\ InCheck(y) => on'[y] = on[y]
      PROVE  CheckFullInv'
  <2>1. \A y \in Contexts : (InCheck(y)' <=> InCheck(y)) /\ (Steady(y)' <=> Steady(y))
    BY <1>3 DEF InCheck, Steady
  <2>2. \A y \in Contexts : pc[y] \in {"chk3", "nested"} => InCheck(y)
    BY DEF InCheck
  <2>3. \A y \in Contexts : y \in Handlers => Steady(y)
    BY DEF Steady
  <2>4. CheckInv'
    BY <1>0, <1>3, <2>1, <2>2, <2>3 DEF CheckInv
  <2> QED
    BY <1>0, <2>4 DEF CheckFullInv
\* A thread that holds a lock is running with interrupts off.
<1>4. \A y \in Contexts : hold[y] # {} => on[y] # NoCpu /\ ~sie[on[y]]
  BY <1>0 DEF InvHart, Inside, Local, Running
<1>5. ASSUME NEW x \in Contexts, Preempt(x) PROVE CheckFullInv'
  <2>1. ~Steady(x)
    BY <1>4, <1>5, SpinLockAssumption DEF Preempt, Steady
  <2> QED
    BY <1>0, <1>3, <1>5, <2>1 DEF Preempt, TypeOK
<1>6. ASSUME NEW x \in Contexts, IntrReturn(x) PROVE CheckFullInv'
  <2>1. ~InCheck(x)
    BY <1>6 DEF IntrReturn, InCheck
  <2> QED
    BY <1>0, <1>3, <1>6, <2>1 DEF IntrReturn, TypeOK
<1>7. ASSUME NEW x \in Contexts, NEW c \in CPUs, Dispatch(x, c) PROVE CheckFullInv'
  <2>1. ~Steady(x)
    BY <1>4, <1>7, SpinLockAssumption DEF Dispatch, Steady
  <2> QED
    BY <1>0, <1>3, <1>7, <2>1 DEF Dispatch, TypeOK
<1>8. ASSUME NEW x \in Contexts, NEW c \in CPUs, Interrupt(x, c) PROVE CheckFullInv'
  <2>1. ~InCheck(x)
    BY <1>0, <1>8 DEF Interrupt, CheckInv
  <2> QED
    BY <1>0, <1>3, <1>8, <2>1 DEF Interrupt, TypeOK
<1> QED
  BY <1>1, <1>2, <1>5, <1>6, <1>7, <1>8 DEF Next

\* check_lock is called with interrupts on and off, on locks that went through
\* lm_lockinit.  Whenever they were off, it tells only the holder of a lock that
\* it holds it.  (With interrupts on this is false: CheckLockExact.)
THEOREM CheckLockCorrect ==
  ASSUME ZeroInit = {}
  PROVE  Spec => []CheckLockSound
<1>1. Init => CheckFullInv
  <2>1. Init => CpuTruthful /\ NoPanic /\ CheckInv
    BY DEF Init, CpuTruthful, NoPanic, CheckInv, InCheck
  <2> QED
    BY <2>1, InitInv DEF PanicInv, CheckFullInv
<1>2. CheckFullInv => CheckLockSound
  <2> SUFFICES ASSUME CheckFullInv, NEW x \in Contexts, Running(x), ~sie[on[x]], pc[x] = "nested"
               PROVE  arg[x] \in hold[x]
    BY DEF CheckLockSound
  <2>1. Local(x) /\ CheckInv
    BY DEF CheckFullInv, PanicInv, Inv, InvHart
  <2>2. Steady(x)
    BY <2>1 DEF Local, Inside, Entered, Steady, Contexts
  <2> QED
    BY <2>1, <2>2 DEF CheckInv
<1> QED
  BY <1>1, <1>2, CheckStep, PTL DEF Spec
=============================================================================
