---------------------------- MODULE TaskLifeProof ----------------------------
(***************************************************************************)
(* Proofs about TaskLife, for any number of slots, pids and killers.       *)
(*                                                                         *)
(* Locked says which spinlocks a task holds where it is; it is why nobody  *)
(* reaps a zombie before it has left its stack.  States ties the state of  *)
(* a task to where it is.  Family is why no parent dangles: nothing points *)
(* to a task that has finished reparent().  Covered counts the tokens of   *)
(* the semaphores against the zombies that have signalled.                 *)
(***************************************************************************)
EXTENDS TaskLife, FiniteSetTheorems, WellFoundedInduction, TLAPS

Pc(t) == loc[t].pc
Ix(t) == loc[t].i
St(t) == task[t].state
Id(t) == task[t].id
Par(t) == task[t].parent
Sem(t) == task[t].sem
Queued(t) == task[t].queued
OwnT(t) == owner[T(t)]
OwnS(t) == owner[S(t)]
OwnW == owner[W]

ExitPCs == {"x_wait", "x_par", "x_wakepar", "x_rep", "x_v", "x_wakeinit", "x_gone"}
TreePCs == {"x_par", "x_wakepar", "x_rep", "x_v", "x_wakeinit"}
RepPCs == {"x_rep", "x_v", "x_wakeinit"}
OutPCs == {"none", "gone"}
SlotPCs == {"f_fill", "w_zombie"}

\* Who holds which spinlock.
Locked ==
    \A t, u \in Tasks :
        /\ OwnT(u) = t <=> (u = t /\ Pc(t) \in ExitPCs) \/ (u = Ix(t) /\ Pc(t) \in SlotPCs)
        /\ OwnS(u) = t <=> \/ u = Par(t) /\ Pc(t) = "x_wakepar"
                           \/ u = init /\ Pc(t) = "x_wakeinit"
                           \/ u = t /\ Pc(t) = "p_sleep"
        /\ OwnW = t <=> Pc(t) \in TreePCs

\* u has been taken off the list of its semaphore and is still asleep.
Roused(u) == u \in Tasks /\ Pc(u) = "p_asleep" /\ St(u) = "SLEEPING" /\ ~Queued(u)

States ==
    \A t \in Tasks :
        /\ Pc(t) \in ExitPCs => St(t) = "ZOMBIE"
        /\ Pc(t) = "none" => St(t) \in {"DEAD", "USED"}
        /\ Pc(t) = "gone" => St(t) \in {"DEAD", "USED", "ZOMBIE"}
        /\ Pc(t) \notin ExitPCs \cup OutPCs => St(t) \in {"RUNNABLE", "SLEEPING"}
        /\ St(t) = "SLEEPING" => Pc(t) = "p_asleep"
        /\ Queued(t) <=> Sem(t) = -1
        /\ Queued(t) => Pc(t) \in {"p_sleep", "p_asleep"}
        /\ Pc(t) = "p_sleep" => Queued(t)
        /\ Pc(t) = "p_asleep" /\ Queued(t) => St(t) = "SLEEPING"

\* What a task knows of another one that it has locked.
Others ==
    \A t, u \in Tasks :
        /\ Pc(t) = "x_wakepar" /\ Par(t) = u => Roused(u)
        /\ Pc(t) = "x_wakeinit" /\ u = init => Roused(u)
        /\ Pc(t) = "f_fill" /\ Ix(t) = u => St(u) = "USED"
        /\ Pc(t) = "w_zombie" /\ Ix(t) = u => St(u) = "ZOMBIE"

Places ==
    \A t \in Tasks :
        /\ Pc(t) \in {"x_par", "x_wakepar"} => Par(t) # None /\ Ix(t) = 1
        /\ Pc(t) \in SlotPCs => Ix(t) \in Tasks

Family ==
    /\ Par(init) = None /\ St(init) \notin {"DEAD", "USED"}
    /\ \A t \in Tasks : Par(t) # t /\ (St(t) \in {"DEAD", "USED"} => Par(t) = None)
    /\ \A t, u \in Tasks :
        /\ Par(u) = t /\ t # init => Id(t) = forker[u]
        /\ t # init /\ Pc(t) \in OutPCs \cup {"x_gone"} => Par(u) # t
        /\ t # init /\ Pc(t) \in RepPCs /\ u < Ix(t) => Par(u) # t

Forking == {t \in Tasks : Pc(t) = "f_scan"}

Pids ==
    /\ \A t \in Tasks : Id(t) < nextpid /\ (St(t) # "DEAD" => Id(t) >= 1)
    /\ nextpid + Cardinality(Forking) <= MaxPid + NTASK

Inv == TypeOK /\ Locked /\ States /\ Others /\ Places /\ Family /\ Pids

\* p has been given to tasks[0], which is about to be told.
Pending(p) == \E t \in Tasks : Pc(t) = "x_v" /\ Ix(t) = p + 1

\* The zombie children of u whose signal u has had.
Signalled(u) == {p \in Tasks : /\ Par(p) = u /\ St(p) = "ZOMBIE" /\ Pc(p) \notin {"x_wait", "x_par"}
                               /\ ~Pending(p)}

\* Tokens in sons_sem, and the one that a wait of u has taken.
Tokens(u) == IF Sem(u) > 0 THEN Sem(u) ELSE 0
Scanning(u) == Pc(u) \in {"w_scan", "w_zombie"}
Taken(u) == IF Scanning(u) \/ (Pc(u) = "p_asleep" /\ ~Queued(u)) THEN 1 ELSE 0

\* A scan that ends in vain has used up its token, so the zombies behind it
\* must have tokens of their own.
Behind(u) == {p \in Signalled(u) : p < Ix(u)}
Paid(u) == /\ Cardinality(Signalled(u)) <= Tokens(u) + Taken(u)
           /\ Scanning(u) => Cardinality(Behind(u)) <= Tokens(u)

Running(u) == Pc(u) \notin ExitPCs \cup OutPCs

\* The child that reparent() has just moved is a child of tasks[0].
Given == \A t, p \in Tasks : Pc(t) = "x_v" /\ Ix(t) = p + 1 => Par(p) = init

Covered == (\A u \in Tasks : Running(u) => Paid(u)) /\ Given

\* Whoever has taken u off the list still holds the semaphore's lock.
Waking == \A u \in Tasks : Roused(u) => OwnS(u) # None
-----------------------------------------------------------------------------
(* What an assignment changes *)

TaskSet == [state : {"DEAD", "USED", "RUNNABLE", "SLEEPING", "ZOMBIE"},
            id : -1 .. MaxPid + NTASK, parent : Tasks \cup {None},
            killed : BOOLEAN, sem : Nat \cup {-1}, queued : BOOLEAN]
LocSet == [pc : PCs, i : 1 .. NTASK + 1, arg : 0 .. MaxPid + NTASK]

LocKept(u) == Pc(u)' = Pc(u) /\ Ix(u)' = Ix(u)
LocTo(t, here, k) == /\ loc' \in [Tasks -> LocSet]
                     /\ Pc(t)' = here /\ Ix(t)' = k
                     /\ \A u \in Tasks \ {t} : LocKept(u)

TaskKept(u) == /\ St(u)' = St(u) /\ Id(u)' = Id(u) /\ Par(u)' = Par(u) /\ Sem(u)' = Sem(u)
               /\ Queued(u)' = Queued(u)
TaskTo(k) == /\ task' \in [Tasks -> TaskSet]
             /\ \A u \in Tasks \ {k} : TaskKept(u)
OwnTKept(u) == OwnT(u)' = OwnT(u)
OwnSKept(u) == OwnS(u)' = OwnS(u)
OwnTTo(k, x) == /\ owner' \in [LockIds -> Tasks \cup {None}]
                /\ OwnT(k)' = x /\ (\A u \in Tasks \ {k} : OwnTKept(u))
                /\ (\A u \in Tasks : OwnSKept(u)) /\ OwnW' = OwnW
OwnSTo(k, x) == /\ owner' \in [LockIds -> Tasks \cup {None}]
                /\ OwnS(k)' = x /\ (\A u \in Tasks \ {k} : OwnSKept(u))
                /\ (\A u \in Tasks : OwnTKept(u)) /\ OwnW' = OwnW
OwnWTo(x) == /\ owner' \in [LockIds -> Tasks \cup {None}]
             /\ OwnW' = x /\ (\A u \in Tasks : OwnTKept(u) /\ OwnSKept(u))

LEMMA Sets == /\ Tasks \subseteq Nat /\ None \notin Tasks /\ init \in Tasks /\ NTASK \in Nat \ {0}
              /\ MaxPid \in Nat \ {0} /\ IsFiniteSet(Tasks) /\ Cardinality(Tasks) = NTASK
              /\ Tasks = 1 .. NTASK
<1>1. NTASK \in Nat \ {0} /\ MaxPid \in Nat \ {0}
  BY TaskLifeAssumption
<1>2. 1 \in Int /\ NTASK \in Int /\ Cardinality(1 .. NTASK) = NTASK /\ IsFiniteSet(1 .. NTASK)
  BY <1>1, FS_Interval
<1> QED
  BY <1>1, <1>2 DEF Tasks, None, init

LEMMA Typed ==
  ASSUME TypeOK
  PROVE  /\ task \in [Tasks -> TaskSet] /\ loc \in [Tasks -> LocSet]
         /\ owner \in [LockIds -> Tasks \cup {None}] /\ nextpid \in Int
         /\ \A t \in Tasks : /\ Pc(t) \in PCs /\ Ix(t) \in 1 .. NTASK + 1
                             /\ St(t) \in {"DEAD", "USED", "RUNNABLE", "SLEEPING", "ZOMBIE"}
                             /\ Id(t) \in Int /\ Par(t) \in Tasks \cup {None}
                             /\ Sem(t) \in Nat \cup {-1} /\ Queued(t) \in BOOLEAN
                             /\ OwnT(t) \in Tasks \cup {None} /\ OwnS(t) \in Tasks \cup {None}
         /\ OwnW \in Tasks \cup {None}
<1>1. task \in [Tasks -> TaskSet] /\ loc \in [Tasks -> LocSet] /\ nextpid \in Int
  BY Sets DEF TypeOK, TaskSet, LocSet
<1>2. \A t \in Tasks : T(t) \in LockIds /\ S(t) \in LockIds
  BY DEF LockIds
<1>3. W \in LockIds
  BY DEF LockIds
<1>4. owner \in [LockIds -> Tasks \cup {None}]
  BY DEF TypeOK
<1>5. \A t \in Tasks : OwnT(t) \in Tasks \cup {None} /\ OwnS(t) \in Tasks \cup {None}
  BY <1>2, <1>4 DEF OwnT, OwnS
<1>6. \A t \in Tasks : Id(t) \in -1 .. MaxPid + NTASK
  BY <1>1 DEF Id, TaskSet
<1>7. \A t \in Tasks : Id(t) \in Int
  BY <1>6, Sets
<1>8. \A t \in Tasks : Pc(t) \in PCs /\ Ix(t) \in 1 .. NTASK + 1
  BY <1>1 DEF Pc, Ix, LocSet
<1>9. \A t \in Tasks : /\ St(t) \in {"DEAD", "USED", "RUNNABLE", "SLEEPING", "ZOMBIE"}
                       /\ Par(t) \in Tasks \cup {None}
                       /\ Sem(t) \in Nat \cup {-1} /\ Queued(t) \in BOOLEAN
  BY <1>1 DEF St, Par, Sem, Queued, TaskSet
<1>10. OwnW \in Tasks \cup {None}
  BY <1>3, <1>4 DEF OwnW
<1> QED
  BY <1>1, <1>4, <1>5, <1>7, <1>8, <1>9, <1>10

LEMMA LocksDiffer == /\ \A t, u \in Tasks : T(t) = T(u) => t = u
                     /\ \A t, u \in Tasks : S(t) = S(u) => t = u
                     /\ \A t, u \in Tasks : T(t) # S(u)
                     /\ \A t \in Tasks : T(t) # W /\ S(t) # W
BY DEF T, S, W

LEMMA SetT ==
  ASSUME TypeOK, NEW k \in Tasks, NEW x \in Tasks \cup {None}, owner' = [owner EXCEPT ![T(k)] = x]
  PROVE  OwnTTo(k, x)
<1>1. owner \in [LockIds -> Tasks \cup {None}] /\ W \in LockIds
      /\ \A t \in Tasks : T(t) \in LockIds /\ S(t) \in LockIds
  BY DEF TypeOK, LockIds
<1> QED
  BY <1>1, LocksDiffer DEF OwnTTo, OwnTKept, OwnSKept, OwnT, OwnS, OwnW

LEMMA SetS ==
  ASSUME TypeOK, NEW k \in Tasks, NEW x \in Tasks \cup {None}, owner' = [owner EXCEPT ![S(k)] = x]
  PROVE  OwnSTo(k, x)
<1>1. owner \in [LockIds -> Tasks \cup {None}] /\ W \in LockIds
      /\ \A t \in Tasks : T(t) \in LockIds /\ S(t) \in LockIds
  BY DEF TypeOK, LockIds
<1> QED
  BY <1>1, LocksDiffer DEF OwnSTo, OwnTKept, OwnSKept, OwnT, OwnS, OwnW

LEMMA SetW ==
  ASSUME TypeOK, NEW x \in Tasks \cup {None}, owner' = [owner EXCEPT ![W] = x]
  PROVE  OwnWTo(x)
<1>1. owner \in [LockIds -> Tasks \cup {None}] /\ W \in LockIds
      /\ \A t \in Tasks : T(t) \in LockIds /\ S(t) \in LockIds
  BY DEF TypeOK, LockIds
<1> QED
  BY <1>1, LocksDiffer DEF OwnWTo, OwnTKept, OwnSKept, OwnT, OwnS, OwnW

LEMMA SetLoc ==
  ASSUME TypeOK, NEW t \in Tasks, NEW here \in PCs
  PROVE  /\ Goto(t, here) => LocTo(t, here, Ix(t))
         /\ \A k \in 1 .. NTASK + 1 : GotoAt(t, here, k) => LocTo(t, here, k)
         /\ \A a \in 0 .. MaxPid + NTASK :
              loc' = [loc EXCEPT ![t] = [pc |-> here, i |-> 1, arg |-> a]] => LocTo(t, here, 1)
<1>1. loc \in [Tasks -> LocSet] /\ 1 \in 1 .. NTASK + 1
  BY Typed, Sets
<1> QED
  BY <1>1 DEF Goto, GotoAt, LocTo, LocKept, Pc, Ix, LocSet
-----------------------------------------------------------------------------
(* The steps *)

\* Where a task holds nothing.
PlainPCs == {"user", "f_scan", "p_lock", "w_scan", "k_scan"}

LEMMA ForksFit ==
  ASSUME Inv, NEW t \in Tasks, NEW here, NEW k, LocTo(t, here, k), nextpid' = nextpid,
         here = "f_scan" => Pc(t) = "f_scan" \/ nextpid <= MaxPid
  PROVE  nextpid' + Cardinality(Forking') <= MaxPid + NTASK
<1>1. /\ Forking \in SUBSET Tasks /\ Forking' \in SUBSET Tasks /\ IsFiniteSet(Tasks)
      /\ Cardinality(Tasks) = NTASK /\ NTASK \in Nat /\ MaxPid \in Nat /\ nextpid \in Int
  BY Sets, Typed DEF Forking, Inv
<1>2. /\ IsFiniteSet(Forking) /\ IsFiniteSet(Forking') /\ Cardinality(Forking') <= NTASK
  BY <1>1, FS_Subset
<1>3. Cardinality(Forking) \in Nat /\ Cardinality(Forking') \in Nat
  BY <1>2, FS_CardinalityType
<1>4. nextpid + Cardinality(Forking) <= MaxPid + NTASK
  BY DEF Inv, Pids
<1>5. CASE here = "f_scan" /\ Pc(t) # "f_scan"
  BY <1>1, <1>2, <1>3, <1>5
<1>6. CASE ~(here = "f_scan" /\ Pc(t) # "f_scan")
  <2>1. Forking' \in SUBSET Forking
    BY <1>6 DEF Forking, LocTo, LocKept
  <2>2. Cardinality(Forking') <= Cardinality(Forking)
    BY <1>2, <2>1, FS_Subset
  <2> QED
    BY <1>1, <1>3, <1>4, <2>2
<1> QED
  BY <1>5, <1>6

\* The facts about single tasks that the steps below start from.
LEMMA Start ==
  ASSUME Inv
  PROVE  /\ TypeOK /\ Locked /\ States /\ Others /\ Places /\ Family
         /\ \A t \in Tasks : /\ Pc(t) \in PCs /\ Ix(t) \in 1 .. NTASK + 1
                             /\ St(t) \in {"DEAD", "USED", "RUNNABLE", "SLEEPING", "ZOMBIE"}
                             /\ Id(t) \in Int /\ Par(t) \in Tasks \cup {None}
                             /\ Sem(t) \in Nat \cup {-1} /\ Queued(t) \in BOOLEAN
                             /\ OwnT(t) \in Tasks \cup {None} /\ OwnS(t) \in Tasks \cup {None}
                             /\ Id(t) < nextpid /\ (St(t) # "DEAD" => Id(t) >= 1)
         /\ OwnW \in Tasks \cup {None} /\ nextpid \in Int
         /\ Tasks \subseteq Nat /\ None \notin Tasks /\ init \in Tasks /\ NTASK \in Nat
         /\ \A t \in Tasks : t # None
BY Sets, Typed DEF Inv, Pids

OwnersKept == UNCHANGED owner => OwnW' = OwnW /\ \A u \in Tasks : OwnTKept(u) /\ OwnSKept(u)

LEMMA OwnersSame == OwnersKept
BY DEF OwnersKept, OwnTKept, OwnSKept, OwnT, OwnS, OwnW

LEMMA TypeStep ==
  ASSUME Inv, task' \in [Tasks -> TaskSet], loc' \in [Tasks -> LocSet],
         owner' \in [LockIds -> Tasks \cup {None}], UNCHANGED <<nextpid, forker>>
  PROVE  TypeOK'
BY DEF Inv, TypeOK, TaskSet, LocSet

\* Moves that take and release nothing.
LEMMA Roams ==
  ASSUME Inv, NEW t \in Tasks, NEW here \in PlainPCs \cup {"stuck", "panic"}, NEW k,
         Pc(t) \in PlainPCs \/ (Pc(t) = "p_asleep" /\ St(t) = "RUNNABLE"),
         LocTo(t, here, k), task' \in [Tasks -> TaskSet], \A u \in Tasks : TaskKept(u),
         UNCHANGED <<owner, nextpid, forker>>,
         here = "f_scan" => Pc(t) = "f_scan" \/ nextpid <= MaxPid
  PROVE  Inv'
<1>1. /\ Pc(t)' = here /\ \A u \in Tasks \ {t} : LocKept(u)
  BY DEF LocTo
<1>2. OwnW' = OwnW /\ \A u \in Tasks : OwnTKept(u) /\ OwnSKept(u)
  BY OwnersSame DEF OwnersKept
<1>3. ~Queued(t) /\ St(t) = "RUNNABLE"
  BY Start DEF States, PlainPCs, ExitPCs, OutPCs
<1>4. TypeOK'
  BY Typed, TypeStep DEF Inv, LocTo
<1>5. Locked'
  BY <1>1, <1>2, Start DEF Locked, TaskKept, LocKept, OwnTKept, OwnSKept, PlainPCs, ExitPCs, TreePCs, SlotPCs
<1>6. States'
  BY <1>1, <1>3, Start DEF States, TaskKept, LocKept, PlainPCs, ExitPCs, OutPCs
<1>7. Others'
  BY <1>1, <1>3, Start DEF Others, Roused, TaskKept, LocKept, PlainPCs
<1>8. Places'
  BY <1>1, Start DEF Places, TaskKept, LocKept, PlainPCs, SlotPCs
<1>9. Family'
  BY <1>1, Start DEF Family, TaskKept, LocKept, PlainPCs, OutPCs, RepPCs
<1>10. Pids'
  BY Start, ForksFit DEF Pids, TaskKept
<1> QED
  BY <1>4, <1>5, <1>6, <1>7, <1>8, <1>9, <1>10 DEF Inv

\* A task takes a slot for its child.
LEMMA ForkTakeOK == ASSUME Inv, NEW t \in Tasks, ForkTake(t) PROVE Inv'
<1>1. PICK k \in Tasks : k = Ix(t) /\ St(k) = "DEAD" /\ OwnT(k) = None /\ Pc(t) = "f_scan"
  BY Start, Sets DEF ForkTake, At, Lock, Free, Ix, Pc, St, OwnT
<1>2. nextpid + Cardinality(Forking) <= MaxPid + NTASK /\ t \in Forking /\ IsFiniteSet(Forking)
  <2>1. Forking \in SUBSET Tasks /\ IsFiniteSet(Tasks)
    BY Sets DEF Forking
  <2> QED
    BY <1>1, <2>1, FS_Subset DEF Inv, Pids, Forking
<1>3. /\ Cardinality(Forking) \in Nat /\ nextpid + 1 <= MaxPid + NTASK /\ nextpid' = nextpid + 1
      /\ Cardinality(Forking \ {t}) = Cardinality(Forking) - 1
  <2>1. Cardinality(Forking) \in Nat /\ Cardinality(Forking) # 0
    BY <1>2, FS_CardinalityType, FS_EmptySet
  <2>2. Cardinality(Forking \ {t}) = Cardinality(Forking) - 1
    BY <1>2, FS_RemoveElement
  <2> QED
    BY <1>2, <2>1, <2>2, Start, Sets DEF ForkTake
<1>4. /\ TaskTo(k) /\ St(k)' = "USED" /\ Id(k)' = nextpid /\ Par(k)' = Par(k)
      /\ Sem(k)' = 0 /\ Queued(k)' = FALSE
  <2>1. task \in [Tasks -> TaskSet] /\ nextpid \in -1 .. MaxPid + NTASK
    <3>1. nextpid \in 1 .. MaxPid + NTASK + 1
      BY DEF Inv, TypeOK
    <3> QED
      BY <1>3, <3>1, Typed, Sets DEF Inv
  <2>2. task' = [task EXCEPT ![k].state = "USED", ![k].id = nextpid,
                             ![k].sem = 0, ![k].queued = FALSE]
    BY <1>1 DEF ForkTake, Ix
  <2>3. task' \in [Tasks -> TaskSet]
    <3>1. PICK x \in TaskSet : x = task[k]
      BY <2>1
    <3>2. task'[k] = [x EXCEPT !.state = "USED", !.id = nextpid, !.sem = 0, !.queued = FALSE]
      BY <2>1, <2>2, <3>1 DEF TaskSet
    <3>3. task'[k] \in TaskSet
      <4>1. PICK I : I = -1 .. MaxPid + NTASK
        OBVIOUS
      <4>2. 0 \in Nat \cup {-1}
        OBVIOUS
      <4>3. PICK N : N = Nat \cup {-1} /\ 0 \in N
        BY <4>2, Zenon
      <4> QED
        BY <2>1, <3>1, <3>2, <4>1, <4>3 DEF TaskSet
    <3>4. \A u \in Tasks \ {k} : task'[u] = task[u]
      BY <2>1, <2>2
    <3>5. task' = [u \in Tasks |-> task'[u]]
      BY <2>1, <2>2
    <3>6. \A u \in Tasks : task'[u] \in TaskSet
      BY <2>1, <3>3, <3>4
    <3> QED
      BY <3>5, <3>6
  <2>4. St(k)' = "USED" /\ Id(k)' = nextpid /\ Par(k)' = Par(k) /\ Sem(k)' = 0 /\ Queued(k)' = FALSE
    BY <2>1, <2>2 DEF TaskSet, St, Id, Par, Sem, Queued
  <2>5. \A u \in Tasks \ {k} : TaskKept(u)
    BY <2>1, <2>2 DEF TaskKept, St, Id, Par, Sem, Queued
  <2> QED
    BY <2>3, <2>4, <2>5 DEF TaskTo
<1>5. LocTo(t, "f_fill", k)
  BY <1>1, SetLoc DEF ForkTake, Inv, PCs
<1>6. OwnTTo(k, t)
  BY <1>1, SetT DEF ForkTake, Lock, Inv, Ix
<1>7. k # t /\ Pc(k) \in OutPCs /\ k # init /\ Par(k) = None /\ forker' = forker
  BY <1>1, Start DEF States, Family, ExitPCs, OutPCs, ForkTake
<1>8. TypeOK'
  <2>1. nextpid \in 1 .. MaxPid + NTASK + 1 /\ forker' \in [Tasks -> 0 .. MaxPid + NTASK]
    BY <1>7 DEF Inv, TypeOK
  <2>2. nextpid' \in 1 .. MaxPid + NTASK + 1
    BY <1>3, <2>1, Sets
  <2> QED
    BY <1>4, <1>5, <1>6, <2>1, <2>2 DEF TypeOK, TaskTo, LocTo, OwnTTo, TaskSet, LocSet
<1>9. Locked'
  BY <1>1, <1>4, <1>5, <1>6, <1>7, Start DEF Locked, TaskTo, TaskKept, LocTo, LocKept, OwnTTo,
     OwnTKept, OwnSKept, ExitPCs, TreePCs, SlotPCs, OutPCs
<1>10. States'
  BY <1>1, <1>4, <1>5, <1>7, Start DEF States, TaskTo, TaskKept, LocTo, LocKept, ExitPCs, OutPCs
<1>11. Others'
  BY <1>1, <1>4, <1>5, <1>7, Start DEF Others, Roused, TaskTo, TaskKept, LocTo, LocKept, OutPCs
<1>12. Places'
  BY <1>1, <1>4, <1>5, <1>7, Start DEF Places, TaskTo, TaskKept, LocTo, LocKept, OutPCs, SlotPCs
<1>13. Family'
  BY <1>1, <1>4, <1>5, <1>7, Start DEF Family, TaskTo, TaskKept, LocTo, LocKept, OutPCs, RepPCs
<1>14. Pids'
  <2>1. Forking' = Forking \ {t}
    BY <1>5 DEF Forking, LocTo, LocKept
  <2>2. nextpid' + Cardinality(Forking') <= MaxPid + NTASK
    BY <1>2, <1>3, <2>1, Start, Sets
  <2>3. \A u \in Tasks : Id(u)' < nextpid' /\ (St(u)' # "DEAD" => Id(u)' >= 1)
    <3>1. nextpid >= 1
      BY Sets DEF Inv, TypeOK
    <3> QED
      BY <1>3, <1>4, <3>1, Start DEF TaskTo, TaskKept
  <2> QED
    BY <2>2, <2>3 DEF Pids
<1> QED
  BY <1>8, <1>9, <1>10, <1>11, <1>12, <1>13, <1>14 DEF Inv

\* The child is complete.
LEMMA ForkFillOK == ASSUME Inv, NEW t \in Tasks, ForkFill(t) PROVE Inv'
<1>1. PICK k \in Tasks : k = Ix(t) /\ St(k) = "USED" /\ OwnT(k) = t /\ Pc(t) = "f_fill"
  <2>1. Pc(t) = "f_fill"
    BY DEF ForkFill, At, Pc
  <2> QED
    BY <2>1, Start DEF Places, Others, Locked, SlotPCs
<1>2. /\ TaskTo(k) /\ St(k)' = "RUNNABLE" /\ Id(k)' = Id(k) /\ Par(k)' = t
      /\ Sem(k)' = Sem(k) /\ Queued(k)' = Queued(k)
  <2>1. task \in [Tasks -> TaskSet]
    BY Typed DEF Inv
  <2>2. task' = [task EXCEPT ![k].state = "RUNNABLE", ![k].parent = t]
    BY <1>1 DEF ForkFill, Ix
  <2> QED
    BY <2>1, <2>2 DEF TaskTo, TaskKept, TaskSet, St, Id, Par, Sem, Queued
<1>3. /\ k # t /\ Pc(k) \in OutPCs /\ k # init /\ ~Queued(k) /\ \A u \in Tasks : Par(u) # k
      /\ St(t) = "RUNNABLE"
  BY <1>1, Start DEF States, Family, ExitPCs, OutPCs
<1>4. /\ loc' \in [Tasks -> LocSet] /\ Pc(t)' = "user" /\ Pc(k)' = "user"
      /\ \A u \in Tasks \ {t, k} : LocKept(u)
  <2>1. loc \in [Tasks -> LocSet] /\ 1 \in 1 .. NTASK + 1 /\ 0 \in 0 .. MaxPid + NTASK /\ "user" \in PCs
    BY Typed, Sets DEF Inv, PCs
  <2>2. loc' = [loc EXCEPT ![t].pc = "user", ![t].i = 1,
                           ![k] = [pc |-> "user", i |-> 1, arg |-> 0]]
    BY <1>1 DEF ForkFill, Ix
  <2> QED
    BY <1>3, <2>1, <2>2 DEF LocKept, Pc, Ix, LocSet
<1>5. OwnTTo(k, None)
  BY <1>1, SetT DEF ForkFill, Unlock, Inv, Ix
<1>6. /\ nextpid' = nextpid /\ forker' = [forker EXCEPT ![k] = Id(t)]
      /\ forker \in [Tasks -> 0 .. MaxPid + NTASK] /\ Id(t) \in 0 .. MaxPid + NTASK
  <2>1. nextpid' = nextpid /\ forker' = [forker EXCEPT ![k] = Id(t)]
    BY <1>1 DEF ForkFill, Ix, Id
  <2>2. Id(t) >= 1 /\ Id(t) < nextpid /\ Id(t) \in Int
    BY <1>3, Start
  <2>3. nextpid \in 1 .. MaxPid + NTASK + 1 /\ forker \in [Tasks -> 0 .. MaxPid + NTASK]
    BY DEF Inv, TypeOK
  <2> QED
    BY <2>1, <2>2, <2>3, Sets
<1>7. TypeOK'
  BY <1>2, <1>4, <1>5, <1>6 DEF Inv, TypeOK, TaskTo, OwnTTo, TaskSet, LocSet
<1>8. Locked'
  BY <1>1, <1>2, <1>3, <1>4, <1>5, Start DEF Locked, TaskTo, TaskKept, LocKept, OwnTTo,
     OwnTKept, OwnSKept, ExitPCs, TreePCs, SlotPCs, OutPCs
<1>9. States'
  BY <1>1, <1>2, <1>3, <1>4, Start DEF States, TaskTo, TaskKept, LocKept, ExitPCs, OutPCs
<1>10. Others'
  <2>1. \A u \in Tasks \ {t} : Pc(u) \in SlotPCs => Ix(u) # k
    BY <1>1, Start DEF Locked, SlotPCs
  <2> QED
    BY <1>1, <1>2, <1>3, <1>4, <2>1, Start DEF Others, Roused, TaskTo, TaskKept, LocKept, OutPCs, SlotPCs
<1>11. Places'
  BY <1>1, <1>2, <1>3, <1>4, Start DEF Places, TaskTo, TaskKept, LocKept, OutPCs, SlotPCs
<1>12. Family'
  BY <1>1, <1>2, <1>3, <1>4, <1>6, Start DEF Family, TaskTo, TaskKept, LocKept, OutPCs, RepPCs
<1>13. Pids'
  <2>1. Forking' = Forking
    BY <1>1, <1>3, <1>4 DEF Forking, LocKept, OutPCs
  <2>2. \A u \in Tasks : Id(u)' < nextpid' /\ (St(u)' # "DEAD" => Id(u)' >= 1)
    BY <1>1, <1>2, <1>6, Start DEF TaskTo, TaskKept
  <2> QED
    BY <1>6, <2>1, <2>2 DEF Inv, Pids
<1> QED
  BY <1>7, <1>8, <1>9, <1>10, <1>11, <1>12, <1>13 DEF Inv

LEMMA ExitOK == ASSUME Inv, NEW t \in Tasks, Exit(t) PROVE Inv'
<1>1. Pc(t) = "user" /\ OwnT(t) = None
  BY DEF Exit, Trap, At, Free, Pc, OwnT
<1>2. /\ TaskTo(t) /\ St(t)' = "ZOMBIE" /\ Id(t)' = Id(t) /\ Par(t)' = Par(t)
      /\ Sem(t)' = Sem(t) /\ Queued(t)' = Queued(t)
  <2>1. task \in [Tasks -> TaskSet]
    BY Typed DEF Inv
  <2>2. task' = [task EXCEPT ![t].state = "ZOMBIE"]
    BY DEF Exit
  <2> QED
    BY <2>1, <2>2 DEF TaskTo, TaskKept, TaskSet, St, Id, Par, Sem, Queued
<1>3. LocTo(t, "x_wait", Ix(t))
  BY SetLoc DEF Exit, Inv, PCs
<1>4. OwnTTo(t, t)
  BY SetT DEF Exit, Lock, Inv
<1>5. St(t) = "RUNNABLE" /\ ~Queued(t) /\ UNCHANGED <<nextpid, forker>>
  BY <1>1, Start DEF States, ExitPCs, OutPCs, Exit
<1>6. TypeOK'
  BY <1>2, <1>3, <1>4, <1>5, TypeStep DEF TaskTo, LocTo, OwnTTo
<1>7. Locked'
  BY <1>1, <1>2, <1>3, <1>4, Start DEF Locked, TaskTo, TaskKept, LocTo, LocKept, OwnTTo,
     OwnTKept, OwnSKept, ExitPCs, TreePCs, SlotPCs
<1>8. States'
  BY <1>1, <1>2, <1>3, <1>5, Start DEF States, TaskTo, TaskKept, LocTo, LocKept, ExitPCs, OutPCs
<1>9. Others'
  BY <1>1, <1>2, <1>3, <1>5, Start DEF Others, Roused, TaskTo, TaskKept, LocTo, LocKept
<1>10. Places'
  BY <1>1, <1>2, <1>3, Start DEF Places, TaskTo, TaskKept, LocTo, LocKept, SlotPCs
<1>11. Family'
  BY <1>1, <1>2, <1>3, <1>5, Start DEF Family, TaskTo, TaskKept, LocTo, LocKept, OutPCs, RepPCs
<1>12. Pids'
  BY <1>2, <1>3, <1>5, Start, ForksFit DEF Pids, TaskTo, TaskKept
<1> QED
  BY <1>6, <1>7, <1>8, <1>9, <1>10, <1>11, <1>12 DEF Inv

LEMMA ExitWaitLockOK == ASSUME Inv, NEW t \in Tasks, ExitWaitLock(t) PROVE Inv'
<1>1. Pc(t) = "x_wait" /\ OwnW = None
  BY DEF ExitWaitLock, At, Lock, Free, Pc, OwnW
<1>2. task' \in [Tasks -> TaskSet] /\ \A u \in Tasks : TaskKept(u)
  BY Typed DEF ExitWaitLock, Inv, TaskKept, St, Id, Par, Sem, Queued
<1>3. PICK here \in {"x_rep", "x_par"} : /\ LocTo(t, here, 1)
                                         /\ here = "x_par" => Par(t) # None
  <2>1. PICK here \in {"x_rep", "x_par"} : GotoAt(t, here, 1) /\ (here = "x_par" => Par(t) # None)
    BY DEF ExitWaitLock, Par
  <2>2. here \in PCs /\ 1 \in 1 .. NTASK + 1
    BY Sets DEF PCs
  <2> QED
    BY <2>1, <2>2, SetLoc DEF Inv
<1>4. OwnWTo(t)
  BY SetW DEF ExitWaitLock, Lock, Inv
<1>5. UNCHANGED <<nextpid, forker>>
  BY DEF ExitWaitLock
<1>6. TypeOK'
  BY <1>2, <1>3, <1>4, <1>5, TypeStep DEF LocTo, OwnWTo
<1>7. Locked'
  BY <1>1, <1>2, <1>3, <1>4, Start DEF Locked, TaskKept, LocTo, LocKept, OwnWTo,
     OwnTKept, OwnSKept, ExitPCs, TreePCs, SlotPCs
<1>8. States'
  BY <1>1, <1>2, <1>3, Start DEF States, TaskKept, LocTo, LocKept, ExitPCs, OutPCs
<1>9. Others'
  BY <1>1, <1>2, <1>3, Start DEF Others, Roused, TaskKept, LocTo, LocKept
<1>10. Places'
  BY <1>1, <1>2, <1>3, Start DEF Places, TaskKept, LocTo, LocKept, SlotPCs
<1>11. Family'
  <2>1. \A u \in Tasks : ~(u < 1)
    BY Sets
  <2> QED
    BY <1>1, <1>2, <1>3, <1>5, <2>1, Start DEF Family, TaskKept, LocTo, LocKept, OutPCs, RepPCs
<1>12. Pids'
  BY <1>2, <1>3, <1>5, Start, ForksFit DEF Pids, TaskKept
<1> QED
  BY <1>6, <1>7, <1>8, <1>9, <1>10, <1>11, <1>12 DEF Inv

\* lm_V without and with a waiter.
LEMMA VIncEffect ==
  ASSUME Inv, NEW t \in Tasks, NEW u \in Tasks, NEW after \in PCs, NEW wake \in PCs,
         VInc(t, u, after, wake)
  PROVE  /\ OwnS(u) = None /\ TaskTo(u)
         /\ St(u)' = St(u) /\ Id(u)' = Id(u) /\ Par(u)' = Par(u) /\ Sem(u)' = Sem(u) + 1
         /\ ~Queued(u)'
         /\ \/ Sem(u) >= 0 /\ ~Queued(u) /\ LocTo(t, after, Ix(t)) /\ UNCHANGED owner
            \/ /\ Sem(u) = -1 /\ Queued(u) /\ Pc(u) = "p_asleep" /\ St(u) = "SLEEPING"
               /\ LocTo(t, wake, Ix(t)) /\ OwnSTo(u, t)
<1>1. OwnS(u) = None /\ task \in [Tasks -> TaskSet] /\ Sem(u) \in Nat \cup {-1}
  BY Start, Typed DEF VInc, Free, OwnS, Inv
<1>2. PICK m : m = Sem(u) + 1 /\ m \in Nat
  BY <1>1
<1>3. CASE Sem(u) >= 0
  <2>1. /\ task' = [task EXCEPT ![u].sem = m] /\ Goto(t, after) /\ UNCHANGED owner
    BY <1>1, <1>2, <1>3 DEF VInc, Sem
  <2>2. /\ task' \in [Tasks -> TaskSet] /\ (\A v \in Tasks \ {u} : TaskKept(v))
        /\ St(u)' = St(u) /\ Id(u)' = Id(u) /\ Par(u)' = Par(u) /\ Sem(u)' = m
        /\ Queued(u)' = Queued(u)
    BY <1>1, <1>2, <2>1 DEF TaskKept, TaskSet, St, Id, Par, Sem, Queued
  <2>3. LocTo(t, after, Ix(t))
    BY <2>1, SetLoc DEF Inv
  <2>4. ~Queued(u)
    BY <1>3, Start DEF States
  <2> QED
    BY <1>1, <1>2, <1>3, <2>1, <2>2, <2>3, <2>4 DEF TaskTo
<1>4. CASE Sem(u) = -1
  <2>1. /\ task' = [task EXCEPT ![u].sem = m, ![u].queued = FALSE] /\ Goto(t, wake) /\ Lock(t, S(u))
    BY <1>1, <1>2, <1>4 DEF VInc, Sem
  <2>2. /\ task' \in [Tasks -> TaskSet] /\ (\A v \in Tasks \ {u} : TaskKept(v))
        /\ St(u)' = St(u) /\ Id(u)' = Id(u) /\ Par(u)' = Par(u) /\ Sem(u)' = m
        /\ Queued(u)' = FALSE
    <3>1. PICK r : r = [task[u] EXCEPT !.sem = m, !.queued = FALSE]
      OBVIOUS
    <3>2. task \in [Tasks -> TaskSet] /\ task[u] \in TaskSet
      BY <1>1
    <3>3. /\ r \in TaskSet /\ r.state = task[u].state /\ r.id = task[u].id /\ r.parent = task[u].parent
          /\ r.sem = m /\ r.queued = FALSE
      BY <1>2, <3>1, <3>2 DEF TaskSet
    <3>4. task' = [task EXCEPT ![u] = r]
      BY <2>1, <3>1, <3>2 DEF TaskSet
    <3>5. task' \in [Tasks -> TaskSet] /\ task'[u] = r /\ (\A v \in Tasks \ {u} : task'[v] = task[v])
      BY <3>2, <3>3, <3>4
    <3> QED
      BY <3>3, <3>5 DEF TaskKept, St, Id, Par, Sem, Queued
  <2>3. LocTo(t, wake, Ix(t)) /\ OwnSTo(u, t)
    BY <2>1, SetLoc, SetS DEF Inv, Lock
  <2>4. Queued(u) /\ Pc(u) = "p_asleep" /\ St(u) = "SLEEPING"
    BY <1>1, <1>4, Start DEF States, Locked
  <2> QED
    BY <1>1, <1>2, <1>4, <2>2, <2>3, <2>4 DEF TaskTo
<1> QED
  BY <1>1, <1>3, <1>4

\* What exit() and reparent() tell a parent, and where they go then.
Tells(t, u, wake) == \/ Pc(t) = "x_par" /\ Par(t) = u /\ wake = "x_wakepar"
                     \/ Pc(t) = "x_v" /\ u = init /\ wake = "x_wakeinit"

LEMMA TellOK ==
  ASSUME Inv, NEW t \in Tasks, NEW u \in Tasks, NEW wake, Tells(t, u, wake),
         VInc(t, u, "x_rep", wake), UNCHANGED <<nextpid, forker>>
  PROVE  Inv'
<1>1. /\ Pc(t) \in {"x_par", "x_v"} /\ wake \in {"x_wakepar", "x_wakeinit"} /\ wake \in PCs
      /\ "x_rep" \in PCs
  BY DEF PCs, Tells
<1>2. /\ OwnS(u) = None /\ TaskTo(u)
      /\ St(u)' = St(u) /\ Id(u)' = Id(u) /\ Par(u)' = Par(u) /\ Sem(u)' = Sem(u) + 1
      /\ ~Queued(u)'
  BY <1>1, VIncEffect
<1>3. \A v \in Tasks : St(v)' = St(v) /\ Id(v)' = Id(v) /\ Par(v)' = Par(v)
  BY <1>2 DEF TaskTo, TaskKept
<1>4. \A v \in Tasks \ {u} : Sem(v)' = Sem(v) /\ Queued(v)' = Queued(v)
  BY <1>2 DEF TaskTo, TaskKept
<1>5. PICK here \in {"x_rep", wake} : LocTo(t, here, Ix(t))
  BY <1>1, VIncEffect
<1>6. Pc(t)' = here /\ Ix(t)' = Ix(t) /\ \A v \in Tasks \ {t} : LocKept(v)
  BY <1>5 DEF LocTo
<1>7. OwnW = t /\ OwnT(t) = t /\ St(t) = "ZOMBIE"
  BY <1>1, Start DEF Locked, States, TreePCs, ExitPCs
<1>8. \/ here = "x_rep" /\ Sem(u) >= 0 /\ ~Queued(u) /\ UNCHANGED owner
      \/ /\ here = wake /\ Sem(u) = -1 /\ Queued(u) /\ Pc(u) = "p_asleep" /\ St(u) = "SLEEPING"
         /\ OwnSTo(u, t)
  <2>1. \/ Sem(u) >= 0 /\ ~Queued(u) /\ LocTo(t, "x_rep", Ix(t)) /\ UNCHANGED owner
        \/ /\ Sem(u) = -1 /\ Queued(u) /\ Pc(u) = "p_asleep" /\ St(u) = "SLEEPING"
           /\ LocTo(t, wake, Ix(t)) /\ OwnSTo(u, t)
    BY <1>1, VIncEffect
  <2>2. LocTo(t, "x_rep", Ix(t)) => here = "x_rep"
    BY <1>6 DEF LocTo
  <2>3. LocTo(t, wake, Ix(t)) => here = wake
    BY <1>6 DEF LocTo
  <2> QED
    BY <2>1, <2>2, <2>3
<1>9. owner' \in [LockIds -> Tasks \cup {None}] /\ OwnW' = OwnW /\ \A v \in Tasks : OwnTKept(v)
  BY <1>8, OwnersSame, Typed DEF OwnSTo, OwnersKept, Inv
<1>10. TypeOK'
  BY <1>2, <1>5, <1>9, TypeStep DEF TaskTo, LocTo
<1>11. Locked'
  <2>1. \A v, x \in Tasks : OwnT(x)' = v <=> (x = v /\ Pc(v)' \in ExitPCs) \/ (x = Ix(v)' /\ Pc(v)' \in SlotPCs)
    BY <1>1, <1>6, <1>9, Start DEF Locked, LocKept, OwnTKept, ExitPCs, SlotPCs
  <2>2. \A v \in Tasks : OwnW' = v <=> Pc(v)' \in TreePCs
    BY <1>1, <1>6, <1>9, Start DEF Locked, LocKept, TreePCs
  <2>3. \A v, x \in Tasks : OwnS(x)' = v <=> \/ x = Par(v)' /\ Pc(v)' = "x_wakepar"
                                             \/ x = init /\ Pc(v)' = "x_wakeinit"
                                             \/ x = v /\ Pc(v)' = "p_sleep"
    <3>1. CASE here = "x_rep" /\ UNCHANGED owner
      <4>1. \A x \in Tasks : OwnSKept(x)
        BY <3>1, OwnersSame DEF OwnersKept
      <4> QED
        BY <1>1, <1>3, <1>6, <3>1, <4>1, Start DEF Locked, LocKept, OwnSKept
    <3>2. CASE here = wake /\ OwnSTo(u, t)
      BY <1>1, <1>2, <1>3, <1>6, <3>2, Start DEF Locked, LocKept, OwnSTo, OwnSKept, Tells
    <3> QED
      BY <1>8, <3>1, <3>2
  <2> QED
    BY <2>1, <2>2, <2>3 DEF Locked
<1>12. States'
  BY <1>1, <1>2, <1>3, <1>4, <1>6, <1>8, Start DEF States, LocKept, ExitPCs, OutPCs
<1>13. Others'
  BY <1>1, <1>2, <1>3, <1>4, <1>6, <1>8, Start DEF Others, Roused, LocKept, ExitPCs, Tells
<1>14. Places'
  BY <1>1, <1>3, <1>6, Start DEF Places, LocKept, SlotPCs, Tells
<1>15. Family'
  <2>1. Pc(t) = "x_par" => Ix(t) = 1
    BY Start DEF Places
  <2>2. \A v \in Tasks : ~(v < 1)
    BY Sets
  <2> QED
    BY <1>1, <1>3, <1>6, <2>1, <2>2, Start DEF Family, LocKept, OutPCs, RepPCs
<1>16. Pids'
  BY <1>1, <1>3, <1>5, Start, ForksFit DEF Pids
<1> QED
  BY <1>10, <1>11, <1>12, <1>13, <1>14, <1>15, <1>16 DEF Inv

LEMMA ExitTellParentOK == ASSUME Inv, NEW t \in Tasks, ExitTellParent(t) PROVE Inv'
<1>1. Pc(t) = "x_par" /\ UNCHANGED <<nextpid, forker>>
  BY DEF ExitTellParent, At, Pc
<1>2. PICK u \in Tasks : u = Par(t) /\ VInc(t, u, "x_rep", "x_wakepar")
  BY <1>1, Start DEF Places, ExitTellParent, Par
<1>3. Tells(t, u, "x_wakepar")
  BY <1>1, <1>2 DEF Tells
<1> QED
  BY <1>1, <1>2, <1>3, TellOK

LEMMA ReparentTellInitOK == ASSUME Inv, NEW t \in Tasks, ReparentTellInit(t) PROVE Inv'
<1>1. Pc(t) = "x_v" /\ UNCHANGED <<nextpid, forker>> /\ VInc(t, init, "x_rep", "x_wakeinit")
  BY DEF ReparentTellInit, At, Pc
<1>2. Tells(t, init, "x_wakeinit") /\ init \in Tasks
  BY <1>1, Sets DEF Tells
<1> QED
  BY <1>1, <1>2, TellOK

\* The waiter is made runnable again.
Wakes(t, u) == \/ Pc(t) = "x_wakepar" /\ Par(t) = u
               \/ Pc(t) = "x_wakeinit" /\ u = init

LEMMA VWakeEffect ==
  ASSUME Inv, NEW t \in Tasks, NEW u \in Tasks, VWake(t, u, "x_rep")
  PROVE  /\ TaskTo(u) /\ St(u)' = "RUNNABLE" /\ Id(u)' = Id(u) /\ Par(u)' = Par(u)
         /\ Sem(u)' = Sem(u) /\ Queued(u)' = Queued(u)
         /\ OwnSTo(u, None) /\ LocTo(t, "x_rep", Ix(t))
<1>1. task \in [Tasks -> TaskSet] /\ TypeOK /\ "x_rep" \in PCs
  BY Typed DEF Inv, PCs
<1>2. task' = [task EXCEPT ![u].state = "RUNNABLE"] /\ Unlock(S(u)) /\ Goto(t, "x_rep")
  BY DEF VWake
<1>3. OwnSTo(u, None)
  BY <1>1, <1>2, SetS DEF Unlock
<1>4. LocTo(t, "x_rep", Ix(t))
  BY <1>1, <1>2, SetLoc
<1>5. /\ TaskTo(u) /\ St(u)' = "RUNNABLE" /\ Id(u)' = Id(u) /\ Par(u)' = Par(u)
      /\ Sem(u)' = Sem(u) /\ Queued(u)' = Queued(u)
  BY <1>1, <1>2 DEF TaskTo, TaskKept, TaskSet, St, Id, Par, Sem, Queued
<1> QED
  BY <1>3, <1>4, <1>5

LEMMA WakeOK ==
  ASSUME Inv, NEW t \in Tasks, NEW u \in Tasks, Wakes(t, u), VWake(t, u, "x_rep"),
         UNCHANGED <<nextpid, forker>>
  PROVE  Inv'
<1>1. /\ TaskTo(u) /\ St(u)' = "RUNNABLE" /\ Id(u)' = Id(u) /\ Par(u)' = Par(u)
      /\ Sem(u)' = Sem(u) /\ Queued(u)' = Queued(u)
      /\ OwnSTo(u, None) /\ LocTo(t, "x_rep", Ix(t))
  BY VWakeEffect
<1>2. /\ Pc(t) \in {"x_wakepar", "x_wakeinit"} /\ Roused(u) /\ OwnS(u) = t /\ OwnW = t /\ u # t
      /\ (Pc(t) = "x_wakepar" => Ix(t) = 1)
  BY Start DEF Wakes, Others, Locked, Places, Roused, TreePCs
<1>3. Pc(t)' = "x_rep" /\ Ix(t)' = Ix(t) /\ \A v \in Tasks \ {t} : LocKept(v)
  BY <1>1 DEF LocTo
<1>4. \A v \in Tasks \ {u} : TaskKept(v)
  BY <1>1 DEF TaskTo
<1>5. TypeOK'
  BY <1>1, TypeStep DEF TaskTo, LocTo, OwnSTo
<1>6. Locked'
  BY <1>1, <1>2, <1>3, <1>4, Start DEF Locked, TaskKept, LocKept, OwnSTo, OwnTKept, OwnSKept,
     ExitPCs, TreePCs, SlotPCs, Wakes
<1>7. States'
  BY <1>1, <1>2, <1>3, <1>4, Start DEF States, Roused, TaskKept, LocKept, ExitPCs, OutPCs
<1>8. Others'
  <2>1. \A v \in Tasks \ {t} : Pc(v) \notin {"x_wakepar", "x_wakeinit"}
    BY <1>2, Start DEF Locked, TreePCs
  <2> QED
    BY <1>1, <1>2, <1>3, <1>4, <2>1, Start DEF Others, Roused, TaskKept, LocKept
<1>9. Places'
  BY <1>1, <1>2, <1>3, <1>4, Start DEF Places, TaskKept, LocKept, SlotPCs
<1>10. Family'
  <2>1. \A v \in Tasks : ~(v < 1)
    BY Sets
  <2> QED
    BY <1>1, <1>2, <1>3, <1>4, <2>1, Start DEF Family, Roused, TaskKept, LocKept, OutPCs, RepPCs
<1>11. Pids'
  BY <1>1, <1>2, <1>4, Start, ForksFit DEF Pids, TaskKept, Roused
<1> QED
  BY <1>5, <1>6, <1>7, <1>8, <1>9, <1>10, <1>11 DEF Inv

LEMMA ExitWakeParentOK == ASSUME Inv, NEW t \in Tasks, ExitWakeParent(t) PROVE Inv'
<1>1. Pc(t) = "x_wakepar" /\ UNCHANGED <<nextpid, forker>>
  BY DEF ExitWakeParent, At, Pc
<1>2. PICK u \in Tasks : u = Par(t) /\ VWake(t, u, "x_rep")
  BY <1>1, Start DEF Places, ExitWakeParent, Par
<1>3. Wakes(t, u)
  BY <1>1, <1>2 DEF Wakes
<1> QED
  BY <1>1, <1>2, <1>3, WakeOK

LEMMA ReparentWakeInitOK == ASSUME Inv, NEW t \in Tasks, ReparentWakeInit(t) PROVE Inv'
<1>1. Pc(t) = "x_wakeinit" /\ UNCHANGED <<nextpid, forker>> /\ VWake(t, init, "x_rep")
  BY DEF ReparentWakeInit, At, Pc
<1>2. Wakes(t, init) /\ init \in Tasks
  BY <1>1, Sets DEF Wakes
<1> QED
  BY <1>1, <1>2, WakeOK

LEMMA MinIn ==
  ASSUME NEW X, X \subseteq Nat, X # {}
  PROVE  Min(X) \in X /\ \A y \in X : Min(X) <= y
<1> DEFINE R == {ss \in Nat \X Nat : ss[1] < ss[2]}
<1>1. IsWellFoundedOn(R, Nat)
  BY NatLessThanWellFounded DEF OpToRel
<1> HIDE DEF R
<1>2. PICK x \in X : \A y \in X : ~(<<y, x>> \in R)
  BY <1>1, WFMin
<1>3. ASSUME NEW y \in X PROVE x <= y
  <2>1. x \in Nat /\ y \in Nat
    OBVIOUS
  <2>2. y < x => <<y, x>> \in R
    BY <2>1 DEF R
  <2> QED
    BY <1>2, <2>1, <2>2
<1> QED
  BY <1>3 DEF Min

\* The next child is given to tasks[0].
LEMMA ReparentEffect ==
  ASSUME Inv, NEW t \in Tasks, Reparent(t)
  PROVE  \E p \in Tasks :
            /\ Pc(t) = "x_rep" /\ Par(p) = t /\ p # t /\ p >= Ix(t)
            /\ \A q \in Tasks : q >= Ix(t) /\ Par(q) = t => p <= q
            /\ TaskTo(p) /\ St(p)' = St(p) /\ Id(p)' = Id(p) /\ Par(p)' = init
            /\ Sem(p)' = Sem(p) /\ Queued(p)' = Queued(p)
            /\ LocTo(t, "x_v", p + 1) /\ UNCHANGED <<owner, nextpid, forker>>
<1>1. Pc(t) = "x_rep" /\ Orphans(t) # {} /\ UNCHANGED <<owner, nextpid, forker>>
  BY DEF Reparent, At, Pc
<1>2. Orphans(t) = {p \in Tasks : p >= Ix(t) /\ p # t /\ Par(p) = t}
  BY Start, Sets DEF Orphans, Ix, Par
<1>3. Orphans(t) \subseteq Nat
  BY <1>2, Sets
<1>4. PICK p \in Orphans(t) : p = Min(Orphans(t)) /\ \A q \in Orphans(t) : p <= q
  BY <1>1, <1>3, MinIn
<1>5. p \in Tasks /\ p >= Ix(t) /\ p # t /\ Par(p) = t
  BY <1>2, <1>4
<1>6. task' = [task EXCEPT ![p].parent = init] /\ GotoAt(t, "x_v", p + 1)
  BY <1>4 DEF Reparent
<1>7. /\ TaskTo(p) /\ St(p)' = St(p) /\ Id(p)' = Id(p) /\ Par(p)' = init
      /\ Sem(p)' = Sem(p) /\ Queued(p)' = Queued(p)
  <2>1. task \in [Tasks -> TaskSet] /\ init \in Tasks
    BY Typed, Sets DEF Inv
  <2> QED
    BY <1>5, <1>6, <2>1 DEF TaskTo, TaskKept, TaskSet, St, Id, Par, Sem, Queued
<1>8. LocTo(t, "x_v", p + 1)
  <2>1. p + 1 \in 1 .. NTASK + 1 /\ "x_v" \in PCs /\ TypeOK
    BY <1>5, Sets DEF PCs, Inv
  <2> QED
    BY <1>6, <2>1, SetLoc
<1>9. \A q \in Tasks : q >= Ix(t) /\ Par(q) = t => p <= q
  <2>1. Par(t) # t
    BY Start DEF Family
  <2> QED
    BY <1>2, <1>4, <2>1
<1> QED
  BY <1>1, <1>5, <1>7, <1>8, <1>9

LEMMA ReparentOK == ASSUME Inv, NEW t \in Tasks, Reparent(t) PROVE Inv'
<1>1. PICK p \in Tasks :
            /\ Pc(t) = "x_rep" /\ Par(p) = t /\ p # t /\ p >= Ix(t)
            /\ \A q \in Tasks : q >= Ix(t) /\ Par(q) = t => p <= q
            /\ TaskTo(p) /\ St(p)' = St(p) /\ Id(p)' = Id(p) /\ Par(p)' = init
            /\ Sem(p)' = Sem(p) /\ Queued(p)' = Queued(p)
            /\ LocTo(t, "x_v", p + 1) /\ UNCHANGED <<owner, nextpid, forker>>
  BY ReparentEffect
<1>2. Pc(t)' = "x_v" /\ Ix(t)' = p + 1 /\ \A v \in Tasks \ {t} : LocKept(v)
  BY <1>1 DEF LocTo
<1>3. /\ \A v \in Tasks : St(v)' = St(v) /\ Id(v)' = Id(v) /\ Sem(v)' = Sem(v) /\ Queued(v)' = Queued(v)
      /\ \A v \in Tasks \ {p} : Par(v)' = Par(v)
  BY <1>1 DEF TaskTo, TaskKept
<1>4. OwnW' = OwnW /\ \A v \in Tasks : OwnTKept(v) /\ OwnSKept(v)
  BY <1>1, OwnersSame DEF OwnersKept
<1>5. /\ OwnW = t /\ p # init /\ St(p) \notin {"DEAD", "USED"}
      /\ \A v \in Tasks \ {t} : Pc(v) \notin TreePCs
  BY <1>1, Start DEF Locked, TreePCs, Family
<1>6. TypeOK'
  BY <1>1, Typed, TypeStep DEF TaskTo, LocTo, Inv
<1>7. Locked'
  BY <1>1, <1>2, <1>3, <1>4, <1>5, Start DEF Locked, LocKept, OwnTKept, OwnSKept, ExitPCs, TreePCs, SlotPCs
<1>8. States'
  BY <1>1, <1>2, <1>3, Start DEF States, LocKept, ExitPCs, OutPCs
<1>9. Others'
  BY <1>1, <1>2, <1>3, <1>5, Start DEF Others, Roused, LocKept, TreePCs
<1>10. Places'
  BY <1>1, <1>2, <1>3, <1>5, Start DEF Places, LocKept, SlotPCs, TreePCs
<1>11. Family'
  <2>1. \A q \in Tasks : q < p + 1 => q = p \/ q < p
    BY Sets
  <2>2. \A q \in Tasks : q < p /\ t # init => Par(q) # t
    BY <1>1, Start DEF Family, RepPCs
  <2>3. \A u \in Tasks : u # init /\ Pc(u)' \in RepPCs => u = t
    BY <1>2, <1>5 DEF LocKept, RepPCs, TreePCs
  <2>4. \A u \in Tasks \ {init}, q \in Tasks : Pc(u)' \in RepPCs /\ q < Ix(u)' => Par(q)' # u
    BY <1>1, <1>2, <1>3, <2>1, <2>2, <2>3
  <2>5. \A u \in Tasks \ {init}, q \in Tasks : Pc(u)' \in OutPCs \cup {"x_gone"} => Par(q)' # u
    BY <1>1, <1>2, <1>3, Start DEF Family, OutPCs, LocKept
  <2>6. \A u, q \in Tasks : Par(q)' = u /\ u # init => Id(u)' = forker'[q]
    BY <1>1, <1>3, Start DEF Family
  <2>7. \A q \in Tasks : Par(q)' # q /\ (St(q)' \in {"DEAD", "USED"} => Par(q)' = None)
    BY <1>1, <1>3, <1>5, Start DEF Family
  <2>8. Par(init)' = None /\ St(init)' \notin {"DEAD", "USED"}
    BY <1>3, <1>5, Start DEF Family
  <2> QED
    BY <2>4, <2>5, <2>6, <2>7, <2>8, Zenon DEF Family
<1>12. Pids'
  BY <1>1, <1>3, Start, ForksFit DEF Pids
<1> QED
  BY <1>6, <1>7, <1>8, <1>9, <1>10, <1>11, <1>12 DEF Inv

LEMMA ReparentDoneOK == ASSUME Inv, NEW t \in Tasks, ReparentDone(t) PROVE Inv'
<1>1. Pc(t) = "x_rep" /\ Orphans(t) = {} /\ UNCHANGED <<nextpid, forker>>
  BY DEF ReparentDone, At, Pc
<1>2. task' \in [Tasks -> TaskSet] /\ \A u \in Tasks : TaskKept(u)
  BY Typed DEF ReparentDone, Inv, TaskKept, St, Id, Par, Sem, Queued
<1>3. LocTo(t, "x_gone", 1)
  <2>1. 1 \in 1 .. NTASK + 1 /\ "x_gone" \in PCs /\ TypeOK
    BY Sets DEF PCs, Inv
  <2> QED
    BY <2>1, SetLoc DEF ReparentDone
<1>4. OwnWTo(None)
  BY SetW DEF ReparentDone, Unlock, Inv
<1>5. t # init => \A p \in Tasks : Par(p) # t
  <2>1. \A p \in Tasks : p >= Ix(t) /\ p # t => Par(p) # t
    BY <1>1, Start, Sets DEF Orphans, Ix, Par
  <2>2. \A p \in Tasks : p >= Ix(t) \/ p < Ix(t)
    BY Start
  <2> QED
    BY <1>1, <2>1, <2>2, Start DEF Family, RepPCs
<1>6. OwnW = t /\ \A u \in Tasks \ {t} : Pc(u) \notin TreePCs
  BY <1>1, Start DEF Locked, TreePCs
<1>7. TypeOK'
  BY <1>1, <1>2, <1>3, <1>4, TypeStep DEF LocTo, OwnWTo
<1>8. Locked'
  BY <1>1, <1>2, <1>3, <1>4, <1>6, Start DEF Locked, TaskKept, LocTo, LocKept, OwnWTo,
     OwnTKept, OwnSKept, ExitPCs, TreePCs, SlotPCs
<1>9. States'
  BY <1>1, <1>2, <1>3, Start DEF States, TaskKept, LocTo, LocKept, ExitPCs, OutPCs
<1>10. Others'
  BY <1>1, <1>2, <1>3, Start DEF Others, Roused, TaskKept, LocTo, LocKept
<1>11. Places'
  BY <1>1, <1>2, <1>3, Start DEF Places, TaskKept, LocTo, LocKept, SlotPCs
<1>12. Family'
  BY <1>1, <1>2, <1>3, <1>5, Start DEF Family, TaskKept, LocTo, LocKept, OutPCs, RepPCs
<1>13. Pids'
  BY <1>1, <1>2, <1>3, Start, ForksFit DEF Pids, TaskKept
<1> QED
  BY <1>7, <1>8, <1>9, <1>10, <1>11, <1>12, <1>13 DEF Inv

LEMMA ExitSwtchOK == ASSUME Inv, NEW t \in Tasks, ExitSwtch(t) PROVE Inv'
<1>1. Pc(t) = "x_gone" /\ UNCHANGED <<nextpid, forker>>
  BY DEF ExitSwtch, At, Pc
<1>2. task' \in [Tasks -> TaskSet] /\ \A u \in Tasks : TaskKept(u)
  BY Typed DEF ExitSwtch, Inv, TaskKept, St, Id, Par, Sem, Queued
<1>3. LocTo(t, "gone", Ix(t))
  BY SetLoc DEF ExitSwtch, Inv, PCs
<1>4. OwnTTo(t, None)
  BY SetT DEF ExitSwtch, Unlock, Inv
<1>5. OwnT(t) = t /\ St(t) = "ZOMBIE"
  BY <1>1, Start DEF Locked, States, ExitPCs
<1>6. TypeOK'
  BY <1>1, <1>2, <1>3, <1>4, TypeStep DEF LocTo, OwnTTo
<1>7. Locked'
  BY <1>1, <1>2, <1>3, <1>4, <1>5, Start DEF Locked, TaskKept, LocTo, LocKept, OwnTTo,
     OwnTKept, OwnSKept, ExitPCs, TreePCs, SlotPCs
<1>8. States'
  BY <1>1, <1>2, <1>3, <1>5, Start DEF States, TaskKept, LocTo, LocKept, ExitPCs, OutPCs
<1>9. Others'
  BY <1>1, <1>2, <1>3, Start DEF Others, Roused, TaskKept, LocTo, LocKept
<1>10. Places'
  BY <1>1, <1>2, <1>3, Start DEF Places, TaskKept, LocTo, LocKept, SlotPCs
<1>11. Family'
  BY <1>1, <1>2, <1>3, Start DEF Family, TaskKept, LocTo, LocKept, OutPCs, RepPCs
<1>12. Pids'
  BY <1>1, <1>2, <1>3, Start, ForksFit DEF Pids, TaskKept
<1> QED
  BY <1>6, <1>7, <1>8, <1>9, <1>10, <1>11, <1>12 DEF Inv

\* lm_P of wait: a token is taken, or the task goes onto the list.
LEMMA WaitPEffect ==
  ASSUME Inv, NEW t \in Tasks, WaitP(t)
  PROVE  /\ Pc(t) = "p_lock" /\ OwnS(t) = None /\ Sem(t) >= 0 /\ ~Queued(t) /\ St(t) = "RUNNABLE"
         /\ TaskTo(t) /\ St(t)' = St(t) /\ Id(t)' = Id(t) /\ Par(t)' = Par(t) /\ Sem(t)' = Sem(t) - 1
         /\ UNCHANGED <<nextpid, forker>>
         /\ \/ Sem(t) > 0 /\ ~Queued(t)' /\ LocTo(t, "w_scan", 1) /\ UNCHANGED owner
            \/ Sem(t) = 0 /\ Queued(t)' = TRUE /\ LocTo(t, "p_sleep", Ix(t)) /\ OwnSTo(t, t)
<1>1. /\ Pc(t) = "p_lock" /\ OwnS(t) = None /\ task \in [Tasks -> TaskSet] /\ TypeOK
      /\ UNCHANGED <<nextpid, forker>>
  BY Typed DEF WaitP, At, Free, Pc, OwnS, Inv
<1>2. Sem(t) \in Nat /\ ~Queued(t) /\ St(t) = "RUNNABLE"
  BY <1>1, Start DEF States, ExitPCs, OutPCs
<1>3. PICK m : m = Sem(t) - 1 /\ m \in Nat \cup {-1}
  BY <1>2
<1>4. CASE Sem(t) > 0
  <2>1. task' = [task EXCEPT ![t].sem = m] /\ GotoAt(t, "w_scan", 1) /\ UNCHANGED owner
    BY <1>3, <1>4 DEF WaitP, Sem
  <2>2. /\ task' \in [Tasks -> TaskSet] /\ (\A v \in Tasks \ {t} : TaskKept(v))
        /\ St(t)' = St(t) /\ Id(t)' = Id(t) /\ Par(t)' = Par(t) /\ Sem(t)' = m
        /\ Queued(t)' = Queued(t)
    BY <1>1, <1>3, <2>1 DEF TaskKept, TaskSet, St, Id, Par, Sem, Queued
  <2>3. LocTo(t, "w_scan", 1)
    <3>1. 1 \in 1 .. NTASK + 1 /\ "w_scan" \in PCs
      BY Sets DEF PCs
    <3> QED
      BY <1>1, <2>1, <3>1, SetLoc
  <2> QED
    BY <1>1, <1>2, <1>3, <1>4, <2>1, <2>2, <2>3 DEF TaskTo
<1>5. CASE ~(Sem(t) > 0)
  <2>1. task' = [task EXCEPT ![t].sem = m, ![t].queued = TRUE] /\ Goto(t, "p_sleep") /\ Lock(t, S(t))
    BY <1>3, <1>5 DEF WaitP, Sem
  <2>2. /\ task' \in [Tasks -> TaskSet] /\ (\A v \in Tasks \ {t} : TaskKept(v))
        /\ St(t)' = St(t) /\ Id(t)' = Id(t) /\ Par(t)' = Par(t) /\ Sem(t)' = m
        /\ Queued(t)' = TRUE
    <3>1. PICK r : r = [task[t] EXCEPT !.sem = m, !.queued = TRUE]
      OBVIOUS
    <3>2. task[t] \in TaskSet
      BY <1>1
    <3>3. /\ r \in TaskSet /\ r.state = task[t].state /\ r.id = task[t].id /\ r.parent = task[t].parent
          /\ r.sem = m /\ r.queued = TRUE
      BY <1>3, <3>1, <3>2 DEF TaskSet
    <3>4. task' = [task EXCEPT ![t] = r]
      BY <1>1, <2>1, <3>1, <3>2 DEF TaskSet
    <3>5. task' \in [Tasks -> TaskSet] /\ task'[t] = r /\ (\A v \in Tasks \ {t} : task'[v] = task[v])
      BY <1>1, <3>3, <3>4
    <3> QED
      BY <3>3, <3>5 DEF TaskKept, St, Id, Par, Sem, Queued
  <2>3. LocTo(t, "p_sleep", Ix(t)) /\ OwnSTo(t, t)
    BY <1>1, <2>1, SetLoc, SetS DEF Lock, PCs
  <2>4. Sem(t) = 0
    BY <1>2, <1>5
  <2> QED
    BY <1>1, <1>2, <1>3, <2>2, <2>3, <2>4 DEF TaskTo
<1> QED
  BY <1>4, <1>5

LEMMA WaitPOK == ASSUME Inv, NEW t \in Tasks, WaitP(t) PROVE Inv'
<1>1. /\ Pc(t) = "p_lock" /\ OwnS(t) = None /\ Sem(t) >= 0 /\ ~Queued(t) /\ St(t) = "RUNNABLE"
      /\ TaskTo(t) /\ St(t)' = St(t) /\ Id(t)' = Id(t) /\ Par(t)' = Par(t) /\ Sem(t)' = Sem(t) - 1
      /\ UNCHANGED <<nextpid, forker>>
  BY WaitPEffect
<1>2. \A u \in Tasks \ {t} : TaskKept(u)
  BY <1>1 DEF TaskTo
<1>3. CASE Sem(t) > 0 /\ ~Queued(t)' /\ LocTo(t, "w_scan", 1) /\ UNCHANGED owner
  <2>1. OwnW' = OwnW /\ \A u \in Tasks : OwnTKept(u) /\ OwnSKept(u)
    BY <1>3, OwnersSame DEF OwnersKept
  <2>2. Pc(t)' = "w_scan" /\ \A u \in Tasks \ {t} : LocKept(u)
    BY <1>3 DEF LocTo
  <2>3. TypeOK'
    BY <1>1, <1>3, Typed, TypeStep DEF TaskTo, LocTo, Inv
  <2>4. Locked'
    BY <1>1, <1>2, <2>1, <2>2, Start DEF Locked, TaskKept, LocKept, OwnTKept, OwnSKept, ExitPCs, TreePCs, SlotPCs
  <2>5. States'
    BY <1>1, <1>2, <1>3, <2>2, Start DEF States, TaskKept, LocKept, ExitPCs, OutPCs
  <2>6. Others'
    BY <1>1, <1>2, <2>2, Start DEF Others, Roused, TaskKept, LocKept
  <2>7. Places'
    BY <1>1, <1>2, <2>2, Start DEF Places, TaskKept, LocKept, SlotPCs
  <2>8. Family'
    BY <1>1, <1>2, <2>2, Start DEF Family, TaskKept, LocKept, OutPCs, RepPCs
  <2>9. Pids'
    BY <1>1, <1>2, <1>3, Start, ForksFit DEF Pids, TaskKept
  <2> QED
    BY <2>3, <2>4, <2>5, <2>6, <2>7, <2>8, <2>9 DEF Inv
<1>4. CASE Sem(t) = 0 /\ Queued(t)' = TRUE /\ LocTo(t, "p_sleep", Ix(t)) /\ OwnSTo(t, t)
  <2>2. Pc(t)' = "p_sleep" /\ \A u \in Tasks \ {t} : LocKept(u)
    BY <1>4 DEF LocTo
  <2>3. TypeOK'
    BY <1>1, <1>4, TypeStep DEF TaskTo, LocTo, OwnSTo
  <2>4. Locked'
    BY <1>1, <1>2, <1>4, <2>2, Start DEF Locked, TaskKept, LocKept, OwnSTo, OwnTKept, OwnSKept,
       ExitPCs, TreePCs, SlotPCs
  <2>5. States'
    BY <1>1, <1>2, <1>4, <2>2, Start DEF States, TaskKept, LocKept, ExitPCs, OutPCs
  <2>6. Others'
    BY <1>1, <1>2, <2>2, Start DEF Others, Roused, TaskKept, LocKept
  <2>7. Places'
    BY <1>1, <1>2, <2>2, Start DEF Places, TaskKept, LocKept, SlotPCs
  <2>8. Family'
    BY <1>1, <1>2, <2>2, Start DEF Family, TaskKept, LocKept, OutPCs, RepPCs
  <2>9. Pids'
    BY <1>1, <1>2, <1>4, Start, ForksFit DEF Pids, TaskKept
  <2> QED
    BY <2>3, <2>4, <2>5, <2>6, <2>7, <2>8, <2>9 DEF Inv
<1> QED
  BY <1>3, <1>4, WaitPEffect

LEMMA WaitSleepOK == ASSUME Inv, NEW t \in Tasks, WaitSleep(t) PROVE Inv'
<1>1. Pc(t) = "p_sleep" /\ UNCHANGED <<nextpid, forker>>
  BY DEF WaitSleep, At, Pc
<1>2. Queued(t) /\ St(t) = "RUNNABLE" /\ OwnS(t) = t
  BY <1>1, Start DEF States, Locked, ExitPCs, OutPCs
<1>3. /\ TaskTo(t) /\ St(t)' = "SLEEPING" /\ Id(t)' = Id(t) /\ Par(t)' = Par(t)
      /\ Sem(t)' = Sem(t) /\ Queued(t)' = Queued(t)
  <2>1. task \in [Tasks -> TaskSet] /\ task' = [task EXCEPT ![t].state = "SLEEPING"]
    BY Typed DEF WaitSleep, Inv
  <2> QED
    BY <2>1 DEF TaskTo, TaskKept, TaskSet, St, Id, Par, Sem, Queued
<1>4. LocTo(t, "p_asleep", Ix(t))
  BY SetLoc DEF WaitSleep, Inv, PCs
<1>5. OwnSTo(t, None)
  BY SetS DEF WaitSleep, Unlock, Inv
<1>6. TypeOK'
  BY <1>1, <1>3, <1>4, <1>5, TypeStep DEF TaskTo, LocTo, OwnSTo
<1>7. Locked'
  BY <1>1, <1>2, <1>3, <1>4, <1>5, Start DEF Locked, TaskTo, TaskKept, LocTo, LocKept, OwnSTo,
     OwnTKept, OwnSKept, ExitPCs, TreePCs, SlotPCs
<1>8. States'
  <2>1. Sem(t) = -1
    BY <1>2, Start DEF States
  <2>2. Pc(t)' = "p_asleep" /\ St(t)' = "SLEEPING" /\ Sem(t)' = -1 /\ Queued(t)' = TRUE
    BY <1>2, <1>3, <1>4, <2>1, Start DEF LocTo
  <2>3. \A u \in Tasks \ {t} : TaskKept(u) /\ LocKept(u)
    BY <1>3, <1>4 DEF TaskTo, LocTo
  <2> QED
    BY <2>2, <2>3, Start DEF States, TaskKept, LocKept, ExitPCs, OutPCs
<1>9. Others'
  BY <1>1, <1>2, <1>3, <1>4, Start DEF Others, Roused, TaskTo, TaskKept, LocTo, LocKept
<1>10. Places'
  BY <1>1, <1>3, <1>4, Start DEF Places, TaskTo, TaskKept, LocTo, LocKept, SlotPCs
<1>11. Family'
  BY <1>1, <1>2, <1>3, <1>4, Start DEF Family, TaskTo, TaskKept, LocTo, LocKept, OutPCs, RepPCs
<1>12. Pids'
  <2>1. nextpid' + Cardinality(Forking') <= MaxPid + NTASK
    BY <1>1, <1>4, ForksFit
  <2>2. \A u \in Tasks : Id(u)' < nextpid' /\ (St(u)' # "DEAD" => Id(u)' >= 1)
    BY <1>1, <1>2, <1>3, Start DEF TaskTo, TaskKept
  <2> QED
    BY <2>1, <2>2 DEF Pids
<1> QED
  BY <1>6, <1>7, <1>8, <1>9, <1>10, <1>11, <1>12 DEF Inv

LEMMA WaitZombieOK == ASSUME Inv, NEW t \in Tasks, WaitZombie(t) PROVE Inv'
<1>1. PICK k \in Tasks : k = Ix(t) /\ St(k) = "ZOMBIE" /\ OwnT(k) = None /\ Pc(t) = "w_scan"
  BY Start, Sets DEF WaitZombie, At, Lock, Free, Ix, Pc, St, OwnT
<1>2. task' \in [Tasks -> TaskSet] /\ \A u \in Tasks : TaskKept(u)
  BY Typed DEF WaitZombie, Inv, TaskKept, St, Id, Par, Sem, Queued
<1>3. LocTo(t, "w_zombie", k)
  BY <1>1, SetLoc DEF WaitZombie, Inv, PCs
<1>4. OwnTTo(k, t)
  BY <1>1, SetT DEF WaitZombie, Lock, Inv, Ix
<1>5. UNCHANGED <<nextpid, forker>> /\ St(t) = "RUNNABLE"
  BY <1>1, Start DEF WaitZombie, States, ExitPCs, OutPCs
<1>6. TypeOK'
  BY <1>2, <1>3, <1>4, <1>5, TypeStep DEF LocTo, OwnTTo
<1>7. Locked'
  BY <1>1, <1>2, <1>3, <1>4, Start DEF Locked, TaskKept, LocTo, LocKept, OwnTTo,
     OwnTKept, OwnSKept, ExitPCs, TreePCs, SlotPCs
<1>8. States'
  BY <1>1, <1>2, <1>3, Start DEF States, TaskKept, LocTo, LocKept, ExitPCs, OutPCs
<1>9. Others'
  BY <1>1, <1>2, <1>3, Start DEF Others, Roused, TaskKept, LocTo, LocKept
<1>10. Places'
  BY <1>1, <1>2, <1>3, Start DEF Places, TaskKept, LocTo, LocKept, SlotPCs
<1>11. Family'
  BY <1>1, <1>2, <1>3, <1>5, Start DEF Family, TaskKept, LocTo, LocKept, OutPCs, RepPCs
<1>12. Pids'
  BY <1>1, <1>2, <1>3, <1>5, Start, ForksFit DEF Pids, TaskKept
<1> QED
  BY <1>6, <1>7, <1>8, <1>9, <1>10, <1>11, <1>12 DEF Inv

\* The zombie whose slot a wait has locked has left its stack.
LEMMA ZombieGone ==
  ASSUME Inv, NEW t \in Tasks, Pc(t) = "w_zombie"
  PROVE  \E k \in Tasks : /\ k = Ix(t) /\ St(k) = "ZOMBIE" /\ OwnT(k) = t /\ Pc(k) = "gone" /\ k # t
                          /\ \A u \in Tasks \ {t} : Pc(u) \in SlotPCs => Ix(u) # k
<1>1. PICK k \in Tasks : k = Ix(t) /\ St(k) = "ZOMBIE" /\ OwnT(k) = t
  BY Start DEF Places, Others, Locked, SlotPCs
<1>2. k # t /\ Pc(k) = "gone"
  BY <1>1, Start DEF States, Locked, ExitPCs, OutPCs
<1>3. \A u \in Tasks \ {t} : Pc(u) \in SlotPCs => Ix(u) # k
  BY <1>1, Start DEF Locked
<1> QED
  BY <1>1, <1>2, <1>3

LEMMA WaitNotMineOK == ASSUME Inv, NEW t \in Tasks, WaitNotMine(t) PROVE Inv'
<1>0. Pc(t) = "w_zombie"
  BY DEF WaitNotMine, At, Pc
<1>1. PICK k \in Tasks : k = Ix(t) /\ St(k) = "ZOMBIE" /\ OwnT(k) = t /\ Pc(k) = "gone" /\ k # t
  BY <1>0, ZombieGone
<1>2. task' \in [Tasks -> TaskSet] /\ \A u \in Tasks : TaskKept(u)
  BY Typed DEF WaitNotMine, Inv, TaskKept, St, Id, Par, Sem, Queued
<1>3. LocTo(t, "w_scan", k + 1)
  <2>1. k + 1 \in 1 .. NTASK + 1 /\ "w_scan" \in PCs /\ TypeOK
    BY Sets DEF PCs, Inv
  <2>2. GotoAt(t, "w_scan", k + 1)
    BY <1>1 DEF WaitNotMine, Ix
  <2> QED
    BY <2>1, <2>2, SetLoc
<1>4. OwnTTo(k, None)
  BY <1>1, SetT DEF WaitNotMine, Unlock, Inv, Ix
<1>5. UNCHANGED <<nextpid, forker>> /\ St(t) = "RUNNABLE" /\ ~Queued(t)
  BY <1>0, Start DEF WaitNotMine, States, ExitPCs, OutPCs
<1>6. TypeOK'
  BY <1>2, <1>3, <1>4, <1>5, TypeStep DEF LocTo, OwnTTo
<1>7. Locked'
  BY <1>0, <1>1, <1>2, <1>3, <1>4, Start DEF Locked, TaskKept, LocTo, LocKept, OwnTTo,
     OwnTKept, OwnSKept, ExitPCs, TreePCs, SlotPCs
<1>8. States'
  BY <1>0, <1>2, <1>3, <1>5, Start DEF States, TaskKept, LocTo, LocKept, ExitPCs, OutPCs
<1>9. Others'
  BY <1>0, <1>2, <1>3, Start DEF Others, Roused, TaskKept, LocTo, LocKept
<1>10. Places'
  BY <1>0, <1>2, <1>3, Start DEF Places, TaskKept, LocTo, LocKept, SlotPCs
<1>11. Family'
  BY <1>0, <1>2, <1>3, <1>5, Start DEF Family, TaskKept, LocTo, LocKept, OutPCs, RepPCs
<1>12. Pids'
  BY <1>0, <1>2, <1>3, <1>5, Start, ForksFit DEF Pids, TaskKept
<1> QED
  BY <1>6, <1>7, <1>8, <1>9, <1>10, <1>11, <1>12 DEF Inv

LEMMA WaitReapEffect ==
  ASSUME Inv, NEW t \in Tasks, WaitReap(t)
  PROVE  \E k \in Tasks :
           /\ Pc(t) = "w_zombie" /\ k = Ix(t) /\ St(k) = "ZOMBIE" /\ OwnT(k) = t /\ Pc(k) = "gone"
           /\ k # t /\ Par(k) = t /\ OwnW = None
           /\ \A u \in Tasks \ {t} : Pc(u) \in SlotPCs => Ix(u) # k
           /\ TaskTo(k) /\ St(k)' = "DEAD" /\ Id(k)' = -1 /\ Par(k)' = None
           /\ Sem(k)' = Sem(k) /\ Queued(k)' = Queued(k)
           /\ LocTo(t, "user", 1) /\ OwnTTo(k, None) /\ UNCHANGED <<nextpid, forker>>
<1>0. Pc(t) = "w_zombie" /\ OwnW = None /\ UNCHANGED <<nextpid, forker>>
  BY DEF WaitReap, At, Pc, Free, OwnW
<1>1. PICK k \in Tasks : /\ k = Ix(t) /\ St(k) = "ZOMBIE" /\ OwnT(k) = t /\ Pc(k) = "gone" /\ k # t
                         /\ \A u \in Tasks \ {t} : Pc(u) \in SlotPCs => Ix(u) # k
  BY <1>0, ZombieGone
<1>2. Par(k) = t
  BY <1>1 DEF WaitReap, Ix, Par
<1>3. /\ TaskTo(k) /\ St(k)' = "DEAD" /\ Id(k)' = -1 /\ Par(k)' = None
      /\ Sem(k)' = Sem(k) /\ Queued(k)' = Queued(k)
  <2>1. task \in [Tasks -> TaskSet] /\ -1 \in -1 .. MaxPid + NTASK
    BY Typed, Sets DEF Inv
  <2>2. task' = [task EXCEPT ![k].state = "DEAD", ![k].id = -1, ![k].parent = None]
    BY <1>1 DEF WaitReap, free_task, Ix
  <2>3. PICK r : r = [task[k] EXCEPT !.state = "DEAD", !.id = -1, !.parent = None]
    OBVIOUS
  <2>4. task[k] \in TaskSet
    BY <2>1
  <2>5. /\ r \in TaskSet /\ r.state = "DEAD" /\ r.id = -1 /\ r.parent = None
        /\ r.sem = task[k].sem /\ r.queued = task[k].queued
    BY <2>1, <2>3, <2>4 DEF TaskSet
  <2>6. task' = [task EXCEPT ![k] = r]
    BY <2>1, <2>2, <2>3, <2>4 DEF TaskSet
  <2>7. task' \in [Tasks -> TaskSet] /\ task'[k] = r /\ (\A v \in Tasks \ {k} : task'[v] = task[v])
    BY <2>1, <2>5, <2>6
  <2> QED
    BY <2>5, <2>7 DEF TaskTo, TaskKept, St, Id, Par, Sem, Queued
<1>4. LocTo(t, "user", 1)
  <2>1. 1 \in 1 .. NTASK + 1 /\ "user" \in PCs /\ TypeOK
    BY Sets DEF PCs, Inv
  <2> QED
    BY <2>1, SetLoc DEF WaitReap
<1>5. OwnTTo(k, None)
  BY <1>1, SetT DEF WaitReap, Unlock, Inv, Ix
<1> QED
  BY <1>0, <1>1, <1>2, <1>3, <1>4, <1>5

LEMMA WaitReapOK == ASSUME Inv, NEW t \in Tasks, WaitReap(t) PROVE Inv'
<1>1. PICK k \in Tasks :
           /\ Pc(t) = "w_zombie" /\ k = Ix(t) /\ St(k) = "ZOMBIE" /\ OwnT(k) = t /\ Pc(k) = "gone"
           /\ k # t /\ Par(k) = t /\ OwnW = None
           /\ \A u \in Tasks \ {t} : Pc(u) \in SlotPCs => Ix(u) # k
           /\ TaskTo(k) /\ St(k)' = "DEAD" /\ Id(k)' = -1 /\ Par(k)' = None
           /\ Sem(k)' = Sem(k) /\ Queued(k)' = Queued(k)
           /\ LocTo(t, "user", 1) /\ OwnTTo(k, None) /\ UNCHANGED <<nextpid, forker>>
  BY WaitReapEffect
<1>2. Pc(t)' = "user" /\ \A u \in Tasks \ {t} : LocKept(u)
  BY <1>1 DEF LocTo
<1>3. \A u \in Tasks \ {k} : TaskKept(u)
  BY <1>1 DEF TaskTo
<1>4. /\ ~Queued(k) /\ k # init /\ (\A u \in Tasks : Par(u) # k) /\ St(t) = "RUNNABLE" /\ ~Queued(t)
      /\ \A u \in Tasks : Pc(u) \notin TreePCs
  BY <1>1, Start DEF States, Family, Locked, OutPCs, ExitPCs
<1>5. TypeOK'
  BY <1>1, TypeStep DEF TaskTo, LocTo, OwnTTo
<1>6. Locked'
  BY <1>1, <1>2, <1>3, <1>4, Start DEF Locked, TaskKept, LocKept, OwnTTo, OwnTKept, OwnSKept,
     ExitPCs, TreePCs, SlotPCs
<1>7. States'
  BY <1>1, <1>2, <1>3, <1>4, Start DEF States, TaskKept, LocKept, ExitPCs, OutPCs
<1>8. Others'
  BY <1>1, <1>2, <1>3, <1>4, Start DEF Others, Roused, TaskKept, LocKept, SlotPCs, TreePCs
<1>9. Places'
  BY <1>1, <1>2, <1>3, <1>4, Start DEF Places, TaskKept, LocKept, SlotPCs, TreePCs
<1>10. Family'
  BY <1>1, <1>2, <1>3, <1>4, Start DEF Family, TaskKept, LocKept, OutPCs, RepPCs
<1>11. Pids'
  <2>1. nextpid' + Cardinality(Forking') <= MaxPid + NTASK
    BY <1>1, ForksFit
  <2>2. nextpid >= 1
    BY Sets DEF Inv, TypeOK
  <2>3. \A u \in Tasks : Id(u)' < nextpid' /\ (St(u)' # "DEAD" => Id(u)' >= 1)
    BY <1>1, <1>3, <2>2, Start DEF TaskKept
  <2> QED
    BY <2>1, <2>3 DEF Pids
<1> QED
  BY <1>5, <1>6, <1>7, <1>8, <1>9, <1>10, <1>11 DEF Inv

\* The remaining steps take and release nothing.
Moves(t, here) ==
    /\ here \in PlainPCs \cup {"stuck", "panic"}
    /\ Pc(t) \in PlainPCs \/ (Pc(t) = "p_asleep" /\ St(t) = "RUNNABLE")
    /\ task' \in [Tasks -> TaskSet] /\ (\A u \in Tasks : TaskKept(u))
    /\ UNCHANGED <<owner, nextpid, forker>>
    /\ here = "f_scan" => Pc(t) = "f_scan" \/ nextpid <= MaxPid

Plain(t) == \/ Fork(t) \/ ForkSkip(t) \/ ForkFull(t) \/ Wait(t) \/ WaitAwake(t) \/ WaitSkip(t)
            \/ WaitAgain(t) \/ (\E p \in 1 .. MaxPid + NTASK : Kill(t, p)) \/ KillSkip(t)
            \/ KillHit(t) \/ KillMiss(t)

LEMMA PlainMoves ==
  ASSUME Inv, NEW t \in Tasks, Plain(t)
  PROVE  \E here \in PlainPCs \cup {"stuck", "panic"}, k \in 1 .. NTASK + 1 :
            /\ Moves(t, here) /\ LocTo(t, here, k)
            /\ Pc(t) = "w_scan" => \/ here = "w_scan" /\ k = Ix(t) + 1 /\ Ix(t) \in Tasks
                                      /\ St(Ix(t)) # "ZOMBIE"
                                   \/ here = "p_lock" /\ Ix(t) = NTASK + 1
            /\ here = "w_scan" => Pc(t) = "w_scan" \/ (Pc(t) = "p_asleep" /\ k = 1)
            /\ Pc(t) = "p_asleep" => here = "w_scan"
<1>1. task \in [Tasks -> TaskSet] /\ TypeOK /\ 1 \in 1 .. NTASK + 1 /\ 0 \in 0 .. MaxPid + NTASK
  BY Typed, Sets DEF Inv
<1>2. UNCHANGED task => task' \in [Tasks -> TaskSet] /\ \A u \in Tasks : TaskKept(u)
  BY <1>1 DEF TaskKept, St, Id, Par, Sem, Queued
<1>3. \A here \in PlainPCs \cup {"stuck", "panic"} : here \in PCs
  BY DEF PCs, PlainPCs
<1>4. Ix(t) \in 1 .. NTASK + 1 /\ NTASK \in Nat /\ (Ix(t) <= NTASK => Ix(t) + 1 \in 1 .. NTASK + 1)
      /\ (Ix(t) <= NTASK => Ix(t) \in Tasks)
  BY Start, Sets
<1>5. CASE Fork(t)
  <2>1. Moves(t, "f_scan") /\ GotoAt(t, "f_scan", 1) /\ Pc(t) = "user"
    BY <1>2, <1>5 DEF Fork, Syscall, Trap, At, Moves, PlainPCs, Pc
  <2>2. LocTo(t, "f_scan", 1)
    BY <1>1, <1>3, <2>1, SetLoc DEF PlainPCs
  <2> QED
    BY <1>1, <2>1, <2>2 DEF PlainPCs
<1>6. CASE ForkSkip(t)
  <2>1. Moves(t, "f_scan") /\ GotoAt(t, "f_scan", Ix(t) + 1) /\ Pc(t) = "f_scan" /\ Ix(t) <= NTASK
    BY <1>2, <1>6 DEF ForkSkip, At, Moves, PlainPCs, Pc, Ix
  <2>2. LocTo(t, "f_scan", Ix(t) + 1)
    BY <1>1, <1>3, <1>4, <2>1, SetLoc DEF PlainPCs
  <2> QED
    BY <1>4, <2>1, <2>2 DEF PlainPCs
<1>7. CASE ForkFull(t)
  <2>1. Moves(t, "panic") /\ GotoAt(t, "panic", 1) /\ Pc(t) = "f_scan"
    BY <1>2, <1>7 DEF ForkFull, At, Moves, PlainPCs, Pc
  <2>2. LocTo(t, "panic", 1)
    BY <1>1, <1>3, <2>1, SetLoc
  <2> QED
    BY <1>1, <2>1, <2>2
<1>8. CASE Wait(t)
  <2>1. Moves(t, "p_lock") /\ Goto(t, "p_lock") /\ Pc(t) = "user"
    BY <1>2, <1>8 DEF Wait, Syscall, Trap, At, Moves, PlainPCs, Pc
  <2>2. LocTo(t, "p_lock", Ix(t))
    BY <1>1, <1>3, <2>1, SetLoc DEF PlainPCs
  <2> QED
    BY <1>4, <2>1, <2>2 DEF PlainPCs
<1>9. CASE WaitAwake(t)
  <2>1. Moves(t, "w_scan") /\ GotoAt(t, "w_scan", 1) /\ Pc(t) = "p_asleep"
    BY <1>2, <1>9 DEF WaitAwake, At, Moves, PlainPCs, Pc, St
  <2>2. LocTo(t, "w_scan", 1)
    BY <1>1, <1>3, <2>1, SetLoc DEF PlainPCs
  <2> QED
    BY <1>1, <2>1, <2>2 DEF PlainPCs
<1>10. CASE WaitSkip(t)
  <2>1. /\ Moves(t, "w_scan") /\ GotoAt(t, "w_scan", Ix(t) + 1) /\ Pc(t) = "w_scan"
        /\ Ix(t) <= NTASK /\ St(Ix(t)) # "ZOMBIE"
    BY <1>2, <1>10 DEF WaitSkip, At, Moves, PlainPCs, Pc, Ix, St
  <2>2. LocTo(t, "w_scan", Ix(t) + 1)
    BY <1>1, <1>3, <1>4, <2>1, SetLoc DEF PlainPCs
  <2> QED
    BY <1>4, <2>1, <2>2 DEF PlainPCs
<1>11. CASE WaitAgain(t)
  <2>1. Moves(t, "p_lock") /\ GotoAt(t, "p_lock", 1) /\ Pc(t) = "w_scan" /\ Ix(t) = NTASK + 1
    BY <1>2, <1>11 DEF WaitAgain, At, Moves, PlainPCs, Pc, Ix
  <2>2. LocTo(t, "p_lock", 1)
    BY <1>1, <1>3, <2>1, SetLoc DEF PlainPCs
  <2> QED
    BY <1>1, <2>1, <2>2 DEF PlainPCs
<1>12. CASE \E p \in 1 .. MaxPid + NTASK : Kill(t, p)
  <2>1. PICK p \in 1 .. MaxPid + NTASK : Kill(t, p)
    BY <1>12
  <2>2. /\ Moves(t, "k_scan") /\ Pc(t) = "user"
        /\ loc' = [loc EXCEPT ![t] = [pc |-> "k_scan", i |-> 1, arg |-> p]]
    BY <1>2, <2>1 DEF Kill, Syscall, Trap, At, Moves, PlainPCs, Pc
  <2>3. p \in 0 .. MaxPid + NTASK /\ "k_scan" \in PCs
    BY Sets DEF PCs
  <2>4. LocTo(t, "k_scan", 1)
    BY <1>1, <2>2, <2>3, SetLoc
  <2> QED
    BY <1>1, <2>2, <2>4 DEF PlainPCs
<1>13. CASE KillSkip(t)
  <2>1. Moves(t, "k_scan") /\ GotoAt(t, "k_scan", Ix(t) + 1) /\ Pc(t) = "k_scan" /\ Ix(t) <= NTASK
    BY <1>2, <1>13 DEF KillSkip, At, Moves, PlainPCs, Pc, Ix
  <2>2. LocTo(t, "k_scan", Ix(t) + 1)
    BY <1>1, <1>3, <1>4, <2>1, SetLoc DEF PlainPCs
  <2> QED
    BY <1>4, <2>1, <2>2 DEF PlainPCs
<1>14. CASE KillHit(t)
  <2>1. PICK here \in {"stuck", "user"} : loc' = [loc EXCEPT ![t] = [pc |-> here, i |-> 1, arg |-> 0]]
    BY <1>14 DEF KillHit
  <2>2. Pc(t) = "k_scan" /\ UNCHANGED <<owner, nextpid, forker>> /\ Ix(t) <= NTASK
        /\ task' = [task EXCEPT ![Ix(t)].killed = TRUE]
    BY <1>14 DEF KillHit, At, Pc, Ix
  <2>3. PICK k \in Tasks : task' = [task EXCEPT ![k].killed = TRUE]
    BY <1>4, <2>2
  <2>4. task' \in [Tasks -> TaskSet] /\ \A u \in Tasks : TaskKept(u)
    BY <1>1, <2>3 DEF TaskKept, TaskSet, St, Id, Par, Sem, Queued
  <2>5. Moves(t, here)
    BY <2>1, <2>2, <2>4 DEF Moves, PlainPCs
  <2>6. LocTo(t, here, 1)
    BY <1>1, <2>1, SetLoc DEF PCs
  <2> QED
    BY <1>1, <2>1, <2>2, <2>5, <2>6 DEF PlainPCs
<1>15. CASE KillMiss(t)
  <2>1. /\ Moves(t, "user") /\ Pc(t) = "k_scan"
        /\ loc' = [loc EXCEPT ![t] = [pc |-> "user", i |-> 1, arg |-> 0]]
    BY <1>2, <1>15 DEF KillMiss, At, Moves, PlainPCs, Pc
  <2>2. LocTo(t, "user", 1)
    BY <1>1, <2>1, SetLoc DEF PCs
  <2> QED
    BY <1>1, <2>1, <2>2 DEF PlainPCs
<1> QED
  BY <1>5, <1>6, <1>7, <1>8, <1>9, <1>10, <1>11, <1>12, <1>13, <1>14, <1>15 DEF Plain

LEMMA PlainOK == ASSUME Inv, NEW t \in Tasks, Plain(t) PROVE Inv'
<1>1. PICK here \in PlainPCs \cup {"stuck", "panic"}, k \in 1 .. NTASK + 1 :
        Moves(t, here) /\ LocTo(t, here, k)
  BY PlainMoves
<1> QED
  BY <1>1, Roams DEF Moves
-----------------------------------------------------------------------------
(* The slots of the task table *)

LEMMA InitInv == ASSUME Init PROVE Inv
<1>1. /\ \A t \in Tasks : /\ Pc(t) = IF t = init THEN "user" ELSE "none"
                          /\ Ix(t) = 1
                          /\ St(t) = IF t = init THEN "RUNNABLE" ELSE "DEAD"
                          /\ Id(t) = IF t = init THEN 1 ELSE -1
                          /\ Par(t) = None /\ Sem(t) = 0 /\ Queued(t) = FALSE
  BY DEF Init, Dead, Pc, Ix, St, Id, Par, Sem, Queued
<1>2. OwnW = None /\ \A t \in Tasks : OwnT(t) = None /\ OwnS(t) = None
  BY DEF Init, OwnW, OwnT, OwnS, LockIds
<1>3. TypeOK
  <2>1. /\ 1 \in -1 .. MaxPid + NTASK /\ -1 \in -1 .. MaxPid + NTASK /\ 1 \in 1 .. NTASK + 1
        /\ 0 \in 0 .. MaxPid + NTASK /\ 2 \in 1 .. MaxPid + NTASK + 1 /\ 0 \in Nat \cup {-1}
    BY Sets
  <2> QED
    BY <2>1 DEF Init, Dead, TypeOK, PCs
<1>4. Locked
  BY <1>1, <1>2, Sets DEF Locked, ExitPCs, TreePCs, SlotPCs
<1>5. States
  BY <1>1 DEF States, ExitPCs, OutPCs
<1>6. Others /\ Places
  BY <1>1 DEF Others, Places, SlotPCs
<1>7. Family
  BY <1>1, Sets DEF Family, OutPCs, RepPCs
<1>8. Pids
  <2>1. Forking = {}
    BY <1>1 DEF Forking
  <2>2. nextpid + Cardinality(Forking) <= MaxPid + NTASK
    BY <2>1, FS_EmptySet, Sets DEF Init
  <2> QED
    BY <1>1, <2>2 DEF Pids, Init
<1> QED
  BY <1>3, <1>4, <1>5, <1>6, <1>7, <1>8 DEF Inv

\* The steps of a task.
LEMMA Steps ==
  ASSUME NEW t \in Tasks, Call(t) \/ Step(t)
  PROVE  \/ Plain(t) \/ ForkTake(t) \/ ForkFill(t) \/ Exit(t) \/ ExitWaitLock(t)
         \/ ExitTellParent(t) \/ ExitWakeParent(t) \/ Reparent(t) \/ ReparentTellInit(t)
         \/ ReparentWakeInit(t) \/ ReparentDone(t) \/ ExitSwtch(t) \/ WaitP(t) \/ WaitSleep(t)
         \/ WaitZombie(t) \/ WaitNotMine(t) \/ WaitReap(t)
BY DEF Call, Step, Plain

LEMMA InvStep == ASSUME Inv, [Next]_vars PROVE Inv'
<1>1. CASE Next
  BY <1>1, Steps, PlainOK, ForkTakeOK, ForkFillOK, ExitOK, ExitWaitLockOK, ExitTellParentOK,
     ExitWakeParentOK, ReparentOK, ReparentTellInitOK, ReparentWakeInitOK, ReparentDoneOK,
     ExitSwtchOK, WaitPOK, WaitSleepOK, WaitZombieOK, WaitNotMineOK, WaitReapOK DEF Next
<1>2. CASE UNCHANGED vars
  BY <1>2 DEF vars, Inv, TypeOK, Locked, States, Others, Places, Family, Pids, Forking, Roused,
     Pc, Ix, St, Id, Par, Sem, Queued, OwnT, OwnS, OwnW
<1> QED
  BY <1>1, <1>2

LEMMA InvSound == ASSUME Inv PROVE SlotsSound
<1>1. ParentValid
  <2> SUFFICES ASSUME NEW t \in Tasks, Live(t), task[t].parent # None
               PROVE  /\ Live(task[t].parent)
                      /\ task[t].parent = init \/ task[task[t].parent].id = forker[t]
    BY DEF ParentValid
  <2>1. PICK u \in Tasks : u = Par(t) /\ u = task[t].parent
    BY Start DEF Par
  <2>2. St(u) \notin {"DEAD", "USED"}
    <3>1. CASE u = init
      BY <3>1, Start DEF Family
    <3>2. CASE u # init
      <4>1. Pc(u) \notin OutPCs
        BY <2>1, <3>2, Start DEF Family
      <4> QED
        BY <4>1, Start DEF States
    <3> QED
      BY <3>1, <3>2
  <2>3. u = init \/ Id(u) = forker[t]
    BY <2>1, Start DEF Family
  <2> QED
    BY <2>1, <2>2, <2>3 DEF Live, St, Id
<1>2. NoUseAfterFree
  <2> SUFFICES ASSUME NEW t \in Tasks, task[t].state = "DEAD"
               PROVE  loc[t].pc \in {"none", "gone"} /\ \A l \in LockIds : owner[l] # t
    BY DEF NoUseAfterFree
  <2>1. St(t) = "DEAD"
    BY DEF St
  <2>2. Pc(t) \in OutPCs
    BY <2>1, Start DEF States, ExitPCs, OutPCs
  <2>3. OwnW # t /\ \A u \in Tasks : OwnT(u) # t /\ OwnS(u) # t
    BY <2>2, Start DEF Locked, ExitPCs, TreePCs, SlotPCs, OutPCs
  <2> QED
    BY <2>2, <2>3 DEF Pc, OutPCs, OwnW, OwnT, OwnS, LockIds
<1> QED
  BY <1>1, <1>2 DEF SlotsSound, Inv

LEMMA Invariance == Spec => []Inv
<1> QED
  BY InitInv, InvStep, PTL DEF Spec

\* Through any interleaving of fork, exit, wait and kill, and although slots
\* are reused, a live task's parent is live and is the task that forked it or
\* tasks[0], and a slot is free only when its task has left its stack and
\* holds no lock (exit, reparent, sys_wait, free_task).
THEOREM SlotsNeverDangle == Spec => []SlotsSound
<1> QED
  BY Invariance, InvSound, PTL
-----------------------------------------------------------------------------
(* The tokens of the semaphores *)

LEMMA Fewer ==
  ASSUME NEW Y \in SUBSET Tasks, NEW X \in SUBSET Y
  PROVE  /\ Cardinality(X) \in Nat /\ Cardinality(Y) \in Nat /\ Cardinality(X) <= Cardinality(Y)
         /\ IsFiniteSet(X) /\ IsFiniteSet(Y)
<1>1. IsFiniteSet(Y)
  BY Sets, FS_Subset
<1>2. IsFiniteSet(X) /\ Cardinality(X) <= Cardinality(Y)
  BY <1>1, FS_Subset
<1> QED
  BY <1>1, <1>2, FS_CardinalityType

LEMMA OneMore ==
  ASSUME NEW Y \in SUBSET Tasks, NEW p \in Tasks, NEW X \in SUBSET (Y \cup {p})
  PROVE  Cardinality(X) \in Nat /\ Cardinality(Y) \in Nat /\ Cardinality(X) <= Cardinality(Y) + 1
<1>1. Y \cup {p} \in SUBSET Tasks
  OBVIOUS
<1>2. Cardinality(X) <= Cardinality(Y \cup {p}) /\ Cardinality(X) \in Nat
  BY <1>1, Fewer
<1>3. IsFiniteSet(Y) /\ Cardinality(Y) \in Nat
  BY Fewer
<1>4. Cardinality(Y \cup {p}) = IF p \in Y THEN Cardinality(Y) ELSE Cardinality(Y) + 1
  BY <1>3, FS_AddElement
<1> QED
  BY <1>2, <1>3, <1>4

LEMMA Amounts ==
  ASSUME NEW u \in Tasks, Inv
  PROVE  /\ Tokens(u) \in Nat /\ Taken(u) \in {0, 1}
         /\ Signalled(u) \in SUBSET Tasks /\ Behind(u) \in SUBSET Signalled(u)
BY Start DEF Tokens, Taken, Signalled, Behind

\* A task that is left alone, and whose signalled children grow no more.
LEMMA PaidKept ==
  ASSUME Inv, NEW u \in Tasks, Paid(u), Signalled(u)' \subseteq Signalled(u),
         LocKept(u), Sem(u)' = Sem(u), Queued(u)' = Queued(u)
  PROVE  Paid(u)'
<1>1. /\ Tokens(u)' = Tokens(u) /\ Taken(u)' = Taken(u) /\ Scanning(u)' = Scanning(u)
  BY DEF Tokens, Taken, Scanning, LocKept
<1>2. Behind(u)' \subseteq Behind(u)
  BY DEF Behind, LocKept
<1>3. /\ Signalled(u) \in SUBSET Tasks /\ Behind(u) \in SUBSET Tasks
      /\ Tokens(u) \in Nat /\ Taken(u) \in {0, 1}
  BY Amounts
<1>4. PICK a, b, c, d : a = Signalled(u)' /\ b = Signalled(u) /\ c = Behind(u)' /\ d = Behind(u)
  OBVIOUS
<1>5. /\ Cardinality(a) \in Nat /\ Cardinality(b) \in Nat /\ Cardinality(a) <= Cardinality(b)
      /\ Cardinality(c) \in Nat /\ Cardinality(d) \in Nat /\ Cardinality(c) <= Cardinality(d)
  BY <1>2, <1>3, <1>4, Fewer
<1>6. Cardinality(Signalled(u)') = Cardinality(a) /\ Cardinality(Signalled(u)) = Cardinality(b)
      /\ Cardinality(Behind(u)') = Cardinality(c) /\ Cardinality(Behind(u)) = Cardinality(d)
  BY <1>4
<1>7. Cardinality(Signalled(u)') <= Tokens(u)' + Taken(u)'
  BY <1>1, <1>3, <1>5, <1>6 DEF Paid
<1>8. Scanning(u)' => Cardinality(Behind(u)') <= Tokens(u)'
  BY <1>1, <1>3, <1>5, <1>6 DEF Paid
<1> QED
  BY <1>7, <1>8 DEF Paid

\* Only the stepping task is to be looked at.
LEMMA CoveredBut ==
  ASSUME Inv, Covered, NEW t \in Tasks,
         \A u \in Tasks \ {t} : /\ LocKept(u)
                                /\ Running(u) => Sem(u)' = Sem(u) /\ Queued(u)' = Queued(u),
         \A u \in Tasks : Signalled(u)' \subseteq Signalled(u),
         Running(t)' => Paid(t)', Given'
  PROVE  Covered'
<1>1. \A u \in Tasks \ {t} : Running(u)' => Paid(u)'
  <2> SUFFICES ASSUME NEW u \in Tasks \ {t}, Running(u)' PROVE Paid(u)'
    OBVIOUS
  <2>1. Running(u)
    BY DEF Running, LocKept
  <2>2. Paid(u)
    BY <2>1 DEF Covered
  <2> QED
    BY <2>1, <2>2, PaidKept
<1> QED
  BY <1>1 DEF Covered

LEMMA PendingKept ==
  ASSUME NEW t \in Tasks, Pc(t) # "x_v", \A u \in Tasks \ {t} : LocKept(u)
  PROVE  \A p \in Tasks : Pending(p) => Pending(p)'
BY DEF Pending, LocKept

\* No child of anybody becomes a zombie that has signalled.
LEMMA NoneNew ==
  ASSUME Inv, NEW t \in Tasks, Pc(t) # "x_v", \A u \in Tasks \ {t} : LocKept(u),
         \A p \in Tasks : Par(p)' = Par(p) \/ Par(p)' = None,
         \A p \in Tasks : St(p)' = "ZOMBIE" =>
                            St(p) = "ZOMBIE" \/ (p = t /\ Pc(t)' \in {"x_wait", "x_par"}),
         Pc(t) \in {"x_wait", "x_par"} => Pc(t)' \in {"x_wait", "x_par"} \/ Par(t) = None
  PROVE  \A u \in Tasks : Signalled(u)' \subseteq Signalled(u)
<1> SUFFICES ASSUME NEW u \in Tasks, NEW p \in Signalled(u)' PROVE p \in Signalled(u)
  OBVIOUS
<1>1. /\ p \in Tasks /\ Par(p)' = u /\ St(p)' = "ZOMBIE" /\ Pc(p)' \notin {"x_wait", "x_par"}
      /\ ~Pending(p)'
  BY DEF Signalled
<1>2. ~Pending(p)
  BY <1>1, PendingKept
<1>3. Par(p) = u /\ u # None
  BY <1>1, Start
<1>4. St(p) = "ZOMBIE"
  BY <1>1
<1>5. Pc(p) \notin {"x_wait", "x_par"}
  BY <1>1, <1>3 DEF LocKept
<1> QED
  BY <1>1, <1>2, <1>3, <1>4, <1>5 DEF Signalled

\* The stepping task stays where it was with its tokens, and does not scan.
LEMMA PaidStill ==
  ASSUME Inv, Covered, NEW t \in Tasks, Signalled(t)' \subseteq Signalled(t), Running(t),
         Tokens(t)' + Taken(t)' = Tokens(t) + Taken(t), ~Scanning(t)'
  PROVE  Paid(t)'
<1>1. PICK a, b : a = Signalled(t)' /\ b = Signalled(t)
  OBVIOUS
<1>2. b \in SUBSET Tasks /\ Tokens(t) \in Nat /\ Taken(t) \in {0, 1}
  BY <1>1, Amounts
<1>3. Cardinality(a) \in Nat /\ Cardinality(b) \in Nat /\ Cardinality(a) <= Cardinality(b)
  BY <1>1, <1>2, Fewer
<1>4. Cardinality(Signalled(t)') = Cardinality(a) /\ Cardinality(Signalled(t)) = Cardinality(b)
  BY <1>1
<1>5. Cardinality(b) <= Tokens(t) + Taken(t)
  BY <1>4 DEF Covered, Paid
<1>6. Cardinality(Signalled(t)') <= Tokens(t)' + Taken(t)'
  BY <1>2, <1>3, <1>4, <1>5
<1> QED
  BY <1>6 DEF Paid

LEMMA PlainCovered == ASSUME Inv, Covered, NEW t \in Tasks, Plain(t) PROVE Covered'
<1>1. PICK here \in PlainPCs \cup {"stuck", "panic"}, k \in 1 .. NTASK + 1 :
            /\ Moves(t, here) /\ LocTo(t, here, k)
            /\ Pc(t) = "w_scan" => \/ here = "w_scan" /\ k = Ix(t) + 1 /\ Ix(t) \in Tasks
                                      /\ St(Ix(t)) # "ZOMBIE"
                                   \/ here = "p_lock" /\ Ix(t) = NTASK + 1
            /\ here = "w_scan" => Pc(t) = "w_scan" \/ (Pc(t) = "p_asleep" /\ k = 1)
            /\ Pc(t) = "p_asleep" => here = "w_scan"
  BY PlainMoves
<1>2. /\ Pc(t)' = here /\ Ix(t)' = k /\ (\A u \in Tasks \ {t} : LocKept(u))
      /\ \A u \in Tasks : TaskKept(u)
  BY <1>1 DEF LocTo, Moves
<1>3. Pc(t) \in PlainPCs \/ (Pc(t) = "p_asleep" /\ St(t) = "RUNNABLE")
  BY <1>1 DEF Moves
<1>4. Running(t) /\ ~Queued(t) /\ Sem(t) \in Nat
  BY <1>3, Start DEF States, PlainPCs, ExitPCs, OutPCs, Running
<1>5. \A u \in Tasks : Signalled(u)' \subseteq Signalled(u)
  <2>1. Pc(t) \notin {"x_v", "x_wait", "x_par"}
    BY <1>3 DEF PlainPCs
  <2> QED
    BY <1>2, <2>1, NoneNew DEF TaskKept
<1>6. Given'
  BY <1>2 DEF Covered, Given, TaskKept, LocKept, PlainPCs
<1>7. Tokens(t)' = Tokens(t)
  BY <1>2 DEF Tokens, TaskKept
<1>8. Paid(t)'
  <2>1. CASE Pc(t) = "w_scan" /\ here = "w_scan"
    <3>1. k = Ix(t) + 1 /\ Ix(t) \in Tasks /\ St(Ix(t)) # "ZOMBIE"
      BY <1>1, <2>1
    <3>2. Behind(t)' \subseteq Behind(t)
      <4> SUFFICES ASSUME NEW p \in Behind(t)' PROVE p \in Behind(t)
        OBVIOUS
      <4>1. p \in Signalled(t)' /\ p < k /\ p \in Tasks
        BY <1>2 DEF Behind, Signalled
      <4>2. p \in Signalled(t) /\ St(p) = "ZOMBIE" /\ p # Ix(t)
        BY <1>5, <3>1, <4>1 DEF Signalled
      <4>3. p < Ix(t)
        BY <3>1, <4>1, <4>2, Sets
      <4> QED
        BY <4>2, <4>3 DEF Behind
    <3>3. Scanning(t) /\ Scanning(t)' /\ Taken(t)' = Taken(t)
      BY <1>2, <2>1 DEF Scanning, Taken
    <3>4. /\ Signalled(t) \in SUBSET Tasks /\ Behind(t) \in SUBSET Tasks
          /\ Tokens(t) \in Nat /\ Taken(t) \in {0, 1}
      BY Amounts
    <3>5. PICK a, b, c, d : a = Signalled(t)' /\ b = Signalled(t) /\ c = Behind(t)' /\ d = Behind(t)
      OBVIOUS
    <3>6. /\ Cardinality(a) \in Nat /\ Cardinality(b) \in Nat /\ Cardinality(a) <= Cardinality(b)
          /\ Cardinality(c) \in Nat /\ Cardinality(d) \in Nat /\ Cardinality(c) <= Cardinality(d)
      BY <1>5, <3>2, <3>4, <3>5, Fewer
    <3>7. Cardinality(b) <= Tokens(t) + Taken(t) /\ Cardinality(d) <= Tokens(t)
      BY <1>4, <3>3, <3>5 DEF Covered, Paid
    <3>8. Cardinality(a) <= Tokens(t)' + Taken(t)' /\ Cardinality(c) <= Tokens(t)'
      BY <1>7, <3>3, <3>4, <3>6, <3>7
    <3> QED
      BY <3>5, <3>8 DEF Paid
  <2>2. CASE Pc(t) = "w_scan" /\ here # "w_scan"
    <3>1. here = "p_lock" /\ Ix(t) = NTASK + 1
      BY <1>1, <2>2
    <3>2. PICK a, b : a = Signalled(t)' /\ b = Behind(t)
      OBVIOUS
    <3>3. a \in SUBSET b
      <4> SUFFICES ASSUME NEW p \in a PROVE p \in b
        OBVIOUS
      <4>1. p \in Signalled(t) /\ p \in Tasks
        BY <1>5, <3>2 DEF Signalled
      <4>2. p < NTASK + 1
        BY <4>1, Sets
      <4> QED
        BY <3>1, <3>2, <4>1, <4>2 DEF Behind
    <3>4. b \in SUBSET Tasks /\ Tokens(t) \in Nat
      BY <3>2, Amounts
    <3>5. Cardinality(a) \in Nat /\ Cardinality(b) \in Nat /\ Cardinality(a) <= Cardinality(b)
      BY <3>3, <3>4, Fewer
    <3>6. Cardinality(b) <= Tokens(t)
      BY <1>4, <2>2, <3>2 DEF Covered, Paid, Scanning
    <3>7. Taken(t)' = 0 /\ ~Scanning(t)'
      BY <1>2, <3>1 DEF Taken, Scanning
    <3>8. Cardinality(a) <= Tokens(t)' + Taken(t)'
      BY <1>7, <3>4, <3>5, <3>6, <3>7
    <3> QED
      BY <3>2, <3>7, <3>8 DEF Paid
  <2>3. CASE Pc(t) = "p_asleep" /\ here = "w_scan"
    <3>1. k = 1 /\ Taken(t) = 1 /\ Taken(t)' = 1
      BY <1>1, <1>2, <1>4, <2>3 DEF Taken, Scanning
    <3>2. \A p \in Tasks : ~(p < 1)
      BY Sets
    <3>3. Behind(t)' = {}
      BY <1>2, <3>1, <3>2 DEF Behind, Signalled
    <3>4. PICK a, b, c : a = Signalled(t)' /\ b = Signalled(t) /\ c = Behind(t)'
      OBVIOUS
    <3>5. b \in SUBSET Tasks /\ Tokens(t) \in Nat
      BY <3>4, Amounts
    <3>6. Cardinality(a) \in Nat /\ Cardinality(b) \in Nat /\ Cardinality(a) <= Cardinality(b)
      BY <1>5, <3>4, <3>5, Fewer
    <3>7. Cardinality(b) <= Tokens(t) + 1 /\ Cardinality(c) = 0
      BY <1>4, <3>1, <3>3, <3>4, FS_EmptySet DEF Covered, Paid
    <3>8. Cardinality(a) <= Tokens(t)' + 1 /\ Cardinality(c) <= Tokens(t)'
      BY <1>7, <3>5, <3>6, <3>7
    <3> QED
      BY <3>1, <3>4, <3>8 DEF Paid
  <2>4. CASE Pc(t) # "w_scan" /\ here # "w_scan"
    <3>1. Taken(t)' = 0 /\ ~Scanning(t)'
      BY <1>2, <2>4 DEF Taken, Scanning, PlainPCs
    <3>2. PICK a, b : a = Signalled(t)' /\ b = Signalled(t)
      OBVIOUS
    <3>3. b \in SUBSET Tasks /\ Tokens(t) \in Nat
      BY <3>2, Amounts
    <3>4. Pc(t) # "p_asleep"
      BY <1>1, <1>3, <2>4
    <3>5. Taken(t) = 0
      BY <1>3, <2>4, <3>4 DEF Taken, Scanning, PlainPCs
    <3>6. Tokens(t)' + Taken(t)' = Tokens(t) + Taken(t)
      BY <1>7, <3>1, <3>5
    <3> QED
      BY <1>4, <1>5, <3>1, <3>6, PaidStill
  <2>5. here = "w_scan" => Pc(t) \in {"w_scan", "p_asleep"}
    BY <1>1
  <2> QED
    BY <2>1, <2>2, <2>3, <2>4, <2>5
<1> QED
  BY <1>2, <1>5, <1>6, <1>8, CoveredBut DEF TaskKept

LEMMA ForkTakeCovered == ASSUME Inv, Covered, NEW t \in Tasks, ForkTake(t) PROVE Covered'
<1>1. PICK k \in Tasks : k = Ix(t) /\ St(k) = "DEAD" /\ Pc(t) = "f_scan"
  BY Start, Sets DEF ForkTake, At, Ix, Pc, St
<1>2. Pc(t)' = "f_fill" /\ (\A u \in Tasks \ {t} : LocKept(u))
  BY SetLoc DEF ForkTake, LocTo, Inv, PCs
<1>3. St(k)' = "USED" /\ Par(k)' = Par(k) /\ \A u \in Tasks \ {k} : TaskKept(u)
  <2>1. task \in [Tasks -> TaskSet]
    BY Typed DEF Inv
  <2>2. task' = [task EXCEPT ![k].state = "USED", ![k].id = nextpid,
                             ![k].sem = 0, ![k].queued = FALSE]
    BY <1>1 DEF ForkTake, Ix
  <2> QED
    BY <2>1, <2>2 DEF TaskKept, TaskSet, St, Id, Par, Sem, Queued
<1>4. ~Running(k) /\ k # t
  BY <1>1, Start DEF States, Running, ExitPCs, OutPCs
<1>5. \A u \in Tasks : Signalled(u)' \subseteq Signalled(u)
  BY <1>1, <1>2, <1>3, NoneNew DEF TaskKept
<1>6. Given'
  BY <1>2, <1>3 DEF Covered, Given, TaskKept, LocKept
<1>7. Paid(t)'
  <2>1. /\ Running(t) /\ Tokens(t)' = Tokens(t) /\ Taken(t)' = 0 /\ Taken(t) = 0 /\ ~Scanning(t)'
    BY <1>1, <1>2, <1>3, <1>4 DEF Running, Tokens, Taken, Scanning, TaskKept, ExitPCs, OutPCs
  <2> QED
    BY <1>5, <2>1, PaidStill
<1> QED
  BY <1>2, <1>3, <1>4, <1>5, <1>6, <1>7, CoveredBut DEF TaskKept

LEMMA ForkFillCovered == ASSUME Inv, Covered, NEW t \in Tasks, ForkFill(t) PROVE Covered'
<1>1. PICK k \in Tasks : k = Ix(t) /\ St(k) = "USED" /\ Pc(t) = "f_fill"
  <2>1. Pc(t) = "f_fill"
    BY DEF ForkFill, At, Pc
  <2> QED
    BY <2>1, Start DEF Places, Others, SlotPCs
<1>2. /\ k # t /\ Pc(k) \in OutPCs /\ k # init /\ ~Queued(k) /\ (\A u \in Tasks : Par(u) # k)
      /\ St(t) = "RUNNABLE" /\ Par(k) = None
  BY <1>1, Start DEF States, Family, ExitPCs, OutPCs
<1>3. Pc(t)' = "user" /\ Pc(k)' = "user" /\ \A u \in Tasks \ {t, k} : LocKept(u)
  <2>1. loc \in [Tasks -> LocSet]
    BY Typed DEF Inv
  <2>2. loc' = [loc EXCEPT ![t].pc = "user", ![t].i = 1,
                           ![k] = [pc |-> "user", i |-> 1, arg |-> 0]]
    BY <1>1 DEF ForkFill, Ix
  <2> QED
    BY <1>2, <2>1, <2>2 DEF LocKept, Pc, Ix, LocSet
<1>4. /\ St(k)' = "RUNNABLE" /\ Par(k)' = t /\ Sem(k)' = Sem(k) /\ Queued(k)' = Queued(k)
      /\ \A u \in Tasks \ {k} : TaskKept(u)
  <2>1. task \in [Tasks -> TaskSet]
    BY Typed DEF Inv
  <2>2. task' = [task EXCEPT ![k].state = "RUNNABLE", ![k].parent = t]
    BY <1>1 DEF ForkFill, Ix
  <2> QED
    BY <2>1, <2>2 DEF TaskKept, TaskSet, St, Id, Par, Sem, Queued
<1>5. \A p \in Tasks : Pending(p) => Pending(p)'
  BY <1>1, <1>2, <1>3 DEF Pending, LocKept, OutPCs
<1>6. \A u \in Tasks : Signalled(u)' \subseteq Signalled(u)
  <2> SUFFICES ASSUME NEW u \in Tasks, NEW p \in Signalled(u)' PROVE p \in Signalled(u)
    OBVIOUS
  <2>1. /\ p \in Tasks /\ Par(p)' = u /\ St(p)' = "ZOMBIE" /\ Pc(p)' \notin {"x_wait", "x_par"}
        /\ ~Pending(p)'
    BY DEF Signalled
  <2>2. p # k /\ p # t
    BY <1>2, <1>4, <2>1 DEF TaskKept
  <2> QED
    BY <1>3, <1>4, <1>5, <2>1, <2>2 DEF Signalled, TaskKept, LocKept
<1>7. Given'
  <2> SUFFICES ASSUME NEW v \in Tasks, NEW p \in Tasks, Pc(v)' = "x_v", Ix(v)' = p + 1
               PROVE  Par(p)' = init
    BY DEF Given
  <2>1. Par(p) = init
    BY <1>3 DEF Covered, Given, LocKept
  <2>2. p # k
    BY <1>2, <2>1, Start
  <2> QED
    BY <1>4, <2>1, <2>2 DEF TaskKept
<1>8. Paid(t)'
  <2>1. /\ Running(t) /\ Tokens(t)' = Tokens(t) /\ Taken(t)' = 0 /\ Taken(t) = 0 /\ ~Scanning(t)'
    BY <1>1, <1>2, <1>3, <1>4 DEF Running, Tokens, Taken, Scanning, TaskKept, ExitPCs, OutPCs
  <2> QED
    BY <1>6, <2>1, PaidStill
<1>9. Paid(k)'
  <2>1. Signalled(k)' = {}
    BY <1>2, <1>6 DEF Signalled
  <2>2. Cardinality(Signalled(k)') = 0
    BY <2>1, FS_EmptySet
  <2>3. Tokens(k)' \in Nat /\ Taken(k)' = 0 /\ ~Scanning(k)'
    BY <1>3, <1>4, Start DEF Tokens, Taken, Scanning
  <2> QED
    BY <2>2, <2>3 DEF Paid
<1>10. \A u \in Tasks \ {t, k} : Running(u)' => Paid(u)'
  <2> SUFFICES ASSUME NEW u \in Tasks \ {t, k}, Running(u)' PROVE Paid(u)'
    OBVIOUS
  <2>1. LocKept(u) /\ Sem(u)' = Sem(u) /\ Queued(u)' = Queued(u)
    BY <1>3, <1>4 DEF TaskKept
  <2>2. Running(u)
    BY <2>1 DEF Running, LocKept
  <2>3. Paid(u)
    BY <2>2 DEF Covered
  <2> QED
    BY <1>6, <2>1, <2>3, PaidKept
<1> QED
  BY <1>7, <1>8, <1>9, <1>10 DEF Covered

LEMMA ExitCovered == ASSUME Inv, Covered, NEW t \in Tasks, Exit(t) PROVE Covered'
<1>1. Pc(t) = "user"
  BY DEF Exit, Trap, At, Pc
<1>2. Pc(t)' = "x_wait" /\ (\A u \in Tasks \ {t} : LocKept(u))
  BY SetLoc DEF Exit, LocTo, Inv, PCs
<1>3. Par(t)' = Par(t) /\ \A u \in Tasks \ {t} : TaskKept(u)
  <2>1. task \in [Tasks -> TaskSet] /\ task' = [task EXCEPT ![t].state = "ZOMBIE"]
    BY Typed DEF Exit, Inv
  <2> QED
    BY <2>1 DEF TaskKept, TaskSet, St, Id, Par, Sem, Queued
<1>4. \A u \in Tasks : Signalled(u)' \subseteq Signalled(u)
  BY <1>1, <1>2, <1>3, NoneNew DEF TaskKept
<1>5. Given' /\ ~Running(t)'
  BY <1>2, <1>3 DEF Covered, Given, TaskKept, LocKept, Running, ExitPCs
<1> QED
  BY <1>2, <1>3, <1>4, <1>5, CoveredBut DEF TaskKept

LEMMA ExitWaitLockCovered == ASSUME Inv, Covered, NEW t \in Tasks, ExitWaitLock(t) PROVE Covered'
<1>1. Pc(t) = "x_wait"
  BY DEF ExitWaitLock, At, Pc
<1>2. PICK here \in {"x_rep", "x_par"} : /\ Pc(t)' = here /\ (\A u \in Tasks \ {t} : LocKept(u))
                                         /\ here = "x_rep" => Par(t) = None
  <2>1. PICK here \in {"x_rep", "x_par"} : GotoAt(t, here, 1) /\ (here = "x_rep" => Par(t) = None)
    BY DEF ExitWaitLock, Par
  <2>2. here \in PCs /\ 1 \in 1 .. NTASK + 1
    BY Sets DEF PCs
  <2>3. LocTo(t, here, 1)
    BY <2>1, <2>2, SetLoc DEF Inv
  <2> QED
    BY <2>1, <2>3 DEF LocTo
<1>3. \A u \in Tasks : TaskKept(u)
  BY DEF ExitWaitLock, TaskKept, St, Id, Par, Sem, Queued
<1>4. \A u \in Tasks : Signalled(u)' \subseteq Signalled(u)
  BY <1>1, <1>2, <1>3, NoneNew DEF TaskKept
<1>5. Given' /\ ~Running(t)'
  BY <1>2, <1>3 DEF Covered, Given, TaskKept, LocKept, Running, ExitPCs
<1> QED
  BY <1>2, <1>3, <1>4, <1>5, CoveredBut DEF TaskKept

\* The last steps of exit().
LEMMA LeavesCovered ==
  ASSUME Inv, Covered, NEW t \in Tasks, ReparentDone(t) \/ ExitSwtch(t) PROVE Covered'
<1>1. Pc(t) \in {"x_rep", "x_gone"} /\ \A u \in Tasks : TaskKept(u)
  BY DEF ReparentDone, ExitSwtch, At, Pc, TaskKept, St, Id, Par, Sem, Queued
<1>2. Pc(t)' \in {"x_gone", "gone"} /\ (\A u \in Tasks \ {t} : LocKept(u))
  <2>1. 1 \in 1 .. NTASK + 1 /\ "x_gone" \in PCs /\ "gone" \in PCs /\ TypeOK
    BY Sets DEF PCs, Inv
  <2>2. LocTo(t, "x_gone", 1) \/ LocTo(t, "gone", Ix(t))
    BY <2>1, SetLoc DEF ReparentDone, ExitSwtch
  <2> QED
    BY <2>2 DEF LocTo
<1>3. \A u \in Tasks : Signalled(u)' \subseteq Signalled(u)
  BY <1>1, <1>2, NoneNew DEF TaskKept
<1>4. Given' /\ ~Running(t)'
  BY <1>1, <1>2 DEF Covered, Given, TaskKept, LocKept, Running, ExitPCs, OutPCs
<1> QED
  BY <1>1, <1>2, <1>3, <1>4, CoveredBut DEF TaskKept

\* exit() or reparent() adds a token: one more child has signalled.
LEMMA TellCovered ==
  ASSUME Inv, Covered, NEW t \in Tasks, NEW u \in Tasks, NEW wake, Tells(t, u, wake),
         VInc(t, u, "x_rep", wake)
  PROVE  Covered'
<1>1. /\ Pc(t) \in {"x_par", "x_v"} /\ wake \in {"x_wakepar", "x_wakeinit"} /\ wake \in PCs
      /\ "x_rep" \in PCs
  BY DEF PCs, Tells
<1>2. /\ TaskTo(u) /\ St(u)' = St(u) /\ Par(u)' = Par(u) /\ Sem(u)' = Sem(u) + 1 /\ ~Queued(u)'
  BY <1>1, VIncEffect
<1>3. /\ \A v \in Tasks : St(v)' = St(v) /\ Par(v)' = Par(v)
      /\ \A v \in Tasks \ {u} : Sem(v)' = Sem(v) /\ Queued(v)' = Queued(v)
  BY <1>2 DEF TaskTo, TaskKept
<1>4. /\ Pc(t)' \in {"x_rep", wake} /\ Ix(t)' = Ix(t) /\ (\A v \in Tasks \ {t} : LocKept(v))
      /\ \/ Sem(u) >= 0 /\ ~Queued(u)
         \/ Sem(u) = -1 /\ Queued(u) /\ Pc(u) = "p_asleep"
  BY <1>1, VIncEffect DEF LocTo
<1>5. \A v \in Tasks \ {t} : Pc(v) \notin TreePCs
  BY <1>1, Start DEF Locked, TreePCs
<1>6. \A v \in Tasks : Pc(v)' # "x_v"
  BY <1>1, <1>4, <1>5 DEF LocKept, TreePCs
<1>7. Given' /\ \A p \in Tasks : ~Pending(p)'
  BY <1>6 DEF Given, Pending
<1>8. PICK q \in Tasks : \A p \in Tasks : Pending(p) \/ (p = t /\ Pc(t) = "x_par") => p = q /\ Par(p) = u
  <2>1. CASE Pc(t) = "x_par"
    <3>1. \A p \in Tasks : ~Pending(p)
      BY <1>5, <2>1 DEF Pending, TreePCs
    <3> QED
      BY <2>1, <3>1 DEF Tells
  <2>2. CASE Pc(t) = "x_v"
    <3>1. u = init /\ \A p \in Tasks : Pending(p) => Ix(t) = p + 1 /\ Par(p) = init
      BY <1>5, <2>2 DEF Pending, TreePCs, Tells, Covered, Given
    <3>2. \A p, q \in Tasks : Ix(t) = p + 1 /\ Ix(t) = q + 1 => p = q
      BY Sets
    <3> QED
      BY <2>2, <3>1, <3>2
  <2> QED
    BY <1>1, <2>1, <2>2
<1>9. \A v, p \in Tasks : p \in Signalled(v)' => p \in Signalled(v) \/ (v = u /\ p = q)
  <2> SUFFICES ASSUME NEW v \in Tasks, NEW p \in Tasks, p \in Signalled(v)', ~(v = u /\ p = q)
               PROVE  p \in Signalled(v)
    OBVIOUS
  <2>1. Par(p) = v /\ St(p) = "ZOMBIE" /\ Pc(p)' \notin {"x_wait", "x_par"}
    BY <1>3 DEF Signalled
  <2>2. ~Pending(p) /\ ~(p = t /\ Pc(t) = "x_par")
    BY <1>8, <2>1
  <2>3. Pc(p) \notin {"x_wait", "x_par"}
    BY <1>1, <1>4, <2>1, <2>2 DEF LocKept
  <2> QED
    BY <2>1, <2>2, <2>3 DEF Signalled
<1>10. \A v \in Tasks \ {u} : Running(v)' => Paid(v)'
  <2> SUFFICES ASSUME NEW v \in Tasks \ {u}, Running(v)' PROVE Paid(v)'
    OBVIOUS
  <2>1. v # t
    BY <1>1, <1>4 DEF Running, ExitPCs
  <2>2. LocKept(v) /\ Sem(v)' = Sem(v) /\ Queued(v)' = Queued(v)
    BY <1>3, <1>4, <2>1
  <2>3. Running(v) /\ Paid(v)
    BY <2>2 DEF Running, LocKept, Covered
  <2>4. Signalled(v)' \subseteq Signalled(v)
    BY <1>9 DEF Signalled
  <2> QED
    BY <2>2, <2>3, <2>4, PaidKept
<1>11. Running(u)' => Paid(u)'
  <2> SUFFICES ASSUME Running(u)' PROVE Paid(u)'
    OBVIOUS
  <2>1. u # t
    BY <1>1, <1>4 DEF Running, ExitPCs
  <2>2. LocKept(u) /\ Running(u) /\ Paid(u) /\ Scanning(u)' = Scanning(u)
    BY <1>4, <2>1 DEF Running, LocKept, Covered, Scanning
  <2>3. PICK a, b, c, d : a = Signalled(u)' /\ b = Signalled(u) /\ c = Behind(u)' /\ d = Behind(u)
    OBVIOUS
  <2>4. b \in SUBSET Tasks /\ d \in SUBSET Tasks /\ Tokens(u) \in Nat /\ Taken(u) \in {0, 1}
    BY <2>3, Amounts
  <2>5. a \in SUBSET (b \cup {q})
    BY <1>9, <2>3 DEF Signalled
  <2>6. c \in SUBSET (d \cup {q})
    BY <1>9, <2>2, <2>3 DEF Behind, Signalled, LocKept
  <2>7. /\ Cardinality(a) \in Nat /\ Cardinality(b) \in Nat /\ Cardinality(a) <= Cardinality(b) + 1
        /\ Cardinality(c) \in Nat /\ Cardinality(d) \in Nat /\ Cardinality(c) <= Cardinality(d) + 1
    BY <2>4, <2>5, <2>6, OneMore
  <2>8. Cardinality(b) <= Tokens(u) + Taken(u) /\ (Scanning(u) => Cardinality(d) <= Tokens(u))
    BY <2>2, <2>3 DEF Paid
  <2>9. \/ Tokens(u)' = Tokens(u) + 1 /\ Taken(u)' = Taken(u)
        \/ Tokens(u)' = Tokens(u) /\ Taken(u) = 0 /\ Taken(u)' = 1 /\ ~Scanning(u)'
    <3>1. CASE Sem(u) >= 0 /\ ~Queued(u)
      BY <1>2, <2>2, <3>1, Start DEF Tokens, Taken, LocKept
    <3>2. CASE Sem(u) = -1 /\ Queued(u) /\ Pc(u) = "p_asleep"
      BY <1>2, <2>2, <3>2, Start DEF Tokens, Taken, LocKept, Scanning
    <3> QED
      BY <1>4, <3>1, <3>2
  <2>10. Cardinality(a) <= Tokens(u)' + Taken(u)' /\ (Scanning(u)' => Cardinality(c) <= Tokens(u)')
    BY <2>2, <2>4, <2>7, <2>8, <2>9
  <2> QED
    BY <2>3, <2>10 DEF Paid
<1> QED
  BY <1>7, <1>10, <1>11 DEF Covered

LEMMA TellsCovered ==
  ASSUME Inv, Covered, NEW t \in Tasks, ExitTellParent(t) \/ ReparentTellInit(t) PROVE Covered'
<1>1. CASE ExitTellParent(t)
  <2>1. Pc(t) = "x_par"
    BY <1>1 DEF ExitTellParent, At, Pc
  <2>2. PICK u \in Tasks : u = Par(t) /\ VInc(t, u, "x_rep", "x_wakepar")
    BY <1>1, <2>1, Start DEF Places, ExitTellParent, Par
  <2>3. Tells(t, u, "x_wakepar")
    BY <2>1, <2>2 DEF Tells
  <2> QED
    BY <2>2, <2>3, TellCovered
<1>2. CASE ReparentTellInit(t)
  <2>1. Pc(t) = "x_v" /\ VInc(t, init, "x_rep", "x_wakeinit") /\ init \in Tasks
    BY <1>2, Sets DEF ReparentTellInit, At, Pc
  <2>2. Tells(t, init, "x_wakeinit")
    BY <2>1 DEF Tells
  <2> QED
    BY <2>1, <2>2, TellCovered
<1> QED
  BY <1>1, <1>2

LEMMA WakeCovered ==
  ASSUME Inv, Covered, NEW t \in Tasks, NEW u \in Tasks, Wakes(t, u), VWake(t, u, "x_rep")
  PROVE  Covered'
<1>1. /\ TaskTo(u) /\ St(u)' = "RUNNABLE" /\ Par(u)' = Par(u)
      /\ Sem(u)' = Sem(u) /\ Queued(u)' = Queued(u) /\ LocTo(t, "x_rep", Ix(t))
  BY VWakeEffect
<1>2. Pc(t) \in {"x_wakepar", "x_wakeinit"}
  BY DEF Wakes
<1>3. Pc(t)' = "x_rep" /\ (\A v \in Tasks \ {t} : LocKept(v)) /\ (\A v \in Tasks \ {u} : TaskKept(v))
  BY <1>1 DEF LocTo, TaskTo
<1>4. \A v \in Tasks : Signalled(v)' \subseteq Signalled(v)
  BY <1>1, <1>2, <1>3, NoneNew DEF TaskKept
<1>5. Given' /\ ~Running(t)'
  BY <1>1, <1>3 DEF Covered, Given, TaskKept, LocKept, Running, ExitPCs
<1> QED
  BY <1>1, <1>3, <1>4, <1>5, CoveredBut DEF TaskKept

LEMMA WakesCovered ==
  ASSUME Inv, Covered, NEW t \in Tasks, ExitWakeParent(t) \/ ReparentWakeInit(t) PROVE Covered'
<1>1. CASE ExitWakeParent(t)
  <2>1. Pc(t) = "x_wakepar"
    BY <1>1 DEF ExitWakeParent, At, Pc
  <2>2. PICK u \in Tasks : u = Par(t) /\ VWake(t, u, "x_rep")
    BY <1>1, <2>1, Start DEF Places, ExitWakeParent, Par
  <2>3. Wakes(t, u)
    BY <2>1, <2>2 DEF Wakes
  <2> QED
    BY <2>2, <2>3, WakeCovered
<1>2. CASE ReparentWakeInit(t)
  <2>1. Wakes(t, init) /\ VWake(t, init, "x_rep") /\ init \in Tasks
    BY <1>2, Sets DEF ReparentWakeInit, At, Pc, Wakes
  <2> QED
    BY <2>1, WakeCovered
<1> QED
  BY <1>1, <1>2

LEMMA ReparentCovered == ASSUME Inv, Covered, NEW t \in Tasks, Reparent(t) PROVE Covered'
<1>1. PICK p \in Tasks :
            /\ Pc(t) = "x_rep" /\ TaskTo(p) /\ St(p)' = St(p) /\ Par(p)' = init
            /\ Sem(p)' = Sem(p) /\ Queued(p)' = Queued(p) /\ LocTo(t, "x_v", p + 1)
  BY ReparentEffect
<1>2. /\ Pc(t)' = "x_v" /\ Ix(t)' = p + 1 /\ (\A v \in Tasks \ {t} : LocKept(v))
      /\ \A v \in Tasks \ {p} : TaskKept(v)
  BY <1>1 DEF LocTo, TaskTo
<1>3. \A v \in Tasks \ {t} : Pc(v) \notin TreePCs
  BY <1>1, Start DEF Locked, TreePCs
<1>4. Given'
  <2> SUFFICES ASSUME NEW v \in Tasks, NEW q \in Tasks, Pc(v)' = "x_v", Ix(v)' = q + 1
               PROVE  Par(q)' = init
    BY DEF Given
  <2>1. v = t
    BY <1>2, <1>3 DEF LocKept, TreePCs
  <2>2. q + 1 = p + 1 /\ q \in Nat /\ p \in Nat
    BY <1>2, <2>1, Sets
  <2>3. q = p
    BY <2>2
  <2> QED
    BY <1>1, <2>3
<1>5. \A v \in Tasks : Signalled(v)' \subseteq Signalled(v)
  <2> SUFFICES ASSUME NEW v \in Tasks, NEW q \in Signalled(v)' PROVE q \in Signalled(v)
    OBVIOUS
  <2>1. /\ q \in Tasks /\ Par(q)' = v /\ St(q)' = "ZOMBIE" /\ Pc(q)' \notin {"x_wait", "x_par"}
        /\ ~Pending(q)'
    BY DEF Signalled
  <2>2. q # p
    BY <1>2, <2>1 DEF Pending
  <2>3. ~Pending(q) /\ Pc(q) \notin {"x_wait", "x_par"}
    BY <1>1, <1>2, <1>3, <2>1 DEF Pending, TreePCs, LocKept
  <2> QED
    BY <1>2, <2>1, <2>2, <2>3 DEF Signalled, TaskKept
<1>6. ~Running(t)'
  BY <1>2 DEF Running, ExitPCs
<1> QED
  BY <1>1, <1>2, <1>4, <1>5, <1>6, CoveredBut DEF TaskKept

LEMMA WaitPCovered == ASSUME Inv, Covered, NEW t \in Tasks, WaitP(t) PROVE Covered'
<1>1. /\ Pc(t) = "p_lock" /\ TaskTo(t) /\ St(t)' = St(t) /\ Par(t)' = Par(t) /\ Sem(t)' = Sem(t) - 1
      /\ St(t) = "RUNNABLE" /\ ~Queued(t)
      /\ \/ Sem(t) > 0 /\ ~Queued(t)' /\ LocTo(t, "w_scan", 1)
         \/ Sem(t) = 0 /\ Queued(t)' = TRUE /\ LocTo(t, "p_sleep", Ix(t))
  BY WaitPEffect
<1>2. /\ (\A v \in Tasks \ {t} : LocKept(v) /\ TaskKept(v))
      /\ \/ Sem(t) > 0 /\ ~Queued(t)' /\ Pc(t)' = "w_scan" /\ Ix(t)' = 1
         \/ Sem(t) = 0 /\ Queued(t)' = TRUE /\ Pc(t)' = "p_sleep"
  BY <1>1 DEF LocTo, TaskTo
<1>3. \A v \in Tasks : Signalled(v)' \subseteq Signalled(v)
  BY <1>1, <1>2, NoneNew DEF TaskKept
<1>4. Given' /\ Running(t)
  BY <1>1, <1>2 DEF Covered, Given, TaskKept, LocKept, Running, ExitPCs, OutPCs
<1>5. Paid(t)'
  <2>1. PICK a, b, c : a = Signalled(t)' /\ b = Signalled(t) /\ c = Behind(t)'
    OBVIOUS
  <2>2. b \in SUBSET Tasks /\ Tokens(t) \in Nat /\ Sem(t) \in Nat \cup {-1}
    BY <2>1, Amounts, Start
  <2>3. Cardinality(a) \in Nat /\ Cardinality(b) \in Nat /\ Cardinality(a) <= Cardinality(b)
    BY <1>3, <2>1, <2>2, Fewer
  <2>4. Taken(t) = 0
    BY <1>1 DEF Taken, Scanning
  <2>5. Cardinality(b) <= Tokens(t)
    BY <1>4, <2>1, <2>2, <2>4 DEF Covered, Paid
  <2>6. CASE Sem(t) > 0 /\ Pc(t)' = "w_scan" /\ Ix(t)' = 1
    <3>1. Tokens(t)' = Tokens(t) - 1 /\ Taken(t)' = 1 /\ Tokens(t)' \in Nat
      BY <1>1, <2>2, <2>6 DEF Tokens, Taken, Scanning
    <3>2. \A p \in Tasks : ~(p < 1)
      BY Sets
    <3>3. c = {}
      BY <2>1, <2>6, <3>2 DEF Behind, Signalled
    <3>4. Cardinality(c) = 0
      BY <3>3, FS_EmptySet
    <3>5. Cardinality(a) <= Tokens(t)' + Taken(t)' /\ Cardinality(c) <= Tokens(t)'
      BY <2>2, <2>3, <2>5, <3>1, <3>4
    <3> QED
      BY <2>1, <3>5 DEF Paid
  <2>7. CASE Sem(t) = 0 /\ Pc(t)' = "p_sleep"
    <3>1. Tokens(t)' = Tokens(t) /\ Taken(t)' = 0 /\ ~Scanning(t)'
      BY <1>1, <2>7 DEF Tokens, Taken, Scanning
    <3>2. Tokens(t)' + Taken(t)' = Tokens(t) + Taken(t)
      BY <2>4, <3>1
    <3> QED
      BY <1>3, <1>4, <3>1, <3>2, PaidStill
  <2> QED
    BY <1>2, <2>6, <2>7
<1> QED
  BY <1>2, <1>3, <1>4, <1>5, CoveredBut DEF TaskKept

LEMMA WaitSleepCovered == ASSUME Inv, Covered, NEW t \in Tasks, WaitSleep(t) PROVE Covered'
<1>1. Pc(t) = "p_sleep"
  BY DEF WaitSleep, At, Pc
<1>2. Queued(t) /\ Running(t)
  BY <1>1, Start DEF States, Running, ExitPCs, OutPCs
<1>3. /\ St(t)' = "SLEEPING" /\ Par(t)' = Par(t) /\ Sem(t)' = Sem(t) /\ Queued(t)' = Queued(t)
      /\ \A u \in Tasks \ {t} : TaskKept(u)
  <2>1. task \in [Tasks -> TaskSet] /\ task' = [task EXCEPT ![t].state = "SLEEPING"]
    BY Typed DEF WaitSleep, Inv
  <2> QED
    BY <2>1 DEF TaskKept, TaskSet, St, Id, Par, Sem, Queued
<1>4. LocTo(t, "p_asleep", Ix(t))
  BY SetLoc DEF WaitSleep, Inv, PCs
<1>5. Pc(t)' = "p_asleep" /\ \A u \in Tasks \ {t} : LocKept(u)
  BY <1>4 DEF LocTo
<1>6. \A u \in Tasks : Signalled(u)' \subseteq Signalled(u)
  BY <1>1, <1>3, <1>5, NoneNew DEF TaskKept
<1>7. Given'
  BY <1>3, <1>5 DEF Covered, Given, TaskKept, LocKept
<1>8. Tokens(t)' = Tokens(t) /\ Taken(t)' = 0 /\ Taken(t) = 0 /\ ~Scanning(t)'
  BY <1>1, <1>2, <1>3, <1>5 DEF Tokens, Taken, Scanning
<1>9. Paid(t)'
  BY <1>2, <1>6, <1>8, PaidStill
<1> QED
  BY <1>3, <1>5, <1>6, <1>7, <1>9, CoveredBut DEF TaskKept

\* The scan stops at a zombie, or goes on behind it because it is not a child.
LEMMA ScanCovered ==
  ASSUME Inv, Covered, NEW t \in Tasks, WaitZombie(t) \/ WaitNotMine(t) PROVE Covered'
<1>1. \A u \in Tasks : TaskKept(u)
  BY DEF WaitZombie, WaitNotMine, TaskKept, St, Id, Par, Sem, Queued
<1>2. PICK k \in Tasks, here \in {"w_scan", "w_zombie"}, i \in 1 .. NTASK + 1 :
            /\ k = Ix(t) /\ Pc(t) \in {"w_scan", "w_zombie"} /\ LocTo(t, here, i)
            /\ i = k \/ (i = k + 1 /\ Par(k) # t)
  <2>1. CASE WaitZombie(t)
    <3>1. Ix(t) \in Tasks /\ Pc(t) = "w_scan"
      BY <2>1, Start, Sets DEF WaitZombie, At, Ix, Pc
    <3>2. LocTo(t, "w_zombie", Ix(t))
      BY <2>1, SetLoc DEF WaitZombie, Inv, PCs
    <3> QED
      BY <3>1, <3>2, Start
  <2>2. CASE WaitNotMine(t)
    <3>1. Pc(t) = "w_zombie" /\ Par(Ix(t)) # t
      BY <2>2 DEF WaitNotMine, At, Pc, Par, Ix
    <3>2. Ix(t) \in Tasks
      BY <3>1, Start DEF Places, SlotPCs
    <3>3. Ix(t) + 1 \in 1 .. NTASK + 1 /\ "w_scan" \in PCs /\ TypeOK
      BY <3>2, Sets DEF PCs, Inv
    <3>4. LocTo(t, "w_scan", Ix(t) + 1)
      <4>1. PICK i \in 1 .. NTASK + 1 : i = Ix(t) + 1
        BY <3>3
      <4>2. GotoAt(t, "w_scan", i)
        BY <2>2, <4>1 DEF WaitNotMine, Ix
      <4> QED
        BY <3>3, <4>1, <4>2, SetLoc
    <3> QED
      BY <3>1, <3>2, <3>3, <3>4
  <2> QED
    BY <2>1, <2>2
<1>3. Pc(t)' = here /\ Ix(t)' = i /\ \A u \in Tasks \ {t} : LocKept(u)
  BY <1>2 DEF LocTo
<1>4. \A u \in Tasks : Signalled(u)' \subseteq Signalled(u)
  BY <1>1, <1>2, <1>3, NoneNew DEF TaskKept
<1>5. Given' /\ Running(t)
  BY <1>1, <1>2, <1>3 DEF Covered, Given, TaskKept, LocKept, Running, ExitPCs, OutPCs
<1>6. Paid(t)'
  <2>1. Behind(t)' \subseteq Behind(t)
    <3> SUFFICES ASSUME NEW p \in Behind(t)' PROVE p \in Behind(t)
      OBVIOUS
    <3>1. p \in Signalled(t) /\ p \in Tasks /\ p < i
      BY <1>3, <1>4 DEF Behind, Signalled
    <3>2. Par(p) = t
      BY <3>1 DEF Signalled
    <3>3. p < k
      BY <1>2, <3>1, <3>2, Sets
    <3> QED
      BY <1>2, <3>1, <3>3 DEF Behind
  <2>2. /\ Tokens(t)' = Tokens(t) /\ Taken(t)' = 1 /\ Taken(t) = 1 /\ Scanning(t)
    BY <1>1, <1>2, <1>3 DEF Tokens, Taken, Scanning, TaskKept
  <2>3. PICK a, b, c, d : a = Signalled(t)' /\ b = Signalled(t) /\ c = Behind(t)' /\ d = Behind(t)
    OBVIOUS
  <2>4. b \in SUBSET Tasks /\ d \in SUBSET Tasks /\ Tokens(t) \in Nat
    BY <2>3, Amounts
  <2>5. /\ Cardinality(a) \in Nat /\ Cardinality(b) \in Nat /\ Cardinality(a) <= Cardinality(b)
        /\ Cardinality(c) \in Nat /\ Cardinality(d) \in Nat /\ Cardinality(c) <= Cardinality(d)
    BY <1>4, <2>1, <2>3, <2>4, Fewer
  <2>6. Cardinality(b) <= Tokens(t) + 1 /\ Cardinality(d) <= Tokens(t)
    BY <1>5, <2>2, <2>3 DEF Covered, Paid
  <2>7. Cardinality(a) <= Tokens(t)' + Taken(t)' /\ Cardinality(c) <= Tokens(t)'
    BY <2>2, <2>4, <2>5, <2>6
  <2> QED
    BY <2>3, <2>7 DEF Paid
<1> QED
  BY <1>1, <1>3, <1>4, <1>5, <1>6, CoveredBut DEF TaskKept

\* One zombie fewer, for the token that the wait had taken.
LEMMA WaitReapCovered == ASSUME Inv, Covered, NEW t \in Tasks, WaitReap(t) PROVE Covered'
<1>1. PICK k \in Tasks :
           /\ Pc(t) = "w_zombie" /\ St(k) = "ZOMBIE" /\ Pc(k) = "gone"
           /\ k # t /\ Par(k) = t /\ OwnW = None
           /\ TaskTo(k) /\ St(k)' = "DEAD" /\ Par(k)' = None
           /\ Sem(k)' = Sem(k) /\ Queued(k)' = Queued(k) /\ LocTo(t, "user", 1)
  BY WaitReapEffect
<1>2. /\ Pc(t)' = "user" /\ (\A u \in Tasks \ {t} : LocKept(u)) /\ \A u \in Tasks \ {k} : TaskKept(u)
  BY <1>1 DEF LocTo, TaskTo
<1>3. \A u \in Tasks : Signalled(u)' \subseteq Signalled(u)
  BY <1>1, <1>2, NoneNew DEF TaskKept
<1>4. \A u \in Tasks : Pc(u) # "x_v"
  BY <1>1, Start DEF Locked, TreePCs
<1>5. Given' /\ Running(t)
  BY <1>1, <1>2, <1>4 DEF Given, LocKept, Running, ExitPCs, OutPCs
<1>6. Paid(t)'
  <2>1. PICK a, b : a = Signalled(t)' /\ b = Signalled(t)
    OBVIOUS
  <2>2. k \in b /\ b \in SUBSET Tasks /\ k \notin a /\ a \subseteq b /\ Tokens(t) \in Nat
    <3>1. k \in Signalled(t)
      BY <1>1, <1>4 DEF Signalled, Pending
    <3>2. k \notin Signalled(t)'
      BY <1>1, Start DEF Signalled
    <3> QED
      BY <1>3, <2>1, <3>1, <3>2, Amounts
  <2>3. IsFiniteSet(b) /\ Cardinality(b) \in Nat
    BY <2>2, Fewer
  <2>4. Cardinality(b \ {k}) = Cardinality(b) - 1
    BY <2>2, <2>3, FS_RemoveElement
  <2>5. b \ {k} \in SUBSET Tasks /\ a \in SUBSET (b \ {k})
    BY <2>2
  <2>6. Cardinality(a) <= Cardinality(b \ {k}) /\ Cardinality(a) \in Nat
    BY <2>5, Fewer
  <2>7. Taken(t) = 1 /\ Taken(t)' = 0 /\ ~Scanning(t)' /\ Tokens(t)' = Tokens(t)
    BY <1>1, <1>2 DEF Taken, Scanning, Tokens, TaskKept
  <2>8. Cardinality(b) <= Tokens(t) + 1
    BY <1>5, <2>1, <2>7 DEF Covered, Paid
  <2>9. Cardinality(a) <= Tokens(t)' + Taken(t)'
    BY <2>2, <2>3, <2>4, <2>6, <2>7, <2>8
  <2> QED
    BY <2>1, <2>7, <2>9 DEF Paid
<1> QED
  BY <1>1, <1>2, <1>3, <1>5, <1>6, CoveredBut DEF TaskKept

LEMMA CoveredStep == ASSUME Inv, Covered, [Next]_vars PROVE Covered'
<1>1. CASE Next
  BY <1>1, Steps, PlainCovered, ForkTakeCovered, ForkFillCovered, ExitCovered, ExitWaitLockCovered,
     TellsCovered, WakesCovered, ReparentCovered, LeavesCovered, WaitPCovered, WaitSleepCovered,
     ScanCovered, WaitReapCovered DEF Next
<1>2. CASE UNCHANGED vars
  BY ZenonT(40), <1>2 DEF vars, Covered, Given, Running, Paid, Behind, Taken, Scanning, Tokens, Signalled, Pending,
     Pc, Ix, St, Par, Sem, Queued
<1> QED
  BY <1>1, <1>2

LEMMA InitCovered == ASSUME Init PROVE Covered
<1>1. /\ \A t \in Tasks : Par(t) = None /\ Sem(t) = 0 /\ Pc(t) \in {"user", "none"}
  BY DEF Init, Dead, Par, Sem, Pc
<1>2. Given
  BY <1>1 DEF Given
<1>3. \A u \in Tasks : Paid(u)
  <2> SUFFICES ASSUME NEW u \in Tasks PROVE Paid(u)
    OBVIOUS
  <2>1. Signalled(u) = {}
    BY <1>1, Sets DEF Signalled
  <2>2. Cardinality(Signalled(u)) = 0
    BY <2>1, FS_EmptySet
  <2>3. Tokens(u) = 0 /\ Taken(u) = 0 /\ ~Scanning(u)
    BY <1>1 DEF Tokens, Taken, Scanning
  <2> QED
    BY <2>2, <2>3 DEF Paid
<1> QED
  BY <1>2, <1>3 DEF Covered
-----------------------------------------------------------------------------
(* A waiter that is off the list and still asleep *)

\* Nobody else falls asleep or leaves a list, and no semaphore is unlocked.
LEMMA StillWaking ==
  ASSUME Inv, Waking, \A u \in Tasks : OwnSKept(u),
         \A u \in Tasks : St(u)' = "SLEEPING" => St(u) = "SLEEPING" /\ (Queued(u) => Queued(u)')
  PROVE  Waking'
<1> SUFFICES ASSUME NEW u \in Tasks, Roused(u)' PROVE OwnS(u)' # None
  BY DEF Waking
<1>1. St(u) = "SLEEPING" /\ ~Queued(u)
  BY DEF Roused
<1>2. Roused(u)
  BY <1>1, Start DEF States, Roused
<1> QED
  BY <1>2 DEF Waking, OwnSKept

LEMMA OtherLocks ==
  ASSUME Inv, NEW l, NEW x, \A u \in Tasks : S(u) # l,
         owner' = [owner EXCEPT ![l] = x]
  PROVE  \A u \in Tasks : OwnSKept(u)
<1>1. owner \in [LockIds -> Tasks \cup {None}] /\ \A u \in Tasks : S(u) \in LockIds
  BY Typed DEF Inv, LockIds
<1> QED
  BY <1>1 DEF OwnSKept, OwnS

LEMMA QuietWaking ==
  ASSUME Inv, Waking, NEW t \in Tasks,
         \/ ForkTake(t) \/ ForkFill(t) \/ Exit(t) \/ ExitWaitLock(t) \/ Reparent(t)
         \/ ReparentDone(t) \/ ExitSwtch(t) \/ WaitZombie(t) \/ WaitNotMine(t) \/ WaitReap(t)
  PROVE  Waking'
<1>1. \A u \in Tasks : OwnSKept(u)
  <2>1. PICK k \in 1 .. NTASK + 1 : k = loc[t].i
    BY Start DEF Ix
  <2>2. S(k) # W /\ \A u \in Tasks : S(u) # T(k) /\ S(u) # T(t) /\ S(u) # W
    BY DEF S, T, W
  <2>3. CASE ForkTake(t) \/ WaitZombie(t)
    <3>1. owner' = [owner EXCEPT ![T(k)] = t]
      BY <2>1, <2>3 DEF ForkTake, WaitZombie, Lock
    <3> QED
      BY <2>2, <3>1, OtherLocks
  <2>4. CASE ForkFill(t) \/ WaitNotMine(t) \/ WaitReap(t)
    <3>1. owner' = [owner EXCEPT ![T(k)] = None]
      BY <2>1, <2>4 DEF ForkFill, WaitNotMine, WaitReap, Unlock
    <3> QED
      BY <2>2, <3>1, OtherLocks
  <2>5. CASE Exit(t)
    <3>1. owner' = [owner EXCEPT ![T(t)] = t]
      BY <2>5 DEF Exit, Lock
    <3> QED
      BY <2>2, <3>1, OtherLocks
  <2>6. CASE ExitSwtch(t)
    <3>1. owner' = [owner EXCEPT ![T(t)] = None]
      BY <2>6 DEF ExitSwtch, Unlock
    <3> QED
      BY <2>2, <3>1, OtherLocks
  <2>7. CASE ExitWaitLock(t)
    <3>1. owner' = [owner EXCEPT ![W] = t]
      BY <2>7 DEF ExitWaitLock, Lock
    <3> QED
      BY <2>2, <3>1, OtherLocks
  <2>8. CASE ReparentDone(t)
    <3>1. owner' = [owner EXCEPT ![W] = None]
      BY <2>8 DEF ReparentDone, Unlock
    <3> QED
      BY <2>2, <3>1, OtherLocks
  <2>9. CASE Reparent(t)
    BY <2>9 DEF Reparent, OwnSKept, OwnS
  <2> QED
    BY <2>3, <2>4, <2>5, <2>6, <2>7, <2>8, <2>9
<1>2. \A u \in Tasks : St(u)' = "SLEEPING" => St(u) = "SLEEPING" /\ (Queued(u) => Queued(u)')
  <2>1. task \in [Tasks -> TaskSet]
    BY Typed DEF Inv
  <2>2. CASE UNCHANGED task
    BY <2>2 DEF St, Queued
  <2>3. CASE ForkTake(t)
    <3>1. PICK k \in Tasks : k = loc[t].i
      BY <2>3, Start, Sets DEF ForkTake, Ix
    <3>2. \A u \in Tasks \ {k} : task'[u] = task[u]
      BY <2>1, <2>3, <3>1 DEF ForkTake
    <3>3. task'[k].state = "USED"
      BY <2>1, <2>3, <3>1 DEF ForkTake, TaskSet
    <3> QED
      BY <3>2, <3>3 DEF St, Queued
  <2>4. CASE ForkFill(t)
    BY <2>1, <2>4 DEF ForkFill, TaskSet, St, Queued
  <2>5. CASE Exit(t)
    BY <2>1, <2>5 DEF Exit, TaskSet, St, Queued
  <2>6. CASE Reparent(t)
    <3>1. PICK p \in Tasks : TaskTo(p) /\ St(p)' = St(p) /\ Queued(p)' = Queued(p)
      BY <2>6, ReparentEffect
    <3> QED
      BY <3>1 DEF TaskTo, TaskKept
  <2>7. CASE WaitReap(t)
    <3>1. PICK k \in Tasks : TaskTo(k) /\ St(k)' = "DEAD"
      BY <2>7, WaitReapEffect
    <3> QED
      BY <3>1 DEF TaskTo, TaskKept
  <2> QED
    BY <2>2, <2>3, <2>4, <2>5, <2>6, <2>7 DEF ExitWaitLock, ReparentDone, ExitSwtch, WaitZombie,
       WaitNotMine
<1> QED
  BY <1>1, <1>2, StillWaking

LEMMA TellWaking ==
  ASSUME Inv, Waking, NEW t \in Tasks, NEW u \in Tasks, NEW wake \in PCs, VInc(t, u, "x_rep", wake)
  PROVE  Waking'
<1>1. /\ TaskTo(u) /\ St(u)' = St(u) /\ ~Queued(u)'
      /\ \/ ~Queued(u) /\ UNCHANGED owner
         \/ OwnSTo(u, t)
  <2>1. "x_rep" \in PCs
    BY DEF PCs
  <2> QED
    BY <2>1, VIncEffect
<1>2. CASE ~Queued(u) /\ UNCHANGED owner
  <2>1. \A v \in Tasks : OwnSKept(v)
    BY <1>2 DEF OwnSKept, OwnS
  <2>2. \A v \in Tasks : St(v)' = St(v) /\ (Queued(v) => Queued(v)')
    BY <1>1, <1>2 DEF TaskTo, TaskKept
  <2> QED
    BY <2>1, <2>2, StillWaking
<1>3. CASE OwnSTo(u, t)
  <2> SUFFICES ASSUME NEW v \in Tasks, Roused(v)' PROVE OwnS(v)' # None
    BY DEF Waking
  <2>1. CASE v = u
    BY <1>3, <2>1, Start DEF OwnSTo
  <2>2. CASE v # u
    <3>1. St(v) = "SLEEPING" /\ ~Queued(v) /\ OwnS(v)' = OwnS(v)
      BY <1>1, <1>3, <2>2 DEF Roused, TaskTo, TaskKept, OwnSTo, OwnSKept
    <3>2. Roused(v)
      BY <3>1, Start DEF States, Roused
    <3> QED
      BY <3>1, <3>2 DEF Waking
  <2> QED
    BY <2>1, <2>2
<1> QED
  BY <1>1, <1>2, <1>3

\* A semaphore is unlocked: nobody sleeps on it that is off its list.
LEMMA UnlockWaking ==
  ASSUME Inv, Waking, NEW u \in Tasks, NEW x \in Tasks \cup {None}, TaskTo(u), OwnSTo(u, x),
         St(u)' = "SLEEPING" => Queued(u)'
  PROVE  Waking'
<1> SUFFICES ASSUME NEW v \in Tasks, Roused(v)' PROVE OwnS(v)' # None
  BY DEF Waking
<1>1. v # u
  BY DEF Roused
<1>2. St(v) = "SLEEPING" /\ ~Queued(v) /\ OwnS(v)' = OwnS(v)
  BY <1>1 DEF Roused, TaskTo, TaskKept, OwnSTo, OwnSKept
<1>3. Roused(v)
  BY <1>2, Start DEF States, Roused
<1> QED
  BY <1>2, <1>3 DEF Waking

LEMMA WakingStep == ASSUME Inv, Waking, [Next]_vars PROVE Waking'
<1>1. ASSUME NEW t \in Tasks, Plain(t) PROVE Waking'
  <2>1. UNCHANGED owner /\ \A u \in Tasks : TaskKept(u)
    BY <1>1, PlainMoves DEF Moves
  <2>2. \A u \in Tasks : OwnSKept(u)
    BY <2>1 DEF OwnSKept, OwnS
  <2> QED
    BY <2>1, <2>2, StillWaking DEF TaskKept
<1>2. ASSUME NEW t \in Tasks, ExitTellParent(t) PROVE Waking'
  <2>1. Pc(t) = "x_par" /\ "x_wakepar" \in PCs
    BY <1>2 DEF ExitTellParent, At, Pc, PCs
  <2>2. PICK u \in Tasks : VInc(t, u, "x_rep", "x_wakepar")
    BY <1>2, <2>1, Start DEF Places, ExitTellParent, Par
  <2> QED
    BY <2>1, <2>2, TellWaking
<1>3. ASSUME NEW t \in Tasks, ReparentTellInit(t) PROVE Waking'
  <2>1. "x_wakeinit" \in PCs /\ init \in Tasks
    BY Sets DEF PCs
  <2> QED
    BY <1>3, <2>1, TellWaking DEF ReparentTellInit
<1>4. ASSUME NEW t \in Tasks, NEW u \in Tasks, VWake(t, u, "x_rep") PROVE Waking'
  <2>1. TaskTo(u) /\ St(u)' = "RUNNABLE" /\ OwnSTo(u, None)
    BY <1>4, VWakeEffect
  <2> QED
    BY <2>1, UnlockWaking
<1>5. ASSUME NEW t \in Tasks, ExitWakeParent(t) \/ ReparentWakeInit(t) PROVE Waking'
  <2>1. ExitWakeParent(t) => Pc(t) = "x_wakepar"
    BY DEF ExitWakeParent, At, Pc
  <2>2. PICK u \in Tasks : VWake(t, u, "x_rep")
    BY <1>5, <2>1, Start DEF Places, ExitWakeParent, ReparentWakeInit, Par
  <2> QED
    BY <1>4, <2>2
<1>6. ASSUME NEW t \in Tasks, WaitP(t) PROVE Waking'
  <2>1. /\ TaskTo(t) /\ St(t)' = St(t) /\ St(t) = "RUNNABLE" /\ (UNCHANGED owner \/ OwnSTo(t, t))
    BY <1>6, WaitPEffect
  <2>2. CASE UNCHANGED owner
    <3>1. \A u \in Tasks : OwnSKept(u)
      BY <2>2 DEF OwnSKept, OwnS
    <3> QED
      BY <2>1, <3>1, StillWaking DEF TaskTo, TaskKept
  <2>3. CASE OwnSTo(t, t)
    BY <2>1, <2>3, UnlockWaking
  <2> QED
    BY <2>1, <2>2, <2>3
<1>7. ASSUME NEW t \in Tasks, WaitSleep(t) PROVE Waking'
  <2>1. Pc(t) = "p_sleep"
    BY <1>7 DEF WaitSleep, At, Pc
  <2>2. Queued(t)
    BY <2>1, Start DEF States
  <2>3. TaskTo(t) /\ Queued(t)' = Queued(t)
    <3>1. task \in [Tasks -> TaskSet] /\ task' = [task EXCEPT ![t].state = "SLEEPING"]
      BY <1>7, Typed DEF WaitSleep, Inv
    <3> QED
      BY <3>1 DEF TaskTo, TaskKept, TaskSet, St, Id, Par, Sem, Queued
  <2>4. OwnSTo(t, None)
    BY <1>7, SetS DEF WaitSleep, Unlock, Inv
  <2> QED
    BY <2>2, <2>3, <2>4, UnlockWaking
<1>8. CASE UNCHANGED vars
  BY <1>8 DEF vars, Waking, Roused, Pc, St, Queued, OwnS
<1> QED
  BY <1>1, <1>2, <1>3, <1>5, <1>6, <1>7, <1>8, Steps, QuietWaking DEF Next

LEMMA CoveredSound == ASSUME Inv, Covered, Waking PROVE ZombiesSignalled
<1> SUFFICES ASSUME Free(W) PROVE NoStrandedZombie /\ TokensCoverZombies
  BY DEF ZombiesSignalled, NoStrandedZombie, TokensCoverZombies
<1>1. \A t \in Tasks : Pc(t) \notin TreePCs
  BY Start DEF Free, OwnW, Locked
<1>2. \A u \in Tasks : Zombies(u) = Signalled(u)
  <2>1. \A p \in Tasks : Pc(p) # "x_par" /\ ~Pending(p)
    BY <1>1 DEF Pending, TreePCs
  <2> QED
    BY <2>1 DEF Zombies, Signalled, Par, St, Pc
<1>3. TokensCoverZombies
  <2> SUFFICES ASSUME NEW t \in Tasks, Live(t), task[t].state # "ZOMBIE"
               PROVE  Cardinality(Zombies(t)) <= Tokens(t) + Taken(t)
    BY DEF TokensCoverZombies, Tokens, Taken, Scanning, Sem, Pc, Queued
  <2>1. Running(t)
    BY Start DEF Live, States, Running, ExitPCs, OutPCs, St
  <2> QED
    BY <1>2, <2>1 DEF Covered, Paid
<1>4. NoStrandedZombie
  <2> SUFFICES ASSUME NEW t \in Tasks, NEW p \in Tasks, task[t].state = "SLEEPING",
                      task[p].parent = t, task[p].state = "ZOMBIE", loc[p].pc # "x_wait"
               PROVE  FALSE
    BY DEF NoStrandedZombie
  <2>1. St(t) = "SLEEPING" /\ Pc(t) = "p_asleep" /\ Running(t)
    BY Start DEF St, States, Running, ExitPCs, OutPCs
  <2>2. Queued(t)
    <3> SUFFICES ASSUME ~Queued(t) PROVE FALSE
      BY Start
    <3>1. Roused(t)
      BY <2>1 DEF Roused
    <3>2. PICK u \in Tasks : OwnS(t) = u
      BY <3>1, Start DEF Waking
    <3> QED
      BY <1>1, <2>1, <3>2, Start DEF Locked, TreePCs
  <2>3. Tokens(t) = 0 /\ Taken(t) = 0
    BY <2>1, <2>2, Start DEF States, Tokens, Taken, Scanning
  <2>4. PICK a : a = Signalled(t) /\ p \in a /\ a \in SUBSET Tasks
    <3>1. p \in Zombies(t)
      BY DEF Zombies
    <3> QED
      BY <1>2, <3>1, Amounts
  <2>5. Cardinality(a) <= 0
    BY <2>1, <2>3, <2>4 DEF Covered, Paid
  <2>6. IsFiniteSet(a) /\ Cardinality(a) \in Nat
    BY <2>4, Fewer
  <2>7. a = {}
    BY <2>5, <2>6, FS_EmptySet
  <2> QED
    BY <2>4, <2>7
<1> QED
  BY <1>3, <1>4

LEMMA CoveredAlways == Spec => [](Inv /\ Covered /\ Waking)
<1>1. Init => Inv /\ Covered /\ Waking
  <2>1. Init => Waking
    BY DEF Init, Dead, Waking, Roused, Pc
  <2> QED
    BY <2>1, InitInv, InitCovered
<1>2. Inv /\ Covered /\ Waking /\ [Next]_vars => (Inv /\ Covered /\ Waking)'
  BY InvStep, CoveredStep, WakingStep
<1> QED
  BY <1>1, <1>2, PTL DEF Spec

\* Whoever sleeps in sys_wait() has no zombie child that has told it so, and
\* sons_sem holds a token for every such child, through reparent() and through
\* scans that pass a slot before its zombie appears (exit, sys_wait, lm_P, lm_V).
THEOREM ZombiesAreSignalled == Spec => []ZombiesSignalled
<1> QED
  BY CoveredAlways, CoveredSound, PTL
=============================================================================
