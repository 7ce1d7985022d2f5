------------------------------- MODULE FsProof -------------------------------
(***************************************************************************)
(* Proofs about Fs, for any number of tasks, inode slots, files, any tree  *)
(* of directories and any set of paths.                                    *)
(*                                                                         *)
(* PlaceOf says which inodes a task refers to at each place of its call,   *)
(* LockOf which it has locked; FilesCounted that a file is referred to by  *)
(* as many descriptors as its ref says.  A step changes one task, its      *)
(* actor: StepOK collects what has to be shown of the actor alone, and     *)
(* Local shows that the invariant of the whole system follows.             *)
(***************************************************************************)
EXTENDS Fs, FiniteSetTheorems, WellFoundedInduction, TLAPS

\* The places at which a call refers to one inode, to two, to none.
OneIp == {"walk", "look", "putfail", "create", "created", "found", "open", "chdir", "exec",
          "execput"}
TwoIps == {"putnext", "putparent", "newlock"}
NoIp == {"unborn", "idle", "start", "usefile", "using", "trunc", "end"}
PCs == OneIp \cup TwoIps \cup NoIp \cup {"panic", "stuck"}

OpRec(x) == DOMAIN x = {"call", "names", "ip", "next", "mode", "f"}

Shape ==
    /\ inum = [s \in Slots |-> inum[s]]
    /\ ref \in [Slots -> Nat]
    /\ lock \in [Slots -> Tasks \cup {Free}]
    /\ file \in [Files -> [ref : Nat, ip : Slots \cup {None}, writable : BOOLEAN]]
    /\ cwd \in [Tasks -> Slots \cup {None}]
    /\ ofile \in [Tasks -> [Files -> Files \cup {None}]]
    /\ pc \in [Tasks -> PCs]
    /\ op = [t \in Tasks |-> op[t]] /\ \A t \in Tasks : OpRec(op[t])
    /\ fs_lock \in Int /\ refused \in Nat /\ ended \in Nat
    /\ leaked \in [Slots -> Nat]

PlaceOf(t) ==
    /\ pc[t] \in OneIp => op[t].ip \in Slots /\ op[t].next = None
    /\ pc[t] \in TwoIps => op[t].ip \in Slots /\ op[t].next \in Slots
    /\ pc[t] \in NoIp => op[t].ip = None /\ op[t].next = None
    /\ pc[t] = "panic" => op[t].ip \in Slots /\ op[t].next \in Slots \cup {None}
    /\ pc[t] = "stuck" => op[t].ip \in Slots \cup {None} /\ op[t].next = None
    /\ pc[t] # "unborn" => cwd[t] \in Slots
    /\ pc[t] = "unborn" => cwd[t] = None /\ ofile[t] = [fd \in Files |-> None]
    /\ pc[t] \in {"usefile", "using", "trunc"} =>
          op[t].f \in Files /\ \E fd \in Files : ofile[t][fd] = op[t].f
    /\ pc[t] \in {"usefile", "using"} => op[t].call \in {"read", "write"}
    /\ pc[t] = "end" => op[t].call \in {"open", "chdir", "exec", "write"}
    /\ pc[t] \in OneIp \cup TwoIps \cup {"start"} => op[t].call \in {"open", "chdir", "exec"}

\* The semaphores t has; a panic of iget may leave that of its directory.
LockOf(t) ==
    /\ pc[t] # "stuck" => {s \in Slots : lock[s] = t} = Locked(t)
    /\ pc[t] = "stuck" => {s \in Slots : lock[s] = t} \subseteq {op[t].ip}

\* The descriptors, of all tasks, that stand for file f.
Fds(f) == {x \in Tasks \X Files : ofile[x[1]][x[2]] = f}

FilesCounted ==
    \A f \in Files : /\ file[f].ref = Cardinality(Fds(f))
                     /\ file[f].ref > 0 => file[f].ip \in Slots

UniqueInum ==
    \A s, u \in Slots : s # u /\ ref[s] > 0 /\ ref[u] > 0 => inum[s] # inum[u]

\* The pointers to s that tasks have, and the open files of s.
CwdOf(s) == {t \in Tasks : cwd[t] = s}
IpOf(s) == {t \in Tasks : op[t].ip = s}
NextOf(s) == {t \in Tasks : op[t].next = s}
OpenOf(s) == {f \in Files : file[f].ip = s /\ file[f].ref > 0}
ByTasks(s) == Cardinality(CwdOf(s)) + Cardinality(IpOf(s)) + Cardinality(NextOf(s))
ByFiles(s) == Cardinality(OpenOf(s)) + leaked[s]

Counted == \A s \in Slots : ref[s] = ByTasks(s) + ByFiles(s)

InsideSet == {t \in Tasks : Inside(t)}

Inv ==
    /\ Shape /\ FilesCounted /\ UniqueInum /\ Counted /\ TokensAccounted
    /\ \A t \in Tasks : PlaceOf(t) /\ LockOf(t)
-----------------------------------------------------------------------------
(* One element of a set, one member of a sum *)

Is(x, y) == IF x = y THEN 1 ELSE 0
In(x, S) == IF x \in S THEN 1 ELSE 0

LEMMA CardChange ==
  ASSUME NEW S, NEW T, NEW x, IsFiniteSet(S), S \ {x} = T \ {x}
  PROVE  /\ Cardinality(S) \in Nat /\ Cardinality(T) \in Nat
         /\ Cardinality(T) = Cardinality(S) + In(x, T) - In(x, S)
<1>1. /\ IsFiniteSet(S \ {x})
      /\ Cardinality(S \ {x}) = IF x \in S THEN Cardinality(S) - 1 ELSE Cardinality(S)
  BY FS_RemoveElement
<1>2. x \in T => T = (T \ {x}) \cup {x}
  OBVIOUS
<1>3. x \notin T => T = T \ {x}
  OBVIOUS
<1>4. /\ IsFiniteSet(T)
      /\ Cardinality(T) = IF x \in T THEN Cardinality(T \ {x}) + 1 ELSE Cardinality(T \ {x})
  BY <1>1, <1>2, <1>3, FS_AddElement
<1>5. Cardinality(S) \in Nat /\ Cardinality(T) \in Nat
  BY <1>4, FS_CardinalityType
<1> QED
  BY <1>1, <1>4, <1>5 DEF In

LEMMA LowestIn ==
  ASSUME NEW S, S \subseteq Nat, S # {}
  PROVE  Lowest(S) \in S
<1> DEFINE R == {ss \in Nat \X Nat : ss[1] < ss[2]}
<1>1. IsWellFoundedOn(R, Nat)
  BY NatLessThanWellFounded DEF OpToRel
<1> HIDE DEF R
<1>2. PICK x \in S : \A y \in S : ~(<<y, x>> \in R)
  BY <1>1, WFMin
<1>3. ASSUME NEW y \in S PROVE x <= y
  <2>1. x \in Nat /\ y \in Nat
    OBVIOUS
  <2>2. y < x => <<y, x>> \in R
    BY <2>1 DEF R
  <2> QED
    BY <1>2, <2>1, <2>2
<1> QED
  BY <1>3 DEF Lowest

LEMMA Constants == /\ Slots \subseteq Nat \ {0} /\ Files \subseteq Nat \ {0}
                   /\ None \notin Slots /\ None \notin Files
                   /\ IsFiniteSet(Files) /\ IsFiniteSet(Slots) /\ IsFiniteSet(Tasks)
<1>1. NINODE \in Nat /\ NOFILE \in Nat
  BY FsAssumption
<1>2. IsFiniteSet(1 .. NOFILE) /\ IsFiniteSet(1 .. NINODE)
  BY <1>1, FS_Interval
<1> QED
  BY <1>1, <1>2, FsAssumption DEF Slots, Files, None
-----------------------------------------------------------------------------
(* The actor of a step *)

Only(t) ==
    \A u \in Tasks \ {t} : /\ pc'[u] = pc[u] /\ op'[u] = op[u]
                           /\ cwd'[u] = cwd[u] /\ ofile'[u] = ofile[u]

Pointers(t, s) == Is(cwd[t], s) + Is(op[t].ip, s) + Is(op[t].next, s)

\* The counts move as the actor's pointers and the files do.
RefMoves(t) ==
    \A s \in Slots : ref'[s] = ref[s] + Pointers(t, s)' - Pointers(t, s)
                                      + ByFiles(s)' - ByFiles(s)

TokenMoves(t) ==
    fs_lock' = fs_lock + (IF Inside(t) THEN 1 ELSE 0) - (IF Inside(t)' THEN 1 ELSE 0)
                       - (refused' - refused) + (ended' - ended)

\* Semaphores pass from the actor to nobody and back.
LockMoves(t) == \A s \in Slots : lock'[s] # lock[s] => {lock[s], lock'[s]} \subseteq {t, Free}

\* A file that is still referred to keeps its inode.
FilesKept == \A f \in Files : file[f].ref > 0 /\ file'[f].ref > 0 => file'[f].ip = file[f].ip

StepOK(t) ==
    /\ Only(t) /\ Shape' /\ FilesCounted' /\ UniqueInum'
    /\ PlaceOf(t)' /\ LockOf(t)'
    /\ RefMoves(t) /\ TokenMoves(t) /\ LockMoves(t) /\ FilesKept

LEMMA PointersChange ==
  ASSUME NEW t \in Tasks, Only(t), NEW s \in Slots
  PROVE  /\ ByTasks(s) \in Nat /\ ByTasks(s)' \in Nat
         /\ ByTasks(s)' = ByTasks(s) + Pointers(t, s)' - Pointers(t, s)
<1>1. IsFiniteSet(CwdOf(s)) /\ IsFiniteSet(IpOf(s)) /\ IsFiniteSet(NextOf(s))
  BY Constants, FS_Subset DEF CwdOf, IpOf, NextOf
<1>2. /\ CwdOf(s) \ {t} = CwdOf(s)' \ {t}
      /\ IpOf(s) \ {t} = IpOf(s)' \ {t}
      /\ NextOf(s) \ {t} = NextOf(s)' \ {t}
  BY DEF Only, CwdOf, IpOf, NextOf
<1>3. /\ In(t, CwdOf(s)) = Is(cwd[t], s) /\ In(t, CwdOf(s)') = Is(cwd[t], s)'
      /\ In(t, IpOf(s)) = Is(op[t].ip, s) /\ In(t, IpOf(s)') = Is(op[t].ip, s)'
      /\ In(t, NextOf(s)) = Is(op[t].next, s) /\ In(t, NextOf(s)') = Is(op[t].next, s)'
  BY DEF CwdOf, IpOf, NextOf, In, Is
<1>4. Cardinality(CwdOf(s)') = Cardinality(CwdOf(s)) + Is(cwd[t], s)' - Is(cwd[t], s)
  BY <1>1, <1>2, <1>3, CardChange
<1>5. Cardinality(IpOf(s)') = Cardinality(IpOf(s)) + Is(op[t].ip, s)' - Is(op[t].ip, s)
  BY <1>1, <1>2, <1>3, CardChange
<1>6. Cardinality(NextOf(s)') = Cardinality(NextOf(s)) + Is(op[t].next, s)' - Is(op[t].next, s)
  BY <1>1, <1>2, <1>3, CardChange
<1>7. /\ Cardinality(CwdOf(s)) \in Nat /\ Cardinality(CwdOf(s)') \in Nat
      /\ Cardinality(IpOf(s)) \in Nat /\ Cardinality(IpOf(s)') \in Nat
      /\ Cardinality(NextOf(s)) \in Nat /\ Cardinality(NextOf(s)') \in Nat
  BY <1>1, <1>2, CardChange
<1> QED
  BY <1>4, <1>5, <1>6, <1>7 DEF ByTasks, Pointers, Is

\* A task's pointer to s is one that ref[s] counts.
LEMMA Referenced ==
  ASSUME Inv, NEW t \in Tasks, NEW s \in Slots,
         cwd[t] = s \/ op[t].ip = s \/ op[t].next = s
  PROVE  ref[s] > 0
<1>1. IsFiniteSet(CwdOf(s)) /\ IsFiniteSet(IpOf(s)) /\ IsFiniteSet(NextOf(s))
      /\ IsFiniteSet(OpenOf(s))
  BY Constants, FS_Subset DEF CwdOf, IpOf, NextOf, OpenOf
<1>2. /\ Cardinality(CwdOf(s)) \in Nat /\ Cardinality(IpOf(s)) \in Nat
      /\ Cardinality(NextOf(s)) \in Nat /\ Cardinality(OpenOf(s)) \in Nat /\ leaked[s] \in Nat
  BY <1>1, FS_CardinalityType DEF Inv, Shape
<1>3. CwdOf(s) # {} \/ IpOf(s) # {} \/ NextOf(s) # {}
  BY DEF CwdOf, IpOf, NextOf
<1>4. Cardinality(CwdOf(s)) # 0 \/ Cardinality(IpOf(s)) # 0 \/ Cardinality(NextOf(s)) # 0
  BY <1>1, <1>3, FS_EmptySet
<1> QED
  BY <1>2, <1>4 DEF Inv, Counted, ByTasks, ByFiles

LEMMA FileReferenced ==
  ASSUME Inv, NEW f \in Files, file[f].ref > 0
  PROVE  file[f].ip \in Slots /\ ref[file[f].ip] > 0
<1>0. file[f].ip \in Slots
  BY DEF Inv, FilesCounted
<1> DEFINE s == file[f].ip
<1>1. IsFiniteSet(CwdOf(s)) /\ IsFiniteSet(IpOf(s)) /\ IsFiniteSet(NextOf(s))
      /\ IsFiniteSet(OpenOf(s))
  BY Constants, FS_Subset DEF CwdOf, IpOf, NextOf, OpenOf
<1>2. /\ Cardinality(CwdOf(s)) \in Nat /\ Cardinality(IpOf(s)) \in Nat
      /\ Cardinality(NextOf(s)) \in Nat /\ Cardinality(OpenOf(s)) \in Nat /\ leaked[s] \in Nat
  BY <1>0, <1>1, FS_CardinalityType DEF Inv, Shape
<1>3. f \in OpenOf(s)
  BY DEF OpenOf
<1>4. Cardinality(OpenOf(s)) # 0
  BY <1>1, <1>3, FS_EmptySet
<1> QED
  BY <1>0, <1>2, <1>4 DEF Inv, Counted, ByTasks, ByFiles

\* What u # t needs of the files when t moves: the file it uses stays.
LEMMA UsedFile ==
  ASSUME Inv, NEW u \in Tasks, pc[u] \in {"usefile", "using", "trunc"}
  PROVE  op[u].f \in Files /\ file[op[u].f].ref > 0
<1>1. PICK fd \in Files : ofile[u][fd] = op[u].f
  BY DEF Inv, PlaceOf
<1>2. op[u].f \in Files
  BY DEF Inv, PlaceOf
<1>3. <<u, fd>> \in Fds(op[u].f)
  BY <1>1 DEF Fds
<1>4. IsFiniteSet(Tasks \X Files)
  BY Constants, FS_Product
<1>5. IsFiniteSet(Fds(op[u].f))
  BY <1>4, FS_Subset DEF Fds
<1>6. Cardinality(Fds(op[u].f)) \in Nat /\ Cardinality(Fds(op[u].f)) # 0
  BY <1>3, <1>5, FS_CardinalityType, FS_EmptySet
<1> QED
  BY <1>2, <1>6 DEF Inv, FilesCounted

\* The part of Inv that a step of t shows for t alone.
LEMMA Local ==
  ASSUME Inv, NEW t \in Tasks, StepOK(t)
  PROVE  Inv'
<1>1. Shape' /\ FilesCounted' /\ UniqueInum'
  BY DEF StepOK
<1>2. Counted'
  <2> SUFFICES ASSUME NEW s \in Slots PROVE ref'[s] = ByTasks(s)' + ByFiles(s)'
    BY DEF Counted
  <2>1. /\ ByTasks(s) \in Nat /\ ByTasks(s)' \in Nat
        /\ ByTasks(s)' = ByTasks(s) + Pointers(t, s)' - Pointers(t, s)
    BY PointersChange DEF StepOK
  <2>2. ref'[s] = ref[s] + Pointers(t, s)' - Pointers(t, s) + ByFiles(s)' - ByFiles(s)
    BY DEF StepOK, RefMoves
  <2>3. ref[s] = ByTasks(s) + ByFiles(s)
    BY DEF Inv, Counted
  <2>4. IsFiniteSet(OpenOf(s)) /\ IsFiniteSet(OpenOf(s)')
    BY Constants, FS_Subset DEF OpenOf
  <2>5. ByFiles(s) \in Nat /\ ByFiles(s)' \in Nat
    <3>1. Cardinality(OpenOf(s)) \in Nat /\ Cardinality(OpenOf(s)') \in Nat
      BY <2>4, FS_CardinalityType
    <3>2. leaked[s] \in Nat /\ leaked'[s] \in Nat
      BY <1>1 DEF Inv, Shape
    <3> QED
      BY <3>1, <3>2 DEF ByFiles
  <2>6. Pointers(t, s) \in Nat /\ Pointers(t, s)' \in Nat
    BY DEF Pointers, Is
  <2> QED
    BY <2>1, <2>2, <2>3, <2>5, <2>6
<1>3. TokensAccounted'
  <2>1. InsideSet \ {t} = InsideSet' \ {t}
    BY DEF StepOK, Only, InsideSet, Inside
  <2>2. IsFiniteSet(InsideSet)
    BY Constants, FS_Subset DEF InsideSet
  <2>3. /\ Cardinality(InsideSet) \in Nat /\ Cardinality(InsideSet') \in Nat
        /\ Cardinality(InsideSet') = Cardinality(InsideSet) + In(t, InsideSet') - In(t, InsideSet)
    BY <2>1, <2>2, CardChange
  <2>4. /\ In(t, InsideSet) = IF Inside(t) THEN 1 ELSE 0
        /\ In(t, InsideSet') = IF Inside(t)' THEN 1 ELSE 0
    BY DEF In, InsideSet
  <2>5. /\ fs_lock \in Int /\ refused \in Nat /\ ended \in Nat
        /\ fs_lock' \in Int /\ refused' \in Nat /\ ended' \in Nat
    BY <1>1 DEF Inv, Shape
  <2>6. fs_lock = 1 - Cardinality(InsideSet) - refused + ended
    BY DEF Inv, TokensAccounted, InsideSet
  <2>7. fs_lock' = 1 - Cardinality(InsideSet') - refused' + ended'
    BY <2>3, <2>4, <2>5, <2>6 DEF StepOK, TokenMoves
  <2> QED
    BY <2>7 DEF TokensAccounted, InsideSet
<1>4. ASSUME NEW u \in Tasks PROVE PlaceOf(u)'
  <2>1. CASE u = t
    BY <2>1 DEF StepOK
  <2>2. CASE u # t
    <3>1. /\ pc'[u] = pc[u] /\ op'[u] = op[u] /\ cwd'[u] = cwd[u] /\ ofile'[u] = ofile[u]
      BY <2>2 DEF StepOK, Only
    <3>2. PlaceOf(u)
      BY DEF Inv
    <3> QED
      BY <3>1, <3>2 DEF PlaceOf
  <2> QED
    BY <2>1, <2>2
<1>5. ASSUME NEW u \in Tasks PROVE LockOf(u)'
  <2>1. CASE u = t
    BY <2>1 DEF StepOK
  <2>2. CASE u # t
    <3>1. pc'[u] = pc[u] /\ op'[u] = op[u] /\ ofile'[u] = ofile[u]
      BY <2>2 DEF StepOK, Only
    <3>2. {s \in Slots : lock'[s] = u} = {s \in Slots : lock[s] = u}
      <4>1. \A s \in Slots : lock'[s] # lock[s] => lock[s] \in {t, Free} /\ lock'[s] \in {t, Free}
        BY DEF StepOK, LockMoves
      <4>2. u \notin {t, Free}
        BY <2>2, FsAssumption
      <4> QED
        BY <4>1, <4>2
    <3>3. Locked(u)' = Locked(u)
      <4>1. CASE pc[u] \in {"using", "trunc"}
        <5>1. op[u].f \in Files /\ file[op[u].f].ref > 0
          BY <4>1, UsedFile
        <5>2. PICK g \in Files : g = op[u].f
          BY <5>1
        <5>3. op'[u].f = g /\ file[g].ref > 0
          BY <5>1, <5>2, <3>1
        <5>4. PlaceOf(u)' /\ pc'[u] \in {"using", "trunc"}
          BY <1>4, <3>1, <4>1
        <5>5. PICK fd \in Files : ofile'[u][fd] = g
          BY <5>3, <5>4 DEF PlaceOf
        <5>6. <<u, fd>> \in Fds(g)'
          BY <5>5 DEF Fds
        <5>7. IsFiniteSet(Tasks \X Files)
          BY Constants, FS_Product
        <5>8. IsFiniteSet(Fds(g)')
          BY <5>7, FS_Subset DEF Fds
        <5>9. Cardinality(Fds(g)') \in Nat /\ Cardinality(Fds(g)') # 0
          BY <5>6, <5>8, FS_CardinalityType, FS_EmptySet
        <5>10. file'[g].ref > 0
          BY <1>1, <5>9 DEF FilesCounted
        <5>11. file'[g].ip = file[g].ip
          BY <5>3, <5>10 DEF StepOK, FilesKept
        <5> QED
          BY <5>2, <5>3, <5>11, <3>1, <4>1 DEF Locked
      <4>2. CASE pc[u] \notin {"using", "trunc"}
        BY <4>2, <3>1 DEF Locked
      <4> QED
        BY <4>1, <4>2
    <3>4. LockOf(u)
      BY DEF Inv
    <3> QED
      BY <3>1, <3>2, <3>3, <3>4 DEF LockOf
  <2> QED
    BY <2>1, <2>2
<1> QED
  BY <1>1, <1>2, <1>3, <1>4, <1>5 DEF Inv
-----------------------------------------------------------------------------
(* What the steps have in common *)

\* Steps that leave the files alone.
LEMMA FilesSame ==
  ASSUME Inv, UNCHANGED <<file, ofile, leaked>>
  PROVE  /\ FilesCounted' /\ FilesKept
         /\ \A s \in Slots : ByFiles(s)' = ByFiles(s) /\ ByFiles(s) \in Nat
<1>1. \A f \in Files : Fds(f)' = Fds(f)
  BY DEF Fds
<1>2. FilesCounted' /\ FilesKept
  BY <1>1 DEF Inv, FilesCounted, FilesKept
<1>3. ASSUME NEW s \in Slots PROVE ByFiles(s)' = ByFiles(s) /\ ByFiles(s) \in Nat
  <2>1. OpenOf(s)' = OpenOf(s)
    BY DEF OpenOf
  <2>2. IsFiniteSet(OpenOf(s))
    BY Constants, FS_Subset DEF OpenOf
  <2>3. Cardinality(OpenOf(s)) \in Nat
    BY <2>2, FS_CardinalityType
  <2> QED
    BY <2>1, <2>3 DEF ByFiles, Inv, Shape
<1> QED
  BY <1>2, <1>3

\* Steps that leave the references alone too.
LEMMA Quiet ==
  ASSUME Inv, NEW t \in Tasks, UNCHANGED <<tables, leaked>>,
         op'[t].ip = op[t].ip, op'[t].next = op[t].next
  PROVE  FilesCounted' /\ UniqueInum' /\ RefMoves(t) /\ FilesKept
<1>0. UNCHANGED <<inum, ref, file, cwd, ofile, leaked>>
  BY DEF tables
<1>1. FilesCounted' /\ FilesKept /\ \A s \in Slots : ByFiles(s)' = ByFiles(s) /\ ByFiles(s) \in Nat
  BY <1>0, FilesSame
<1>2. UniqueInum'
  BY <1>0 DEF Inv, UniqueInum
<1>3. ASSUME NEW s \in Slots
      PROVE  ref'[s] = ref[s] + Pointers(t, s)' - Pointers(t, s) + ByFiles(s)' - ByFiles(s)
  <2>1. Pointers(t, s)' = Pointers(t, s) /\ Pointers(t, s) \in Nat
    BY <1>0 DEF Pointers, Is
  <2>2. ref[s] \in Nat
    BY DEF Inv, Shape
  <2> QED
    BY <1>0, <1>1, <2>1, <2>2
<1> QED
  BY <1>1, <1>2, <1>3 DEF RefMoves

\* The semaphores of a task that takes one, gives one back, or neither.
LEMMA Takes ==
  ASSUME Inv, NEW t \in Tasks, NEW s \in Slots, lock[s] = Free,
         lock' = [lock EXCEPT ![s] = t], pc[t] # "stuck", pc'[t] # "stuck",
         Locked(t)' = Locked(t) \cup {s}
  PROVE  lock' \in [Slots -> Tasks \cup {Free}] /\ LockMoves(t) /\ LockOf(t)'
<1>1. lock \in [Slots -> Tasks \cup {Free}]
  BY DEF Inv, Shape
<1>2. lock' \in [Slots -> Tasks \cup {Free}] /\ LockMoves(t)
  BY <1>1 DEF LockMoves
<1>3. {u \in Slots : lock[u] = t} = Locked(t)
  BY DEF Inv, LockOf
<1>4. {u \in Slots : lock'[u] = t} = {u \in Slots : lock[u] = t} \cup {s}
  BY <1>1
<1> QED
  BY <1>2, <1>3, <1>4 DEF LockOf

LEMMA Gives ==
  ASSUME Inv, NEW t \in Tasks, NEW s \in Slots, Iunlock(s), pc[t] # "stuck", pc'[t] # "stuck",
         Locked(t) = {s}, Locked(t)' = {}
  PROVE  lock' \in [Slots -> Tasks \cup {Free}] /\ LockMoves(t) /\ LockOf(t)'
<1>1. lock \in [Slots -> Tasks \cup {Free}] /\ t # Free
  BY FsAssumption DEF Inv, Shape
<1>2. {u \in Slots : lock[u] = t} = {s}
  BY DEF Inv, LockOf
<1>3. lock[s] = t
  BY <1>2
<1>4. lock' \in [Slots -> Tasks \cup {Free}] /\ LockMoves(t)
  BY <1>1, <1>3 DEF LockMoves, Iunlock
<1>5. {u \in Slots : lock'[u] = t} = {}
  BY <1>1, <1>2 DEF Iunlock
<1> QED
  BY <1>4, <1>5 DEF LockOf

LEMMA KeepsLocks ==
  ASSUME Inv, NEW t \in Tasks, UNCHANGED lock, pc[t] # "stuck",
         \/ pc'[t] # "stuck" /\ Locked(t)' = Locked(t)
         \/ pc'[t] = "stuck" /\ Locked(t) \subseteq {op'[t].ip}
  PROVE  lock' \in [Slots -> Tasks \cup {Free}] /\ LockMoves(t) /\ LockOf(t)'
<1>1. {u \in Slots : lock[u] = t} = Locked(t)
  BY DEF Inv, LockOf
<1>2. {u \in Slots : lock'[u] = t} = Locked(t)
  BY <1>1
<1> QED
  BY <1>2 DEF Inv, Shape, LockMoves, LockOf

\* The parts of Shape that follow when all but the counted variables are set.
Typed ==
    /\ pc' \in [Tasks -> PCs]
    /\ op' = [t \in Tasks |-> op'[t]] /\ \A t \in Tasks : OpRec(op'[t])
    /\ fs_lock' \in Int /\ refused' \in Nat /\ ended' \in Nat

LEMMA ShapeOf ==
  ASSUME Inv, Typed, UNCHANGED <<tables, leaked>>, lock' \in [Slots -> Tasks \cup {Free}]
  PROVE  Shape'
BY DEF Inv, Shape, Typed, tables

\* One task moves: to place l, with the local variables x.
Moves(t, l, x) ==
    /\ l \in PCs /\ OpRec(x)
    /\ pc' = [pc EXCEPT ![t] = l]
    /\ op' = [op EXCEPT ![t] = x]
    /\ fs_lock' \in Int /\ refused' \in Nat /\ ended' \in Nat

LEMMA MovesTyped ==
  ASSUME Inv, NEW t \in Tasks, NEW l, NEW x, Moves(t, l, x)
  PROVE  /\ Typed /\ pc'[t] = l /\ op'[t] = x
         /\ \A u \in Tasks \ {t} : pc'[u] = pc[u] /\ op'[u] = op[u]
<1>1. pc \in [Tasks -> PCs] /\ op = [u \in Tasks |-> op[u]] /\ \A u \in Tasks : OpRec(op[u])
  BY DEF Inv, Shape
<1>2. pc' \in [Tasks -> PCs] /\ pc'[t] = l /\ \A u \in Tasks \ {t} : pc'[u] = pc[u]
  BY <1>1 DEF Moves
<1>3. op' = [u \in Tasks |-> IF u = t THEN x ELSE op[u]]
  BY <1>1 DEF Moves
<1>4. op'[t] = x /\ \A u \in Tasks \ {t} : op'[u] = op[u]
  BY <1>3
<1>5. op' = [u \in Tasks |-> op'[u]]
  BY <1>3
<1>6. \A u \in Tasks : OpRec(op'[u])
  BY <1>1, <1>4 DEF Moves
<1> QED
  BY <1>2, <1>4, <1>5, <1>6 DEF Typed, Moves

LEMMA MovesSame ==
  ASSUME Inv, NEW t \in Tasks, NEW l \in PCs, Goto(t, l), UNCHANGED <<op, fs_lock, refused, ended>>
  PROVE  Moves(t, l, op[t])
<1>1. op = [u \in Tasks |-> op[u]] /\ OpRec(op[t])
  BY DEF Inv, Shape
<1>2. op' = [op EXCEPT ![t] = op[t]]
  BY <1>1
<1> QED
  BY <1>1, <1>2 DEF Inv, Shape, Moves, Goto

LEMMA QuietOK ==
  ASSUME Inv, NEW t \in Tasks, NEW l, NEW x, Moves(t, l, x), UNCHANGED <<tables, leaked>>,
         x.ip = op[t].ip, x.next = op[t].next,
         PlaceOf(t)', TokenMoves(t),
         lock' \in [Slots -> Tasks \cup {Free}], LockMoves(t), LockOf(t)'
  PROVE  StepOK(t)
<1>1. /\ Typed /\ op'[t] = x
      /\ \A u \in Tasks \ {t} : pc'[u] = pc[u] /\ op'[u] = op[u]
  BY MovesTyped
<1>2. Shape'
  BY <1>1, ShapeOf
<1>3. FilesCounted' /\ UniqueInum' /\ RefMoves(t) /\ FilesKept
  BY <1>1, Quiet
<1>4. Only(t)
  BY <1>1 DEF Only, tables
<1> QED
  BY <1>2, <1>3, <1>4 DEF StepOK
-----------------------------------------------------------------------------
(* The steps that move no reference *)

LEMMA PathCallOK ==
  ASSUME Inv, NEW t \in Tasks, NEW call \in {"open", "chdir", "exec"}, NEW path, NEW mode,
         PathCall(t, call, path, mode), fs_lock' = fs_lock - (IF call = "exec" THEN 0 ELSE 1)
  PROVE  StepOK(t)
<1> DEFINE x == [NoOp EXCEPT !.call = call, !.names = <<path>>, !.mode = mode]
<1>1. OpRec(x) /\ x.ip = None /\ x.next = None /\ x.call = call
  BY DEF NoOp, OpRec
<1>2. op' = [op EXCEPT ![t] = x]
  BY DEF PathCall
<1> HIDE DEF x
<1>3. /\ pc[t] = "idle" /\ pc' = [pc EXCEPT ![t] = "start"]
      /\ UNCHANGED <<tables, lock, refused, ended, leaked>>
  BY DEF PathCall, Goto
<1>4. fs_lock \in Int /\ refused \in Nat /\ ended \in Nat /\ PlaceOf(t)
  BY DEF Inv, Shape
<1>5. Moves(t, "start", x)
  BY <1>1, <1>2, <1>3, <1>4 DEF Moves, PCs, NoIp
<1>6. pc'[t] = "start" /\ op'[t] = x
  BY <1>5, MovesTyped
<1>7. op[t].ip = None /\ op[t].next = None /\ cwd[t] \in Slots
  BY <1>3, <1>4 DEF PlaceOf, NoIp
<1>8. PlaceOf(t)'
  BY <1>1, <1>3, <1>6, <1>7 DEF PlaceOf, OneIp, TwoIps, NoIp, tables
<1>9. TokenMoves(t)
  BY <1>1, <1>3, <1>4, <1>6 DEF TokenMoves, Inside
<1>10. lock' \in [Slots -> Tasks \cup {Free}] /\ LockMoves(t) /\ LockOf(t)'
  <2>1. Locked(t)' = Locked(t)
    BY <1>3, <1>6 DEF Locked
  <2> QED
    BY <1>3, <1>6, <2>1, KeepsLocks
<1> QED
  BY <1>1, <1>3, <1>5, <1>7, <1>8, <1>9, <1>10, QuietOK

LEMMA FileCallOK ==
  ASSUME Inv, NEW t \in Tasks, NEW call \in {"read", "write"}, NEW fd \in Files,
         FileCall(t, call, fd), fs_lock' = fs_lock - (IF call = "write" THEN 1 ELSE 0)
  PROVE  StepOK(t)
<1> DEFINE x == [NoOp EXCEPT !.call = call, !.f = ofile[t][fd]]
<1>1. OpRec(x) /\ x.ip = None /\ x.next = None /\ x.call = call /\ x.f = ofile[t][fd]
  BY DEF NoOp, OpRec
<1>2. op' = [op EXCEPT ![t] = x]
  BY DEF FileCall
<1> HIDE DEF x
<1>3. /\ pc[t] = "idle" /\ pc' = [pc EXCEPT ![t] = "usefile"] /\ ofile[t][fd] # None
      /\ UNCHANGED <<tables, lock, refused, ended, leaked>>
  BY DEF FileCall, Goto, history, calls
<1>4. fs_lock \in Int /\ refused \in Nat /\ ended \in Nat /\ PlaceOf(t)
  BY DEF Inv, Shape
<1>5. Moves(t, "usefile", x)
  BY <1>1, <1>2, <1>3, <1>4 DEF Moves, PCs, NoIp
<1>6. pc'[t] = "usefile" /\ op'[t] = x
  BY <1>5, MovesTyped
<1>7. op[t].ip = None /\ op[t].next = None /\ cwd[t] \in Slots
  BY <1>3, <1>4 DEF PlaceOf, NoIp
<1>8. ofile[t][fd] \in Files
  BY <1>3 DEF Inv, Shape
<1>9. PlaceOf(t)'
  BY <1>1, <1>3, <1>6, <1>7, <1>8 DEF PlaceOf, OneIp, TwoIps, NoIp, tables
<1>10. TokenMoves(t)
  BY <1>1, <1>3, <1>4, <1>6 DEF TokenMoves, Inside
<1>11. lock' \in [Slots -> Tasks \cup {Free}] /\ LockMoves(t) /\ LockOf(t)'
  <2>1. Locked(t)' = Locked(t)
    BY <1>3, <1>6 DEF Locked
  <2> QED
    BY <1>3, <1>6, <2>1, KeepsLocks
<1> QED
  BY <1>1, <1>3, <1>5, <1>7, <1>9, <1>10, <1>11, QuietOK

\* The steps that move on with the same locals.
LEMMA GoesOn ==
  ASSUME Inv, NEW t \in Tasks, NEW l \in PCs, Goto(t, l),
         UNCHANGED <<op, fs_lock, refused, ended, tables, leaked>>
  PROVE  /\ Moves(t, l, op[t]) /\ pc'[t] = l
         /\ PlaceOf(t) /\ LockOf(t)
         /\ PlaceOf(t)' /\ TokenMoves(t)
            /\ lock' \in [Slots -> Tasks \cup {Free}] /\ LockMoves(t) /\ LockOf(t)' => StepOK(t)
         /\ pc[t] \notin {"unborn", "idle"} /\ l \notin {"unborn", "idle"} => TokenMoves(t)
<1>1. Moves(t, l, op[t])
  BY MovesSame
<1>2. pc'[t] = l
  BY <1>1, MovesTyped
<1>3. fs_lock \in Int /\ refused \in Nat /\ ended \in Nat
  BY DEF Inv, Shape
<1>4. pc[t] \notin {"unborn", "idle"} /\ l \notin {"unborn", "idle"} => TokenMoves(t)
  BY <1>2, <1>3 DEF TokenMoves, Inside
<1> QED
  BY <1>1, <1>2, <1>4, QuietOK DEF Inv

LEMMA IlockOK ==
  ASSUME Inv, NEW t \in Tasks, NEW s \in Slots,
         NEW l \in {"look", "created", "panic", "open", "chdir", "exec", "using"}, Ilock(t, s, l),
         pc[t] \in {"walk", "create", "newlock", "found", "usefile"},
         pc'[t] = l => PlaceOf(t)' /\ Locked(t)' = Locked(t) \cup {s}
  PROVE  StepOK(t)
<1>1. /\ lock[s] = Free /\ lock' = [lock EXCEPT ![s] = t] /\ Goto(t, l)
      /\ UNCHANGED <<op, fs_lock, refused, ended, tables, leaked>>
  BY DEF Ilock, history, calls
<1>2. l \in PCs
  BY DEF PCs, OneIp, TwoIps, NoIp
<1>3. pc'[t] = l /\ TokenMoves(t)
  BY <1>1, <1>2, GoesOn
<1>4. lock' \in [Slots -> Tasks \cup {Free}] /\ LockMoves(t) /\ LockOf(t)'
  BY <1>1, <1>3, Takes
<1> QED
  BY <1>1, <1>2, <1>3, <1>4, GoesOn

LEMMA WalkLockOK ==
  ASSUME Inv, NEW t \in Tasks, WalkLock(t)
  PROVE  StepOK(t)
<1>1. pc[t] = "walk" /\ Ilock(t, op[t].ip, "look")
  BY DEF WalkLock
<1>2. PlaceOf(t) /\ op[t].ip \in Slots /\ UNCHANGED <<op, cwd, ofile>>
  BY <1>1 DEF Inv, PlaceOf, OneIp, Ilock, tables
<1>3. pc'[t] = "look" => PlaceOf(t)' /\ Locked(t)' = Locked(t) \cup {op[t].ip}
  BY <1>1, <1>2 DEF PlaceOf, OneIp, TwoIps, NoIp, Locked
<1> QED
  BY <1>1, <1>2, <1>3, IlockOK

LEMMA CreateLockOK ==
  ASSUME Inv, NEW t \in Tasks, CreateLock(t)
  PROVE  StepOK(t)
<1>1. pc[t] = "create" /\ Ilock(t, op[t].ip, "created")
  BY DEF CreateLock
<1>2. PlaceOf(t) /\ op[t].ip \in Slots /\ UNCHANGED <<op, cwd, ofile>>
  BY <1>1 DEF Inv, PlaceOf, OneIp, Ilock, tables
<1>3. pc'[t] = "created" => PlaceOf(t)' /\ Locked(t)' = Locked(t) \cup {op[t].ip}
  BY <1>1, <1>2 DEF PlaceOf, OneIp, TwoIps, NoIp, Locked
<1> QED
  BY <1>1, <1>2, <1>3, IlockOK

LEMMA NewLockOK ==
  ASSUME Inv, NEW t \in Tasks, NewLock(t)
  PROVE  StepOK(t)
<1>1. pc[t] = "newlock" /\ Ilock(t, op[t].next, "panic")
  BY DEF NewLock
<1>2. /\ PlaceOf(t) /\ op[t].ip \in Slots /\ op[t].next \in Slots
      /\ UNCHANGED <<op, cwd, ofile>>
  BY <1>1 DEF Inv, PlaceOf, TwoIps, Ilock, tables
<1>3. pc'[t] = "panic" => PlaceOf(t)'
  BY <1>1, <1>2 DEF PlaceOf, OneIp, TwoIps, NoIp
<1>4. pc'[t] = "panic" => Locked(t)' = Locked(t) \cup {op[t].next}
  BY <1>1, <1>2, Constants DEF Locked
<1> QED
  BY <1>1, <1>2, <1>3, <1>4, IlockOK

LEMMA FoundLockOK ==
  ASSUME Inv, NEW t \in Tasks, FoundLock(t)
  PROVE  StepOK(t)
<1>1. pc[t] = "found" /\ Ilock(t, op[t].ip, op[t].call)
  BY DEF FoundLock
<1>2. PICK c \in {"open", "chdir", "exec"} : c = op[t].call
  BY <1>1 DEF Inv, PlaceOf, OneIp
<1>3. PlaceOf(t) /\ op[t].ip \in Slots /\ UNCHANGED <<op, cwd, ofile>>
  BY <1>1 DEF Inv, PlaceOf, OneIp, Ilock, tables
<1>4. pc'[t] = c => PlaceOf(t)' /\ Locked(t)' = Locked(t) \cup {op[t].ip}
  BY <1>1, <1>2, <1>3 DEF PlaceOf, OneIp, TwoIps, NoIp, Locked
<1> QED
  BY <1>1, <1>2, <1>3, <1>4, IlockOK

LEMMA UseLockOK ==
  ASSUME Inv, NEW t \in Tasks, UseLock(t)
  PROVE  StepOK(t)
<1>1. pc[t] = "usefile" /\ Ilock(t, file[op[t].f].ip, "using")
  BY DEF UseLock
<1>2. op[t].f \in Files /\ file[op[t].f].ip \in Slots
  BY <1>1, UsedFile, FileReferenced
<1>3. PlaceOf(t) /\ UNCHANGED <<op, cwd, ofile, file>>
  BY <1>1 DEF Inv, Ilock, tables
<1>4. pc'[t] = "using" => PlaceOf(t)'
  BY <1>1, <1>3 DEF PlaceOf, OneIp, TwoIps, NoIp
<1>5. pc'[t] = "using" => Locked(t)' = Locked(t) \cup {file[op[t].f].ip}
  BY <1>1, <1>3 DEF Locked
<1> QED
  BY <1>1, <1>2, <1>4, <1>5, IlockOK

LEMMA WalkOverOK ==
  ASSUME Inv, NEW t \in Tasks, WalkOver(t)
  PROVE  StepOK(t)
<1>1. PICK l \in {"putfail", "found"} : Goto(t, l)
  BY DEF WalkOver
<1>2. /\ pc[t] = "walk"
      /\ UNCHANGED <<op, fs_lock, refused, ended, tables, leaked, lock, cwd, ofile>>
  BY DEF WalkOver, history, calls, tables
<1>3. l \in PCs
  BY DEF PCs, OneIp
<1>4. pc'[t] = l /\ TokenMoves(t) /\ PlaceOf(t)
  BY <1>1, <1>2, <1>3, GoesOn
<1>5. PlaceOf(t)'
  BY <1>2, <1>4 DEF PlaceOf, OneIp, TwoIps, NoIp
<1>6. Locked(t)' = Locked(t)
  BY <1>2, <1>4 DEF Locked
<1>7. lock' \in [Slots -> Tasks \cup {Free}] /\ LockMoves(t) /\ LockOf(t)'
  BY <1>2, <1>4, <1>6, KeepsLocks
<1> QED
  BY <1>1, <1>2, <1>3, <1>4, <1>5, <1>7, GoesOn

LEMMA OpenRefusedOK ==
  ASSUME Inv, NEW t \in Tasks, OpenRefused(t)
  PROVE  StepOK(t)
<1>1. /\ pc[t] = "open" /\ Goto(t, "putfail") /\ Iunlock(op[t].ip)
      /\ UNCHANGED <<op, fs_lock, refused, ended, tables, leaked, cwd, ofile>>
  BY DEF OpenRefused, history, calls, tables
<1>2. "putfail" \in PCs
  BY DEF PCs, OneIp
<1>3. pc'[t] = "putfail" /\ TokenMoves(t) /\ PlaceOf(t)
  BY <1>1, <1>2, GoesOn
<1>4. PlaceOf(t)' /\ op[t].ip \in Slots
  BY <1>1, <1>3 DEF PlaceOf, OneIp, TwoIps, NoIp
<1>5. Locked(t) = {op[t].ip} /\ Locked(t)' = {}
  BY <1>1, <1>3 DEF Locked
<1>6. lock' \in [Slots -> Tasks \cup {Free}] /\ LockMoves(t) /\ LockOf(t)'
  BY <1>1, <1>3, <1>4, <1>5, Gives
<1> QED
  BY <1>1, <1>2, <1>3, <1>4, <1>6, GoesOn

LEMMA ExecOK ==
  ASSUME Inv, NEW t \in Tasks, Exec(t)
  PROVE  StepOK(t)
<1>1. pc[t] = "exec" /\ UNCHANGED <<op, fs_lock, refused, ended, tables, leaked, cwd, ofile>>
  BY DEF Exec, history, calls, tables
<1>2. PlaceOf(t) /\ op[t].ip \in Slots
  BY <1>1 DEF Inv, PlaceOf, OneIp
<1>3. CASE Goto(t, "panic") /\ UNCHANGED lock
  <2>1. "panic" \in PCs
    BY DEF PCs
  <2>2. pc'[t] = "panic" /\ TokenMoves(t)
    BY <1>1, <1>3, <2>1, GoesOn
  <2>3. PlaceOf(t)'
    BY <1>1, <1>2, <2>2 DEF PlaceOf, OneIp, TwoIps, NoIp
  <2>4. Locked(t)' = Locked(t)
    BY <1>1, <1>2, <2>2, Constants DEF Locked, PlaceOf, OneIp
  <2>5. lock' \in [Slots -> Tasks \cup {Free}] /\ LockMoves(t) /\ LockOf(t)'
    BY <1>1, <1>3, <2>2, <2>4, KeepsLocks
  <2> QED
    BY <1>1, <1>3, <2>1, <2>2, <2>3, <2>5, GoesOn
<1>4. CASE Goto(t, "execput") /\ Iunlock(op[t].ip)
  <2>1. "execput" \in PCs
    BY DEF PCs, OneIp
  <2>2. pc'[t] = "execput" /\ TokenMoves(t)
    BY <1>1, <1>4, <2>1, GoesOn
  <2>3. PlaceOf(t)'
    BY <1>1, <1>2, <2>2 DEF PlaceOf, OneIp, TwoIps, NoIp
  <2>4. Locked(t) = {op[t].ip} /\ Locked(t)' = {}
    BY <1>1, <2>2 DEF Locked
  <2>5. lock' \in [Slots -> Tasks \cup {Free}] /\ LockMoves(t) /\ LockOf(t)'
    BY <1>1, <1>2, <1>4, <2>2, <2>4, Gives
  <2> QED
    BY <1>1, <1>4, <2>1, <2>2, <2>3, <2>5, GoesOn
<1> QED
  BY <1>3, <1>4 DEF Exec

LEMMA WriteDoneOK ==
  ASSUME Inv, NEW t \in Tasks, WriteDone(t)
  PROVE  StepOK(t)
<1>1. /\ pc[t] = "using" /\ op[t].call = "write" /\ Goto(t, "end") /\ Iunlock(file[op[t].f].ip)
      /\ UNCHANGED <<op, fs_lock, refused, ended, tables, leaked, cwd, ofile, file>>
  BY DEF WriteDone, history, calls, tables
<1>2. "end" \in PCs
  BY DEF PCs, NoIp
<1>3. pc'[t] = "end" /\ TokenMoves(t) /\ PlaceOf(t)
  BY <1>1, <1>2, GoesOn
<1>4. PlaceOf(t)' /\ file[op[t].f].ip \in Slots
  BY <1>1, <1>3, UsedFile, FileReferenced DEF PlaceOf, OneIp, TwoIps, NoIp
<1>5. Locked(t) = {file[op[t].f].ip} /\ Locked(t)' = {}
  BY <1>1, <1>3 DEF Locked
<1>6. lock' \in [Slots -> Tasks \cup {Free}] /\ LockMoves(t) /\ LockOf(t)'
  BY <1>1, <1>3, <1>4, <1>5, Gives
<1> QED
  BY <1>1, <1>2, <1>3, <1>4, <1>6, GoesOn

LEMMA NoOpRec == OpRec(NoOp) /\ NoOp.ip = None /\ NoOp.next = None /\ NoOp.call = "none"
BY DEF OpRec, NoOp

LEMMA UseReturnsOK ==
  ASSUME Inv, NEW t \in Tasks, UseReturns(t)
  PROVE  StepOK(t)
<1>1. /\ pc[t] = "using" /\ pc' = [pc EXCEPT ![t] = "idle"] /\ op' = [op EXCEPT ![t] = NoOp]
      /\ Iunlock(file[op[t].f].ip)
      /\ refused' = refused + (IF op[t].call = "write" THEN 1 ELSE 0)
      /\ UNCHANGED <<fs_lock, ended, tables, leaked, cwd, ofile>>
  BY DEF UseReturns, Goto, tables
<1>2. fs_lock \in Int /\ refused \in Nat /\ ended \in Nat /\ PlaceOf(t)
  BY DEF Inv, Shape
<1>3. Moves(t, "idle", NoOp)
  BY <1>1, <1>2, NoOpRec DEF Moves, PCs, NoIp
<1>4. pc'[t] = "idle" /\ op'[t] = NoOp
  BY <1>3, MovesTyped
<1>5. op[t].ip = None /\ op[t].next = None /\ cwd[t] \in Slots /\ op[t].call \in {"read", "write"}
  BY <1>1, <1>2 DEF PlaceOf, NoIp
<1>6. PlaceOf(t)'
  BY <1>1, <1>4, <1>5, NoOpRec DEF PlaceOf, OneIp, TwoIps, NoIp
<1>7. TokenMoves(t)
  BY <1>1, <1>2, <1>4, <1>5, NoOpRec DEF TokenMoves, Inside
<1>8. file[op[t].f].ip \in Slots
  BY <1>1, UsedFile, FileReferenced
<1>9. Locked(t) = {file[op[t].f].ip} /\ Locked(t)' = {}
  BY <1>1, <1>4 DEF Locked
<1>10. lock' \in [Slots -> Tasks \cup {Free}] /\ LockMoves(t) /\ LockOf(t)'
  BY <1>1, <1>4, <1>8, <1>9, Gives
<1> QED
  BY <1>1, <1>3, <1>5, <1>6, <1>7, <1>10, NoOpRec, QuietOK

LEMMA EndOpOK ==
  ASSUME Inv, NEW t \in Tasks, EndOp(t)
  PROVE  StepOK(t)
<1>1. /\ pc[t] = "end" /\ pc' = [pc EXCEPT ![t] = "idle"] /\ op' = [op EXCEPT ![t] = NoOp]
      /\ fs_lock' = fs_lock + 1
      /\ ended' = ended + (IF op[t].call = "exec" THEN 1 ELSE 0)
      /\ UNCHANGED <<lock, refused, tables, leaked, cwd, ofile>>
  BY DEF EndOp, Goto, tables
<1>2. fs_lock \in Int /\ refused \in Nat /\ ended \in Nat /\ PlaceOf(t)
  BY DEF Inv, Shape
<1>3. Moves(t, "idle", NoOp)
  BY <1>1, <1>2, NoOpRec DEF Moves, PCs, NoIp
<1>4. pc'[t] = "idle" /\ op'[t] = NoOp
  BY <1>3, MovesTyped
<1>5. /\ op[t].ip = None /\ op[t].next = None /\ cwd[t] \in Slots
      /\ op[t].call \in {"open", "chdir", "exec", "write"}
  BY <1>1, <1>2 DEF PlaceOf, NoIp
<1>6. PlaceOf(t)'
  BY <1>1, <1>4, <1>5, NoOpRec DEF PlaceOf, OneIp, TwoIps, NoIp
<1>7. TokenMoves(t)
  BY <1>1, <1>2, <1>4, <1>5, NoOpRec DEF TokenMoves, Inside
<1>8. Locked(t)' = Locked(t)
  BY <1>1, <1>4 DEF Locked
<1>9. lock' \in [Slots -> Tasks \cup {Free}] /\ LockMoves(t) /\ LockOf(t)'
  BY <1>1, <1>4, <1>8, KeepsLocks
<1> QED
  BY <1>1, <1>3, <1>5, <1>6, <1>7, <1>9, NoOpRec, QuietOK
-----------------------------------------------------------------------------
(* iget and iput *)

\* iget returns a slot, counts one more reference of it and puts no inode in
\* two slots.
LEMMA IgetSlot ==
  ASSUME Inv, NEW i, CanGet(i), Iget(i)
  PROVE  /\ SlotFor(i) \in Slots
         /\ ref' \in [Slots -> Nat] /\ inum' = [s \in Slots |-> inum'[s]]
         /\ \A s \in Slots : ref'[s] = ref[s] + Is(SlotFor(i), s)
         /\ UniqueInum'
<1>1. InUse(i) \subseteq Slots /\ Empty \subseteq Slots /\ Slots \subseteq Nat
  BY Constants DEF InUse, Empty
<1>2. InUse(i) # {} => Lowest(InUse(i)) \in InUse(i)
  BY <1>1, LowestIn
<1>3. Empty # {} => Lowest(Empty) \in Empty
  BY <1>1, LowestIn
<1>4. PICK s \in Slots : s = SlotFor(i)
  BY <1>1, <1>2, <1>3 DEF SlotFor, CanGet
<1>5. s \in InUse(i) \/ InUse(i) = {}
  BY <1>2, <1>4 DEF SlotFor
<1>6. ref \in [Slots -> Nat] /\ inum = [u \in Slots |-> inum[u]] /\ UniqueInum
  BY DEF Inv, Shape
<1>7. ref' = [ref EXCEPT ![s] = @ + 1] /\ inum' = [inum EXCEPT ![s] = i]
  BY <1>4 DEF Iget
<1>8. inum' = [u \in Slots |-> IF u = s THEN i ELSE inum[u]]
  BY <1>6, <1>7
<1>9. inum' = [u \in Slots |-> inum'[u]]
  BY <1>8
<1>10. ref' \in [Slots -> Nat] /\ \A u \in Slots : ref'[u] = ref[u] + Is(s, u)
  BY <1>6, <1>7 DEF Is
<1>11. \A u \in Slots \ {s} : ref[u] > 0 => inum[u] # i
  BY <1>5, <1>6 DEF InUse, UniqueInum
<1>12. UniqueInum'
  <2> SUFFICES ASSUME NEW u \in Slots, NEW v \in Slots, u # v, ref'[u] > 0, ref'[v] > 0
               PROVE  inum'[u] # inum'[v]
    BY DEF UniqueInum
  <2>1. CASE u = s
    BY <2>1, <1>6, <1>8, <1>10, <1>11 DEF Is
  <2>2. CASE v = s
    BY <2>2, <1>6, <1>8, <1>10, <1>11 DEF Is
  <2>3. CASE u # s /\ v # s
    BY <2>3, <1>6, <1>8, <1>10 DEF Is, UniqueInum
  <2> QED
    BY <2>1, <2>2, <2>3
<1> QED
  BY <1>4, <1>9, <1>10, <1>12

LEMMA IputSlot ==
  ASSUME Inv, NEW s \in Slots, ref[s] > 0, Iput(s)
  PROVE  /\ ref' \in [Slots -> Nat] /\ inum' = [u \in Slots |-> inum'[u]]
         /\ \A u \in Slots : ref'[u] = ref[u] - Is(s, u)
         /\ UniqueInum'
<1>1. ref \in [Slots -> Nat] /\ inum = [u \in Slots |-> inum[u]] /\ UniqueInum
  BY DEF Inv, Shape
<1>2. ref' \in [Slots -> Nat] /\ \A u \in Slots : ref'[u] = ref[u] - Is(s, u)
  BY <1>1 DEF Iput, Is
<1>3. inum' = [u \in Slots |-> IF u = s THEN (IF ref[s] = 1 THEN 0 ELSE inum[s]) ELSE inum[u]]
  BY <1>1 DEF Iput
<1>4. inum' = [u \in Slots |-> inum'[u]]
  BY <1>3
<1>5. UniqueInum'
  <2> SUFFICES ASSUME NEW u \in Slots, NEW v \in Slots, u # v, ref'[u] > 0, ref'[v] > 0
               PROVE  inum'[u] # inum'[v]
    BY DEF UniqueInum
  <2>1. inum'[u] = inum[u] /\ inum'[v] = inum[v] /\ ref[u] > 0 /\ ref[v] > 0
    BY <1>1, <1>2, <1>3 DEF Is
  <2> QED
    BY <1>1, <2>1 DEF UniqueInum
<1> QED
  BY <1>2, <1>4, <1>5

LEMMA MoveOK ==
  ASSUME Inv, NEW t \in Tasks, NEW l, NEW x, Moves(t, l, x), UNCHANGED <<file, ofile, leaked>>,
         ref' \in [Slots -> Nat], inum' = [s \in Slots |-> inum'[s]], UniqueInum',
         cwd' \in [Tasks -> Slots \cup {None}], \A u \in Tasks \ {t} : cwd'[u] = cwd[u],
         \A s \in Slots : ref'[s] = ref[s] + Is(cwd'[t], s) + Is(x.ip, s) + Is(x.next, s)
                                    - Is(cwd[t], s) - Is(op[t].ip, s) - Is(op[t].next, s),
         PlaceOf(t)', TokenMoves(t),
         lock' \in [Slots -> Tasks \cup {Free}], LockMoves(t), LockOf(t)'
  PROVE  StepOK(t)
<1>1. /\ Typed /\ op'[t] = x
      /\ \A u \in Tasks \ {t} : pc'[u] = pc[u] /\ op'[u] = op[u]
  BY MovesTyped
<1>2. Shape'
  BY <1>1 DEF Typed, Shape, Inv
<1>3. FilesCounted' /\ FilesKept /\ \A s \in Slots : ByFiles(s)' = ByFiles(s) /\ ByFiles(s) \in Nat
  BY FilesSame
<1>4. Only(t)
  BY <1>1 DEF Only
<1>5. RefMoves(t)
  <2> SUFFICES ASSUME NEW s \in Slots
               PROVE  ref'[s] = ref[s] + Pointers(t, s)' - Pointers(t, s) + ByFiles(s)' - ByFiles(s)
    BY DEF RefMoves
  <2>1. ref[s] \in Nat /\ ByFiles(s)' = ByFiles(s) /\ ByFiles(s) \in Nat
    BY <1>3 DEF Inv, Shape
  <2>2. /\ Pointers(t, s) = Is(cwd[t], s) + Is(op[t].ip, s) + Is(op[t].next, s)
        /\ Pointers(t, s)' = Is(cwd'[t], s) + Is(x.ip, s) + Is(x.next, s)
    BY <1>1 DEF Pointers, Is
  <2>3. /\ Is(cwd[t], s) \in Nat /\ Is(op[t].ip, s) \in Nat /\ Is(op[t].next, s) \in Nat
        /\ Is(cwd'[t], s) \in Nat /\ Is(x.ip, s) \in Nat /\ Is(x.next, s) \in Nat
    BY DEF Is
  <2> QED
    BY <2>1, <2>2, <2>3
<1> QED
  BY <1>2, <1>3, <1>4, <1>5 DEF StepOK

\* The locals after a step that sets ip, next, f or the rest of the path.
Locals(t, x, ip, next, f) ==
    /\ OpRec(x) /\ op' = [op EXCEPT ![t] = x]
    /\ x.ip = ip /\ x.next = next /\ x.f = f /\ x.call = op[t].call

SetIpNames(t, a, b) == op' = [op EXCEPT ![t].ip = a, ![t].names = b]

LEMMA SetsIpNames ==
  ASSUME Inv, NEW t \in Tasks, NEW a, NEW b, SetIpNames(t, a, b)
  PROVE  \E x : Locals(t, x, a, op[t].next, op[t].f)
<1> DEFINE x == [op[t] EXCEPT !.ip = a, !.names = b]
<1>1. op = [u \in Tasks |-> op[u]] /\ OpRec(op[t])
  BY DEF Inv, Shape
<1>2. op' = [op EXCEPT ![t] = x]
  BY <1>1 DEF OpRec, SetIpNames
<1>3. Locals(t, x, a, op[t].next, op[t].f)
  BY <1>1, <1>2 DEF OpRec, Locals
<1> QED
  BY <1>3

SetNextNames(t, a, b) == op' = [op EXCEPT ![t].next = a, ![t].names = b]

LEMMA SetsNextNames ==
  ASSUME Inv, NEW t \in Tasks, NEW a, NEW b, SetNextNames(t, a, b)
  PROVE  \E x : Locals(t, x, op[t].ip, a, op[t].f)
<1> DEFINE x == [op[t] EXCEPT !.next = a, !.names = b]
<1>1. op = [u \in Tasks |-> op[u]] /\ OpRec(op[t])
  BY DEF Inv, Shape
<1>2. op' = [op EXCEPT ![t] = x]
  BY <1>1 DEF OpRec, SetNextNames
<1>3. Locals(t, x, op[t].ip, a, op[t].f)
  BY <1>1, <1>2 DEF OpRec, Locals
<1> QED
  BY <1>3

SetIpNext(t, a, b) == op' = [op EXCEPT ![t].ip = a, ![t].next = b]

LEMMA SetsIpNext ==
  ASSUME Inv, NEW t \in Tasks, NEW a, NEW b, SetIpNext(t, a, b)
  PROVE  \E x : Locals(t, x, a, b, op[t].f)
<1> DEFINE x == [op[t] EXCEPT !.ip = a, !.next = b]
<1>1. op = [u \in Tasks |-> op[u]] /\ OpRec(op[t])
  BY DEF Inv, Shape
<1>2. op' = [op EXCEPT ![t] = x]
  BY <1>1 DEF OpRec, SetIpNext
<1>3. Locals(t, x, a, b, op[t].f)
  BY <1>1, <1>2 DEF OpRec, Locals
<1> QED
  BY <1>3

SetIpF(t, a, b) == op' = [op EXCEPT ![t].ip = a, ![t].f = b]

LEMMA SetsIpF ==
  ASSUME Inv, NEW t \in Tasks, NEW a, NEW b, SetIpF(t, a, b)
  PROVE  \E x : Locals(t, x, a, op[t].next, b)
<1> DEFINE x == [op[t] EXCEPT !.ip = a, !.f = b]
<1>1. op = [u \in Tasks |-> op[u]] /\ OpRec(op[t])
  BY DEF Inv, Shape
<1>2. op' = [op EXCEPT ![t] = x]
  BY <1>1 DEF OpRec, SetIpF
<1>3. Locals(t, x, a, op[t].next, b)
  BY <1>1, <1>2 DEF OpRec, Locals
<1> QED
  BY <1>3

SetIp(t, a) == op' = [op EXCEPT ![t].ip = a]

LEMMA SetsIp ==
  ASSUME Inv, NEW t \in Tasks, NEW a, SetIp(t, a)
  PROVE  \E x : Locals(t, x, a, op[t].next, op[t].f)
<1> DEFINE x == [op[t] EXCEPT !.ip = a]
<1>1. op = [u \in Tasks |-> op[u]] /\ OpRec(op[t])
  BY DEF Inv, Shape
<1>2. op' = [op EXCEPT ![t] = x]
  BY <1>1 DEF OpRec, SetIp
<1>3. Locals(t, x, a, op[t].next, op[t].f)
  BY <1>1, <1>2 DEF OpRec, Locals
<1> QED
  BY <1>3

\* A panic of iget: the task keeps its reference and its lock.
LEMMA StuckOK ==
  ASSUME Inv, NEW t \in Tasks, pc[t] \in {"start", "look", "created"}, IgetPanic(t),
         UNCHANGED <<lock, fs_lock, file, cwd, ofile, history>>
  PROVE  StepOK(t)
<1>1. /\ Goto(t, "stuck")
      /\ UNCHANGED <<op, fs_lock, refused, ended, tables, leaked, lock, cwd, ofile>>
  BY DEF IgetPanic, history, calls, tables, itable
<1>2. "stuck" \in PCs
  BY DEF PCs
<1>3. pc'[t] = "stuck" /\ TokenMoves(t) /\ PlaceOf(t)
  BY <1>1, <1>2, GoesOn
<1>4. PlaceOf(t)'
  BY <1>1, <1>3 DEF PlaceOf, OneIp, TwoIps, NoIp
<1>5. Locked(t) \subseteq {op'[t].ip}
  BY <1>1, <1>3 DEF Locked
<1>6. lock' \in [Slots -> Tasks \cup {Free}] /\ LockMoves(t) /\ LockOf(t)'
  BY <1>1, <1>3, <1>5, KeepsLocks
<1> QED
  BY <1>1, <1>2, <1>3, <1>4, <1>6, GoesOn

LEMMA WalkStartOK ==
  ASSUME Inv, NEW t \in Tasks, WalkStart(t)
  PROVE  StepOK(t)
<1>1. PICK i, names :
         /\ pc[t] = "start"
         /\ \/ /\ CanGet(i) /\ Iget(i)
               /\ op' = [op EXCEPT ![t].ip = SlotFor(i), ![t].names = names]
               /\ Goto(t, "walk")
            \/ IgetPanic(t)
         /\ UNCHANGED <<lock, fs_lock, file, cwd, ofile, history>>
  BY DEF WalkStart
<1>2. CASE IgetPanic(t)
  BY <1>1, <1>2, StuckOK
<1>3. CASE /\ CanGet(i) /\ Iget(i)
           /\ op' = [op EXCEPT ![t].ip = SlotFor(i), ![t].names = names]
           /\ Goto(t, "walk")
  <2>1. /\ SlotFor(i) \in Slots
        /\ ref' \in [Slots -> Nat] /\ inum' = [s \in Slots |-> inum'[s]]
        /\ \A s \in Slots : ref'[s] = ref[s] + Is(SlotFor(i), s)
        /\ UniqueInum'
    BY <1>3, IgetSlot
  <2>2. PICK g \in Slots : g = SlotFor(i)
    BY <2>1
  <2>5. PICK x : Locals(t, x, g, op[t].next, op[t].f)
    BY <1>3, <2>2, SetsIpNames DEF SetIpNames
  <2>6. /\ OpRec(x) /\ op' = [op EXCEPT ![t] = x]
        /\ x.ip = g /\ x.next = op[t].next /\ x.call = op[t].call
    BY <2>5 DEF Locals
  <2>7. fs_lock \in Int /\ refused \in Nat /\ ended \in Nat /\ PlaceOf(t)
    BY DEF Inv, Shape
  <2>8. UNCHANGED <<fs_lock, refused, ended, lock, cwd, file, ofile, leaked>>
    BY <1>1 DEF history, calls
  <2>9. Moves(t, "walk", x)
    BY <1>3, <2>5, <2>6, <2>7, <2>8 DEF Moves, PCs, OneIp, Goto
  <2>10. pc'[t] = "walk" /\ op'[t] = x
    BY <2>9, MovesTyped
  <2>11. op[t].ip = None /\ op[t].next = None /\ cwd[t] \in Slots
    BY <1>1, <2>7 DEF PlaceOf, NoIp
  <2>12. PlaceOf(t)'
    BY <1>1, <2>6, <2>7, <2>8, <2>10, <2>11 DEF PlaceOf, OneIp, TwoIps, NoIp
  <2>13. TokenMoves(t)
    BY <1>1, <2>6, <2>7, <2>8, <2>10 DEF TokenMoves, Inside
  <2>14. Locked(t)' = Locked(t)
    BY <1>1, <2>10 DEF Locked
  <2>15. lock' \in [Slots -> Tasks \cup {Free}] /\ LockMoves(t) /\ LockOf(t)'
    BY <1>1, <2>8, <2>10, <2>14, KeepsLocks
  <2>16. \A s \in Slots : ref'[s] = ref[s] + Is(cwd'[t], s) + Is(x.ip, s) + Is(x.next, s)
                                    - Is(cwd[t], s) - Is(op[t].ip, s) - Is(op[t].next, s)
    BY <2>1, <2>2, <2>6, <2>8, <2>11, Constants DEF Is, Inv, Shape
  <2>17. cwd' \in [Tasks -> Slots \cup {None}] /\ \A u \in Tasks \ {t} : cwd'[u] = cwd[u]
    BY <2>8 DEF Inv, Shape
  <2> QED
    BY <2>1, <2>8, <2>9, <2>12, <2>13, <2>15, <2>16, <2>17, MoveOK
<1> QED
  BY <1>1, <1>2, <1>3

\* iget of an entry, as op[t].next.
LEMMA TakesEntry ==
  ASSUME Inv, NEW t \in Tasks, pc[t] \in {"look", "created"}, NEW i, NEW rest, CanGet(i), Iget(i),
         NEW l \in {"putnext", "putparent", "newlock"}, Goto(t, l),
         SetNextNames(t, SlotFor(i), rest),
         IF l = "newlock" THEN UNCHANGED lock ELSE Iunlock(op[t].ip),
         UNCHANGED <<fs_lock, file, cwd, ofile, history>>
  PROVE  StepOK(t)
<1>1. /\ SlotFor(i) \in Slots
      /\ ref' \in [Slots -> Nat] /\ inum' = [s \in Slots |-> inum'[s]]
      /\ \A s \in Slots : ref'[s] = ref[s] + Is(SlotFor(i), s)
      /\ UniqueInum'
  BY IgetSlot
<1>2. PICK g \in Slots : g = SlotFor(i)
  BY <1>1
<1>3. PICK x : Locals(t, x, op[t].ip, g, op[t].f)
  BY <1>2, SetsNextNames
<1>4. /\ OpRec(x) /\ op' = [op EXCEPT ![t] = x]
      /\ x.ip = op[t].ip /\ x.next = g /\ x.call = op[t].call
  BY <1>3 DEF Locals
<1>5. fs_lock \in Int /\ refused \in Nat /\ ended \in Nat /\ PlaceOf(t)
  BY DEF Inv, Shape
<1>6. UNCHANGED <<fs_lock, refused, ended, cwd, file, ofile, leaked>>
  BY DEF history, calls
<1>7. Moves(t, l, x)
  BY <1>4, <1>5, <1>6 DEF Moves, PCs, TwoIps, Goto
<1>8. pc'[t] = l /\ op'[t] = x
  BY <1>7, MovesTyped
<1>9. /\ op[t].ip \in Slots /\ op[t].next = None /\ cwd[t] \in Slots
      /\ op[t].call \in {"open", "chdir", "exec"}
  BY <1>5 DEF PlaceOf, OneIp
<1>10. PlaceOf(t)'
  BY <1>4, <1>6, <1>8, <1>9 DEF PlaceOf, OneIp, TwoIps, NoIp
<1>11. TokenMoves(t)
  BY <1>4, <1>5, <1>6, <1>8 DEF TokenMoves, Inside
<1>12. lock' \in [Slots -> Tasks \cup {Free}] /\ LockMoves(t) /\ LockOf(t)'
  <2>1. Locked(t) = {op[t].ip}
    BY DEF Locked
  <2>2. CASE l = "newlock"
    <3>1. Locked(t)' = Locked(t)
      BY <2>1, <2>2, <1>4, <1>8 DEF Locked
    <3> QED
      BY <2>2, <3>1, <1>8, KeepsLocks
  <2>3. CASE l # "newlock"
    <3>1. Locked(t)' = {}
      BY <2>3, <1>8 DEF Locked
    <3> QED
      BY <2>1, <2>3, <3>1, <1>8, <1>9, Gives
  <2> QED
    BY <2>2, <2>3
<1>13. \A s \in Slots : ref'[s] = ref[s] + Is(cwd'[t], s) + Is(x.ip, s) + Is(x.next, s)
                                  - Is(cwd[t], s) - Is(op[t].ip, s) - Is(op[t].next, s)
  BY <1>1, <1>2, <1>4, <1>6, <1>9, Constants DEF Is, Inv, Shape
<1>14. cwd' \in [Tasks -> Slots \cup {None}] /\ \A u \in Tasks \ {t} : cwd'[u] = cwd[u]
  BY <1>6 DEF Inv, Shape
<1> QED
  BY <1>1, <1>6, <1>7, <1>10, <1>11, <1>12, <1>13, <1>14, MoveOK

\* iunlock of the directory, and on to the next step of the walk or to its end.
LEMMA LeavesOK ==
  ASSUME Inv, NEW t \in Tasks, pc[t] \in {"look", "created"}, NEW l \in {"putfail", "create"},
         Goto(t, l), Iunlock(op[t].ip),
         UNCHANGED <<itable, op, fs_lock, file, cwd, ofile, history>>
  PROVE  StepOK(t)
<1>1. UNCHANGED <<op, fs_lock, refused, ended, tables, leaked, cwd, ofile>>
  BY DEF itable, tables, history, calls
<1>2. l \in PCs
  BY DEF PCs, OneIp
<1>3. pc'[t] = l /\ TokenMoves(t) /\ PlaceOf(t)
  BY <1>1, <1>2, GoesOn
<1>4. PlaceOf(t)' /\ op[t].ip \in Slots
  BY <1>1, <1>3 DEF PlaceOf, OneIp, TwoIps, NoIp
<1>5. Locked(t) = {op[t].ip} /\ Locked(t)' = {}
  BY <1>3 DEF Locked
<1>6. lock' \in [Slots -> Tasks \cup {Free}] /\ LockMoves(t) /\ LockOf(t)'
  BY <1>3, <1>4, <1>5, Gives
<1> QED
  BY <1>1, <1>2, <1>3, <1>4, <1>6, GoesOn

LEMMA WalkLookOK ==
  ASSUME Inv, NEW t \in Tasks, WalkLook(t)
  PROVE  StepOK(t)
<1>1. pc[t] = "look" /\ UNCHANGED <<fs_lock, file, cwd, ofile, history>>
  BY DEF WalkLook
<1>2. ASSUME NEW l \in {"putfail", "create"}, Goto(t, l), Iunlock(op[t].ip), UNCHANGED <<itable, op>>
      PROVE  StepOK(t)
  BY <1>1, <1>2, LeavesOK
<1>3. ASSUME NEW i, TakeEntry(t, i, Tail(op[t].names), "putnext"),
             IF CanGet(i) THEN Iunlock(op[t].ip) ELSE UNCHANGED lock
      PROVE  StepOK(t)
  <2>1. CASE /\ CanGet(i) /\ Iget(i) /\ Goto(t, "putnext")
             /\ SetNextNames(t, SlotFor(i), Tail(op[t].names))
    BY <1>1, <1>3, <2>1, TakesEntry
  <2>2. CASE ~CanGet(i) /\ IgetPanic(t)
    BY <1>1, <1>3, <2>2, StuckOK
  <2> QED
    BY <1>3, <2>1, <2>2 DEF TakeEntry, SetNextNames
<1> QED
  BY <1>2, <1>3 DEF WalkLook

LEMMA CreateLockedOK ==
  ASSUME Inv, NEW t \in Tasks, CreateLocked(t)
  PROVE  StepOK(t)
<1>1. pc[t] = "created" /\ UNCHANGED <<fs_lock, file, cwd, ofile, history>>
  BY DEF CreateLocked
<1>2. ASSUME NEW i, NEW l \in {"putparent", "newlock"}, TakeEntry(t, i, <<>>, l),
             IF l = "putparent" /\ CanGet(i) THEN Iunlock(op[t].ip) ELSE UNCHANGED lock
      PROVE  StepOK(t)
  <2>1. CASE CanGet(i) /\ Iget(i) /\ Goto(t, l) /\ SetNextNames(t, SlotFor(i), <<>>)
    <3>1. IF l = "newlock" THEN UNCHANGED lock ELSE Iunlock(op[t].ip)
      BY <1>2, <2>1
    <3> QED
      BY <1>1, <2>1, <3>1, TakesEntry
  <2>2. CASE ~CanGet(i) /\ IgetPanic(t)
    BY <1>1, <1>2, <2>2, StuckOK
  <2> QED
    BY <1>2, <2>1, <2>2 DEF TakeEntry, SetNextNames
<1>3. ASSUME Goto(t, "putfail"), Iunlock(op[t].ip), UNCHANGED <<itable, op>>
      PROVE  StepOK(t)
  BY <1>1, <1>3, LeavesOK
<1> QED
  BY <1>2, <1>3 DEF CreateLocked
-----------------------------------------------------------------------------
(* The steps that give a reference back *)

\* iput of op[t].ip: the locals x refer to next in its place, or to nothing.
LEMMA PutsOK ==
  ASSUME Inv, NEW t \in Tasks, pc[t] \in {"putnext", "putparent", "putfail", "execput"},
         Iput(op[t].ip), NEW l \in {"found", "walk", "idle", "end"}, Goto(t, l),
         NEW x, OpRec(x), op' = [op EXCEPT ![t] = x], x.ip = op[t].next, x.next = None,
         x.call = op[t].call \/ (l = "idle" /\ op[t].call = "exec"),
         l \in {"found", "walk"} <=> op[t].next # None,
         l = "idle" => op[t].call = "exec",
         UNCHANGED <<lock, fs_lock, file, cwd, ofile, history>>
  PROVE  StepOK(t)
<1>1. fs_lock \in Int /\ refused \in Nat /\ ended \in Nat /\ PlaceOf(t)
  BY DEF Inv, Shape
<1>2. UNCHANGED <<fs_lock, refused, ended, lock, cwd, file, ofile, leaked>>
  BY DEF history, calls
<1>3. PICK s \in Slots : s = op[t].ip
  BY <1>1 DEF PlaceOf, OneIp, TwoIps
<1>4. ref[s] > 0
  BY <1>3, Referenced
<1>5. /\ ref' \in [Slots -> Nat] /\ inum' = [u \in Slots |-> inum'[u]]
      /\ \A u \in Slots : ref'[u] = ref[u] - Is(s, u)
      /\ UniqueInum'
  BY <1>3, <1>4, IputSlot
<1>6. Moves(t, l, x)
  BY <1>1, <1>2 DEF Moves, PCs, OneIp, NoIp, Goto
<1>7. pc'[t] = l /\ op'[t] = x
  BY <1>6, MovesTyped
<1>8. op[t].next \in Slots \cup {None} /\ cwd[t] \in Slots /\ op[t].call \in {"open", "chdir", "exec"}
  BY <1>1 DEF PlaceOf, OneIp, TwoIps
<1>9. PlaceOf(t)'
  BY <1>2, <1>7, <1>8, Constants DEF PlaceOf, OneIp, TwoIps, NoIp
<1>10. TokenMoves(t)
  BY <1>1, <1>2, <1>7, <1>8 DEF TokenMoves, Inside
<1>11. Locked(t)' = Locked(t)
  BY <1>7 DEF Locked
<1>12. lock' \in [Slots -> Tasks \cup {Free}] /\ LockMoves(t) /\ LockOf(t)'
  BY <1>2, <1>7, <1>11, KeepsLocks
<1>13. \A u \in Slots : ref'[u] = ref[u] + Is(cwd'[t], u) + Is(x.ip, u) + Is(x.next, u)
                                  - Is(cwd[t], u) - Is(op[t].ip, u) - Is(op[t].next, u)
  <2> TAKE u \in Slots
  <2>1. ref[u] \in Nat /\ ref'[u] = ref[u] - Is(s, u)
    BY <1>5 DEF Inv, Shape
  <2>2. Is(x.next, u) = 0 /\ Is(x.ip, u) = Is(op[t].next, u) /\ Is(cwd'[t], u) = Is(cwd[t], u)
        /\ Is(op[t].ip, u) = Is(s, u)
    BY <1>2, <1>3, Constants DEF Is
  <2>3. Is(s, u) \in Nat /\ Is(op[t].next, u) \in Nat /\ Is(cwd[t], u) \in Nat
    BY DEF Is
  <2> QED
    BY <2>1, <2>2, <2>3
<1>14. cwd' \in [Tasks -> Slots \cup {None}] /\ \A u \in Tasks \ {t} : cwd'[u] = cwd[u]
  BY <1>2 DEF Inv, Shape
<1> QED
  BY <1>2, <1>5, <1>6, <1>9, <1>10, <1>12, <1>13, <1>14, MoveOK

LEMMA WalkPutOK ==
  ASSUME Inv, NEW t \in Tasks, WalkPut(t)
  PROVE  StepOK(t)
<1>1. PICK l \in {"found", "walk"} : Goto(t, l)
  BY DEF WalkPut
<1>2. /\ pc[t] \in {"putnext", "putparent"} /\ Iput(op[t].ip) /\ SetIpNext(t, op[t].next, None)
      /\ UNCHANGED <<lock, fs_lock, file, cwd, ofile, history>>
  BY DEF WalkPut, SetIpNext
<1>3. PICK x : Locals(t, x, op[t].next, None, op[t].f)
  BY <1>2, SetsIpNext
<1>4. op[t].next # None
  BY <1>2, Constants DEF Inv, PlaceOf, TwoIps
<1> QED
  BY <1>1, <1>2, <1>3, <1>4, PutsOK DEF Locals

LEMMA PutFailOK ==
  ASSUME Inv, NEW t \in Tasks, PutFail(t)
  PROVE  StepOK(t)
<1>1. /\ pc[t] = "putfail" /\ Iput(op[t].ip)
      /\ UNCHANGED <<lock, fs_lock, file, cwd, ofile, history>>
  BY DEF PutFail
<1>2. op[t].next = None
  BY <1>1 DEF Inv, PlaceOf, OneIp
<1>3. CASE op[t].call = "exec"
  <2>1. Goto(t, "idle") /\ op' = [op EXCEPT ![t] = NoOp]
    BY <1>3 DEF PutFail, FailTo
  <2> QED
    BY <1>1, <1>2, <1>3, <2>1, NoOpRec, PutsOK
<1>4. CASE op[t].call # "exec"
  <2>1. Goto(t, "end") /\ op' = [op EXCEPT ![t] = [op[t] EXCEPT !.ip = None]]
    BY <1>4 DEF PutFail, FailTo
  <2>2. PICK x : x = [op[t] EXCEPT !.ip = None]
    OBVIOUS
  <2>3. OpRec(op[t])
    BY DEF Inv, Shape
  <2>4. OpRec(x) /\ x.ip = None /\ x.next = op[t].next /\ x.call = op[t].call
    BY <2>2, <2>3 DEF OpRec
  <2> QED
    BY <1>1, <1>2, <1>4, <2>1, <2>2, <2>4, PutsOK
<1> QED
  BY <1>3, <1>4

LEMMA ExecPutOK ==
  ASSUME Inv, NEW t \in Tasks, ExecPut(t)
  PROVE  StepOK(t)
<1>1. /\ pc[t] = "execput" /\ Iput(op[t].ip) /\ Goto(t, "end") /\ SetIp(t, None)
      /\ UNCHANGED <<lock, fs_lock, file, cwd, ofile, history>>
  BY DEF ExecPut, SetIp
<1>2. PICK x : Locals(t, x, None, op[t].next, op[t].f)
  BY <1>1, SetsIp
<1>3. op[t].next = None
  BY <1>1 DEF Inv, PlaceOf, OneIp
<1> QED
  BY <1>1, <1>2, <1>3, PutsOK DEF Locals

LEMMA ChdirOK ==
  ASSUME Inv, NEW t \in Tasks, Chdir(t)
  PROVE  StepOK(t)
<1>1. /\ pc[t] = "chdir" /\ Iunlock(op[t].ip)
      /\ UNCHANGED <<fs_lock, file, ofile, refused, ended, leaked>>
  BY DEF Chdir, calls
<1>2. /\ fs_lock \in Int /\ refused \in Nat /\ ended \in Nat /\ PlaceOf(t)
      /\ cwd \in [Tasks -> Slots \cup {None}]
  BY DEF Inv, Shape
<1>3. op[t].next = None /\ op[t].call \in {"open", "chdir", "exec"}
  BY <1>1, <1>2 DEF PlaceOf, OneIp
<1>4. Locked(t) = {op[t].ip}
  BY <1>1 DEF Locked
<1>5. PICK ip \in Slots, s \in Slots : ip = op[t].ip /\ s = cwd[t]
  BY <1>1, <1>2 DEF PlaceOf, OneIp
<1>6. CASE Goto(t, "putfail") /\ UNCHANGED <<itable, cwd, op>>
  <2>1. UNCHANGED <<op, fs_lock, refused, ended, tables, leaked, cwd, ofile>>
    BY <1>1, <1>6 DEF itable, tables
  <2>2. "putfail" \in PCs
    BY DEF PCs, OneIp
  <2>3. pc'[t] = "putfail" /\ TokenMoves(t)
    BY <1>1, <1>6, <2>1, <2>2, GoesOn
  <2>4. PlaceOf(t)'
    BY <1>1, <1>2, <2>1, <2>3 DEF PlaceOf, OneIp, TwoIps, NoIp
  <2>5. Locked(t)' = {}
    BY <2>3 DEF Locked
  <2>6. lock' \in [Slots -> Tasks \cup {Free}] /\ LockMoves(t) /\ LockOf(t)'
    BY <1>1, <1>4, <1>5, <2>3, <2>5, Gives
  <2> QED
    BY <1>6, <2>1, <2>2, <2>3, <2>4, <2>6, GoesOn
<1>7. CASE /\ Iput(s) /\ cwd' = [cwd EXCEPT ![t] = ip]
           /\ SetIp(t, None) /\ Goto(t, "end")
  <2>1. PICK x : Locals(t, x, None, op[t].next, op[t].f)
    BY <1>7, SetsIp
  <2>2. /\ OpRec(x) /\ op' = [op EXCEPT ![t] = x]
        /\ x.ip = None /\ x.next = None /\ x.call = op[t].call
    BY <1>3, <2>1 DEF Locals
  <2>3. ref[s] > 0
    BY <1>5, Referenced
  <2>4. /\ ref' \in [Slots -> Nat] /\ inum' = [u \in Slots |-> inum'[u]]
        /\ \A u \in Slots : ref'[u] = ref[u] - Is(s, u)
        /\ UniqueInum'
    BY <1>7, <2>3, IputSlot
  <2>5. Moves(t, "end", x)
    BY <1>1, <1>2, <1>7, <2>2 DEF Moves, PCs, NoIp, Goto
  <2>6. pc'[t] = "end" /\ op'[t] = x
    BY <2>5, MovesTyped
  <2>7. /\ cwd' \in [Tasks -> Slots \cup {None}] /\ cwd'[t] = ip
        /\ \A u \in Tasks \ {t} : cwd'[u] = cwd[u]
    BY <1>2, <1>7
  <2>8. PlaceOf(t)'
    BY <1>3, <2>2, <2>6, <2>7 DEF PlaceOf, OneIp, TwoIps, NoIp
  <2>9. TokenMoves(t)
    BY <1>1, <1>2, <1>3, <2>2, <2>6 DEF TokenMoves, Inside
  <2>10. Locked(t)' = {}
    BY <2>6 DEF Locked
  <2>11. lock' \in [Slots -> Tasks \cup {Free}] /\ LockMoves(t) /\ LockOf(t)'
    BY <1>1, <1>4, <1>5, <2>6, <2>10, Gives
  <2>12. ASSUME NEW u \in Slots
         PROVE  ref'[u] = ref[u] + Is(cwd'[t], u) + Is(x.ip, u) + Is(x.next, u)
                          - Is(cwd[t], u) - Is(op[t].ip, u) - Is(op[t].next, u)
    <3>1. ref[u] \in Nat /\ ref'[u] = ref[u] - Is(s, u)
      BY <2>4 DEF Inv, Shape
    <3>2. /\ Is(x.next, u) = 0 /\ Is(x.ip, u) = 0 /\ Is(op[t].next, u) = 0
          /\ Is(cwd'[t], u) = Is(op[t].ip, u) /\ Is(cwd[t], u) = Is(s, u)
      BY <1>3, <1>5, <2>2, <2>7, Constants DEF Is
    <3>3. Is(s, u) \in Nat /\ Is(op[t].ip, u) \in Nat
      BY DEF Is
    <3> QED
      BY <3>1, <3>2, <3>3
  <2> QED
    BY <1>1, <2>4, <2>5, <2>7, <2>8, <2>9, <2>11, <2>12, MoveOK
<1> QED
  BY <1>5, <1>6, <1>7 DEF Chdir, SetIp
-----------------------------------------------------------------------------
(* The steps that open, copy and close files *)

LEMMA FdsFinite ==
  ASSUME NEW f
  PROVE  /\ IsFiniteSet(Fds(f)) /\ IsFiniteSet(Fds(f)')
         /\ Cardinality(Fds(f)) \in Nat /\ Cardinality(Fds(f)') \in Nat
<1>1. IsFiniteSet(Tasks \X Files)
  BY Constants, FS_Product
<1>2. IsFiniteSet(Fds(f)) /\ IsFiniteSet(Fds(f)')
  BY <1>1, FS_Subset DEF Fds
<1> QED
  BY <1>2, FS_CardinalityType

\* A descriptor changes.
LEMMA FdChange ==
  ASSUME NEW t \in Tasks, NEW fd \in Files, NEW f,
         \A u \in Tasks, e \in Files : u # t \/ e # fd => ofile'[u][e] = ofile[u][e]
  PROVE  Cardinality(Fds(f)') = Cardinality(Fds(f)) + Is(ofile'[t][fd], f) - Is(ofile[t][fd], f)
<1>3. Fds(f) \ {<<t, fd>>} = Fds(f)' \ {<<t, fd>>}
  <2>1. ASSUME NEW u \in Tasks, NEW e \in Files, <<u, e>> # <<t, fd>>
        PROVE  <<u, e>> \in Fds(f) <=> <<u, e>> \in Fds(f)'
    BY <2>1 DEF Fds
  <2>2. Fds(f) \subseteq Tasks \X Files /\ Fds(f)' \subseteq Tasks \X Files
    BY DEF Fds
  <2> QED
    BY <2>1, <2>2
<1>4. In(<<t, fd>>, Fds(f)) = Is(ofile[t][fd], f) /\ In(<<t, fd>>, Fds(f)') = Is(ofile'[t][fd], f)
  BY DEF Fds, In, Is
<1> QED
  BY <1>3, <1>4, FdsFinite, CardChange

\* The descriptors of one task, and those of the others.
FdsIn(o, f) == {x \in Tasks \X Files : o[x[1]][x[2]] = f}
RowOf(o, t, f) == {fd \in Files : o[t][fd] = f}
RestOf(o, t, f) == {x \in FdsIn(o, f) : x[1] # t}

LEMMA RowCount ==
  ASSUME NEW o, NEW t \in Tasks, NEW f
  PROVE  /\ Cardinality(RowOf(o, t, f)) \in Nat /\ Cardinality(RestOf(o, t, f)) \in Nat
         /\ Cardinality(FdsIn(o, f)) = Cardinality(RestOf(o, t, f)) + Cardinality(RowOf(o, t, f))
<1> DEFINE H == {fd \in Files : o[t][fd] = f}
           R == {x \in FdsIn(o, f) : x[1] # t}
<1>0. IsFiniteSet(FdsIn(o, f))
  <2>1. IsFiniteSet(Tasks \X Files)
    BY Constants, FS_Product
  <2> QED
    BY <2>1, FS_Subset DEF FdsIn
<1>1. IsFiniteSet(H) /\ IsFiniteSet(R)
  <2>1. H \in SUBSET Files /\ R \in SUBSET FdsIn(o, f)
    OBVIOUS
  <2> HIDE DEF H, R
  <2> QED
    BY <1>0, <2>1, Constants, FS_Subset
<1>2. Cardinality(H) \in Nat /\ Cardinality(R) \in Nat
  BY <1>1, FS_CardinalityType
<1>3. IsFiniteSet({t} \X H) /\ Cardinality({t} \X H) = Cardinality(H)
  <2> HIDE DEF H, R
  <2>1. IsFiniteSet({t}) /\ Cardinality({t}) = 1
    BY FS_Singleton
  <2>2. IsFiniteSet({t} \X H) /\ Cardinality({t} \X H) = Cardinality({t}) * Cardinality(H)
    BY <1>1, <2>1, FS_Product
  <2> QED
    BY <1>2, <2>1, <2>2
<1>4. FdsIn(o, f) = R \cup ({t} \X H)
  <2>1. ASSUME NEW x \in FdsIn(o, f), x[1] = t PROVE x \in {t} \X H
    <3>1. x = <<t, x[2]>> /\ x[2] \in Files /\ o[t][x[2]] = f
      BY <2>1 DEF FdsIn
    <3> QED
      BY <3>1
  <2>2. ASSUME NEW x \in {t} \X H PROVE x \in FdsIn(o, f)
    <3>1. x = <<t, x[2]>> /\ x[2] \in Files /\ o[t][x[2]] = f
      BY <2>2
    <3>2. x \in Tasks \X Files /\ o[x[1]][x[2]] = f
      BY <3>1
    <3> QED
      BY <3>2 DEF FdsIn
  <2> QED
    BY <2>1, <2>2
<1>5. R \cap ({t} \X H) = {}
  <2>1. \A x \in {t} \X H : x[1] = t
    OBVIOUS
  <2> QED
    BY <2>1
<1>6. Cardinality(R \cap ({t} \X H)) = 0
  BY <1>5, FS_EmptySet
<1>7. Cardinality(R \cup ({t} \X H)) = Cardinality(R) + Cardinality({t} \X H) - Cardinality(R \cap ({t} \X H))
  BY <1>1, <1>3, FS_Union
<1>8. Cardinality(FdsIn(o, f)) = Cardinality(R) + Cardinality(H)
  <2> HIDE DEF H, R
  <2> QED
    BY <1>2, <1>3, <1>4, <1>6, <1>7
<1>9. RowOf(o, t, f) = H /\ RestOf(o, t, f) = R
  BY DEF RowOf, RestOf
<1> HIDE DEF H, R
<1> QED
  BY <1>2, <1>8, <1>9

LEMMA RowChange ==
  ASSUME NEW t \in Tasks, NEW f, \A u \in Tasks \ {t} : ofile'[u] = ofile[u]
  PROVE  /\ Holds(t, f) \in Nat /\ Holds(t, f)' \in Nat
         /\ Cardinality(Fds(f)) \in Nat /\ Holds(t, f) <= Cardinality(Fds(f))
         /\ Cardinality(Fds(f)') = Cardinality(Fds(f)) + Holds(t, f)' - Holds(t, f)
<1>1. Fds(f) = FdsIn(ofile, f) /\ Fds(f)' = FdsIn(ofile', f)
  BY DEF Fds, FdsIn
<1>2. RestOf(ofile, t, f) = RestOf(ofile', t, f)
  BY DEF FdsIn, RestOf
<1>3. Holds(t, f) = Cardinality(RowOf(ofile, t, f)) /\ Holds(t, f)' = Cardinality(RowOf(ofile', t, f))
  BY DEF Holds, RowOf
<1>4. /\ Cardinality(RowOf(ofile, t, f)) \in Nat /\ Cardinality(RestOf(ofile, t, f)) \in Nat
      /\ Cardinality(FdsIn(ofile, f)) = Cardinality(RestOf(ofile, t, f)) + Cardinality(RowOf(ofile, t, f))
  BY RowCount
<1>5. PICK o : o = ofile'
  OBVIOUS
<1>6. /\ Cardinality(RowOf(o, t, f)) \in Nat
      /\ Cardinality(FdsIn(o, f)) = Cardinality(RestOf(o, t, f)) + Cardinality(RowOf(o, t, f))
  BY RowCount
<1>7. /\ Cardinality(Fds(f)') = Cardinality(RestOf(ofile, t, f)) + Holds(t, f)'
      /\ Holds(t, f)' \in Nat
  BY <1>1, <1>2, <1>3, <1>5, <1>6
<1> QED
  BY <1>1, <1>3, <1>4, <1>7

LEMMA RowsFit ==
  ASSUME NEW t \in Tasks, NEW f
  PROVE  Holds(t, f) \in Nat /\ Holds(t, f) <= Cardinality(Fds(f))
<1>1. Fds(f) = FdsIn(ofile, f) /\ Holds(t, f) = Cardinality(RowOf(ofile, t, f))
  BY DEF Fds, FdsIn, Holds, RowOf
<1>2. /\ Cardinality(RowOf(ofile, t, f)) \in Nat /\ Cardinality(RestOf(ofile, t, f)) \in Nat
      /\ Cardinality(FdsIn(ofile, f)) = Cardinality(RestOf(ofile, t, f)) + Cardinality(RowOf(ofile, t, f))
  BY RowCount
<1> QED
  BY <1>1, <1>2

\* fileclose: what a file loses in open files it leaves behind in leaked.
LEMMA Drops ==
  ASSUME Inv, NEW drop \in [Files -> Nat], \A f \in Files : drop[f] <= file[f].ref, DropFiles(drop)
  PROVE  /\ file' \in [Files -> [ref : Nat, ip : Slots \cup {None}, writable : BOOLEAN]]
         /\ leaked' \in [Slots -> Nat]
         /\ \A f \in Files : /\ file'[f].ref = file[f].ref - drop[f]
                             /\ file'[f].ref > 0 => file'[f].ip = file[f].ip
         /\ \A s \in Slots : ByFiles(s)' = ByFiles(s) /\ ByFiles(s) \in Nat
<1>1. /\ file \in [Files -> [ref : Nat, ip : Slots \cup {None}, writable : BOOLEAN]]
      /\ leaked \in [Slots -> Nat]
  BY DEF Inv, Shape
<1>2. ASSUME NEW f \in Files
      PROVE  /\ file'[f] \in [ref : Nat, ip : Slots \cup {None}, writable : BOOLEAN]
             /\ file'[f].ref = file[f].ref - drop[f]
             /\ file'[f].ref > 0 => file'[f].ip = file[f].ip
  <2>1. file[f] \in [ref : Nat, ip : Slots \cup {None}, writable : BOOLEAN] /\ drop[f] \in Nat
    BY <1>1
  <2>2. CASE file[f].ref = drop[f]
    <3>1. file'[f] = NoFile
      BY <2>2 DEF DropFiles
    <3> QED
      BY <2>1, <2>2, <3>1 DEF NoFile
  <2>3. CASE file[f].ref # drop[f]
    <3>1. file'[f] = [file[f] EXCEPT !.ref = @ - drop[f]]
      BY <2>3 DEF DropFiles
    <3> QED
      BY <2>1, <2>3, <3>1
  <2> QED
    BY <2>2, <2>3
<1>3. file' \in [Files -> [ref : Nat, ip : Slots \cup {None}, writable : BOOLEAN]]
  BY <1>2 DEF DropFiles
<1>4. ASSUME NEW s \in Slots
      PROVE  leaked'[s] \in Nat /\ ByFiles(s)' = ByFiles(s) /\ ByFiles(s) \in Nat
  <2> DEFINE G == {f \in Files : file[f].ip = s /\ drop[f] > 0 /\ file[f].ref = drop[f]}
             O == OpenOf(s)
             P == OpenOf(s)'
  <2>1. leaked'[s] = leaked[s] + Cardinality(G)
    BY DEF DropFiles
  <2>2. G \in SUBSET Files /\ O \in SUBSET Files /\ P \in SUBSET Files
    BY DEF OpenOf
  <2>3. \A f \in Files : f \in P <=> f \in O /\ f \notin G
    <3> SUFFICES ASSUME NEW f \in Files PROVE f \in P <=> f \in O /\ f \notin G
      OBVIOUS
    <3>1. f \in P <=> file'[f].ip = s /\ file'[f].ref > 0
      BY DEF OpenOf
    <3>2. f \in O <=> file[f].ip = s /\ file[f].ref > 0
      BY DEF OpenOf
    <3>3. f \in G <=> file[f].ip = s /\ drop[f] > 0 /\ file[f].ref = drop[f]
      OBVIOUS
    <3> HIDE DEF G, O, P
    <3>4. file[f].ref \in Nat /\ drop[f] \in Nat /\ drop[f] <= file[f].ref
      BY <1>1
    <3>5. file'[f].ref = file[f].ref - drop[f] /\ (file'[f].ref > 0 => file'[f].ip = file[f].ip)
      BY <1>2
    <3> QED
      BY <3>1, <3>2, <3>3, <3>4, <3>5
  <2>4. G \subseteq O
    BY <1>1 DEF OpenOf
  <2> HIDE DEF G, O, P
  <2>5. O = P \cup G /\ P \cap G = {}
    BY <2>2, <2>3, <2>4
  <2>6. IsFiniteSet(G) /\ IsFiniteSet(O) /\ IsFiniteSet(P)
    BY <2>2, Constants, FS_Subset
  <2>7. Cardinality(G) \in Nat /\ Cardinality(P) \in Nat /\ Cardinality(P \cap G) = 0
    BY <2>5, <2>6, FS_CardinalityType, FS_EmptySet
  <2>8. Cardinality(O) = Cardinality(P) + Cardinality(G)
    <3>1. Cardinality(P \cup G) = Cardinality(P) + Cardinality(G) - Cardinality(P \cap G)
      BY <2>6, FS_Union
    <3> QED
      BY <2>5, <2>7, <3>1
  <2>9. ByFiles(s) = Cardinality(O) + leaked[s] /\ ByFiles(s)' = Cardinality(P) + leaked'[s]
    BY DEF ByFiles, O, P
  <2> QED
    BY <1>1, <2>1, <2>7, <2>8, <2>9
<1>5. leaked' \in [Slots -> Nat]
  BY <1>4 DEF DropFiles
<1> QED
  BY <1>2, <1>3, <1>4, <1>5

LEMMA DropsCounted ==
  ASSUME Inv, NEW drop \in [Files -> Nat], DropFiles(drop),
         \A f \in Files : drop[f] <= Cardinality(Fds(f))
                          /\ Cardinality(Fds(f)') = Cardinality(Fds(f)) - drop[f]
  PROVE  /\ file' \in [Files -> [ref : Nat, ip : Slots \cup {None}, writable : BOOLEAN]]
         /\ leaked' \in [Slots -> Nat]
         /\ FilesCounted' /\ FilesKept
         /\ \A s \in Slots : ByFiles(s)' = ByFiles(s) /\ ByFiles(s) \in Nat
<1>1. \A f \in Files : /\ file[f].ref = Cardinality(Fds(f)) /\ file[f].ref \in Nat
                       /\ file[f].ref > 0 => file[f].ip \in Slots
  BY DEF Inv, FilesCounted, Shape
<1>2. \A f \in Files : drop[f] <= file[f].ref
  BY <1>1
<1>3. /\ file' \in [Files -> [ref : Nat, ip : Slots \cup {None}, writable : BOOLEAN]]
      /\ leaked' \in [Slots -> Nat]
      /\ \A f \in Files : /\ file'[f].ref = file[f].ref - drop[f]
                          /\ file'[f].ref > 0 => file'[f].ip = file[f].ip
      /\ \A s \in Slots : ByFiles(s)' = ByFiles(s) /\ ByFiles(s) \in Nat
  BY <1>2, Drops
<1>4. ASSUME NEW f \in Files
      PROVE  /\ file'[f].ref = Cardinality(Fds(f)')
             /\ file'[f].ref > 0 => file'[f].ip \in Slots
  <2>1. drop[f] \in Nat
    OBVIOUS
  <2> QED
    BY <1>1, <1>3, <2>1
<1>5. FilesCounted'
  BY <1>4 DEF FilesCounted
<1> QED
  BY <1>3, <1>5 DEF FilesKept

LEMMA CloseOK ==
  ASSUME Inv, NEW t \in Tasks, NEW fd \in Files, Close(t, fd)
  PROVE  StepOK(t)
<1> DEFINE drop == [f \in Files |-> IF f = ofile[t][fd] THEN 1 ELSE 0]
<1>1. /\ pc[t] = "idle" /\ ofile[t][fd] # None /\ DropFiles(drop)
      /\ ofile' = [ofile EXCEPT ![t][fd] = None]
      /\ UNCHANGED <<inum, ref, cwd, lock, fs_lock, pc, op, refused, ended>>
  BY DEF Close, itable, calls
<1>2. drop \in [Files -> Nat] /\ \A f \in Files : drop[f] = Is(ofile[t][fd], f)
  BY DEF Is
<1>3. ofile \in [Tasks -> [Files -> Files \cup {None}]] /\ PlaceOf(t) /\ LockOf(t)
  BY DEF Inv, Shape
<1>4. ASSUME NEW f \in Files
      PROVE  /\ Is(ofile[t][fd], f) <= Cardinality(Fds(f))
             /\ Cardinality(Fds(f)') = Cardinality(Fds(f)) - Is(ofile[t][fd], f)
  <2>0. /\ ofile'[t][fd] = None
        /\ \A u \in Tasks, e \in Files : u # t \/ e # fd => ofile'[u][e] = ofile[u][e]
    BY <1>1, <1>3
  <2>1. Cardinality(Fds(f)') = Cardinality(Fds(f)) + Is(None, f) - Is(ofile[t][fd], f)
    BY <2>0, FdChange
  <2>2. Is(None, f) = 0 /\ Is(ofile[t][fd], f) \in Nat
    BY Constants DEF Is
  <2> QED
    BY <2>1, <2>2, FdsFinite
<1> HIDE DEF drop
<1>5. /\ file' \in [Files -> [ref : Nat, ip : Slots \cup {None}, writable : BOOLEAN]]
      /\ leaked' \in [Slots -> Nat]
      /\ FilesCounted' /\ FilesKept
      /\ \A s \in Slots : ByFiles(s)' = ByFiles(s) /\ ByFiles(s) \in Nat
  BY <1>1, <1>2, <1>4, DropsCounted
<1>6. /\ ofile' \in [Tasks -> [Files -> Files \cup {None}]]
      /\ \A u \in Tasks \ {t} : ofile'[u] = ofile[u]
  BY <1>1, <1>3
<1>7. Shape'
  BY <1>1, <1>5, <1>6 DEF Inv, Shape
<1>8. Only(t) /\ UniqueInum' /\ LockMoves(t)
  BY <1>1, <1>6 DEF Inv, Only, UniqueInum, LockMoves
<1>9. PlaceOf(t)' /\ Locked(t) = {} /\ Locked(t)' = {}
  BY <1>1, <1>3 DEF PlaceOf, OneIp, TwoIps, NoIp, Locked
<1>10. LockOf(t)'
  BY <1>1, <1>3, <1>9 DEF LockOf
<1>11. TokenMoves(t)
  BY <1>1 DEF TokenMoves, Inside, Inv, Shape
<1>12. RefMoves(t)
  <2> SUFFICES ASSUME NEW s \in Slots
               PROVE  ref'[s] = ref[s] + Pointers(t, s)' - Pointers(t, s) + ByFiles(s)' - ByFiles(s)
    BY DEF RefMoves
  <2>1. Pointers(t, s)' = Pointers(t, s) /\ Pointers(t, s) \in Nat /\ ref[s] \in Nat
    BY <1>1 DEF Pointers, Is, Inv, Shape
  <2> QED
    BY <1>1, <1>5, <2>1
<1> QED
  BY <1>5, <1>7, <1>8, <1>9, <1>10, <1>11, <1>12 DEF StepOK

LEMMA ExitOK ==
  ASSUME Inv, NEW t \in Tasks, Exit(t)
  PROVE  StepOK(t)
<1> DEFINE drop == [f \in Files |-> Holds(t, f)]
<1>1. /\ pc[t] = "idle" /\ DropFiles(drop) /\ Iput(cwd[t])
      /\ ofile' = [ofile EXCEPT ![t] = [fd \in Files |-> None]]
      /\ cwd' = [cwd EXCEPT ![t] = None] /\ pc' = [pc EXCEPT ![t] = "unborn"]
      /\ UNCHANGED <<lock, fs_lock, op, refused, ended>>
  BY DEF Exit, Goto, calls
<1>2. /\ ofile \in [Tasks -> [Files -> Files \cup {None}]] /\ PlaceOf(t) /\ LockOf(t)
      /\ cwd \in [Tasks -> Slots \cup {None}] /\ pc \in [Tasks -> PCs]
  BY DEF Inv, Shape
<1>3. /\ ofile' \in [Tasks -> [Files -> Files \cup {None}]]
      /\ ofile'[t] = [fd \in Files |-> None]
      /\ \A u \in Tasks \ {t} : ofile'[u] = ofile[u]
  BY <1>1, <1>2
<1>4. ASSUME NEW f \in Files
      PROVE  /\ Holds(t, f) \in Nat /\ Holds(t, f) <= Cardinality(Fds(f))
             /\ Cardinality(Fds(f)') = Cardinality(Fds(f)) - Holds(t, f)
  <2>1. {fd \in Files : ofile'[t][fd] = f} = {}
    BY <1>3, Constants
  <2>2. Cardinality({fd \in Files : ofile'[t][fd] = f}) = 0
    BY <2>1, FS_EmptySet
  <2>3. Holds(t, f)' = 0
    BY <2>2 DEF Holds
  <2> QED
    BY <1>3, <2>3, RowChange
<1>5. drop \in [Files -> Nat] /\ \A f \in Files : drop[f] = Holds(t, f)
  BY <1>4
<1> HIDE DEF drop
<1>6. /\ file' \in [Files -> [ref : Nat, ip : Slots \cup {None}, writable : BOOLEAN]]
      /\ leaked' \in [Slots -> Nat]
      /\ FilesCounted' /\ FilesKept
      /\ \A s \in Slots : ByFiles(s)' = ByFiles(s) /\ ByFiles(s) \in Nat
  BY <1>1, <1>4, <1>5, DropsCounted
<1>7. PICK s \in Slots : s = cwd[t]
  BY <1>1, <1>2 DEF PlaceOf
<1>8. ref[s] > 0
  BY <1>7, Referenced
<1>9. /\ ref' \in [Slots -> Nat] /\ inum' = [u \in Slots |-> inum'[u]]
      /\ \A u \in Slots : ref'[u] = ref[u] - Is(s, u)
      /\ UniqueInum'
  BY <1>1, <1>7, <1>8, IputSlot
<1>10. /\ cwd' \in [Tasks -> Slots \cup {None}] /\ cwd'[t] = None
       /\ pc' \in [Tasks -> PCs] /\ pc'[t] = "unborn"
       /\ \A u \in Tasks \ {t} : cwd'[u] = cwd[u] /\ pc'[u] = pc[u]
  BY <1>1, <1>2 DEF PCs, NoIp
<1>11. Shape'
  BY <1>1, <1>3, <1>6, <1>9, <1>10 DEF Inv, Shape
<1>12. Only(t) /\ LockMoves(t)
  BY <1>1, <1>3, <1>10 DEF Only, LockMoves
<1>13. PlaceOf(t)' /\ Locked(t) = {} /\ Locked(t)' = {}
  BY <1>1, <1>2, <1>3, <1>10 DEF PlaceOf, OneIp, TwoIps, NoIp, Locked
<1>14. LockOf(t)'
  BY <1>1, <1>2, <1>10, <1>13 DEF LockOf
<1>15. TokenMoves(t)
  BY <1>1, <1>10 DEF TokenMoves, Inside, Inv, Shape
<1>16. RefMoves(t)
  <2> SUFFICES ASSUME NEW u \in Slots
               PROVE  ref'[u] = ref[u] + Pointers(t, u)' - Pointers(t, u) + ByFiles(u)' - ByFiles(u)
    BY DEF RefMoves
  <2>1. Pointers(t, u)' = Pointers(t, u) - Is(s, u) /\ Pointers(t, u) \in Nat /\ ref[u] \in Nat
    BY <1>1, <1>7, <1>10, Constants DEF Pointers, Is, Inv, Shape
  <2>2. Is(s, u) \in Nat
    BY DEF Is
  <2> QED
    BY <1>6, <1>9, <2>1, <2>2
<1> QED
  BY <1>6, <1>9, <1>11, <1>12, <1>13, <1>14, <1>15, <1>16 DEF StepOK

\* The child is the actor of a fork.
LEMMA ForkOK ==
  ASSUME Inv, NEW t \in Tasks, NEW u \in Tasks, Fork(t, u)
  PROVE  StepOK(u)
<1>1. /\ pc[t] = "idle" /\ pc[u] = "unborn"
      /\ ref' = [ref EXCEPT ![cwd[t]] = @ + 1]
      /\ cwd' = [cwd EXCEPT ![u] = cwd[t]] /\ ofile' = [ofile EXCEPT ![u] = ofile[t]]
      /\ file' = [f \in Files |-> [file[f] EXCEPT !.ref = @ + Holds(t, f)]]
      /\ pc' = [pc EXCEPT ![u] = "idle"]
      /\ UNCHANGED <<inum, lock, fs_lock, op, refused, ended, leaked>>
  BY DEF Fork, Goto, calls
<1>2. /\ ofile \in [Tasks -> [Files -> Files \cup {None}]] /\ PlaceOf(t) /\ PlaceOf(u) /\ LockOf(u)
      /\ cwd \in [Tasks -> Slots \cup {None}] /\ pc \in [Tasks -> PCs] /\ ref \in [Slots -> Nat]
      /\ file \in [Files -> [ref : Nat, ip : Slots \cup {None}, writable : BOOLEAN]]
  BY DEF Inv, Shape
<1>3. /\ ofile' \in [Tasks -> [Files -> Files \cup {None}]] /\ ofile'[u] = ofile[t]
      /\ \A v \in Tasks \ {u} : ofile'[v] = ofile[v]
  BY <1>1, <1>2
<1>4. ofile[u] = [fd \in Files |-> None] /\ cwd[u] = None
  BY <1>1, <1>2 DEF PlaceOf
<1>5. ASSUME NEW f \in Files
      PROVE  /\ Holds(t, f) \in Nat /\ Holds(t, f) <= Cardinality(Fds(f))
             /\ Cardinality(Fds(f)') = Cardinality(Fds(f)) + Holds(t, f)
  <2>1. {fd \in Files : ofile[u][fd] = f} = {}
    BY <1>4, Constants
  <2>2. Cardinality({fd \in Files : ofile[u][fd] = f}) = 0
    BY <2>1, FS_EmptySet
  <2>3. Holds(u, f) = 0
    BY <2>2 DEF Holds
  <2>4. Holds(u, f)' = Holds(t, f)
    BY <1>3 DEF Holds
  <2>5. Cardinality(Fds(f)') = Cardinality(Fds(f)) + Holds(u, f)' - Holds(u, f)
        /\ Cardinality(Fds(f)) \in Nat /\ Holds(u, f)' \in Nat
    BY <1>3, RowChange
  <2>7. Holds(t, f) <= Cardinality(Fds(f))
    BY RowsFit
  <2> QED
    BY <2>3, <2>4, <2>5, <2>7
<1>6. ASSUME NEW f \in Files
      PROVE  /\ file'[f] \in [ref : Nat, ip : Slots \cup {None}, writable : BOOLEAN]
             /\ file'[f].ref = Cardinality(Fds(f)') /\ file'[f].ip = file[f].ip
             /\ file'[f].ref > 0 <=> file[f].ref > 0
             /\ file'[f].ref > 0 => file'[f].ip \in Slots
  <2>1. file[f] \in [ref : Nat, ip : Slots \cup {None}, writable : BOOLEAN]
    BY <1>2
  <2>2. file'[f] = [file[f] EXCEPT !.ref = @ + Holds(t, f)]
    BY <1>1
  <2>3. /\ file'[f] \in [ref : Nat, ip : Slots \cup {None}, writable : BOOLEAN]
        /\ file'[f].ref = file[f].ref + Holds(t, f) /\ file'[f].ip = file[f].ip
    BY <1>5, <2>1, <2>2
  <2>4. file[f].ref = Cardinality(Fds(f)) /\ (file[f].ref > 0 => file[f].ip \in Slots)
    BY DEF Inv, FilesCounted
  <2> QED
    BY <1>5, <2>1, <2>3, <2>4
<1>7. file' \in [Files -> [ref : Nat, ip : Slots \cup {None}, writable : BOOLEAN]]
  BY <1>1, <1>6
<1>8. FilesCounted' /\ FilesKept
  BY <1>6 DEF FilesCounted, FilesKept
<1>9. ASSUME NEW s \in Slots PROVE ByFiles(s)' = ByFiles(s) /\ ByFiles(s) \in Nat
  <2>1. OpenOf(s)' = OpenOf(s)
    BY <1>6 DEF OpenOf
  <2>2. IsFiniteSet(OpenOf(s))
    BY Constants, FS_Subset DEF OpenOf
  <2>3. Cardinality(OpenOf(s)) \in Nat
    BY <2>2, FS_CardinalityType
  <2> QED
    BY <1>1, <2>1, <2>3 DEF ByFiles, Inv, Shape
<1>10. PICK c \in Slots : c = cwd[t]
  BY <1>1, <1>2 DEF PlaceOf
<1>11. ref[c] > 0
  BY <1>10, Referenced
<1>12. ref' \in [Slots -> Nat] /\ \A s \in Slots : ref'[s] = ref[s] + Is(c, s)
  BY <1>1, <1>2, <1>10 DEF Is
<1>13. UniqueInum'
  <2>1. \A s \in Slots : ref'[s] > 0 => ref[s] > 0
    BY <1>2, <1>11, <1>12 DEF Is
  <2> QED
    BY <1>1, <2>1 DEF Inv, UniqueInum
<1>14. /\ cwd' \in [Tasks -> Slots \cup {None}] /\ cwd'[u] = c
       /\ pc' \in [Tasks -> PCs] /\ pc'[u] = "idle"
       /\ \A v \in Tasks \ {u} : cwd'[v] = cwd[v] /\ pc'[v] = pc[v]
  BY <1>1, <1>2, <1>10 DEF PCs, NoIp
<1>15. Shape'
  BY <1>1, <1>3, <1>7, <1>12, <1>14 DEF Inv, Shape
<1>16. Only(u) /\ LockMoves(u)
  BY <1>1, <1>3, <1>14 DEF Only, LockMoves
<1>17. PlaceOf(u)' /\ Locked(u) = {} /\ Locked(u)' = {}
  BY <1>1, <1>2, <1>14 DEF PlaceOf, OneIp, TwoIps, NoIp, Locked
<1>18. LockOf(u)'
  BY <1>1, <1>2, <1>14, <1>17 DEF LockOf
<1>19. TokenMoves(u)
  BY <1>1, <1>14 DEF TokenMoves, Inside, Inv, Shape
<1>20. RefMoves(u)
  <2> SUFFICES ASSUME NEW s \in Slots
               PROVE  ref'[s] = ref[s] + Pointers(u, s)' - Pointers(u, s) + ByFiles(s)' - ByFiles(s)
    BY DEF RefMoves
  <2>1. Pointers(u, s)' = Pointers(u, s) + Is(c, s) /\ Pointers(u, s) \in Nat /\ ref[s] \in Nat
    BY <1>1, <1>4, <1>14, Constants DEF Pointers, Is, Inv, Shape
  <2>2. Is(c, s) \in Nat
    BY DEF Is
  <2> QED
    BY <1>9, <1>12, <2>1, <2>2
<1> QED
  BY <1>8, <1>13, <1>15, <1>16, <1>17, <1>18, <1>19, <1>20 DEF StepOK

\* The reference of the walk becomes that of the file.
LEMMA OpenOK ==
  ASSUME Inv, NEW t \in Tasks, Open(t)
  PROVE  StepOK(t)
<1>1. pc[t] = "open" /\ FreeFiles # {} /\ FreeFds(t) # {}
      /\ UNCHANGED <<inum, ref, fs_lock, cwd, refused, ended, leaked>>
  BY DEF Open, Opens, itable, calls
<1>2. /\ ofile \in [Tasks -> [Files -> Files \cup {None}]] /\ PlaceOf(t) /\ LockOf(t)
      /\ fs_lock \in Int /\ refused \in Nat /\ ended \in Nat
      /\ file \in [Files -> [ref : Nat, ip : Slots \cup {None}, writable : BOOLEAN]]
  BY DEF Inv, Shape
<1>3. FreeFiles \subseteq Nat /\ FreeFds(t) \subseteq Nat
  BY Constants DEF FreeFiles, FreeFds
<1>4. PICK f \in FreeFiles, fd \in FreeFds(t) : f = Lowest(FreeFiles) /\ fd = Lowest(FreeFds(t))
  BY <1>1, <1>3, LowestIn
<1>5. f \in Files /\ file[f].ref = 0 /\ fd \in Files /\ ofile[t][fd] = None
  BY <1>4 DEF FreeFiles, FreeFds
<1>6. PICK ip \in Slots : ip = op[t].ip
  BY <1>1, <1>2 DEF PlaceOf, OneIp
<1>7. op[t].next = None /\ op[t].call \in {"open", "chdir", "exec"} /\ cwd[t] \in Slots
  BY <1>1, <1>2 DEF PlaceOf, OneIp
<1>8. PICK w \in BOOLEAN : file' = [file EXCEPT ![f] = [ref |-> 1, ip |-> ip, writable |-> w]]
  <2>1. ("W" \in op[t].mode) \in BOOLEAN
    OBVIOUS
  <2>2. file' = [file EXCEPT ![f] = [ref |-> 1, ip |-> ip, writable |-> "W" \in op[t].mode]]
    BY <1>4, <1>6 DEF Open
  <2> QED
    BY ONLY <2>1, <2>2, Zenon
<1>9. ofile' = [ofile EXCEPT ![t][fd] = f] /\ SetIpF(t, None, f)
  BY <1>4 DEF Open, SetIpF
<1>10. PICK l \in {"trunc", "end"} : /\ Goto(t, l)
                                     /\ IF l = "trunc" THEN UNCHANGED lock ELSE Iunlock(ip)
  BY <1>6 DEF Open
<1>11. PICK x : Locals(t, x, None, op[t].next, f)
  BY <1>9, SetsIpF
<1>12. /\ OpRec(x) /\ op' = [op EXCEPT ![t] = x]
       /\ x.ip = None /\ x.next = None /\ x.f = f /\ x.call = op[t].call
  BY <1>7, <1>11 DEF Locals
<1>13. Moves(t, l, x)
  BY <1>1, <1>2, <1>10, <1>12 DEF Moves, PCs, NoIp, Goto
<1>14. /\ Typed /\ pc'[t] = l /\ op'[t] = x
       /\ \A u \in Tasks \ {t} : pc'[u] = pc[u] /\ op'[u] = op[u]
  BY <1>13, MovesTyped
<1>15. /\ ofile' \in [Tasks -> [Files -> Files \cup {None}]] /\ ofile'[t][fd] = f
       /\ \A u \in Tasks \ {t} : ofile'[u] = ofile[u]
  BY <1>2, <1>5, <1>9
<1>16. /\ file' \in [Files -> [ref : Nat, ip : Slots \cup {None}, writable : BOOLEAN]]
       /\ file'[f].ref = 1 /\ file'[f].ip = ip
       /\ \A g \in Files \ {f} : file'[g] = file[g]
  BY <1>2, <1>5, <1>8
<1>17. FilesCounted'
  <2> SUFFICES ASSUME NEW g \in Files
               PROVE  /\ file'[g].ref = Cardinality(Fds(g)')
                      /\ file'[g].ref > 0 => file'[g].ip \in Slots
    BY DEF FilesCounted
  <2>0. \A u \in Tasks, e \in Files : u # t \/ e # fd => ofile'[u][e] = ofile[u][e]
    BY <1>2, <1>5, <1>9
  <2>1. Cardinality(Fds(g)') = Cardinality(Fds(g)) + Is(f, g) - Is(None, g)
    BY <1>5, <1>15, <2>0, FdChange
  <2>2. Is(None, g) = 0 /\ Is(f, g) \in Nat /\ Cardinality(Fds(g)) \in Nat
    BY <1>5, Constants, FdsFinite DEF Is
  <2>3. file[g].ref = Cardinality(Fds(g)) /\ (file[g].ref > 0 => file[g].ip \in Slots)
    BY DEF Inv, FilesCounted
  <2> QED
    BY <1>5, <1>16, <2>1, <2>2, <2>3 DEF Is
<1>18. FilesKept
  BY <1>5, <1>16 DEF FilesKept
<1>19. ASSUME NEW s \in Slots
       PROVE  ByFiles(s) \in Nat /\ ByFiles(s)' = ByFiles(s) + Is(ip, s)
  <2>1. OpenOf(s) \ {f} = OpenOf(s)' \ {f}
    BY <1>16 DEF OpenOf
  <2>2. IsFiniteSet(OpenOf(s))
    BY Constants, FS_Subset DEF OpenOf
  <2>3. In(f, OpenOf(s)) = 0 /\ In(f, OpenOf(s)') = Is(ip, s)
    BY <1>5, <1>16 DEF OpenOf, In, Is
  <2>4. /\ Cardinality(OpenOf(s)) \in Nat /\ Cardinality(OpenOf(s)') \in Nat
        /\ Cardinality(OpenOf(s)') = Cardinality(OpenOf(s)) + In(f, OpenOf(s)') - In(f, OpenOf(s))
    BY <2>1, <2>2, CardChange
  <2>5. leaked[s] \in Nat /\ leaked'[s] = leaked[s] /\ Is(ip, s) \in Nat
    BY <1>1 DEF Inv, Shape, Is
  <2>6. Cardinality(OpenOf(s)') = Cardinality(OpenOf(s)) + Is(ip, s)
    BY <2>3, <2>4, <2>5
  <2> QED
    BY <2>4, <2>5, <2>6 DEF ByFiles
<1>20. PlaceOf(t)'
  BY <1>1, <1>2, <1>5, <1>7, <1>12, <1>14, <1>15 DEF PlaceOf, OneIp, TwoIps, NoIp
<1>21. lock' \in [Slots -> Tasks \cup {Free}] /\ LockMoves(t) /\ LockOf(t)'
  <2>1. Locked(t) = {ip}
    BY <1>1, <1>6 DEF Locked
  <2>2. CASE l = "trunc"
    <3>1. Locked(t)' = {ip}
      BY <2>2, <1>12, <1>14, <1>16 DEF Locked
    <3> QED
      BY <1>1, <1>10, <1>14, <2>1, <2>2, <3>1, KeepsLocks
  <2>3. CASE l = "end"
    <3>1. Locked(t)' = {}
      BY <2>3, <1>14 DEF Locked
    <3> QED
      BY <1>1, <1>10, <1>14, <2>1, <2>3, <3>1, Gives
  <2> QED
    BY <2>2, <2>3
<1>22. Shape'
  BY <1>1, <1>14, <1>15, <1>16, <1>21 DEF Inv, Shape, Typed
<1>23. Only(t) /\ UniqueInum'
  BY <1>1, <1>14, <1>15 DEF Only, Inv, UniqueInum
<1>24. TokenMoves(t)
  BY <1>1, <1>2, <1>12, <1>14 DEF TokenMoves, Inside
<1>25. RefMoves(t)
  <2> SUFFICES ASSUME NEW s \in Slots
               PROVE  ref'[s] = ref[s] + Pointers(t, s)' - Pointers(t, s) + ByFiles(s)' - ByFiles(s)
    BY DEF RefMoves
  <2>1. ref[s] \in Nat /\ ref'[s] = ref[s] /\ Is(ip, s) \in Nat /\ Is(cwd[t], s) \in Nat
    BY <1>1 DEF Inv, Shape, Is
  <2>2. Pointers(t, s)' = Is(cwd[t], s) /\ Pointers(t, s) = Is(cwd[t], s) + Is(ip, s)
    BY <1>1, <1>6, <1>7, <1>12, <1>14, Constants DEF Pointers, Is
  <2> QED
    BY <1>19, <2>1, <2>2
<1> QED
  BY <1>17, <1>18, <1>20, <1>21, <1>22, <1>23, <1>24, <1>25 DEF StepOK
-----------------------------------------------------------------------------
(* The theorems *)

LEMMA InitInv == Init => Inv
<1> SUFFICES ASSUME Init PROVE Inv
  OBVIOUS
<1>1. 1 \in Slots /\ None \notin Slots /\ None \notin Files /\ First \in Tasks
  BY FsAssumption, Constants DEF Slots
<1>2. Shape
  <2>1. \A t \in Tasks : OpRec(op[t])
    BY NoOpRec DEF Init
  <2>2. file \in [Files -> [ref : Nat, ip : Slots \cup {None}, writable : BOOLEAN]]
    BY DEF Init, NoFile
  <2>3. /\ inum = [s \in Slots |-> inum[s]] /\ ref \in [Slots -> Nat]
        /\ lock \in [Slots -> Tasks \cup {Free}] /\ leaked \in [Slots -> Nat]
        /\ cwd \in [Tasks -> Slots \cup {None}]
        /\ ofile \in [Tasks -> [Files -> Files \cup {None}]]
        /\ pc \in [Tasks -> PCs] /\ op = [t \in Tasks |-> op[t]]
    BY <1>1 DEF Init, PCs, NoIp
  <2>4. fs_lock \in Int /\ refused \in Nat /\ ended \in Nat
    BY DEF Init
  <2> QED
    BY <2>1, <2>2, <2>3, <2>4 DEF Shape
<1>3. FilesCounted
  <2> SUFFICES ASSUME NEW f \in Files
               PROVE  file[f].ref = Cardinality(Fds(f)) /\ (file[f].ref > 0 => file[f].ip \in Slots)
    BY DEF FilesCounted
  <2>1. file[f].ref = 0
    BY DEF Init, NoFile
  <2>2. Fds(f) = {}
    BY <1>1 DEF Init, Fds
  <2>3. Cardinality(Fds(f)) = 0
    BY <2>2, FS_EmptySet
  <2> QED
    BY <2>1, <2>3
<1>4. UniqueInum
  BY DEF Init, UniqueInum
<1>5. Counted
  <2> SUFFICES ASSUME NEW s \in Slots PROVE ref[s] = ByTasks(s) + ByFiles(s)
    BY DEF Counted
  <2>1. IpOf(s) = {} /\ NextOf(s) = {} /\ OpenOf(s) = {} /\ leaked[s] = 0
    BY <1>1, NoOpRec DEF Init, IpOf, NextOf, OpenOf, NoFile
  <2>2. CwdOf(s) = IF s = 1 THEN {First} ELSE {}
    BY <1>1 DEF Init, CwdOf
  <2>3. Cardinality({First}) = 1 /\ Cardinality({}) = 0
    BY FS_Singleton, FS_EmptySet
  <2>4. ref[s] = IF s = 1 THEN 1 ELSE 0
    BY DEF Init
  <2> QED
    BY <2>1, <2>2, <2>3, <2>4 DEF ByTasks, ByFiles
<1>6. TokensAccounted
  <2>1. {t \in Tasks : Inside(t)} = {}
    BY DEF Init, Inside
  <2>2. Cardinality({t \in Tasks : Inside(t)}) = 0
    BY <2>1, FS_EmptySet
  <2> QED
    BY <2>2 DEF Init, TokensAccounted
<1>7. ASSUME NEW t \in Tasks PROVE PlaceOf(t) /\ LockOf(t)
  <2>1. pc[t] \in {"idle", "unborn"} /\ (pc[t] = "idle" <=> t = First)
    BY DEF Init
  <2>2. op[t].ip = None /\ op[t].next = None
    BY NoOpRec DEF Init
  <2>3. PlaceOf(t)
    BY <1>1, <2>1, <2>2 DEF Init, PlaceOf, OneIp, TwoIps, NoIp
  <2>4. {s \in Slots : lock[s] = t} = {}
    BY FsAssumption DEF Init
  <2>5. LockOf(t)
    BY <2>1, <2>4 DEF LockOf, Locked
  <2> QED
    BY <2>3, <2>5
<1> QED
  BY <1>2, <1>3, <1>4, <1>5, <1>6, <1>7 DEF Inv

LEMMA InvStep == Inv /\ [Next]_vars => Inv'
<1> SUFFICES ASSUME Inv, [Next]_vars PROVE Inv'
  OBVIOUS
<1>1. CASE UNCHANGED vars
  <2>1. /\ inum' = inum /\ ref' = ref /\ lock' = lock /\ fs_lock' = fs_lock /\ file' = file /\ cwd' = cwd
        /\ ofile' = ofile /\ pc' = pc /\ op' = op /\ refused' = refused /\ ended' = ended /\ leaked' = leaked
    BY <1>1 DEF vars
  <2>2. Shape' /\ UniqueInum'
    BY <2>1 DEF Inv, Shape, UniqueInum
  <2>3. FilesCounted'
    <3>1. \A f \in Files : Fds(f)' = Fds(f)
      BY <2>1 DEF Fds
    <3> QED
      BY <2>1, <3>1 DEF Inv, FilesCounted
  <2>4. Counted'
    <3>1. \A s \in Slots : ByTasks(s)' = ByTasks(s) /\ ByFiles(s)' = ByFiles(s)
      BY <2>1 DEF ByTasks, ByFiles, CwdOf, IpOf, NextOf, OpenOf
    <3> QED
      BY <2>1, <3>1 DEF Inv, Counted
  <2>5. TokensAccounted'
    <3>1. {t \in Tasks : Inside(t)}' = {t \in Tasks : Inside(t)}
      BY <2>1 DEF Inside
    <3> QED
      BY <2>1, <3>1 DEF Inv, TokensAccounted
  <2>6. ASSUME NEW t \in Tasks PROVE PlaceOf(t)' /\ LockOf(t)'
    <3>1. PlaceOf(t) /\ LockOf(t)
      BY DEF Inv
    <3>2. PlaceOf(t)'
      BY <2>1, <3>1 DEF PlaceOf
    <3>3. Locked(t)' = Locked(t)
      BY <2>1 DEF Locked
    <3> QED
      BY <2>1, <3>1, <3>2, <3>3 DEF LockOf
  <2> QED
    BY <2>2, <2>3, <2>4, <2>5, <2>6 DEF Inv
<1>2. CASE Next
  <2>1. PICK t \in Tasks :
          \/ \E path \in Paths, mode \in Modes : SysOpen(t, path, mode)
          \/ \E path \in Paths : SysChdir(t, path)
          \/ \E path \in Paths : SysExec(t, path)
          \/ \E fd \in Files : SysRead(t, fd)
          \/ \E fd \in Files : SysWrite(t, fd)
          \/ EndOp(t) \/ WalkStart(t) \/ WalkOver(t) \/ WalkLock(t) \/ WalkLook(t)
          \/ WalkPut(t) \/ PutFail(t) \/ CreateLock(t) \/ CreateLocked(t) \/ NewLock(t)
          \/ FoundLock(t) \/ Open(t) \/ OpenRefused(t) \/ Chdir(t) \/ Exec(t) \/ ExecPut(t)
          \/ UseLock(t) \/ UseReturns(t) \/ WriteDone(t)
          \/ \E fd \in Files : Close(t, fd)
          \/ \E u \in Tasks : Fork(t, u)
          \/ Exit(t)
    BY <1>2 DEF Next
  <2>2. fs_lock \in Int
    BY DEF Inv, Shape
  <2>3. CASE \E path \in Paths, mode \in Modes : SysOpen(t, path, mode)
    BY <2>2, <2>3, PathCallOK, Local DEF SysOpen, BeginOp
  <2>4. CASE \E path \in Paths : SysChdir(t, path)
    BY <2>2, <2>4, PathCallOK, Local DEF SysChdir, BeginOp
  <2>5. CASE \E path \in Paths : SysExec(t, path)
    BY <2>2, <2>5, PathCallOK, Local DEF SysExec
  <2>6. CASE \E fd \in Files : SysRead(t, fd)
    BY <2>2, <2>6, FileCallOK, Local DEF SysRead
  <2>7. CASE \E fd \in Files : SysWrite(t, fd)
    BY <2>2, <2>7, FileCallOK, Local DEF SysWrite, BeginOp
  <2>8. CASE EndOp(t)
    BY <2>8, EndOpOK, Local
  <2>9. CASE WalkStart(t)
    BY <2>9, WalkStartOK, Local
  <2>10. CASE WalkOver(t)
    BY <2>10, WalkOverOK, Local
  <2>11. CASE WalkLock(t)
    BY <2>11, WalkLockOK, Local
  <2>12. CASE WalkLook(t)
    BY <2>12, WalkLookOK, Local
  <2>13. CASE WalkPut(t)
    BY <2>13, WalkPutOK, Local
  <2>14. CASE PutFail(t)
    BY <2>14, PutFailOK, Local
  <2>15. CASE CreateLock(t)
    BY <2>15, CreateLockOK, Local
  <2>16. CASE CreateLocked(t)
    BY <2>16, CreateLockedOK, Local
  <2>17. CASE NewLock(t)
    BY <2>17, NewLockOK, Local
  <2>18. CASE FoundLock(t)
    BY <2>18, FoundLockOK, Local
  <2>19. CASE Open(t)
    BY <2>19, OpenOK, Local
  <2>20. CASE OpenRefused(t)
    BY <2>20, OpenRefusedOK, Local
  <2>21. CASE Chdir(t)
    BY <2>21, ChdirOK, Local
  <2>22. CASE Exec(t)
    BY <2>22, ExecOK, Local
  <2>23. CASE ExecPut(t)
    BY <2>23, ExecPutOK, Local
  <2>24. CASE UseLock(t)
    BY <2>24, UseLockOK, Local
  <2>25. CASE UseReturns(t)
    BY <2>25, UseReturnsOK, Local
  <2>26. CASE WriteDone(t)
    BY <2>26, WriteDoneOK, Local
  <2>27. CASE \E fd \in Files : Close(t, fd)
    BY <2>27, CloseOK, Local
  <2>28. CASE \E u \in Tasks : Fork(t, u)
    BY <2>28, ForkOK, Local
  <2>29. CASE Exit(t)
    BY <2>29, ExitOK, Local
  <2> QED
    BY <2>1, <2>3, <2>4, <2>5, <2>6, <2>7, <2>8, <2>9, <2>10, <2>11, <2>12, <2>13, <2>14, <2>15,
       <2>16, <2>17, <2>18, <2>19, <2>20, <2>21, <2>22, <2>23, <2>24, <2>25, <2>26, <2>27, <2>28,
       <2>29
<1> QED
  BY <1>1, <1>2 DEF vars

LEMMA InvSound == Inv => RefsCounted /\ LocksBalanced
<1> SUFFICES ASSUME Inv PROVE RefsCounted /\ LocksBalanced
  OBVIOUS
<1>1. RefsCounted
  <2>1. ASSUME NEW s \in Slots
        PROVE  ref[s] = Cardinality(CwdOf(s)) + Cardinality(OpenOf(s)) + Cardinality(IpOf(s))
                        + Cardinality(NextOf(s)) + leaked[s]
    <3>1. /\ IsFiniteSet(CwdOf(s)) /\ IsFiniteSet(OpenOf(s))
          /\ IsFiniteSet(IpOf(s)) /\ IsFiniteSet(NextOf(s))
      BY Constants, FS_Subset DEF CwdOf, OpenOf, IpOf, NextOf
    <3>2. /\ Cardinality(CwdOf(s)) \in Nat /\ Cardinality(OpenOf(s)) \in Nat
          /\ Cardinality(IpOf(s)) \in Nat /\ Cardinality(NextOf(s)) \in Nat /\ leaked[s] \in Nat
      BY <3>1, FS_CardinalityType DEF Inv, Shape
    <3>3. ref[s] = ByTasks(s) + ByFiles(s)
      BY DEF Inv, Counted
    <3> QED
      BY <3>2, <3>3 DEF ByTasks, ByFiles
  <2> QED
    BY <2>1 DEF RefsCounted, Inv, UniqueInum, CwdOf, OpenOf, IpOf, NextOf
<1>2. ASSUME NEW s \in Slots, lock[s] # Free PROVE ref[s] > 0
  <2>1. PICK t \in Tasks : lock[s] = t
    BY <1>2 DEF Inv, Shape
  <2>2. PlaceOf(t) /\ LockOf(t) /\ s \in {u \in Slots : lock[u] = t}
    BY <2>1 DEF Inv
  <2>3. CASE pc[t] \in {"using", "trunc"}
    <3>1. op[t].f \in Files /\ file[op[t].f].ref > 0
      BY <2>3, UsedFile
    <3>2. s = file[op[t].f].ip
      BY <2>2, <2>3 DEF LockOf, Locked
    <3> QED
      BY <3>1, <3>2, FileReferenced
  <2>4. CASE pc[t] \notin {"using", "trunc"}
    <3>1. s = op[t].ip \/ s = op[t].next
      BY <2>2, <2>4 DEF LockOf, Locked
    <3> QED
      BY <3>1, Referenced
  <2> QED
    BY <2>3, <2>4
<1>3. LocksBalanced
  BY <1>2 DEF LocksBalanced, Inv, LockOf
<1> QED
  BY <1>1, <1>3

LEMMA SpecInv == Spec => []Inv
BY InitInv, InvStep, PTL DEF Spec

\* No system call loses or repeats an iput: ref of every inode slot is the
\* number of pointers to it, and no inode is in two slots (iget, iput).
THEOREM ReferencesCounted == Spec => []RefsCounted
BY SpecInv, InvSound, PTL

\* The transaction semaphore is where the calls under way, the refused writes
\* and the execs put it (begin_op, end_op).
THEOREM TokenAccounted == Spec => []TokensAccounted
<1>1. Inv => TokensAccounted
  BY DEF Inv
<1> QED
  BY <1>1, SpecInv, PTL

\* A task holds the inode semaphores of its place in the code and no other,
\* each of an inode that is referenced (ilock, iunlock).
THEOREM InodeLocksBalanced == Spec => []LocksBalanced
BY SpecInv, InvSound, PTL
=============================================================================
