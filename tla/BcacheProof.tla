---------------------------- MODULE BcacheProof ----------------------------
(***************************************************************************)
(* Proofs about Bcache, for any number of tasks, buffers and blocks.       *)
(*                                                                         *)
(* Inv adds to Consistent what makes it inductive: which buffers a task    *)
(* holds at each point of a call (Own), that b->sem's list is exactly the  *)
(* tasks in lm_P (Queued), that holding_task and valid are right whenever  *)
(* the semaphore is had (Marked), that a buffer in use has a block (Named) *)
(* and that the list has every buffer (Listed).  Written is what eviction  *)
(* relies on: a valid buffer is like the disk, but for a bwrite to come.   *)
(***************************************************************************)
EXTENDS Bcache, FiniteSetTheorems, TLAPS

InUse == {"P", "wait", "mark", "read", "rel"}
Writing == {"dirty", "write"}

Own ==
    \A t \in Tasks :
        /\ pc[t] \in InUse => cur[t] \notin hold[t]
        /\ pc[t] \in Writing => cur[t] \in hold[t]

Queued ==
    \A b \in Bufs :
        /\ \A t \in Tasks :
              pc[t] = "wait" /\ cur[t] = b
                  <=> \E i \in 1 .. Len(waiting[b]) : waiting[b][i] = t
        /\ \A i, j \in 1 .. Len(waiting[b]) : waiting[b][i] = waiting[b][j] => i = j
        /\ sem[b] = 1 => waiting[b] = <<>>

Marked ==
    \A t \in Tasks :
        /\ \A b \in hold[t] : holding_task[b] = t /\ valid[b]
        /\ pc[t] = "read" => holding_task[cur[t]] = t /\ ~valid[cur[t]]

Named == \A b \in Bufs : valid[b] \/ Users(b) # {} => blockno[b] \in Blocks

Listed == \A b \in Bufs : \E i \in Bufs : lru[i] = b

Inv == Consistent /\ Own /\ Queued /\ Marked /\ Named /\ Listed

Written ==
    \A b \in Bufs :
        valid[b] /\ (\A t \in Tasks : pc[t] \in Writing => cur[t] # b)
            => data[b] = disk[blockno[b]]
-----------------------------------------------------------------------------
(* Users and holders *)

LEMMA NoBlockFact == NoBlock \notin Blocks
BY BcacheAssumption DEF NoBlock

LEMMA UsersFinite ==
  ASSUME NEW b \in Bufs
  PROVE  IsFiniteSet(Users(b))
BY BcacheAssumption, FS_Subset DEF Users

\* A buffer nobody refers to has refcnt 0, and the other way round.
LEMMA ZeroRef ==
  ASSUME RefCounted, NEW b \in Bufs
  PROVE  refcnt[b] = 0 <=> Users(b) = {}
BY UsersFinite, FS_EmptySet DEF RefCounted

LEMMA HoldersUse ==
  ASSUME NEW b \in Bufs
  PROVE  Holders(b) \subseteq Users(b)
BY DEF Holders, Users

\* A step that changes neither the users nor the count of any buffer.
LEMMA SameUsers ==
  ASSUME RefCounted, UNCHANGED refcnt, \A b \in Bufs : Users(b)' = Users(b)
  PROVE  RefCounted'
BY DEF RefCounted

LEMMA OneMoreUser ==
  ASSUME TypeOK, RefCounted, NEW t \in Tasks, NEW c \in Bufs, t \notin Users(c),
         refcnt' = [refcnt EXCEPT ![c] = @ + 1],
         Users(c)' = Users(c) \cup {t},
         \A b \in Bufs \ {c} : Users(b)' = Users(b)
  PROVE  RefCounted'
<1>1. Cardinality(Users(c)') = Cardinality(Users(c)) + 1
  BY UsersFinite, FS_AddElement
<1> QED
  BY <1>1 DEF RefCounted, TypeOK

LEMMA OneUserLess ==
  ASSUME TypeOK, RefCounted, NEW t \in Tasks, NEW c \in Bufs, t \in Users(c),
         refcnt' = [refcnt EXCEPT ![c] = @ - 1],
         Users(c)' = Users(c) \ {t},
         \A b \in Bufs \ {c} : Users(b)' = Users(b)
  PROVE  RefCounted' /\ refcnt' \in [Bufs -> Nat]
<1>1. Cardinality(Users(c)') = Cardinality(Users(c)) - 1
  BY UsersFinite, FS_RemoveElement
<1>2. IsFiniteSet(Users(c)')
  BY UsersFinite, FS_Subset
<1>3. Cardinality(Users(c)') \in Nat
  BY <1>2, FS_CardinalityType
<1> QED
  BY <1>1, <1>3 DEF RefCounted, TypeOK
\* What a step of t leaves alone: the other tasks.
Only(t) ==
    \A u \in Tasks \ {t} :
        pc'[u] = pc[u] /\ cur'[u] = cur[u] /\ hold'[u] = hold[u]

Uses(t, b) == b \in hold[t] \/ (cur[t] = b /\ pc[t] \in InUse)
Has(t, b) == b \in hold[t] \/ (cur[t] = b /\ pc[t] \in {"mark", "read"})

LEMMA MemberChange ==
  ASSUME NEW S, NEW T, NEW x, S \ {x} = T \ {x}
  PROVE  /\ (x \in S <=> x \in T) => S = T
         /\ x \in S /\ x \notin T => S = T \cup {x}
         /\ x \notin S /\ x \in T => S = T \ {x}
OBVIOUS

LEMMA UsersChange ==
  ASSUME NEW t \in Tasks, Only(t), NEW b \in Bufs
  PROVE  /\ t \in Users(b) <=> Uses(t, b)
         /\ (Uses(t, b)' <=> Uses(t, b)) => Users(b)' = Users(b)
         /\ Uses(t, b)' /\ ~Uses(t, b) => Users(b)' = Users(b) \cup {t}
         /\ ~Uses(t, b)' /\ Uses(t, b) => Users(b)' = Users(b) \ {t}
<1>1. /\ Users(b)' \ {t} = Users(b) \ {t}
      /\ t \in Users(b)' <=> Uses(t, b)'
      /\ t \in Users(b) <=> Uses(t, b)
  BY DEF Only, Users, Uses, InUse
<1> QED
  BY <1>1, MemberChange

LEMMA HoldersChange ==
  ASSUME NEW t \in Tasks, Only(t), NEW b \in Bufs
  PROVE  /\ t \in Holders(b) <=> Has(t, b)
         /\ (Has(t, b)' <=> Has(t, b)) => Holders(b)' = Holders(b)
         /\ Has(t, b)' /\ ~Has(t, b) => Holders(b)' = Holders(b) \cup {t}
         /\ ~Has(t, b)' /\ Has(t, b) => Holders(b)' = Holders(b) \ {t}
<1>1. /\ Holders(b)' \ {t} = Holders(b) \ {t}
      /\ t \in Holders(b)' <=> Has(t, b)'
      /\ t \in Holders(b) <=> Has(t, b)
  BY DEF Only, Holders, Has
<1> QED
  BY <1>1, MemberChange
\* Steps in which nobody starts or ends to wait.
LEMMA SameQueue ==
  ASSUME Queued, UNCHANGED waiting, \A b \in Bufs : sem'[b] = 1 => sem[b] = 1,
         \A u \in Tasks : pc'[u] = "wait" <=> pc[u] = "wait",
         \A u \in Tasks : pc[u] = "wait" => cur'[u] = cur[u]
  PROVE  Queued'
<1>1. ASSUME NEW b \in Bufs, NEW u \in Tasks
      PROVE  pc'[u] = "wait" /\ cur'[u] = b <=> pc[u] = "wait" /\ cur[u] = b
  OBVIOUS
<1> QED
  BY <1>1 DEF Queued
-----------------------------------------------------------------------------
(* bget *)

LEMMA HitStep ==
  ASSUME Inv, NEW t \in Tasks, NEW k \in Blocks, bget_hit(t, k)
  PROVE  Inv'
<1> USE DEF Inv, Consistent
<1>1. PICK i \in Bufs : /\ blockno[lru[i]] = k
                        /\ refcnt' = [refcnt EXCEPT ![lru[i]] = @ + 1]
                        /\ Look(t, lru[i], "P")
  BY DEF bget_hit
<1>2. PICK c \in Bufs :
        /\ blockno[c] = k
        /\ refcnt' = [refcnt EXCEPT ![c] = @ + 1]
        /\ cur' = [cur EXCEPT ![t] = c] /\ pc' = [pc EXCEPT ![t] = "P"]
        /\ At(t, "idle") /\ MayAsk(t, k)
        /\ UNCHANGED <<blockno, valid, holding_task, data, svars, lru, disk, hold>>
  <2>1. lru[i] \in Bufs
    BY DEF TypeOK
  <2> QED
    BY <1>1, <2>1 DEF bget_hit, Look, Goto
<1>3. c \notin hold[t]
  BY <1>2, BcacheAssumption DEF MayAsk
<1>4. /\ Users(c)' = Users(c) \cup {t} /\ t \notin Users(c)
      /\ \A b \in Bufs \ {c} : Users(b)' = Users(b)
      /\ \A b \in Bufs : Holders(b)' = Holders(b)
  <2>1. /\ Only(t) /\ pc[t] = "idle" /\ pc'[t] = "P" /\ cur'[t] = c
        /\ hold'[t] = hold[t] /\ c \notin hold[t]
    BY <1>2, <1>3 DEF Only, TypeOK, At, Users
  <2>2. Uses(t, c)' /\ ~Uses(t, c)
    BY <2>1 DEF InUse, Uses
  <2>3. \A b \in Bufs \ {c} : Uses(t, b)' <=> Uses(t, b)
    BY <2>1 DEF InUse, Uses
  <2>4. \A b \in Bufs : Has(t, b)' <=> Has(t, b)
    BY <2>1 DEF Has
  <2> QED
    BY <1>2, <2>1, <2>2, <2>3, <2>4, UsersChange, HoldersChange
<1>5. RefCounted'
  BY <1>1, <1>2, <1>4, OneMoreUser
<1>6. TypeOK'
  BY <1>1, <1>2 DEF TypeOK, PCs, svars
<1>7. UniqueBlock' /\ NoPanic' /\ Listed'
  BY <1>2 DEF UniqueBlock, NoPanic, Listed, TypeOK
<1>8. OneHolder'
  BY <1>2, <1>4 DEF OneHolder, svars
<1>9. Own' /\ Marked'
  BY <1>2, <1>3 DEF Own, Marked, TypeOK, InUse, Writing, At
<1>10. Queued'
  BY <1>2, SameQueue DEF TypeOK, At, svars
<1>11. Named'
  BY <1>1, <1>2, <1>4 DEF Named
<1> QED
  BY <1>5, <1>6, <1>7, <1>8, <1>9, <1>10, <1>11

LEMMA RecycleStep ==
  ASSUME Inv, NEW t \in Tasks, NEW k \in Blocks, bget_recycle(t, k)
  PROVE  Inv'
<1> USE DEF Inv, Consistent
<1>1. PICK i \in Bufs : Recyclable(lru[i]) /\ Recycle(t, k, lru[i])
  BY DEF bget_recycle
<1>2. PICK c \in Bufs :
        /\ At(t, "idle") /\ NotCached(k) /\ refcnt[c] = 0
        /\ blockno' = [blockno EXCEPT ![c] = k]
        /\ valid' = [valid EXCEPT ![c] = FALSE]
        /\ refcnt' = [refcnt EXCEPT ![c] = 1]
        /\ cur' = [cur EXCEPT ![t] = c] /\ pc' = [pc EXCEPT ![t] = "P"]
        /\ UNCHANGED <<holding_task, data, svars, lru, disk, hold>>
  <2>1. lru[i] \in Bufs
    BY DEF TypeOK
  <2> QED
    BY <1>1, <2>1 DEF bget_recycle, Recycle, Recyclable, Look, Goto
<1>3. Users(c) = {} /\ Holders(c) = {}
  BY <1>2, ZeroRef, HoldersUse
<1>4. /\ Users(c)' = Users(c) \cup {t} /\ t \notin Users(c)
      /\ \A b \in Bufs \ {c} : Users(b)' = Users(b)
      /\ \A b \in Bufs : Holders(b)' = Holders(b)
  <2>1. /\ Only(t) /\ pc[t] = "idle" /\ pc'[t] = "P" /\ cur'[t] = c
        /\ hold'[t] = hold[t] /\ c \notin hold[t]
    BY <1>2, <1>3 DEF Only, TypeOK, At, Users
  <2>2. Uses(t, c)' /\ ~Uses(t, c)
    BY <2>1 DEF InUse, Uses
  <2>3. \A b \in Bufs \ {c} : Uses(t, b)' <=> Uses(t, b)
    BY <2>1 DEF InUse, Uses
  <2>4. \A b \in Bufs : Has(t, b)' <=> Has(t, b)
    BY <2>1 DEF Has
  <2> QED
    BY <1>2, <2>1, <2>2, <2>3, <2>4, UsersChange, HoldersChange
<1>5. RefCounted'
  <2>1. refcnt' = [refcnt EXCEPT ![c] = refcnt[c] + 1]
    <3>1. refcnt[c] + 1 = 1
      BY <1>2
    <3> QED
      BY <1>2, <3>1, Zenon
  <2> QED
    BY <1>2, <1>4, <2>1, OneMoreUser
<1>6. TypeOK'
  BY <1>2 DEF TypeOK, PCs, svars
<1>7. NoPanic' /\ Listed'
  BY <1>2 DEF NoPanic, Listed, TypeOK
<1>8. UniqueBlock'
  <2>1. \A b \in Bufs : blockno[b] # k
    BY <1>2 DEF NotCached, Listed
  <2> QED
    BY <1>2, <2>1 DEF UniqueBlock, TypeOK
<1>9. OneHolder'
  BY <1>2, <1>4 DEF OneHolder, svars
<1>10. \A u \in Tasks : c \notin hold[u] /\ ~(pc[u] \in InUse /\ cur[u] = c)
  BY <1>3 DEF Users, InUse
<1>11. Own'
  BY <1>2, <1>10 DEF Own, TypeOK, InUse, Writing, At
<1>12. Marked'
  BY <1>2, <1>10 DEF Marked, TypeOK, InUse, At
<1>13. Queued'
  BY <1>2, SameQueue DEF TypeOK, At, svars
<1>14. Named'
  BY <1>2, <1>4 DEF Named, TypeOK
<1> QED
  BY <1>5, <1>6, <1>7, <1>8, <1>9, <1>11, <1>12, <1>13, <1>14

LEMMA PanicStep ==
  ASSUME Inv, NEW t \in Tasks, NEW k \in Blocks, bget_panic(t, k)
  PROVE  Inv'
<1> USE DEF Inv, Consistent
<1>1. /\ At(t, "idle") /\ pc' = [pc EXCEPT ![t] = "full"]
      /\ UNCHANGED <<bvars, data, svars, lru, disk, cur, hold>>
  BY DEF bget_panic, Goto
<1>2. Only(t) /\ pc[t] = "idle" /\ pc'[t] = "full" /\ cur'[t] = cur[t] /\ hold'[t] = hold[t]
  BY <1>1 DEF Only, TypeOK, At
<1>3. \A b \in Bufs : Users(b)' = Users(b) /\ Holders(b)' = Holders(b)
  BY <1>2, UsersChange, HoldersChange DEF Uses, Has, InUse
<1>4. RefCounted'
  BY <1>1, <1>3, SameUsers DEF bvars
<1>5. TypeOK'
  BY <1>1 DEF TypeOK, PCs, bvars, svars
<1>6. UniqueBlock' /\ NoPanic' /\ Listed'
  BY <1>1 DEF UniqueBlock, NoPanic, Listed, TypeOK, bvars
<1>7. OneHolder'
  BY <1>1, <1>3 DEF OneHolder, svars
<1>8. Own' /\ Marked'
  BY <1>1 DEF Own, Marked, TypeOK, InUse, Writing, At, bvars
<1>9. Queued'
  BY <1>1, SameQueue DEF TypeOK, At, svars
<1>10. Named'
  BY <1>1, <1>3 DEF Named, bvars
<1> QED
  BY <1>4, <1>5, <1>6, <1>7, <1>8, <1>9, <1>10
-----------------------------------------------------------------------------
(* The semaphore *)

LEMMA TokenStep ==
  ASSUME Inv, NEW t \in Tasks, P(t), sem[cur[t]] = 1
  PROVE  Inv'
<1> USE DEF Inv, Consistent
<1>1. PICK c \in Bufs :
        /\ At(t, "P") /\ cur[t] = c /\ sem[c] = 1
        /\ sem' = [sem EXCEPT ![c] = 0] /\ pc' = [pc EXCEPT ![t] = "mark"]
        /\ UNCHANGED <<bvars, data, waiting, lru, disk, cur, hold>>
  BY DEF P, Goto, TypeOK
<1>2. Only(t) /\ pc[t] = "P" /\ pc'[t] = "mark" /\ cur'[t] = c /\ hold'[t] = hold[t]
  BY <1>1 DEF Only, TypeOK, At
<1>3. \A b \in Bufs : Users(b)' = Users(b)
  BY <1>1, <1>2, UsersChange DEF Uses, InUse
<1>4. /\ Holders(c) = {} /\ Holders(c)' = {t}
      /\ \A b \in Bufs \ {c} : Holders(b)' = Holders(b)
  <2>1. Holders(c) = {}
    BY <1>1 DEF OneHolder
  <2>2. ~Has(t, c) /\ Has(t, c)' /\ \A b \in Bufs \ {c} : Has(t, b)' <=> Has(t, b)
    BY <1>1, <1>2, <2>1, HoldersChange DEF Has
  <2> QED
    BY <1>2, <2>1, <2>2, HoldersChange
<1>5. RefCounted'
  BY <1>1, <1>3, SameUsers DEF bvars
<1>6. TypeOK'
  BY <1>1 DEF TypeOK, PCs, bvars, svars
<1>7. UniqueBlock' /\ NoPanic' /\ Listed'
  BY <1>1 DEF UniqueBlock, NoPanic, Listed, TypeOK, bvars
<1>8. OneHolder'
  <2>1. sem'[c] = 0 /\ \A b \in Bufs \ {c} : sem'[b] = sem[b]
    BY <1>1 DEF TypeOK
  <2> QED
    BY <1>4, <2>1 DEF OneHolder
<1>9. Own' /\ Marked'
  BY <1>1 DEF Own, Marked, TypeOK, InUse, Writing, At, bvars
<1>10. Queued'
  BY <1>1, SameQueue DEF TypeOK, At
<1>11. Named'
  BY <1>1, <1>3 DEF Named, bvars
<1> QED
  BY <1>5, <1>6, <1>7, <1>8, <1>9, <1>10, <1>11

LEMMA WaitStep ==
  ASSUME Inv, NEW t \in Tasks, P(t), sem[cur[t]] # 1
  PROVE  Inv'
<1> USE DEF Inv, Consistent
<1>1. PICK c \in Bufs :
        /\ At(t, "P") /\ cur[t] = c /\ sem[c] # 1
        /\ waiting' = [waiting EXCEPT ![c] = Append(waiting[c], t)]
        /\ pc' = [pc EXCEPT ![t] = "wait"]
        /\ UNCHANGED <<bvars, data, sem, lru, disk, cur, hold>>
  BY DEF P, Goto, TypeOK
<1>2. Only(t) /\ pc[t] = "P" /\ pc'[t] = "wait" /\ cur'[t] = c /\ hold'[t] = hold[t]
  BY <1>1 DEF Only, TypeOK, At
<1>3. \A b \in Bufs : Users(b)' = Users(b) /\ Holders(b)' = Holders(b)
  BY <1>1, <1>2, UsersChange, HoldersChange DEF Uses, Has, InUse
<1>4. RefCounted'
  BY <1>1, <1>3, SameUsers DEF bvars
<1>5. TypeOK'
  <2>1. Append(waiting[c], t) \in Seq(Tasks)
    BY DEF TypeOK
  <2>2. waiting' \in [Bufs -> Seq(Tasks)]
    BY <1>1, <2>1 DEF TypeOK
  <2> QED
    BY <1>1, <2>2 DEF TypeOK, PCs, bvars
<1>6. UniqueBlock' /\ NoPanic' /\ Listed'
  BY <1>1 DEF UniqueBlock, NoPanic, Listed, TypeOK, bvars
<1>7. OneHolder'
  BY <1>1, <1>3 DEF OneHolder
<1>8. Own' /\ Marked'
  BY <1>1 DEF Own, Marked, TypeOK, InUse, Writing, At, bvars
<1>9. Queued'
  <2>1. \A b \in Bufs \ {c} : waiting'[b] = waiting[b]
    BY <1>1 DEF TypeOK
  <2>2. /\ waiting[c] \in Seq(Tasks) /\ waiting'[c] = Append(waiting[c], t)
        /\ Len(waiting'[c]) = Len(waiting[c]) + 1 /\ Len(waiting[c]) \in Nat
        /\ \A i \in 1 .. Len(waiting[c]) : waiting'[c][i] = waiting[c][i]
        /\ waiting'[c][Len(waiting[c]) + 1] = t
    BY <1>1 DEF TypeOK
  <2>3. \A i \in 1 .. Len(waiting[c]) : waiting[c][i] # t
    BY <1>1 DEF Queued, At
  <2>4. \A u \in Tasks : pc'[u] = "wait" <=> u = t \/ pc[u] = "wait"
    BY <1>2 DEF Only
  <2>5. \A u \in Tasks : cur'[u] = cur[u]
    BY <1>1
  <2>6. \A u \in Tasks : pc'[u] = "wait" /\ cur'[u] = c
                            <=> \E i \in 1 .. Len(waiting'[c]) : waiting'[c][i] = u
    BY <1>1, <2>2, <2>4, <2>5 DEF Queued
  <2>7. \A i, j \in 1 .. Len(waiting'[c]) : waiting'[c][i] = waiting'[c][j] => i = j
    BY <2>2, <2>3 DEF Queued
  <2>8. ASSUME NEW b \in Bufs \ {c}, NEW u \in Tasks
        PROVE  pc'[u] = "wait" /\ cur'[u] = b
                  <=> \E i \in 1 .. Len(waiting'[b]) : waiting'[b][i] = u
    BY <1>1, <2>1, <2>4, <2>5 DEF Queued
  <2>9. ASSUME NEW b \in Bufs \ {c}
        PROVE /\ \A i, j \in 1 .. Len(waiting'[b]) : waiting'[b][i] = waiting'[b][j] => i = j
              /\ sem'[b] = 1 => waiting'[b] = <<>>
    BY <1>1, <2>1 DEF Queued
  <2>10. sem'[c] # 1
    BY <1>1
  <2> QED
    BY <2>6, <2>7, <2>8, <2>9, <2>10 DEF Queued
<1>10. Named'
  BY <1>1, <1>3 DEF Named, bvars
<1> QED
  BY <1>4, <1>5, <1>6, <1>7, <1>8, <1>9, <1>10

\* The task that has the semaphore of c has it alone.
LEMMA Alone ==
  ASSUME Inv, NEW t \in Tasks, NEW c \in Bufs, Has(t, c)
  PROVE  /\ \A u \in Tasks \ {t} : ~Has(u, c)
         /\ sem[c] = 0
<1>1. t \in Holders(c) /\ \A u \in Tasks : Has(u, c) => u \in Holders(c)
  BY DEF Holders, Has
<1> QED
  BY <1>1 DEF Inv, Consistent, OneHolder, TypeOK

LEMMA MarkStep ==
  ASSUME Inv, NEW t \in Tasks, Mark(t)
  PROVE  Inv'
<1> USE DEF Inv, Consistent
<1>1. PICK c \in Bufs :
        /\ At(t, "mark") /\ cur[t] = c
        /\ holding_task' = [holding_task EXCEPT ![c] = t]
        /\ IF valid[c] THEN Keep(t, c) ELSE Goto(t, "read") /\ UNCHANGED hold
        /\ UNCHANGED <<blockno, valid, refcnt, data, svars, lru, disk, cur>>
  BY DEF Mark, TypeOK
<1>2. /\ Only(t) /\ pc[t] = "mark" /\ cur'[t] = c
      /\ pc' \in [Tasks -> PCs] /\ hold' \in [Tasks -> SUBSET Bufs]
      /\ \/ valid[c] /\ pc'[t] = "idle" /\ hold'[t] = hold[t] \cup {c}
         \/ ~valid[c] /\ pc'[t] = "read" /\ hold'[t] = hold[t]
  <2>1. CASE valid[c]
    <3>1. hold' = [hold EXCEPT ![t] = @ \cup {c}] /\ pc' = [pc EXCEPT ![t] = "idle"]
      BY <1>1, <2>1 DEF Keep, Goto
    <3>2. hold[t] \cup {c} \in SUBSET Bufs
      BY DEF TypeOK
    <3> QED
      BY <1>1, <2>1, <3>1, <3>2 DEF Only, TypeOK, At, PCs
  <2>2. CASE ~valid[c]
    BY <1>1, <2>2 DEF Only, TypeOK, At, Goto, PCs
  <2> QED
    BY <2>1, <2>2
<1>3. Has(t, c) /\ \A u \in Tasks \ {t} : ~Has(u, c)
  BY <1>1, <1>2, Alone DEF Has
<1>4. \A b \in Bufs : Users(b)' = Users(b) /\ Holders(b)' = Holders(b)
  BY <1>1, <1>2, UsersChange, HoldersChange DEF Uses, Has, InUse
<1>5. RefCounted'
  BY <1>1, <1>4, SameUsers
<1>6. TypeOK'
  BY <1>1, <1>2 DEF TypeOK, svars
<1>7. UniqueBlock' /\ NoPanic' /\ Listed'
  BY <1>1, <1>2 DEF UniqueBlock, NoPanic, Listed, TypeOK, Only
<1>8. OneHolder'
  BY <1>1, <1>4 DEF OneHolder, svars
<1>9. Own'
  BY <1>1, <1>2 DEF Own, Only, InUse, Writing
<1>10. Marked'
  <2>1. holding_task'[c] = t /\ \A b \in Bufs \ {c} : holding_task'[b] = holding_task[b]
    BY <1>1 DEF TypeOK
  <2>2. ASSUME NEW u \in Tasks \ {t}
        PROVE  /\ \A b \in hold'[u] : holding_task'[b] = u /\ valid'[b]
               /\ pc'[u] = "read" => holding_task'[cur'[u]] = u /\ ~valid'[cur'[u]]
    BY <1>1, <1>2, <1>3, <2>1 DEF Marked, Only, Has, TypeOK
  <2>3. /\ \A b \in hold'[t] : holding_task'[b] = t /\ valid'[b]
        /\ pc'[t] = "read" => holding_task'[cur'[t]] = t /\ ~valid'[cur'[t]]
    BY <1>1, <1>2, <2>1 DEF Marked, TypeOK
  <2> QED
    BY <2>2, <2>3 DEF Marked
<1>11. Queued'
  BY <1>1, <1>2, SameQueue DEF Only, svars
<1>12. Named'
  BY <1>1, <1>4 DEF Named
<1> QED
  BY <1>5, <1>6, <1>7, <1>8, <1>9, <1>10, <1>11, <1>12
-----------------------------------------------------------------------------
(* The disk *)

LEMMA ReadStep ==
  ASSUME Inv, NEW t \in Tasks, bread_done(t)
  PROVE  Inv'
<1> USE DEF Inv, Consistent
<1>1. PICK c \in Bufs :
        /\ At(t, "read") /\ cur[t] = c
        /\ data' = [data EXCEPT ![c] = disk[blockno[c]]]
        /\ valid' = [valid EXCEPT ![c] = TRUE]
        /\ Keep(t, c)
        /\ UNCHANGED <<blockno, refcnt, holding_task, svars, lru, disk, cur>>
  BY DEF bread_done, TypeOK
<1>2. /\ Only(t) /\ pc[t] = "read" /\ cur'[t] = c
      /\ pc' \in [Tasks -> PCs] /\ hold' \in [Tasks -> SUBSET Bufs]
      /\ pc'[t] = "idle" /\ hold'[t] = hold[t] \cup {c}
  BY <1>1 DEF Only, TypeOK, At, Keep, Goto, PCs
<1>3. Has(t, c) /\ \A u \in Tasks \ {t} : ~Has(u, c)
  BY <1>1, <1>2, Alone DEF Has
<1>4. \A b \in Bufs : Users(b)' = Users(b) /\ Holders(b)' = Holders(b)
  BY <1>1, <1>2, UsersChange, HoldersChange DEF Uses, Has, InUse
<1>5. blockno[c] \in Blocks
  <2>1. Users(c) # {}
    BY <1>1, <1>2, UsersChange DEF Uses, InUse
  <2> QED
    BY <2>1 DEF Named
<1>6. RefCounted'
  BY <1>1, <1>4, SameUsers
<1>7. TypeOK'
  BY <1>1, <1>2, <1>5 DEF TypeOK, svars
<1>8. UniqueBlock' /\ NoPanic' /\ Listed'
  BY <1>1, <1>2 DEF UniqueBlock, NoPanic, Listed, TypeOK, Only
<1>9. OneHolder'
  BY <1>1, <1>4 DEF OneHolder, svars
<1>10. Own'
  BY <1>1, <1>2 DEF Own, Only, InUse, Writing
<1>11. valid'[c] /\ \A b \in Bufs \ {c} : valid'[b] = valid[b]
  BY <1>1 DEF TypeOK
<1>12. Marked'
  <2>1. ASSUME NEW u \in Tasks \ {t}
        PROVE  /\ \A b \in hold'[u] : holding_task'[b] = u /\ valid'[b]
               /\ pc'[u] = "read" => holding_task'[cur'[u]] = u /\ ~valid'[cur'[u]]
    BY <1>1, <1>2, <1>3, <1>11 DEF Marked, Only, Has, TypeOK
  <2>2. /\ \A b \in hold'[t] : holding_task'[b] = t /\ valid'[b]
        /\ pc'[t] = "read" => holding_task'[cur'[t]] = t /\ ~valid'[cur'[t]]
    BY <1>1, <1>2, <1>11 DEF Marked, TypeOK
  <2> QED
    BY <2>1, <2>2 DEF Marked
<1>13. Queued'
  BY <1>1, <1>2, SameQueue DEF Only, svars
<1>14. Named'
  BY <1>1, <1>4, <1>5, <1>11 DEF Named
<1> QED
  BY <1>6, <1>7, <1>8, <1>9, <1>10, <1>12, <1>13, <1>14

LEMMA ChangeStep ==
  ASSUME Inv, NEW t \in Tasks, NEW c \in Bufs, NEW v \in Values, Change(t, c, v)
  PROVE  Inv'
<1> USE DEF Inv, Consistent
<1>1. /\ At(t, "idle") /\ c \in hold[t] /\ cur' = [cur EXCEPT ![t] = c]
      /\ data' = [data EXCEPT ![c] = v]
      /\ UNCHANGED <<bvars, svars, lru, disk, hold>>
  BY DEF Change, Look
<1>2. /\ Only(t) /\ pc[t] = "idle" /\ cur'[t] = c /\ pc'[t] \in {"idle", "dirty"}
      /\ pc' \in [Tasks -> PCs]
  BY <1>1 DEF Change, Look, Only, TypeOK, At, Goto, PCs
<1>3. \A b \in Bufs : Users(b)' = Users(b) /\ Holders(b)' = Holders(b)
  BY <1>1, <1>2, UsersChange, HoldersChange DEF Uses, Has, InUse
<1>4. RefCounted'
  BY <1>1, <1>3, SameUsers DEF bvars
<1>5. TypeOK'
  BY <1>1, <1>2 DEF TypeOK, bvars, svars
<1>6. UniqueBlock' /\ NoPanic' /\ Listed'
  BY <1>1, <1>2 DEF UniqueBlock, NoPanic, Listed, TypeOK, Only, bvars
<1>7. OneHolder'
  BY <1>1, <1>3 DEF OneHolder, svars
<1>8. Own' /\ Marked'
  BY <1>1, <1>2 DEF Own, Marked, Only, InUse, Writing, bvars
<1>9. Queued'
  BY <1>1, <1>2, SameQueue DEF Only, svars
<1>10. Named'
  BY <1>1, <1>3 DEF Named, bvars
<1> QED
  BY <1>4, <1>5, <1>6, <1>7, <1>8, <1>9, <1>10

LEMMA WriteStep ==
  ASSUME Inv, NEW t \in Tasks, bwrite(t) \/ bwrite_done(t)
  PROVE  Inv'
<1> USE DEF Inv, Consistent
<1>1. PICK c \in Bufs :
        /\ pc[t] \in Writing /\ cur[t] = c /\ c \in hold[t]
        /\ UNCHANGED <<bvars, data, svars, lru, cur, hold>>
  BY DEF bwrite, bwrite_done, TypeOK, At, Writing, Own
<1>2. holding_task[c] = t /\ blockno[c] \in Blocks
  BY <1>1 DEF Marked, Named
<1>3. /\ Only(t) /\ pc'[t] \in {"write", "idle"} /\ pc' \in [Tasks -> PCs]
      /\ disk' \in [Blocks -> Values]
  BY <1>1, <1>2 DEF bwrite, bwrite_done, Only, TypeOK, At, Goto, PCs
<1>4. \A b \in Bufs : Users(b)' = Users(b) /\ Holders(b)' = Holders(b)
  BY <1>1, <1>3, UsersChange, HoldersChange DEF Uses, Has, InUse, Writing
<1>5. RefCounted'
  BY <1>1, <1>4, SameUsers DEF bvars
<1>6. TypeOK'
  BY <1>1, <1>3 DEF TypeOK, bvars, svars
<1>7. UniqueBlock' /\ NoPanic' /\ Listed'
  BY <1>1, <1>3 DEF UniqueBlock, NoPanic, Listed, TypeOK, Only, bvars
<1>8. OneHolder'
  BY <1>1, <1>4 DEF OneHolder, svars
<1>9. Own' /\ Marked'
  BY <1>1, <1>3 DEF Own, Marked, Only, InUse, Writing, bvars
<1>10. Queued'
  BY <1>1, <1>3, SameQueue DEF Only, svars, Writing
<1>11. Named'
  BY <1>1, <1>4 DEF Named, bvars
<1> QED
  BY <1>5, <1>6, <1>7, <1>8, <1>9, <1>10, <1>11
-----------------------------------------------------------------------------
(* brelse *)

\* lm_V with nobody in the list: the token goes back.
LEMMA ReleaseStep ==
  ASSUME Inv, NEW t \in Tasks, NEW c \in Bufs, brelse(t, c), waiting[c] = <<>>
  PROVE  Inv'
<1> USE DEF Inv, Consistent
<1>1. /\ At(t, "idle") /\ c \in hold[t] /\ holding_task[c] = t
      /\ hold' = [hold EXCEPT ![t] = @ \ {c}]
      /\ cur' = [cur EXCEPT ![t] = c]
      /\ pc' = [pc EXCEPT ![t] = "rel"]
      /\ sem' = [sem EXCEPT ![c] = 1]
      /\ UNCHANGED <<bvars, data, waiting, lru, disk>>
  BY DEF brelse, V, Marked, Goto
<1>2. /\ Only(t) /\ pc[t] = "idle" /\ pc'[t] = "rel" /\ cur'[t] = c
      /\ hold'[t] = hold[t] \ {c}
  BY <1>1 DEF Only, TypeOK, At
<1>3. \A b \in Bufs : Users(b)' = Users(b)
  BY <1>1, <1>2, UsersChange DEF Uses, InUse
<1>4. Holders(c)' = {} /\ \A b \in Bufs \ {c} : Holders(b)' = Holders(b)
  <2>1. ~Has(t, c)' /\ Has(t, c) /\ \A b \in Bufs \ {c} : Has(t, b)' <=> Has(t, b)
    BY <1>1, <1>2 DEF Has
  <2>2. t \in Holders(c) /\ Holders(c)' = Holders(c) \ {t}
    BY <1>2, <2>1, HoldersChange
  <2>3. Holders(c)' = {}
    BY <2>2 DEF OneHolder
  <2> QED
    BY <1>2, <2>1, <2>3, HoldersChange
<1>5. RefCounted'
  BY <1>1, <1>3, SameUsers DEF bvars
<1>6. TypeOK'
  BY <1>1 DEF TypeOK, PCs, bvars
<1>7. UniqueBlock' /\ NoPanic' /\ Listed'
  BY <1>1, <1>2 DEF UniqueBlock, NoPanic, Listed, TypeOK, Only, bvars
<1>8. sem'[c] = 1 /\ \A b \in Bufs \ {c} : sem'[b] = sem[b]
  BY <1>1 DEF TypeOK
<1>9. OneHolder'
  BY <1>4, <1>8 DEF OneHolder
<1>10. Own' /\ Marked'
  BY <1>1, <1>2 DEF Own, Marked, Only, InUse, Writing, bvars
<1>11. Queued'
  <2>1. \A u \in Tasks : pc'[u] = "wait" <=> pc[u] = "wait"
    BY <1>2 DEF Only
  <2>2. ASSUME NEW b \in Bufs, NEW u \in Tasks
        PROVE  pc'[u] = "wait" /\ cur'[u] = b <=> pc[u] = "wait" /\ cur[u] = b
    BY <1>2, <2>1 DEF Only
  <2> QED
    BY <1>1, <1>8, <2>2 DEF Queued
<1>12. Named'
  BY <1>1, <1>3 DEF Named, bvars
<1> QED
  BY <1>5, <1>6, <1>7, <1>9, <1>10, <1>11, <1>12

\* lm_V with a list: the first task in it has the semaphore from now on.
LEMMA HandOverStep ==
  ASSUME Inv, NEW t \in Tasks, NEW c \in Bufs, brelse(t, c), waiting[c] # <<>>
  PROVE  Inv'
<1> USE DEF Inv, Consistent
<1>1. /\ At(t, "idle") /\ c \in hold[t] /\ holding_task[c] = t
      /\ hold' = [hold EXCEPT ![t] = @ \ {c}]
      /\ cur' = [cur EXCEPT ![t] = c]
      /\ pc' = [pc EXCEPT ![t] = "rel", ![Head(waiting[c])] = "mark"]
      /\ waiting' = [waiting EXCEPT ![c] = Tail(waiting[c])]
      /\ UNCHANGED <<bvars, data, sem, lru, disk>>
  BY DEF brelse, V, Marked, Goto
<1>2. /\ waiting[c] \in Seq(Tasks) /\ Len(waiting[c]) \in Nat \ {0}
      /\ Tail(waiting[c]) \in Seq(Tasks)
      /\ Len(Tail(waiting[c])) = Len(waiting[c]) - 1
      /\ \A i \in 1 .. Len(waiting[c]) - 1 : Tail(waiting[c])[i] = waiting[c][i + 1]
  BY DEF TypeOK
<1>3. PICK u \in Tasks : u = Head(waiting[c]) /\ u = waiting[c][1]
  BY <1>2
<1>4. pc[u] = "wait" /\ cur[u] = c /\ u # t
  BY <1>1, <1>2, <1>3 DEF Queued, At
<1>5. /\ pc[t] = "idle" /\ pc'[t] = "rel" /\ cur'[t] = c /\ hold'[t] = hold[t] \ {c}
      /\ pc'[u] = "mark" /\ cur'[u] = c /\ hold'[u] = hold[u]
      /\ \A w \in Tasks \ {t, u} : pc'[w] = pc[w] /\ cur'[w] = cur[w] /\ hold'[w] = hold[w]
  BY <1>1, <1>3, <1>4 DEF TypeOK, At
<1>6. \A b \in Bufs : Users(b)' = Users(b)
  <2>1. ASSUME NEW b \in Bufs, NEW w \in Tasks PROVE Uses(w, b)' <=> Uses(w, b)
    <3>1. CASE w = t
      <4>1. Uses(t, b) <=> b \in hold[t]
        BY <1>5 DEF Uses, InUse
      <4>2. Uses(t, b)' <=> b \in hold[t] \ {c} \/ b = c
        BY <1>5 DEF Uses, InUse
      <4> QED
        BY <1>1, <3>1, <4>1, <4>2
    <3>2. CASE w = u
      BY <1>4, <1>5, <3>2 DEF Uses, InUse
    <3>3. CASE w \notin {t, u}
      BY <1>5, <3>3 DEF Uses
    <3> QED
      BY <3>1, <3>2, <3>3
  <2> QED
    BY <2>1 DEF Users, Uses, InUse
<1>7. \A w \in Tasks \ {t} : ~Has(w, c)
  BY <1>1, Alone DEF Has
<1>8. Holders(c)' = {u} /\ \A b \in Bufs \ {c} : Holders(b)' = Holders(b)
  <2>1. \A w \in Tasks : w \in Holders(c)' <=> w = u
    BY ZenonT(40), <1>1, <1>4, <1>5, <1>7 DEF Holders, Has
  <2>2. Holders(c)' = {u}
    BY <2>1 DEF Holders
  <2>3. ASSUME NEW b \in Bufs \ {c}, NEW w \in Tasks PROVE Has(w, b)' <=> Has(w, b)
    <3>1. CASE w = t
      BY <1>1, <1>5, <3>1 DEF Has
    <3>2. CASE w = u
      BY <1>4, <1>5, <3>2 DEF Has
    <3>3. CASE w \notin {t, u}
      BY <1>5, <3>3 DEF Has
    <3> QED
      BY <3>1, <3>2, <3>3
  <2>4. \A b \in Bufs \ {c} : Holders(b)' = Holders(b)
    BY <2>3 DEF Holders, Has
  <2> QED
    BY <2>2, <2>4
<1>9. RefCounted'
  BY <1>1, <1>6, SameUsers DEF bvars
<1>10. TypeOK'
  <2>1. waiting' \in [Bufs -> Seq(Tasks)]
    BY <1>1, <1>2 DEF TypeOK
  <2>2. pc' \in [Tasks -> PCs]
    BY <1>1, <1>3 DEF TypeOK, PCs
  <2> QED
    BY <1>1, <2>1, <2>2 DEF TypeOK, bvars
<1>11. UniqueBlock' /\ NoPanic' /\ Listed'
  BY <1>1, <1>5 DEF UniqueBlock, NoPanic, Listed, TypeOK, bvars
<1>12. sem[c] = 0
  BY <1>1, Alone DEF Has
<1>13. OneHolder'
  <2>1. sem' = sem
    BY <1>1
  <2>2. /\ \A w, x \in Holders(c)' : w = x
        /\ sem'[c] = 1 <=> Holders(c)' = {}
    BY <1>8, <1>12, <2>1
  <2>3. ASSUME NEW b \in Bufs \ {c}
        PROVE  /\ \A w, x \in Holders(b)' : w = x
               /\ sem'[b] = 1 <=> Holders(b)' = {}
    BY <1>8, <2>1 DEF OneHolder
  <2> QED
    BY <2>2, <2>3 DEF OneHolder
<1>14. Own'
  <2> SUFFICES ASSUME NEW w \in Tasks
               PROVE  /\ pc'[w] \in InUse => cur'[w] \notin hold'[w]
                      /\ pc'[w] \in Writing => cur'[w] \in hold'[w]
    BY DEF Own
  <2>1. CASE w = t
    BY <1>5, <2>1 DEF InUse, Writing
  <2>2. CASE w = u
    BY <1>4, <1>5, <2>2 DEF Own, InUse, Writing
  <2>3. CASE w \notin {t, u}
    BY <1>5, <2>3 DEF Own
  <2> QED
    BY <2>1, <2>2, <2>3
<1>16. Marked'
  <2> SUFFICES ASSUME NEW w \in Tasks
               PROVE  /\ \A b \in hold'[w] : holding_task'[b] = w /\ valid'[b]
                      /\ pc'[w] = "read" => holding_task'[cur'[w]] = w /\ ~valid'[cur'[w]]
    BY DEF Marked
  <2>1. holding_task' = holding_task /\ valid' = valid
    BY <1>1 DEF bvars
  <2>2. hold'[w] \subseteq hold[w]
    BY <1>5
  <2>3. pc'[w] = "read" => pc[w] = "read" /\ cur'[w] = cur[w]
    BY <1>5
  <2> QED
    BY <2>1, <2>2, <2>3 DEF Marked
<1>15. Queued'
  <2>1. \A b \in Bufs \ {c} : waiting'[b] = waiting[b]
    BY <1>1 DEF TypeOK
  <2>2. /\ Len(waiting'[c]) = Len(waiting[c]) - 1
        /\ \A i \in 1 .. Len(waiting[c]) - 1 : waiting'[c][i] = waiting[c][i + 1]
    BY <1>1, <1>2 DEF TypeOK
  <2>3. ASSUME NEW i \in 1 .. Len(waiting'[c]), NEW j \in 1 .. Len(waiting'[c]),
               waiting'[c][i] = waiting'[c][j]
        PROVE  i = j
    <3>0. i \in 1 .. Len(waiting[c]) - 1 /\ j \in 1 .. Len(waiting[c]) - 1
      BY <2>2
    <3>1. /\ i + 1 \in 1 .. Len(waiting[c]) /\ j + 1 \in 1 .. Len(waiting[c])
          /\ waiting[c][i + 1] = waiting[c][j + 1]
      BY SMTT(40), <1>2, <2>2, <2>3, <3>0
    <3>2. i + 1 = j + 1
      BY <3>1 DEF Queued
    <3> QED
      BY <3>2
  <2>4. ASSUME NEW w \in Tasks, pc'[w] = "wait", cur'[w] = c
        PROVE  \E i \in 1 .. Len(waiting'[c]) : waiting'[c][i] = w
    <3>1. pc[w] = "wait" /\ cur[w] = c /\ w # u
      BY <1>5, <2>4
    <3>2. PICK i \in 1 .. Len(waiting[c]) : waiting[c][i] = w
      BY <3>1 DEF Queued
    <3>3. i # 1 /\ i - 1 \in 1 .. Len(waiting'[c])
      BY <1>2, <1>3, <2>2, <3>1, <3>2
    <3>4. i - 1 \in 1 .. Len(waiting[c]) - 1 /\ (i - 1) + 1 = i
      BY <2>2, <3>3
    <3>5. waiting'[c][i - 1] = waiting[c][i]
      BY <2>2, <3>4
    <3> QED
      BY <3>2, <3>3, <3>5
  <2>5. ASSUME NEW w \in Tasks, NEW i \in 1 .. Len(waiting'[c]), waiting'[c][i] = w
        PROVE  pc'[w] = "wait" /\ cur'[w] = c
    <3>1. i + 1 \in 1 .. Len(waiting[c]) /\ waiting[c][i + 1] = w /\ i + 1 # 1
      BY <1>2, <2>2, <2>5
    <3>2. 1 \in 1 .. Len(waiting[c])
      BY <1>2
    <3>3. w # u
      BY <1>3, <3>1, <3>2 DEF Queued
    <3>4. pc[w] = "wait" /\ cur[w] = c
      BY <3>1 DEF Queued
    <3> QED
      BY <1>5, <3>3, <3>4
  <2>6. ASSUME NEW b \in Bufs \ {c}, NEW w \in Tasks
        PROVE  pc'[w] = "wait" /\ cur'[w] = b <=> pc[w] = "wait" /\ cur[w] = b
    BY <1>4, <1>5, <2>6
  <2>7. sem'[c] # 1 /\ \A b \in Bufs : sem'[b] = sem[b]
    BY <1>1, <1>12
  <2>8. ASSUME NEW b \in Bufs \ {c}
        PROVE  /\ \A w \in Tasks :
                     pc'[w] = "wait" /\ cur'[w] = b
                         <=> \E i \in 1 .. Len(waiting'[b]) : waiting'[b][i] = w
               /\ \A i, j \in 1 .. Len(waiting'[b]) : waiting'[b][i] = waiting'[b][j] => i = j
               /\ sem'[b] = 1 => waiting'[b] = <<>>
    BY <2>1, <2>6, <2>7 DEF Queued
  <2> QED
    BY <2>3, <2>4, <2>5, <2>7, <2>8 DEF Queued
<1>17. Named'
  BY <1>1, <1>6 DEF Named, bvars
<1> QED
  BY <1>9, <1>10, <1>11, <1>13, <1>14, <1>15, <1>16, <1>17

\* Moving a buffer to the head of the list loses none.
LEMMA FrontListed ==
  ASSUME TypeOK, Listed, NEW c \in Bufs, ToFront(c)
  PROVE  Listed' /\ lru' \in [Bufs -> Bufs]
<1>0. 1 \in Bufs /\ \A i \in Bufs : i # 1 => i - 1 \in Bufs
  BY BcacheAssumption DEF Bufs
<1>1. 1 \in Bufs /\ \A i \in Bufs : lru[i] \in Bufs /\ (i # 1 => lru[i - 1] \in Bufs)
  BY <1>0 DEF TypeOK
<1>2. \A i \in Bufs : lru'[i] = IF i = 1 THEN c
                                ELSE IF \E j \in i .. NBUF : lru[j] = c
                                     THEN lru[i - 1] ELSE lru[i]
  BY DEF ToFront
<1>3. lru' \in [Bufs -> Bufs]
  BY <1>1 DEF ToFront
<1>4. ASSUME NEW x \in Bufs PROVE \E i \in Bufs : lru'[i] = x
  <2>1. CASE x = c
    BY <1>1, <1>2, <2>1
  <2>2. CASE x # c
    <3>1. PICK i \in Bufs : lru[i] = x
      BY DEF Listed
    <3>2. CASE \E j \in i + 1 .. NBUF : lru[j] = c
      <4>1. i + 1 \in Bufs /\ i + 1 # 1 /\ (i + 1) - 1 = i
        BY <3>2, BcacheAssumption DEF Bufs
      <4>2. lru'[i + 1] = x
        BY <1>2, <3>1, <3>2, <4>1
      <4> QED
        BY <4>1, <4>2
    <3>3. CASE ~\E j \in i + 1 .. NBUF : lru[j] = c
      <4>1. ~\E j \in i .. NBUF : lru[j] = c
        BY <2>2, <3>1, <3>3, BcacheAssumption DEF Bufs
      <4>2. i # 1
        BY <4>1 DEF Listed, Bufs
      <4>3. lru'[i] = x
        BY <1>2, <3>1, <4>1, <4>2
      <4> QED
        BY <4>3
    <3> QED
      BY <3>2, <3>3
  <2> QED
    BY <2>1, <2>2
<1> QED
  BY <1>3, <1>4 DEF Listed

LEMMA ReleasedStep ==
  ASSUME Inv, NEW t \in Tasks, brelse_done(t)
  PROVE  Inv'
<1> USE DEF Inv, Consistent
<1>1. PICK c \in Bufs :
        /\ At(t, "rel") /\ cur[t] = c
        /\ refcnt' = [refcnt EXCEPT ![c] = @ - 1]
        /\ ToFront(c) \/ UNCHANGED lru
        /\ pc' = [pc EXCEPT ![t] = "idle"]
        /\ UNCHANGED <<blockno, valid, holding_task, data, svars, disk, cur, hold>>
  BY DEF brelse_done, TypeOK, Goto
<1>2. /\ Only(t) /\ pc[t] = "rel" /\ pc'[t] = "idle" /\ cur'[t] = cur[t]
      /\ hold'[t] = hold[t] /\ c \notin hold[t]
  BY <1>1 DEF Only, TypeOK, At, Own, InUse
<1>3. /\ t \in Users(c) /\ Users(c)' = Users(c) \ {t}
      /\ \A b \in Bufs \ {c} : Users(b)' = Users(b)
  <2>1. /\ Uses(t, c) /\ ~Uses(t, c)'
        /\ \A b \in Bufs \ {c} : Uses(t, b)' <=> Uses(t, b)
    BY <1>1, <1>2 DEF Uses, InUse
  <2> QED
    BY <1>2, <2>1, UsersChange
<1>4. \A b \in Bufs : Holders(b)' = Holders(b)
  BY <1>2, HoldersChange DEF Has
<1>5. RefCounted' /\ refcnt' \in [Bufs -> Nat]
  BY <1>1, <1>3, OneUserLess
<1>6. Listed' /\ lru' \in [Bufs -> Bufs]
  BY <1>1, FrontListed DEF Listed, TypeOK
<1>7. TypeOK'
  BY <1>1, <1>5, <1>6 DEF TypeOK, PCs, svars
<1>8. UniqueBlock' /\ NoPanic'
  BY <1>1, <1>2 DEF UniqueBlock, NoPanic, TypeOK, Only
<1>9. OneHolder'
  BY <1>1, <1>4 DEF OneHolder, svars
<1>10. Own' /\ Marked'
  BY <1>1, <1>2 DEF Own, Marked, Only, InUse, Writing
<1>11. Queued'
  BY <1>1, <1>2, SameQueue DEF Only, svars
<1>12. Named'
  BY <1>1, <1>3 DEF Named
<1> QED
  BY <1>5, <1>6, <1>7, <1>8, <1>9, <1>10, <1>11, <1>12
-----------------------------------------------------------------------------
(* The invariant *)

LEMMA InitInv == Init => Inv
<1> SUFFICES ASSUME Init PROVE Inv
  OBVIOUS
<1>1. TypeOK
  <2>1. \A i \in Bufs : NBUF + 1 - i \in Bufs
    BY BcacheAssumption DEF Bufs
  <2>2. 1 \in Bufs
    BY BcacheAssumption DEF Bufs
  <2> QED
    BY <2>1, <2>2 DEF Init, TypeOK, PCs
<1>2. \A b \in Bufs : Users(b) = {} /\ Holders(b) = {}
  BY DEF Init, Users, Holders
<1>3. RefCounted
  BY <1>2, FS_EmptySet DEF Init, RefCounted
<1>4. UniqueBlock /\ OneHolder /\ NoPanic
  BY <1>2 DEF Init, UniqueBlock, OneHolder, NoPanic
<1>5. Own /\ Marked /\ Named
  BY <1>2 DEF Init, Own, Marked, Named, InUse, Writing
<1>6. Queued
  BY DEF Init, Queued
<1>7. Listed
  <2>1. ASSUME NEW b \in Bufs
        PROVE  NBUF + 1 - b \in Bufs /\ NBUF + 1 - (NBUF + 1 - b) = b
    BY BcacheAssumption DEF Bufs
  <2> QED
    BY <2>1 DEF Init, Listed
<1> QED
  BY <1>1, <1>3, <1>4, <1>5, <1>6, <1>7 DEF Inv, Consistent

LEMMA StutterStep == Inv /\ UNCHANGED vars => Inv'
<1> SUFFICES ASSUME Inv, UNCHANGED vars PROVE Inv'
  OBVIOUS
<1>1. \A b \in Bufs : Users(b)' = Users(b) /\ Holders(b)' = Holders(b)
  BY DEF vars, bvars, svars, Users, Holders
<1>2. TypeOK' /\ UniqueBlock' /\ RefCounted' /\ OneHolder' /\ NoPanic'
  BY <1>1 DEF vars, bvars, svars, Inv, Consistent, TypeOK, UniqueBlock, RefCounted,
              OneHolder, NoPanic
<1>3. Own' /\ Queued' /\ Marked' /\ Named' /\ Listed'
  BY <1>1 DEF vars, bvars, svars, Inv, Own, Queued, Marked, Named, Listed
<1> QED
  BY <1>2, <1>3 DEF Inv, Consistent

LEMMA InvStep == Inv /\ [Next]_vars => Inv'
<1>1. ASSUME Inv, NEW t \in Tasks, Call(t) PROVE Inv'
  BY <1>1, HitStep, RecycleStep, PanicStep, ChangeStep DEF Call
<1>2. ASSUME Inv, NEW t \in Tasks, Step(t) PROVE Inv'
  BY <1>2, TokenStep, WaitStep, MarkStep, ReadStep, WriteStep, ReleasedStep DEF Step
<1>3. ASSUME Inv, NEW t \in Tasks, NEW b \in Bufs, brelse(t, b) PROVE Inv'
  BY <1>3, ReleaseStep, HandOverStep
<1> QED
  BY <1>1, <1>2, <1>3, StutterStep DEF Next

\* The buffer cache is consistent at every point of every interleaving of
\* bread, bwrite and brelse: one buffer per block, exact reference counts, one
\* holder of each b->sem, no panic of bwrite or brelse (bio.c:45-122).
THEOREM CacheConsistent == Spec => []Consistent
<1>1. Inv => Consistent
  BY DEF Inv
<1> QED
  BY <1>1, InitInv, InvStep, PTL DEF Spec

\* No task that is anywhere between bget and the end of brelse finds its
\* buffer given to another block: bget recycles only what has refcnt 0
\* (bio.c:59-68), and those who wait for b->sem are counted.
THEOREM IdentityKept == Spec => KeepsIdentity
<1> DEFINE A == \A b \in Bufs : Users(b) # {} => blockno'[b] = blockno[b]
<1>1. ASSUME Inv, [Next]_vars PROVE [A]_vars
  <2>1. ASSUME NEW t \in Tasks, NEW k \in Blocks, bget_recycle(t, k) PROVE A
    <3>1. PICK c \in Bufs : refcnt[c] = 0 /\ blockno' = [blockno EXCEPT ![c] = k]
      <4>1. \A i \in Bufs : lru[i] \in Bufs
        BY <1>1 DEF Inv, Consistent, TypeOK
      <4> QED
        BY <2>1, <4>1 DEF bget_recycle, Recycle, Recyclable
    <3>2. Users(c) = {}
      BY <1>1, <3>1, ZeroRef DEF Inv, Consistent
    <3> QED
      BY <1>1, <3>1, <3>2 DEF Inv, Consistent, TypeOK
  <2>2. ASSUME NEW t \in Tasks, NEW k \in Blocks, bget_hit(t, k) \/ bget_panic(t, k)
        PROVE  A
    BY <2>2 DEF bget_hit, bget_panic, bvars
  <2>3. ASSUME NEW t \in Tasks, NEW b \in Bufs, NEW v \in Values, Change(t, b, v) PROVE A
    BY <2>3 DEF Change, bvars
  <2>4. ASSUME NEW t \in Tasks, Step(t) PROVE A
    BY <2>4 DEF Step, P, Mark, bread_done, bwrite, bwrite_done, brelse_done, bvars
  <2>5. ASSUME NEW t \in Tasks, NEW b \in Bufs, brelse(t, b) PROVE A
    BY <2>5 DEF brelse, bvars
  <2> QED
    BY <1>1, <2>1, <2>2, <2>3, <2>4, <2>5 DEF Next, Call
<1> QED
  BY <1>1, InitInv, InvStep, PTL DEF Spec, KeepsIdentity
-----------------------------------------------------------------------------
(* The store of blocks.  From here on every caller writes back. *)

\* The buffer that stands for block k, if there is one, and the task that has it.
ContentRight ==
    \A k \in Blocks :
        \/ \E b \in Bufs : blockno[b] = k /\ valid[b] /\ Content(k) = data[b]
        \/ (\A b \in Bufs : ~(blockno[b] = k /\ valid[b])) /\ Content(k) = disk[k]

UserRight ==
    \A k \in Blocks :
        \/ \E t \in Tasks : \E b \in hold[t] : blockno[b] = k /\ User(k) = t
        \/ (\A t \in Tasks : \A b \in hold[t] : blockno[b] # k) /\ User(k) = Nobody

\* One buffer stands for a block, and one task has it.
Unique ==
    /\ \A a, b \in Bufs : blockno[a] = blockno[b] /\ blockno[a] \in Blocks => a = b
    /\ \A t, u \in Tasks : \A b \in hold[t] : b \in hold[u] => t = u
    /\ \A t \in Tasks : \A b \in hold[t] : b \in Bufs /\ valid[b] /\ blockno[b] \in Blocks

Mapped == ContentRight /\ UserRight /\ Unique

LEMMA InvMapped == Inv => Mapped
<1> SUFFICES ASSUME Inv PROVE Mapped
  OBVIOUS
<1>1. ContentRight
  BY DEF ContentRight, Content
<1>2. UserRight
  BY DEF UserRight, User
<1>3. \A a, b \in Bufs : blockno[a] = blockno[b] /\ blockno[a] \in Blocks => a = b
  BY NoBlockFact DEF Inv, Consistent, UniqueBlock
<1>4. ASSUME NEW t \in Tasks, NEW b \in hold[t] PROVE b \in Bufs /\ valid[b] /\ blockno[b] \in Blocks
  BY DEF Inv, Consistent, TypeOK, Marked, Named
<1>5. ASSUME NEW t \in Tasks, NEW u \in Tasks, NEW b \in hold[t], b \in hold[u] PROVE t = u
  BY <1>4, <1>5 DEF Inv, Marked
<1> QED
  BY <1>1, <1>2, <1>3, <1>4, <1>5 DEF Mapped, Unique

LEMMA InvMappedNext == Inv' => Mapped'
BY InvMapped, PTL

LEMMA WrittenKept ==
  ASSUME Written, UNCHANGED <<data, disk>>,
         \A b \in Bufs : valid'[b] => valid[b] /\ blockno'[b] = blockno[b],
         \A u \in Tasks : pc[u] \in Writing => pc'[u] \in Writing /\ cur'[u] = cur[u]
  PROVE  Written'
BY DEF Written

\* A buffer is like the disk again once the bwrite that follows a change ends.
LEMMA WrittenStep ==
  ASSUME WriteBack, Inv, Inv', Written, [Next]_vars
  PROVE  Written'
<1> USE DEF Inv, Consistent
<1>1. ASSUME NEW t \in Tasks, NEW k \in Blocks, bget_hit(t, k) \/ bget_panic(t, k)
      PROVE  Written'
  <2>1. /\ UNCHANGED <<data, disk, valid, blockno>> /\ pc[t] = "idle"
        /\ \A u \in Tasks \ {t} : pc'[u] = pc[u] /\ cur'[u] = cur[u]
    BY <1>1 DEF bget_hit, bget_panic, Look, Goto, At, TypeOK, bvars
  <2> QED
    BY <2>1, WrittenKept DEF Writing
<1>2. ASSUME NEW t \in Tasks, NEW k \in Blocks, bget_recycle(t, k) PROVE Written'
  <2>0. \A i \in Bufs : lru[i] \in Bufs
    BY DEF TypeOK
  <2>1. PICK c \in Bufs : /\ blockno' = [blockno EXCEPT ![c] = k]
                          /\ valid' = [valid EXCEPT ![c] = FALSE]
                          /\ cur' = [cur EXCEPT ![t] = c] /\ pc' = [pc EXCEPT ![t] = "P"]
    BY <1>2, <2>0 DEF bget_recycle, Recycle, Look, Goto
  <2>2. /\ UNCHANGED <<data, disk>> /\ pc[t] = "idle"
        /\ \A u \in Tasks \ {t} : pc'[u] = pc[u] /\ cur'[u] = cur[u]
    BY <1>2, <2>1 DEF bget_recycle, At, TypeOK
  <2>3. \A b \in Bufs : valid'[b] => valid[b] /\ blockno'[b] = blockno[b]
    BY <2>1 DEF TypeOK
  <2> QED
    BY <2>2, <2>3, WrittenKept DEF Writing
<1>3. ASSUME NEW t \in Tasks, P(t) \/ Mark(t) \/ brelse_done(t) PROVE Written'
  <2>1. /\ UNCHANGED <<data, disk, valid, blockno, cur>> /\ pc[t] \notin Writing
        /\ \A u \in Tasks \ {t} : pc'[u] = pc[u]
    <3>1. UNCHANGED <<data, disk, valid, blockno, cur>>
      BY <1>3 DEF P, Mark, brelse_done, bvars
    <3>2. \E l \in PCs : pc' = [pc EXCEPT ![t] = l]
      BY <1>3 DEF P, Mark, brelse_done, Keep, Goto, PCs
    <3>3. pc[t] \in {"P", "mark", "rel"}
      BY <1>3 DEF P, Mark, brelse_done, At
    <3> QED
      BY <3>1, <3>2, <3>3 DEF TypeOK, Writing
  <2> QED
    BY <2>1, WrittenKept
<1>4. ASSUME NEW t \in Tasks, bread_done(t) PROVE Written'
  <2>1. PICK c \in Bufs :
          /\ cur[t] = c /\ pc[t] = "read" /\ data' = [data EXCEPT ![c] = disk[blockno[c]]]
          /\ valid' = [valid EXCEPT ![c] = TRUE] /\ UNCHANGED <<blockno, disk, cur>>
          /\ \A u \in Tasks \ {t} : pc'[u] = pc[u]
    BY <1>4 DEF bread_done, Keep, Goto, At, TypeOK
  <2>2. data'[c] = disk'[blockno'[c]]
    BY <2>1 DEF TypeOK
  <2>3. \A b \in Bufs \ {c} : data'[b] = data[b] /\ valid'[b] = valid[b]
    BY <2>1 DEF TypeOK
  <2> QED
    BY <2>1, <2>2, <2>3 DEF Written, Writing
<1>5. ASSUME NEW t \in Tasks, NEW c \in Bufs, NEW v \in Values, Change(t, c, v) PROVE Written'
  <2>1. /\ pc[t] = "idle" /\ pc'[t] = "dirty" /\ cur'[t] = c
        /\ data' = [data EXCEPT ![c] = v] /\ UNCHANGED <<blockno, disk, valid>>
        /\ \A u \in Tasks \ {t} : pc'[u] = pc[u] /\ cur'[u] = cur[u]
    BY <1>5 DEF Change, Look, Goto, At, TypeOK, bvars
  <2>2. \A b \in Bufs \ {c} : data'[b] = data[b]
    BY <2>1 DEF TypeOK
  <2> QED
    BY <2>1, <2>2 DEF Written, Writing
<1>6. ASSUME NEW t \in Tasks, bwrite(t) PROVE Written'
  <2>1. /\ UNCHANGED <<data, disk, valid, blockno, cur>>
        /\ pc'[t] \in {"write", "panic"}
        /\ \A u \in Tasks \ {t} : pc'[u] = pc[u]
    BY <1>6 DEF bwrite, Goto, At, TypeOK, bvars
  <2>2. pc'[t] = "write"
    BY <2>1 DEF NoPanic
  <2> QED
    BY <2>1, <2>2, WrittenKept DEF Writing
<1>7. ASSUME NEW t \in Tasks, bwrite_done(t) PROVE Written'
  <2>1. PICK c \in Bufs :
          /\ cur[t] = c /\ pc[t] = "write" /\ disk' = [disk EXCEPT ![blockno[c]] = data[c]]
          /\ UNCHANGED <<blockno, data, valid, cur>>
          /\ \A u \in Tasks \ {t} : pc'[u] = pc[u]
    BY <1>7 DEF bwrite_done, Goto, At, TypeOK, bvars
  <2>2. c \in hold[t] /\ blockno[c] \in Blocks
    BY <2>1, InvMapped DEF Own, Writing, Mapped, Unique
  <2>3. data'[c] = disk'[blockno'[c]]
    BY <2>1, <2>2 DEF TypeOK
  <2>4. ASSUME NEW b \in Bufs \ {c}, valid[b] PROVE disk'[blockno[b]] = disk[blockno[b]]
    <3>1. blockno[b] \in Blocks /\ blockno[b] # blockno[c]
      BY <2>4, InvMapped, <2>2 DEF Named, Mapped, Unique
    <3> QED
      BY <2>1, <3>1 DEF TypeOK
  <2>5. ASSUME NEW b \in Bufs, valid[b], \A u \in Tasks : pc'[u] \in Writing => cur'[u] # b
        PROVE  data'[b] = disk'[blockno'[b]]
    <3>1. CASE b = c
      BY <2>3, <3>1
    <3>2. CASE b # c
      <4>1. \A u \in Tasks : pc[u] \in Writing => cur[u] # b
        BY <2>1, <2>5, <3>2
      <4>2. data[b] = disk[blockno[b]]
        BY <2>5, <4>1 DEF Written
      <4> QED
        BY <2>1, <2>4, <2>5, <3>2, <4>2
    <3> QED
      BY <3>1, <3>2
  <2> QED
    BY <2>1, <2>5 DEF Written
<1>8. ASSUME NEW t \in Tasks, NEW c \in Bufs, brelse(t, c) PROVE Written'
  <2>1. UNCHANGED <<data, disk, valid, blockno>> /\ pc[t] = "idle"
    BY <1>8 DEF brelse, bvars, At
  <2>2. \A u \in Tasks : pc[u] \in Writing => pc'[u] = pc[u] /\ cur'[u] = cur[u]
    <3>1. CASE waiting[c] = <<>>
      BY <1>8, <2>1, <3>1 DEF brelse, V, Goto, Writing, TypeOK
    <3>2. CASE waiting[c] # <<>>
      <4>1. Head(waiting[c]) \in Tasks /\ pc[Head(waiting[c])] = "wait"
        <5>0. waiting[c] \in Seq(Tasks)
          BY DEF TypeOK
        <5>1. /\ Len(waiting[c]) \in Nat \ {0} /\ Head(waiting[c]) = waiting[c][1]
              /\ Head(waiting[c]) \in Tasks
          BY <3>2, <5>0
        <5>2. 1 \in 1 .. Len(waiting[c])
          BY <5>1
        <5> QED
          BY <5>1, <5>2 DEF Queued
      <4>2. /\ pc' = [pc EXCEPT ![t] = "rel", ![Head(waiting[c])] = "mark"]
            /\ cur' = [cur EXCEPT ![t] = c]
        BY <1>8, <3>2 DEF brelse, V, Marked
      <4> QED
        BY <2>1, <4>1, <4>2 DEF Writing, TypeOK
    <3> QED
      BY <3>1, <3>2
  <2> QED
    BY <2>1, <2>2, WrittenKept
<1>9. CASE UNCHANGED vars
  BY <1>9 DEF vars, bvars, Written
<1> QED
  BY <1>1, <1>2, <1>3, <1>4, <1>5, <1>6, <1>7, <1>8, <1>9 DEF Next, Call, Step

LEMMA SameUser ==
  ASSUME Inv, Inv', UNCHANGED hold, \A t \in Tasks : \A b \in hold[t] : blockno'[b] = blockno[b]
  PROVE  \A k \in Blocks : User(k)' = User(k)
<1>1. Mapped /\ Mapped'
  BY InvMapped, InvMappedNext
<1> QED
  BY <1>1 DEF Mapped, UserRight, Unique

LEMMA SameContent ==
  ASSUME UNCHANGED <<blockno, valid, data, disk>>
  PROVE  \A k \in Blocks : Content(k)' = Content(k)
BY DEF Content

\* Eviction loses nothing: a buffer that bget takes is like the disk.
LEMMA RecycleKeepsContent ==
  ASSUME Inv, Inv', Written, NEW t \in Tasks, NEW k \in Blocks, bget_recycle(t, k)
  PROVE  \A m \in Blocks : Content(m)' = Content(m)
<1> USE DEF Inv, Consistent
<1>1. \A i \in Bufs : lru[i] \in Bufs
  BY DEF TypeOK
<1>2. PICK c \in Bufs : /\ refcnt[c] = 0
                        /\ blockno' = [blockno EXCEPT ![c] = k]
                        /\ valid' = [valid EXCEPT ![c] = FALSE]
  BY <1>1 DEF bget_recycle, Recycle, Recyclable
<1>3. UNCHANGED <<data, disk>>
  BY DEF bget_recycle
<1>4. /\ ~valid'[c] /\ blockno'[c] = k
      /\ \A b \in Bufs \ {c} : valid'[b] = valid[b] /\ blockno'[b] = blockno[b]
  BY <1>2 DEF TypeOK
<1>5. Users(c) = {}
  BY <1>2, ZeroRef
<1>6. valid[c] => data[c] = disk[blockno[c]]
  <2>1. \A u \in Tasks : pc[u] \in Writing => cur[u] # c
    BY <1>5 DEF Own, Users
  <2> QED
    BY <2>1 DEF Written
<1>7. Mapped /\ Mapped'
  BY InvMapped, InvMappedNext
<1> QED
  BY <1>3, <1>4, <1>6, <1>7 DEF Mapped, ContentRight, Unique

LEMMA WriteKeepsContent ==
  ASSUME Inv, Inv', NEW t \in Tasks, bwrite_done(t)
  PROVE  \A m \in Blocks : Content(m)' = Content(m)
<1> USE DEF Inv, Consistent
<1>1. PICK c \in Bufs :
        /\ cur[t] = c /\ pc[t] = "write" /\ disk' = [disk EXCEPT ![blockno[c]] = data[c]]
        /\ UNCHANGED <<blockno, data, valid>>
  BY DEF bwrite_done, At, TypeOK, bvars
<1>2. Mapped /\ Mapped'
  BY InvMapped, InvMappedNext
<1>3. c \in hold[t] /\ blockno[c] \in Blocks /\ valid[c]
  BY <1>1, <1>2 DEF Own, Writing, Mapped, Unique
<1>4. \A m \in Blocks : m # blockno[c] => disk'[m] = disk[m]
  BY <1>1 DEF TypeOK
<1> QED
  BY <1>1, <1>2, <1>3, <1>4 DEF Mapped, ContentRight, Unique

\* bread returns: t has the block from now on, with what it contained before.
LEMMA TakeStep ==
  ASSUME Inv, Inv', NEW t \in Tasks, NEW c \in Bufs,
         ~\E u \in Tasks : c \in hold[u],
         hold' = [hold EXCEPT ![t] = @ \cup {c}], UNCHANGED <<blockno, disk>>,
         \/ UNCHANGED <<valid, data>>
         \/ /\ ~valid[c] /\ valid' = [valid EXCEPT ![c] = TRUE]
            /\ data' = [data EXCEPT ![c] = disk[blockno[c]]]
  PROVE  Store!Next
<1> USE DEF Inv, Consistent
<1>1. Mapped /\ Mapped'
  BY InvMapped, InvMappedNext
<1>2. PICK k \in Blocks : k = blockno[c]
  BY <1>1 DEF Mapped, Unique, TypeOK
<1>3. /\ c \in hold'[t] /\ \A u \in Tasks : \A b \in hold[u] : b \in hold'[u]
      /\ \A u \in Tasks : \A b \in hold'[u] : b \in hold[u] \/ (u = t /\ b = c)
  BY DEF TypeOK
<1>4. User(k) = Nobody
  BY <1>1, <1>2 DEF Mapped, UserRight, Unique
<1>5. User(k)' = t
  BY <1>1, <1>2, <1>3 DEF Mapped, UserRight, Unique
<1>6. ASSUME NEW m \in Blocks \ {k} PROVE User(m)' = User(m)
  BY <1>1, <1>2, <1>3 DEF Mapped, UserRight, Unique
<1>7. ASSUME NEW m \in Blocks PROVE Content(m)' = Content(m)
  <2>1. CASE UNCHANGED <<valid, data>>
    BY <2>1, SameContent
  <2>2. CASE /\ ~valid[c] /\ valid' = [valid EXCEPT ![c] = TRUE]
             /\ data' = [data EXCEPT ![c] = disk[blockno[c]]]
    <3>1. /\ valid'[c] /\ data'[c] = disk[k]
          /\ \A b \in Bufs \ {c} : valid'[b] = valid[b] /\ data'[b] = data[b]
      BY <1>2, <2>2 DEF TypeOK
    <3> QED
      BY <1>1, <1>2, <2>2, <3>1 DEF Mapped, ContentRight, Unique
  <2> QED
    BY <2>1, <2>2
<1>8. Store!Take(t, k)
  BY <1>4, <1>5, <1>6, <1>7 DEF Store!Take
<1> QED
  BY <1>8 DEF Store!Next

LEMMA ReturnStep ==
  ASSUME Inv, Inv', NEW t \in Tasks, NEW c \in Bufs, brelse(t, c)
  PROVE  Store!Next
<1> USE DEF Inv, Consistent
<1>1. Mapped /\ Mapped'
  BY InvMapped, InvMappedNext
<1>2. /\ c \in hold[t] /\ hold' = [hold EXCEPT ![t] = @ \ {c}]
      /\ UNCHANGED <<blockno, valid, data, disk>>
  BY DEF brelse, Marked, bvars
<1>3. PICK k \in Blocks : k = blockno[c]
  BY <1>1, <1>2 DEF Mapped, Unique
<1>4. /\ \A u \in Tasks : \A b \in hold'[u] : b \in hold[u] /\ ~(u = t /\ b = c)
      /\ \A u \in Tasks : \A b \in hold[u] : b \in hold'[u] \/ (u = t /\ b = c)
  BY <1>2 DEF TypeOK
<1>5. User(k) = t
  BY <1>1, <1>2, <1>3 DEF Mapped, UserRight, Unique
<1>6. User(k)' = Nobody
  BY <1>1, <1>2, <1>3, <1>4 DEF Mapped, UserRight, Unique
<1>7. ASSUME NEW m \in Blocks \ {k} PROVE User(m)' = User(m)
  BY <1>1, <1>2, <1>3, <1>4 DEF Mapped, UserRight, Unique
<1>8. \A m \in Blocks : Content(m)' = Content(m)
  BY <1>2, SameContent
<1>9. Store!Return(t, k)
  BY <1>5, <1>6, <1>7, <1>8 DEF Store!Return
<1> QED
  BY <1>9 DEF Store!Next

LEMMA StoreChangeStep ==
  ASSUME Inv, Inv', NEW t \in Tasks, NEW c \in Bufs, NEW v \in Values, Change(t, c, v)
  PROVE  Store!Next
<1> USE DEF Inv, Consistent
<1>1. Mapped /\ Mapped'
  BY InvMapped, InvMappedNext
<1>2. /\ c \in hold[t] /\ data' = [data EXCEPT ![c] = v]
      /\ UNCHANGED <<blockno, valid, disk, hold>>
  BY DEF Change, bvars
<1>3. PICK k \in Blocks : k = blockno[c] /\ valid[c]
  BY <1>1, <1>2 DEF Mapped, Unique
<1>4. data'[c] = v /\ \A b \in Bufs \ {c} : data'[b] = data[b]
  BY <1>2 DEF TypeOK
<1>5. User(k) = t
  BY <1>1, <1>2, <1>3 DEF Mapped, UserRight, Unique
<1>6. \A m \in Blocks : User(m)' = User(m)
  BY <1>2, SameUser
<1>7. Content(k)' = v
  BY <1>1, <1>2, <1>3, <1>4 DEF Mapped, ContentRight, Unique
<1>8. ASSUME NEW m \in Blocks \ {k} PROVE Content(m)' = Content(m)
  BY <1>1, <1>2, <1>3, <1>4 DEF Mapped, ContentRight, Unique
<1>9. Store!Change(t, k, v)
  BY <1>5, <1>6, <1>7, <1>8 DEF Store!Change
<1> QED
  BY <1>9 DEF Store!Next

\* Every step of the cache is a step of the store or leaves it as it is.
LEMMA StoreStep ==
  ASSUME WriteBack, Inv, Inv', Written, [Next]_vars
  PROVE  [Store!Next]_<<[k \in Blocks |-> Content(k)], [k \in Blocks |-> User(k)]>>
<1> USE DEF Inv, Consistent
<1> DEFINE Kept == \A k \in Blocks : Content(k)' = Content(k) /\ User(k)' = User(k)
<1>0. Kept => UNCHANGED <<[k \in Blocks |-> Content(k)], [k \in Blocks |-> User(k)]>>
  OBVIOUS
<1>1. ASSUME NEW t \in Tasks, NEW k \in Blocks, bget_hit(t, k) \/ bget_panic(t, k)
      PROVE  Kept
  <2>1. UNCHANGED <<blockno, valid, data, disk, hold>>
    BY <1>1 DEF bget_hit, bget_panic, bvars
  <2> QED
    BY <2>1, SameUser, SameContent
<1>2. ASSUME NEW t \in Tasks, NEW k \in Blocks, bget_recycle(t, k) PROVE Kept
  <2>1. \A i \in Bufs : lru[i] \in Bufs
    BY DEF TypeOK
  <2>2. PICK c \in Bufs : refcnt[c] = 0 /\ blockno' = [blockno EXCEPT ![c] = k]
    BY <1>2, <2>1 DEF bget_recycle, Recycle, Recyclable
  <2>3. Users(c) = {}
    BY <2>2, ZeroRef
  <2>4. UNCHANGED hold /\ \A u \in Tasks : \A b \in hold[u] : blockno'[b] = blockno[b]
    BY <1>2, <2>2, <2>3 DEF bget_recycle, Users, TypeOK
  <2> QED
    BY <1>2, <2>4, SameUser, RecycleKeepsContent
<1>3. ASSUME NEW t \in Tasks, P(t) \/ bwrite(t) \/ brelse_done(t) PROVE Kept
  <2>1. UNCHANGED <<blockno, valid, data, disk, hold>>
    BY <1>3 DEF P, bwrite, brelse_done, bvars
  <2> QED
    BY <2>1, SameUser, SameContent
<1>4. ASSUME NEW t \in Tasks, bwrite_done(t) PROVE Kept
  <2>1. UNCHANGED <<blockno, hold>>
    BY <1>4 DEF bwrite_done, bvars
  <2> QED
    BY <1>4, <2>1, SameUser, WriteKeepsContent
<1>5. ASSUME NEW t \in Tasks, Mark(t) PROVE Kept \/ Store!Next
  <2>1. PICK c \in Bufs :
          /\ cur[t] = c /\ pc[t] = "mark" /\ UNCHANGED <<blockno, valid, data, disk>>
          /\ UNCHANGED hold \/ hold' = [hold EXCEPT ![t] = @ \cup {c}]
    BY <1>5 DEF Mark, Keep, At, TypeOK
  <2>2. CASE UNCHANGED hold
    BY <2>1, <2>2, SameUser, SameContent
  <2>3. CASE hold' = [hold EXCEPT ![t] = @ \cup {c}]
    <3>1. ~\E u \in Tasks : c \in hold[u]
      <4>1. \A u \in Tasks \ {t} : ~Has(u, c)
        BY <2>1, Alone DEF Has
      <4>2. c \notin hold[t]
        BY <2>1 DEF Own, InUse
      <4> QED
        BY <4>1, <4>2 DEF Has
    <3> QED
      BY <2>1, <2>3, <3>1, TakeStep
  <2> QED
    BY <2>1, <2>2, <2>3
<1>6. ASSUME NEW t \in Tasks, bread_done(t) PROVE Store!Next
  <2>1. PICK c \in Bufs :
          /\ cur[t] = c /\ pc[t] = "read" /\ hold' = [hold EXCEPT ![t] = @ \cup {c}]
          /\ valid' = [valid EXCEPT ![c] = TRUE]
          /\ data' = [data EXCEPT ![c] = disk[blockno[c]]]
          /\ UNCHANGED <<blockno, disk>>
    BY <1>6 DEF bread_done, Keep, At, TypeOK
  <2>2. ~valid[c]
    BY <2>1 DEF Marked
  <2>3. ~\E u \in Tasks : c \in hold[u]
    <3>1. \A u \in Tasks \ {t} : ~Has(u, c)
      BY <2>1, Alone DEF Has
    <3>2. c \notin hold[t]
      BY <2>1 DEF Own, InUse
    <3> QED
      BY <3>1, <3>2 DEF Has
  <2> QED
    BY <2>1, <2>2, <2>3, TakeStep
<1>7. CASE UNCHANGED vars
  BY <1>7, SameUser, SameContent DEF vars, bvars
<1>8. ASSUME Next PROVE Kept \/ Store!Next
  BY <1>8, <1>1, <1>2, <1>3, <1>4, <1>5, <1>6, StoreChangeStep, ReturnStep DEF Next, Call, Step
<1> QED
  BY <1>0, <1>7, <1>8

LEMMA StoreInit == Init => Written /\ Store!Init
<1> SUFFICES ASSUME Init PROVE Written /\ Store!Init
  OBVIOUS
<1>1. Written
  BY DEF Init, Written
<1>2. \A k \in Blocks : Content(k) = disk[k] /\ disk[k] \in Values
  BY DEF Init, Content
<1>3. \A k \in Blocks : User(k) = Nobody
  BY DEF Init, User
<1> QED
  BY <1>1, <1>2, <1>3 DEF Store!Init

\* While every caller of bread calls bwrite before brelse on what it changed,
\* the cache implements a store of blocks: "return a locked buf with the
\* contents of the indicated block" (bio.c:76), across eviction and re-read.
THEOREM CacheIsStore ==
  ASSUME WriteBack
  PROVE  Spec => ImplementsStore
<1>1. Init => Inv /\ Written
  BY InitInv, StoreInit
<1>2. Inv /\ Written /\ [Next]_vars => Inv' /\ Written'
  BY InvStep, WrittenStep
<1>3. Inv /\ Inv' /\ Written /\ [Next]_vars
        => [Store!Next]_<<[k \in Blocks |-> Content(k)], [k \in Blocks |-> User(k)]>>
  BY StoreStep
<1>4. Init => Store!Init
  BY StoreInit
<1> QED
  BY <1>1, <1>2, <1>3, <1>4, PTL DEF Spec, ImplementsStore, Store!Spec
=============================================================================
