----------------------------- MODULE MemoryProof -----------------------------
(***************************************************************************)
(* Proofs about the two modules of memory: Vm, what a task may access, and *)
(* Mem, the kernel's allocator.                                            *)
(*                                                                         *)
(* Vm, for any number of tasks, any addresses, any requests and any        *)
(* program image.  PteCovered is nearly inductive: Typed adds the types,   *)
(* of which three facts matter.  Addresses are numbers, so that mmap_find  *)
(* finds a region when there is one; no permission is "unmapped", so that  *)
(* what fork writes is an entry; a task has finitely many regions, so that *)
(* fork's count of the regions around a page says something.               *)
(*                                                                         *)
(* Mem, for any number of pages, of size classes and of blocks in a page.  *)
(* HeapSound counts and compares blocks; HeapInv says where each one is.   *)
(* A block that a caller holds is what the entry of its page says (Tagged):*)
(* that is all mem_free has to tell which list the block came from.  Every *)
(* page has one owner: a caller, the list, a size class, or nobody         *)
(* (OneOwner).  Every block of a size class is the head of its list, in    *)
(* the list, or given out (ClassSound).  The lists increase: the walks of  *)
(* mem_free and the search for a run of neighbours rely on it.             *)
(***************************************************************************)
EXTENDS Vm, Mem, FiniteSetTheorems, SequenceTheorems, WellFoundedInduction, TLAPS

Entries == (SUBSET Access) \cup {Unmapped}

Around(rs, p) == {r \in rs : p \in PagesOf(r)}

\* An entry is within the regions of rs around its page.
Covered(e, rs, p) ==
    e # Unmapped => Around(rs, p) # {} /\ e \subseteq UNION {r.perm : r \in Around(rs, p)}

Typed ==
    /\ regions \in [Users -> SUBSET RegionSet]
    /\ \A t \in Users : IsFiniteSet(regions[t])
    /\ high \in [Users -> Nat]
    /\ pte \in [Users -> [AllPages -> Entries]]
    /\ state \in [Users -> {"dead", "user", "panic"}]

Inv == Typed /\ PteCovered

-----------------------------------------------------------------------------
(* The operators of the model. *)

LEMMA CoveredDef ==
  PteCovered <=> \A t \in Users, p \in AllPages : Covered(pte[t][p], regions[t], p)
  BY DEF PteCovered, Covered, Around

\* An entry of a region's permissions, or fewer, is covered by that region.
LEMMA OneRegionCovers ==
  ASSUME NEW rs, NEW r \in rs, NEW p \in PagesOf(r), NEW e, e \subseteq r.perm
  PROVE  Covered(e, rs, p)
<1>1. r \in Around(rs, p)
  BY DEF Around
<1> QED
  BY <1>1 DEF Covered

\* More regions cover as much.
LEMMA MoreCovers ==
  ASSUME NEW rs, NEW qs, NEW p, NEW e, Around(rs, p) \subseteq Around(qs, p), Covered(e, rs, p)
  PROVE  Covered(e, qs, p)
  BY DEF Covered

\* mmap_find returns a region of the task when one starts at or below the page.
LEMMA FindsRegion ==
  ASSUME NEW t \in Users, NEW p \in Nat, regions[t] \subseteq RegionSet, Below(t, p) # {}
  PROVE  Mmap_find(t, p) \in regions[t]
<1> DEFINE R == {ss \in Nat \X Nat : ss[1] < ss[2]}
           S == {p - q.addr : q \in Below(t, p)}
<1>1. IsWellFoundedOn(R, Nat)
  BY NatLessThanWellFounded DEF OpToRel
<1>2. \A q \in Below(t, p) : q.addr \in Nat /\ q.addr <= p /\ q \in regions[t]
  BY DEF Below, RegionSet
<1>3. S \subseteq Nat /\ S # {}
  BY <1>2
<1> HIDE DEF R
<1>4. PICK x \in S : \A y \in S : ~(<<y, x>> \in R)
  BY <1>1, <1>3, WFMin
<1>5. PICK r \in Below(t, p) : x = p - r.addr
  BY <1>4
<1>6. ASSUME NEW q \in Below(t, p) PROVE q.addr <= r.addr
  <2>1. p - q.addr \in S /\ p - q.addr \in Nat /\ x \in Nat
    BY <1>2, <1>3
  <2>2. p - q.addr < x => <<p - q.addr, x>> \in R
    BY <2>1 DEF R
  <2>3. ~(p - q.addr < x)
    BY <1>4, <2>1, <2>2
  <2> QED
    BY <1>2, <1>5, <2>3
<1>7. Mmap_find(t, p) \in Below(t, p)
  BY <1>6 DEF Mmap_find
<1> QED
  BY <1>2, <1>7

\* Two regions around a page make fork's count more than one.
LEMMA TwoRegionsCounted ==
  ASSUME NEW S, IsFiniteSet(S), ~(Cardinality(S) > 1), NEW r \in S, NEW q \in S
  PROVE  r = q
<1>1. Cardinality(S) \in Nat
  BY FS_CardinalityType
<1>2. Cardinality(S) # 0
  BY FS_EmptySet
<1>3. Cardinality(S) = 1
  BY <1>1, <1>2
<1> QED
  BY <1>3, FS_Singleton

LEMMA PagesAreNumbers == AllPages \subseteq Nat
  BY VmAssumption DEF AllPages

\* A permission set is an entry, and not the one that stands for none.
LEMMA PermissionsAreEntries == \A e \in SUBSET Access : e # Unmapped /\ e \in Entries
<1>1. "unmapped" \notin Access
  BY DEF Access
<1> QED
  BY <1>1 DEF Unmapped, Entries

LEMMA ImageCovered ==
  ASSUME NEW p \in AllPages
  PROVE  ImagePtes[p] \in Entries /\ Covered(ImagePtes[p], Image, p)
<1>1. CASE \E r \in Image : p \in PagesOf(r)
  <2> DEFINE r == CHOOSE r \in Image : p \in PagesOf(r)
  <2>1. r \in Image /\ p \in PagesOf(r)
    BY <1>1
  <2>2. ImagePtes[p] = r.perm
    BY <1>1 DEF ImagePtes
  <2> HIDE DEF r
  <2>3. r.perm \in SUBSET Access
    BY VmAssumption, <2>1 DEF RegionSet
  <2> QED
    BY <2>1, <2>2, <2>3, PermissionsAreEntries, OneRegionCovers
<1>2. CASE ~(\E r \in Image : p \in PagesOf(r))
  BY <1>2 DEF ImagePtes, Covered, Entries
<1> QED
  BY <1>1, <1>2

LEMMA ImageTyped == ImagePtes \in [AllPages -> Entries]
<1>1. ImagePtes = [p \in AllPages |-> ImagePtes[p]]
  BY DEF ImagePtes
<1> QED
  BY <1>1, ImageCovered

-----------------------------------------------------------------------------
(* The steps.  All but fork change the space of one task. *)

LEMMA Local ==
  ASSUME Inv, NEW t \in Users,
         NEW rs \in SUBSET RegionSet, IsFiniteSet(rs), regions' = [regions EXCEPT ![t] = rs],
         NEW f \in [AllPages -> Entries], pte' = [pte EXCEPT ![t] = f],
         \A p \in AllPages : Covered(f[p], rs, p),
         high' \in [Users -> Nat], state' \in [Users -> {"dead", "user", "panic"}]
  PROVE  Inv'
<1>1. Typed'
  BY DEF Inv, Typed
<1>2. ASSUME NEW u \in Users, NEW p \in AllPages PROVE Covered(pte'[u][p], regions'[u], p)
  <2>1. CASE u = t
    BY <2>1 DEF Inv, Typed
  <2>2. CASE u # t
    <3>1. pte'[u] = pte[u] /\ regions'[u] = regions[u]
      BY <2>2 DEF Inv, Typed
    <3> QED
      BY <3>1, CoveredDef DEF Inv
  <2> QED
    BY <2>1, <2>2
<1>3. PteCovered'
  BY <1>2 DEF PteCovered, Covered, Around
<1> QED
  BY <1>1, <1>3 DEF Inv

LEMMA PanicOK == ASSUME Inv, NEW t \in Users, Panic(t) PROVE Inv'
  BY DEF Inv, Typed, PteCovered, Panic

LEMMA MmapOK ==
  ASSUME Inv, NEW t \in Users, NEW q \in Requests,
         SysMmap(t, q.addr, q.sz, q.perm, q.flags)
  PROVE  Inv'
<1> DEFINE choose == q.addr = 0 /\ "Z" \notin q.flags /\ "A" \in q.flags
           base == IF choose THEN VA_ANON + high[t] ELSE q.addr
           new == Region(base, q.sz, q.perm, Flags(q.flags))
<1>1. q \in RegionSet
  BY VmAssumption
<1>2. base \in Nat
  BY VmAssumption, <1>1 DEF Inv, Typed, RegionSet
<1>3. Flags(q.flags) \in SUBSET {"A", "P", "S", "Z"}
  BY <1>1 DEF Flags, RegionSet
<1>4. new \in RegionSet
  BY <1>1, <1>2, <1>3 DEF Region, RegionSet
<1>5. ASSUME regions' = [regions EXCEPT ![t] = @ \cup {new}],
             high' = [high EXCEPT ![t] = IF choose THEN @ + q.sz ELSE @],
             UNCHANGED <<pte, state>>
      PROVE  Inv'
  <2> HIDE DEF new
  <2> DEFINE rs == regions[t] \cup {new}
  <2>1. rs \in SUBSET RegionSet /\ IsFiniteSet(rs)
    BY <1>4, FS_AddElement DEF Inv, Typed
  <2>2. regions' = [regions EXCEPT ![t] = rs]
    BY <1>5
  <2>3. pte[t] \in [AllPages -> Entries] /\ pte' = [pte EXCEPT ![t] = pte[t]]
    BY <1>5 DEF Inv, Typed
  <2>4. \A p \in AllPages : Covered(pte[t][p], rs, p)
    <3> TAKE p \in AllPages
    <3>1. Covered(pte[t][p], regions[t], p)
      BY CoveredDef DEF Inv
    <3>2. Around(regions[t], p) \subseteq Around(rs, p)
      BY DEF Around
    <3> QED
      BY <3>1, <3>2, MoreCovers
  <2>5. high' \in [Users -> Nat] /\ state' \in [Users -> {"dead", "user", "panic"}]
    BY <1>1, <1>5 DEF Inv, Typed, RegionSet
  <2> QED
    BY <2>1, <2>2, <2>3, <2>4, <2>5, Local
<1> QED
  BY <1>5, PanicOK DEF SysMmap

LEMMA MunmapOK ==
  ASSUME Inv, NEW t \in Users, NEW r \in regions[t], SysMunmap(t, r)
  PROVE  Inv'
<1> DEFINE rs == regions[t] \ {r}
           f == [p \in AllPages |-> IF p \in PagesOf(r) THEN Unmapped ELSE pte[t][p]]
<1>1. rs \in SUBSET RegionSet /\ IsFiniteSet(rs)
  BY FS_RemoveElement DEF Inv, Typed
<1>2. regions' = [regions EXCEPT ![t] = rs] /\ pte' = [pte EXCEPT ![t] = f]
  BY DEF SysMunmap, UnmapPages
<1>3. f \in [AllPages -> Entries]
  BY DEF Inv, Typed, Entries
<1>4. \A p \in AllPages : Covered(f[p], rs, p)
  <2> TAKE p \in AllPages
  <2>1. CASE p \in PagesOf(r)
    BY <2>1 DEF Covered
  <2>2. CASE p \notin PagesOf(r)
    <3>1. Covered(pte[t][p], regions[t], p)
      BY CoveredDef DEF Inv
    <3>2. Around(regions[t], p) \subseteq Around(rs, p)
      BY <2>2 DEF Around
    <3> QED
      BY <2>2, <3>1, <3>2, MoreCovers
  <2> QED
    BY <2>1, <2>2
<1>5. high' \in [Users -> Nat] /\ state' \in [Users -> {"dead", "user", "panic"}]
  BY DEF SysMunmap, Inv, Typed
<1> QED
  BY <1>1, <1>2, <1>3, <1>4, <1>5, Local

LEMMA PageFaultOK ==
  ASSUME Inv, NEW t \in Users, NEW p \in AllPages, NEW a \in Access,
         PageFault(t, p, a)
  PROVE  Inv'
<1> DEFINE r == Mmap_find(t, p)
           mapped == pte[t][p] # Unmapped
           e == IF mapped THEN pte[t][p] \cup {"W"} ELSE r.perm
<1>1. ASSUME Below(t, p) # {}, p \in PagesOf(r), mapped => "W" \in r.perm,
             pte' = [pte EXCEPT ![t][p] = e], UNCHANGED <<regions, high, state>>
      PROVE  Inv'
  <2>1. regions[t] \in SUBSET RegionSet /\ IsFiniteSet(regions[t])
    BY DEF Inv, Typed
  <2>2. r \in regions[t] /\ r.perm \in SUBSET Access
    BY <1>1, <2>1, PagesAreNumbers, FindsRegion DEF RegionSet
  <2> HIDE DEF r
  <2>3. Covered(e, regions[t], p)
    <3>1. CASE mapped
      <4>1. Covered(pte[t][p], regions[t], p)
        BY CoveredDef DEF Inv
      <4>2. Covered({"W"}, regions[t], p)
        BY <1>1, <2>2, <3>1, OneRegionCovers
      <4>3. {"W"} # Unmapped
        BY DEF Unmapped
      <4> QED
        BY <3>1, <4>1, <4>2, <4>3 DEF Covered
    <3>2. CASE ~mapped
      BY <1>1, <2>2, <3>2, OneRegionCovers
    <3> QED
      BY <3>1, <3>2
  <2>4. e \in Entries
    <3>1. pte[t][p] \in Entries
      BY DEF Inv, Typed
    <3>2. "W" \in Access
      BY DEF Access
    <3> QED
      BY <2>2, <3>1, <3>2 DEF Entries
  <2> HIDE DEF e
  <2> DEFINE f == [pte[t] EXCEPT ![p] = e]
  <2>5. pte' = [pte EXCEPT ![t] = f] /\ f \in [AllPages -> Entries]
    BY <1>1, <2>4 DEF Inv, Typed
  <2>6. \A x \in AllPages : Covered(f[x], regions[t], x)
    <3>1. \A x \in AllPages : Covered(pte[t][x], regions[t], x)
      BY CoveredDef DEF Inv
    <3>2. \A x \in AllPages : f[x] = IF x = p THEN e ELSE pte[t][x]
      BY DEF Inv, Typed
    <3> QED
      BY <2>3, <3>1, <3>2
  <2>7. regions' = [regions EXCEPT ![t] = regions[t]]
    BY <1>1 DEF Inv, Typed
  <2>8. high' \in [Users -> Nat] /\ state' \in [Users -> {"dead", "user", "panic"}]
    BY <1>1 DEF Inv, Typed
  <2> HIDE DEF f
  <2> QED
    BY <2>1, <2>5, <2>6, <2>7, <2>8, Local
<1> QED
  BY <1>1, PanicOK DEF PageFault

\* What copy_mmap leaves in parent and child; both of SysFork is {}.
Copy(t) ==
    [p \in AllPages |-> IF pte[t][p] # Unmapped /\ \E r \in regions[t] : p \in PagesOf(r)
                        THEN ForkPerm(CHOOSE r \in regions[t] : p \in PagesOf(r))
                        ELSE pte[t][p]]

\* The entry of a page that is there becomes ForkPerm of a region around it.
LEMMA CopiesOf ==
  ASSUME Inv, NEW t \in Users, NEW p \in AllPages, pte[t][p] # Unmapped
  PROVE  \E r \in regions[t] : p \in PagesOf(r) /\ Copy(t)[p] = ForkPerm(r)
<1>1. \E r \in regions[t] : p \in PagesOf(r)
  BY DEF Inv, PteCovered
<1> QED
  BY <1>1 DEF Copy

LEMMA ForkPermFewer ==
  ASSUME NEW r \in RegionSet
  PROVE  ForkPerm(r) \subseteq r.perm /\ ForkPerm(r) \in SUBSET Access
  BY DEF ForkPerm, RegionSet

LEMMA CopyOK ==
  ASSUME Inv, NEW t \in Users, NEW p \in AllPages
  PROVE  /\ Copy(t)[p] \in Entries /\ Covered(Copy(t)[p], regions[t], p)
         /\ (Copy(t)[p] = Unmapped) <=> (pte[t][p] = Unmapped)
<1>1. CASE pte[t][p] = Unmapped
  BY <1>1 DEF Copy, Covered, Entries
<1>2. CASE pte[t][p] # Unmapped
  <2>1. PICK r \in regions[t] : p \in PagesOf(r) /\ Copy(t)[p] = ForkPerm(r)
    BY <1>2, CopiesOf
  <2>2. r \in RegionSet
    BY DEF Inv, Typed
  <2> QED
    BY <1>2, <2>1, <2>2, ForkPermFewer, PermissionsAreEntries, OneRegionCovers
<1> QED
  BY <1>1, <1>2

\* A fork that succeeds: parent and child have the copy, and no page that is
\* there was in two regions.
Forks(t, u) ==
    /\ state[t] = "user" /\ state[u] = "dead"
    /\ regions' = [regions EXCEPT ![u] = regions[t]]
    /\ high' = [high EXCEPT ![u] = high[t]]
    /\ pte' = [pte EXCEPT ![t] = Copy(t), ![u] = Copy(t)]
    /\ state' = [state EXCEPT ![u] = "user"]
    /\ \A p \in AllPages : pte[t][p] # Unmapped => ~(Cardinality(Around(regions[t], p)) > 1)

LEMMA ForkCases ==
  ASSUME NEW t \in Users, NEW u \in Users, SysFork(t, u)
  PROVE  Panic(t) \/ Forks(t, u)
  BY DEF SysFork, Forks, Copy, Around

LEMMA ForkOK == ASSUME Inv, NEW t \in Users, NEW u \in Users, SysFork(t, u) PROVE Inv'
<1>1. CASE Forks(t, u)
  <2>1. t # u
    BY <1>1 DEF Forks
  <2>2. Copy(t) \in [AllPages -> Entries]
    <3>1. Copy(t) = [p \in AllPages |-> Copy(t)[p]]
      BY DEF Copy
    <3> QED
      BY <3>1, CopyOK
  <2>3. Typed'
    BY <1>1, <2>2 DEF Forks, Inv, Typed
  <2>4. ASSUME NEW v \in Users, NEW p \in AllPages PROVE Covered(pte'[v][p], regions'[v], p)
    <3>1. CASE v \in {t, u}
      <4>1. pte'[v] = Copy(t) /\ regions'[v] = regions[t]
        BY <1>1, <2>1, <3>1 DEF Forks, Inv, Typed
      <4> QED
        BY <4>1, CopyOK
    <3>2. CASE v \notin {t, u}
      <4>1. pte'[v] = pte[v] /\ regions'[v] = regions[v]
        BY <1>1, <3>2 DEF Forks, Inv, Typed
      <4> QED
        BY <4>1, CoveredDef DEF Inv
    <3> QED
      BY <3>1, <3>2
  <2> QED
    BY <2>3, <2>4 DEF Inv, PteCovered, Covered, Around
<1> QED
  BY <1>1, ForkCases, PanicOK

LEMMA ExecOK == ASSUME Inv, NEW t \in Users, ExecSpace(t) PROVE Inv'
<1>1. Image \in SUBSET RegionSet /\ IsFiniteSet(Image)
  BY VmAssumption
<1>2. high' \in [Users -> Nat] /\ state' \in [Users -> {"dead", "user", "panic"}]
  BY DEF ExecSpace, Inv, Typed
<1> QED
  BY <1>1, <1>2, ImageTyped, ImageCovered, Local DEF ExecSpace

LEMMA ExitOK == ASSUME Inv, NEW t \in Users, FreeTask(t) PROVE Inv'
<1>1. {} \in SUBSET RegionSet /\ IsFiniteSet({})
  BY FS_EmptySet
<1>2. high' \in [Users -> Nat] /\ state' \in [Users -> {"dead", "user", "panic"}]
  BY DEF FreeTask, Inv, Typed
<1>3. NoPages \in [AllPages -> Entries] /\ \A p \in AllPages : Covered(NoPages[p], {}, p)
  BY DEF NoPages, Entries, Covered
<1> QED
  BY <1>1, <1>2, <1>3, Local DEF FreeTask

LEMMA InitOK == ASSUME VmInit PROVE Inv
<1>1. Typed
  <2>1. NoPages \in [AllPages -> Entries]
    BY DEF NoPages, Entries
  <2>2. IsFiniteSet({})
    BY FS_EmptySet
  <2> QED
    BY VmAssumption, <2>1, <2>2, ImageTyped DEF VmInit, Typed
<1>2. ASSUME NEW t \in Users, NEW p \in AllPages PROVE Covered(pte[t][p], regions[t], p)
  <2>1. CASE t = FirstUser
    BY <2>1, ImageCovered DEF VmInit
  <2>2. CASE t # FirstUser
    BY <2>2 DEF VmInit, NoPages, Covered
  <2> QED
    BY <2>1, <2>2
<1> QED
  BY <1>1, <1>2, CoveredDef DEF Inv

LEMMA InvKept == ASSUME Inv, [VmNext]_vmVars PROVE Inv'
<1>1. CASE UNCHANGED vmVars
  BY <1>1 DEF vmVars, Inv, Typed, PteCovered
<1>2. CASE VmNext
  BY <1>2, MmapOK, MunmapOK, PageFaultOK, ForkOK, ExecOK, ExitOK DEF VmNext
<1> QED
  BY <1>1, <1>2

-----------------------------------------------------------------------------
(* The theorems. *)

\* A page is accessible only inside a region of its task and only as the
\* regions around it permit, whatever sequence of mmap, munmap, page faults,
\* forks, execs and exits came before (mmap.c: munmap, handle_pagefault,
\* copy_mmap).
THEOREM AccessWithinRegions == VmSpec => []PteCovered
<1>1. VmInit => Inv
  BY InitOK
<1>2. Inv /\ [VmNext]_vmVars => Inv'
  BY InvKept
<1>3. Inv => PteCovered
  BY DEF Inv
<1> QED
  BY <1>1, <1>2, <1>3, PTL DEF VmSpec

\* Every fork gives the child its parent's regions and entries and leaves no
\* page of a private region writable in either (copy_mmap).
THEOREM ForkWriteProtects == VmSpec => ForkProtects
<1>1. VmInit => Inv
  BY InitOK
<1>2. Inv /\ [VmNext]_vmVars => Inv'
  BY InvKept
<1>3. ASSUME Inv, VmNext PROVE ForkStep
  <2> SUFFICES ASSUME NEW u \in Users, state[u] = "dead", state'[u] = "user"
               PROVE  \E t \in Users \ {u} :
                        /\ regions'[u] = regions[t] /\ pte'[u] = pte'[t]
                        /\ \A p \in AllPages : (pte[t][p] = Unmapped) <=> (pte'[u][p] = Unmapped)
                        /\ \A r \in regions[t] : \A p \in PagesOf(r) \cap AllPages :
                              pte'[u][p] # Unmapped =>
                                 pte'[u][p] = IF "P" \in r.flags THEN r.perm \ {"W"} ELSE r.perm
    BY DEF ForkStep
  <2>1. \A v \in Users : ~Panic(v)
    BY <1>3 DEF Panic, Inv, Typed
  <2>2. PICK t \in Users, v \in Users : SysFork(t, v)
    BY <1>3, <2>1 DEF VmNext, SysMmap, SysMunmap, PageFault, ExecSpace, FreeTask, Inv, Typed
  <2>3. Forks(t, v) /\ v = u /\ t # u
    BY <1>3, <2>1, <2>2, ForkCases DEF Forks, Inv, Typed
  <2>4. regions'[u] = regions[t] /\ pte'[u] = Copy(t) /\ pte'[t] = Copy(t)
    BY <1>3, <2>3 DEF Forks, Inv, Typed
  <2>5. \A p \in AllPages : (pte[t][p] = Unmapped) <=> (Copy(t)[p] = Unmapped)
    BY CopyOK, <1>3
  <2>6. ASSUME NEW r \in regions[t], NEW p \in PagesOf(r) \cap AllPages, Copy(t)[p] # Unmapped
        PROVE  Copy(t)[p] = ForkPerm(r)
    <3>1. PICK q \in regions[t] : p \in PagesOf(q) /\ Copy(t)[p] = ForkPerm(q)
      BY <1>3, <2>5, <2>6, CopiesOf
    <3>2. IsFiniteSet(Around(regions[t], p))
      <4>1. Around(regions[t], p) \in SUBSET regions[t] /\ IsFiniteSet(regions[t])
        BY <1>3 DEF Around, Inv, Typed
      <4> QED
        BY <4>1, FS_Subset
    <3>3. ~(Cardinality(Around(regions[t], p)) > 1)
      BY <2>3, <2>5, <2>6 DEF Forks
    <3>4. q \in Around(regions[t], p) /\ r \in Around(regions[t], p)
      BY <3>1 DEF Around
    <3> QED
      BY <3>1, <3>2, <3>3, <3>4, TwoRegionsCounted
  <2> QED
    BY <2>3, <2>4, <2>5, <2>6 DEF ForkPerm
<1> QED
  BY <1>1, <1>2, <1>3, PTL DEF VmSpec, ForkProtects

-----------------------------------------------------------------------------
(* The allocator: where every block is. *)

\* The whole pages that callers hold, and the pages of one size class.
Held == UNION {BlockPages(b) : b \in {c \in live : c.kind # "class"}}
PagesOfClass(pos) == {p \in ClassPages : info[p].arg = pos}

\* The blocks cut for a size class; of these, the ones in its list and the ones
\* that callers hold.
Cells(pos) == PagesOfClass(pos) \X (0..PerPage[pos] - 1)
Listed(pos) == SeqSet(small[pos])
Given(pos) == {b.at : b \in {c \in live : c.kind = "class" /\ c.n = pos}}

HeapTypes ==
    /\ len \in Len(PerPage)..MaxPages
    /\ info \in [0..MaxPages - 1 -> [kind : {"unused", "class", "page", "big"}, arg : Nat]]
    /\ pages \in Seq(0..len - 1)
    /\ small \in [Classes -> Seq(Nat \X Nat)]
    /\ IsFiniteSet(live) /\ lost \subseteq 0..len - 1

\* A block that a caller holds is what the entry of its page says.
Tagged(b) ==
    /\ b \in [kind : {"class", "page", "big"}, at : Nat \X Nat, n : Nat \ {0}]
    /\ info[b.at[1]] = [kind |-> b.kind, arg |-> b.n]
    /\ b.kind = "class" => b.n \in Classes /\ b.at[1] < len
    /\ b.kind # "class" => b.at[1] + b.n <= len
    /\ b.kind = "page" => b.n = 1

OneOwner ==
    /\ 0..len - 1 = Held \cup SeqSet(pages) \cup ClassPages \cup lost
    /\ SeqSet(pages) \cap Held = {} /\ SeqSet(pages) \cap ClassPages = {}
    /\ Held \cap ClassPages = {}
    /\ lost \cap SeqSet(pages) = {} /\ lost \cap Held = {} /\ lost \cap ClassPages = {}
    /\ \A b, c \in live : b # c /\ b.kind # "class" /\ c.kind # "class"
                             => BlockPages(b) \cap BlockPages(c) = {}

Increases(s) == \A i, j \in 1..Len(s) : i < j => s[i] < s[j]
Ascends(s) == \A i, j \in 1..Len(s) : i < j => Before(s[i], s[j])

\* Every block of a size class is its head, or in the list, or given out.
ClassSound(pos) ==
    /\ Ascends(small[pos])
    /\ Cells(pos) = {<<pos - 1, 0>>} \cup Listed(pos) \cup Given(pos)
    /\ <<pos - 1, 0>> \notin Listed(pos) /\ <<pos - 1, 0>> \notin Given(pos)
    /\ Listed(pos) \cap Given(pos) = {}

HeapInv ==
    HeapTypes /\ (\A b \in live : Tagged(b)) /\ OneOwner /\ Increases(pages) /\ \A pos \in Classes : ClassSound(pos)

-----------------------------------------------------------------------------
(* Lists *)

\* A function on 1..n is a sequence of length n.
LEMMA FcnIsSeq ==
  ASSUME NEW S, NEW n \in Nat, NEW f \in [1..n -> S]
  PROVE  f \in Seq(S) /\ Len(f) = n
<1>1. f \in Seq(S)
  BY SeqDef
<1> QED
  BY <1>1, LenProperties

LEMMA SeqSetOf == ASSUME NEW S, NEW s \in Seq(S) PROVE SeqSet(s) \subseteq S /\ Len(s) \in Nat
  BY LenProperties, ElementOfSeq DEF SeqSet

LEMMA InSeq == ASSUME NEW S, NEW T, NEW s \in Seq(S), SeqSet(s) \subseteq T PROVE s \in Seq(T)
<1>1. Len(s) \in Nat /\ s \in [1..Len(s) -> S] /\ \A i \in 1..Len(s) : s[i] \in T
  BY LenProperties DEF SeqSet
<1>2. s \in [1..Len(s) -> T]
  BY <1>1
<1> QED
  BY <1>1, <1>2, FcnIsSeq

\* u is s with r behind its first k elements.
Linked(u, s, k, r) ==
    /\ Len(u) = Len(s) + Len(r)
    /\ \A i \in 1..Len(s) + Len(r) :
          u[i] = IF i <= k THEN s[i] ELSE IF i <= k + Len(r) THEN r[i - k] ELSE s[i - Len(r)]
    /\ SeqSet(u) = SeqSet(s) \cup SeqSet(r)

\* What is linked in stands behind the first k elements and before the others.
LEMMA SpliceIs ==
  ASSUME NEW S, NEW s \in Seq(S), NEW r \in Seq(S), NEW k \in 0..Len(s)
  PROVE  Splice(s, k, r) \in Seq(S) /\ Linked(Splice(s, k, r), s, k, r)
<1> DEFINE a == SubSeq(s, 1, k)
           c == SubSeq(s, k + 1, Len(s))
           u == Splice(s, k, r)
<1>0. Len(s) \in Nat /\ Len(r) \in Nat /\ k \in Nat /\ \A i \in 1..Len(s) : s[i] \in S
  BY LenProperties, ElementOfSeq
<1>1. a \in Seq(S) /\ Len(a) = k /\ \A i \in 1..k : a[i] = s[i]
  <2>1. \A i \in 1..k : s[i] \in S
    BY <1>0
  <2> QED
    BY <1>0, <2>1, SubSeqProperties
<1>2. c \in Seq(S) /\ Len(c) = Len(s) - k /\ \A i \in 1..Len(s) - k : c[i] = s[k + i]
  <2>1. \A i \in k + 1..Len(s) : s[i] \in S
    BY <1>0
  <2>2. c \in Seq(S) /\ Len(c) = (IF k + 1 <= Len(s) THEN Len(s) - (k + 1) + 1 ELSE 0)
        /\ \A i \in 1..Len(s) - (k + 1) + 1 : c[i] = s[(k + 1) + i - 1]
    BY <1>0, <2>1, SubSeqProperties
  <2> HIDE DEF c
  <2> QED
    BY <1>0, <2>2
<1> HIDE DEF a, c
<1>3. u = (a \o r) \o c
  BY DEF Splice, a, c
<1>4. a \o r \in Seq(S) /\ Len(a \o r) = k + Len(r)
      /\ \A i \in 1..k + Len(r) : (a \o r)[i] = IF i <= k THEN a[i] ELSE r[i - k]
  <2>1. /\ a \o r \in Seq(S) /\ Len(a \o r) = Len(a) + Len(r)
        /\ \A i \in 1..Len(a) + Len(r) : (a \o r)[i] = IF i <= Len(a) THEN a[i] ELSE r[i - Len(a)]
    BY <1>1, ConcatProperties
  <2> QED
    BY <1>1, <2>1
<1>5. u \in Seq(S) /\ Len(u) = (k + Len(r)) + (Len(s) - k)
      /\ \A i \in 1..(k + Len(r)) + (Len(s) - k) :
            u[i] = IF i <= k + Len(r) THEN (a \o r)[i] ELSE c[i - (k + Len(r))]
  <2> DEFINE v == a \o r
  <2>1. v \in Seq(S) /\ c \in Seq(S) /\ Len(v) = k + Len(r) /\ Len(c) = Len(s) - k
    BY <1>2, <1>4
  <2> HIDE DEF v
  <2>2. v \o c \in Seq(S) /\ Len(v \o c) = Len(v) + Len(c)
        /\ \A i \in 1..Len(v) + Len(c) : (v \o c)[i] = IF i <= Len(v) THEN v[i] ELSE c[i - Len(v)]
    BY <2>1, ConcatProperties
  <2>3. u = v \o c
    BY <1>3 DEF v
  <2> HIDE DEF u
  <2> QED
    BY <2>1, <2>2, <2>3 DEF v
<1> HIDE DEF u
<1>6. Len(u) = Len(s) + Len(r)
  BY <1>0, <1>5
<1>7. ASSUME NEW i \in 1..Len(s) + Len(r)
      PROVE  u[i] = IF i <= k THEN s[i] ELSE IF i <= k + Len(r) THEN r[i - k] ELSE s[i - Len(r)]
  <2>1. i \in 1..(k + Len(r)) + (Len(s) - k)
    BY <1>0
  <2>2. CASE i <= k
    BY <1>0, <1>1, <1>4, <1>5, <2>1, <2>2
  <2>3. CASE i > k /\ i <= k + Len(r)
    BY <1>0, <1>4, <1>5, <2>1, <2>3
  <2>4. CASE i > k + Len(r)
    <3>1. u[i] = c[i - (k + Len(r))]
      BY <1>0, <1>5, <2>1, <2>4
    <3>2. i - (k + Len(r)) \in 1..Len(s) - k
      BY <1>0, <2>4
    <3>3. c[i - (k + Len(r))] = s[k + (i - (k + Len(r)))]
      BY <1>2, <3>2
    <3>4. k + (i - (k + Len(r))) = i - Len(r)
      BY <1>0
    <3> QED
      BY <1>0, <2>4, <3>1, <3>3, <3>4
  <2> QED
    BY <1>0, <2>2, <2>3, <2>4
<1>8. SeqSet(u) = SeqSet(s) \cup SeqSet(r)
  <2>1. ASSUME NEW x \in SeqSet(u) PROVE x \in SeqSet(s) \cup SeqSet(r)
    <3>1. PICK i \in 1..Len(s) + Len(r) : x = u[i]
      BY <1>6 DEF SeqSet
    <3>2. CASE i <= k
      <4>1. x = s[i] /\ i \in 1..Len(s)
        BY <1>0, <1>7, <3>1, <3>2
      <4> QED
        BY <4>1 DEF SeqSet
    <3>3. CASE i > k /\ i <= k + Len(r)
      <4>1. x = r[i - k] /\ i - k \in 1..Len(r)
        BY <1>0, <1>7, <3>1, <3>3
      <4> QED
        BY <4>1 DEF SeqSet
    <3>4. CASE i > k + Len(r)
      <4>1. x = s[i - Len(r)] /\ i - Len(r) \in 1..Len(s)
        BY <1>0, <1>7, <3>1, <3>4
      <4> QED
        BY <4>1 DEF SeqSet
    <3> QED
      BY <1>0, <3>2, <3>3, <3>4
  <2>2. ASSUME NEW x \in SeqSet(r) PROVE x \in SeqSet(u)
    <3>1. PICK i \in 1..Len(r) : x = r[i]
      BY DEF SeqSet
    <3>2. k + i \in 1..Len(s) + Len(r) /\ ~(k + i <= k) /\ k + i <= k + Len(r) /\ (k + i) - k = i
      BY <1>0
    <3>3. u[k + i] = r[(k + i) - k]
      BY <1>7, <3>2
    <3> QED
      BY <1>6, <3>1, <3>2, <3>3 DEF SeqSet
  <2>3. ASSUME NEW x \in SeqSet(s) PROVE x \in SeqSet(u)
    <3>1. PICK i \in 1..Len(s) : x = s[i]
      BY DEF SeqSet
    <3>2. CASE i <= k
      <4>1. i \in 1..Len(s) + Len(r)
        BY <1>0
      <4>2. u[i] = s[i]
        BY <1>7, <4>1, <3>2
      <4> QED
        BY <1>6, <3>1, <4>1, <4>2 DEF SeqSet
    <3>3. CASE i > k
      <4>1. i + Len(r) \in 1..Len(s) + Len(r) /\ ~(i + Len(r) <= k) /\ ~(i + Len(r) <= k + Len(r))
            /\ (i + Len(r)) - Len(r) = i
        BY <1>0, <3>3
      <4>2. u[i + Len(r)] = s[(i + Len(r)) - Len(r)]
        BY <1>7, <4>1
      <4> QED
        BY <1>6, <3>1, <4>1, <4>2 DEF SeqSet
    <3> QED
      BY <1>0, <3>2, <3>3
  <2> QED
    BY <2>1, <2>2, <2>3
<1> QED
  <2>1. u \in Seq(S) /\ Linked(u, s, k, r)
    BY <1>5, <1>6, <1>7, <1>8 DEF Linked
  <2> QED
    BY <2>1 DEF u

\* A set of numbers has a smallest one: a walk from the head stops somewhere.
LEMMA SmallestOf == ASSUME NEW S, S \subseteq Nat, S # {} PROVE \E x \in S : \A y \in S : x <= y
<1> DEFINE R == {ss \in Nat \X Nat : ss[1] < ss[2]}
<1>1. IsWellFoundedOn(R, Nat)
  BY NatLessThanWellFounded DEF OpToRel
<1> HIDE DEF R
<1>2. PICK x \in S : \A y \in S : ~(<<y, x>> \in R)
  BY <1>1, WFMin
<1>3. ASSUME NEW y \in S PROVE x <= y
  <2>1. x \in Nat /\ y \in Nat
    OBVIOUS
  <2>2. y < x => <<y, x>> \in R
    BY <2>1 DEF R
  <2> QED
    BY <1>2, <2>1, <2>2
<1> QED
  BY <1>3

\* A walk stops, at the first element that it does not pass.
LEMMA PassedIs ==
  ASSUME NEW n \in Nat, NEW P, P \subseteq 1..n
  PROVE  Passed(P) \in 0..n /\ 1..Passed(P) \subseteq P /\ Passed(P) + 1 \notin P
<1> DEFINE Stops == {k \in Nat : k + 1 \notin P}
<1>1. n \in Stops
  OBVIOUS
<1>2. PICK k \in Stops : \A j \in Stops : k <= j
  <2>1. Stops \subseteq Nat /\ Stops # {}
    BY <1>1
  <2> HIDE DEF Stops
  <2> QED
    BY <2>1, SmallestOf
<1>3. \A i \in 1..k : i \in P
  <2>1. ASSUME NEW i \in 1..k, i \notin P PROVE FALSE
    <3>1. i - 1 \in Nat /\ (i - 1) + 1 = i
      OBVIOUS
    <3>2. i - 1 \in Stops
      BY <2>1, <3>1
    <3>3. k <= i - 1
      BY <1>2, <3>2
    <3> QED
      BY <3>1, <3>3
  <2> QED
    BY <2>1
<1>4. k \in P \cup {0} /\ 1..k \subseteq P /\ k + 1 \notin P
  <2>1. k \in Nat /\ k + 1 \notin P
    OBVIOUS
  <2>2. k = 0 \/ k \in 1..k
    BY <2>1
  <2> QED
    BY <1>3, <2>1, <2>2
<1>5. Passed(P) \in P \cup {0} /\ 1..Passed(P) \subseteq P /\ Passed(P) + 1 \notin P
  BY <1>4 DEF Passed
<1>6. \A x \in P \cup {0} : x \in 0..n
  <2>1. ASSUME NEW x \in P PROVE x \in 0..n
    <3>1. x \in 1..n
      OBVIOUS
    <3> QED
      BY <3>1
  <2> QED
    BY <2>1
<1>7. Passed(P) \in 0..n
  BY <1>5, <1>6, Zenon
<1> QED
  BY <1>5, <1>7, Zenon

\* Addresses are ordered.
LEMMA BeforeTotal ==
  ASSUME NEW a \in Nat \X Nat, NEW b \in Nat \X Nat
  PROVE  Before(a, b) \/ a = b \/ Before(b, a)
<1>1. a = <<a[1], a[2]>> /\ b = <<b[1], b[2]>> /\ a[1] \in Nat /\ a[2] \in Nat /\ b[1] \in Nat /\ b[2] \in Nat
  OBVIOUS
<1> QED
  BY <1>1 DEF Before

LEMMA BeforeTransitive ==
  ASSUME NEW a \in Nat \X Nat, NEW b \in Nat \X Nat, NEW c \in Nat \X Nat, Before(a, b), Before(b, c)
  PROVE  Before(a, c)
<1>1. a[1] \in Nat /\ a[2] \in Nat /\ b[1] \in Nat /\ b[2] \in Nat /\ c[1] \in Nat /\ c[2] \in Nat
  OBVIOUS
<1> QED
  BY <1>1 DEF Before

LEMMA BeforeIrreflexive == ASSUME NEW a \in Nat \X Nat PROVE ~Before(a, a)
<1>1. a[1] \in Nat /\ a[2] \in Nat
  OBVIOUS
<1> QED
  BY <1>1 DEF Before

\* mm_free puts a block of a size class in its place.
LEMMA InsertIs ==
  ASSUME NEW s \in Seq(Nat \X Nat), Ascends(s), NEW b \in Nat \X Nat, b \notin SeqSet(s)
  PROVE  /\ Insert(s, b) \in Seq(Nat \X Nat) /\ Ascends(Insert(s, b))
         /\ SeqSet(Insert(s, b)) = SeqSet(s) \cup {b}
<1> DEFINE P == {i \in DOMAIN s : Before(s[i], b)}
           k == Passed(P)
           r == <<b>>
           u == Splice(s, k, r)
<1>0. Len(s) \in Nat /\ DOMAIN s = 1..Len(s) /\ \A i \in 1..Len(s) : s[i] \in Nat \X Nat
  BY LenProperties, ElementOfSeq
<1>1. k \in 0..Len(s) /\ 1..k \subseteq P /\ k + 1 \notin P
  <2>1. P \subseteq 1..Len(s)
    BY <1>0
  <2> HIDE DEF P
  <2> QED
    BY <1>0, <2>1, PassedIs
<1>2. r \in Seq(Nat \X Nat) /\ Len(r) = 1 /\ r[1] = b /\ SeqSet(r) = {b}
  <2>1. r \in Seq(Nat \X Nat) /\ Len(r) = 1 /\ r[1] = b
    OBVIOUS
  <2> HIDE DEF r
  <2> QED
    BY <2>1 DEF SeqSet
<1>3. u = Insert(s, b)
  BY DEF Insert
<1> HIDE DEF r, u
<1>4. ASSUME NEW i \in 1..k PROVE i \in 1..Len(s) /\ Before(s[i], b)
  BY <1>0, <1>1
<1>5. ASSUME NEW i \in k + 1..Len(s) PROVE i \in 1..Len(s) /\ Before(b, s[i])
  <2>1. k + 1 \in 1..Len(s) /\ i \in 1..Len(s) /\ k \in Nat
    BY <1>0, <1>1
  <2>2. ~Before(s[k + 1], b)
    BY <1>0, <1>1, <2>1
  <2>3. s[k + 1] # b
    BY <2>1 DEF SeqSet
  <2>4. Before(b, s[k + 1])
    BY <1>0, <2>1, <2>2, <2>3, BeforeTotal
  <2>5. i = k + 1 \/ Before(s[k + 1], s[i])
    <3>1. i = k + 1 \/ k + 1 < i
      BY <2>1
    <3> QED
      BY <2>1, <3>1 DEF Ascends
  <2> QED
    BY <1>0, <2>1, <2>4, <2>5, BeforeTransitive
<1> HIDE DEF P, k
<1>6. /\ u \in Seq(Nat \X Nat) /\ Len(u) = Len(s) + 1
      /\ \A i \in 1..Len(s) + 1 : u[i] = IF i <= k THEN s[i] ELSE IF i <= k + 1 THEN r[i - k] ELSE s[i - 1]
      /\ SeqSet(u) = SeqSet(s) \cup {b}
  <2>0. k \in 0..Len(s) /\ r \in Seq(Nat \X Nat)
    BY <1>1, <1>2
  <2>1. u \in Seq(Nat \X Nat) /\ Linked(u, s, k, r)
    BY <2>0, SpliceIs DEF u
  <2>2. ASSUME NEW i \in 1..Len(s) + 1
        PROVE  u[i] = IF i <= k THEN s[i] ELSE IF i <= k + 1 THEN r[i - k] ELSE s[i - 1]
    <3>1. i \in 1..Len(s) + Len(r)
      BY <1>2
    <3>2. u[i] = IF i <= k THEN s[i] ELSE IF i <= k + Len(r) THEN r[i - k] ELSE s[i - Len(r)]
      BY <2>1, <3>1 DEF Linked
    <3> QED
      BY <1>2, <3>2
  <2>3. u \in Seq(Nat \X Nat) /\ Len(u) = Len(s) + 1 /\ SeqSet(u) = SeqSet(s) \cup SeqSet(r)
    BY <1>2, <2>1 DEF Linked
  <2> QED
    BY <1>2, <2>2, <2>3
<1>7. \A i \in 1..Len(s) + 1 : /\ i <= k => u[i] = s[i]
                               /\ i = k + 1 => u[i] = b
                               /\ i > k + 1 => u[i] = s[i - 1]
  BY SMTT(40), <1>0, <1>1, <1>2, <1>6
<1>8. ASSUME NEW i \in 1..Len(s) + 1, NEW j \in 1..Len(s) + 1, i < j PROVE Before(u[i], u[j])
  <2>0. k \in Nat
    BY <1>0, <1>1
  <2>1. CASE j <= k
    <3>1. i \in 1..Len(s) /\ j \in 1..Len(s) /\ u[i] = s[i] /\ u[j] = s[j]
      BY <1>0, <1>1, <1>7, <1>8, <2>0, <2>1
    <3> QED
      BY <1>8, <3>1 DEF Ascends
  <2>2. CASE j = k + 1
    <3>1. i \in 1..k /\ u[i] = s[i] /\ u[j] = b
      BY <1>0, <1>1, <1>7, <1>8, <2>0, <2>2
    <3> QED
      BY <1>4, <3>1
  <2>3. CASE j > k + 1 /\ i <= k
    <3>1. i \in 1..Len(s) /\ j - 1 \in 1..Len(s) /\ i < j - 1 /\ u[i] = s[i] /\ u[j] = s[j - 1]
      BY <1>0, <1>1, <1>7, <1>8, <2>0, <2>3
    <3> QED
      BY <3>1 DEF Ascends
  <2>4. CASE j > k + 1 /\ i = k + 1
    <3>1. j - 1 \in k + 1..Len(s) /\ u[i] = b /\ u[j] = s[j - 1]
      BY <1>0, <1>1, <1>7, <1>8, <2>0, <2>4
    <3> QED
      BY <1>5, <3>1
  <2>5. CASE i > k + 1
    <3>1. i - 1 \in 1..Len(s) /\ j - 1 \in 1..Len(s) /\ i - 1 < j - 1 /\ u[i] = s[i - 1] /\ u[j] = s[j - 1]
      BY <1>0, <1>1, <1>7, <1>8, <2>0, <2>5
    <3> QED
      BY <3>1 DEF Ascends
  <2> QED
    BY <1>8, <2>0, <2>1, <2>2, <2>3, <2>4, <2>5
<1>9. Ascends(u)
  BY <1>6, <1>8 DEF Ascends
<1> QED
  BY <1>3, <1>6, <1>9

\* A run of n pages from p, and the pages in it.
LEMMA RunIs ==
  ASSUME NEW p \in Nat, NEW n \in Nat
  PROVE  LET r == [i \in 1..n |-> p + i - 1]
         IN  /\ r \in Seq(Nat) /\ Len(r) = n /\ \A i \in 1..n : r[i] = p + i - 1
             /\ SeqSet(r) = p..p + n - 1
<1> DEFINE r == [i \in 1..n |-> p + i - 1]
<1>1. \A i \in 1..n : r[i] = p + i - 1
  OBVIOUS
<1>2. r \in [1..n -> Nat]
  OBVIOUS
<1> HIDE DEF r
<1>3. r \in Seq(Nat) /\ Len(r) = n
  BY <1>2, FcnIsSeq
<1>4. ASSUME NEW x \in p..p + n - 1 PROVE x \in SeqSet(r)
  <2>1. x - p + 1 \in 1..n /\ p + (x - p + 1) - 1 = x
    OBVIOUS
  <2>2. r[x - p + 1] = x
    BY <1>1, <2>1
  <2> QED
    BY <1>3, <2>1, <2>2 DEF SeqSet
<1>5. ASSUME NEW x \in SeqSet(r) PROVE x \in p..p + n - 1
  <2>1. PICK i \in 1..n : x = r[i]
    BY <1>3 DEF SeqSet
  <2> QED
    BY <1>1, <2>1
<1>6. SeqSet(r) = p..p + n - 1
  BY <1>4, <1>5
<1> QED
  BY <1>1, <1>3, <1>6 DEF r

\* mm_free puts a page, or a run of pages, in its place.
LEMMA InsertRunIs ==
  ASSUME NEW s \in Seq(Nat), Increases(s), NEW p \in Nat, NEW n \in Nat \ {0},
         SeqSet(s) \cap (p..p + n - 1) = {}
  PROVE  /\ InsertRun(s, p, n) \in Seq(Nat) /\ Increases(InsertRun(s, p, n))
         /\ SeqSet(InsertRun(s, p, n)) = SeqSet(s) \cup (p..p + n - 1)
<1> DEFINE P == {i \in DOMAIN s : s[i] < p}
           k == Passed(P)
           r == [i \in 1..n |-> p + i - 1]
           u == Splice(s, k, r)
<1>0. Len(s) \in Nat /\ DOMAIN s = 1..Len(s) /\ \A i \in 1..Len(s) : s[i] \in Nat
  BY LenProperties, ElementOfSeq
<1>1. k \in 0..Len(s) /\ 1..k \subseteq P /\ k + 1 \notin P
  <2>1. P \subseteq 1..Len(s)
    BY <1>0
  <2> HIDE DEF P
  <2> QED
    BY <1>0, <2>1, PassedIs
<1>2. r \in Seq(Nat) /\ Len(r) = n /\ SeqSet(r) = p..p + n - 1 /\ \A i \in 1..n : r[i] = p + i - 1
  BY RunIs
<1>3. u = InsertRun(s, p, n)
  BY DEF InsertRun
<1> HIDE DEF r, u
<1>4. ASSUME NEW i \in 1..k PROVE i \in 1..Len(s) /\ s[i] < p
  BY <1>0, <1>1
<1>5. ASSUME NEW i \in k + 1..Len(s) PROVE i \in 1..Len(s) /\ s[i] > p + n - 1
  <2>1. k + 1 \in 1..Len(s) /\ i \in 1..Len(s) /\ k \in Nat
    BY <1>0, <1>1
  <2>2. s[k + 1] \in Nat /\ ~(s[k + 1] < p)
    BY <1>0, <1>1, <2>1
  <2>3. s[k + 1] \notin p..p + n - 1
    BY <2>1 DEF SeqSet
  <2>5. i = k + 1 \/ s[k + 1] < s[i]
    <3>1. i = k + 1 \/ k + 1 < i
      BY <2>1
    <3> QED
      BY <2>1, <3>1 DEF Increases
  <2>6. s[i] \in Nat
    BY <1>0, <2>1
  <2> QED
    BY <2>1, <2>2, <2>3, <2>5, <2>6
<1> HIDE DEF P, k
<1>6. /\ u \in Seq(Nat) /\ Len(u) = Len(s) + n
      /\ \A i \in 1..Len(s) + n : u[i] = IF i <= k THEN s[i] ELSE IF i <= k + n THEN r[i - k] ELSE s[i - n]
      /\ SeqSet(u) = SeqSet(s) \cup (p..p + n - 1)
  <2>0. k \in 0..Len(s) /\ r \in Seq(Nat)
    BY <1>1, <1>2
  <2>1. u \in Seq(Nat) /\ Linked(u, s, k, r)
    BY <2>0, SpliceIs DEF u
  <2>2. ASSUME NEW i \in 1..Len(s) + n
        PROVE  u[i] = IF i <= k THEN s[i] ELSE IF i <= k + n THEN r[i - k] ELSE s[i - n]
    <3>1. i \in 1..Len(s) + Len(r)
      BY <1>2
    <3>2. u[i] = IF i <= k THEN s[i] ELSE IF i <= k + Len(r) THEN r[i - k] ELSE s[i - Len(r)]
      BY <2>1, <3>1 DEF Linked
    <3> QED
      BY <1>2, <3>2
  <2>3. u \in Seq(Nat) /\ Len(u) = Len(s) + n /\ SeqSet(u) = SeqSet(s) \cup SeqSet(r)
    BY <1>2, <2>1 DEF Linked
  <2> QED
    BY <1>2, <2>2, <2>3
<1>7. ASSUME NEW i \in 1..Len(s) + n
      PROVE  /\ i <= k => u[i] = s[i] /\ i \in 1..Len(s)
             /\ i > k /\ i <= k + n => u[i] = p + (i - k) - 1
             /\ i > k + n => u[i] = s[i - n] /\ i - n \in k + 1..Len(s)
  <2>1. CASE i <= k
    BY <1>0, <1>1, <1>6, <2>1
  <2>2. CASE i > k /\ i <= k + n
    <3>1. i - k \in 1..n /\ u[i] = r[i - k]
      BY <1>0, <1>1, <1>6, <2>2
    <3> QED
      BY <1>0, <1>1, <1>2, <2>2, <3>1
  <2>3. CASE i > k + n
    BY <1>0, <1>1, <1>6, <2>3
  <2> QED
    BY <1>0, <1>1, <2>1, <2>2, <2>3
<1>8. ASSUME NEW i \in 1..Len(s) + n, NEW j \in 1..Len(s) + n, i < j PROVE u[i] < u[j]
  <2>0. k \in Nat
    BY <1>0, <1>1
  <2>1. CASE j <= k
    <3>1. i \in 1..Len(s) /\ j \in 1..Len(s) /\ u[i] = s[i] /\ u[j] = s[j]
      BY <1>0, <1>7, <1>8, <2>0, <2>1
    <3> QED
      BY <1>8, <3>1 DEF Increases
  <2>2. CASE j > k /\ j <= k + n /\ i <= k
    <3>1. i \in 1..k /\ u[i] = s[i] /\ u[j] = p + (j - k) - 1
      BY <1>0, <1>7, <1>8, <2>0, <2>2
    <3>2. s[i] \in Nat /\ s[i] < p
      BY <1>0, <1>4, <3>1
    <3> QED
      BY <2>0, <2>2, <3>1, <3>2
  <2>3. CASE j <= k + n /\ i > k
    BY <1>7, <1>8, <2>0, <2>3
  <2>4. CASE j > k + n /\ i <= k
    <3>1. i \in 1..Len(s) /\ j - n \in 1..Len(s) /\ i < j - n /\ u[i] = s[i] /\ u[j] = s[j - n]
      BY <1>0, <1>7, <1>8, <2>0, <2>4
    <3> QED
      BY <3>1 DEF Increases
  <2>5. CASE j > k + n /\ i > k /\ i <= k + n
    <3>1. j - n \in k + 1..Len(s) /\ u[i] = p + (i - k) - 1 /\ u[j] = s[j - n]
      BY <1>7, <2>5
    <3>2. j - n \in 1..Len(s) /\ s[j - n] > p + n - 1
      BY <1>5, <3>1
    <3>3. s[j - n] \in Nat
      BY <1>0, <3>2
    <3> QED
      BY <2>0, <2>5, <3>1, <3>2, <3>3
  <2>6. CASE i > k + n
    <3>1. i - n \in 1..Len(s) /\ j - n \in 1..Len(s) /\ i - n < j - n /\ u[i] = s[i - n] /\ u[j] = s[j - n]
      BY <1>0, <1>7, <1>8, <2>0, <2>6
    <3> QED
      BY <3>1 DEF Increases
  <2> QED
    BY <1>8, <2>0, <2>1, <2>2, <2>3, <2>4, <2>5, <2>6
<1>9. Increases(u)
  BY <1>6, <1>8 DEF Increases
<1> QED
  BY <1>3, <1>6, <1>9

\* v is s without the n elements from the i-th on.
Without(v, s, i, n) ==
    /\ v \in Seq(Nat) /\ Len(v) = Len(s) - n
    /\ \A j \in 1..Len(s) - n : v[j] = IF j < i THEN s[j] ELSE s[j + n]

\* Taking neighbours out of an increasing list leaves it increasing.
LEMMA WithoutIs ==
  ASSUME NEW s \in Seq(Nat), Increases(s), NEW n \in 0..Len(s), NEW i \in 1..Len(s) - n + 1,
         NEW v, Without(v, s, i, n)
  PROVE  Increases(v) /\ SeqSet(v) = SeqSet(s) \ {s[j] : j \in i..i + n - 1}
<1>0. Len(s) \in Nat /\ n \in Nat /\ i \in Nat /\ \A j \in 1..Len(s) : s[j] \in Nat
  BY LenProperties, ElementOfSeq
<1>1. Len(v) = Len(s) - n
  BY DEF Without
<1>2. ASSUME NEW j \in 1..Len(v)
      PROVE  /\ j < i => v[j] = s[j] /\ j \in 1..Len(s)
             /\ j >= i => v[j] = s[j + n] /\ j + n \in 1..Len(s)
  <2>1. v[j] = IF j < i THEN s[j] ELSE s[j + n]
    BY <1>1 DEF Without
  <2> QED
    BY <1>0, <1>1, <2>1
<1>3. Increases(v)
  <2>1. ASSUME NEW j \in 1..Len(v), NEW k \in 1..Len(v), j < k PROVE v[j] < v[k]
    <3>1. CASE k < i
      BY <1>0, <1>1, <1>2, <2>1, <3>1 DEF Increases
    <3>2. CASE j < i /\ k >= i
      <4>1. v[j] = s[j] /\ j \in 1..Len(s) /\ v[k] = s[k + n] /\ k + n \in 1..Len(s) /\ j < k + n
        BY <1>0, <1>1, <1>2, <2>1, <3>2
      <4> QED
        BY <4>1 DEF Increases
    <3>3. CASE j >= i
      <4>1. v[j] = s[j + n] /\ j + n \in 1..Len(s) /\ v[k] = s[k + n] /\ k + n \in 1..Len(s) /\ j + n < k + n
        BY SMTT(40), <1>0, <1>1, <1>2, <2>1, <3>3
      <4> QED
        BY <4>1 DEF Increases
    <3> QED
      BY <1>0, <1>1, <3>1, <3>2, <3>3
  <2> QED
    BY <2>1 DEF Increases
<1>4. ASSUME NEW j \in 1..Len(s), NEW k \in 1..Len(s), s[j] = s[k] PROVE j = k
  <2>1. j < k \/ j = k \/ k < j
    BY <1>0
  <2>2. s[j] \in Nat
    BY <1>0
  <2> QED
    BY <1>4, <2>1, <2>2 DEF Increases
<1> DEFINE X == {s[j] : j \in i..i + n - 1}
<1>5. ASSUME NEW x \in SeqSet(v) PROVE x \in SeqSet(s) /\ x \notin X
  <2>1. PICK j \in 1..Len(v) : x = v[j]
    BY DEF SeqSet
  <2>2. PICK k \in 1..Len(s) : x = s[k] /\ (k < i \/ k >= i + n)
    <3>1. CASE j < i
      BY <1>2, <2>1, <3>1
    <3>2. CASE j >= i
      <4>1. j + n \in 1..Len(s) /\ x = s[j + n] /\ j + n >= i + n
        BY <1>0, <1>1, <1>2, <2>1, <3>2
      <4> QED
        BY <4>1
    <3> QED
      BY <1>0, <1>1, <3>1, <3>2
  <2>3. ASSUME NEW m \in i..i + n - 1, x = s[m] PROVE FALSE
    <3>1. m \in 1..Len(s)
      BY <1>0
    <3>2. m = k
      BY <1>4, <2>2, <2>3, <3>1
    <3> QED
      BY <1>0, <2>2, <3>2
  <2> QED
    BY <2>2, <2>3 DEF SeqSet
<1>6. ASSUME NEW x \in SeqSet(s), x \notin X PROVE x \in SeqSet(v)
  <2>1. PICK k \in 1..Len(s) : x = s[k]
    BY DEF SeqSet
  <2>2. k < i \/ k >= i + n
    <3>1. k \notin i..i + n - 1
      BY <1>6, <2>1
    <3> QED
      BY <1>0, <3>1
  <2>3. CASE k < i
    <3>1. k \in 1..Len(v)
      BY <1>0, <1>1, <2>3
    <3>2. v[k] = x
      BY <1>2, <2>1, <2>3, <3>1
    <3> QED
      BY <3>1, <3>2 DEF SeqSet
  <2>4. CASE k >= i + n
    <3>1. k - n \in 1..Len(v) /\ k - n >= i /\ (k - n) + n = k
      BY <1>0, <1>1, <2>4
    <3>2. v[k - n] = s[(k - n) + n]
      BY <1>2, <3>1
    <3> QED
      BY <2>1, <3>1, <3>2 DEF SeqSet
  <2> QED
    BY <2>2, <2>3, <2>4
<1>7. SeqSet(v) = SeqSet(s) \ X
  BY <1>5, <1>6
<1> QED
  BY <1>3, <1>7

\* The three ways in which pages leave the list: getpage takes the first,
\* bigfind a run, or the run at the end.
LEMMA TailIs ==
  ASSUME NEW s \in Seq(Nat), s # <<>>
  PROVE  Without(Tail(s), s, 1, 1) /\ 1 \in 0..Len(s) /\ 1 \in 1..Len(s) - 1 + 1
         /\ Head(s) = s[1] /\ Head(s) \in SeqSet(s)
<1>1. Tail(s) \in Seq(Nat) /\ Len(Tail(s)) = Len(s) - 1 /\ \A i \in 1..Len(Tail(s)) : Tail(s)[i] = s[i + 1]
  BY HeadTailProperties
<1>2. Len(s) \in Nat \ {0} /\ Head(s) = s[1]
  BY EmptySeq
<1>3. ASSUME NEW j \in 1..Len(s) - 1 PROVE Tail(s)[j] = IF j < 1 THEN s[j] ELSE s[j + 1]
  BY <1>1, <1>2
<1>4. Head(s) \in SeqSet(s)
  BY <1>2 DEF SeqSet
<1> QED
  BY <1>1, <1>2, <1>3, <1>4 DEF Without

LEMMA PrefixIs ==
  ASSUME NEW s \in Seq(Nat), NEW k \in 1..Len(s)
  PROVE  Without(SubSeq(s, 1, k - 1), s, k, Len(s) - k + 1)
<1>0. Len(s) \in Nat /\ k \in Nat /\ \A i \in 1..Len(s) : s[i] \in Nat
  BY LenProperties, ElementOfSeq
<1> DEFINE v == SubSeq(s, 1, k - 1)
<1>1. v \in Seq(Nat) /\ Len(v) = (IF 1 <= k - 1 THEN (k - 1) - 1 + 1 ELSE 0)
      /\ \A i \in 1..(k - 1) - 1 + 1 : v[i] = s[1 + i - 1]
  <2>1. \A i \in 1..k - 1 : s[i] \in Nat
    BY <1>0
  <2>2. 1 \in Int /\ k - 1 \in Int
    BY <1>0
  <2> QED
    BY <2>1, <2>2, SubSeqProperties
<1> HIDE DEF v
<1>2. Len(v) = k - 1 /\ Len(v) = Len(s) - (Len(s) - k + 1)
  BY <1>0, <1>1
<1>3. ASSUME NEW j \in 1..Len(s) - (Len(s) - k + 1)
      PROVE  v[j] = IF j < k THEN s[j] ELSE s[j + (Len(s) - k + 1)]
  BY <1>0, <1>1
<1> QED
  BY <1>1, <1>2, <1>3 DEF Without, v

LEMMA CutOutIs ==
  ASSUME NEW s \in Seq(Nat), NEW n \in Nat, NEW i \in 1..Len(s), i + n - 1 <= Len(s)
  PROVE  Without(SubSeq(s, 1, i - 1) \o SubSeq(s, i + n, Len(s)), s, i, n)
<1>0. Len(s) \in Nat /\ i \in Nat /\ \A j \in 1..Len(s) : s[j] \in Nat
  BY LenProperties, ElementOfSeq
<1> DEFINE a == SubSeq(s, 1, i - 1)
           c == SubSeq(s, i + n, Len(s))
<1>1. a \in Seq(Nat) /\ Len(a) = i - 1 /\ \A j \in 1..i - 1 : a[j] = s[j]
  <2>1. a \in Seq(Nat) /\ Len(a) = (IF 1 <= i - 1 THEN (i - 1) - 1 + 1 ELSE 0)
        /\ \A j \in 1..(i - 1) - 1 + 1 : a[j] = s[1 + j - 1]
    <3>1. \A j \in 1..i - 1 : s[j] \in Nat
      BY <1>0
    <3>2. 1 \in Int /\ i - 1 \in Int
      BY <1>0
    <3> QED
      BY <3>1, <3>2, SubSeqProperties
  <2> HIDE DEF a
  <2> QED
    BY <1>0, <2>1
<1>2. c \in Seq(Nat) /\ Len(c) = Len(s) - i - n + 1 /\ \A j \in 1..Len(s) - i - n + 1 : c[j] = s[i + n + j - 1]
  <2>1. c \in Seq(Nat) /\ Len(c) = (IF i + n <= Len(s) THEN Len(s) - (i + n) + 1 ELSE 0)
        /\ \A j \in 1..Len(s) - (i + n) + 1 : c[j] = s[(i + n) + j - 1]
    <3>1. \A j \in i + n..Len(s) : s[j] \in Nat
      BY <1>0
    <3>2. i + n \in Int /\ Len(s) \in Int
      BY <1>0
    <3> QED
      BY SMTT(40), <3>1, <3>2, SubSeqProperties
  <2> HIDE DEF c
  <2>2. Len(c) = Len(s) - i - n + 1
    <3>1. i + n <= Len(s) \/ i + n = Len(s) + 1
      BY <1>0
    <3>2. ASSUME i + n <= Len(s) PROVE Len(c) = Len(s) - (i + n) + 1
      BY <2>1, <3>2
    <3>3. ASSUME i + n = Len(s) + 1 PROVE Len(c) = 0
      <4>1. ~(i + n <= Len(s))
        BY <1>0, <3>3
      <4> QED
        BY <2>1, <4>1
    <3> QED
      BY <1>0, <3>1, <3>2, <3>3
  <2>3. ASSUME NEW j \in 1..Len(s) - i - n + 1 PROVE c[j] = s[i + n + j - 1]
    <3>1. j \in 1..Len(s) - (i + n) + 1
      BY <1>0
    <3>2. c[j] = s[(i + n) + j - 1]
      BY <2>1, <3>1
    <3> QED
      BY <3>2
  <2> QED
    BY <2>1, <2>2, <2>3
<1> HIDE DEF a, c
<1>3. a \o c \in Seq(Nat) /\ Len(a \o c) = Len(a) + Len(c)
      /\ \A j \in 1..Len(a) + Len(c) : (a \o c)[j] = IF j <= Len(a) THEN a[j] ELSE c[j - Len(a)]
  <2>1. a \in Seq(Nat) /\ c \in Seq(Nat)
    BY <1>1, <1>2
  <2> QED
    BY <2>1, ConcatProperties
<1>4. Len(a \o c) = Len(s) - n
  BY <1>0, <1>1, <1>2, <1>3
<1>5. ASSUME NEW j \in 1..Len(s) - n PROVE (a \o c)[j] = IF j < i THEN s[j] ELSE s[j + n]
  <2>1. j \in 1..Len(a) + Len(c)
    BY <1>0, <1>1, <1>2
  <2>2. CASE j < i
    <3>1. (a \o c)[j] = a[j] /\ j \in 1..i - 1
      BY <1>0, <1>1, <1>3, <2>1, <2>2
    <3> QED
      BY <1>1, <2>2, <3>1
  <2>3. CASE j >= i
    <3>1. (a \o c)[j] = c[j - (i - 1)] /\ j - (i - 1) \in 1..Len(s) - i - n + 1
      BY SMTT(40), <1>0, <1>1, <1>3, <2>1, <2>3
    <3>2. c[j - (i - 1)] = s[i + n + (j - (i - 1)) - 1]
      BY <1>2, <3>1
    <3>3. i + n + (j - (i - 1)) - 1 = j + n
      BY <1>0
    <3> QED
      BY <1>0, <2>3, <3>1, <3>2, <3>3
  <2>4. j < i \/ j >= i
    BY <1>0
  <2> QED
    BY <2>2, <2>3, <2>4
<1> QED
  BY <1>3, <1>4, <1>5 DEF Without, a, c

\* smallfind takes the first block of a list.
LEMMA BlockTailIs ==
  ASSUME NEW s \in Seq(Nat \X Nat), s # <<>>, Ascends(s)
  PROVE  /\ Tail(s) \in Seq(Nat \X Nat) /\ Ascends(Tail(s))
         /\ Head(s) \in SeqSet(s) /\ SeqSet(Tail(s)) = SeqSet(s) \ {Head(s)}
<1>0. Len(s) \in Nat \ {0} /\ Head(s) = s[1] /\ \A j \in 1..Len(s) : s[j] \in Nat \X Nat
  BY EmptySeq, ElementOfSeq
<1>1. Tail(s) \in Seq(Nat \X Nat) /\ Len(Tail(s)) = Len(s) - 1
      /\ \A i \in 1..Len(Tail(s)) : Tail(s)[i] = s[i + 1]
  BY HeadTailProperties
<1>2. Ascends(Tail(s))
  <2>1. ASSUME NEW i \in 1..Len(Tail(s)), NEW j \in 1..Len(Tail(s)), i < j PROVE Before(Tail(s)[i], Tail(s)[j])
    <3>1. i + 1 \in 1..Len(s) /\ j + 1 \in 1..Len(s) /\ i + 1 < j + 1
          /\ Tail(s)[i] = s[i + 1] /\ Tail(s)[j] = s[j + 1]
      BY <1>0, <1>1, <2>1
    <3> QED
      BY <3>1 DEF Ascends
  <2> QED
    BY <2>1 DEF Ascends
<1>3. Head(s) \in SeqSet(s)
  BY <1>0 DEF SeqSet
<1>4. ASSUME NEW x \in SeqSet(Tail(s)) PROVE x \in SeqSet(s) /\ x # Head(s)
  <2>1. PICK i \in 1..Len(Tail(s)) : x = Tail(s)[i]
    BY DEF SeqSet
  <2>2. i + 1 \in 1..Len(s) /\ x = s[i + 1] /\ 1 < i + 1 /\ 1 \in 1..Len(s)
    BY <1>0, <1>1, <2>1
  <2>3. Before(s[1], s[i + 1])
    BY <2>2 DEF Ascends
  <2> QED
    BY <1>0, <2>2, <2>3, BeforeIrreflexive DEF SeqSet
<1>5. ASSUME NEW x \in SeqSet(s), x # Head(s) PROVE x \in SeqSet(Tail(s))
  <2>1. PICK i \in 1..Len(s) : x = s[i]
    BY DEF SeqSet
  <2>2. i - 1 \in 1..Len(Tail(s)) /\ (i - 1) + 1 = i
    BY <1>0, <1>1, <1>5, <2>1
  <2>3. Tail(s)[i - 1] = s[(i - 1) + 1]
    BY <1>1, <2>2
  <2> QED
    BY <2>1, <2>2, <2>3 DEF SeqSet
<1> QED
  BY <1>1, <1>2, <1>3, <1>4, <1>5

\* A page fresh for a size class: its blocks from the second on, in order.
LEMMA FreshList ==
  ASSUME NEW p \in Nat, NEW m \in Nat \ {0}, NEW s, s = [i \in 1..m - 1 |-> <<p, i>>]
  PROVE  s \in Seq(Nat \X Nat) /\ Ascends(s) /\ SeqSet(s) = {p} \X (1..m - 1)
<1>1. s \in [1..m - 1 -> Nat \X Nat] /\ \A i \in 1..m - 1 : s[i] = <<p, i>>
  OBVIOUS
<1>2. s \in Seq(Nat \X Nat) /\ Len(s) = m - 1
  BY <1>1, FcnIsSeq
<1>3. Ascends(s)
  <2>1. ASSUME NEW i \in 1..m - 1, NEW j \in 1..m - 1, i < j PROVE Before(s[i], s[j])
    BY <1>1, <2>1 DEF Before
  <2> QED
    BY <1>2, <2>1 DEF Ascends
<1>4. SeqSet(s) = {s[i] : i \in 1..m - 1}
  BY <1>2 DEF SeqSet
<1>5. SeqSet(s) = {p} \X (1..m - 1)
  <2>1. ASSUME NEW x \in SeqSet(s) PROVE x \in {p} \X (1..m - 1)
    BY <1>1, <1>4
  <2>2. ASSUME NEW x \in {p} \X (1..m - 1) PROVE x \in SeqSet(s)
    <3>1. PICK i \in 1..m - 1 : x = <<p, i>>
      OBVIOUS
    <3> QED
      BY <1>1, <1>4, <3>1
  <2> QED
    BY <2>1, <2>2
<1> QED
  BY <1>2, <1>3, <1>5

-----------------------------------------------------------------------------
(* What the pieces of the invariant say of a state and of a step *)

\* The types, one by one.
LEMMA HeapTyped == ASSUME HeapInv
  PROVE /\ len \in Nat /\ len <= MaxPages /\ MaxPages \in Nat /\ Len(PerPage) \in Nat
        /\ Classes = 1..Len(PerPage) /\ (\A pos \in Classes : PerPage[pos] \in Nat \ {0, 1})
        /\ pages \in Seq(0..len - 1) /\ pages \in Seq(Nat) /\ SeqSet(pages) \subseteq 0..len - 1
        /\ DOMAIN info = 0..MaxPages - 1
<1>1. Len(PerPage) \in Nat /\ Classes = 1..Len(PerPage) /\ \A pos \in Classes : PerPage[pos] \in Nat \ {0, 1}
  BY MemAssumption, LenProperties, ElementOfSeq DEF Classes
<1>2. len \in Nat /\ len <= MaxPages /\ MaxPages \in Nat /\ pages \in Seq(0..len - 1) /\ DOMAIN info = 0..MaxPages - 1
  BY <1>1, MemAssumption DEF HeapInv, HeapTypes
<1>3. pages \in Seq(Nat)
  <2>1. 0..len - 1 \subseteq Nat
    BY <1>2
  <2> QED
    BY <1>2, <2>1, SeqMonotonic
<1> QED
  BY <1>1, <1>2, <1>3, SeqSetOf

\* A block of whole pages is the pages from its first on, none of them of a
\* size class; a small block is in a page of its class.
LEMMA WholePages ==
  ASSUME HeapInv, NEW b \in live, b.kind # "class"
  PROVE  /\ BlockPages(b) = b.at[1]..b.at[1] + b.n - 1 /\ b.at[1] \in BlockPages(b)
         /\ BlockPages(b) \subseteq Held /\ BlockPages(b) \subseteq 0..len - 1
<1>1. b.at[1] \in Nat /\ b.n \in Nat \ {0} /\ b.at[1] + b.n <= len /\ (b.kind = "big" \/ b.n = 1)
  BY DEF HeapInv, Tagged
<1>2. BlockPages(b) = b.at[1]..b.at[1] + b.n - 1
  <2>1. CASE b.kind = "big"
    BY <2>1 DEF BlockPages
  <2>2. CASE b.kind # "big"
    <3>1. BlockPages(b) = {b.at[1]}
      BY <2>2 DEF BlockPages
    <3> QED
      BY <1>1, <2>2, <3>1
  <2> QED
    BY <2>1, <2>2
<1>3. BlockPages(b) \subseteq Held
  BY DEF Held
<1>4. len \in Nat
  BY HeapTyped
<1> QED
  BY <1>1, <1>2, <1>3, <1>4

LEMMA SmallBlock ==
  ASSUME HeapInv, NEW b \in live, b.kind = "class"
  PROVE  b.at[1] \in PagesOfClass(b.n) /\ b.at[1] \in ClassPages /\ b.n \in Classes /\ b.at \in Given(b.n)
<1>1. /\ b.at[1] \in Nat /\ b.n \in Classes /\ b.at[1] < len
      /\ info[b.at[1]] = [kind |-> "class", arg |-> b.n]
  BY DEF HeapInv, Tagged
<1>2. b.at[1] \in 0..len - 1
  BY <1>1, HeapTyped
<1> QED
  BY <1>1, <1>2 DEF PagesOfClass, ClassPages, Given

\* A block stays what it is when its page's entry stays.
LEMMA StaysTagged ==
  ASSUME HeapInv, NEW b \in live, len' \in Nat, len <= len', info'[b.at[1]] = info[b.at[1]]
  PROVE  Tagged(b)'
<1>1. Tagged(b)
  BY DEF HeapInv
<1>2. len \in Nat
  BY HeapTyped
<1> QED
  BY <1>1, <1>2 DEF Tagged

LEMMA AllStayTagged ==
  ASSUME HeapInv, len' \in Nat, len <= len', \A p \in Held \cup ClassPages : info'[p] = info[p]
  PROVE  \A b \in live : Tagged(b)'
<1>1. ASSUME NEW b \in live PROVE Tagged(b)'
  <2>1. b.at[1] \in Held \cup ClassPages
    BY WholePages, SmallBlock
  <2> QED
    BY <2>1, StaysTagged
<1> QED
  BY <1>1

LEMMA Upwards ==
  ASSUME NEW a \in Nat, NEW b \in Nat, a <= b
  PROVE  (0..b - 1 = (0..a - 1) \cup (a..b - 1)) /\ (0..a - 1) \cap (a..b - 1) = {}
  OBVIOUS

\* The pages of the size classes stay when no entry becomes or ceases to be one
\* of a size class.
LEMMA ClassPagesStay ==
  ASSUME HeapInv, len' \in Nat, len <= len',
         \A p \in 0..len - 1 : info'[p].kind = "class" <=> info[p].kind = "class",
         \A p \in len..len' - 1 : info'[p].kind # "class"
  PROVE  ClassPages' = ClassPages
<1>1. len \in Nat
  BY HeapTyped
<1>0. 0..len' - 1 = (0..len - 1) \cup (len..len' - 1)
  BY <1>1, Upwards
<1>2. ClassPages' = {p \in 0..len' - 1 : info'[p].kind = "class"}
  BY DEF ClassPages
<1>3. ASSUME NEW p \in 0..len' - 1, info'[p].kind = "class" PROVE p \in 0..len - 1 /\ info[p].kind = "class"
  <2>1. p \in 0..len - 1 \/ p \in len..len' - 1
    BY <1>0, Zenon
  <2> QED
    BY <1>3, <2>1
<1>4. ASSUME NEW p \in 0..len - 1, info[p].kind = "class" PROVE p \in 0..len' - 1 /\ info'[p].kind = "class"
  <2>1. p \in 0..len' - 1
    BY <1>0, Zenon
  <2> QED
    BY <1>4, <2>1
<1> QED
  BY <1>2, <1>3, <1>4 DEF ClassPages

\* A step that concerns whole pages leaves the size classes sound.
LEMMA ClassesUntouched ==
  ASSUME HeapInv, small' = small, ClassPages' = ClassPages, \A p \in ClassPages : info'[p] = info[p],
         {c \in live' : c.kind = "class"} = {c \in live : c.kind = "class"}
  PROVE  \A pos \in Classes : ClassSound(pos)'
<1>1. ASSUME NEW pos \in Classes PROVE ClassSound(pos)'
  <2>1. ClassSound(pos)
    BY DEF HeapInv
  <2>2. PagesOfClass(pos)' = PagesOfClass(pos)
    <3>1. PagesOfClass(pos)' = {p \in ClassPages : info'[p].arg = pos}
      BY DEF PagesOfClass
    <3> QED
      BY <3>1 DEF PagesOfClass
  <2>3. Cells(pos)' = Cells(pos)
    BY <2>2 DEF Cells
  <2>4. {c \in live' : c.kind = "class" /\ c.n = pos} = {c \in live : c.kind = "class" /\ c.n = pos}
    <3>1. \A c : c \in live' /\ c.kind = "class" <=> c \in live /\ c.kind = "class"
      OBVIOUS
    <3> QED
      BY <3>1
  <2>5. Given(pos)' = Given(pos)
    BY <2>4 DEF Given
  <2>6. Listed(pos)' = Listed(pos)
    BY DEF Listed, SeqSet
  <2> QED
    BY <2>1, <2>3, <2>5, <2>6 DEF ClassSound
<1> QED
  BY <1>1

\* A step that concerns small blocks alone leaves the owners of pages.
LEMMA PagesUntouched ==
  ASSUME HeapInv, len' = len, info' = info, pages' = pages, lost' = lost,
         {c \in live' : c.kind # "class"} = {c \in live : c.kind # "class"}
  PROVE  OneOwner' /\ Increases(pages)'
<1>1. Held' = Held
  BY DEF Held
<1>2. ClassPages' = ClassPages
  BY DEF ClassPages
<1>3. SeqSet(pages)' = SeqSet(pages)
  BY DEF SeqSet
<1>4. OneOwner /\ Increases(pages)
  BY DEF HeapInv
<1>5. ASSUME NEW b \in live', NEW c \in live', b # c, b.kind # "class", c.kind # "class"
      PROVE  BlockPages(b) \cap BlockPages(c) = {}
  <2>1. b \in live /\ c \in live
    BY <1>5
  <2> QED
    BY <1>4, <1>5, <2>1 DEF OneOwner
<1>6. OneOwner'
  BY <1>1, <1>2, <1>3, <1>4, <1>5 DEF OneOwner
<1> QED
  BY <1>4, <1>6 DEF Increases

\* A caller gets a block of whole pages.
LEMMA HeldMore ==
  ASSUME HeapInv, NEW b, b.kind # "class", live' = live \cup {b}, BlockPages(b) \cap Held = {}
  PROVE  /\ Held' = Held \cup BlockPages(b)
         /\ {c \in live' : c.kind = "class"} = {c \in live : c.kind = "class"}
         /\ \A x, y \in live' : x # y /\ x.kind # "class" /\ y.kind # "class"
               => BlockPages(x) \cap BlockPages(y) = {}
<1>1. Held' = Held \cup BlockPages(b)
  BY DEF Held
<1>2. \A x, y \in live : x # y /\ x.kind # "class" /\ y.kind # "class" => BlockPages(x) \cap BlockPages(y) = {}
  BY DEF HeapInv, OneOwner
<1>3. \A x \in live : x.kind # "class" => BlockPages(x) \subseteq Held
  BY DEF Held
<1> QED
  BY <1>1, <1>2, <1>3

\* A caller gives one back.
LEMMA HeldLess ==
  ASSUME HeapInv, NEW b \in live, b.kind # "class", live' = live \ {b}
  PROVE  /\ Held' = Held \ BlockPages(b) /\ BlockPages(b) \subseteq Held
         /\ {c \in live' : c.kind = "class"} = {c \in live : c.kind = "class"}
         /\ \A x, y \in live' : x # y /\ x.kind # "class" /\ y.kind # "class"
               => BlockPages(x) \cap BlockPages(y) = {}
<1>1. \A x, y \in live : x # y /\ x.kind # "class" /\ y.kind # "class" => BlockPages(x) \cap BlockPages(y) = {}
  BY DEF HeapInv, OneOwner
<1>2. Held' = Held \ BlockPages(b)
  <2>1. Held' = UNION {BlockPages(c) : c \in {d \in live' : d.kind # "class"}}
    BY DEF Held
  <2>2. ASSUME NEW p \in Held' PROVE p \in Held \ BlockPages(b)
    <3>1. PICK c \in live' : c.kind # "class" /\ p \in BlockPages(c)
      BY <2>1
    <3> QED
      BY <1>1, <3>1 DEF Held
  <2>3. ASSUME NEW p \in Held, p \notin BlockPages(b) PROVE p \in Held'
    <3>1. PICK c \in live : c.kind # "class" /\ p \in BlockPages(c)
      BY DEF Held
    <3>2. c \in live'
      BY <2>3, <3>1
    <3> QED
      BY <2>1, <3>1, <3>2
  <2> QED
    BY <2>2, <2>3
<1>3. BlockPages(b) \subseteq Held
  BY DEF Held
<1> QED
  BY <1>1, <1>2, <1>3

Uses == [kind : {"unused", "class", "page", "big"}, arg : Nat]

\* The pages below n and who has them: callers, the list, the size classes, nobody.
Parted(n, held, free, class, gone) ==
    /\ 0..n - 1 = held \cup free \cup class \cup gone
    /\ free \cap held = {} /\ free \cap class = {} /\ held \cap class = {}
    /\ gone \cap free = {} /\ gone \cap held = {} /\ gone \cap class = {}

LEMMA PartedNow == ASSUME HeapInv PROVE Parted(len, Held, SeqSet(pages), ClassPages, lost)
  BY DEF HeapInv, OneOwner, Parted

\* A step that concerns whole pages keeps the invariant when it keeps the owners
\* apart and the entries right.
LEMMA PageStep ==
  ASSUME HeapInv, small' = small, NEW n \in Nat, len' = n, len <= n, n <= MaxPages,
         info' \in [0..MaxPages - 1 -> Uses],
         \A p \in ClassPages : info'[p] = info[p],
         \A p \in 0..n - 1 : p \notin ClassPages => info'[p].kind # "class",
         pages' \in Seq(0..n - 1), Increases(pages'),
         IsFiniteSet(live'), \A b \in live' : Tagged(b)',
         {c \in live' : c.kind = "class"} = {c \in live : c.kind = "class"},
         \A x, y \in live' : x # y /\ x.kind # "class" /\ y.kind # "class"
            => BlockPages(x) \cap BlockPages(y) = {},
         Parted(n, Held', SeqSet(pages'), ClassPages, lost')
  PROVE  HeapInv'
<1>0. len \in Nat /\ Len(PerPage) \in Nat /\ len \in Len(PerPage)..MaxPages /\ MaxPages \in Nat
  BY HeapTyped DEF HeapInv, HeapTypes
<1>1. ClassPages' = ClassPages
  <2>1. ClassPages' = {p \in 0..n - 1 : info'[p].kind = "class"}
    BY DEF ClassPages
  <2>2. 0..n - 1 = (0..len - 1) \cup (len..n - 1)
    BY <1>0, Upwards
  <2>3. \A p \in ClassPages : p \in 0..len - 1 /\ info[p].kind = "class"
    BY DEF ClassPages
  <2> QED
    BY <2>1, <2>2, <2>3
<1>2. HeapTypes'
  <2>1. len' \in Len(PerPage)..MaxPages
    BY <1>0
  <2>2. lost' \subseteq 0..len' - 1
    BY DEF Parted
  <2>3. small \in [Classes -> Seq(Nat \X Nat)]
    BY DEF HeapInv, HeapTypes
  <2> QED
    BY <2>1, <2>2, <2>3 DEF HeapTypes, Uses
<1>3. OneOwner'
  BY <1>1 DEF OneOwner, Parted
<1>4. \A pos \in Classes : ClassSound(pos)'
  BY <1>1, ClassesUntouched
<1>5. Increases(pages)'
  OBVIOUS
<1> QED
  BY <1>2, <1>3, <1>4, <1>5 DEF HeapInv

\* getpage: the page was free or is new, so nobody had it.
LEMMA GetPageIs ==
  ASSUME HeapInv, NEW u \in Uses, GetPage(u), NEW n, len' = n
  PROVE  /\ NextPage \in 0..MaxPages - 1 /\ NextPage \in 0..n - 1
         /\ n \in Nat /\ len <= n /\ n <= MaxPages /\ 0..n - 1 = (0..len - 1) \cup {NextPage}
         /\ Parted(n, Held \cup {NextPage}, SeqSet(pages'), ClassPages, lost)
         /\ Parted(n, Held, SeqSet(pages'), ClassPages \cup {NextPage}, lost)
         /\ NextPage \notin Held /\ NextPage \notin ClassPages
         /\ pages' \in Seq(0..n - 1) /\ Increases(pages')
         /\ info' \in [0..MaxPages - 1 -> Uses] /\ info'[NextPage] = u
         /\ \A q \in 0..MaxPages - 1 : q # NextPage => info'[q] = info[q]
<1> DEFINE p == NextPage
<1>0. /\ len \in Nat /\ len <= MaxPages /\ MaxPages \in Nat /\ pages \in Seq(0..len - 1) /\ pages \in Seq(Nat)
      /\ SeqSet(pages) \subseteq 0..len - 1 /\ Increases(pages)
      /\ info \in [0..MaxPages - 1 -> Uses]
  BY HeapTyped DEF HeapInv, HeapTypes, Uses
<1>1. Parted(len, Held, SeqSet(pages), ClassPages, lost)
  BY PartedNow
<1>2. info' = [info EXCEPT ![p] = u]
  BY DEF GetPage
<1>3. /\ p \in 0..MaxPages - 1 /\ p \in 0..n - 1 /\ n \in Nat /\ len <= n /\ n <= MaxPages
      /\ 0..n - 1 = (0..len - 1) \cup {p}
      /\ pages' \in Seq(0..n - 1) /\ Increases(pages')
      /\ Parted(n, Held \cup {p}, SeqSet(pages'), ClassPages, lost)
      /\ Parted(n, Held, SeqSet(pages'), ClassPages \cup {p}, lost)
      /\ p \notin Held /\ p \notin ClassPages
  <2>1. CASE pages = <<>>
    <3>1. n = len + 1 /\ pages' = pages /\ p = len /\ len < MaxPages
      BY <2>1 DEF GetPage, HasPage, NextPage
    <3> HIDE DEF p
    <3>2. SeqSet(pages') = SeqSet(pages)
      BY <3>1
    <3>3. 0..(len + 1) - 1 = (0..len - 1) \cup {len} /\ len \notin 0..len - 1
      BY <1>0
    <3>4. pages' \in Seq(0..n - 1)
      <4>1. 0..len - 1 \subseteq 0..(len + 1) - 1
        BY <3>3
      <4>2. pages \in Seq(0..(len + 1) - 1)
        BY <1>0, <4>1, SeqMonotonic
      <4> QED
        BY <3>1, <4>2
    <3>5. len \notin Held /\ len \notin SeqSet(pages) /\ len \notin ClassPages /\ len \notin lost
      BY <1>1, <3>3 DEF Parted
    <3>6. /\ Parted(len + 1, Held \cup {len}, SeqSet(pages), ClassPages, lost)
          /\ Parted(len + 1, Held, SeqSet(pages), ClassPages \cup {len}, lost)
      BY <1>1, <3>3, <3>5 DEF Parted
    <3>7. len \in 0..MaxPages - 1 /\ len \in 0..(len + 1) - 1 /\ len + 1 \in Nat /\ len <= len + 1 /\ len + 1 <= MaxPages
      BY <1>0, <3>1
    <3> QED
      BY <1>0, <3>1, <3>2, <3>3, <3>4, <3>5, <3>6, <3>7
  <2>2. CASE pages # <<>>
    <3>1. n = len /\ pages' = Tail(pages) /\ p = Head(pages)
      BY <2>2 DEF GetPage, HasPage, NextPage
    <3> HIDE DEF p
    <3>2. Without(Tail(pages), pages, 1, 1) /\ 1 \in 0..Len(pages) /\ 1 \in 1..Len(pages) - 1 + 1
          /\ p = pages[1] /\ p \in SeqSet(pages)
      BY <1>0, <2>2, <3>1, TailIs
    <3>3. Increases(pages') /\ SeqSet(pages') = SeqSet(pages) \ {pages[j] : j \in 1..1 + 1 - 1}
      BY <1>0, <3>1, <3>2, WithoutIs
    <3>4. {pages[j] : j \in 1..1 + 1 - 1} = {p}
      BY <3>2
    <3>5. pages' \in Seq(0..n - 1)
      BY <1>0, <2>2, <3>1, HeadTailProperties
    <3>6. p \in 0..len - 1 /\ p \in 0..MaxPages - 1
      BY <1>0, <3>2
    <3>7. p \notin Held /\ p \notin ClassPages
      BY <1>1, <3>2 DEF Parted
    <3>8. /\ Parted(len, Held \cup {p}, SeqSet(pages'), ClassPages, lost)
          /\ Parted(len, Held, SeqSet(pages'), ClassPages \cup {p}, lost)
      BY <1>1, <3>2, <3>3, <3>4 DEF Parted
    <3> QED
      BY <1>0, <3>1, <3>3, <3>5, <3>6, <3>7, <3>8
  <2> QED
    BY <2>1, <2>2
<1> QED
  BY <1>0, <1>2, <1>3

\* A request for a page.
LEMMA MallocPageKeeps == ASSUME HeapInv, MallocPage PROVE HeapInv'
<1>p. PICK p : p = NextPage
  OBVIOUS
<1>b. PICK b : b = [kind |-> "page", at |-> <<p, 0>>, n |-> 1]
  OBVIOUS
<1>1. OnePage \in Uses /\ OnePage.kind = "page" /\ OnePage = [kind |-> "page", arg |-> 1]
  BY DEF OnePage, Uses
<1>2. GetPage(OnePage) /\ live' = live \cup {b} /\ small' = small /\ lost' = lost
  BY <1>p, <1>b DEF MallocPage
<1>0. PICK n : n = len'
  OBVIOUS
<1>3. /\ p \in 0..MaxPages - 1 /\ p \in 0..n - 1
      /\ n \in Nat /\ len <= n /\ n <= MaxPages /\ 0..n - 1 = (0..len - 1) \cup {p}
      /\ Parted(n, Held \cup {p}, SeqSet(pages'), ClassPages, lost)
      /\ p \notin Held /\ p \notin ClassPages
      /\ pages' \in Seq(0..n - 1) /\ Increases(pages')
      /\ info' \in [0..MaxPages - 1 -> Uses] /\ info'[p] = OnePage
      /\ \A q \in 0..MaxPages - 1 : q # p => info'[q] = info[q]
  BY <1>p, <1>0, <1>1, <1>2, GetPageIs
<1>4. BlockPages(b) = {p} /\ b.kind = "page"
  BY <1>b DEF BlockPages
<1>5. /\ Held' = Held \cup {p}
      /\ {c \in live' : c.kind = "class"} = {c \in live : c.kind = "class"}
      /\ \A x, y \in live' : x # y /\ x.kind # "class" /\ y.kind # "class"
            => BlockPages(x) \cap BlockPages(y) = {}
  <2>1. b.kind # "class" /\ BlockPages(b) \cap Held = {}
    BY <1>3, <1>4
  <2> QED
    BY <1>2, <1>4, <2>1, HeldMore
<1>6. Held \cup ClassPages \subseteq 0..MaxPages - 1
  <2>1. Held \cup ClassPages \subseteq 0..len - 1
    BY PartedNow DEF Parted
  <2> QED
    BY <2>1, HeapTyped
<1>7. \A c \in live' : Tagged(c)'
  <2>1. Tagged(b)'
    <3>1. b \in [kind : {"class", "page", "big"}, at : Nat \X Nat, n : Nat \ {0}]
      BY <1>b, <1>3
    <3>2. b.at[1] = p /\ b.kind = "page" /\ b.n = 1
      BY <1>b
    <3>3. p + 1 <= n
      BY <1>3
    <3> QED
      BY <1>0, <1>1, <1>3, <3>1, <3>2, <3>3 DEF Tagged
  <2>2. \A q \in Held \cup ClassPages : info'[q] = info[q]
    BY <1>3, <1>6
  <2>3. \A c \in live : Tagged(c)'
    BY <1>0, <1>3, <2>2, AllStayTagged
  <2> QED
    BY <1>2, <2>1, <2>3
<1>8. \A q \in ClassPages : info'[q] = info[q]
  BY <1>3, <1>6
<1>9. \A q \in 0..n - 1 : q \notin ClassPages => info'[q].kind # "class"
  <2>1. ASSUME NEW q \in 0..n - 1, q \notin ClassPages PROVE info'[q].kind # "class"
    <3>1. CASE q = p
      BY <1>1, <1>3, <3>1
    <3>2. CASE q # p
      <4>1. q \in 0..MaxPages - 1 /\ info'[q] = info[q] /\ q \in 0..len - 1
        <5>1. q \in 0..len - 1
          BY <1>3, <3>2
        <5>2. q \in 0..MaxPages - 1
          BY <5>1, HeapTyped
        <5> QED
          BY <1>3, <3>2, <5>1, <5>2
      <4> QED
        BY <2>1, <4>1 DEF ClassPages
    <3> QED
      BY <3>1, <3>2
  <2> QED
    BY <2>1
<1>10. IsFiniteSet(live')
  BY <1>2, FS_AddElement DEF HeapInv, HeapTypes
<1> QED
  BY <1>0, <1>2, <1>3, <1>5, <1>7, <1>8, <1>9, <1>10, PageStep

\* A step that concerns one size class keeps the invariant when it leaves that
\* class sound.
LEMMA SmallStep ==
  ASSUME HeapInv, NEW pos \in Classes, NEW s \in Seq(Nat \X Nat), small' = [small EXCEPT ![pos] = s],
         len' = len, info' = info, pages' = pages, lost' = lost,
         IsFiniteSet(live'), \A b \in live' : Tagged(b)',
         {c \in live' : c.kind # "class"} = {c \in live : c.kind # "class"},
         \A q \in Classes : q # pos => {c \in live' : c.kind = "class" /\ c.n = q}
                                         = {c \in live : c.kind = "class" /\ c.n = q},
         ClassSound(pos)'
  PROVE  HeapInv'
<1>1. OneOwner' /\ Increases(pages)'
  BY PagesUntouched
<1>2. small \in [Classes -> Seq(Nat \X Nat)]
  BY DEF HeapInv, HeapTypes
<1>3. HeapTypes'
  BY <1>2 DEF HeapInv, HeapTypes
<1>4. ASSUME NEW q \in Classes, q # pos PROVE ClassSound(q)'
  <2>1. ClassSound(q)
    BY DEF HeapInv
  <2>2. small'[q] = small[q]
    BY <1>2, <1>4
  <2>3. Cells(q)' = Cells(q)
    BY DEF Cells, PagesOfClass, ClassPages
  <2>4. Given(q)' = Given(q)
    BY <1>4 DEF Given
  <2>5. Listed(q)' = Listed(q)
    BY <2>2 DEF Listed, SeqSet
  <2> QED
    BY <2>1, <2>2, <2>3, <2>4, <2>5 DEF ClassSound
<1> QED
  BY <1>1, <1>3, <1>4 DEF HeapInv

\* The blocks of a class are in pages with the class's entry.
LEMMA CellIs ==
  ASSUME HeapInv, NEW pos \in Classes, NEW x \in Cells(pos)
  PROVE  /\ x \in Nat \X Nat /\ x[1] \in ClassPages /\ x[1] < len
         /\ info[x[1]] = [kind |-> "class", arg |-> pos]
<1>1. x[1] \in ClassPages /\ info[x[1]].arg = pos /\ x = <<x[1], x[2]>> /\ x[2] \in 0..PerPage[pos] - 1
  BY DEF Cells, PagesOfClass
<1>2. x[1] \in 0..len - 1 /\ info[x[1]].kind = "class"
  BY <1>1 DEF ClassPages
<1>3. x[1] \in 0..MaxPages - 1 /\ x[1] \in Nat /\ x[1] < len /\ PerPage[pos] \in Nat
  BY <1>2, HeapTyped
<1>4. info[x[1]] \in [kind : {"unused", "class", "page", "big"}, arg : Nat]
  BY <1>3 DEF HeapInv, HeapTypes
<1>5. x[2] \in Nat
  BY <1>1, <1>3
<1> QED
  BY <1>1, <1>2, <1>3, <1>4, <1>5

\* smallfind with blocks in the list.
LEMMA MallocListedKeeps ==
  ASSUME HeapInv, NEW pos \in Classes, MallocSmall(pos), small[pos] # <<>>
  PROVE  HeapInv'
<1>1. PICK x : x = Head(small[pos])
  OBVIOUS
<1>2. PICK b : b = [kind |-> "class", at |-> x, n |-> pos]
  OBVIOUS
<1>3. PICK s : s = Tail(small[pos])
  OBVIOUS
<1>4. /\ small' = [small EXCEPT ![pos] = s] /\ live' = live \cup {b}
      /\ len' = len /\ info' = info /\ pages' = pages /\ lost' = lost
  BY <1>1, <1>2, <1>3 DEF MallocSmall
<1>5. ClassSound(pos) /\ small[pos] \in Seq(Nat \X Nat) /\ small \in [Classes -> Seq(Nat \X Nat)]
  BY DEF HeapInv, HeapTypes
<1>6. s \in Seq(Nat \X Nat) /\ Ascends(s) /\ x \in Listed(pos) /\ SeqSet(s) = Listed(pos) \ {x}
  BY <1>1, <1>3, <1>5, BlockTailIs DEF ClassSound, Listed
<1>7. x \in Cells(pos) /\ x \notin Given(pos) /\ x # <<pos - 1, 0>>
  BY <1>5, <1>6 DEF ClassSound
<1>8. b.kind = "class" /\ b.n = pos /\ b.at = x
  BY <1>2
<1>9. Tagged(b)'
  <2>1. x \in Nat \X Nat /\ x[1] < len /\ info[x[1]] = [kind |-> "class", arg |-> pos] /\ pos \in Nat \ {0}
    BY <1>7, CellIs, HeapTyped
  <2>2. b \in [kind : {"class", "page", "big"}, at : Nat \X Nat, n : Nat \ {0}]
    BY <1>2, <2>1
  <2> QED
    BY <1>4, <1>8, <2>1, <2>2 DEF Tagged
<1>10. \A c \in live' : Tagged(c)'
  <2>1. \A c \in live : Tagged(c)'
    BY <1>4, HeapTyped, AllStayTagged
  <2> QED
    BY <1>4, <1>9, <2>1
<1>11. Given(pos)' = Given(pos) \cup {x}
  BY <1>4, <1>8 DEF Given
<1>12. small'[pos] = s /\ Listed(pos)' = Listed(pos) \ {x}
  BY <1>4, <1>5, <1>6 DEF Listed
<1>13. Cells(pos)' = Cells(pos)
  BY <1>4 DEF Cells, PagesOfClass, ClassPages
<1>14. ClassSound(pos)'
  BY <1>5, <1>6, <1>7, <1>11, <1>12, <1>13 DEF ClassSound
<1>15. /\ {c \in live' : c.kind # "class"} = {c \in live : c.kind # "class"}
       /\ \A q \in Classes : q # pos => {c \in live' : c.kind = "class" /\ c.n = q}
                                          = {c \in live : c.kind = "class" /\ c.n = q}
  BY <1>4, <1>8
<1>16. IsFiniteSet(live')
  BY <1>4, FS_AddElement DEF HeapInv, HeapTypes
<1> QED
  BY <1>4, <1>6, <1>10, <1>14, <1>15, <1>16, SmallStep

\* smallfind with an empty list: a page is cut into blocks of the class.
LEMMA MallocFreshKeeps ==
  ASSUME HeapInv, NEW pos \in Classes, MallocSmall(pos), small[pos] = <<>>
  PROVE  HeapInv'
<1>p. PICK p : p = NextPage
  OBVIOUS
<1>b. PICK b : b = [kind |-> "class", at |-> <<p, 0>>, n |-> pos]
  OBVIOUS
<1>m. PICK m : m = PerPage[pos]
  OBVIOUS
<1>s. PICK s : s = [i \in 1..m - 1 |-> <<p, i>>]
  OBVIOUS
<1>0. PICK n : n = len'
  OBVIOUS
<1>u. pos \in Nat \ {0} /\ m \in Nat \ {0, 1} /\ Len(PerPage) \in Nat /\ pos \in 1..Len(PerPage)
  BY <1>m, HeapTyped
<1>1. ClassPage(pos) \in Uses /\ ClassPage(pos) = [kind |-> "class", arg |-> pos]
  BY <1>u DEF ClassPage, Uses
<1>2. /\ GetPage(ClassPage(pos)) /\ live' = live \cup {b} /\ lost' = lost
      /\ small' = [small EXCEPT ![pos] = s]
  BY <1>p, <1>b, <1>m, <1>s DEF MallocSmall
<1>3. /\ p \in 0..MaxPages - 1 /\ p \in 0..n - 1
      /\ n \in Nat /\ len <= n /\ n <= MaxPages /\ 0..n - 1 = (0..len - 1) \cup {p}
      /\ Parted(n, Held, SeqSet(pages'), ClassPages \cup {p}, lost)
      /\ p \notin Held /\ p \notin ClassPages
      /\ pages' \in Seq(0..n - 1) /\ Increases(pages')
      /\ info' \in [0..MaxPages - 1 -> Uses] /\ info'[p] = ClassPage(pos)
      /\ \A q \in 0..MaxPages - 1 : q # p => info'[q] = info[q]
  BY <1>p, <1>0, <1>1, <1>2, GetPageIs
<1>4. s \in Seq(Nat \X Nat) /\ Ascends(s) /\ SeqSet(s) = {p} \X (1..m - 1)
  <2>1. p \in Nat /\ m \in Nat \ {0}
    BY <1>u, <1>3
  <2> QED
    BY <1>s, <2>1, FreshList
<1>5. b.kind = "class" /\ b.n = pos /\ b.at = <<p, 0>> /\ b.at[1] = p
  BY <1>b
<1>6. Held \cup ClassPages \subseteq 0..len - 1 /\ 0..len - 1 \subseteq 0..MaxPages - 1
  <2>1. Held \cup ClassPages \subseteq 0..len - 1
    BY PartedNow DEF Parted
  <2>2. 0..len - 1 \subseteq 0..MaxPages - 1
    BY HeapTyped
  <2> QED
    BY <2>1, <2>2
<1>7. \A q \in Held \cup ClassPages : info'[q] = info[q]
  BY <1>3, <1>6
<1>8. \A c \in live' : Tagged(c)'
  <2>1. Tagged(b)'
    <3>1. b \in [kind : {"class", "page", "big"}, at : Nat \X Nat, n : Nat \ {0}]
      BY <1>b, <1>u, <1>3
    <3>2. p < n
      BY <1>3
    <3> QED
      BY <1>0, <1>1, <1>3, <1>5, <3>1, <3>2 DEF Tagged
  <2>2. \A c \in live : Tagged(c)'
    BY <1>0, <1>3, <1>7, AllStayTagged
  <2> QED
    BY <1>2, <2>1, <2>2
<1>9. ClassPages' = ClassPages \cup {p}
  <2>1. ClassPages' = {q \in 0..n - 1 : info'[q].kind = "class"}
    BY <1>0 DEF ClassPages
  <2>2. \A q \in 0..len - 1 : q # p => info'[q] = info[q]
    BY <1>3, <1>6
  <2>3. info'[p].kind = "class"
    BY <1>1, <1>3
  <2> QED
    BY <1>3, <2>1, <2>2, <2>3 DEF ClassPages
<1>10. Held' = Held
  <2>1. {c \in live' : c.kind # "class"} = {c \in live : c.kind # "class"}
    BY <1>2, <1>5
  <2> QED
    BY <2>1 DEF Held
<1>11. OneOwner'
  <2>1. \A x, y \in live' : x # y /\ x.kind # "class" /\ y.kind # "class"
           => BlockPages(x) \cap BlockPages(y) = {}
    <3>1. \A x \in live' : x.kind # "class" => x \in live
      BY <1>2, <1>5
    <3> QED
      BY <3>1 DEF HeapInv, OneOwner
  <2> QED
    BY <1>0, <1>2, <1>3, <1>9, <1>10, <2>1 DEF OneOwner, Parted
<1>12. small \in [Classes -> Seq(Nat \X Nat)] /\ IsFiniteSet(live) /\ len \in Len(PerPage)..MaxPages
  BY DEF HeapInv, HeapTypes
<1>13. HeapTypes'
  <2>1. n \in Len(PerPage)..MaxPages
    BY <1>3, <1>12
  <2>2. IsFiniteSet(live')
    BY <1>2, <1>12, FS_AddElement
  <2>3. small' \in [Classes -> Seq(Nat \X Nat)]
    BY <1>2, <1>4, <1>12
  <2>4. lost' \subseteq 0..n - 1
    BY <1>2, <1>3 DEF Parted
  <2> QED
    BY <1>0, <1>3, <2>1, <2>2, <2>3, <2>4 DEF HeapTypes, Uses
<1>14. PagesOfClass(pos)' = PagesOfClass(pos) \cup {p}
  <2>1. PagesOfClass(pos)' = {q \in ClassPages \cup {p} : info'[q].arg = pos}
    BY <1>9 DEF PagesOfClass
  <2> QED
    BY <1>1, <1>3, <1>7, <2>1 DEF PagesOfClass
<1>15. ClassSound(pos)'
  <2>1. ClassSound(pos) /\ Listed(pos) = {}
    BY EmptySeq DEF HeapInv, Listed, SeqSet
  <2>2. small'[pos] = s /\ Listed(pos)' = {p} \X (1..m - 1)
    BY <1>2, <1>4, <1>12 DEF Listed
  <2>3. Given(pos)' = Given(pos) \cup {<<p, 0>>}
    BY <1>2, <1>5 DEF Given
  <2>4. Cells(pos)' = Cells(pos) \cup ({p} \X (0..m - 1))
    BY <1>14, <1>m DEF Cells
  <2>5. {p} \X (0..m - 1) = ({p} \X (1..m - 1)) \cup {<<p, 0>>} /\ <<p, 0>> \notin {p} \X (1..m - 1)
    BY <1>u
  <2>6. \A x \in Cells(pos) : x[1] # p
    BY <1>3 DEF Cells, PagesOfClass
  <2>7. \A x \in {p} \X (0..m - 1) : x[1] = p
    OBVIOUS
  <2>8. Cells(pos) \cap ({p} \X (0..m - 1)) = {}
    BY <2>6, <2>7
  <2>9. Cells(pos) = {<<pos - 1, 0>>} \cup Given(pos) /\ <<pos - 1, 0>> \notin Given(pos)
    BY <2>1 DEF ClassSound
  <2> QED
    BY <1>4, <2>2, <2>3, <2>4, <2>5, <2>8, <2>9 DEF ClassSound
<1>16. ASSUME NEW q \in Classes, q # pos PROVE ClassSound(q)'
  <2>1. ClassSound(q)
    BY DEF HeapInv
  <2>2. small'[q] = small[q]
    BY <1>2, <1>12, <1>16
  <2>3. PagesOfClass(q)' = PagesOfClass(q)
    <3>1. PagesOfClass(q)' = {r \in ClassPages \cup {p} : info'[r].arg = q}
      BY <1>9 DEF PagesOfClass
    <3> QED
      BY <1>1, <1>3, <1>7, <1>16, <3>1 DEF PagesOfClass
  <2>4. Cells(q)' = Cells(q)
    BY <2>3 DEF Cells
  <2>5. {c \in live' : c.kind = "class" /\ c.n = q} = {c \in live : c.kind = "class" /\ c.n = q}
    BY <1>2, <1>5, <1>16
  <2>6. Given(q)' = Given(q)
    BY <2>5 DEF Given
  <2>7. Listed(q)' = Listed(q)
    BY <2>2 DEF Listed, SeqSet
  <2> QED
    BY <2>1, <2>2, <2>4, <2>6, <2>7 DEF ClassSound
<1>17. \A q \in Classes : ClassSound(q)'
  BY <1>15, <1>16
<1> QED
  BY <1>3, <1>8, <1>11, <1>13, <1>17 DEF HeapInv

LEMMA BigIs ==
  ASSUME NEW n \in BigSizes
  PROVE  n \in Nat \ {0, 1} /\ Big(n) = [kind |-> "big", arg |-> n] /\ Big(n) \in Uses /\ BigTail \in Uses
         /\ Big(n).kind = "big" /\ BigTail.kind = "big"
  BY MemAssumption DEF Big, BigTail, Uses

\* bigfind keeps the invariant when nobody had the pages it hands out and it
\* keeps the entries of the others.
LEMMA BigStep ==
  ASSUME HeapInv, NEW n \in BigSizes, NEW p \in Nat, TakeBig(n, p),
         NEW m \in Nat, len' = m, len <= m, m <= MaxPages, p + n <= m,
         info' \in [0..MaxPages - 1 -> Uses], info'[p] = Big(n),
         \A q \in Held \cup ClassPages : info'[q] = info[q],
         \A q \in 0..m - 1 : q \notin ClassPages => info'[q].kind # "class",
         pages' \in Seq(0..m - 1), Increases(pages'),
         (p..p + n - 1) \cap Held = {},
         Parted(m, Held \cup (p..p + n - 1), SeqSet(pages'), ClassPages, lost')
  PROVE  HeapInv'
<1>b. PICK b : b = [kind |-> "big", at |-> <<p, 0>>, n |-> n]
  OBVIOUS
<1>0. n \in Nat \ {0} /\ Big(n) = [kind |-> "big", arg |-> n]
  BY BigIs
<1>1. live' = live \cup {b} /\ small' = small
  BY <1>b DEF TakeBig
<1>2. b.kind = "big" /\ b.at[1] = p /\ b.n = n /\ b \in [kind : {"class", "page", "big"}, at : Nat \X Nat, n : Nat \ {0}]
  BY <1>b, <1>0
<1>3. BlockPages(b) = p..p + n - 1
  BY <1>2 DEF BlockPages
<1>4. /\ Held' = Held \cup (p..p + n - 1)
      /\ {c \in live' : c.kind = "class"} = {c \in live : c.kind = "class"}
      /\ \A x, y \in live' : x # y /\ x.kind # "class" /\ y.kind # "class"
            => BlockPages(x) \cap BlockPages(y) = {}
  <2>1. b.kind # "class" /\ BlockPages(b) \cap Held = {}
    BY <1>2, <1>3
  <2> QED
    BY <1>1, <1>3, <2>1, HeldMore
<1>5. \A c \in live' : Tagged(c)'
  <2>1. Tagged(b)'
    BY <1>0, <1>2 DEF Tagged
  <2>2. \A c \in live : Tagged(c)'
    BY AllStayTagged
  <2> QED
    BY <1>1, <2>1, <2>2
<1>6. IsFiniteSet(live')
  BY <1>1, FS_AddElement DEF HeapInv, HeapTypes
<1> QED
  BY <1>1, <1>4, <1>5, <1>6, PageStep

\* The entries that bigfind writes.
LEMMA InfoBigIs ==
  ASSUME HeapInv, NEW n \in BigSizes, NEW p \in 0..MaxPages - 1, NEW first \in Nat, NEW last \in Int,
         info' = InfoBig(p, n, first, last)
  PROVE  /\ info' \in [0..MaxPages - 1 -> Uses] /\ info'[p] = Big(n)
         /\ \A q \in 0..MaxPages - 1 : q # p /\ q \notin first..last => info'[q] = info[q]
         /\ \A q \in 0..MaxPages - 1 : q = p \/ q \in first..last => info'[q].kind = "big"
<1>1. info \in [0..MaxPages - 1 -> Uses] /\ DOMAIN info = 0..MaxPages - 1
  BY HeapTyped DEF HeapInv, HeapTypes, Uses
<1>2. info' = [q \in 0..MaxPages - 1 |-> IF q = p THEN Big(n) ELSE IF q \in first..last THEN BigTail ELSE info[q]]
  BY <1>1 DEF InfoBig
<1> QED
  BY <1>1, <1>2, BigIs

\* The pages of a run are the numbers from its first page on.
LEMMA RunPages ==
  ASSUME HeapInv, NEW i \in 1..Len(pages), NEW n \in Nat \ {0}, RunAt(i, n)
  PROVE  /\ {pages[j] : j \in i..i + n - 1} = pages[i]..pages[i] + n - 1
         /\ i + n - 1 <= Len(pages) /\ pages[i + n - 1] = pages[i] + n - 1 /\ pages[i] \in 0..len - 1
<1>0. Len(pages) \in Nat /\ len \in Nat /\ \A j \in 1..Len(pages) : pages[j] \in 0..len - 1
  BY HeapTyped, LenProperties, ElementOfSeq
<1>1. i + n - 1 <= Len(pages) /\ \A k \in 1..n - 1 : pages[i + k] = pages[i] + k
  BY DEF RunAt
<1>2. ASSUME NEW j \in i..i + n - 1 PROVE pages[j] = pages[i] + (j - i)
  <2>1. CASE j = i
    BY <1>0, <2>1
  <2>2. CASE j # i
    <3>1. j - i \in 1..n - 1 /\ i + (j - i) = j
      BY <1>0, <2>2
    <3> QED
      BY <1>1, <3>1
  <2> QED
    BY <2>1, <2>2
<1>3. pages[i] \in 0..len - 1 /\ pages[i] \in Nat
  BY <1>0
<1>4. ASSUME NEW j \in i..i + n - 1 PROVE pages[j] \in pages[i]..pages[i] + n - 1
  <2>1. pages[j] = pages[i] + (j - i)
    BY <1>2
  <2> QED
    BY <1>0, <1>3, <2>1
<1>5. ASSUME NEW x \in pages[i]..pages[i] + n - 1 PROVE \E j \in i..i + n - 1 : x = pages[j]
  <2>1. i + (x - pages[i]) \in i..i + n - 1 /\ pages[i] + ((i + (x - pages[i])) - i) = x
    BY <1>0, <1>3
  <2>2. pages[i + (x - pages[i])] = pages[i] + ((i + (x - pages[i])) - i)
    BY <1>2, <2>1
  <2> QED
    BY <2>1, <2>2
<1>6. i + n - 1 \in i..i + n - 1 /\ (i + n - 1) - i = n - 1
  BY <1>0
<1>7. pages[i + n - 1] = pages[i] + (n - 1)
  BY <1>2, <1>6
<1>8. pages[i] + (n - 1) = pages[i] + n - 1
  BY <1>3
<1> QED
  BY <1>1, <1>3, <1>4, <1>5, <1>7, <1>8

LEMMA FirstRunIs ==
  ASSUME HeapInv, NEW n \in BigSizes, \E i \in 1..Len(pages) : RunAt(i, n)
  PROVE  FirstRun(n) \in 1..Len(pages) /\ RunAt(FirstRun(n), n)
<1> DEFINE S == {i \in 1..Len(pages) : RunAt(i, n)}
<1>0. Len(pages) \in Nat
  BY HeapTyped, LenProperties
<1>1. S \subseteq Nat /\ S # {}
  BY <1>0
<1>2. PICK i \in S : \A j \in S : i <= j
  <2> HIDE DEF S
  <2> QED
    BY <1>1, SmallestOf
<1>3. ASSUME NEW j \in 1..i - 1, RunAt(j, n) PROVE FALSE
  <2>1. i \in 1..Len(pages)
    OBVIOUS
  <2>2. j \in 1..Len(pages) /\ ~(i <= j)
    BY <1>0, <2>1
  <2>3. j \in S
    BY <1>3, <2>2
  <2> QED
    BY <1>2, <2>2, <2>3
<1>4. i \in 1..Len(pages) /\ RunAt(i, n) /\ \A j \in 1..i - 1 : ~RunAt(j, n)
  BY <1>3
<1> QED
  BY <1>4 DEF FirstRun

LEMMA LastRunIs ==
  ASSUME HeapInv, pages # <<>>
  PROVE  LastRun \in 1..Len(pages) /\ RunAt(LastRun, Len(pages) - LastRun + 1)
<1> DEFINE S == {i \in 1..Len(pages) : RunAt(i, Len(pages) - i + 1)}
<1>0. Len(pages) \in Nat \ {0}
  BY HeapTyped, EmptySeq
<1>1. S \subseteq Nat /\ Len(pages) \in S
  <2>1. RunAt(Len(pages), Len(pages) - Len(pages) + 1)
    BY <1>0 DEF RunAt
  <2> QED
    BY <1>0, <2>1
<1>2. PICK i \in S : \A j \in S : i <= j
  <2> HIDE DEF S
  <2> QED
    BY <1>1, SmallestOf
<1>3. i = 1 \/ ~RunAt(i - 1, Len(pages) - i + 2)
  <2>1. ASSUME i # 1, RunAt(i - 1, Len(pages) - i + 2) PROVE FALSE
    <3>1. i \in 1..Len(pages)
      OBVIOUS
    <3>2. i - 1 \in 1..Len(pages) /\ Len(pages) - (i - 1) + 1 = Len(pages) - i + 2 /\ ~(i <= i - 1)
      BY <1>0, <2>1, <3>1
    <3>3. i - 1 \in S
      BY <2>1, <3>2
    <3> QED
      BY <1>2, <3>2, <3>3
  <2> QED
    BY <2>1
<1>4. i \in 1..Len(pages) /\ RunAt(i, Len(pages) - i + 1) /\ (i = 1 \/ ~RunAt(i - 1, Len(pages) - i + 2))
  BY <1>3
<1> QED
  BY <1>4 DEF LastRun

\* The pages in use, and what a step that changes no others' entries may rely on.
LEMMA InRange ==
  ASSUME HeapInv
  PROVE  /\ Held \cup ClassPages \subseteq 0..len - 1 /\ 0..len - 1 \subseteq 0..MaxPages - 1
         /\ \A q \in 0..len - 1 : q \notin ClassPages => info[q].kind # "class"
<1>1. Held \cup ClassPages \subseteq 0..len - 1
  BY PartedNow DEF Parted
<1>2. 0..len - 1 \subseteq 0..MaxPages - 1
  BY HeapTyped
<1>3. \A q \in 0..len - 1 : q \notin ClassPages => info[q].kind # "class"
  BY DEF ClassPages
<1> QED
  BY <1>1, <1>2, <1>3

\* bigfind with a run in the list.
LEMMA BigFromListKeeps == ASSUME HeapInv, NEW n \in BigSizes, BigFromList(n) PROVE HeapInv'
<1>i. PICK i : i = FirstRun(n)
  OBVIOUS
<1>p. PICK p : p = pages[i]
  OBVIOUS
<1>m. PICK m : m = len
  OBVIOUS
<1>0. /\ m \in Nat /\ m <= MaxPages /\ MaxPages \in Nat /\ pages \in Seq(0..m - 1) /\ pages \in Seq(Nat)
      /\ Len(pages) \in Nat /\ SeqSet(pages) \subseteq 0..m - 1 /\ Increases(pages)
      /\ info \in [0..MaxPages - 1 -> Uses]
  BY <1>m, HeapTyped, SeqSetOf DEF HeapInv, HeapTypes, Uses
<1>1. /\ \E k \in 1..Len(pages) : RunAt(k, n)
      /\ pages' = SubSeq(pages, 1, i - 1) \o SubSeq(pages, i + n, Len(pages))
      /\ info' = [info EXCEPT ![p] = Big(n)]
      /\ TakeBig(n, p) /\ len' = m /\ lost' = lost
  BY <1>i, <1>p, <1>m DEF BigFromList
<1>2. n \in Nat \ {0, 1} /\ Big(n) \in Uses /\ Big(n).kind = "big"
  BY BigIs
<1>3. i \in 1..Len(pages) /\ RunAt(i, n)
  BY <1>i, <1>1, FirstRunIs
<1>4. /\ {pages[j] : j \in i..i + n - 1} = p..p + n - 1
      /\ i + n - 1 <= Len(pages) /\ pages[i + n - 1] = p + n - 1 /\ p \in 0..m - 1
  BY <1>p, <1>m, <1>2, <1>3, RunPages
<1>5. Increases(pages') /\ SeqSet(pages') = SeqSet(pages) \ (p..p + n - 1) /\ pages' \in Seq(0..m - 1)
  <2>1. Without(pages', pages, i, n)
    BY <1>0, <1>1, <1>2, <1>3, <1>4, CutOutIs
  <2>2. n \in 0..Len(pages) /\ i \in 1..Len(pages) - n + 1
    BY <1>0, <1>2, <1>3, <1>4
  <2>3. Increases(pages') /\ SeqSet(pages') = SeqSet(pages) \ {pages[j] : j \in i..i + n - 1}
    BY <1>0, <2>1, <2>2, WithoutIs
  <2>4. pages' \in Seq(Nat)
    BY <2>1 DEF Without
  <2>5. SeqSet(pages') \subseteq 0..m - 1
    BY <1>0, <2>3
  <2>6. pages' \in Seq(0..m - 1)
    BY <2>4, <2>5, InSeq
  <2> QED
    BY <1>4, <2>3, <2>6
<1>6. p..p + n - 1 \subseteq SeqSet(pages)
  <2>1. \A j \in i..i + n - 1 : j \in 1..Len(pages)
    BY SMTT(40), <1>0, <1>2, <1>3, <1>4
  <2>2. {pages[j] : j \in i..i + n - 1} \subseteq SeqSet(pages)
    BY <2>1 DEF SeqSet
  <2> QED
    BY <1>4, <2>2
<1>7. Parted(m, Held, SeqSet(pages), ClassPages, lost)
  BY <1>m, PartedNow
<1>8. (p..p + n - 1) \cap Held = {} /\ (p..p + n - 1) \cap ClassPages = {}
  BY <1>6, <1>7 DEF Parted
<1>9. Parted(m, Held \cup (p..p + n - 1), SeqSet(pages'), ClassPages, lost')
  BY <1>1, <1>5, <1>6, <1>7 DEF Parted
<1>10. p + n <= m
  <2>1. p + n - 1 \in p..p + n - 1
    BY <1>2, <1>4
  <2>2. p + n - 1 \in 0..m - 1
    BY <1>0, <1>6, <2>1
  <2> QED
    BY <1>0, <1>2, <1>4, <2>2
<1>11. /\ Held \cup ClassPages \subseteq 0..m - 1 /\ 0..m - 1 \subseteq 0..MaxPages - 1
       /\ \A q \in 0..m - 1 : q \notin ClassPages => info[q].kind # "class"
  BY <1>m, InRange
<1>12. p \in p..p + n - 1 /\ p \in 0..MaxPages - 1 /\ p \in Nat
  BY <1>2, <1>4, <1>11
<1>13. info' \in [0..MaxPages - 1 -> Uses] /\ info'[p] = Big(n) /\ \A q \in 0..MaxPages - 1 : q # p => info'[q] = info[q]
  BY <1>0, <1>1, <1>2, <1>12
<1>14. \A q \in Held \cup ClassPages : info'[q] = info[q]
  BY <1>8, <1>11, <1>12, <1>13
<1>15. \A q \in 0..m - 1 : q \notin ClassPages => info'[q].kind # "class"
  BY <1>2, <1>11, <1>13
<1>16. len <= m
  BY <1>m, <1>0
<1> QED
  BY <1>0, <1>1, <1>5, <1>8, <1>9, <1>10, <1>12, <1>13, <1>14, <1>15, <1>16, BigStep

\* bigfind on an empty list.
LEMMA BigFromEmptyKeeps == ASSUME HeapInv, NEW n \in BigSizes, BigFromEmpty(n) PROVE HeapInv'
<1>p. PICK p : p = len
  OBVIOUS
<1>m. PICK m : m = len + n
  OBVIOUS
<1>0. /\ p \in Nat /\ MaxPages \in Nat /\ pages \in Seq(0..p - 1) /\ Increases(pages)
  BY <1>p, HeapTyped DEF HeapInv
<1>1. /\ pages' = pages /\ m <= MaxPages /\ len' = m /\ m = p + n
      /\ info' = InfoBig(p, n, p, p + n - 1) /\ TakeBig(n, p) /\ lost' = lost
  BY <1>p, <1>m DEF BigFromEmpty
<1>2. n \in Nat \ {0, 1}
  BY BigIs
<1>3. m \in Nat /\ p <= m /\ p \in 0..MaxPages - 1 /\ p + n - 1 \in Int /\ p \in p..p + n - 1
  BY <1>0, <1>1, <1>2
<1>4. (0..m - 1 = (0..p - 1) \cup (p..p + n - 1)) /\ (0..p - 1) \cap (p..p + n - 1) = {}
  <2>1. (0..m - 1 = (0..p - 1) \cup (p..m - 1)) /\ (0..p - 1) \cap (p..m - 1) = {}
    BY <1>0, <1>3, Upwards
  <2>2. m = p + n
    BY <1>1
  <2>3. p..m - 1 = p..p + n - 1
    BY <1>0, <1>2, <2>2
  <2> QED
    BY <2>1, <2>3
<1>5. Parted(p, Held, SeqSet(pages), ClassPages, lost)
  BY <1>p, PartedNow
<1>6. /\ Parted(m, Held \cup (p..p + n - 1), SeqSet(pages'), ClassPages, lost')
      /\ (p..p + n - 1) \cap Held = {} /\ (p..p + n - 1) \cap ClassPages = {}
  BY <1>1, <1>4, <1>5 DEF Parted
<1>7. pages' \in Seq(0..m - 1) /\ Increases(pages')
  <2>1. 0..p - 1 \subseteq 0..m - 1
    BY <1>4
  <2> QED
    BY <1>0, <1>1, <2>1, SeqMonotonic
<1>8. /\ info' \in [0..MaxPages - 1 -> Uses] /\ info'[p] = Big(n)
      /\ \A q \in 0..MaxPages - 1 : q # p /\ q \notin p..p + n - 1 => info'[q] = info[q]
      /\ \A q \in 0..MaxPages - 1 : q = p \/ q \in p..p + n - 1 => info'[q].kind = "big"
  BY <1>0, <1>1, <1>3, InfoBigIs
<1>9. /\ Held \cup ClassPages \subseteq 0..p - 1 /\ 0..p - 1 \subseteq 0..MaxPages - 1
      /\ \A q \in 0..p - 1 : q \notin ClassPages => info[q].kind # "class"
  BY <1>p, InRange
<1>10. \A q \in Held \cup ClassPages : info'[q] = info[q]
  BY <1>3, <1>6, <1>8, <1>9
<1>11. 0..m - 1 \subseteq 0..MaxPages - 1
  BY <1>0, <1>1, <1>3
<1>12. \A q \in 0..m - 1 : q \notin ClassPages => info'[q].kind # "class"
  <2>1. ASSUME NEW q \in 0..m - 1, q \notin ClassPages PROVE info'[q].kind # "class"
    <3>1. CASE q \in p..p + n - 1
      BY <1>8, <1>11, <3>1
    <3>2. CASE q \notin p..p + n - 1
      <4>1. q \in 0..p - 1 /\ q # p /\ q \in 0..MaxPages - 1
        BY <1>3, <1>4, <1>11, <3>2
      <4> QED
        BY <1>8, <1>9, <2>1, <3>2, <4>1
    <3> QED
      BY <3>1, <3>2
  <2> QED
    BY <2>1
<1>13. len <= m /\ p + n <= m
  BY <1>p, <1>1, <1>3
<1> QED
  BY <1>0, <1>1, <1>3, <1>6, <1>7, <1>8, <1>10, <1>12, <1>13, BigStep

\* The run at the end of the list: the h pages from p on, at position k.
LastRunAt(k, p, h) ==
    /\ k \in 1..Len(pages) /\ h \in Nat \ {0} /\ RunAt(k, h) /\ Len(pages) \in Nat
    /\ p \in 0..len - 1 /\ p + h <= len /\ pages[Len(pages)] = p + h - 1
    /\ p..p + h - 1 \subseteq SeqSet(pages)
    /\ {pages[i] : i \in k..Len(pages)} = p..p + h - 1
    /\ Increases(SubSeq(pages, 1, k - 1))
    /\ SubSeq(pages, 1, k - 1) \in Seq(0..len - 1)
    /\ SeqSet(SubSeq(pages, 1, k - 1)) = SeqSet(pages) \ (p..p + h - 1)

LEMMA CutLastRun ==
  ASSUME HeapInv, pages # <<>>, NEW k, k = LastRun, NEW p, p = pages[k], NEW h, h = Len(pages) - k + 1
  PROVE  LastRunAt(k, p, h)
<1>0. /\ len \in Nat /\ pages \in Seq(0..len - 1) /\ pages \in Seq(Nat) /\ Len(pages) \in Nat
      /\ SeqSet(pages) \subseteq 0..len - 1 /\ Increases(pages)
  BY HeapTyped, SeqSetOf DEF HeapInv
<1>1. k \in 1..Len(pages) /\ RunAt(k, h)
  BY LastRunIs
<1>2. h \in Nat \ {0} /\ k + h - 1 = Len(pages) /\ h \in 0..Len(pages) /\ k \in 1..Len(pages) - h + 1
  BY <1>0, <1>1
<1>3. /\ {pages[j] : j \in k..k + h - 1} = p..p + h - 1
      /\ pages[k + h - 1] = p + h - 1 /\ p \in 0..len - 1
  BY <1>1, <1>2, RunPages
<1>4. p..p + h - 1 \subseteq SeqSet(pages)
  <2>1. \A j \in k..k + h - 1 : j \in 1..Len(pages)
    BY <1>0, <1>1, <1>2
  <2>2. {pages[j] : j \in k..k + h - 1} \subseteq SeqSet(pages)
    BY <2>1 DEF SeqSet
  <2> QED
    BY <1>3, <2>2
<1>5. p + h <= len
  <2>1. p + h - 1 \in p..p + h - 1
    BY <1>2, <1>3
  <2>2. p + h - 1 \in 0..len - 1
    BY <1>0, <1>4, <2>1
  <2> QED
    BY SMTT(40), <1>0, <1>2, <1>3, <2>2
<1>6. PICK v : v = SubSeq(pages, 1, k - 1)
  OBVIOUS
<1>7. Without(v, pages, k, h)
  BY <1>0, <1>1, <1>6, PrefixIs
<1>8. Increases(v) /\ SeqSet(v) = SeqSet(pages) \ {pages[j] : j \in k..k + h - 1}
  BY <1>0, <1>2, <1>7, WithoutIs
<1>9. v \in Seq(0..len - 1)
  <2>1. v \in Seq(Nat) /\ SeqSet(v) \subseteq 0..len - 1
    BY <1>0, <1>7, <1>8 DEF Without
  <2> QED
    BY <2>1, InSeq
<1> QED
  BY <1>0, <1>1, <1>2, <1>3, <1>4, <1>5, <1>6, <1>8, <1>9 DEF LastRunAt

\* bigfind extends the last run.
LEMMA BigExtendKeeps == ASSUME HeapInv, NEW n \in BigSizes, BigExtend(n) PROVE HeapInv'
<1>k. PICK k : k = LastRun
  OBVIOUS
<1>p. PICK p : p = pages[k]
  OBVIOUS
<1>h. PICK h : h = Len(pages) - k + 1
  OBVIOUS
<1>l. PICK l : l = len
  OBVIOUS
<1>m. PICK m : m = l + n - h
  OBVIOUS
<1>1. /\ NoRun(n) /\ AtTop /\ m <= MaxPages /\ len' = m
      /\ info' = InfoBig(p, n, l, m - 1) /\ TakeBig(n, p) /\ lost' = lost
      /\ pages' = SubSeq(pages, 1, k - 1)
  <2> DEFINE have == Len(pages) - LastRun + 1
  <2>1. /\ NoRun(n) /\ AtTop /\ len + n - have <= MaxPages /\ len' = len + n - have
        /\ info' = InfoBig(pages[LastRun], n, len, len + n - have - 1)
        /\ TakeBig(n, pages[LastRun]) /\ lost' = lost /\ pages' = SubSeq(pages, 1, LastRun - 1)
    BY Zenon DEF BigExtend
  <2>2. have = h /\ have \in Int /\ len \in Int /\ n \in Int
    <3>1. LastRun \in 1..Len(pages) /\ Len(pages) \in Nat
      BY <2>1, HeapTyped, LenProperties, LastRunIs DEF NoRun
    <3>2. have \in Int
      BY <3>1
    <3>3. have = h
      BY <1>k, <1>h, Zenon
    <3> QED
      BY <3>2, <3>3, HeapTyped, BigIs
  <2> HIDE DEF have
  <2>3. len + n - have = m
    BY <1>l, <1>m, <2>2, Zenon
  <2>4. m <= MaxPages /\ len' = m
    BY <2>1, <2>3
  <2>5. info' = InfoBig(p, n, l, m - 1)
    <3>1. pages[LastRun] = p
      BY <1>k, <1>p
    <3>2. PICK t : t = len + n - have - 1
      OBVIOUS
    <3>3. t = m - 1
      BY <2>2, <2>3, <3>2
    <3>4. info' = InfoBig(pages[LastRun], n, len, t)
      BY <2>1, <3>2
    <3> QED
      BY <1>l, <3>1, <3>3, <3>4
  <2>6. TakeBig(n, p) /\ pages' = SubSeq(pages, 1, k - 1)
    BY <1>k, <1>p, <2>1
  <2> QED
    BY <2>1, <2>4, <2>5, <2>6
<1>2. n \in Nat \ {0, 1} /\ l \in Nat /\ MaxPages \in Nat /\ l <= MaxPages
  BY <1>l, BigIs, HeapTyped
<1>3. pages # <<>>
  BY <1>1 DEF NoRun
<1>4. /\ k \in 1..Len(pages) /\ h \in Nat \ {0} /\ RunAt(k, h) /\ Len(pages) \in Nat
      /\ p \in 0..l - 1 /\ p + h <= l /\ pages[Len(pages)] = p + h - 1
      /\ p..p + h - 1 \subseteq SeqSet(pages)
      /\ Increases(pages') /\ pages' \in Seq(0..l - 1)
      /\ SeqSet(pages') = SeqSet(pages) \ (p..p + h - 1)
  <2>1. LastRunAt(k, p, h)
    BY <1>k, <1>p, <1>h, <1>3, CutLastRun
  <2> QED
    BY <1>l, <1>1, <2>1 DEF LastRunAt
<1>5. p + h = l
  <2>1. p + h - 1 = l - 1
    BY <1>l, <1>1, <1>4 DEF AtTop
  <2> QED
    BY <1>2, <1>4, <2>1
<1>6. h < n
  <2>1. ASSUME n <= h PROVE FALSE
    <3>1. k + n - 1 <= Len(pages)
      BY <1>h, <1>2, <1>4, <2>1
    <3>2. \A j \in 1..h - 1 : pages[k + j] = pages[k] + j
      BY <1>4 DEF RunAt
    <3>3. \A j \in 1..n - 1 : j \in 1..h - 1
      BY <1>2, <1>4, <2>1
    <3>4. RunAt(k, n)
      BY <3>1, <3>2, <3>3 DEF RunAt
    <3> QED
      BY <1>1, <1>4, <3>4 DEF NoRun
  <2> QED
    BY <1>2, <1>4, <2>1
<1>7. m \in Nat /\ l <= m /\ m = p + n /\ p \in Nat
  BY <1>m, <1>2, <1>4, <1>5, <1>6
<1>8. (0..m - 1 = (0..l - 1) \cup (l..m - 1)) /\ (0..l - 1) \cap (l..m - 1) = {}
  BY <1>2, <1>7, Upwards
<1>9. p..p + n - 1 = (p..p + h - 1) \cup (l..m - 1)
  BY <1>2, <1>4, <1>5, <1>6, <1>7
<1>10. Parted(l, Held, SeqSet(pages), ClassPages, lost)
  BY <1>l, PartedNow
<1>11. /\ Parted(m, Held \cup (p..p + n - 1), SeqSet(pages'), ClassPages, lost')
       /\ (p..p + n - 1) \cap Held = {} /\ (p..p + n - 1) \cap ClassPages = {}
  BY <1>1, <1>4, <1>8, <1>9, <1>10 DEF Parted
<1>12. pages' \in Seq(0..m - 1)
  <2>1. 0..l - 1 \subseteq 0..m - 1
    BY <1>8
  <2> QED
    BY <1>4, <2>1, SeqMonotonic
<1>13. p \in 0..MaxPages - 1 /\ m - 1 \in Int /\ p \in p..p + n - 1 /\ 0..m - 1 \subseteq 0..MaxPages - 1
  BY <1>1, <1>2, <1>4, <1>7
<1>14. /\ info' \in [0..MaxPages - 1 -> Uses] /\ info'[p] = Big(n)
       /\ \A q \in 0..MaxPages - 1 : q # p /\ q \notin l..m - 1 => info'[q] = info[q]
       /\ \A q \in 0..MaxPages - 1 : q = p \/ q \in l..m - 1 => info'[q].kind = "big"
  BY <1>1, <1>2, <1>13, InfoBigIs
<1>15. /\ Held \cup ClassPages \subseteq 0..l - 1 /\ 0..l - 1 \subseteq 0..MaxPages - 1
       /\ \A q \in 0..l - 1 : q \notin ClassPages => info[q].kind # "class"
  BY <1>l, InRange
<1>16. \A q \in Held \cup ClassPages : info'[q] = info[q]
  BY <1>8, <1>11, <1>13, <1>14, <1>15
<1>17. \A q \in 0..m - 1 : q \notin ClassPages => info'[q].kind # "class"
  <2>1. ASSUME NEW q \in 0..m - 1, q \notin ClassPages PROVE info'[q].kind # "class"
    <3>1. CASE q = p \/ q \in l..m - 1
      BY <1>13, <1>14, <3>1
    <3>2. CASE q # p /\ q \notin l..m - 1
      <4>1. q \in 0..l - 1 /\ q \in 0..MaxPages - 1
        BY <1>8, <1>13, <3>2
      <4> QED
        BY <1>14, <1>15, <2>1, <3>2, <4>1
    <3> QED
      BY <3>1, <3>2
  <2> QED
    BY <2>1
<1>18. len <= m /\ p + n <= m
  BY <1>l, <1>7
<1> QED
  BY <1>1, <1>4, <1>7, <1>11, <1>12, <1>14, <1>16, <1>17, <1>18, BigStep

\* bigfind takes new pages, one more than it hands out.
LEMMA BigFreshKeeps == ASSUME HeapInv, NEW n \in BigSizes, BigFresh(n) PROVE HeapInv'
<1>k. PICK k : k = LastRun
  OBVIOUS
<1>r. PICK r : r = pages[k]
  OBVIOUS
<1>h. PICK h : h = Len(pages) - k + 1
  OBVIOUS
<1>p. PICK p : p = len
  OBVIOUS
<1>m. PICK m : m = p + n + 1
  OBVIOUS
<1>1. /\ NoRun(n) /\ m <= MaxPages /\ len' = m
      /\ info' = InfoBig(p, n, p, p + n) /\ TakeBig(n, p)
      /\ \/ pages' = pages /\ lost' = lost \cup {p + n}
         \/ /\ pages' = SubSeq(pages, 1, k - 1)
            /\ lost' = lost \cup {p + n} \cup {pages[i] : i \in k..Len(pages)}
  BY <1>k, <1>p, <1>m DEF BigFresh
<1>2. /\ n \in Nat \ {0, 1} /\ p \in Nat /\ MaxPages \in Nat /\ p <= MaxPages
      /\ pages \in Seq(0..p - 1) /\ Increases(pages)
  BY <1>p, BigIs, HeapTyped DEF HeapInv
<1>3. pages # <<>>
  BY <1>1 DEF NoRun
<1>4. /\ r..r + h - 1 \subseteq SeqSet(pages)
      /\ {pages[i] : i \in k..Len(pages)} = r..r + h - 1
      /\ Increases(SubSeq(pages, 1, k - 1)) /\ SubSeq(pages, 1, k - 1) \in Seq(0..p - 1)
      /\ SeqSet(SubSeq(pages, 1, k - 1)) = SeqSet(pages) \ (r..r + h - 1)
  <2>1. LastRunAt(k, r, h)
    BY <1>k, <1>r, <1>h, <1>3, CutLastRun
  <2> QED
    BY <1>p, <2>1 DEF LastRunAt
<1>5. m \in Nat /\ p <= m /\ p \in 0..MaxPages - 1 /\ p + n \in Int /\ p \in p..p + n - 1 /\ p + n <= m
      /\ 0..m - 1 \subseteq 0..MaxPages - 1
  BY <1>m, <1>1, <1>2
<1>6. (0..m - 1 = (0..p - 1) \cup (p..m - 1)) /\ (0..p - 1) \cap (p..m - 1) = {}
  BY <1>2, <1>5, Upwards
<1>7. p..m - 1 = (p..p + n - 1) \cup {p + n} /\ p + n \notin p..p + n - 1 /\ p..m - 1 = p..p + n
  BY <1>m, <1>2
<1>8. Parted(p, Held, SeqSet(pages), ClassPages, lost)
  BY <1>p, PartedNow
<1>9. (p..p + n - 1) \cap Held = {} /\ (p..p + n) \cap ClassPages = {} /\ (p..p + n) \cap Held = {}
  BY <1>6, <1>7, <1>8 DEF Parted
<1>10. PICK X : /\ X \subseteq SeqSet(pages) /\ SeqSet(pages') = SeqSet(pages) \ X /\ lost' = lost \cup {p + n} \cup X
                /\ Increases(pages') /\ pages' \in Seq(0..p - 1)
  <2>1. CASE pages' = pages /\ lost' = lost \cup {p + n}
    <3>1. {} \subseteq SeqSet(pages) /\ SeqSet(pages') = SeqSet(pages) \ {} /\ lost' = lost \cup {p + n} \cup {}
      BY <2>1
    <3> QED
      BY <1>2, <2>1, <3>1
  <2>2. CASE pages' = SubSeq(pages, 1, k - 1) /\ lost' = lost \cup {p + n} \cup {pages[i] : i \in k..Len(pages)}
    BY <1>4, <2>2
  <2> QED
    BY <1>1, <2>1, <2>2
<1>11. Parted(m, Held \cup (p..p + n - 1), SeqSet(pages'), ClassPages, lost')
  BY <1>6, <1>7, <1>8, <1>10 DEF Parted
<1>12. pages' \in Seq(0..m - 1)
  <2>1. 0..p - 1 \subseteq 0..m - 1
    BY <1>6
  <2> QED
    BY <1>10, <2>1, SeqMonotonic
<1>13. /\ info' \in [0..MaxPages - 1 -> Uses] /\ info'[p] = Big(n)
       /\ \A q \in 0..MaxPages - 1 : q # p /\ q \notin p..p + n => info'[q] = info[q]
       /\ \A q \in 0..MaxPages - 1 : q = p \/ q \in p..p + n => info'[q].kind = "big"
  BY <1>1, <1>2, <1>5, InfoBigIs
<1>14. /\ Held \cup ClassPages \subseteq 0..p - 1 /\ 0..p - 1 \subseteq 0..MaxPages - 1
       /\ \A q \in 0..p - 1 : q \notin ClassPages => info[q].kind # "class"
  BY <1>p, InRange
<1>15. p \in p..p + n
  BY <1>2
<1>16. \A q \in Held \cup ClassPages : info'[q] = info[q]
  BY <1>9, <1>13, <1>14, <1>15
<1>17. \A q \in 0..m - 1 : q \notin ClassPages => info'[q].kind # "class"
  <2>1. ASSUME NEW q \in 0..m - 1, q \notin ClassPages PROVE info'[q].kind # "class"
    <3>1. CASE q \in p..p + n
      BY <1>5, <1>13, <3>1
    <3>2. CASE q \notin p..p + n
      <4>1. q \in 0..p - 1 /\ q \in 0..MaxPages - 1 /\ q # p
        BY <1>5, <1>6, <1>7, <1>15, <3>2
      <4> QED
        BY <1>13, <1>14, <2>1, <3>2, <4>1
    <3> QED
      BY <3>1, <3>2
  <2> QED
    BY <2>1
<1>18. len <= m
  BY <1>p, <1>5
<1> QED
  BY <1>1, <1>2, <1>5, <1>9, <1>10, <1>11, <1>12, <1>13, <1>16, <1>17, <1>18, BigStep

\* mm_free of a small block.
LEMMA FreeSmallKeeps ==
  ASSUME HeapInv, NEW b \in live, b.kind = "class", MemFree(b)
  PROVE  HeapInv'
<1>0. PICK pos : pos = b.n
  OBVIOUS
<1>1. /\ b.at \in Nat \X Nat /\ info[b.at[1]] = [kind |-> "class", arg |-> pos] /\ pos \in Classes
      /\ b.at \in Given(pos) /\ ClassSound(pos)
  BY <1>0, SmallBlock DEF HeapInv, Tagged
<1>2. PICK s : s = Insert(small[pos], b.at)
  OBVIOUS
<1>3. /\ live' = live \ {b} /\ small' = [small EXCEPT ![pos] = s]
      /\ len' = len /\ info' = info /\ pages' = pages /\ lost' = lost
  <2>1. info[b.at[1]].kind = "class" /\ info[b.at[1]].arg = pos
    BY <1>1
  <2>2. live' = live \ {b} /\ small' = [small EXCEPT ![pos] = Insert(@, b.at)] /\ info' = info /\ pages' = pages
    BY <2>1 DEF MemFree
  <2>3. len' = len /\ lost' = lost
    BY DEF MemFree
  <2> QED
    BY <1>2, <2>2, <2>3
<1>4. small[pos] \in Seq(Nat \X Nat) /\ small \in [Classes -> Seq(Nat \X Nat)]
  BY <1>1 DEF HeapInv, HeapTypes
<1>5. b.at \notin Listed(pos) /\ Ascends(small[pos]) /\ b.at # <<pos - 1, 0>>
  BY <1>1 DEF ClassSound
<1>6. s \in Seq(Nat \X Nat) /\ Ascends(s) /\ SeqSet(s) = Listed(pos) \cup {b.at}
  BY <1>1, <1>2, <1>4, <1>5, InsertIs DEF Listed
<1>7. \A c \in live' : Tagged(c)'
  BY <1>3, HeapTyped, AllStayTagged
<1>8. ASSUME NEW c \in live, c.kind = "class", c.at = b.at PROVE c = b
  <2>1. /\ b \in [kind : {"class", "page", "big"}, at : Nat \X Nat, n : Nat \ {0}]
        /\ c \in [kind : {"class", "page", "big"}, at : Nat \X Nat, n : Nat \ {0}]
        /\ info[b.at[1]] = [kind |-> b.kind, arg |-> b.n] /\ info[c.at[1]] = [kind |-> c.kind, arg |-> c.n]
    BY DEF HeapInv, Tagged
  <2>2. c.n = b.n
    BY <1>8, <2>1
  <2>3. c.kind = b.kind
    BY <1>8
  <2> QED
    BY <1>8, <2>1, <2>2, <2>3
<1>9. Given(pos)' = Given(pos) \ {b.at}
  <2>1. Given(pos)' = {c.at : c \in {d \in live \ {b} : d.kind = "class" /\ d.n = pos}}
    BY <1>3 DEF Given
  <2> QED
    BY <1>0, <1>8, <2>1 DEF Given
<1>10. small'[pos] = s /\ Listed(pos)' = Listed(pos) \cup {b.at}
  BY <1>1, <1>3, <1>4, <1>6 DEF Listed
<1>11. Cells(pos)' = Cells(pos)
  BY <1>3 DEF Cells, PagesOfClass, ClassPages
<1>12. ClassSound(pos)'
  BY <1>1, <1>5, <1>6, <1>9, <1>10, <1>11 DEF ClassSound
<1>13. /\ {c \in live' : c.kind # "class"} = {c \in live : c.kind # "class"}
       /\ \A q \in Classes : q # pos => {c \in live' : c.kind = "class" /\ c.n = q}
                                          = {c \in live : c.kind = "class" /\ c.n = q}
  BY <1>0, <1>3
<1>14. IsFiniteSet(live')
  BY <1>3, FS_RemoveElement DEF HeapInv, HeapTypes
<1> QED
  BY <1>1, <1>3, <1>6, <1>7, <1>12, <1>13, <1>14, SmallStep

\* mm_free of a page or of a run of pages.
LEMMA FreeWholeKeeps ==
  ASSUME HeapInv, NEW b \in live, b.kind # "class", MemFree(b)
  PROVE  HeapInv'
<1>p. PICK p : p = b.at[1]
  OBVIOUS
<1>n. PICK n : n = b.n
  OBVIOUS
<1>m. PICK m : m = len
  OBVIOUS
<1>0. /\ m \in Nat /\ m <= MaxPages /\ MaxPages \in Nat /\ pages \in Seq(Nat) /\ Increases(pages)
      /\ SeqSet(pages) \subseteq 0..m - 1 /\ info \in [0..MaxPages - 1 -> Uses] /\ DOMAIN info = 0..MaxPages - 1
  BY <1>m, HeapTyped DEF HeapInv, HeapTypes, Uses
<1>1. /\ p \in Nat /\ n \in Nat \ {0} /\ info[p] = [kind |-> b.kind, arg |-> n]
      /\ b.kind \in {"page", "big"} /\ (b.kind = "page" => n = 1) /\ p + n <= m
  BY <1>p, <1>n, <1>m DEF HeapInv, Tagged
<1>2. BlockPages(b) = p..p + n - 1 /\ p..p + n - 1 \subseteq 0..m - 1
  BY <1>p, <1>n, <1>m, WholePages
<1>3. /\ live' = live \ {b} /\ small' = small /\ len' = m /\ lost' = lost
      /\ pages' = InsertRun(pages, p, n)
      /\ info' \in [0..MaxPages - 1 -> Uses]
      /\ \A q \in 0..MaxPages - 1 : q \notin p..p + n - 1 => info'[q] = info[q]
      /\ \A q \in p..p + n - 1 : info'[q].kind # "class"
  <2>1. live' = live \ {b} /\ len' = m /\ lost' = lost
    BY <1>m DEF MemFree
  <2>2. Unused \in Uses /\ Unused.kind # "class"
    BY DEF Unused, Uses
  <2>3. \A q \in p..p + n - 1 : q \in 0..MaxPages - 1
    BY <1>0, <1>1
  <2>4. CASE b.kind = "page"
    <3>1. info[p].kind = "page" /\ info[p].arg = 1 /\ n = 1
      BY <1>1, <2>4
    <3>2. pages' = InsertRun(pages, p, 1) /\ info' = [info EXCEPT ![p] = Unused] /\ small' = small
      BY <1>p, <3>1 DEF MemFree
    <3>3. p..p + n - 1 = {p}
      BY <1>1, <3>1
    <3> QED
      BY <1>0, <2>1, <2>2, <2>3, <3>1, <3>2, <3>3
  <2>5. CASE b.kind = "big"
    <3>1. info[p].kind = "big" /\ info[p].arg = n
      BY <1>1, <2>5
    <3>2. /\ pages' = InsertRun(pages, p, n) /\ small' = small
          /\ info' = [q \in DOMAIN info |-> IF q \in p..p + n - 1 THEN Unused ELSE info[q]]
      BY <1>p, <3>1 DEF MemFree
    <3> QED
      BY <1>0, <2>1, <2>2, <2>3, <3>2
  <2> QED
    BY <1>1, <2>4, <2>5
<1>4. /\ Held' = Held \ (p..p + n - 1) /\ p..p + n - 1 \subseteq Held
      /\ {c \in live' : c.kind = "class"} = {c \in live : c.kind = "class"}
      /\ \A x, y \in live' : x # y /\ x.kind # "class" /\ y.kind # "class"
            => BlockPages(x) \cap BlockPages(y) = {}
  BY <1>2, <1>3, HeldLess
<1>5. Parted(m, Held, SeqSet(pages), ClassPages, lost)
  BY <1>m, PartedNow
<1>6. SeqSet(pages) \cap (p..p + n - 1) = {} /\ ClassPages \cap (p..p + n - 1) = {}
  BY <1>4, <1>5 DEF Parted
<1>7. pages' \in Seq(Nat) /\ Increases(pages') /\ SeqSet(pages') = SeqSet(pages) \cup (p..p + n - 1)
  BY <1>0, <1>1, <1>3, <1>6, InsertRunIs
<1>8. pages' \in Seq(0..m - 1)
  <2>1. SeqSet(pages') \subseteq 0..m - 1
    BY <1>0, <1>2, <1>7
  <2> QED
    BY <1>7, <2>1, InSeq
<1>9. Parted(m, Held', SeqSet(pages'), ClassPages, lost')
  BY <1>3, <1>4, <1>5, <1>7 DEF Parted
<1>10. /\ Held \cup ClassPages \subseteq 0..m - 1 /\ 0..m - 1 \subseteq 0..MaxPages - 1
       /\ \A q \in 0..m - 1 : q \notin ClassPages => info[q].kind # "class"
  BY <1>m, InRange
<1>11. \A q \in ClassPages : info'[q] = info[q]
  BY <1>3, <1>6, <1>10
<1>12. \A q \in 0..m - 1 : q \notin ClassPages => info'[q].kind # "class"
  BY <1>3, <1>10
<1>13. ASSUME NEW c \in live' PROVE Tagged(c)'
  <2>1. c \in live /\ c # b
    BY <1>3
  <2>2. c.at[1] \in 0..m - 1 /\ c.at[1] \notin p..p + n - 1
    <3>1. CASE c.kind = "class"
      BY <1>6, <1>10, <2>1, <3>1, SmallBlock
    <3>2. CASE c.kind # "class"
      <4>1. c.at[1] \in BlockPages(c) /\ BlockPages(c) \subseteq 0..m - 1
        BY <1>m, <2>1, <3>2, WholePages
      <4>2. BlockPages(c) \cap BlockPages(b) = {}
        BY <2>1, <3>2 DEF HeapInv, OneOwner
      <4> QED
        BY <1>2, <4>1, <4>2
    <3> QED
      BY <3>1, <3>2
  <2>3. info'[c.at[1]] = info[c.at[1]]
    BY <1>3, <1>10, <2>2
  <2>4. len' \in Nat /\ len <= len'
    BY <1>m, <1>0, <1>3
  <2> QED
    BY <2>1, <2>3, <2>4, StaysTagged
<1>14. IsFiniteSet(live')
  BY <1>3, FS_RemoveElement DEF HeapInv, HeapTypes
<1>15. len <= m
  BY <1>m, <1>0
<1> QED
  BY <1>0, <1>3, <1>4, <1>7, <1>8, <1>9, <1>11, <1>12, <1>13, <1>14, <1>15, PageStep

\* mm_init: a page for every size class.
LEMMA HeapInit == MemInit => HeapInv
<1> SUFFICES ASSUME MemInit PROVE HeapInv
  OBVIOUS
<1>c. PICK k : k = Len(PerPage)
  OBVIOUS
<1>0. /\ k \in Nat /\ Classes = 1..k /\ k <= MaxPages /\ MaxPages \in Nat
      /\ \A pos \in Classes : PerPage[pos] \in Nat \ {0, 1}
  BY <1>c, MemAssumption, LenProperties, ElementOfSeq DEF Classes
<1>1. /\ len = Cardinality(Classes)
      /\ info = [p \in 0..MaxPages - 1 |-> IF p + 1 \in Classes THEN ClassPage(p + 1) ELSE Unused]
      /\ pages = <<>>
      /\ small = [pos \in Classes |-> [i \in 1..PerPage[pos] - 1 |-> <<pos - 1, i>>]]
      /\ live = {} /\ lost = {}
  BY DEF MemInit
<1>2. len = k
  <2>1. Cardinality(1..k) = IF 1 > k THEN 0 ELSE k - 1 + 1
    BY <1>0, FS_Interval
  <2> QED
    BY <1>0, <1>1, <2>1
<1>3. ASSUME NEW p \in 0..MaxPages - 1
      PROVE  /\ p < k => info[p].kind = "class" /\ info[p].arg = p + 1
             /\ info[p] \in [kind : {"unused", "class", "page", "big"}, arg : Nat]
  <2>1. CASE p < k
    <3>1. p + 1 \in Classes /\ p + 1 \in Nat
      BY <1>0, <2>1
    <3>2. info[p] = [kind |-> "class", arg |-> p + 1]
      BY <1>1, <3>1 DEF ClassPage
    <3> QED
      BY <3>1, <3>2
  <2>2. CASE ~(p < k)
    <3>1. p + 1 \notin Classes
      BY <1>0, <2>2
    <3>2. info[p] = [kind |-> "unused", arg |-> 0]
      BY <1>1, <3>1 DEF Unused
    <3> QED
      BY <2>2, <3>2
  <2> QED
    BY <2>1, <2>2
<1>4. info \in [0..MaxPages - 1 -> [kind : {"unused", "class", "page", "big"}, arg : Nat]]
  <2>1. ASSUME NEW p \in 0..MaxPages - 1 PROVE info[p] \in [kind : {"unused", "class", "page", "big"}, arg : Nat]
    BY <1>3
  <2>2. info = [p \in 0..MaxPages - 1 |-> info[p]]
    BY <1>1
  <2> QED
    BY <2>1, <2>2
<1>5. SeqSet(pages) = {} /\ Increases(pages) /\ pages \in Seq(0..len - 1)
  BY <1>1, EmptySeq DEF SeqSet, Increases
<1>6. Held = {}
  BY <1>1 DEF Held
<1>7. ClassPages = 0..len - 1
  <2>1. \A p \in 0..len - 1 : p \in 0..MaxPages - 1 /\ p < k
    BY <1>0, <1>2
  <2>2. \A p \in 0..len - 1 : info[p].kind = "class"
    BY <1>3, <2>1
  <2> QED
    BY <2>2 DEF ClassPages
<1>8. OneOwner
  BY <1>1, <1>5, <1>6, <1>7 DEF OneOwner
<1>9. ASSUME NEW pos \in Classes
      PROVE  small[pos] \in Seq(Nat \X Nat) /\ ClassSound(pos)
  <2>m. PICK m : m = PerPage[pos]
    OBVIOUS
  <2>p. PICK p : p = pos - 1
    OBVIOUS
  <2>s. PICK s : s = [i \in 1..m - 1 |-> <<p, i>>]
    OBVIOUS
  <2>0. m \in Nat \ {0, 1} /\ p \in Nat /\ p < k /\ pos = p + 1
    BY <1>0, <2>m, <2>p
  <2>1. small[pos] = s
    BY <1>1, <2>m, <2>p, <2>s
  <2>2. s \in Seq(Nat \X Nat) /\ Ascends(s) /\ SeqSet(s) = {p} \X (1..m - 1)
    BY <2>s, <2>0, FreshList
  <2>3. Given(pos) = {}
    BY <1>1 DEF Given
  <2>4. PagesOfClass(pos) = {p}
    <3>1. PagesOfClass(pos) = {q \in 0..len - 1 : info[q].arg = pos}
      BY <1>7 DEF PagesOfClass
    <3>2. \A q \in 0..len - 1 : info[q].arg = q + 1
      <4>1. \A q \in 0..len - 1 : q \in 0..MaxPages - 1 /\ q < k
        BY <1>0, <1>2
      <4> QED
        BY <1>3, <4>1
    <3>3. p \in 0..len - 1
      BY <1>0, <1>2, <2>0
    <3>4. \A q \in 0..len - 1 : info[q].arg = pos <=> q = p
      BY <1>0, <1>2, <2>0, <3>2
    <3> QED
      BY <3>1, <3>3, <3>4
  <2>5. Cells(pos) = {p} \X (0..m - 1)
    BY <2>4, <2>m DEF Cells
  <2>6. {p} \X (0..m - 1) = ({p} \X (1..m - 1)) \cup {<<p, 0>>} /\ <<p, 0>> \notin {p} \X (1..m - 1)
    BY <2>0
  <2> QED
    BY <2>p, <2>1, <2>2, <2>3, <2>5, <2>6 DEF ClassSound, Listed
<1>10. small \in [Classes -> Seq(Nat \X Nat)]
  <2>1. small = [pos \in Classes |-> small[pos]]
    BY <1>1
  <2> QED
    BY <1>9, <2>1
<1>11. HeapTypes
  <2>1. len \in Len(PerPage)..MaxPages
    BY <1>c, <1>0, <1>2
  <2>2. IsFiniteSet(live) /\ lost \subseteq 0..len - 1
    BY <1>1, FS_EmptySet
  <2> QED
    BY <1>4, <1>5, <1>10, <2>1, <2>2 DEF HeapTypes
<1> QED
  BY <1>1, <1>5, <1>8, <1>9, <1>11 DEF HeapInv

\* One case per action.
LEMMA HeapStep == HeapInv /\ [MemNext]_memVars => HeapInv'
<1> SUFFICES ASSUME HeapInv, [MemNext]_memVars PROVE HeapInv'
  OBVIOUS
<1>1. ASSUME NEW pos \in Classes, MallocSmall(pos) PROVE HeapInv'
  BY <1>1, MallocListedKeeps, MallocFreshKeeps
<1>2. ASSUME MallocPage PROVE HeapInv'
  BY <1>2, MallocPageKeeps
<1>3. ASSUME NEW n \in BigSizes, BigFromList(n) \/ BigFromEmpty(n) \/ BigExtend(n) \/ BigFresh(n) PROVE HeapInv'
  BY <1>3, BigFromListKeeps, BigFromEmptyKeeps, BigExtendKeeps, BigFreshKeeps
<1>4. ASSUME NEW b \in live, MemFree(b) PROVE HeapInv'
  BY <1>4, FreeSmallKeeps, FreeWholeKeeps
<1>5. ASSUME UNCHANGED memVars PROVE HeapInv'
  <2>1. len' = len /\ info' = info /\ pages' = pages /\ small' = small /\ live' = live /\ lost' = lost
    BY <1>5 DEF memVars
  <2>2. OneOwner' /\ Increases(pages)'
    BY <2>1, PagesUntouched
  <2>3. ClassPages' = ClassPages
    BY <2>1 DEF ClassPages
  <2>4. \A pos \in Classes : ClassSound(pos)'
    BY <2>1, <2>3, ClassesUntouched
  <2>5. \A b \in live' : Tagged(b)'
    BY <2>1, HeapTyped, AllStayTagged
  <2>6. HeapTypes'
    BY <2>1 DEF HeapInv, HeapTypes
  <2> QED
    BY <2>2, <2>4, <2>5, <2>6 DEF HeapInv
<1> QED
  BY <1>1, <1>2, <1>3, <1>4, <1>5 DEF MemNext

-----------------------------------------------------------------------------
(* What the invariant says of the heap *)

\* Counting: two sets in one-to-one correspondence; a list without repetition;
\* the union of disjoint sets.
LEMMA SameCount ==
  ASSUME NEW S, IsFiniteSet(S), NEW T, NEW f \in [S -> T],
         \A x, y \in S : f[x] = f[y] => x = y, \A z \in T : \E x \in S : f[x] = z
  PROVE  IsFiniteSet(T) /\ Cardinality(T) = Cardinality(S)
<1>1. f \in Injection(S, T)
  BY DEF Injection, IsInjective
<1>2. f \in Surjection(S, T)
  BY DEF Surjection
<1>3. ExistsBijection(S, T)
  BY <1>1, <1>2 DEF ExistsBijection, Bijection
<1> QED
  BY <1>3, FS_Bijection

LEMMA ListCount ==
  ASSUME NEW S, NEW s \in Seq(S), \A i, j \in 1..Len(s) : s[i] = s[j] => i = j
  PROVE  IsFiniteSet(SeqSet(s)) /\ Cardinality(SeqSet(s)) = Len(s)
<1>1. Len(s) \in Nat /\ s \in [1..Len(s) -> S]
  BY LenProperties
<1>2. s \in [1..Len(s) -> SeqSet(s)] /\ \A z \in SeqSet(s) : \E i \in 1..Len(s) : s[i] = z
  BY <1>1 DEF SeqSet
<1>3. IsFiniteSet(1..Len(s)) /\ Cardinality(1..Len(s)) = Len(s)
  <2>1. IsFiniteSet(1..Len(s)) /\ Cardinality(1..Len(s)) = IF 1 > Len(s) THEN 0 ELSE Len(s) - 1 + 1
    BY <1>1, FS_Interval
  <2> QED
    BY <1>1, <2>1
<1> QED
  BY <1>2, <1>3, SameCount

LEMMA DisjointCount ==
  ASSUME NEW S, IsFiniteSet(S), NEW T, IsFiniteSet(T), S \cap T = {}
  PROVE  /\ IsFiniteSet(S \cup T) /\ Cardinality(S \cup T) = Cardinality(S) + Cardinality(T)
         /\ Cardinality(S) \in Nat /\ Cardinality(T) \in Nat
<1>1. Cardinality(S) \in Nat /\ Cardinality(T) \in Nat
  BY FS_CardinalityType
<1>2. Cardinality(S \cap T) = 0
  BY FS_EmptySet
<1>3. IsFiniteSet(S \cup T) /\ Cardinality(S \cup T) = Cardinality(S) + Cardinality(T) - Cardinality(S \cap T)
  BY FS_Union
<1> QED
  BY <1>1, <1>2, <1>3

\* Two blocks at one address are one.
LEMMA OneBlockAt ==
  ASSUME HeapInv, NEW b \in live, NEW c \in live, b.at = c.at
  PROVE  b = c
<1>1. /\ b \in [kind : {"class", "page", "big"}, at : Nat \X Nat, n : Nat \ {0}]
      /\ c \in [kind : {"class", "page", "big"}, at : Nat \X Nat, n : Nat \ {0}]
      /\ info[b.at[1]] = [kind |-> b.kind, arg |-> b.n] /\ info[c.at[1]] = [kind |-> c.kind, arg |-> c.n]
  BY DEF HeapInv, Tagged
<1>2. b.n = c.n /\ b.kind = c.kind
  BY <1>1
<1> QED
  BY <1>1, <1>2

\* No two callers hold the same memory.
LEMMA BlocksDisjoint == HeapInv => Disjoint
<1> SUFFICES ASSUME HeapInv PROVE Disjoint
  OBVIOUS
<1>1. \A b \in live : info[b.at[1]] = [kind |-> b.kind, arg |-> b.n]
  BY DEF HeapInv, Tagged
<1>2. ASSUME NEW b \in live, b.kind = "class"
      PROVE  BlockPages(b) \subseteq ClassPages /\ b.at \notin SeqSet(small[b.n]) /\ b.at # <<b.n - 1, 0>>
  <2>1. b.at[1] \in ClassPages /\ b.n \in Classes /\ b.at \in Given(b.n)
    BY <1>2, SmallBlock
  <2>2. ClassSound(b.n)
    BY <2>1 DEF HeapInv
  <2>3. BlockPages(b) = {b.at[1]}
    BY <1>2 DEF BlockPages
  <2> QED
    BY <2>1, <2>2, <2>3 DEF ClassSound, Listed
<1>3. \A b \in live : b.kind # "class" => BlockPages(b) \subseteq Held
  BY WholePages
<1>4. SeqSet(pages) \cap Held = {} /\ SeqSet(pages) \cap ClassPages = {} /\ Held \cap ClassPages = {}
  BY PartedNow DEF Parted
<1>5. ASSUME NEW b \in live, NEW c \in live, b # c
      PROVE  IF b.kind = "class" /\ c.kind = "class" THEN b.at # c.at ELSE BlockPages(b) \cap BlockPages(c) = {}
  <2>1. CASE b.kind = "class" /\ c.kind = "class"
    BY <1>5, <2>1, OneBlockAt
  <2>2. CASE b.kind = "class" /\ c.kind # "class"
    BY <1>2, <1>3, <1>4, <2>2
  <2>3. CASE b.kind # "class" /\ c.kind = "class"
    BY <1>2, <1>3, <1>4, <2>3
  <2>4. CASE b.kind # "class" /\ c.kind # "class"
    BY <1>5, <2>4 DEF HeapInv, OneOwner
  <2> QED
    BY <2>1, <2>2, <2>3, <2>4
<1>6. \A b \in live : BlockPages(b) \cap SeqSet(pages) = {}
  BY <1>2, <1>3, <1>4
<1> QED
  BY <1>1, <1>2, <1>5, <1>6 DEF Disjoint

\* The blocks of a class, counted: one per page and place.
LEMMA ClassCounted ==
  ASSUME HeapInv, NEW pos \in Classes
  PROVE  Len(small[pos]) + Cardinality({b \in live : b.kind = "class" /\ b.n = pos}) + 1
            = PerPage[pos] * Cardinality({p \in ClassPages : info[p].arg = pos})
<1> DEFINE L == {b \in live : b.kind = "class" /\ b.n = pos}
           P == {p \in ClassPages : info[p].arg = pos}
<1>m. PICK m : m = PerPage[pos]
  OBVIOUS
<1>0. m \in Nat \ {0, 1} /\ len \in Nat /\ small[pos] \in Seq(Nat \X Nat) /\ ClassSound(pos) /\ IsFiniteSet(live)
  BY <1>m, HeapTyped DEF HeapInv, HeapTypes
<1>1. IsFiniteSet(P) /\ Cardinality(P) \in Nat
  <2>1. IsFiniteSet(0..len - 1)
    BY <1>0, FS_Interval
  <2>2. P \in SUBSET (0..len - 1)
    BY DEF ClassPages
  <2> HIDE DEF P
  <2> QED
    BY <2>1, <2>2, FS_Subset, FS_CardinalityType
<1>2. Cells(pos) = P \X (0..m - 1)
  BY <1>m DEF Cells, PagesOfClass
<1>3. IsFiniteSet(Cells(pos)) /\ Cardinality(Cells(pos)) = Cardinality(P) * m
  <2>1. IsFiniteSet(0..m - 1) /\ Cardinality(0..m - 1) = m
    <3>1. 0 \in Int /\ m - 1 \in Int /\ ~(0 > m - 1) /\ m - 1 - 0 + 1 = m
      BY <1>0
    <3> QED
      BY <3>1, FS_Interval
  <2> HIDE DEF P
  <2>2. IsFiniteSet(P \X (0..m - 1)) /\ Cardinality(P \X (0..m - 1)) = Cardinality(P) * Cardinality(0..m - 1)
    BY <1>1, <2>1, FS_Product
  <2> QED
    BY <1>2, <2>1, <2>2
<1>4. IsFiniteSet(Listed(pos)) /\ Cardinality(Listed(pos)) = Len(small[pos])
  <2>1. ASSUME NEW i \in 1..Len(small[pos]), NEW j \in 1..Len(small[pos]), small[pos][i] = small[pos][j]
        PROVE  i = j
    <3>1. Len(small[pos]) \in Nat /\ small[pos][i] \in Nat \X Nat
      BY <1>0, LenProperties, ElementOfSeq
    <3>2. i < j \/ i = j \/ j < i
      BY <3>1
    <3>3. ~Before(small[pos][i], small[pos][i])
      BY <3>1, BeforeIrreflexive
    <3> QED
      BY <1>0, <2>1, <3>2, <3>3 DEF ClassSound, Ascends
  <2> QED
    BY <1>0, <2>1, ListCount DEF Listed
<1>5. IsFiniteSet(L) /\ Cardinality(L) \in Nat
  <2>1. L \in SUBSET live
    OBVIOUS
  <2> HIDE DEF L
  <2> QED
    BY <1>0, <2>1, FS_Subset, FS_CardinalityType
<1>6. IsFiniteSet(Given(pos)) /\ Cardinality(Given(pos)) = Cardinality(L)
  <2> DEFINE f == [b \in L |-> b.at]
  <2>1. Given(pos) = {b.at : b \in L}
    BY DEF Given
  <2>2. L \subseteq live
    OBVIOUS
  <2> HIDE DEF L
  <2>3. f \in [L -> Given(pos)]
    BY <2>1
  <2>4. \A b, c \in L : f[b] = f[c] => b = c
    BY <2>2, OneBlockAt
  <2>5. \A z \in Given(pos) : \E b \in L : f[b] = z
    BY <2>1
  <2> HIDE DEF f
  <2> QED
    BY <1>5, <2>3, <2>4, <2>5, SameCount
<1>7. PICK x : x = <<pos - 1, 0>>
  OBVIOUS
<1>8. Cells(pos) = ({x} \cup Listed(pos)) \cup Given(pos) /\ {x} \cap Listed(pos) = {}
      /\ ({x} \cup Listed(pos)) \cap Given(pos) = {}
  BY <1>0, <1>7 DEF ClassSound
<1>9. IsFiniteSet({x}) /\ Cardinality({x}) = 1
  BY FS_Singleton
<1>10. /\ IsFiniteSet({x} \cup Listed(pos)) /\ Cardinality({x} \cup Listed(pos)) = 1 + Len(small[pos])
       /\ Len(small[pos]) \in Nat
  BY <1>4, <1>8, <1>9, DisjointCount
<1>11. Cardinality(Cells(pos)) = (1 + Len(small[pos])) + Cardinality(L)
  BY <1>6, <1>8, <1>10, DisjointCount
<1>12. Cardinality(P) * m = m * Cardinality(P)
  BY <1>0, <1>1
<1> HIDE DEF L, P
<1>13. Len(small[pos]) + Cardinality(L) + 1 = m * Cardinality(P)
  BY <1>3, <1>5, <1>10, <1>11, <1>12
<1> QED
  BY <1>m, <1>13 DEF L, P

\* Every page is accounted for, once.
LEMMA PagesAccounted == HeapInv => Accounted
<1> SUFFICES ASSUME HeapInv PROVE Accounted
  OBVIOUS
<1>0. /\ len \in Nat /\ pages \in Seq(Nat) /\ Increases(pages) /\ Len(pages) \in Nat
      /\ Parted(len, Held, SeqSet(pages), ClassPages, lost)
  BY HeapTyped, PartedNow, LenProperties DEF HeapInv
<1>1. IsFiniteSet(0..len - 1) /\ Cardinality(0..len - 1) = len
  <2>1. PICK n : n = len - 1
    OBVIOUS
  <2>2. n \in Int /\ len = n + 1 /\ n >= -1
    BY <1>0, <2>1
  <2>3. IsFiniteSet(0..n) /\ Cardinality(0..n) = IF 0 > n THEN 0 ELSE n - 0 + 1
    BY <2>2, FS_Interval, SMT
  <2>4. Cardinality(0..n) = n + 1
    BY <2>2, <2>3
  <2> QED
    BY <2>1, <2>2, <2>3, <2>4
<1>2. /\ Held \in SUBSET (0..len - 1) /\ SeqSet(pages) \in SUBSET (0..len - 1)
      /\ ClassPages \in SUBSET (0..len - 1) /\ lost \in SUBSET (0..len - 1)
  BY <1>0 DEF Parted
<1>3. IsFiniteSet(Held) /\ IsFiniteSet(SeqSet(pages)) /\ IsFiniteSet(ClassPages) /\ IsFiniteSet(lost)
  BY <1>1, <1>2, FS_Subset
<1>4. Cardinality(SeqSet(pages)) = Len(pages)
  <2>1. ASSUME NEW i \in 1..Len(pages), NEW j \in 1..Len(pages), pages[i] = pages[j] PROVE i = j
    <3>1. i < j \/ i = j \/ j < i
      BY <1>0
    <3>2. pages[i] \in Nat
      BY <1>0, ElementOfSeq
    <3> QED
      BY <1>0, <2>1, <3>1, <3>2 DEF Increases
  <2> QED
    BY <1>0, <2>1, ListCount
<1> DEFINE A == Held \cup SeqSet(pages)
           B == A \cup ClassPages
<1>5. Held \cap SeqSet(pages) = {} /\ A \cap ClassPages = {} /\ B \cap lost = {} /\ B \cup lost = 0..len - 1
  BY <1>0 DEF Parted
<1>6. IsFiniteSet(A) /\ Cardinality(A) = Cardinality(Held) + Len(pages) /\ Cardinality(Held) \in Nat
  BY <1>3, <1>4, <1>5, DisjointCount
<1> HIDE DEF A
<1>7. IsFiniteSet(B) /\ Cardinality(B) = Cardinality(A) + Cardinality(ClassPages) /\ Cardinality(ClassPages) \in Nat
  BY <1>3, <1>5, <1>6, DisjointCount
<1> HIDE DEF B
<1>8. Cardinality(B \cup lost) = Cardinality(B) + Cardinality(lost) /\ Cardinality(lost) \in Nat
  BY <1>3, <1>5, <1>7, DisjointCount
<1>9. Cardinality(Held) + Len(pages) + Cardinality(ClassPages) + Cardinality(lost) = len
  BY <1>0, <1>1, <1>5, <1>6, <1>7, <1>8
<1>10. 0..len - 1 = Held \cup SeqSet(pages) \cup ClassPages \cup lost
  BY <1>0 DEF Parted
<1>11. \A i \in 1..Len(pages) - 1 : pages[i] < pages[i + 1]
  <2>1. \A i \in 1..Len(pages) - 1 : i \in 1..Len(pages) /\ i + 1 \in 1..Len(pages) /\ i < i + 1
    BY <1>0
  <2> QED
    BY <1>0, <2>1 DEF Increases
<1>12. ASSUME NEW pos \in Classes, NEW i \in 1..Len(small[pos]) - 1
       PROVE  Before(small[pos][i], small[pos][i + 1])
  <2>1. Len(small[pos]) \in Nat /\ Ascends(small[pos])
    BY LenProperties DEF HeapInv, HeapTypes, ClassSound
  <2>2. i \in 1..Len(small[pos]) /\ i + 1 \in 1..Len(small[pos]) /\ i < i + 1
    BY <2>1
  <2> QED
    BY <2>1, <2>2 DEF Ascends
<1>13. Held = UNION {BlockPages(b) : b \in {c \in live : c.kind # "class"}}
  BY DEF Held
<1> QED
  BY <1>9, <1>10, <1>11, <1>12, <1>13, ClassCounted DEF Accounted

\* For every number of pages, of size classes and of blocks in a page, every
\* request of whole pages and every order of calls: mem_malloc never hands out
\* memory that a caller, a list or a size class has, and mem_free gives back
\* what was handed out, to the list it came from, in its place.
THEOREM HeapIsSound == MemSpec => []HeapSound
<1>1. HeapInv => HeapSound
  BY BlocksDisjoint, PagesAccounted DEF HeapSound
<1> QED
  BY <1>1, HeapInit, HeapStep, PTL DEF MemSpec

=============================================================================
