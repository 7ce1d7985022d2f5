---------------------------------- MODULE Vm ----------------------------------
(***************************************************************************)
(* Address spaces: the regions of kernel/mmap.c and the user entries of    *)
(* the page tables of kernel/vm.c, through mmap, munmap, page faults,      *)
(* fork, exec and exit.                                                    *)
(*                                                                         *)
(* Addresses are page numbers.  A page table entry is the set of its       *)
(* permissions; which frame it points to, and the reference counts of the  *)
(* frames, are left out: the lookups of the reference tree compare an      *)
(* uninitialized count, so that nothing can be said of what they find.     *)
(* Both branches of the copy-on-write fault give the entry PTE_W.          *)
(* Each action is a whole call of one task; only fork touches another      *)
(* task's address space, and that task does not run yet.                   *)
(***************************************************************************)
EXTENDS Integers, FiniteSets

CONSTANTS
    Users, FirstUser,  \* the tasks; FirstUser exists from the start
    Pages,       \* the user pages that are mapped at a given address
    VA_ANON,     \* first page of the kernel-chosen addresses
    MaxHigh,     \* bound: pages of kernel-chosen addresses
    Requests,    \* arguments of mmap: [addr, sz, perm, flags]
    Image,       \* the regions exec maps: the program and its stack
    MaxMaps      \* bound: calls of mmap

Access == {"R", "W", "X"}
RegionSet == [addr : Nat, sz : Nat, perm : SUBSET Access, flags : SUBSET {"A", "P", "S", "Z"}]

ASSUME VmAssumption ==
    /\ Pages \subseteq Nat /\ VA_ANON \in Nat /\ MaxHigh \in Nat
    /\ Requests \subseteq RegionSet
    /\ Image \subseteq RegionSet /\ IsFiniteSet(Image)

AllPages == Pages \cup VA_ANON .. (VA_ANON + MaxHigh - 1)
Unmapped == {"unmapped"}

VARIABLES
    regions,     \* mmap_obj->tree: set of [addr, sz, perm, flags]
    high,        \* mmap_obj->high_level, in pages
    pte,         \* pte[t][page]: permissions, or Unmapped
    state,       \* "dead", "user", or "panic"
    maps         \* calls of mmap so far

vmVars == <<regions, high, pte, state, maps>>

Region(addr, sz, perm, flags) == [addr |-> addr, sz |-> sz, perm |-> perm, flags |-> flags]
PagesOf(r) == r.addr .. (r.addr + r.sz - 1)
NoPages == [p \in AllPages |-> Unmapped]

\* uvm_mappages for the regions of a new program
ImagePtes ==
    [p \in AllPages |-> IF \E r \in Image : p \in PagesOf(r)
                        THEN (CHOOSE r \in Image : p \in PagesOf(r)).perm ELSE Unmapped]

\* the first task has executed its first program; mmap_create leaves
\* high_level as the memory was
VmInit ==
    /\ regions = [t \in Users |-> IF t = FirstUser THEN Image ELSE {}]
    /\ \E h \in {0, 1} : high = [t \in Users |-> IF t = FirstUser THEN h ELSE 0]
    /\ pte = [t \in Users |-> IF t = FirstUser THEN ImagePtes ELSE NoPages]
    /\ state = [t \in Users |-> IF t = FirstUser THEN "user" ELSE "dead"]
    /\ maps = 0

Panic(t) == state' = [state EXCEPT ![t] = "panic"] /\ UNCHANGED <<regions, high, pte>>

\* mmap_find: rb_ubnd and then rb_prev, the last region at or below the page
Below(t, p) == {r \in regions[t] : r.addr <= p}
Mmap_find(t, p) == CHOOSE r \in Below(t, p) : \A q \in Below(t, p) : q.addr <= r.addr

-----------------------------------------------------------------------------

\* the flags after the default; "P" private, "S" shared, "A" anonymous, "Z"
\* (MAP_ZERO) at address 0
Flags(f) == IF "S" \in f THEN f ELSE f \cup {"P"}

\* mmap_by_obj with alloc_phy 0; address 0 lets the kernel choose unless it is
\* asked for
SysMmap(t, addr, sz, perm, f) ==
    LET choose == addr = 0 /\ "Z" \notin f /\ "A" \in f
        base == IF choose THEN VA_ANON + high[t] ELSE addr
        inTree == \E r \in regions[t] : r.addr = base
    IN  /\ state[t] = "user"
        /\ maps < MaxMaps /\ maps' = maps + 1
        /\ choose => high[t] + sz <= MaxHigh
        /\ \/ /\ {"P", "S"} \subseteq f \/ inTree
              /\ Panic(t)
           \/ /\ ~({"P", "S"} \subseteq f) /\ ~inTree
              /\ regions' = [regions EXCEPT ![t] = @ \cup {Region(base, sz, perm, Flags(f))}]
              /\ high' = [high EXCEPT ![t] = IF choose THEN @ + sz ELSE @]
              /\ UNCHANGED <<pte, state>>

\* Mutant: only the first page is unmapped.
UnmapFirst(r) == {r.addr}

\* the pages munmap walks
UnmapPages(r) == PagesOf(r)

\* munmap of the region that starts at an address
SysMunmap(t, r) ==
    /\ state[t] = "user"
    /\ r \in regions[t]
    /\ pte' = [pte EXCEPT ![t] =
                  [p \in AllPages |-> IF p \in UnmapPages(r) THEN Unmapped ELSE @[p]]]
    /\ regions' = [regions EXCEPT ![t] = @ \ {r}]
    /\ UNCHANGED <<high, state, maps>>

\* handle_pagefault for an access the entry does not allow.  An entry that is
\* there gains PTE_W on a permitted write (copy on write); a permitted read or
\* execution of an entry without that permission faults again.  A missing
\* entry is made, whatever the access, if the region is anonymous.
PageFault(t, p, a) ==
    LET r == Mmap_find(t, p)
        found == Below(t, p) # {} /\ p \in PagesOf(r)
        mapped == pte[t][p] # Unmapped
    IN  /\ state[t] = "user"
        /\ a \notin pte[t][p]
        /\ \/ /\ ~found \/ (mapped /\ a \notin r.perm)
              /\ Panic(t)
           \/ /\ found
              /\ IF mapped THEN a \in r.perm /\ a = "W" ELSE "A" \in r.flags
              /\ pte' = [pte EXCEPT ![t][p] = IF mapped THEN @ \cup {"W"} ELSE r.perm]
              /\ UNCHANGED <<regions, high, state>>
        /\ UNCHANGED maps

\* Mutant: the shared regions lose PTE_W.
ForkPermSwapped(r) == IF "S" \in r.flags THEN r.perm \ {"W"} ELSE r.perm

\* copy_mmap: what an entry of region r becomes; a private one loses PTE_W
ForkPerm(r) == IF "P" \in r.flags THEN r.perm \ {"W"} ELSE r.perm

\* sys_fork: copy_mmap maps the pages that are there in both tasks; a page of
\* two regions is mapped twice in the child, which panics
SysFork(t, u) ==
    LET both == {p \in AllPages : /\ pte[t][p] # Unmapped
                                  /\ Cardinality({r \in regions[t] : p \in PagesOf(r)}) > 1}
        copy == [p \in AllPages |->
                         IF pte[t][p] # Unmapped /\ \E r \in regions[t] : p \in PagesOf(r)
                         THEN ForkPerm(CHOOSE r \in regions[t] : p \in PagesOf(r))
                         ELSE pte[t][p]]
    IN  /\ state[t] = "user" /\ state[u] = "dead"
        /\ \/ both # {} /\ Panic(t)
           \/ /\ both = {}
              /\ regions' = [regions EXCEPT ![u] = regions[t]]
              /\ high' = [high EXCEPT ![u] = high[t]]
              /\ pte' = [pte EXCEPT ![t] = copy, ![u] = copy]
              /\ state' = [state EXCEPT ![u] = "user"]
        /\ UNCHANGED maps

\* exec: a new page table and new regions, the old ones are destroyed
ExecSpace(t) ==
    /\ state[t] = "user"
    /\ regions' = [regions EXCEPT ![t] = Image]
    /\ pte' = [pte EXCEPT ![t] = ImagePtes]
    /\ \E h \in {0, 1} : high' = [high EXCEPT ![t] = h]
    /\ UNCHANGED <<state, maps>>

\* free_task: free_pagetable and mmap_destroy
FreeTask(t) ==
    /\ state[t] = "user" /\ t # FirstUser
    /\ regions' = [regions EXCEPT ![t] = {}]
    /\ high' = [high EXCEPT ![t] = 0]
    /\ pte' = [pte EXCEPT ![t] = NoPages]
    /\ state' = [state EXCEPT ![t] = "dead"]
    /\ UNCHANGED maps

VmNext == \E t \in Users :
    \/ \E q \in Requests : SysMmap(t, q.addr, q.sz, q.perm, q.flags)
    \/ \E r \in regions[t] : SysMunmap(t, r)
    \/ \E p \in AllPages, a \in Access : PageFault(t, p, a)
    \/ \E u \in Users : SysFork(t, u)
    \/ ExecSpace(t)
    \/ FreeTask(t)

VmSpec == VmInit /\ [][VmNext]_vmVars

-----------------------------------------------------------------------------
(* Properties. *)

\* A page is accessible only inside a region of its task, and only as the
\* regions around it permit, also when regions overlap, after copy-on-write
\* faults, forks and unmaps in any order.
PteCovered ==
    \A t \in Users, p \in AllPages :
        pte[t][p] # Unmapped =>
            LET around == {r \in regions[t] : p \in PagesOf(r)}
            IN  around # {} /\ pte[t][p] \subseteq UNION {r.perm : r \in around}

\* A task that fork made has exactly its parent's regions and entries, and no
\* page of a private region is then writable in either: the first write of each
\* faults.  Pages of shared regions keep the region's permissions.
ForkStep ==
    \A u \in Users : state[u] = "dead" /\ state'[u] = "user" =>
        \E t \in Users \ {u} :
            /\ regions'[u] = regions[t] /\ pte'[u] = pte'[t]
            /\ \A p \in AllPages : (pte[t][p] = Unmapped) <=> (pte'[u][p] = Unmapped)
            /\ \A r \in regions[t] : \A p \in PagesOf(r) \cap AllPages :
                  pte'[u][p] # Unmapped =>
                      pte'[u][p] = IF "P" \in r.flags THEN r.perm \ {"W"} ELSE r.perm

ForkProtects == [][ForkStep]_vmVars
=============================================================================
