--------------------------------- MODULE Mem ---------------------------------
(***************************************************************************)
(* The kernel's allocator, kernel/mem.c.  The heap is an array of pages    *)
(* that mem_sbrk hands out upwards.  Blocks smaller than a page are cut    *)
(* from pages of one size class and kept in one address-ordered list per   *)
(* class, whose first block is never given out; whole pages go back to one *)
(* address-ordered list, in which bigfind looks for runs of neighbours.    *)
(* The lists are sequences of addresses: block i of page p is <<p, i>>.    *)
(* mem_malloc and mem_free hold one lock throughout, so a call is a step.  *)
(***************************************************************************)
EXTENDS Integers, Sequences, FiniteSets

CONSTANTS
    MaxPages,   \* pages between the first one and heap_end
    PerPage,    \* PerPage[pos]: blocks of size class pos in a page, at least 2
    BigSizes,   \* the page counts asked for, above 1
    MaxLive     \* bound: blocks allocated at a time

ASSUME MemAssumption ==
    /\ MaxPages \in Nat /\ BigSizes \subseteq Nat \ {0, 1}
    /\ PerPage \in Seq(Nat \ {0, 1}) /\ Len(PerPage) <= MaxPages

Classes == DOMAIN PerPage

VARIABLES
    len,        \* Manager.len: pages obtained so far
    info,       \* PageArray[].usedORbitpos_bigORlen: [kind, arg]
    pages,      \* the list at pagehead
    small,      \* per class, the list that follows sizehead[pos]
    live,       \* history: what callers hold, [kind, at, n]
    lost        \* history: pages that no list and no caller has

memVars == <<len, info, pages, small, live, lost>>

Unused == [kind |-> "unused", arg |-> 0]
ClassPage(pos) == [kind |-> "class", arg |-> pos]
OnePage == [kind |-> "page", arg |-> 1]
BigTail == [kind |-> "big", arg |-> 1]
Big(n) == [kind |-> "big", arg |-> n]

\* mm_init: page pos - 1 becomes the first page of class pos; its block 0 is
\* sizehead[pos]
MemInit ==
    /\ len = Cardinality(Classes)
    /\ info = [p \in 0..MaxPages - 1 |-> IF p + 1 \in Classes THEN ClassPage(p + 1) ELSE Unused]
    /\ pages = <<>>
    /\ small = [pos \in Classes |-> [i \in 1..PerPage[pos] - 1 |-> <<pos - 1, i>>]]
    /\ live = {} /\ lost = {}

\* address order
Before(a, b) == a[1] < b[1] \/ (a[1] = b[1] /\ a[2] < b[2])

\* the walks of mm_free: the number of elements they pass, P being the
\* positions of the list that lie before the block
Passed(P) == CHOOSE k \in P \cup {0} : 1..k \subseteq P /\ k + 1 \notin P

\* r is linked into the list behind its first k elements
Splice(s, k, r) == SubSeq(s, 1, k) \o r \o SubSeq(s, k + 1, Len(s))

\* mm_free's walk through a size class, to the place of b
Insert(s, b) == Splice(s, Passed({i \in DOMAIN s : Before(s[i], b)}), <<b>>)

\* mm_free's walk through pagehead, for one page or for a run of n
InsertRun(s, p, n) == Splice(s, Passed({i \in DOMAIN s : s[i] < p}), [i \in 1..n |-> p + i - 1])

-----------------------------------------------------------------------------
(* mm_malloc *)

\* getpage: the page it returns, or Manager.len for a new one
NextPage == IF pages = <<>> THEN len ELSE Head(pages)
HasPage == pages # <<>> \/ len < MaxPages

\* getpage, the page's use being u
GetPage(u) ==
    /\ HasPage
    /\ info' = [info EXCEPT ![NextPage] = u]
    /\ IF pages = <<>> THEN len' = len + 1 /\ UNCHANGED pages
       ELSE pages' = Tail(pages) /\ UNCHANGED len

\* smallfind: the first block behind the head; an empty list gets a new page
MallocSmall(pos) ==
    /\ Cardinality(live) < MaxLive
    /\ IF small[pos] = <<>>
       THEN /\ GetPage(ClassPage(pos))
            /\ small' = [small EXCEPT ![pos] = [i \in 1..PerPage[pos] - 1 |-> <<NextPage, i>>]]
            /\ live' = live \cup {[kind |-> "class", at |-> <<NextPage, 0>>, n |-> pos]}
       ELSE /\ small' = [small EXCEPT ![pos] = Tail(@)]
            /\ live' = live \cup {[kind |-> "class", at |-> Head(small[pos]), n |-> pos]}
            /\ UNCHANGED <<len, info, pages>>
    /\ UNCHANGED lost

\* a request for one page
MallocPage ==
    /\ Cardinality(live) < MaxLive
    /\ GetPage(OnePage)
    /\ live' = live \cup {[kind |-> "page", at |-> <<NextPage, 0>>, n |-> 1]}
    /\ UNCHANGED <<small, lost>>

\* do n neighbouring pages start at position i of the list?
RunAt(i, n) == i + n - 1 <= Len(pages) /\ \A k \in 1..n - 1 : pages[i + k] = pages[i] + k
FirstRun(n) == CHOOSE i \in 1..Len(pages) : RunAt(i, n) /\ \A j \in 1..i - 1 : ~RunAt(j, n)

\* where the last run of the list starts
LastRun == CHOOSE i \in 1..Len(pages) :
              RunAt(i, Len(pages) - i + 1) /\ (i = 1 \/ ~RunAt(i - 1, Len(pages) - i + 2))

\* what bigfind does with the head of the block it found
TakeBig(n, p) ==
    /\ live' = live \cup {[kind |-> "big", at |-> <<p, 0>>, n |-> n]}
    /\ UNCHANGED small

\* the use of the pages first..last becomes BigTail, that of p becomes Big(n)
InfoBig(p, n, first, last) ==
    [q \in DOMAIN info |-> IF q = p THEN Big(n) ELSE IF q \in first..last THEN BigTail ELSE info[q]]

\* bigfind with a run in the list, or on an empty list
BigFromList(n) ==
    /\ Cardinality(live) < MaxLive
    /\ \E i \in 1..Len(pages) : RunAt(i, n)
    /\ LET i == FirstRun(n)
       IN  /\ pages' = SubSeq(pages, 1, i - 1) \o SubSeq(pages, i + n, Len(pages))
           /\ info' = [info EXCEPT ![pages[i]] = Big(n)]
           /\ TakeBig(n, pages[i])
    /\ UNCHANGED <<len, lost>>

BigFromEmpty(n) ==
    /\ Cardinality(live) < MaxLive
    /\ pages = <<>> /\ len + n <= MaxPages
    /\ len' = len + n
    /\ info' = InfoBig(len, n, len, len + n - 1)
    /\ TakeBig(n, len)
    /\ UNCHANGED <<pages, lost>>

NoRun(n) == pages # <<>> /\ \A i \in 1..Len(pages) : ~RunAt(i, n)

\* Mutant: the last run is taken to end at the top.
AtTopAlways == TRUE

\* the list ends with the last page of the heap
AtTop == pages[Len(pages)] = len - 1

\* the last run ends at the top of the heap and is extended there
BigExtend(n) ==
    /\ Cardinality(live) < MaxLive
    /\ NoRun(n) /\ AtTop
    /\ LET have == Len(pages) - LastRun + 1
           p == pages[LastRun]
       IN  /\ len + n - have <= MaxPages
           /\ len' = len + n - have
           /\ info' = InfoBig(p, n, len, len + n - have - 1)
           /\ TakeBig(n, p)
    /\ pages' = SubSeq(pages, 1, LastRun - 1)
    /\ UNCHANGED lost

\* otherwise n + 1 new pages are obtained for the n, and if the last run is not
\* the whole list it is cut off
BigFresh(n) ==
    /\ Cardinality(live) < MaxLive
    /\ NoRun(n) /\ ~AtTop
    /\ len + n + 1 <= MaxPages
    /\ len' = len + n + 1
    /\ info' = InfoBig(len, n, len, len + n)
    /\ TakeBig(n, len)
    /\ IF LastRun = 1 THEN lost' = lost \cup {len + n} /\ UNCHANGED pages
       ELSE /\ pages' = SubSeq(pages, 1, LastRun - 1)
            /\ lost' = lost \cup {len + n} \cup {pages[i] : i \in LastRun..Len(pages)}

-----------------------------------------------------------------------------
(* mm_free: what to do is read from the info of the block's page *)

BlockPages(b) == IF b.kind = "big" THEN b.at[1]..b.at[1] + b.n - 1 ELSE {b.at[1]}

MemFree(b) ==
    LET p == b.at[1]
        u == info[p]
    IN  /\ b \in live
        /\ live' = live \ {b}
        /\ CASE u.kind = "class" ->
                  /\ small' = [small EXCEPT ![u.arg] = Insert(@, b.at)]
                  /\ UNCHANGED <<info, pages>>
             [] u.kind = "page" ->
                  /\ pages' = InsertRun(pages, p, 1)
                  /\ info' = [info EXCEPT ![p] = Unused]
                  /\ UNCHANGED small
             [] u.kind = "big" ->
                  /\ pages' = InsertRun(pages, p, u.arg)
                  /\ info' = [q \in DOMAIN info |-> IF q \in p..p + u.arg - 1 THEN Unused ELSE info[q]]
                  /\ UNCHANGED small
             [] u.kind = "unused" -> UNCHANGED <<info, pages, small>>      \* "free error"
        /\ UNCHANGED <<len, lost>>

MemNext ==
    \/ \E pos \in Classes : MallocSmall(pos)
    \/ MallocPage
    \/ \E n \in BigSizes : BigFromList(n) \/ BigFromEmpty(n) \/ BigExtend(n) \/ BigFresh(n)
    \/ \E b \in live : MemFree(b)

MemSpec == MemInit /\ [][MemNext]_memVars

-----------------------------------------------------------------------------
(* Properties. *)

SeqSet(s) == {s[i] : i \in 1..Len(s)}
ClassPages == {p \in 0..len - 1 : info[p].kind = "class"}

\* No two blocks that callers hold overlap, and none overlaps a free page, a
\* free small block or the head of a size class; the page table still tells
\* mem_free the kind and length with which each block was allocated.
Disjoint ==
    /\ \A b \in live : info[b.at[1]] = [kind |-> b.kind, arg |-> b.n]
    /\ \A b, c \in live : b # c =>
          IF b.kind = "class" /\ c.kind = "class" THEN b.at # c.at
          ELSE BlockPages(b) \cap BlockPages(c) = {}
    /\ \A b \in live :
          /\ BlockPages(b) \cap SeqSet(pages) = {}
          /\ b.kind = "class" => b.at \notin SeqSet(small[b.n]) /\ b.at # <<b.n - 1, 0>>

\* Every page obtained from mem_sbrk has one owner: a caller, the list of free
\* pages, a size class, or nobody where bigfind's last case dropped it; both
\* kinds of list are in address order, which the search for runs relies on.
Accounted ==
    LET held == UNION {BlockPages(b) : b \in {c \in live : c.kind # "class"}}
    IN  /\ 0..len - 1 = held \cup SeqSet(pages) \cup ClassPages \cup lost
        /\ Cardinality(held) + Len(pages) + Cardinality(ClassPages) + Cardinality(lost) = len
        /\ \A i \in 1..Len(pages) - 1 : pages[i] < pages[i + 1]
        /\ \A pos \in Classes :
              /\ \A i \in 1..Len(small[pos]) - 1 : Before(small[pos][i], small[pos][i + 1])
              /\ Len(small[pos]) + Cardinality({b \in live : b.kind = "class" /\ b.n = pos}) + 1
                    = PerPage[pos] * Cardinality({p \in ClassPages : info[p].arg = pos})

\* Both: what callers hold, and what the lists hold.
HeapSound == Disjoint /\ Accounted
=============================================================================
