------------------------------- MODULE Bcache -------------------------------
(***************************************************************************)
(* The buffer cache of kernel/bio.c: bget, bread, bwrite and brelse.       *)
(*                                                                         *)
(* Each critical section of bcache.lock is one step; b->sem is the FIFO    *)
(* semaphore that Sched shows lm_P and lm_V to implement; virtio_disk_rw   *)
(* is a transfer that ends some time after it began.  Contents of blocks   *)
(* are abstract values.                                                    *)
(***************************************************************************)
EXTENDS Integers, Sequences, FiniteSets

CONSTANTS Tasks,      \* the tasks that call the file system
          Nesting,    \* those that may hold two buffers: inside begin_op
          NBUF,       \* buffers
          Blocks,     \* block numbers
          Values,     \* contents of a block
          WriteBack   \* does every caller bwrite what it changed?

ASSUME BcacheAssumption ==
    /\ Nesting \subseteq Tasks /\ IsFiniteSet(Tasks)
    /\ NBUF \in Nat \ {0}
    /\ Blocks \subseteq Nat
    /\ WriteBack \in BOOLEAN

Bufs == 1 .. NBUF
NoBlock == -1           \* b->dev = 0, b->blockno = 0 before the first use
Nobody == "nobody"
ASSUME NobodyAssumption == Nobody \notin Tasks

VARIABLES
    blockno, valid, refcnt, holding_task, data,     \* the fields of each buffer
    sem, waiting,       \* b->sem: its tokens, and the tasks in its list
    lru,                \* the list of buffers, most recently used first
    disk,               \* the contents of the disk
    pc, cur,            \* where each task is, and the buffer it is about
    hold                \* the buffers that bread has returned to each task

bvars == <<blockno, valid, refcnt, holding_task>>
svars == <<sem, waiting>>
vars == <<bvars, data, svars, lru, disk, pc, cur, hold>>

PCs == {"idle", "P", "wait", "mark", "read", "dirty", "write", "rel",
        "panic", "full"}

TypeOK ==
    /\ blockno \in [Bufs -> Blocks \cup {NoBlock}]
    /\ valid \in [Bufs -> BOOLEAN]
    /\ refcnt \in [Bufs -> Nat]
    /\ holding_task \in [Bufs -> Tasks \cup {Nobody}]
    /\ data \in [Bufs -> Values]
    /\ sem \in [Bufs -> {0, 1}]
    /\ waiting \in [Bufs -> Seq(Tasks)]
    /\ lru \in [Bufs -> Bufs]
    /\ disk \in [Blocks -> Values]
    /\ pc \in [Tasks -> PCs]
    /\ cur \in [Tasks -> Bufs]
    /\ hold \in [Tasks -> SUBSET Bufs]

\* binit: every buffer is put at the head of the list.
Init ==
    /\ blockno = [b \in Bufs |-> NoBlock]
    /\ valid = [b \in Bufs |-> FALSE]
    /\ refcnt = [b \in Bufs |-> 0]
    /\ holding_task = [b \in Bufs |-> Nobody]
    /\ disk \in [Blocks -> Values]
    /\ \E v \in Values : data = [b \in Bufs |-> v]
    /\ sem = [b \in Bufs |-> 1]
    /\ waiting = [b \in Bufs |-> <<>>]
    /\ lru = [i \in Bufs |-> NBUF + 1 - i]
    /\ pc = [t \in Tasks |-> "idle"]
    /\ cur = [t \in Tasks |-> 1]
    /\ hold = [t \in Tasks |-> {}]

At(t, here) == pc[t] = here
Goto(t, label) == pc' = [pc EXCEPT ![t] = label]
Look(t, b, label) == cur' = [cur EXCEPT ![t] = b] /\ Goto(t, label)
-----------------------------------------------------------------------------
(* bget *)

\* Callers: a task asks for a second block only in bmap or itrunc, which hold
\* an indirect block and go on to a bitmap block, a lower one.
MayAsk(t, k) ==
    \/ hold[t] = {}
    \/ t \in Nesting /\ \E b \in hold[t] : hold[t] = {b} /\ k < blockno[b]

NotCached(k) == \A i \in Bufs : blockno[lru[i]] # k

\* Mutant: bget that counts a reference only where it recycles.
HitWithoutRef(t, k) ==
    /\ At(t, "idle") /\ MayAsk(t, k)
    /\ \E i \in Bufs : blockno[lru[i]] = k /\ Look(t, lru[i], "P")
    /\ UNCHANGED <<bvars, data, svars, lru, disk, hold>>

bget_hit(t, k) ==
    /\ At(t, "idle") /\ MayAsk(t, k)
    /\ \E i \in Bufs :
        /\ blockno[lru[i]] = k
        /\ \A j \in 1 .. i - 1 : blockno[lru[j]] # k
        /\ refcnt' = [refcnt EXCEPT ![lru[i]] = @ + 1]
        /\ Look(t, lru[i], "P")
    /\ UNCHANGED <<blockno, valid, holding_task, data, svars, lru, disk, hold>>

\* Mutant: bget that keeps b->valid.
RecycleKeepsValid(t, k, b) ==
    /\ blockno' = [blockno EXCEPT ![b] = k]
    /\ refcnt' = [refcnt EXCEPT ![b] = 1]
    /\ Look(t, b, "P")
    /\ UNCHANGED valid

Recycle(t, k, b) ==
    /\ blockno' = [blockno EXCEPT ![b] = k]
    /\ valid' = [valid EXCEPT ![b] = FALSE]
    /\ refcnt' = [refcnt EXCEPT ![b] = 1]
    /\ Look(t, b, "P")

Recyclable(b) == refcnt[b] = 0

\* Mutant: bget that takes the least recently used buffer in any case.
RecycleLast(t, k) ==
    /\ At(t, "idle") /\ MayAsk(t, k) /\ NotCached(k)
    /\ LET b == lru[NBUF] IN
        /\ blockno' = [blockno EXCEPT ![b] = k]
        /\ valid' = [valid EXCEPT ![b] = FALSE]
        /\ refcnt' = [refcnt EXCEPT ![b] = @ + 1]
        /\ Look(t, b, "P")
    /\ UNCHANGED <<holding_task, data, svars, lru, disk, hold>>

\* Recycle the least recently used buffer that nobody refers to.
bget_recycle(t, k) ==
    /\ At(t, "idle") /\ MayAsk(t, k) /\ NotCached(k)
    /\ \E i \in Bufs :
        /\ Recyclable(lru[i])
        /\ \A j \in i + 1 .. NBUF : ~Recyclable(lru[j])
        /\ Recycle(t, k, lru[i])
    /\ UNCHANGED <<holding_task, data, svars, lru, disk, hold>>

\* "bget: no buffers": the task never goes on, and keeps what it has.
bget_panic(t, k) ==
    /\ At(t, "idle") /\ MayAsk(t, k) /\ NotCached(k)
    /\ \A b \in Bufs : ~Recyclable(b)
    /\ Goto(t, "full")
    /\ UNCHANGED <<bvars, data, svars, lru, disk, cur, hold>>

\* lm_P(&b->sem)
P(t) ==
    LET b == cur[t] IN
    /\ At(t, "P")
    /\ IF sem[b] = 1
       THEN sem' = [sem EXCEPT ![b] = 0] /\ Goto(t, "mark") /\ UNCHANGED waiting
       ELSE waiting' = [waiting EXCEPT ![b] = Append(@, t)] /\ Goto(t, "wait") /\ UNCHANGED sem
    /\ UNCHANGED <<bvars, data, lru, disk, cur, hold>>

Keep(t, b) == hold' = [hold EXCEPT ![t] = @ \cup {b}] /\ Goto(t, "idle")

\* b->holding_task = getpid(); bread looks at b->valid.
Mark(t) ==
    LET b == cur[t] IN
    /\ At(t, "mark")
    /\ holding_task' = [holding_task EXCEPT ![b] = t]
    /\ IF valid[b] THEN Keep(t, b) ELSE Goto(t, "read") /\ UNCHANGED hold
    /\ UNCHANGED <<blockno, valid, refcnt, data, svars, lru, disk, cur>>
-----------------------------------------------------------------------------
(* bread's transfer, bwrite *)

bread_done(t) ==
    LET b == cur[t] IN
    /\ At(t, "read")
    /\ data' = [data EXCEPT ![b] = disk[blockno[b]]]
    /\ valid' = [valid EXCEPT ![b] = TRUE]
    /\ Keep(t, b)
    /\ UNCHANGED <<blockno, refcnt, holding_task, svars, lru, disk, cur>>

\* The caller writes into b->data.  WriteBack: balloc, bfree and iupdate call
\* bwrite next; writei, bmap and dirlink do not.
Change(t, b, v) ==
    /\ At(t, "idle") /\ b \in hold[t]
    /\ data' = [data EXCEPT ![b] = v]
    /\ Look(t, b, IF WriteBack THEN "dirty" ELSE "idle")
    /\ UNCHANGED <<bvars, svars, lru, disk, hold>>

bwrite(t) ==
    /\ At(t, "dirty")
    /\ Goto(t, IF holding_task[cur[t]] = t THEN "write" ELSE "panic")
    /\ UNCHANGED <<bvars, data, svars, lru, disk, cur, hold>>

bwrite_done(t) ==
    LET b == cur[t] IN
    /\ At(t, "write")
    /\ disk' = [disk EXCEPT ![blockno[b]] = data[b]]
    /\ Goto(t, "idle")
    /\ UNCHANGED <<bvars, data, svars, lru, cur, hold>>
-----------------------------------------------------------------------------
(* brelse *)

\* Mutant: lm_V that puts the token back and wakes nobody.
VWakesNobody(t, b) ==
    /\ sem' = [sem EXCEPT ![b] = 1]
    /\ Goto(t, "rel")
    /\ UNCHANGED waiting

\* lm_V(&b->sem): the token goes to the first in the list, if there is one.
V(t, b) ==
    IF waiting[b] = <<>>
    THEN sem' = [sem EXCEPT ![b] = 1] /\ Goto(t, "rel") /\ UNCHANGED waiting
    ELSE /\ waiting' = [waiting EXCEPT ![b] = Tail(@)]
         /\ pc' = [pc EXCEPT ![t] = "rel", ![Head(waiting[b])] = "mark"]
         /\ UNCHANGED sem

\* The caller is done with b.
brelse(t, b) ==
    /\ At(t, "idle") /\ b \in hold[t]
    /\ IF holding_task[b] = t
       THEN V(t, b) /\ hold' = [hold EXCEPT ![t] = @ \ {b}]
       ELSE Goto(t, "panic") /\ UNCHANGED <<svars, hold>>
    /\ cur' = [cur EXCEPT ![t] = b]
    /\ UNCHANGED <<bvars, data, lru, disk>>

\* b moves to the head of the list; those before it move down by one.
ToFront(b) ==
    lru' = [i \in Bufs |->
              IF i = 1 THEN b
              ELSE IF \E j \in i .. NBUF : lru[j] = b THEN lru[i - 1] ELSE lru[i]]

brelse_done(t) ==
    LET b == cur[t] IN
    /\ At(t, "rel")
    /\ refcnt' = [refcnt EXCEPT ![b] = @ - 1]
    /\ IF refcnt[b] = 1 THEN ToFront(b) ELSE UNCHANGED lru
    /\ Goto(t, "idle")
    /\ UNCHANGED <<blockno, valid, holding_task, data, svars, disk, cur, hold>>
-----------------------------------------------------------------------------
Call(t) ==
    \/ \E k \in Blocks : bget_hit(t, k) \/ bget_recycle(t, k) \/ bget_panic(t, k)
    \/ \E b \in Bufs, v \in Values : Change(t, b, v)

Step(t) ==
    P(t) \/ Mark(t) \/ bread_done(t) \/ bwrite(t) \/ bwrite_done(t) \/ brelse_done(t)

Next == \E t \in Tasks : Call(t) \/ Step(t) \/ \E b \in Bufs : brelse(t, b)

\* Tasks run and transfers end; every caller of bread comes to its brelse.
Fairness ==
    \A t \in Tasks : WF_vars(Step(t)) /\ \A b \in Bufs : SF_vars(brelse(t, b))

Spec == Init /\ [][Next]_vars /\ Fairness
-----------------------------------------------------------------------------
(* Properties *)

\* The tasks between bget and the end of brelse on b, and those among them
\* that have its semaphore.
Users(b) ==
    {t \in Tasks : \/ b \in hold[t]
                   \/ cur[t] = b /\ pc[t] \in {"P", "wait", "mark", "read", "rel"}}
Holders(b) ==
    {t \in Tasks : \/ b \in hold[t]
                   \/ cur[t] = b /\ pc[t] \in {"mark", "read"}}

\* A block has one buffer, whichever tasks miss it at the same time (bget
\* searches and recycles in one critical section, bio.c:45-71).
UniqueBlock ==
    \A a, b \in Bufs : blockno[a] = blockno[b] /\ blockno[a] # NoBlock => a = b

\* refcnt counts exactly the tasks that are between bget and the end of
\* brelse, those that wait for the semaphore included, although brelse gives
\* up the semaphore first and the reference later (bio.c:107-110).
RefCounted == \A b \in Bufs : refcnt[b] = Cardinality(Users(b))

\* One task at a time has b->sem, whoever waits for it and whatever happens
\* between brelse's lm_V and its refcnt--; the token is there exactly when
\* nobody has it.
OneHolder ==
    \A b \in Bufs :
        /\ \A t, u \in Holders(b) : t = u
        /\ sem[b] = 1 <=> Holders(b) = {}

\* No caller that follows the rules meets a panic of bwrite or brelse,
\* although holding_task is written after lm_P and never reset.
NoPanic == \A t \in Tasks : pc[t] # "panic"

\* The cache at every point of every call: one buffer per block, exact counts,
\* one holder, and callers that follow the rules meet no panic (bio.c:45-122).
Consistent == TypeOK /\ UniqueBlock /\ RefCounted /\ OneHolder /\ NoPanic

\* A buffer is not given to another block under a task that refers to it, be
\* it one that still waits for the semaphore (bread's caller gets the block
\* it asked for).
KeepsIdentity ==
    [][\A b \in Bufs : Users(b) # {} => blockno'[b] = blockno[b]]_vars

\* What block k contains, for those who read it through the cache.
Content(k) ==
    IF \E b \in Bufs : blockno[b] = k /\ valid[b]
    THEN data[CHOOSE b \in Bufs : blockno[b] = k /\ valid[b]]
    ELSE disk[k]

User(k) ==
    IF \E t \in Tasks : \E b \in hold[t] : blockno[b] = k
    THEN CHOOSE t \in Tasks : \E b \in hold[t] : blockno[b] = k
    ELSE Nobody

\* The cache, with its eviction, reference counts and semaphores, implements
\* a store of blocks of which each has one user at a time and keeps its
\* contents; "return a locked buf with the contents of the indicated block"
\* (bio.c:76).
Store == INSTANCE BlockStore WITH
             content <- [k \in Blocks |-> Content(k)],
             user <- [k \in Blocks |-> User(k)]

ImplementsStore == Store!Spec

\* "Return a locked buf with the contents of the indicated block" (bio.c:76):
\* what a block contains changes only by the hand of the task that has it.
ContentsKept ==
    [][\A k \in Blocks : Content(k)' # Content(k) => User(k) # Nobody]_vars

\* Whoever asks for a block gets it: waiters are served in order, and nested
\* requests go down in block number, so that no two tasks wait for each other.
BreadReturns ==
    \A t \in Tasks : pc[t] \in {"P", "wait"} ~> cur[t] \in hold[t]
=============================================================================
