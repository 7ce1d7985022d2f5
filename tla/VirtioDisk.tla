----------------------------- MODULE VirtioDisk -----------------------------
(***************************************************************************)
(* The disk driver of kernel/virtio_disk.c: tasks that hand chains of      *)
(* three descriptors to the device and sleep, the device, which completes  *)
(* them in any order, and the interrupt handler.                           *)
(*                                                                         *)
(* vdisk_lock is held from lm_lock to the sleep or lm_unlock that ends the *)
(* critical section; a step is a critical section, except where the device *)
(* can act inside it: before avail->idx moves, and between two entries of  *)
(* the handler's loop.  A consumed ring entry is blanked, so that reading  *)
(* it again would show.                                                    *)
(***************************************************************************)
EXTENDS Integers, FiniteSets, Sequences

CONSTANTS
    Tasks,      \* callers of virtio_disk_rw, each with a buffer of its own
    NUM,        \* descriptors, and entries of either ring
    IdxMod      \* the ring indices are uint16_t: they wrap at a multiple of NUM

Desc == 0..NUM - 1
None == NUM     \* a blank ring entry, or the end of a chain
Nobody == "nobody"

ASSUME VirtioDiskAssumption ==
    /\ IsFiniteSet(Tasks) /\ Nobody \notin Tasks /\ "intr" \notin Tasks
    /\ NUM \in Nat \ {0} /\ IdxMod \in Nat /\ \E k \in 1..IdxMod : IdxMod = k * NUM

VARIABLES
    free,       \* disk.free, as the set of free descriptors
    next,       \* disk.desc[].next, None where VRING_DESC_F_NEXT is not set
    info,       \* disk.info[]: b, the task whose buffer it is, and status
    busy,       \* the tasks whose b->disk is 1
    ring, aidx, \* disk.avail
    uring, uidx,\* disk.used, written by the device
    used_idx,   \* how far the handler has looked
    seen, taken,\* the device: how far it has looked, the chains it works on
    irq,        \* the device's interrupt line
    lk,         \* vdisk_lock: a task, "intr" or Nobody
    pc,         \* per task: idle, alloc, nodesc (asleep), publish, wait (asleep), woken
    head,       \* per task: idx[0]
    served,     \* history: tasks whose request the device has carried out
    panicked    \* a panic() was reached

vars == <<free, next, info, busy, ring, aidx, uring, uidx, used_idx, seen, taken,
          irq, lk, pc, head, served, panicked>>
devvars == <<uring, uidx, seen, taken>>

\* virtio_disk_init
Init ==
    /\ free = Desc
    /\ next = [d \in Desc |-> None]
    /\ info = [d \in Desc |-> [b |-> Nobody, status |-> 0]]
    /\ busy = {}
    /\ ring = [d \in Desc |-> None] /\ aidx = 0
    /\ uring = [d \in Desc |-> None] /\ uidx = 0
    /\ used_idx = 0 /\ seen = 0 /\ taken = {}
    /\ irq = FALSE
    /\ lk = Nobody
    /\ pc = [t \in Tasks |-> "idle"]
    /\ head = [t \in Tasks |-> None]
    /\ served = {}
    /\ panicked = FALSE

\* wakeup of every task that sleeps with pc `asleep'
Wake(p, asleep, awake, S) == [t \in Tasks |-> IF t \in S /\ p[t] = asleep THEN awake ELSE p[t]]

Lowest(S) == CHOOSE d \in S : \A e \in S : d <= e

\* alloc_desc, three times: the descriptors alloc3_desc takes
Take3(S) ==
    LET a == Lowest(S)
        b == Lowest(S \ {a})
        c == Lowest(S \ {a, b})
    IN  <<a, b, c>>

\* virtio_disk_rw is called by bread or bwrite
Call(t) ==
    /\ pc[t] = "idle"
    /\ pc' = [pc EXCEPT ![t] = "alloc"]
    /\ served' = served \ {t}
    /\ UNCHANGED <<free, next, info, busy, ring, aidx, devvars, used_idx, irq, lk, head, panicked>>

\* Mutant: what was taken is not given back.
AllocLoses(t) ==
    /\ pc[t] = "alloc" /\ lk = Nobody
    /\ Cardinality(free) < 3
    /\ free' = {}
    /\ pc' = [pc EXCEPT ![t] = "nodesc"]
    /\ UNCHANGED <<next, info, busy, ring, aidx, devvars, used_idx, irq, lk, head, served, panicked>>

\* alloc3_desc gives back what it took, each free_desc waking the sleepers on
\* disk.free[0], and virtio_disk_rw goes to sleep there
AllocFails(t) ==
    /\ pc[t] = "alloc" /\ lk = Nobody
    /\ Cardinality(free) < 3
    /\ pc' = [Wake(pc, "nodesc", "alloc", IF free = {} THEN {} ELSE Tasks) EXCEPT ![t] = "nodesc"]
    /\ UNCHANGED <<free, next, info, busy, ring, aidx, devvars, used_idx, irq, lk, head, served,
                   panicked>>

\* Mutant: the index moves before the entry is written.
EntryAhead == (aidx + 1) % NUM

\* where the next head goes in the avail ring
AvailEntry == aidx % NUM

\* the chain of three is formatted and its head put into the avail ring
Alloc(t) ==
    /\ pc[t] = "alloc" /\ lk = Nobody
    /\ Cardinality(free) >= 3
    /\ LET idx == Take3(free)
       IN  /\ free' = free \ {idx[1], idx[2], idx[3]}
           /\ next' = [next EXCEPT ![idx[1]] = idx[2], ![idx[2]] = idx[3], ![idx[3]] = None]
           /\ info' = [info EXCEPT ![idx[1]] = [b |-> t, status |-> 255]]
           /\ ring' = [ring EXCEPT ![AvailEntry] = idx[1]]
           /\ head' = [head EXCEPT ![t] = idx[1]]
    /\ busy' = busy \cup {t}
    /\ lk' = t
    /\ pc' = [pc EXCEPT ![t] = "publish"]
    /\ UNCHANGED <<aidx, devvars, used_idx, irq, served, panicked>>

\* avail->idx moves and the task sleeps on its buffer
Publish(t) ==
    /\ pc[t] = "publish" /\ lk = t
    /\ aidx' = (aidx + 1) % IdxMod
    /\ lk' = Nobody
    /\ pc' = [pc EXCEPT ![t] = "wait"]
    /\ UNCHANGED <<free, next, info, busy, ring, devvars, used_idx, irq, head, served, panicked>>

\* the descriptors free_chain visits from d on
Chain(d) == {d, next[d]} \cup (IF next[d] = None THEN {} ELSE {next[next[d]]})

\* woken: b->disk is checked again under the lock, then the chain is freed
Woken(t) ==
    /\ pc[t] = "woken" /\ lk = Nobody
    /\ IF t \notin busy
       THEN LET c == Chain(head[t]) \ {None}
            IN  /\ panicked' = (panicked \/ c \cap free # {})
                /\ free' = free \cup c
                /\ next' = [d \in Desc |-> IF d \in c THEN None ELSE next[d]]
                /\ info' = [info EXCEPT ![head[t]].b = Nobody]
                /\ head' = [head EXCEPT ![t] = None]
                /\ pc' = [Wake(pc, "nodesc", "alloc", Tasks) EXCEPT ![t] = "idle"]
       ELSE /\ pc' = [pc EXCEPT ![t] = "wait"]
            /\ UNCHANGED <<free, next, info, head, panicked>>
    /\ UNCHANGED <<busy, ring, aidx, devvars, used_idx, irq, lk, served>>

-----------------------------------------------------------------------------
(* The handler and the device. *)

\* virtio_disk_intr: the lock is taken and the interrupt acknowledged
IntrEnter ==
    /\ irq /\ lk = Nobody
    /\ lk' = "intr"
    /\ irq' = FALSE
    /\ UNCHANGED <<free, next, info, busy, ring, aidx, devvars, used_idx, pc, head, served, panicked>>

\* one completed chain
IntrEntry ==
    /\ lk = "intr" /\ used_idx # uidx
    /\ LET id == uring[used_idx % NUM]
           b  == info[id].b
       IN  /\ panicked' = (panicked \/ id = None \/ info[id].status # 0 \/ b = Nobody)
           /\ busy' = busy \ {b}
           /\ pc' = Wake(pc, "wait", "woken", {b})
           /\ uring' = [uring EXCEPT ![used_idx % NUM] = None]
    /\ used_idx' = (used_idx + 1) % IdxMod
    /\ UNCHANGED <<free, next, info, ring, aidx, uidx, seen, taken, irq, lk, head, served>>

\* Mutant: the handler may leave entries of the used ring behind.
IntrExitEarly ==
    /\ lk = "intr"
    /\ lk' = Nobody
    /\ UNCHANGED <<free, next, info, busy, ring, aidx, devvars, used_idx, irq, pc, head, served,
                   panicked>>

\* the loop ends when it has caught up with the device
IntrExit ==
    /\ lk = "intr" /\ used_idx = uidx
    /\ lk' = Nobody
    /\ UNCHANGED <<free, next, info, busy, ring, aidx, devvars, used_idx, irq, pc, head, served,
                   panicked>>

\* the device (external) takes the next chain of the avail ring
DevTake ==
    /\ seen # aidx
    /\ taken' = taken \cup {ring[seen % NUM]}
    /\ panicked' = (panicked \/ ring[seen % NUM] \in taken \cup {None})
    /\ ring' = [ring EXCEPT ![seen % NUM] = None]
    /\ seen' = (seen + 1) % IdxMod
    /\ UNCHANGED <<free, next, info, busy, aidx, uring, uidx, used_idx, irq, lk, pc, head, served>>

\* it finishes any chain it has taken, whatever the order, and interrupts
DevFinish(d) ==
    /\ d \in taken
    /\ taken' = taken \ {d}
    /\ info' = [info EXCEPT ![d].status = 0]
    /\ served' = served \cup {info[d].b}
    /\ uring' = [uring EXCEPT ![uidx % NUM] = d]
    /\ uidx' = (uidx + 1) % IdxMod
    /\ irq' = TRUE
    /\ UNCHANGED <<free, next, busy, ring, aidx, used_idx, seen, lk, pc, head, panicked>>

Next ==
    \/ \E t \in Tasks : Call(t) \/ AllocFails(t) \/ Alloc(t) \/ Publish(t) \/ Woken(t)
    \/ IntrEnter \/ IntrEntry \/ IntrExit
    \/ DevTake \/ \E d \in Desc : DevFinish(d)

\* The device works, the handler runs, and a task that wants the lock gets it
\* after finitely many attempts (the spin lock's amoswap succeeds at last).
Fairness ==
    /\ \A t \in Tasks : SF_vars(Woken(t)) /\ WF_vars(Publish(t))
    /\ SF_vars(IntrEnter) /\ WF_vars(IntrEntry) /\ WF_vars(IntrExit)
    /\ WF_vars(DevTake) /\ \A d \in Desc : WF_vars(DevFinish(d))

Spec == Init /\ [][Next]_vars /\ Fairness

-----------------------------------------------------------------------------
(* Properties. *)

\* the requests between Alloc and the end of Woken
Live == {t \in Tasks : pc[t] \in {"publish", "wait", "woken"}}

\* At every moment each descriptor is free or belongs to exactly one request
\* that has three of them: none is lost or given out twice although requests
\* end in any order and alloc3_desc gives some back (alloc3_desc, free_chain).
DescConserved ==
    /\ \A t \in Live : Cardinality(Chain(head[t]) \ {None}) = 3 /\ Chain(head[t]) \cap free = {}
    /\ \A t, u \in Live : t # u => Chain(head[t]) \cap Chain(head[u]) \subseteq {None}
    /\ Cardinality(free) + 3 * Cardinality(Live) = NUM

\* The device works only on chains whose task still waits with b->disk set,
\* virtio_disk_rw returns only after the device has carried out that very
\* request, and neither panic nor a blank ring entry is ever reached.
OwnRequest ==
    /\ ~panicked
    /\ \A d \in taken : info[d].b \in busy /\ pc[info[d].b] \in {"wait", "woken"}
                        /\ head[info[d].b] = d
    /\ \A t \in Live \ busy : t \in served

\* Every request handed to the device comes back to its caller, whatever the
\* order of completions and however many the device adds while the handler runs.
RequestReturns == \A t \in Tasks : pc[t] = "publish" ~> pc[t] = "idle"
=============================================================================
