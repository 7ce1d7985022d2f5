# A TLA+ model of zrhos

zrhos is a small operating system for RISC-V with several harts: spinlocks and
semaphores, a preemptive scheduler, user tasks with fork, exit, wait and kill, a
buffer cache and file system on a virtio disk, copy-on-write address spaces, a
console, a keyboard and a display. This directory holds a model of the kernel in
TLA+, the TLC runs that check it on small instances, and TLAPS proofs.

`PROJECT.json` lists the components, the runs, the source lines that each
definition models, the hazards and the findings.

## The system and its parts

| part | state | operations | hard behaviour | what makes it correct |
|---|---|---|---|---|
| spinlocks (`lock.c`) | `locked`, `cpu` of each lock; `noff`, `intena`, SIE of each hart | `lm_lock`, `lm_unlock`, `check_lock`, `push_off`, `pop_off` | two unlocked loads in `holding()`, interrupts, migration | exclusion, no self-deadlock with a handler, interrupts restored |
| scheduler (`proc.c`, `trap.c`) | task states, `c->current`, saved contexts | `scheduler`, `sched`, `yield`, `sleep`, `wakeup`, timer and device interrupts | a thread is RUNNABLE before it has left its stack, wakeups race with sleeps, threads change harts | one hart per stack, no lost wakeup, nobody starves |
| semaphores (`lock.c`) | `value`, list of waiting tasks | `lm_P`, `lm_V` | the waiter is queued before it is off its hart | a FIFO semaphore |
| task life cycle (`proc.c`) | the task table, `wait_lock`, `sons_sem` | `sys_fork`, `exit`, `reparent`, `sys_wait`, `sys_kill` | four kinds of nested locks, slots are reused, zombies change parent | no dangling parent, no freed stack in use, no stranded zombie |
| buffer cache (`bio.c`) | buffers with `blockno`, `valid`, `refcnt`, `sem`; the recency list | `bread`, `bwrite`, `brelse` | semaphore and reference are taken and dropped at different times | a store of blocks, each with one user at a time |
| disk driver (`virtio_disk.c`) | descriptors, rings, `used_idx` | `virtio_disk_rw`, `virtio_disk_intr` | completions out of order, too few descriptors | each request completes once, descriptors are conserved |
| inodes, directories (`fs.c`) | `itable`, inode semaphores, `fs_lock`, bitmap | `iget`, `ilock`, `iput`, `itrunc`, `bmap`, `writei`, `dirlink` | semaphores taken twice, a spinlock held across I/O | references and blocks are conserved, no deadlock |
| files, system calls (`file.c`, `sysfile.c`, `exec.c`) | `ftable`, `ofile[]` | `sys_open`, `sys_read`, `sys_write`, `sys_close`, `sys_exec` | `begin_op` and `end_op` on every error path | references match, `fs_lock` is balanced |
| address spaces (`mmap.c`, `vm.c`) | regions, page table entries, page reference counts | `mmap`, `munmap`, `handle_pagefault`, `copy_mmap` | shared pages, counts changed under `check_lock` | private pages are private, a page is freed when nobody maps it |
| allocator (`mem.c`) | page table of the heap, free lists | `mem_malloc`, `mem_free` | runs of pages | blocks handed out do not overlap |
| console, keyboard (`console.c`, `uart.c`, `keyboard.c`, `virtio_input.c`) | ring indices | reads against interrupts | index wrap, full buffer | lines arrive whole and in order |
| display (`virtio_gpu.c`, `monitor.c`) | descriptors, `pending` | commands, interrupt | early returns with a lock held | as for the disk |

The parts call one another downwards in this table: everything uses spinlocks;
`lm_P` and `sleep` call `sched`; `exit` calls `lm_V` with `t->lock` and `wait_lock`
held; the buffer cache uses a semaphore per buffer and sleeps in the disk driver
until its interrupt handler calls `wakeup`. The lock order that the code follows is
`t->lock`, `wait_lock`, `sons_sem.lk` in `exit` and `sys_wait`; `sem.lk`, `t->lock`
inside `lm_P` and `lm_V`.

## Modules

**SpinLock** – `lock.c`, one step per access to `lk->locked` or `lk->cpu`. A context
is a thread or an interrupt handler. `on` says which hart it is on; `Preempt` and
`Dispatch` move threads between harts whenever interrupts are on, `Interrupt` puts a
handler on top of a thread. `pc` names the place inside `lm_lock` (`hold1` .. `setcpu`),
`check_lock` (`chk1` .. `nested`) and `lm_unlock` (`release`, `popoff`). `CallUnlock`
takes the test of `holding()` together with `lk->cpu = -1`: only the holder, with
interrupts off, executes it, and nobody else writes either word while it holds the lock.
A caller takes locks in the order of their numbers and releases them in any order.
`ZeroInit` is the set of locks that no code initialises. `check_lock` is called with interrupts off (page
faults, callers with a lock) and on (`exec` and `munmap`); in the second case the caller can be preempted between any two of its loads.

**Sched** – `scheduler`, `sched`, `yield`, `sleep`, `wakeup`, `lm_P`, `lm_V`, the timer
and one device interrupt handler, and `exit` and self-`kill` as far as the scheduler
sees them. A spinlock is owned by a hart and acquired in one step, which SpinLock
justifies; acquiring a lock the hart has, releasing one it has not, and the four checks
of `sched` set `panicked`. Threads choose any call of `Calls` when they are in the kernel
without locks; `wait` is the loop around `sleep` as `virtio_disk_rw` has it for descriptors, `signal` the `free_desc` with
its `wakeup` at the end of that function, and the device handler is `virtio_disk_intr`. `lm_sleeplock` has the same loop and no caller. A new thread's `real_entry` is `Entry`; its unlock and `intr_on` are one step.
`exit` reads the hart number and `->current` in two steps, since nothing keeps it on its hart.

**FifoSem** – what `lm_P` and `lm_V` promise: tokens and a queue served in order.
`Sched!ImplementsSemaphore` is the refinement. The waiter leaves the abstract queue
when `lm_V` raises the count.

**TaskLife** – the task table: fork, exit with reparenting, wait, kill. Locks appear
in `owner` when another lock is wanted while they are held; a lock taken and released alone is one step.
`forker` is a history variable that only the properties read.
Scheduling is abstracted to "a task that is not asleep may take its next step".

**Bcache** – `bio.c`: hit, recycle, `lm_P`, transfer, `bwrite`, and `brelse` in its two
halves (semaphore, then reference). `lru` is the list, most recent first. `WriteBack` says
whether callers `bwrite` what they changed; `Nesting` are the tasks that hold two buffers,
always asking for a lower block second (`bmap`, `itrunc`: indirect block, then bitmap).
With `WriteBack`, a caller that has changed a block is at `dirty` until it has called `bwrite`.

**BlockStore** – what the cache promises: each block has one user at a time and keeps
its contents. `Bcache!ImplementsStore` is the refinement; the abstract contents of a block are
those of its valid buffer, or the disk's.

**VirtioDisk** – `virtio_disk_rw` and `virtio_disk_intr`: the descriptors and their chains,
`avail` and `used` with indices that wrap, the handler's loop entry by entry. A task is at `nodesc`
(too few descriptors), `publish` (chain in the ring, `avail->idx` not yet moved), `wait`, `woken`. `DevTake`,
`DevFinish` and the interrupt line are the device: it takes chains when it likes and finishes them in any
order, also while the handler runs. Bcache takes a transfer as one step that ends later: `OwnRequest`
and `DiskRequestReturns` are what justifies it.

**VirtioGpu** – the display driver, with the same rings and two or three descriptors per command, and
`monitor_write` on top: `virtio_gpu_init` sends `Boot`, each frame sends `FrameCommands`. The device
accepts a command only when what it needs has been set up, and keeps a copy of the frame buffer.
A frame has `FB_PARTS` parts: `MonitorCopy` is one round of `copyin`'s loop over pages, which holds `monitor0.lock` only, and `DevFetch` is the
device reading one part of the buffer for a transfer, in between. `fb`, `host` and `shown` say of each part which frame it is of, in the
buffer, in the device's copy and on the screen. `MonitorRefuse` is the early return that keeps `monitor0.lock`, before the first part or
after any, with what was copied left in the buffer.

**Input** – `virtio_input_intr` with its posting loop and `keyboard_intr`, and
`keyboard_read_event`: `got` is what the last read copied out, as much as the reader has room for, from `tail` on.
`CellAt` reads at `tail` as the code does, not reduced modulo `BUF_SIZE`: past the end of the array there is no event but other memory (`Beyond`).
`overrun` records that the loop has offered the device a buffer whose event is not
yet consumed; events are numbered in the order in which the device makes them.

**Console** – the ring of `console.c` with its three `uint32_t` indices (`UintMod` is where they wrap), every branch of
`console_intr` (plain characters, backspace, kill-line, newline, ^D, full ring) and `console_read` with its
sleep, its put-back of ^D and its test of `killed`. Each character copied is one step, since `either_copyout`
runs with the lock held and other readers come in between at the sleep only.

**LineBuffer** – what the console promises: a queue of committed characters and a line that
is still being edited. `Console!ImplementsLines` is the refinement.

**RbTree** – `rbtree.c`: the head sentinel with root, leftmost and rightmost, both kinds of
rotation, `impl_node_insert` and `rb_erase_node` with one step per turn of their rebalancing loops, the calls that erase
several nodes, and the lookups as operators over the links. `elems` is the set the callers put in.

**Mem** – `mem.c`: the page table of the heap (`info`), the free list of pages, one list
of small blocks per size class, and `bigfind`'s search for a run of pages with its four outcomes. `live` are
the blocks callers have; `lost` are pages the last case of `bigfind` drops.

**Fs** – `itable`, `ftable`, descriptors, `fs_lock` and the calls that use them: `sys_open`
with its flags (write, create, truncate), `sys_close`, `sys_read`, `sys_write`, `sys_chdir`, `exec`, and what fork and exit do with files. A
step is a critical section of `itable.lock` or `ftable.lock`, or the part between two semaphore operations. `refused`,
`ended` and `leaked` are history variables: they count the tokens and references that the code gives away, so that the
properties can say that nothing else does. `FreeIno` is what `ialloc` may return, 0 among it when the disk has no free inode.

**Vm** – regions and page table entries (as permissions) of each task through `mmap`, `munmap`,
page faults, `fork`, `exec` and exit.
An action is a whole call: `ExecSpace` is the exchange of the address space in `exec`, `FreeTask` its end in `free_task`.

**MCSpinLock, MCSched, MCBcache** give the instances their constants. **MCHarts** adds a `mode` to Sched, which the initial state picks:
two harts with the constant `Calls`, two harts whose threads sleep, wake and kill themselves, or one hart alone, with the calls
that are sound there only. `sched` has all of them; `sched_live` (`LiveSpec`) has the first. **MCDevices** (which extends
VirtioDisk, VirtioGpu, Input and Console) and **MCResources** (which extends Fs, Vm and Mem and instantiates
RbTree) put components into one run: a behaviour is one of a single
component, which the initial state picks. The extended modules that are not picked stay in their initial state; the variables
of the tree are then `Absent`. Extending makes TLC evaluate a module's assumptions.
A definition that a comment marks *Mutant* is a plausible slip in the operation that follows;
`PROJECT.json` pairs each with the property that notices it. No specification uses it.

**SpinLockProof, SchedProof, TaskLifeProof, BcacheProof, ConsoleProof, FsProof** hold the
proofs about the modules of those names, **VirtioProof** those about VirtioDisk, VirtioGpu and Input, which share the
arithmetic of ring indices, and **MemoryProof** those about Vm and Mem.

## Runs

| run | instance | what it shows |
|---|---|---|
| `spinlock` | 2 harts, 2 threads, 1 handler, 2 locks | exclusion, interrupts off while a lock is held and restored after, no panic of `lock.c`; `check_lock` with interrupts off tells only the holder that it has the lock, whatever calls with interrupts on go on |
| `sched` | 2 harts, 3 threads that sleep, wake, P and V, with timer and device interrupts; or sleep, wake and kill themselves; or 1 hart, threads that P, V, call `sys_exit` and kill themselves | no lost wakeup, one hart per stack, `sched`'s checks hold, the scheduler gets the right lock back, interrupt state follows the thread, FifoSem is implemented, a wakeup never ends an `lm_P`. The defect of `sched_exit` needs a second hart |
| `sched_live` | 2 harts, 2 threads that sleep, wake, P, V and exit from a trap | every RUNNABLE thread runs again; the scheduler gets its thread back with the right lock and state |
| `tasklife` | 4 slots, 4 pids, fork, exit, wait, a first task that may exit | parents never dangle, tokens cover zombies, no parent sleeps on a zombie, no slot is freed under its task |
| `tasklife_live` | 3 slots, 3 pids, the second slot's task also kills | no deadlock among the nested locks; a wait with a zombie child returns; parents and slots as above, with killed tasks |
| `bcache` | 2 tasks that nest, 2 buffers, 3 blocks, 2 values | one buffer per block, exact counts, one holder, no recycling under a waiter, no panic of `bwrite` or `brelse`, BlockStore is implemented, even when `bget` runs out of buffers |
| `bcache_live` | 3 tasks, 2 of them nest, 2 buffers, 2 blocks | every `bread` returns |
| `devices` | disk: 3 tasks, 8 descriptors; display: 3 writers, 4 descriptors, 3 frames of 2 parts; input: 2 buffers, 8 events, a ring of 3; console: 2 readers, a ring of 3 | disk descriptors are conserved, a disk request returns, to its own caller and after its own transfer; no display command is refused or outlives its stack, when a write returns no part of the screen is older than its frame, and the newest frame is whole once no writer is inside; key events are kept in order and read from where they are, as far as the array goes; LineBuffer is implemented and no reader sleeps on a line |
| `resources` | tree: 8 nodes, 7 keys; heap: 9 pages, 2 size classes, 4 blocks; files: 2 tasks, 2 inode slots, 1 file, 3 path calls; address spaces: 2 tasks, 6 pages, 2 `mmap`s | the tree stays a red-black tree and answers like a sorted set; heap blocks never overlap and every page has an owner; references, inode locks and the transaction token balance on every path; entries stay within their regions, fork write-protects private pages in both tasks |

Runs that end in a counterexample state what a comment of the repository says;
the findings in `PROJECT.json` quote it.

| run | the code |
|---|---|
| `spinlock_check` | `check_lock` with interrupts on may take another hart's lock for its own: the thread loads `lk->cpu` and runs on that hart before it asks for its own number |
| `sched_exit` | `exit` with interrupts on may act on another hart's current task |
| `bcache_lost` | a change without `bwrite` is lost when the buffer is recycled |

**Bounds.** Two harts are the least on which threads migrate and race; three threads give a
holder, a waiter and a waker, and a queue of two. `MaxSem` caps the semaphore's value: `lm_V` at
the cap would only count higher. `NTASK` and `MaxPid` cap the task table and the number of forks (a fork that
has begun below `MaxPid` may end above it, so slots are reused): four slots give `tasks[0]` asleep in wait,
a child, and a grandchild that exits and hands its own child over. `Killers` bounds who calls kill. Two locks are enough for nesting and for out-of-order release.
In the cache, more blocks than buffers force recycling.
In the drivers the descriptors do not suffice for all tasks, several requests are in flight, and every ring index wraps
(`IdxMod` is the modulus, a multiple of the ring's size). Two parts are the least that make a torn frame (`FB_PARTS`). `MaxFrames` and `MaxEvents` cap what is written and typed: more events than the two rings have
places. The console's ring fills up with either reader in the middle of a line.
Eight nodes, two of them with the same key, reach every case of both rebalancing loops. Nine pages and `BigSizes` of two and three
give runs that fit, that must be joined, that grow at the top and that do not fit. `NINODE` 2 and `NOFILE` 1 make both tables run full;
`MaxCalls` bounds the calls that take a path. Vm's requests contain anonymous, private, shared, empty, overlapping and kernel-placed regions and one at address 0 (`MAP_ZERO`); `MaxMaps` and `MaxHigh` bound how many. `sched` and `sched_exit` use the symmetry of the harts, `spinlock` and `spinlock_check` that of the threads; the
other runs use none. `CHECK_DEADLOCK FALSE` stands where the system may really stop: all tasks have
exited or wait, a bound on pids, calls, frames or events is reached, or the code has panicked or deadlocked on itself (as the observations say); and in `sched_exit`, where the counterexample is the point.

**Further observations.** Some behaviours of the code that the models contain, or that their
assumptions exclude, have no run of their own:

* `wait_lock` (`proc.c:19`), `pid_lock` (`proc.c:97`) and the allocator's `lk` (`mem.c:17`) never go through
  `lm_lockinit`. Their `cpu` is 0 until the first release, so hart 0 can meet the "holding lock" panic
  while another hart is between `amoswap` and `lk->cpu = cpuid()`. `ZeroInit` of SpinLock is this set;
  the theorem `LockPanicsUnreachable` needs it empty.
* A task that kills itself is switched away from while still RUNNING (`proc.c:389`): no scheduler
  picks it again and it never becomes a ZOMBIE. `KillSelf` (Sched) and `stuck` (TaskLife).
* `sys_fork` follows the null pointer that `utask_create` returns when the table is full (`proc.c:459`). `ForkFull`.
* `sys_wait` copies out the status of the waiting task, not of its child (`proc.c:366`), and without a
  child it never returns (`proc.c:357`). The status is not modelled.
* `bget` panics when every buffer is referred to (`bio.c:72`); NBUF is 100 and NTASK 1010. `bget_panic` leaves
  its task at `full` for ever; it happens in `bcache`, whose other properties hold all the same, and cannot
  happen in `bcache_live`, which has no more blocks than buffers.
* The `killed` flag of a slot is not reset when the slot is reused (`proc.c:147`), so a new task may be born
  killed; and `kill` does not wake a sleeping target (`proc.c:581`).
* `monitor_write` returns with `monitor0.lock` held and interrupts off when the frame is short or cannot
  be read (`monitor.c:45`); `keyboard_read_event` does the same with its lock when the copy fails.
  `MonitorRefuse` (VirtioGpu), `KeyboardReadFails` (Input).
* `keyboard_read_event` indexes `buffer[tail]` without reducing `tail` modulo `BUF_SIZE` (`keyboard.c:49`): once `tail` has
  reached `BUF_SIZE` it returns other memory; and it throws away the unread events when the caller's buffer is short (`keyboard.c:45`). `CellAt` and `KeyboardRead`.
* While one writer copies its frame, the device may be reading the buffer for another, whose `monitor_write` then returns with parts of two frames
  on the screen, until the commands of the first are done. `FrameShown` allows it.
* `virtio_input_intr` compares 16-bit indices as `int` (`virtio_input.c:191`): around a wrap the posting loop runs
  differently, and when the device has used more buffers since the consuming loop, it offers buffers that still hold an event. `overrun`.
* A failing `alloc3_desc` or `allocn_desc` wakes the other sleepers with each descriptor it gives back.
* The last case of `bigfind` takes one page more than it needs and cuts the free list behind the run it looked at (`mem.c:302`); `lost`.
* When the disk has no free inode, `ialloc` returns 0 and keeps the last buffer it read (`fs.c:134`); Fs has the return, not the buffer.
* `O_CREATE` of a new name panics in `ilock` ("ilock: no type"), because `ialloc`'s inode is released without `bwrite`; `O_TRUNC`
  waits for the inode's semaphore that its own call holds (`sysfile.c:282`); a `sys_write` of a file opened for reading keeps the transaction token
  (`sysfile.c:318`), and from then on nobody gets one; `exec` ends a transaction it did not begin (`exec.c:125`) and walks its path outside of any,
  which the comment at `fs.c:468` forbids; `fileclose` never `iput`s (`file.c:34`), so `itable` fills up. All in Fs.
* `mmap` of no pages, twice, at kernel-chosen addresses panics; `mmap_create` leaves `high_level` uninitialised; fork of overlapping regions
  panics when an entry is mapped twice. All in Vm.
* The reference counts of frames are looked up with an uninitialised key, by virtual address in `handle_pagefault` (`mmap.c:312`),
  and the old page is dropped before it is copied (`mmap.c:317`); `copyout` does not look at `PTE_W`, so the kernel writes into pages that
  copy-on-write shares. Frames are not modelled for this reason.

**Fairness.** *Sched*: each hart executes instructions for ever, a spinning `amoswap` that
finds the lock free again and again succeeds in the end, and a pending timer interrupt is taken
when interrupts are on again and again: strong fairness of `Hart` and of `Timer`. `lm_lock` spins
without a queue, so this is the assumption the code itself rests on. *TaskLife*: strong fairness of the
kernel part of each task, which `NoStarvation` and the same assumption on locks justify; programs owe
nothing. *Bcache*: weak fairness of each task's steps and of transfers, and each buffer that a
task holds is released in the end, as every caller of `bread` that returns does. *VirtioDisk*: the device works on what
it is given and completes it, weakly fair per chain; a pending interrupt is taken and its handler gets `vdisk_lock` in the end, and so does a
woken task (strong fairness, since others take the lock in between); steps inside the handler and `Publish`, which nothing disables, are weakly fair.
The fairness concerns tasks that already are in the driver: nobody is made to issue a request, and a task that never gets descriptors is not promised any.

## Proofs

Eight modules prove 32 theorems, each for every value of the constants that the named assumptions
(`SchedAssumption` and so on, evaluated by TLC in the runs) allow. All safety properties of the passing runs are
proved but the two of the red-black tree; so are the three refinements. No property but the simplest is
inductive; each proof module opens with the invariant it needs. The common pattern: a step moves one
actor, so the module shows once what follows for the others from what the step leaves alone, and then has one lemma
per action.

**SpinLockProof** – any harts, threads, handlers, any finite set of locks.
* `TypeCorrect`, `LocksExclude`, `CriticalSectionsUninterrupted` and
  `InterruptsRestored` hold without further assumption, uninitialised locks and `check_lock` with
  interrupts on included;
* `LockPanicsUnreachable` assumes that every lock went through `lm_lockinit` (`ZeroInit = {}`);
* `CheckLockCorrect` has the same assumption. `CheckLockSound` is about a context whose interrupts are off when it goes on from `check_lock`; other contexts may be
  anywhere in a call with interrupts on. Without the qualification it is `CheckLockExact`, which `spinlock_check` refutes.

The invariant `Inv` adds, for each context, how its
program counter, the locks it has won, and `noff`, `intena` and SIE of its hart belong together (`noff` is
the number of locks won plus one inside a call that has not finished; SIE is off exactly when `noff` is
positive or a handler runs; `intena` tells thread from handler), and for each lock that its word is set
exactly when somebody has it. `CpuTruthful` adds what `lk->cpu` may say at each place: the holder's hart
or none, and none from `lm_unlock`'s reset on. That is why the two unlocked loads of `holding()` are
harmless while a context cannot leave its hart.
Counting locks uses `FiniteSetTheorems`.

**SchedProof** – any number of harts and threads, any bound on the semaphore.
* All assume `SafeExits`: if threads call `sys_exit`, which runs `exit` with interrupts on, there is one hart. So `SwitchesLocked` says that the scheduler gets the right lock back
  on one hart whatever the threads call, and on any number of harts from `yield`, `sleep`, `lm_P`, a `kill` of oneself and `exit` from a trap. It is not about `sys_exit` on
  several harts: there the run `sched_exit` violates `LockedOnReturn`, a part of `ExitsLocked`, so the assumption cannot be dropped.
* `SwitchesClean` assumes in addition that no thread kills itself, since such a thread stays RUNNING for ever (see the observations); `OneHart`, the statement of
  `StacksExclusive`, excepts it.

`Inv` says, of each thread, where it is (on a hart, parked behind a `swtch`, in a handler), and from that which locks its hart
holds (`Owners`), how deep interrupts are off and what `intena` will restore (`Harts`), and its state
(`Threads`). `Wakeups` adds that a sleeper whose condition is true is ahead of some `wakeup()`; `Semaphore` that the list of `lm_P` is exactly the threads
that sleep there. The lock that a thread holds into `sched()` is released by another thread or by the scheduler: these steps (`SwitchInv`, `WakeOneOK`, `VWakeOK`) are
where the invariants of two threads meet.

**TaskLifeProof** – any number of slots, pids and killers; `tasks[0]` may exit or not.
* `SlotsNeverDangle`: the types, parents and reused slots. The invariant has the locks a task holds where it is (`Locked`; this is why nobody
  reaps a zombie before it has left its stack), its state (`States`), what it waits for (`Places`), that nothing points to a task which
  has finished `reparent()` (`Family`), and that pids are distinct (`Pids`).
* `ZombiesAreSignalled`: `Covered` counts the tokens of each `sons_sem`, and the one a `sys_wait` in progress has taken, against the
  zombies that have signalled; `Waking` follows a parent from `lm_V` to its lock.

**BcacheProof** – any number of tasks, buffers and blocks.
* `CacheConsistent` and the action property `IdentityKept`. Which buffers a task holds at each place (`Own`), that the list of `b->sem` is exactly the tasks
  in `lm_P` (`Queued`), that `holding_task` and `valid` are right while the semaphore is had (`Marked`), that a buffer in use has a block
  (`Named`) and that the recency list has every buffer (`Listed`) make `Consistent` inductive.
* `CacheIsStore`, the refinement of BlockStore, assumes `WriteBack`: callers `bwrite` what they change before `brelse`. `balloc`, `bfree` and `iupdate` do;
  `writei`, `bmap` and `dirlink` do not, and the run `bcache_lost` shows what that costs. `Written` is the invariant that eviction relies on: a valid buffer is like
  the disk, but for a `bwrite` to come.

**VirtioProof** – any number of tasks and writers, of descriptors and of event buffers, any multiple of the ring's size at which the indices wrap
(for the input device from two on; its indices have 16 bits and its queue 64 buffers).
* Disk: `DescriptorsConserved` and `RequestsOwned`. `Chains` says which descriptors a request has; `Handed` follows it through the avail ring, the device and the used ring: the
  entries between two indices are the heads of different requests, and no request is in two of the three places. `Counts` is why no ring overtakes
  itself. The lemmas on `%` are proved from the uniqueness of the remainder.
* Display: `GpuCommandsOwned` and `GpuFrameShown`. `GpuChains` and `GpuHanded` are the same argument for chains of two or three descriptors: no ring overtakes itself because
  different heads, each with a second descriptor of its own, are fewer than the descriptors. `OnPlan` ties each caller to the commands it has still to send: what the command needs has
  been set up when it is sent, the answer is "ok" once the device has dealt with it, and no part of the device's copy (`host`) is older than the caller's frame after its transfer, nor any part of the screen after its flush.
  `GpuFrames` (the parts of screen, copy and frame buffer only move forward, and the buffer is whole when its lock is free) and `Fetching` (what the device has read of a transfer under way) are why other writers' commands in between make no part older;
  the newest frame is whole at the end because the last transfer starts after the last copy. The theorem covers the writers that
  `MonitorRefuse` leaves with the lock held.
* Keyboard: `InputKeepsEvents`. The used index and the handler's index are two counts, cut to their width (`Indices`); the events between the counts are in the cells and buffers they were written
  to, as long as no buffer was offered too early (`Underway`, under `~overrun`); the keyboard's ring has the newest keys without this condition, and a reader gets them from `tail` on wherever its index is inside the array.

**ConsoleProof** – any number of readers, any size of the ring, any multiple of it, from two on, at which the indices wrap.
* `ReadersSleepOnEmpty`: only a commit moves `w`, and it wakes everybody; `r` moves only when nobody sleeps.
* `RingIsLineBuffer`, the refinement of LineBuffer. `Window`: `r`, `w` and `e` follow each other within the size of the ring. `OneLine`: the edited line has no newline, so that ^U
  erases all of it. Cells are counted from `r`, and cells at different distances are different.

**FsProof** – any tasks, inode slots and files, any directory tree, any set of paths.
* `ReferencesCounted`, `TokenAccounted`, `InodeLocksBalanced`. `PlaceOf` says which inodes a task refers to at each place of its call, `LockOf` which it has locked,
  `FilesCounted` that `ref` of a file counts its descriptors, `UniqueInum` that no inode is in two slots.
  What the code gives away (a token with every refused write, a reference with every close) is in the statements, as the history variables say.

**MemoryProof** – any tasks, addresses, requests and program image; any number of heap pages, size classes, blocks in a page (from two on) and page counts asked for.
* Address spaces: `AccessWithinRegions` (`PteCovered`) and the action property `ForkWriteProtects`. Three facts about types are needed: addresses are numbers, so that `mmap_find` finds a region when there is one; permissions
  are not the mark of an absent entry; and a task has finitely many regions, so that fork's check for pages of two regions means something.
* Heap: `HeapIsSound`. `HeapSound` compares and counts; `HeapInv` says where everything is: a block that a caller holds is what the entry of its page says (`Tagged`), which is all `mem_free` has to find the
  list the block came from; each page has one owner (`OneOwner`); each block of a size class is the head of the list, in the list or given out (`ClassSound`). Both kinds of list increase, so that
  the place where a walk of `mm_free` stops is the only one that keeps the order, and the pages of a run which `bigfind` meets are neighbours and nobody else's. The counts of `Accounted` follow by splitting
  the heap into disjoint finite sets. The lists are sequences that are cut and joined at positions (`Passed`, `Splice`), so no induction over them is needed.

Only model-checked:
* all liveness (`NoStarvation`, `LocksReleased`, `WaitReturns`, `BreadReturns`, `DiskRequestReturns`): the prover has no fairness;
* the red-black tree (`TreeSound`, `TreeAnswersLikeASet`): heights, orders and lookups are recursive over the links, and that a rotation preserves them needs induction over data.

## Plan

1. An invariant of the tree without recursion: every node carries the interval of keys and the black height below it as history.
2. Frames, their reference counts and the contents of shared pages, once the key of the reference tree is defined.
3. Blocks: the bitmap, `bmap` and `itrunc` on top of Bcache.

## Not modelled

Boot and device register programming, assembly register save and restore, `printf` and string
functions, ELF parsing, `mkfs`, and user programs. `lm_sleeplock` and `lm_sleepunlock`, which nothing calls. Of the file system, the block maps and contents (`bmap`, `readi`, `writei`,
`dirlink`): directories are constants, since no call gets as far as changing one; and the branch of `iput` for an inode without links (`fs.c:237`), since `mkfs` gives every
inode a link and no call takes one away. Of the address spaces, frames and reference
counts, and the levels of the page table: `free_pagetable` and `vm_unmap` appear by their result, an absent entry, and `munmap` calls `vm_unmap` for pages that are
mapped only, so that its panics are not met. `sys_ioctl` and the calls that only pass a value on. Relaxed memory
order is not modelled: `lm_lock` and `lm_unlock` use an acquiring and a releasing atomic with full fences
around the critical section, so accesses to the lock words are taken as sequentially consistent.
