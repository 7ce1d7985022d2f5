---------------------------------- MODULE Fs ----------------------------------
(***************************************************************************)
(* The in-memory inodes of kernel/fs.c, the open files of kernel/file.c    *)
(* and the system calls of kernel/sysfile.c and kernel/exec.c that use     *)
(* them: path walks, references, inode locks and the transaction token.    *)
(*                                                                         *)
(* The directories on the disk do not change: creating a name ends in a    *)
(* panic (see NewLock).  What a file holds is left out, and reading and    *)
(* writing a device is module Console.  A step is a critical section of    *)
(* itable.lock or ftable.lock, or the part of a call between two           *)
(* operations on semaphores.  A task that panics loops for ever with the   *)
(* locks it has; a panic of iget has itable.lock too.                      *)
(***************************************************************************)
EXTENDS Integers, Sequences, FiniteSets

CONSTANTS
    Tasks,      \* the tasks; First exists from the start
    First,
    NINODE,     \* slots of itable
    NOFILE,     \* slots of ftable, and of a task's ofile
    Kind,       \* Kind[inum]: "dir", "file", "prog" (a valid program), "dev"
                \* or "baddev" (a device with a major number out of range)
    FreeIno,    \* what ialloc may return: a free inode of the disk, or 0 for none
    Entry,      \* Entry[inum][name]: the directories, 0 where a name is missing
    Paths,      \* the paths used: [abs, names]
    Modes,      \* the modes of sys_open, sets of flags: "W" (O_WRONLY or O_RDWR),
                \* "C" (O_CREATE), "T" (O_TRUNC)
    MaxCalls    \* bound: calls that take a path

Free == "free"

ASSUME FsAssumption ==
    /\ IsFiniteSet(Tasks) /\ First \in Tasks /\ Free \notin Tasks
    /\ NINODE \in Nat \ {0} /\ NOFILE \in Nat \ {0}

ROOTINO == 1
Slots == 1..NINODE
Files == 1..NOFILE
None == 0

VARIABLES
    inum, ref,      \* itable.inode[]
    lock,           \* who holds the inode's semaphore, or Free
    fs_lock,        \* value of the transaction semaphore
    file,           \* ftable.files[]: [ref, ip, writable]
    cwd, ofile,     \* per task
    pc,             \* per task: "unborn", "idle" or the place in its call
    op,             \* per task: [call, names, ip, next, mode, f]
    made,           \* calls with a path so far
    refused, ended, \* history: writes of a read-only file, end_ops of exec
    leaked          \* history: references that closed files have left behind

vars == <<inum, ref, lock, fs_lock, file, cwd, ofile, pc, op, made, refused,
          ended, leaked>>
itable == <<inum, ref>>
tables == <<inum, ref, file, cwd, ofile>>
calls == <<made, refused, ended>>
history == <<calls, leaked>>

NoOp == [call |-> "none", names |-> <<>>, ip |-> None, next |-> None, mode |-> {}, f |-> None]
NoFile == [ref |-> 0, ip |-> None, writable |-> FALSE]

\* user_init and fs_init: the first task's working directory is the root
Init ==
    /\ inum = [s \in Slots |-> IF s = 1 THEN ROOTINO ELSE 0]
    /\ ref = [s \in Slots |-> IF s = 1 THEN 1 ELSE 0]
    /\ lock = [s \in Slots |-> Free]
    /\ fs_lock = 1
    /\ file = [f \in Files |-> NoFile]
    /\ cwd = [t \in Tasks |-> IF t = First THEN 1 ELSE None]
    /\ ofile = [t \in Tasks |-> [fd \in Files |-> None]]
    /\ pc = [t \in Tasks |-> IF t = First THEN "idle" ELSE "unborn"]
    /\ op = [t \in Tasks |-> NoOp]
    /\ made = 0 /\ refused = 0 /\ ended = 0
    /\ leaked = [s \in Slots |-> 0]

Goto(t, l) == pc' = [pc EXCEPT ![t] = l]

-----------------------------------------------------------------------------
(* iget and iput, each one critical section of itable.lock *)

InUse(i) == {s \in Slots : ref[s] > 0 /\ inum[s] = i}
Empty == {s \in Slots : ref[s] = 0}
Lowest(S) == CHOOSE s \in S : \A u \in S : s <= u

\* the slot iget returns for inode i; without one it panics
CanGet(i) == InUse(i) # {} \/ Empty # {}
SlotFor(i) == IF InUse(i) # {} THEN Lowest(InUse(i)) ELSE Lowest(Empty)

\* a task that panicked in iget has itable.lock
Stuck == \E t \in Tasks : pc[t] = "stuck"

Iget(i) ==
    /\ ~Stuck
    /\ inum' = [inum EXCEPT ![SlotFor(i)] = i]
    /\ ref' = [ref EXCEPT ![SlotFor(i)] = @ + 1]

\* iput, for an inode with links: no inode on this disk is without.  The number
\* in a slot without references is never looked at again.
Iput(s) ==
    /\ ~Stuck
    /\ ref' = [ref EXCEPT ![s] = @ - 1]
    /\ inum' = [inum EXCEPT ![s] = IF ref[s] = 1 THEN 0 ELSE @]

\* iget finds every slot in use and panics
IgetPanic(t) == ~Stuck /\ Goto(t, "stuck") /\ UNCHANGED <<itable, op>>

-----------------------------------------------------------------------------
(* The calls begin. *)

\* begin_op: waits for the token; the call has had no effect before
BeginOp == fs_lock > 0 /\ fs_lock' = fs_lock - 1

PathCall(t, call, path, mode) ==
    /\ pc[t] = "idle"
    /\ made < MaxCalls
    /\ made' = made + 1
    /\ op' = [op EXCEPT ![t] = [NoOp EXCEPT !.call = call, !.names = <<path>>, !.mode = mode]]
    /\ Goto(t, "start")
    /\ UNCHANGED <<tables, lock, refused, ended, leaked>>

SysOpen(t, path, mode) == BeginOp /\ PathCall(t, "open", path, mode)

SysChdir(t, path) == BeginOp /\ PathCall(t, "chdir", path, {})

\* exec does not begin a transaction
SysExec(t, path) == PathCall(t, "exec", path, {}) /\ UNCHANGED fs_lock

\* reading or writing a file that is no device
FileCall(t, call, fd) ==
    /\ pc[t] = "idle"
    /\ ofile[t][fd] # None
    /\ Kind[inum[file[ofile[t][fd]].ip]] \notin {"dev", "baddev"}
    /\ op' = [op EXCEPT ![t] = [NoOp EXCEPT !.call = call, !.f = ofile[t][fd]]]
    /\ Goto(t, "usefile")
    /\ UNCHANGED <<tables, lock, history>>

\* sys_read works outside any transaction
SysRead(t, fd) == FileCall(t, "read", fd) /\ UNCHANGED fs_lock

SysWrite(t, fd) == BeginOp /\ FileCall(t, "write", fd)

\* end_op, and the call returns
EndOp(t) ==
    /\ pc[t] = "end"
    /\ fs_lock' = fs_lock + 1
    /\ ended' = ended + (IF op[t].call = "exec" THEN 1 ELSE 0)
    /\ Goto(t, "idle")
    /\ op' = [op EXCEPT ![t] = NoOp]
    /\ UNCHANGED <<tables, lock, made, refused, leaked>>

-----------------------------------------------------------------------------
(* namex: op[t].names holds the path, then what is left of it *)

\* the walk starts at the root or at a second reference to the working directory
WalkStart(t) ==
    LET path == op[t].names[1]
        i == IF path.abs THEN ROOTINO ELSE inum[cwd[t]]
    IN  /\ pc[t] = "start"
        /\ \/ /\ CanGet(i)
              /\ Iget(i)
              /\ op' = [op EXCEPT ![t].ip = SlotFor(i), ![t].names = path.names]
              /\ Goto(t, "walk")
           \/ ~CanGet(i) /\ IgetPanic(t)
        /\ UNCHANGED <<lock, fs_lock, file, cwd, ofile, history>>

\* create looks for the parent: the walk stops one level early
Parent(t) == "C" \in op[t].mode

\* no element left: namei has its inode; nameiparent gives it back
WalkOver(t) ==
    /\ pc[t] = "walk" /\ op[t].names = <<>>
    /\ Goto(t, IF Parent(t) THEN "putfail" ELSE "found")
    /\ UNCHANGED <<tables, lock, fs_lock, op, history>>

\* ilock of s, then on to place l
Ilock(t, s, l) ==
    /\ lock[s] = Free
    /\ lock' = [lock EXCEPT ![s] = t]
    /\ Goto(t, l)
    /\ UNCHANGED <<tables, fs_lock, op, history>>

Iunlock(s) == lock' = [lock EXCEPT ![s] = Free]

WalkLock(t) == pc[t] = "walk" /\ op[t].names # <<>> /\ Ilock(t, op[t].ip, "look")

\* dirlookup of the next element: an inode number, or 0
Dirlookup(t) == Entry[inum[op[t].ip]][Head(op[t].names)]

\* iget of the entry dirlookup found, as op[t].next
TakeEntry(t, i, rest, l) ==
    \/ /\ CanGet(i)
       /\ Iget(i)
       /\ op' = [op EXCEPT ![t].next = SlotFor(i), ![t].names = rest]
       /\ Goto(t, l)
    \/ ~CanGet(i) /\ IgetPanic(t)

\* the directory is locked: the type test, the parent test, dirlookup, iunlock;
\* iput is a step of its own (PutFail, WalkPut)
WalkLook(t) ==
    LET isdir == Kind[inum[op[t].ip]] = "dir"
        last == Parent(t) /\ Len(op[t].names) = 1
        i == Dirlookup(t)
    IN  /\ pc[t] = "look"
        /\ \/ /\ isdir => ~last /\ i = 0
              /\ Goto(t, "putfail") /\ Iunlock(op[t].ip) /\ UNCHANGED <<itable, op>>
           \/ /\ isdir /\ last
              /\ Goto(t, "create") /\ Iunlock(op[t].ip) /\ UNCHANGED <<itable, op>>
           \/ /\ isdir /\ ~last /\ i # 0
              /\ TakeEntry(t, i, Tail(op[t].names), "putnext")
              /\ IF CanGet(i) THEN Iunlock(op[t].ip) ELSE UNCHANGED lock
        /\ UNCHANGED <<fs_lock, file, cwd, ofile, history>>

\* iput of the directory, in namex and in create, and on with the entry
WalkPut(t) ==
    /\ pc[t] \in {"putnext", "putparent"}
    /\ Iput(op[t].ip)
    /\ op' = [op EXCEPT ![t].ip = op[t].next, ![t].next = None]
    /\ Goto(t, IF pc[t] = "putparent" THEN "found" ELSE "walk")
    /\ UNCHANGED <<lock, fs_lock, file, cwd, ofile, history>>

\* Mutant: end_op is forgotten on failure.
FailReturns(t) == "idle"

\* a call that did not get its inode: exec returns at once, the others end_op
FailTo(t) == IF op[t].call = "exec" THEN "idle" ELSE "end"

\* iput on a failing path
PutFail(t) ==
    /\ pc[t] = "putfail"
    /\ Iput(op[t].ip)
    /\ op' = [op EXCEPT ![t] = IF FailTo(t) = "idle" THEN NoOp ELSE [@ EXCEPT !.ip = None]]
    /\ Goto(t, FailTo(t))
    /\ UNCHANGED <<lock, fs_lock, file, cwd, ofile, history>>

-----------------------------------------------------------------------------
(* create *)

CreateLock(t) == pc[t] = "create" /\ Ilock(t, op[t].ip, "created")

\* an existing entry is taken; else ialloc finds a free inode, or there is
\* none and the directory is given back
CreateLocked(t) ==
    LET i == Dirlookup(t)
    IN  /\ pc[t] = "created"
        /\ \/ /\ i # 0
              /\ TakeEntry(t, i, <<>>, "putparent")
              /\ IF CanGet(i) THEN Iunlock(op[t].ip) ELSE UNCHANGED lock
           \/ /\ i = 0
              /\ \E new \in FreeIno \ {0} : TakeEntry(t, new, <<>>, "newlock")
              /\ UNCHANGED lock
           \/ /\ i = 0 /\ 0 \in FreeIno
              /\ Goto(t, "putfail") /\ Iunlock(op[t].ip) /\ UNCHANGED <<itable, op>>
        /\ UNCHANGED <<fs_lock, file, cwd, ofile, history>>

\* ialloc set the type in memory only: ilock reads the inode from the disk,
\* finds no type and panics
NewLock(t) == pc[t] = "newlock" /\ Ilock(t, op[t].next, "panic")

-----------------------------------------------------------------------------
(* What the calls do with the inode. *)

FoundLock(t) == pc[t] = "found" /\ Ilock(t, op[t].ip, op[t].call)

FreeFiles == {f \in Files : file[f].ref = 0}
FreeFds(t) == {fd \in Files : ofile[t][fd] = None}

\* may the call open what it has found?  (the tests of create and sys_open on
\* its type, filealloc and fdalloc)
Opens(t) ==
    /\ Kind[inum[op[t].ip]] = "dir" => op[t].mode = {}
    /\ Kind[inum[op[t].ip]] # "baddev"
    /\ FreeFiles # {} /\ FreeFds(t) # {}

\* sys_open with the inode locked; O_TRUNC of a file takes its semaphore a
\* second time and waits for ever (the place "trunc" has no step)
Open(t) ==
    LET ip == op[t].ip
        f  == Lowest(FreeFiles)
        trunc == "T" \in op[t].mode /\ Kind[inum[ip]] \in {"file", "prog"}
    IN  /\ pc[t] = "open" /\ Opens(t)
        /\ file' = [file EXCEPT ![f] = [ref |-> 1, ip |-> ip, writable |-> "W" \in op[t].mode]]
        /\ ofile' = [ofile EXCEPT ![t][Lowest(FreeFds(t))] = f]
        /\ op' = [op EXCEPT ![t].ip = None, ![t].f = f]
        /\ IF trunc THEN UNCHANGED lock ELSE Iunlock(ip)
        /\ Goto(t, IF trunc THEN "trunc" ELSE "end")
        /\ UNCHANGED <<itable, fs_lock, cwd, calls, leaked>>

\* Mutant: iput without iunlock.
OpenRefusedLocked(t) ==
    /\ pc[t] = "open" /\ ~Opens(t)
    /\ Goto(t, "putfail")
    /\ UNCHANGED <<tables, lock, fs_lock, op, history>>

\* Mutant: iunlock without iput.
OpenRefusedNoPut(t) ==
    /\ pc[t] = "open" /\ ~Opens(t)
    /\ Iunlock(op[t].ip)
    /\ Goto(t, "end")
    /\ UNCHANGED <<tables, fs_lock, op, history>>

\* a directory to be written, a bad device, or no file or descriptor left:
\* iunlockput, end_op
OpenRefused(t) ==
    /\ pc[t] = "open" /\ ~Opens(t)
    /\ Iunlock(op[t].ip)
    /\ Goto(t, "putfail")
    /\ UNCHANGED <<tables, fs_lock, op, history>>

\* sys_chdir with the inode locked: iunlock, iput of the old directory
Chdir(t) ==
    LET ip == op[t].ip
    IN  /\ pc[t] = "chdir"
        /\ Iunlock(ip)
        /\ \/ /\ Kind[inum[ip]] # "dir"
              /\ Goto(t, "putfail") /\ UNCHANGED <<itable, cwd, op>>
           \/ /\ Kind[inum[ip]] = "dir"
              /\ Iput(cwd[t])
              /\ cwd' = [cwd EXCEPT ![t] = ip]
              /\ op' = [op EXCEPT ![t].ip = None]
              /\ Goto(t, "end")
        /\ UNCHANGED <<fs_lock, file, ofile, calls, leaked>>

\* exec with the inode locked: anything but a program panics; else iunlock
Exec(t) ==
    /\ pc[t] = "exec"
    /\ \/ /\ Kind[inum[op[t].ip]] # "prog"
          /\ Goto(t, "panic") /\ UNCHANGED lock
       \/ /\ Kind[inum[op[t].ip]] = "prog"
          /\ Goto(t, "execput") /\ Iunlock(op[t].ip)
    /\ UNCHANGED <<tables, fs_lock, op, history>>

\* iput, and then end_op although there was no begin_op
ExecPut(t) ==
    /\ pc[t] = "execput"
    /\ Iput(op[t].ip)
    /\ op' = [op EXCEPT ![t].ip = None]
    /\ Goto(t, "end")
    /\ UNCHANGED <<lock, fs_lock, file, cwd, ofile, history>>

\* ilock of a file's inode in sys_read and sys_write
UseLock(t) == pc[t] = "usefile" /\ Ilock(t, file[op[t].f].ip, "using")

\* a read, or a write that is not allowed, which returns without end_op
UseReturns(t) ==
    LET refuse == op[t].call = "write"
    IN  /\ pc[t] = "using"
        /\ refuse => ~file[op[t].f].writable
        /\ Iunlock(file[op[t].f].ip)
        /\ Goto(t, "idle")
        /\ op' = [op EXCEPT ![t] = NoOp]
        /\ refused' = refused + (IF refuse THEN 1 ELSE 0)
        /\ UNCHANGED <<tables, fs_lock, made, ended, leaked>>

\* a write: iunlock, end_op
WriteDone(t) ==
    /\ pc[t] = "using" /\ op[t].call = "write" /\ file[op[t].f].writable
    /\ Iunlock(file[op[t].f].ip)
    /\ Goto(t, "end")
    /\ UNCHANGED <<tables, fs_lock, op, history>>

-----------------------------------------------------------------------------
(* Files and working directories of tasks that close, fork and exit. *)

\* how many of the task's descriptors stand for file f
Holds(t, f) == Cardinality({fd \in Files : ofile[t][fd] = f})

\* fileclose drops the file; its inode keeps the reference
DropFiles(drop) ==
    /\ file' = [f \in Files |-> IF file[f].ref = drop[f] THEN NoFile
                                ELSE [file[f] EXCEPT !.ref = @ - drop[f]]]
    /\ leaked' = [s \in Slots |-> leaked[s] + Cardinality(
                     {f \in Files : file[f].ip = s /\ drop[f] > 0 /\ file[f].ref = drop[f]})]

\* sys_close
Close(t, fd) ==
    /\ pc[t] = "idle"
    /\ ofile[t][fd] # None
    /\ DropFiles([f \in Files |-> IF f = ofile[t][fd] THEN 1 ELSE 0])
    /\ ofile' = [ofile EXCEPT ![t][fd] = None]
    /\ UNCHANGED <<itable, cwd, lock, fs_lock, pc, op, calls>>

\* sys_fork: idup and filedup
Fork(t, u) ==
    /\ pc[t] = "idle" /\ pc[u] = "unborn" /\ ~Stuck
    /\ ref' = [ref EXCEPT ![cwd[t]] = @ + 1]
    /\ cwd' = [cwd EXCEPT ![u] = cwd[t]]
    /\ file' = [f \in Files |-> [file[f] EXCEPT !.ref = @ + Holds(t, f)]]
    /\ ofile' = [ofile EXCEPT ![u] = ofile[t]]
    /\ Goto(u, "idle")
    /\ UNCHANGED <<inum, lock, fs_lock, op, calls, leaked>>

\* free_task: every file is closed and the working directory given back
Exit(t) ==
    /\ pc[t] = "idle" /\ t # First
    /\ DropFiles([f \in Files |-> Holds(t, f)])
    /\ ofile' = [ofile EXCEPT ![t] = [fd \in Files |-> None]]
    /\ Iput(cwd[t])
    /\ cwd' = [cwd EXCEPT ![t] = None]
    /\ Goto(t, "unborn")
    /\ UNCHANGED <<lock, fs_lock, op, calls>>

Next == \E t \in Tasks :
    \/ \E path \in Paths, mode \in Modes : SysOpen(t, path, mode)
    \/ \E path \in Paths : SysChdir(t, path)
    \/ \E path \in Paths : SysExec(t, path)
    \/ \E fd \in Files : SysRead(t, fd)
    \/ \E fd \in Files : SysWrite(t, fd)
    \/ EndOp(t)
    \/ WalkStart(t)
    \/ WalkOver(t)
    \/ WalkLock(t)
    \/ WalkLook(t)
    \/ WalkPut(t)
    \/ PutFail(t)
    \/ CreateLock(t)
    \/ CreateLocked(t)
    \/ NewLock(t)
    \/ FoundLock(t)
    \/ Open(t)
    \/ OpenRefused(t)
    \/ Chdir(t)
    \/ Exec(t)
    \/ ExecPut(t)
    \/ UseLock(t)
    \/ UseReturns(t)
    \/ WriteDone(t)
    \/ \E fd \in Files : Close(t, fd)
    \/ \E u \in Tasks : Fork(t, u)
    \/ Exit(t)

Spec == Init /\ [][Next]_vars

-----------------------------------------------------------------------------
(* Properties. *)

\* Every inode slot is referenced exactly as often as pointers to it exist:
\* working directories, open files, the locals of calls under way, and the
\* references that fileclose leaves behind.  No failing path of namex, create,
\* sys_open, sys_chdir or exec loses or repeats an iput.  And no inode is in
\* two slots, so that the semaphore of its slot protects it (iget).
RefsCounted ==
    /\ \A s, u \in Slots : s # u /\ ref[s] > 0 /\ ref[u] > 0 => inum[s] # inum[u]
    /\ \A s \in Slots :
        ref[s] = Cardinality({t \in Tasks : cwd[t] = s})
               + Cardinality({f \in Files : file[f].ip = s /\ file[f].ref > 0})
               + Cardinality({t \in Tasks : op[t].ip = s})
               + Cardinality({t \in Tasks : op[t].next = s})
               + leaked[s]

\* the calls between begin_op and end_op
Inside(t) == pc[t] \notin {"unborn", "idle"}
             /\ op[t].call \in {"open", "chdir", "write"}

\* The transaction token is where the calls put it: one token, less the calls
\* inside a transaction, less the writes refused after begin_op, plus the
\* execs that ended one they had not begun.  No other path of the system calls
\* loses or adds one.
TokensAccounted ==
    fs_lock = 1 - Cardinality({t \in Tasks : Inside(t)}) - refused + ended

\* the inodes a task has locked at its place in the code
Locked(t) ==
    CASE pc[t] \in {"look", "created", "newlock", "open", "chdir", "exec"} -> {op[t].ip}
      [] pc[t] = "panic" -> {op[t].ip, op[t].next} \ {None}
      [] pc[t] \in {"using", "trunc"} -> {file[op[t].f].ip}
      [] OTHER -> {}

\* A task has the semaphores of the inodes it works on, each of which it has a
\* reference to, and no other: no error path returns with an inode locked, no
\* walk holds two.  A panic of iget alone leaves a lock behind.
LocksBalanced ==
    /\ \A s \in Slots : lock[s] # Free => ref[s] > 0
    /\ \A t \in Tasks : pc[t] # "stuck" => {s \in Slots : lock[s] = t} = Locked(t)
=============================================================================
