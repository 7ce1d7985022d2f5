------------------------------ MODULE VirtioGpu ------------------------------
(***************************************************************************)
(* The display driver of kernel/virtio_gpu.c and the monitor device of     *)
(* kernel/monitor.c on top of it.  virtio_gpu_init sends six commands, one *)
(* after the other; later every monitor_write copies a frame into the      *)
(* frame buffer and sends two.  A command is a chain of two descriptors,   *)
(* or three for attach_backing; its task sleeps until the handler clears   *)
(* the `pending' flag of the chain's head.  Only the control queue is used.*)
(* A critical section of vgpu_lock is one step, except for the handler's   *)
(* loop, inside which the device may complete more commands.               *)
(***************************************************************************)
EXTENDS Integers, FiniteSets, Sequences

CONSTANTS
    Writers,    \* tasks that call monitor_write
    Booter,     \* the first task, which runs monitor_init
    GPU_NUM,    \* NUM of the control queue: descriptors, and entries of either ring
    GpuMod,     \* where the uint16_t ring indices wrap: a multiple of GPU_NUM
    FB_PARTS,   \* parts of the frame buffer: what copyin moves, or the device reads, at once
    MaxFrames   \* bound: frames written in all

Callers == Writers \cup {Booter}
GDesc == 0..GPU_NUM - 1
NoDesc == GPU_NUM
FbPart == 1..FB_PARTS
NoTask == "nobody"

ASSUME VirtioGpuAssumption ==
    /\ IsFiniteSet(Writers) /\ NoTask \notin Writers
    /\ GPU_NUM \in Nat \ {0} /\ GpuMod \in Nat /\ \E k \in 1..GpuMod : GpuMod = k * GPU_NUM
    /\ FB_PARTS \in Nat \ {0} /\ MaxFrames \in Nat

VARIABLES
    gfree, gnext, pending,          \* gpu.free, gpu.desc[].next, gpu.info[].pending
    gring, gaidx, guring, guidx,    \* gpu.avail, gpu.used
    gused_idx,                      \* how far the handler has looked
    gseen, gtaken,                  \* the device: how far it has looked, what it works on
    girq,                           \* the device's interrupt line
    glk,                            \* vgpu_lock is held by the handler
    mlock,                          \* monitor0.lock: its holder or NoTask
    gpc, todo, ghead,               \* per task: control, commands still to send, idx[0]
    cmd, resp,                      \* per head: the command in flight and its answer
    display,                        \* the device's resource: what has been set up
    frames, fb, host, shown,        \* frames written; for each part, the frame it is of in
                                    \* the frame buffer, in the host's copy, on the screen
    copied, fetched,                \* parts copied in under monitor0.lock; parts the device
                                    \* has read for the transfer it works on
    mine,                           \* history: the frame a writer has copied in
    gpanicked

queueVars == <<gfree, gnext, pending, gring, gaidx, guring, guidx, gused_idx, gseen, gtaken, girq>>
frameVars == <<frames, fb, host, shown, copied, fetched, mine>>
gpuVars == <<queueVars, glk, mlock, gpc, todo, ghead, cmd, resp, display, frameVars, gpanicked>>

\* Mutant: the transfer is sent before the memory is attached.
BootLateAttach == <<"info", "create", "scanout", "transfer", "attach", "flush">>

\* virtio_gpu_init: the commands, in order
Boot == <<"info", "create", "attach", "scanout", "transfer", "flush">>

\* Mutant: flushed before it is transferred.
FlushFirst == <<"flush", "transfer">>

\* monitor_write: what it sends once the frame is copied
FrameCommands == <<"transfer", "flush">>

\* the state virtio_gpu_init leaves before its first command
GpuInit ==
    /\ gfree = GDesc /\ gnext = [d \in GDesc |-> NoDesc] /\ pending = {}
    /\ gring = [d \in GDesc |-> NoDesc] /\ gaidx = 0
    /\ guring = [d \in GDesc |-> NoDesc] /\ guidx = 0
    /\ gused_idx = 0 /\ gseen = 0 /\ gtaken = {}
    /\ girq = FALSE /\ glk = FALSE
    /\ mlock = NoTask
    /\ gpc = [t \in Callers |-> IF t = Booter THEN "send" ELSE "boot"]
    /\ todo = [t \in Callers |-> IF t = Booter THEN Boot ELSE <<>>]
    /\ ghead = [t \in Callers |-> NoDesc]
    /\ cmd = [d \in GDesc |-> "none"] /\ resp = [d \in GDesc |-> "none"]
    /\ display = {}
    /\ frames = 0 /\ copied = 0 /\ fetched = 0
    /\ fb = [p \in FbPart |-> 0] /\ host = [p \in FbPart |-> 0] /\ shown = [p \in FbPart |-> 0]
    /\ mine = [t \in Callers |-> 0]
    /\ gpanicked = FALSE

WakeCallers(p, asleep, awake, S) == [t \in Callers |-> IF t \in S /\ p[t] = asleep THEN awake ELSE p[t]]
LowestDesc(S) == CHOOSE d \in S : \A e \in S : d <= e

ChainLength(c) == IF c = "attach" THEN 3 ELSE 2

\* allocn_desc: the n lowest free descriptors, as a sequence
TakeN(S, n) ==
    LET a == LowestDesc(S)
        b == LowestDesc(S \ {a})
    IN  IF n = 2 THEN <<a, b>> ELSE <<a, b, LowestDesc(S \ {a, b})>>

\* allocn_desc fails: each descriptor given back wakes the sleepers
SendNoDesc(t) ==
    /\ gpc[t] = "send" /\ ~glk
    /\ Cardinality(gfree) < ChainLength(Head(todo[t]))
    /\ gpc' = [WakeCallers(gpc, "nodesc", "send", IF gfree = {} THEN {} ELSE Callers) EXCEPT ![t] = "nodesc"]
    /\ UNCHANGED <<queueVars, glk, mlock, todo, ghead, cmd, resp, display, frameVars, gpanicked>>

\* get_display_info, virtio_gpu_resource_create_2d and the others, up to their sleep
Send(t) ==
    /\ gpc[t] = "send" /\ ~glk
    /\ Cardinality(gfree) >= ChainLength(Head(todo[t]))
    /\ LET n   == ChainLength(Head(todo[t]))
           idx == TakeN(gfree, n)
       IN  /\ gfree' = gfree \ {idx[i] : i \in 1..n}
           /\ gnext' = [d \in GDesc |->
                         IF \E i \in 1..n - 1 : idx[i] = d
                         THEN idx[1 + CHOOSE i \in 1..n - 1 : idx[i] = d]
                         ELSE IF d = idx[n] THEN NoDesc ELSE gnext[d]]
           /\ pending' = pending \cup {idx[1]}
           /\ gring' = [gring EXCEPT ![gaidx % GPU_NUM] = idx[1]]
           /\ ghead' = [ghead EXCEPT ![t] = idx[1]]
           /\ cmd' = [cmd EXCEPT ![idx[1]] = Head(todo[t])]
           /\ resp' = [resp EXCEPT ![idx[1]] = "none"]
    /\ gaidx' = (gaidx + 1) % GpuMod
    /\ gpc' = [gpc EXCEPT ![t] = "wait"]
    /\ UNCHANGED <<guring, guidx, gused_idx, gseen, gtaken, girq, glk, mlock, todo, display, frameVars,
                   gpanicked>>

\* the descriptors free_chain visits
CommandChain(d) == {d, gnext[d]} \cup (IF gnext[d] = NoDesc THEN {} ELSE {gnext[gnext[d]]})

\* what follows a task's command: the next one, or its caller returns; when
\* virtio_gpu_init returns, user space can start and write frames
AfterCommand(p, t) ==
    IF Len(todo[t]) > 1 THEN [p EXCEPT ![t] = "send"]
    ELSE [u \in Callers |-> IF u = t \/ (t = Booter /\ p[u] = "boot") THEN "idle" ELSE p[u]]

\* woken with `pending' cleared: free_chain, and panic_on if the answer is not
\* OK; woken with the flag still set, the task sleeps again
CommandWoken(t) ==
    /\ gpc[t] = "woken" /\ ~glk
    /\ IF ghead[t] \in pending
       THEN /\ gpc' = [gpc EXCEPT ![t] = "wait"]
            /\ UNCHANGED <<gfree, gnext, gpanicked, cmd, resp, todo, ghead>>
       ELSE /\ LET c == CommandChain(ghead[t]) \ {NoDesc}
               IN  /\ gfree' = gfree \cup c
                   /\ gnext' = [d \in GDesc |-> IF d \in c THEN NoDesc ELSE gnext[d]]
                   /\ gpanicked' = (gpanicked \/ c \cap gfree # {}
                                     \/ (cmd[ghead[t]] # "info" /\ resp[ghead[t]] # "ok"))
            /\ cmd' = [cmd EXCEPT ![ghead[t]] = "none"]
            /\ resp' = [resp EXCEPT ![ghead[t]] = "none"]
            /\ gpc' = AfterCommand(WakeCallers(gpc, "nodesc", "send", Callers), t)
            /\ todo' = [todo EXCEPT ![t] = Tail(@)]
            /\ ghead' = [ghead EXCEPT ![t] = NoDesc]
    /\ UNCHANGED <<pending, gring, gaidx, guring, guidx, gused_idx, gseen, gtaken, girq, glk, mlock,
                   display, frameVars>>

-----------------------------------------------------------------------------
(* monitor.c *)

\* monitor_write takes monitor0.lock
MonitorLock(t) ==
    /\ gpc[t] = "idle" /\ t \in Writers
    /\ frames < MaxFrames
    /\ mlock = NoTask
    /\ mlock' = t
    /\ gpc' = [gpc EXCEPT ![t] = "copy"]
    /\ UNCHANGED <<queueVars, glk, todo, ghead, cmd, resp, display, frameVars, gpanicked>>

\* one iteration of copyin, which either_copyin calls: only monitor0.lock is
\* held, and the device may be reading the buffer for another writer
MonitorCopy(t) ==
    /\ gpc[t] = "copy" /\ copied < FB_PARTS
    /\ fb' = [fb EXCEPT ![copied + 1] = frames + 1]
    /\ copied' = copied + 1
    /\ UNCHANGED <<queueVars, glk, mlock, gpc, todo, ghead, cmd, resp, display, frames, host, shown,
                   fetched, mine, gpanicked>>

\* too few bytes, or copyin comes to a page that is not mapped: the call returns
\* with the lock held and what it had copied in the buffer; the next
\* monitor_write spins (that this hart's next sched() panics is Sched's)
MonitorRefuse(t) ==
    /\ gpc[t] = "copy" /\ copied < FB_PARTS
    /\ gpc' = [gpc EXCEPT ![t] = "idle"]
    /\ UNCHANGED <<queueVars, glk, mlock, todo, ghead, cmd, resp, display, frameVars, gpanicked>>

\* the frame is in the buffer and the lock given up before it is sent
MonitorCopied(t) ==
    /\ gpc[t] = "copy" /\ copied = FB_PARTS
    /\ frames' = frames + 1
    /\ mine' = [mine EXCEPT ![t] = frames + 1]
    /\ mlock' = NoTask /\ copied' = 0
    /\ todo' = [todo EXCEPT ![t] = FrameCommands]
    /\ gpc' = [gpc EXCEPT ![t] = "send"]
    /\ UNCHANGED <<queueVars, glk, ghead, cmd, resp, display, fb, host, shown, fetched, gpanicked>>

-----------------------------------------------------------------------------
(* The handler and the device. *)

\* virtio_gpu_intr
GpuIntr ==
    /\ girq /\ ~glk
    /\ glk' = TRUE /\ girq' = FALSE
    /\ UNCHANGED <<gfree, gnext, pending, gring, gaidx, guring, guidx, gused_idx, gseen, gtaken, mlock, gpc,
                   todo, ghead, cmd, resp, display, frameVars, gpanicked>>

\* one entry of the used ring
GpuEntry ==
    /\ glk /\ gused_idx # guidx
    /\ LET id == guring[gused_idx % GPU_NUM]
       IN  /\ pending' = pending \ {id}
           /\ gpc' = WakeCallers(gpc, "wait", "woken", {t \in Callers : ghead[t] = id})
           /\ gpanicked' = (gpanicked \/ id = NoDesc)
           /\ guring' = [guring EXCEPT ![gused_idx % GPU_NUM] = NoDesc]
    /\ gused_idx' = (gused_idx + 1) % GpuMod
    /\ UNCHANGED <<gfree, gnext, gring, gaidx, guidx, gseen, gtaken, girq, glk, mlock, todo, ghead, cmd, resp,
                   display, frameVars>>

GpuReturn ==
    /\ glk /\ gused_idx = guidx
    /\ glk' = FALSE
    /\ UNCHANGED <<queueVars, mlock, gpc, todo, ghead, cmd, resp, display, frameVars, gpanicked>>

\* what the device needs before it accepts a command
Needs(c) ==
    CASE c \in {"info", "create"} -> {}
      [] c \in {"attach", "scanout"} -> {"create"}
      [] c = "transfer" -> {"create", "attach"}
      [] c = "flush" -> {"create", "attach", "scanout"}

\* the command the device comes to next, and whether it is a transfer it accepts
FirstCommand == gring[gseen % GPU_NUM]
Accepts(d) == d # NoDesc /\ Needs(cmd[d]) \subseteq display
Transfers(d) == Accepts(d) /\ cmd[d] = "transfer"

\* the device (external) reads the frame buffer for a transfer, part by part
DevFetch ==
    /\ gseen # gaidx /\ Transfers(FirstCommand) /\ fetched < FB_PARTS
    /\ host' = [host EXCEPT ![fetched + 1] = fb[fetched + 1]]
    /\ fetched' = fetched + 1
    /\ UNCHANGED <<queueVars, glk, mlock, gpc, todo, ghead, cmd, resp, display, frames, fb, shown, copied,
                   mine, gpanicked>>

\* carries out the next command of the queue and answers
DevExecute ==
    /\ gseen # gaidx
    /\ LET d == FirstCommand
       IN  /\ Transfers(d) => fetched = FB_PARTS
           /\ gtaken' = gtaken \cup {d}
           /\ resp' = [resp EXCEPT ![d] = IF Accepts(d) THEN "ok" ELSE "error"]
           /\ display' = IF Accepts(d) THEN display \cup {cmd[d]} ELSE display
           /\ shown' = IF Accepts(d) /\ cmd[d] = "flush" THEN host ELSE shown
           /\ gring' = [gring EXCEPT ![gseen % GPU_NUM] = NoDesc]
    /\ fetched' = 0
    /\ gseen' = (gseen + 1) % GpuMod
    /\ UNCHANGED <<gfree, gnext, pending, gaidx, guring, guidx, gused_idx, girq, glk, mlock, gpc, todo, ghead,
                   cmd, frames, fb, host, copied, mine, gpanicked>>

\* and reports it in the used ring, later and in any order
DevReport(d) ==
    /\ d \in gtaken
    /\ gtaken' = gtaken \ {d}
    /\ guring' = [guring EXCEPT ![guidx % GPU_NUM] = d]
    /\ guidx' = (guidx + 1) % GpuMod
    /\ girq' = TRUE
    /\ UNCHANGED <<gfree, gnext, pending, gring, gaidx, gused_idx, gseen, glk, mlock, gpc, todo, ghead, cmd,
                   resp, display, frameVars, gpanicked>>

GpuNext ==
    \/ \E t \in Callers : SendNoDesc(t) \/ Send(t) \/ CommandWoken(t)
    \/ \E t \in Writers : MonitorLock(t) \/ MonitorCopy(t) \/ MonitorRefuse(t) \/ MonitorCopied(t)
    \/ GpuIntr \/ GpuEntry \/ GpuReturn
    \/ DevFetch \/ DevExecute \/ \E d \in GDesc : DevReport(d)

GpuSpec == GpuInit /\ [][GpuNext]_gpuVars

-----------------------------------------------------------------------------
(* Properties. *)

InFlight == {t \in Callers : gpc[t] \in {"wait", "woken"}}

\* No command is refused by the device and no panic reached; descriptors are
\* conserved; and while the device still works on a chain, the function whose
\* stack holds the request and the answer has not returned.
CommandsOwned ==
    /\ ~gpanicked
    /\ \A t, u \in InFlight : t # u => CommandChain(ghead[t]) \cap CommandChain(ghead[u]) \subseteq {NoDesc}
    /\ gfree = GDesc \ UNION {CommandChain(ghead[t]) : t \in InFlight}
    /\ \A d \in gtaken : \E t \in InFlight : ghead[t] = d /\ d \in pending

\* When monitor_write returns, no part of the screen is older than the frame it
\* wrote.  Parts may be newer: monitor0.lock is given up before the two commands
\* are sent, so that the transfer can meet a later frame half copied and what is
\* shown be torn.  A torn frame does not stay: once every monitor_write has
\* returned, with the lock free, the newest frame is on the screen as a whole.
FrameShown ==
    /\ \A t \in Writers : gpc[t] = "idle" => \A p \in FbPart : shown[p] >= mine[t]
    /\ (mlock = NoTask /\ \A t \in Writers : gpc[t] = "idle") => \A p \in FbPart : shown[p] = frames
=============================================================================
