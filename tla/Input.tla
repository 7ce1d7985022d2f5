-------------------------------- MODULE Input --------------------------------
(***************************************************************************)
(* The input device driver of kernel/virtio_input.c and the keyboard of    *)
(* kernel/keyboard.c: the device writes an event into a posted buffer, the *)
(* interrupt handler hands it to keyboard_intr, which keeps the newest     *)
(* events in a ring for keyboard_read_event.  Events are numbered in the   *)
(* order in which the device produces them.                                *)
(***************************************************************************)
EXTENDS Integers, Sequences, FiniteSets

CONSTANTS
    EVENT_NUM,  \* NUM of the event queue: buffers, and entries of the used ring
    EventMod,   \* where the uint16_t ring indices wrap: a multiple of EVENT_NUM
    BUF_SIZE,   \* entries of the keyboard's ring
    MaxEvents,  \* bound: events the device produces
    KeyEvents   \* the events whose type is 1; the others are synchronisation events

ASSUME InputAssumption ==
    /\ EVENT_NUM \in Nat \ {0} /\ EventMod \in Nat
    /\ \E k \in 2..EventMod : EventMod = k * EVENT_NUM
    /\ BUF_SIZE \in Nat \ {0} /\ MaxEvents \in Nat

Slot == 0..EVENT_NUM - 1

VARIABLES
    buffer,         \* input.info[EVENT_Q][].buffer
    evaidx,         \* avail->idx; ring[i] = i is never rewritten
    evring, evidx,  \* used, written by the device
    evused_idx,     \* how far the handler has looked
    evseen,         \* how far the device has looked in avail
    evirq,          \* the interrupt line: it is never acknowledged
    ipc,            \* of the handler: "out", "consume", "post"
    made,           \* number of events produced
    given,          \* history: the events passed to keyboard_intr, in order
    overrun,        \* history: a buffer was offered before its event was consumed
    kbuf, khead, ktail, \* keyboard.buffer, head, tail
    klock,          \* keyboard.lock was left held
    got             \* what the last keyboard_read_event copied out, and from which index

inputVars == <<buffer, evaidx, evring, evidx, evused_idx, evseen, evirq, ipc, made, given,
               overrun, kbuf, khead, ktail, klock, got>>
kvars == <<kbuf, khead, ktail, klock, got>>

\* virtio_input_init posts every buffer; keyboard_init
InputInit ==
    /\ buffer = [i \in Slot |-> 0]
    /\ evaidx = EVENT_NUM /\ evseen = 0
    /\ evring = [i \in Slot |-> 0] /\ evidx = 0 /\ evused_idx = 0
    /\ evirq = FALSE /\ ipc = "out"
    /\ made = 0 /\ given = <<>> /\ overrun = FALSE
    /\ kbuf = [i \in 0..BUF_SIZE - 1 |-> 0] /\ khead = 0 /\ ktail = 0
    /\ klock = FALSE /\ got = [from |-> 0, cells |-> <<>>]

\* the device (external): the next posted buffer gets the next event
DevEvent ==
    /\ evseen # evaidx /\ made < MaxEvents
    /\ made' = made + 1
    /\ buffer' = [buffer EXCEPT ![evseen % EVENT_NUM] = made + 1]
    /\ evring' = [evring EXCEPT ![evidx % EVENT_NUM] = evseen % EVENT_NUM]
    /\ evidx' = (evidx + 1) % EventMod
    /\ evseen' = (evseen + 1) % EventMod
    /\ evirq' = TRUE
    /\ UNCHANGED <<evaidx, evused_idx, ipc, given, overrun, kvars>>

\* virtio_input_intr takes vinput_lock; the acknowledgement is commented out
InputIntr ==
    /\ evirq /\ ipc = "out"
    /\ ipc' = "consume"
    /\ UNCHANGED <<buffer, evaidx, evring, evidx, evused_idx, evseen, evirq, made, given, overrun,
                   kvars>>

\* Mutant: tail stays behind when the ring overflows.
KeyboardNoClamp(ev) ==
    /\ kbuf' = [kbuf EXCEPT ![khead % BUF_SIZE] = ev]
    /\ khead' = khead + 1
    /\ UNCHANGED <<ktail, klock, got>>

\* keyboard_intr for a key event: the oldest event makes room
KeyboardIntr(ev) ==
    /\ kbuf' = [kbuf EXCEPT ![khead % BUF_SIZE] = ev]
    /\ khead' = khead + 1
    /\ ktail' = IF khead + 1 - ktail > BUF_SIZE THEN khead + 1 - BUF_SIZE ELSE ktail
    /\ UNCHANGED <<klock, got>>

\* the buffer that used ring entry i names
EntryAt(i) == evring[i % EVENT_NUM]

\* one entry of the used ring
InputEntry ==
    /\ ipc = "consume" /\ evused_idx # evidx
    /\ ~klock
    /\ LET ev == buffer[EntryAt(evused_idx)]
       IN  /\ given' = Append(given, ev)
           /\ IF ev \in KeyEvents THEN KeyboardIntr(ev) ELSE UNCHANGED kvars
    /\ evused_idx' = (evused_idx + 1) % EventMod
    /\ UNCHANGED <<buffer, evaidx, evring, evidx, evseen, evirq, ipc, made, overrun>>

InputCaughtUp ==
    /\ ipc = "consume" /\ evused_idx = evidx
    /\ ipc' = "post"
    /\ UNCHANGED <<buffer, evaidx, evring, evidx, evused_idx, evseen, evirq, made, given, overrun,
                   kvars>>

\* the buffers the device may fill, and those whose event waits for the handler
Posted == (evaidx - evidx) % EventMod
Pending == (evidx - evused_idx) % EventMod

\* one iteration of the posting loop: the difference of two uint16_t is an int
PostBuffer ==
    /\ ipc = "post" /\ evaidx - evidx < EVENT_NUM
    /\ evaidx' = (evaidx + 1) % EventMod
    /\ overrun' = (overrun \/ ((Posted + 1) % EventMod) + Pending > EVENT_NUM)
    /\ UNCHANGED <<buffer, evring, evidx, evused_idx, evseen, evirq, ipc, made, given, kvars>>

InputReturn ==
    /\ ipc = "post" /\ evaidx - evidx >= EVENT_NUM
    /\ ipc' = "out"
    /\ UNCHANGED <<buffer, evaidx, evring, evidx, evused_idx, evseen, evirq, made, given, overrun,
                   kvars>>

\* &keyboard.buffer[i], where `tail' is not reduced: beyond the array there is
\* no event but other memory
Beyond == 0
CellAt(i) == IF i < BUF_SIZE THEN kbuf[i] ELSE Beyond

\* keyboard_read_event into a buffer for n events: everything up to head counts
\* as read, whether or not there was room for it
KeyboardRead(n) ==
    /\ khead # ktail /\ ~klock
    /\ LET count == IF khead - ktail < n THEN khead - ktail ELSE n
       IN  got' = [from |-> ktail, cells |-> [j \in 1..count |-> CellAt(ktail + j - 1)]]
    /\ ktail' = khead
    /\ UNCHANGED <<buffer, evaidx, evring, evidx, evused_idx, evseen, evirq, ipc, made, given,
                   overrun, kbuf, khead, klock>>

\* either_copyout fails: the call returns with keyboard.lock held, and the
\* next keyboard_intr or keyboard_read_event spins for ever
KeyboardReadFails ==
    /\ khead # ktail /\ ~klock
    /\ klock' = TRUE
    /\ UNCHANGED <<buffer, evaidx, evring, evidx, evused_idx, evseen, evirq, ipc, made, given,
                   overrun, kbuf, khead, ktail, got>>

InputNext == DevEvent \/ InputIntr \/ InputEntry \/ InputCaughtUp \/ PostBuffer \/ InputReturn
        \/ (\E n \in 1..BUF_SIZE : KeyboardRead(n)) \/ KeyboardReadFails

InputSpec == InputInit /\ [][InputNext]_inputVars

-----------------------------------------------------------------------------
(* Properties. *)

\* As long as no buffer has been offered to the device before its event was
\* consumed, the handler passes on every event, once and in order: the race
\* around the posting loop is the only way to lose one.
EventsInOrder ==
    ~overrun => /\ \A i \in 1..Len(given) : given[i] = i
                /\ Len(given) + Pending = made

\* how many of the first m events passed on were keys
KeysIn(m) == Cardinality({i \in 1..m : given[i] \in KeyEvents})

\* x is the key event in front of which i others were passed on
IsKey(x, i) == \E m \in 1..Len(given) : given[m] \in KeyEvents /\ KeysIn(m) = i + 1 /\ x = given[m]

\* Between head and tail the keyboard's ring holds the newest key events, at
\* most BUF_SIZE of them and in order, whatever readers took in between.
KeepsNewest ==
    /\ khead = KeysIn(Len(given))
    /\ khead - ktail \in 0..BUF_SIZE
    /\ \A i \in ktail..khead - 1 : IsKey(kbuf[i % BUF_SIZE], i)

\* A reader gets what stood at `tail', in order, as far as the array goes, and
\* nothing that an earlier read has returned.  That the part of a read beyond the
\* array is other memory, and that what does not fit the reader's buffer is
\* dropped, is what the code does; no property says otherwise.
ReadsInArray ==
    /\ got.from + Len(got.cells) <= ktail
    /\ \A j \in 1..Len(got.cells) : got.from + j <= BUF_SIZE => IsKey(got.cells[j], got.from + j - 1)

\* The three: virtio_input_intr passes on every event in order unless its own
\* posting loop has overrun a buffer, keyboard_intr keeps the newest keys, and
\* keyboard_read_event returns keys of the ring wherever it stays in the array.
EventsKept == EventsInOrder /\ KeepsNewest /\ ReadsInArray
=============================================================================
