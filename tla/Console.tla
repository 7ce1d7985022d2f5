------------------------------- MODULE Console -------------------------------
(***************************************************************************)
(* The console of kernel/console.c: uart_intr passes every character of    *)
(* the UART to console_intr, which edits the line in a ring buffer; tasks  *)
(* in console_read sleep until a line is there.  A step is a call of       *)
(* console_intr or an iteration of console_read's loop, which has cons.lock*)
(* until the task sleeps or returns.  The indices are uint32_t and wrap; a *)
(* cell outside r..e is blanked: nothing reads it before it is written.    *)
(***************************************************************************)
EXTENDS Integers, Sequences, FiniteSets

CONSTANTS
    Readers,        \* tasks that call console_read
    Lengths,        \* the n they pass
    INPUT_BUF_SIZE, \* cells of the ring
    UintMod,        \* where the indices wrap: a multiple of INPUT_BUF_SIZE
    Plain           \* ordinary characters

ASSUME ConsoleAssumption ==
    /\ INPUT_BUF_SIZE \in Nat \ {0} /\ UintMod \in Nat
    /\ \E k \in 2..UintMod : UintMod = k * INPUT_BUF_SIZE

\* what the UART delivers: nul, carriage return and the control characters too
Typed == Plain \cup {"nul", "cr", "nl", "eof", "kill", "bs", "dump"}
Blank == "blank"

VARIABLES
    buf, r, w, e,   \* cons
    rpc,            \* per reader: idle, loop (wants cons.lock), held (in the
                    \* loop with it), asleep
    n, target,      \* per reader: bytes still wanted, bytes asked for
    killed          \* readers whose task was killed

consVars == <<buf, r, w, e, rpc, n, target, killed>>

Cell(i) == i % INPUT_BUF_SIZE
Gap(i, j) == (i - j) % UintMod      \* i - j of two uint32_t

ConsInit ==
    /\ buf = [i \in 0..INPUT_BUF_SIZE - 1 |-> Blank]
    /\ r = 0 /\ w = 0 /\ e = 0
    /\ rpc = [t \in Readers |-> "idle"]
    /\ n = [t \in Readers |-> 0] /\ target = [t \in Readers |-> 0]
    /\ killed = {}

\* nobody but t, if anybody, has cons.lock
LockFree(t) == \A u \in Readers \ {t} : rpc[u] # "held"

-----------------------------------------------------------------------------
(* console_intr, called by uart_intr for each character *)

\* Mutant: one sleeper is woken, not all.
WakeFew(p) ==
    LET S == {t \in Readers : p[t] = "asleep"}
    IN  IF S = {} THEN p ELSE [p EXCEPT ![CHOOSE t \in S : TRUE] = "loop"]

\* wakeup(&cons.r): every sleeper
WakeReaders(p) == [t \in Readers |-> IF p[t] = "asleep" THEN "loop" ELSE p[t]]

\* does the stored character c complete what readers wait for?
Commits(c) == c \in {"nl", "eof"} \/ Gap(e + 1, r) = INPUT_BUF_SIZE

\* Mutant: one character too many.
RoomOffByOne == Gap(e, r) <= INPUT_BUF_SIZE

Room == Gap(e, r) < INPUT_BUF_SIZE

\* the default case: nul is dropped, as is everything while the ring is full
Store(c) ==
    LET ch == IF c = "cr" THEN "nl" ELSE c
    IN  IF c # "nul" /\ Room
        THEN /\ buf' = [buf EXCEPT ![Cell(e)] = ch]
             /\ e' = (e + 1) % UintMod
             /\ IF Commits(ch) THEN w' = (e + 1) % UintMod /\ rpc' = WakeReaders(rpc)
                ELSE UNCHANGED <<w, rpc>>
        ELSE UNCHANGED <<buf, e, w, rpc>>

\* ^H and delete
Backspace ==
    /\ IF e # w THEN /\ e' = (e - 1) % UintMod
                     /\ buf' = [buf EXCEPT ![Cell(e - 1)] = Blank]
       ELSE UNCHANGED <<e, buf>>
    /\ UNCHANGED <<w, rpc>>

\* ^U: back to the last newline or to what is committed
KillLine ==
    LET stay == {k \in 0..Gap(e, w) :
                    k = Gap(e, w) \/ buf[Cell(e - 1 - k)] = "nl"}
        k == CHOOSE i \in stay : \A j \in stay : i <= j
    IN  /\ e' = (e - k) % UintMod
        /\ buf' = [i \in DOMAIN buf |-> IF \E j \in 1..k : Cell(e - j) = i THEN Blank ELSE buf[i]]
        /\ UNCHANGED <<w, rpc>>

ConsoleIntr(c) ==
    /\ \A t \in Readers : rpc[t] # "held"
    /\ CASE c = "dump" -> UNCHANGED <<buf, e, w, rpc>>      \* ^P: procdump
         [] c = "kill" -> KillLine
         [] c = "bs" -> Backspace
         [] OTHER -> Store(c)
    /\ UNCHANGED <<r, n, target, killed>>

-----------------------------------------------------------------------------
(* console_read *)

ReadCall(t, len) ==
    /\ rpc[t] = "idle"
    /\ rpc' = [rpc EXCEPT ![t] = "loop"]
    /\ n' = [n EXCEPT ![t] = len] /\ target' = [target EXCEPT ![t] = len]
    /\ UNCHANGED <<buf, r, w, e, killed>>

Return(t) ==
    /\ rpc' = [rpc EXCEPT ![t] = "idle"]
    /\ n' = [n EXCEPT ![t] = 0] /\ target' = [target EXCEPT ![t] = 0]

\* nothing to read: the task sleeps, or gives up if it was killed
ReadEmpty(t) ==
    /\ rpc[t] \in {"loop", "held"} /\ LockFree(t)
    /\ r = w
    /\ IF t \in killed THEN Return(t)
       ELSE rpc' = [rpc EXCEPT ![t] = "asleep"] /\ UNCHANGED <<n, target>>
    /\ UNCHANGED <<buf, r, w, e, killed>>

\* end-of-file after other bytes stays for the next call
KeepEof(t) == n[t] < target[t]

\* one character: a fault of the user's buffer, end-of-file and newline end the call
ReadChar(t, fault) ==
    /\ rpc[t] \in {"loop", "held"} /\ LockFree(t)
    /\ r # w
    /\ LET c == buf[Cell(r)]
           keep == c = "eof" /\ KeepEof(t)
           left == IF c = "eof" \/ fault THEN n[t] ELSE n[t] - 1
       IN  /\ fault => c # "eof"
           /\ IF keep THEN UNCHANGED <<buf, r>>
              ELSE /\ r' = (r + 1) % UintMod
                   /\ buf' = [buf EXCEPT ![Cell(r)] = Blank]
           /\ IF c \in {"eof", "nl"} \/ fault \/ left = 0 THEN Return(t)
              ELSE /\ n' = [n EXCEPT ![t] = left]
                   /\ rpc' = [rpc EXCEPT ![t] = "held"]
                   /\ UNCHANGED target
    /\ UNCHANGED <<w, e, killed>>

\* kill sets the flag and does not wake a task that sleeps in console_read
Kill(t) ==
    /\ t \notin killed
    /\ killed' = killed \cup {t}
    /\ UNCHANGED <<buf, r, w, e, rpc, n, target>>

ConsNext ==
    \/ \E c \in Typed : ConsoleIntr(c)
    \/ \E t \in Readers :
          \/ \E len \in Lengths : ReadCall(t, len)
          \/ ReadEmpty(t) \/ Kill(t)
          \/ \E fault \in BOOLEAN : ReadChar(t, fault)

ConsSpec == ConsInit /\ [][ConsNext]_consVars

-----------------------------------------------------------------------------
(* Properties. *)

\* the characters from index i up to index j
Slice(i, j) == [k \in 1..Gap(j, i) |-> buf[Cell(i + k - 1)]]

Lines == INSTANCE LineBuffer
         WITH Cap <- INPUT_BUF_SIZE, committed <- Slice(r, w), edit <- Slice(w, e)

\* The three wrapping indices and the ring behave as a queue of committed
\* characters and a line being edited: nothing typed is overwritten, erased
\* after it was committed, taken twice or out of order.
ImplementsLines == Lines!Spec

\* A reader sleeps only while nothing is committed, although the writer, other
\* readers and a put-back ^D move the indices: no wakeup is lost.
SleepsOnEmpty == \A t \in Readers : rpc[t] = "asleep" => r = w
=============================================================================
