----------------------------- MODULE MCDevices -----------------------------
(***************************************************************************)
(* The four device drivers in one run.  They do not share state in the     *)
(* kernel: a behaviour is one of one driver, which the initial state picks, *)
(* and the others stay as they were initialized.                           *)
(***************************************************************************)
EXTENDS VirtioDisk, Console, VirtioGpu, Input

CONSTANTS t1, t2, t3

VARIABLE which      \* the driver

allVars == <<which, vars, consVars, gpuVars, inputVars>>

\* The disk: eight descriptors, three per request: two requests run, the third
\* waits.  The display: four descriptors, two per command: two of three writers
\* are served.
ThreeTasks == {t1, t2, t3}

\* The console: a ring of three characters, indices that wrap, two readers.
TwoReaders == {t1, t2}

MCInit == Init /\ ConsInit /\ GpuInit /\ InputInit /\ which \in {"disk", "gpu", "input", "console"}

DiskStep(A) == which = "disk" /\ A /\ UNCHANGED <<which, consVars, gpuVars, inputVars>>
GpuStep(A) == which = "gpu" /\ A /\ UNCHANGED <<which, vars, consVars, inputVars>>
InputStep(A) == which = "input" /\ A /\ UNCHANGED <<which, vars, consVars, gpuVars>>
ConsoleStep(A) == which = "console" /\ A /\ UNCHANGED <<which, vars, gpuVars, inputVars>>

MCNext ==
    \/ DiskStep(Next)
    \/ GpuStep(GpuNext)
    \/ InputStep(InputNext)
    \/ ConsoleStep(ConsNext)

MCSpec == MCInit /\ [][MCNext]_allVars /\ Fairness

-----------------------------------------------------------------------------
(* The other properties are those of the drivers' modules. *)

\* Every request handed to the device comes back (virtio_disk_intr).  The tasks
\* are alike in every definition, so that one of them speaks for all.
DiskRequestReturns ==
    pc[t1] = "publish" ~> pc[t1] = "idle"
=============================================================================
