---------------------------- MODULE MCResources ----------------------------
(***************************************************************************)
(* The kernel's data structures and resource tables in one run: the        *)
(* inodes and files of Fs, the address spaces of Vm, the red-black tree,   *)
(* the heap.  They are apart from each other in the kernel as far as the   *)
(* modules go: a behaviour is one of one module, which the initial state   *)
(* picks.  Meanwhile the others stay as they were initialized, and the     *)
(* variables of the tree are Absent.                                       *)
(***************************************************************************)
EXTENDS Fs, Vm, Mem

CONSTANTS t1, t2

VARIABLES
    which,                                                                  \* the module
    tpc, multi, links, size, fix, fixparent, job, cur, stop, linked, elems  \* tree

treeVars == <<tpc, multi, links, size, fix, fixparent, job, cur, stop, linked, elems>>
allVars == <<vars, which, treeVars, memVars, vmVars>>

\* Root directory 1 with directory 2, which has program 3 and the bad device
\* 4; two inode slots and one open file, so that both tables run full.
TwoTasks == {t1, t2}
SmallKind == <<"dir", "dir", "prog", "baddev">>
SmallEntry == <<[d |-> 2, p |-> 0, x |-> 0], [d |-> 0, p |-> 3, x |-> 4],
                [d |-> 0, p |-> 0, x |-> 0], [d |-> 0, p |-> 0, x |-> 0]>>
SmallPaths == [abs : {TRUE}, names : {<<>>, <<"d", "p">>, <<"d", "x">>}]
              \cup [abs : {FALSE}, names : {<<"d">>, <<"p", "x">>}]

\* Anonymous, private, shared, empty, overlapping and kernel-placed regions.
SmallImage == {Region(1, 1, {"R", "W"}, {"P"})}
SmallRequests ==
    {Region(0, 1, {"R", "W"}, {"A"}), Region(0, 0, {"R"}, {"A"}),
     Region(0, 1, {"R", "W"}, {"A", "Z"}), Region(2, 2, {"R", "W"}, {"A"}),
     Region(3, 1, {"R", "X"}, {"A"}), Region(2, 1, {"R", "W"}, {"A", "S"}),
     Region(1, 1, {"R"}, {"A", "P", "S"})}

\* Eight nodes, two of which have the same key: every case of the rebalancing.
Tree == INSTANCE RbTree
        WITH Nodes <- 1..8, KeyOf <- [n \in 1..8 |-> IF n = 8 THEN 4 ELSE n], t <- links,
             pc <- tpc

\* Two size classes of two and three blocks, runs of two and three pages.
SmallPerPage == <<2, 3>>

Absent == "absent"
NoTree == tpc = Absent /\ multi = Absent /\ links = Absent /\ size = Absent /\ fix = Absent
          /\ fixparent = Absent /\ job = Absent /\ cur = Absent /\ stop = Absent
          /\ linked = Absent /\ elems = Absent

MCInit ==
    /\ Init /\ VmInit /\ MemInit
    /\ \/ which \in {"fs", "vm", "heap"} /\ NoTree
       \/ which = "tree" /\ Tree!Init
    /\ which # "vm" => high[FirstUser] = 0

MCNext ==
    \/ which = "fs" /\ Next /\ UNCHANGED <<which, vmVars, treeVars, memVars>>
    \/ which = "vm" /\ VmNext /\ UNCHANGED <<vars, which, treeVars, memVars>>
    \/ which = "tree" /\ Tree!Next /\ UNCHANGED <<vars, vmVars, which, memVars>>
    \/ which = "heap" /\ MemNext /\ UNCHANGED <<vars, vmVars, which, treeVars>>

MCSpec == MCInit /\ [][MCNext]_allVars

-----------------------------------------------------------------------------
(* The properties of the instantiated modules. *)

\* The tree is a red-black search tree (impl_node_insert, rb_erase_node).
TreeSound == which = "tree" => Tree!TreeSound

\* Between calls it answers like the sorted set of its nodes (rb_find and others).
TreeAnswersLikeASet == which = "tree" => Tree!AnswersLikeASet
=============================================================================
