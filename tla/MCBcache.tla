----------------------------- MODULE MCBcache ------------------------------
(* Bcache with fewer buffers than blocks, so that buffers are recycled. *)
EXTENDS Bcache, TLC

CONSTANTS t1, t2, t3

TwoTasks == {t1, t2}
ThreeTasks == {t1, t2, t3}
TwoNest == {t1, t2}
NoneNests == {}
TwoBlocks == 1 .. 2
ThreeBlocks == 1 .. 3
=============================================================================
