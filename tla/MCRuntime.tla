----------------------------- MODULE MCRuntime -----------------------------
(***************************************************************************)
(* Runtime for TLC: a process, its child and a grandchild, two threads and *)
(* three PIDs, so that a PID can come back only after its process ended.   *)
(***************************************************************************)
EXTENDS Runtime

CONSTANTS p1, p2, p3, t1, t2, i1, i2, i3
=============================================================================
