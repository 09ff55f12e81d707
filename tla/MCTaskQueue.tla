----------------------------- MODULE MCTaskQueue -----------------------------
(* Small instances of TaskQueue for TLC. *)
EXTENDS TaskQueue

CONSTANTS t1, t2, c1, s1    \* model values
==============================================================================
