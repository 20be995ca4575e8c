------------------------------ MODULE MCBufCache -----------------------------
(* Instances of BufCache for TLC. *)
EXTENDS BufCache

CONSTANTS p1, p2

(* While one proc waits for a buffer, three calls of the other can free it  *)
(* and recycle it for another sector. *)
Calls == [p \in Procs |-> IF p = p1 THEN 3 ELSE 1]
=============================================================================
