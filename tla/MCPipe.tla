------------------------------- MODULE MCPipe -------------------------------
(* Instances of Pipe for TLC. *)
EXTENDS Pipe

(* A reader makes enough calls to drain what the writers put in. *)
Calls == [p \in Procs |-> IF p \in Readers THEN 3 ELSE 1]
=============================================================================
