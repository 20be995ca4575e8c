------------------------------- MODULE MCMem -------------------------------
(* Model checking of Mem: three slots of the process table. *)
EXTENDS Mem

MCProcs == 1..3
=============================================================================
