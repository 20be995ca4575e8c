--------------------------- MODULE MCThreadLife ---------------------------
(* Instances of ThreadLife are given by the configurations alone. *)
EXTENDS ThreadLife
=============================================================================
