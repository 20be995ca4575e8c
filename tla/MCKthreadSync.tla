--------------------------- MODULE MCKthreadSync ---------------------------
(* Small instances of KthreadSync. *)
EXTENDS KthreadSync, TLC

(* Threads that may be killed and threads that may not be are two kinds. *)
Symmetry == Permutations(Threads \ Killable)

(* One mutex per condition variable, or one mutex shared by all. *)
OneMutex == [c \in 1..NCONDVAR |-> 1]
OwnMutex == [c \in 1..NCONDVAR |-> c]

NoProc == {}
=============================================================================
