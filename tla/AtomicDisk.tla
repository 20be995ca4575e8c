----------------------------- MODULE AtomicDisk -----------------------------
(***************************************************************************)
(* What the log promises to the file system: the blocks on the disk change *)
(* only from one state in which no system call was in progress to another. *)
(* Whatever is lost in a crash is lost as a whole.                         *)
(***************************************************************************)
CONSTANTS
  Blocks,  \* block numbers
  Vals,    \* contents of a block
  Procs    \* procs that make file system calls

VARIABLES
  durable, \* what the disk holds after a crash and the recovery
  view,    \* what the running system calls see
  open     \* procs inside begin_op ... end_op

vars == <<durable, view, open>>

Init ==
  /\ durable \in [Blocks -> Vals]
  /\ view = durable
  /\ open = {}

Begin(p) ==
  /\ p \notin open
  /\ open' = open \cup {p}
  /\ UNCHANGED <<durable, view>>

Write(p, b, v) ==
  /\ p \in open
  /\ view' = [view EXCEPT ![b] = v]
  /\ UNCHANGED <<durable, open>>

End(p) ==
  /\ p \in open
  /\ open' = open \ {p}
  /\ UNCHANGED <<durable, view>>

(* All calls made so far become durable together. *)
Commit ==
  /\ open = {}
  /\ durable' = view
  /\ UNCHANGED <<view, open>>

Crash ==
  /\ view' = durable
  /\ open' = {}
  /\ UNCHANGED durable

Next ==
  \/ \E p \in Procs : Begin(p) \/ End(p)
  \/ \E p \in Procs, b \in Blocks, v \in Vals : Write(p, b, v)
  \/ Commit
  \/ Crash

Spec == Init /\ [][Next]_vars
=============================================================================
