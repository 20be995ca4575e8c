---------------------------- MODULE BoundedPipe ----------------------------
(***************************************************************************)
(* What a pipe promises to the processes at its two ends: a bounded queue  *)
(* of bytes.  Bytes come out in the order they were put in, and none is    *)
(* lost or repeated.  Pipe shows that pipe.c implements this.              *)
(***************************************************************************)
EXTENDS Integers, Sequences

CONSTANTS
  Size,   \* bytes the pipe holds
  Bytes   \* values of a byte

VARIABLES
  queue,  \* bytes written and not yet read
  wire,   \* the bytes moved by the last step and which way they went
  ends    \* which ends are open, a subset of {"read", "write"}

vars == <<queue, wire, ends>>

Quiet == [dir |-> "none", bytes |-> <<>>]

Init ==
  /\ queue = <<>>
  /\ wire = Quiet
  /\ ends = {"read", "write"}

(* A writer puts some bytes in, as many as fit. *)
Put(s) ==
  /\ "write" \in ends
  /\ Len(queue) + Len(s) <= Size
  /\ queue' = queue \o s
  /\ wire' = [dir |-> "in", bytes |-> s]
  /\ UNCHANGED ends

(* A reader takes the k oldest bytes. *)
Take(k) ==
  /\ "read" \in ends
  /\ queue' = SubSeq(queue, k + 1, Len(queue))
  /\ wire' = [dir |-> "out", bytes |-> SubSeq(queue, 1, k)]
  /\ UNCHANGED ends

Close(e) ==
  /\ e \in ends
  /\ ends' = ends \ {e}
  /\ wire' = Quiet
  /\ UNCHANGED queue

Idle ==
  /\ wire' = Quiet
  /\ UNCHANGED <<queue, ends>>

Next ==
  \/ \E n \in 0..Size : \E s \in [1..n -> Bytes] : Put(s)
  \/ \E k \in 0..Len(queue) : Take(k)
  \/ \E e \in {"read", "write"} : Close(e)
  \/ Idle

Spec == Init /\ [][Next]_vars
=============================================================================
