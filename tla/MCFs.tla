-------------------------------- MODULE MCFs --------------------------------
(* Instances of Fs for TLC. *)
EXTENDS Fs, TLC

Symmetry == Permutations(Procs)

InRoot == <<"x">>
SubDir == <<"d">>

Abs(el) == [abs |-> TRUE, el |-> el]
Rel(el) == [abs |-> FALSE, el |-> el]
Call(op, path) == [op |-> op, path |-> path, new |-> Abs(<<>>)]

(* A file x of the root, a directory d, and the name x in d. *)
X  == Abs(<<"x">>)
D  == Abs(<<"d">>)
DX == Abs(<<"d", "x">>)

TreeCalls ==
  {Call("unlink", X), Call("unlink", D), Call("unlink", DX), Call("create", DX),
   Call("mkdir", D), Call("mknod", DX), Call("chdir", D), Call("create", Rel(<<"x">>)), Call("open", X),
   [op |-> "link", path |-> X, new |-> DX]}
=============================================================================
