------------------------------ MODULE BlockStore -----------------------------
(* What the buffer cache promises to the file system: every sector has one  *)
(* current content, and a proc that has the sector to itself sees and       *)
(* changes that content.  Owners and contents are sets so that a second     *)
(* owner or a second copy would be visible in a refinement.                 *)
CONSTANTS Procs, Sectors, Vals, None

VARIABLES content, owner, got
vars == <<content, owner, got>>

Init ==
  /\ \E z \in Vals : content = [s \in Sectors |-> {z}]
  /\ owner = [s \in Sectors |-> {}]
  /\ got = [p \in Procs |-> None]

Take(p, s) ==
  /\ owner[s] = {} /\ \A r \in Sectors : p \notin owner[r]
  /\ owner' = [owner EXCEPT ![s] = {p}]
  /\ UNCHANGED <<content, got>>

(* The proc gets to see the content, *)
Get(p, s) ==
  /\ owner[s] = {p} /\ got[p] = None
  /\ \E v \in content[s] : got' = [got EXCEPT ![p] = v]
  /\ UNCHANGED <<content, owner>>

(* changes it, and may have to wait before it sees it again, *)
Put(p, s, v) ==
  /\ owner[s] = {p} /\ got[p] # None
  /\ content' = [content EXCEPT ![s] = {v}]
  /\ got' \in {[got EXCEPT ![p] = v], [got EXCEPT ![p] = None]}
  /\ UNCHANGED owner

(* and gives the sector back. *)
Give(p, s) ==
  /\ owner[s] = {p} /\ got[p] # None
  /\ owner' = [owner EXCEPT ![s] = {}]
  /\ got' = [got EXCEPT ![p] = None]
  /\ UNCHANGED content

Next ==
  \E p \in Procs, s \in Sectors :
    Take(p, s) \/ Get(p, s) \/ Give(p, s) \/ \E v \in Vals : Put(p, s, v)

Spec == Init /\ [][Next]_vars
=============================================================================
