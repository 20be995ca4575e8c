------------------------------- MODULE BufCache ------------------------------
(* The buffer cache (bio.c) over the disk driver (ide.c).  A section under  *)
(* bcache.lock or idelock is one step: sleep() takes ptable.lock before it  *)
(* gives the lock up.  Both kinds of sleepers, for a busy buffer and for    *)
(* the disk, sleep on the address of the buffer.                            *)
EXTENDS Integers, Sequences, FiniteSets, SequencesExt

CONSTANTS
  Procs, Sectors, NBUF,
  Vals,        \* contents of sectors; 0 at first, calls write the others
  MaxPinned,   \* buffers log_write leaves dirty at a time
  MaxCalls,    \* bound: calls of bread each proc makes
  NoSector     \* dev = -1 of binit

ASSUME BufAssumption ==
  /\ NBUF \in Nat \ {0} /\ MaxPinned \in Nat
  /\ MaxCalls \in [Procs -> Nat]
  /\ NoSector \notin Sectors
  /\ 0 \in Vals

Bufs == 1..NBUF

VARIABLES
  sector, flags, data,   \* struct buf
  mru,       \* bcache.head.next and on, the most recently used first
  idequeue,
  medium,    \* the sectors on the disk
  ctl,       \* the controller: "idle", its command, or "ready" to interrupt
  pc,        \* where each proc is; "user" without a buffer
  want, buf, \* argument sector of bget, and its b
  asleep,    \* procs asleep on buf
  panicked, calls

cached == <<sector, flags, data, mru>>
device == <<idequeue, medium, ctl>>
vars == <<cached, device, pc, want, buf, asleep, panicked, calls>>

Idle == [op |-> "idle", sec |-> NoSector, val |-> 0]

Init ==
  /\ sector = [b \in Bufs |-> NoSector]
  /\ flags = [b \in Bufs |-> {}]
  /\ data = [b \in Bufs |-> 0]
  /\ mru = [k \in Bufs |-> NBUF + 1 - k]
  /\ idequeue = <<>>
  /\ medium = [s \in Sectors |-> 0]
  /\ ctl = Idle
  /\ pc = [p \in Procs |-> "user"]
  /\ want = [p \in Procs |-> NoSector]
  /\ buf = [p \in Procs |-> 0]
  /\ asleep = {}
  /\ panicked = FALSE
  /\ calls = [p \in Procs |-> 0]

Goto(p, from, to) ==
  /\ ~panicked
  /\ pc[p] = from /\ p \notin asleep
  /\ pc' = [pc EXCEPT ![p] = to]

Wakeup(b) == asleep' = asleep \ {p \in Procs : buf[p] = b}

(* A file system call asks for a sector. *)
BreadCall(p, s) ==
  /\ Goto(p, "user", "bget")
  /\ calls[p] < MaxCalls[p]
  /\ calls' = [calls EXCEPT ![p] = @ + 1]
  /\ want' = [want EXCEPT ![p] = s]
  /\ UNCHANGED <<cached, device, buf, asleep, panicked>>

Copies(s) == {b \in Bufs : sector[b] = s}

(* bget, the sector is cached and free, *)
BgetHit(p) ==
  /\ Goto(p, "bget", "bread")
  /\ \E b \in Copies(want[p]) :
       /\ "BUSY" \notin flags[b]
       /\ flags' = [flags EXCEPT ![b] = @ \cup {"BUSY"}]
       /\ buf' = [buf EXCEPT ![p] = b]
  /\ UNCHANGED <<sector, data, mru, device, want, asleep, panicked, calls>>

(* or cached and busy: sleep and look again from the start. *)
BgetBusy(p) ==
  /\ Goto(p, "bget", "bget")
  /\ \E b \in Copies(want[p]) :
       /\ "BUSY" \in flags[b]
       /\ buf' = [buf EXCEPT ![p] = b]
  /\ asleep' = asleep \cup {p}
  /\ UNCHANGED <<cached, device, want, panicked, calls>>

(* Mutant of Recyclable: a buffer the log has pinned is given away. *)
RecyclableDirty(b) == "BUSY" \notin flags[b]

Recyclable(b) == flags[b] \cap {"BUSY", "DIRTY"} = {}

(* or not cached: the least recently used free and clean buffer. *)
BgetRecycle(p) ==
  LET free == {k \in Bufs : Recyclable(mru[k])}
  IN /\ Copies(want[p]) = {}
     /\ Goto(p, "bget", IF free = {} THEN "bget" ELSE "bread")
     /\ IF free = {}
        THEN panicked' = TRUE /\ UNCHANGED <<sector, flags, buf>>
        ELSE LET b == mru[Max(free)]
             IN /\ sector' = [sector EXCEPT ![b] = want[p]]
                /\ flags' = [flags EXCEPT ![b] = {"BUSY"}]
                /\ buf' = [buf EXCEPT ![p] = b]
                /\ UNCHANGED panicked
     /\ UNCHANGED <<data, mru, device, want, asleep, calls>>

(* bread: only a buffer without data goes to the disk. *)
Bread(p) ==
  /\ Goto(p, "bread", IF "VALID" \in flags[buf[p]] THEN "use" ELSE "iderw")
  /\ UNCHANGED <<cached, device, want, buf, asleep, panicked, calls>>

(* The owner changes the data and calls log_write, which pins the buffer, *)
LogWrite(p, v) ==
  /\ Goto(p, "use", "use")
  /\ \/ "DIRTY" \in flags[buf[p]]
     \/ Cardinality({b \in Bufs : "DIRTY" \in flags[b]}) < MaxPinned
  /\ data' = [data EXCEPT ![buf[p]] = v]
  /\ flags' = [flags EXCEPT ![buf[p]] = @ \cup {"DIRTY"}]
  /\ UNCHANGED <<sector, mru, device, want, buf, asleep, panicked, calls>>

(* or bwrite: the data goes to the disk now. *)
Bwrite(p, v) ==
  /\ Goto(p, "use", "iderw")
  /\ data' = [data EXCEPT ![buf[p]] = v]
  /\ flags' = [flags EXCEPT ![buf[p]] = @ \cup {"DIRTY"}]
  /\ UNCHANGED <<sector, mru, device, want, buf, asleep, panicked, calls>>

(* Mutant of Brelse: nobody is woken. *)
BrelseQuiet(p) ==
  LET b == buf[p]
  IN /\ Goto(p, "use", "user")
     /\ mru' = <<b>> \o SelectSeq(mru, LAMBDA x : x # b)
     /\ flags' = [flags EXCEPT ![b] = @ \ {"BUSY"}]
     /\ buf' = [buf EXCEPT ![p] = 0]
     /\ want' = [want EXCEPT ![p] = NoSector]
     /\ UNCHANGED <<sector, data, device, asleep, panicked, calls>>

(* brelse: to the front of the list, and wake who waits for the buffer. *)
Brelse(p) ==
  LET b == buf[p]
  IN /\ Goto(p, "use", "user")
     /\ mru' = <<b>> \o SelectSeq(mru, LAMBDA x : x # b)
     /\ flags' = [flags EXCEPT ![b] = @ \ {"BUSY"}]
     /\ Wakeup(b)
     /\ buf' = [buf EXCEPT ![p] = 0]
     /\ want' = [want EXCEPT ![p] = NoSector]
     /\ UNCHANGED <<sector, data, device, panicked, calls>>

(* idestart: the command, with the data of a write as it is now. *)
Idestart(b) ==
  [op |-> IF "DIRTY" \in flags[b] THEN "write" ELSE "read",
   sec |-> sector[b], val |-> data[b]]

(* iderw: queue the buffer, start an idle disk, sleep.  The buffer is never  *)
(* valid and clean here, so the test of the while loop holds at first. *)
Iderw(p) ==
  /\ Goto(p, "iderw", "iowait")
  /\ idequeue' = Append(idequeue, buf[p])
  /\ ctl' = IF idequeue = <<>> THEN Idestart(buf[p]) ELSE ctl
  /\ asleep' = asleep \cup {p}
  /\ UNCHANGED <<cached, medium, want, buf, panicked, calls>>

(* Awake again: back to sleep unless the request is done. *)
IderwTest(p) ==
  LET done == flags[buf[p]] \cap {"VALID", "DIRTY"} = {"VALID"}
  IN /\ Goto(p, "iowait", IF done THEN "use" ELSE "iowait")
     /\ asleep' = IF done THEN asleep ELSE asleep \cup {p}
     /\ UNCHANGED <<cached, device, want, buf, panicked, calls>>

(* The controller carries out its command. *)
Controller ==
  /\ ~panicked /\ ctl.op \in {"read", "write"}
  /\ medium' = IF ctl.op = "write" THEN [medium EXCEPT ![ctl.sec] = ctl.val]
               ELSE medium
  /\ ctl' = [ctl EXCEPT !.op = "ready",
                        !.val = IF ctl.op = "read" THEN medium[ctl.sec] ELSE @]
  /\ UNCHANGED <<cached, idequeue, pc, want, buf, asleep, panicked, calls>>

(* ideintr: the first buffer is done; start the next. *)
Ideintr ==
  LET b == Head(idequeue)
  IN /\ ~panicked /\ ctl.op = "ready"
     /\ idequeue' = Tail(idequeue)
     /\ data' = IF "DIRTY" \in flags[b] THEN data ELSE [data EXCEPT ![b] = ctl.val]
     /\ flags' = [flags EXCEPT ![b] = (@ \cup {"VALID"}) \ {"DIRTY"}]
     /\ Wakeup(b)
     /\ ctl' = IF Tail(idequeue) = <<>> THEN Idle ELSE Idestart(idequeue[2])
     /\ UNCHANGED <<sector, mru, medium, pc, want, buf, panicked, calls>>

KernelStep(p) ==
  \/ BgetHit(p) \/ BgetBusy(p) \/ BgetRecycle(p)
  \/ Bread(p) \/ Iderw(p) \/ IderwTest(p)

Next ==
  \/ \E p \in Procs :
       \/ KernelStep(p) \/ Brelse(p)
       \/ \E s \in Sectors : BreadCall(p, s)
       \/ \E v \in Vals \ {0} : LogWrite(p, v) \/ Bwrite(p, v)
  \/ Controller \/ Ideintr

(* The scheduler is round robin, the disk answers, and an owner gives the   *)
(* buffer back at a moment when it may.                                     *)
Fairness ==
  /\ \A p \in Procs : WF_vars(KernelStep(p)) /\ SF_vars(Brelse(p))
  /\ WF_vars(Controller) /\ WF_vars(Ideintr)

Spec == Init /\ [][Next]_vars
FairSpec == Spec /\ Fairness

-----------------------------------------------------------------------------
Owns(p) == pc[p] \in {"bread", "iderw", "iowait", "use"}

Loaded(s) == {b \in Copies(s) : flags[b] \cap {"VALID", "DIRTY"} # {}}

Store == INSTANCE BlockStore WITH
  None <- -1,
  content <- [s \in Sectors |-> IF Loaded(s) = {} THEN {medium[s]}
                                ELSE {data[b] : b \in Loaded(s)}],
  owner <- [s \in Sectors |-> {p \in Procs : Owns(p) /\ sector[buf[p]] = s}],
  got <- [p \in Procs |-> IF pc[p] = "use" THEN data[buf[p]] ELSE -1]

(* The cache is a store of blocks: a sector has one content and at most one *)
(* owner, bread hands out that content although buffers are recycled, and   *)
(* only the owner changes it (bget, brelse, iderw, ideintr together).       *)
ImplementsBlockStore == Store!Spec

(* A bread or bwrite in progress returns: no wakeup of brelse or ideintr is *)
(* missed.  (bget may stop the machine for want of buffers.)                *)
BreadReturns ==
  \A p \in Procs : pc[p] \in {"bget", "iowait"} ~> (pc[p] = "use" \/ panicked)
=============================================================================
