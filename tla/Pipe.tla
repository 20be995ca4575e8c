-------------------------------- MODULE Pipe --------------------------------
(***************************************************************************)
(* Pipes: pipe.c, with sleep, wakeup and kill of proc.c as pipe.c uses     *)
(* them.  A section that runs under p->lock is one step, except that it is *)
(* cut between the test of proc->killed and sleep(): kill() needs only     *)
(* ptable.lock and may come in between.  sleep() gives up p->lock and      *)
(* falls asleep in one step (it holds ptable.lock across both).            *)
(*                                                                         *)
(* Each proc holds the ends of the pipe that its descriptors refer to.     *)
(* The last close of an end is a pipeclose.                                *)
(***************************************************************************)
EXTENDS Integers, Sequences, FiniteSets

CONSTANTS
  Writers,   \* procs with a descriptor for the write end
  Readers,   \* procs with a descriptor for the read end
  PIPESIZE,  \* bytes of the ring
  UintMod,   \* nread and nwrite wrap at this value (2^32)
  Bytes,     \* values of a byte
  Lens,      \* lengths n passed to read and write
  MaxCalls,  \* bound: calls each program makes before it exits
  Killable   \* procs some other process may kill()

ASSUME PipeAssumption ==
  /\ Writers \cap Readers = {}
  /\ "none" \notin Writers \cup Readers
  /\ PIPESIZE \in Nat \ {0}
  /\ UintMod \in Nat /\ UintMod > PIPESIZE /\ UintMod % PIPESIZE = 0
  /\ Bytes # {}
  /\ Lens \subseteq Nat
  /\ MaxCalls \in [Writers \cup Readers -> Nat]
  /\ Killable \subseteq Writers \cup Readers

Procs == Writers \cup Readers

VARIABLES
  data, nread, nwrite, readopen, writeopen,   \* struct pipe
  freed,   \* the page of the pipe has been given to kfree
  lock,    \* proc that holds p->lock between steps, or "none"
  fds,     \* procs that still have their descriptor
  state,   \* "RUNNABLE" or "SLEEPING"
  chan,    \* "none", "nread" or "nwrite"
  killed,  \* procs with proc->killed set
  pc,      \* where each proc is in its call
  n,       \* argument n of the call
  i,       \* bytes the writer has copied
  calls,   \* calls each program has made
  wire     \* the bytes copied by the last step and which way they went

ring == <<data, nread, nwrite, readopen, writeopen, freed>>
sched == <<state, chan>>
vars == <<ring, lock, fds, sched, killed, pc, n, i, calls, wire>>

Full  == nwrite = (nread + PIPESIZE) % UintMod
Empty == nread = nwrite
Count == (nwrite - nread + UintMod) % UintMod
Quiet == [dir |-> "none", bytes |-> <<>>]
Least(a, b) == IF a < b THEN a ELSE b

(* kfree has filled the page with one value. *)
Init ==
  /\ data = [j \in 0..(PIPESIZE - 1) |-> CHOOSE b \in Bytes : TRUE]
  /\ nread = 0 /\ nwrite = 0
  /\ readopen = 1 /\ writeopen = 1
  /\ freed = FALSE
  /\ lock = "none"
  /\ fds = Procs
  /\ state = [p \in Procs |-> "RUNNABLE"]
  /\ chan = [p \in Procs |-> "none"]
  /\ killed = {}
  /\ pc = [p \in Procs |-> "user"]
  /\ n = [p \in Procs |-> 0]
  /\ i = [p \in Procs |-> 0]
  /\ calls = [p \in Procs |-> 0]
  /\ wire = Quiet

-----------------------------------------------------------------------------
(* A proc runs when it is not asleep; a lock section needs p->lock. *)
Runs(p, label) == pc[p] = label /\ state[p] = "RUNNABLE"
Locks(p, label) == Runs(p, label) /\ lock = "none"

Woken(c) ==
  [p \in Procs |-> IF state[p] = "SLEEPING" /\ chan[p] = c
                     THEN "RUNNABLE" ELSE state[p]]

(* The call returns to user space. *)
Return(p) == pc' = [pc EXCEPT ![p] = "user"]

(* A system call: a killed proc exits on its way in or out of the kernel,  *)
(* and a program makes at most MaxCalls[p] calls before it exits. *)
Call(p, label, m) ==
  /\ Runs(p, "user")
  /\ p \in fds
  /\ p \notin killed
  /\ calls[p] < MaxCalls[p]
  /\ pc' = [pc EXCEPT ![p] = label]
  /\ n' = [n EXCEPT ![p] = m]
  /\ i' = [i EXCEPT ![p] = 0]
  /\ calls' = [calls EXCEPT ![p] = @ + 1]
  /\ wire' = Quiet
  /\ UNCHANGED <<ring, lock, fds, sched, killed>>

CallWrite(p, m) == p \in Writers /\ Call(p, "write", m)
CallRead(p, m)  == p \in Readers /\ Call(p, "read", m)

-----------------------------------------------------------------------------
(* Mutant of CopyIn: every byte goes to the place of the first. *)
CopyInPlace(s) ==
  /\ data' = IF s = <<>> THEN data
             ELSE [data EXCEPT ![nwrite % PIPESIZE] = s[Len(s)]]
  /\ nwrite' = (nwrite + Len(s)) % UintMod
  /\ wire' = [dir |-> "in", bytes |-> s]

(* Copying k bytes of s in, or k bytes out. *)
CopyIn(s) ==
  /\ data' = [j \in DOMAIN data |->
                IF \E k \in 1..Len(s) : j = (nwrite + k - 1) % PIPESIZE
                  THEN s[CHOOSE k \in 1..Len(s) : j = (nwrite + k - 1) % PIPESIZE]
                  ELSE data[j]]
  /\ nwrite' = (nwrite + Len(s)) % UintMod
  /\ wire' = [dir |-> "in", bytes |-> s]

Oldest(k) == [j \in 1..k |-> data[(nread + j - 1) % PIPESIZE]]

CopyOut(k) ==
  /\ nread' = (nread + k) % UintMod
  /\ wire' = [dir |-> "out", bytes |-> Oldest(k)]

(* The bytes pipewrite can copy before it is done or the pipe is full. *)
Room(p) == Least(n[p] - i[p], PIPESIZE - Count)

(* pipewrite copies all that is left, wakes the readers and returns. *)
WriteDone(p) ==
  /\ Locks(p, "write")
  /\ Room(p) = n[p] - i[p]
  /\ \E s \in [1..Room(p) -> Bytes] : CopyIn(s)
  /\ state' = Woken("nread")
  /\ Return(p)
  /\ UNCHANGED <<nread, readopen, writeopen, freed, lock, fds, chan, killed,
                 n, i, calls>>

(* It fills the pipe, finds it full and gives up: nobody can read, or the  *)
(* writer has been killed. *)
WriteFail(p) ==
  /\ Locks(p, "write")
  /\ Room(p) < n[p] - i[p]
  /\ readopen = 0 \/ p \in killed
  /\ \E s \in [1..Room(p) -> Bytes] : CopyIn(s)
  /\ Return(p)
  /\ UNCHANGED <<nread, readopen, writeopen, freed, lock, fds, sched, killed,
                 n, i, calls>>

(* It fills the pipe, finds it full and wakes the readers; p->lock is kept *)
WriteFull(p) ==
  /\ Locks(p, "write")
  /\ Room(p) < n[p] - i[p]
  /\ readopen = 1 /\ p \notin killed
  /\ \E s \in [1..Room(p) -> Bytes] : CopyIn(s)
  /\ i' = [i EXCEPT ![p] = @ + Room(p)]
  /\ state' = Woken("nread")
  /\ lock' = p
  /\ pc' = [pc EXCEPT ![p] = "writesleep"]
  /\ UNCHANGED <<nread, readopen, writeopen, freed, fds, chan, killed, n,
                 calls>>

(* until it sleeps.  Woken up, it tests again for room. *)
Sleep(p, at, c, next) ==
  /\ Runs(p, at)
  /\ state' = [state EXCEPT ![p] = "SLEEPING"]
  /\ chan' = [chan EXCEPT ![p] = c]
  /\ lock' = "none"
  /\ pc' = [pc EXCEPT ![p] = next]
  /\ wire' = Quiet
  /\ UNCHANGED <<ring, fds, killed, n, i, calls>>

WriteSleep(p) == Sleep(p, "writesleep", "nwrite", "write")

(* piperead finds the pipe empty with the write end open: killed, it gives *)
(* up, *)
ReadFail(p) ==
  /\ Locks(p, "read")
  /\ Empty /\ writeopen = 1
  /\ p \in killed
  /\ Return(p)
  /\ wire' = Quiet
  /\ UNCHANGED <<ring, lock, fds, sched, killed, n, i, calls>>

(* otherwise it sleeps until there is something to read. *)
ReadEmpty(p) ==
  /\ Locks(p, "read")
  /\ Empty /\ writeopen = 1
  /\ p \notin killed
  /\ lock' = p
  /\ pc' = [pc EXCEPT ![p] = "readsleep"]
  /\ wire' = Quiet
  /\ UNCHANGED <<ring, fds, sched, killed, n, i, calls>>

ReadSleep(p) == Sleep(p, "readsleep", "nread", "read")

(* Mutant of ReadCopy: the writers are woken only if the pipe is drained. *)
ReadCopyDrained(p) ==
  /\ Locks(p, "read")
  /\ ~(Empty /\ writeopen = 1)
  /\ CopyOut(Least(n[p], Count))
  /\ state' = IF nread' = nwrite THEN Woken("nwrite") ELSE state
  /\ Return(p)
  /\ UNCHANGED <<data, nwrite, readopen, writeopen, freed, lock, fds, chan,
                 killed, n, i, calls>>

(* It copies what there is, at most n bytes, and wakes the writers. *)
ReadCopy(p) ==
  /\ Locks(p, "read")
  /\ ~(Empty /\ writeopen = 1)
  /\ CopyOut(Least(n[p], Count))
  /\ state' = Woken("nwrite")
  /\ Return(p)
  /\ UNCHANGED <<data, nwrite, readopen, writeopen, freed, lock, fds, chan,
                 killed, n, i, calls>>

(* fileclose(): the last descriptor of an end closes that end, under        *)
(* p->lock. *)
CloseEnd(p) ==
  /\ Runs(p, "user")
  /\ p \in fds
  /\ fds' = fds \ {p}
  /\ writeopen' = IF fds' \cap Writers = {} THEN 0 ELSE writeopen
  /\ readopen' = IF fds' \cap Readers = {} THEN 0 ELSE readopen
  /\ lock = "none" \/ (writeopen' = writeopen /\ readopen' = readopen)

(* Mutants of PipeClose: nobody is woken; the pipe is freed with the first *)
(* of its ends. *)
PipeCloseQuiet(p) ==
  /\ CloseEnd(p)
  /\ freed' = (readopen' = 0 /\ writeopen' = 0)
  /\ wire' = Quiet
  /\ UNCHANGED <<data, nread, nwrite, lock, sched, killed, pc, n, i, calls>>

PipeCloseEither(p) ==
  /\ CloseEnd(p)
  /\ state' = IF writeopen' # writeopen THEN Woken("nread")
              ELSE IF readopen' # readopen THEN Woken("nwrite") ELSE state
  /\ freed' = (readopen' = 0 \/ writeopen' = 0)
  /\ wire' = Quiet
  /\ UNCHANGED <<data, nread, nwrite, lock, chan, killed, pc, n, i, calls>>

(* close() or exit(): the end that is closed wakes the other; with both     *)
(* ends closed the pipe is freed. *)
PipeClose(p) ==
  /\ CloseEnd(p)
  /\ state' = IF writeopen' # writeopen THEN Woken("nread")
              ELSE IF readopen' # readopen THEN Woken("nwrite") ELSE state
  /\ freed' = (readopen' = 0 /\ writeopen' = 0)
  /\ wire' = Quiet
  /\ UNCHANGED <<data, nread, nwrite, lock, chan, killed, pc, n, i, calls>>

(* kill(): takes ptable.lock only. *)
Kill(p) ==
  /\ p \in Killable \ killed
  /\ killed' = killed \cup {p}
  /\ state' = [state EXCEPT ![p] = "RUNNABLE"]
  /\ wire' = Quiet
  /\ UNCHANGED <<ring, lock, fds, chan, pc, n, i, calls>>

WriteStep(p) ==
  WriteDone(p) \/ WriteFail(p) \/ WriteFull(p) \/ WriteSleep(p)

ReadStep(p) ==
  ReadFail(p) \/ ReadEmpty(p) \/ ReadSleep(p) \/ ReadCopy(p)

UserStep(p) ==
  \/ \E m \in Lens : CallWrite(p, m) \/ CallRead(p, m)
  \/ PipeClose(p)

Next ==
  \/ \E p \in Procs : WriteStep(p) \/ ReadStep(p) \/ UserStep(p)
  \/ \E p \in Killable : Kill(p)

(* The scheduler goes round the table and runs every RUNNABLE proc, and    *)
(* every program ends. *)
Fairness ==
  \A p \in Procs :
    /\ WF_vars(WriteStep(p) \/ ReadStep(p))
    /\ WF_vars(UserStep(p))

Spec == Init /\ [][Next]_vars
FairSpec == Spec /\ Fairness
-----------------------------------------------------------------------------
(* pipe.c implements the bounded queue: although nread and nwrite wrap     *)
(* around and index a ring, and writes and reads of several procs are cut  *)
(* into pieces wherever the pipe is full or empty, bytes come out in the   *)
(* order they went in. *)
Abstract == INSTANCE BoundedPipe WITH
  Size  <- PIPESIZE,
  queue <- Oldest(Count),
  ends  <- (IF readopen = 1 THEN {"read"} ELSE {})
             \cup (IF writeopen = 1 THEN {"write"} ELSE {})

ImplementsPipe == Abstract!Spec

(* Nobody sleeps with work to do: a reader sleeps only while the pipe is   *)
(* empty and somebody can write (pipe.c:105), a writer only while it is    *)
(* full and somebody can read (pipe.c:84).  Data, room, the end of file or *)
(* the news that nobody will ever read never wait for a sleeper.           *)
SleeperHasReason ==
  \A p \in Procs : state[p] = "SLEEPING" =>
    \/ chan[p] = "nread" /\ Empty /\ writeopen = 1
    \/ chan[p] = "nwrite" /\ Full /\ readopen = 1

(* The pipe is given back to kfree only when no call is inside it and no   *)
(* proc can reach it any more (pipeclose, pipe.c:69). *)
FreedUnused ==
  freed => fds = {} /\ lock = "none" /\ \A p \in Procs : pc[p] = "user"

(* Every read and write returns once the programs at the other end have    *)
(* ended: neither a full nor an empty pipe blocks for ever. *)
CallReturns ==
  \A p \in Procs : pc[p] # "user" ~> pc[p] = "user"
=============================================================================
