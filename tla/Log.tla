-------------------------------- MODULE Log --------------------------------
(***************************************************************************)
(* The redo log: log.c over the buffer cache (bio.c), with crashes.        *)
(*                                                                         *)
(* A write of a sector to the disk (bwrite) is one atomic step and a crash *)
(* may come between any two steps; it loses everything in memory.          *)
(* A section under log.lock is one step.  log_write takes no lock, so its  *)
(* scan, its store into log.lh.sector and its update of log.lh.n are three *)
(* steps.  A buffer is B_BUSY from bread to brelse, so what a system call  *)
(* does to the data of a buffer is one step.  The log blocks and the       *)
(* header are always written through, and are modelled on the disk only.   *)
(* Entries of log.lh.sector past log.lh.n are never read and kept at 0.    *)
(***************************************************************************)
EXTENDS Integers, Sequences, FiniteSets

CONSTANTS
  Procs,       \* procs that make file system calls
  Blocks,      \* block numbers of the file system outside the log, not 0
  Vals,        \* contents of a block
  LOGSIZE,     \* size of log.lh.sector
  LogBlocks,   \* log.size: the superblock's nlog, one of them the header
  MAXOPBLOCKS, \* log blocks begin_op sets aside for a call
  NBUF,        \* buffers of the cache
  OpBlocks,    \* blocks a system call really writes, at most
  RacyLogWrite,\* TRUE: two procs may be in log_write at once
  MaxOps,      \* bound: system calls made
  MaxCrashes   \* bound: crashes

ASSUME LogAssumption ==
  /\ IsFiniteSet(Procs)
  /\ 0 \notin Blocks /\ Blocks # {}
  /\ -1 \notin Vals /\ Vals # {}
  /\ LOGSIZE \in Nat /\ LogBlocks \in Nat /\ MAXOPBLOCKS \in Nat
  /\ NBUF \in Nat /\ OpBlocks \in Nat /\ MaxOps \in Nat /\ MaxCrashes \in Nat
  /\ RacyLogWrite \in BOOLEAN

Absent == -1
NoBlock == 0
Index == 1..LOGSIZE

VARIABLES
  disk,        \* the blocks at their home locations
  dlog,        \* the log blocks on the disk
  head,        \* the header on the disk: the first n sector numbers
  cache,       \* contents of the cached buffers
  dirty,       \* buffers with B_DIRTY
  n, sector,   \* log.lh
  outstanding, committing,   \* log.outstanding, log.committing
  pc,          \* where each proc is
  bp,          \* the buffer a proc holds B_BUSY
  i,           \* index i of log_write
  wrote,       \* blocks the call of each proc has written
  asleep,      \* procs asleep on &log
  tail,        \* index tail of write_log and install_trans
  up,          \* the kernel runs system calls; otherwise it is in initlog
  panicked,    \* "no" or the message of the panic that stopped the machine
  ops, crashes \* counters for the bounds

ondisk == <<disk, dlog, head>>
lh == <<n, sector>>
op == <<bp, i, wrote>>
bounds == <<ops, crashes>>
vars == <<ondisk, cache, dirty, lh, outstanding, committing, pc, op, asleep,
          tail, up, panicked, bounds>>

Fresh ==   \* memory when the machine starts
  /\ cache' = [b \in Blocks |-> Absent]
  /\ dirty' = {}
  /\ n' = 0 /\ sector' = [k \in Index |-> NoBlock]
  /\ outstanding' = 0 /\ committing' = 0
  /\ pc' = [p \in Procs |-> "user"]
  /\ bp' = [p \in Procs |-> NoBlock]
  /\ i' = [p \in Procs |-> 0]
  /\ wrote' = [p \in Procs |-> {}]
  /\ asleep' = {}
  /\ tail' = 1

(* mkfs writes zeroes to every block. *)
Zeroes == CHOOSE v \in Vals : TRUE

Init ==
  /\ disk = [b \in Blocks |-> Zeroes]
  /\ dlog = [k \in Index |-> Zeroes]
  /\ head = <<>>
  /\ cache = [b \in Blocks |-> Absent]
  /\ dirty = {}
  /\ n = 0 /\ sector = [k \in Index |-> NoBlock]
  /\ outstanding = 0 /\ committing = 0
  /\ pc = [p \in Procs |-> "user"]
  /\ bp = [p \in Procs |-> NoBlock]
  /\ i = [p \in Procs |-> 0]
  /\ wrote = [p \in Procs |-> {}]
  /\ asleep = {}
  /\ tail = 1
  /\ up = FALSE
  /\ panicked = "no"
  /\ ops = 0 /\ crashes = 0

-----------------------------------------------------------------------------
Busy == {bp[p] : p \in Procs} \ {NoBlock}

(* bget finds the block in the cache or a buffer that is neither busy nor  *)
(* dirty to recycle. *)
HasBuffer(b) == cache[b] # Absent \/ Cardinality(dirty \cup Busy) < NBUF

(* A buffer that is neither busy nor dirty may be recycled for another     *)
(* block at any time. *)
Evict(b) ==
  /\ panicked = "no"
  /\ cache[b] # Absent /\ b \notin dirty \cup Busy
  /\ cache' = [cache EXCEPT ![b] = Absent]
  /\ UNCHANGED <<ondisk, dirty, lh, outstanding, committing, pc, op, asleep,
                 tail, up, panicked, bounds>>

Goto(p, from, to) ==
  /\ panicked = "no" /\ up
  /\ pc[p] = from
  /\ pc' = [pc EXCEPT ![p] = to]

Panic(p, at, msg) ==
  /\ Goto(p, at, at)
  /\ panicked' = msg
  /\ UNCHANGED <<ondisk, cache, dirty, lh, outstanding, committing, op,
                 asleep, tail, up, bounds>>

-----------------------------------------------------------------------------
(* A file system call begins. *)
Call(p) ==
  /\ ops < MaxOps
  /\ Goto(p, "user", "begin")
  /\ ops' = ops + 1
  /\ UNCHANGED <<ondisk, cache, dirty, lh, outstanding, committing, op,
                 asleep, tail, up, panicked, crashes>>

(* Mutant of MustWait: the new call itself is not counted. *)
MustWaitLess ==
  committing = 1 \/ n + outstanding * MAXOPBLOCKS > LOGSIZE

MustWait ==
  committing = 1 \/ n + (outstanding + 1) * MAXOPBLOCKS > LOGSIZE

(* begin_op: wait for the commit, or for log space, *)
BeginSleep(p) ==
  /\ panicked = "no" /\ up
  /\ pc[p] = "begin" /\ p \notin asleep
  /\ MustWait
  /\ asleep' = asleep \cup {p}
  /\ UNCHANGED <<ondisk, cache, dirty, lh, outstanding, committing, pc, op,
                 tail, up, panicked, bounds>>

(* or set it aside. *)
BeginOp(p) ==
  /\ p \notin asleep
  /\ ~MustWait
  /\ Goto(p, "begin", "op")
  /\ outstanding' = outstanding + 1
  /\ wrote' = [wrote EXCEPT ![p] = {}]
  /\ UNCHANGED <<ondisk, cache, dirty, lh, committing, bp, i, asleep, tail,
                 up, panicked, bounds>>

(* The call reads a block and modifies it in its buffer, which it keeps    *)
(* busy for log_write; bget panics if there is no buffer for the block. *)
Modify(p, b, v) ==
  /\ b \notin Busy
  /\ Cardinality(wrote[p] \cup {b}) <= OpBlocks
  /\ IF HasBuffer(b)
       THEN /\ Goto(p, "op", "logwrite")
            /\ cache' = [cache EXCEPT ![b] = v]
            /\ bp' = [bp EXCEPT ![p] = b]
            /\ wrote' = [wrote EXCEPT ![p] = @ \cup {b}]
            /\ UNCHANGED <<ondisk, dirty, lh, outstanding, committing, i,
                           asleep, tail, up, panicked, bounds>>
       ELSE Panic(p, "op", "bget: no buffers")

(* Where log_write finds the block in log.lh.sector, or else the end. *)
LogIndex(p) ==
  CHOOSE k \in 1..(n + 1) :
    /\ k = n + 1 \/ sector[k] = bp[p]
    /\ \A j \in 1..(k - 1) : sector[j] # bp[p]

(* log_write: the test for space and the scan for the block, *)
LogScan(p) ==
  /\ RacyLogWrite \/ \A q \in Procs : pc[q] \notin {"logstore", "logcount"}
  /\ IF n >= LOGSIZE \/ n >= LogBlocks - 1
       THEN Panic(p, "logwrite", "too big a transaction")
       ELSE /\ Goto(p, "logwrite", "logstore")
            /\ i' = [i EXCEPT ![p] = LogIndex(p)]
            /\ UNCHANGED <<ondisk, cache, dirty, lh, outstanding, committing,
                           bp, wrote, asleep, tail, up, panicked, bounds>>

(* its store, *)
LogStore(p) ==
  /\ Goto(p, "logstore", "logcount")
  /\ sector' = [sector EXCEPT ![i[p]] = bp[p]]
  /\ UNCHANGED <<ondisk, cache, dirty, n, outstanding, committing, op, asleep,
                 tail, up, panicked, bounds>>

(* Mutant of LogCount: a block is recorded only if the log was empty. *)
LogCountFirst(p) ==
  /\ Goto(p, "logcount", "op")
  /\ n' = IF i[p] = 1 THEN 1 ELSE n
  /\ dirty' = dirty \cup {bp[p]}
  /\ bp' = [bp EXCEPT ![p] = NoBlock]
  /\ UNCHANGED <<ondisk, cache, sector, outstanding, committing, i, wrote,
                 asleep, tail, up, panicked, bounds>>

(* the count and B_DIRTY, and the brelse that follows. *)
LogCount(p) ==
  /\ Goto(p, "logcount", "op")
  /\ n' = IF i[p] = n + 1 THEN n + 1 ELSE n
  /\ dirty' = dirty \cup {bp[p]}
  /\ bp' = [bp EXCEPT ![p] = NoBlock]
  /\ UNCHANGED <<ondisk, cache, sector, outstanding, committing, i, wrote,
                 asleep, tail, up, panicked, bounds>>

-----------------------------------------------------------------------------
(* end_op of a call that is not the last: log space may have become free. *)
EndOp(p) ==
  /\ outstanding > 1
  /\ Goto(p, "op", "user")
  /\ outstanding' = outstanding - 1
  /\ asleep' = {}
  /\ UNCHANGED <<ondisk, cache, dirty, lh, committing, op, tail, up, panicked,
                 bounds>>

(* end_op of the last one commits. *)
EndLast(p) ==
  /\ outstanding = 1
  /\ Goto(p, "op", IF n > 0 THEN "writelog" ELSE "done")
  /\ outstanding' = 0
  /\ committing' = 1
  /\ tail' = 1
  /\ UNCHANGED <<ondisk, cache, dirty, lh, op, asleep, up, panicked, bounds>>

(* write_log: one block, from the cache to the log. *)
WriteLog(p) ==
  /\ Goto(p, "writelog", IF tail = n THEN "commit" ELSE "writelog")
  /\ dlog' = [dlog EXCEPT ![tail] = cache[sector[tail]]]
  /\ tail' = tail + 1
  /\ UNCHANGED <<disk, head, cache, dirty, lh, outstanding, committing, op,
                 asleep, up, panicked, bounds>>

Header == [k \in 1..n |-> sector[k]]

(* Mutant of WriteHead: the header is not written before the blocks are    *)
(* installed. *)
WriteHeadLate(p) ==
  /\ Goto(p, "commit", "install")
  /\ tail' = 1
  /\ UNCHANGED <<ondisk, cache, dirty, lh, outstanding, committing, op,
                 asleep, up, panicked, bounds>>

(* write_head: the real commit. *)
WriteHead(p) ==
  /\ Goto(p, "commit", "install")
  /\ head' = Header
  /\ tail' = 1
  /\ UNCHANGED <<disk, dlog, cache, dirty, lh, outstanding, committing, op,
                 asleep, up, panicked, bounds>>

(* install_trans: one block, from the log to its home; bwrite cleans it. *)
Install ==
  /\ disk' = [disk EXCEPT ![sector[tail]] = dlog[tail]]
  /\ cache' = [cache EXCEPT ![sector[tail]] = dlog[tail]]
  /\ dirty' = dirty \ {sector[tail]}
  /\ tail' = tail + 1

InstallTrans(p) ==
  /\ Goto(p, "install", IF tail = n THEN "clear" ELSE "install")
  /\ Install
  /\ UNCHANGED <<dlog, head, lh, outstanding, committing, op, asleep, up,
                 panicked, bounds>>

(* log.lh.n = 0 and write_head: the transaction leaves the log. *)
Clear ==
  /\ n' = 0 /\ sector' = [k \in Index |-> NoBlock]
  /\ head' = <<>>

ClearLog(p) ==
  /\ Goto(p, "clear", "done")
  /\ Clear
  /\ UNCHANGED <<disk, dlog, cache, dirty, outstanding, committing, op, asleep,
                 tail, up, panicked, bounds>>

(* Mutant of CommitDone: nobody is woken. *)
CommitDoneQuiet(p) ==
  /\ Goto(p, "done", "user")
  /\ committing' = 0
  /\ UNCHANGED <<ondisk, cache, dirty, lh, outstanding, op, asleep, tail, up,
                 panicked, bounds>>

(* The rest of end_op. *)
CommitDone(p) ==
  /\ Goto(p, "done", "user")
  /\ committing' = 0
  /\ asleep' = {}
  /\ UNCHANGED <<ondisk, cache, dirty, lh, outstanding, op, tail, up, panicked,
                 bounds>>

-----------------------------------------------------------------------------
(* Power failure. *)
Crash ==
  /\ crashes < MaxCrashes
  /\ crashes' = crashes + 1
  /\ Fresh
  /\ up' = FALSE
  /\ panicked' = "no"
  /\ UNCHANGED <<ondisk, ops>>

(* initlog: read_head, *)
ReadHead ==
  /\ ~up /\ n = 0 /\ head # <<>>
  /\ n' = Len(head)
  /\ sector' = [k \in Index |-> IF k <= Len(head) THEN head[k] ELSE NoBlock]
  /\ tail' = 1
  /\ UNCHANGED <<ondisk, cache, dirty, outstanding, committing, pc, op, asleep,
                 up, panicked, bounds>>

(* install_trans, *)
RecoverInstall ==
  /\ ~up /\ n > 0 /\ tail <= n
  /\ Install
  /\ UNCHANGED <<dlog, head, lh, outstanding, committing, pc, op, asleep, up,
                 panicked, bounds>>

(* and write_head; then system calls run. *)
RecoverClear ==
  /\ ~up /\ (n = 0 => head = <<>>) /\ (n > 0 => tail > n)
  /\ Clear
  /\ up' = TRUE
  /\ UNCHANGED <<disk, dlog, cache, dirty, outstanding, committing, pc, op,
                 asleep, tail, panicked, bounds>>

CallStep(p) ==
  \/ BeginSleep(p) \/ BeginOp(p)
  \/ LogScan(p) \/ LogStore(p) \/ LogCount(p)
  \/ EndOp(p) \/ EndLast(p)

CommitStep(p) ==
  \/ WriteLog(p) \/ WriteHead(p) \/ InstallTrans(p) \/ ClearLog(p)
  \/ CommitDone(p)

Recover == ReadHead \/ RecoverInstall \/ RecoverClear

Next ==
  \/ \E p \in Procs : Call(p) \/ CallStep(p) \/ CommitStep(p)
  \/ \E p \in Procs, b \in Blocks, v \in Vals : Modify(p, b, v)
  \/ \E b \in Blocks : Evict(b)
  \/ Recover
  \/ Crash

(* The scheduler runs every proc that is not asleep, and a system call     *)
(* does not write for ever. *)
Fairness ==
  /\ \A p \in Procs :
       /\ WF_vars(CallStep(p)) /\ WF_vars(CommitStep(p))
       /\ SF_vars(EndOp(p) \/ EndLast(p))
  /\ WF_vars(Recover)

Spec == Init /\ [][Next]_vars
FairSpec == Spec /\ Fairness

-----------------------------------------------------------------------------
(* The disk as recovery would leave it: the header decides whether the     *)
(* blocks of the log count. *)
Durable ==
  [b \in Blocks |->
     IF \E k \in 1..Len(head) : head[k] = b
       THEN dlog[CHOOSE k \in 1..Len(head) : head[k] = b]
       ELSE disk[b]]

(* The contents of the file system as system calls see them. *)
View ==
  IF up THEN [b \in Blocks |-> IF cache[b] = Absent THEN disk[b] ELSE cache[b]]
        ELSE Durable

InOp == {"op", "logwrite", "logstore", "logcount"}

(* The log makes system calls atomic across crashes: at any moment the     *)
(* disk, after recovery, holds the effects of all the calls up to some     *)
(* commit and of no later one, and the running kernel sees its own writes. *)
Atomic == INSTANCE AtomicDisk WITH
  durable <- Durable, view <- View,
  open <- {p \in Procs : pc[p] \in InOp}

ImplementsAtomicDisk == Atomic!Spec

(* Once log_write has returned, the block is recorded in log.lh and pinned *)
(* in the cache until its transaction has been installed (log.c:201-203). *)
Recorded ==
  up => \A b \in dirty : \E k \in 1..n : sector[k] = b

(* The space begin_op sets aside is enough: no call finds the log full     *)
(* (log.c:215). *)
LogNeverFull == panicked # "too big a transaction"

(* Every call that enters begin_op gets its log space in the end, unless   *)
(* the machine stops first. *)
BeginReturns ==
  \A p \in Procs :
    pc[p] = "begin" ~> (pc[p] # "begin" \/ panicked # "no")
=============================================================================
