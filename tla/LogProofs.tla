----------------------------- MODULE LogProofs -----------------------------
(***************************************************************************)
(* Proofs about Log, for any number of procs, blocks, contents, calls and  *)
(* crashes and for any sizes, when one proc at a time is in log_write.     *)
(*                                                                         *)
(* The invariant LogInv says where a transaction is between begin_op and   *)
(* the clearing of the header, and after a crash.  This module holds the   *)
(* invariant and shows that the steps of the system calls, of write_log    *)
(* and of the commit itself (write_head) keep it and are steps of          *)
(* AtomicDisk or stutter.  LogRecoverProofs does the same for              *)
(* install_trans, crashes and recovery, and LogSpaceProofs has the count   *)
(* of the open calls, the log space and the theorems.                      *)
(***************************************************************************)
EXTENDS Log, TLAPS

(* Where a proc may be: in log_write, in the commit, between begin_op and  *)
(* end_op.  Installing: a commit is past its point of no return.           *)
Writing    == {"logwrite", "logstore", "logcount"}
Commit     == {"writelog", "commit", "install", "clear", "done"}
Labels     == {"user", "begin"} \cup InOp \cup Commit
Open       == {p \in Procs : pc[p] \in InOp}
Installing == \E p \in Procs : pc[p] \in {"install", "clear"}

(* The types. *)
TypeInv ==
  /\ disk \in [Blocks -> Vals]
  /\ dlog \in [Index -> Vals]
  /\ head \in Seq(Blocks)
  /\ cache \in [Blocks -> Vals \cup {Absent}]
  /\ dirty \in SUBSET Blocks
  /\ n \in 0..LOGSIZE
  /\ sector \in [Index -> Blocks \cup {NoBlock}]
  /\ outstanding \in Nat /\ committing \in {0, 1}
  /\ pc \in [Procs -> Labels]
  /\ bp \in [Procs -> Blocks \cup {NoBlock}]
  /\ i \in [Procs -> Nat]
  /\ wrote \in [Procs -> SUBSET Blocks]
  /\ tail \in Nat
  /\ up \in BOOLEAN

(* log.outstanding is the number of calls between begin_op and end_op,     *)
CountInv == outstanding = Cardinality(Open)

(* of which the steps only need to tell none, one and more apart. *)
Counted ==
  /\ outstanding = 1 => \A p, q \in Open : p = q
  /\ outstanding > 1 => \E p, q \in Open : p # q

(* One proc commits, while no call is open; none of this after a crash. *)
PhaseInv ==
  /\ \A p \in Procs : pc[p] \in Commit => committing = 1
  /\ \A p, q \in Procs : pc[p] \in Commit /\ pc[q] \in Commit => p = q
  /\ committing = 1 => Open = {}
  /\ ~up => committing = 0 /\ \A p \in Procs : pc[p] = "user"

(* A proc holds a buffer from its change to the end of log_write, alone. *)
BusyInv ==
  /\ \A p \in Procs : bp[p] # NoBlock <=> pc[p] \in Writing
  /\ \A p, q \in Procs : bp[p] = bp[q] /\ bp[p] # NoBlock => p = q
  /\ \A p \in Procs : bp[p] # NoBlock => cache[bp[p]] # Absent

(* log.lh names each block once, and the index log_write has found stays   *)
(* the right one until it has counted the block. *)
SectorInv ==
  /\ \A k \in 1..n : sector[k] \in Blocks
  /\ \A k, j \in 1..n : sector[k] = sector[j] => k = j
  /\ \A p, q \in Procs :
       pc[p] \in {"logstore", "logcount"} /\ pc[q] \in {"logstore", "logcount"} => p = q
  /\ \A p \in Procs : pc[p] \in {"logstore", "logcount"} =>
       /\ i[p] \in 1..(n + 1) /\ i[p] <= LOGSIZE
       /\ i[p] <= n => sector[i[p]] = bp[p]
       /\ i[p] = n + 1 => \A k \in 1..n : sector[k] # bp[p]
       /\ pc[p] = "logcount" => sector[i[p]] = bp[p]

(* The blocks of the log from here on are not yet at home. *)
From == IF Installing THEN tail ELSE 1

(* B_DIRTY marks exactly the blocks of the transaction that are not at     *)
(* home, and they stay in the cache; every other buffer that nobody holds  *)
(* is what the disk has. *)
CacheInv ==
  /\ dirty = IF up THEN {sector[k] : k \in From..n} ELSE {}
  /\ \A b \in dirty : cache[b] # Absent
  /\ \A b \in Blocks : b \notin dirty \cup Busy => cache[b] \in {Absent, disk[b]}

(* The header on the disk is empty, except from the commit to the clear,   *)
(* when it is log.lh. *)
HeadInv ==
  /\ Len(head) <= LOGSIZE
  /\ \A k, j \in 1..Len(head) : head[k] = head[j] => k = j
  /\ up /\ ~Installing => head = <<>>
  /\ Installing \/ (~up /\ n > 0) => head = Header

(* How far the commit, or the recovery, has come: which log blocks are     *)
(* written and which of them are at home. *)
CommitInv ==
  /\ \A p \in Procs :
       /\ pc[p] = "writelog" => /\ tail \in 1..n
                                /\ \A k \in 1..(tail - 1) : dlog[k] = cache[sector[k]]
       /\ pc[p] = "commit" => n > 0 /\ \A k \in 1..n : dlog[k] = cache[sector[k]]
       /\ pc[p] = "install" => /\ tail \in 1..n
                               /\ \A k \in tail..n : dlog[k] = cache[sector[k]]
       /\ pc[p] = "clear" => n > 0 /\ tail = n + 1
       /\ pc[p] = "done" => n = 0
  /\ Installing \/ (~up /\ n > 0) =>
       /\ tail \in 1..(n + 1)
       /\ \A k \in 1..(tail - 1) : disk[sector[k]] = dlog[k]
  /\ up /\ committing = 0 /\ Open = {} => n = 0

(* The inductive invariant. *)
LogInv ==
  /\ TypeInv /\ PhaseInv /\ BusyInv /\ SectorInv /\ CacheInv /\ HeadInv
  /\ CommitInv

(* Procs in log_write whose block is not in the log yet. *)
Pending == {p \in Procs : bp[p] # NoBlock /\ \A k \in 1..n : sector[k] # bp[p]}

(* Blocks the open calls may still add to the log: s[1] its s[2]-th. *)
Reserved ==
  {s \in Open \X (1..OpBlocks) :
     \/ s[2] > Cardinality(wrote[s[1]])
     \/ s[1] \in Pending /\ s[2] = Cardinality(wrote[s[1]])}

(* What a call has written is in the log, or about to be, and there is     *)
(* room for all it may still write. *)
SpaceInv ==
  /\ \A p \in Open :
       /\ IsFiniteSet(wrote[p]) /\ Cardinality(wrote[p]) <= OpBlocks
       /\ bp[p] # NoBlock => bp[p] \in wrote[p]
       /\ \A b \in wrote[p] : b = bp[p] \/ \E k \in 1..n : sector[k] = b
  /\ Open # {} => n + Cardinality(Reserved) <= LOGSIZE - 2

-----------------------------------------------------------------------------
(* The steps of Next, with the panics of Modify and LogScan on their own. *)
ModifyOk(p, b, v) ==
  /\ Goto(p, "op", "logwrite")
  /\ b \notin Busy
  /\ Cardinality(wrote[p] \cup {b}) <= OpBlocks
  /\ cache' = [cache EXCEPT ![b] = v]
  /\ bp' = [bp EXCEPT ![p] = b]
  /\ wrote' = [wrote EXCEPT ![p] = @ \cup {b}]
  /\ UNCHANGED <<ondisk, dirty, lh, outstanding, committing, i,
                 asleep, tail, up, panicked, bounds>>

ScanOk(p) ==
  /\ Goto(p, "logwrite", "logstore")
  /\ \A q \in Procs : pc[q] \notin {"logstore", "logcount"}
  /\ n < LOGSIZE /\ n < LogBlocks - 1
  /\ i' = [i EXCEPT ![p] = LogIndex(p)]
  /\ UNCHANGED <<ondisk, cache, dirty, lh, outstanding, committing,
                 bp, wrote, asleep, tail, up, panicked, bounds>>

(* Steps that touch neither the disk, the cache nor the log. *)
Quiet ==
  /\ \/ pc' = pc
     \/ /\ up
        /\ \E p \in Procs : pc[p] = "user" /\ pc' = [pc EXCEPT ![p] = "begin"]
  /\ UNCHANGED <<disk, dlog, head, cache, dirty, n, sector, outstanding,
                 committing, bp, i, wrote, tail, up>>

(* A step while some call is, and stays, open. *)
OpenStep ==
  /\ up /\ up' /\ committing = 0 /\ committing' = 0
  /\ UNCHANGED <<disk, dlog, head>>
  /\ Open' # {}
  /\ \A q \in Procs : pc'[q] \in Commit => pc[q] \in Commit

(* A step of the calls that leaves the log space as it is. *)
Same ==
  /\ Open' = Open /\ outstanding' = outstanding
  /\ Open # {} => /\ UNCHANGED <<n, bp, wrote>>
                   /\ \A k \in 1..n : sector'[k] = sector[k]

(* p commits, alone. *)
Committing(p) ==
  /\ up /\ committing = 1
  /\ Open = {} /\ Busy = {}
  /\ \A q \in Procs : pc[q] \in Commit => q = p
  /\ Installing <=> pc[p] \in {"install", "clear"}

(* In initlog nobody else runs. *)
Booting ==
  /\ ~up /\ dirty = {} /\ Busy = {} /\ Open = {} /\ ~Installing
  /\ \A q \in Procs : pc[q] = "user"

(* A step of the abstract disk, or none. *)
AtomicStep == Atomic!Next \/ UNCHANGED Atomic!vars

(* What the assumptions say of the constants. *)
LEMMA Consts ==
  /\ 0 \notin Blocks /\ -1 \notin Vals
  /\ LOGSIZE \in Nat /\ LogBlocks \in Nat /\ MAXOPBLOCKS \in Nat /\ OpBlocks \in Nat
  /\ IsFiniteSet(Procs)
  /\ Zeroes \in Vals
BY LogAssumption DEF Zeroes

(* Where log_write finds the block, or else the end. *)
LEMMA LogIndexIs ==
  ASSUME n \in Nat, SectorInv, NEW p
  PROVE  /\ LogIndex(p) \in 1..(n + 1)
         /\ LogIndex(p) <= n => sector[LogIndex(p)] = bp[p]
         /\ LogIndex(p) = n + 1 => \A k \in 1..n : sector[k] # bp[p]
<1>1. \E k \in 1..(n + 1) :
        /\ k = n + 1 \/ sector[k] = bp[p]
        /\ \A j \in 1..(k - 1) : sector[j] # bp[p]
  <2>1. CASE \E k \in 1..n : sector[k] = bp[p]
    <3>1. PICK k \in 1..n : sector[k] = bp[p]
      BY <2>1
    <3>2. \A j \in 1..(k - 1) : sector[j] # bp[p]
      BY <3>1 DEF SectorInv
    <3> QED BY <3>1, <3>2
  <2>2. CASE \A k \in 1..n : sector[k] # bp[p]
    BY <2>2
  <2> QED BY <2>1, <2>2
<1> QED
  BY <1>1 DEF LogIndex

(* The steps of the log, with the panics among the quiet ones. *)
LEMMA Steps ==
  ASSUME ~RacyLogWrite, TypeInv, [Next]_vars
  PROVE  \/ Quiet
         \/ \E p \in Procs : \/ BeginOp(p) \/ ScanOk(p)
                             \/ LogStore(p) \/ LogCount(p) \/ EndOp(p) \/ EndLast(p)
                             \/ WriteLog(p) \/ WriteHead(p) \/ InstallTrans(p)
                             \/ ClearLog(p) \/ CommitDone(p)
         \/ \E p \in Procs, b \in Blocks, v \in Vals : ModifyOk(p, b, v)
         \/ \E b \in Blocks : Evict(b)
         \/ Crash \/ ReadHead \/ RecoverInstall \/ RecoverClear
<1>1. ASSUME NEW p \in Procs, NEW at, NEW msg, Panic(p, at, msg)
      PROVE  Quiet
  BY <1>1 DEF Panic, Goto, Quiet, ondisk, lh, op, TypeInv
<1>2. ASSUME NEW p \in Procs, NEW b \in Blocks, NEW v \in Vals, Modify(p, b, v)
      PROVE  ModifyOk(p, b, v) \/ Quiet
  BY <1>1, <1>2 DEF Modify, ModifyOk
<1>3. ASSUME NEW p \in Procs, LogScan(p)
      PROVE  ScanOk(p) \/ Quiet
  <2>1. CASE n >= LOGSIZE \/ n >= LogBlocks - 1
    BY <1>1, <1>3, <2>1 DEF LogScan
  <2>2. CASE ~(n >= LOGSIZE \/ n >= LogBlocks - 1)
    BY <1>3, <2>2, Consts DEF LogScan, ScanOk, TypeInv
  <2> QED BY <2>1, <2>2
<1>4. ASSUME NEW p \in Procs, Call(p) \/ BeginSleep(p)
      PROVE  Quiet
  BY <1>4 DEF Call, BeginSleep, Goto, Quiet, ondisk, lh, op
<1>5. CASE UNCHANGED vars
  BY <1>5 DEF vars, Quiet, ondisk, lh, op
<1> QED
  BY <1>2, <1>3, <1>4, <1>5 DEF Next, CallStep, CommitStep, Recover

-----------------------------------------------------------------------------
(* The header on disk is what log.lh holds. *)
LEMMA HeaderIs ==
  ASSUME LogInv
  PROVE  /\ Header \in Seq(Blocks) /\ Len(Header) = n
         /\ \A k \in 1..n : Header[k] = sector[k] /\ sector[k] \in Blocks
         /\ \A k, j \in 1..n : Header[k] = Header[j] => k = j
<1>1. n \in Nat /\ \A k \in 1..n : sector[k] \in Blocks
  BY DEF LogInv, TypeInv, SectorInv
<1>2. \A k \in 1..n : Header[k] = sector[k]
  BY <1>1 DEF Header
<1>3. Header \in Seq(Blocks) /\ Len(Header) = n
  BY <1>1 DEF Header
<1> QED BY <1>1, <1>2, <1>3 DEF LogInv, SectorInv

(* What recovery would find, block by block. *)
LEMMA DurableAt ==
  ASSUME TypeInv, HeadInv
  PROVE  /\ \A k \in 1..Len(head) : Durable[head[k]] = dlog[k]
         /\ \A b \in Blocks : (\A k \in 1..Len(head) : head[k] # b) => Durable[b] = disk[b]
         /\ Durable \in [Blocks -> Vals]
<1>1. Len(head) \in Nat /\ \A k \in 1..Len(head) : head[k] \in Blocks /\ k \in Index
  BY Consts DEF TypeInv, HeadInv, Index
<1>2. ASSUME NEW k \in 1..Len(head)
      PROVE  (CHOOSE j \in 1..Len(head) : head[j] = head[k]) = k
  BY <1>2 DEF HeadInv
<1>3. \A k \in 1..Len(head) : Durable[head[k]] = dlog[k]
  BY <1>1, <1>2 DEF Durable
<1>4. \A b \in Blocks : (\A k \in 1..Len(head) : head[k] # b) => Durable[b] = disk[b]
  BY DEF Durable
<1>5. \A b \in Blocks : Durable[b] \in Vals
  <2> SUFFICES ASSUME NEW b \in Blocks PROVE Durable[b] \in Vals
    OBVIOUS
  <2>1. CASE \E k \in 1..Len(head) : head[k] = b
    BY <1>1, <1>3, <2>1 DEF TypeInv
  <2>2. CASE \A k \in 1..Len(head) : head[k] # b
    BY <1>4, <2>2 DEF TypeInv
  <2> QED BY <2>1, <2>2
<1> QED BY <1>3, <1>4, <1>5 DEF Durable

(* With an empty header the disk is what recovery would leave. *)
LEMMA DurableNoHead ==
  ASSUME TypeInv, head = <<>>
  PROVE  Durable = disk
<1>1. \A b \in Blocks : Durable[b] = disk[b]
  BY DEF Durable
<1> QED BY <1>1 DEF Durable, TypeInv

(* With the header on the disk, what is at home under it does not matter. *)
LEMMA DurableUnderHead ==
  ASSUME TypeInv, TypeInv', HeadInv, UNCHANGED <<dlog, head>>,
         NEW j \in 1..Len(head),
         \A b \in Blocks \ {head[j]} : disk'[b] = disk[b]
  PROVE  Durable' = Durable
<1>1. \A b \in Blocks : Durable'[b] = Durable[b]
  BY DEF Durable
<1> QED BY <1>1 DEF Durable

(* Once every block of the log is at home, the log does not matter. *)
LEMMA DurableInstalled ==
  ASSUME LogInv, head = Header,
         \A k \in 1..n : disk[sector[k]] = dlog[k]
  PROVE  Durable = disk
<1> USE DEF LogInv
<1>1. Len(head) = n /\ \A k \in 1..n : head[k] = sector[k]
  BY HeaderIs
<1>2. ASSUME NEW b \in Blocks
      PROVE  Durable[b] = disk[b]
  <2>1. CASE \E k \in 1..n : head[k] = b
    BY <1>1, <2>1, DurableAt
  <2>2. CASE \A k \in 1..n : head[k] # b
    BY <1>1, <2>2, DurableAt
  <2> QED BY <2>1, <2>2
<1> QED BY <1>2 DEF Durable, TypeInv

(* Neither Durable nor View depends on anything but the disk and the cache. *)
LEMMA SameStore ==
  ASSUME UNCHANGED <<disk, dlog, head, cache, up>>
  PROVE  Durable' = Durable /\ View' = View
<1>1. Durable' = Durable
  BY DEF Durable
<1> QED BY <1>1 DEF View

(* The abstract disk stutters when they and the open calls stay the same. *)
LEMMA Stutter ==
  ASSUME Durable' = Durable, View' = View, Open' = Open
  PROVE  AtomicStep
BY DEF AtomicStep, Atomic!vars, Open

(* A step that the log does not notice. *)
LEMMA QuietInv ==
  ASSUME LogInv, Quiet
  PROVE  LogInv' /\ Same /\ AtomicStep
<1> USE DEF LogInv
<1>1. UNCHANGED <<disk, dlog, head, cache, dirty, n, sector, outstanding,
                  committing, bp, i, wrote, tail, up>>
  BY DEF Quiet
<1>2. /\ pc' \in [Procs -> Labels]
      /\ \A p \in Procs : pc'[p] = pc[p] \/ (pc[p] = "user" /\ pc'[p] = "begin")
      /\ ~up => pc' = pc
  BY DEF Quiet, TypeInv, Labels
<1>3. \A p \in Procs, l \in InOp \cup Commit : pc'[p] = l <=> pc[p] = l
  BY <1>2 DEF InOp, Commit
<1>4. Open' = Open /\ Installing' = Installing
  BY <1>3 DEF Open, Installing, InOp, Commit
<1>5. TypeInv'
  BY <1>1, <1>2 DEF TypeInv
<1>6. PhaseInv'
  BY <1>1, <1>2, <1>3, <1>4 DEF PhaseInv, InOp, Commit
<1>7. BusyInv' /\ SectorInv'
  BY <1>1, <1>3 DEF BusyInv, SectorInv, Writing, InOp
<1>8. CacheInv' /\ HeadInv'
  BY <1>1, <1>4 DEF CacheInv, HeadInv, From, Busy, Header
<1>9. CommitInv'
  BY <1>1, <1>3, <1>4 DEF CommitInv, Commit
<1>10. Same
  BY <1>1, <1>4 DEF Same
<1>11. AtomicStep
  BY <1>1, <1>4, SameStore, Stutter
<1> QED BY <1>5, <1>6, <1>7, <1>8, <1>9, <1>10, <1>11

-----------------------------------------------------------------------------
(* While calls are open nothing commits: three of the invariants have      *)
(* nothing to say. *)
LEMMA OpenKeeps ==
  ASSUME LogInv, OpenStep
  PROVE  PhaseInv' /\ HeadInv' /\ CommitInv' /\ From = 1 /\ From' = 1
<1> USE DEF LogInv
<1>1. \A q \in Procs : pc[q] \notin Commit /\ pc'[q] \notin Commit
  BY DEF OpenStep, PhaseInv
<1>2. ~Installing /\ ~Installing'
  BY <1>1 DEF Installing, Commit
<1>3. PhaseInv' /\ HeadInv'
  BY <1>1, <1>2 DEF OpenStep, PhaseInv, HeadInv
<1>4. CommitInv'
  BY <1>1, <1>2 DEF OpenStep, CommitInv, Commit
<1> QED BY <1>2, <1>3, <1>4 DEF From

(* begin_op, the scan of log_write and the end_op of a call that is not    *)
(* the last leave the cache and the header alone. *)
LEMMA BeginScanEndInv ==
  ASSUME LogInv, Counted, NEW p \in Procs, BeginOp(p) \/ ScanOk(p) \/ EndOp(p)
  PROVE  LogInv'
<1> USE DEF LogInv
<1>1. /\ UNCHANGED <<disk, dlog, head, cache, dirty, n, sector, bp, tail, up, committing>>
      /\ up /\ pc' = [pc EXCEPT ![p] = pc'[p]] /\ pc[p] \in {"begin", "op", "logwrite"}
  BY DEF BeginOp, ScanOk, EndOp, Goto, ondisk, lh, op, TypeInv
<1>2. /\ outstanding' \in Nat /\ wrote' \in [Procs -> SUBSET Blocks]
      /\ i' \in [Procs -> Nat] /\ pc' \in [Procs -> Labels]
  <2>1. CASE ScanOk(p)
    <3>1. LogIndex(p) \in Nat
      BY LogIndexIs DEF TypeInv
    <3> QED BY <2>1, <3>1 DEF ScanOk, Goto, TypeInv, Labels, InOp
  <2>2. CASE BeginOp(p)
    BY <2>2 DEF BeginOp, Goto, TypeInv, Labels, InOp
  <2>3. CASE EndOp(p)
    BY <2>3 DEF EndOp, Goto, op, TypeInv, Labels
  <2> QED BY <2>1, <2>2, <2>3
<1>3. pc[p] \in Writing <=> pc'[p] \in Writing
  BY DEF BeginOp, ScanOk, EndOp, Goto, Writing, TypeInv
<1>4. OpenStep
  <2>1. committing = 0
    BY DEF BeginOp, ScanOk, EndOp, Goto, MustWait, PhaseInv, Open, InOp, TypeInv
  <2>2. Open' # {}
    BY DEF BeginOp, ScanOk, EndOp, Goto, Counted, Open, InOp, TypeInv
  <2>3. pc'[p] \notin Commit
    BY DEF BeginOp, ScanOk, EndOp, Goto, Commit, TypeInv
  <2> QED BY <1>1, <1>2, <2>1, <2>2, <2>3 DEF OpenStep
<1>5. TypeInv'
  BY <1>1, <1>2 DEF TypeInv
<1>6. BusyInv'
  BY <1>1, <1>2, <1>3 DEF BusyInv
<1>7. SectorInv'
  <2>1. CASE ScanOk(p)
    <3>1. /\ LogIndex(p) \in 1..(n + 1)
          /\ LogIndex(p) <= n => sector[LogIndex(p)] = bp[p]
          /\ LogIndex(p) = n + 1 => \A k \in 1..n : sector[k] # bp[p]
      BY LogIndexIs DEF TypeInv
    <3>2. /\ i'[p] = LogIndex(p) /\ n < LOGSIZE /\ pc'[p] = "logstore"
          /\ \A q \in Procs : pc[q] \notin {"logstore", "logcount"}
      BY <2>1 DEF ScanOk, Goto, TypeInv
    <3>3. i'[p] <= LOGSIZE
      BY <3>1, <3>2, Consts DEF TypeInv
    <3> QED BY <1>1, <1>2, <3>1, <3>2, <3>3 DEF SectorInv
  <2>2. CASE BeginOp(p) \/ EndOp(p)
    <3>1. i' = i /\ pc'[p] \notin {"logstore", "logcount"}
      BY <2>2 DEF BeginOp, EndOp, Goto, op, TypeInv
    <3> QED BY <1>1, <1>2, <3>1 DEF SectorInv
  <2> QED BY <2>1, <2>2
<1>8. CacheInv'
  <2>1. From = 1 /\ From' = 1
    BY <1>4, OpenKeeps
  <2>2. Busy' = Busy
    BY <1>1 DEF Busy
  <2> HIDE DEF LogInv
  <2>3. CacheInv
    BY DEF LogInv
  <2> QED BY <1>1, <2>1, <2>2, <2>3 DEF CacheInv
<1> QED BY <1>4, <1>5, <1>6, <1>7, <1>8, OpenKeeps

(* begin_op opens the call. *)
LEMMA BeginStep ==
  ASSUME LogInv, NEW p \in Procs, BeginOp(p)
  PROVE  Open' = Open \cup {p} /\ p \notin Open /\ AtomicStep
<1>1. Open' = Open \cup {p} /\ p \notin Open
  BY DEF LogInv, BeginOp, Goto, Open, InOp, TypeInv
<1>2. Durable' = Durable /\ View' = View
  BY SameStore DEF BeginOp, Goto, ondisk
<1>3. Atomic!Begin(p)
  BY <1>1, <1>2 DEF Atomic!Begin, Open
<1> QED BY <1>1, <1>3 DEF AtomicStep, Atomic!Next

(* end_op closes the call. *)
LEMMA EndStep ==
  ASSUME LogInv, NEW p \in Procs, EndOp(p) \/ EndLast(p)
  PROVE  Open' = Open \ {p} /\ p \in Open /\ AtomicStep
<1>1. Open' = Open \ {p} /\ p \in Open
  BY DEF LogInv, EndOp, EndLast, Goto, Open, InOp, TypeInv
<1>2. Durable' = Durable /\ View' = View
  BY SameStore DEF EndOp, EndLast, Goto, ondisk
<1>3. Atomic!End(p)
  BY <1>1, <1>2 DEF Atomic!End, Open
<1> QED BY <1>1, <1>3 DEF AtomicStep, Atomic!Next

(* The scan of log_write changes none of it. *)
LEMMA ScanStep ==
  ASSUME LogInv, NEW p \in Procs, ScanOk(p)
  PROVE  Same /\ AtomicStep
<1>1. Open' = Open
  BY DEF LogInv, ScanOk, Goto, Open, InOp, TypeInv
<1>2. Durable' = Durable /\ View' = View
  BY SameStore DEF ScanOk, Goto, ondisk
<1> QED BY <1>1, <1>2, Stutter DEF ScanOk, Same, lh

(* A call writes to its buffer. *)
LEMMA ModifyInv ==
  ASSUME LogInv, NEW p \in Procs, NEW b \in Blocks, NEW v \in Vals, ModifyOk(p, b, v)
  PROVE  LogInv' /\ AtomicStep
<1> USE DEF LogInv
<1>1. /\ UNCHANGED <<disk, dlog, head, dirty, n, sector, outstanding, committing, i, tail, up>>
      /\ up /\ pc[p] = "op" /\ pc' = [pc EXCEPT ![p] = "logwrite"] /\ b \notin Busy
      /\ cache' = [cache EXCEPT ![b] = v] /\ bp' = [bp EXCEPT ![p] = b]
      /\ wrote' = [wrote EXCEPT ![p] = @ \cup {b}]
  BY DEF ModifyOk, Goto, ondisk, lh
<1>0. p \in Open /\ Open' = Open
  BY <1>1 DEF Open, InOp, TypeInv
<1>2. b # NoBlock /\ v # Absent
  BY Consts DEF NoBlock, Absent
<1>3. OpenStep
  BY <1>0, <1>1 DEF OpenStep, PhaseInv, TypeInv, Commit
<1>4. TypeInv'
  BY <1>1 DEF TypeInv, Labels, InOp
<1>5. BusyInv'
  <2>1. \A q \in Procs : bp[q] # b
    BY <1>1, <1>2 DEF Busy
  <2> QED BY <1>1, <1>2, <2>1 DEF BusyInv, Writing, TypeInv
<1>6. SectorInv'
  BY <1>1 DEF SectorInv, TypeInv
<1>7. CacheInv'
  <2>1. b \in Busy' /\ Busy \subseteq Busy'
    BY <1>1, <1>2 DEF Busy, BusyInv, Writing, TypeInv
  <2>2. cache'[b] # Absent /\ \A c \in Blocks \ {b} : cache'[c] = cache[c]
    BY <1>1, <1>2 DEF TypeInv
  <2>3. dirty \subseteq Blocks
    BY DEF TypeInv
  <2> QED BY <1>1, <1>3, <2>1, <2>2, <2>3, OpenKeeps DEF CacheInv
<1>8. AtomicStep
  <2>1. Durable' = Durable
    BY <1>1 DEF Durable
  <2>2. View' = [View EXCEPT ![b] = v]
    BY <1>1, <1>2 DEF View, TypeInv
  <2>3. Atomic!Write(p, b, v)
    BY <1>0, <2>1, <2>2 DEF Atomic!Write, Open
  <2> QED BY <2>3 DEF AtomicStep, Atomic!Next
<1> QED BY <1>3, <1>4, <1>5, <1>6, <1>7, <1>8, OpenKeeps

(* The store of log_write. *)
LEMMA StoreInv ==
  ASSUME LogInv, NEW p \in Procs, LogStore(p)
  PROVE  LogInv' /\ Same /\ AtomicStep
<1> USE DEF LogInv
<1>1. /\ UNCHANGED <<disk, dlog, head, cache, dirty, n, outstanding, committing,
                     bp, i, wrote, tail, up>>
      /\ up /\ pc[p] = "logstore" /\ pc' = [pc EXCEPT ![p] = "logcount"]
      /\ sector' = [sector EXCEPT ![i[p]] = bp[p]]
  BY DEF LogStore, Goto, ondisk, op
<1>2. Open' = Open /\ p \in Open
  BY <1>1 DEF Open, InOp, TypeInv
<1>3. OpenStep
  BY <1>1, <1>2 DEF OpenStep, PhaseInv, TypeInv, Commit
<1>4. /\ i[p] \in 1..(n + 1) /\ i[p] \in Index
      /\ i[p] <= n => sector[i[p]] = bp[p]
      /\ i[p] = n + 1 => \A k \in 1..n : sector[k] # bp[p]
      /\ \A q \in Procs \ {p} : pc[q] \notin {"logstore", "logcount"}
  BY <1>1, Consts DEF SectorInv, Index
<1>5. (\A k \in 1..n : sector'[k] = sector[k]) /\ sector'[i[p]] = bp[p]
  BY <1>1, <1>4, Consts DEF Index, TypeInv
<1>6. TypeInv'
  BY <1>1, <1>4 DEF TypeInv, Labels, InOp
<1>7. BusyInv'
  BY <1>1 DEF BusyInv, Writing, TypeInv
<1>8. SectorInv'
  <2>1. pc'[p] = "logcount" /\ \A q \in Procs \ {p} : pc'[q] = pc[q]
    BY <1>1 DEF TypeInv
  <2> QED BY <1>1, <1>4, <1>5, <2>1 DEF SectorInv, Index
<1>9. CacheInv'
  <2>1. {sector'[k] : k \in 1..n} = {sector[k] : k \in 1..n}
    BY <1>5
  <2> QED BY <1>1, <1>3, <2>1, OpenKeeps DEF CacheInv, Busy
<1>10. Same
  BY <1>1, <1>2, <1>5 DEF Same
<1>11. AtomicStep
  BY <1>1, <1>2, SameStore, Stutter
<1> QED BY <1>3, <1>6, <1>7, <1>8, <1>9, <1>10, <1>11, OpenKeeps

(* Its count; the block is dirty and its buffer released. *)
LEMMA LogCountInv ==
  ASSUME LogInv, NEW p \in Procs, LogCount(p)
  PROVE  LogInv' /\ Open' = Open /\ AtomicStep
<1> USE DEF LogInv
<1>1. /\ UNCHANGED <<disk, dlog, head, cache, sector, outstanding, committing, i, wrote, tail, up>>
      /\ up /\ pc[p] = "logcount" /\ pc' = [pc EXCEPT ![p] = "op"]
      /\ n' = IF i[p] = n + 1 THEN n + 1 ELSE n
      /\ dirty' = dirty \cup {bp[p]} /\ bp' = [bp EXCEPT ![p] = NoBlock]
  BY DEF LogCount, Goto, ondisk
<1>2. Open' = Open /\ p \in Open
  BY <1>1 DEF Open, InOp, TypeInv
<1>3. OpenStep
  BY <1>1, <1>2 DEF OpenStep, PhaseInv, TypeInv, Commit
<1>4. /\ i[p] \in 1..(n + 1) /\ i[p] <= LOGSIZE /\ sector[i[p]] = bp[p]
      /\ i[p] = n + 1 => \A k \in 1..n : sector[k] # bp[p]
      /\ \A q \in Procs \ {p} : pc[q] \notin {"logstore", "logcount"}
  BY <1>1 DEF SectorInv
<1>5. bp[p] \in Blocks /\ bp[p] # NoBlock /\ cache[bp[p]] # Absent /\ n \in Nat
  BY <1>1 DEF BusyInv, Writing, TypeInv
<1>6. TypeInv'
  BY <1>1, <1>4, <1>5, Consts DEF TypeInv, Labels, InOp
<1>7. BusyInv'
  BY <1>1 DEF BusyInv, Writing, TypeInv
<1>8. SectorInv'
  <2>1. \A q \in Procs : pc'[q] \notin {"logstore", "logcount"}
    BY <1>1, <1>4 DEF TypeInv
  <2> QED BY <1>1, <1>4, <1>5, <2>1 DEF SectorInv
<1>9. CacheInv'
  <2>1. From = 1 /\ From' = 1
    BY <1>3, OpenKeeps
  <2>2. dirty = {sector[k] : k \in 1..n}
    BY <1>1, <2>1 DEF CacheInv
  <2>3. dirty' = {sector'[k] : k \in 1..n'}
    BY <1>1, <1>4, <1>5, <2>2
  <2>4. \A c \in Busy : c = bp[p] \/ c \in Busy'
    BY <1>1 DEF Busy, TypeInv
  <2> QED BY <1>1, <1>5, <2>1, <2>3, <2>4 DEF CacheInv
<1>10. AtomicStep
  BY <1>1, <1>2, SameStore, Stutter
<1> QED BY <1>2, <1>3, <1>6, <1>7, <1>8, <1>9, <1>10, OpenKeeps

-----------------------------------------------------------------------------
(* With no open call no buffer is busy and log_write does not run. *)
LEMMA Closed ==
  ASSUME Open' = {}, bp' = bp, Busy = {}
  PROVE  /\ BusyInv' /\ Busy' = {}
         /\ SectorInv /\ UNCHANGED <<n, sector>> => SectorInv'
         /\ n' = 0 => SectorInv'
<1>1. \A q \in Procs : bp'[q] = NoBlock /\ pc'[q] \notin InOp
  BY DEF Open, Busy
<1>2. BusyInv' /\ Busy' = {}
  BY <1>1 DEF BusyInv, Busy, Writing, InOp
<1> QED BY <1>1, <1>2 DEF SectorInv, InOp

(* The proc that commits is alone. *)
LEMMA Committer ==
  ASSUME LogInv, NEW p \in Procs, pc[p] \in Commit
  PROVE  Committing(p)
<1> USE DEF LogInv
<1>1. up /\ committing = 1 /\ Open = {} /\ \A q \in Procs : pc[q] \in Commit => q = p
  BY DEF PhaseInv, Commit
<1>2. Busy = {}
  BY <1>1 DEF Busy, BusyInv, Open, InOp, Writing
<1> QED BY <1>1, <1>2 DEF Committing, Installing, Commit

(* A step of the commit that is not its end leaves its proc alone in it. *)
LEMMA CommitKeeps ==
  ASSUME LogInv, NEW p \in Procs, pc[p] \in Commit,
         NEW l \in Commit, pc' = [pc EXCEPT ![p] = l], UNCHANGED <<bp, committing, up>>
  PROVE  PhaseInv' /\ BusyInv' /\ pc' \in [Procs -> Labels] /\ Committing(p)' /\ pc'[p] = l
<1> USE DEF LogInv
<1>0. Committing(p)
  BY Committer
<1>1. /\ pc'[p] = l /\ l \notin InOp /\ pc' \in [Procs -> Labels]
      /\ \A q \in Procs \ {p} : pc'[q] = pc[q]
  BY DEF TypeInv, Labels, Commit, InOp
<1>2. Open' = {}
  BY <1>0, <1>1 DEF Committing, Open
<1>3. up' /\ committing' = 1 /\ \A q \in Procs : pc'[q] \in Commit => q = p
  BY <1>0, <1>1 DEF Committing
<1>4. Busy' = {} /\ BusyInv'
  BY <1>0, <1>2, Closed DEF Committing
<1>5. PhaseInv'
  BY <1>1, <1>2, <1>3 DEF PhaseInv
<1>6. Committing(p)'
  BY <1>1, <1>2, <1>3, <1>4 DEF Committing, Installing, Commit
<1> QED BY <1>1, <1>4, <1>5, <1>6

(* The last end_op. *)
LEMMA EndLastInv ==
  ASSUME LogInv, Counted, NEW p \in Procs, EndLast(p)
  PROVE  LogInv'
<1> USE DEF LogInv
<1> DEFINE l == IF n > 0 THEN "writelog" ELSE "done"
<1>1. /\ UNCHANGED <<disk, dlog, head, cache, dirty, n, sector, bp, i, wrote, up>>
      /\ up /\ pc[p] = "op" /\ pc' = [pc EXCEPT ![p] = l]
      /\ outstanding = 1 /\ outstanding' = 0 /\ committing' = 1 /\ tail' = 1
  BY DEF EndLast, Goto, ondisk, lh, op
<1>2. p \in Open /\ \A q \in Procs \ {p} : pc[q] \notin InOp
  BY <1>1 DEF Counted, Open, InOp
<1>3. \A q \in Procs : pc[q] \notin Commit
  BY <1>2 DEF PhaseInv, TypeInv
<1>4. /\ pc'[p] = l /\ l \in {"writelog", "done"} /\ pc' \in [Procs -> Labels]
      /\ \A q \in Procs \ {p} : pc'[q] = pc[q]
  BY <1>1 DEF TypeInv, Labels, Commit
<1>5. \A q \in Procs : pc'[q] \in Commit => q = p
  BY <1>3, <1>4
<1>6. Open' = {} /\ ~Installing /\ ~Installing'
  BY <1>2, <1>3, <1>4 DEF Open, Installing, InOp, Commit
<1>7. Busy = {}
  BY <1>1, <1>2 DEF Busy, BusyInv, Writing, InOp
<1>8. TypeInv'
  BY <1>1, <1>4 DEF TypeInv
<1>9. PhaseInv'
  BY <1>1, <1>5, <1>6 DEF PhaseInv
<1>10. BusyInv' /\ SectorInv'
  BY <1>1, <1>6, <1>7, Closed
<1>11. CacheInv' /\ HeadInv'
  BY <1>1, <1>6 DEF CacheInv, HeadInv, From, Busy
<1>12. CommitInv'
  <2>1. n \in Nat /\ n' = n /\ tail' = 1 /\ committing' # 0 /\ up'
    BY <1>1 DEF TypeInv
  <2>2. \A q \in Procs : /\ pc'[q] \notin {"commit", "install", "clear"}
                         /\ pc'[q] = "writelog" => n > 0
                         /\ pc'[q] = "done" => n = 0
    BY <1>4, <1>5, <2>1 DEF Commit
  <2> HIDE DEF LogInv, l
  <2> QED BY <1>6, <2>1, <2>2 DEF CommitInv
<1> QED BY <1>8, <1>9, <1>10, <1>11, <1>12

(* A step of write_log. *)
LEMMA WriteLogInv ==
  ASSUME LogInv, NEW p \in Procs, WriteLog(p)
  PROVE  LogInv' /\ Same /\ AtomicStep
<1> USE DEF LogInv
<1> DEFINE l == IF tail = n THEN "commit" ELSE "writelog"
<1>1. /\ UNCHANGED <<disk, head, cache, dirty, n, sector, outstanding, committing, bp, i, wrote, up>>
      /\ up /\ pc[p] = "writelog" /\ pc' = [pc EXCEPT ![p] = l]
      /\ dlog' = [dlog EXCEPT ![tail] = cache[sector[tail]]] /\ tail' = tail + 1
  BY DEF WriteLog, Goto, lh, op
<1>2. pc[p] \in Commit /\ l \in Commit
  BY <1>1 DEF Commit
<1>3. PhaseInv' /\ BusyInv' /\ pc' \in [Procs -> Labels] /\ Committing(p)' /\ pc'[p] = l
  BY <1>1, <1>2, CommitKeeps
<1>4. Committing(p)
  BY <1>1, <1>2, Committer
<1>5. ~Installing /\ ~Installing' /\ Open = {} /\ Open' = {} /\ Busy = {} /\ From = 1
  BY <1>1, <1>3, <1>4 DEF Committing, From
<1>6. /\ tail \in 1..n /\ n \in Nat /\ tail \in Index
      /\ \A k \in 1..(tail - 1) : dlog[k] = cache[sector[k]]
  BY <1>1, Consts DEF CommitInv, TypeInv, Index
<1>7. TypeInv'
  <2>1. cache[sector[tail]] \in Vals
    BY <1>1, <1>5, <1>6 DEF CacheInv, TypeInv
  <2>2. dlog' \in [Index -> Vals] /\ tail' \in Nat
    BY <1>1, <1>6, <2>1 DEF TypeInv
  <2> QED BY <1>1, <1>3, <2>2 DEF TypeInv
<1>8. SectorInv'
  BY <1>1, <1>5, Closed
<1>9. CacheInv'
  BY <1>1, <1>5 DEF CacheInv, From, Busy
<1>10. HeadInv'
  BY <1>1, <1>5 DEF HeadInv
<1>11. CommitInv'
  <2>1. \A k \in 1..tail : dlog'[k] = cache[sector[k]]
    BY <1>1, <1>6 DEF TypeInv, Index
  <2>2. \A q \in Procs : pc'[q] \in Commit => q = p /\ pc'[q] = l
    BY <1>3 DEF Committing
  <2>3. committing' = 1 /\ up'
    BY <1>3 DEF Committing
  <2> QED BY <1>1, <1>5, <1>6, <2>1, <2>2, <2>3 DEF CommitInv, Commit
<1>12. AtomicStep
  <2>1. head = <<>>
    BY <1>1, <1>5 DEF HeadInv
  <2>2. \A b \in Blocks : Durable'[b] = Durable[b]
    BY <1>1, <2>1 DEF Durable
  <2>3. Durable' = Durable
    BY <2>2 DEF Durable
  <2>4. View' = View
    BY <1>1 DEF View
  <2> QED BY <1>5, <2>3, <2>4, Stutter
<1> QED BY <1>1, <1>3, <1>5, <1>7, <1>8, <1>9, <1>10, <1>11, <1>12 DEF Same

(* The real commit: what the calls have written becomes durable. *)
LEMMA HeadCommits ==
  ASSUME LogInv, up, UNCHANGED <<disk, dlog, cache, n, sector, up>>, head' = Header,
         Busy = {}, From = 1, \A k \in 1..n : dlog[k] = cache[sector[k]]
  PROVE  Durable' = View /\ View' = View
<1> USE DEF LogInv
<1>1. Len(head') = n /\ \A k \in 1..n : head'[k] = sector[k]
  BY HeaderIs
<1>2. dirty = {sector[k] : k \in 1..n}
  BY DEF CacheInv
<1>3. ASSUME NEW b \in Blocks, NEW k \in 1..n, sector[k] = b
      PROVE  Durable'[b] = View[b]
  <2>1. \A j \in 1..n : sector[j] = b => j = k
    BY <1>3 DEF SectorInv
  <2>2. (CHOOSE j \in 1..Len(head') : head'[j] = b) = k
    BY <1>1, <1>3, <2>1
  <2>3. Durable'[b] = dlog[k]
    BY <1>1, <1>3, <2>2 DEF Durable
  <2>4. cache[b] # Absent
    BY <1>2, <1>3 DEF CacheInv
  <2> QED BY <1>3, <2>3, <2>4 DEF View
<1>4. ASSUME NEW b \in Blocks, \A k \in 1..n : sector[k] # b
      PROVE  Durable'[b] = View[b]
  <2>1. Durable'[b] = disk[b]
    BY <1>1, <1>4 DEF Durable
  <2>2. cache[b] \in {Absent, disk[b]}
    BY <1>2, <1>4 DEF CacheInv
  <2> QED BY <2>1, <2>2 DEF View
<1>5. \A b \in Blocks : Durable'[b] = View[b]
  BY <1>3, <1>4
<1> QED BY <1>5 DEF Durable, View

(* write_head, by which the transaction commits. *)
LEMMA WriteHeadInv ==
  ASSUME LogInv, NEW p \in Procs, WriteHead(p)
  PROVE  LogInv' /\ Same /\ AtomicStep
<1> USE DEF LogInv
<1>1. /\ UNCHANGED <<disk, dlog, cache, dirty, n, sector, outstanding, committing, bp, i, wrote, up>>
      /\ up /\ pc[p] = "commit" /\ pc' = [pc EXCEPT ![p] = "install"]
      /\ head' = Header /\ tail' = 1
  BY DEF WriteHead, Goto, lh, op
<1>2. pc[p] \in Commit /\ "install" \in Commit
  BY <1>1 DEF Commit
<1>3. PhaseInv' /\ BusyInv' /\ pc' \in [Procs -> Labels] /\ Committing(p)' /\ pc'[p] = "install"
  BY <1>1, <1>2, CommitKeeps
<1>4. Committing(p)
  BY <1>1, <1>2, Committer
<1>5. /\ ~Installing /\ Installing' /\ Open = {} /\ Open' = {} /\ Busy = {}
      /\ From = 1 /\ From' = 1
  BY <1>1, <1>3, <1>4 DEF Committing, From
<1>6. n > 0 /\ n \in Nat /\ \A k \in 1..n : dlog[k] = cache[sector[k]]
  BY <1>1 DEF CommitInv, TypeInv
<1>7. TypeInv'
  BY <1>1, <1>3, HeaderIs DEF TypeInv
<1>8. SectorInv'
  BY <1>1, <1>5, Closed
<1>9. CacheInv'
  BY <1>1, <1>5 DEF CacheInv, Busy
<1>10. HeadInv'
  <2>1. Header' = head' /\ up'
    BY <1>1 DEF Header
  <2>2. Len(head') <= LOGSIZE /\ \A k, j \in 1..Len(head') : head'[k] = head'[j] => k = j
    BY <1>1, HeaderIs DEF TypeInv
  <2> QED BY <1>5, <2>1, <2>2 DEF HeadInv
<1>11. CommitInv'
  <2>1. \A q \in Procs : pc'[q] \in Commit => q = p /\ pc'[q] = "install"
    BY <1>3 DEF Committing
  <2>2. committing' = 1 /\ up'
    BY <1>3 DEF Committing
  <2> QED BY <1>1, <1>6, <2>1, <2>2 DEF CommitInv, Commit
<1>12. AtomicStep
  <2>1. Durable' = View /\ View' = View
    BY <1>1, <1>5, <1>6, HeadCommits
  <2>2. Atomic!Commit
    BY <1>5, <2>1 DEF Atomic!Commit, Open
  <2> QED BY <2>2 DEF AtomicStep, Atomic!Next
<1> QED BY <1>1, <1>3, <1>5, <1>7, <1>8, <1>9, <1>10, <1>11, <1>12 DEF Same
====
