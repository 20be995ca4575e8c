-------------------------- MODULE LogRecoverProofs --------------------------
(***************************************************************************)
(* The second half of a transaction in Log: the blocks move to their homes *)
(* (install_trans), the header is cleared, and a crash and the recovery in *)
(* initlog at any point.  Each step keeps LogInv of LogProofs and is a     *)
(* step of AtomicDisk or stutters.                                         *)
(***************************************************************************)
EXTENDS LogProofs

(* One block of install_trans, in a commit or in recovery. *)
LEMMA InstallStore ==
  ASSUME LogInv, Install, UNCHANGED <<dlog, n, sector>>, n > 0, tail \in 1..n,
         Installing \/ ~up
  PROVE  /\ n \in Nat /\ tail' = tail + 1 /\ tail \in Index
         /\ disk' \in [Blocks -> Vals] /\ cache' \in [Blocks -> Vals \cup {Absent}]
         /\ dirty' = dirty \ {sector[tail]}
         /\ \A k \in 1..n : sector[k] \in Blocks
         /\ \A k \in 1..tail : disk'[sector[k]] = dlog[k]
         /\ \A k \in (tail + 1)..n : /\ sector[k] # sector[tail]
                                     /\ cache'[sector[k]] = cache[sector[k]]
         /\ cache'[sector[tail]] = disk'[sector[tail]]
         /\ \A c \in Blocks \ {sector[tail]} : disk'[c] = disk[c] /\ cache'[c] = cache[c]
<1> USE DEF LogInv
<1>1. n \in Nat /\ tail \in Index /\ dlog[tail] \in Vals
  BY Consts DEF TypeInv, Index
<1>2. /\ \A k \in 1..n : sector[k] \in Blocks
      /\ \A k \in 1..n \ {tail} : sector[k] # sector[tail]
  BY DEF SectorInv
<1>3. /\ disk' = [disk EXCEPT ![sector[tail]] = dlog[tail]]
      /\ cache' = [cache EXCEPT ![sector[tail]] = dlog[tail]]
      /\ dirty' = dirty \ {sector[tail]} /\ tail' = tail + 1
  BY DEF Install
<1>4. disk' \in [Blocks -> Vals] /\ cache' \in [Blocks -> Vals \cup {Absent}]
  BY <1>1, <1>3 DEF TypeInv
<1>5. /\ disk'[sector[tail]] = dlog[tail] /\ cache'[sector[tail]] = dlog[tail]
      /\ \A c \in Blocks \ {sector[tail]} : disk'[c] = disk[c] /\ cache'[c] = cache[c]
  BY <1>2, <1>3 DEF TypeInv
<1>6. \A k \in 1..(tail - 1) : disk[sector[k]] = dlog[k]
  BY DEF CommitInv
<1>7. \A k \in 1..tail : disk'[sector[k]] = dlog[k]
  <2>1. \A k \in 1..(tail - 1) : disk'[sector[k]] = dlog[k]
    BY <1>1, <1>2, <1>5, <1>6
  <2>2. \A k \in 1..tail : k = tail \/ k \in 1..(tail - 1)
    BY <1>1
  <2> QED BY <1>5, <2>1, <2>2
<1>8. \A k \in (tail + 1)..n : /\ sector[k] # sector[tail]
                               /\ cache'[sector[k]] = cache[sector[k]]
  <2>1. \A k \in (tail + 1)..n : k \in 1..n \ {tail}
    BY <1>1
  <2> QED BY <1>2, <1>5, <2>1
<1> QED BY <1>1, <1>2, <1>3, <1>4, <1>5, <1>7, <1>8

(* A step of install_trans of a commit. *)
LEMMA InstallInv ==
  ASSUME LogInv, NEW p \in Procs, InstallTrans(p)
  PROVE  LogInv' /\ Same /\ AtomicStep
<1> USE DEF LogInv
<1> DEFINE l == IF tail = n THEN "clear" ELSE "install"
<1>1. /\ UNCHANGED <<dlog, head, n, sector, outstanding, committing, bp, i, wrote, up>>
      /\ up /\ pc[p] = "install" /\ pc' = [pc EXCEPT ![p] = l] /\ Install
  BY DEF InstallTrans, Goto, lh, op
<1>2. pc[p] \in Commit /\ l \in Commit /\ l \in {"install", "clear"}
  BY <1>1 DEF Commit
<1>3. PhaseInv' /\ BusyInv' /\ pc' \in [Procs -> Labels] /\ Committing(p)' /\ pc'[p] = l
  BY <1>1, <1>2, CommitKeeps
<1>4. Committing(p)
  BY <1>1, <1>2, Committer
<1>5. Installing /\ Installing' /\ Open = {} /\ Open' = {} /\ Busy = {} /\ Busy' = {}
  BY <1>1, <1>2, <1>3, <1>4 DEF Committing
<1>6. tail \in 1..n /\ n > 0 /\ \A k \in tail..n : dlog[k] = cache[sector[k]]
  BY <1>1 DEF CommitInv, TypeInv
<1>7. /\ n \in Nat /\ tail' = tail + 1 /\ tail \in Index
      /\ disk' \in [Blocks -> Vals] /\ cache' \in [Blocks -> Vals \cup {Absent}]
      /\ dirty' = dirty \ {sector[tail]}
      /\ \A k \in 1..n : sector[k] \in Blocks
      /\ \A k \in 1..tail : disk'[sector[k]] = dlog[k]
      /\ \A k \in (tail + 1)..n : /\ sector[k] # sector[tail]
                                  /\ cache'[sector[k]] = cache[sector[k]]
      /\ cache'[sector[tail]] = disk'[sector[tail]]
      /\ \A c \in Blocks \ {sector[tail]} : disk'[c] = disk[c] /\ cache'[c] = cache[c]
  BY <1>1, <1>5, <1>6, InstallStore
<1>8. TypeInv'
  BY <1>1, <1>3, <1>7 DEF TypeInv
<1>9. SectorInv'
  BY <1>1, <1>5, Closed
<1>10. CacheInv'
  <2>1. dirty = {sector[k] : k \in tail..n} /\ dirty \subseteq Blocks
    BY <1>1, <1>5 DEF CacheInv, From, TypeInv
  <2>2. dirty' = {sector[k] : k \in (tail + 1)..n}
    BY <1>6, <1>7, <2>1
  <2>3. dirty' = {sector'[k] : k \in From'..n'}
    BY <1>1, <1>5, <1>7, <2>2 DEF From
  <2>4. \A c \in dirty' : cache'[c] # Absent
    BY <1>7, <2>1 DEF CacheInv
  <2>5. \A c \in Blocks : c \notin dirty' => cache'[c] \in {Absent, disk'[c]}
    BY <1>5, <1>7 DEF CacheInv
  <2> QED BY <1>1, <1>5, <2>3, <2>4, <2>5 DEF CacheInv
<1>11. HeadInv'
  <2>1. Header' = Header
    BY <1>1 DEF Header
  <2> QED BY <1>1, <1>5, <2>1 DEF HeadInv
<1>12. CommitInv'
  <2>1. tail' \in 1..(n + 1) /\ (l = "install" => tail' \in 1..n) /\ (l = "clear" => tail' = n + 1)
    BY <1>6, <1>7
  <2>2. /\ \A k \in 1..(tail' - 1) : disk'[sector[k]] = dlog[k]
        /\ \A k \in tail'..n : dlog[k] = cache'[sector[k]]
    BY <1>6, <1>7
  <2>3. \A q \in Procs : pc'[q] \in Commit => q = p /\ pc'[q] = l
    BY <1>3 DEF Committing
  <2>4. committing' # 0
    BY <1>3 DEF Committing
  <2>5. UNCHANGED <<dlog, n, sector>> /\ n > 0
    BY <1>1, <1>6
  <2>6. \A q \in Procs : pc'[q] \in Commit => pc'[q] \in {"install", "clear"}
    BY <1>2, <2>3
  <2>7. \A q \in Procs :
          /\ pc'[q] \notin {"writelog", "commit", "done"}
          /\ pc'[q] = "install" => tail' \in 1..n
          /\ pc'[q] = "clear" => tail' = n + 1
    BY <2>1, <2>3, <2>6 DEF Commit
  <2>8. /\ tail' \in 1..(n' + 1)
        /\ \A k \in 1..(tail' - 1) : disk'[sector'[k]] = dlog'[k]
    BY <2>1, <2>2, <2>5
  <2>9. \A q \in Procs :
          /\ pc'[q] = "install" =>
               tail' \in 1..n' /\ \A k \in tail'..n' : dlog'[k] = cache'[sector'[k]]
          /\ pc'[q] = "clear" => n' > 0 /\ tail' = n' + 1
    BY <2>2, <2>5, <2>7
  <2> HIDE DEF LogInv
  <2> QED BY <2>4, <2>7, <2>8, <2>9, Zenon DEF CommitInv
<1>13. AtomicStep
  <2>1. head = Header /\ Len(head) = n /\ head[tail] = sector[tail]
    BY <1>5, <1>6, HeaderIs DEF HeadInv
  <2>2. Durable' = Durable
    BY <1>1, <1>6, <1>7, <1>8, <2>1, DurableUnderHead
  <2>3. dlog[tail] = cache[sector[tail]] /\ cache[sector[tail]] # Absent
    <3>1. dlog[tail] \in Vals
      BY <1>7 DEF TypeInv
    <3> QED BY <1>6, <3>1, Consts DEF Absent
  <2>4. \A c \in Blocks : cache'[c] = cache[c] /\ (cache[c] = Absent => disk'[c] = disk[c])
    BY <1>6, <1>7, <2>3
  <2>5. View' = View
    BY <1>1, <2>4 DEF View
  <2> QED BY <1>5, <2>2, <2>5, Stutter
<1> QED BY <1>1, <1>3, <1>5, <1>8, <1>9, <1>10, <1>11, <1>12, <1>13 DEF Same

(* The transaction leaves the log. *)
LEMMA ClearInv ==
  ASSUME LogInv, NEW p \in Procs, ClearLog(p)
  PROVE  LogInv' /\ Same /\ AtomicStep
<1> USE DEF LogInv
<1>1. /\ UNCHANGED <<disk, dlog, cache, dirty, outstanding, committing, bp, i, wrote, tail, up>>
      /\ up /\ pc[p] = "clear" /\ pc' = [pc EXCEPT ![p] = "done"]
      /\ n' = 0 /\ sector' = [k \in Index |-> NoBlock] /\ head' = <<>>
  BY DEF ClearLog, Clear, Goto, op
<1>2. pc[p] \in Commit /\ "done" \in Commit
  BY <1>1 DEF Commit
<1>3. PhaseInv' /\ BusyInv' /\ pc' \in [Procs -> Labels] /\ Committing(p)' /\ pc'[p] = "done"
  BY <1>1, <1>2, CommitKeeps
<1>4. Committing(p)
  BY <1>1, <1>2, Committer
<1>5. Installing /\ ~Installing' /\ Open = {} /\ Open' = {} /\ Busy = {} /\ Busy' = {} /\ From' = 1
  BY <1>1, <1>3, <1>4 DEF Committing, From
<1>6. tail = n + 1 /\ n > 0 /\ n \in Nat
  BY <1>1 DEF CommitInv, TypeInv
<1>7. TypeInv'
  BY <1>1, <1>3, Consts DEF TypeInv
<1>8. SectorInv'
  BY <1>1, <1>5, Closed
<1>9. CacheInv'
  <2>1. dirty = {}
    BY <1>1, <1>5, <1>6 DEF CacheInv, From
  <2>2. dirty' = {} /\ UNCHANGED <<disk, cache>> /\ {sector'[k] : k \in 1..n'} = {}
    BY <1>1, <2>1
  <2> QED BY <1>5, <2>1, <2>2 DEF CacheInv
<1>10. HeadInv'
  BY <1>1, <1>5, Consts DEF HeadInv
<1>11. CommitInv'
  <2>1. \A q \in Procs : pc'[q] \in Commit => pc'[q] = "done"
    BY <1>3 DEF Committing
  <2>2. committing' = 1 /\ up'
    BY <1>3 DEF Committing
  <2> QED BY <1>1, <1>5, <2>1, <2>2 DEF CommitInv, Commit
<1>12. AtomicStep
  <2>1. head = Header /\ \A k \in 1..n : disk[sector[k]] = dlog[k]
    BY <1>5, <1>6 DEF HeadInv, CommitInv
  <2>2. Durable = disk
    BY <2>1, DurableInstalled
  <2>3. Durable' = disk'
    BY <1>1 DEF Durable, TypeInv
  <2>4. View' = View
    BY <1>1 DEF View
  <2> QED BY <1>1, <1>5, <2>2, <2>3, <2>4, Stutter
<1> QED BY <1>1, <1>3, <1>5, <1>7, <1>8, <1>9, <1>10, <1>11, <1>12 DEF Same

(* The end of the commit. *)
LEMMA DoneInv ==
  ASSUME LogInv, NEW p \in Procs, CommitDone(p)
  PROVE  LogInv' /\ Same /\ AtomicStep
<1> USE DEF LogInv
<1>1. /\ UNCHANGED <<disk, dlog, head, cache, dirty, n, sector, outstanding, bp, i, wrote, tail, up>>
      /\ up /\ pc[p] = "done" /\ pc' = [pc EXCEPT ![p] = "user"] /\ committing' = 0
  BY DEF CommitDone, Goto, ondisk, lh, op
<1>2. pc[p] \in Commit /\ n = 0
  BY <1>1 DEF Commit, CommitInv
<1>3. /\ pc'[p] = "user" /\ pc' \in [Procs -> Labels]
      /\ \A q \in Procs \ {p} : pc'[q] = pc[q]
  BY <1>1 DEF TypeInv, Labels
<1>4. Committing(p)
  BY <1>2, Committer
<1>5. \A q \in Procs : pc'[q] \notin Commit
  BY <1>3, <1>4 DEF Committing, Commit
<1>6. ~Installing /\ ~Installing' /\ Open = {} /\ Open' = {} /\ Busy = {}
  BY <1>1, <1>3, <1>4, <1>5 DEF Committing, Installing, Open, Commit, InOp
<1>7. TypeInv'
  BY <1>1, <1>3 DEF TypeInv
<1>8. PhaseInv'
  BY <1>1, <1>5, <1>6 DEF PhaseInv
<1>9. BusyInv' /\ SectorInv'
  BY <1>1, <1>6, Closed
<1>10. CacheInv' /\ HeadInv'
  BY <1>1, <1>6 DEF CacheInv, HeadInv, From, Busy
<1>11. CommitInv'
  BY <1>1, <1>2, <1>5, <1>6 DEF CommitInv, Commit
<1>12. AtomicStep
  BY <1>1, <1>6, SameStore, Stutter
<1> QED BY <1>1, <1>6, <1>7, <1>8, <1>9, <1>10, <1>11, <1>12 DEF Same

(* A buffer that is neither busy nor dirty is recycled. *)
LEMMA EvictInv ==
  ASSUME LogInv, NEW b \in Blocks, Evict(b)
  PROVE  LogInv' /\ Same /\ AtomicStep
<1> USE DEF LogInv
<1>1. /\ UNCHANGED <<disk, dlog, head, dirty, n, sector, outstanding, committing,
                     pc, bp, i, wrote, tail, up>>
      /\ b \notin dirty \cup Busy /\ cache' = [cache EXCEPT ![b] = Absent]
  BY DEF Evict, ondisk, lh, op
<1>2. Installing' = Installing /\ Open' = Open /\ Busy' = Busy /\ From' = From
  BY <1>1 DEF Installing, Open, Busy, From
<1>3. cache'[b] = Absent /\ \A c \in Blocks \ {b} : cache'[c] = cache[c]
  BY <1>1 DEF TypeInv
<1>4. TypeInv' /\ PhaseInv' /\ SectorInv'
  BY <1>1, <1>2 DEF TypeInv, PhaseInv, SectorInv
<1>5. BusyInv'
  BY <1>1, <1>3 DEF BusyInv, Busy, TypeInv
<1>6. dirty \subseteq Blocks
  BY DEF TypeInv
<1>7. CacheInv'
  BY <1>1, <1>2, <1>3, <1>6 DEF CacheInv
<1>8. HeadInv'
  BY <1>1, <1>2 DEF HeadInv, Header
<1>9. CommitInv'
  <2>1. up => \A k \in From..n : cache'[sector[k]] = cache[sector[k]]
    BY <1>1, <1>3, <1>6 DEF CacheInv
  <2>2. ASSUME NEW q \in Procs
        PROVE  /\ pc[q] \in {"writelog", "commit"} => up /\ From = 1
               /\ pc[q] = "install" => up /\ From = tail
    BY Committer DEF Committing, From, Commit
  <2>3. \A q \in Procs :
          /\ pc[q] = "writelog" => \A k \in 1..(tail - 1) : dlog[k] = cache'[sector[k]]
          /\ pc[q] = "commit" => \A k \in 1..n : dlog[k] = cache'[sector[k]]
          /\ pc[q] = "install" => \A k \in tail..n : dlog[k] = cache'[sector[k]]
    BY <2>1, <2>2 DEF CommitInv, TypeInv
  <2> QED BY <1>1, <1>2, <2>3 DEF CommitInv
<1>10. AtomicStep
  <2>1. Durable' = Durable
    BY <1>1 DEF Durable
  <2>2. cache[b] \in {Absent, disk[b]}
    BY <1>1 DEF CacheInv
  <2>3. View' = View
    BY <1>1, <1>3, <2>1, <2>2 DEF View
  <2> QED BY <1>2, <2>1, <2>3, Stutter
<1> QED BY <1>1, <1>2, <1>4, <1>5, <1>7, <1>8, <1>9, <1>10 DEF Same

-----------------------------------------------------------------------------
(* Memory is as at the start after a crash, and the disk as it was. *)
LEMMA CrashInv ==
  ASSUME LogInv, Crash
  PROVE  LogInv' /\ Open' = {} /\ outstanding' = 0 /\ AtomicStep
<1> USE DEF LogInv
<1>1. /\ UNCHANGED <<disk, dlog, head>> /\ ~up' /\ up' \in BOOLEAN
      /\ dirty' = {} /\ n' = 0 /\ outstanding' = 0 /\ committing' = 0 /\ tail' = 1
      /\ cache' = [b \in Blocks |-> Absent] /\ sector' = [k \in Index |-> NoBlock]
      /\ pc' = [p \in Procs |-> "user"] /\ bp' = [p \in Procs |-> NoBlock]
      /\ i' = [p \in Procs |-> 0] /\ wrote' = [p \in Procs |-> {}]
  BY DEF Crash, Fresh, ondisk
<1>2. \A p \in Procs : pc'[p] = "user" /\ bp'[p] = NoBlock
  BY <1>1
<1>3. Open' = {} /\ ~Installing'
  BY <1>2 DEF Open, Installing, InOp
<1>4. TypeInv'
  BY <1>1, Consts DEF TypeInv, Labels
<1>5. PhaseInv' /\ BusyInv' /\ SectorInv'
  <2>1. n' = 0 /\ committing' = 0
    BY <1>1
  <2>2. PhaseInv' /\ BusyInv'
    BY <1>2, <1>3, <2>1 DEF PhaseInv, BusyInv, Writing, Commit
  <2>3. SectorInv'
    BY <1>2, <2>1 DEF SectorInv
  <2> QED BY <2>2, <2>3
<1>6. CacheInv' /\ HeadInv'
  BY <1>1, <1>3 DEF CacheInv, HeadInv
<1>7. CommitInv'
  <2>1. n' = 0 /\ ~up'
    BY <1>1
  <2> QED BY <1>2, <1>3, <2>1 DEF CommitInv
<1>8. AtomicStep
  <2>1. Durable' = Durable
    BY <1>1 DEF Durable
  <2>2. View' = Durable
    BY <1>1, <2>1 DEF View
  <2>3. Atomic!Crash
    BY <1>3, <2>1, <2>2 DEF Atomic!Crash, Open
  <2> QED BY <2>3 DEF AtomicStep, Atomic!Next
<1> QED BY <1>1, <1>3, <1>4, <1>5, <1>6, <1>7, <1>8

(* In initlog nobody else runs. *)
LEMMA Alone ==
  ASSUME LogInv, ~up, UNCHANGED <<pc, bp, committing>>
  PROVE  Booting /\ Open' = {} /\ ~Installing' /\ Busy' = {} /\ PhaseInv' /\ BusyInv'
<1> USE DEF LogInv
<1>1. committing = 0 /\ dirty = {} /\ \A p \in Procs : pc[p] = "user"
  BY DEF PhaseInv, CacheInv
<1>2. Busy = {}
  BY <1>1 DEF Busy, BusyInv, Writing
<1>3. Open = {} /\ Open' = {} /\ ~Installing /\ ~Installing'
  BY <1>1 DEF Open, Installing, InOp
<1>4. PhaseInv'
  BY <1>1, <1>3 DEF PhaseInv, Commit
<1> QED BY <1>1, <1>2, <1>3, <1>4, Closed DEF Booting

(* read_head. *)
LEMMA ReadHeadInv ==
  ASSUME LogInv, ReadHead
  PROVE  LogInv' /\ Same /\ AtomicStep
<1> USE DEF LogInv
<1>1. /\ UNCHANGED <<disk, dlog, head, cache, dirty, outstanding, committing, pc, bp, i, wrote, up>>
      /\ ~up /\ n' = Len(head) /\ tail' = 1
      /\ sector' = [k \in Index |-> IF k <= Len(head) THEN head[k] ELSE NoBlock]
  BY DEF ReadHead, ondisk, op
<1>2. Booting /\ Open' = {} /\ ~Installing' /\ Busy' = {} /\ PhaseInv' /\ BusyInv'
  BY <1>1, Alone
<1>3. /\ Len(head) \in 0..LOGSIZE /\ head = [k \in 1..Len(head) |-> head[k]]
      /\ \A k \in 1..Len(head) : head[k] \in Blocks
  BY Consts DEF TypeInv, HeadInv
<1>4. \A k \in 1..Len(head) : sector'[k] = head[k]
  BY <1>1, <1>3, Consts DEF Index
<1>5. TypeInv'
  <2>1. \A k \in Index : sector'[k] \in Blocks \cup {NoBlock}
    BY <1>1, <1>3, Consts DEF Index
  <2>2. sector' \in [Index -> Blocks \cup {NoBlock}] /\ n' \in 0..LOGSIZE
    BY <1>1, <1>3, <2>1
  <2> QED BY <1>1, <2>2 DEF TypeInv
<1>6. \A q \in Procs : pc'[q] = "user"
  BY <1>1, <1>2 DEF Booting
<1>7. SectorInv'
  BY <1>1, <1>3, <1>4, <1>6 DEF SectorInv, HeadInv
<1>8. CacheInv'
  BY <1>1 DEF CacheInv, Busy
<1>9. HeadInv'
  <2>1. Header' = head
    BY <1>1, <1>3, <1>4 DEF Header
  <2> QED BY <1>1, <1>2, <2>1 DEF HeadInv
<1>10. CommitInv'
  <2>1. \A m \in 0..LOGSIZE : 1 \in 1..(m + 1) /\ \A k \in 1..(1 - 1) : FALSE
    BY Consts
  <2>2. n' \in 0..LOGSIZE
    BY <1>1, <1>3
  <2> QED BY <1>1, <1>6, <2>1, <2>2, Zenon DEF CommitInv
<1>11. Same /\ AtomicStep
  BY <1>1, <1>2, SameStore, Stutter DEF Same, Booting
<1> QED BY <1>2, <1>5, <1>7, <1>8, <1>9, <1>10, <1>11

(* install_trans of recovery. *)
LEMMA RecoverInstallInv ==
  ASSUME LogInv, RecoverInstall
  PROVE  LogInv' /\ Same /\ AtomicStep
<1> USE DEF LogInv
<1>1. /\ UNCHANGED <<dlog, head, n, sector, outstanding, committing, pc, bp, i, wrote, up>>
      /\ ~up /\ n > 0 /\ tail <= n /\ Install
  BY DEF RecoverInstall, lh, op
<1>2. Booting /\ Open' = {} /\ ~Installing' /\ Busy' = {} /\ PhaseInv' /\ BusyInv'
  BY <1>1, Alone
<1>3. tail \in 1..n
  BY <1>1 DEF CommitInv, TypeInv
<1>4. /\ n \in Nat /\ tail' = tail + 1
      /\ disk' \in [Blocks -> Vals] /\ cache' \in [Blocks -> Vals \cup {Absent}]
      /\ dirty' = dirty \ {sector[tail]}
      /\ \A k \in 1..tail : disk'[sector[k]] = dlog[k]
      /\ cache'[sector[tail]] = disk'[sector[tail]]
      /\ \A c \in Blocks \ {sector[tail]} : disk'[c] = disk[c] /\ cache'[c] = cache[c]
  BY <1>1, <1>3, InstallStore
<1>5. dirty = {} /\ dirty' = {} /\ Busy = {} /\ Open = {} /\ \A q \in Procs : pc'[q] = "user"
  BY <1>1, <1>2, <1>4 DEF Booting
<1>6. TypeInv'
  BY <1>1, <1>3, <1>4, <1>5 DEF TypeInv
<1>7. SectorInv'
  BY <1>1, <1>2, <1>5, Closed
<1>8. CacheInv'
  BY <1>1, <1>2, <1>4, <1>5 DEF CacheInv
<1>9. HeadInv'
  <2>1. Header' = Header
    BY <1>1 DEF Header
  <2> QED BY <1>1, <1>2, <2>1 DEF HeadInv
<1>10. CommitInv'
  <2>1. tail' \in 1..(n + 1) /\ \A k \in 1..(tail' - 1) : disk'[sector[k]] = dlog[k]
    BY <1>3, <1>4
  <2> QED BY <1>1, <1>5, <2>1 DEF CommitInv
<1>11. AtomicStep
  <2>1. Len(head) = n /\ head[tail] = sector[tail]
    BY <1>1, <1>3, HeaderIs DEF HeadInv
  <2>2. Durable' = Durable
    BY <1>1, <1>3, <1>4, <1>6, <2>1, DurableUnderHead
  <2>3. View' = View
    BY <1>1, <2>2 DEF View
  <2> QED BY <1>2, <1>5, <2>2, <2>3, Stutter
<1> QED BY <1>1, <1>2, <1>5, <1>6, <1>7, <1>8, <1>9, <1>10, <1>11 DEF Same

(* The end of recovery. *)
LEMMA RecoverClearInv ==
  ASSUME LogInv, RecoverClear
  PROVE  LogInv' /\ Same /\ AtomicStep
<1> USE DEF LogInv
<1>1. /\ UNCHANGED <<disk, dlog, cache, dirty, outstanding, committing, pc, bp, i, wrote, tail>>
      /\ ~up /\ up' = TRUE /\ (n > 0 => tail > n) /\ (n = 0 => head = <<>>)
      /\ n' = 0 /\ sector' = [k \in Index |-> NoBlock] /\ head' = <<>>
  BY DEF RecoverClear, Clear, op
<1>2. Booting /\ Open' = {} /\ ~Installing' /\ Busy' = {} /\ PhaseInv' /\ BusyInv'
  BY <1>1, Alone
<1>3. /\ dirty = {} /\ Busy = {} /\ Open = {} /\ \A q \in Procs : pc'[q] = "user"
      /\ \A b \in Blocks : cache[b] \in {Absent, disk[b]}
  BY <1>1, <1>2 DEF Booting, CacheInv
<1>4. TypeInv'
  BY <1>1, Consts DEF TypeInv
<1>5. SectorInv'
  BY <1>1, <1>2, <1>3, Closed
<1>6. CacheInv'
  BY <1>1, <1>2, <1>3 DEF CacheInv, From
<1>7. HeadInv'
  BY <1>1, <1>2, Consts DEF HeadInv
<1>8. CommitInv'
  BY <1>1, <1>2, <1>3 DEF CommitInv
<1>9. AtomicStep
  <2>1. Durable = disk
    <3>1. CASE n = 0
      BY <1>1, <3>1, DurableNoHead
    <3>2. CASE n > 0
      <4>1. tail = n + 1 /\ head = Header /\ \A k \in 1..n : disk[sector[k]] = dlog[k]
        BY <1>1, <3>2 DEF HeadInv, CommitInv, TypeInv
      <4> QED BY <4>1, DurableInstalled
    <3>3. n = 0 \/ n > 0
      BY DEF TypeInv
    <3> QED BY <3>1, <3>2, <3>3
  <2>2. Durable' = disk
    BY <1>1 DEF Durable, TypeInv
  <2>3. View' = View
    BY <1>1, <1>3, <2>1 DEF View, TypeInv
  <2> QED BY <1>2, <1>3, <2>1, <2>2, <2>3, Stutter
<1> QED BY <1>1, <1>2, <1>3, <1>4, <1>5, <1>6, <1>7, <1>8, <1>9 DEF Same
====
