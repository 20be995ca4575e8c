--------------------------- MODULE LogSpaceProofs ---------------------------
(***************************************************************************)
(* The theorems about Log: what log_write has taken is recorded, the space *)
(* begin_op sets aside suffices, and the log makes system calls atomic     *)
(* across crashes.  They rest on LogInv, which LogProofs and               *)
(* LogRecoverProofs show step by step, and on two invariants that count:   *)
(* CountInv (log.outstanding is the number of open calls) and SpaceInv     *)
(* (what is in the log, and what the open calls may add to it, fits).      *)
(***************************************************************************)
EXTENDS LogRecoverProofs, FiniteSetTheorems


(* The start. *)
LEMMA InitInv == Init => LogInv
<1> SUFFICES ASSUME Init PROVE LogInv
  OBVIOUS
<1>1. TypeInv
  <2>1. /\ disk \in [Blocks -> Vals] /\ dlog \in [Index -> Vals] /\ head \in Seq(Blocks)
        /\ cache \in [Blocks -> Vals \cup {Absent}] /\ dirty \in SUBSET Blocks
        /\ sector \in [Index -> Blocks \cup {NoBlock}]
    BY Consts DEF Init
  <2>2. n \in 0..LOGSIZE /\ outstanding \in Nat /\ tail \in Nat /\ committing \in {0, 1}
    BY Consts DEF Init
  <2>3. /\ pc \in [Procs -> Labels] /\ bp \in [Procs -> Blocks \cup {NoBlock}]
        /\ i \in [Procs -> Nat] /\ wrote \in [Procs -> SUBSET Blocks] /\ up \in BOOLEAN
    BY DEF Init, Labels
  <2> QED BY <2>1, <2>2, <2>3 DEF TypeInv
<1>2. PhaseInv
  <2>1. Open = {}
    BY DEF Init, Open, InOp
  <2> QED BY <2>1 DEF Init, PhaseInv, Commit
<1>3. BusyInv /\ SectorInv
  BY DEF Init, BusyInv, SectorInv, Writing
<1>4. CacheInv /\ CommitInv
  BY DEF Init, CacheInv, CommitInv, Installing
<1>5. HeadInv
  BY Consts DEF Init, HeadInv, Installing
<1> QED BY <1>1, <1>2, <1>3, <1>4, <1>5 DEF LogInv

(* The invariant is inductive, given what the count says of the open       *)
(* calls. *)
LEMMA NextInv ==
  ASSUME ~RacyLogWrite, LogInv, Counted, [Next]_vars
  PROVE  LogInv'
<1>1. TypeInv
  BY DEF LogInv
<1> QED
  BY <1>1, Steps, QuietInv, BeginScanEndInv, ModifyInv, StoreInv, LogCountInv,
     EndLastInv, WriteLogInv, WriteHeadInv, InstallInv, ClearInv, DoneInv,
     EvictInv, CrashInv, ReadHeadInv, RecoverInstallInv, RecoverClearInv

(* Every step of the log is a step of the atomic disk, or none. *)
LEMMA NextAtomic ==
  ASSUME ~RacyLogWrite, LogInv, [Next]_vars
  PROVE  AtomicStep
<1>1. TypeInv
  BY DEF LogInv
<1> QED
  BY <1>1, Steps, QuietInv, BeginStep, ScanStep, EndStep, ModifyInv, StoreInv,
     LogCountInv, WriteLogInv, WriteHeadInv, InstallInv, ClearInv, DoneInv,
     EvictInv, CrashInv, ReadHeadInv, RecoverInstallInv, RecoverClearInv

(* What a step does to the calls that are open and to the log space. *)
LEMMA NextOpen ==
  ASSUME ~RacyLogWrite, LogInv, [Next]_vars
  PROVE  \/ Same
         \/ \E p \in Procs : BeginOp(p) \/ EndOp(p) \/ EndLast(p) \/ LogCount(p)
         \/ \E p \in Procs, b \in Blocks, v \in Vals : ModifyOk(p, b, v)
         \/ Open' = {} /\ outstanding' = 0
<1>1. TypeInv
  BY DEF LogInv
<1> QED
  BY <1>1, Steps, QuietInv, ScanStep, StoreInv, WriteLogInv, WriteHeadInv,
     InstallInv, ClearInv, DoneInv, EvictInv, CrashInv, ReadHeadInv,
     RecoverInstallInv, RecoverClearInv

-----------------------------------------------------------------------------
(* There are finitely many open calls, *)
LEMMA OpenFinite == IsFiniteSet(Open) /\ Cardinality(Open) \in Nat
<1>1. IsFiniteSet(Open)
  BY Consts, FS_Subset DEF Open
<1> QED BY <1>1, FS_CardinalityType

(* so their number tells whether there is one, or more. *)
LEMMA CountIs ==
  ASSUME CountInv
  PROVE  Counted
<1>1. ASSUME outstanding = 1
      PROVE  \A p, q \in Open : p = q
  <2>1. \E x : Open = {x}
    BY <1>1, OpenFinite, FS_Singleton, Zenon DEF CountInv
  <2> QED BY <2>1
<1>2. ASSUME outstanding > 1
      PROVE  \E p, q \in Open : p # q
  <2>1. Cardinality(Open) # 1 /\ Cardinality(Open) # 0
    BY <1>2, OpenFinite DEF CountInv
  <2>2. Open # {}
    BY <2>1, FS_EmptySet
  <2>3. \A p : Open # {p}
    BY <2>1, OpenFinite, FS_Singleton, Zenon
  <2> QED BY <2>2, <2>3
<1> QED BY <1>1, <1>2 DEF Counted

(* Every step keeps log.outstanding the number of open calls. *)
LEMMA NextCount ==
  ASSUME ~RacyLogWrite, LogInv, CountInv, [Next]_vars
  PROVE  CountInv'
<1>1. ASSUME Open' = Open, outstanding' = outstanding
      PROVE  CountInv'
  BY <1>1 DEF CountInv
<1>2. ASSUME NEW p \in Procs, BeginOp(p)
      PROVE  CountInv'
  <2>1. Cardinality(Open') = Cardinality(Open) + 1
    BY <1>2, BeginStep, OpenFinite, FS_AddElement
  <2> QED BY <1>2, <2>1 DEF BeginOp, CountInv
<1>3. ASSUME NEW p \in Procs, EndOp(p) \/ EndLast(p)
      PROVE  CountInv'
  <2>1. Cardinality(Open') = Cardinality(Open) - 1
    BY <1>3, EndStep, OpenFinite, FS_RemoveElement
  <2>2. outstanding' = outstanding - 1
    BY <1>3 DEF EndOp, EndLast
  <2> QED BY <2>1, <2>2 DEF CountInv
<1>4. ASSUME Open' = {}, outstanding' = 0
      PROVE  CountInv'
  BY <1>4, FS_EmptySet DEF CountInv
<1>5. ASSUME NEW p \in Procs, LogCount(p)
      PROVE  CountInv'
  BY <1>1, <1>5, LogCountInv DEF LogCount
<1>6. ASSUME NEW p \in Procs, NEW b \in Blocks, NEW v \in Vals, ModifyOk(p, b, v)
      PROVE  CountInv'
  <2>1. Open' = Open /\ outstanding' = outstanding
    BY <1>6 DEF ModifyOk, Goto, Open, InOp, LogInv, TypeInv
  <2> QED BY <1>1, <2>1
<1> QED BY <1>1, <1>2, <1>3, <1>4, <1>5, <1>6, NextOpen DEF Same

(* Nothing is set aside when no call is open. *)
LEMMA SpaceClosed ==
  ASSUME Open' = {}
  PROVE  SpaceInv'
BY DEF SpaceInv

(* The blocks set aside can be counted. *)
LEMMA ReservedFinite ==
  IsFiniteSet(Reserved) /\ Cardinality(Reserved) \in Nat
<1>1. IsFiniteSet(1..OpBlocks)
  BY Consts, FS_Interval
<1>2. IsFiniteSet(Open \X (1..OpBlocks))
  BY <1>1, OpenFinite, FS_Product
<1>3. Reserved \in SUBSET (Open \X (1..OpBlocks))
  BY DEF Reserved
<1>4. IsFiniteSet(Reserved)
  BY <1>2, <1>3, FS_Subset
<1> QED BY <1>4, FS_CardinalityType

(* The space suffices as before when nothing is written and calls end. *)
LEMMA SpaceFrame ==
  ASSUME SpaceInv, TypeInv, UNCHANGED <<n, bp, wrote>>,
         \A k \in 1..n : sector'[k] = sector[k], Open' \subseteq Open
  PROVE  SpaceInv'
<1>1. Pending' = Pending
  BY DEF Pending
<1>2. Reserved' \subseteq Reserved
  BY <1>1 DEF Reserved
<1>3. Cardinality(Reserved') <= Cardinality(Reserved) /\ Cardinality(Reserved') \in Nat
  BY <1>2, ReservedFinite, FS_Subset, FS_CardinalityType
<1>4. Open' # {} => n' + Cardinality(Reserved') <= LOGSIZE - 2
  BY <1>3, ReservedFinite, Consts DEF SpaceInv, TypeInv
<1>5. \A p \in Open' : \A b \in wrote'[p] : b = bp'[p] \/ \E k \in 1..n' : sector'[k] = b
  BY DEF SpaceInv
<1>6. \A p \in Open' :
        /\ IsFiniteSet(wrote'[p]) /\ Cardinality(wrote'[p]) <= OpBlocks
        /\ bp'[p] # NoBlock => bp'[p] \in wrote'[p]
  BY DEF SpaceInv
<1> QED BY <1>4, <1>5, <1>6 DEF SpaceInv


(* begin_op sets aside more than the call can use. *)
LEMMA BeginSpace ==
  ASSUME OpBlocks < MAXOPBLOCKS, MAXOPBLOCKS < LOGSIZE,
         LogInv, CountInv, SpaceInv, NEW p \in Procs, BeginOp(p)
  PROVE  SpaceInv'
<1> USE DEF LogInv
<1>1. n \in Nat
  BY DEF TypeInv
<1>2. Open' = Open \cup {p} /\ p \notin Open
  BY DEF BeginOp, Goto, Open, InOp, TypeInv
<1>3. IsFiniteSet(Open') /\ Cardinality(Open') = outstanding + 1 /\ outstanding \in Nat
  BY <1>2, OpenFinite, FS_AddElement DEF CountInv, TypeInv
<1>4. IsFiniteSet(1..OpBlocks) /\ Cardinality(1..OpBlocks) = OpBlocks
  BY Consts, FS_Interval
<1>5. /\ IsFiniteSet(Open' \X (1..OpBlocks))
      /\ Cardinality(Open' \X (1..OpBlocks)) = (outstanding + 1) * OpBlocks
  BY <1>3, <1>4, FS_Product
<1>6. Reserved' \in SUBSET (Open' \X (1..OpBlocks))
  BY DEF Reserved
<1>7. IsFiniteSet(Reserved') /\ Cardinality(Reserved') <= (outstanding + 1) * OpBlocks
  BY <1>5, <1>6, FS_Subset
<1>8. n' = n /\ n + (outstanding + 1) * MAXOPBLOCKS <= LOGSIZE /\ committing = 0 /\ up
  BY <1>3, Consts DEF BeginOp, Goto, MustWait, lh, TypeInv
<1>9. n' + Cardinality(Reserved') <= LOGSIZE - 2
  <2>1. CASE outstanding = 0
    <3> USE <2>1
    <3>1. Open = {}
      BY OpenFinite, FS_EmptySet DEF CountInv
    <3>2. n = 0
      BY <1>8, <3>1 DEF CommitInv
    <3>3. Cardinality(Reserved') <= OpBlocks /\ Cardinality(Reserved') \in Nat
      BY <1>7, Consts, FS_CardinalityType
    <3> QED BY <1>8, <3>2, <3>3, Consts
  <2>2. CASE outstanding # 0
    <3>1. (outstanding + 1) * OpBlocks <= (outstanding + 1) * (MAXOPBLOCKS - 1)
      BY <1>3, Consts
    <3>2. (outstanding + 1) * (MAXOPBLOCKS - 1) = (outstanding + 1) * MAXOPBLOCKS - (outstanding + 1)
      BY <1>3, Consts
    <3>3. (outstanding + 1) * OpBlocks \in Int /\ (outstanding + 1) * MAXOPBLOCKS \in Int
      BY <1>3, Consts
    <3>4. Cardinality(Reserved') \in Nat
      BY <1>7, FS_CardinalityType
    <3>5. n \in Nat /\ LOGSIZE \in Nat /\ outstanding \in Nat
      BY <1>1, <1>3, <1>8, Consts
    <3> DEFINE x == (outstanding + 1) * OpBlocks
               y == (outstanding + 1) * MAXOPBLOCKS
               z == (outstanding + 1) * (MAXOPBLOCKS - 1)
    <3>6. /\ x <= z /\ z = y - (outstanding + 1) /\ x \in Int /\ y \in Int
          /\ n + y <= LOGSIZE /\ Cardinality(Reserved') <= x
      BY <1>7, <1>8, <3>1, <3>2, <3>3
    <3> HIDE DEF x, y, z
    <3>7. n + Cardinality(Reserved') <= LOGSIZE - 2
      BY <2>2, <3>4, <3>5, <3>6
    <3> QED BY <1>8, <3>7
  <2> QED BY <2>1, <2>2
<1>10. \A q \in Open : wrote'[q] = wrote[q] /\ UNCHANGED <<bp, n, sector>>
  BY <1>2 DEF BeginOp, Goto, lh, TypeInv, Open
<1>11. wrote'[p] = {} /\ bp'[p] = NoBlock
  BY DEF BeginOp, Goto, BusyInv, Writing, TypeInv
<1>12. IsFiniteSet({}) /\ Cardinality({}) <= OpBlocks
  BY FS_EmptySet, Consts
<1>13. \A q \in Open' :
        /\ IsFiniteSet(wrote'[q]) /\ Cardinality(wrote'[q]) <= OpBlocks
        /\ bp'[q] # NoBlock => bp'[q] \in wrote'[q]
        /\ \A b \in wrote'[q] : b = bp'[q] \/ \E k \in 1..n' : sector'[k] = b
  BY <1>2, <1>10, <1>11, <1>12 DEF SpaceInv
<1> QED BY <1>9, <1>13 DEF SpaceInv

(* A block is charged to the call when it is modified, *)
LEMMA ModifySpace ==
  ASSUME LogInv, SpaceInv, NEW p \in Procs,
         NEW b \in Blocks, NEW v \in Vals, ModifyOk(p, b, v)
  PROVE  SpaceInv'
<1> USE DEF LogInv
<1>1. n \in Nat
  BY DEF TypeInv
<1>2. Open' = Open /\ p \in Open /\ UNCHANGED <<n, sector>>
  BY DEF ModifyOk, Goto, lh, Open, InOp, TypeInv
<1>3. bp[p] = NoBlock /\ bp'[p] = b /\ \A q \in Procs \ {p} : bp'[q] = bp[q]
  BY DEF ModifyOk, Goto, BusyInv, Writing, TypeInv
<1>4. /\ wrote'[p] = wrote[p] \cup {b} /\ Cardinality(wrote'[p]) <= OpBlocks
      /\ \A q \in Procs \ {p} : wrote'[q] = wrote[q]
  BY DEF ModifyOk, Goto, TypeInv
<1>5. /\ IsFiniteSet(wrote'[p])
      /\ Cardinality(wrote[p]) \in Nat
      /\ Cardinality(wrote'[p]) = IF b \in wrote[p] THEN Cardinality(wrote[p])
                                                  ELSE Cardinality(wrote[p]) + 1
  <2>1. IsFiniteSet(wrote[p]) /\ Cardinality(wrote[p]) \in Nat
    BY <1>2, FS_CardinalityType DEF SpaceInv
  <2>2. CASE b \in wrote[p]
    <3> USE <2>2
    <3>1. wrote'[p] = wrote[p]
      BY <1>4
    <3> QED BY <2>1, <3>1
  <2>3. CASE b \notin wrote[p]
    <3> USE <2>3
    <3>1. /\ IsFiniteSet(wrote[p] \cup {b})
          /\ Cardinality(wrote[p] \cup {b}) = Cardinality(wrote[p]) + 1
      BY <2>1, FS_AddElement
    <3> QED BY <1>4, <2>1, <3>1, Zenon
  <2> QED BY <2>2, <2>3
<1>6. \A c \in wrote[p] : \E k \in 1..n : sector[k] = c
  BY <1>2, <1>3, Consts DEF SpaceInv, NoBlock, TypeInv, Open
<1>7. Reserved' \subseteq Reserved
  <2> SUFFICES ASSUME NEW q \in Open, NEW m \in 1..OpBlocks,
                      \/ m > Cardinality(wrote'[q])
                      \/ q \in Pending' /\ m = Cardinality(wrote'[q])
               PROVE  \/ m > Cardinality(wrote[q])
                      \/ q \in Pending /\ m = Cardinality(wrote[q])
    BY <1>2 DEF Reserved
  <2>1. CASE q # p
    BY <1>2, <1>3, <1>4, <2>1 DEF Pending, Open
  <2>2. CASE q = p
    <3> USE <2>2
    <3>1. CASE m > Cardinality(wrote'[p])
      BY <1>5, <3>1
    <3>2. CASE p \in Pending' /\ m = Cardinality(wrote'[p])
      <4> USE <3>2
      <4>1. b \notin wrote[p]
        BY <1>2, <1>3, <1>6 DEF Pending
      <4> QED BY <1>5, <4>1
    <3> QED BY <3>1, <3>2
  <2> QED BY <2>1, <2>2
<1>8. Cardinality(Reserved') <= Cardinality(Reserved) /\ Cardinality(Reserved') \in Nat
  BY <1>7, ReservedFinite, FS_Subset, FS_CardinalityType
<1>9. n' + Cardinality(Reserved') <= LOGSIZE - 2
  BY <1>1, <1>2, <1>8, ReservedFinite, Consts DEF SpaceInv
<1>10. ASSUME NEW q \in Open
      PROVE  /\ IsFiniteSet(wrote'[q]) /\ Cardinality(wrote'[q]) <= OpBlocks
             /\ bp'[q] # NoBlock => bp'[q] \in wrote'[q]
             /\ \A c \in wrote'[q] : c = bp'[q] \/ \E k \in 1..n' : sector'[k] = c
  <2>1. CASE q = p
    BY <1>2, <1>3, <1>4, <1>5, <1>6, <2>1
  <2>2. CASE q # p
    BY <1>2, <1>3, <1>4, <2>2 DEF SpaceInv, Open
  <2> QED BY <2>1, <2>2
<1> QED BY <1>2, <1>9, <1>10 DEF SpaceInv

(* and moves into the log when log_write counts it. *)
LEMMA LogCountSpace ==
  ASSUME LogInv, SpaceInv, NEW p \in Procs, LogCount(p)
  PROVE  SpaceInv'
<1> USE DEF LogInv
<1>1. n \in Nat
  BY DEF TypeInv
<1>2. Open' = Open /\ p \in Open /\ UNCHANGED <<sector, wrote>>
  BY DEF LogCount, Goto, Open, InOp, TypeInv
<1>3. /\ bp'[p] = NoBlock /\ \A q \in Procs \ {p} : bp'[q] = bp[q]
      /\ bp[p] # NoBlock
  BY DEF LogCount, Goto, BusyInv, Writing, TypeInv
<1>4. /\ i[p] \in 1..(n + 1) /\ sector[i[p]] = bp[p]
      /\ i[p] = n + 1 => \A k \in 1..n : sector[k] # bp[p]
      /\ n' = IF i[p] = n + 1 THEN n + 1 ELSE n
  BY DEF LogCount, Goto, SectorInv
<1>5. \E k \in 1..n' : sector'[k] = bp[p]
  BY <1>1, <1>2, <1>4
<1>6. \A k \in 1..n : k \in 1..n'
  BY <1>1, <1>4
<1>7. Pending' \subseteq Pending \ {p}
  BY <1>2, <1>3, <1>6 DEF Pending
<1>8. Reserved' \subseteq Reserved
  BY <1>2, <1>7 DEF Reserved
<1>9. n' + Cardinality(Reserved') <= LOGSIZE - 2
  <2>1. CASE i[p] = n + 1
    <3> USE <2>1
    <3> DEFINE s == <<p, Cardinality(wrote[p])>>
    <3>1. IsFiniteSet(wrote[p]) /\ bp[p] \in wrote[p] /\ Cardinality(wrote[p]) <= OpBlocks
      BY <1>2, <1>3 DEF SpaceInv
    <3>2. Cardinality(wrote[p]) \in 1..OpBlocks
      <4>1. Cardinality(wrote[p]) \in Nat /\ Cardinality(wrote[p]) # 0
        BY <3>1, FS_CardinalityType, FS_EmptySet
      <4> QED BY <3>1, <4>1, Consts
    <3>3. p \in Pending
      BY <1>2, <1>3, <1>4 DEF Pending, Open
    <3>4. s \in Reserved
      BY <1>2, <3>2, <3>3 DEF Reserved
    <3>5. s \notin Reserved'
      BY <1>2, <1>7, <3>2 DEF Reserved
    <3>6. Reserved' \subseteq Reserved \ {s}
      BY <1>8, <3>5
    <3>7. IsFiniteSet(Reserved \ {s}) /\ Cardinality(Reserved \ {s}) = Cardinality(Reserved) - 1
      BY <3>4, ReservedFinite, FS_RemoveElement
    <3>8. Cardinality(Reserved') <= Cardinality(Reserved) - 1 /\ Cardinality(Reserved') \in Nat
      BY <3>6, <3>7, FS_Subset, FS_CardinalityType
    <3> QED BY <1>1, <1>2, <1>4, <3>8, ReservedFinite, Consts DEF SpaceInv
  <2>2. CASE i[p] # n + 1
    <3>1. Cardinality(Reserved') <= Cardinality(Reserved) /\ Cardinality(Reserved') \in Nat
      BY <1>8, ReservedFinite, FS_Subset, FS_CardinalityType
    <3> QED BY <1>1, <1>2, <1>4, <2>2, <3>1, ReservedFinite, Consts DEF SpaceInv
  <2> QED BY <2>1, <2>2
<1>10. ASSUME NEW q \in Open
      PROVE  /\ IsFiniteSet(wrote'[q]) /\ Cardinality(wrote'[q]) <= OpBlocks
             /\ bp'[q] # NoBlock => bp'[q] \in wrote'[q]
             /\ \A c \in wrote'[q] : c = bp'[q] \/ \E k \in 1..n' : sector'[k] = c
  <2>1. /\ IsFiniteSet(wrote'[q]) /\ Cardinality(wrote'[q]) <= OpBlocks
        /\ bp'[q] # NoBlock => bp'[q] \in wrote'[q]
    BY <1>2, <1>3 DEF SpaceInv, Open
  <2>2. ASSUME NEW c \in wrote'[q]
        PROVE  c = bp'[q] \/ \E k \in 1..n' : sector'[k] = c
    <3>1. c = bp[q] \/ \E k \in 1..n : sector[k] = c
      BY <1>2, <2>2 DEF SpaceInv
    <3> QED BY <1>2, <1>3, <1>5, <1>6, <3>1 DEF Open
  <2> QED BY <2>1, <2>2
<1> QED BY <1>2, <1>9, <1>10 DEF SpaceInv

(* Every step leaves room for what the open calls may still write. *)
LEMMA NextSpace ==
  ASSUME ~RacyLogWrite, OpBlocks < MAXOPBLOCKS, MAXOPBLOCKS < LOGSIZE,
         LogInv, CountInv, SpaceInv, [Next]_vars
  PROVE  SpaceInv'
<1>1. ASSUME Open' = {}
      PROVE  SpaceInv'
  BY <1>1, SpaceClosed
<1>2. CASE Same
  <2>1. CASE Open = {}
    BY <1>1, <1>2, <2>1 DEF Same
  <2>2. CASE Open # {}
    BY <1>2, <2>2, SpaceFrame DEF Same, LogInv
  <2> QED BY <2>1, <2>2
<1>3. ASSUME NEW p \in Procs, EndOp(p) \/ EndLast(p)
      PROVE  SpaceInv'
  <2>1. UNCHANGED <<n, sector, bp, wrote>>
    BY <1>3 DEF EndOp, EndLast, lh, op
  <2> QED BY <1>3, <2>1, EndStep, SpaceFrame DEF LogInv
<1> QED
  BY <1>1, <1>2, <1>3, NextOpen, BeginSpace, ModifySpace, LogCountSpace

(* So the test of log_write never finds the log full. *)
LEMMA NextFull ==
  ASSUME LOGSIZE <= LogBlocks, TypeInv, SpaceInv, LogNeverFull, [Next]_vars
  PROVE  LogNeverFull'
<1>1. ASSUME NEW p \in Procs, LogScan(p)
      PROVE  LogNeverFull'
  <2> USE <1>1
  <2>1. p \in Open
    BY DEF LogScan, Panic, Goto, Open, InOp
  <2>2. n <= LOGSIZE - 2 /\ n \in Nat
    BY <2>1, ReservedFinite, Consts DEF SpaceInv, TypeInv
  <2>3. ~(n >= LOGSIZE \/ n >= LogBlocks - 1)
    BY <2>2, Consts
  <2>4. UNCHANGED panicked
    BY <2>3 DEF LogScan
  <2> QED BY <2>4 DEF LogNeverFull
<1>2. ASSUME NEW p \in Procs, NEW b \in Blocks, NEW v \in Vals, Modify(p, b, v)
      PROVE  LogNeverFull'
  BY <1>2 DEF Modify, Panic, LogNeverFull
<1>3. ASSUME NEW p \in Procs,
             \/ Call(p) \/ BeginSleep(p) \/ BeginOp(p) \/ LogStore(p) \/ LogCount(p)
             \/ EndOp(p) \/ EndLast(p) \/ CommitStep(p)
      PROVE  LogNeverFull'
  BY <1>3 DEF Call, BeginSleep, BeginOp, LogStore, LogCount, EndOp, EndLast,
    CommitStep, WriteLog, WriteHead, InstallTrans, ClearLog, CommitDone, LogNeverFull
<1>4. ASSUME (\E b \in Blocks : Evict(b)) \/ Recover \/ Crash \/ UNCHANGED vars
      PROVE  LogNeverFull'
  BY <1>4 DEF Evict, Recover, ReadHead, RecoverInstall, RecoverClear, Crash, vars,
    LogNeverFull
<1> QED BY <1>1, <1>2, <1>3, <1>4 DEF Next, CallStep

(* LogInv holds in every state. *)
LEMMA SpecInv ==
  ASSUME ~RacyLogWrite
  PROVE  Spec => [](LogInv /\ CountInv)
<1>1. Init => LogInv /\ CountInv
  <2>1. Init => Open = {}
    BY DEF Init, Open, InOp
  <2> QED BY <2>1, InitInv, FS_EmptySet DEF Init, CountInv
<1>2. LogInv /\ CountInv /\ [Next]_vars => LogInv' /\ CountInv'
  BY NextInv, NextCount, CountIs
<1> QED BY <1>1, <1>2, PTL DEF Spec

(* Recorded: a block log_write has marked B_DIRTY is named in log.lh until *)
(* its transaction is at home, so the commit cannot miss it and bget       *)
(* cannot recycle it before.  It follows from CacheInv. *)
THEOREM RecordedAlways ==
  ASSUME ~RacyLogWrite
  PROVE  Spec => []Recorded
<1>1. LogInv => Recorded
  <2> SUFFICES ASSUME LogInv PROVE Recorded
    OBVIOUS
  <2>1. From \in Nat \ {0} /\ n \in Nat
    BY DEF LogInv, From, CommitInv, TypeInv
  <2>2. \A k \in From..n : k \in 1..n
    BY <2>1
  <2> QED BY <2>2 DEF LogInv, CacheInv, Recorded
<1> QED BY <1>1, SpecInv, PTL

(* LogNeverFull: log_write never panics with "too big a transaction" when  *)
(* a call writes fewer than MAXOPBLOCKS blocks and the log is as large as  *)
(* log.lh.  One block fewer, since log_write stops at log.size - 1 and     *)
(* begin_op counts LOGSIZE; and filewrite may write more than MAXOPBLOCKS  *)
(* blocks in one call (file.c:138), for which nothing is claimed. *)
THEOREM LogSpaceSuffices ==
  ASSUME ~RacyLogWrite, OpBlocks < MAXOPBLOCKS, MAXOPBLOCKS < LOGSIZE,
         LOGSIZE <= LogBlocks
  PROVE  Spec => []LogNeverFull
<1>1. Init => SpaceInv /\ LogNeverFull
  <2>1. Init => Open = {}
    BY DEF Init, Open, InOp
  <2> QED BY <2>1 DEF Init, SpaceInv, LogNeverFull
<1>2. LogInv /\ CountInv /\ SpaceInv /\ LogNeverFull /\ [Next]_vars
        => SpaceInv' /\ LogNeverFull'
  <2>1. LogInv => TypeInv
    BY DEF LogInv
  <2> QED BY <2>1, NextSpace, NextFull
<1> QED BY <1>1, <1>2, SpecInv, PTL DEF Spec

(* ImplementsAtomicDisk: at any moment the disk, after recovery, holds the *)
(* effects of all the system calls up to some commit and of no later one,  *)
(* and the running kernel sees its own writes.  Header writes are the only *)
(* steps that change what recovery would leave. *)
THEOREM LogImplementsAtomicDisk ==
  ASSUME ~RacyLogWrite
  PROVE  Spec => ImplementsAtomicDisk
<1>1. Init => Atomic!Init
  <2> SUFFICES ASSUME Init PROVE Atomic!Init
    OBVIOUS
  <2>1. Durable \in [Blocks -> Vals]
    BY InitInv, DurableAt DEF LogInv
  <2>2. View = Durable /\ Open = {}
    BY DEF Init, View, Open, InOp
  <2> QED BY <2>1, <2>2 DEF Atomic!Init, Open
<1>2. LogInv /\ [Next]_vars => [Atomic!Next]_(Atomic!vars)
  BY NextAtomic DEF AtomicStep
<1> QED BY <1>1, <1>2, SpecInv, PTL DEF Spec, ImplementsAtomicDisk, Atomic!Spec
=============================================================================
