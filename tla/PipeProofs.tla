----------------------------- MODULE PipeProofs -----------------------------
(***************************************************************************)
(* Proofs about Pipe, for any number of readers and writers, any size of   *)
(* the ring and any width of the counters nread and nwrite.                *)
(***************************************************************************)
EXTENDS Pipe, SequenceTheorems, TLAPS

(* Counters that wrap: a sum of two of them wraps at most once. *)
LEMMA ModSmall ==
  ASSUME NEW U \in Nat, U > 0, NEW a \in Int, 0 <= a, a < 2 * U
  PROVE  a % U = IF a < U THEN a ELSE a - U
<1>1. a % U \in 0..(U-1) /\ a = U * (a \div U) + (a % U) /\ a \div U \in Int
  OBVIOUS
<1>2. a \div U < 2
  BY <1>1
<1>3. a \div U >= 0
  BY <1>1
<1> QED BY <1>1, <1>2, <1>3

LEMMA LenFun ==
  ASSUME NEW k \in Nat, NEW s \in [1..k -> Bytes]
  PROVE  Len(s) = k
OBVIOUS

(* The counters are unsigned integers and the ring is never overfull. *)
RingInv ==
  /\ nread \in 0..(UintMod - 1) /\ nwrite \in 0..(UintMod - 1)
  /\ Count <= PIPESIZE

LEMMA Difference ==
  ASSUME NEW r \in 0..(UintMod - 1), NEW w \in 0..(UintMod - 1)
  PROVE  /\ (w - r + UintMod) % UintMod = IF w >= r THEN w - r
                                          ELSE w - r + UintMod
         /\ (w - r + UintMod) % UintMod \in Nat
<1>0. UintMod \in Nat /\ UintMod > 0
  BY PipeAssumption
<1> DEFINE a == w - r + UintMod
<1>1. a \in Int /\ 0 <= a /\ a < 2 * UintMod
  BY <1>0
<1>2. a % UintMod = IF a < UintMod THEN a ELSE a - UintMod
  BY <1>0, <1>1, ModSmall
<1> QED BY <1>0, <1>2

LEMMA RingFacts ==
  ASSUME nread \in 0..(UintMod - 1), nwrite \in 0..(UintMod - 1)
  PROVE  /\ Count = IF nwrite >= nread THEN nwrite - nread
                    ELSE nwrite - nread + UintMod
         /\ Count \in Nat
         /\ Full <=> Count = PIPESIZE
         /\ Empty <=> Count = 0
<1>0. /\ UintMod \in Nat /\ UintMod > 0
      /\ PIPESIZE \in Nat /\ PIPESIZE < UintMod /\ PIPESIZE > 0
  BY PipeAssumption
<1>1. /\ Count = IF nwrite >= nread THEN nwrite - nread
                 ELSE nwrite - nread + UintMod
      /\ Count \in Nat
  BY Difference DEF Count
<1>2. Full <=> Count = PIPESIZE
  <2> DEFINE b == nread + PIPESIZE
  <2>1. b \in Int /\ 0 <= b /\ b < 2 * UintMod
    BY <1>0
  <2>2. b % UintMod = IF b < UintMod THEN b ELSE b - UintMod
    BY <1>0, <2>1, ModSmall
  <2> QED BY <1>0, <1>1, <2>2 DEF Full
<1>3. Empty <=> Count = 0
  BY <1>0, <1>1 DEF Empty
<1> QED BY <1>1, <1>2, <1>3

LEMMA RingFactsNext ==
  ASSUME nread' \in 0..(UintMod - 1), nwrite' \in 0..(UintMod - 1)
  PROVE  /\ Count' = IF nwrite' >= nread' THEN nwrite' - nread'
                     ELSE nwrite' - nread' + UintMod
         /\ Count' \in Nat
BY Difference DEF Count

(* k bytes more, as long as they fit. *)
LEMMA CountIn ==
  ASSUME RingInv, NEW k \in Nat, Count + k <= PIPESIZE,
         nread' = nread, nwrite' = (nwrite + k) % UintMod
  PROVE  RingInv' /\ Count' = Count + k
<1>0. UintMod \in Nat /\ UintMod > 0 /\ PIPESIZE \in Nat /\ PIPESIZE < UintMod
  BY PipeAssumption
<1> DEFINE a == nwrite + k
<1>1. a \in Int /\ 0 <= a /\ a < 2 * UintMod
  BY <1>0, RingFacts DEF RingInv
<1>2. nwrite' = IF a < UintMod THEN a ELSE a - UintMod
  BY <1>0, <1>1, ModSmall
<1>3. nwrite' \in 0..(UintMod - 1) /\ nread' \in 0..(UintMod - 1)
  BY <1>0, <1>1, <1>2 DEF RingInv
<1>4. Count' = Count + k
  BY <1>0, <1>2, <1>3, RingFacts, RingFactsNext DEF RingInv
<1> QED BY <1>3, <1>4 DEF RingInv

(* k bytes less, as long as they are there. *)
LEMMA CountOut ==
  ASSUME RingInv, NEW k \in Nat, k <= Count,
         nwrite' = nwrite, nread' = (nread + k) % UintMod
  PROVE  RingInv' /\ Count' = Count - k
<1>0. UintMod \in Nat /\ UintMod > 0 /\ PIPESIZE \in Nat /\ PIPESIZE < UintMod
  BY PipeAssumption
<1> DEFINE a == nread + k
<1>1. a \in Int /\ 0 <= a /\ a < 2 * UintMod
  BY <1>0, RingFacts DEF RingInv
<1>2. nread' = IF a < UintMod THEN a ELSE a - UintMod
  BY <1>0, <1>1, ModSmall
<1>3. nread' \in 0..(UintMod - 1) /\ nwrite' \in 0..(UintMod - 1)
  BY <1>0, <1>1, <1>2 DEF RingInv
<1>4. Count' = Count - k
  BY <1>0, <1>2, <1>3, RingFacts, RingFactsNext DEF RingInv
<1> QED BY <1>0, <1>3, <1>4, RingFacts DEF RingInv

LEMMA CountSame ==
  ASSUME nread' = nread, nwrite' = nwrite
  PROVE  Count' = Count /\ (RingInv => RingInv')
BY DEF Count, RingInv
-----------------------------------------------------------------------------
PipeType ==
  /\ RingInv
  /\ readopen \in {0, 1} /\ writeopen \in {0, 1}
  /\ fds \subseteq Procs
  /\ killed \subseteq Killable
  /\ state \in [Procs -> {"RUNNABLE", "SLEEPING"}]
  /\ DOMAIN chan = Procs
  /\ pc \in [Procs -> {"user", "read", "write", "readsleep", "writesleep"}]
  /\ n \in [Procs -> Nat] /\ i \in [Procs -> Nat]
  /\ \A p \in Procs : i[p] <= n[p]

(* Whoever is in a call has its descriptor, an end without descriptors is   *)
(* closed last of all, and p->lock is kept from one step to the next only   *)
(* on the way to sleep. *)
EndInv ==
  /\ \A p \in Procs :
       /\ pc[p] # "user" => p \in fds
       /\ pc[p] \in {"write", "writesleep"} => p \in Writers
       /\ pc[p] \in {"read", "readsleep"} => p \in Readers
       /\ pc[p] \in {"writesleep", "readsleep"} => lock = p
  /\ lock # "none" => lock \in Procs /\ pc[lock] \in {"writesleep", "readsleep"}
  /\ writeopen = 0 => fds \cap Writers = {}
  /\ readopen = 0 => fds \cap Readers = {}
  /\ freed => readopen = 0 /\ writeopen = 0

(* The reason for which a proc went to sleep is still there. *)
ReasonInv ==
  \A p \in Procs :
    /\ state[p] = "SLEEPING" =>
         \/ pc[p] = "read" /\ chan[p] = "nread" /\ Count = 0 /\ writeopen = 1
         \/ /\ pc[p] = "write" /\ chan[p] = "nwrite"
            /\ Count = PIPESIZE /\ readopen = 1
    /\ pc[p] = "readsleep" => Count = 0 /\ writeopen = 1
    /\ pc[p] = "writesleep" => Count = PIPESIZE /\ readopen = 1

LEMMA InitPipe == Init => PipeType /\ EndInv /\ ReasonInv
<1> SUFFICES ASSUME Init PROVE PipeType /\ EndInv /\ ReasonInv
  OBVIOUS
<1>1. RingInv /\ Count = 0
  <2>1. nread \in 0..(UintMod - 1) /\ nwrite \in 0..(UintMod - 1)
    BY PipeAssumption DEF Init
  <2>2. Count = 0
    BY <2>1, RingFacts DEF Init, Empty
  <2> QED BY <2>1, <2>2, PipeAssumption DEF RingInv
<1>2. PipeType
  BY <1>1 DEF Init, PipeType
<1>3. EndInv
  BY DEF Init, EndInv
<1>4. ReasonInv
  BY DEF Init, ReasonInv
<1> QED BY <1>2, <1>3, <1>4

(* What pipewrite copies in one go. *)
LEMMA WriteCount ==
  ASSUME PipeType, NEW p \in Procs, nread' = nread,
         \E s \in [1..Room(p) -> Bytes] : CopyIn(s)
  PROVE  /\ Room(p) \in Nat /\ Room(p) <= n[p] - i[p]
         /\ RingInv' /\ Count' = Count + Room(p)
         /\ Room(p) < n[p] - i[p] => Count' = PIPESIZE
<1>0. /\ Count \in Nat /\ Count <= PIPESIZE /\ PIPESIZE \in Nat
      /\ n[p] \in Nat /\ i[p] \in Nat /\ i[p] <= n[p] /\ RingInv
  BY RingFacts, PipeAssumption DEF PipeType, RingInv
<1>1. /\ Room(p) \in Nat /\ Room(p) <= n[p] - i[p]
      /\ Count + Room(p) <= PIPESIZE
      /\ Room(p) < n[p] - i[p] => Count + Room(p) = PIPESIZE
  BY <1>0 DEF Room, Least
<1>2. PICK s \in [1..Room(p) -> Bytes] : CopyIn(s)
  OBVIOUS
<1>3. nwrite' = (nwrite + Room(p)) % UintMod
  BY <1>1, <1>2, LenFun DEF CopyIn
<1> HIDE DEF Room
<1>4. RingInv' /\ Count' = Count + Room(p)
  BY <1>0, <1>1, <1>3, CountIn
<1> QED BY <1>1, <1>4

LEMMA ReadCount ==
  ASSUME PipeType, NEW p \in Procs, nwrite' = nwrite,
         CopyOut(Least(n[p], Count))
  PROVE  RingInv'
<1> DEFINE k == Least(n[p], Count)
<1>0. Count \in Nat /\ n[p] \in Nat /\ RingInv
  BY RingFacts DEF PipeType, RingInv
<1>1. k \in Nat /\ k <= Count
  BY <1>0 DEF Least
<1>2. nread' = (nread + k) % UintMod
  BY DEF CopyOut
<1> HIDE DEF k
<1> QED BY <1>0, <1>1, <1>2, CountOut

(* A wakeup leaves nobody asleep on its channel and wakes nobody else. *)
LEMMA WokenIs ==
  ASSUME PipeType, NEW c
  PROVE  /\ Woken(c) \in [Procs -> {"RUNNABLE", "SLEEPING"}]
         /\ \A p \in Procs :
              Woken(c)[p] = "SLEEPING" => state[p] = "SLEEPING" /\ chan[p] # c
BY DEF PipeType, Woken

-----------------------------------------------------------------------------
LEMMA NextPipeType == PipeType /\ EndInv /\ [Next]_vars => PipeType'
<1> SUFFICES ASSUME PipeType, [Next]_vars PROVE PipeType'
  OBVIOUS
<1>0. /\ readopen \in {0, 1} /\ writeopen \in {0, 1}
      /\ fds \subseteq Procs /\ killed \subseteq Killable
      /\ state \in [Procs -> {"RUNNABLE", "SLEEPING"}]
      /\ DOMAIN chan = Procs
      /\ pc \in [Procs -> {"user", "read", "write", "readsleep", "writesleep"}]
      /\ n \in [Procs -> Nat] /\ i \in [Procs -> Nat]
      /\ \A p \in Procs : i[p] <= n[p]
      /\ RingInv
  BY DEF PipeType
<1>a. Lens \subseteq Nat
  BY PipeAssumption
<1> USE <1>0, CountSame DEF ring, sched, Runs, Locks, Return
<1>1. ASSUME NEW p \in Procs, WriteDone(p) \/ WriteFail(p) PROVE PipeType'
  <2>1. RingInv'
    BY <1>1, WriteCount DEF WriteDone, WriteFail
  <2>2. state' \in [Procs -> {"RUNNABLE", "SLEEPING"}]
    BY <1>1, WokenIs DEF WriteDone, WriteFail
  <2> QED BY <1>1, <2>1, <2>2 DEF WriteDone, WriteFail, PipeType
<1>2. ASSUME NEW p \in Procs, WriteFull(p) PROVE PipeType'
  <2>1. RingInv' /\ Room(p) \in Nat /\ Room(p) <= n[p] - i[p]
    BY <1>2, WriteCount DEF WriteFull
  <2>2. state' \in [Procs -> {"RUNNABLE", "SLEEPING"}]
    BY <1>2, WokenIs DEF WriteFull
  <2>3. /\ i' \in [Procs -> Nat] /\ n' = n
        /\ \A q \in Procs : i'[q] <= n'[q]
    BY <1>2, <2>1 DEF WriteFull
  <2> QED BY <1>2, <2>1, <2>2, <2>3 DEF WriteFull, PipeType
<1>3. ASSUME NEW p \in Procs, WriteSleep(p) \/ ReadSleep(p) PROVE PipeType'
  BY <1>3 DEF WriteSleep, ReadSleep, Sleep, PipeType
<1>4. ASSUME NEW p \in Procs, ReadFail(p) \/ ReadEmpty(p) PROVE PipeType'
  BY <1>4 DEF ReadFail, ReadEmpty, PipeType
<1>5. ASSUME NEW p \in Procs, ReadCopy(p) PROVE PipeType'
  <2>1. RingInv'
    BY <1>5, ReadCount DEF ReadCopy
  <2>2. state' \in [Procs -> {"RUNNABLE", "SLEEPING"}]
    BY <1>5, WokenIs DEF ReadCopy
  <2> QED BY <1>5, <2>1, <2>2 DEF ReadCopy, PipeType
<1>6. ASSUME NEW p \in Procs, NEW m \in Lens, CallWrite(p, m) \/ CallRead(p, m)
      PROVE  PipeType'
  <2>1. m \in Nat
    BY <1>a
  <2> QED BY <1>6, <2>1 DEF CallWrite, CallRead, Call, PipeType
<1>7. ASSUME NEW p \in Procs, PipeClose(p) PROVE PipeType'
  <2>1. state' \in [Procs -> {"RUNNABLE", "SLEEPING"}]
    BY <1>7, WokenIs DEF PipeClose
  <2> QED BY <1>7, <2>1 DEF PipeClose, CloseEnd, PipeType
<1>8. ASSUME NEW p \in Killable, Kill(p) PROVE PipeType'
  BY <1>8 DEF Kill, PipeType
<1>9. CASE UNCHANGED vars
  BY <1>9 DEF vars, PipeType
<1> HIDE <1>0, CountSame DEF ring, sched, Runs, Locks, Return
<1> QED BY <1>1, <1>2, <1>3, <1>4, <1>5, <1>6, <1>7, <1>8, <1>9
        DEF Next, WriteStep, ReadStep, UserStep

LEMMA NextEnd == PipeType /\ EndInv /\ [Next]_vars => EndInv'
<1> SUFFICES ASSUME PipeType, EndInv, [Next]_vars PROVE EndInv'
  OBVIOUS
<1>0. /\ readopen \in {0, 1} /\ writeopen \in {0, 1}
      /\ fds \subseteq Procs /\ DOMAIN pc = Procs
      /\ Writers \cup Readers = Procs /\ Writers \cap Readers = {}
      /\ "none" \notin Procs
  BY PipeAssumption DEF PipeType, Procs
<1> USE <1>0 DEF EndInv, ring, sched, Runs, Locks, Return
<1>1. ASSUME NEW p \in Procs, WriteDone(p) \/ WriteFail(p) PROVE EndInv'
  BY <1>1 DEF WriteDone, WriteFail
<1>2. ASSUME NEW p \in Procs, WriteFull(p) PROVE EndInv'
  BY <1>2 DEF WriteFull
<1>3. ASSUME NEW p \in Procs, WriteSleep(p) \/ ReadSleep(p) PROVE EndInv'
  BY <1>3 DEF WriteSleep, ReadSleep, Sleep
<1>4. ASSUME NEW p \in Procs, ReadFail(p) \/ ReadEmpty(p) PROVE EndInv'
  BY <1>4 DEF ReadFail, ReadEmpty
<1>5. ASSUME NEW p \in Procs, ReadCopy(p) PROVE EndInv'
  BY <1>5 DEF ReadCopy
<1>6. ASSUME NEW p \in Procs, NEW m \in Lens, CallWrite(p, m) \/ CallRead(p, m)
      PROVE  EndInv'
  BY <1>6 DEF CallWrite, CallRead, Call
<1>7. ASSUME NEW p \in Procs, PipeClose(p) PROVE EndInv'
  BY <1>7 DEF PipeClose, CloseEnd
<1>8. ASSUME NEW p \in Killable, Kill(p) PROVE EndInv'
  BY <1>8 DEF Kill
<1>9. CASE UNCHANGED vars
  BY <1>9 DEF vars
<1> HIDE <1>0 DEF EndInv, ring, sched, Runs, Locks, Return
<1> QED BY <1>1, <1>2, <1>3, <1>4, <1>5, <1>6, <1>7, <1>8, <1>9
        DEF Next, WriteStep, ReadStep, UserStep

(* pipeclose gives the pipe back to kfree only when no proc can reach it    *)
(* and no call is inside it, whatever the order in which any number of      *)
(* readers and writers close, sleep and are killed.                         *)
THEOREM FreedPipeUnused == Spec => []FreedUnused
<1>1. PipeType /\ EndInv => FreedUnused
  <2> SUFFICES ASSUME PipeType, EndInv, freed PROVE
                 fds = {} /\ lock = "none" /\ \A p \in Procs : pc[p] = "user"
    BY DEF FreedUnused
  <2>1. fds = {}
    BY DEF PipeType, EndInv, Procs
  <2>2. \A p \in Procs : pc[p] = "user"
    BY <2>1 DEF EndInv
  <2> QED BY <2>1, <2>2 DEF EndInv
<1> QED BY <1>1, InitPipe, NextPipeType, NextEnd, PTL DEF Spec

-----------------------------------------------------------------------------
(* Every step keeps the reasons, as long as no writer is killed. *)
LEMMA NextReason ==
  ASSUME Killable \cap Writers = {}
  PROVE  PipeType /\ EndInv /\ ReasonInv /\ [Next]_vars => ReasonInv'
<1> SUFFICES ASSUME PipeType, EndInv, ReasonInv, [Next]_vars
             PROVE  ReasonInv'
  OBVIOUS
<1>0. /\ readopen \in {0, 1} /\ writeopen \in {0, 1}
      /\ fds \subseteq Procs /\ killed \cap Writers = {}
      /\ DOMAIN pc = Procs /\ DOMAIN chan = Procs /\ DOMAIN state = Procs
      /\ Writers \cup Readers = Procs /\ Writers \cap Readers = {}
      /\ "none" \notin Procs
  BY PipeAssumption DEF PipeType, Procs
<1>a. Count \in Nat /\ Count <= PIPESIZE /\ PIPESIZE \in Nat \ {0}
      /\ (Empty <=> Count = 0)
  BY RingFacts, PipeAssumption DEF PipeType, RingInv
<1>b. lock = "none" => \A q \in Procs : pc[q] \notin {"writesleep", "readsleep"}
  BY <1>0 DEF EndInv
<1> USE <1>0 DEF ring, sched, Runs, Locks, Return
<1>1. ASSUME NEW p \in Procs, WriteDone(p) PROVE ReasonInv'
  <2>1. /\ Count' = Count + Room(p) /\ Room(p) \in Nat
        /\ RingInv'
    BY <1>1, WriteCount DEF WriteDone
  <2>2. Count' \in Nat /\ Count' <= PIPESIZE
    BY <2>1, RingFactsNext DEF RingInv
  <2>3. /\ lock = "none" /\ state[p] = "RUNNABLE" /\ chan' = chan
        /\ pc' = [pc EXCEPT ![p] = "user"]
        /\ UNCHANGED <<readopen, writeopen>>
        /\ state' = Woken("nread")
    BY <1>1 DEF WriteDone
  <2>4. \A q \in Procs : pc'[q] \notin {"writesleep", "readsleep"}
    BY <1>b, <2>3
  <2>5. ASSUME NEW q \in Procs, state'[q] = "SLEEPING"
        PROVE  /\ pc'[q] = "write" /\ chan'[q] = "nwrite"
               /\ Count' = PIPESIZE /\ readopen' = 1
    <3>1. state[q] = "SLEEPING" /\ chan[q] # "nread" /\ q # p
      BY <2>3, <2>5, WokenIs
    <3>2. /\ pc[q] = "write" /\ chan[q] = "nwrite"
          /\ Count = PIPESIZE /\ readopen = 1
      BY <3>1 DEF ReasonInv
    <3>3. Count' = PIPESIZE
      BY <1>a, <2>1, <2>2, <3>2
    <3> QED BY <2>3, <3>1, <3>2, <3>3
  <2> QED BY <2>4, <2>5 DEF ReasonInv
<1>2. ASSUME NEW p \in Procs, WriteFail(p) PROVE ReasonInv'
  <2>1. /\ lock = "none" /\ pc[p] = "write" /\ state[p] = "RUNNABLE"
        /\ pc' = [pc EXCEPT ![p] = "user"] /\ state' = state
        /\ readopen = 0 \/ p \in killed
    BY <1>2 DEF WriteFail
  <2>2. readopen = 0 /\ fds \cap Readers = {}
    BY <2>1 DEF EndInv
  <2>3. \A q \in Procs : state[q] # "SLEEPING"
    BY <2>2 DEF ReasonInv, EndInv
  <2>4. \A q \in Procs : pc'[q] \notin {"writesleep", "readsleep"}
    BY <1>b, <2>1
  <2> QED BY <2>1, <2>3, <2>4 DEF ReasonInv
<1>3. ASSUME NEW p \in Procs, WriteFull(p) PROVE ReasonInv'
  <2>1. Count' = PIPESIZE
    BY <1>3, WriteCount DEF WriteFull
  <2>2. /\ lock = "none" /\ state[p] = "RUNNABLE" /\ chan' = chan
        /\ pc' = [pc EXCEPT ![p] = "writesleep"] /\ pc[p] = "write"
        /\ UNCHANGED <<readopen, writeopen>> /\ readopen = 1
        /\ state' = Woken("nread")
    BY <1>3 DEF WriteFull
  <2>3. ASSUME NEW q \in Procs, state'[q] = "SLEEPING"
        PROVE  pc'[q] = "write" /\ chan'[q] = "nwrite"
    <3>1. state[q] = "SLEEPING" /\ chan[q] # "nread" /\ q # p
      BY <2>2, <2>3, WokenIs
    <3> QED BY <2>2, <3>1 DEF ReasonInv
  <2>4. \A q \in Procs : pc'[q] # "readsleep"
    BY <1>b, <2>2
  <2> QED BY <2>1, <2>2, <2>3, <2>4 DEF ReasonInv
<1>4. ASSUME NEW p \in Procs, WriteSleep(p) PROVE ReasonInv'
  <2>1. /\ pc[p] = "writesleep" /\ pc' = [pc EXCEPT ![p] = "write"]
        /\ state' = [state EXCEPT ![p] = "SLEEPING"]
        /\ chan' = [chan EXCEPT ![p] = "nwrite"]
        /\ UNCHANGED <<readopen, writeopen, nread, nwrite>>
    BY <1>4 DEF WriteSleep, Sleep
  <2>2. Count' = Count
    BY <2>1, CountSame
  <2> QED BY <2>1, <2>2 DEF ReasonInv
<1>5. ASSUME NEW p \in Procs, ReadSleep(p) PROVE ReasonInv'
  <2>1. /\ pc[p] = "readsleep" /\ pc' = [pc EXCEPT ![p] = "read"]
        /\ state' = [state EXCEPT ![p] = "SLEEPING"]
        /\ chan' = [chan EXCEPT ![p] = "nread"]
        /\ UNCHANGED <<readopen, writeopen, nread, nwrite>>
    BY <1>5 DEF ReadSleep, Sleep
  <2>2. Count' = Count
    BY <2>1, CountSame
  <2> QED BY <2>1, <2>2 DEF ReasonInv
<1>6. ASSUME NEW p \in Procs, ReadFail(p) \/ ReadEmpty(p) PROVE ReasonInv'
  <2>1. /\ state[p] = "RUNNABLE" /\ pc[p] = "read" /\ Count = 0
        /\ writeopen = 1
        /\ UNCHANGED <<readopen, writeopen, nread, nwrite, state, chan>>
        /\ \E l \in {"user", "readsleep"} : pc' = [pc EXCEPT ![p] = l]
    BY <1>6, <1>a DEF ReadFail, ReadEmpty
  <2>2. Count' = Count
    BY <2>1, CountSame
  <2> QED BY <2>1, <2>2 DEF ReasonInv
<1>7. ASSUME NEW p \in Procs, ReadCopy(p) PROVE ReasonInv'
  <2>1. /\ lock = "none" /\ state[p] = "RUNNABLE" /\ chan' = chan
        /\ pc' = [pc EXCEPT ![p] = "user"]
        /\ ~(Count = 0 /\ writeopen = 1)
        /\ state' = Woken("nwrite")
    BY <1>7, <1>a DEF ReadCopy
  <2>2. \A q \in Procs : pc'[q] \notin {"writesleep", "readsleep"}
    BY <1>b, <2>1
  <2>3. \A q \in Procs : state[q] = "SLEEPING" => chan[q] = "nwrite"
    BY <2>1 DEF ReasonInv
  <2>4. \A q \in Procs : state'[q] # "SLEEPING"
    BY <2>1, <2>3, WokenIs
  <2> QED BY <2>2, <2>4 DEF ReasonInv
<1>8. ASSUME NEW p \in Procs, NEW m \in Lens, CallWrite(p, m) \/ CallRead(p, m)
      PROVE  ReasonInv'
  <2>1. /\ state[p] = "RUNNABLE"
        /\ UNCHANGED <<readopen, writeopen, nread, nwrite, state, chan>>
        /\ \E l \in {"read", "write"} : pc' = [pc EXCEPT ![p] = l]
    BY <1>8 DEF CallWrite, CallRead, Call
  <2>2. Count' = Count
    BY <2>1, CountSame
  <2> QED BY <2>1, <2>2 DEF ReasonInv
<1>9. ASSUME NEW p \in Procs, PipeClose(p) PROVE ReasonInv'
  <2>1. /\ p \in fds /\ fds' = fds \ {p} /\ pc[p] = "user"
        /\ writeopen' = IF fds' \cap Writers = {} THEN 0 ELSE writeopen
        /\ readopen' = IF fds' \cap Readers = {} THEN 0 ELSE readopen
        /\ lock = "none" \/ (writeopen' = writeopen /\ readopen' = readopen)
        /\ UNCHANGED <<nread, nwrite, pc, chan>>
        /\ state' = IF writeopen' # writeopen THEN Woken("nread")
                    ELSE IF readopen' # readopen THEN Woken("nwrite")
                    ELSE state
    BY <1>9 DEF PipeClose, CloseEnd
  <2>2. Count' = Count
    BY <2>1, CountSame
  <2>3. \A q \in Procs : state'[q] = "SLEEPING" => state[q] = "SLEEPING"
    BY <2>1, WokenIs
  <2>4. ASSUME NEW q \in Procs, state'[q] = "SLEEPING", pc[q] = "read"
        PROVE  writeopen' = 1
    <3>1. /\ state[q] = "SLEEPING" /\ chan[q] = "nread" /\ writeopen = 1
      BY <2>3, <2>4 DEF ReasonInv
    <3>2. writeopen' = writeopen
      BY <2>1, <2>4, <3>1, WokenIs
    <3> QED BY <3>1, <3>2
  <2>5. ASSUME NEW q \in Procs, state'[q] = "SLEEPING", pc[q] = "write"
        PROVE  readopen' = 1
    <3>1. /\ state[q] = "SLEEPING" /\ chan[q] = "nwrite" /\ readopen = 1
          /\ q \in Writers /\ q \in fds /\ q # p
      BY <2>1, <2>3, <2>5 DEF ReasonInv, EndInv
    <3>2. writeopen' = writeopen
      BY <2>1, <3>1
    <3>3. readopen' = readopen
      BY <2>1, <2>5, <3>1, <3>2, WokenIs
    <3> QED BY <3>1, <3>3
  <2>6. \A q \in Procs : pc[q] \in {"readsleep", "writesleep"}
          => writeopen' = writeopen /\ readopen' = readopen
    BY <1>b, <2>1
  <2> QED BY <2>1, <2>2, <2>3, <2>4, <2>5, <2>6 DEF ReasonInv
<1>10. ASSUME NEW p \in Killable, Kill(p) PROVE ReasonInv'
  <2>1. /\ UNCHANGED <<readopen, writeopen, nread, nwrite, chan, pc>>
        /\ state' = [state EXCEPT ![p] = "RUNNABLE"]
    BY <1>10 DEF Kill
  <2>2. Count' = Count
    BY <2>1, CountSame
  <2> QED BY <2>1, <2>2 DEF ReasonInv
<1>11. CASE UNCHANGED vars
  <2>1. Count' = Count
    BY <1>11, CountSame DEF vars
  <2> QED BY <1>11, <2>1 DEF vars, ReasonInv
<1> HIDE <1>0 DEF ring, sched, Runs, Locks, Return
<1> QED BY <1>1, <1>2, <1>3, <1>4, <1>5, <1>6, <1>7, <1>8, <1>9, <1>10, <1>11
        DEF Next, WriteStep, ReadStep, UserStep

(* No reader sleeps while there are bytes or the write end is closed, and   *)
(* no writer while there is room or nobody can read, through the wrap of    *)
(* nread and nwrite, for any number of readers and writers, when only       *)
(* readers are killed: the wakeups of pipewrite, piperead and pipeclose are *)
(* enough.                                                                  *)
THEOREM SleepersHaveReason ==
  ASSUME Killable \cap Writers = {}
  PROVE  Spec => []SleeperHasReason
<1>1. PipeType /\ ReasonInv => SleeperHasReason
  BY RingFacts DEF PipeType, RingInv, ReasonInv, SleeperHasReason
<1> QED
  BY <1>1, InitPipe, NextPipeType, NextEnd, NextReason, PTL DEF Spec

-----------------------------------------------------------------------------
(* The place of a byte in the ring: the counters wrap at a multiple of its  *)
(* size, so that the place only depends on the sum.                         *)
LEMMA DivMod ==
  ASSUME NEW P \in Nat, P > 0, NEW a \in Int
  PROVE  /\ a \div P \in Int /\ a % P \in 0..(P - 1)
         /\ a = P * (a \div P) + (a % P)
<1>1. a \div P \in Int
  OBVIOUS
<1>2. a % P \in 0..(P - 1)
  OBVIOUS
<1>3. a = P * (a \div P) + (a % P)
  OBVIOUS
<1> QED BY <1>1, <1>2, <1>3

LEMMA ModUnique ==
  ASSUME NEW P \in Nat, P > 0, NEW q \in Int, NEW r \in 0..(P - 1)
  PROVE  (P * q + r) % P = r
<1> DEFINE b == P * q + r
           d == b \div P
           m == b % P
<1>1. b \in Int /\ d \in Int /\ m \in 0..(P - 1) /\ b = P * d + m
  OBVIOUS
<1>2. P * (q - d) = m - r
  BY <1>1
<1>3. m - r < P /\ m - r > -P
  BY <1>1
<1> HIDE DEF b, d, m
<1>4. q - d < 1
  BY <1>1, <1>2, <1>3
<1>5. q - d > -1
  BY <1>1, <1>2, <1>3
<1>6. q = d
  BY <1>1, <1>4, <1>5
<1>7. m = r
  BY <1>1, <1>2, <1>6
<1> QED BY <1>7 DEF m, b

LEMMA ModPlus ==
  ASSUME NEW P \in Nat, P > 0, NEW a \in Int, NEW z \in Int
  PROVE  (a + P * z) % P = a % P
<1> DEFINE d == a \div P
           m == a % P
<1>1. d \in Int /\ m \in 0..(P - 1) /\ a = P * d + m
  BY DivMod
<1> HIDE DEF d, m
<1>2. d + z \in Int /\ P * (d + z) = P * d + P * z
  BY <1>1
<1>3. a + P * z = P * (d + z) + m
  BY <1>1, <1>2
<1>4. (P * (d + z) + m) % P = m
  BY <1>1, <1>2, ModUnique
<1> QED BY <1>3, <1>4 DEF m

LEMMA ModInj ==
  ASSUME NEW P \in Nat, P > 0, NEW x \in Int, NEW y \in Int,
         y <= x, x < y + P, x % P = y % P
  PROVE  x = y
<1>1. /\ x \div P \in Int /\ x = P * (x \div P) + (x % P)
      /\ y \div P \in Int /\ y = P * (y \div P) + (y % P)
  BY DivMod
<1>2. x - y = P * (x \div P - y \div P)
  BY <1>1
<1> DEFINE e == x \div P - y \div P
<1>3. e \in Int /\ P * e >= 0 /\ P * e < P
  BY <1>1, <1>2
<1> HIDE DEF e
<1>4. e = 0
  BY <1>3
<1> QED BY <1>2, <1>4 DEF e

LEMMA Place ==
  ASSUME NEW x \in Int, NEW y \in Int
  PROVE  /\ ((x % UintMod) + y) % PIPESIZE = (x + y) % PIPESIZE
         /\ x % PIPESIZE \in 0..(PIPESIZE - 1)
<1>0. /\ UintMod \in Nat /\ UintMod > 0 /\ PIPESIZE \in Nat /\ PIPESIZE > 0
      /\ UintMod % PIPESIZE = 0
  BY PipeAssumption
<1> DEFINE f == UintMod \div PIPESIZE
           d == x \div UintMod
           m == x % UintMod
           z == f * d
           a == m + y
<1>1. f \in Int /\ UintMod = PIPESIZE * f
  BY <1>0, DivMod
<1>2. d \in Int /\ m \in Int /\ x = UintMod * d + m
  BY <1>0, DivMod
<1> HIDE DEF f, d, m
<1>3. z \in Int /\ a \in Int
  BY <1>1, <1>2
<1>4. UintMod * d = PIPESIZE * z
  BY <1>0, <1>1, <1>2
<1> HIDE DEF z
<1>5. x + y = a + PIPESIZE * z
  BY <1>0, <1>2, <1>3, <1>4
<1> HIDE DEF a
<1>6. (a + PIPESIZE * z) % PIPESIZE = a % PIPESIZE
  BY <1>0, <1>3, ModPlus
<1>7. x % PIPESIZE \in 0..(PIPESIZE - 1)
  BY <1>0, DivMod
<1> QED BY <1>5, <1>6, <1>7 DEF a, m

-----------------------------------------------------------------------------
(* The bytes in the ring, oldest first, as a sequence. *)
DataInv == data \in [0..(PIPESIZE - 1) -> Bytes]

LEMMA Catenation ==
  ASSUME NEW a \in Nat, NEW b \in Nat,
         NEW f \in [1..a -> Bytes], NEW g \in [1..b -> Bytes],
         NEW h \in [1..(a + b) -> Bytes],
         \A j \in 1..a : h[j] = f[j],
         \A j \in 1..b : h[a + j] = g[j]
  PROVE  h = f \o g
<1>1. f \in Seq(Bytes) /\ Len(f) = a /\ g \in Seq(Bytes) /\ Len(g) = b
  OBVIOUS
<1>2. h \in Seq(Bytes) /\ Len(h) = a + b
  OBVIOUS
<1>3. /\ f \o g \in Seq(Bytes) /\ Len(f \o g) = a + b
      /\ \A j \in 1..(a + b) : (f \o g)[j] = IF j <= a THEN f[j] ELSE g[j - a]
  BY <1>1, ConcatProperties
<1>4. ASSUME NEW j \in 1..(a + b) PROVE h[j] = (f \o g)[j]
  <2>1. CASE j <= a
    BY <1>3, <2>1
  <2>2. CASE j > a
    <3>1. j - a \in 1..b /\ a + (j - a) = j
      BY <2>2
    <3>2. h[j] = g[j - a]
      BY <3>1
    <3> QED BY <1>3, <2>2, <3>2
  <2> QED BY <2>1, <2>2
<1> QED BY <1>2, <1>3, <1>4, SeqEqual

LEMMA Cut ==
  ASSUME NEW a \in Nat, NEW b \in Nat, NEW f \in [1..(a + b) -> Bytes],
         NEW g \in [1..b -> Bytes], \A j \in 1..b : g[j] = f[a + j]
  PROVE  g = SubSeq(f, a + 1, a + b)
<1>1. f \in Seq(Bytes) /\ Len(f) = a + b /\ g \in Seq(Bytes) /\ Len(g) = b
  OBVIOUS
<1> DEFINE h == SubSeq(f, a + 1, a + b)
<1>2. h \in Seq(Bytes) /\ Len(h) = b
  BY <1>1
<1>3. ASSUME NEW j \in 1..b PROVE h[j] = g[j]
  BY <1>1
<1> QED BY <1>1, <1>2, <1>3

LEMMA Front ==
  ASSUME NEW k \in Nat, NEW b \in Nat, k <= b, NEW f \in [1..b -> Bytes],
         NEW g \in [1..k -> Bytes], \A j \in 1..k : g[j] = f[j]
  PROVE  g = SubSeq(f, 1, k)
<1>1. f \in Seq(Bytes) /\ Len(f) = b /\ g \in Seq(Bytes) /\ Len(g) = k
  OBVIOUS
<1> DEFINE h == SubSeq(f, 1, k)
<1>2. h \in Seq(Bytes) /\ Len(h) = k
  BY <1>1
<1>3. ASSUME NEW j \in 1..k PROVE h[j] = g[j]
  BY <1>1
<1> QED BY <1>1, <1>2, <1>3

LEMMA OldestIs ==
  ASSUME DataInv, RingInv, NEW k \in Nat
  PROVE  Oldest(k) \in [1..k -> Bytes] /\ Len(Oldest(k)) = k
<1>1. PIPESIZE \in Nat /\ nread \in Int
  BY PipeAssumption DEF RingInv
<1>2. ASSUME NEW j \in 1..k PROVE (nread + j - 1) % PIPESIZE \in 0..(PIPESIZE - 1)
  BY <1>1, Place
<1>3. Oldest(k) \in [1..k -> Bytes]
  BY <1>2 DEF Oldest, DataInv
<1> QED BY <1>3, LenFun

LEMMA WriteEnd ==
  ASSUME RingInv
  PROVE  nwrite = (nread + Count) % UintMod
<1>0. UintMod \in Nat /\ UintMod > 0 /\ PIPESIZE \in Nat /\ PIPESIZE < UintMod
  BY PipeAssumption
<1> DEFINE a == nread + Count
<1>1. a \in Int /\ 0 <= a /\ a < 2 * UintMod
  BY <1>0, RingFacts DEF RingInv
<1>2. a % UintMod = IF a < UintMod THEN a ELSE a - UintMod
  BY <1>0, <1>1, ModSmall
<1> QED BY <1>0, <1>2, RingFacts DEF RingInv

(* The place of the k-th new byte is past the places of the bytes that are  *)
(* there and of the new bytes before it. *)
LEMMA PlaceOfNew ==
  ASSUME RingInv, NEW k \in Nat
  PROVE  (nwrite + k - 1) % PIPESIZE = (nread + Count + k - 1) % PIPESIZE
<1>1. nread \in Int /\ Count \in Int
  BY RingFacts DEF RingInv
<1> DEFINE x == nread + Count
           y == k - 1
<1>2. x \in Int /\ y \in Int
  BY <1>1
<1>3. nwrite = x % UintMod
  BY WriteEnd
<1>4. ((x % UintMod) + y) % PIPESIZE = (x + y) % PIPESIZE
  BY <1>2, Place
<1>5. nwrite + k - 1 = nwrite + y /\ nread + Count + k - 1 = x + y
  BY <1>1 DEF RingInv
<1> QED BY <1>3, <1>4, <1>5

LEMMA PlacesDiffer ==
  ASSUME RingInv, NEW x \in Nat, NEW y \in Nat, y < x, x - y < PIPESIZE
  PROVE  (nread + x - 1) % PIPESIZE # (nread + y - 1) % PIPESIZE
<1>1. nread \in Int /\ PIPESIZE \in Nat /\ PIPESIZE > 0
  BY PipeAssumption DEF RingInv
<1> DEFINE a == nread + x - 1
           b == nread + y - 1
<1>2. a \in Int /\ b \in Int /\ b <= a /\ a < b + PIPESIZE /\ a # b
  BY <1>1
<1> HIDE DEF a, b
<1>3. a % PIPESIZE # b % PIPESIZE
  BY <1>1, <1>2, ModInj
<1> QED BY <1>3 DEF a, b

(* pipewrite appends its bytes to the queue. *)
LEMMA PutQueue ==
  ASSUME RingInv, DataInv, NEW k \in Nat, NEW s \in [1..k -> Bytes],
         CopyIn(s), nread' = nread, Count + k <= PIPESIZE
  PROVE  /\ DataInv' /\ RingInv' /\ Count' = Count + k
         /\ Oldest(Count)' = Oldest(Count) \o s
<1>0. /\ PIPESIZE \in Nat /\ PIPESIZE > 0 /\ Count \in Nat /\ nread \in Int
      /\ nwrite \in Int /\ Len(s) = k
  BY PipeAssumption, RingFacts, LenFun DEF RingInv
<1>1. RingInv' /\ Count' = Count + k
  BY <1>0, CountIn DEF CopyIn
<1> DEFINE D == 0..(PIPESIZE - 1)
           new(j) == (nwrite + j - 1) % PIPESIZE
           old(j) == (nread + j - 1) % PIPESIZE
<1>2. ASSUME NEW j \in Nat PROVE new(j) = old(Count + j)
  <2>1. new(j) = (nread + Count + j - 1) % PIPESIZE
    BY PlaceOfNew
  <2>2. nread + Count + j - 1 = nread + (Count + j) - 1
    BY <1>0
  <2> QED BY <2>1, <2>2
<1>3. ASSUME NEW j \in Nat PROVE old(j) \in D
  <2>1. nread + j - 1 \in Int
    BY <1>0
  <2> QED BY <2>1, Place
<1>4. ASSUME NEW x \in Nat, NEW y \in Nat, y < x, x - y < PIPESIZE
      PROVE  old(x) # old(y)
  BY <1>4, PlacesDiffer
<1>5. data' = [j \in D |-> IF \E m \in 1..k : j = new(m)
                             THEN s[CHOOSE m \in 1..k : j = new(m)]
                             ELSE data[j]]
  BY <1>0 DEF CopyIn, DataInv
<1> HIDE DEF D, new, old
<1>6. DataInv'
  <2>1. ASSUME NEW j \in D PROVE data'[j] \in Bytes
    BY <1>5 DEF DataInv, D
  <2> QED BY <1>5, <2>1 DEF DataInv, D
<1>7. ASSUME NEW j \in 1..Count PROVE data'[old(j)] = data[old(j)]
  <2>1. ASSUME NEW m \in 1..k PROVE old(j) # new(m)
    <3> DEFINE c == Count + m
    <3>1. c \in Nat /\ j \in Nat /\ j < c /\ c - j < PIPESIZE
      BY <1>0
    <3> HIDE DEF c
    <3>2. old(c) # old(j)
      BY <1>4, <3>1
    <3> USE DEF c
    <3> QED BY <1>2, <3>2
  <2>2. old(j) \in D
    BY <1>0, <1>3
  <2> QED BY <1>5, <2>1, <2>2
<1>8. ASSUME NEW j \in 1..k PROVE data'[old(Count + j)] = s[j]
  <2>1. ASSUME NEW m \in 1..k, new(m) = new(j) PROVE m = j
    <3>1. CASE m < j
      <4>1. /\ Count + j \in Nat /\ Count + m \in Nat
            /\ Count + m < Count + j /\ (Count + j) - (Count + m) < PIPESIZE
        BY <1>0, <3>1
      <4>2. old(Count + j) # old(Count + m)
        BY <1>4, <4>1
      <4> QED BY <1>2, <2>1, <4>2
    <3>2. CASE j < m
      <4>1. /\ Count + j \in Nat /\ Count + m \in Nat
            /\ Count + j < Count + m /\ (Count + m) - (Count + j) < PIPESIZE
        BY <1>0, <3>2
      <4>2. old(Count + m) # old(Count + j)
        BY <1>4, <4>1
      <4> QED BY <1>2, <2>1, <4>2
    <3> QED BY <3>1, <3>2
  <2>2. (CHOOSE m \in 1..k : new(j) = new(m)) = j
    BY <2>1
  <2>3. new(j) \in D /\ new(j) = old(Count + j)
    BY <1>0, <1>2, <1>3
  <2> QED BY <1>5, <2>2, <2>3
<1>9. Oldest(Count)' = Oldest(Count) \o s
  <2> DEFINE f == Oldest(Count)
             h == [j \in 1..(Count + k) |-> data'[old(j)]]
  <2>1. Oldest(Count)' = h
    BY <1>1 DEF Oldest, old
  <2>2. f \in [1..Count -> Bytes]
    BY <1>0, OldestIs
  <2>3. h \in [1..(Count + k) -> Bytes]
    <3>1. ASSUME NEW j \in 1..(Count + k) PROVE data'[old(j)] \in Bytes
      <4>1. old(j) \in D
        BY <1>0, <1>3
      <4> QED BY <1>6, <4>1 DEF DataInv, D
    <3> QED BY <3>1
  <2>4. \A j \in 1..Count : h[j] = f[j]
    BY <1>0, <1>7 DEF Oldest, old
  <2>5. \A j \in 1..k : h[Count + j] = s[j]
    BY <1>0, <1>8
  <2> HIDE DEF f, h
  <2>6. h = f \o s
    <3>1. Count \in Nat
      BY <1>0
    <3> QED BY ONLY <3>1, <2>2, <2>3, <2>4, <2>5, k \in Nat,
                    s \in [1..k -> Bytes], Catenation
  <2> QED BY <2>1, <2>6 DEF f
<1> QED BY <1>1, <1>6, <1>9

(* piperead takes its bytes from the front of the queue. *)
LEMMA TakeQueue ==
  ASSUME RingInv, DataInv, NEW k \in 0..Count, CopyOut(k),
         nwrite' = nwrite, data' = data
  PROVE  /\ RingInv'
         /\ Oldest(Count)' = SubSeq(Oldest(Count), k + 1, Len(Oldest(Count)))
         /\ Oldest(k) = SubSeq(Oldest(Count), 1, k)
<1>0. /\ PIPESIZE \in Nat /\ PIPESIZE > 0 /\ Count \in Nat /\ nread \in Int
      /\ k \in Nat /\ k <= Count
  BY PipeAssumption, RingFacts DEF RingInv
<1>1. RingInv' /\ Count' = Count - k
  BY <1>0, CountOut DEF CopyOut
<1> DEFINE f == Oldest(Count)
           b == Count - k
           g == [j \in 1..b |-> data[(nread' + j - 1) % PIPESIZE]]
<1>2. f \in [1..Count -> Bytes] /\ Len(f) = Count
  BY <1>0, OldestIs
<1>3. ASSUME NEW j \in 1..b
      PROVE  (nread' + j - 1) % PIPESIZE = (nread + (k + j) - 1) % PIPESIZE
  <2> DEFINE x == nread + k
             y == j - 1
  <2>1. x \in Int /\ y \in Int
    BY <1>0
  <2>2. nread' = x % UintMod
    BY DEF CopyOut
  <2>3. ((x % UintMod) + y) % PIPESIZE = (x + y) % PIPESIZE
    BY <2>1, Place
  <2>4. nread' + j - 1 = nread' + y /\ nread + (k + j) - 1 = x + y
    BY <1>0, <1>1 DEF RingInv
  <2> QED BY <2>2, <2>3, <2>4
<1>4. b \in Nat /\ k + b = Count /\ Oldest(Count)' = g
  BY <1>0, <1>1 DEF Oldest
<1>5. \A j \in 1..b : g[j] = f[k + j]
  BY <1>0, <1>3 DEF Oldest
<1>6. g \in [1..b -> Bytes]
  <2>1. \A j \in 1..b : k + j \in 1..Count /\ f[k + j] \in Bytes
    BY <1>0, <1>2
  <2> QED BY <1>5, <2>1
<1>7. Oldest(k) \in [1..k -> Bytes]
  BY <1>0, OldestIs
<1>8. \A j \in 1..k : Oldest(k)[j] = f[j]
  BY <1>0 DEF Oldest
<1> HIDE DEF f, b, g
<1>9. g = SubSeq(f, k + 1, Count)
  BY <1>0, <1>2, <1>4, <1>5, <1>6, Cut
<1>10. Oldest(k) = SubSeq(f, 1, k)
  BY <1>0, <1>2, <1>7, <1>8, Front
<1> QED BY <1>1, <1>2, <1>4, <1>9, <1>10 DEF f

-----------------------------------------------------------------------------
(* An open end still has a descriptor. *)
OpenInv ==
  /\ DataInv
  /\ writeopen = 1 => fds \cap Writers # {}
  /\ readopen = 1 => fds \cap Readers # {}

(* The ends of the abstract pipe. *)
Ends == (IF readopen = 1 THEN {"read"} ELSE {})
          \cup (IF writeopen = 1 THEN {"write"} ELSE {})

LEMMA InitOpen ==
  ASSUME Writers # {}, Readers # {}, Init
  PROVE  OpenInv /\ Abstract!Init
<1>1. OpenInv
  BY PipeAssumption DEF Init, OpenInv, DataInv, Procs
<1>2. PipeType /\ Count = 0
  BY InitPipe, RingFacts DEF Init, Empty, PipeType, RingInv
<1>3. Oldest(Count) = <<>>
  BY <1>2 DEF Oldest
<1> QED BY <1>1, <1>3 DEF Init, Abstract!Init, Abstract!Quiet, Quiet

(* A step of pipewrite. *)
LEMMA WriteRefines ==
  ASSUME PipeType, EndInv, OpenInv, NEW p \in Procs,
         WriteDone(p) \/ WriteFail(p) \/ WriteFull(p)
  PROVE  OpenInv' /\ Abstract!Next
<1>0. /\ PIPESIZE \in Nat /\ Count \in Nat /\ Count <= PIPESIZE /\ RingInv
      /\ DataInv /\ n[p] \in Nat /\ i[p] \in Nat /\ i[p] <= n[p]
      /\ writeopen \in {0, 1}
  BY PipeAssumption, RingFacts DEF PipeType, RingInv, OpenInv
<1>1. /\ nread' = nread /\ readopen' = readopen /\ writeopen' = writeopen
      /\ fds' = fds /\ pc[p] = "write"
      /\ \E s \in [1..Room(p) -> Bytes] : CopyIn(s)
  BY DEF WriteDone, WriteFail, WriteFull, Locks, Runs
<1>2. Room(p) \in Nat /\ Count + Room(p) <= PIPESIZE
  BY <1>0 DEF Room, Least
<1> DEFINE k == Room(p)
<1>3. PICK s \in [1..k -> Bytes] : CopyIn(s)
  BY <1>1
<1> HIDE DEF k
<1>4. k \in 0..PIPESIZE /\ k \in Nat /\ Count + k <= PIPESIZE
  BY <1>0, <1>2 DEF k
<1>5. DataInv' /\ Oldest(Count)' = Oldest(Count) \o s
  BY <1>0, <1>1, <1>3, <1>4, PutQueue
<1>6. "write" \in Ends /\ Ends' = Ends
  BY <1>0, <1>1 DEF Ends, EndInv
<1>7. Len(Oldest(Count)) + Len(s) <= PIPESIZE
  BY <1>0, <1>4, OldestIs, LenFun
<1>8. wire' = [dir |-> "in", bytes |-> s]
  BY <1>3 DEF CopyIn
<1>9. Abstract!Put(s)
  BY <1>5, <1>6, <1>7, <1>8 DEF Abstract!Put, Ends
<1>10. OpenInv'
  BY <1>1, <1>5 DEF OpenInv
<1> QED BY <1>4, <1>9, <1>10 DEF Abstract!Next

(* The step in which piperead copies. *)
LEMMA ReadRefines ==
  ASSUME PipeType, EndInv, OpenInv, NEW p \in Procs, ReadCopy(p)
  PROVE  OpenInv' /\ Abstract!Next
<1> DEFINE k == Least(n[p], Count)
<1>0. /\ Count \in Nat /\ RingInv /\ DataInv /\ n[p] \in Nat
      /\ readopen \in {0, 1}
  BY RingFacts DEF PipeType, RingInv, OpenInv
<1>1. /\ nwrite' = nwrite /\ data' = data /\ fds' = fds /\ pc[p] = "read"
      /\ readopen' = readopen /\ writeopen' = writeopen /\ CopyOut(k)
  BY DEF ReadCopy, Locks, Runs
<1>2. k \in 0..Count
  BY <1>0 DEF Least
<1> HIDE DEF k
<1>3. /\ Oldest(Count)' = SubSeq(Oldest(Count), k + 1, Len(Oldest(Count)))
      /\ Oldest(k) = SubSeq(Oldest(Count), 1, k)
  BY <1>0, <1>1, <1>2, TakeQueue
<1>4. "read" \in Ends /\ Ends' = Ends
  BY <1>0, <1>1 DEF Ends, EndInv
<1>5. wire' = [dir |-> "out", bytes |-> SubSeq(Oldest(Count), 1, k)]
  BY <1>1, <1>3 DEF CopyOut
<1>6. Abstract!Take(k)
  BY <1>3, <1>4, <1>5 DEF Abstract!Take, Ends
<1>7. k \in 0..Len(Oldest(Count))
  BY <1>0, <1>2, OldestIs
<1>8. OpenInv'
  BY <1>1 DEF OpenInv, DataInv
<1> QED BY <1>6, <1>7, <1>8 DEF Abstract!Next

LEMMA QueueSame ==
  ASSUME nread' = nread, nwrite' = nwrite, data' = data
  PROVE  Oldest(Count)' = Oldest(Count) /\ (DataInv => DataInv')
BY DEF Oldest, Count, DataInv

(* A step that moves no bytes and closes no end. *)
LEMMA IdleRefines ==
  ASSUME OpenInv, wire' = Quiet, UNCHANGED <<ring, fds>>
  PROVE  OpenInv' /\ Abstract!Next
<1>1. Oldest(Count)' = Oldest(Count) /\ DataInv'
  BY QueueSame DEF ring, OpenInv
<1>2. Abstract!Idle
  BY <1>1 DEF Abstract!Idle, Abstract!Quiet, Quiet, ring
<1> QED BY <1>1, <1>2 DEF OpenInv, ring, Abstract!Next

(* pipeclose closes at most one end: the other has a descriptor left or was *)
(* closed before. *)
LEMMA CloseRefines ==
  ASSUME PipeType, EndInv, OpenInv, NEW p \in Procs, PipeClose(p)
  PROVE  OpenInv' /\ Abstract!Next
<1>0. /\ readopen \in {0, 1} /\ writeopen \in {0, 1} /\ fds \subseteq Procs
      /\ p \in Writers \/ p \in Readers
      /\ Writers \cap Readers = {}
  BY PipeAssumption DEF PipeType, Procs
<1>1. Oldest(Count)' = Oldest(Count) /\ DataInv'
  BY QueueSame DEF PipeClose, OpenInv
<1>2. /\ fds' = fds \ {p} /\ wire' = Quiet
      /\ writeopen' = IF fds' \cap Writers = {} THEN 0 ELSE writeopen
      /\ readopen' = IF fds' \cap Readers = {} THEN 0 ELSE readopen
  BY DEF PipeClose, CloseEnd
<1>3. OpenInv'
  BY <1>0, <1>1, <1>2 DEF OpenInv
<1>4. \/ writeopen' = writeopen /\ readopen' = readopen
      \/ writeopen = 1 /\ writeopen' = 0 /\ readopen' = readopen
      \/ readopen = 1 /\ readopen' = 0 /\ writeopen' = writeopen
  BY <1>0, <1>2 DEF OpenInv
<1>5. Ends' = Ends \/ \E e \in {"read", "write"} : e \in Ends /\ Ends' = Ends \ {e}
  BY <1>0, <1>4 DEF Ends
<1>6. Abstract!Idle \/ \E e \in {"read", "write"} : Abstract!Close(e)
  BY <1>1, <1>2, <1>5
     DEF Abstract!Idle, Abstract!Close, Abstract!Quiet, Quiet, Ends
<1> QED BY <1>3, <1>6 DEF Abstract!Next

LEMMA StepRefines ==
  PipeType /\ EndInv /\ OpenInv /\ [Next]_vars
    => OpenInv' /\ [Abstract!Next]_(Abstract!vars)
<1> SUFFICES ASSUME PipeType, EndInv, OpenInv, [Next]_vars
             PROVE  OpenInv' /\ [Abstract!Next]_(Abstract!vars)
  OBVIOUS
<1>1. ASSUME NEW p \in Procs, WriteStep(p) PROVE OpenInv' /\ Abstract!Next
  BY <1>1, WriteRefines, IdleRefines DEF WriteStep, WriteSleep, Sleep
<1>2. ASSUME NEW p \in Procs, ReadStep(p) PROVE OpenInv' /\ Abstract!Next
  BY <1>2, ReadRefines, IdleRefines
     DEF ReadStep, ReadFail, ReadEmpty, ReadSleep, Sleep
<1>3. ASSUME NEW p \in Procs, UserStep(p) PROVE OpenInv' /\ Abstract!Next
  BY <1>3, CloseRefines, IdleRefines DEF UserStep, CallWrite, CallRead, Call
<1>4. ASSUME NEW p \in Killable, Kill(p) PROVE OpenInv' /\ Abstract!Next
  BY <1>4, IdleRefines DEF Kill
<1>5. CASE UNCHANGED vars
  <2>1. Oldest(Count)' = Oldest(Count) /\ (DataInv => DataInv')
    BY <1>5, QueueSame DEF vars, ring
  <2> QED BY <1>5, <2>1 DEF vars, ring, OpenInv, Abstract!vars
<1> QED BY <1>1, <1>2, <1>3, <1>4, <1>5 DEF Next

(* pipe.c is a bounded queue of bytes, for any size of the ring, any number *)
(* of readers and writers (at least one of each) and lengths of their reads *)
(* and writes: through the wrap of nread and nwrite and of the ring, and    *)
(* with the calls of several procs cut into pieces, the bytes come out in   *)
(* the order in which they went in, none lost and none repeated. *)
THEOREM PipeIsQueue ==
  ASSUME Writers # {}, Readers # {}
  PROVE  Spec => ImplementsPipe
BY InitPipe, NextPipeType, NextEnd, InitOpen, StepRefines, PTL
   DEF Spec, ImplementsPipe, Abstract!Spec
=============================================================================
