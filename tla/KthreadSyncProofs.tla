------------------------- MODULE KthreadSyncProofs -------------------------
(***************************************************************************)
(* Proofs about KthreadSync, for any number of threads, mutexes, condition *)
(* variables and waiting slots: types and mutual exclusion; no waiting     *)
(* slot is handed out twice; and, when every signaller holds the mutex, no *)
(* wakeup is lost: a sleeper stays registered (SleepInv), and a signal     *)
(* passes no sleeper by, so it finds one.                                  *)
(***************************************************************************)
EXTENDS KthreadSync, TLAPS

SigLabels  == {"sigscan", "sigread", "sigwake", "sigclear"}
WaitLabels == {"scan", "register", "msleep", "asleep", "relock"}

(* The arguments of the call a proc is in are what the call was given. *)
CallInv ==
  \A p \in Procs :
    /\ pc[p] \in {"spin", "acquire", "xchg", "unlock"} => mx[p] \in Mutexes
    /\ pc[p] \in WaitLabels => /\ p \in Threads /\ cv[p] \in Condvars
                               /\ mx[p] = MutexOf[cv[p]]
    /\ pc[p] \in SigLabels => cv[p] \in Condvars
    /\ pc[p] \in {"scan", "sigscan"} => idx[p] >= 1
    /\ pc[p] \in {"register", "msleep", "asleep", "relock",
                  "sigread", "sigwake", "sigclear"} => idx[p] \in Slots

-----------------------------------------------------------------------------
(* Why mutual exclusion is inductive: a thread that waits for a mutex does  *)
(* not hold it, a thread that unlocks or waits does, a mutex in use is      *)
(* initialised, and the lock word says whether there is a holder.           *)
HoldInv ==
  /\ \A t \in Threads : \A m \in held[t] :
       /\ mid[m] = m
       /\ locked[m] = 1
       /\ \A u \in Threads : m \in held[u] => u = t
  /\ \A t \in Threads :
       pc[t] \in {"spin", "acquire", "xchg", "asleep", "relock"}
         => mid[mx[t]] = mx[t] /\ mx[t] \notin held[t]
  /\ \A t \in Threads :
       pc[t] \in {"unlock", "scan", "register", "msleep"} => mx[t] \in held[t]
  /\ \A m \in Mutexes :
       mid[m] = m /\ locked[m] = 1 => \E t \in Threads : m \in held[t]

-----------------------------------------------------------------------------
(* The slot a waiter found empty is still empty when it registers: only the *)
(* holder of the mutex of the condition variable fills a slot.              *)
RegisterInv ==
  \A t \in Threads : pc[t] = "register" => waiting[cv[t]][idx[t]] = 0

(* Why no wakeup is lost when every signaller holds the mutex: from the     *)
(* scan of condvar_wait to the sleep, and from the scan of condvar_signal   *)
(* to the clear, the mutex keeps the two apart.                             *)
SleepInv ==
  /\ \A p \in Procs :
       pc[p] \in SigLabels => p \in Threads /\ MutexOf[cv[p]] \in held[p]
  /\ \A t \in Threads : pc[t] = "msleep" => waiting[cv[t]][idx[t]] = t
  /\ \A t \in Threads :
       state[t] = "SLEEPING"
         => pc[t] = "asleep" /\ waiting[cv[t]][idx[t]] = t /\ chan[t] = t
  /\ \A p \in Procs :
       pc[p] \in {"sigread", "sigwake", "sigclear"}
         => waiting[cv[p]][idx[p]] \in Threads
  /\ \A p \in Procs :
       pc[p] = "sigwake" => tgt[p] = waiting[cv[p]][idx[p]]
  /\ \A c \in Condvars :
       cvid[c] = -1 => \A i \in Slots : waiting[c][i] = -1

LEMMA ConstFacts ==
  /\ Threads \subseteq Procs
  /\ 0 \notin Threads /\ -1 \notin Threads
  /\ MutexOf \in [Condvars -> Mutexes]
  /\ Slots \subseteq Nat /\ 0 \notin Slots
  /\ \A i \in 0..(MAXTHRDS + 1) : i >= 1 /\ i # MAXTHRDS + 1 => i \in Slots
  /\ \A i \in Slots : i \in 0..(MAXTHRDS + 1) /\ i + 1 \in 0..(MAXTHRDS + 1)
  /\ 0 \in 0..(MAXTHRDS + 1) /\ 1 \in 0..(MAXTHRDS + 1)
BY SyncAssumption DEF Procs, Condvars, Mutexes, Slots

LEMMA NoSlotMinusOne == -1 \notin Mutexes /\ -1 \notin Condvars
BY SyncAssumption DEF Mutexes, Condvars

(* Every step of the kernel keeps sleepers registered. *)
LEMMA NextSleep ==
  ASSUME BareSignallers = {}
  PROVE  TypeOK /\ CallInv /\ HoldInv /\ RegisterInv /\ SleepInv
           /\ NoSleeperPassed /\ [Next]_vars => SleepInv'
<1> SUFFICES ASSUME TypeOK, CallInv, HoldInv, RegisterInv, SleepInv,
                    NoSleeperPassed, [Next]_vars
             PROVE  SleepInv'
    OBVIOUS
<1>0. /\ Threads \subseteq Procs
      /\ 0 \notin Threads /\ -1 \notin Threads
      /\ DOMAIN pc = Procs /\ DOMAIN cv = Procs /\ DOMAIN idx = Procs
      /\ DOMAIN tgt = Procs /\ DOMAIN held = Threads
      /\ DOMAIN state = Threads /\ DOMAIN chan = Threads
      /\ cvid \in [Condvars -> Condvars \cup {-1}]
      /\ waiting \in [Condvars -> [Slots -> Threads \cup {-1, 0}]]
  BY ConstFacts DEF TypeOK
<1> USE <1>0 DEF SleepInv, local, kernel, sched, Goto, Return
<1>1. CASE MutexInit
  BY <1>1 DEF MutexInit, SigLabels
<1>2. CASE CondInit
  <2>1. PICK c \in Condvars :
          /\ cvid[c] = -1
          /\ cvid' = [cvid EXCEPT ![c] = c]
          /\ waiting' = [waiting EXCEPT ![c] = [i \in Slots |-> 0]]
    BY <1>2 DEF CondInit
  <2>2. UNCHANGED <<pc, held, tgt, sched, cv, idx>>
    BY <1>2 DEF CondInit
  <2>3. ASSUME NEW p \in Procs, cv[p] \in Condvars, idx[p] \in Slots,
               waiting[cv[p]][idx[p]] \in Threads
        PROVE  waiting'[cv[p]][idx[p]] = waiting[cv[p]][idx[p]]
    BY <2>1, <2>3
  <2>4. \A d \in Condvars :
          cvid'[d] = -1 => \A i \in Slots : waiting'[d][i] = -1
    BY <2>1, NoSlotMinusOne
  <2>5. \A p \in Procs :
          pc[p] \in {"msleep", "asleep", "sigread", "sigwake", "sigclear"}
            => cv[p] \in Condvars /\ idx[p] \in Slots
    BY DEF CallInv, WaitLabels, SigLabels
  <2> QED BY <2>2, <2>3, <2>4, <2>5
<1>3. ASSUME NEW m \in Mutexes, MutexDestroy(m) PROVE SleepInv'
  BY <1>3 DEF MutexDestroy, SigLabels
<1>4. ASSUME NEW c \in Condvars, CondDestroy(c) PROVE SleepInv'
  BY <1>4 DEF CondDestroy, CondQuiet, CallInv, WaitLabels, SigLabels
<1>5. ASSUME NEW t \in Threads, NEW m \in Mutexes, MutexLock(t, m)
      PROVE SleepInv'
  BY <1>5 DEF MutexLock, SigLabels
<1>6. ASSUME NEW t \in Threads, NEW m \in Mutexes, MutexUnlock(t, m)
      PROVE SleepInv'
  BY <1>6 DEF MutexUnlock, SigLabels
<1>7. ASSUME NEW t \in Threads, NEW c \in Condvars, CondWait(t, c)
      PROVE SleepInv'
  BY <1>7 DEF CondWait, SigLabels
<1>8. ASSUME NEW p \in Procs, NEW c \in Condvars, NEW k \in {"signal", "broadcast"}, CondSignal(p, c, k)
      PROVE SleepInv'
  BY <1>8 DEF CondSignal, MaySignal, SigLabels
<1>9. ASSUME NEW t \in Threads, LockSpin(t) PROVE SleepInv'
  BY <1>9 DEF LockSpin, SigLabels
<1>10. ASSUME NEW t \in Threads, LockAcquire(t) PROVE SleepInv'
  BY <1>10 DEF LockAcquire, SigLabels
<1>11. ASSUME NEW t \in Threads, LockXchg(t) PROVE SleepInv'
  BY <1>11 DEF LockXchg, SigLabels
<1>12. ASSUME NEW t \in Threads, UnlockXchg(t) PROVE SleepInv'
  BY <1>12 DEF UnlockXchg, SigLabels
<1>13. ASSUME NEW t \in Threads, WaitScan(t) PROVE SleepInv'
  <2>1. CASE waiting[cv[t]][idx[t]] = 0
    BY <1>13, <2>1 DEF WaitScan, SigLabels
  <2>2. CASE waiting[cv[t]][idx[t]] # 0
    <3>1. pc[t] = "scan" /\ state[t] # "SLEEPING"
      BY <1>13 DEF WaitScan
    <3>2. /\ pc' = pc /\ cv' = cv /\ tgt' = tgt /\ held' = held
          /\ state' = state /\ chan' = chan /\ waiting' = waiting /\ cvid' = cvid
      BY <1>13, <2>2 DEF WaitScan
    <3>3. \A q \in Procs : q # t => idx'[q] = idx[q]
      BY <1>13, <2>2 DEF WaitScan
    <3> QED BY <3>1, <3>2, <3>3
  <2> QED BY <2>1, <2>2
<1>14. ASSUME NEW t \in Threads, WaitFull(t) PROVE SleepInv'
  BY <1>14 DEF WaitFull, SigLabels
<1>15. ASSUME NEW t \in Threads, WaitRegister(t) PROVE SleepInv'
  <2>1. /\ pc[t] = "register" /\ cv[t] \in Condvars /\ idx[t] \in Slots
        /\ MutexOf[cv[t]] \in held[t]
        /\ waiting[cv[t]][idx[t]] = 0
    BY <1>15 DEF WaitRegister, CallInv, HoldInv, RegisterInv, WaitLabels
  <2>2. /\ waiting' = [waiting EXCEPT ![cv[t]][idx[t]] = t]
        /\ pc' = [pc EXCEPT ![t] = "msleep"]
        /\ UNCHANGED <<held, sched, cvid, cv, idx, tgt>>
    BY <1>15 DEF WaitRegister
  <2>3. ASSUME NEW q \in Procs, q # t, cv[q] \in Condvars, idx[q] \in Slots,
               waiting[cv[q]][idx[q]] \in Threads
        PROVE  waiting'[cv[q]][idx[q]] = waiting[cv[q]][idx[q]]
    BY <2>1, <2>2, <2>3
  <2>4. \A q \in Procs :
          pc[q] \in {"msleep", "asleep", "sigread", "sigwake", "sigclear"}
            => cv[q] \in Condvars /\ idx[q] \in Slots
    BY DEF CallInv, WaitLabels, SigLabels
  <2>5. \A d \in Condvars :
          cvid[d] = -1 => \A i \in Slots : waiting'[d][i] = -1
    BY <2>1, <2>2
  <2>6. waiting'[cv[t]][idx[t]] = t
    BY <2>1, <2>2
  <2> QED BY <2>1, <2>2, <2>3, <2>4, <2>5, <2>6 DEF SigLabels
<1>16. ASSUME NEW t \in Threads, ModifiedSleep(t) PROVE SleepInv'
  <2>1. /\ pc[t] = "msleep" /\ pc' = [pc EXCEPT ![t] = "asleep"]
        /\ held' = [held EXCEPT ![t] = @ \ {mx[t]}]
        /\ chan' = [chan EXCEPT ![t] = t]
        /\ state' = [state EXCEPT ![t] = "SLEEPING"]
        /\ cv' = cv /\ idx' = idx /\ tgt' = tgt
        /\ waiting' = waiting /\ cvid' = cvid
    BY <1>16 DEF ModifiedSleep
  <2>2. ASSUME NEW q \in Procs, pc'[q] # "asleep"
        PROVE  q # t /\ pc'[q] = pc[q]
    BY <2>1, <2>2
  <2>3. ASSUME NEW q \in Procs, pc'[q] \in SigLabels
        PROVE  q \in Threads /\ MutexOf[cv'[q]] \in held'[q]
    BY <2>1, <2>2, <2>3 DEF SigLabels
  <2>4. ASSUME NEW q \in Threads, state'[q] = "SLEEPING"
        PROVE  pc'[q] = "asleep" /\ waiting'[cv'[q]][idx'[q]] = q /\ chan'[q] = q
    <3>1. CASE q = t
      BY <2>1, <3>1
    <3>2. CASE q # t
      BY <2>1, <2>4, <3>2
    <3> QED BY <3>1, <3>2
  <2> QED BY <2>1, <2>2, <2>3, <2>4
<1>17. ASSUME NEW t \in Threads, Woken(t) PROVE SleepInv'
  BY <1>17 DEF Woken, SigLabels
<1>18. ASSUME NEW t \in Threads, Relock(t) PROVE SleepInv'
  BY <1>18 DEF Relock, SigLabels
<1>19. ASSUME NEW p \in Procs, SigScan(p) PROVE SleepInv'
  <2>1. CASE waiting[cv[p]][idx[p]] \in Threads
    BY <1>19, <2>1 DEF SigScan, SigLabels
  <2>2. CASE waiting[cv[p]][idx[p]] \notin Threads
    <3>1. \A q \in Procs : q # p => idx'[q] = idx[q]
      BY <1>19, <2>2 DEF SigScan
    <3>2. pc[p] = "sigscan"
      BY <1>19 DEF SigScan
    <3>3. \A t \in Threads : t = p => state[t] # "SLEEPING"
      BY <3>2
    <3>4. /\ pc' = pc /\ cv' = cv /\ tgt' = tgt /\ held' = held
          /\ state' = state /\ chan' = chan /\ waiting' = waiting /\ cvid' = cvid
      BY <1>19, <2>2 DEF SigScan
    <3> QED BY <3>1, <3>2, <3>3, <3>4
  <2> QED BY <2>1, <2>2
<1>20. ASSUME NEW p \in Procs, SigEnd(p) PROVE SleepInv'
  BY <1>20 DEF SigEnd, SigLabels
<1>21. ASSUME NEW p \in Procs, SigRead(p) PROVE SleepInv'
  BY <1>21 DEF SigRead, SigLabels
<1>22. ASSUME NEW p \in Procs, SigWake(p) PROVE SleepInv'
  BY <1>22 DEF SigWake, Wakeup1, SigLabels
<1>23. ASSUME NEW p \in Procs, SigClear(p) PROVE SleepInv'
  <2>1. /\ pc[p] = "sigclear"
        /\ p \in Threads /\ MutexOf[cv[p]] \in held[p]
        /\ cv[p] \in Condvars /\ idx[p] \in Slots
    BY <1>23 DEF SigClear, CallInv, SigLabels
  <2>2. /\ waiting' = [waiting EXCEPT ![cv[p]][idx[p]] = 0]
        /\ held' = held /\ state' = state /\ chan' = chan /\ cvid' = cvid
    BY <1>23 DEF SigClear
  <2>3. ASSUME NEW q \in Procs, q # p
        PROVE  /\ pc'[q] = pc[q] /\ cv'[q] = cv[q] /\ idx'[q] = idx[q]
               /\ tgt'[q] = tgt[q]
    BY <1>23, <2>3 DEF SigClear
  <2>4. pc'[p] = "user"
    BY <1>23 DEF SigClear
  <2>5. ASSUME NEW q \in Procs, q # p,
               \/ pc[q] \in {"msleep", "sigread", "sigwake", "sigclear"}
               \/ q \in Threads /\ state[q] = "SLEEPING"
        PROVE  waiting'[cv[q]][idx[q]] = waiting[cv[q]][idx[q]]
    <3>1. cv[q] \in Condvars /\ idx[q] \in Slots
      BY <2>5 DEF CallInv, WaitLabels, SigLabels
    <3>2. cv[q] # cv[p] \/ idx[q] # idx[p]
      <4>1. CASE pc[q] = "msleep"
        BY <4>1, <2>1, <2>5 DEF CallInv, HoldInv, WaitLabels
      <4>2. CASE pc[q] \in {"sigread", "sigwake", "sigclear"}
        BY <4>2, <2>1, <2>5 DEF HoldInv, SigLabels
      <4>3. CASE q \in Threads /\ state[q] = "SLEEPING"
        BY <4>3, <2>1 DEF NoSleeperPassed
      <4> QED BY <2>5, <4>1, <4>2, <4>3
    <3> QED BY <2>1, <2>2, <3>1, <3>2
  <2>6. \A d \in Condvars :
          cvid'[d] = -1 => \A i \in Slots : waiting'[d][i] = -1
    BY <2>1, <2>2
  <2>7. state[p] # "SLEEPING"
    BY <2>1
  <2>8. ASSUME NEW q \in Procs, pc'[q] # "user" PROVE q # p
    BY <2>4, <2>8
  <2>9. ASSUME NEW t \in Threads, state'[t] = "SLEEPING" PROVE t # p
    BY <2>2, <2>7, <2>9
  <2> QED BY <2>2, <2>3, <2>5, <2>6, <2>8, <2>9 DEF SigLabels
<1>24. ASSUME NEW t \in Threads, Kill(t) PROVE SleepInv'
  <2>1. /\ pc' = pc /\ cv' = cv /\ idx' = idx /\ tgt' = tgt
        /\ held' = held /\ chan' = chan /\ waiting' = waiting /\ cvid' = cvid
        /\ \A q \in Threads : state'[q] = "SLEEPING" => state[q] = "SLEEPING"
    BY <1>24 DEF Kill
  <2> QED BY <2>1
<1>25. ASSUME NEW t \in Threads, Exit(t) PROVE SleepInv'
  <2>1. /\ pc[t] = "user" /\ pc' = [pc EXCEPT ![t] = "dead"]
        /\ held' = held /\ chan' = chan /\ state' = state
        /\ cv' = cv /\ idx' = idx /\ tgt' = tgt
        /\ waiting' = waiting /\ cvid' = cvid
    BY <1>25 DEF Exit
  <2>2. ASSUME NEW q \in Procs, pc'[q] # "dead" PROVE pc'[q] = pc[q]
    BY <2>1, <2>2
  <2>3. ASSUME NEW q \in Threads, state'[q] = "SLEEPING"
        PROVE  pc'[q] = "asleep" /\ waiting'[cv'[q]][idx'[q]] = q /\ chan'[q] = q
    BY <2>1, <2>3
  <2>4. ASSUME NEW q \in Procs, pc'[q] \in SigLabels
        PROVE  q \in Threads /\ MutexOf[cv'[q]] \in held'[q]
    BY <2>1, <2>2, <2>4 DEF SigLabels
  <2>5. ASSUME NEW q \in Threads, pc'[q] = "msleep"
        PROVE  waiting'[cv'[q]][idx'[q]] = q
    BY <2>1, <2>2, <2>5
  <2>6. ASSUME NEW q \in Procs, pc'[q] \in {"sigread", "sigwake", "sigclear"}
        PROVE  waiting'[cv'[q]][idx'[q]] \in Threads
    BY <2>1, <2>2, <2>6
  <2>7. ASSUME NEW q \in Procs, pc'[q] = "sigwake"
        PROVE  tgt'[q] = waiting'[cv'[q]][idx'[q]]
    BY <2>1, <2>2, <2>7
  <2>8. \A c \in Condvars :
          cvid'[c] = -1 => \A j \in Slots : waiting'[c][j] = -1
    BY <2>1
  <2> HIDE <1>0
  <2> QED BY <2>3, <2>4, <2>5, <2>6, <2>7, <2>8
<1>26. CASE UNCHANGED vars
  <2>1. /\ pc' = pc /\ cv' = cv /\ idx' = idx /\ tgt' = tgt
        /\ held' = held /\ state' = state /\ chan' = chan /\ waiting' = waiting
        /\ cvid' = cvid
    BY <1>26 DEF vars
  <2> QED BY <2>1
<1>27. ASSUME NEW p \in Procs, BcastClear(p) PROVE SleepInv'
  <2>1. /\ pc[p] = "sigclear"
        /\ p \in Threads /\ MutexOf[cv[p]] \in held[p]
        /\ cv[p] \in Condvars /\ idx[p] \in Slots
    BY <1>27 DEF BcastClear, CallInv, SigLabels
  <2>2. /\ waiting' = [waiting EXCEPT ![cv[p]][idx[p]] = 0]
        /\ held' = held /\ state' = state /\ chan' = chan /\ cvid' = cvid
    BY <1>27 DEF BcastClear
  <2>3. ASSUME NEW q \in Procs, q # p
        PROVE  /\ pc'[q] = pc[q] /\ cv'[q] = cv[q] /\ idx'[q] = idx[q]
               /\ tgt'[q] = tgt[q]
    BY <1>27, <2>3 DEF BcastClear
  <2>4. pc'[p] = "sigscan" /\ cv'[p] = cv[p]
    BY <1>27 DEF BcastClear
  <2>5. ASSUME NEW q \in Procs, q # p,
               \/ pc[q] \in {"msleep", "sigread", "sigwake", "sigclear"}
               \/ q \in Threads /\ state[q] = "SLEEPING"
        PROVE  waiting'[cv[q]][idx[q]] = waiting[cv[q]][idx[q]]
    <3>1. cv[q] \in Condvars /\ idx[q] \in Slots
      BY <2>5 DEF CallInv, WaitLabels, SigLabels
    <3>2. cv[q] # cv[p] \/ idx[q] # idx[p]
      <4>1. CASE pc[q] = "msleep"
        BY <4>1, <2>1, <2>5 DEF CallInv, HoldInv, WaitLabels
      <4>2. CASE pc[q] \in {"sigread", "sigwake", "sigclear"}
        BY <4>2, <2>1, <2>5 DEF HoldInv, SigLabels
      <4>3. CASE q \in Threads /\ state[q] = "SLEEPING"
        BY <4>3, <2>1 DEF NoSleeperPassed
      <4> QED BY <2>5, <4>1, <4>2, <4>3
    <3> QED BY <2>1, <2>2, <3>1, <3>2
  <2>6. \A d \in Condvars :
          cvid'[d] = -1 => \A i \in Slots : waiting'[d][i] = -1
    BY <2>1, <2>2
  <2>7. state[p] # "SLEEPING"
    BY <2>1
  <2>8. ASSUME NEW q \in Procs, pc'[q] # "sigscan" PROVE q # p
    BY <2>4, <2>8
  <2>9. ASSUME NEW t \in Threads, state'[t] = "SLEEPING" PROVE t # p
    BY <2>2, <2>7, <2>9
  <2>10. ASSUME NEW q \in Procs, pc'[q] \in SigLabels
         PROVE  q \in Threads /\ MutexOf[cv'[q]] \in held'[q]
    <3>1. CASE q = p
      BY <2>1, <2>2, <2>4, <3>1
    <3>2. CASE q # p
      BY <2>2, <2>3, <2>10, <3>2
    <3> QED BY <3>1, <3>2
  <2>11. ASSUME NEW q \in Threads, pc'[q] = "msleep"
        PROVE  waiting'[cv'[q]][idx'[q]] = q
    BY <2>2, <2>3, <2>5, <2>8, <2>11
  <2>12. ASSUME NEW q \in Procs, pc'[q] \in {"sigread", "sigwake", "sigclear"}
        PROVE  waiting'[cv'[q]][idx'[q]] \in Threads
    BY <2>2, <2>3, <2>5, <2>8, <2>12
  <2>13. ASSUME NEW q \in Procs, pc'[q] = "sigwake"
        PROVE  tgt'[q] = waiting'[cv'[q]][idx'[q]]
    BY <2>2, <2>3, <2>5, <2>8, <2>13
  <2>14. ASSUME NEW t \in Threads, state'[t] = "SLEEPING"
         PROVE  pc'[t] = "asleep" /\ waiting'[cv'[t]][idx'[t]] = t /\ chan'[t] = t
    BY <2>2, <2>3, <2>5, <2>9, <2>14
  <2> HIDE <1>0
  <2> QED BY <2>6, <2>10, <2>11, <2>12, <2>13, <2>14
<1> HIDE <1>0 DEF SleepInv, local, kernel, sched, Goto, Return
<1> QED
  BY <1>1, <1>2, <1>3, <1>4, <1>5, <1>6, <1>7, <1>8, <1>9, <1>10, <1>11,
     <1>12, <1>13, <1>14, <1>15, <1>16, <1>17, <1>18, <1>19, <1>20, <1>21,
     <1>22, <1>23, <1>24, <1>25, <1>26,
     <1>27
  DEF Next, KernelStep, LockStep, WaitStep, SigStep

-----------------------------------------------------------------------------
(* No step lets a signal or broadcast get past a sleeping waiter. *)
LEMMA NextPassed ==
  TypeOK /\ CallInv /\ HoldInv /\ SleepInv /\ NoSleeperPassed /\ [Next]_vars => NoSleeperPassed'
<1> SUFFICES ASSUME TypeOK, CallInv, HoldInv, SleepInv, NoSleeperPassed, [Next]_vars PROVE NoSleeperPassed'
    OBVIOUS
<1>0. /\ Threads \subseteq Procs
      /\ pc \in [Procs -> Labels]
      /\ cv \in [Procs -> Condvars \cup {0}]
      /\ idx \in [Procs -> Int]
      /\ state \in [Threads -> {"RUNNABLE", "SLEEPING"}]
  BY ConstFacts DEF TypeOK
<1>a. \A t \in Threads : state[t] = "SLEEPING" => pc[t] = "asleep"
  BY DEF SleepInv
<1> USE <1>0, <1>a DEF NoSleeperPassed, local, kernel, sched, Goto, Return
<1>1. CASE MutexInit
  BY <1>1 DEF MutexInit
<1>2. CASE CondInit
  BY <1>2 DEF CondInit
<1>3. ASSUME NEW m \in Mutexes, MutexDestroy(m) PROVE NoSleeperPassed'
  BY <1>3 DEF MutexDestroy
<1>4. ASSUME NEW c \in Condvars, CondDestroy(c) PROVE NoSleeperPassed'
  BY <1>4 DEF CondDestroy
<1>5. ASSUME NEW t \in Threads, NEW m \in Mutexes, MutexLock(t, m)
      PROVE NoSleeperPassed'
  BY <1>5 DEF MutexLock
<1>6. ASSUME NEW t \in Threads, NEW m \in Mutexes, MutexUnlock(t, m)
      PROVE NoSleeperPassed'
  BY <1>6 DEF MutexUnlock
<1>7. ASSUME NEW t \in Threads, NEW c \in Condvars, CondWait(t, c)
      PROVE NoSleeperPassed'
  BY <1>7 DEF CondWait
<1>8. ASSUME NEW p \in Procs, NEW c \in Condvars, NEW k \in {"signal", "broadcast"}, CondSignal(p, c, k)
      PROVE NoSleeperPassed'
  BY <1>8, ConstFacts DEF CondSignal, CallInv, WaitLabels
<1>9. ASSUME NEW t \in Threads, LockSpin(t) PROVE NoSleeperPassed'
  BY <1>9 DEF LockSpin
<1>10. ASSUME NEW t \in Threads, LockAcquire(t) PROVE NoSleeperPassed'
  BY <1>10 DEF LockAcquire
<1>11. ASSUME NEW t \in Threads, LockXchg(t) PROVE NoSleeperPassed'
  BY <1>11 DEF LockXchg
<1>12. ASSUME NEW t \in Threads, UnlockXchg(t) PROVE NoSleeperPassed'
  BY <1>12 DEF UnlockXchg
<1>13. ASSUME NEW t \in Threads, WaitScan(t) PROVE NoSleeperPassed'
  <2>1. pc[t] = "scan" /\ state[t] # "SLEEPING"
    BY <1>13 DEF WaitScan
  <2>2. UNCHANGED <<cv, sched>> /\ pc'[t] \in {"scan", "register"}
    BY <1>13 DEF WaitScan
  <2>3. \A q \in Procs : q # t => idx'[q] = idx[q] /\ pc'[q] = pc[q]
    BY <1>13 DEF WaitScan
  <2> QED BY <2>1, <2>2, <2>3
<1>14. ASSUME NEW t \in Threads, WaitFull(t) PROVE NoSleeperPassed'
  BY <1>14 DEF WaitFull
<1>15. ASSUME NEW t \in Threads, WaitRegister(t) PROVE NoSleeperPassed'
  BY <1>15 DEF WaitRegister
<1>16. ASSUME NEW t \in Threads, ModifiedSleep(t) PROVE NoSleeperPassed'
  <2>1. /\ pc[t] = "msleep" /\ pc' = [pc EXCEPT ![t] = "asleep"]
        /\ state' = [state EXCEPT ![t] = "SLEEPING"]
        /\ cv' = cv /\ idx' = idx
    BY <1>16 DEF ModifiedSleep
  <2>2. MutexOf[cv[t]] \in held[t]
    BY <2>1 DEF CallInv, HoldInv, WaitLabels
  <2>3. ASSUME NEW q \in Procs, pc'[q] \in SigLabels
        PROVE  q # t /\ pc'[q] = pc[q]
    BY <2>1, <2>3 DEF SigLabels
  <2>4. ASSUME NEW q \in Procs, pc'[q] \in SigLabels PROVE cv[q] # cv[t]
    <3>1. q \in Threads /\ MutexOf[cv[q]] \in held[q]
      BY <2>3, <2>4 DEF SleepInv
    <3> QED BY <2>2, <2>3, <2>4, <3>1 DEF HoldInv
  <2> QED BY <2>1, <2>3, <2>4 DEF SigLabels
<1>17. ASSUME NEW t \in Threads, Woken(t) PROVE NoSleeperPassed'
  BY <1>17 DEF Woken
<1>18. ASSUME NEW t \in Threads, Relock(t) PROVE NoSleeperPassed'
  BY <1>18 DEF Relock
<1>19. ASSUME NEW p \in Procs, SigScan(p) PROVE NoSleeperPassed'
  <2>1. /\ pc[p] = "sigscan" /\ cv[p] \in Condvars /\ idx[p] \in Slots
        /\ UNCHANGED <<cv, sched>>
    BY <1>19 DEF SigScan, CallInv, SigLabels
  <2>2. \A q \in Procs : q # p => idx'[q] = idx[q] /\ pc'[q] = pc[q]
    BY <1>19 DEF SigScan
  <2>3. \/ idx'[p] = idx[p] /\ pc'[p] = "sigread"
        \/ /\ idx'[p] = idx[p] + 1 /\ pc'[p] = "sigscan"
           /\ waiting[cv[p]][idx[p]] \notin Threads
    BY <1>19 DEF SigScan
  <2>4. \A t \in Threads :
          state[t] = "SLEEPING"
            => /\ t # p /\ waiting[cv[t]][idx[t]] = t
               /\ idx[t] \in Slots
    BY <2>1 DEF SleepInv, CallInv
  <2> QED BY <2>1, <2>2, <2>3, <2>4
<1>20. ASSUME NEW p \in Procs, SigEnd(p) PROVE NoSleeperPassed'
  BY <1>20 DEF SigEnd
<1>21. ASSUME NEW p \in Procs, SigRead(p) PROVE NoSleeperPassed'
  BY <1>21 DEF SigRead
<1>22. ASSUME NEW p \in Procs, SigWake(p) PROVE NoSleeperPassed'
  <2>1. /\ pc[p] = "sigwake" /\ tgt[p] = waiting[cv[p]][idx[p]]
        /\ Wakeup1(tgt[p])
        /\ pc' = [pc EXCEPT ![p] = "sigclear"]
        /\ UNCHANGED <<cv, idx>>
    BY <1>22 DEF SigWake, SleepInv
  <2>2. \A t \in Threads :
          state'[t] = "SLEEPING" => /\ state[t] = "SLEEPING"
                                    /\ cv[t] = cv[p] => idx[t] # idx[p]
    <3> SUFFICES ASSUME NEW t \in Threads, state'[t] = "SLEEPING"
                 PROVE  /\ state[t] = "SLEEPING"
                        /\ cv[t] = cv[p] => idx[t] # idx[p]
      OBVIOUS
    <3>1. state[t] = "SLEEPING" /\ chan[t] # tgt[p]
      BY <2>1 DEF Wakeup1
    <3>2. waiting[cv[t]][idx[t]] = t /\ chan[t] = t
      BY <3>1 DEF SleepInv
    <3> QED BY <2>1, <3>1, <3>2
  <2> QED BY <2>1, <2>2
<1>23. ASSUME NEW p \in Procs, SigClear(p) PROVE NoSleeperPassed'
  BY <1>23 DEF SigClear
<1>24. ASSUME NEW t \in Threads, Kill(t) PROVE NoSleeperPassed'
  BY <1>24 DEF Kill
<1>25. ASSUME NEW t \in Threads, Exit(t) PROVE NoSleeperPassed'
  BY <1>25 DEF Exit
<1>26. CASE UNCHANGED vars
  BY <1>26 DEF vars
<1>27. ASSUME NEW p \in Procs, BcastClear(p) PROVE NoSleeperPassed'
  <2>1. /\ pc[p] = "sigclear" /\ cv[p] \in Condvars /\ idx[p] \in Slots
        /\ UNCHANGED sched
    BY <1>27 DEF BcastClear, CallInv, SigLabels
  <2>2. ASSUME NEW q \in Procs, q # p
        PROVE  idx'[q] = idx[q] /\ pc'[q] = pc[q] /\ cv'[q] = cv[q]
    BY <1>27, <2>2 DEF BcastClear
  <2>3. pc'[p] = "sigscan" /\ idx'[p] = idx[p] + 1 /\ cv'[p] = cv[p]
    BY <1>27 DEF BcastClear
  <2>4. \A t \in Threads :
          state[t] = "SLEEPING" => t # p /\ idx[t] \in Slots
    BY <2>1 DEF SleepInv, CallInv
  <2>5. ASSUME NEW t \in Threads, state[t] = "SLEEPING", cv[t] = cv[p]
        PROVE  idx[t] >= idx[p] + 1
    <3>1. idx[t] >= idx[p] /\ idx[t] # idx[p]
      BY <2>1, <2>5
    <3>2. idx[t] \in Nat /\ idx[p] \in Nat
      BY <2>1, <2>4, <2>5, ConstFacts
    <3> QED BY <3>1, <3>2
  <2>6. ASSUME NEW t \in Threads, state[t] = "SLEEPING"
        PROVE  idx'[t] = idx[t] /\ cv'[t] = cv[t]
    BY <2>2, <2>4, <2>6
  <2>7. state' = state
    BY <2>1
  <2>8. ASSUME NEW t \in Threads, state[t] = "SLEEPING",
               cv'[t] = cv'[p]
        PROVE  idx'[t] >= idx'[p]
    BY <2>3, <2>5, <2>6, <2>8
  <2> SUFFICES ASSUME NEW q \in Procs, NEW t \in Threads,
                      pc'[q] \in SigLabels, state'[t] = "SLEEPING",
                      cv'[t] = cv'[q]
               PROVE  /\ idx'[t] >= idx'[q]
                      /\ pc'[q] = "sigclear" => idx'[t] # idx'[q]
    BY DEF SigLabels
  <2>9. CASE q = p
    BY <2>3, <2>7, <2>8, <2>9
  <2>10. CASE q # p
    BY <2>2, <2>6, <2>7, <2>10 DEF SigLabels
  <2> QED BY <2>9, <2>10
<1> HIDE <1>0, <1>a DEF NoSleeperPassed, local, kernel, sched, Goto, Return
<1> QED
  BY <1>1, <1>2, <1>3, <1>4, <1>5, <1>6, <1>7, <1>8, <1>9, <1>10, <1>11,
     <1>12, <1>13, <1>14, <1>15, <1>16, <1>17, <1>18, <1>19, <1>20, <1>21,
     <1>22, <1>23, <1>24, <1>25, <1>26,
     <1>27
  DEF Next, KernelStep, LockStep, WaitStep, SigStep

LEMMA InitType == Init => TypeOK /\ CallInv
BY ConstFacts DEF Init, TypeOK, CallInv, SigLabels, WaitLabels, Labels

LEMMA NextType == TypeOK /\ CallInv /\ [Next]_vars => TypeOK'
<1> SUFFICES ASSUME TypeOK, CallInv, [Next]_vars PROVE TypeOK'
    OBVIOUS
<1> USE ConstFacts DEF TypeOK, Labels, local, kernel, sched, Goto, Return
<1>1. CASE MutexInit
  BY <1>1 DEF MutexInit
<1>2. CASE CondInit
  BY <1>2 DEF CondInit
<1>3. ASSUME NEW m \in Mutexes, MutexDestroy(m) PROVE TypeOK'
  BY <1>3 DEF MutexDestroy
<1>4. ASSUME NEW c \in Condvars, CondDestroy(c) PROVE TypeOK'
  BY <1>4 DEF CondDestroy
<1>5. ASSUME NEW t \in Threads, NEW m \in Mutexes, MutexLock(t, m)
      PROVE TypeOK'
  BY <1>5 DEF MutexLock
<1>6. ASSUME NEW t \in Threads, NEW m \in Mutexes, MutexUnlock(t, m)
      PROVE TypeOK'
  BY <1>6 DEF MutexUnlock
<1>7. ASSUME NEW t \in Threads, NEW c \in Condvars, CondWait(t, c)
      PROVE TypeOK'
  BY <1>7 DEF CondWait
<1>8. ASSUME NEW p \in Procs, NEW c \in Condvars,
             NEW k \in {"signal", "broadcast"}, CondSignal(p, c, k)
      PROVE TypeOK'
  BY <1>8 DEF CondSignal
<1>9. ASSUME NEW t \in Threads, LockSpin(t) PROVE TypeOK'
  BY <1>9 DEF LockSpin
<1>10. ASSUME NEW t \in Threads, LockAcquire(t) PROVE TypeOK'
  BY <1>10 DEF LockAcquire
<1>11. ASSUME NEW t \in Threads, LockXchg(t) PROVE TypeOK'
  <2>1. mx[t] \in Mutexes
    BY <1>11 DEF LockXchg, CallInv
  <2> QED BY <1>11, <2>1 DEF LockXchg
<1>12. ASSUME NEW t \in Threads, UnlockXchg(t) PROVE TypeOK'
  BY <1>12 DEF UnlockXchg
<1>13. ASSUME NEW t \in Threads, WaitScan(t) PROVE TypeOK'
  BY <1>13 DEF WaitScan
<1>14. ASSUME NEW t \in Threads, WaitFull(t) PROVE TypeOK'
  BY <1>14 DEF WaitFull
<1>15. ASSUME NEW t \in Threads, WaitRegister(t) PROVE TypeOK'
  BY <1>15 DEF WaitRegister
<1>16. ASSUME NEW t \in Threads, ModifiedSleep(t) PROVE TypeOK'
  BY <1>16 DEF ModifiedSleep
<1>17. ASSUME NEW t \in Threads, Woken(t) PROVE TypeOK'
  BY <1>17 DEF Woken
<1>18. ASSUME NEW t \in Threads, Relock(t) PROVE TypeOK'
  <2>1. mx[t] \in Mutexes
    BY <1>18, ConstFacts DEF Relock, CallInv, WaitLabels
  <2> QED BY <1>18, <2>1 DEF Relock
<1>19. ASSUME NEW p \in Procs, SigScan(p) PROVE TypeOK'
  <2>1. idx' \in [Procs -> 0..(MAXTHRDS + 1)]
    BY <1>19 DEF SigScan
  <2>2. pc' \in [Procs -> Labels]
    BY <1>19 DEF SigScan
  <2> QED BY <1>19, <2>1, <2>2 DEF SigScan
<1>20. ASSUME NEW p \in Procs, SigEnd(p) PROVE TypeOK'
  BY <1>20 DEF SigEnd
<1>21. ASSUME NEW p \in Procs, SigRead(p) PROVE TypeOK'
  <2>1. cv[p] \in Condvars /\ idx[p] \in Slots
    BY <1>21 DEF SigRead, CallInv, SigLabels
  <2> QED BY <1>21, <2>1 DEF SigRead
<1>22. ASSUME NEW p \in Procs, SigWake(p) PROVE TypeOK'
  BY <1>22 DEF SigWake, Wakeup1
<1>23. ASSUME NEW p \in Procs, SigClear(p) PROVE TypeOK'
  <2>1. cv[p] \in Condvars /\ idx[p] \in Slots
    BY <1>23 DEF SigClear, CallInv, SigLabels
  <2>2. waiting' \in [Condvars -> [Slots -> Threads \cup {-1, 0}]]
    BY <1>23, <2>1 DEF SigClear
  <2> QED BY <1>23, <2>2 DEF SigClear
<1>24. ASSUME NEW t \in Threads, Kill(t) PROVE TypeOK'
  BY <1>24 DEF Kill
<1>25. ASSUME NEW t \in Threads, Exit(t) PROVE TypeOK'
  BY <1>25 DEF Exit
<1>26. CASE UNCHANGED vars
  BY <1>26 DEF vars
<1>27. ASSUME NEW p \in Procs, BcastClear(p) PROVE TypeOK'
  <2>1. cv[p] \in Condvars /\ idx[p] \in Slots
    BY <1>27 DEF BcastClear, CallInv, SigLabels
  <2>2. waiting' \in [Condvars -> [Slots -> Threads \cup {-1, 0}]]
    BY <1>27, <2>1 DEF BcastClear
  <2>3. idx' \in [Procs -> 0..(MAXTHRDS + 1)]
    BY <1>27, <2>1 DEF BcastClear
  <2> QED BY <1>27, <2>2, <2>3 DEF BcastClear
<1> HIDE DEF TypeOK, Labels, local, kernel, sched, Goto, Return
<1> QED
  BY <1>1, <1>2, <1>3, <1>4, <1>5, <1>6, <1>7, <1>8, <1>9, <1>10, <1>11,
     <1>12, <1>13, <1>14, <1>15, <1>16, <1>17, <1>18, <1>19, <1>20, <1>21,
     <1>22, <1>23, <1>24, <1>25, <1>26,
     <1>27
  DEF Next, KernelStep, LockStep, WaitStep, SigStep
LEMMA NextCall ==
  TypeOK /\ CallInv /\ [Next]_vars => CallInv'
<1> SUFFICES ASSUME TypeOK, CallInv, [Next]_vars PROVE CallInv'
    OBVIOUS
<1> USE ConstFacts DEF TypeOK, CallInv, SigLabels, WaitLabels, local, kernel,
        sched, Goto, Return
<1>1. CASE MutexInit
  BY <1>1 DEF MutexInit
<1>2. CASE CondInit
  BY <1>2 DEF CondInit
<1>3. ASSUME NEW m \in Mutexes, MutexDestroy(m) PROVE CallInv'
  BY <1>3 DEF MutexDestroy
<1>4. ASSUME NEW c \in Condvars, CondDestroy(c) PROVE CallInv'
  BY <1>4 DEF CondDestroy
<1>5. ASSUME NEW t \in Threads, NEW m \in Mutexes, MutexLock(t, m)
      PROVE CallInv'
  BY <1>5 DEF MutexLock
<1>6. ASSUME NEW t \in Threads, NEW m \in Mutexes, MutexUnlock(t, m)
      PROVE CallInv'
  BY <1>6 DEF MutexUnlock
<1>7. ASSUME NEW t \in Threads, NEW c \in Condvars, CondWait(t, c)
      PROVE CallInv'
  BY <1>7 DEF CondWait
<1>8. ASSUME NEW p \in Procs, NEW c \in Condvars, NEW k \in {"signal", "broadcast"}, CondSignal(p, c, k)
      PROVE CallInv'
  BY <1>8 DEF CondSignal
<1>9. ASSUME NEW t \in Threads, LockSpin(t) PROVE CallInv'
  BY <1>9 DEF LockSpin
<1>10. ASSUME NEW t \in Threads, LockAcquire(t) PROVE CallInv'
  BY <1>10 DEF LockAcquire
<1>11. ASSUME NEW t \in Threads, LockXchg(t) PROVE CallInv'
  BY <1>11 DEF LockXchg
<1>12. ASSUME NEW t \in Threads, UnlockXchg(t) PROVE CallInv'
  BY <1>12 DEF UnlockXchg
<1>13. ASSUME NEW t \in Threads, WaitScan(t) PROVE CallInv'
  BY <1>13 DEF WaitScan
<1>14. ASSUME NEW t \in Threads, WaitFull(t) PROVE CallInv'
  BY <1>14 DEF WaitFull
<1>15. ASSUME NEW t \in Threads, WaitRegister(t) PROVE CallInv'
  BY <1>15 DEF WaitRegister
<1>16. ASSUME NEW t \in Threads, ModifiedSleep(t) PROVE CallInv'
  BY <1>16 DEF ModifiedSleep
<1>17. ASSUME NEW t \in Threads, Woken(t) PROVE CallInv'
  BY <1>17 DEF Woken
<1>18. ASSUME NEW t \in Threads, Relock(t) PROVE CallInv'
  BY <1>18 DEF Relock
<1>19. ASSUME NEW p \in Procs, SigScan(p) PROVE CallInv'
  BY <1>19 DEF SigScan
<1>20. ASSUME NEW p \in Procs, SigEnd(p) PROVE CallInv'
  BY <1>20 DEF SigEnd
<1>21. ASSUME NEW p \in Procs, SigRead(p) PROVE CallInv'
  BY <1>21 DEF SigRead
<1>22. ASSUME NEW p \in Procs, SigWake(p) PROVE CallInv'
  BY <1>22 DEF SigWake
<1>23. ASSUME NEW p \in Procs, SigClear(p) PROVE CallInv'
  BY <1>23 DEF SigClear
<1>24. ASSUME NEW t \in Threads, Kill(t) PROVE CallInv'
  BY <1>24 DEF Kill
<1>25. ASSUME NEW t \in Threads, Exit(t) PROVE CallInv'
  BY <1>25 DEF Exit
<1>26. CASE UNCHANGED vars
  BY <1>26 DEF vars
<1>27. ASSUME NEW p \in Procs, BcastClear(p) PROVE CallInv'
  BY <1>27 DEF BcastClear
<1> HIDE DEF TypeOK, CallInv, SigLabels, WaitLabels, local, kernel, sched, Goto,
        Return
<1> QED
  BY <1>1, <1>2, <1>3, <1>4, <1>5, <1>6, <1>7, <1>8, <1>9, <1>10, <1>11,
     <1>12, <1>13, <1>14, <1>15, <1>16, <1>17, <1>18, <1>19, <1>20, <1>21,
     <1>22, <1>23, <1>24, <1>25, <1>26,
     <1>27
  DEF Next, KernelStep, LockStep, WaitStep, SigStep

(* In every reachable state the kernel data of the mutexes and condition    *)
(* variables, and the locals of the calls in progress, have their types.    *)
THEOREM TypeCorrect == Spec => [](TypeOK /\ CallInv)
BY InitType, NextType, NextCall, PTL DEF Spec

LEMMA InitHold == Init => HoldInv
BY ConstFacts, SyncAssumption DEF Init, HoldInv, Mutexes

LEMMA NextHold ==
  TypeOK /\ CallInv /\ HoldInv /\ [Next]_vars => HoldInv'
<1> SUFFICES ASSUME TypeOK, CallInv, HoldInv, [Next]_vars PROVE HoldInv'
    OBVIOUS
<1>0. /\ Threads \subseteq Procs
      /\ DOMAIN pc = Procs /\ DOMAIN mx = Procs
      /\ held \in [Threads -> SUBSET Mutexes]
      /\ mid \in [Mutexes -> Mutexes \cup {-1}] /\ locked \in [Mutexes -> {0, 1}]
  BY ConstFacts DEF TypeOK
<1> USE <1>0 DEF HoldInv, local, kernel, sched, Goto, Return
<1>1. CASE MutexInit
  <2>1. PICK m \in Mutexes :
          /\ mid[m] = -1
          /\ mid' = [mid EXCEPT ![m] = m]
          /\ locked' = [locked EXCEPT ![m] = 0]
    BY <1>1 DEF MutexInit
  <2>2. UNCHANGED <<pc, mx, held>>
    BY <1>1 DEF MutexInit
  <2>3. \A t \in Threads : m \notin held[t]
    BY <2>1, NoSlotMinusOne
  <2>4. \A t \in Threads : mid[mx[t]] = mx[t] => mid'[mx[t]] = mx[t]
    BY <2>1
  <2> QED BY <2>1, <2>2, <2>3, <2>4
<1>2. CASE CondInit
  BY <1>2 DEF CondInit
<1>3. ASSUME NEW m \in Mutexes, MutexDestroy(m) PROVE HoldInv'
  <2>1. UNCHANGED <<pc, mx, held>> /\ \A t \in Threads : m \notin held[t] /\ mx[t] # m
    BY <1>3 DEF MutexDestroy, MutexQuiet
  <2>2. mid' = [mid EXCEPT ![m] = -1] /\ locked' = [locked EXCEPT ![m] = 0]
    BY <1>3 DEF MutexDestroy
  <2>3. /\ mid'[m] # m
        /\ \A k \in Mutexes \ {m} : mid'[k] = mid[k] /\ locked'[k] = locked[k]
        /\ \A t \in Threads : mid'[mx[t]] = mid[mx[t]]
    BY <2>1, <2>2, NoSlotMinusOne
  <2>4. \A t \in Threads : \A k \in held[t] : mid'[k] = k /\ locked'[k] = 1
    BY <2>1, <2>3
  <2>5. \A k \in Mutexes : mid'[k] = k /\ locked'[k] = 1 => mid[k] = k /\ locked[k] = 1
    BY <2>3
  <2> QED BY <2>1, <2>3, <2>4, <2>5
<1>4. ASSUME NEW c \in Condvars, CondDestroy(c) PROVE HoldInv'
  BY <1>4 DEF CondDestroy
<1>5. ASSUME NEW t \in Threads, NEW m \in Mutexes, MutexLock(t, m)
      PROVE HoldInv'
  BY <1>5 DEF MutexLock
<1>6. ASSUME NEW t \in Threads, NEW m \in Mutexes, MutexUnlock(t, m)
      PROVE HoldInv'
  BY <1>6 DEF MutexUnlock
<1>7. ASSUME NEW t \in Threads, NEW c \in Condvars, CondWait(t, c)
      PROVE HoldInv'
  BY <1>7 DEF CondWait
<1>8. ASSUME NEW p \in Procs, NEW c \in Condvars, NEW k \in {"signal", "broadcast"}, CondSignal(p, c, k)
      PROVE HoldInv'
  BY <1>8 DEF CondSignal
<1>9. ASSUME NEW t \in Threads, LockSpin(t) PROVE HoldInv'
  BY <1>9 DEF LockSpin
<1>10. ASSUME NEW t \in Threads, LockAcquire(t) PROVE HoldInv'
  BY <1>10 DEF LockAcquire
<1>11. ASSUME NEW t \in Threads, LockXchg(t) PROVE HoldInv'
  BY <1>11 DEF LockXchg, CallInv
<1>12. ASSUME NEW t \in Threads, UnlockXchg(t) PROVE HoldInv'
  BY <1>12 DEF UnlockXchg, CallInv
<1>13. ASSUME NEW t \in Threads, WaitScan(t) PROVE HoldInv'
  BY <1>13 DEF WaitScan
<1>14. ASSUME NEW t \in Threads, WaitFull(t) PROVE HoldInv'
  BY <1>14 DEF WaitFull
<1>15. ASSUME NEW t \in Threads, WaitRegister(t) PROVE HoldInv'
  BY <1>15 DEF WaitRegister
<1>16. ASSUME NEW t \in Threads, ModifiedSleep(t) PROVE HoldInv'
  <2>1. /\ pc[t] = "msleep" /\ pc' = [pc EXCEPT ![t] = "asleep"] /\ UNCHANGED <<mx, mid>>
        /\ locked' = [locked EXCEPT ![mx[t]] = 0]
        /\ held' = [held EXCEPT ![t] = @ \ {mx[t]}]
    BY <1>16 DEF ModifiedSleep
  <2>2. mx[t] \in held[t] /\ mx[t] \in Mutexes /\ mid[mx[t]] = mx[t]
    BY <2>1
  <2>3. /\ \A u \in Threads \ {t} : pc'[u] = pc[u] /\ held'[u] = held[u] /\ mx[t] \notin held[u]
        /\ pc'[t] = "asleep" /\ held'[t] = held[t] \ {mx[t]}
    BY <2>1, <2>2
  <2>4. /\ locked'[mx[t]] = 0
        /\ \A k \in Mutexes \ {mx[t]} : locked'[k] = locked[k]
    BY <2>1, <2>2
  <2>5. \A u \in Threads : held'[u] = held[u] \ {mx[t]}
    BY <2>3
  <2> QED BY <2>1, <2>2, <2>3, <2>4, <2>5
<1>17. ASSUME NEW t \in Threads, Woken(t) PROVE HoldInv'
  BY <1>17 DEF Woken
<1>18. ASSUME NEW t \in Threads, Relock(t) PROVE HoldInv'
  BY <1>18, ConstFacts DEF Relock, CallInv, WaitLabels
<1>19. ASSUME NEW p \in Procs, SigScan(p) PROVE HoldInv'
  BY <1>19 DEF SigScan
<1>20. ASSUME NEW p \in Procs, SigEnd(p) PROVE HoldInv'
  BY <1>20 DEF SigEnd
<1>21. ASSUME NEW p \in Procs, SigRead(p) PROVE HoldInv'
  BY <1>21 DEF SigRead
<1>22. ASSUME NEW p \in Procs, SigWake(p) PROVE HoldInv'
  BY <1>22 DEF SigWake, Wakeup1
<1>23. ASSUME NEW p \in Procs, SigClear(p) PROVE HoldInv'
  BY <1>23 DEF SigClear
<1>24. ASSUME NEW t \in Threads, Kill(t) PROVE HoldInv'
  BY <1>24 DEF Kill
<1>25. ASSUME NEW t \in Threads, Exit(t) PROVE HoldInv'
  BY <1>25 DEF Exit
<1>26. CASE UNCHANGED vars
  BY <1>26 DEF vars
<1>27. ASSUME NEW p \in Procs, BcastClear(p) PROVE HoldInv'
  BY <1>27 DEF BcastClear
<1> HIDE DEF HoldInv, local, kernel, sched, Goto, Return
<1> QED
  BY <1>1, <1>2, <1>3, <1>4, <1>5, <1>6, <1>7, <1>8, <1>9, <1>10, <1>11,
     <1>12, <1>13, <1>14, <1>15, <1>16, <1>17, <1>18, <1>19, <1>20, <1>21,
     <1>22, <1>23, <1>24, <1>25, <1>26,
     <1>27
  DEF Next, KernelStep, LockStep, WaitStep, SigStep

(* A mutex never has two holders and its lock word is 1 while it has one,   *)
(* through mutex_lock, the xchg at the end of modified_sleep and            *)
(* mutex_destroy, for any number of threads and mutexes, whoever signals    *)
(* and whoever is killed.                                                   *)
THEOREM MutexExclusive == Spec => []MutualExclusion
<1>1. HoldInv => MutualExclusion
  BY DEF HoldInv, MutualExclusion
<1> QED
  BY <1>1, InitType, NextType, NextCall, InitHold, NextHold, PTL DEF Spec

(* No path through mutex_lock, modified_sleep, mutex_init and kill() leaves *)
(* the lock word of an initialised mutex at 1 with no thread to unlock it.  *)
THEOREM NoMutexOrphaned == Spec => []NoOrphanLock
<1>1. HoldInv => NoOrphanLock
  BY DEF HoldInv, NoOrphanLock
<1> QED
  BY <1>1, InitType, NextType, NextCall, InitHold, NextHold, PTL DEF Spec

LEMMA NextRegister ==
  TypeOK /\ CallInv /\ HoldInv /\ RegisterInv /\ [Next]_vars => RegisterInv'
<1> SUFFICES ASSUME TypeOK, CallInv, HoldInv, RegisterInv, [Next]_vars PROVE RegisterInv'
    OBVIOUS
<1>0. /\ Threads \subseteq Procs /\ 0 \notin Threads
      /\ DOMAIN pc = Procs /\ DOMAIN cv = Procs /\ DOMAIN idx = Procs
      /\ waiting \in [Condvars -> [Slots -> Threads \cup {-1, 0}]]
  BY ConstFacts DEF TypeOK
<1> USE <1>0 DEF RegisterInv, local, kernel, sched, Goto, Return
<1>1. CASE MutexInit
  BY <1>1 DEF MutexInit
<1>2. CASE CondInit
  <2>1. PICK c \in Condvars :
          waiting' = [waiting EXCEPT ![c] = [i \in Slots |-> 0]]
    BY <1>2 DEF CondInit
  <2>2. UNCHANGED <<pc, cv, idx>>
    BY <1>2 DEF CondInit
  <2>3. \A t \in Threads :
          pc[t] = "register" => cv[t] \in Condvars /\ idx[t] \in Slots
    BY DEF CallInv, WaitLabels
  <2> QED BY <2>1, <2>2, <2>3
<1>3. ASSUME NEW m \in Mutexes, MutexDestroy(m) PROVE RegisterInv'
  BY <1>3 DEF MutexDestroy
<1>4. ASSUME NEW c \in Condvars, CondDestroy(c) PROVE RegisterInv'
  BY <1>4 DEF CondDestroy, CondQuiet
<1>5. ASSUME NEW t \in Threads, NEW m \in Mutexes, MutexLock(t, m)
      PROVE RegisterInv'
  BY <1>5 DEF MutexLock
<1>6. ASSUME NEW t \in Threads, NEW m \in Mutexes, MutexUnlock(t, m)
      PROVE RegisterInv'
  BY <1>6 DEF MutexUnlock
<1>7. ASSUME NEW t \in Threads, NEW c \in Condvars, CondWait(t, c)
      PROVE RegisterInv'
  BY <1>7 DEF CondWait
<1>8. ASSUME NEW p \in Procs, NEW c \in Condvars, NEW k \in {"signal", "broadcast"}, CondSignal(p, c, k)
      PROVE RegisterInv'
  BY <1>8 DEF CondSignal
<1>9. ASSUME NEW t \in Threads, LockSpin(t) PROVE RegisterInv'
  BY <1>9 DEF LockSpin
<1>10. ASSUME NEW t \in Threads, LockAcquire(t) PROVE RegisterInv'
  BY <1>10 DEF LockAcquire
<1>11. ASSUME NEW t \in Threads, LockXchg(t) PROVE RegisterInv'
  BY <1>11 DEF LockXchg
<1>12. ASSUME NEW t \in Threads, UnlockXchg(t) PROVE RegisterInv'
  BY <1>12 DEF UnlockXchg
<1>13. ASSUME NEW t \in Threads, WaitScan(t) PROVE RegisterInv'
  BY <1>13 DEF WaitScan
<1>14. ASSUME NEW t \in Threads, WaitFull(t) PROVE RegisterInv'
  BY <1>14 DEF WaitFull
<1>15. ASSUME NEW t \in Threads, WaitRegister(t) PROVE RegisterInv'
  BY <1>15 DEF WaitRegister, CallInv, HoldInv, WaitLabels
<1>16. ASSUME NEW t \in Threads, ModifiedSleep(t) PROVE RegisterInv'
  BY <1>16 DEF ModifiedSleep
<1>17. ASSUME NEW t \in Threads, Woken(t) PROVE RegisterInv'
  BY <1>17 DEF Woken
<1>18. ASSUME NEW t \in Threads, Relock(t) PROVE RegisterInv'
  BY <1>18 DEF Relock
<1>19. ASSUME NEW p \in Procs, SigScan(p) PROVE RegisterInv'
  BY <1>19 DEF SigScan
<1>20. ASSUME NEW p \in Procs, SigEnd(p) PROVE RegisterInv'
  BY <1>20 DEF SigEnd
<1>21. ASSUME NEW p \in Procs, SigRead(p) PROVE RegisterInv'
  BY <1>21 DEF SigRead
<1>22. ASSUME NEW p \in Procs, SigWake(p) PROVE RegisterInv'
  BY <1>22 DEF SigWake
<1>23. ASSUME NEW p \in Procs, SigClear(p) PROVE RegisterInv'
  BY <1>23 DEF SigClear, CallInv, SigLabels
<1>24. ASSUME NEW t \in Threads, Kill(t) PROVE RegisterInv'
  BY <1>24 DEF Kill
<1>25. ASSUME NEW t \in Threads, Exit(t) PROVE RegisterInv'
  BY <1>25 DEF Exit
<1>26. CASE UNCHANGED vars
  BY <1>26 DEF vars
<1>27. ASSUME NEW p \in Procs, BcastClear(p) PROVE RegisterInv'
  BY <1>27 DEF BcastClear, CallInv, SigLabels
<1> HIDE DEF RegisterInv, local, kernel, sched, Goto, Return
<1> QED
  BY <1>1, <1>2, <1>3, <1>4, <1>5, <1>6, <1>7, <1>8, <1>9, <1>10, <1>11,
     <1>12, <1>13, <1>14, <1>15, <1>16, <1>17, <1>18, <1>19, <1>20, <1>21,
     <1>22, <1>23, <1>24, <1>25, <1>26,
     <1>27
  DEF Next, KernelStep, LockStep, WaitStep, SigStep

LEMMA InitSleep == Init => RegisterInv /\ SleepInv /\ NoSleeperPassed
BY ConstFacts DEF Init, RegisterInv, SleepInv, NoSleeperPassed, SigLabels

(* Two waiters never take one slot, whoever signals and whoever is killed.  *)
THEOREM SlotsTakenOnce == Spec => SlotTakenOnce
<1> DEFINE Inv == TypeOK /\ CallInv /\ HoldInv /\ RegisterInv
    Once == \A c \in Condvars, i \in Slots :
              waiting[c][i] # waiting'[c][i] /\ waiting'[c][i] \in Threads
                => waiting[c][i] = 0
<1>1. Spec => []Inv
  BY InitType, NextType, NextCall, InitHold, NextHold, InitSleep,
     NextRegister, PTL DEF Spec
<1>2. Inv /\ [Next]_vars => [Once]_vars
  <2> SUFFICES ASSUME Inv, [Next]_vars PROVE Once
      OBVIOUS
  <2> USE ConstFacts DEF TypeOK, kernel, local
  <2>1. CASE waiting' = waiting
    BY <2>1
  <2>2. CASE CondInit
    BY <2>2 DEF CondInit
  <2>3. ASSUME NEW c \in Condvars, CondDestroy(c) PROVE Once
    BY <2>3 DEF CondDestroy
  <2>4. ASSUME NEW t \in Threads, WaitRegister(t) PROVE Once
    BY <2>4 DEF WaitRegister, Goto, RegisterInv, CallInv, WaitLabels
  <2>5. ASSUME NEW p \in Procs, SigClear(p) \/ BcastClear(p) PROVE Once
    <3>1. cv[p] \in Condvars /\ idx[p] \in Slots
      BY <2>5 DEF SigClear, BcastClear, Goto, Return, CallInv, SigLabels
    <3>2. waiting' = [waiting EXCEPT ![cv[p]][idx[p]] = 0]
      BY <2>5 DEF SigClear, BcastClear
    <3> QED BY <3>1, <3>2
  <2> HIDE DEF TypeOK
  <2> HIDE DEF Once
  <2>6. \/ waiting' = waiting \/ CondInit
        \/ \E c \in Condvars : CondDestroy(c)
        \/ \E t \in Threads : WaitRegister(t)
        \/ \E p \in Procs : SigClear(p) \/ BcastClear(p)
    <3> HIDE DEF Inv
    <3> QED
      BY DEF Next, KernelStep, LockStep, WaitStep, SigStep, MutexInit,
         MutexDestroy, MutexLock, MutexUnlock, CondWait, CondSignal, LockSpin,
         LockAcquire, LockXchg, UnlockXchg, WaitScan, WaitFull, ModifiedSleep,
         Woken, Relock, SigScan, SigEnd, SigRead, SigWake, Kill, Exit, vars
  <2> QED BY <2>1, <2>2, <2>3, <2>4, <2>5, <2>6
<1> QED BY <1>1, <1>2, PTL DEF Spec, SlotTakenOnce

(* A thread asleep in condvar_wait is in the waiting list, where a signal   *)
(* will find it, when every signaller holds the mutex.  Threads may be      *)
(* killed at any time.                                                      *)
THEOREM SleepersRegistered ==
  ASSUME BareSignallers = {}
  PROVE  Spec => []SleeperRegistered
<1>1. SleepInv => SleeperRegistered
  BY DEF SleepInv, SleeperRegistered
<1> QED
  BY <1>1, InitType, NextType, NextCall, InitHold, NextHold, InitSleep,
     NextRegister, NextSleep, NextPassed, PTL DEF Spec

(* condvar_signal and condvar_broadcast pass no sleeper by, when every      *)
(* signaller holds the mutex: one that reaches the end of the list left     *)
(* nobody asleep.                                                           *)
THEOREM NoWakeupLost ==
  ASSUME BareSignallers = {}
  PROVE  Spec => []NoSleeperPassed
BY InitType, NextType, NextCall, InitHold, NextHold, InitSleep,
   NextRegister, NextSleep, NextPassed, PTL DEF Spec
=============================================================================
