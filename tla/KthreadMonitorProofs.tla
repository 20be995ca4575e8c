------------------------ MODULE KthreadMonitorProofs -----------------------
(***************************************************************************)
(* When every signaller holds the mutex, no signal is spent on a thread    *)
(* that is awake: each pid in a waiting list belongs to a thread that      *)
(* sleeps there, is about to, is being cleared, or was killed.  With that, *)
(* the kernel's mutexes and condition variables implement Monitor.         *)
(***************************************************************************)
EXTENDS KthreadSyncProofs

(* Before the sleep of condvar_wait. *)
ToSleep == {"scan", "register", "msleep"}

(* t, registered at slot i of condvar c, sleeps there or is about to; or    *)
(* its slot is being cleared; or it was killed and will not sleep again.    *)
SlotJustified(c, i, t) ==
  \/ state[t] = "SLEEPING" /\ cv[t] = c /\ idx[t] = i
  \/ pc[t] = "msleep" /\ cv[t] = c /\ idx[t] = i
  \/ \E p \in Procs : pc[p] = "sigclear" /\ cv[p] = c /\ idx[p] = i
  \/ killed[t] = 1 /\ state[t] # "SLEEPING" /\ pc[t] \notin ToSleep

WaiterInv ==
  \A c \in Condvars, i \in Slots, t \in Threads :
    waiting[c][i] = t => SlotJustified(c, i, t)

(* Inside condvar_signal or condvar_broadcast, kind says which. *)
KindInv ==
  \A p \in Procs : pc[p] \in SigLabels => kind[p] \in {"signal", "broadcast"}

LEMMA InitWaiter == Init => WaiterInv /\ KindInv
BY ConstFacts DEF Init, WaiterInv, KindInv, SigLabels

(* A step of a proc that is neither asleep, about to sleep nor clearing a   *)
(* slot, and changes no list. *)
LEMMA MoveKeeps ==
  ASSUME TypeOK, WaiterInv, NEW p \in Procs,
         waiting' = waiting, state' = state, killed' = killed,
         \A q \in Procs :
           q # p => pc'[q] = pc[q] /\ cv'[q] = cv[q] /\ idx'[q] = idx[q],
         pc[p] \notin {"msleep", "sigclear"},
         p \in Threads => state[p] # "SLEEPING",
         p \in Threads /\ pc'[p] \in ToSleep
           => killed[p] = 0 \/ pc[p] \in ToSleep
  PROVE  WaiterInv'
<1> SUFFICES ASSUME NEW c \in Condvars, NEW i \in Slots, NEW t \in Threads,
                    waiting[c][i] = t
             PROVE  SlotJustified(c, i, t)'
  BY DEF WaiterInv
<1>1. SlotJustified(c, i, t) /\ Threads \subseteq Procs
  BY ConstFacts DEF WaiterInv
<1>2. CASE \E q \in Procs : pc[q] = "sigclear" /\ cv[q] = c /\ idx[q] = i
  BY <1>2 DEF SlotJustified
<1>3. CASE t # p
  BY <1>1, <1>2, <1>3 DEF SlotJustified
<1>4. CASE t = p
  <2>1. \/ killed[t] = 1 /\ pc[t] \notin ToSleep
        \/ \E q \in Procs : pc[q] = "sigclear" /\ cv[q] = c /\ idx[q] = i
    BY <1>1, <1>4 DEF SlotJustified
  <2> QED BY <1>2, <1>4, <2>1 DEF SlotJustified
<1> QED BY <1>3, <1>4

(* Every step of the kernel keeps the waiting lists justified. *)
LEMMA NextWaiter ==
  ASSUME BareSignallers = {}
  PROVE  TypeOK /\ CallInv /\ HoldInv /\ SleepInv /\ WaiterInv
           /\ [Next]_vars => WaiterInv'
<1> SUFFICES ASSUME TypeOK, CallInv, HoldInv, SleepInv, WaiterInv,
                    [Next]_vars
             PROVE  WaiterInv'
    OBVIOUS
<1>0. /\ Threads \subseteq Procs
      /\ 0 \notin Threads /\ -1 \notin Threads
      /\ DOMAIN pc = Procs /\ DOMAIN cv = Procs /\ DOMAIN idx = Procs
      /\ DOMAIN state = Threads /\ DOMAIN killed = Threads
      /\ waiting \in [Condvars -> [Slots -> Threads \cup {-1, 0}]]
  BY ConstFacts DEF TypeOK
<1>a. \A t \in Threads : state[t] = "SLEEPING" => pc[t] = "asleep"
  BY DEF SleepInv
<1>b. \A p, q \in Procs :
        /\ pc[p] \in SigLabels /\ pc[q] \in SigLabels /\ cv[p] = cv[q]
        => p = q
  BY ConstFacts DEF SleepInv, HoldInv, CallInv, TypeOK
<1> USE <1>0, <1>a DEF local, kernel, sched, Goto, Return, ToSleep, SigLabels
<1>1. CASE MutexInit
  BY <1>1 DEF MutexInit, WaiterInv, SlotJustified
<1>2. CASE CondInit
  BY <1>2 DEF CondInit, WaiterInv, SlotJustified
<1>3. ASSUME NEW m \in Mutexes, MutexDestroy(m) PROVE WaiterInv'
  BY <1>3 DEF MutexDestroy, WaiterInv, SlotJustified
<1>4. ASSUME NEW c \in Condvars, CondDestroy(c) PROVE WaiterInv'
  BY <1>4 DEF CondDestroy, WaiterInv, SlotJustified
<1>5. ASSUME NEW t \in Threads, NEW m \in Mutexes, MutexLock(t, m)
      PROVE WaiterInv'
  BY <1>5, MoveKeeps DEF MutexLock, MayCall
<1>6. ASSUME NEW t \in Threads, NEW m \in Mutexes, MutexUnlock(t, m)
      PROVE WaiterInv'
  BY <1>6, MoveKeeps DEF MutexUnlock, MayCall
<1>7. ASSUME NEW t \in Threads, NEW c \in Condvars, CondWait(t, c)
      PROVE WaiterInv'
  BY <1>7, MoveKeeps DEF CondWait, MayCall
<1>8. ASSUME NEW p \in Procs, NEW c \in Condvars,
             NEW k \in {"signal", "broadcast"}, CondSignal(p, c, k)
      PROVE WaiterInv'
  BY <1>8, MoveKeeps DEF CondSignal, MaySignal, MayCall
<1>9. ASSUME NEW t \in Threads, LockSpin(t) PROVE WaiterInv'
  BY <1>9, MoveKeeps DEF LockSpin
<1>10. ASSUME NEW t \in Threads, LockAcquire(t) PROVE WaiterInv'
  BY <1>10, MoveKeeps DEF LockAcquire
<1>11. ASSUME NEW t \in Threads, LockXchg(t) PROVE WaiterInv'
  BY <1>11, MoveKeeps DEF LockXchg
<1>12. ASSUME NEW t \in Threads, UnlockXchg(t) PROVE WaiterInv'
  BY <1>12, MoveKeeps DEF UnlockXchg
<1>13. ASSUME NEW t \in Threads, WaitScan(t) PROVE WaiterInv'
  BY <1>13, MoveKeeps DEF WaitScan
<1>14. ASSUME NEW t \in Threads, WaitFull(t) PROVE WaiterInv'
  BY <1>14, MoveKeeps DEF WaitFull
<1>15. ASSUME NEW t \in Threads, WaitRegister(t) PROVE WaiterInv'
  <2>1. /\ pc[t] = "register" /\ cv[t] \in Condvars /\ idx[t] \in Slots
        /\ waiting' = [waiting EXCEPT ![cv[t]][idx[t]] = t]
        /\ pc' = [pc EXCEPT ![t] = "msleep"]
        /\ UNCHANGED <<sched, cv, idx>>
    BY <1>15 DEF WaitRegister, CallInv, WaitLabels
  <2> SUFFICES ASSUME NEW c \in Condvars, NEW i \in Slots,
                      NEW u \in Threads, waiting'[c][i] = u
               PROVE  SlotJustified(c, i, u)'
    BY DEF WaiterInv
  <2>2. CASE c = cv[t] /\ i = idx[t]
    BY <2>1, <2>2 DEF SlotJustified
  <2>3. CASE ~(c = cv[t] /\ i = idx[t])
    <3>1. waiting[c][i] = u
      BY <2>1, <2>3
    <3>2. SlotJustified(c, i, u)
      BY <3>1 DEF WaiterInv
    <3> QED BY <2>1, <3>2 DEF SlotJustified
  <2> QED BY <2>2, <2>3
<1>16. ASSUME NEW t \in Threads, ModifiedSleep(t) PROVE WaiterInv'
  <2>1. /\ pc[t] = "msleep" /\ pc' = [pc EXCEPT ![t] = "asleep"]
        /\ state' = [state EXCEPT ![t] = "SLEEPING"]
        /\ UNCHANGED <<waiting, killed, cv, idx>>
    BY <1>16 DEF ModifiedSleep
  <2> SUFFICES ASSUME NEW c \in Condvars, NEW i \in Slots,
                      NEW u \in Threads, waiting[c][i] = u
               PROVE  SlotJustified(c, i, u)'
    BY <2>1 DEF WaiterInv
  <2>2. SlotJustified(c, i, u)
    BY DEF WaiterInv
  <2> QED BY <2>1, <2>2 DEF SlotJustified
<1>17. ASSUME NEW t \in Threads, Woken(t) PROVE WaiterInv'
  BY <1>17, MoveKeeps DEF Woken
<1>18. ASSUME NEW t \in Threads, Relock(t) PROVE WaiterInv'
  BY <1>18, MoveKeeps DEF Relock
<1>19. ASSUME NEW p \in Procs, SigScan(p) PROVE WaiterInv'
  BY <1>19, MoveKeeps DEF SigScan
<1>20. ASSUME NEW p \in Procs, SigEnd(p) PROVE WaiterInv'
  BY <1>20, MoveKeeps DEF SigEnd
<1>21. ASSUME NEW p \in Procs, SigRead(p) PROVE WaiterInv'
  BY <1>21, MoveKeeps DEF SigRead
<1>22. ASSUME NEW p \in Procs, SigWake(p) PROVE WaiterInv'
  <2>1. /\ pc[p] = "sigwake" /\ pc' = [pc EXCEPT ![p] = "sigclear"]
        /\ UNCHANGED <<waiting, killed, cv, idx>>
        /\ cv[p] \in Condvars /\ idx[p] \in Slots /\ tgt[p] \in Threads
        /\ waiting[cv[p]][idx[p]] = tgt[p]
    BY <1>22 DEF SigWake, SleepInv, CallInv
  <2>2. /\ state' \in [Threads -> {"RUNNABLE", "SLEEPING"}]
        /\ \A u \in Threads : u # tgt[p] => state'[u] = state[u]
        /\ state'[tgt[p]] # "SLEEPING" \/ state'[tgt[p]] = state[tgt[p]]
    BY <1>22 DEF SigWake, Wakeup1, TypeOK, SleepInv
  <2>3. pc'[p] = "sigclear" /\ \A q \in Procs : q # p => pc'[q] = pc[q]
    BY <2>1
  <2> SUFFICES ASSUME NEW c \in Condvars, NEW i \in Slots,
                      NEW u \in Threads, waiting[c][i] = u
               PROVE  SlotJustified(c, i, u)'
    BY <2>1 DEF WaiterInv
  <2>4. SlotJustified(c, i, u)
    BY DEF WaiterInv
  <2>5. CASE c = cv[p] /\ i = idx[p]
    BY <2>1, <2>3, <2>5 DEF SlotJustified
  <2>6. CASE \E q \in Procs : pc[q] = "sigclear" /\ cv[q] = c /\ idx[q] = i
    BY <2>1, <2>3, <2>6 DEF SlotJustified
  <2>7. CASE u # tgt[p]
    BY <2>1, <2>2, <2>3, <2>4, <2>6, <2>7 DEF SlotJustified
  <2>8. CASE u = tgt[p] /\ ~(c = cv[p] /\ i = idx[p])
    <3>1. SlotJustified(cv[p], idx[p], u)
      BY <2>1, <2>8 DEF WaiterInv
    <3>2. ~\E q \in Procs : /\ pc[q] = "sigclear" /\ cv[q] = cv[p]
                            /\ idx[q] = idx[p]
      BY <1>b, <2>1
    <3>3. CASE state[u] = "SLEEPING" \/ pc[u] = "msleep"
      BY <2>4, <2>6, <2>8, <3>1, <3>2, <3>3 DEF SlotJustified
    <3>4. CASE state[u] # "SLEEPING" /\ pc[u] # "msleep"
      <4>1. \/ killed[u] = 1 /\ pc[u] \notin ToSleep
            \/ \E q \in Procs : /\ pc[q] = "sigclear" /\ cv[q] = c
                                /\ idx[q] = i
        BY <2>4, <3>4 DEF SlotJustified
      <4>2. \/ state'[u] # "SLEEPING" /\ pc'[u] \notin ToSleep
            \/ pc[u] \in ToSleep
        BY <2>2, <2>3, <2>8, <3>4
      <4> QED BY <2>1, <2>6, <4>1, <4>2 DEF SlotJustified
    <3> QED BY <3>3, <3>4
  <2> QED BY <2>5, <2>7, <2>8
<1>23. ASSUME NEW p \in Procs, SigClear(p) PROVE WaiterInv'
  <2>1. /\ pc[p] = "sigclear" /\ cv[p] \in Condvars /\ idx[p] \in Slots
        /\ waiting' = [waiting EXCEPT ![cv[p]][idx[p]] = 0]
        /\ UNCHANGED <<state, killed>>
        /\ pc'[p] = "user"
        /\ \A q \in Procs : q # p => /\ pc'[q] = pc[q] /\ cv'[q] = cv[q]
                                     /\ idx'[q] = idx[q]
    BY <1>23 DEF SigClear, CallInv
  <2> SUFFICES ASSUME NEW c \in Condvars, NEW i \in Slots,
                      NEW u \in Threads, waiting'[c][i] = u
               PROVE  SlotJustified(c, i, u)'
    BY DEF WaiterInv
  <2>2. waiting[c][i] = u /\ ~(c = cv[p] /\ i = idx[p])
    BY <2>1
  <2>3. SlotJustified(c, i, u)
    BY <2>2 DEF WaiterInv
  <2> QED BY <2>1, <2>2, <2>3 DEF SlotJustified
<1>24. ASSUME NEW t \in Threads, Kill(t) PROVE WaiterInv'
  <2>1. /\ killed' = [killed EXCEPT ![t] = 1]
        /\ state' = [state EXCEPT ![t] = "RUNNABLE"]
        /\ UNCHANGED <<waiting, pc, cv, idx>>
    BY <1>24 DEF Kill
  <2> SUFFICES ASSUME NEW c \in Condvars, NEW i \in Slots,
                      NEW u \in Threads, waiting[c][i] = u
               PROVE  SlotJustified(c, i, u)'
    BY <2>1 DEF WaiterInv
  <2>2. SlotJustified(c, i, u)
    BY DEF WaiterInv
  <2> QED BY <2>1, <2>2 DEF SlotJustified
<1>25. ASSUME NEW t \in Threads, Exit(t) PROVE WaiterInv'
  BY <1>25, MoveKeeps DEF Exit
<1>26. CASE UNCHANGED vars
  BY <1>26 DEF vars, WaiterInv, SlotJustified
<1>27. ASSUME NEW p \in Procs, BcastClear(p) PROVE WaiterInv'
  <2>1. /\ pc[p] = "sigclear" /\ cv[p] \in Condvars /\ idx[p] \in Slots
        /\ waiting' = [waiting EXCEPT ![cv[p]][idx[p]] = 0]
        /\ UNCHANGED <<state, killed>>
        /\ pc'[p] = "sigscan"
        /\ \A q \in Procs : q # p => /\ pc'[q] = pc[q] /\ cv'[q] = cv[q]
                                     /\ idx'[q] = idx[q]
    BY <1>27 DEF BcastClear, CallInv
  <2> SUFFICES ASSUME NEW c \in Condvars, NEW i \in Slots,
                      NEW u \in Threads, waiting'[c][i] = u
               PROVE  SlotJustified(c, i, u)'
    BY DEF WaiterInv
  <2>2. waiting[c][i] = u /\ ~(c = cv[p] /\ i = idx[p])
    BY <2>1
  <2>3. SlotJustified(c, i, u)
    BY <2>2 DEF WaiterInv
  <2> QED BY <2>1, <2>2, <2>3 DEF SlotJustified
<1> HIDE <1>0, <1>a DEF local, kernel, sched, Goto, Return, ToSleep, SigLabels
<1> QED
  BY <1>1, <1>2, <1>3, <1>4, <1>5, <1>6, <1>7, <1>8, <1>9, <1>10, <1>11,
     <1>12, <1>13, <1>14, <1>15, <1>16, <1>17, <1>18, <1>19, <1>20, <1>21,
     <1>22, <1>23, <1>24, <1>25, <1>26, <1>27
  DEF Next, KernelStep, LockStep, WaitStep, SigStep

(* What the waiting lists say of a signal about to wake its target. *)
LEMMA TargetAsleep ==
  ASSUME TypeOK, CallInv, HoldInv, SleepInv, WaiterInv,
         NEW p \in Procs, pc[p] = "sigwake"
  PROVE  /\ tgt[p] \in Threads
         /\ \/ state[tgt[p]] = "SLEEPING" /\ cv[tgt[p]] = cv[p]
            \/ state[tgt[p]] # "SLEEPING" /\ killed[tgt[p]] = 1
<1>1. /\ tgt[p] \in Threads /\ waiting[cv[p]][idx[p]] = tgt[p]
      /\ cv[p] \in Condvars /\ idx[p] \in Slots
      /\ p \in Threads /\ MutexOf[cv[p]] \in held[p]
  BY DEF SleepInv, CallInv, SigLabels
<1>2. SlotJustified(cv[p], idx[p], tgt[p])
  BY <1>1 DEF WaiterInv
<1>3. ASSUME NEW q \in Procs, pc[q] = "sigclear", cv[q] = cv[p] PROVE FALSE
  BY <1>1, <1>3, ConstFacts DEF SleepInv, HoldInv, SigLabels, TypeOK
<1>4. ASSUME pc[tgt[p]] = "msleep", cv[tgt[p]] = cv[p] PROVE FALSE
  BY <1>1, <1>4, ConstFacts DEF HoldInv, CallInv, WaitLabels, TypeOK
<1> QED BY <1>1, <1>2, <1>3, <1>4 DEF SlotJustified

(* A signal is never spent on a thread that is already awake, unless that   *)
(* thread was killed: when condvar_signal calls wakeup, its target sleeps,  *)
(* for any number of threads, mutexes, condition variables and slots, when  *)
(* every signaller holds the mutex.                                         *)
THEOREM SignalsReachSleepers ==
  ASSUME BareSignallers = {}
  PROVE  Spec => []SignalNotAbsorbed
<1>1. TypeOK /\ CallInv /\ HoldInv /\ SleepInv /\ WaiterInv
        => SignalNotAbsorbed
  BY TargetAsleep DEF SignalNotAbsorbed
<1> QED
  BY <1>1, InitType, NextType, NextCall, InitHold, NextHold, InitSleep,
     NextRegister, NextSleep, NextPassed, InitWaiter, NextWaiter, PTL
  DEF Spec

-----------------------------------------------------------------------------
(* The owner the mapping chooses is the one holder. *)
LEMMA OwnerIs ==
  ASSUME TypeOK, HoldInv
  PROVE  /\ \A m \in Mutexes, t \in Threads : m \in held[t] => OwnerOf[m] = t
         /\ \A m \in Mutexes :
              (\A t \in Threads : m \notin held[t]) => OwnerOf[m] = 0
<1>1. ASSUME NEW m \in Mutexes, NEW t \in Threads, m \in held[t]
      PROVE  OwnerOf[m] = t
  <2>1. \A u \in Threads : m \in held[u] => u = t
    BY <1>1 DEF HoldInv
  <2>2. (CHOOSE u \in Threads : m \in held[u]) = t
    BY <1>1, <2>1, Zenon
  <2>3. OwnerOf[m] = CHOOSE u \in Threads : m \in held[u]
    BY <1>1 DEF OwnerOf
  <2> QED BY <2>2, <2>3
<1>2. ASSUME NEW m \in Mutexes, \A t \in Threads : m \notin held[t]
      PROVE  OwnerOf[m] = 0
  BY <1>2 DEF OwnerOf
<1> QED BY <1>1, <1>2

LEMMA OwnerIsNext ==
  ASSUME TypeOK', HoldInv'
  PROVE  /\ \A m \in Mutexes, t \in Threads :
              m \in held'[t] => OwnerOf'[m] = t
         /\ \A m \in Mutexes :
              (\A t \in Threads : m \notin held'[t]) => OwnerOf'[m] = 0
<1>1. ASSUME NEW m \in Mutexes, NEW t \in Threads, m \in held'[t]
      PROVE  OwnerOf'[m] = t
  <2>1. \A u \in Threads : m \in held'[u] => u = t
    BY <1>1 DEF HoldInv
  <2>2. (CHOOSE u \in Threads : m \in held'[u]) = t
    BY <1>1, <2>1, Zenon
  <2>3. OwnerOf'[m] = CHOOSE u \in Threads : m \in held'[u]
    BY <1>1 DEF OwnerOf
  <2> QED BY <2>2, <2>3
<1>2. ASSUME NEW m \in Mutexes, \A t \in Threads : m \notin held'[t]
      PROVE  OwnerOf'[m] = 0
  BY <1>2 DEF OwnerOf
<1> QED BY <1>1, <1>2

(* Taking and giving up a mutex, as the monitor sees it. *)
LEMMA OwnerGained ==
  ASSUME TypeOK, HoldInv, TypeOK', HoldInv',
         NEW t \in Threads, NEW m \in Mutexes,
         \A u \in Threads : m \notin held[u],
         held' = [held EXCEPT ![t] = @ \cup {m}]
  PROVE  OwnerOf[m] = 0 /\ OwnerOf' = [OwnerOf EXCEPT ![m] = t]
<1>1. OwnerOf[m] = 0 /\ OwnerOf'[m] = t
  BY OwnerIs, OwnerIsNext DEF TypeOK
<1>2. ASSUME NEW n \in Mutexes, n # m PROVE OwnerOf'[n] = OwnerOf[n]
  <2>1. \A u \in Threads : n \in held'[u] <=> n \in held[u]
    BY <1>2 DEF TypeOK
  <2>2. CASE \E u \in Threads : n \in held[u]
    BY <2>1, <2>2, OwnerIs, OwnerIsNext
  <2>3. CASE \A u \in Threads : n \notin held[u]
    BY <2>1, <2>3, OwnerIs, OwnerIsNext
  <2> QED BY <2>2, <2>3
<1> QED BY <1>1, <1>2, Zenon DEF OwnerOf

LEMMA OwnerLost ==
  ASSUME TypeOK, HoldInv, TypeOK', HoldInv',
         NEW t \in Threads, NEW m \in Mutexes, m \in held[t],
         held' = [held EXCEPT ![t] = @ \ {m}]
  PROVE  OwnerOf[m] = t /\ OwnerOf' = [OwnerOf EXCEPT ![m] = 0]
<1>0. \A u \in Threads : m \notin held'[u]
  BY DEF TypeOK, HoldInv
<1>1. OwnerOf[m] = t /\ OwnerOf'[m] = 0
  BY <1>0, OwnerIs, OwnerIsNext
<1>2. ASSUME NEW n \in Mutexes, n # m PROVE OwnerOf'[n] = OwnerOf[n]
  <2>1. \A u \in Threads : n \in held'[u] <=> n \in held[u]
    BY <1>2 DEF TypeOK
  <2>2. CASE \E u \in Threads : n \in held[u]
    BY <2>1, <2>2, OwnerIs, OwnerIsNext
  <2>3. CASE \A u \in Threads : n \notin held[u]
    BY <2>1, <2>3, OwnerIs, OwnerIsNext
  <2> QED BY <2>2, <2>3
<1> QED BY <1>1, <1>2, Zenon DEF OwnerOf

LEMMA OwnerSame ==
  ASSUME held' = held
  PROVE  OwnerOf' = OwnerOf
BY DEF OwnerOf

-----------------------------------------------------------------------------
(* A step of p alone leaves what the monitor sees of the others. *)
LEMMA WaitersSame ==
  ASSUME NEW p \in Procs, state' = state,
         \A q \in Procs : q # p => cv'[q] = cv[q],
         p \in Threads => state[p] # "SLEEPING" \/ cv'[p] = cv[p]
  PROVE  WaitersOf' = WaitersOf
BY ConstFacts DEF WaitersOf

LEMMA ResumeSame ==
  ASSUME NEW p \in Procs,
         \A q \in Procs : q # p => pc'[q] = pc[q] /\ mx'[q] = mx[q],
         \/ /\ pc[p] \notin {"asleep", "relock"}
            /\ pc'[p] \notin {"asleep", "relock"}
         \/ /\ pc[p] \in {"asleep", "relock"}
            /\ pc'[p] \in {"asleep", "relock"}
            /\ mx'[p] = mx[p]
  PROVE  ResumeOf' = ResumeOf
BY ConstFacts DEF ResumeOf

LEMMA CallSame ==
  ASSUME NEW p \in Procs,
         \A q \in Procs :
           q # p => pc'[q] = pc[q] /\ cv'[q] = cv[q] /\ kind'[q] = kind[q],
         \/ pc[p] \notin SigLabels /\ pc'[p] \notin SigLabels
         \/ /\ pc[p] \in SigLabels /\ pc'[p] \in SigLabels
            /\ cv'[p] = cv[p] /\ kind'[p] = kind[p]
            /\ \/ kind[p] = "broadcast"
               \/ pc[p] # "sigclear" /\ pc'[p] # "sigclear"
  PROVE  CallOf' = CallOf
<1>1. ASSUME NEW t \in Threads PROVE CallOf'[t] = CallOf[t]
  <2>1. CASE t # p
    BY <2>1, ConstFacts DEF CallOf
  <2>2. CASE t = p /\ pc[p] \notin SigLabels /\ pc'[p] \notin SigLabels
    BY <2>2 DEF CallOf, SigLabels
  <2>3. CASE t = p /\ pc[p] \in SigLabels /\ pc'[p] \in SigLabels
    BY <2>3 DEF CallOf, SigLabels
  <2> QED BY <2>1, <2>2, <2>3
<1> QED BY <1>1 DEF CallOf

LEMMA CallIs ==
  ASSUME NEW t \in Threads
  PROVE  /\ pc[t] \notin SigLabels => CallOf[t] = [kind |-> "idle", on |-> 0]
         /\ pc[t] \in SigLabels =>
              CallOf[t] = [kind |-> IF kind[t] = "signal" /\ pc[t] = "sigclear"
                                      THEN "done" ELSE kind[t],
                           on |-> cv[t]]
BY DEF CallOf, SigLabels

LEMMA CallMoved ==
  ASSUME NEW p \in Threads,
         \A q \in Procs :
           q # p => pc'[q] = pc[q] /\ cv'[q] = cv[q] /\ kind'[q] = kind[q]
  PROVE  CallOf' = [CallOf EXCEPT ![p] = CallOf'[p]]
<1>1. ASSUME NEW t \in Threads, t # p PROVE CallOf'[t] = CallOf[t]
  BY <1>1, ConstFacts DEF CallOf
<1>2. /\ CallOf = [t \in Threads |-> CallOf[t]]
      /\ CallOf' = [t \in Threads |-> CallOf'[t]]
  BY DEF CallOf
<1> QED BY <1>1, <1>2

LEMMA CallIsNext ==
  ASSUME NEW t \in Threads
  PROVE  /\ pc'[t] \notin SigLabels
              => CallOf'[t] = [kind |-> "idle", on |-> 0]
         /\ pc'[t] \in SigLabels =>
              CallOf'[t] =
                [kind |-> IF kind'[t] = "signal" /\ pc'[t] = "sigclear"
                            THEN "done" ELSE kind'[t],
                 on |-> cv'[t]]
BY DEF CallOf, SigLabels

(* Only condvar_signal and condvar_broadcast enter their scan. *)
LEMMA NextKind ==
  ASSUME TypeOK, KindInv, [Next]_vars
  PROVE  KindInv'
<1> USE ConstFacts
    DEF TypeOK, KindInv, SigLabels, local, kernel, sched, Goto, Return
<1>1. CASE \/ MutexInit \/ CondInit
           \/ \E m \in Mutexes : MutexDestroy(m)
           \/ \E c \in Condvars : CondDestroy(c)
           \/ UNCHANGED vars
  BY <1>1 DEF MutexInit, CondInit, MutexDestroy, CondDestroy, vars
<1>2. ASSUME NEW t \in Threads, NEW m \in Mutexes,
             MutexLock(t, m) \/ MutexUnlock(t, m)
      PROVE  KindInv'
  BY <1>2 DEF MutexLock, MutexUnlock
<1>3. ASSUME NEW t \in Threads, NEW c \in Condvars, CondWait(t, c)
      PROVE  KindInv'
  BY <1>3 DEF CondWait
<1>4. ASSUME NEW p \in Procs, NEW c \in Condvars,
             NEW k \in {"signal", "broadcast"}, CondSignal(p, c, k)
      PROVE  KindInv'
  BY <1>4 DEF CondSignal
<1>5. ASSUME NEW t \in Threads, LockStep(t) \/ UnlockXchg(t) PROVE KindInv'
  BY <1>5 DEF LockStep, LockSpin, LockAcquire, LockXchg, UnlockXchg
<1>6. ASSUME NEW t \in Threads, WaitStep(t) PROVE KindInv'
  BY <1>6 DEF WaitStep, WaitScan, WaitFull, WaitRegister, ModifiedSleep,
              Woken, Relock
<1>7. ASSUME NEW p \in Procs, SigStep(p) PROVE KindInv'
  BY <1>7 DEF SigStep, SigScan, SigEnd, SigRead, SigWake, SigClear,
              BcastClear
<1>8. ASSUME NEW t \in Threads, Kill(t) \/ Exit(t) PROVE KindInv'
  BY <1>8 DEF Kill, Exit
<1> HIDE DEF TypeOK, KindInv, SigLabels, local, kernel, sched, Goto, Return
<1> QED BY <1>1, <1>2, <1>3, <1>4, <1>5, <1>6, <1>7, <1>8 DEF Next, KernelStep

-----------------------------------------------------------------------------
(* Every step of the kernel is a step of the monitor or changes nothing the *)
(* monitor sees.                                                            *)
LEMMA StepRefines ==
  ASSUME BareSignallers = {}, TypeOK, CallInv, HoldInv, SleepInv, WaiterInv,
         KindInv, NoSleeperPassed, TypeOK', HoldInv', [Next]_vars
  PROVE  [Mon!Next]_(Mon!mvars)
<1> DEFINE Seen == UNCHANGED Mon!mvars
           Step == Mon!Next
<1>0. /\ Threads \subseteq Procs
      /\ DOMAIN pc = Procs /\ DOMAIN cv = Procs /\ DOMAIN mx = Procs
      /\ DOMAIN kind = Procs /\ DOMAIN state = Threads
      /\ DOMAIN killed = Threads /\ DOMAIN held = Threads
  BY ConstFacts DEF TypeOK
<1>a. \A t \in Threads : state[t] = "SLEEPING" => pc[t] = "asleep"
  BY DEF SleepInv
<1>b. ASSUME OwnerOf' = OwnerOf, WaitersOf' = WaitersOf,
             ResumeOf' = ResumeOf, CallOf' = CallOf, killed' = killed
      PROVE  Seen
  BY <1>b DEF Mon!mvars
<1> USE <1>0, <1>a DEF local, kernel, sched, Goto, Return, SigLabels
<1> HIDE DEF Seen, Step
<1>1. ASSUME \/ MutexInit \/ CondInit
             \/ \E m \in Mutexes : MutexDestroy(m)
             \/ \E c \in Condvars : CondDestroy(c)
             \/ UNCHANGED vars
      PROVE  Seen
  <2>1. UNCHANGED <<held, state, killed, pc, mx, cv, kind>>
    BY <1>1 DEF MutexInit, CondInit, MutexDestroy, CondDestroy, vars
  <2>2. WaitersOf' = WaitersOf /\ ResumeOf' = ResumeOf
    BY <2>1 DEF WaitersOf, ResumeOf
  <2>3. CallOf' = CallOf
    BY <2>1 DEF CallOf
  <2> QED BY <1>b, <2>1, <2>2, <2>3, OwnerSame
<1>2. ASSUME NEW t \in Threads, NEW m \in Mutexes,
             MutexLock(t, m) \/ MutexUnlock(t, m)
      PROVE  Seen
  <2>1. /\ UNCHANGED <<held, state, killed, cv, kind>>
        /\ pc[t] = "user" /\ pc'[t] \in {"spin", "unlock"}
        /\ \A q \in Procs : q # t => pc'[q] = pc[q] /\ mx'[q] = mx[q]
    BY <1>2 DEF MutexLock, MutexUnlock
  <2> QED BY <1>b, <2>1, OwnerSame, WaitersSame, ResumeSame, CallSame
<1>3. ASSUME NEW t \in Threads, NEW c \in Condvars, CondWait(t, c)
      PROVE  Seen
  <2>1. /\ UNCHANGED <<held, state, killed, kind>>
        /\ pc[t] = "user" /\ pc'[t] = "scan"
        /\ \A q \in Procs :
             q # t => pc'[q] = pc[q] /\ mx'[q] = mx[q] /\ cv'[q] = cv[q]
    BY <1>3 DEF CondWait
  <2> QED BY <1>b, <2>1, OwnerSame, WaitersSame, ResumeSame, CallSame
<1>4. ASSUME NEW p \in Procs, NEW c \in Condvars,
             NEW k \in {"signal", "broadcast"}, CondSignal(p, c, k)
      PROVE  Step
  <2>1. /\ UNCHANGED <<held, state, killed, mx>>
        /\ pc[p] = "user" /\ pc'[p] = "sigscan"
        /\ cv'[p] = c /\ kind'[p] = k
        /\ p \in Threads /\ MutexOf[c] \in held[p]
        /\ \A q \in Procs :
             q # p => pc'[q] = pc[q] /\ kind'[q] = kind[q] /\ cv'[q] = cv[q]
    BY <1>4 DEF CondSignal, MaySignal
  <2>2. OwnerOf' = OwnerOf /\ WaitersOf' = WaitersOf /\ ResumeOf' = ResumeOf
    BY <2>1, OwnerSame, WaitersSame, ResumeSame
  <2>3. /\ CallOf[p] = Mon!Idle
        /\ CallOf' = [CallOf EXCEPT ![p] = [kind |-> k, on |-> c]]
    BY <2>1, CallIs, CallIsNext, CallMoved, Zenon DEF Mon!Idle
  <2>4. OwnerOf[MutexOf[c]] = p /\ ResumeOf[p] = 0
    BY <2>1, OwnerIs, ConstFacts DEF ResumeOf
  <2>5. Mon!Call(p, c, k)
    BY <2>1, <2>2, <2>3, <2>4 DEF Mon!Call
  <2> QED BY <2>1, <2>5 DEF Step, Mon!Next
<1>5. ASSUME NEW t \in Threads, LockSpin(t) \/ LockAcquire(t) PROVE Seen
  <2>1. /\ UNCHANGED <<held, state, killed, mx, cv, kind>>
        /\ pc[t] \in {"spin", "acquire"} /\ pc'[t] \in {"acquire", "xchg"}
        /\ \A q \in Procs : q # t => pc'[q] = pc[q]
    BY <1>5 DEF LockSpin, LockAcquire
  <2> QED BY <1>b, <2>1, OwnerSame, WaitersSame, ResumeSame, CallSame
<1>6. ASSUME NEW t \in Threads, LockXchg(t) \/ Relock(t) PROVE Step
  <2> DEFINE m == mx[t]
  <2>1. /\ UNCHANGED <<state, killed>>
        /\ pc[t] \in {"xchg", "relock"} /\ pc'[t] = "user"
        /\ locked[m] = 0 /\ held' = [held EXCEPT ![t] = @ \cup {m}]
        /\ mx'[t] = 0
        /\ \A q \in Procs : q # t => /\ pc'[q] = pc[q] /\ mx'[q] = mx[q]
                                     /\ cv'[q] = cv[q] /\ kind'[q] = kind[q]
    BY <1>6 DEF LockXchg, Relock
  <2>2. m \in Mutexes
    <3>1. CASE pc[t] = "xchg"
      BY <3>1 DEF CallInv
    <3>2. CASE pc[t] = "relock"
      BY <3>2, ConstFacts DEF CallInv, WaitLabels
    <3> QED BY <2>1, <3>1, <3>2
  <2>3. \A u \in Threads : m \notin held[u]
    BY <2>1 DEF HoldInv
  <2> HIDE DEF m
  <2>4. OwnerOf[m] = 0 /\ OwnerOf' = [OwnerOf EXCEPT ![m] = t]
    BY <2>1, <2>2, <2>3, OwnerGained, Zenon
  <2>5. WaitersOf' = WaitersOf /\ CallOf' = CallOf /\ CallOf[t] = Mon!Idle
    BY <2>1, WaitersSame, CallSame, CallIs, Zenon DEF Mon!Idle
  <2>6. ResumeOf[t] \in {0, m} /\ ResumeOf' = [ResumeOf EXCEPT ![t] = 0]
    BY <2>1, Zenon DEF ResumeOf, m
  <2>7. ~Mon!Waiting(t)
    BY <2>1 DEF Mon!Waiting, WaitersOf
  <2>8. Mon!Acquire(t, m)
    BY <2>1, <2>4, <2>5, <2>6, <2>7 DEF Mon!Acquire, Mon!NoOne
  <2> QED BY <2>2, <2>8 DEF Step, Mon!Next
<1>7. ASSUME NEW t \in Threads, UnlockXchg(t) PROVE Step
  <2> DEFINE m == mx[t]
  <2>1. /\ UNCHANGED <<state, killed>>
        /\ pc[t] = "unlock" /\ pc'[t] = "user"
        /\ held' = [held EXCEPT ![t] = @ \ {m}]
        /\ \A q \in Procs : q # t => /\ pc'[q] = pc[q] /\ mx'[q] = mx[q]
                                     /\ cv'[q] = cv[q] /\ kind'[q] = kind[q]
    BY <1>7 DEF UnlockXchg
  <2>2. m \in Mutexes /\ m \in held[t]
    BY <2>1 DEF CallInv, HoldInv
  <2> HIDE DEF m
  <2>3. OwnerOf[m] = t /\ OwnerOf' = [OwnerOf EXCEPT ![m] = 0]
    BY <2>1, <2>2, OwnerLost, Zenon
  <2>4. /\ WaitersOf' = WaitersOf /\ CallOf' = CallOf
        /\ ResumeOf' = ResumeOf /\ CallOf[t] = Mon!Idle
    BY <2>1, WaitersSame, CallSame, ResumeSame, CallIs, Zenon DEF Mon!Idle
  <2>5. ResumeOf[t] = 0
    BY <2>1 DEF ResumeOf
  <2>6. Mon!Release(t, m)
    BY <2>1, <2>3, <2>4, <2>5 DEF Mon!Release, Mon!NoOne
  <2> QED BY <2>2, <2>6 DEF Step, Mon!Next
<1>8. ASSUME NEW t \in Threads,
             WaitScan(t) \/ WaitFull(t) \/ WaitRegister(t)
      PROVE  Seen
  <2>1. /\ UNCHANGED <<held, state, killed>>
        /\ pc[t] \in {"scan", "register"}
        /\ pc'[t] \in {"scan", "register", "msleep", "user"}
        /\ \A q \in Procs : q # t => /\ pc'[q] = pc[q] /\ mx'[q] = mx[q]
                                     /\ cv'[q] = cv[q] /\ kind'[q] = kind[q]
    BY <1>8 DEF WaitScan, WaitFull, WaitRegister
  <2> QED BY <1>b, <2>1, OwnerSame, WaitersSame, ResumeSame, CallSame
<1>9. ASSUME NEW t \in Threads, ModifiedSleep(t) PROVE Step
  <2> DEFINE m == mx[t]
             c == cv[t]
  <2>1. /\ UNCHANGED <<killed, mx, cv, kind>>
        /\ pc[t] = "msleep" /\ pc' = [pc EXCEPT ![t] = "asleep"]
        /\ held' = [held EXCEPT ![t] = @ \ {m}]
        /\ state' = [state EXCEPT ![t] = "SLEEPING"]
    BY <1>9 DEF ModifiedSleep
  <2>2. c \in Condvars /\ m = MutexOf[c] /\ m \in Mutexes /\ m \in held[t]
    BY <2>1, ConstFacts DEF CallInv, HoldInv, WaitLabels
  <2>3. OwnerOf[m] = t /\ OwnerOf' = [OwnerOf EXCEPT ![m] = 0]
    BY <2>1, <2>2, OwnerLost, Zenon
  <2>4. CallOf' = CallOf /\ CallOf[t] = Mon!Idle
    BY <2>1, CallSame, CallIs, Zenon DEF Mon!Idle
  <2>5. ResumeOf[t] = 0 /\ ResumeOf' = [ResumeOf EXCEPT ![t] = m]
    BY <2>1, Zenon DEF ResumeOf
  <2>6. WaitersOf' = [WaitersOf EXCEPT ![c] = @ \cup {t}]
    <3>1. WaitersOf'[c] = WaitersOf[c] \cup {t}
      BY <2>1, <2>2 DEF WaitersOf
    <3>2. ASSUME NEW d \in Condvars, d # c
          PROVE  WaitersOf'[d] = WaitersOf[d]
      BY <2>1, <2>2, <3>2 DEF WaitersOf
    <3> QED BY <2>2, <3>1, <3>2, Zenon DEF WaitersOf
  <2>7. Mon!Wait(t, c)
    BY <2>1, <2>2, <2>3, <2>4, <2>5, <2>6 DEF Mon!Wait, Mon!NoOne
  <2> QED BY <2>2, <2>7 DEF Step, Mon!Next
<1>10. ASSUME NEW t \in Threads, Woken(t) PROVE Seen
  <2>1. /\ UNCHANGED <<held, state, killed, mx, cv, kind>>
        /\ pc[t] = "asleep" /\ pc'[t] = "relock"
        /\ \A q \in Procs : q # t => pc'[q] = pc[q]
    BY <1>10 DEF Woken
  <2> QED BY <1>b, <2>1, OwnerSame, WaitersSame, ResumeSame, CallSame
<1>11. ASSUME NEW p \in Procs, SigScan(p) \/ SigRead(p) \/ BcastClear(p)
       PROVE  Seen
  <2>1. /\ UNCHANGED <<held, state, killed, mx, cv, kind>>
        /\ pc[p] \in SigLabels /\ pc'[p] \in SigLabels \ {"sigclear"}
        /\ pc[p] = "sigclear" => kind[p] = "broadcast"
        /\ \A q \in Procs : q # p => pc'[q] = pc[q]
    BY <1>11 DEF SigScan, SigRead, BcastClear
  <2> QED BY <1>b, <2>1, OwnerSame, WaitersSame, ResumeSame, CallSame
<1>12. ASSUME NEW p \in Procs, SigEnd(p) \/ SigClear(p) PROVE Step
  <2>1. /\ UNCHANGED <<held, state, killed>>
        /\ pc[p] \in {"sigscan", "sigclear"} /\ pc'[p] = "user"
        /\ pc[p] = "sigscan" => idx[p] \notin Slots
        /\ pc[p] = "sigclear" => kind[p] = "signal"
        /\ \A q \in Procs : q # p => /\ pc'[q] = pc[q] /\ mx'[q] = mx[q]
                                     /\ cv'[q] = cv[q] /\ kind'[q] = kind[q]
    BY <1>12 DEF SigEnd, SigClear
  <2>2. p \in Threads /\ cv[p] \in Condvars
    BY <2>1 DEF SleepInv, CallInv
  <2>3. OwnerOf' = OwnerOf /\ WaitersOf' = WaitersOf /\ ResumeOf' = ResumeOf
    BY <2>1, OwnerSame, WaitersSame, ResumeSame
  <2>4. CallOf' = [CallOf EXCEPT ![p] = Mon!Idle]
    BY <2>1, <2>2, CallIsNext, CallMoved, Zenon DEF Mon!Idle
  <2>5. /\ CallOf[p].on = cv[p] /\ CallOf[p].kind # "idle"
        /\ pc[p] = "sigclear" => CallOf[p].kind = "done"
    <3>1. kind[p] \in {"signal", "broadcast"}
      BY <2>1 DEF KindInv
    <3>2. CallOf[p] = [kind |-> IF pc[p] = "sigclear" THEN "done" ELSE kind[p],
                       on |-> cv[p]]
      BY <2>1, <2>2, CallIs
    <3>3. /\ CallOf[p].on = cv[p]
          /\ CallOf[p].kind = IF pc[p] = "sigclear" THEN "done" ELSE kind[p]
      BY ONLY <3>2
    <3> QED BY ONLY <3>1, <3>3
  <2>6. CallOf[p] # Mon!Idle
    <3>1. Mon!Idle.kind = "idle"
      BY DEF Mon!Idle
    <3> QED BY ONLY <2>5, <3>1
  <2>7. ASSUME pc[p] = "sigscan" PROVE WaitersOf[cv[p]] = {}
    <3>1. idx[p] = MAXTHRDS + 1
      BY <2>1, <2>7, ConstFacts DEF CallInv, TypeOK
    <3>2. ASSUME NEW t \in Threads, state[t] = "SLEEPING", cv[t] = cv[p]
          PROVE  FALSE
      <4>1. idx[t] >= MAXTHRDS + 1
        BY <2>7, <3>1, <3>2 DEF NoSleeperPassed
      <4>2. idx[t] \in Slots
        BY <3>2 DEF CallInv
      <4> QED BY <4>1, <4>2, SyncAssumption DEF Slots
    <3> QED BY <2>2, <3>2 DEF WaitersOf
  <2>8. Mon!CallReturn(p)
    BY <2>1, <2>3, <2>4, <2>5, <2>6, <2>7 DEF Mon!CallReturn
  <2> QED BY <2>2, <2>8 DEF Step, Mon!Next
<1>13. ASSUME NEW p \in Procs, SigWake(p) PROVE Seen \/ Step
  <2> DEFINE c == cv[p]
             w == tgt[p]
  <2>1. /\ UNCHANGED <<held, killed, mx, cv, kind>>
        /\ pc[p] = "sigwake" /\ pc'[p] = "sigclear"
        /\ \A q \in Procs : q # p => pc'[q] = pc[q]
    BY <1>13 DEF SigWake
  <2>2. /\ p \in Threads /\ c \in Condvars
        /\ kind[p] \in {"signal", "broadcast"}
    BY <2>1 DEF SleepInv, CallInv, KindInv
  <2>3. /\ w \in Threads
        /\ \/ state[w] = "SLEEPING" /\ cv[w] = c
           \/ state[w] # "SLEEPING" /\ killed[w] = 1
    BY <2>1, TargetAsleep
  <2>a. state' = [t \in Threads |->
                    IF state[t] = "SLEEPING" /\ chan[t] = w
                      THEN "RUNNABLE" ELSE state[t]]
    BY <1>13 DEF SigWake, Wakeup1
  <2>b. \A t \in Threads : state[t] = "SLEEPING" => chan[t] = t
    BY DEF SleepInv
  <2>4. OwnerOf' = OwnerOf /\ ResumeOf' = ResumeOf
    BY <2>1, OwnerSame, ResumeSame
  <2>5. /\ CallOf[p] = [kind |-> kind[p], on |-> c]
        /\ CallOf' = [CallOf EXCEPT ![p] =
             [kind |-> IF kind[p] = "signal" THEN "done" ELSE kind[p],
              on |-> c]]
    BY <2>1, <2>2, CallIs, CallIsNext, CallMoved, Zenon
  <2>6. /\ kind[p] = "signal" => CallOf' = [CallOf EXCEPT ![p].kind = "done"]
        /\ kind[p] = "broadcast" => CallOf' = CallOf
    <3>1. CallOf = [t \in Threads |-> CallOf[t]]
      BY DEF CallOf
    <3>2. ASSUME kind[p] = "signal"
          PROVE  CallOf' = [CallOf EXCEPT ![p].kind = "done"]
      <4>1. [CallOf[p] EXCEPT !.kind = "done"] = [kind |-> "done", on |-> c]
        BY <2>5
      <4>2. CallOf' = [CallOf EXCEPT ![p] = [kind |-> "done", on |-> c]]
        BY <2>5, <3>2
      <4> HIDE DEF c
      <4> QED BY <4>1, <4>2, Zenon
    <3>3. ASSUME kind[p] = "broadcast" PROVE CallOf' = CallOf
      <4>1. CallOf' = [CallOf EXCEPT ![p] = CallOf[p]]
        BY <2>5, <3>3
      <4> QED BY <3>1, <4>1
    <3> QED BY <3>2, <3>3
  <2>7. CASE state[w] = "SLEEPING" /\ cv[w] = c
    <3>1. state'[w] = "RUNNABLE" /\ \A t \in Threads \ {w} : state'[t] = state[t]
      BY <2>3, <2>7, <2>a, <2>b
    <3>2. WaitersOf'[c] = WaitersOf[c] \ {w} /\ w \in WaitersOf[c]
      BY <2>1, <2>2, <2>3, <2>7, <3>1 DEF WaitersOf
    <3>3. ASSUME NEW d \in Condvars, d # c
          PROVE  WaitersOf'[d] = WaitersOf[d]
      BY <2>1, <2>2, <2>3, <2>7, <3>1, <3>3 DEF WaitersOf
    <3>4. WaitersOf' = [WaitersOf EXCEPT ![c] = @ \ {w}]
      <4>1. /\ WaitersOf = [d \in Condvars |-> WaitersOf[d]]
            /\ WaitersOf' = [d \in Condvars |-> WaitersOf'[d]]
        BY DEF WaitersOf
      <4> HIDE DEF c, w
      <4> QED BY <2>2, <3>2, <3>3, <4>1
    <3> HIDE DEF c, w
    <3>a. CallOf[p] = [kind |-> kind[p], on |-> c]
      BY <2>5, Zenon
    <3>5. CallOf[p].on = c /\ CallOf[p].kind = kind[p]
      BY <3>a
    <3>6. Mon!WakeOne(p)
      BY <2>1, <2>2, <2>4, <2>6, <3>2, <3>4, <3>5, Zenon DEF Mon!WakeOne
    <3> QED BY <2>2, <3>5, <3>6 DEF Step, Mon!Next
  <2>8. CASE state[w] # "SLEEPING" /\ killed[w] = 1
    <3>1. state' = state
      BY <2>8, <2>a, <2>b DEF TypeOK
    <3>2. WaitersOf' = WaitersOf
      BY <2>1, <3>1 DEF WaitersOf
    <3>3. CASE kind[p] = "broadcast"
      BY <1>b, <2>1, <2>4, <2>6, <3>2, <3>3
    <3>4. CASE kind[p] = "signal"
      <4>1. Mon!WakeNobody(p)
        BY <2>1, <2>3, <2>4, <2>5, <2>6, <2>8, <3>2, <3>4
        DEF Mon!WakeNobody
      <4> QED BY <2>2, <4>1 DEF Step, Mon!Next
    <3> QED BY <2>2, <3>3, <3>4
  <2> QED BY <2>3, <2>7, <2>8
<1>14. ASSUME NEW t \in Threads, Kill(t) PROVE Step
  <2>1. /\ UNCHANGED <<held, pc, mx, cv, kind>>
        /\ killed' = [killed EXCEPT ![t] = 1]
        /\ state' = [state EXCEPT ![t] = "RUNNABLE"]
    BY <1>14 DEF Kill
  <2>2. OwnerOf' = OwnerOf /\ ResumeOf' = ResumeOf
    BY <2>1, OwnerSame DEF ResumeOf
  <2>3. CallOf' = CallOf
    BY <2>1 DEF CallOf
  <2>4. WaitersOf' = [c \in Condvars |-> WaitersOf[c] \ {t}]
    <3>1. ASSUME NEW c \in Condvars
          PROVE  WaitersOf'[c] = WaitersOf[c] \ {t}
      BY <2>1 DEF WaitersOf
    <3> QED BY <3>1 DEF WaitersOf
  <2>5. {u \in Threads : killed'[u] = 1}
          = {u \in Threads : killed[u] = 1} \cup {t}
    BY <2>1
  <2>6. Mon!Kill(t)
    BY <2>2, <2>3, <2>4, <2>5 DEF Mon!Kill
  <2> QED BY <2>6 DEF Step, Mon!Next
<1>15. ASSUME NEW t \in Threads, Exit(t) PROVE Seen
  <2>1. /\ UNCHANGED <<held, state, killed, mx, cv, kind>>
        /\ pc[t] = "user" /\ pc'[t] = "dead"
        /\ \A q \in Procs : q # t => pc'[q] = pc[q]
    BY <1>15 DEF Exit
  <2> QED BY <1>b, <2>1, OwnerSame, WaitersSame, ResumeSame, CallSame
<1> HIDE <1>0, <1>a DEF local, kernel, sched, Goto, Return, SigLabels
<1>16. Seen \/ Step
  BY <1>1, <1>2, <1>3, <1>4, <1>5, <1>6, <1>7, <1>8, <1>9, <1>10, <1>11,
     <1>12, <1>13, <1>14, <1>15
  DEF Next, KernelStep, LockStep, WaitStep, SigStep
<1> QED BY <1>16 DEF Seen, Step

(* The kernel implements the monitor: a wait gives up the mutex and sleeps  *)
(* at once, a signal or broadcast takes effect on waiters only, and a woken *)
(* thread does nothing until it owns the mutex, for any number of threads,  *)
(* mutexes, condition variables and slots, when every signaller holds the   *)
(* mutex.                                                                   *)
THEOREM KernelIsMonitor ==
  ASSUME BareSignallers = {}
  PROVE  Spec => ImplementsMonitor
<1>1. Init => Mon!Init
  <2> SUFFICES ASSUME Init PROVE Mon!Init
    OBVIOUS
  <2>1. OwnerOf = [m \in Mutexes |-> 0]
    BY DEF Init, OwnerOf
  <2>2. WaitersOf = [c \in Condvars |-> {}]
    BY DEF Init, WaitersOf
  <2>3. ResumeOf = [t \in Threads |-> 0]
    BY ConstFacts DEF Init, ResumeOf
  <2>4. CallOf = [t \in Threads |-> Mon!Idle]
    BY ConstFacts DEF Init, CallOf, Mon!Idle
  <2>5. {t \in Threads : killed[t] = 1} = {}
    BY DEF Init
  <2> QED BY <2>1, <2>2, <2>3, <2>4, <2>5 DEF Mon!Init, Mon!NoOne
<1> QED
  BY <1>1, InitType, NextType, NextCall, InitHold, NextHold, InitSleep,
     NextRegister, NextSleep, NextPassed, InitWaiter, NextWaiter, NextKind,
     StepRefines, PTL
  DEF Spec, ImplementsMonitor, Mon!Spec
=============================================================================
