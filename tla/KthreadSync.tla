---------------------------- MODULE KthreadSync ----------------------------
(***************************************************************************)
(* The kernel mutexes and condition variables of the qthread library: the  *)
(* second half of proc.c (mutex_*, condvar_*, modified_sleep, wakeup,      *)
(* kill), reached through sysproc.c and qthread.c.                         *)
(*                                                                         *)
(* One process, Main (type 0), and its Threads (type 1), which all use the *)
(* mutexlist and condvarlist of Main.  Pids stand for the procs, as they   *)
(* do in waitingthreadlist.  Every access to shared memory made without    *)
(* ptable.lock is a step of its own; a section that runs under ptable.lock *)
(* is one step, except the spin of mutex_lock, which keeps the lock while  *)
(* it waits and is therefore cut at the spin.                              *)
(***************************************************************************)
EXTENDS Integers, FiniteSets

CONSTANTS
  Threads,        \* pids of the threads of the process
  Main,           \* pid of the process that created them
  NMUTX,          \* size of mutexlist
  NCONDVAR,       \* size of condvarlist
  MAXTHRDS,       \* size of waitingthreadlist
  MutexOf,        \* the mutex the program passes with each condition variable
  BareSignallers, \* procs that signal without holding that mutex
  Killable        \* threads some other process may kill()

ASSUME SyncAssumption ==
  /\ Main \notin Threads
  /\ (Threads \cup {Main}) \cap {-1, 0} = {}
  /\ NMUTX \in Nat
  /\ NCONDVAR \in Nat
  /\ MAXTHRDS \in Nat
  /\ MutexOf \in [1..NCONDVAR -> 1..NMUTX]
  /\ BareSignallers \subseteq Threads \cup {Main}
  /\ Killable \subseteq Threads

Procs    == Threads \cup {Main}
Mutexes  == 1..NMUTX
Condvars == 1..NCONDVAR
Slots    == 1..MAXTHRDS

VARIABLES
  plock,    \* holder of ptable.lock between steps, 0 when free
  mid,      \* mutexlist[m-1].lock.id
  locked,   \* mutexlist[m-1].lock.locked
  cvid,     \* condvarlist[c-1].id
  waiting,  \* condvarlist[c-1].waitingthreadlist: -1 dead, 0 empty, or a pid
  state,    \* proc->state, RUNNABLE standing for RUNNING too
  chan,     \* proc->chan
  killed,   \* proc->killed
  pc,       \* where in the kernel the proc is; "user" outside
  mx,       \* argument mutex of the call in progress
  cv,       \* argument condvar of the call in progress
  idx,      \* loop variable i of condvar_wait, _signal, _broadcast
  tgt,      \* the channel handed to wakeup()
  kind,     \* "signal" or "broadcast" during such a call, else "none"
  held      \* the mutexes the user program holds (a lock or wait returned)

kernel == <<mid, cvid, locked, waiting>>
sched  == <<state, chan, killed>>
local  == <<mx, cv, idx, tgt, kind>>
vars   == <<plock, kernel, sched, pc, local, held>>

-----------------------------------------------------------------------------
(* fork() leaves every id at -1 and every waiting slot at -1, but keeps     *)
(* what an earlier owner of the proc slot left in locked.                   *)
Init ==
  /\ plock = 0
  /\ mid = [m \in Mutexes |-> -1]
  /\ locked \in [Mutexes -> {0, 1}]
  /\ cvid = [c \in Condvars |-> -1]
  /\ waiting = [c \in Condvars |-> [i \in Slots |-> -1]]
  /\ state = [t \in Threads |-> "RUNNABLE"]
  /\ chan = [t \in Threads |-> 0]
  /\ killed = [t \in Threads |-> 0]
  /\ pc = [p \in Procs |-> "user"]
  /\ mx = [p \in Procs |-> 0]
  /\ cv = [p \in Procs |-> 0]
  /\ idx = [p \in Procs |-> 0]
  /\ tgt = [p \in Procs |-> 0]
  /\ kind = [p \in Procs |-> "none"]
  /\ held = [t \in Threads |-> {}]

(* The proc p moves on inside the kernel. *)
Goto(p, from, to) ==
  /\ pc[p] = from
  /\ pc' = [pc EXCEPT ![p] = to]

(* The system call of p returns. *)
Return(p, from) ==
  /\ Goto(p, from, "user")
  /\ mx' = [mx EXCEPT ![p] = 0]
  /\ cv' = [cv EXCEPT ![p] = 0]
  /\ idx' = [idx EXCEPT ![p] = 0]
  /\ tgt' = [tgt EXCEPT ![p] = 0]
  /\ kind' = [kind EXCEPT ![p] = "none"]

(* p, in user space, may trap into a system call: trap() sends a killed     *)
(* proc to exit() before it dispatches the call.                            *)
MayCall(p) == pc[p] = "user" /\ (p \in Threads => killed[p] = 0)

(* acquire(&ptable.lock) succeeds only while nobody holds it. *)
PtableFree == plock = 0

-----------------------------------------------------------------------------
(* The obligations of the program, which the kernel does not check: it      *)
(* destroys a mutex or a condvar only once no thread uses it, as            *)
(* threadtests.c does after joining its threads.                            *)
MutexQuiet(m) ==
  \A t \in Threads : m \notin held[t] /\ mx[t] # m

CondQuiet(c) ==
  \A p \in Procs : cv[p] # c

(* Slip: no initlock, so a stale lock word survives. *)
MutexInitStale ==
  \E m \in Mutexes :
    /\ MayCall(Main) /\ PtableFree
    /\ mid[m] = -1
    /\ \A k \in 1..(m-1) : mid[k] # -1
    /\ mid' = [mid EXCEPT ![m] = m]
    /\ UNCHANGED <<plock, cvid, locked, waiting, sched, pc, local, held>>

(* mutex_init: the first slot with id -1, marked and reset by initlock.     *)
(* Its early return (-1, no slot) changes nothing.                          *)
MutexInit ==
  \E m \in Mutexes :
    /\ MayCall(Main) /\ PtableFree
    /\ mid[m] = -1
    /\ \A k \in 1..(m-1) : mid[k] # -1
    /\ mid' = [mid EXCEPT ![m] = m]
    /\ locked' = [locked EXCEPT ![m] = 0]
    /\ UNCHANGED <<plock, cvid, waiting, sched, pc, local, held>>

MutexDestroy(m) ==
  /\ MayCall(Main) /\ PtableFree
  /\ MutexQuiet(m)
  /\ mid[m] = m
  /\ mid' = [mid EXCEPT ![m] = -1]
  /\ locked' = [locked EXCEPT ![m] = 0]
  /\ UNCHANGED <<plock, cvid, waiting, sched, pc, local, held>>

(* mutex_lock, in four steps.  The check of type and id, *)
MutexLock(t, m) ==
  /\ MayCall(t)
  /\ m \notin held[t]
  /\ mid[m] = m
  /\ Goto(t, "user", "spin")
  /\ mx' = [mx EXCEPT ![t] = m]
  /\ UNCHANGED <<plock, kernel, sched, cv, idx, tgt, kind, held>>

(* the spin on a plain read of locked, interrupts on and no lock held, *)
LockSpin(t) ==
  /\ Goto(t, "spin", "acquire")
  /\ locked[mx[t]] = 0
  /\ UNCHANGED <<plock, kernel, sched, local, held>>

(* acquire(&ptable.lock), *)
LockAcquire(t) ==
  /\ Goto(t, "acquire", "xchg")
  /\ PtableFree
  /\ plock' = t
  /\ UNCHANGED <<kernel, sched, local, held>>

(* Slip: the lock word is stored, not exchanged and tested. *)
LockXchgBlind(t) ==
  /\ Return(t, "xchg")
  /\ locked' = [locked EXCEPT ![mx[t]] = 1]
  /\ plock' = 0
  /\ held' = [held EXCEPT ![t] = @ \cup {mx[t]}]
  /\ UNCHANGED <<mid, cvid, waiting, sched>>

(* and the spin on xchg, which keeps ptable.lock until it succeeds. *)
LockXchg(t) ==
  /\ Return(t, "xchg")
  /\ locked[mx[t]] = 0
  /\ locked' = [locked EXCEPT ![mx[t]] = 1]
  /\ plock' = 0
  /\ held' = [held EXCEPT ![t] = @ \cup {mx[t]}]
  /\ UNCHANGED <<mid, cvid, waiting, sched>>

(* mutex_unlock: the check, then the xchg under ptable.lock.  The kernel    *)
(* lets any thread unlock; the program unlocks only what it holds.          *)
MutexUnlock(t, m) ==
  /\ MayCall(t)
  /\ m \in held[t]
  /\ mid[m] = m
  /\ Goto(t, "user", "unlock")
  /\ mx' = [mx EXCEPT ![t] = m]
  /\ UNCHANGED <<plock, kernel, sched, cv, idx, tgt, kind, held>>

UnlockXchg(t) ==
  /\ Return(t, "unlock")
  /\ PtableFree
  /\ locked' = [locked EXCEPT ![mx[t]] = 0]
  /\ held' = [held EXCEPT ![t] = @ \ {mx[t]}]
  /\ UNCHANGED <<plock, mid, cvid, waiting, sched>>

-----------------------------------------------------------------------------
(* condvar_init resets the first free condvar; condvar_destroy fills it     *)
(* with -1.                                                                 *)
CondInit ==
  \E c \in Condvars :
    /\ MayCall(Main) /\ PtableFree
    /\ cvid[c] = -1
    /\ \A k \in 1..(c-1) : cvid[k] # -1
    /\ cvid' = [cvid EXCEPT ![c] = c]
    /\ waiting' = [waiting EXCEPT ![c] = [i \in Slots |-> 0]]
    /\ UNCHANGED <<plock, mid, locked, sched, pc, local, held>>

CondDestroy(c) ==
  /\ MayCall(Main) /\ PtableFree
  /\ CondQuiet(c)
  /\ cvid[c] = c
  /\ cvid' = [cvid EXCEPT ![c] = -1]
  /\ waiting' = [waiting EXCEPT ![c] = [i \in Slots |-> -1]]
  /\ UNCHANGED <<plock, mid, locked, sched, pc, local, held>>

(* condvar_wait: the caller holds the mutex it passes. *)
CondWait(t, c) ==
  /\ MayCall(t)
  /\ MutexOf[c] \in held[t]
  /\ Goto(t, "user", "scan")
  /\ mx' = [mx EXCEPT ![t] = MutexOf[c]]
  /\ cv' = [cv EXCEPT ![t] = c]
  /\ idx' = [idx EXCEPT ![t] = 1]
  /\ UNCHANGED <<plock, kernel, sched, tgt, kind, held>>

(* Slip: any slot will do. *)
WaitScanAny(t) ==
  /\ pc[t] = "scan" /\ idx[t] \in Slots
  /\ pc' = [pc EXCEPT ![t] = "register"]
  /\ UNCHANGED <<plock, kernel, sched, local, held>>

(* The loop reads the slots without ptable.lock. *)
WaitScan(t) ==
  /\ pc[t] = "scan" /\ idx[t] \in Slots
  /\ \/ /\ waiting[cv[t]][idx[t]] = 0
        /\ pc' = [pc EXCEPT ![t] = "register"]
        /\ UNCHANGED idx
     \/ /\ waiting[cv[t]][idx[t]] # 0
        /\ idx' = [idx EXCEPT ![t] = @ + 1]
        /\ UNCHANGED pc
  /\ UNCHANGED <<plock, kernel, sched, mx, cv, tgt, kind, held>>

(* No empty slot: -1, the mutex still held. *)
WaitFull(t) ==
  /\ idx[t] \notin Slots
  /\ Return(t, "scan")
  /\ UNCHANGED <<plock, kernel, sched, held>>

WaitRegister(t) ==
  /\ Goto(t, "register", "msleep")
  /\ PtableFree
  /\ waiting' = [waiting EXCEPT ![cv[t]][idx[t]] = t]
  /\ UNCHANGED <<plock, mid, cvid, locked, sched, local, held>>

(* modified_sleep up to sched(): unlocks the mutex and sleeps in one        *)
(* section of ptable.lock, which the scheduler releases.                    *)
ModifiedSleep(t) ==
  /\ Goto(t, "msleep", "asleep")
  /\ PtableFree
  /\ locked' = [locked EXCEPT ![mx[t]] = 0]
  /\ held' = [held EXCEPT ![t] = @ \ {mx[t]}]
  /\ chan' = [chan EXCEPT ![t] = t]
  /\ state' = [state EXCEPT ![t] = "SLEEPING"]
  /\ UNCHANGED <<plock, mid, cvid, waiting, killed, local>>

(* The scheduler picks the woken thread, which tidies up chan. *)
Woken(t) ==
  /\ Goto(t, "asleep", "relock")
  /\ state[t] = "RUNNABLE"
  /\ PtableFree
  /\ chan' = [chan EXCEPT ![t] = 0]
  /\ UNCHANGED <<plock, kernel, state, killed, local, held>>

(* Slip: modified_sleep returns without the mutex. *)
RelockForgotten(t) ==
  /\ Return(t, "relock")
  /\ UNCHANGED <<plock, kernel, sched, held>>

(* The final spin of modified_sleep takes the mutex without ptable.lock. *)
Relock(t) ==
  /\ Return(t, "relock")
  /\ locked[mx[t]] = 0
  /\ locked' = [locked EXCEPT ![mx[t]] = 1]
  /\ held' = [held EXCEPT ![t] = @ \cup {mx[t]}]
  /\ UNCHANGED <<plock, mid, cvid, waiting, sched>>

-----------------------------------------------------------------------------
(* wakeup1: every thread asleep on ch becomes runnable. *)
Wakeup1(ch) ==
  state' = [t \in Threads |->
              IF state[t] = "SLEEPING" /\ chan[t] = ch THEN "RUNNABLE"
              ELSE state[t]]

(* A program signals with the condvar's mutex held, unless p is one of the  *)
(* BareSignallers; Main can never hold it, for mutex_lock refuses type 0.   *)
MaySignal(p, c) ==
  /\ MayCall(p)
  /\ p \in BareSignallers \/ (p \in Threads /\ MutexOf[c] \in held[p])

(* Slip: the loop starts at the second slot. *)
CondSignalFromTwo(p, c, k) ==
  /\ MaySignal(p, c)
  /\ Goto(p, "user", "sigscan")
  /\ cv' = [cv EXCEPT ![p] = c]
  /\ idx' = [idx EXCEPT ![p] = 2]
  /\ kind' = [kind EXCEPT ![p] = k]
  /\ UNCHANGED <<plock, kernel, sched, mx, tgt, held>>

(* condvar_signal and condvar_broadcast: Main walks its own list and a       *)
(* thread its parent's, which is the same list.                             *)
CondSignal(p, c, k) ==
  /\ MaySignal(p, c)
  /\ Goto(p, "user", "sigscan")
  /\ cv' = [cv EXCEPT ![p] = c]
  /\ idx' = [idx EXCEPT ![p] = 1]
  /\ kind' = [kind EXCEPT ![p] = k]
  /\ UNCHANGED <<plock, kernel, sched, mx, tgt, held>>

(* The test of a slot, without ptable.lock, *)
SigScan(p) ==
  /\ pc[p] = "sigscan" /\ idx[p] \in Slots
  /\ \/ /\ waiting[cv[p]][idx[p]] \in Threads
        /\ pc' = [pc EXCEPT ![p] = "sigread"]
        /\ UNCHANGED idx
     \/ /\ waiting[cv[p]][idx[p]] \notin Threads
        /\ idx' = [idx EXCEPT ![p] = @ + 1]
        /\ UNCHANGED pc
  /\ UNCHANGED <<plock, kernel, sched, mx, cv, tgt, kind, held>>

(* the end of the list, *)
SigEnd(p) ==
  /\ idx[p] \notin Slots
  /\ Return(p, "sigscan")
  /\ UNCHANGED <<plock, kernel, sched, held>>

(* the second read of the slot, for the argument of wakeup(), *)
SigRead(p) ==
  /\ Goto(p, "sigread", "sigwake")
  /\ tgt' = [tgt EXCEPT ![p] = waiting[cv[p]][idx[p]]]
  /\ UNCHANGED <<plock, kernel, sched, mx, cv, idx, kind, held>>

(* wakeup(), *)
SigWake(p) ==
  /\ Goto(p, "sigwake", "sigclear")
  /\ PtableFree
  /\ Wakeup1(tgt[p])
  /\ UNCHANGED <<plock, kernel, chan, killed, local, held>>

(* Slip: a signal clears the whole list, *)
SigClearAll(p) ==
  /\ kind[p] = "signal" /\ pc[p] = "sigclear" /\ PtableFree
  /\ waiting' = [waiting EXCEPT ![cv[p]] = [i \in Slots |-> 0]]
  /\ Return(p, "sigclear")
  /\ UNCHANGED <<plock, mid, cvid, locked, sched, held>>

(* or leaves the slot of the thread it woke. *)
SigClearNone(p) ==
  /\ kind[p] = "signal" /\ PtableFree
  /\ Return(p, "sigclear")
  /\ UNCHANGED <<plock, kernel, sched, held>>

(* and the slot cleared in a second section of ptable.lock: a signal is     *)
(* done, *)
SigClear(p) ==
  /\ kind[p] = "signal"
  /\ PtableFree
  /\ Return(p, "sigclear")
  /\ waiting' = [waiting EXCEPT ![cv[p]][idx[p]] = 0]
  /\ UNCHANGED <<plock, mid, cvid, locked, sched, held>>

(* a broadcast goes on with the next slot. *)
BcastClear(p) ==
  /\ kind[p] = "broadcast"
  /\ PtableFree
  /\ Goto(p, "sigclear", "sigscan")
  /\ waiting' = [waiting EXCEPT ![cv[p]][idx[p]] = 0]
  /\ idx' = [idx EXCEPT ![p] = @ + 1]
  /\ tgt' = [tgt EXCEPT ![p] = 0]
  /\ UNCHANGED <<plock, mid, cvid, locked, sched, mx, cv, kind, held>>

-----------------------------------------------------------------------------
(* kill(), called by some other process: wakes a sleeper, whatever it       *)
(* sleeps on.                                                               *)
Kill(t) ==
  /\ t \in Killable
  /\ killed[t] = 0
  /\ pc[t] # "dead"
  /\ PtableFree
  /\ killed' = [killed EXCEPT ![t] = 1]
  /\ state' = [state EXCEPT ![t] = "RUNNABLE"]
  /\ UNCHANGED <<plock, kernel, chan, pc, local, held>>

(* A thread leaves: by exit() when it holds no mutex (the program's         *)
(* discipline), or sent there by trap() because it was killed, with         *)
(* whatever it holds.                                                       *)
Exit(t) ==
  /\ killed[t] = 1 \/ held[t] = {}
  /\ Goto(t, "user", "dead")
  /\ UNCHANGED <<plock, kernel, sched, local, held>>

-----------------------------------------------------------------------------
(* The steps that finish a system call already made. *)
LockStep(t) == LockSpin(t) \/ LockAcquire(t) \/ LockXchg(t)

WaitStep(t) ==
  \/ WaitScan(t) \/ WaitFull(t) \/ WaitRegister(t)
  \/ ModifiedSleep(t) \/ Woken(t) \/ Relock(t)

SigStep(p) ==
  \/ SigScan(p) \/ SigEnd(p) \/ SigRead(p) \/ SigWake(p)
  \/ SigClear(p) \/ BcastClear(p)

KernelStep(p) ==
  \/ p \in Threads /\ (LockStep(p) \/ UnlockXchg(p) \/ WaitStep(p))
  \/ SigStep(p)

Next ==
  \/ MutexInit
  \/ CondInit
  \/ \E m \in Mutexes : MutexDestroy(m)
  \/ \E c \in Condvars : CondDestroy(c)
  \/ \E t \in Threads, m \in Mutexes : MutexLock(t, m) \/ MutexUnlock(t, m)
  \/ \E t \in Threads, c \in Condvars : CondWait(t, c)
  \/ \E p \in Procs, c \in Condvars, k \in {"signal", "broadcast"} :
       CondSignal(p, c, k)
  \/ \E p \in Procs : KernelStep(p)
  \/ \E t \in Threads : Kill(t) \/ Exit(t)

Spec == Init /\ [][Next]_vars

(* Every proc in the kernel goes on: each runs on a CPU or is picked by the *)
(* round-robin scheduler, and an xchg tried again and again is granted; a   *)
(* thread that holds a mutex asks to unlock it.                             *)
Fairness ==
  /\ \A p \in Procs : SF_vars(KernelStep(p))
  /\ \A t \in Threads : WF_vars(\E m \in Mutexes : MutexUnlock(t, m))

LiveSpec == Spec /\ Fairness
-----------------------------------------------------------------------------
Labels ==
  {"user", "spin", "acquire", "xchg", "unlock", "scan", "register", "msleep",
   "asleep", "relock", "sigscan", "sigread", "sigwake", "sigclear", "dead"}

(* The variables have the types proc.h and spinlock.h give them; only the   *)
(* spin of mutex_lock keeps ptable.lock from one step to the next.          *)
TypeOK ==
  /\ plock \in Threads \cup {0}
  /\ mid \in [Mutexes -> Mutexes \cup {-1}]
  /\ locked \in [Mutexes -> {0, 1}]
  /\ cvid \in [Condvars -> Condvars \cup {-1}]
  /\ waiting \in [Condvars -> [Slots -> Threads \cup {-1, 0}]]
  /\ state \in [Threads -> {"RUNNABLE", "SLEEPING"}]
  /\ chan \in [Threads -> Threads \cup {0}]
  /\ killed \in [Threads -> {0, 1}]
  /\ pc \in [Procs -> Labels]
  /\ mx \in [Procs -> Mutexes \cup {0}]
  /\ cv \in [Procs -> Condvars \cup {0}]
  /\ idx \in [Procs -> 0..(MAXTHRDS + 1)]
  /\ tgt \in [Procs -> Threads \cup {-1, 0}]
  /\ kind \in [Procs -> {"none", "signal", "broadcast"}]
  /\ held \in [Threads -> SUBSET Mutexes]

(* A mutex never has two holders, and the lock word of a mutex somebody     *)
(* holds is 1: through mutex_lock, the raw xchg at the end of               *)
(* modified_sleep, kills, and the init and destroy of its slot.             *)
MutualExclusion ==
  \A t \in Threads : \A m \in held[t] :
    /\ locked[m] = 1
    /\ \A u \in Threads : m \in held[u] => u = t

(* The lock word of an initialised mutex is 1 only while a thread holds it: *)
(* no path of mutex_lock, modified_sleep or mutex_init leaves a mutex       *)
(* locked for ever with no holder to unlock it.                             *)
NoOrphanLock ==
  \A m \in Mutexes :
    mid[m] = m /\ locked[m] = 1 => \E t \in Threads : m \in held[t]

(* A thread asleep in condvar_wait is still in the waiting list of its      *)
(* condition variable, at the slot it took: a signal or broadcast can find  *)
(* it.  A thread of whom this is false sleeps for ever.                     *)
SleeperRegistered ==
  \A t \in Threads : state[t] = "SLEEPING" => waiting[cv[t]][idx[t]] = t

(* A signal or broadcast that has walked past a slot, or cleared it, left   *)
(* no thread asleep there; so one that returns without a wakeup found       *)
(* nobody, and a broadcast that returns woke everybody.                     *)
NoSleeperPassed ==
  \A p \in Procs, t \in Threads :
    /\ pc[p] \in {"sigscan", "sigread", "sigwake", "sigclear"}
    /\ state[t] = "SLEEPING"
    /\ cv[t] = cv[p]
    => /\ idx[t] >= idx[p]
       /\ pc[p] = "sigclear" => idx[t] # idx[p]

(* A signal is not absorbed: the thread that condvar_signal is about to     *)
(* wake is asleep, not one already woken whose slot is not cleared yet;     *)
(* only the slot of a killed thread, which nobody clears, takes a signal.   *)
SignalNotAbsorbed ==
  \A p \in Procs :
    pc[p] = "sigwake"
      => /\ tgt[p] \in Threads
         /\ state[tgt[p]] = "SLEEPING" \/ killed[tgt[p]] = 1

(* Two waiters never take the same slot: the empty slot condvar_wait found  *)
(* without ptable.lock is still empty when it writes its pid there.         *)
SlotTakenOnce ==
  [][\A c \in Condvars, i \in Slots :
       waiting[c][i] # waiting'[c][i] /\ waiting'[c][i] \in Threads
         => waiting[c][i] = 0]_vars

(* mutex_lock, once called, returns: no thread waits for a mutex for ever   *)
(* while its holders keep unlocking it.                                     *)
LockReturns ==
  \A t \in Threads : pc[t] \in {"spin", "acquire", "xchg"} ~> pc[t] = "user"

-----------------------------------------------------------------------------
(* The state of the kernel as the monitor it implements. *)
OwnerOf ==
  [m \in Mutexes |-> IF \E t \in Threads : m \in held[t]
                     THEN CHOOSE t \in Threads : m \in held[t] ELSE 0]

WaitersOf ==
  [c \in Condvars |-> {t \in Threads : state[t] = "SLEEPING" /\ cv[t] = c}]

ResumeOf ==
  [t \in Threads |-> IF pc[t] \in {"asleep", "relock"} THEN mx[t] ELSE 0]

CallOf ==
  [t \in Threads |->
    CASE pc[t] \in {"sigscan", "sigread", "sigwake", "sigclear"} ->
           [kind |-> IF kind[t] = "signal" /\ pc[t] = "sigclear"
                       THEN "done" ELSE kind[t],
            on |-> cv[t]]
      [] OTHER -> [kind |-> "idle", on |-> 0]]

Mon == INSTANCE Monitor
         WITH owner <- OwnerOf, waiters <- WaitersOf,
              resume <- ResumeOf, call <- CallOf,
              gone <- {t \in Threads : killed[t] = 1}

(* The kernel implements the monitor: a wait unlocks and sleeps at once     *)
(* although it registers and sleeps in two sections of ptable.lock, and a   *)
(* signal made of a scan, a wakeup and a clear takes effect at one instant. *)
ImplementsMonitor == Mon!Spec
=============================================================================
