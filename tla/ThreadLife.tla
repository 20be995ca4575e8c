---------------------------- MODULE ThreadLife ----------------------------
(***************************************************************************)
(* The life of processes and threads: allocproc, fork (which also creates  *)
(* threads), exit, cleanupzombiethreads, wait, getthreadretval and kill of *)
(* proc.c, as sysproc.c and qthread.c call them.  init (slot 1) forks and  *)
(* then waits for ever, as init.c does.                                    *)
(*                                                                         *)
(* A section of code under ptable.lock is one step.  fork() works without  *)
(* the lock: its increment of tcount is a load and a store.                *)
(***************************************************************************)
EXTENDS Integers, FiniteSets, FiniteSetsExt

CONSTANTS
  NPROC,        \* size of ptable.proc
  MaxPid,       \* bound on nextpid
  UintMod,      \* 2^w, w the width of tcount
  Nested,       \* whether threads create threads
  SiblingJoin,  \* whether threads join threads
  MayKill,      \* whether procs are killed
  WaitAny       \* whether a process with threads calls wait()

ASSUME LifeAssumption ==
  /\ NPROC \in Nat \ {0}
  /\ MaxPid \in Nat
  /\ UintMod \in Nat /\ UintMod > NPROC
  /\ {Nested, SiblingJoin, MayKill, WaitAny} \subseteq BOOLEAN

Slots    == 1..NPROC
initproc == 1

VARIABLES
  proc,     \* ptable.proc
  nextpid,
  spaces,   \* the page directories that exist, named by the pid they were made for
  pc,       \* where in the kernel each proc is; "user" outside
  tid,      \* argument of wait() and getthreadretval()
  np,       \* fork()'s new proc
  reg,      \* the value of tcount fork() has loaded
  panicked

locals == <<tid, np, reg>>
vars   == <<proc, nextpid, spaces, pc, locals, panicked>>

(* A slot nobody uses.  The statics are zero; a reaped slot is reset to     *)
(* this by wait(), and by Reaped but for tcount and pgdir.                  *)
Unused ==
  [state |-> "UNUSED", pid |-> 0, parent |-> 0, type |-> 0, tcount |-> 0,
   pgdir |-> 0, threadattr |-> 0, killed |-> 0]

Init ==
  /\ proc = [s \in Slots |->
               IF s = initproc
                 THEN [Unused EXCEPT !.state = "RUNNABLE", !.pid = 1, !.pgdir = 1]
                 ELSE Unused]
  /\ nextpid = 2
  /\ spaces = {1}
  /\ pc = [s \in Slots |-> "user"]
  /\ tid = [s \in Slots |-> 0]
  /\ np = [s \in Slots |-> 0]
  /\ reg = [s \in Slots |-> 0]
  /\ panicked = FALSE

-----------------------------------------------------------------------------
(* s executes: the scheduler runs it (RUNNABLE stands for RUNNING too). *)
Runs(s) == ~panicked /\ proc[s].state = "RUNNABLE"

(* s is in user space and about to trap; trap() sends a killed proc to exit. *)
InUser(s) == Runs(s) /\ pc[s] = "user" /\ proc[s].killed = 0

Return(s) ==
  /\ pc' = [pc EXCEPT ![s] = "user"]
  /\ tid' = [tid EXCEPT ![s] = 0]
  /\ np' = [np EXCEPT ![s] = 0]
  /\ reg' = [reg EXCEPT ![s] = 0]

(* wakeup1(q), in table P: only wait() sleeps here, on the proc itself. *)
Wakeup1(P, q) ==
  [s \in Slots |-> IF s = q /\ P[s].state = "SLEEPING"
                     THEN [P[s] EXCEPT !.state = "RUNNABLE"] ELSE P[s]]

Threads(s) == {q \in Slots : proc[q].type = 1 /\ proc[q].parent = s}

-----------------------------------------------------------------------------
(* Slip: nextpid is not advanced. *)
AllocProcSamePid(s, kind) ==
  LET unused == {q \in Slots : proc[q].state = "UNUSED"} IN
  /\ InUser(s) /\ nextpid < MaxPid
  /\ unused # {}
  /\ kind = "process" /\ proc[s].type = 0
  /\ proc' = [proc EXCEPT ![Min(unused)].state = "EMBRYO",
                          ![Min(unused)].pid = nextpid]
  /\ np' = [np EXCEPT ![s] = Min(unused)]
  /\ pc' = [pc EXCEPT ![s] = kind]
  /\ UNCHANGED <<nextpid, spaces, tid, reg, panicked>>

(* sys_fork (a process without threads) or sys_kthread_create, up to the    *)
(* end of allocproc's section: the first UNUSED slot becomes EMBRYO.        *)
AllocProc(s, kind) ==
  LET unused == {q \in Slots : proc[q].state = "UNUSED"} IN
  /\ InUser(s) /\ nextpid < MaxPid
  /\ unused # {}
  /\ \/ kind = "process" /\ proc[s].type = 0 /\ proc[s].tcount = 0
     \/ kind \in {"thread", "detached"} /\ s # initproc
        /\ (Nested \/ proc[s].type = 0)
  /\ proc' = [proc EXCEPT ![Min(unused)].state = "EMBRYO",
                          ![Min(unused)].pid = nextpid]
  /\ nextpid' = nextpid + 1
  /\ np' = [np EXCEPT ![s] = Min(unused)]
  /\ pc' = [pc EXCEPT ![s] = kind]
  /\ UNCHANGED <<spaces, tid, reg, panicked>>

(* The rest of fork() for a process: a copy of the address space, *)
ForkProcess(s) ==
  /\ Runs(s) /\ pc[s] = "process"
  /\ LET n == proc[np[s]] IN
       /\ spaces' = spaces \cup {n.pid}
       /\ proc' = [proc EXCEPT ![np[s]] =
            [n EXCEPT !.pgdir = n.pid, !.type = 0, !.tcount = 0, !.parent = s]]
  /\ pc' = [pc EXCEPT ![s] = "publish"]
  /\ UNCHANGED <<nextpid, locals, panicked>>

(* for a thread: the same address space, the creator's parent if the        *)
(* creator is a thread; and the load of the creator's tcount,               *)
ForkThread(s) ==
  /\ Runs(s) /\ pc[s] \in {"thread", "detached"}
  /\ proc' = [proc EXCEPT ![np[s]] =
       [@ EXCEPT !.pgdir = proc[s].pgdir, !.type = 1,
                 !.threadattr = IF pc[s] = "detached" THEN 1 ELSE 0,
                 !.parent = IF proc[s].type = 1 THEN proc[s].parent ELSE s]]
  /\ reg' = [reg EXCEPT ![s] = proc[s].tcount]
  /\ pc' = [pc EXCEPT ![s] = "count"]
  /\ UNCHANGED <<nextpid, spaces, tid, np, panicked>>

(* its store, *)
ForkCount(s) ==
  /\ Runs(s) /\ pc[s] = "count"
  /\ proc' = [proc EXCEPT ![s].tcount = (reg[s] + 1) % UintMod]
  /\ pc' = [pc EXCEPT ![s] = "publish"]
  /\ UNCHANGED <<nextpid, spaces, locals, panicked>>

(* and the new proc made RUNNABLE. *)
ForkPublish(s) ==
  /\ Runs(s) /\ pc[s] = "publish"
  /\ proc' = [proc EXCEPT ![np[s]].state = "RUNNABLE"]
  /\ Return(s)
  /\ UNCHANGED <<nextpid, spaces, panicked>>

(* kalloc() or copyuvm() found no memory. *)
ForkFail(s) ==
  /\ Runs(s) /\ pc[s] \in {"process", "thread", "detached"}
  /\ proc' = [proc EXCEPT ![np[s]].state = "UNUSED"]
  /\ Return(s)
  /\ UNCHANGED <<nextpid, spaces, panicked>>

-----------------------------------------------------------------------------
(* Slip: the parent's tcount is left alone. *)
ReapedUncounted(q) ==
  [proc EXCEPT ![q] = [Unused EXCEPT !.tcount = proc[q].tcount]]

(* What cleanupzombiethreads and getthreadretval do to a thread in slot q:  *)
(* one thread less for its parent, and the slot free again.                 *)
Reaped(q) ==
  [proc EXCEPT
     ![q] = [Unused EXCEPT !.tcount = proc[q].tcount],
     ![proc[q].parent].tcount = (@ - 1) % UintMod]

(* Slip: the parent is not woken. *)
ZombieQuiet(P, s) == [P EXCEPT ![s].state = "ZOMBIE"]

(* The end of exit(): the parent is woken, the proc is a zombie. *)
Zombie(P, s) ==
  [Wakeup1(P, P[s].parent) EXCEPT ![s].state = "ZOMBIE"]

(* The section of exit() that hands the children of a process to init (and  *)
(* wakes it if one is a zombie), and gives up the page directory of a       *)
(* detached thread.                                                         *)
Reparented(s) ==
  LET kids == {q \in Slots : proc[q].type # 1 /\ proc[q].parent = s}
      P    == [q \in Slots |-> IF q \in kids
                                 THEN [proc[q] EXCEPT !.parent = initproc]
                                 ELSE proc[q]]
  IN  IF \E q \in kids : proc[q].state = "ZOMBIE" THEN Wakeup1(P, initproc)
      ELSE P

(* Slip: every exit gives up the page directory. *)
DisownedAlways(s) == [Reparented(s) EXCEPT ![s].pgdir = 0]

Disowned(s) ==
  IF proc[s].type = 0 THEN Reparented(s)
  ELSE IF proc[s].threadattr # 0 THEN [proc EXCEPT ![s].pgdir = 0]
  ELSE proc

(* Slip: exit() does not wait for the threads. *)
ExitAtOnce(s) ==
  /\ Runs(s) /\ pc[s] = "user" /\ s # initproc
  /\ proc' = Zombie(Disowned(s), s)
  /\ UNCHANGED <<nextpid, spaces, pc, locals, panicked>>

(* exit(), called by the program or by trap() for a killed proc, up to the  *)
(* first test of tcount, in the section it takes ptable.lock for. *)
Exit(s) ==
  /\ Runs(s) /\ pc[s] = "user" /\ s # initproc
  /\ \/ /\ proc[s].tcount = 0
        /\ proc' = Zombie(Disowned(s), s)
        /\ UNCHANGED pc
     \/ /\ proc[s].tcount # 0
        /\ proc' = Disowned(s)
        /\ pc' = [pc EXCEPT ![s] = "cleanup"]
  /\ UNCHANGED <<nextpid, spaces, locals, panicked>>

(* Slip: threads are freed zombie or not. *)
CleanupAnyThread(s) ==
  /\ Runs(s) /\ pc[s] = "cleanup" /\ Threads(s) # {}
  /\ proc' = Reaped(Min(Threads(s)))
  /\ pc' = [pc EXCEPT ![s] = "check"]
  /\ UNCHANGED <<nextpid, spaces, locals, panicked>>

(* cleanupzombiethreads: frees the first zombie thread, if there is one. *)
CleanupZombieThreads(s) ==
  LET zombies == {q \in Threads(s) : proc[q].state = "ZOMBIE"} IN
  /\ Runs(s) /\ pc[s] = "cleanup"
  /\ \/ zombies # {} /\ proc' = Reaped(Min(zombies))
     \/ zombies = {} /\ UNCHANGED proc
  /\ pc' = [pc EXCEPT ![s] = "check"]
  /\ UNCHANGED <<nextpid, spaces, locals, panicked>>

(* yield(), after which the loop tests tcount again. *)
ExitCheck(s) ==
  /\ Runs(s) /\ pc[s] = "check"
  /\ proc[s].pgdir # 0
  /\ \/ /\ proc[s].tcount = 0
        /\ proc' = Zombie(proc, s)
        /\ pc' = [pc EXCEPT ![s] = "user"]
     \/ /\ proc[s].tcount # 0
        /\ pc' = [pc EXCEPT ![s] = "cleanup"]
        /\ UNCHANGED proc
  /\ UNCHANGED <<nextpid, spaces, locals, panicked>>

(* switchuvm cannot run a detached thread that gave up its pgdir. *)
SwitchPanic(s) ==
  /\ Runs(s) /\ pc[s] = "check"
  /\ proc[s].pgdir = 0
  /\ panicked' = TRUE
  /\ UNCHANGED <<proc, nextpid, spaces, pc, locals>>
-----------------------------------------------------------------------------
(* The procs wait() of s considers: its children, or, when s is a thread,   *)
(* all the children of its parent; only the one asked for, if tid is given. *)
Waited(s) ==
  {q \in Slots :
     /\ proc[q].parent = IF proc[s].type = 1 THEN proc[s].parent ELSE s
     /\ tid[s] = 0 \/ proc[q].pid = tid[s]}

WaitedZombies(s) == {q \in Waited(s) : proc[q].state = "ZOMBIE"}

(* sys_wait (t = 0), or kthread_join(t) from qthread_join for a thread t of *)
(* the same process.                                                        *)
WaitCall(s, t) ==
  /\ InUser(s)
  /\ \/ t = 0 /\ proc[s].type = 0 /\ (WaitAny \/ Threads(s) = {})
     \/ /\ proc[s].type = 0 \/ SiblingJoin
        /\ \E q \in Slots \ {s} :
             /\ proc[q].type = 1 /\ proc[q].pid = t
             /\ proc[q].state \notin {"UNUSED", "EMBRYO"}
             /\ proc[q].parent = IF proc[s].type = 1 THEN proc[s].parent ELSE s
  /\ tid' = [tid EXCEPT ![s] = t]
  /\ pc' = [pc EXCEPT ![s] = "wait"]
  /\ UNCHANGED <<proc, nextpid, spaces, np, reg, panicked>>

(* A zombie process is freed and its pid returned. *)
WaitReap(s) ==
  LET q == Min(WaitedZombies(s)) IN
  /\ Runs(s) /\ pc[s] = "wait" /\ WaitedZombies(s) # {}
  /\ proc[q].type = 0
  /\ spaces' = spaces \ {proc[q].pgdir}
  /\ proc' = [proc EXCEPT ![q] = Unused]
  /\ Return(s)
  /\ UNCHANGED <<nextpid, panicked>>

(* A zombie thread's pid is returned and nothing else done; qthread_join    *)
(* goes on to kthread_fetchretval.                                          *)
WaitThread(s) ==
  /\ Runs(s) /\ pc[s] = "wait" /\ WaitedZombies(s) # {}
  /\ proc[Min(WaitedZombies(s))].type = 1
  /\ \/ tid[s] = 0 /\ Return(s)
     \/ tid[s] # 0 /\ pc' = [pc EXCEPT ![s] = "fetch"] /\ UNCHANGED locals
  /\ UNCHANGED <<proc, nextpid, spaces, panicked>>

(* No such child, or the caller was killed: -1. *)
WaitFail(s) ==
  /\ Runs(s) /\ pc[s] = "wait" /\ WaitedZombies(s) = {}
  /\ Waited(s) = {} \/ proc[s].killed = 1
  /\ Return(s)
  /\ UNCHANGED <<proc, nextpid, spaces, panicked>>

(* wait() sleeps until a child exits; a join only yields and looks again,   *)
(* which changes nothing.                                                   *)
WaitSleep(s) ==
  /\ Runs(s) /\ pc[s] = "wait" /\ WaitedZombies(s) = {}
  /\ Waited(s) # {} /\ proc[s].killed = 0
  /\ tid[s] = 0
  /\ proc' = [proc EXCEPT ![s].state = "SLEEPING"]
  /\ UNCHANGED <<nextpid, spaces, pc, locals, panicked>>

(* getthreadretval: the thread is looked up by pid.  A detached thread only *)
(* loses its attribute; any other is freed.  A killed caller exits instead. *)
FetchRetval(s) ==
  LET found == {q \in Slots : proc[q].type = 1 /\ proc[q].pid = tid[s]}
      q     == Min(found)
  IN
  /\ Runs(s) /\ pc[s] = "fetch"
  /\ \/ (found = {} \/ proc[s].killed = 1) /\ UNCHANGED proc
     \/ /\ proc[s].killed = 0 /\ found # {} /\ proc[q].threadattr # 0
        /\ proc' = [proc EXCEPT ![q].threadattr = 0]
     \/ /\ proc[s].killed = 0 /\ found # {} /\ proc[q].threadattr = 0
        /\ proc' = Reaped(q)
  /\ Return(s)
  /\ UNCHANGED <<nextpid, spaces, panicked>>

(* The decrement of tcount in getthreadretval is no more atomic than the    *)
(* increment of a fork() that holds no lock: the fork's store may fall      *)
(* between its load and its store, and is then overwritten.                 *)
FetchRace(s) ==
  \E q \in Slots :
    LET r == proc[q].parent IN
    /\ Runs(s) /\ pc[s] = "fetch" /\ proc[s].killed = 0
    /\ proc[q].type = 1 /\ proc[q].pid = tid[s] /\ proc[q].threadattr = 0
    /\ Runs(r) /\ pc[r] = "count"
    /\ proc' = Reaped(q)
    /\ pc' = [pc EXCEPT ![r] = "publish", ![s] = "user"]
    /\ tid' = [tid EXCEPT ![s] = 0]
    /\ UNCHANGED <<nextpid, spaces, np, reg, panicked>>

(* kill(), by any proc that knows the pid. *)
Kill(q) ==
  /\ MayKill /\ ~panicked /\ q # initproc
  /\ proc[q].state \in {"RUNNABLE", "SLEEPING"} /\ proc[q].killed = 0
  /\ proc' = [proc EXCEPT ![q].killed = 1, ![q].state = "RUNNABLE"]
  /\ UNCHANGED <<nextpid, spaces, pc, locals, panicked>>

-----------------------------------------------------------------------------
ForkStep(s) ==
  ForkProcess(s) \/ ForkThread(s) \/ ForkCount(s) \/ ForkPublish(s) \/ ForkFail(s)

ExitStep(s) == CleanupZombieThreads(s) \/ ExitCheck(s) \/ SwitchPanic(s)

WaitStep(s) ==
  \/ WaitReap(s) \/ WaitThread(s) \/ WaitFail(s) \/ WaitSleep(s)
  \/ FetchRetval(s) \/ FetchRace(s)

Next ==
  \E s \in Slots :
    \/ \E kind \in {"process", "thread", "detached"} : AllocProc(s, kind)
    \/ \E t \in 0..MaxPid : WaitCall(s, t)
    \/ Exit(s) \/ ForkStep(s) \/ ExitStep(s) \/ WaitStep(s) \/ Kill(s)

Spec == Init /\ [][Next]_vars

(* A proc in the kernel is scheduled again and again (round robin), init    *)
(* waits in a loop (init.c), and every program ends in exit().              *)
Fairness ==
  /\ \A s \in Slots : WF_vars(ForkStep(s) \/ ExitStep(s) \/ WaitStep(s))
  /\ \A s \in Slots : SF_vars(Exit(s))
  /\ WF_vars(WaitCall(initproc, 0))

LiveSpec == Spec /\ Fairness

-----------------------------------------------------------------------------
(* The fields of struct proc have their types, and the locals of fork() and *)
(* wait() name a proc or a pid.                                             *)
TypeOK ==
  /\ proc \in [Slots ->
       [state : {"UNUSED", "EMBRYO", "RUNNABLE", "SLEEPING", "ZOMBIE"},
        pid : 0..MaxPid, parent : Slots \cup {0}, type : {0, 1},
        tcount : 0..(UintMod - 1), pgdir : 0..MaxPid, threadattr : {0, 1},
        killed : {0, 1}]]
  /\ nextpid \in 2..(MaxPid + 2)
  /\ spaces \subseteq 1..MaxPid
  /\ pc \in [Slots -> {"user", "process", "thread", "detached", "count",
                       "publish", "cleanup", "check", "wait", "fetch"}]
  /\ tid \in [Slots -> 0..MaxPid]
  /\ np \in [Slots -> Slots \cup {0}]
  /\ reg \in [Slots -> 0..(UintMod - 1)]
  /\ panicked \in BOOLEAN

(* tcount, "Child Thread count" (proc.h), is the number of threads whose    *)
(* parent the proc is, up to the one a fork in progress has not counted.    *)
TcountExact ==
  \A s \in Slots :
    proc[s].tcount =
      Cardinality({q \in Threads(s) : \A r \in Slots : pc[r] = "count" => np[r] # q})

(* A process outlives its threads: the parent pointer every mutex and       *)
(* condvar call of a thread goes through is a process that has not become   *)
(* a zombie, so never a slot that was freed or given to another process.    *)
ParentOutlivesThreads ==
  \A q \in Slots :
    proc[q].type = 1 /\ proc[q].state # "UNUSED"
      => /\ proc[q].parent \in Slots
         /\ proc[proc[q].parent].state \in {"RUNNABLE", "SLEEPING"}
         /\ proc[proc[q].parent].type = 0

(* A proc that may run again has a page directory that exists: wait() has   *)
(* not freed it, and no detached thread that gave it up is scheduled once   *)
(* more, where switchuvm would panic.                                       *)
PgdirAlive ==
  \A q \in Slots :
    proc[q].state \in {"RUNNABLE", "SLEEPING"} => proc[q].pgdir \in spaces

(* No two live procs have one pid, so kill() and join find the one meant.   *)
(* A slot whose fork failed keeps its pid and is UNUSED.                    *)
PidsUnique ==
  \A p, q \in Slots :
    /\ p # q /\ proc[p].pid = proc[q].pid
    => "UNUSED" \in {proc[p].state, proc[q].state}

(* A slot is freed only from a zombie, or by the fork that just took it:    *)
(* joins, cleanups and waits that race for a thread never free a live one.  *)
OnlyZombiesFreed ==
  [][\A q \in Slots :
       proc'[q].state = "UNUSED" /\ proc[q].state # "UNUSED"
         => proc[q].state \in {"ZOMBIE", "EMBRYO"}]_vars

(* A process or thread that entered exit() becomes a zombie. *)
ExitCompletes ==
  \A s \in Slots : pc[s] = "cleanup" ~> proc[s].state = "ZOMBIE"

(* A zombie whose parent is init is freed: no wakeup of init is lost when   *)
(* children are handed to it.                                               *)
OrphanFreed ==
  \A s \in Slots :
    (proc[s].state = "ZOMBIE" /\ proc[s].parent = initproc)
      ~> proc[s].state = "UNUSED"
=============================================================================
