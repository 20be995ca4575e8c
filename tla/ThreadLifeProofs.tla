-------------------------- MODULE ThreadLifeProofs --------------------------
(***************************************************************************)
(* Proofs about ThreadLife for any number of slots and pids, and however   *)
(* threads create, join, wait for and kill each other (all values of       *)
(* Nested, SiblingJoin, MayKill and WaitAny): pids are unique, and a slot  *)
(* is freed only from a zombie or by the fork that took it.                *)
(*                                                                         *)
(* getthreadretval frees the thread it finds by pid without a test of its  *)
(* state.  That it is a zombie holds because wait() saw one with that pid, *)
(* pids are never given twice, and a zombie can only become free.          *)
(*                                                                         *)
(* The second part is about the threads of a process: the invariant        *)
(* FamilyInv, and the steps of exit(), wait() and kill() that keep it.     *)
(* ThreadFamilyProofs goes on from there.                                  *)
(***************************************************************************)
EXTENDS ThreadLife, WellFoundedInduction, FiniteSetTheorems, TLAPS

States == {"UNUSED", "EMBRYO", "RUNNABLE", "SLEEPING", "ZOMBIE"}

ProcType ==
  [state : States, pid : Nat, parent : Slots \cup {0}, type : {0, 1},
   tcount : Int, pgdir : Nat, threadattr : {0, 1}, killed : {0, 1}]

LifeType ==
  /\ proc \in [Slots -> ProcType]
  /\ nextpid \in Nat \ {0}
  /\ pc \in [Slots -> {"user", "process", "thread", "detached", "count",
                       "publish", "cleanup", "check", "wait", "fetch"}]
  /\ tid \in [Slots -> Nat]
  /\ np \in [Slots -> Slots \cup {0}]
  /\ reg \in [Slots -> Int]

Forking == {"process", "thread", "detached", "count", "publish"}

(* The slot a fork in progress has taken is EMBRYO and nobody else's. *)
EmbryoInv ==
  \A s \in Slots : pc[s] \in Forking =>
    /\ np[s] \in Slots /\ proc[np[s]].state = "EMBRYO"
    /\ \A t \in Slots : pc[t] \in Forking /\ np[t] = np[s] => t = s

(* The pids given so far are below nextpid. *)
PidInv == \A q \in Slots : proc[q].pid < nextpid

(* Between wait() and getthreadretval() nobody but a zombie has the pid. *)
FetchInv ==
  \A s \in Slots : pc[s] = "fetch" =>
    /\ tid[s] < nextpid
    /\ \A q \in Slots : proc[q].pid = tid[s] => proc[q].state \in {"ZOMBIE", "UNUSED"}

LifeInv == LifeType /\ EmbryoInv /\ PidInv /\ FetchInv /\ PidsUnique

(* The least element of a set of naturals: the first slot of a scan. *)
LEMMA MinIn ==
  ASSUME NEW S \in SUBSET Nat, S # {}
  PROVE  Min(S) \in S
<1> DEFINE R == OpToRel(<, Nat)
<1>1. IsWellFoundedOn(R, Nat)
  BY NatLessThanWellFounded
<1> HIDE DEF R
<1>2. PICK x \in S : \A y \in S : ~ (<<y, x>> \in R)
  BY <1>1, WFMin
<1>3. \A m, n \in Nat : m < n => <<m, n>> \in R
  BY Zenon DEF R, OpToRel
<1>4. ASSUME NEW y \in S PROVE x <= y
  <2>1. ~ (y < x)
    BY <1>2, <1>3, Zenon
  <2> QED
    BY <2>1
<1> QED
  BY <1>4 DEF Min

LEMMA SlotsNat == Slots \subseteq Nat /\ 0 \notin Slots /\ initproc \in Slots
BY LifeAssumption DEF Slots, initproc

LEMMA MinSlot ==
  ASSUME NEW S \in SUBSET Slots, S # {}
  PROVE  Min(S) \in S
BY MinIn, SlotsNat

-----------------------------------------------------------------------------
(* What the helpers that rewrite the table do to pids and states. *)

Woken(P, Q) ==
  /\ Q \in [Slots -> ProcType]
  /\ \A x \in Slots :
       /\ Q[x].pid = P[x].pid
       /\ Q[x].state = P[x].state \/ (P[x].state = "SLEEPING" /\ Q[x].state = "RUNNABLE")

LEMMA WakeupFrame ==
  ASSUME NEW P \in [Slots -> ProcType], NEW q
  PROVE  Woken(P, Wakeup1(P, q))
BY DEF Woken, Wakeup1, ProcType, States

LEMMA DisownedFrame ==
  ASSUME LifeType, NEW s \in Slots
  PROVE  Woken(proc, Disowned(s))
<1> DEFINE kids == {q \in Slots : proc[q].type # 1 /\ proc[q].parent = s}
           P == [q \in Slots |-> IF q \in kids
                                   THEN [proc[q] EXCEPT !.parent = initproc]
                                   ELSE proc[q]]
<1>1. /\ P \in [Slots -> ProcType]
      /\ \A x \in Slots : P[x].pid = proc[x].pid /\ P[x].state = proc[x].state
  BY SlotsNat DEF LifeType, ProcType
<1>2. Woken(P, Wakeup1(P, initproc))
  BY <1>1, WakeupFrame
<1>3. Reparented(s) \in {P, Wakeup1(P, initproc)}
  BY DEF Reparented
<1> HIDE DEF P
<1>4. Woken(proc, Reparented(s))
  BY <1>1, <1>2, <1>3 DEF Woken
<1>5. Woken(proc, [proc EXCEPT ![s].pgdir = 0]) /\ Woken(proc, proc)
  BY DEF Woken, LifeType, ProcType
<1> QED
  BY <1>4, <1>5 DEF Disowned

LEMMA ReapedFrame ==
  ASSUME LifeType, NEW q \in Slots
  PROVE  /\ Reaped(q) \in [Slots -> ProcType]
         /\ Reaped(q)[q].state = "UNUSED" /\ Reaped(q)[q].pid = 0
         /\ \A x \in Slots \ {q} : /\ Reaped(q)[x].pid = proc[x].pid
                                   /\ Reaped(q)[x].state = proc[x].state
<1> DEFINE U == [Unused EXCEPT !.tcount = proc[q].tcount]
           A == [proc EXCEPT ![q] = U]
           r == proc[q].parent
<1>1. U \in ProcType /\ U.state = "UNUSED" /\ U.pid = 0
  BY DEF Unused, LifeType, ProcType, States
<1>2. A \in [Slots -> ProcType] /\ A[q] = U /\ \A x \in Slots \ {q} : A[x] = proc[x]
  BY <1>1 DEF LifeType
<1>3. r \in Slots \cup {0} /\ 0 \notin Slots
  BY SlotsNat DEF LifeType, ProcType
<1>4. Reaped(q) = [A EXCEPT ![r].tcount = (@ - 1) % UintMod]
  BY DEF Reaped
<1> HIDE DEF A, U, r
<1>5. \A i \in Int : (i - 1) % UintMod \in Int
  BY LifeAssumption
<1>6. CASE r = 0
  <2>1. Reaped(q) = A
    BY <1>2, <1>3, <1>4, <1>6
  <2> QED
    BY <2>1, <1>1, <1>2
<1>7. CASE r \in Slots
  <2> DEFINE v == (A[r].tcount - 1) % UintMod
             B == [A EXCEPT ![r] = [A[r] EXCEPT !.tcount = v]]
  <2>1. v \in Int
    BY <1>2, <1>5, <1>7 DEF ProcType
  <2>2. Reaped(q) = B
    BY <1>2, <1>4, <1>7
  <2> HIDE DEF v
  <2>3. B \in [Slots -> ProcType] /\ \A x \in Slots : B[x].pid = A[x].pid /\ B[x].state = A[x].state
    BY <2>1, <1>2, <1>7 DEF ProcType
  <2> QED
    BY <2>2, <2>3, <1>1, <1>2
<1> QED
  BY <1>3, <1>6, <1>7

LEMMA ZombieFrame ==
  ASSUME LifeType, NEW P, Woken(proc, P), NEW s \in Slots, proc[s].state = "RUNNABLE"
  PROVE  /\ Zombie(P, s) \in [Slots -> ProcType]
         /\ Zombie(P, s)[s].pid = proc[s].pid /\ Zombie(P, s)[s].state = "ZOMBIE"
         /\ \A x \in Slots \ {s} :
              /\ Zombie(P, s)[x].pid = proc[x].pid
              /\ \/ Zombie(P, s)[x].state = proc[x].state
                 \/ proc[x].state = "SLEEPING" /\ Zombie(P, s)[x].state = "RUNNABLE"
<1> DEFINE Q == Wakeup1(P, P[s].parent)
<1>1. Woken(P, Q)
  BY WakeupFrame DEF Woken
<1>2. Zombie(P, s) = [Q EXCEPT ![s].state = "ZOMBIE"]
  BY DEF Zombie
<1> HIDE DEF Q
<1>3. Woken(proc, Q)
  BY <1>1 DEF Woken
<1>4. Q \in [Slots -> ProcType]
  BY <1>3 DEF Woken
<1>5. /\ Zombie(P, s) \in [Slots -> ProcType]
      /\ Zombie(P, s)[s].pid = Q[s].pid /\ Zombie(P, s)[s].state = "ZOMBIE"
      /\ \A x \in Slots \ {s} : Zombie(P, s)[x] = Q[x]
  BY <1>2, <1>4 DEF ProcType, States
<1> QED
  BY <1>3, <1>5 DEF Woken

-----------------------------------------------------------------------------
(* Most steps only move procs along their lives: live to live or zombie,    *)
(* zombie to free, and start neither a fork nor a fetch.                    *)
Moves ==
  \A q \in Slots :
    \/ /\ proc'[q].pid = proc[q].pid
       /\ \/ proc'[q].state = proc[q].state
          \/ /\ proc[q].state \in {"RUNNABLE", "SLEEPING"}
             /\ proc'[q].state \in {"RUNNABLE", "SLEEPING", "ZOMBIE"}
    \/ /\ proc[q].state \in {"ZOMBIE", "UNUSED"}
       /\ proc'[q].state = "UNUSED" /\ proc'[q].pid = 0

Quiet ==
  /\ nextpid' = nextpid /\ Moves
  /\ \A s \in Slots :
       /\ pc'[s] \in Forking => pc[s] \in Forking /\ np'[s] = np[s]
       /\ pc'[s] = "fetch" => pc[s] = "fetch" /\ tid'[s] = tid[s]

LEMMA QuietKeeps ==
  ASSUME LifeInv, Quiet, LifeType'
  PROVE  LifeInv'
<1> USE DEF LifeInv
<1>1. EmbryoInv'
  BY DEF EmbryoInv, Quiet, Moves
<1>2. PidInv'
  <2> SUFFICES ASSUME NEW q \in Slots PROVE proc'[q].pid < nextpid'
    BY DEF PidInv
  <2> QED
    BY DEF PidInv, Quiet, Moves, LifeType
<1>3. FetchInv'
  <2> SUFFICES ASSUME NEW s \in Slots, pc'[s] = "fetch"
               PROVE  /\ tid'[s] < nextpid'
                      /\ \A q \in Slots : proc'[q].pid = tid'[s]
                           => proc'[q].state \in {"ZOMBIE", "UNUSED"}
    BY DEF FetchInv
  <2> QED
    BY DEF FetchInv, Quiet, Moves
<1>4. PidsUnique'
  BY DEF PidsUnique, Quiet, Moves
<1> QED
  BY <1>1, <1>2, <1>3, <1>4

-----------------------------------------------------------------------------
(* The quiet steps, one by one. *)

LEMMA OneMoves ==
  ASSUME LifeType, NEW n \in Slots, NEW r \in ProcType,
         r.pid = proc[n].pid, r.state = proc[n].state, proc' = [proc EXCEPT ![n] = r]
  PROVE  proc' \in [Slots -> ProcType] /\ Moves
BY DEF LifeType, Moves

LEMMA ForkQuiet ==
  ASSUME LifeInv, NEW s \in Slots, ForkProcess(s) \/ ForkThread(s) \/ ForkCount(s)
  PROVE  LifeType' /\ Quiet
<1> USE DEF LifeInv
<1>0. LifeType
  OBVIOUS
<1>1. CASE ForkProcess(s)
  <2> DEFINE r == [proc[np[s]] EXCEPT !.pgdir = proc[np[s]].pid, !.type = 0,
                                      !.tcount = 0, !.parent = s]
  <2>1. np[s] \in Slots
    BY <1>1 DEF EmbryoInv, ForkProcess, Forking
  <2>2. r \in ProcType /\ r.pid = proc[np[s]].pid /\ r.state = proc[np[s]].state
    <3>1. proc[np[s]] \in ProcType /\ proc[s] \in ProcType
      BY <2>1 DEF LifeType
    <3>2. proc[np[s]].pid \in Nat
      BY <3>1 DEF ProcType
    <3>3. ASSUME NEW n \in ProcType, NEW g \in Nat
          PROVE  LET m == [n EXCEPT !.pgdir = g, !.type = 0, !.tcount = 0, !.parent = s]
                 IN  m \in ProcType /\ m.pid = n.pid /\ m.state = n.state
      <4>1. [n EXCEPT !.pgdir = g, !.type = 0] \in ProcType
        BY DEF ProcType
      <4>2. \A m \in ProcType : [m EXCEPT !.tcount = 0] \in ProcType
        BY DEF ProcType
      <4>3. \A m \in ProcType : [m EXCEPT !.parent = s] \in ProcType
        BY DEF ProcType
      <4>4. [n EXCEPT !.pgdir = g, !.type = 0, !.tcount = 0, !.parent = s]
              = [[[n EXCEPT !.pgdir = g, !.type = 0] EXCEPT !.tcount = 0] EXCEPT !.parent = s]
        BY DEF ProcType
      <4> QED
        BY <4>1, <4>2, <4>3, <4>4 DEF ProcType
    <3> QED
      BY <3>1, <3>2, <3>3
  <2>3. proc' = [proc EXCEPT ![np[s]] = r]
    BY <1>1 DEF ForkProcess
  <2> HIDE DEF r
  <2>4. proc' \in [Slots -> ProcType] /\ Moves
    BY <1>0, <2>1, <2>2, <2>3, OneMoves
  <2> QED
    BY <1>1, <2>4 DEF ForkProcess, LifeType, Quiet, locals, Forking
<1>2. CASE ForkThread(s)
  <2> DEFINE r == [proc[np[s]] EXCEPT !.pgdir = proc[s].pgdir, !.type = 1,
                     !.threadattr = IF pc[s] = "detached" THEN 1 ELSE 0,
                     !.parent = IF proc[s].type = 1 THEN proc[s].parent ELSE s]
  <2>1. np[s] \in Slots
    BY <1>2 DEF EmbryoInv, ForkThread, Forking
  <2>2. r \in ProcType /\ r.pid = proc[np[s]].pid /\ r.state = proc[np[s]].state
    <3>1. proc[np[s]] \in ProcType /\ proc[s] \in ProcType
      BY <2>1 DEF LifeType
    <3> QED
      BY <3>1 DEF ProcType
  <2>3. proc' = [proc EXCEPT ![np[s]] = r]
    BY <1>2, <2>1 DEF ForkThread, LifeType
  <2> HIDE DEF r
  <2>4. proc' \in [Slots -> ProcType] /\ Moves
    BY <1>0, <2>1, <2>2, <2>3, OneMoves
  <2>5. proc[s].tcount \in Int
    BY DEF LifeType, ProcType
  <2> QED
    BY <1>2, <2>4, <2>5 DEF ForkThread, LifeType, Quiet, Forking
<1>3. CASE ForkCount(s)
  <2> DEFINE v == (reg[s] + 1) % UintMod
             r == [proc[s] EXCEPT !.tcount = v]
  <2>1. v \in Int
    BY LifeAssumption DEF LifeType
  <2>2. proc' = [proc EXCEPT ![s] = r]
    BY <1>3 DEF ForkCount, LifeType
  <2> HIDE DEF v
  <2>3. r \in ProcType /\ r.pid = proc[s].pid /\ r.state = proc[s].state
    BY <2>1 DEF LifeType, ProcType
  <2> HIDE DEF r
  <2>4. proc' \in [Slots -> ProcType] /\ Moves
    BY <1>0, <2>2, <2>3, OneMoves
  <2> QED
    BY <1>3, <2>4 DEF ForkCount, LifeType, Quiet, locals, Forking
<1> QED
  BY <1>1, <1>2, <1>3

LEMMA ExitQuiet ==
  ASSUME LifeInv, NEW s \in Slots, Exit(s) \/ ExitStep(s)
  PROVE  LifeType' /\ Quiet
<1> USE DEF LifeInv
<1>0. LifeType
  OBVIOUS
<1>1. CASE Exit(s)
  <2>1. Woken(proc, Disowned(s)) /\ proc[s].state = "RUNNABLE"
    BY <1>1, DisownedFrame DEF Exit, Runs
  <2> DEFINE Z == Zombie(Disowned(s), s)
  <2>2. CASE proc' = Z /\ UNCHANGED pc
    <3>1. proc' \in [Slots -> ProcType] /\ Moves
      BY <2>1, <2>2, ZombieFrame DEF Moves
    <3> QED
      BY <1>1, <2>2, <3>1 DEF Exit, LifeType, Quiet, locals
  <2>3. CASE proc' = Disowned(s) /\ pc' = [pc EXCEPT ![s] = "cleanup"]
    <3>1. proc' \in [Slots -> ProcType] /\ Moves
      BY <2>1, <2>3 DEF Moves, Woken
    <3> QED
      BY <1>1, <2>3, <3>1 DEF Exit, LifeType, Quiet, locals, Forking
  <2> QED
    BY <1>1, <2>2, <2>3 DEF Exit
<1>2. CASE CleanupZombieThreads(s)
  <2> DEFINE zombies == {q \in Threads(s) : proc[q].state = "ZOMBIE"}
  <2>1. CASE zombies # {} /\ proc' = Reaped(Min(zombies))
    <3>1. Min(zombies) \in Slots /\ proc[Min(zombies)].state = "ZOMBIE"
      BY <2>1, MinSlot DEF Threads
    <3> HIDE DEF zombies
    <3>2. proc' \in [Slots -> ProcType] /\ Moves
      BY <2>1, <3>1, ReapedFrame DEF Moves
    <3> QED
      BY <1>2, <3>2 DEF CleanupZombieThreads, LifeType, Quiet, locals, Forking
  <2>2. CASE UNCHANGED proc
    BY <1>2, <2>2 DEF CleanupZombieThreads, LifeType, Quiet, Moves, locals, Forking
  <2> QED
    BY <1>2, <2>1, <2>2 DEF CleanupZombieThreads
<1>3. CASE ExitCheck(s)
  <2>1. CASE proc' = Zombie(proc, s) /\ pc' = [pc EXCEPT ![s] = "user"]
    <3>1. Woken(proc, proc) /\ proc[s].state = "RUNNABLE"
      BY <1>3 DEF Woken, LifeType, ExitCheck, Runs
    <3>2. proc' \in [Slots -> ProcType] /\ Moves
      BY <2>1, <3>1, ZombieFrame DEF Moves
    <3> QED
      BY <1>3, <2>1, <3>2 DEF ExitCheck, LifeType, Quiet, locals, Forking
  <2>2. CASE UNCHANGED proc /\ pc' = [pc EXCEPT ![s] = "cleanup"]
    BY <1>3, <2>2 DEF ExitCheck, LifeType, Quiet, Moves, locals, Forking
  <2> QED
    BY <1>3, <2>1, <2>2 DEF ExitCheck
<1>4. CASE SwitchPanic(s)
  BY <1>4 DEF SwitchPanic, LifeType, Quiet, Moves, locals
<1> QED
  BY <1>1, <1>2, <1>3, <1>4 DEF ExitStep

LEMMA WaitQuiet ==
  ASSUME LifeInv, NEW s \in Slots,
         \/ WaitReap(s) \/ WaitFail(s) \/ WaitSleep(s) \/ Kill(s)
         \/ \E t \in 0..MaxPid : WaitCall(s, t)
  PROVE  LifeType' /\ Quiet
<1> USE DEF LifeInv
<1>0. LifeType
  OBVIOUS
<1>1. CASE WaitReap(s)
  <2> DEFINE q == Min(WaitedZombies(s))
  <2>1. q \in Slots /\ proc[q].state = "ZOMBIE"
    BY <1>1, MinSlot DEF WaitReap, WaitedZombies, Waited
  <2> HIDE DEF q
  <2>2. Unused \in ProcType /\ Unused.state = "UNUSED" /\ Unused.pid = 0
    BY DEF Unused, ProcType, States
  <2>3. proc' = [proc EXCEPT ![q] = Unused]
    BY <1>1 DEF WaitReap, q
  <2>4. proc' \in [Slots -> ProcType] /\ Moves
    BY <2>1, <2>2, <2>3 DEF LifeType, Moves
  <2> QED
    BY <1>1, <2>4 DEF WaitReap, Return, LifeType, Quiet, Forking
<1>2. CASE WaitFail(s)
  BY <1>2 DEF WaitFail, Return, LifeType, Quiet, Moves, Forking
<1>3. CASE WaitSleep(s)
  <2>1. proc[s] \in ProcType /\ proc[s].state = "RUNNABLE"
    BY <1>3 DEF LifeType, WaitSleep, Runs
  <2>2. proc' = [proc EXCEPT ![s].state = "SLEEPING"]
    BY <1>3 DEF WaitSleep
  <2>3. proc' \in [Slots -> ProcType] /\ Moves
    BY <2>1, <2>2 DEF LifeType, Moves, ProcType, States
  <2> QED
    BY <1>3, <2>3 DEF WaitSleep, LifeType, Quiet, locals
<1>4. CASE Kill(s)
  <2> DEFINE r == [proc[s] EXCEPT !.killed = 1, !.state = "RUNNABLE"]
  <2>1. proc[s] \in ProcType /\ proc[s].state \in {"RUNNABLE", "SLEEPING"}
    BY <1>4 DEF LifeType, Kill
  <2>2. r \in ProcType /\ r.pid = proc[s].pid /\ r.state = "RUNNABLE"
    BY <2>1 DEF ProcType, States
  <2>3. proc' = [proc EXCEPT ![s] = r]
    BY <1>4 DEF Kill, LifeType
  <2> HIDE DEF r
  <2>4. proc' \in [Slots -> ProcType] /\ Moves
    BY <2>1, <2>2, <2>3 DEF LifeType, Moves
  <2> QED
    BY <1>4, <2>4 DEF Kill, LifeType, Quiet, locals
<1>5. ASSUME NEW t \in 0..MaxPid, WaitCall(s, t) PROVE LifeType' /\ Quiet
  <2>1. t \in Nat
    BY LifeAssumption
  <2> QED
    BY <1>5, <2>1 DEF WaitCall, LifeType, Quiet, Moves, Forking
<1> QED
  BY <1>1, <1>2, <1>3, <1>4, <1>5

(* getthreadretval, alone or across the increment of a fork. *)
LEMMA FetchQuiet ==
  ASSUME LifeInv, NEW s \in Slots, FetchRetval(s) \/ FetchRace(s)
  PROVE  LifeType' /\ Quiet
<1> USE DEF LifeInv
<1>0. LifeType
  OBVIOUS
<1>1. ASSUME NEW q \in Slots, pc[s] = "fetch", proc[q].pid = tid[s], proc' = Reaped(q)
      PROVE  proc' \in [Slots -> ProcType] /\ Moves
  <2>1. proc[q].state \in {"ZOMBIE", "UNUSED"}
    BY <1>1 DEF FetchInv
  <2> QED
    BY <1>1, <2>1, ReapedFrame DEF Moves
<1>2. CASE FetchRetval(s)
  <2> DEFINE found == {q \in Slots : proc[q].type = 1 /\ proc[q].pid = tid[s]}
             q == Min(found)
  <2>1. found # {} => q \in Slots /\ proc[q].pid = tid[s]
    BY MinSlot
  <2>2. \/ UNCHANGED proc
        \/ found # {} /\ proc' = [proc EXCEPT ![q].threadattr = 0]
        \/ found # {} /\ proc' = Reaped(q)
    BY <1>2 DEF FetchRetval
  <2>3. pc[s] = "fetch" /\ Return(s) /\ nextpid' = nextpid
    BY <1>2 DEF FetchRetval
  <2> HIDE DEF found, q
  <2>4. proc' \in [Slots -> ProcType] /\ Moves
    <3>1. CASE UNCHANGED proc
      BY <3>1 DEF LifeType, Moves
    <3>2. CASE found # {} /\ proc' = [proc EXCEPT ![q].threadattr = 0]
      BY <2>1, <3>2 DEF LifeType, Moves, ProcType
    <3>3. CASE found # {} /\ proc' = Reaped(q)
      BY <1>1, <2>1, <2>3, <3>3
    <3> QED
      BY <2>2, <3>1, <3>2, <3>3
  <2>5. LifeType'
    <3>1. nextpid' \in Nat \ {0}
      BY <1>0, <2>3 DEF LifeType
    <3>2. /\ pc' = [pc EXCEPT ![s] = "user"] /\ tid' = [tid EXCEPT ![s] = 0]
          /\ np' = [np EXCEPT ![s] = 0] /\ reg' = [reg EXCEPT ![s] = 0]
      BY <2>3 DEF Return
    <3> QED
      BY <1>0, <2>4, <3>1, <3>2 DEF LifeType
  <2>6. Quiet
    BY <2>3, <2>4 DEF Return, LifeType, Quiet, Forking
  <2> QED
    BY <2>5, <2>6
<1>3. CASE FetchRace(s)
  <2>1. PICK q \in Slots :
          /\ pc[s] = "fetch" /\ proc[q].pid = tid[s] /\ proc' = Reaped(q)
          /\ Runs(proc[q].parent) /\ pc[proc[q].parent] = "count"
          /\ pc' = [pc EXCEPT ![proc[q].parent] = "publish", ![s] = "user"]
          /\ tid' = [tid EXCEPT ![s] = 0]
          /\ UNCHANGED <<nextpid, spaces, np, reg, panicked>>
    BY <1>3 DEF FetchRace
  <2>2. proc' \in [Slots -> ProcType] /\ Moves
    BY <1>1, <2>1
  <2> QED
    BY <2>1, <2>2 DEF LifeType, Quiet, Forking
<1> QED
  BY <1>2, <1>3

-----------------------------------------------------------------------------
(* The steps that begin or end a fork, or begin a fetch. *)

(* allocproc gives a pid nobody has or looks for. *)
LEMMA AllocKeeps ==
  ASSUME LifeInv, NEW s \in Slots, NEW kind \in {"process", "thread", "detached"},
         AllocProc(s, kind)
  PROVE  LifeInv'
<1> USE DEF LifeInv
<1> DEFINE unused == {q \in Slots : proc[q].state = "UNUSED"}
           n == Min(unused)
           r == [proc[n] EXCEPT !.state = "EMBRYO", !.pid = nextpid]
<1>1. n \in Slots /\ proc[n].state = "UNUSED"
  BY MinSlot DEF AllocProc
<1>2. r \in ProcType /\ r.state = "EMBRYO" /\ r.pid = nextpid
  BY <1>1 DEF LifeType, ProcType, States
<1>3. /\ proc' = [proc EXCEPT ![n] = r] /\ nextpid' = nextpid + 1
      /\ np' = [np EXCEPT ![s] = n] /\ pc' = [pc EXCEPT ![s] = kind]
      /\ pc[s] = "user" /\ UNCHANGED <<tid, reg>>
  BY <1>1 DEF AllocProc, InUser, LifeType
<1> HIDE DEF n, r, unused
<1>4. LifeType'
  BY <1>1, <1>2, <1>3 DEF LifeType
<1>5. /\ proc'[n].state = "EMBRYO" /\ proc'[n].pid = nextpid
      /\ \A q \in Slots \ {n} : proc'[q] = proc[q]
  BY <1>1, <1>2, <1>3 DEF LifeType
<1>6. EmbryoInv'
  BY <1>1, <1>3, <1>5 DEF EmbryoInv, LifeType
<1>7. PidInv'
  BY <1>3, <1>5 DEF PidInv, LifeType, ProcType
<1>8. FetchInv'
  BY <1>3, <1>5 DEF FetchInv, LifeType
<1>9. PidsUnique'
  BY <1>1, <1>5 DEF PidsUnique, PidInv, LifeType, ProcType
<1> QED
  BY <1>4, <1>6, <1>7, <1>8, <1>9

(* The fork that took a slot makes it RUNNABLE or gives it back. *)
LEMMA PublishKeeps ==
  ASSUME LifeInv, NEW s \in Slots, ForkPublish(s) \/ ForkFail(s)
  PROVE  LifeInv'
<1> USE DEF LifeInv
<1> DEFINE n == np[s]
<1>1. /\ n \in Slots /\ proc[n].state = "EMBRYO" /\ proc[n] \in ProcType
      /\ \A t \in Slots : pc[t] \in Forking /\ np[t] = n => t = s
  BY DEF ForkPublish, ForkFail, EmbryoInv, Forking, LifeType
<1>2. PICK st \in {"RUNNABLE", "UNUSED"} : proc' = [proc EXCEPT ![n].state = st]
  BY DEF ForkPublish, ForkFail
<1>3. /\ pc' = [pc EXCEPT ![s] = "user"] /\ tid' = [tid EXCEPT ![s] = 0]
      /\ np' = [np EXCEPT ![s] = 0] /\ reg' = [reg EXCEPT ![s] = 0]
      /\ nextpid' = nextpid
  BY DEF ForkPublish, ForkFail, Return
<1> HIDE DEF n
<1>4. /\ proc' \in [Slots -> ProcType]
      /\ proc'[n].state = st /\ proc'[n].pid = proc[n].pid
      /\ \A q \in Slots \ {n} : proc'[q] = proc[q]
  BY <1>1, <1>2 DEF LifeType, ProcType, States
<1>5. LifeType'
  <2>1. LifeType /\ nextpid' \in Nat \ {0}
    BY <1>3 DEF LifeType
  <2> QED
    BY <1>3, <1>4, <2>1 DEF LifeType
<1>6. EmbryoInv'
  BY <1>1, <1>3, <1>4 DEF EmbryoInv, LifeType, Forking
<1>7. PidInv'
  BY <1>3, <1>4 DEF PidInv
<1>8. FetchInv'
  BY <1>1, <1>3, <1>4 DEF FetchInv, LifeType
<1>9. PidsUnique'
  BY <1>1, <1>4 DEF PidsUnique
<1> QED
  BY <1>5, <1>6, <1>7, <1>8, <1>9

(* wait() has seen a zombie with the pid; pids are unique. *)
LEMMA WaitThreadKeeps ==
  ASSUME LifeInv, NEW s \in Slots, WaitThread(s)
  PROVE  LifeInv'
<1> USE DEF LifeInv
<1> DEFINE z == Min(WaitedZombies(s))
<1>1. z \in Slots /\ proc[z].state = "ZOMBIE" /\ (tid[s] = 0 \/ proc[z].pid = tid[s])
  BY MinSlot DEF WaitThread, WaitedZombies, Waited
<1>2. UNCHANGED <<proc, nextpid>>
  BY DEF WaitThread
<1>3. \/ tid[s] = 0 /\ Return(s)
      \/ tid[s] # 0 /\ pc' = [pc EXCEPT ![s] = "fetch"] /\ UNCHANGED <<tid, np, reg>>
  BY DEF WaitThread, locals
<1> HIDE DEF z
<1>4. CASE tid[s] = 0 /\ Return(s)
  <2>1. LifeType'
    BY <1>2, <1>4 DEF LifeType, Return
  <2>2. Quiet
    BY <1>2, <1>4 DEF Quiet, Moves, Return, LifeType, Forking
  <2> QED
    BY <2>1, <2>2, QuietKeeps
<1>5. CASE tid[s] # 0 /\ pc' = [pc EXCEPT ![s] = "fetch"] /\ UNCHANGED <<tid, np, reg>>
  <2>1. LifeType'
    BY <1>2, <1>5 DEF LifeType
  <2>2. EmbryoInv'
    BY <1>2, <1>5 DEF EmbryoInv, LifeType, Forking
  <2>3. PidInv' /\ PidsUnique'
    BY <1>2 DEF PidInv, PidsUnique
  <2>4. tid[s] < nextpid /\ \A q \in Slots : proc[q].pid = tid[s] => proc[q].state \in {"ZOMBIE", "UNUSED"}
    BY <1>1, <1>5 DEF PidInv, PidsUnique
  <2>5. FetchInv'
    BY <1>2, <1>5, <2>4 DEF FetchInv, LifeType
  <2> QED
    BY <2>1, <2>2, <2>3, <2>5
<1> QED
  BY <1>3, <1>4, <1>5

LEMMA InitLife == Init => LifeInv
<1> SUFFICES ASSUME Init PROVE LifeInv
  OBVIOUS
<1>1. Unused \in ProcType
  BY DEF Unused, ProcType, States
<1>1a. [Unused EXCEPT !.state = "RUNNABLE", !.pid = 1, !.pgdir = 1] \in ProcType
  BY <1>1 DEF ProcType, States
<1>2. LifeType
  BY <1>1, <1>1a, SlotsNat DEF Init, LifeType
<1>3. EmbryoInv /\ FetchInv
  BY DEF Init, EmbryoInv, FetchInv, Forking
<1>4. PidInv /\ PidsUnique
  BY DEF Init, PidInv, PidsUnique, Unused
<1> QED
  BY <1>2, <1>3, <1>4 DEF LifeInv

-----------------------------------------------------------------------------
(* A step frees only a zombie, or the slot of a fork. *)
FreesZombies ==
  \A q \in Slots :
    proc'[q].state = "UNUSED" /\ proc[q].state # "UNUSED"
      => proc[q].state \in {"ZOMBIE", "EMBRYO"}

LEMMA NextLife ==
  ASSUME LifeInv, [Next]_vars
  PROVE  LifeInv' /\ FreesZombies
<1>0. ASSUME LifeType' /\ Quiet PROVE LifeInv' /\ FreesZombies
  BY <1>0, QuietKeeps DEF Quiet, Moves, FreesZombies
<1>1. CASE UNCHANGED vars
  <2>1. LifeType'
    BY <1>1 DEF LifeInv, LifeType, vars, locals
  <2>2. Quiet
    BY <1>1 DEF Quiet, Moves, vars, locals
  <2> QED
    BY <1>0, <2>1, <2>2
<1>2. CASE Next
  <2>1. PICK s \in Slots :
          \/ \E kind \in {"process", "thread", "detached"} : AllocProc(s, kind)
          \/ \E t \in 0..MaxPid : WaitCall(s, t)
          \/ Exit(s) \/ ForkStep(s) \/ ExitStep(s) \/ WaitStep(s) \/ Kill(s)
    BY <1>2 DEF Next
  <2>2. ASSUME NEW kind \in {"process", "thread", "detached"}, AllocProc(s, kind)
        PROVE  LifeInv' /\ FreesZombies
    <3> DEFINE n == Min({q \in Slots : proc[q].state = "UNUSED"})
    <3>1. LifeInv'
      BY <2>2, AllocKeeps
    <3>2. proc' = [proc EXCEPT ![n].state = "EMBRYO", ![n].pid = nextpid]
      BY <2>2 DEF AllocProc
    <3> HIDE DEF n
    <3>3. FreesZombies
      BY <3>2 DEF FreesZombies, LifeInv, LifeType, ProcType
    <3> QED
      BY <3>1, <3>3
  <2>3. CASE ForkPublish(s) \/ ForkFail(s)
    <3>1. LifeInv'
      BY <2>3, PublishKeeps
    <3>2. np[s] \in Slots /\ proc[np[s]].state = "EMBRYO"
      BY <2>3 DEF LifeInv, EmbryoInv, ForkPublish, ForkFail, Forking
    <3>3. FreesZombies
      BY <2>3, <3>2 DEF FreesZombies, ForkPublish, ForkFail, LifeInv, LifeType
    <3> QED
      BY <3>1, <3>3
  <2>4. CASE WaitThread(s)
    BY <2>4, WaitThreadKeeps DEF WaitThread, FreesZombies
  <2>5. CASE ForkProcess(s) \/ ForkThread(s) \/ ForkCount(s)
    BY <1>0, <2>5, ForkQuiet
  <2>6. CASE Exit(s) \/ ExitStep(s)
    BY <1>0, <2>6, ExitQuiet
  <2>7. CASE FetchRetval(s) \/ FetchRace(s)
    BY <1>0, <2>7, FetchQuiet
  <2>8. CASE \/ WaitReap(s) \/ WaitFail(s) \/ WaitSleep(s) \/ Kill(s)
             \/ \E t \in 0..MaxPid : WaitCall(s, t)
    BY <1>0, <2>8, WaitQuiet
  <2> QED
    BY <2>1, <2>2, <2>3, <2>4, <2>5, <2>6, <2>7, <2>8, Zenon DEF ForkStep, WaitStep
<1> QED
  BY <1>1, <1>2

(* No two live procs have one pid, although slots are reused, forks fail    *)
(* half way and threads are freed by joins that race (allocproc).           *)
THEOREM PidsStayUnique == Spec => []PidsUnique
<1>1. LifeInv => PidsUnique
  BY DEF LifeInv
<1>2. LifeInv /\ [Next]_vars => LifeInv'
  BY NextLife
<1> QED
  BY <1>1, <1>2, InitLife, PTL DEF Spec

(* wait(), cleanupzombiethreads and getthreadretval, which does not look at *)
(* the state, free zombies only, whoever joins, waits and kills.            *)
THEOREM NoLiveProcFreed == Spec => OnlyZombiesFreed
<1>1. LifeInv /\ [Next]_vars => LifeInv'
  BY NextLife
<1>2. LifeInv /\ [Next]_vars => [FreesZombies]_vars
  BY NextLife
<1>3. Spec => [][FreesZombies]_vars
  BY <1>1, <1>2, InitLife, PTL DEF Spec
<1> QED
  BY <1>3 DEF OnlyZombiesFreed, FreesZombies

-----------------------------------------------------------------------------
(* The states of a proc that has begun to run and has not exited. *)
Live == {"RUNNABLE", "SLEEPING"}

(* A thread's parent is a process that lives, and the thread has its page   *)
(* directory until it exits. *)
ThreadInv ==
  \A q \in Slots : proc[q].type = 1 =>
    /\ proc[q].state # "UNUSED" /\ proc[q].parent \in Slots
    /\ proc[proc[q].parent].type = 0 /\ proc[proc[q].parent].state \in Live
    /\ proc[q].state # "ZOMBIE" => proc[q].pgdir = proc[proc[q].parent].pgdir

(* How far a fork has come with its new proc; only a process creates        *)
(* threads. *)
ForkInv ==
  \A s \in Slots :
    /\ pc[s] # "user" => proc[s].state \in Live
    /\ pc[s] \in {"process", "thread", "detached"} => proc[np[s]].type = 0
    /\ pc[s] \in {"thread", "detached", "count"} => proc[s].type = 0
    /\ pc[s] = "count" => /\ proc[np[s]].type = 1 /\ proc[np[s]].parent = s
                          /\ reg[s] = proc[s].tcount
    /\ pc[s] = "publish" /\ proc[np[s]].type = 0 =>
         proc[np[s]].pgdir = proc[np[s]].pid /\ proc[np[s]].pid \in spaces

(* A process has a page directory of its own, which exists until wait()     *)
(* frees the process. *)
PgdirInv ==
  \A q \in Slots : proc[q].type = 0 /\ proc[q].state \in Live \cup {"ZOMBIE"} =>
    proc[q].pgdir = proc[q].pid /\ (proc[q].state \in Live => proc[q].pid \in spaces)

(* The pid a join waits for is that of a thread of its own, or of nobody. *)
JoinInv ==
  \A s \in Slots : pc[s] = "fetch" \/ (pc[s] = "wait" /\ tid[s] # 0) =>
    /\ tid[s] < nextpid
    /\ \A q \in Slots : proc[q].pid = tid[s] /\ proc[q].state # "UNUSED" =>
         proc[q].type = 1 /\ proc[q].parent = s /\ proc[q].state # "EMBRYO"

(* The threads of s that are in its tcount. *)
Counted(s) == {q \in Threads(s) : \A r \in Slots : pc[r] = "count" => np[r] # q}

FamilyInv == ThreadInv /\ ForkInv /\ PgdirInv /\ JoinInv /\ TcountExact

-----------------------------------------------------------------------------
(* A thread has no threads, nor has a slot that no process lives in. *)
LEMMA NoThreads ==
  ASSUME ThreadInv, TcountExact, NEW q \in Slots,
         proc[q].state \notin Live \/ proc[q].type = 1
  PROVE  Threads(q) = {} /\ proc[q].tcount = 0
<1>1. Threads(q) = {}
  BY DEF Threads, ThreadInv
<1>2. Counted(q) = {}
  BY <1>1 DEF Counted
<1> QED BY <1>1, <1>2, FS_EmptySet DEF TcountExact, Counted

(* There are NPROC slots, *)
LEMMA SlotsFinite == IsFiniteSet(Slots) /\ Cardinality(Slots) = NPROC
BY LifeAssumption, FS_Interval DEF Slots

(* so no process has more threads than that. *)
LEMMA ThreadsFinite ==
  ASSUME NEW s \in Slots
  PROVE  /\ IsFiniteSet(Counted(s)) /\ Cardinality(Counted(s)) \in Nat
         /\ Cardinality(Counted(s)) <= NPROC
<1>1. Counted(s) \in SUBSET Slots
  BY DEF Counted, Threads
<1>2. IsFiniteSet(Counted(s)) /\ Cardinality(Counted(s)) <= NPROC
  BY <1>1, SlotsFinite, FS_Subset
<1> QED BY <1>2, FS_CardinalityType

(* exit() that finds tcount 0 leaves no thread behind. *)
LEMMA LastThread ==
  ASSUME ForkInv, TcountExact, NEW s \in Slots, pc[s] # "count", proc[s].tcount = 0
  PROVE  Threads(s) = {}
<1>1. Cardinality(Counted(s)) = 0
  BY DEF TcountExact, Counted
<1>2. Counted(s) = {}
  BY <1>1, ThreadsFinite, FS_EmptySet
<1>3. \A r \in Slots : pc[r] = "count" => proc[np[r]].parent = r
  BY DEF ForkInv
<1> QED BY <1>2, <1>3 DEF Counted, Threads

(* A step that changes neither tcount nor what it counts. *)
LEMMA TcountKept ==
  ASSUME TcountExact,
         \A s \in Slots : proc'[s].tcount = proc[s].tcount /\ Counted(s)' = Counted(s)
  PROVE  TcountExact'
BY DEF TcountExact, Counted

(* Who joins a thread. *)
Joins(s) == pc[s] = "fetch" \/ (pc[s] = "wait" /\ tid[s] # 0)

(* Most steps leave the families as they are, but for a proc that exits     *)
(* without threads, and start no fork. *)
FamilyStep ==
  /\ spaces' = spaces /\ nextpid' = nextpid
  /\ \A x \in Slots :
       /\ proc'[x].type = proc[x].type /\ proc'[x].pid = proc[x].pid
       /\ proc'[x].tcount = proc[x].tcount
       /\ proc[x].type = 1 => proc'[x].parent = proc[x].parent
       /\ \/ proc'[x].state = proc[x].state
          \/ proc[x].state \in Live /\ proc'[x].state \in Live
          \/ proc[x].state \in Live /\ proc'[x].state = "ZOMBIE" /\ Threads(x) = {}
       /\ \/ proc'[x].state = "ZOMBIE" /\ proc[x].type = 1
          \/ proc'[x].pgdir = proc[x].pgdir
       /\ pc'[x] # "user" => proc'[x].state \in Live
       /\ pc[x] \in Forking => pc'[x] = pc[x] /\ np'[x] = np[x] /\ reg'[x] = reg[x]
       /\ pc[x] \notin Forking => pc'[x] \notin Forking

(* A step that starts no join. *)
JoinStep ==
  \A s \in Slots : Joins(s)' => Joins(s) /\ tid'[s] = tid[s]

(* Such a step keeps all but JoinInv, *)
LEMMA FamilyKept ==
  ASSUME LifeInv, FamilyInv, FamilyStep
  PROVE  ThreadInv' /\ ForkInv' /\ PgdirInv' /\ TcountExact'
<1>0. LifeType /\ EmbryoInv /\ ThreadInv /\ ForkInv /\ PgdirInv /\ TcountExact
  BY DEF LifeInv, FamilyInv
<1>1. ThreadInv'
  <2> SUFFICES ASSUME NEW q \in Slots, proc'[q].type = 1
               PROVE  /\ proc'[q].state # "UNUSED" /\ proc'[q].parent \in Slots
                      /\ proc'[proc'[q].parent].type = 0
                      /\ proc'[proc'[q].parent].state \in Live
                      /\ proc'[q].state # "ZOMBIE" => proc'[q].pgdir = proc'[proc'[q].parent].pgdir
    BY DEF ThreadInv
  <2> DEFINE p == proc[q].parent
  <2>1. /\ proc[q].type = 1 /\ p \in Slots /\ proc'[q].parent = p /\ q \in Threads(p)
        /\ proc[q].state # "UNUSED" /\ proc[p].type = 0 /\ proc[p].state \in Live
        /\ proc[q].state # "ZOMBIE" => proc[q].pgdir = proc[p].pgdir
    BY <1>0 DEF FamilyStep, ThreadInv, Threads
  <2> HIDE DEF p
  <2>2. proc'[p].type = 0 /\ proc'[p].state \in Live /\ proc'[p].pgdir = proc[p].pgdir
    BY <2>1 DEF FamilyStep
  <2> QED BY <2>1, <2>2 DEF FamilyStep, Live
<1>2. ForkInv'
  <2> SUFFICES ASSUME NEW s \in Slots
               PROVE  /\ pc'[s] # "user" => proc'[s].state \in Live
                      /\ pc'[s] \in {"process", "thread", "detached"} => proc'[np'[s]].type = 0
                      /\ pc'[s] \in {"thread", "detached", "count"} => proc'[s].type = 0
                      /\ pc'[s] = "count" => /\ proc'[np'[s]].type = 1 /\ proc'[np'[s]].parent = s
                                             /\ reg'[s] = proc'[s].tcount
                      /\ pc'[s] = "publish" /\ proc'[np'[s]].type = 0 =>
                           /\ proc'[np'[s]].pgdir = proc'[np'[s]].pid
                           /\ proc'[np'[s]].pid \in spaces'
    BY DEF ForkInv
  <2>1. CASE pc[s] \notin Forking
    BY <2>1 DEF FamilyStep, Forking
  <2>2. CASE pc[s] \in Forking
    <3>1. np[s] \in Slots /\ proc[np[s]].state = "EMBRYO"
      BY <1>0, <2>2 DEF EmbryoInv
    <3>2. /\ pc'[s] = pc[s] /\ np'[s] = np[s] /\ reg'[s] = reg[s]
          /\ proc'[np[s]].state = "EMBRYO"
      BY <2>2, <3>1 DEF FamilyStep, Live
    <3> QED BY <1>0, <3>1, <3>2 DEF FamilyStep, ForkInv
  <2> QED BY <2>1, <2>2
<1>3. PgdirInv'
  BY <1>0 DEF FamilyStep, PgdirInv, Live
<1>4. TcountExact'
  <2>1. \A s \in Slots : Threads(s)' = Threads(s)
    <3>1. \A x \in Slots : /\ proc'[x].type = proc[x].type
                           /\ proc[x].type = 1 => proc'[x].parent = proc[x].parent
      BY DEF FamilyStep
    <3> QED BY <3>1 DEF Threads
  <2>2. \A r \in Slots : /\ pc'[r] = "count" <=> pc[r] = "count"
                         /\ pc[r] = "count" => np'[r] = np[r]
    BY DEF FamilyStep, Forking
  <2>3. \A s \in Slots : Counted(s)' = Counted(s)
    BY <2>1, <2>2 DEF Counted
  <2> QED BY <1>0, <2>3, TcountKept DEF FamilyStep
<1> QED BY <1>1, <1>2, <1>3, <1>4

(* and that one too if it starts no join. *)
LEMMA JoinKept ==
  ASSUME JoinInv, FamilyStep, JoinStep
  PROVE  JoinInv'
<1> SUFFICES ASSUME NEW s \in Slots, Joins(s)'
             PROVE  /\ tid'[s] < nextpid'
                    /\ \A q \in Slots : proc'[q].pid = tid'[s] /\ proc'[q].state # "UNUSED" =>
                         /\ proc'[q].type = 1 /\ proc'[q].parent = s
                         /\ proc'[q].state # "EMBRYO"
  BY DEF JoinInv, Joins
<1>1. Joins(s) /\ tid'[s] = tid[s]
  BY DEF JoinStep
<1> QED BY <1>1 DEF FamilyStep, JoinInv, Joins, Live

-----------------------------------------------------------------------------
(* What the helpers that rewrite the table do to the families: only a       *)
(* thread s that exits may lose its page directory. *)
Alike(P, Q, s) ==
  \A x \in Slots :
    /\ Q[x].type = P[x].type /\ Q[x].tcount = P[x].tcount
    /\ P[x].type = 1 => Q[x].parent = P[x].parent
    /\ (x = s /\ P[x].type = 1) \/ Q[x].pgdir = P[x].pgdir

LEMMA WakeupAlike ==
  ASSUME NEW P \in [Slots -> ProcType], NEW q, NEW s
  PROVE  Alike(P, Wakeup1(P, q), s)
BY DEF Alike, Wakeup1, ProcType

LEMMA DisownedAlike ==
  ASSUME LifeType, NEW s \in Slots
  PROVE  Alike(proc, Disowned(s), s)
<1> DEFINE kids == {q \in Slots : proc[q].type # 1 /\ proc[q].parent = s}
           P == [q \in Slots |-> IF q \in kids
                                   THEN [proc[q] EXCEPT !.parent = initproc]
                                   ELSE proc[q]]
<1>1. P \in [Slots -> ProcType] /\ Alike(proc, P, s)
  BY SlotsNat DEF LifeType, ProcType, Alike
<1>2. Alike(P, Wakeup1(P, initproc), s)
  BY <1>1, WakeupAlike
<1>3. Reparented(s) \in {P, Wakeup1(P, initproc)}
  BY DEF Reparented
<1> HIDE DEF P
<1>4. Alike(proc, Reparented(s), s)
  BY <1>1, <1>2, <1>3 DEF Alike
<1>5. proc[s].type # 0 => Alike(proc, [proc EXCEPT ![s].pgdir = 0], s)
  BY DEF Alike, LifeType, ProcType
<1>6. Alike(proc, proc, s)
  BY DEF Alike
<1> QED BY <1>4, <1>5, <1>6 DEF Disowned

LEMMA ZombieAlike ==
  ASSUME NEW P \in [Slots -> ProcType], NEW s \in Slots, Alike(proc, P, s)
  PROVE  Alike(proc, Zombie(P, s), s)
<1> DEFINE Q == Wakeup1(P, P[s].parent)
<1>1. Alike(P, Q, s) /\ Woken(P, Q)
  BY WakeupAlike, WakeupFrame
<1>2. Zombie(P, s) = [Q EXCEPT ![s].state = "ZOMBIE"]
  BY DEF Zombie
<1> HIDE DEF Q
<1>3. Q \in [Slots -> ProcType]
  BY <1>1 DEF Woken
<1>4. Alike(Q, Zombie(P, s), s)
  BY <1>2, <1>3 DEF Alike, ProcType
<1> QED BY <1>1, <1>4 DEF Alike

(* exit(), up to the end or to its loop. *)
LEMMA ExitFamily ==
  ASSUME LifeInv, FamilyInv, NEW s \in Slots, Exit(s) \/ ExitCheck(s)
  PROVE  FamilyStep /\ JoinStep
<1>0. LifeType /\ ThreadInv /\ ForkInv /\ TcountExact
  BY DEF LifeInv, FamilyInv
<1>1. /\ UNCHANGED <<nextpid, spaces, tid, np, reg>>
      /\ proc[s].state = "RUNNABLE" /\ pc[s] \in {"user", "check"}
  BY DEF Exit, ExitCheck, Runs, locals
<1>2. PICK P : /\ Woken(proc, P) /\ Alike(proc, P, s)
               /\ \/ /\ proc[s].tcount = 0 /\ proc' = Zombie(P, s)
                     /\ pc' = [pc EXCEPT ![s] = "user"]
                  \/ /\ proc[s].tcount # 0 /\ proc' = P
                     /\ pc' = [pc EXCEPT ![s] = "cleanup"]
  <2>1. CASE Exit(s)
    <3>1. Woken(proc, Disowned(s)) /\ Alike(proc, Disowned(s), s)
      BY <1>0, DisownedFrame, DisownedAlike
    <3>2. pc = [pc EXCEPT ![s] = "user"]
      BY <1>0, <2>1 DEF Exit, LifeType
    <3> QED BY <2>1, <3>1, <3>2 DEF Exit
  <2>2. CASE ExitCheck(s)
    <3>1. Woken(proc, proc) /\ Alike(proc, proc, s)
      BY <1>0 DEF Woken, Alike, LifeType
    <3> QED BY <2>2, <3>1 DEF ExitCheck
  <2> QED BY <2>1, <2>2
<1>3. \A x \in Slots : pc[x] # "user" => proc[x].state \in Live
  BY <1>0 DEF ForkInv
<1>4. JoinStep
  BY <1>0, <1>1, <1>2 DEF JoinStep, Joins, LifeType
<1>5. \A x \in Slots : x # s => pc'[x] = pc[x]
  BY <1>0, <1>2 DEF LifeType
<1>6. pc'[s] \in {"user", "cleanup"} /\ pc[s] \notin Forking
  BY <1>0, <1>1, <1>2 DEF LifeType, Forking
<1>7. CASE proc[s].tcount = 0
  <2>1. Threads(s) = {}
    BY <1>0, <1>1, <1>7, LastThread
  <2>2. proc' = Zombie(P, s) /\ pc'[s] = "user"
    BY <1>0, <1>2, <1>7 DEF LifeType
  <2>3. Alike(proc, proc', s)
    BY <1>2, <2>2, ZombieAlike DEF Woken
  <2>4. /\ proc'[s].pid = proc[s].pid /\ proc'[s].state = "ZOMBIE"
        /\ \A x \in Slots \ {s} :
             /\ proc'[x].pid = proc[x].pid
             /\ \/ proc'[x].state = proc[x].state
                \/ proc[x].state = "SLEEPING" /\ proc'[x].state = "RUNNABLE"
    <3>1. Woken(proc, P) /\ proc[s].state = "RUNNABLE"
      BY <1>1, <1>2
    <3>2. /\ Zombie(P, s)[s].pid = proc[s].pid /\ Zombie(P, s)[s].state = "ZOMBIE"
          /\ \A x \in Slots \ {s} :
               /\ Zombie(P, s)[x].pid = proc[x].pid
               /\ \/ Zombie(P, s)[x].state = proc[x].state
                  \/ proc[x].state = "SLEEPING" /\ Zombie(P, s)[x].state = "RUNNABLE"
      BY <1>0, <3>1, ZombieFrame
    <3> QED BY <2>2, <3>2
  <2>5. ASSUME NEW x \in Slots
        PROVE  /\ \/ proc'[x].state = proc[x].state
                  \/ proc[x].state \in Live /\ proc'[x].state \in Live
                  \/ proc[x].state \in Live /\ proc'[x].state = "ZOMBIE" /\ Threads(x) = {}
               /\ pc'[x] # "user" => proc'[x].state \in Live
    BY <1>1, <1>3, <1>5, <2>1, <2>2, <2>4 DEF Live
  <2> QED BY <1>1, <1>4, <1>5, <1>6, <2>3, <2>4, <2>5 DEF FamilyStep, Alike, Forking
<1>8. CASE proc[s].tcount # 0
  <2>1. proc[s].type = 0
    BY <1>0, <1>8, NoThreads DEF LifeType, ProcType
  <2>2. proc' = P
    BY <1>2, <1>8
  <2>3. ASSUME NEW x \in Slots
        PROVE  /\ proc'[x].pid = proc[x].pid
               /\ \/ proc'[x].state = proc[x].state
                  \/ proc[x].state \in Live /\ proc'[x].state \in Live
               /\ pc'[x] # "user" => proc'[x].state \in Live
    BY <1>1, <1>2, <1>3, <1>5, <2>2 DEF Live, Woken
  <2>4. Alike(proc, proc', s)
    BY <1>2, <2>2
  <2> QED BY <1>1, <1>4, <1>5, <1>6, <2>1, <2>3, <2>4 DEF FamilyStep, Alike, Forking
<1> QED BY <1>7, <1>8

(* The steps that leave the table alone, or change one field that no family *)
(* depends on. *)
LEMMA IdleFamily ==
  ASSUME FamilyInv, UNCHANGED <<spaces, nextpid>>,
         \A x \in Slots :
           /\ proc'[x].type = proc[x].type /\ proc'[x].pid = proc[x].pid
           /\ proc'[x].tcount = proc[x].tcount /\ proc'[x].parent = proc[x].parent
           /\ proc'[x].pgdir = proc[x].pgdir
           /\ \/ proc'[x].state = proc[x].state
              \/ proc[x].state \in Live /\ proc'[x].state \in Live
           /\ \/ pc'[x] = pc[x] /\ np'[x] = np[x] /\ reg'[x] = reg[x]
              \/ /\ pc[x] \notin Forking /\ pc'[x] \notin Forking
                 /\ pc'[x] # "user" => proc[x].state \in Live
  PROVE  FamilyStep
<1>1. \A x \in Slots : pc[x] # "user" => proc[x].state \in Live
  BY DEF FamilyInv, ForkInv
<1>2. \A x \in Slots : pc'[x] # "user" => proc'[x].state \in Live
  BY <1>1
<1> QED BY <1>2 DEF FamilyStep

(* wait() that frees nothing, kill() and the panic. *)
LEMMA WaitFamily ==
  ASSUME LifeInv, FamilyInv, NEW s \in Slots,
         WaitThread(s) \/ WaitFail(s) \/ WaitSleep(s) \/ Kill(s) \/ SwitchPanic(s)
  PROVE  FamilyStep /\ JoinStep
<1>0. LifeType
  BY DEF LifeInv
<1>1. CASE WaitThread(s) \/ WaitFail(s) \/ SwitchPanic(s)
  <2>1. /\ UNCHANGED <<proc, spaces, nextpid>> /\ pc[s] \notin Forking
        /\ proc[s].state = "RUNNABLE" /\ pc'[s] \notin Forking
        /\ \A x \in Slots \ {s} : pc'[x] = pc[x] /\ np'[x] = np[x] /\ reg'[x] = reg[x]
    BY <1>0, <1>1 DEF WaitThread, WaitFail, SwitchPanic, Runs, Return, locals, LifeType, Forking
  <2>2. FamilyStep
    BY <2>1, IdleFamily DEF Live
  <2>3. JoinStep
    BY <1>0, <1>1 DEF WaitThread, WaitFail, SwitchPanic, Return, locals, LifeType, JoinStep, Joins
  <2> QED BY <2>2, <2>3
<1>2. CASE WaitSleep(s) \/ Kill(s)
  <2>1. UNCHANGED <<spaces, nextpid, pc, tid, np, reg>>
    BY <1>2 DEF WaitSleep, Kill, locals
  <2>2. PICK st \in Live, k \in {0, 1} :
          /\ proc' = [proc EXCEPT ![s].killed = k, ![s].state = st]
          /\ proc[s].state \in Live
    <3>1. CASE WaitSleep(s)
      <4>1. proc[s].state = "RUNNABLE" /\ proc[s].killed = 0 /\ proc[s] \in ProcType
            /\ proc' = [proc EXCEPT ![s].state = "SLEEPING"]
        BY <1>0, <3>1 DEF WaitSleep, Runs, LifeType
      <4>2. [proc EXCEPT ![s].killed = 0] = proc
        BY <1>0, <4>1 DEF LifeType, ProcType
      <4> QED BY <4>1, <4>2 DEF Live
    <3>2. CASE Kill(s)
      BY <3>2 DEF Kill, Live
    <3> QED BY <1>2, <3>1, <3>2
  <2>3. \A x \in Slots :
          /\ proc'[x].type = proc[x].type /\ proc'[x].pid = proc[x].pid
          /\ proc'[x].tcount = proc[x].tcount /\ proc'[x].parent = proc[x].parent
          /\ proc'[x].pgdir = proc[x].pgdir
          /\ \/ proc'[x].state = proc[x].state
             \/ proc[x].state \in Live /\ proc'[x].state \in Live
    BY <1>0, <2>2 DEF LifeType, ProcType
  <2>4. FamilyStep
    BY <2>1, <2>3, IdleFamily
  <2> QED BY <2>1, <2>4 DEF JoinStep, Joins
<1> QED BY <1>1, <1>2

(* A join is of a thread of the caller. *)
LEMMA WaitCallFamily ==
  ASSUME ~SiblingJoin, LifeInv, FamilyInv, NEW s \in Slots, NEW t \in 0..MaxPid, WaitCall(s, t)
  PROVE  FamilyInv'
<1>0. LifeType /\ PidInv /\ PidsUnique /\ JoinInv
  BY DEF LifeInv, FamilyInv
<1>1. /\ UNCHANGED <<proc, spaces, nextpid, np, reg>> /\ pc[s] = "user"
      /\ proc[s].state = "RUNNABLE" /\ pc'[s] = "wait" /\ tid'[s] = t
      /\ \A x \in Slots \ {s} : pc'[x] = pc[x] /\ tid'[x] = tid[x]
  BY <1>0 DEF WaitCall, InUser, Runs, LifeType
<1>2. FamilyStep
  BY <1>1, IdleFamily DEF Live, Forking
<1>3. t # 0 => \E q \in Slots : /\ proc[q].type = 1 /\ proc[q].pid = t /\ proc[q].parent = s
                                /\ proc[q].state \notin {"UNUSED", "EMBRYO"}
  <2>1. t # 0 => proc[s].type = 0
    BY DEF WaitCall
  <2>2. t # 0 => \E q \in Slots \ {s} :
                   /\ proc[q].type = 1 /\ proc[q].pid = t
                   /\ proc[q].state \notin {"UNUSED", "EMBRYO"}
                   /\ proc[q].parent = IF proc[s].type = 1 THEN proc[s].parent ELSE s
    BY Zenon DEF WaitCall
  <2> QED BY <2>1, <2>2
<1>4. t # 0 => /\ t < nextpid
               /\ \A q \in Slots : proc[q].pid = t /\ proc[q].state # "UNUSED" =>
                    proc[q].type = 1 /\ proc[q].parent = s /\ proc[q].state # "EMBRYO"
  BY <1>0, <1>3 DEF PidInv, PidsUnique
<1>5. JoinInv'
  <2>1. UNCHANGED <<proc, nextpid>>
    BY <1>1
  <2>2. \A x \in Slots : Joins(x)' => (x = s /\ t # 0 /\ tid'[x] = t) \/ (Joins(x) /\ tid'[x] = tid[x])
    BY <1>1 DEF Joins
  <2>3. ASSUME NEW x \in Slots, Joins(x)'
        PROVE  /\ tid'[x] < nextpid
               /\ \A q \in Slots : proc[q].pid = tid'[x] /\ proc[q].state # "UNUSED" =>
                    proc[q].type = 1 /\ proc[q].parent = x /\ proc[q].state # "EMBRYO"
    <3>1. CASE Joins(x) /\ tid'[x] = tid[x]
      BY <1>0, <3>1 DEF JoinInv, Joins
    <3>2. CASE x = s /\ t # 0 /\ tid'[x] = t
      BY <1>4, <3>2
    <3> QED BY <2>2, <2>3, <3>1, <3>2
  <2> QED BY <2>1, <2>3 DEF JoinInv, Joins
<1> QED BY <1>2, <1>5, FamilyKept DEF FamilyInv
=============================================================================
