-------------------------------- MODULE Cpu --------------------------------
(***************************************************************************)
(* Processors, interrupts, spin locks, the scheduler and the console:      *)
(* spinlock.c, trap.c, scheduler, sched, yield, sleep, wakeup, kill and    *)
(* forkret of proc.c, consoleintr, consoleread and consolewrite of         *)
(* console.c, sys_sleep of sysproc.c.                                      *)
(*                                                                         *)
(* What a processor still has to execute is the sequence run[c].todo of    *)
(* instructions <<operation, argument, ...>>; swtch exchanges it with the  *)
(* one saved for a process or for the scheduler, and an interrupt puts its *)
(* handler in front.  A process whose sequence is empty is in user space.  *)
(***************************************************************************)
EXTENDS Integers, Sequences, FiniteSets, FiniteSetsExt

CONSTANTS
  NCPU, NPROC,   \* processors and processes
  INPUT_BUF,     \* size of the console's ring
  UintMod,       \* 2^w, w the width of ticks and of the ring's indices
  Keys,          \* what is typed: "a" for any letter, "nl", "^D", "^H", "^U", "^P"
  Calls,         \* what each process calls: <<"read", n>>, <<"sleep", n>>,
                 \* <<"kill", p>>, <<"write">>
  Start,         \* ticks and the ring's indices when the model starts
  MaxCalls, MaxIrqs   \* bounds: calls each process makes, interrupts taken

ASSUME CpuAssumption ==
  /\ {NCPU, NPROC, INPUT_BUF} \subseteq Nat \ {0}
  /\ UintMod \in Nat /\ UintMod > INPUT_BUF /\ UintMod % INPUT_BUF = 0
  /\ Keys \subseteq {"a", "nl", "^D", "^H", "^U", "^P"}
  /\ Start \in 0..(UintMod - 1) /\ MaxIrqs \in Nat
  /\ MaxCalls \in [1..NPROC -> Nat]

Cpus  == 1..NCPU
Procs == 1..NPROC
Locks == {"ptable", "input", "ticks", "cons"}
Boot  == 1       \* counts the ticks and gets the keyboard's interrupts

VARIABLES
  run,       \* struct cpu: proc (0 for the scheduler), ncli, intena, the interrupt flag,
             \* how far the scheduler is in its table, and todo
  lock,      \* the processor that holds each lock, 0 for none
  proc,      \* struct proc: state, chan, killed, the saved todo and intena
  ticks,
  buf, r, w, e,   \* input
  due,       \* history: what was committed and is not yet read
  calls, irqs, panicked

ring == <<buf, r, w, e, due>>
count == <<calls, irqs>>
vars == <<run, lock, proc, ticks, ring, count, panicked>>

-----------------------------------------------------------------------------
(* The instructions of calls and handlers. *)
Acquire(l) == <<"acquire", l>>
Release(l) == <<"release", l>>

Wakeup(chan) == <<Acquire("ptable"), <<"wakeup1", chan>>, Release("ptable")>>

(* Mutant of Sleep: the lock is given up before ptable.lock is taken. *)
SleepUnlocked(chan, lk) ==
  <<Release(lk), Acquire("ptable"), <<"sched", "SLEEPING", chan>>,
    Release("ptable"), Acquire(lk)>>

(* sleep takes ptable.lock before it gives up lk. *)
Sleep(chan, lk) ==
  <<Acquire("ptable"), Release(lk), <<"sched", "SLEEPING", chan>>,
    Release("ptable"), Acquire(lk)>>

Yield  == <<Acquire("ptable"), <<"sched", "RUNNABLE", 0>>, Release("ptable")>>
Exit   == <<Acquire("ptable"), <<"sched", "ZOMBIE", 0>>>>
Round  == <<<<"sti">>, <<"acquire", "ptable", "round">>, <<"scan">>>>
Forkret == <<Release("ptable"), <<"trapret">>>>

(* consolewrite, and cprintf, which procdump calls for ^P, hold cons.lock. *)
ConsoleWrite == <<Acquire("cons"), Release("cons")>>
Cprintf      == <<Acquire("cons"), Release("cons")>>
Procdump     == Cprintf

Handler(name) ==
  CASE name = "tick" -> <<Acquire("ticks"), <<"tick">>>> \o Wakeup("ticks")
                          \o <<Release("ticks")>>
    [] name = "timer" -> <<>>
    [] name = "kbd" -> <<Acquire("input"), <<"getc">>, Release("input")>>

Body(call) ==
  CASE call[1] = "read" -> <<Acquire("input"), <<"read", call[2], 0>>, Release("input")>>
    [] call[1] = "sleep" -> <<Acquire("ticks"), <<"sleep", call[2], -1>>, Release("ticks")>>
    [] call[1] = "kill" -> <<Acquire("ptable"), <<"kill", call[2]>>, Release("ptable")>>
    [] call[1] = "write" -> ConsoleWrite

Init ==
  /\ run = [c \in Cpus |-> [proc |-> 0, ncli |-> 0, intena |-> 0, flag |-> 0,
                            scan |-> 1, todo |-> Round]]
  /\ lock = [l \in Locks |-> 0]
  /\ proc = [p \in Procs |-> [state |-> "RUNNABLE", chan |-> 0, killed |-> 0,
                              saved |-> Forkret, intena |-> -1]]
  /\ ticks = Start
  /\ buf = [i \in 0..(INPUT_BUF - 1) |-> "a"]
  /\ r = Start /\ w = Start /\ e = Start
  /\ due = <<>>
  /\ calls = [p \in Procs |-> 0] /\ irqs = 0
  /\ panicked = "no"

-----------------------------------------------------------------------------
Me(c) == proc[run[c].proc]

(* c is about to execute op; the sequence after it. *)
At(c, op) == panicked = "no" /\ run[c].todo # <<>> /\ Head(run[c].todo)[1] = op
Arg(c, i) == Head(run[c].todo)[i]
Then(c)   == Tail(run[c].todo)

Goto(c, todo) == run' = [run EXCEPT ![c].todo = todo]

Panic(what) == panicked' = what /\ UNCHANGED <<run, lock, proc, ticks, ring, count>>

holding(c, l) == lock[l] = c

(* Mutant of Pushcli: the outer state of the interrupts is forgotten. *)
PushcliNested(c) == [run[c] EXCEPT !.flag = 0, !.ncli = @ + 1, !.intena = run[c].flag]

(* Mutant of Pushcli: interrupts stay on. *)
PushcliOpen(c) == [run[c] EXCEPT !.ncli = @ + 1, !.intena = run[c].flag]

(* pushcli: interrupts off, and the state they were in remembered. *)
Pushcli(c) ==
  [run[c] EXCEPT !.flag = 0, !.ncli = @ + 1,
                 !.intena = IF run[c].ncli = 0 THEN run[c].flag ELSE @]

(* acquire: a lock that is not free is waited for, interrupts off.  Rounds   *)
(* of the scheduler that would find nothing to run are left out. *)
AcquireLock(c) ==
  LET l == Arg(c, 2) IN
  /\ At(c, "acquire")
  /\ Len(Head(run[c].todo)) = 3 => \E p \in Procs : proc[p].state = "RUNNABLE"
  /\ IF holding(c, l) THEN Panic("acquire")
     ELSE /\ lock' = [lock EXCEPT ![l] = IF @ = 0 THEN c ELSE @]
          /\ run' = [run EXCEPT ![c] = [Pushcli(c) EXCEPT
                 !.todo = IF lock[l] = 0 THEN Then(c) ELSE <<<<"spin", l>>>> \o Then(c)]]
          /\ UNCHANGED <<proc, ticks, ring, count, panicked>>

(* The spin on xchg ends. *)
Spin(c) ==
  /\ At(c, "spin") /\ lock[Arg(c, 2)] = 0
  /\ lock' = [lock EXCEPT ![Arg(c, 2)] = c]
  /\ Goto(c, Then(c))
  /\ UNCHANGED <<proc, ticks, ring, count, panicked>>

(* popcli; intena means nothing while ncli is 0. *)
Popcli(c) ==
  [run[c] EXCEPT !.ncli = @ - 1,
                 !.flag = IF run[c].ncli = 1 /\ run[c].intena = 1 THEN 1 ELSE 0,
                 !.intena = IF run[c].ncli = 1 THEN 0 ELSE @]

(* release, with the panics of popcli. *)
ReleaseLock(c) ==
  /\ At(c, "release")
  /\ IF ~holding(c, Arg(c, 2)) THEN Panic("release")
     ELSE IF run[c].flag = 1 THEN Panic("popcli - interruptible")
     ELSE IF run[c].ncli = 0 THEN Panic("popcli")
     ELSE /\ lock' = [lock EXCEPT ![Arg(c, 2)] = 0]
          /\ run' = [run EXCEPT ![c] = [Popcli(c) EXCEPT !.todo = Then(c)]]
          /\ UNCHANGED <<proc, ticks, ring, count, panicked>>

-----------------------------------------------------------------------------
(* The scheduler turns interrupts on, *)
Sti(c) ==
  /\ At(c, "sti")
  /\ run' = [run EXCEPT ![c].flag = 1, ![c].scan = 1, ![c].todo = Then(c)]
  /\ UNCHANGED <<lock, proc, ticks, ring, count, panicked>>

(* looks for the next RUNNABLE process and switches to it, which goes on in  *)
(* forkret or at the end of sched (and tidies chan); or begins a new round. *)
Scan(c) ==
  LET ready == {p \in run[c].scan..NPROC : proc[p].state = "RUNNABLE"}
      p     == Min(ready)
  IN
  /\ At(c, "scan")
  /\ IF ready = {}
       THEN Goto(c, <<Release("ptable")>> \o Round) /\ UNCHANGED proc
       ELSE /\ run' = [run EXCEPT ![c].proc = p, ![c].scan = p + 1,
                         ![c].todo = proc[p].saved,
                         ![c].intena = IF proc[p].intena = -1 THEN @ ELSE proc[p].intena]
            /\ proc' = [proc EXCEPT ![p] =
                 [@ EXCEPT !.state = "RUNNING", !.chan = 0, !.saved = <<>>, !.intena = -1]]
  /\ UNCHANGED <<lock, ticks, ring, count, panicked>>

(* sched, with the new state (and chan) its callers have just set. *)
Sched(c) ==
  LET p == run[c].proc IN
  /\ At(c, "sched")
  /\ IF ~holding(c, "ptable") THEN Panic("sched ptable.lock")
     ELSE IF run[c].ncli # 1 THEN Panic("sched locks")
     ELSE IF run[c].flag = 1 THEN Panic("sched interruptible")
     ELSE /\ proc' = [proc EXCEPT ![p] =
                        [@ EXCEPT !.state = Arg(c, 2), !.chan = Arg(c, 3),
                                  !.saved = Then(c), !.intena = run[c].intena]]
          /\ run' = [run EXCEPT ![c].proc = 0, ![c].todo = <<<<"scan">>>>]
          /\ UNCHANGED <<lock, ticks, ring, count, panicked>>

(* The way back to user space restores the interrupt flag. *)
Trapret(c) ==
  /\ At(c, "trapret") \/ At(c, "iret")
  /\ run' = [run EXCEPT ![c].flag = 1, ![c].todo = Then(c)]
  /\ UNCHANGED <<lock, proc, ticks, ring, count, panicked>>

Wakeup1(c) ==
  /\ At(c, "wakeup1")
  /\ proc' = [p \in Procs |-> IF proc[p].state = "SLEEPING" /\ proc[p].chan = Arg(c, 2)
                                THEN [proc[p] EXCEPT !.state = "RUNNABLE"] ELSE proc[p]]
  /\ Goto(c, Then(c))
  /\ UNCHANGED <<lock, ticks, ring, count, panicked>>

(* Mutant of Kill: it makes any process RUNNABLE. *)
KillAlways(c) ==
  /\ At(c, "kill")
  /\ proc' = [proc EXCEPT ![Arg(c, 2)].killed = 1, ![Arg(c, 2)].state = "RUNNABLE"]
  /\ Goto(c, Then(c))
  /\ UNCHANGED <<lock, ticks, ring, count, panicked>>

Kill(c) ==
  LET q == Arg(c, 2) IN
  /\ At(c, "kill")
  /\ proc' = [proc EXCEPT ![q].killed = 1,
                ![q].state = IF @ = "SLEEPING" THEN "RUNNABLE" ELSE @]
  /\ Goto(c, Then(c))
  /\ UNCHANGED <<lock, ticks, ring, count, panicked>>

-----------------------------------------------------------------------------
(* A program makes a system call, interrupts on; trap sends a killed one to  *)
(* exit, before the call and after it. *)
Syscall(c, call) ==
  /\ panicked = "no" /\ run[c].proc # 0 /\ run[c].todo = <<>>
  /\ calls[run[c].proc] < MaxCalls[run[c].proc]
  /\ calls' = [calls EXCEPT ![run[c].proc] = @ + 1]
  /\ Goto(c, IF Me(c).killed = 1 THEN Exit ELSE Body(call) \o <<<<"killed?">>>>)
  /\ UNCHANGED <<lock, proc, ticks, ring, irqs, panicked>>

(* An interrupt: the handler, the killed process that was in user space      *)
(* leaves, on a clock tick the processor is given up. *)
Interrupt(c, name) ==
  LET user  == run[c].proc # 0 /\ run[c].todo = <<>>
      check == IF user THEN <<<<"killed?">>>> ELSE <<>>
      tick  == IF name \in {"tick", "timer"} THEN <<<<"yield?">>>> ELSE <<>>
  IN
  /\ panicked = "no" /\ run[c].flag = 1
  /\ irqs < MaxIrqs /\ irqs' = irqs + 1
  /\ IF c = Boot THEN name \in {"tick", "kbd"} ELSE name = "timer"
  /\ run' = [run EXCEPT ![c].flag = 0,
               ![c].todo = Handler(name) \o check \o tick \o check \o <<<<"iret">>>> \o @]
  /\ UNCHANGED <<lock, proc, ticks, ring, calls, panicked>>

CheckKilled(c) ==
  /\ At(c, "killed?")
  /\ Goto(c, IF Me(c).killed = 1 THEN Exit ELSE Then(c))
  /\ UNCHANGED <<lock, proc, ticks, ring, count, panicked>>

CheckYield(c) ==
  /\ At(c, "yield?")
  /\ Goto(c, IF run[c].proc # 0 /\ Me(c).state = "RUNNING" THEN Yield \o Then(c)
             ELSE Then(c))
  /\ UNCHANGED <<lock, proc, ticks, ring, count, panicked>>

Tick(c) ==
  /\ At(c, "tick")
  /\ ticks' = (ticks + 1) % UintMod
  /\ Goto(c, Then(c))
  /\ UNCHANGED <<lock, proc, ring, count, panicked>>

(* sys_sleep, one turn of its loop; ticks0 is read before the first. *)
SysSleep(c) ==
  LET n  == Arg(c, 2)
      t0 == IF Arg(c, 3) = -1 THEN ticks ELSE Arg(c, 3)
  IN
  /\ At(c, "sleep")
  /\ Goto(c, IF (ticks - t0) % UintMod < n /\ Me(c).killed = 0
               THEN Sleep("ticks", "ticks") \o <<<<"sleep", n, t0>>>> \o Then(c)
               ELSE Then(c))
  /\ UNCHANGED <<lock, proc, ticks, ring, count, panicked>>

-----------------------------------------------------------------------------
Index(i) == i % INPUT_BUF
Add(i, n) == (i + n) % UintMod

(* consoleintr, one character c has got: ^H and ^U take back what is not    *)
(* committed (no newline lies there), ^P lists the processes with cprintf.  *)
EditKey(c, key) ==
  /\ key \in {"^H", "^U", "^P"}
  /\ e' = CASE key = "^H" /\ e # w -> Add(e, -1)
            [] key = "^U" -> w
            [] OTHER -> e
  /\ Goto(c, IF key = "^P" THEN Procdump \o Then(c) ELSE Then(c))
  /\ UNCHANGED <<lock, proc, ticks, buf, r, w, due, count, panicked>>

(* Mutant of Fits: one character too many. *)
FitsOver == (e - r) % UintMod <= INPUT_BUF

Fits == (e - r) % UintMod < INPUT_BUF

(* others are stored; the end of a line, ^D and a full ring commit. *)
TypeKey(c, key) ==
  LET new == [buf EXCEPT ![Index(e)] = key]
      end == Add(e, 1)
  IN
  /\ key \in {"a", "nl", "^D"}
  /\ IF ~Fits
       THEN Goto(c, Then(c)) /\ UNCHANGED <<buf, e, w, due>>
       ELSE /\ buf' = new
            /\ e' = end
            /\ IF key \in {"nl", "^D"} \/ end = Add(r, INPUT_BUF)
                 THEN /\ w' = end
                      /\ due' = due \o [i \in 1..((end - w) % UintMod) |->
                                          new[Index(Add(w, i - 1))]]
                      /\ Goto(c, Wakeup("input") \o Then(c))
                 ELSE Goto(c, Then(c)) /\ UNCHANGED <<w, due>>
  /\ UNCHANGED <<lock, proc, ticks, r, count, panicked>>

(* consoleread, one turn of its loop, n characters wanted and got so many.   *)
(* A ^D after others is left for the next read. *)
ConsoleRead(c) ==
  LET n   == Arg(c, 2)
      got == Arg(c, 3)
      ch  == buf[Index(r)]
      eof == ch = "^D"
  IN
  /\ At(c, "read")
  /\ IF n = 0 \/ (r # w /\ eof /\ got > 0)
       THEN Goto(c, Then(c)) /\ UNCHANGED <<r, due>>
     ELSE IF r = w
       THEN /\ Goto(c, IF Me(c).killed = 1 THEN Then(c)
                       ELSE Sleep("input", "input") \o run[c].todo)
            /\ UNCHANGED <<r, due>>
     ELSE /\ r' = Add(r, 1)
          /\ due' = Tail(due)
          /\ Goto(c, IF ch \in {"nl", "^D"} THEN Then(c)
                     ELSE <<<<"read", n - 1, got + 1>>>> \o Then(c))
  /\ UNCHANGED <<lock, proc, ticks, buf, w, e, count, panicked>>

-----------------------------------------------------------------------------
Step(c) ==
  \/ AcquireLock(c) \/ Spin(c) \/ ReleaseLock(c)
  \/ Sti(c) \/ Scan(c) \/ Sched(c) \/ Trapret(c) \/ Wakeup1(c) \/ Kill(c)
  \/ CheckKilled(c) \/ CheckYield(c)
  \/ Tick(c) \/ SysSleep(c)
  \/ At(c, "getc") /\ \E key \in Keys : EditKey(c, key) \/ TypeKey(c, key)
  \/ ConsoleRead(c)

Next ==
  \E c \in Cpus :
    \/ Step(c)
    \/ run[c].proc # 0 /\ \E call \in Calls[run[c].proc] : Syscall(c, call)
    \/ \E name \in {"tick", "timer", "kbd"} : Interrupt(c, name)

Spec == Init /\ [][Next]_vars

-----------------------------------------------------------------------------
Held(c)     == {l \in Locks : lock[l] = c}
Spinning(c) == run[c].todo # <<>> /\ Head(run[c].todo)[1] = "spin"
InHandler(c) == \E i \in DOMAIN run[c].todo : run[c].todo[i] = <<"iret">>

(* ncli counts the locks a processor holds or waits for, and interrupts are  *)
(* off as long as there is one and throughout a handler, although processes  *)
(* move between processors with ptable.lock held, each with its own intena;  *)
(* in user space they are on. *)
CliExact ==
  \A c \in Cpus :
    /\ run[c].ncli = Cardinality(Held(c)) + (IF Spinning(c) THEN 1 ELSE 0)
    /\ run[c].ncli > 0 \/ InHandler(c) => run[c].flag = 0
    /\ run[c].proc # 0 /\ run[c].todo = <<>> => run[c].flag = 1

(* No panic of acquire, release, popcli or sched is met, and the processors  *)
(* never wait for each other: whatever interrupts whom, some processor that  *)
(* spins is waiting for a lock whose holder goes on. *)
NoSpinDeadlock ==
  /\ panicked = "no"
  /\ \A S \in SUBSET Cpus \ {{}} :
       \E c \in S : Spinning(c) => lock[Head(run[c].todo)[2]] \notin S

(* A process runs on one processor at most, and its state says so: RUNNING   *)
(* if it is on one, and what is saved is where to go on if it is not. *)
RunningOnce ==
  /\ \A c, d \in Cpus : c # d /\ run[c].proc # 0 => run[c].proc # run[d].proc
  /\ \A p \in Procs :
       (proc[p].state = "RUNNING") <=> (\E c \in Cpus : run[c].proc = p)

(* Whoever has yet to call wakeup(chan). *)
WakeupAhead(chan) ==
  \E c \in Cpus : \E i \in DOMAIN run[c].todo : run[c].todo[i] = <<"wakeup1", chan>>

(* No process sleeps through what it waits for: none sleeps in consoleread   *)
(* while there is input, nor in sys_sleep when its time has come (the        *)
(* subtraction wraps), unless the wakeup is still to be made. *)
SleeperAwake ==
  \A p \in Procs : proc[p].state = "SLEEPING" =>
    \/ WakeupAhead(proc[p].chan)
    \/ proc[p].chan = "input" /\ r = w
    \/ /\ proc[p].chan = "ticks"
       /\ \E i \in DOMAIN proc[p].saved :
            /\ proc[p].saved[i][1] = "sleep"
            /\ (ticks - proc[p].saved[i][3]) % UintMod < proc[p].saved[i][2]

(* The console's ring, whose indices only grow, holds what was committed and *)
(* is not yet read, in order, up to its last place: consoleintr drops what   *)
(* does not fit, commits a full ring, and never overwrites. *)
InputIntact ==
  /\ due = [i \in 1..((w - r) % UintMod) |-> buf[Index(Add(r, i - 1))]]
  /\ (w - r) % UintMod <= (e - r) % UintMod /\ (e - r) % UintMod <= INPUT_BUF
=============================================================================
