------------------------------ MODULE Monitor ------------------------------
(***************************************************************************)
(* What the mutexes and condition variables of proc.c promise a program    *)
(* that signals with the mutex held: a mutex has one owner, a wait gives   *)
(* up the mutex and joins the waiters in one step, a signal takes one      *)
(* waiter out unless there is none, a broadcast takes out all of them, and *)
(* a thread taken out does nothing until it owns the mutex again.  A       *)
(* thread may be killed: it is then no waiter any more, but may still use  *)
(* up a signal.                                                            *)
(***************************************************************************)
CONSTANTS Threads, Mutexes, Condvars, MutexOf

NoOne == 0
Idle  == [kind |-> "idle", on |-> 0]

VARIABLES
  owner,    \* the thread that owns each mutex
  waiters,  \* the threads waiting on each condition variable
  resume,   \* the mutex a thread inside a wait must own to leave it, or 0
  call,     \* the signal or broadcast a thread is in
  gone      \* the threads that were killed

mvars == <<owner, waiters, resume, call, gone>>

Init ==
  /\ owner = [m \in Mutexes |-> NoOne]
  /\ waiters = [c \in Condvars |-> {}]
  /\ resume = [t \in Threads |-> 0]
  /\ call = [t \in Threads |-> Idle]
  /\ gone = {}

Waiting(t) == \E c \in Condvars : t \in waiters[c]

Acquire(t, m) ==
  /\ call[t] = Idle
  /\ owner[m] = NoOne
  /\ ~Waiting(t)
  /\ resume[t] \in {0, m}
  /\ owner' = [owner EXCEPT ![m] = t]
  /\ resume' = [resume EXCEPT ![t] = 0]
  /\ UNCHANGED <<waiters, call, gone>>

Release(t, m) ==
  /\ call[t] = Idle
  /\ owner[m] = t
  /\ resume[t] = 0
  /\ owner' = [owner EXCEPT ![m] = NoOne]
  /\ UNCHANGED <<waiters, resume, call, gone>>

Wait(t, c) ==
  /\ call[t] = Idle
  /\ owner[MutexOf[c]] = t
  /\ resume[t] = 0
  /\ owner' = [owner EXCEPT ![MutexOf[c]] = NoOne]
  /\ waiters' = [waiters EXCEPT ![c] = @ \cup {t}]
  /\ resume' = [resume EXCEPT ![t] = MutexOf[c]]
  /\ UNCHANGED <<call, gone>>

Call(t, c, kind) ==
  /\ call[t] = Idle
  /\ owner[MutexOf[c]] = t
  /\ resume[t] = 0
  /\ call' = [call EXCEPT ![t] = [kind |-> kind, on |-> c]]
  /\ UNCHANGED <<owner, waiters, resume, gone>>

WakeOne(t) ==
  /\ \E w \in waiters[call[t].on] :
       waiters' = [waiters EXCEPT ![call[t].on] = @ \ {w}]
  /\ \/ call[t].kind = "signal" /\ call' = [call EXCEPT ![t].kind = "done"]
     \/ call[t].kind = "broadcast" /\ UNCHANGED call
  /\ UNCHANGED <<owner, resume, gone>>

WakeNobody(t) ==
  /\ call[t].kind = "signal" /\ gone # {}
  /\ call' = [call EXCEPT ![t].kind = "done"]
  /\ UNCHANGED <<owner, waiters, resume, gone>>

Kill(t) ==
  /\ gone' = gone \cup {t}
  /\ waiters' = [c \in Condvars |-> waiters[c] \ {t}]
  /\ UNCHANGED <<owner, resume, call>>

CallReturn(t) ==
  /\ call[t] # Idle
  /\ call[t].kind = "done" \/ waiters[call[t].on] = {}
  /\ call' = [call EXCEPT ![t] = Idle]
  /\ UNCHANGED <<owner, waiters, resume, gone>>

Next ==
  \E t \in Threads :
    \/ \E m \in Mutexes : Acquire(t, m) \/ Release(t, m)
    \/ \E c \in Condvars :
         Wait(t, c) \/ \E kind \in {"signal", "broadcast"} : Call(t, c, kind)
    \/ call[t].kind \in {"signal", "broadcast"} /\ WakeOne(t)
    \/ WakeNobody(t) \/ CallReturn(t) \/ Kill(t)

Spec == Init /\ [][Next]_mvars
=============================================================================
