------------------------- MODULE ThreadFamilyProofs -------------------------
(***************************************************************************)
(* A process and its threads, for any number of slots and pids and for     *)
(* programs in which only processes create and join threads: tcount is     *)
(* exact, a process outlives its threads, and so does the page directory   *)
(* they share.                                                             *)
(*                                                                         *)
(* The inductive invariant is FamilyInv of ThreadLifeProofs, where the     *)
(* steps that keep the families as they are were seen to; here are those   *)
(* of fork(), and those that free a proc.                                  *)
(***************************************************************************)
EXTENDS ThreadLifeProofs

-----------------------------------------------------------------------------
(* A fork takes a slot, *)
LEMMA AllocFamily ==
  ASSUME ~Nested, LifeInv, FamilyInv, NEW s \in Slots,
         NEW kind \in {"process", "thread", "detached"}, AllocProc(s, kind)
  PROVE  FamilyInv'
<1>0. LifeType /\ EmbryoInv /\ ThreadInv /\ ForkInv /\ PgdirInv /\ JoinInv /\ TcountExact
  BY DEF LifeInv, FamilyInv
<1> DEFINE unused == {q \in Slots : proc[q].state = "UNUSED"}
           n == Min(unused)
<1>1. n \in Slots /\ proc[n].state = "UNUSED"
  BY MinSlot DEF AllocProc
<1>2. /\ proc' = [proc EXCEPT ![n].state = "EMBRYO", ![n].pid = nextpid]
      /\ np' = [np EXCEPT ![s] = n] /\ pc' = [pc EXCEPT ![s] = kind]
      /\ pc[s] = "user" /\ proc[s].state = "RUNNABLE"
      /\ UNCHANGED <<tid, reg, spaces>> /\ nextpid' = nextpid + 1
      /\ kind \in {"thread", "detached"} => proc[s].type = 0
  <2>1. kind \in {"thread", "detached"} => proc[s].type = 0
    BY DEF AllocProc
  <2> QED BY <2>1 DEF AllocProc, InUser, Runs
<1> HIDE DEF n, unused
<1>3. proc[n].type = 0 /\ pc[n] = "user" /\ n # s
  BY <1>0, <1>1, <1>2 DEF ThreadInv, ForkInv, LifeType, ProcType, Live
<1>4. /\ proc'[n].state = "EMBRYO" /\ proc'[n].pid = nextpid /\ proc'[n].type = 0
      /\ proc'[n].tcount = proc[n].tcount
      /\ \A x \in Slots \ {n} : proc'[x] = proc[x]
  BY <1>0, <1>1, <1>2, <1>3 DEF LifeType, ProcType
<1>5. /\ pc'[s] = kind /\ np'[s] = n
      /\ \A x \in Slots \ {s} : pc'[x] = pc[x] /\ np'[x] = np[x]
  BY <1>0, <1>2 DEF LifeType
<1>6. ThreadInv'
  BY <1>0, <1>1, <1>4 DEF ThreadInv, Live
<1>7. ForkInv'
  <2>1. \A x \in Slots : pc[x] \in Forking => np[x] \in Slots \ {n}
    BY <1>0, <1>1 DEF EmbryoInv
  <2>2. ASSUME NEW x \in Slots \ {s}
        PROVE  /\ pc'[x] # "user" => proc'[x].state \in Live /\ proc'[x] = proc[x]
               /\ pc'[x] \in Forking => proc'[np'[x]] = proc[np[x]]
    BY <1>0, <1>3, <1>4, <1>5, <2>1 DEF ForkInv
  <2>3. proc'[s] = proc[s] /\ proc'[np'[s]].type = 0
    BY <1>3, <1>4, <1>5
  <2>4. reg' = reg /\ spaces' = spaces /\ proc[s].state \in Live
    BY <1>2 DEF Live
  <2>5. kind \in {"thread", "detached"} => proc[s].type = 0
    BY <1>2
  <2> QED BY <1>0, <1>5, <2>2, <2>3, <2>4, <2>5 DEF ForkInv, Forking
<1>8. PgdirInv'
  <2>1. spaces' = spaces /\ proc'[n].state \notin Live \cup {"ZOMBIE"}
    BY <1>2, <1>4 DEF Live
  <2> QED BY <1>0, <1>4, <2>1 DEF PgdirInv
<1>9. JoinInv'
  BY <1>0, <1>2, <1>4, <1>5 DEF JoinInv, LifeType
<1>10. TcountExact'
  <2>1. \A x \in Slots : Threads(x)' = Threads(x)
    BY <1>3, <1>4 DEF Threads
  <2>2. \A r \in Slots : /\ pc'[r] = "count" <=> pc[r] = "count"
                         /\ pc[r] = "count" => np'[r] = np[r]
    BY <1>2, <1>5
  <2>3. \A x \in Slots : Counted(x)' = Counted(x)
    BY <2>1, <2>2 DEF Counted
  <2> QED BY <1>0, <1>4, <2>3, TcountKept
<1> QED BY <1>6, <1>7, <1>8, <1>9, <1>10 DEF FamilyInv

(* The new proc n of a fork by s: the facts the steps of fork() start from. *)
LEMMA ForkOf ==
  ASSUME LifeInv, FamilyInv, NEW s \in Slots, pc[s] \in Forking
  PROVE  /\ np[s] \in Slots /\ proc[np[s]].state = "EMBRYO" /\ pc[np[s]] = "user"
         /\ np[s] # s /\ proc[s].state \in Live
         /\ Threads(np[s]) = {} /\ proc[np[s]].tcount = 0
         /\ \A x \in Slots \ {s} : pc[x] \in Forking => np[x] \in Slots \ {np[s]}
         /\ \A x \in Slots : Joins(x) => proc[np[s]].pid # tid[x]
<1>0. EmbryoInv /\ ThreadInv /\ ForkInv /\ TcountExact /\ JoinInv
  BY DEF LifeInv, FamilyInv
<1>1. np[s] \in Slots /\ proc[np[s]].state = "EMBRYO"
  BY <1>0 DEF EmbryoInv
<1>2. proc[s].state \in Live /\ pc[np[s]] = "user"
  BY <1>0, <1>1 DEF ForkInv, Forking, Live
<1>3. Threads(np[s]) = {} /\ proc[np[s]].tcount = 0
  BY <1>0, <1>1, NoThreads DEF Live
<1>4. \A x \in Slots \ {s} : pc[x] \in Forking => np[x] \in Slots \ {np[s]}
  BY <1>0 DEF EmbryoInv
<1>5. \A x \in Slots : Joins(x) => proc[np[s]].pid # tid[x]
  BY <1>0, <1>1 DEF JoinInv, Joins
<1> QED BY <1>1, <1>2, <1>3, <1>4, <1>5 DEF Live

(* copies the address space, *)
LEMMA ForkProcessFamily ==
  ASSUME LifeInv, FamilyInv, NEW s \in Slots, ForkProcess(s)
  PROVE  FamilyInv'
<1>0. LifeType /\ ThreadInv /\ ForkInv /\ PgdirInv /\ JoinInv /\ TcountExact
  BY DEF LifeInv, FamilyInv
<1> DEFINE n == np[s]
<1>1. pc[s] = "process" /\ pc[s] \in Forking
  BY DEF ForkProcess, Forking
<1>2. /\ n \in Slots /\ proc[n].state = "EMBRYO" /\ pc[n] = "user" /\ n # s
      /\ proc[s].state \in Live /\ proc[n].tcount = 0
      /\ \A x \in Slots \ {s} : pc[x] \in Forking => np[x] \in Slots \ {n}
      /\ \A x \in Slots : Joins(x) => proc[n].pid # tid[x]
  BY <1>1, ForkOf
<1>3. proc[n].type = 0 /\ proc[n] \in ProcType
  BY <1>0, <1>1, <1>2 DEF ForkInv, LifeType
<1>4. /\ spaces' = spaces \cup {proc[n].pid} /\ UNCHANGED <<nextpid, tid, np, reg>>
      /\ pc' = [pc EXCEPT ![s] = "publish"]
      /\ proc' = [proc EXCEPT ![n] = [proc[n] EXCEPT !.pgdir = proc[n].pid, !.type = 0,
                                                     !.tcount = 0, !.parent = s]]
  BY DEF ForkProcess, locals
<1> HIDE DEF n
<1>5. /\ proc'[n].state = "EMBRYO" /\ proc'[n].pid = proc[n].pid /\ proc'[n].type = 0
      /\ proc'[n].tcount = 0 /\ proc'[n].pgdir = proc[n].pid
      /\ \A x \in Slots \ {n} : proc'[x] = proc[x]
  BY <1>0, <1>2, <1>3, <1>4 DEF LifeType, ProcType
<1>6. /\ pc'[s] = "publish" /\ \A x \in Slots \ {s} : pc'[x] = pc[x]
  BY <1>0, <1>4 DEF LifeType
<1>7. ThreadInv'
  BY <1>0, <1>2, <1>5 DEF ThreadInv, Live
<1>8. ForkInv'
  <2>1. ASSUME NEW x \in Slots \ {s}
        PROVE  /\ pc'[x] # "user" => proc'[x].state \in Live /\ proc'[x] = proc[x]
               /\ pc'[x] \in Forking => proc'[np'[x]] = proc[np[x]]
    BY <1>0, <1>2, <1>4, <1>5, <1>6 DEF ForkInv
  <2>2. proc'[s] = proc[s] /\ np'[s] = n
    BY <1>2, <1>4, <1>5 DEF n
  <2> QED BY <1>0, <1>2, <1>4, <1>5, <1>6, <2>1, <2>2 DEF ForkInv, Forking
<1>9. PgdirInv'
  BY <1>0, <1>2, <1>4, <1>5 DEF PgdirInv, Live
<1>10. JoinInv'
  BY <1>0, <1>2, <1>4, <1>5, <1>6 DEF JoinInv, Joins
<1>11. TcountExact'
  <2>1. \A x \in Slots : Threads(x)' = Threads(x)
    BY <1>3, <1>5 DEF Threads
  <2>2. \A r \in Slots : (pc'[r] = "count" <=> pc[r] = "count") /\ np'[r] = np[r]
    BY <1>1, <1>4, <1>6
  <2>3. \A x \in Slots : Counted(x)' = Counted(x)
    BY <2>1, <2>2 DEF Counted
  <2> QED BY <1>0, <1>2, <1>5, <2>3, TcountKept
<1> QED BY <1>7, <1>8, <1>9, <1>10, <1>11 DEF FamilyInv

(* or shares it, in a thread that is not counted yet, *)
LEMMA ForkThreadFamily ==
  ASSUME LifeInv, FamilyInv, NEW s \in Slots, ForkThread(s)
  PROVE  FamilyInv'
<1>0. LifeType /\ ThreadInv /\ ForkInv /\ PgdirInv /\ JoinInv /\ TcountExact
  BY DEF LifeInv, FamilyInv
<1> DEFINE n == np[s]
<1>1. pc[s] \in {"thread", "detached"} /\ pc[s] \in Forking
  BY DEF ForkThread, Forking
<1>2. /\ n \in Slots /\ proc[n].state = "EMBRYO" /\ pc[n] = "user" /\ n # s
      /\ proc[s].state \in Live /\ proc[n].tcount = 0
      /\ \A x \in Slots \ {s} : pc[x] \in Forking => np[x] \in Slots \ {n}
      /\ \A x \in Slots : Joins(x) => proc[n].pid # tid[x]
  BY <1>1, ForkOf
<1>3. proc[n].type = 0 /\ proc[s].type = 0 /\ proc[n] \in ProcType
  BY <1>0, <1>1, <1>2 DEF ForkInv, LifeType
<1>4. /\ UNCHANGED <<nextpid, spaces, tid, np>>
      /\ pc' = [pc EXCEPT ![s] = "count"] /\ reg' = [reg EXCEPT ![s] = proc[s].tcount]
  BY DEF ForkThread
<1>5. proc' = [proc EXCEPT ![n] =
                 [@ EXCEPT !.pgdir = proc[s].pgdir, !.type = 1,
                           !.threadattr = IF pc[s] = "detached" THEN 1 ELSE 0,
                           !.parent = s]]
  BY <1>3 DEF ForkThread
<1> HIDE DEF n
<1>6. /\ proc'[n].state = "EMBRYO" /\ proc'[n].pid = proc[n].pid /\ proc'[n].type = 1
      /\ proc'[n].tcount = proc[n].tcount /\ proc'[n].pgdir = proc[s].pgdir
      /\ proc'[n].parent = s
      /\ \A x \in Slots \ {n} : proc'[x] = proc[x]
  BY <1>0, <1>2, <1>3, <1>5 DEF LifeType, ProcType
<1>7. /\ pc'[s] = "count" /\ reg'[s] = proc[s].tcount
      /\ \A x \in Slots \ {s} : pc'[x] = pc[x] /\ reg'[x] = reg[x]
  BY <1>0, <1>4 DEF LifeType
<1>8. ThreadInv'
  <2>1. \A q \in Slots \ {n} : proc[q].type = 1 => proc[q].parent # n
    BY <1>0, <1>2 DEF ThreadInv, Live
  <2>2. proc'[s] = proc[s]
    BY <1>2, <1>6
  <2> QED BY <1>0, <1>2, <1>3, <1>6, <2>1, <2>2 DEF ThreadInv
<1>9. ForkInv'
  <2>1. ASSUME NEW x \in Slots \ {s}
        PROVE  /\ pc'[x] # "user" => proc'[x].state \in Live /\ proc'[x] = proc[x]
               /\ pc'[x] \in Forking => proc'[np'[x]] = proc[np[x]]
    BY <1>0, <1>2, <1>4, <1>6, <1>7 DEF ForkInv
  <2>2. proc'[s] = proc[s] /\ np'[s] = n
    BY <1>2, <1>4, <1>6 DEF n
  <2>3. spaces' = spaces
    BY <1>4
  <2> QED BY <1>0, <1>2, <1>3, <1>6, <1>7, <2>1, <2>2, <2>3 DEF ForkInv, Forking
<1>10. PgdirInv'
  BY <1>0, <1>4, <1>6 DEF PgdirInv
<1>11. JoinInv'
  BY <1>0, <1>2, <1>4, <1>6, <1>7 DEF JoinInv, Joins
<1>12. TcountExact'
  <2>1. \A x \in Slots : Threads(x)' = IF x = s THEN Threads(x) \cup {n} ELSE Threads(x)
    BY <1>2, <1>3, <1>6 DEF Threads
  <2>2. \A r \in Slots : (pc'[r] = "count" <=> r = s \/ pc[r] = "count") /\ np'[r] = np[r]
    BY <1>4, <1>7
  <2>3. np[s] = n /\ n \notin Threads(s) /\ \A x \in Slots : n \notin Threads(x)
    BY <1>3 DEF n, Threads
  <2>4. ASSUME NEW x \in Slots PROVE Counted(x)' = Counted(x)
    BY <2>1, <2>2, <2>3 DEF Counted
  <2> QED BY <1>0, <1>6, <2>4, TcountKept
<1> QED BY <1>8, <1>9, <1>10, <1>11, <1>12 DEF FamilyInv

(* counts it, *)
LEMMA ForkCountFamily ==
  ASSUME LifeInv, FamilyInv, NEW s \in Slots, ForkCount(s)
  PROVE  FamilyInv'
<1>0. LifeType /\ ThreadInv /\ ForkInv /\ PgdirInv /\ JoinInv /\ TcountExact
  BY DEF LifeInv, FamilyInv
<1> DEFINE n == np[s]
<1>1. pc[s] = "count" /\ pc[s] \in Forking
  BY DEF ForkCount, Forking
<1>2. /\ n \in Slots /\ proc[n].state = "EMBRYO" /\ pc[n] = "user" /\ n # s
      /\ \A x \in Slots \ {s} : pc[x] \in Forking => np[x] \in Slots \ {n}
  BY <1>1, ForkOf
<1>3. proc[n].type = 1 /\ proc[n].parent = s /\ reg[s] = proc[s].tcount
  BY <1>0, <1>1 DEF ForkInv
<1>4. /\ UNCHANGED <<nextpid, spaces, tid, np, reg>>
      /\ pc' = [pc EXCEPT ![s] = "publish"]
      /\ proc' = [proc EXCEPT ![s].tcount = (reg[s] + 1) % UintMod]
  BY DEF ForkCount, locals
<1> HIDE DEF n
<1>5. /\ proc'[s].tcount = (proc[s].tcount + 1) % UintMod
      /\ \A x \in Slots : /\ x # s => proc'[x] = proc[x]
                          /\ proc'[x].state = proc[x].state /\ proc'[x].pid = proc[x].pid
                          /\ proc'[x].type = proc[x].type /\ proc'[x].parent = proc[x].parent
                          /\ proc'[x].pgdir = proc[x].pgdir
  BY <1>0, <1>3, <1>4 DEF LifeType, ProcType
<1>6. /\ pc'[s] = "publish" /\ \A x \in Slots \ {s} : pc'[x] = pc[x]
  BY <1>0, <1>4 DEF LifeType
<1>7. ThreadInv'
  BY <1>0, <1>5 DEF ThreadInv
<1>8. ForkInv'
  <2>1. /\ np'[s] = n /\ proc'[n].type = 1 /\ proc'[s].state \in Live
        /\ UNCHANGED <<spaces, np, reg>>
    BY <1>0, <1>1, <1>2, <1>3, <1>4, <1>5 DEF n, ForkInv
  <2>2. \A x \in Slots \ {s} : pc[x] \in Forking => np[x] \in Slots
    BY <1>2
  <2> QED BY <1>0, <1>5, <1>6, <2>1, <2>2 DEF ForkInv, Forking
<1>9. PgdirInv'
  BY <1>0, <1>4, <1>5 DEF PgdirInv
<1>10. JoinInv'
  BY <1>0, <1>4, <1>5, <1>6 DEF JoinInv
<1>11. TcountExact'
  <2>1. \A x \in Slots : Threads(x)' = Threads(x)
    BY <1>5 DEF Threads
  <2>2. \A r \in Slots : (pc'[r] = "count" <=> r # s /\ pc[r] = "count") /\ np'[r] = np[r]
    BY <1>4, <1>6
  <2>3. np[s] = n /\ n \in Threads(s) /\ \A x \in Slots \ {s} : n \notin Threads(x)
    BY <1>2, <1>3 DEF n, Threads
  <2>4. \A r \in Slots \ {s} : pc[r] = "count" => np[r] # n
    BY <1>2 DEF Forking
  <2>5. n \notin Counted(s) /\ Counted(s)' = Counted(s) \cup {n}
    BY <1>1, <2>1, <2>2, <2>3, <2>4 DEF Counted
  <2>6. ASSUME NEW x \in Slots \ {s} PROVE Counted(x)' = Counted(x)
    BY <2>1, <2>2, <2>3 DEF Counted
  <2>7. Cardinality(Counted(s)') = Cardinality(Counted(s)) + 1
    BY <2>5, ThreadsFinite, FS_AddElement
  <2>8. Cardinality(Counted(s)') <= NPROC
    <3>1. Counted(s)' \in SUBSET Slots
      BY <1>2, <2>5 DEF Counted, Threads
    <3> QED BY <3>1, SlotsFinite, FS_Subset
  <2>9. proc[s].tcount = Cardinality(Counted(s)) /\ Cardinality(Counted(s)) \in Nat
    BY <1>0, ThreadsFinite DEF TcountExact, Counted
  <2>10. \A k \in Nat : k + 1 <= NPROC => (k + 1) % UintMod = k + 1
    BY LifeAssumption
  <2>11. proc'[s].tcount = Cardinality(Counted(s)')
    BY <1>5, <2>7, <2>8, <2>9, <2>10
  <2>12. \A x \in Slots : proc'[x].tcount = Cardinality(Counted(x)')
    BY <1>0, <1>5, <2>6, <2>11 DEF TcountExact, Counted
  <2> QED BY <2>12 DEF TcountExact, Counted
<1> QED BY <1>7, <1>8, <1>9, <1>10, <1>11 DEF FamilyInv

(* and makes it RUNNABLE, or gives the slot back. *)
LEMMA ForkEndFamily ==
  ASSUME LifeInv, FamilyInv, NEW s \in Slots, ForkPublish(s) \/ ForkFail(s)
  PROVE  FamilyInv'
<1>0. LifeType /\ ThreadInv /\ ForkInv /\ PgdirInv /\ JoinInv /\ TcountExact
  BY DEF LifeInv, FamilyInv
<1> DEFINE n == np[s]
<1>1. pc[s] \in Forking /\ pc[s] # "count"
  BY DEF ForkPublish, ForkFail, Forking
<1>2. /\ n \in Slots /\ proc[n].state = "EMBRYO" /\ pc[n] = "user" /\ n # s
      /\ Threads(n) = {}
      /\ \A x \in Slots \ {s} : pc[x] \in Forking => np[x] \in Slots \ {n}
      /\ \A x \in Slots : Joins(x) => proc[n].pid # tid[x]
  BY <1>1, ForkOf
<1>3. PICK st \in {"RUNNABLE", "UNUSED"} :
        /\ proc' = [proc EXCEPT ![n].state = st]
        /\ st = "UNUSED" => proc[n].type = 0
        /\ st = "RUNNABLE" /\ proc[n].type = 0 => proc[n].pgdir = proc[n].pid /\ proc[n].pid \in spaces
  <2>1. CASE ForkPublish(s)
    BY <1>0, <2>1 DEF ForkPublish, ForkInv
  <2>2. CASE ForkFail(s)
    BY <1>0, <2>2 DEF ForkFail, ForkInv
  <2> QED BY <2>1, <2>2
<1>4. /\ UNCHANGED <<nextpid, spaces>> /\ Return(s)
  BY DEF ForkPublish, ForkFail
<1>5. /\ pc'[s] = "user"
      /\ \A x \in Slots \ {s} : /\ pc'[x] = pc[x] /\ np'[x] = np[x] /\ reg'[x] = reg[x]
                                /\ tid'[x] = tid[x]
  BY <1>0, <1>4 DEF Return, LifeType
<1> HIDE DEF n
<1>6. /\ proc'[n].state = st
      /\ \A x \in Slots : /\ x # n => proc'[x] = proc[x]
                          /\ proc'[x].pid = proc[x].pid /\ proc'[x].tcount = proc[x].tcount
                          /\ proc'[x].type = proc[x].type /\ proc'[x].parent = proc[x].parent
                          /\ proc'[x].pgdir = proc[x].pgdir
  BY <1>0, <1>2, <1>3 DEF LifeType, ProcType
<1>7. ThreadInv'
  <2>1. \A q \in Slots : proc[q].type = 1 => proc[q].parent # n
    BY <1>2 DEF Threads
  <2>2. proc[n].type = 1 => proc'[n].state # "UNUSED" /\ proc[n].state # "ZOMBIE"
    BY <1>2, <1>3, <1>6
  <2> QED BY <1>0, <1>6, <2>1, <2>2 DEF ThreadInv
<1>8. ForkInv'
  <2>1. ASSUME NEW x \in Slots \ {s}
        PROVE  /\ pc'[x] # "user" => proc'[x].state \in Live /\ proc'[x] = proc[x]
               /\ pc'[x] \in Forking => proc'[np'[x]] = proc[np[x]]
    BY <1>0, <1>2, <1>5, <1>6 DEF ForkInv
  <2>2. spaces' = spaces
    BY <1>4
  <2> QED BY <1>0, <1>5, <2>1, <2>2 DEF ForkInv, Forking
<1>9. PgdirInv'
  <2>1. ASSUME NEW q \in Slots, proc'[q].type = 0, proc'[q].state \in Live \cup {"ZOMBIE"}
        PROVE  /\ proc'[q].pgdir = proc'[q].pid
               /\ proc'[q].state \in Live => proc'[q].pid \in spaces
    <3>1. CASE q = n
      BY <1>3, <1>6, <2>1, <3>1 DEF Live
    <3>2. CASE q # n
      BY <1>0, <1>6, <2>1, <3>2 DEF PgdirInv
    <3> QED BY <3>1, <3>2
  <2> QED BY <1>4, <2>1 DEF PgdirInv
<1>10. JoinInv'
  <2>1. nextpid' = nextpid
    BY <1>4
  <2> QED BY <1>0, <1>2, <1>5, <1>6, <2>1 DEF JoinInv, Joins
<1>11. TcountExact'
  <2>1. \A x \in Slots : Threads(x)' = Threads(x)
    BY <1>6 DEF Threads
  <2>2. \A r \in Slots : /\ pc'[r] = "count" <=> pc[r] = "count"
                         /\ pc[r] = "count" => np'[r] = np[r]
    BY <1>1, <1>5
  <2>3. \A x \in Slots : Counted(x)' = Counted(x)
    BY <2>1, <2>2 DEF Counted
  <2> QED BY <1>0, <1>6, <2>3, TcountKept
<1> QED BY <1>7, <1>8, <1>9, <1>10, <1>11 DEF FamilyInv

-----------------------------------------------------------------------------
(* wait() frees a process that has no threads, and its address space, *)
LEMMA WaitReapFamily ==
  ASSUME LifeInv, FamilyInv, NEW s \in Slots, WaitReap(s)
  PROVE  FamilyInv'
<1>0. /\ LifeType /\ EmbryoInv /\ PidsUnique
      /\ ThreadInv /\ ForkInv /\ PgdirInv /\ JoinInv /\ TcountExact
  BY DEF LifeInv, FamilyInv
<1> DEFINE q == Min(WaitedZombies(s))
<1>1. q \in Slots /\ proc[q].state = "ZOMBIE"
  <2>1. WaitedZombies(s) \in SUBSET Slots /\ WaitedZombies(s) # {}
    BY DEF WaitReap, WaitedZombies, Waited
  <2> QED BY <2>1, MinSlot DEF WaitedZombies
<1>2. /\ proc[q].type = 0 /\ spaces' = spaces \ {proc[q].pgdir}
      /\ proc' = [proc EXCEPT ![q] = Unused] /\ Return(s) /\ nextpid' = nextpid
      /\ pc[s] = "wait"
  BY DEF WaitReap
<1> HIDE DEF q
<1>3. pc[q] = "user" /\ proc[q].pgdir = proc[q].pid /\ Threads(q) = {} /\ proc[q].tcount = 0
  BY <1>0, <1>1, <1>2, NoThreads DEF ForkInv, PgdirInv, Live
<1>4. /\ proc'[q].state = "UNUSED" /\ proc'[q].type = 0 /\ proc'[q].tcount = 0
      /\ \A x \in Slots \ {q} : proc'[x] = proc[x]
  BY <1>0, <1>1, <1>2 DEF LifeType, Unused
<1>5. /\ pc'[s] = "user"
      /\ \A x \in Slots \ {s} : /\ pc'[x] = pc[x] /\ np'[x] = np[x] /\ reg'[x] = reg[x]
                                /\ tid'[x] = tid[x]
  BY <1>0, <1>2 DEF Return, LifeType
<1>6. \A x \in Slots \ {q} : proc[x].state # "UNUSED" /\ proc[x].pid \in spaces
                               => proc[x].pid \in spaces'
  BY <1>0, <1>1, <1>2, <1>3 DEF PidsUnique
<1>7. ThreadInv'
  <2>1. \A x \in Slots : proc[x].type = 1 => proc[x].parent # q
    BY <1>3 DEF Threads
  <2> QED BY <1>0, <1>4, <2>1 DEF ThreadInv
<1>8. ForkInv'
  <2>1. \A x \in Slots : pc[x] \in Forking => /\ np[x] \in Slots \ {q}
                                              /\ proc[np[x]].state = "EMBRYO"
    BY <1>0, <1>1 DEF EmbryoInv
  <2>2. ASSUME NEW x \in Slots \ {s}
        PROVE  /\ pc'[x] # "user" => proc'[x].state \in Live /\ proc'[x] = proc[x]
               /\ pc'[x] \in Forking => /\ proc'[np'[x]] = proc[np[x]]
                                        /\ proc[np[x]].pid \in spaces => proc[np[x]].pid \in spaces'
    BY <1>0, <1>3, <1>4, <1>5, <1>6, <2>1 DEF ForkInv
  <2> QED BY <1>0, <1>5, <2>2 DEF ForkInv, Forking
<1>9. PgdirInv'
  <2>1. "UNUSED" \notin Live \cup {"ZOMBIE"}
    BY DEF Live
  <2> QED BY <1>0, <1>4, <1>6, <2>1 DEF PgdirInv
<1>10. JoinInv'
  BY <1>0, <1>2, <1>4, <1>5 DEF JoinInv
<1>11. TcountExact'
  <2>1. \A x \in Slots : Threads(x)' = Threads(x)
    BY <1>2, <1>4 DEF Threads
  <2>2. \A r \in Slots : /\ pc'[r] = "count" <=> pc[r] = "count"
                         /\ pc[r] = "count" => np'[r] = np[r]
    BY <1>2, <1>5
  <2>3. \A x \in Slots : Counted(x)' = Counted(x)
    BY <2>1, <2>2 DEF Counted
  <2> QED BY <1>0, <1>3, <1>4, <2>3, TcountKept
<1> QED BY <1>7, <1>8, <1>9, <1>10, <1>11 DEF FamilyInv

(* and cleanupzombiethreads and getthreadretval a thread, *)
LEMMA ReapedThread ==
  ASSUME LifeType, NEW s \in Slots, NEW q \in Slots \ {s}, proc[q].parent = s
  PROVE  /\ Reaped(q)[q].type = 0 /\ Reaped(q)[q].tcount = proc[q].tcount
         /\ Reaped(q)[s].tcount = (proc[s].tcount - 1) % UintMod
         /\ \A x \in Slots \ {q} : /\ x # s => Reaped(q)[x] = proc[x]
                                   /\ Reaped(q)[x].type = proc[x].type
                                   /\ Reaped(q)[x].parent = proc[x].parent
                                   /\ Reaped(q)[x].pgdir = proc[x].pgdir
<1> DEFINE U == [Unused EXCEPT !.tcount = proc[q].tcount]
           A == [proc EXCEPT ![q] = U]
<1>1. U.type = 0 /\ U.tcount = proc[q].tcount
  BY DEF Unused
<1>2. /\ A \in [Slots -> {A[x] : x \in Slots}] /\ A[q] = U
      /\ \A x \in Slots \ {q} : A[x] = proc[x]
  BY DEF LifeType
<1>3. Reaped(q) = [A EXCEPT ![s].tcount = (@ - 1) % UintMod]
  BY DEF Reaped
<1> HIDE DEF A, U
<1>4. proc[s] \in ProcType /\ A[s] = proc[s]
  BY <1>2 DEF LifeType
<1>5. /\ Reaped(q)[s] = [proc[s] EXCEPT !.tcount = (proc[s].tcount - 1) % UintMod]
      /\ \A x \in Slots \ {s} : Reaped(q)[x] = A[x]
  BY <1>2, <1>3, <1>4
<1> QED BY <1>1, <1>2, <1>4, <1>5 DEF ProcType

(* which its parent then has one fewer of. *)
LEMMA ReapFamily ==
  ASSUME LifeInv, FamilyInv, NEW s \in Slots, NEW q \in Slots,
         proc[q].type = 1, proc[q].state = "ZOMBIE", proc[q].parent = s,
         proc' = Reaped(q), UNCHANGED <<nextpid, spaces>>,
         pc[s] \notin Forking, pc'[s] \notin Forking, ~ Joins(s)',
         \A x \in Slots \ {s} : /\ pc'[x] = pc[x] /\ np'[x] = np[x]
                                /\ reg'[x] = reg[x] /\ tid'[x] = tid[x]
  PROVE  FamilyInv'
<1>0. /\ LifeType /\ EmbryoInv
      /\ ThreadInv /\ ForkInv /\ PgdirInv /\ JoinInv /\ TcountExact
  BY DEF LifeInv, FamilyInv
<1>1. proc[s].type = 0 /\ proc[s].state \in Live /\ q # s
  BY <1>0 DEF ThreadInv
<1>2. pc[q] = "user" /\ Threads(q) = {} /\ proc[q].tcount = 0
  BY <1>0, NoThreads DEF ForkInv, Live
<1>3. /\ proc'[q].state = "UNUSED" /\ proc'[q].type = 0 /\ proc'[q].tcount = 0
      /\ proc'[s].tcount = (proc[s].tcount - 1) % UintMod
      /\ \A x \in Slots \ {q} : /\ x # s => proc'[x] = proc[x]
                                /\ proc'[x].state = proc[x].state /\ proc'[x].pid = proc[x].pid
                                /\ proc'[x].type = proc[x].type
                                /\ proc'[x].parent = proc[x].parent
                                /\ proc'[x].pgdir = proc[x].pgdir
  BY <1>0, <1>1, <1>2, ReapedFrame, ReapedThread
<1>4. ThreadInv'
  <2>1. \A x \in Slots : proc[x].type = 1 => proc[x].parent # q
    BY <1>2 DEF Threads
  <2> QED BY <1>0, <1>3, <2>1 DEF ThreadInv
<1>5. ForkInv'
  <2>1. \A x \in Slots : pc[x] \in Forking => np[x] \in Slots \ {q}
    BY <1>0 DEF EmbryoInv
  <2>2. ASSUME NEW x \in Slots \ {s}
        PROVE  /\ pc'[x] # "user" => proc'[x].state \in Live /\ proc'[x] = proc[x]
               /\ pc'[x] \in Forking => /\ proc'[np'[x]].type = proc[np[x]].type
                                        /\ proc'[np'[x]].parent = proc[np[x]].parent
                                        /\ proc'[np'[x]].pgdir = proc[np[x]].pgdir
                                        /\ proc'[np'[x]].pid = proc[np[x]].pid
    BY <1>0, <1>2, <1>3, <2>1 DEF ForkInv
  <2>3. proc'[s].state \in Live
    BY <1>1, <1>3
  <2> QED BY <1>0, <2>2, <2>3 DEF ForkInv, Forking
<1>6. PgdirInv'
  <2>1. "UNUSED" \notin Live \cup {"ZOMBIE"}
    BY DEF Live
  <2> QED BY <1>0, <1>3, <2>1 DEF PgdirInv
<1>7. JoinInv'
  BY <1>0, <1>3 DEF JoinInv, Joins
<1>8. TcountExact'
  <2>1. \A x \in Slots : Threads(x)' = Threads(x) \ {q}
    BY <1>3 DEF Threads
  <2>2. \A r \in Slots : /\ pc'[r] = "count" <=> pc[r] = "count"
                         /\ pc[r] = "count" => np'[r] = np[r] /\ np[r] # q
    BY <1>0 DEF EmbryoInv, Forking
  <2>3. \A x \in Slots : Counted(x)' = Counted(x) \ {q}
    BY <2>1, <2>2 DEF Counted
  <2>4. q \in Counted(s) /\ \A x \in Slots \ {s} : q \notin Counted(x)
    BY <2>2 DEF Counted, Threads
  <2>5. Cardinality(Counted(s)') = Cardinality(Counted(s)) - 1
    BY <2>3, <2>4, ThreadsFinite, FS_RemoveElement
  <2>6. /\ Cardinality(Counted(s)) \in Nat \ {0} /\ Cardinality(Counted(s)) <= NPROC
        /\ proc[s].tcount = Cardinality(Counted(s))
    BY <1>0, <2>4, ThreadsFinite, FS_EmptySet DEF TcountExact, Counted
  <2>7. \A k \in Nat \ {0} : k <= NPROC => (k - 1) % UintMod = k - 1
    BY LifeAssumption
  <2>8. proc'[s].tcount = Cardinality(Counted(s)')
    BY <1>3, <2>5, <2>6, <2>7
  <2>9. ASSUME NEW x \in Slots \ {s} PROVE proc'[x].tcount = Cardinality(Counted(x)')
    <3>1. proc'[x].tcount = proc[x].tcount
      BY <1>2, <1>3
    <3>2. Counted(x)' = Counted(x)
      BY <2>3, <2>4
    <3> QED BY <1>0, <3>1, <3>2 DEF TcountExact, Counted
  <2> QED BY <2>8, <2>9 DEF TcountExact, Counted
<1> QED BY <1>4, <1>5, <1>6, <1>7, <1>8 DEF FamilyInv

(* cleanupzombiethreads, with or without a zombie. *)
LEMMA CleanupFamily ==
  ASSUME LifeInv, FamilyInv, NEW s \in Slots, CleanupZombieThreads(s)
  PROVE  FamilyInv'
<1> DEFINE zombies == {q \in Threads(s) : proc[q].state = "ZOMBIE"}
<1>0. LifeType /\ JoinInv
  BY DEF LifeInv, FamilyInv
<1>1. /\ pc[s] = "cleanup" /\ proc[s].state = "RUNNABLE"
      /\ pc' = [pc EXCEPT ![s] = "check"] /\ UNCHANGED <<nextpid, spaces, tid, np, reg>>
      /\ \/ zombies # {} /\ proc' = Reaped(Min(zombies))
         \/ zombies = {} /\ UNCHANGED proc
  BY DEF CleanupZombieThreads, Runs, locals
<1>2. pc'[s] = "check" /\ \A x \in Slots \ {s} : pc'[x] = pc[x]
  BY <1>0, <1>1 DEF LifeType
<1>3. ~ Joins(s)'
  BY <1>2 DEF Joins
<1>4. CASE zombies # {}
  <2>1. Min(zombies) \in zombies
    BY <1>4, MinSlot DEF Threads
  <2> HIDE DEF zombies
  <2> DEFINE q == Min(zombies)
  <2>2. q \in Slots /\ proc[q].type = 1 /\ proc[q].parent = s /\ proc[q].state = "ZOMBIE"
    BY <2>1 DEF zombies, Threads
  <2>3. proc' = Reaped(q)
    BY <1>1, <1>4
  <2> HIDE DEF q
  <2> QED BY <1>1, <1>2, <1>3, <2>2, <2>3, ReapFamily DEF Forking
<1>5. CASE zombies = {}
  <2>1. UNCHANGED proc
    BY <1>1, <1>5
  <2>2. FamilyStep
    BY <1>1, <1>2, <2>1, IdleFamily DEF Forking, Live
  <2>3. JoinStep
    BY <1>1, <1>2, <1>3 DEF JoinStep, Joins
  <2> QED BY <1>0, <2>2, <2>3, FamilyKept, JoinKept DEF FamilyInv
<1> QED BY <1>4, <1>5

(* getthreadretval frees a thread of the caller, so it never meets the      *)
(* increment of a fork. *)
LEMMA FetchFamily ==
  ASSUME LifeInv, FamilyInv, NEW s \in Slots, FetchRetval(s) \/ FetchRace(s)
  PROVE  FamilyInv'
<1>0. LifeType /\ FetchInv /\ ThreadInv /\ JoinInv
  BY DEF LifeInv, FamilyInv
<1>1. ASSUME NEW q \in Slots, pc[s] = "fetch", proc[q].type = 1, proc[q].pid = tid[s]
      PROVE  proc[q].state = "ZOMBIE" /\ proc[q].parent = s
  <2>1. proc[q].state # "UNUSED"
    BY <1>0, <1>1 DEF ThreadInv
  <2> QED BY <1>0, <1>1, <2>1 DEF FetchInv, JoinInv
<1>2. ~ FetchRace(s)
  BY <1>1 DEF FetchRace
<1> DEFINE found == {q \in Slots : proc[q].type = 1 /\ proc[q].pid = tid[s]}
           q == Min(found)
<1>3. FetchRetval(s)
  BY <1>2
<1>4. /\ pc[s] = "fetch" /\ Return(s) /\ UNCHANGED <<nextpid, spaces>>
      /\ \/ UNCHANGED proc
         \/ found # {} /\ proc' = [proc EXCEPT ![q].threadattr = 0]
         \/ found # {} /\ proc' = Reaped(q)
  BY <1>3 DEF FetchRetval
<1>5. /\ pc'[s] = "user"
      /\ \A x \in Slots \ {s} : /\ pc'[x] = pc[x] /\ np'[x] = np[x] /\ reg'[x] = reg[x]
                                /\ tid'[x] = tid[x]
  BY <1>0, <1>4 DEF Return, LifeType
<1>6. ~ Joins(s)'
  BY <1>5 DEF Joins
<1>7. found # {} => q \in Slots /\ proc[q].type = 1 /\ proc[q].pid = tid[s]
  BY MinSlot
<1> HIDE DEF found, q
<1>8. CASE found # {} /\ proc' = Reaped(q)
  BY <1>1, <1>4, <1>5, <1>6, <1>7, <1>8, ReapFamily DEF Forking
<1>9. CASE UNCHANGED proc \/ (found # {} /\ proc' = [proc EXCEPT ![q].threadattr = 0])
  <2>1. \A x \in Slots :
          /\ proc'[x].type = proc[x].type /\ proc'[x].pid = proc[x].pid
          /\ proc'[x].tcount = proc[x].tcount /\ proc'[x].parent = proc[x].parent
          /\ proc'[x].pgdir = proc[x].pgdir /\ proc'[x].state = proc[x].state
    BY <1>0, <1>7, <1>9 DEF LifeType, ProcType
  <2>2. FamilyStep
    BY <1>4, <1>5, <2>1, IdleFamily DEF Forking
  <2>3. JoinStep
    BY <1>5, <1>6 DEF JoinStep, Joins
  <2> QED BY <1>0, <2>2, <2>3, FamilyKept, JoinKept DEF FamilyInv
<1> QED BY <1>4, <1>8, <1>9

-----------------------------------------------------------------------------
(* init has no threads. *)
LEMMA InitFamily == Init => FamilyInv
<1> SUFFICES ASSUME Init PROVE FamilyInv
  OBVIOUS
<1>1. \A s \in Slots : /\ proc[s].type = 0 /\ proc[s].tcount = 0 /\ pc[s] = "user"
                       /\ proc[s].state \in Live \cup {"ZOMBIE"} =>
                            proc[s].pgdir = 1 /\ proc[s].pid = 1
  BY DEF Init, Unused, Live
<1>2. spaces = {1}
  BY DEF Init
<1>3. ThreadInv /\ ForkInv /\ PgdirInv /\ JoinInv
  BY <1>1, <1>2 DEF ThreadInv, ForkInv, PgdirInv, JoinInv
<1>4. \A s \in Slots : Counted(s) = {}
  BY <1>1 DEF Counted, Threads
<1>5. TcountExact
  BY <1>1, <1>4, FS_EmptySet DEF TcountExact, Counted
<1> QED BY <1>3, <1>5 DEF FamilyInv

(* Every step keeps FamilyInv. *)
LEMMA NextFamily ==
  ASSUME ~Nested, ~SiblingJoin, LifeInv, FamilyInv, [Next]_vars
  PROVE  FamilyInv'
<1>0. ASSUME FamilyStep /\ JoinStep PROVE FamilyInv'
  BY <1>0, FamilyKept, JoinKept DEF FamilyInv
<1>1. CASE UNCHANGED vars
  <2>1. UNCHANGED <<proc, nextpid, spaces, pc, tid, np, reg>>
    BY <1>1 DEF vars, locals
  <2>2. FamilyStep
    BY <2>1, IdleFamily
  <2> QED BY <1>0, <2>1, <2>2 DEF JoinStep, Joins
<1>2. CASE Next
  <2>1. PICK s \in Slots :
          \/ \E kind \in {"process", "thread", "detached"} : AllocProc(s, kind)
          \/ \E t \in 0..MaxPid : WaitCall(s, t)
          \/ Exit(s) \/ ForkStep(s) \/ ExitStep(s) \/ WaitStep(s) \/ Kill(s)
    BY <1>2 DEF Next
  <2>2. CASE \E kind \in {"process", "thread", "detached"} : AllocProc(s, kind)
    BY <2>2, AllocFamily
  <2>3. CASE \E t \in 0..MaxPid : WaitCall(s, t)
    BY <2>3, WaitCallFamily
  <2>4. CASE ForkStep(s)
    BY <2>4, ForkProcessFamily, ForkThreadFamily, ForkCountFamily, ForkEndFamily DEF ForkStep
  <2>5. CASE Exit(s) \/ ExitCheck(s)
    BY <1>0, <2>5, ExitFamily
  <2>6. CASE WaitThread(s) \/ WaitFail(s) \/ WaitSleep(s) \/ Kill(s) \/ SwitchPanic(s)
    BY <1>0, <2>6, WaitFamily
  <2>7. CASE WaitReap(s)
    BY <2>7, WaitReapFamily
  <2>8. CASE CleanupZombieThreads(s)
    BY <2>8, CleanupFamily
  <2>9. CASE FetchRetval(s) \/ FetchRace(s)
    BY <2>9, FetchFamily
  <2> QED
    BY <2>1, <2>2, <2>3, <2>4, <2>5, <2>6, <2>7, <2>8, <2>9, Zenon DEF ExitStep, WaitStep
<1> QED BY <1>1, <1>2

(* The two invariants hold in every state. *)
LEMMA FamilyAlways ==
  ASSUME ~Nested, ~SiblingJoin
  PROVE  Spec => [](LifeInv /\ FamilyInv)
<1>1. LifeInv /\ FamilyInv /\ [Next]_vars => (LifeInv /\ FamilyInv)'
  BY NextLife, NextFamily
<1> QED BY <1>1, InitLife, InitFamily, PTL DEF Spec

(* tcount is the number of threads of the process, less the one a fork in   *)
(* progress has not counted, although fork() increments it without          *)
(* ptable.lock, and cleanupzombiethreads and getthreadretval decrement it:  *)
(* for programs in which only processes create and join threads, whoever is *)
(* killed and whoever waits.  It never wraps and never loses an update.     *)
THEOREM TcountStaysExact ==
  ASSUME ~Nested, ~SiblingJoin
  PROVE  Spec => []TcountExact
<1>1. LifeInv /\ FamilyInv => TcountExact
  BY DEF FamilyInv
<1> QED BY <1>1, FamilyAlways, PTL

(* So exit() of a process waits for the last of its threads: the parent     *)
(* through which a thread reaches its locks is a live process.              *)
THEOREM ParentsOutliveThreads ==
  ASSUME ~Nested, ~SiblingJoin
  PROVE  Spec => []ParentOutlivesThreads
<1>1. LifeInv /\ FamilyInv => ParentOutlivesThreads
  BY DEF FamilyInv, ThreadInv, ParentOutlivesThreads, Live
<1> QED BY <1>1, FamilyAlways, PTL

(* And the page directory that a process shares with its threads is freed   *)
(* by wait() after all of them are gone.                                    *)
THEOREM PgdirsStayAlive ==
  ASSUME ~Nested, ~SiblingJoin
  PROVE  Spec => []PgdirAlive
<1>1. ASSUME LifeInv, FamilyInv, NEW q \in Slots, proc[q].state \in Live
      PROVE  proc[q].pgdir \in spaces
  <2>0. LifeType /\ ThreadInv /\ PgdirInv
    BY <1>1 DEF LifeInv, FamilyInv
  <2>1. CASE proc[q].type = 0
    BY <1>1, <2>0, <2>1 DEF PgdirInv
  <2>2. CASE proc[q].type = 1
    <3> DEFINE p == proc[q].parent
    <3>1. p \in Slots /\ proc[p].type = 0 /\ proc[p].state \in Live /\ proc[q].pgdir = proc[p].pgdir
      BY <1>1, <2>0, <2>2 DEF ThreadInv, Live
    <3> HIDE DEF p
    <3> QED BY <2>0, <3>1 DEF PgdirInv
  <2> QED BY <1>1, <2>0, <2>1, <2>2 DEF LifeType, ProcType
<1>2. LifeInv /\ FamilyInv => PgdirAlive
  BY <1>1 DEF PgdirAlive, Live
<1> QED BY <1>2, FamilyAlways, PTL
=============================================================================
