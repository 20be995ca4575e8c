-------------------------------- MODULE Mem --------------------------------
(***************************************************************************)
(* Physical pages and address spaces: kalloc.c, the page tables of vm.c,   *)
(* sbrk (growproc), exec.c, and what fork, kthread_create, exit and wait   *)
(* do with memory.                                                         *)
(*                                                                         *)
(* Sizes and addresses count pages.  A page that holds a table is the set  *)
(* of its entries <<index, page>>.  The free list has a lock, so each      *)
(* kalloc is a step of its own, with the code up to the next one; giving   *)
(* back several pages is one step.  Nothing else has a lock.               *)
(***************************************************************************)
EXTENDS Integers, FiniteSets, FiniteSetsExt

CONSTANTS
  Procs, First,  \* slots of the process table; the process that runs first
  NPAGES,        \* pages of physical memory
  NPTENTRIES,    \* pages that one page table maps
  KERNBASE,      \* pages of an address space below the kernel
  Text,          \* pages of the programs that exec loads
  ThreadOps,     \* what threads and processes with threads also do:
                 \* "grow", "shrink", "exec"
  MaxCalls       \* bound: calls made

ASSUME MemAssumption ==
  /\ First \in Procs /\ 0 \notin Procs
  /\ {NPAGES, NPTENTRIES, KERNBASE, Text} \subseteq Nat \ {0}
  /\ MaxCalls \in Nat /\ ThreadOps \subseteq {"grow", "shrink", "exec"}

Pages  == 1..NPAGES
Kernel == KERNBASE   \* the entry of a page directory for the kernel's tables

VARIABLES
  free,      \* kmem.freelist
  mem,       \* the entries of the pages that are tables
  status,    \* "unused", "embryo", "live" or "zombie"
  type, parent, pgdir, kstack, sz,   \* struct proc; 0 for none
  k,         \* where each proc is in its call
  calls, panicked,
  lost,      \* history: pages the code has forgotten
  hole       \* history: a page was left unmapped and nobody noticed

slots == <<status, type, parent, kstack>>
ghost == <<lost, hole>>
vars  == <<free, mem, slots, pgdir, sz, k, calls, panicked, ghost>>

Idle == [pc |-> "idle", what |-> "none", d |-> 0, a |-> 0, from |-> 0, to |-> 0,
         page |-> 0, child |-> 0]

(* kinit1 and kinit2 free what the kernel and the first process do not use. *)
Freerange == 6..NPAGES

(* inituvm: the first process has a directory, the kernel's table, a table   *)
(* and one page; page 5 is its stack. *)
Inituvm == [g \in Pages |-> CASE g = 1 -> {<<Kernel, 2>>, <<0, 3>>}
                             [] g = 3 -> {<<0, 4>>}
                             [] OTHER -> {}]

Init ==
  /\ free = Freerange
  /\ mem = Inituvm
  /\ status = [p \in Procs |-> IF p = First THEN "live" ELSE "unused"]
  /\ type = [p \in Procs |-> 0]
  /\ parent = [p \in Procs |-> 0]
  /\ pgdir = [p \in Procs |-> IF p = First THEN 1 ELSE 0]
  /\ kstack = [p \in Procs |-> IF p = First THEN 5 ELSE 0]
  /\ sz = [p \in Procs |-> IF p = First THEN 1 ELSE 0]
  /\ k = [p \in Procs |-> Idle]
  /\ calls = 0
  /\ panicked = "no"
  /\ lost = {} /\ hole = FALSE

-----------------------------------------------------------------------------
At(p, label) == panicked = "no" /\ status[p] = "live" /\ k[p].pc = label

Call(p) == At(p, "idle") /\ calls < MaxCalls /\ calls' = calls + 1

Panic(what) ==
  panicked' = what /\ UNCHANGED <<free, mem, slots, pgdir, sz, k, calls, ghost>>

(* kalloc takes the head of the list. *)
Kalloc == Min(free)

(* walkpgdir without alloc: the table for page v of directory d, its entry. *)
Entry(t, i) == {e[2] : e \in {x \in mem[t] : x[1] = i}}
Table(d, v) == Entry(d, v \div NPTENTRIES)
Pte(d, v)   == UNION {Entry(t, v) : t \in Table(d, v)}

(* The tables, the user pages and all pages of directory d. *)
Tables(d)    == {e[2] : e \in mem[d]}
UserPages(d) == {e[2] : e \in UNION {mem[t] : t \in Tables(d)}}

(* Mutant of SpaceOf: freevm forgets the page tables. *)
SpaceOfFlat(d) == {d} \cup UserPages(d)

SpaceOf(d) == {d} \cup Tables(d) \cup UserPages(d)

(* kfree fills the page with junk. *)
Junked(pages) == [g \in Pages |-> IF g \in pages THEN {} ELSE mem[g]]

(* deallocuvm from newsz to oldsz: what is mapped there is freed and unmapped. *)
Mapped(d, newsz, oldsz) == UNION {Pte(d, v) : v \in newsz..(oldsz - 1)}
Unmapped(d, newsz, oldsz) ==
  [g \in Pages |->
     CASE g \in Mapped(d, newsz, oldsz) -> {}
       [] g \in Tables(d) -> {e \in mem[g] : e[1] \notin newsz..(oldsz - 1)}
       [] OTHER -> mem[g]]

(* Does p share its address space? *)
Threads(p) == {q \in Procs : type[q] = 1 /\ parent[q] = p /\ status[q] = "live"}
Allowed(p, op) == op \in ThreadOps \/ (type[p] = 0 /\ Threads(p) = {})

-----------------------------------------------------------------------------
(* Mutant of SbrkGrow: growing starts one page too high. *)
SbrkGrowRounded(p, n) ==
  /\ Call(p) /\ Allowed(p, "grow") /\ sz[p] + n < KERNBASE
  /\ k' = [k EXCEPT ![p] = [Idle EXCEPT !.pc = "grow", !.what = "sbrk", !.d = pgdir[p],
                              !.a = sz[p] + 1, !.from = sz[p], !.to = sz[p] + n]]
  /\ UNCHANGED <<free, mem, slots, pgdir, sz, panicked, ghost>>

(* sbrk(n) for n > 0: growproc reads sz and grows from there, *)
SbrkGrow(p, n) ==
  /\ Call(p) /\ Allowed(p, "grow") /\ sz[p] + n < KERNBASE
  /\ k' = [k EXCEPT ![p] = [Idle EXCEPT !.pc = "grow", !.what = "sbrk", !.d = pgdir[p],
                              !.a = sz[p], !.from = sz[p], !.to = sz[p] + n]]
  /\ UNCHANGED <<free, mem, slots, pgdir, sz, panicked, ghost>>

(* for n < 0: it shrinks at once.  A process that gives back its last page   *)
(* fails, but without its page, which kills it. *)
SbrkShrink(p, n) ==
  LET new == sz[p] - n IN
  /\ Call(p) /\ Allowed(p, "shrink") /\ n <= sz[p]
  /\ free' = free \cup Mapped(pgdir[p], new, sz[p])
  /\ mem' = Unmapped(pgdir[p], new, sz[p])
  /\ IF new = 0
       THEN k' = [k EXCEPT ![p].pc = "killed"] /\ UNCHANGED sz
       ELSE /\ sz' = [q \in Procs |-> IF q = p \/ (type[p] = 1 /\ q = parent[p])
                                        THEN new ELSE sz[q]]
            /\ UNCHANGED k
  /\ UNCHANGED <<slots, pgdir, panicked, ghost>>

(* exec has opened the program and found it to be one. *)
Exec(p) ==
  /\ Call(p) /\ Allowed(p, "exec")
  /\ k' = [k EXCEPT ![p] = [Idle EXCEPT !.pc = "setup", !.what = "exec", !.to = Text]]
  /\ UNCHANGED <<free, mem, slots, pgdir, sz, panicked, ghost>>

(* fork and kthread_create: allocproc needs a slot and a kernel stack; *)
Fork(p, q, thread) ==
  /\ Call(p) /\ status[q] = "unused" /\ free # {}
  /\ free' = free \ {Kalloc}
  /\ kstack' = [kstack EXCEPT ![q] = Kalloc]
  /\ parent' = [parent EXCEPT ![q] = IF thread /\ type[p] = 1 THEN parent[p] ELSE p]
  /\ type' = [type EXCEPT ![q] = IF thread THEN 1 ELSE 0]
  /\ IF thread
       THEN /\ status' = [status EXCEPT ![q] = "live"]
            /\ pgdir' = [pgdir EXCEPT ![q] = pgdir[p]]
            /\ sz' = [sz EXCEPT ![q] = sz[p]]
            /\ UNCHANGED k
       ELSE /\ status' = [status EXCEPT ![q] = "embryo"]
            /\ k' = [k EXCEPT ![p] = [Idle EXCEPT !.pc = "setup", !.what = "fork",
                                        !.to = sz[p], !.child = q]]
            /\ UNCHANGED <<pgdir, sz>>
  /\ UNCHANGED <<mem, panicked, ghost>>

-----------------------------------------------------------------------------
(* The call of p fails: the space it was building and, of a fork, the kernel *)
(* stack of the child go back; pages in gone are forgotten. *)
Fail(p, space, gone) ==
  LET q    == k[p].child
      back == space \cup (IF q = 0 THEN {} ELSE {kstack[q]})
  IN
  /\ free' = free \cup back
  /\ mem' = Junked(back)
  /\ k' = [k EXCEPT ![p] = Idle]
  /\ status' = [r \in Procs |-> IF r = q THEN "unused" ELSE status[r]]
  /\ kstack' = [r \in Procs |-> IF r = q THEN 0 ELSE kstack[r]]
  /\ lost' = lost \cup gone
  /\ UNCHANGED <<type, parent, pgdir, sz, calls, panicked, hole>>

(* setupkvm: the page directory, *)
SetupDir(p) ==
  /\ At(p, "setup")
  /\ IF free = {} THEN Fail(p, {}, {})
     ELSE /\ free' = free \ {Kalloc}
          /\ mem' = [mem EXCEPT ![Kalloc] = {}]
          /\ k' = [k EXCEPT ![p].pc = "kmap", ![p].d = Kalloc]
          /\ UNCHANGED <<slots, pgdir, sz, calls, panicked, ghost>>

(* and the table for the kernel; without it the directory is forgotten. *)
SetupKernel(p) ==
  /\ At(p, "kmap")
  /\ IF free = {} THEN Fail(p, {}, {k[p].d})
     ELSE /\ free' = free \ {Kalloc}
          /\ mem' = [mem EXCEPT ![k[p].d] = {<<Kernel, Kalloc>>}, ![Kalloc] = {}]
          /\ k' = [k EXCEPT ![p].pc = "grow"]
          /\ UNCHANGED <<slots, pgdir, sz, calls, panicked, ghost>>

(* copyuvm copies what is below sz, and relies on it being there. *)
CopyMissing(p) == k[p].what = "fork" /\ Pte(pgdir[p], k[p].a) = {}

(* The loop of allocuvm and of copyuvm takes a page.  allocuvm gives back    *)
(* what it has mapped itself; exec and fork then free the whole new space. *)
TakePage(p) ==
  LET c == k[p] IN
  /\ At(p, "grow") /\ c.a < c.to
  /\ IF CopyMissing(p)
       THEN Panic("copyuvm: pte should exist")
     ELSE IF free # {}
       THEN /\ free' = free \ {Kalloc}
            /\ mem' = [mem EXCEPT ![Kalloc] = {}]
            /\ k' = [k EXCEPT ![p].pc = "map", ![p].page = Kalloc]
            /\ UNCHANGED <<slots, pgdir, sz, calls, panicked, ghost>>
     ELSE IF c.what = "sbrk"
       THEN /\ free' = free \cup Mapped(c.d, c.from, c.to)
            /\ mem' = Unmapped(c.d, c.from, c.to)
            /\ k' = [k EXCEPT ![p] = Idle]
            /\ UNCHANGED <<slots, pgdir, sz, calls, panicked, ghost>>
     ELSE Fail(p, SpaceOf(c.d), {})

(* mappages enters it.  If a table is needed and there is no page for it,    *)
(* fork gives up and forgets the page; allocuvm does not look at the result. *)
MapPage(p) ==
  LET c == k[p]
      v == c.a
      t == IF Table(c.d, v) = {} THEN Kalloc ELSE Min(Table(c.d, v))
      withTable == [mem EXCEPT ![c.d] = @ \cup {<<v \div NPTENTRIES, t>>}]
  IN
  /\ At(p, "map")
  /\ IF Table(c.d, v) = {} /\ free = {}
       THEN IF c.what = "fork" THEN Fail(p, SpaceOf(c.d), {c.page})
            ELSE /\ lost' = lost \cup {c.page} /\ hole' = TRUE
                 /\ k' = [k EXCEPT ![p].pc = "grow", ![p].a = v + 1, ![p].page = 0]
                 /\ UNCHANGED <<free, mem, slots, pgdir, sz, calls, panicked>>
     ELSE IF Pte(c.d, v) # {} THEN Panic("remap")
     ELSE /\ mem' = [withTable EXCEPT ![t] = @ \cup {<<v, c.page>>}]
          /\ free' = free \ {t}
          /\ k' = [k EXCEPT ![p].pc = "grow", ![p].a = v + 1, ![p].page = 0]
          /\ UNCHANGED <<slots, pgdir, sz, calls, panicked, ghost>>

-----------------------------------------------------------------------------
(* growproc ends: sz is stored, a thread stores it for its process too. *)
SbrkDone(p) ==
  /\ At(p, "grow") /\ k[p].what = "sbrk" /\ k[p].a = k[p].to
  /\ sz' = [q \in Procs |-> IF q = p \/ (type[p] = 1 /\ q = parent[p])
                              THEN k[p].to ELSE sz[q]]
  /\ k' = [k EXCEPT ![p] = Idle]
  /\ UNCHANGED <<free, mem, slots, pgdir, calls, panicked, ghost>>

(* loaduvm and clearpteu expect a table, copyout a page. *)
LoadMissing(d)     == \E v \in 0..(Text - 1) : Table(d, v) = {}
ClearMissing(d, v) == Table(d, v) = {}
Copyout(d, v)      == Pte(d, v) # {}

(* exec reads the program; a short file fails.  Then two pages of stack. *)
ExecLoad(p) ==
  LET c == k[p] IN
  /\ At(p, "grow") /\ c.what = "exec" /\ c.a = c.to
  /\ IF LoadMissing(c.d)
       THEN Panic("loaduvm: address should exist")
       ELSE \/ Fail(p, SpaceOf(c.d), {})
            \/ /\ Text + 2 < KERNBASE
               /\ k' = [k EXCEPT ![p].what = "stack", ![p].from = Text, ![p].to = Text + 2]
               /\ UNCHANGED <<free, mem, slots, pgdir, sz, calls, panicked, ghost>>

(* Mutant of ExecCommit: the old space is freed before the arguments are in. *)
ExecCommitEarly(p) ==
  LET c == k[p] IN
  /\ At(p, "grow") /\ c.what = "stack" /\ c.a = c.to
  /\ \/ /\ free' = free \cup SpaceOf(c.d) \cup SpaceOf(pgdir[p])
        /\ mem' = Junked(SpaceOf(c.d) \cup SpaceOf(pgdir[p]))
        /\ k' = [k EXCEPT ![p] = Idle]
        /\ UNCHANGED <<pgdir, sz>>
     \/ /\ free' = free \cup SpaceOf(pgdir[p])
        /\ mem' = Junked(SpaceOf(pgdir[p]))
        /\ pgdir' = [pgdir EXCEPT ![p] = c.d]
        /\ sz' = [sz EXCEPT ![p] = c.to]
        /\ k' = [k EXCEPT ![p] = Idle]
  /\ UNCHANGED <<slots, calls, panicked, ghost>>

(* exec makes the guard page, copies the arguments (which may not fit) and   *)
(* commits: only then is the old space freed. *)
ExecCommit(p) ==
  LET c == k[p] IN
  /\ At(p, "grow") /\ c.what = "stack" /\ c.a = c.to
  /\ IF ClearMissing(c.d, c.to - 2) THEN Panic("clearpteu")
     ELSE \/ Fail(p, SpaceOf(c.d), {})
          \/ /\ Copyout(c.d, c.to - 1)
             /\ free' = free \cup SpaceOf(pgdir[p])
             /\ mem' = Junked(SpaceOf(pgdir[p]))
             /\ pgdir' = [pgdir EXCEPT ![p] = c.d]
             /\ sz' = [sz EXCEPT ![p] = c.to]
             /\ k' = [k EXCEPT ![p] = Idle]
             /\ UNCHANGED <<slots, calls, panicked, ghost>>

(* The child of a fork gets the copy. *)
ForkDone(p) ==
  LET q == k[p].child IN
  /\ At(p, "grow") /\ k[p].what = "fork" /\ k[p].a = k[p].to
  /\ pgdir' = [pgdir EXCEPT ![q] = k[p].d]
  /\ sz' = [sz EXCEPT ![q] = sz[p]]
  /\ status' = [status EXCEPT ![q] = "live"]
  /\ k' = [k EXCEPT ![p] = Idle]
  /\ UNCHANGED <<free, mem, type, parent, kstack, calls, panicked, ghost>>

(* exit: a process outlives its threads (module ThreadLife), init all. *)
Exit(p) ==
  /\ At(p, "idle") \/ At(p, "killed")
  /\ p # First /\ Threads(p) = {}
  /\ status' = [status EXCEPT ![p] = "zombie"]
  /\ k' = [k EXCEPT ![p] = Idle]
  /\ UNCHANGED <<free, mem, type, parent, kstack, pgdir, sz, calls, panicked, ghost>>

(* wait and kthread_join free the kernel stack, wait also the address space. *)
Reap(q) ==
  LET back == {kstack[q]} \cup (IF type[q] = 1 THEN {} ELSE SpaceOf(pgdir[q])) IN
  /\ panicked = "no" /\ status[q] = "zombie"
  /\ free' = free \cup back
  /\ mem' = Junked(back)
  /\ status' = [status EXCEPT ![q] = "unused"]
  /\ type' = [type EXCEPT ![q] = 0]
  /\ parent' = [parent EXCEPT ![q] = 0]
  /\ kstack' = [kstack EXCEPT ![q] = 0]
  /\ pgdir' = [pgdir EXCEPT ![q] = 0]
  /\ UNCHANGED <<sz, k, calls, panicked, ghost>>

Next ==
  \E p \in Procs :
    \/ \E n \in 1..2 : SbrkGrow(p, n) \/ SbrkShrink(p, n)
    \/ Exec(p) \/ \E q \in Procs : Fork(p, q, TRUE) \/ Fork(p, q, FALSE)
    \/ SetupDir(p) \/ SetupKernel(p) \/ TakePage(p) \/ MapPage(p)
    \/ SbrkDone(p) \/ ExecLoad(p) \/ ExecCommit(p) \/ ForkDone(p)
    \/ Exit(p) \/ Reap(p)

Spec == Init /\ [][Next]_vars

-----------------------------------------------------------------------------
(* The address spaces that exist: of processes, and those being built. *)
Owners   == {p \in Procs : status[p] \in {"live", "zombie"} /\ type[p] = 0}
Builders == {p \in Procs : k[p].d # 0 /\ k[p].what # "sbrk"}
Spaces   == {pgdir[p] : p \in Owners} \cup {k[p].d : p \in Builders}

(* All the places that name page g as theirs. *)
Places(g) ==
  {<<"free">> : x \in free \cap {g}} \cup {<<"lost">> : x \in lost \cap {g}}
  \cup {<<"stack", p>> : p \in {q \in Procs : kstack[q] = g}}
  \cup {<<"hand", p>> : p \in {q \in Procs : k[q].page = g}}
  \cup {<<"dir", p>> : p \in {q \in Owners : pgdir[q] = g}}
  \cup {<<"new", p>> : p \in {q \in Builders : k[q].d = g}}
  \cup UNION {{<<"entry", t, e[1]>> : e \in {x \in mem[t] : x[2] = g}} :
               t \in UNION {{d} \cup Tables(d) : d \in Spaces}}

(* At every moment every page of memory has exactly one place: the free      *)
(* list, one entry of one table, one directory, one kernel stack, the hands  *)
(* of one call, or the pages the code is known to forget (setupkvm without   *)
(* its table, mappages without one in copyuvm and allocuvm).  So no error    *)
(* path of exec, fork or sbrk frees a page twice, keeps a freed page or      *)
(* leaks another, whatever the others allocate meanwhile. *)
PagesAccounted == \A g \in Pages : Cardinality(Places(g)) = 1

(* fetchint, fetchstr, argptr: the kernel accepts addresses below sz. *)
ArgOk(p, v) == v < sz[p]

(* Whatever address the kernel accepts from a program is mapped, so that     *)
(* system calls may use it and copyuvm may copy it; and none of the panics   *)
(* of vm.c ("remap", "copyuvm: ...", "loaduvm: ...", "clearpteu") is met,    *)
(* unless allocuvm once overlooked that a page could not be mapped. *)
ArgsMapped ==
  \/ hole
  \/ /\ panicked = "no"
     /\ \A p \in Procs : status[p] = "live" /\ k[p].pc # "killed"
          => \A v \in 0..(KERNBASE - 1) : ArgOk(p, v) => Pte(pgdir[p], v) # {}

Image(p) == {<<v, Pte(pgdir[p], v)>> : v \in 0..(KERNBASE - 1)}

(* What a process has mapped changes only by its own sbrk (or one of its     *)
(* threads'): an exec that fails, however late, leaves the old image whole,  *)
(* and no call of another process touches it. *)
ImageKept ==
  [][\A p \in Procs :
       status[p] = "live" /\ pgdir'[p] = pgdir[p] /\ Image(p)' # Image(p)
         => \E q \in Procs : /\ pgdir[q] = pgdir[p]
                             /\ k[q].what = "sbrk" \/ calls' # calls]_vars

=============================================================================
