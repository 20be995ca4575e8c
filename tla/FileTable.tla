----------------------------- MODULE FileTable -----------------------------
(***************************************************************************)
(* Open files and their descriptors: file.c, the descriptor calls of       *)
(* sysfile.c, and what fork, exit and chdir do to descriptors and to the   *)
(* current directory.  ref of the inode cache (iget, idup, iput of fs.c)   *)
(* is counted here, since open files and current directories are its       *)
(* long-term holders.                                                      *)
(*                                                                         *)
(* A process owns its descriptors.  A thread starts with a copy of its     *)
(* creator's that no reference count knows of.  A section under            *)
(* ftable.lock or icache.lock is one step; descriptors have no lock.       *)
(***************************************************************************)
EXTENDS Integers, FiniteSets, FiniteSetsExt

CONSTANTS
  Procs,      \* slots of the process table
  First,      \* the process that runs first
  NOFILE,     \* descriptors of a proc
  NFILE,      \* entries of ftable
  Inodes,     \* inodes that are opened, not 0
  Root,       \* the inode that is the first current directory
  ThreadOps,  \* what threads, and processes that have threads, also do:
              \* "open", "close", "exit", "chdir"
  MaxCalls    \* bound: system calls made

ASSUME FileAssumption ==
  /\ First \in Procs /\ 0 \notin Procs
  /\ NOFILE \in Nat \ {0} /\ NFILE \in Nat \ {0}
  /\ Root \in Inodes /\ 0 \notin Inodes
  /\ ThreadOps \subseteq {"open", "close", "exit", "chdir"}
  /\ MaxCalls \in Nat

Files == 1..NFILE
Fds   == 0..(NOFILE - 1)

VARIABLES
  kind,      \* "none", "newprocess", "newthread", "process" or "thread"
  parent,
  ofile,     \* descriptors: a file or 0
  cwd,       \* current directory or 0
  ref, type, fip,   \* struct file
  iref,      \* struct inode: ref
  pc,        \* where each proc is in its call
  f, fd, ip, np,    \* locals of the calls
  panicked,
  calls      \* counter for the bound

table  == <<ref, type, fip>>
procs  == <<kind, parent>>
locals == <<f, fd, ip, np>>
vars   == <<procs, ofile, cwd, table, iref, pc, locals, panicked, calls>>

Init ==
  /\ kind = [p \in Procs |-> IF p = First THEN "process" ELSE "none"]
  /\ parent = [p \in Procs |-> 0]
  /\ ofile = [p \in Procs |-> [d \in Fds |-> 0]]
  /\ cwd = [p \in Procs |-> IF p = First THEN Root ELSE 0]
  /\ ref = [x \in Files |-> 0]
  /\ type = [x \in Files |-> "FD_NONE"]
  /\ fip = [x \in Files |-> 0]
  /\ iref = [j \in Inodes |-> IF j = Root THEN 1 ELSE 0]
  /\ pc = [p \in Procs |-> "user"]
  /\ f = [p \in Procs |-> 0]
  /\ fd = [p \in Procs |-> 0]
  /\ ip = [p \in Procs |-> 0]
  /\ np = [p \in Procs |-> 0]
  /\ panicked = FALSE
  /\ calls = 0

-----------------------------------------------------------------------------
Live(p)    == kind[p] \in {"process", "thread"}
Threads(p) == {q \in Procs : parent[q] = p /\ kind[q] \in {"newthread", "thread"}}

(* p is in the middle of a call. *)
At(p, label) == ~panicked /\ Live(p) /\ pc[p] = label

(* The discipline of the program: threads, and processes with threads, do  *)
(* only what ThreadOps says. *)
Allowed(p, what) ==
  what \in ThreadOps \/ (kind[p] = "process" /\ Threads(p) = {})

(* A system call begins. *)
Call(p) ==
  /\ At(p, "user")
  /\ calls < MaxCalls
  /\ calls' = calls + 1

Goto(p, label) == pc' = [pc EXCEPT ![p] = label]

(* The call is done with its file. *)
Done(p, label) == f' = [f EXCEPT ![p] = 0] /\ Goto(p, label)

(* A call is over, but a closing exit() goes on with its next descriptor. *)
Resume(p) == IF fd[p] = 0 THEN "user" ELSE "exit"

Panic == panicked' = TRUE /\ UNCHANGED <<procs, ofile, cwd, table, iref, pc,
                                         locals, calls>>

-----------------------------------------------------------------------------
(* sys_open: namei has found the inode and taken a reference, *)
OpenCall(p, j) ==
  /\ Call(p)
  /\ kind[p] = "process" \/ "open" \in ThreadOps
  /\ iref' = [iref EXCEPT ![j] = @ + 1]
  /\ ip' = [ip EXCEPT ![p] = j]
  /\ Goto(p, "filealloc")
  /\ UNCHANGED <<procs, ofile, cwd, table, f, fd, np, panicked>>

(* Mutant of FreeFiles: an entry is free if it has no type. *)
FreeFilesType == {x \in Files : type[x] = "FD_NONE"}

FreeFiles == {x \in Files : ref[x] = 0}
FreeFds(p) == {d \in Fds : ofile[p][d] = 0}

(* filealloc takes the first free entry, if there is one, *)
FileAlloc(p) ==
  /\ At(p, "filealloc")
  /\ FreeFiles # {}
  /\ f' = [f EXCEPT ![p] = Min(FreeFiles)]
  /\ ref' = [ref EXCEPT ![Min(FreeFiles)] = 1]
  /\ Goto(p, "fdalloc")
  /\ UNCHANGED <<procs, ofile, cwd, type, fip, iref, fd, ip, np, panicked,
                 calls>>

(* fdalloc the first free descriptor, *)
FdAlloc(p) ==
  /\ At(p, "fdalloc")
  /\ FreeFds(p) # {}
  /\ ofile' = [ofile EXCEPT ![p][Min(FreeFds(p))] = f[p]]
  /\ Goto(p, "openset")
  /\ UNCHANGED <<procs, cwd, table, iref, locals, panicked, calls>>

(* or everything is given back; *)
OpenFail(p) ==
  /\ \/ At(p, "filealloc") /\ FreeFiles = {} /\ UNCHANGED ref
     \/ At(p, "fdalloc") /\ FreeFds(p) = {} /\ ref' = [ref EXCEPT ![f[p]] = 0]
  /\ iref' = [iref EXCEPT ![ip[p]] = @ - 1]
  /\ ip' = [ip EXCEPT ![p] = 0]
  /\ Done(p, "user")
  /\ UNCHANGED <<procs, ofile, cwd, type, fip, fd, np, panicked, calls>>

(* the entry is filled in last, and the reference to the inode is its own. *)
OpenSet(p) ==
  /\ At(p, "openset")
  /\ type' = [type EXCEPT ![f[p]] = "FD_INODE"]
  /\ fip' = [fip EXCEPT ![f[p]] = ip[p]]
  /\ ip' = [ip EXCEPT ![p] = 0]
  /\ Done(p, "user")
  /\ UNCHANGED <<procs, ofile, cwd, ref, iref, fd, np, panicked, calls>>

-----------------------------------------------------------------------------
(* sys_dup: a second descriptor for the file of d, *)
DupCall(p, d) ==
  /\ Call(p)
  /\ kind[p] = "process" \/ "open" \in ThreadOps
  /\ ofile[p][d] # 0 /\ FreeFds(p) # {}
  /\ ofile' = [ofile EXCEPT ![p][Min(FreeFds(p))] = ofile[p][d]]
  /\ f' = [f EXCEPT ![p] = ofile[p][d]]
  /\ Goto(p, "filedup")
  /\ UNCHANGED <<procs, cwd, table, iref, fd, ip, np, panicked>>

(* then filedup. *)
FileDup(p) ==
  /\ At(p, "filedup")
  /\ IF ref[f[p]] < 1 THEN Panic
     ELSE /\ ref' = [ref EXCEPT ![f[p]] = @ + 1]
          /\ Done(p, "user")
          /\ UNCHANGED <<procs, ofile, cwd, type, fip, iref, fd, ip, np,
                         panicked, calls>>

(* sys_read and sys_write: argfd finds the file, *)
UseCall(p, d) ==
  /\ Call(p)
  /\ ofile[p][d] # 0
  /\ f' = [f EXCEPT ![p] = ofile[p][d]]
  /\ Goto(p, "fileread")
  /\ UNCHANGED <<procs, ofile, cwd, table, iref, fd, ip, np, panicked>>

(* which must be open. *)
FileRead(p) ==
  /\ At(p, "fileread")
  /\ IF type[f[p]] = "FD_NONE" THEN Panic
     ELSE /\ Done(p, "user")
          /\ UNCHANGED <<procs, ofile, cwd, table, iref, fd, ip, np, panicked,
                         calls>>

(* sys_close: the descriptor is cleared, a thread also clears its parent's, *)
CloseCall(p, d) ==
  /\ Call(p)
  /\ Allowed(p, "close")
  /\ ofile[p][d] # 0
  /\ f' = [f EXCEPT ![p] = ofile[p][d]]
  /\ ofile' = [q \in Procs |->
       IF q = p \/ (kind[p] = "thread" /\ q = parent[p])
         THEN [ofile[q] EXCEPT ![d] = 0] ELSE ofile[q]]
  /\ Goto(p, "fileclose")
  /\ UNCHANGED <<procs, cwd, table, iref, fd, ip, np, panicked>>

(* fileclose: a reference less, *)
FileCloseShared(p) ==
  /\ At(p, "fileclose")
  /\ ref[f[p]] > 1
  /\ ref' = [ref EXCEPT ![f[p]] = @ - 1]
  /\ Done(p, Resume(p))
  /\ UNCHANGED <<procs, ofile, cwd, type, fip, iref, fd, ip, np, panicked,
                 calls>>

(* Mutant of FileClose: the reference to the inode is not given back. *)
FileCloseNoIput(p) ==
  /\ At(p, "fileclose")
  /\ ref[f[p]] = 1
  /\ ref' = [ref EXCEPT ![f[p]] = 0]
  /\ type' = [type EXCEPT ![f[p]] = "FD_NONE"]
  /\ Done(p, Resume(p))
  /\ UNCHANGED <<procs, ofile, cwd, fip, iref, fd, ip, np, panicked, calls>>

(* and the last one frees the entry and gives up the inode.  It is an      *)
(* error to close a free entry, but not for exit(). *)
FileClose(p) ==
  LET last  == ref[f[p]] = 1
      inode == last /\ type[f[p]] = "FD_INODE" IN
  /\ At(p, "fileclose")
  /\ ref[f[p]] <= 1
  /\ IF ref[f[p]] = 0 /\ Resume(p) = "user" THEN Panic
     ELSE /\ ref' = [ref EXCEPT ![f[p]] = 0]
          /\ type' = IF last THEN [type EXCEPT ![f[p]] = "FD_NONE"] ELSE type
          /\ ip' = IF inode THEN [ip EXCEPT ![p] = fip[f[p]]] ELSE ip
          /\ Done(p, IF inode THEN "iput" ELSE Resume(p))
          /\ UNCHANGED <<procs, ofile, cwd, fip, iref, fd, np, panicked, calls>>

Iput(p) ==
  /\ At(p, "iput")
  /\ iref' = [iref EXCEPT ![ip[p]] = @ - 1]
  /\ ip' = [ip EXCEPT ![p] = 0]
  /\ Goto(p, Resume(p))
  /\ UNCHANGED <<procs, ofile, cwd, table, f, fd, np, panicked, calls>>

(* sys_chdir: a reference to the new directory for one to the old. *)
Chdir(p, j) ==
  /\ Call(p)
  /\ Allowed(p, "chdir")
  /\ iref' = [k \in Inodes |-> iref[k] + (IF k = j THEN 1 ELSE 0)
                                       - (IF k = cwd[p] THEN 1 ELSE 0)]
  /\ cwd' = [cwd EXCEPT ![p] = j]
  /\ UNCHANGED <<procs, ofile, table, pc, locals, panicked>>

-----------------------------------------------------------------------------
(* fork, of a process or of a thread, *)
ForkCall(p, q, k) ==
  /\ Call(p)
  /\ kind[p] = "process" /\ kind[q] = "none"
  /\ kind' = [kind EXCEPT ![q] = k]
  /\ parent' = [parent EXCEPT ![q] = p]
  /\ np' = [np EXCEPT ![p] = q]
  /\ Goto(p, "fork")
  /\ UNCHANGED <<ofile, cwd, table, iref, f, fd, ip, panicked>>

(* Mutant of ForkFd: the files are shared without a reference. *)
ForkFdShared(p) ==
  /\ At(p, "fork") /\ fd[p] < NOFILE
  /\ ofile' = [ofile EXCEPT ![np[p]][fd[p]] = ofile[p][fd[p]]]
  /\ fd' = [fd EXCEPT ![p] = @ + 1]
  /\ UNCHANGED <<procs, cwd, table, iref, pc, f, ip, np, panicked, calls>>

(* copies one descriptor after the other, with filedup for a process, *)
ForkFd(p) ==
  LET x == ofile[p][fd[p]]
      counted == x # 0 /\ kind[np[p]] = "newprocess" IN
  /\ At(p, "fork") /\ fd[p] < NOFILE
  /\ IF counted /\ ref[x] < 1 THEN Panic
     ELSE /\ ofile' = [ofile EXCEPT ![np[p]][fd[p]] = x]
          /\ ref' = IF counted THEN [ref EXCEPT ![x] = @ + 1] ELSE ref
          /\ fd' = [fd EXCEPT ![p] = @ + 1]
          /\ UNCHANGED <<procs, cwd, type, fip, iref, pc, f, ip, np, panicked,
                         calls>>

(* and the current directory, with idup for a process; the child runs. *)
ForkDone(p) ==
  /\ At(p, "fork") /\ fd[p] = NOFILE
  /\ cwd' = [cwd EXCEPT ![np[p]] = cwd[p]]
  /\ iref' = IF kind[np[p]] = "newprocess" THEN [iref EXCEPT ![cwd[p]] = @ + 1]
             ELSE iref
  /\ kind' = [kind EXCEPT ![np[p]] =
                IF @ = "newprocess" THEN "process" ELSE "thread"]
  /\ fd' = [fd EXCEPT ![p] = 0]
  /\ np' = [np EXCEPT ![p] = 0]
  /\ Goto(p, "user")
  /\ UNCHANGED <<parent, ofile, table, f, ip, panicked, calls>>

-----------------------------------------------------------------------------
(* exit closes the files of a process one after the other, *)
ExitCall(p) ==
  /\ At(p, "user")
  /\ kind[p] = "thread" \/ Allowed(p, "exit")
  /\ Goto(p, "exit")
  /\ UNCHANGED <<procs, ofile, cwd, table, iref, locals, panicked, calls>>

ExitFd(p) ==
  LET x == ofile[p][fd[p]]
      closes == x # 0 /\ kind[p] = "process" IN
  /\ At(p, "exit") /\ fd[p] < NOFILE
  /\ ofile' = [ofile EXCEPT ![p][fd[p]] = 0]
  /\ f' = IF closes THEN [f EXCEPT ![p] = x] ELSE f
  /\ fd' = [fd EXCEPT ![p] = @ + 1]
  /\ Goto(p, IF closes THEN "fileclose" ELSE "exit")
  /\ UNCHANGED <<procs, cwd, table, iref, ip, np, panicked, calls>>

(* gives up the current directory, of a process with iput, *)
ExitCwd(p) ==
  /\ At(p, "exit") /\ fd[p] = NOFILE /\ cwd[p] # 0
  /\ iref' = IF kind[p] = "process" THEN [iref EXCEPT ![cwd[p]] = @ - 1]
             ELSE iref
  /\ cwd' = [cwd EXCEPT ![p] = 0]
  /\ UNCHANGED <<procs, ofile, table, pc, locals, panicked, calls>>

(* and, when its threads are gone, ends. *)
ExitDone(p) ==
  /\ At(p, "exit") /\ fd[p] = NOFILE /\ cwd[p] = 0
  /\ Threads(p) = {}
  /\ kind' = [kind EXCEPT ![p] = "none"]
  /\ fd' = [fd EXCEPT ![p] = 0]
  /\ Goto(p, "user")
  /\ UNCHANGED <<parent, ofile, cwd, table, iref, f, ip, np, panicked, calls>>

Next ==
  \E p \in Procs :
    \/ \E j \in Inodes : OpenCall(p, j) \/ Chdir(p, j)
    \/ \E d \in Fds : DupCall(p, d) \/ UseCall(p, d) \/ CloseCall(p, d)
    \/ \E q \in Procs, k \in {"newprocess", "newthread"} : ForkCall(p, q, k)
    \/ FileAlloc(p) \/ FdAlloc(p) \/ OpenFail(p) \/ OpenSet(p)
    \/ FileDup(p) \/ FileRead(p) \/ FileCloseShared(p) \/ FileClose(p) \/ Iput(p)
    \/ ForkFd(p) \/ ForkDone(p)
    \/ ExitCall(p) \/ ExitFd(p) \/ ExitCwd(p) \/ ExitDone(p)

Spec == Init /\ [][Next]_vars
-----------------------------------------------------------------------------
Holders(x, label) == {p \in Procs : pc[p] = label /\ f[p] = x}

(* Both reference counts are exact.  ref of an open file is the number of  *)
(* descriptors of processes that name it, with the reference an open or a  *)
(* close in progress carries and without the one a dup has still to take   *)
(* (filedup, fileclose).  ref of an inode is the number of open files, of  *)
(* current directories and of calls in progress that point to it           *)
(* (fs.c:123): no path of open, close, fork, chdir or exit loses a         *)
(* reference or drops one twice.                                           *)
RefExact ==
  /\ \A x \in Files :
       ref[x] =
         Cardinality({pd \in Procs \X Fds :
                        /\ kind[pd[1]] \in {"newprocess", "process"}
                        /\ ofile[pd[1]][pd[2]] = x})
         + Cardinality(Holders(x, "fdalloc") \cup Holders(x, "fileclose"))
         - Cardinality(Holders(x, "filedup"))
  /\ \A j \in Inodes :
       iref[j] =
         Cardinality({x \in Files : type[x] = "FD_INODE" /\ fip[x] = j})
         + Cardinality({p \in Procs : kind[p] = "process" /\ cwd[p] = j})
         + Cardinality({p \in Procs : ip[p] = j})

(* A descriptor names the file it was opened for until its proc closes it, *)
(* a thread's uncounted copy included: the entry of ftable is not given to *)
(* another file while anybody can still use it.                            *)
FileStable ==
  [][\A p \in Procs, d \in Fds :
       LET x == ofile[p][d] IN
       /\ x # 0 /\ ofile'[p][d] = x
       /\ type[x] = "FD_INODE"
       => type'[x] = "FD_INODE" /\ fip'[x] = fip[x]]_vars

(* The checks of file.c never fail: no call meets a file that is closed    *)
(* (panic in filedup, fileclose, fileread and filewrite). *)
NoFilePanic == ~panicked
=============================================================================
