-------------------------------- MODULE Fs --------------------------------
(***************************************************************************)
(* Inodes, blocks, directories and paths: fs.c and the calls of sysfile.c  *)
(* that change the tree (open, link, unlink, mkdir, mknod, chdir), with    *)
(* write and close of an open file.  mkfs.c makes the first image.         *)
(*                                                                         *)
(* A section under icache.lock is one step.  The information in a locked   *)
(* inode belongs to the holder of the lock, so the code from ilock to      *)
(* iunlock is one step as long as it takes no other sleeping lock and      *)
(* enters the bitmap or the inode blocks at most once.  An inode that      *)
(* stays locked between two steps has busy # 0.  Every call runs between   *)
(* begin_op and end_op, so a crash (module Log) never splits one.          *)
(***************************************************************************)
EXTENDS Integers, Sequences, FiniteSets, FiniteSetsExt, SequencesExt

CONSTANTS
  Procs,       \* the processes that make calls, not 0
  NINODES,     \* inodes on the disk
  NINODE,      \* entries of the inode cache
  NBLOCKS,     \* data blocks on the disk
  NDIRECT, NINDIRECT,   \* block addresses in an inode and in an indirect block
  Files, Dirs, \* names mkfs and an earlier mkdir have put into the root
  Calls,       \* the calls processes make: [op, path, new]
  MaxCalls     \* bound: calls with a path

ASSUME FsAssumption ==
  /\ 0 \notin Procs
  /\ {NINODES, NINODE, NBLOCKS, NDIRECT, MaxCalls} \subseteq Nat \ {0}
  /\ NINDIRECT \in Nat
  /\ \A c \in Calls : /\ c.path.el = <<>> => c.op \in {"open", "chdir"}
                      /\ c.op = "link" => c.new.el # <<>>

ROOTINO == 1
Inums   == 1..NINODES
Slots   == 1..NINODE
Blocks  == 1..NBLOCKS
MAXFILE == NDIRECT + NINDIRECT

VARIABLES
  dinode,    \* inodes on disk (in the cache of blocks): type, nlink, size, addrs
  used,      \* the bitmap: blocks marked in use
  data,      \* contents of a block that matter: pairs <<name, inum>> of a
             \* directory, <<index, block>> of an indirect block
  icache,    \* slots: inum, ref, I_BUSY (the holder or 0), I_VALID, copy of dinode
  cwd, fd, off,   \* of each process: slots, and the offset of its open file
  k,         \* where each process is in its call
  calls, panicked,
  stray      \* history: inodes with a name in a directory that was freed

disk == <<dinode, used, data>>
user == <<cwd, fd, off>>
rest == <<user, calls, panicked, stray>>
vars == <<disk, icache, k, rest>>

Zero == [a \in 1..(NDIRECT + 1) |-> 0]
FreeInode == [type |-> "none", nlink |-> 0, size |-> 0, addrs |-> Zero]
OneBlock(type, nlink, b) ==
  [type |-> type, nlink |-> nlink, size |-> 1, addrs |-> [Zero EXCEPT ![1] = b]]
Idle == [pc |-> "idle", op |-> "none", at |-> 0, ip |-> 0, el |-> <<>>,
         new |-> [abs |-> TRUE, el |-> <<>>], par |-> FALSE, drop |-> <<>>,
         freeing |-> FALSE, todo |-> <<>>]

(* The image: root, one block for each file, and the directories of Dirs. *)
Init ==
  LET nf == Len(Files)
      nd == Len(Dirs)
      in == 1 + nf + nd
      names == Files \o Dirs
  IN
  /\ dinode = [i \in Inums |->
       CASE i = ROOTINO       -> OneBlock("dir", 1 + nd, 1)
         [] i \in 2..(1 + nf) -> OneBlock("file", 1, i)
         [] i \in (2 + nf)..in -> OneBlock("dir", 1, i)
         [] OTHER             -> FreeInode]
  /\ used = 1..in
  /\ data = [b \in Blocks |->
       CASE b = 1 -> {<<".", 1>>, <<"..", 1>>} \cup {<<names[j], j + 1>> : j \in DOMAIN names}
         [] b \in (2 + nf)..in -> {<<".", b>>, <<"..", 1>>}
         [] OTHER -> {}]
  /\ icache = [s \in Slots |-> [inum |-> IF s = 1 THEN ROOTINO ELSE 0,
                                ref |-> IF s = 1 THEN Cardinality(Procs) ELSE 0,
                                busy |-> 0, valid |-> FALSE, d |-> FreeInode]]
  /\ cwd = [p \in Procs |-> 1]
  /\ fd = [p \in Procs |-> 0]
  /\ off = [p \in Procs |-> 0]
  /\ k = [p \in Procs |-> Idle]
  /\ calls = 0
  /\ panicked = "no"
  /\ stray = {}

-----------------------------------------------------------------------------
At(p, label) == panicked = "no" /\ k[p].pc = label /\ k[p].drop = <<>>

Panic(what) == panicked' = what /\ UNCHANGED <<disk, icache, user, k, calls, stray>>

(* iget: the slot of a cached inode, or the first free one (0: none). *)
SlotOf(c, i) ==
  LET hit  == {s \in Slots : c[s].ref > 0 /\ c[s].inum = i}
      free == {s \in Slots : c[s].ref = 0}
  IN IF hit # {} THEN Min(hit) ELSE IF free # {} THEN Min(free) ELSE 0
Iget(c, i) ==
  LET s == SlotOf(c, i)
  IN IF c[s].ref > 0 THEN [c EXCEPT ![s].ref = @ + 1]
     ELSE [c EXCEPT ![s] = [@ EXCEPT !.inum = i, !.ref = 1, !.busy = 0, !.valid = FALSE]]

(* What ilock finds in slot s: the copy if it is valid, else what is on disk. *)
Ino(s) == IF icache[s].valid THEN icache[s].d ELSE dinode[icache[s].inum]
Free(s) == icache[s].busy = 0
NoType(s) == ~icache[s].valid /\ Ino(s).type = "none"

(* Slot s after ilock by p and the change of its inode to d.  p = 0: and iunlock. *)
Hold(s, p, d) == [icache[s] EXCEPT !.busy = p, !.valid = TRUE, !.d = d]

(* iupdate writes the copies of locked inodes through: ds maps slots to them. *)
Iupdate(ds) ==
  dinode' = [i \in Inums |->
    IF \E s \in DOMAIN ds : icache[s].inum = i
      THEN ds[CHOOSE s \in DOMAIN ds : icache[s].inum = i] ELSE dinode[i]]

(* readi of a directory: its entries; dirlookup; isdirempty. *)
Entries(d) == IF d.size = 0 THEN {} ELSE data[d.addrs[1]]
Lookup(d, name) == {e[2] : e \in {x \in Entries(d) : x[1] = name}}
IsDirEmpty(d) == \A e \in Entries(d) : e[1] \in {".", ".."}

(* bmap: the address of block n, 0 if there is none. *)
Addr(d, n) ==
  IF n < NDIRECT THEN d.addrs[n + 1]
  ELSE LET ind == d.addrs[NDIRECT + 1]
           a   == IF ind = 0 THEN {} ELSE {e \in data[ind] : e[1] = n - NDIRECT}
       IN IF a = {} THEN 0 ELSE (CHOOSE e \in a : TRUE)[2]

(* Mutant of Listed: itrunc forgets the indirect block itself. *)
ListedDirect(d) ==
  SelectSeq([n \in 1..MAXFILE |-> Addr(d, n - 1)], LAMBDA b : b # 0)

(* The blocks of an inode, in the order in which itrunc frees them. *)
Listed(d) ==
  SelectSeq([n \in 1..(MAXFILE + 1) |-> IF n <= MAXFILE THEN Addr(d, n - 1)
                                        ELSE d.addrs[NDIRECT + 1]],
            LAMBDA b : b # 0)

(* balloc takes the first free block and bzero clears it. *)
Balloc == Min(Blocks \ used)
DiskFull == Blocks \subseteq used

(* The call of p goes on at pc after iput of the slots in drop. *)
Goto(p, pc, drop) == k' = [k EXCEPT ![p].pc = pc, ![p].drop = drop]

-----------------------------------------------------------------------------
(* iput of the next slot in drop. *)
IputMore(p) ==
  LET s == k[p].drop[1] IN
  /\ panicked = "no" /\ k[p].drop # <<>> /\ ~k[p].freeing
  /\ ~(icache[s].ref = 1 /\ icache[s].valid /\ icache[s].d.nlink = 0)
  /\ icache' = [icache EXCEPT ![s].ref = @ - 1]
  /\ k' = [k EXCEPT ![p].drop = Tail(@)]
  /\ UNCHANGED <<disk, rest>>

(* The last reference to an inode without links: it is locked, *)
IputLast(p) ==
  LET s == k[p].drop[1] IN
  /\ panicked = "no" /\ k[p].drop # <<>> /\ ~k[p].freeing
  /\ icache[s].ref = 1 /\ icache[s].valid /\ icache[s].d.nlink = 0
  /\ IF icache[s].busy # 0 THEN Panic("iput busy")
     ELSE /\ icache' = [icache EXCEPT ![s].busy = p]
          /\ k' = [k EXCEPT ![p].freeing = TRUE, ![p].todo = Listed(icache[s].d)]
          /\ stray' = IF icache[s].d.type = "dir"
                        THEN stray \cup {e[2] : e \in {x \in Entries(icache[s].d) :
                                                      x[1] \notin {".", ".."}}}
                        ELSE stray
          /\ UNCHANGED <<disk, user, calls, panicked>>

(* itrunc frees its blocks one by one, *)
Bfree(p) ==
  /\ panicked = "no" /\ k[p].todo # <<>>
  /\ IF k[p].todo[1] \notin used THEN Panic("freeing free block")
     ELSE /\ used' = used \ {k[p].todo[1]}
          /\ k' = [k EXCEPT ![p].todo = Tail(@)]
          /\ UNCHANGED <<dinode, data, icache, rest>>

(* the inode is freed on disk, where ialloc may find it at once, *)
Ifree(p) ==
  LET s == k[p].drop[1] IN
  /\ panicked = "no" /\ k[p].freeing /\ k[p].todo = <<>>
  /\ icache[s].d.type # "none"
  /\ icache' = [icache EXCEPT ![s].d = FreeInode]
  /\ Iupdate(s :> FreeInode)
  /\ UNCHANGED <<used, data, k, rest>>

(* Mutant of IputDone: I_VALID stays set. *)
IputDoneValid(p) ==
  LET s == k[p].drop[1] IN
  /\ panicked = "no" /\ k[p].freeing /\ icache[s].d.type = "none"
  /\ icache' = [icache EXCEPT ![s].busy = 0, ![s].ref = @ - 1]
  /\ k' = [k EXCEPT ![p].freeing = FALSE, ![p].drop = Tail(@)]
  /\ UNCHANGED <<disk, rest>>

(* and the slot gives up its lock, its copy and one reference. *)
IputDone(p) ==
  LET s == k[p].drop[1] IN
  /\ panicked = "no" /\ k[p].freeing /\ icache[s].d.type = "none"
  /\ icache' = [icache EXCEPT ![s].busy = 0, ![s].valid = FALSE, ![s].ref = @ - 1]
  /\ k' = [k EXCEPT ![p].freeing = FALSE, ![p].drop = Tail(@)]
  /\ UNCHANGED <<disk, rest>>

-----------------------------------------------------------------------------
(* namex begins at the root or at the current directory. *)
Namex(p, r, path, pc, n) ==
  LET start == IF path.abs THEN ROOTINO ELSE icache[cwd[p]].inum
      s     == IF path.abs THEN SlotOf(icache, ROOTINO) ELSE cwd[p]
  IN IF s = 0 THEN Panic("iget: no inodes")
     ELSE /\ icache' = Iget(icache, start)
          /\ k' = [k EXCEPT ![p] = [r EXCEPT !.pc = pc, !.at = s, !.el = path.el]]
          /\ calls' = n
          /\ UNCHANGED <<disk, user, panicked, stray>>

(* A call with a path begins. *)
Begin(p) ==
  /\ At(p, "idle") /\ calls < MaxCalls
  /\ \E c \in Calls :
       Namex(p, [Idle EXCEPT !.op = c.op, !.new = c.new,
                             !.par = c.op \notin {"open", "chdir", "link"}],
             c.path, IF c.path.el = <<>> THEN c.op ELSE "walk", calls + 1)

(* Where a failed path leaves the call, and where a found one takes it. *)
Failed(p) == IF k[p].op = "link" /\ k[p].ip # 0 THEN "linkbad" ELSE "idle"
Found(p)  == IF k[p].op = "link" /\ k[p].ip # 0 THEN "link2" ELSE k[p].op

(* One round of namex: lock, look up the next element, unlock, put. *)
Walk(p) ==
  LET s    == k[p].at
      d    == Ino(s)
      el   == k[p].el
      stop == k[p].par /\ Len(el) = 1
      next == Lookup(d, el[1])
      c    == [icache EXCEPT ![s] = Hold(s, 0, d)]
  IN
  /\ At(p, "walk") /\ Free(s)
  /\ IF NoType(s) THEN Panic("ilock: no type")
     ELSE IF d.type # "dir" \/ (~stop /\ next = {})
       THEN /\ icache' = c /\ Goto(p, Failed(p), <<s>>)
            /\ UNCHANGED <<disk, rest>>
     ELSE IF stop
       THEN /\ icache' = c /\ Goto(p, Found(p), <<>>)
            /\ UNCHANGED <<disk, rest>>
     ELSE IF SlotOf(c, Min(next)) = 0 THEN Panic("iget: no inodes")
     ELSE /\ icache' = Iget(c, Min(next))
          /\ k' = [k EXCEPT ![p].at = SlotOf(c, Min(next)), ![p].el = Tail(el),
                            ![p].drop = <<s>>,
                            ![p].pc = IF Len(el) = 1 THEN Found(p) ELSE "walk"]
          /\ UNCHANGED <<disk, rest>>

-----------------------------------------------------------------------------
(* sys_open of an existing file.  A process has one descriptor here. *)
Open(p) ==
  LET s == k[p].at IN
  /\ At(p, "open") /\ Free(s)
  /\ IF NoType(s) THEN Panic("ilock: no type")
     ELSE /\ icache' = [icache EXCEPT ![s] = Hold(s, 0, Ino(s))]
          /\ IF Ino(s).type = "dir" \/ fd[p] # 0
               THEN Goto(p, "idle", <<s>>) /\ UNCHANGED fd
               ELSE Goto(p, "idle", <<>>) /\ fd' = [fd EXCEPT ![p] = s]
          /\ off' = [off EXCEPT ![p] = IF fd'[p] # fd[p] THEN 0 ELSE @]
          /\ UNCHANGED <<disk, cwd, calls, panicked, stray>>

(* sys_chdir: the old directory is put after the new one is unlocked. *)
Chdir(p) ==
  LET s == k[p].at IN
  /\ At(p, "chdir") /\ Free(s)
  /\ IF NoType(s) THEN Panic("ilock: no type")
     ELSE /\ icache' = [icache EXCEPT ![s] = Hold(s, 0, Ino(s))]
          /\ IF Ino(s).type # "dir"
               THEN Goto(p, "idle", <<s>>) /\ UNCHANGED cwd
               ELSE Goto(p, "idle", <<cwd[p]>>) /\ cwd' = [cwd EXCEPT ![p] = s]
          /\ UNCHANGED <<disk, fd, off, calls, panicked, stray>>

(* Mutant of Link: the inode stays locked while the new path is walked. *)
LinkLocked(p) ==
  LET s == k[p].at
      d == [Ino(s) EXCEPT !.nlink = @ + 1]
  IN
  /\ At(p, "link") /\ Free(s) /\ d.type # "dir"
  /\ icache' = [icache EXCEPT ![s] = Hold(s, p, d)]
  /\ Iupdate(s :> d)
  /\ k' = [k EXCEPT ![p].pc = "newpath", ![p].ip = s]
  /\ UNCHANGED <<used, data, rest>>

(* sys_link counts the new link first, *)
Link(p) ==
  LET s == k[p].at
      d == [Ino(s) EXCEPT !.nlink = @ + 1]
  IN
  /\ At(p, "link") /\ Free(s)
  /\ IF NoType(s) THEN Panic("ilock: no type")
     ELSE IF d.type = "dir"
       THEN /\ icache' = [icache EXCEPT ![s] = Hold(s, 0, Ino(s))]
            /\ Goto(p, "idle", <<s>>)
            /\ UNCHANGED <<disk, rest>>
       ELSE /\ icache' = [icache EXCEPT ![s] = Hold(s, 0, d)]
            /\ Iupdate(s :> d)
            /\ k' = [k EXCEPT ![p].pc = "newpath", ![p].ip = s]
            /\ UNCHANGED <<used, data, rest>>

(* walks to the directory of the new name, *)
LinkPath(p) ==
  /\ At(p, "newpath")
  /\ Namex(p, [k[p] EXCEPT !.par = TRUE], k[p].new, "walk", calls)

(* and enters it there, unless the name is taken (dirlink). *)
LinkEnter(p) ==
  LET s    == k[p].at
      d    == Ino(s)
      name == k[p].el[1]
  IN
  /\ At(p, "link2") /\ Free(s)
  /\ icache' = [icache EXCEPT ![s] = Hold(s, 0, d)]
  /\ IF Lookup(d, name) # {}
       THEN Goto(p, "linkbad", <<s>>) /\ UNCHANGED data
       ELSE /\ data' = [data EXCEPT ![d.addrs[1]] =
                          @ \cup {<<name, icache[k[p].ip].inum>>}]
            /\ Goto(p, "idle", <<s, k[p].ip>>)
  /\ UNCHANGED <<dinode, used, rest>>

(* Mutant of LinkBad: the count stays. *)
LinkBadKept(p) ==
  /\ At(p, "linkbad") /\ Free(k[p].ip)
  /\ Goto(p, "idle", <<k[p].ip>>)
  /\ UNCHANGED <<disk, icache, rest>>

(* The count is taken back. *)
LinkBad(p) ==
  LET s == k[p].ip
      d == [Ino(s) EXCEPT !.nlink = @ - 1]
  IN
  /\ At(p, "linkbad") /\ Free(s)
  /\ icache' = [icache EXCEPT ![s] = Hold(s, 0, d)]
  /\ Iupdate(s :> d)
  /\ Goto(p, "idle", <<s>>)
  /\ UNCHANGED <<used, data, rest>>

-----------------------------------------------------------------------------
(* sys_unlink locks the directory and finds the entry, *)
Unlink(p) ==
  LET s    == k[p].at
      d    == Ino(s)
      name == k[p].el[1]
      held == [icache EXCEPT ![s] = Hold(s, p, d)]
      i    == Min(Lookup(d, name))
  IN
  /\ At(p, "unlink") /\ Free(s)
  /\ IF name \in {".", ".."} \/ Lookup(d, name) = {}
       THEN /\ icache' = [icache EXCEPT ![s] = Hold(s, 0, d)]
            /\ Goto(p, "idle", <<s>>)
            /\ UNCHANGED <<disk, rest>>
     ELSE IF SlotOf(held, i) = 0 THEN Panic("iget: no inodes")
     ELSE /\ icache' = Iget(held, i)
          /\ k' = [k EXCEPT ![p].pc = "unlink2", ![p].ip = SlotOf(held, i)]
          /\ UNCHANGED <<disk, rest>>

(* locks what it names, removes the entry and unlocks the directory, *)
UnlinkEntry(p) ==
  LET dp == k[p].at
      s  == k[p].ip
      d  == Ino(s)
      dd == IF d.type = "dir" THEN [Ino(dp) EXCEPT !.nlink = @ - 1] ELSE Ino(dp)
  IN
  /\ At(p, "unlink2") /\ Free(s)
  /\ IF NoType(s) THEN Panic("ilock: no type")
     ELSE IF d.nlink < 1 THEN Panic("unlink: nlink < 1")
     ELSE IF d.type = "dir" /\ ~IsDirEmpty(d)
       THEN /\ icache' = [icache EXCEPT ![s] = Hold(s, 0, d)]
            /\ Goto(p, "unlinkbad", <<s>>)
            /\ UNCHANGED <<disk, rest>>
       ELSE /\ data' = [data EXCEPT ![dd.addrs[1]] = {e \in @ : e[1] # k[p].el[1]}]
            /\ icache' = [icache EXCEPT ![dp] = Hold(dp, 0, dd), ![s] = Hold(s, p, d)]
            /\ Iupdate(dp :> dd)
            /\ Goto(p, "unlink3", <<dp>>)
            /\ UNCHANGED <<used, rest>>

UnlinkBad(p) ==
  /\ At(p, "unlinkbad")
  /\ icache' = [icache EXCEPT ![k[p].at].busy = 0]
  /\ Goto(p, "idle", <<k[p].at>>)
  /\ UNCHANGED <<disk, rest>>

(* and counts the link that is gone. *)
UnlinkCount(p) ==
  LET s == k[p].ip
      d == [Ino(s) EXCEPT !.nlink = @ - 1]
  IN
  /\ At(p, "unlink3")
  /\ icache' = [icache EXCEPT ![s] = Hold(s, 0, d)]
  /\ Iupdate(s :> d)
  /\ Goto(p, "idle", <<s>>)
  /\ UNCHANGED <<used, data, rest>>

-----------------------------------------------------------------------------
(* create: the name exists, *)
Creating == {"create", "mkdir", "mknod"}
TypeFor(op) == CASE op = "create" -> "file" [] op = "mkdir" -> "dir" [] op = "mknod" -> "dev"

CreateExists(p) ==
  LET s == k[p].at
      d == Ino(s)
      i == Min(Lookup(d, k[p].el[1]))
      c == [icache EXCEPT ![s] = Hold(s, 0, d)]
  IN
  /\ k[p].pc \in Creating /\ At(p, k[p].pc) /\ Free(s)
  /\ Lookup(d, k[p].el[1]) # {}
  /\ IF SlotOf(c, i) = 0 THEN Panic("iget: no inodes")
     ELSE /\ icache' = Iget(c, i)
          /\ k' = [k EXCEPT ![p].pc = "exists", ![p].at = SlotOf(c, i), ![p].drop = <<s>>]
          /\ UNCHANGED <<disk, rest>>

(* and is opened if it is a file and one was asked for; *)
OpenExisting(p) ==
  LET s == k[p].at IN
  /\ At(p, "exists") /\ Free(s)
  /\ IF NoType(s) THEN Panic("ilock: no type")
     ELSE IF k[p].op = "create" /\ Ino(s).type = "file"
       THEN /\ icache' = [icache EXCEPT ![s] = Hold(s, p, Ino(s))]
            /\ k' = [k EXCEPT ![p].pc = "made", ![p].ip = s]
            /\ UNCHANGED <<disk, rest>>
       ELSE /\ icache' = [icache EXCEPT ![s] = Hold(s, 0, Ino(s))]
            /\ Goto(p, "idle", <<s>>)
            /\ UNCHANGED <<disk, rest>>

(* Mutant of CreateAlloc: the directory is not kept locked. *)
CreateAllocUnlocked(p) ==
  LET free == {i \in Inums : dinode[i].type = "none"} IN
  /\ k[p].pc \in Creating /\ At(p, k[p].pc) /\ Free(k[p].at)
  /\ Lookup(Ino(k[p].at), k[p].el[1]) = {}
  /\ \E i \in free :
       /\ dinode' = [dinode EXCEPT ![i] = [FreeInode EXCEPT !.type = TypeFor(k[p].op)]]
       /\ icache' = Iget(icache, i)
       /\ k' = [k EXCEPT ![p].pc = "new", ![p].ip = SlotOf(icache, i)]
       /\ UNCHANGED <<used, data, rest>>

(* it does not: with the directory locked, ialloc claims a free inode.  Its *)
(* scan lets go of each block it has read, so any free inode may be it. *)
CreateAlloc(p) ==
  LET s    == k[p].at
      d    == Ino(s)
      c    == [icache EXCEPT ![s] = Hold(s, p, d)]
      free == {i \in Inums : dinode[i].type = "none"}
  IN
  /\ k[p].pc \in Creating /\ At(p, k[p].pc) /\ Free(s)
  /\ Lookup(d, k[p].el[1]) = {}
  /\ IF free = {} THEN Panic("ialloc: no inodes")
     ELSE \E i \in free :
       IF SlotOf(c, i) = 0 THEN Panic("iget: no inodes")
       ELSE /\ dinode' = [dinode EXCEPT ![i] = [FreeInode EXCEPT !.type = TypeFor(k[p].op)]]
            /\ icache' = Iget(c, i)
            /\ k' = [k EXCEPT ![p].pc = "new", ![p].ip = SlotOf(c, i)]
            /\ UNCHANGED <<used, data, rest>>

(* Both inodes are locked: the new one gets its link, a directory its dots  *)
(* and the block they need, and the directory its entry. *)
CreateEnter(p) ==
  LET dp  == k[p].at
      s   == k[p].ip
      dir == k[p].op = "mkdir"
      d   == IF dir THEN OneBlock("dir", 1, Balloc) ELSE [Ino(s) EXCEPT !.nlink = 1]
      dd  == IF dir THEN [Ino(dp) EXCEPT !.nlink = @ + 1] ELSE Ino(dp)
      dots == {<<".", icache[s].inum>>, <<"..", icache[dp].inum>>}
      entered == [data EXCEPT ![dd.addrs[1]] = @ \cup {<<k[p].el[1], icache[s].inum>>}]
  IN
  /\ At(p, "new") /\ Free(s)
  /\ IF NoType(s) THEN Panic("ilock: no type")
     ELSE IF dir /\ DiskFull THEN Panic("balloc: out of blocks")
     ELSE IF Lookup(dd, k[p].el[1]) # {} THEN Panic("create: dirlink")
     ELSE /\ used' = IF dir THEN used \cup {Balloc} ELSE used
          /\ data' = IF dir THEN [entered EXCEPT ![Balloc] = dots] ELSE entered
          /\ icache' = [icache EXCEPT ![dp] = Hold(dp, 0, dd), ![s] = Hold(s, p, d)]
          /\ Iupdate(dp :> dd @@ s :> d)
          /\ Goto(p, "made", <<dp>>)
          /\ UNCHANGED rest

(* The inode create has left locked is opened, or put by mkdir and mknod. *)
Made(p) ==
  LET s == k[p].ip IN
  /\ At(p, "made")
  /\ icache' = [icache EXCEPT ![s].busy = 0]
  /\ IF k[p].op = "create" /\ fd[p] = 0
       THEN /\ fd' = [fd EXCEPT ![p] = s] /\ off' = [off EXCEPT ![p] = 0]
            /\ Goto(p, "idle", <<>>)
       ELSE Goto(p, "idle", <<s>>) /\ UNCHANGED <<fd, off>>
  /\ UNCHANGED <<disk, cwd, calls, panicked, stray>>

-----------------------------------------------------------------------------
(* A write of one block at the offset: bmap first gets the indirect block, *)
Write(p) ==
  LET s == fd[p]
      d == Ino(s)
      b == Balloc
      new == [d EXCEPT !.addrs[NDIRECT + 1] = b]
  IN
  /\ At(p, "idle") /\ s # 0 /\ Free(s)
  /\ d.type = "file" /\ off[p] < MAXFILE
  /\ IF off[p] < NDIRECT \/ d.addrs[NDIRECT + 1] # 0
       THEN /\ icache' = [icache EXCEPT ![s] = Hold(s, p, d)]
            /\ UNCHANGED <<used, data, panicked>>
            /\ Goto(p, "write", <<>>)
     ELSE IF DiskFull THEN Panic("balloc: out of blocks")
     ELSE /\ icache' = [icache EXCEPT ![s] = Hold(s, p, new)]
          /\ used' = used \cup {b}
          /\ data' = [data EXCEPT ![b] = {}]
          /\ Goto(p, "write", <<>>)
          /\ UNCHANGED panicked
  /\ UNCHANGED <<dinode, user, calls, stray>>

(* then the block itself; the size grows at the end. *)
WriteBlock(p) ==
  LET s == fd[p]
      n == off[p]
      b == Balloc
      fresh == Addr(Ino(s), n) = 0
      sized == IF n = Ino(s).size THEN [Ino(s) EXCEPT !.size = n + 1] ELSE Ino(s)
      d     == IF fresh /\ n < NDIRECT THEN [sized EXCEPT !.addrs[n + 1] = b] ELSE sized
      ind   == d.addrs[NDIRECT + 1]
      zeroed == [data EXCEPT ![b] = {}]
  IN
  /\ At(p, "write")
  /\ IF fresh /\ DiskFull THEN Panic("balloc: out of blocks")
     ELSE /\ used' = IF fresh THEN used \cup {b} ELSE used
          /\ data' = IF ~fresh THEN data
                     ELSE IF n < NDIRECT THEN zeroed
                     ELSE [zeroed EXCEPT ![ind] = @ \cup {<<n - NDIRECT, b>>}]
          /\ icache' = [icache EXCEPT ![s] = Hold(s, 0, d)]
          /\ Iupdate(s :> d)
          /\ off' = [off EXCEPT ![p] = n + 1]
          /\ Goto(p, "idle", <<>>)
          /\ UNCHANGED <<cwd, fd, calls, panicked, stray>>

(* fileclose of the last descriptor. *)
Close(p) ==
  /\ At(p, "idle") /\ fd[p] # 0
  /\ fd' = [fd EXCEPT ![p] = 0]
  /\ Goto(p, "idle", <<fd[p]>>)
  /\ UNCHANGED <<disk, icache, cwd, off, calls, panicked, stray>>

-----------------------------------------------------------------------------
Iput(p) == IputMore(p) \/ IputLast(p) \/ Bfree(p) \/ Ifree(p) \/ IputDone(p)

(* What p does inside a call. *)
Step(p) ==
  \/ Iput(p) \/ Walk(p) \/ Open(p) \/ Chdir(p)
  \/ Link(p) \/ LinkPath(p) \/ LinkEnter(p) \/ LinkBad(p)
  \/ Unlink(p) \/ UnlinkEntry(p) \/ UnlinkBad(p) \/ UnlinkCount(p)
  \/ CreateExists(p) \/ OpenExisting(p) \/ CreateAlloc(p) \/ CreateEnter(p)
  \/ Made(p) \/ WriteBlock(p)

InCall(p) == k[p].pc # "idle" \/ k[p].drop # <<>>

(* All calls are made and over, or the kernel has stopped. *)
Rest ==
  /\ panicked # "no" \/ (calls = MaxCalls /\ \A p \in Procs : ~InCall(p))
  /\ UNCHANGED vars

Next == (\E p \in Procs : Begin(p) \/ Write(p) \/ Close(p) \/ Step(p)) \/ Rest

Spec == Init /\ [][Next]_vars

-----------------------------------------------------------------------------
(* The inode as the file system sees it: a valid copy before the disk. *)
Cur(i) ==
  LET c == {s \in Slots : icache[s].ref > 0 /\ icache[s].inum = i /\ icache[s].valid}
  IN IF c = {} THEN dinode[i] ELSE icache[CHOOSE s \in c : TRUE].d


(* The processes that are freeing inode i in iput. *)
Freeing(i) == {p \in Procs : k[p].freeing /\ icache[k[p].drop[1]].inum = i}

(* The entries <<directory, name, inum>> of the directories that are in use, *)
(* and those that link counts count: not ".", and ".." only of a directory   *)
(* that is the root or has a name itself. *)
AllEntries ==
  UNION {{<<d, e[1], e[2]>> : e \in Entries(Cur(d))} :
           d \in {i \in Inums : Cur(i).type = "dir" /\ Freeing(i) = {}}}
Counted ==
  LET all   == AllEntries
      named == {ROOTINO} \cup {e[3] : e \in {x \in all : x[2] \notin {".", ".."}}}
  IN {e \in all : e[2] # "." /\ (e[2] = ".." => e[1] \in named)}

(* The calls that have counted a link they have not entered (link), or not  *)
(* yet uncounted one they have removed (unlink). *)
Pending(i) ==
  {p \in Procs : /\ \/ k[p].op = "link" /\ k[p].pc \in {"newpath", "walk", "link2", "linkbad"}
                    \/ k[p].pc = "unlink3"
                 /\ k[p].ip # 0 /\ icache[k[p].ip].inum = i}

(* In every state of every interleaving, the link count of an inode is the  *)
(* number of entries that name it, give or take the calls that are half way *)
(* (fs.c: "the number of links referring to it").  The exception is the     *)
(* code's own: a file entered in a directory that was already removed keeps *)
(* its count when that directory is freed. *)
LinkExact ==
  LET counted == Counted IN
  \A i \in Inums :
    Cur(i).type # "none" /\ i \notin stray =>
      Cur(i).nlink = Cardinality({e \in counted : e[3] = i}) + Cardinality(Pending(i))

(* The bitmap marks exactly the blocks that inodes hold, each held once, and *)
(* every block below a file's size is there (so bmap never allocates for a   *)
(* read): balloc, bfree, bmap and itrunc. *)
Holds(i) ==
  IF Freeing(i) = {} THEN Listed(Cur(i))
  ELSE k[CHOOSE p \in Freeing(i) : TRUE].todo
BlocksOwned ==
  LET all == FoldSet(LAMBDA i, l : l \o Holds(i), <<>>, Inums) IN
  /\ used = Range(all) /\ Len(all) = Cardinality(used)
  /\ \A i \in Inums : Freeing(i) = {} => \A n \in 0..(Cur(i).size - 1) : Addr(Cur(i), n) # 0

(* An inode that is cached and not locked is the same on disk, and no inode *)
(* is cached twice: every change is followed by iupdate before iunlock, and *)
(* a slot is recycled only after its last reference is gone. *)
WrittenBack ==
  \A s \in Slots : icache[s].ref > 0 =>
    /\ icache[s].valid /\ Free(s) => icache[s].d = dinode[icache[s].inum]
    /\ \A t \in Slots \ {s} : icache[t].ref > 0 => icache[t].inum # icache[s].inum

(* Out of inodes, slots or blocks the kernel panics, but it never meets an   *)
(* inode without a type, a busy inode at its last iput, a link count below   *)
(* one, a free block to free or a name that appeared while it held the lock. *)
NoFsPanic ==
  panicked \in {"no", "ialloc: no inodes", "iget: no inodes", "balloc: out of blocks"}

(* The inode p has to lock next, and who waits for whom. *)
Wanted(p) ==
  IF k[p].drop # <<>> \/ k[p].pc \in {"idle", "newpath", "unlinkbad", "unlink3", "made", "write"}
    THEN 0
  ELSE IF k[p].pc \in {"unlink2", "new", "linkbad"} THEN k[p].ip ELSE k[p].at
Waits == {<<p, q>> \in Procs \X Procs : Wanted(p) # 0 /\ icache[Wanted(p)].busy = q}

(* Calls never wait for each other in a circle, nor one for itself: a call   *)
(* that waits in ilock while it holds an inode holds the directory of the    *)
(* one it waits for, or waits for an inode nobody else can name yet. *)
NoCircularWait ==
  \A S \in SUBSET Procs \ {{}} : \E p \in S : \A q \in S : <<p, q>> \notin Waits
=============================================================================
