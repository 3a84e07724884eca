--------------------------------- MODULE Fs ---------------------------------
(***************************************************************************)
(* Inodes, directories and names: the inode cache and the inodes on disk   *)
(* (fs.c), and the calls that change names (sysfile.c), by processes that  *)
(* run at the same time.                                                   *)
(*                                                                         *)
(* A step is a critical section of icache.lock, or the work that a process *)
(* does on inodes it has locked (I_BUSY) up to the next such section.  The *)
(* cache is indexed by inode number.  A path is the sequence of names that *)
(* skipelem finds in it; file contents and their blocks are in Inode.      *)
(***************************************************************************)
EXTENDS Integers, Sequences, FiniteSets

CONSTANTS Procs,
          NI,         \* sb.ninodes - 1: the inodes are 1..NI, 1 is the root
          NINODE,     \* entries of the inode cache
          Names,      \* names other than "." and ".."
          Calls,      \* the calls that each process makes: op, path, link's new path
          MaxLinks    \* for DIR and FILE: no call adds a link when an inode has so many

ASSUME FsAssumption ==
  /\ NI \in Nat /\ NINODE \in Nat /\ NI > 0 /\ NINODE > 0
  /\ Names \cap {".", ".."} = {}
  /\ \A p \in Procs : \A c \in Calls[p] :
       /\ c.op \in {"open", "create", "mkdir", "unlink", "link", "chdir"}
       /\ {c.path, c.new} \subseteq Seq(Names \cup {".", ".."})

VARIABLES dinode,   \* inodes on disk: type, nlink
          dir,      \* the entries of each directory, 0 for none
          icache,   \* the cache: ref, busy, valid, type, nlink
          cwd, fd,  \* each process' directory and its open file, or 0
          pc, fr,   \* where it is, and the call's variables
          leaked,   \* history: links counted for entries that went with their directory,
                    \* above all "..", and that nobody counts off
          fault     \* the panic or corruption that stopped the machine, or "none"

vars == <<dinode, dir, icache, cwd, fd, pc, fr, leaked, fault>>
disk == <<dinode, dir, leaked>>

Inums == 1..NI
AllNames == Names \cup {".", ".."}
NoEntries == [n \in AllNames |-> 0]
Uncached == [ref |-> 0, busy |-> FALSE, valid |-> FALSE, type |-> "0", nlink |-> 0]
\* A call's variables: the path left to walk and where namei returns to; the
\* name nameiparent found; the inodes held (old: link's first one); link's
\* second path; the inodes being iput, and where to go after that
Idle == [op |-> "none", path |-> <<>>, ret |-> "user", name |-> ".", ip |-> 0, dp |-> 0,
         old |-> 0, new |-> <<>>, puts |-> <<>>, then |-> "user"]

\* mkfs's file system with just the root; userinit's namei("/")
Init ==
  /\ dinode = [i \in Inums |-> IF i = 1 THEN [type |-> "DIR", nlink |-> 1]
                               ELSE [type |-> "0", nlink |-> 0]]
  /\ dir = [i \in Inums |-> IF i = 1 THEN [NoEntries EXCEPT !["."] = 1, ![".."] = 1]
                            ELSE NoEntries]
  /\ icache = [i \in Inums |-> IF i = 1 THEN [Uncached EXCEPT !.ref = Cardinality(Procs)]
                               ELSE Uncached]
  /\ cwd = [p \in Procs |-> 1] /\ fd = [p \in Procs |-> 0]
  /\ pc = [p \in Procs |-> "user"] /\ fr = [p \in Procs |-> Idle]
  /\ leaked = [i \in Inums |-> 0]
  /\ fault = "none"

At(p, l) == fault = "none" /\ pc[p] = l
Goto(p, l) == pc' = [pc EXCEPT ![p] = l]
Panic(why) == fault' = why /\ UNCHANGED <<disk, icache, cwd, fd, pc, fr>>
Mine == UNCHANGED <<cwd, fd, fault>>
\* p goes to l with its variables set to f
Step(p, l, f) == Goto(p, l) /\ fr' = [fr EXCEPT ![p] = f]
\* iput the inodes q, then go on at l
Put(p, q, l, f) == IF q = <<>> THEN Step(p, l, f)
                   ELSE Step(p, "iput", [f EXCEPT !.puts = q, !.then = l])
Finish(p, q) == Put(p, q, "user", Idle)

-----------------------------------------------------------------------------
(* fs.c: the inode cache *)

\* iget: the cached inode, or a fresh entry without contents
Cached == {i \in Inums : icache[i].ref > 0}
CanGet(i) == icache[i].ref > 0 \/ Cardinality(Cached) < NINODE
Iget(c, i) == [c EXCEPT ![i] = IF @.ref > 0 THEN [@ EXCEPT !.ref = @ + 1]
                               ELSE [Uncached EXCEPT !.ref = 1]]

\* ilock: wait for the lock, and read the inode unless its copy is valid
Free(i) == ~icache[i].busy
Loaded(i) == IF icache[i].valid THEN icache[i]
             ELSE [icache[i] EXCEPT !.valid = TRUE, !.type = dinode[i].type,
                                    !.nlink = dinode[i].nlink]
NoType(i) == ~icache[i].valid /\ dinode[i].type = "0"
Ilock(c, i) == [c EXCEPT ![i] = [Loaded(i) EXCEPT !.busy = TRUE]]
Iunlock(c, i) == [c EXCEPT ![i].busy = FALSE]
\* ilock ... iunlock
Read(c, i) == [c EXCEPT ![i] = Loaded(i)]
\* iupdate, of an inode with nlink n
Iupdate(d, i, n) == [d EXCEPT ![i] = [type |-> Loaded(i).type, nlink |-> n]]

\* Mutant of Unused: an inode is freed when its name goes, open or not.
MUnused(i) == icache[i].valid /\ icache[i].nlink = 0
Unused(i) == icache[i].ref = 1 /\ icache[i].valid /\ icache[i].nlink = 0

\* The first of the inodes to iput is done
PutDone(p) == LET f == fr[p] IN
  Put(p, Tail(f.puts), f.then, [f EXCEPT !.puts = <<>>, !.then = "user"])

\* iput, its first critical section
Iput(p) ==
  /\ At(p, "iput")
  /\ LET i == Head(fr[p].puts) IN
       IF ~Unused(i)
         THEN /\ icache' = [icache EXCEPT ![i].ref = @ - 1]
              /\ PutDone(p)
              /\ UNCHANGED disk /\ Mine
       ELSE IF icache[i].busy THEN Panic("iput busy")
       ELSE /\ icache' = [icache EXCEPT ![i].busy = TRUE]
            /\ Goto(p, "itrunc")
            /\ UNCHANGED <<disk, fr>> /\ Mine

\* itrunc, and iupdate with type 0: free on disk.  The names in a directory go.
Itrunc(p) ==
  /\ At(p, "itrunc")
  /\ LET i == Head(fr[p].puts) IN
       /\ icache' = [icache EXCEPT ![i].type = "0"]
       /\ dinode' = [dinode EXCEPT ![i] = [type |-> "0", nlink |-> 0]]
       /\ dir' = [dir EXCEPT ![i] = NoEntries]
       /\ leaked' = [j \in Inums |-> leaked[j] +
                         Cardinality({n \in AllNames \ {"."} : dir[i][n] = j})]
  /\ Goto(p, "iputend")
  /\ UNCHANGED fr /\ Mine

\* iput, its second critical section
IputEnd(p) ==
  /\ At(p, "iputend")
  /\ LET i == Head(fr[p].puts) IN
       icache' = [icache EXCEPT ![i].busy = FALSE, ![i].ref = @ - 1]
  /\ PutDone(p)
  /\ UNCHANGED disk /\ Mine

-----------------------------------------------------------------------------
(* fs.c: directories *)

\* dirlookup: the inode that a name stands for in a directory, 0 for none; its
\* iget is the caller's
Dirlookup(d, name) == dir[d][name]

\* dirlink of a name that the directory does not have
Dirlink(e, d, name, i) == [e EXCEPT ![d][name] = i]

-----------------------------------------------------------------------------
(* fs.c: _namei *)

\* ilock(i), and then A
Locking(i, A) == Free(i) /\ IF NoType(i) THEN Panic("ilock: no type") ELSE A
\* iget(i), and then A
Getting(i, A) == IF CanGet(i) THEN A ELSE Panic("iget: no inodes")

\* iget of the root or idup of cwd, for a walk along f.path that returns to f.ret
StartWalk(p, f) ==
  \E i \in {1, cwd[p]} :
    Getting(i, /\ icache' = Iget(icache, i)
               /\ Step(p, "walk", [f EXCEPT !.ip = i])
               /\ UNCHANGED disk /\ Mine)

\* nameiparent's callers
Parent(f) == f.ret \in {"create", "unlink", "link2"}

\* One turn of the while loop; the result goes into ip, 0 for failure
Walk(p) ==
  /\ At(p, "walk") /\ fr[p].path # <<>>
  /\ LET f == fr[p]
         i == f.ip
         name == Head(f.path)
     IN Locking(i,
          IF Loaded(i).type = "DIR" /\ Parent(f) /\ Len(f.path) = 1
            THEN /\ icache' = Read(icache, i)
                 /\ Step(p, f.ret, [f EXCEPT !.name = name, !.path = <<>>])
                 /\ UNCHANGED disk /\ Mine
          ELSE IF Loaded(i).type = "DIR" /\ Dirlookup(i, name) # 0
            THEN Getting(Dirlookup(i, name),
                   /\ icache' = Iget(Read(icache, i), Dirlookup(i, name))
                   /\ Put(p, <<i>>, IF Len(f.path) = 1 THEN f.ret ELSE "walk",
                          [f EXCEPT !.ip = Dirlookup(i, name), !.path = Tail(@)])
                   /\ UNCHANGED disk /\ Mine)
          ELSE /\ icache' = Read(icache, i)
               /\ Put(p, <<i>>, f.ret, [f EXCEPT !.ip = 0, !.path = <<>>])
               /\ UNCHANGED disk /\ Mine)

WalkEnd(p) ==
  /\ At(p, "walk") /\ fr[p].path = <<>>
  /\ LET f == fr[p] IN
       IF Parent(f) THEN Put(p, <<f.ip>>, f.ret, [f EXCEPT !.ip = 0]) ELSE Step(p, f.ret, f)
  /\ UNCHANGED <<disk, icache>> /\ Mine

-----------------------------------------------------------------------------
(* sysfile.c *)

Failed(p, l) == At(p, l) /\ fr[p].ip = 0

\* The type of inode that a call adds a link to, for the bound MaxLinks
Adds(op) == CASE op = "mkdir" -> "DIR" [] op = "link" -> "FILE" [] OTHER -> "none"

\* Every call that walks starts here; link's second path comes with it.
Start(p) ==
  /\ At(p, "user")
  /\ \E c \in Calls[p] :
       /\ c.op \in {"open", "create"} => fd[p] = 0
       /\ \A i \in Inums : dinode[i].type = Adds(c.op) => dinode[i].nlink < MaxLinks[dinode[i].type]
       /\ StartWalk(p, [Idle EXCEPT !.op = c.op, !.path = c.path, !.new = c.new,
                                    !.ret = IF c.op = "mkdir" THEN "create" ELSE c.op])

\* namei or nameiparent found nothing
Fails(p) ==
  /\ \E l \in {"open", "create", "unlink", "link", "chdir"} : Failed(p, l)
  /\ Finish(p, <<>>) /\ UNCHANGED <<disk, icache>> /\ Mine

\* sys_open without O_CREATE.  A directory is not opened for writing; filealloc
\* may fail (the file table is in Files, with the panic when fdalloc fails).
Open(p) ==
  /\ At(p, "open") /\ fr[p].ip # 0
  /\ LET i == fr[p].ip IN
       Locking(i, /\ icache' = Read(icache, i)
                  /\ \/ fd' = [fd EXCEPT ![p] = i] /\ Finish(p, <<>>)
                     \/ Finish(p, <<i>>) /\ UNCHANGED fd
                  /\ UNCHANGED <<disk, cwd, fault>>)

\* sys_close, fileclose
Close(p) ==
  /\ At(p, "user") /\ fd[p] # 0
  /\ fd' = [fd EXCEPT ![p] = 0]
  /\ Finish(p, <<fd[p]>>)
  /\ UNCHANGED <<disk, icache, cwd, fault>>

\* Mutant of Chdir: the directory it leaves is not put back.
MChdir(p) ==
  /\ At(p, "chdir") /\ fr[p].ip # 0
  /\ LET i == fr[p].ip IN
       Locking(i, /\ icache' = Read(icache, i)
                  /\ IF Loaded(i).type = "DIR"
                       THEN cwd' = [cwd EXCEPT ![p] = i] /\ Finish(p, <<>>)
                       ELSE Finish(p, <<i>>) /\ UNCHANGED cwd
                  /\ UNCHANGED <<disk, fd, fault>>)

\* sys_chdir
Chdir(p) ==
  /\ At(p, "chdir") /\ fr[p].ip # 0
  /\ LET i == fr[p].ip IN
       Locking(i, /\ icache' = Read(icache, i)
                  /\ IF Loaded(i).type = "DIR"
                       THEN cwd' = [cwd EXCEPT ![p] = i] /\ Finish(p, <<cwd[p]>>)
                       ELSE Finish(p, <<i>>) /\ UNCHANGED cwd
                  /\ UNCHANGED <<disk, fd, fault>>)

\* create, up to ialloc: lock the directory; an existing name is taken when
\* sys_open calls
CreateLook(p) ==
  /\ At(p, "create") /\ fr[p].ip # 0
  /\ LET f == fr[p]
         d == f.ip
         i == Dirlookup(d, f.name)
     IN Locking(d,
          IF f.op = "create" /\ i # 0
            THEN Getting(i, /\ icache' = Iget(Read(icache, d), i)
                            /\ Put(p, <<d>>, "exists", [f EXCEPT !.ip = i])
                            /\ UNCHANGED disk /\ Mine)
            ELSE /\ icache' = Ilock(icache, d)
                 /\ Step(p, "ialloc", [f EXCEPT !.ip = 0, !.dp = d])
                 /\ UNCHANGED disk /\ Mine)

Exists(p) ==
  /\ At(p, "exists")
  /\ LET i == fr[p].ip IN
       Locking(i, IF Loaded(i).type = "FILE"
                    THEN /\ icache' = Ilock(icache, i)
                         /\ Step(p, "created", fr[p])
                         /\ UNCHANGED disk /\ Mine
                    ELSE /\ icache' = Read(icache, i)
                         /\ Finish(p, <<i>>)
                         /\ UNCHANGED disk /\ Mine)

\* ialloc: the first inode that is free on disk ...
Ialloc(p) ==
  /\ At(p, "ialloc")
  /\ LET type == IF fr[p].op = "mkdir" THEN "DIR" ELSE "FILE"
         free == {i \in Inums : dinode[i].type = "0"}
     IN IF free = {} THEN Panic("ialloc: no inodes")
        ELSE \E i \in free :
          /\ \A j \in free : i <= j
          /\ dinode' = [dinode EXCEPT ![i] = [type |-> type, nlink |-> 0]]
          /\ leaked' = [leaked EXCEPT ![i] = 0]
          /\ Step(p, "iget", [fr[p] EXCEPT !.ip = i])
          /\ UNCHANGED <<dir, icache>> /\ Mine

\* ... and its iget.  When the process that freed the inode is still in iput,
\* that finds the old copy, marked valid: the model stops at this corruption.
IallocGet(p) ==
  /\ At(p, "iget")
  /\ LET i == fr[p].ip IN
       IF icache[i].ref > 0 THEN Panic("ialloc: inode still cached")
       ELSE Getting(i, /\ icache' = Iget(icache, i)
                       /\ Step(p, "dirlink", fr[p])
                       /\ UNCHANGED disk /\ Mine)

\* Mutant of DotDot: the directory's own name is not linked to its parent.
MDotDot(c, f) == c
\* create's "dp->nlink++" for ".."
DotDot(c, f) == IF f.op = "mkdir" THEN [c EXCEPT ![f.dp].nlink = @ + 1] ELSE c

\* create, after ialloc: nlink = 1, dirlink, "." and ".."
CreateLink(p) ==
  /\ At(p, "dirlink")
  /\ LET f == fr[p]
         d == f.dp
         i == f.ip
         new == [Loaded(i) EXCEPT !.busy = TRUE, !.nlink = 1]
     IN IF Dirlookup(d, f.name) # 0
          THEN Getting(Dirlookup(d, f.name),
               /\ icache' = [icache EXCEPT ![i] = [new EXCEPT !.busy = FALSE, !.nlink = 0]]
               /\ dinode' = Iupdate(dinode, i, 1)
               /\ Put(p, <<i>>, "unlockdp", [f EXCEPT !.ip = 0])
               /\ UNCHANGED <<dir, leaked>> /\ Mine)
          ELSE LET c == DotDot([icache EXCEPT ![i] = new], f) IN
               /\ icache' = Iunlock(c, d)
               /\ dinode' = Iupdate(Iupdate(dinode, i, 1), d, c[d].nlink)
               /\ dir' = LET named == Dirlink(dir, d, f.name, i)
                         IN  IF f.op # "mkdir" THEN named
                             ELSE Dirlink(Dirlink(named, i, ".", i), i, "..", d)
               /\ Put(p, <<d>>, "created", [f EXCEPT !.dp = 0])
               /\ UNCHANGED leaked /\ Mine

\* iunlockput(dp) after iunlockput(ip)
UnlockDp(p) ==
  /\ At(p, "unlockdp")
  /\ icache' = Iunlock(icache, fr[p].dp)
  /\ Finish(p, <<fr[p].dp>>)
  /\ UNCHANGED disk /\ Mine

\* What sys_open, sys_mkdir and sys_mknod do with the locked inode; filealloc
\* may fail in sys_open.
Created(p) ==
  /\ At(p, "created")
  /\ LET i == fr[p].ip IN
       /\ icache' = Iunlock(icache, i)
       /\ \/ fr[p].op = "create" /\ fd' = [fd EXCEPT ![p] = i] /\ Finish(p, <<>>)
          \/ Finish(p, <<i>>) /\ UNCHANGED fd
  /\ UNCHANGED <<disk, cwd, fault>>

\* Mutant of UnlinkLook: "." and ".." are not refused.
MUnlinkLook(p) ==
  /\ At(p, "unlink") /\ fr[p].ip # 0
  /\ LET f == fr[p]
         d == f.ip
         i == Dirlookup(d, f.name)
     IN Locking(d,
          IF i = 0
            THEN /\ icache' = Read(icache, d) /\ Finish(p, <<d>>)
                 /\ UNCHANGED disk /\ Mine
            ELSE Getting(i, /\ icache' = Iget(Ilock(icache, d), i)
                            /\ Step(p, "unlink1", [f EXCEPT !.ip = i, !.dp = d])
                            /\ UNCHANGED disk /\ Mine))

\* sys_unlink: the directory ...
UnlinkLook(p) ==
  /\ At(p, "unlink") /\ fr[p].ip # 0
  /\ LET f == fr[p]
         d == f.ip
         i == Dirlookup(d, f.name)
     IN Locking(d,
          IF f.name \in {".", ".."} \/ i = 0
            THEN /\ icache' = Read(icache, d) /\ Finish(p, <<d>>)
                 /\ UNCHANGED disk /\ Mine
            ELSE Getting(i, /\ icache' = Iget(Ilock(icache, d), i)
                            /\ Step(p, "unlink1", [f EXCEPT !.ip = i, !.dp = d])
                            /\ UNCHANGED disk /\ Mine))

\* isdirempty
DirEmpty(i) == \A n \in Names : dir[i][n] = 0

\* ... the inode and its entry ...
UnlinkEntry(p) ==
  /\ At(p, "unlink1")
  /\ LET f == fr[p]
         i == f.ip
         d == f.dp
     IN Locking(i,
          IF Loaded(i).nlink < 1 THEN Panic("unlink: nlink < 1")
          ELSE IF Loaded(i).type = "DIR" /\ ~DirEmpty(i)
            THEN /\ icache' = Read(icache, i)
                 /\ Put(p, <<i>>, "unlockdp", [f EXCEPT !.ip = 0])
                 /\ UNCHANGED disk /\ Mine
          ELSE /\ icache' = Iunlock(Ilock(icache, i), d)
               /\ dir' = [dir EXCEPT ![d][f.name] = 0]
               /\ Put(p, <<d>>, "unlink2", [f EXCEPT !.dp = 0])
               /\ UNCHANGED <<dinode, leaked>> /\ Mine)

\* ... and its link count, which is sys_link's undoing too
DropLink(p, i, l) ==
  /\ At(p, l)
  /\ icache' = [icache EXCEPT ![i].nlink = @ - 1, ![i].busy = FALSE]
  /\ dinode' = Iupdate(dinode, i, icache[i].nlink - 1)
  /\ Finish(p, <<i>>)
  /\ UNCHANGED <<dir, leaked>> /\ Mine
UnlinkCount(p) == DropLink(p, fr[p].ip, "unlink2")

\* sys_link: the count first ...
LinkCount(p) ==
  /\ At(p, "link") /\ fr[p].ip # 0
  /\ LET f == fr[p]
         i == f.ip
     IN Locking(i,
          IF Loaded(i).type = "DIR"
            THEN /\ icache' = Read(icache, i) /\ Finish(p, <<i>>)
                 /\ UNCHANGED disk /\ Mine
            ELSE /\ icache' = [icache EXCEPT ![i] = [Loaded(i) EXCEPT !.nlink = @ + 1]]
                 /\ dinode' = Iupdate(dinode, i, Loaded(i).nlink + 1)
                 /\ Step(p, "linkwalk", [f EXCEPT !.ip = 0, !.old = i])
                 /\ UNCHANGED <<dir, leaked>> /\ Mine)
LinkWalk(p) ==
  /\ At(p, "linkwalk")
  /\ StartWalk(p, [fr[p] EXCEPT !.path = fr[p].new, !.new = <<>>, !.ret = "link2"])

\* ... then the entry; if there can be none, the count goes back
LinkEntry(p) ==
  /\ At(p, "link2")
  /\ LET f == fr[p]
         d == f.ip
     IN IF d = 0 THEN Step(p, "linkbad", f) /\ UNCHANGED <<disk, icache>> /\ Mine
        ELSE Locking(d,
          IF Dirlookup(d, f.name) # 0
            THEN Getting(Dirlookup(d, f.name),
                 /\ icache' = Read(icache, d)
                 /\ Put(p, <<d>>, "linkbad", [f EXCEPT !.ip = 0])
                 /\ UNCHANGED disk /\ Mine)
            ELSE /\ icache' = Read(icache, d)
                 /\ dir' = Dirlink(dir, d, f.name, f.old)
                 /\ Finish(p, <<d, f.old>>)
                 /\ UNCHANGED <<dinode, leaked>> /\ Mine)
LinkBad(p) == fr[p].old # 0 /\ Free(fr[p].old) /\ DropLink(p, fr[p].old, "linkbad")

Stopped == fault # "none" /\ UNCHANGED vars

-----------------------------------------------------------------------------
Kernel(p) ==
  \/ Iput(p) \/ Itrunc(p) \/ IputEnd(p) \/ Walk(p) \/ WalkEnd(p) \/ Fails(p)
  \/ Open(p) \/ Chdir(p) \/ CreateLook(p) \/ Exists(p) \/ Ialloc(p) \/ IallocGet(p)
  \/ CreateLink(p) \/ UnlockDp(p) \/ Created(p) \/ UnlinkLook(p) \/ UnlinkEntry(p)
  \/ UnlinkCount(p) \/ LinkCount(p) \/ LinkWalk(p) \/ LinkEntry(p) \/ LinkBad(p)

Next == (\E p \in Procs : Start(p) \/ Close(p) \/ Kernel(p)) \/ Stopped

Spec == Init /\ [][Next]_vars

-----------------------------------------------------------------------------
(* Properties *)

\* Type invariant of the disk, the cache and the processes.
TypeOK ==
  /\ dinode \in [Inums -> [type : {"0", "DIR", "FILE"}, nlink : Nat]]
  /\ dir \in [Inums -> [AllNames -> 0..NI]]
  /\ icache \in [Inums -> [ref : Nat, busy : BOOLEAN, valid : BOOLEAN,
                           type : {"0", "DIR", "FILE"}, nlink : Nat]]
  /\ cwd \in [Procs -> Inums] /\ fd \in [Procs -> 0..NI]
  /\ leaked \in [Inums -> Nat]
  /\ \A p \in Procs : {fr[p].ip, fr[p].dp, fr[p].old} \subseteq 0..NI

Running == fault = "none"
Number(P(_)) == Cardinality({p \in Procs : P(p)})
Putting(p) == pc[p] \in {"iput", "itrunc", "iputend"}
\* p is at l, or will be when its iputs are done
Heading(p, l) == pc[p] = l \/ (Putting(p) /\ fr[p].then = l)

\* ip->ref of every cached inode is the number of pointers to it: working
\* directories, open files, and the variables of the calls in progress, on all
\* their error paths (iget, idup, iput and their callers).
RefExact ==
  /\ TypeOK
  /\ Running => \A i \in Inums :
       icache[i].ref = Number(LAMBDA p : cwd[p] = i) + Number(LAMBDA p : fd[p] = i)
                       + Number(LAMBDA p : fr[p].ip = i /\ pc[p] # "iget")
                       + Number(LAMBDA p : fr[p].dp = i) + Number(LAMBDA p : fr[p].old = i)
                       + Cardinality({<<p, k>> \in Procs \X (1..2) :
                                        k \in DOMAIN fr[p].puts /\ fr[p].puts[k] = i})

\* Those that hold I_BUSY of i
Lockers(i) ==
  {p \in Procs : \/ fr[p].dp = i
                 \/ fr[p].ip = i /\ (Heading(p, "created") \/ Heading(p, "unlink2"))
                 \/ pc[p] \in {"itrunc", "iputend"} /\ Head(fr[p].puts) = i}

\* An inode lock has one holder at most, and I_BUSY is set as long as it has one.
OneLocker ==
  Running => \A i \in Inums : /\ Cardinality(Lockers(i)) <= 1
                              /\ icache[i].busy = (Lockers(i) # {})

\* The inode that p waits for when that is locked
Needs(p) == CASE pc[p] \in {"open", "chdir", "create", "exists", "unlink", "unlink1", "link", "link2"}
                   -> {fr[p].ip} \ {0}
              [] pc[p] = "walk" /\ fr[p].path # <<>> -> {fr[p].ip}
              [] pc[p] = "linkbad" -> {fr[p].old}
              [] OTHER -> {}

\* Processes that wait for each other's inode locks, or p for its own
Stuck(S) == \A p \in S : \E i \in Needs(p) : Lockers(i) \cap S # {}

\* No calls wait for each other's inode locks: unlink, which waits for the lock
\* of what it finds while it holds the directory's, goes down the tree, as it
\* refuses "." and ".."; namei, which also goes up, lets a directory go before
\* it locks the next one.
NoDeadlock ==
  OneLocker /\ (Running => \A S \in SUBSET Procs : S # {} => ~Stuck(S))

\* Directory entries, other than ".", that name i
Entries(i) == {e \in Inums \X (AllNames \ {"."}) : dinode[e[1]].type = "DIR" /\ dir[e[1]][e[2]] = i}
Nlink(i) == IF icache[i].ref > 0 /\ icache[i].valid THEN icache[i].nlink ELSE dinode[i].nlink

\* No link is lost, also where two calls work on one inode: a link count is the
\* number of entries that name the inode, and of links that a call in progress
\* is about to enter (sys_link) or to count off (sys_unlink), and exceeds that
\* only by what went with a removed directory: its "..", which sys_unlink does
\* not count off in the parent, and what was created in it after its removal.
LinksAccounted ==
  Running => \A i \in Inums : dinode[i].type # "0" =>
    Nlink(i) = Cardinality(Entries(i)) + leaked[i]
               + Number(LAMBDA p : fr[p].old = i)
               + Number(LAMBDA p : fr[p].ip = i /\ Heading(p, "unlink2"))

\* What fs.h and stat.h say of nlink: when no call is in progress it is the
\* number of links to the inode.  create counts ".." as a link to the parent
\* (sysfile.c:248), and sys_unlink takes the directory away without its link.
NlinkIsLinks ==
  Running /\ (\A p \in Procs : pc[p] = "user") =>
    \A i \in Inums : dinode[i].type # "0" => Nlink(i) = Cardinality(Entries(i))

\* A valid copy of an inode that nobody has locked is what is on disk; a new
\* inode that could not be linked may only have lost its link count.
CacheCoherent ==
  \A i \in Inums : icache[i].ref > 0 /\ icache[i].valid /\ ~icache[i].busy =>
    /\ icache[i].type = dinode[i].type
    /\ icache[i].nlink \in {0, dinode[i].nlink}

\* No descriptor, working directory or directory entry names a free inode: an
\* inode is freed only when its last name and its last reference are gone, and
\* the cached copies are true meanwhile.  The panics that say the code is
\* wrong are not reached; what stops the machine is a full cache or disk, or
\* an inode that ialloc reuses while iput is still freeing it.
NothingDangles ==
  /\ Running => /\ \A p \in Procs : /\ dinode[cwd[p]].type = "DIR"
                                    /\ fd[p] # 0 => dinode[fd[p]].type # "0"
                /\ \A i \in Inums : Entries(i) # {} => dinode[i].type # "0"
                /\ CacheCoherent
  /\ fault \in {"none", "iget: no inodes", "ialloc: no inodes", "ialloc: inode still cached"}
=============================================================================
