------------------------------- MODULE Memory -------------------------------
(***************************************************************************)
(* Physical memory: the allocator of kalloc.c and the code that lives on   *)
(* it, growproc(), exec(), fork() (copyproc) and the freeing half of       *)
(* wait().  Memory is a row of units, PAGE of them to a page; ram holds    *)
(* what each unit contains.  kalloc() and kfree() are critical sections of *)
(* kalloc_lock, hence one step each; everything between two of them        *)
(* touches memory that belongs to one process only and joins the step of   *)
(* the call before it.                                                     *)
(***************************************************************************)
EXTENDS Integers, Sequences, FiniteSets, SequencesExt, FiniteSetsExt

CONSTANTS
  PAGE,      \* units in a page
  NPAGES,    \* pages that kinit() hands to the allocator
  KSTACK,    \* KSTACKSIZE, in units
  MProcs,    \* process slots; Root is the one userinit() fills
  Root,
  Grows,     \* arguments of growproc() explored, positive or negative
  Programs   \* what exec() may find: see ImageOf

VARIABLES
  freelist,  \* the runs of free memory, as the list links them
  ram,       \* contents of every unit
  mproc,     \* per slot: state, mem, kstack; image is what mem must hold
  mpc,       \* where each process is: what it does next
  mcur,      \* its locals: the new memory, and the program or the child
  mfault     \* what stopped the machine, if anything: the panic of kfree()
             \* ("freeing free page") or of kalloc() ("kalloc"), or a copy past
             \* the end of the new memory in growproc() ("overrun")

mvars == <<freelist, ram, mproc, mpc, mcur, mfault>>

Units == 1 .. PAGE * NPAGES
None == [at |-> 0, len |-> 0]
Span(r) == r.at .. r.at + r.len - 1
Zeros(n) == [i \in 1 .. n |-> "zero"]
NoProc == [state |-> "unused", mem |-> None, kstack |-> None, image |-> <<>>]
NoCur == [mem |-> None, what |-> "none"]

\* What kfree() leaves in the memory it takes.
Junk(r) == [u \in Units |-> IF u \in Span(r) THEN "junk" ELSE ram[u]]

\* The contents of run r.
Contents(r) == [i \in 1 .. r.len |-> ram[r.at + i - 1]]

\* memmove(r, image): the image at the start of run r, the rest as in m.
Store(m, r, image) ==
  [u \in Units |-> IF u \in r.at .. r.at + Len(image) - 1
                   THEN image[u - r.at + 1] ELSE m[u]]

-----------------------------------------------------------------------------
\* Mutant of JoinsNext: a run that grows at its end is not joined to the next.
MJoinsNext(list, k, pend) == FALSE

\* kfree() after joining the freed memory to the end of run k: does the next
\* run follow at once?
JoinsNext(list, k, pend) == k < Len(list) /\ list[k + 1].at = pend

\* kfree(): the scan stops at the first run past the freed one, at a run it
\* touches, or at a run that holds it.  The list that results, and whether
\* the freed memory was free.
Kfree(list, r) ==
  LET pend == r.at + r.len
      Rend(i) == list[i].at + list[i].len
      Free(i) == list[i].at <= r.at /\ r.at < Rend(i)
      Stops(i) == \/ i = Len(list) + 1
                  \/ list[i].at > pend \/ Free(i)
                  \/ list[i].at = pend \/ Rend(i) = r.at
      k == Min({i \in 1 .. Len(list) + 1 : Stops(i)})
      Found == k <= Len(list) /\ list[k].at <= pend
      Joined == [list EXCEPT ![k].len = @ + r.len]
  IN  IF ~Found THEN [panic |-> FALSE, list |-> InsertAt(list, k, r)]
      ELSE IF Free(k) THEN [panic |-> TRUE, list |-> list]
      ELSE IF list[k].at = pend
      THEN [panic |-> FALSE,
            list |-> [list EXCEPT ![k] = [at |-> r.at, len |-> r.len + @.len]]]
      ELSE IF JoinsNext(list, k, pend)
      THEN [panic |-> FALSE,
            list |-> RemoveAt([Joined EXCEPT ![k].len = @ + list[k + 1].len], k + 1)]
      ELSE [panic |-> FALSE, list |-> Joined]

\* kalloc(): the first run that is long enough, whole or its tail.
Kalloc(list, n) ==
  LET Fits == {i \in 1 .. Len(list) : list[i].len >= n}
      k == Min(Fits)
  IN  IF Fits = {} THEN [run |-> None, list |-> list]
      ELSE IF list[k].len = n THEN [run |-> list[k], list |-> RemoveAt(list, k)]
      ELSE [run |-> [at |-> list[k].at + list[k].len - n, len |-> n],
            list |-> [list EXCEPT ![k].len = @ - n]]

\* The two ways an action uses the allocator: take a run, or give one back.
Take(n, got(_), failed) ==
  LET a == Kalloc(freelist, n)
  IN  /\ freelist' = a.list
      /\ IF a.run = None THEN failed ELSE got(a.run)

Give(r) ==
  LET f == Kfree(freelist, r)
  IN  freelist' = f.list /\ mfault' = IF f.panic THEN "freeing free page" ELSE mfault

Running(p) == mfault = "none" /\ mproc[p].state = "used" /\ mpc[p] = "run"

At(p, where) == mfault = "none" /\ mpc[p] = where

Goto(p, where, mem, what) ==
  mpc' = [mpc EXCEPT ![p] = where]
    /\ mcur' = [mcur EXCEPT ![p] = [mem |-> mem, what |-> what]]

Back(p) == Goto(p, "run", None, "none")

-----------------------------------------------------------------------------
\* Mutant of GrownImage: the memory that growproc() adds is not cleared.
MGrownImage(p, n) == Contents(mproc[p].mem)

\* growproc(): memmove of the old memory, memset of what is added
GrownImage(p, n) == Contents(mproc[p].mem) \o Zeros(n)

\* sys_sbrk() passes any n on.  kalloc() panics unless what it is asked for
\* is a number of pages, and at least one.
BadSize(n) == n <= 0 \/ n % PAGE # 0

GrowPanics(p, n) ==
  /\ Running(p) /\ BadSize(mproc[p].mem.len + n)
  /\ mfault' = "kalloc"
  /\ UNCHANGED <<freelist, ram, mproc, mpc, mcur>>

\* growproc(n): new memory with the old contents and n zeroed units, then
\* the old memory is freed and the new one becomes the process's.  With a
\* negative n the memmove() of the old size runs past the end of the new
\* memory: the model stops there.
Growproc(p, n) ==
  /\ Running(p) /\ ~BadSize(mproc[p].mem.len + n)
  /\ LET Got(r) == IF n < 0
                   THEN mfault' = "overrun" /\ UNCHANGED <<ram, mpc>>
                          /\ mcur' = [mcur EXCEPT ![p].mem = r]
                   ELSE ram' = Store(ram, r, GrownImage(p, n))
                          /\ Goto(p, "grown", r, n) /\ UNCHANGED mfault
     IN  Take(mproc[p].mem.len + n, Got, UNCHANGED <<ram, mpc, mcur, mfault>>)
  /\ UNCHANGED mproc

Grown(p) ==
  /\ At(p, "grown")
  /\ Give(mproc[p].mem) /\ ram' = Junk(mproc[p].mem)
  /\ mproc' = [mproc EXCEPT ![p].mem = mcur[p].mem,
                            ![p].image = @ \o Zeros(mcur[p].what)]
  /\ Back(p)

\* A program: whether namei() and the ELF header are good, its segments in
\* file order, and the units its arguments take (strings and argv[]).  A
\* segment has LOAD or another type, and its read may come up short.
Loads(prog) == SelectSeq(prog.segs, LAMBDA s : s.load)
RoundUp(n) == ((n + PAGE - 1) \div PAGE) * PAGE
ImageSize(prog) ==
  RoundUp(FoldLeft(LAMBDA n, s : n + s.memsz, 0, Loads(prog)) + prog.args + PAGE)

\* What the new memory holds once every segment and the arguments are in it.
LoadSegment(image, s) ==
  [i \in DOMAIN image |->
     IF i - 1 \in s.va .. s.va + s.filesz - 1 THEN "text"
     ELSE IF i - 1 \in s.va .. s.va + s.memsz - 1 THEN "zero" ELSE image[i]]

PushArgs(image, args) ==
  [i \in DOMAIN image |-> IF i > Len(image) - args THEN "args" ELSE image[i]]

Loaded(prog) ==
  PushArgs(FoldLeft(LoadSegment, Zeros(ImageSize(prog)), Loads(prog)), prog.args)

\* exec(), to the kalloc() of the new memory.  A program that cannot be
\* opened, has no ELF header, or has a segment larger on disk than in memory
\* fails before it takes any memory.
Exec(p, prog) ==
  /\ Running(p)
  /\ prog.elf /\ \A i \in DOMAIN Loads(prog) : Loads(prog)[i].memsz >= Loads(prog)[i].filesz
  /\ LET Got(r) == /\ ram' = Store(ram, r, Zeros(r.len))
                   /\ Goto(p, "load", r, prog)
     IN  Take(ImageSize(prog), Got, UNCHANGED <<ram, mpc, mcur>>)
  /\ UNCHANGED <<mproc, mfault>>

Misfit(prog, s) == s.va + s.memsz > ImageSize(prog) \/ s.short

\* The load loop gives up at a segment that does not fit or comes up short:
\* the new memory goes back and the process keeps the one it has.
ExecBad(p) ==
  /\ At(p, "load")
  /\ \E s \in Range(Loads(mcur[p].what)) : Misfit(mcur[p].what, s)
  /\ Give(mcur[p].mem) /\ ram' = Junk(mcur[p].mem)
  /\ Back(p) /\ UNCHANGED mproc

ExecLoad(p) ==
  /\ At(p, "load")
  /\ \A s \in Range(Loads(mcur[p].what)) : ~Misfit(mcur[p].what, s)
  /\ ram' = Store(ram, mcur[p].mem, Loaded(mcur[p].what))
  /\ mpc' = [mpc EXCEPT ![p] = "commit"]
  /\ UNCHANGED <<freelist, mproc, mcur, mfault>>

\* What a program should find in its memory: the text of its segments where
\* they were linked, its arguments at the top, zeros everywhere else.
ImageOf(prog) ==
  [i \in 1 .. ImageSize(prog) |->
     IF i > ImageSize(prog) - prog.args THEN "args"
     ELSE IF \E s \in Range(Loads(prog)) : i - 1 \in s.va .. s.va + s.filesz - 1
     THEN "text" ELSE "zero"]

ExecCommit(p) ==
  /\ At(p, "commit")
  /\ Give(mproc[p].mem) /\ ram' = Junk(mproc[p].mem)
  /\ mproc' = [mproc EXCEPT ![p].mem = mcur[p].mem, ![p].image = ImageOf(mcur[p].what)]
  /\ Back(p)

-----------------------------------------------------------------------------
\* fork(): copyproc() takes a kernel stack for the child, then memory of the
\* parent's size; without the second the first goes back.
Fork(p, np) ==
  /\ Running(p) /\ mproc[np].state = "unused"
  /\ LET Got(r) == /\ mproc' = [mproc EXCEPT ![np].state = "embryo", ![np].kstack = r]
                   /\ Goto(p, "forkmem", None, np)
     IN  Take(KSTACK, Got, UNCHANGED <<mproc, mpc, mcur>>)
  /\ UNCHANGED <<ram, mfault>>

ForkMem(p) ==
  /\ At(p, "forkmem")
  /\ LET np == mcur[p].what
         Got(r) == /\ mproc' = [mproc EXCEPT ![np].state = "used", ![np].mem = r,
                                             ![np].image = mproc[p].image]
                   /\ ram' = Store(ram, r, Contents(mproc[p].mem))
                   /\ Back(p)
     IN  Take(mproc[p].mem.len, Got,
              Goto(p, "forkbad", None, np) /\ UNCHANGED <<mproc, ram>>)
  /\ UNCHANGED mfault

ForkBad(p) ==
  /\ At(p, "forkbad")
  /\ LET np == mcur[p].what
     IN  /\ Give(mproc[np].kstack) /\ ram' = Junk(mproc[np].kstack)
         /\ mproc' = [mproc EXCEPT ![np] = NoProc]
  /\ Back(p)

\* exit() leaves the memory in place; wait() of the parent frees it and then
\* the kernel stack.
Exit(p) ==
  /\ Running(p) /\ p # Root
  /\ mproc' = [mproc EXCEPT ![p].state = "zombie"]
  /\ UNCHANGED <<freelist, ram, mpc, mcur, mfault>>

Reap(p, z) ==
  /\ Running(p) /\ mproc[z].state = "zombie"
  /\ Give(mproc[z].mem) /\ ram' = Junk(mproc[z].mem)
  /\ mproc' = [mproc EXCEPT ![z].state = "reaped", ![z].mem = None, ![z].image = <<>>]
  /\ Goto(p, "reapstack", None, z)

ReapStack(p) ==
  /\ At(p, "reapstack")
  /\ LET z == mcur[p].what
     IN  /\ Give(mproc[z].kstack) /\ ram' = Junk(mproc[z].kstack)
         /\ mproc' = [mproc EXCEPT ![z] = NoProc]
  /\ Back(p)

-----------------------------------------------------------------------------
\* kinit() frees all of memory at once; userinit() makes the first process,
\* a kernel stack and one page.
Kinit == Kfree(<<>>, [at |-> 1, len |-> PAGE * NPAGES]).list

Init ==
  LET k == Kalloc(Kinit, KSTACK)
      m == Kalloc(k.list, PAGE)
  IN  /\ freelist = m.list
      /\ mproc = [p \in MProcs |->
                    IF p # Root THEN NoProc
                    ELSE [state |-> "used", mem |-> m.run, kstack |-> k.run,
                          image |-> Zeros(PAGE)]]
      /\ ram = [u \in Units |-> IF u \in Span(m.run) THEN "zero" ELSE "junk"]
      /\ mpc = [p \in MProcs |-> "run"]
      /\ mcur = [p \in MProcs |-> NoCur]
      /\ mfault = "none"

Next ==
  \E p \in MProcs :
    \/ \E n \in Grows : Growproc(p, n) \/ GrowPanics(p, n)
    \/ Grown(p)
    \/ \E prog \in Programs : Exec(p, prog)
    \/ ExecBad(p) \/ ExecLoad(p) \/ ExecCommit(p)
    \/ \E np \in MProcs : Fork(p, np)
    \/ ForkMem(p) \/ ForkBad(p)
    \/ Exit(p)
    \/ \E z \in MProcs : Reap(p, z)
    \/ ReapStack(p)

-----------------------------------------------------------------------------
\* The runs in use: memories, kernel stacks, and memory in transit.
Held == {<<p, "mem", mproc[p].mem>> : p \in MProcs}
        \cup {<<p, "kstack", mproc[p].kstack>> : p \in MProcs}
        \cup {<<p, "new", mcur[p].mem>> : p \in MProcs}
        \cup {<<i, "free", freelist[i]>> : i \in DOMAIN freelist}

\* Whatever the order of allocations, failures and frees, every unit of
\* memory is in exactly one place (one free run, or one process's memory,
\* kernel stack or new memory), and the free list is sorted with a gap
\* between any two runs, so that kalloc() fails only when no contiguous
\* memory is left and kfree() never finds its argument free.  (The machine may
\* stop in sbrk(): GrowPanics and the overrun of Growproc.)
MemoryExact ==
  /\ mfault # "freeing free page"
  /\ \A u \in Units : Cardinality({h \in Held : u \in Span(h[3])}) = 1
  /\ \A i \in 1 .. Len(freelist) - 1 :
       freelist[i].at + freelist[i].len < freelist[i + 1].at

\* A process's memory holds what it was given: the program exec() loaded
\* with its arguments, what growproc() added, or the parent's image, however
\* other processes allocate and free around it.
ImageIntact ==
  \A p \in MProcs : mproc[p].state \in {"used", "zombie"} =>
    Contents(mproc[p].mem) = mproc[p].image
=============================================================================
