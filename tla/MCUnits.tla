------------------------------- MODULE MCUnits ------------------------------
(***************************************************************************)
(* The parts that touch the rest of the system only through calls, checked *)
(* in one run: unit says which of them a behaviour is about, and the       *)
(* others stay in their initial states.                                    *)
(***************************************************************************)
EXTENDS Integers, Sequences, Spinlock

CONSTANTS
  PAGE, NPAGES, KSTACK, MProcs, Root,                             \* Memory
  NB, BSIZE, NDIRECT, IFiles, IProcs, Counts,                     \* Inode
  INPUT_BUF, Wrap, Keys, TReaders, Lengths,                       \* Console
  Chars, MaxLine, FewChars, MaxLong, MAXARGS,                     \* ShParse
  Slots, Shell, NOFILE, NPipes, PipeRoom, Output, MaxTyped,       \* Runcmd
  HEAP, HDR, MINU, PGU, Requests,                                 \* Umalloc
  Letters, MaxPattern, MaxText                                    \* Grep

VARIABLES
  unit,
  freelist, ram, mproc, mpc, mcur, mfault,
  bitmap, disk, dino, ino, ipc, icur, leaked, halted,
  input, tpc, tleft, tsome, tkilled,
  line,
  rproc, rpipe, typed, short,
  heap, inuse, refused,
  re, text

\* Programs with two segments one after the other, with a segment whose read
\* comes up short, and with none.
Seg(va, filesz, memsz, short_) ==
  [load |-> TRUE, va |-> va, filesz |-> filesz, memsz |-> memsz, short |-> short_]
Programs ==
  {[elf |-> TRUE, args |-> 1, segs |-> <<Seg(0, 1, 1, FALSE), Seg(1, 1, 2, FALSE)>>],
   [elf |-> TRUE, args |-> 1, segs |-> <<Seg(0, 1, 1, FALSE), Seg(1, 1, 1, TRUE)>>],
   [elf |-> TRUE, args |-> 0, segs |-> <<>>]}

\* Arguments of sbrk(): a page more, a page less, and no number of pages.
Grows == {PAGE, -PAGE, 1}

\* x | (x | x), (x ;) | x > f, (x & ; x), (x &) | x, (x < f | x) &.
X == [type |-> "EXEC", argv |-> <<"x">>]
Nothing == [type |-> "EXEC", argv |-> <<>>]
Pipe(l, r) == [type |-> "PIPE", left |-> l, right |-> r]
List(l, r) == [type |-> "LIST", left |-> l, right |-> r]
Back(c) == [type |-> "BACK", cmd |-> c]
Redir(c, fd) == [type |-> "REDIR", cmd |-> c, fd |-> fd]
Typed ==
  {Pipe(X, Pipe(X, X)), Pipe(List(X, Nothing), Redir(X, 1)), List(Back(X), X),
   Pipe(Back(X), X), Back(Pipe(Redir(X, 0), X))}

Mem == INSTANCE Memory
Ino == INSTANCE Inode
Con == INSTANCE Console
Prs == INSTANCE ShParse
Run == INSTANCE Runcmd
Mal == INSTANCE Umalloc
Grp == INSTANCE Grep

memory == <<freelist, ram, mproc, mpc, mcur, mfault>>
inodes == <<bitmap, disk, dino, ino, ipc, icur, leaked, halted>>
console == <<input, tpc, tleft, tsome, tkilled>>
shell == <<rproc, rpipe, typed, short>>
malloc == <<heap, inuse, refused>>
grep == <<re, text>>
others == <<memory, inodes, console, line, shell, malloc, grep>>

UnitsInit ==
  /\ unit \in {"spinlock", "memory", "inode", "console", "parser", "runcmd", "umalloc", "grep"}
  /\ Init /\ Mem!Init /\ Ino!Init /\ Con!Init /\ Prs!Init /\ Run!Init /\ Mal!Init /\ Grp!Init

UnitsNext ==
  /\ UNCHANGED unit
  /\ \/ unit = "spinlock" /\ Next /\ UNCHANGED others
     \/ /\ unit # "spinlock" /\ UNCHANGED vars
        /\ \/ /\ unit = "memory" /\ Mem!Next
              /\ UNCHANGED <<inodes, console, line, shell, malloc, grep>>
           \/ /\ unit = "inode" /\ Ino!Next
              /\ UNCHANGED <<memory, console, line, shell, malloc, grep>>
           \/ /\ unit = "console" /\ Con!Next
              /\ UNCHANGED <<memory, inodes, line, shell, malloc, grep>>
           \/ /\ unit = "parser" /\ Prs!Next
              /\ UNCHANGED <<memory, inodes, console, shell, malloc, grep>>
           \/ /\ unit = "runcmd" /\ Run!Next
              /\ UNCHANGED <<memory, inodes, console, line, malloc, grep>>
           \/ /\ unit = "umalloc" /\ Mal!Next
              /\ UNCHANGED <<memory, inodes, console, line, shell, grep>>
           \/ /\ unit = "grep" /\ Grp!Next
              /\ UNCHANGED <<memory, inodes, console, line, shell, malloc>>

UnitsSpec ==
  /\ UnitsInit /\ [][UnitsNext]_<<unit, vars, others>>
  /\ Fairness /\ Run!Fairness

-----------------------------------------------------------------------------
\* Memory: every unit has one place and the free list is in order, whatever
\* kalloc(), kfree(), growproc(), exec(), fork() and wait() do in between.
MemoryExact == Mem!MemoryExact

\* Memory: a process's memory holds what exec(), growproc() or fork() put there.
ImageIntact == Mem!ImageIntact

\* Inode: the bitmap, the inodes and their indirect blocks agree, also on
\* disk, between any two disk writes of balloc(), bmap(), writei(), itrunc().
BlocksExact == Ino!BlocksExact

\* Inode: files read back as writei() wrote them, across crashes.
FilesReadBack == Ino!FilesReadBack

\* Console: the ring of console_intr() and console_read() is a line editor.
ImplementsTty == Con!ImplementsTty

\* Console: no reader sleeps over something to read, and the ring never jams.
ReadersWake == Con!ReadersWake

\* ShParse: parsecmd() accepts the grammar and builds its trees.
ParsesGrammar == Prs!ParsesGrammar

\* Runcmd: every command gives the prompt back.
PromptReturns == Run!PromptReturns

\* Runcmd: the prompt comes back when the command is over, not before.
ForegroundDone == Run!ForegroundDone

\* Umalloc: malloc() and free() keep the heap in disjoint blocks and the free
\* ones joined.
HeapExact == Mal!HeapExact

\* Grep: match() says what the pattern means.
MatchesMeaning == Grp!MatchesMeaning
=============================================================================
