------------------------------- MODULE Inode --------------------------------
(***************************************************************************)
(* The contents of files on disk (fs.c): the block bitmap, the addresses   *)
(* an inode lists directly or through its indirect block, reads, writes    *)
(* and truncation, with a crash possible between any two disk writes.      *)
(* Every bwrite() reaches the disk before it returns, so a block has one   *)
(* value, in disk; an inode has two, the one in memory (ino) and the one   *)
(* iupdate() last wrote (dino).  An inode is locked for the whole of       *)
(* writei() and of the itrunc() that iput() calls; the bitmap block is     *)
(* locked for the whole of balloc() and of bfree()'s update.               *)
(***************************************************************************)
EXTENDS Integers, Sequences, FiniteSets, SequencesExt, FiniteSetsExt

CONSTANTS
  NB,        \* data blocks 1 .. NB; address 0 is "no block"
  BSIZE,     \* units in a block; an indirect block lists that many addresses
  NDIRECT,   \* addresses in the inode
  IFiles,    \* the inodes, numbered from 1
  IProcs,    \* processes that write and remove files
  Counts     \* lengths of the writes explored

VARIABLES
  bitmap,    \* the blocks whose bit is set
  disk,      \* what each data block holds
  dino, ino, \* addrs and size of each inode, on disk and in memory
  ipc, icur, \* where each process is in writei() or itrunc(), and its locals
  leaked,    \* blocks in use that no inode lists any more
  halted     \* why the machine stopped

ivars == <<bitmap, disk, dino, ino, ipc, icur, leaked, halted>>

Blocks == 1 .. NB
NINDIRECT == BSIZE
MAXSIZE == (NDIRECT + NINDIRECT) * BSIZE
INDIRECT == NDIRECT
Empty == [addrs |-> [i \in 0 .. NDIRECT |-> 0], size |-> 0]
ZeroBlock == [i \in 0 .. BSIZE - 1 |-> 0]
Idle == [f |-> 0, off |-> 0, left |-> 0, new |-> 0, list |-> <<>>]

\* Every unit written carries its file and its place in it, so that data
\* that ends up anywhere else can be told.
Tag(f, off) == NB + f * MAXSIZE + off + 1

Locked(f) == \E p \in IProcs : ipc[p] # "idle" /\ icur[p].f = f
At(p, where) == halted = "no" /\ ipc[p] = where
Goto(p, where, c) == ipc' = [ipc EXCEPT ![p] = where] /\ icur' = [icur EXCEPT ![p] = c]
F(p) == icur[p].f
Bn(p) == icur[p].off \div BSIZE

-----------------------------------------------------------------------------
\* balloc(): b is the first block whose bit is clear ...
Balloc(b) ==
  /\ bitmap # Blocks /\ b = Min(Blocks \ bitmap)
  /\ bitmap' = bitmap \cup {b}
  /\ UNCHANGED halted

\* ... or there is none.
BallocPanics ==
  /\ bitmap = Blocks
  /\ halted' = "balloc: out of blocks"
  /\ UNCHANGED <<bitmap, ino, ipc, icur>>

\* The address of block bn of an inode, 0 where bmap() finds none.
BlockOf(ip, bn) ==
  IF bn < NDIRECT THEN ip.addrs[bn]
  ELSE IF ip.addrs[INDIRECT] = 0 THEN 0 ELSE disk[ip.addrs[INDIRECT]][bn - NDIRECT]

\* writei(ip, src, off, n), to its loop: n is cut at the largest file.
Writei(p, f, off, n) ==
  LET m == Min({n, MAXSIZE - off})
  IN  /\ At(p, "idle") /\ ~Locked(f) /\ off <= ino[f].size /\ m > 0
      /\ Goto(p, "bmap", [Idle EXCEPT !.f = f, !.off = off, !.left = m])
      /\ UNCHANGED <<bitmap, disk, dino, ino, leaked, halted>>

\* bmap(ip, bn, 1) for a direct block, or for the indirect block itself.
Bmap(p) ==
  /\ At(p, "bmap")
  /\ LET slot == Min({Bn(p), INDIRECT})
         then == IF slot = INDIRECT THEN "leaf" ELSE "data"
     IN  IF ino[F(p)].addrs[slot] # 0
         THEN Goto(p, then, icur[p]) /\ UNCHANGED <<bitmap, ino, halted>>
         ELSE \/ BallocPanics
              \/ \E b \in Blocks : /\ Balloc(b) /\ Goto(p, then, icur[p])
                                   /\ ino' = [ino EXCEPT ![F(p)].addrs[slot] = b]
  /\ UNCHANGED <<disk, dino, leaked>>

\* bmap(ip, bn, 1) past the direct blocks: the entry of the indirect block.
BmapLeaf(p) ==
  /\ At(p, "leaf")
  /\ IF BlockOf(ino[F(p)], Bn(p)) # 0
     THEN Goto(p, "data", icur[p]) /\ UNCHANGED <<bitmap, ino, halted>>
     ELSE \/ BallocPanics
          \/ \E b \in Blocks : /\ Balloc(b) /\ UNCHANGED ino
                               /\ Goto(p, "link", [icur[p] EXCEPT !.new = b])
  /\ UNCHANGED <<disk, dino, leaked>>

BmapLink(p) ==
  /\ At(p, "link")
  /\ disk' = [disk EXCEPT ![ino[F(p)].addrs[INDIRECT]][Bn(p) - NDIRECT] = icur[p].new]
  /\ Goto(p, "data", [icur[p] EXCEPT !.new = 0])
  /\ UNCHANGED <<bitmap, dino, ino, leaked, halted>>

\* The places of a block that a write of m units at off covers.
\* Mutant of Covered: it starts at the beginning of the block.
MCovered(off, m) == 0 .. m - 1
Covered(off, m) == LET at == off % BSIZE IN at .. at + m - 1

\* One turn of writei()'s loop: as much of the block as the write covers.
WriteBlock(p) ==
  /\ At(p, "data")
  /\ LET c == icur[p]
         m == Min({c.left, BSIZE - (c.off % BSIZE)})
     IN  /\ disk' = [disk EXCEPT ![BlockOf(ino[c.f], Bn(p))] =
                       [i \in 0 .. BSIZE - 1 |->
                          IF i \in Covered(c.off, m) THEN Tag(c.f, Bn(p) * BSIZE + i) ELSE @[i]]]
         /\ Goto(p, IF m = c.left THEN "end" ELSE "bmap",
                 [c EXCEPT !.off = @ + m, !.left = @ - m])
  /\ UNCHANGED <<bitmap, dino, ino, leaked, halted>>

\* The end of writei(): a file that grew has its inode written.
WriteEnd(p) ==
  /\ At(p, "end")
  /\ IF icur[p].off > ino[F(p)].size
     THEN /\ ino' = [ino EXCEPT ![F(p)].size = icur[p].off]
          /\ dino' = [dino EXCEPT ![F(p)] = ino'[F(p)]]
     ELSE UNCHANGED <<ino, dino>>
  /\ Goto(p, "idle", Idle)
  /\ UNCHANGED <<bitmap, disk, leaked, halted>>

\* readi(ip, dst, 0, size): what the file reads as.
Readi(ip) == [off \in 0 .. ip.size - 1 |-> disk[BlockOf(ip, off \div BSIZE)][off % BSIZE]]

-----------------------------------------------------------------------------
\* Mutant of ToFree: the blocks behind the indirect block are forgotten.
MToFree(ip) == SelectSeq([i \in 1 .. NDIRECT |-> ip.addrs[i - 1]], LAMBDA b : b # 0)

\* itrunc(): the blocks it frees, the direct ones and then those the
\* indirect block lists.  The indirect block itself is not among them.
ToFree(ip) ==
  SelectSeq([i \in 1 .. NDIRECT |-> ip.addrs[i - 1]], LAMBDA b : b # 0)
    \o SelectSeq([i \in 1 .. NINDIRECT |-> BlockOf(ip, NDIRECT + i - 1)], LAMBDA b : b # 0)

Itrunc(p, f) ==
  /\ At(p, "idle") /\ ~Locked(f) /\ ino[f].size > 0
  /\ Goto(p, "zero", [Idle EXCEPT !.f = f, !.list = ToFree(ino[f])])
  /\ UNCHANGED <<bitmap, disk, dino, ino, leaked, halted>>

\* bfree(): the block is zeroed on disk, then its bit is cleared.
Bzero(p) ==
  /\ At(p, "zero")
  /\ disk' = [disk EXCEPT ![Head(icur[p].list)] = ZeroBlock]
  /\ Goto(p, "free", icur[p])
  /\ UNCHANGED <<bitmap, dino, ino, leaked, halted>>

Bfree(p) ==
  /\ At(p, "free")
  /\ LET b == Head(icur[p].list)
     IN  IF b \notin bitmap
         THEN halted' = "freeing free block" /\ UNCHANGED <<bitmap, ipc, icur>>
         ELSE /\ bitmap' = bitmap \ {b}
              /\ Goto(p, IF Len(icur[p].list) = 1 THEN "truncated" ELSE "zero",
                      [icur[p] EXCEPT !.list = Tail(@)])
              /\ UNCHANGED halted
  /\ UNCHANGED <<disk, dino, ino, leaked>>

ItruncEnd(p) ==
  /\ At(p, "truncated")
  /\ leaked' = leaked \cup ({ino[F(p)].addrs[INDIRECT]} \ {0})
  /\ ino' = [ino EXCEPT ![F(p)] = Empty] /\ dino' = [dino EXCEPT ![F(p)] = Empty]
  /\ Goto(p, "idle", Idle)
  /\ UNCHANGED <<bitmap, disk, halted>>

-----------------------------------------------------------------------------
\* The blocks an inode lists, for its contents and for its addresses.
Listed(ip) ==
  ({BlockOf(ip, bn) : bn \in 0 .. NDIRECT + NINDIRECT - 1} \cup {ip.addrs[INDIRECT]}) \ {0}

\* A crash loses what is only in memory.  Blocks allocated for a write that
\* had not yet reached its iupdate() are lost with it.  A crash in itrunc(),
\* which writes the inode last, leaves one on disk that lists blocks already
\* zeroed or free: nothing can be said after that.
Crash ==
  /\ halted = "no"
  /\ ino' = dino
  /\ ipc' = [p \in IProcs |-> "idle"] /\ icur' = [p \in IProcs |-> Idle]
  /\ leaked' = bitmap \ UNION {Listed(dino[f]) : f \in IFiles}
  /\ halted' = IF \E p \in IProcs : ipc[p] \in {"zero", "free", "truncated"}
               THEN "crash in itrunc" ELSE "no"
  /\ UNCHANGED <<bitmap, disk, dino>>

Init ==
  /\ bitmap = {} /\ disk = [b \in Blocks |-> ZeroBlock]
  /\ dino = [f \in IFiles |-> Empty] /\ ino = dino
  /\ ipc = [p \in IProcs |-> "idle"] /\ icur = [p \in IProcs |-> Idle]
  /\ leaked = {} /\ halted = "no"

Next ==
  \/ \E p \in IProcs :
       \/ \E f \in IFiles, n \in Counts : \E off \in 0 .. ino[f].size : Writei(p, f, off, n)
       \/ Bmap(p) \/ BmapLeaf(p) \/ BmapLink(p) \/ WriteBlock(p) \/ WriteEnd(p)
       \/ \E f \in IFiles : Itrunc(p, f)
       \/ Bzero(p) \/ Bfree(p) \/ ItruncEnd(p)
  \/ Crash

-----------------------------------------------------------------------------
\* The files itrunc() is emptying.
Truncating(f) == \E p \in IProcs : ipc[p] \in {"zero", "free", "truncated"} /\ icur[p].f = f

\* The blocks a file holds: those its inode lists and, while it is written,
\* the one not yet entered in its indirect block; in itrunc(), those not
\* freed so far.
Holds(f) ==
  LET busy == {p \in IProcs : ipc[p] # "idle" /\ icur[p].f = f}
      listed == IF Truncating(f) THEN {ino[f].addrs[INDIRECT]} ELSE Listed(ino[f])
  IN  (listed \cup UNION {Range(icur[p].list) \cup {icur[p].new} : p \in busy}) \ {0}

\* No block belongs to two files, none in use is marked free, and the bitmap
\* marks nothing else than the blocks of files and those that itrunc() and
\* crashes are known to lose: balloc() sets the bit before the address is
\* stored anywhere, and a crash between the two only loses the block.  The
\* same holds of the inodes on disk, the ones a reboot would start from.  And
\* every free block is zero, for bmap() takes a fresh indirect block as it
\* comes: bfree() zeroes it before it clears the bit.
BlocksExact ==
  /\ \A b \in Blocks \ bitmap : disk[b] = ZeroBlock
  /\ halted = "no" =>
       /\ bitmap = leaked \cup UNION {Holds(f) : f \in IFiles}
       /\ \A f \in IFiles : Holds(f) \cap leaked = {}
       /\ \A f, g \in IFiles : f # g => Holds(f) \cap Holds(g) = {}
       /\ \A f \in IFiles : Truncating(f) \/ Listed(dino[f]) \subseteq Holds(f)
       /\ \A f \in IFiles : Cardinality(Range(ToFree(ino[f]))) = Len(ToFree(ino[f]))

\* A file reads as it was written, every unit in its place, whatever other
\* files did to the disk meanwhile and across crashes.
FilesReadBack ==
  halted = "no" =>
    \A f \in IFiles : ~Locked(f) => Readi(ino[f]) = [off \in 0 .. ino[f].size - 1 |-> Tag(f, off)]
=============================================================================
