--------------------------- MODULE SpinlockProofs ---------------------------
(***************************************************************************)
(* Proofs about Spinlock for any set of CPUs and locks: the invariants of  *)
(* its run, and that it implements Lock.                                   *)
(***************************************************************************)
EXTENDS Spinlock, FiniteSetTheorems, TLAPS

Acquiring == {"cli", "ncli", "acq_locked", "acq_cpu", "xchg"}
Releasing == {"rel_locked", "rel_cpu", "clr_cpu"}
Uncounted == {"acq_locked", "acq_cpu", "xchg", "popcli"}

\* What acquire and release know of the lock they work on.
CallOK(c) ==
  /\ pc[c] # "panic"
  /\ pc[c] # "run" => arg[c] \in Locks
  /\ pc[c] \in Acquiring => ~Owns(c, arg[c])
  /\ pc[c] \in Releasing => lcpu[arg[c]] = c
  /\ pc[c] \in {"set_cpu", "xchg0"} => lcpu[arg[c]] = NoCpu

\* ncli counts the locks held; the flag saved in intena is the one to restore.
CliOK(c) ==
  /\ IsFiniteSet(Held(c))
  /\ ncli[c] = Cardinality(Held(c)) + (IF pc[c] \in Uncounted THEN 1 ELSE 0)
  /\ iflag[c] = 1 => pc[c] \in {"run", "cli"} /\ Held(c) = {} /\ ~InHandler(c)
  /\ iflag[c] = 0 /\ pc[c] \in {"run", "cli"} => Held(c) # {} \/ InHandler(c)
  /\ pc[c] = "cli" => eflags[c] = iflag[c]
  /\ pc[c] = "ncli" /\ Held(c) = {} => (eflags[c] = 1 <=> ~InHandler(c))
  /\ ncli[c] # 0 => (intena[c] = 1 <=> ~InHandler(c))

\* An interrupt hits code with interrupts on: outside any call, or in pushcli
\* before its cli.
FrameOK(c) ==
  InHandler(c) =>
    /\ frame[c].pc \in {"run", "cli"}
    /\ frame[c].pc = "cli" => frame[c].eflags = 1 /\ frame[c].arg \in Locks

LockedIffOwned == \A l \in Locks : locked[l] = 1 <=> \E c \in CPU : Owns(c, l)

IInv ==
  /\ TypeOK
  /\ LockedIffOwned
  /\ MutualExclusion
  /\ \A c \in CPU : CallOK(c) /\ CliOK(c) /\ FrameOK(c)

-----------------------------------------------------------------------------
\* A step that leaves alone what one CPU's invariant reads preserves it: the
\* argument for every CPU other than the one that moves.
LEMMA OthersKeep ==
  ASSUME NEW d \in CPU, TypeOK, TypeOK',
         CallOK(d), CliOK(d), FrameOK(d),
         iflag'[d] = iflag[d], ncli'[d] = ncli[d], intena'[d] = intena[d],
         pc'[d] = pc[d], arg'[d] = arg[d], eflags'[d] = eflags[d],
         frame'[d] = frame[d],
         \A l \in Locks : (lcpu'[l] = d <=> lcpu[l] = d),
         pc[d] \in {"set_cpu", "xchg0"} => lcpu'[arg[d]] = lcpu[arg[d]]
  PROVE  CallOK(d)' /\ CliOK(d)' /\ FrameOK(d)' /\ Held(d)' = Held(d)
<1>1. \A l \in Locks : Owns(d, l)' <=> Owns(d, l)
  BY Zenon DEF Owns
<1>2. Held(d)' = Held(d)
  BY <1>1, Zenon DEF Held
<1>3. CallOK(d)'
  BY <1>1, Zenon DEF CallOK, Acquiring, Releasing, Owns
<1>4. CliOK(d)' /\ FrameOK(d)'
  BY <1>2, Zenon DEF CliOK, FrameOK, InHandler
<1> QED
  BY <1>2, <1>3, <1>4, Zenon

\* initlock, and CPUs outside every call.
LEMMA InitIInv == Init => IInv
<1> SUFFICES ASSUME Init PROVE IInv
  BY Zenon
<1> USE SpinlockAssumption
<1>1. TypeOK
  BY Zenon DEF Init, TypeOK, PCs, Frames, NoFrame
<1>2. \A c \in CPU, l \in Locks : ~Owns(c, l)
  BY Zenon DEF Init, Owns
<1>3. \A c \in CPU : Held(c) = {}
  BY <1>2, ZenonT(30) DEF Held
<1>4. LockedIffOwned /\ MutualExclusion
  BY <1>2 DEF Init, LockedIffOwned, MutualExclusion
<1>5. ASSUME NEW c \in CPU PROVE CallOK(c) /\ CliOK(c) /\ FrameOK(c)
  <2>1. CallOK(c) /\ FrameOK(c)
    BY Zenon DEF Init, CallOK, FrameOK, Acquiring, Releasing, InHandler
  <2>2. CliOK(c)
    BY <1>3, FS_EmptySet DEF Init, CliOK, InHandler, Uncounted
  <2> QED
    BY <2>1, <2>2, Zenon
<1> QED
  BY <1>1, <1>4, <1>5, Zenon DEF IInv

\* A step of c that touches neither lock->locked nor lock->cpu.
QuietFor(c) ==
  /\ UNCHANGED <<locked, lcpu>>
  /\ {pc[c], pc'[c]} \cap {"set_cpu", "xchg0"} = {}
  /\ \A d \in CPU \ {c} :
        /\ iflag'[d] = iflag[d] /\ ncli'[d] = ncli[d] /\ intena'[d] = intena[d]
        /\ pc'[d] = pc[d] /\ arg'[d] = arg[d] /\ eflags'[d] = eflags[d]
        /\ frame'[d] = frame[d]

\* Such a step changes no lock's owner.
LEMMA QuietOwns ==
  ASSUME NEW c \in CPU, QuietFor(c)
  PROVE  /\ \A d \in CPU, l \in Locks : Owns(d, l)' <=> Owns(d, l)
         /\ \A d \in CPU : Held(d)' = Held(d)
<1>1. \A d \in CPU, l \in Locks : Owns(d, l)' <=> Owns(d, l)
  BY ZenonT(30) DEF QuietFor, Owns
<1> QED
  BY <1>1, Zenon DEF Held

\* It preserves the invariant as soon as it preserves c's own part.
LEMMA QuietIInv ==
  ASSUME NEW c \in CPU, IInv, QuietFor(c), TypeOK',
         CallOK(c)', CliOK(c)', FrameOK(c)'
  PROVE  IInv'
<1>1. ASSUME NEW d \in CPU \ {c} PROVE CallOK(d)' /\ CliOK(d)' /\ FrameOK(d)'
  BY OthersKeep, Zenon DEF IInv, QuietFor
<1>2. LockedIffOwned' /\ MutualExclusion'
  BY QuietOwns, Zenon DEF IInv, QuietFor, LockedIffOwned, MutualExclusion
<1> QED
  BY <1>1, <1>2, Zenon DEF IInv

\* pushcli and the tests of holding(), in acquire
LEMMA AcquireIInv ==
  ASSUME NEW c \in CPU, IInv,
         \/ \E l \in Locks : Acquire(c, l)
         \/ Cli(c) \/ PushNcli(c) \/ AcquireLocked(c) \/ AcquireCpu(c)
  PROVE  IInv' /\ QuietFor(c)
<1> USE SpinlockAssumption
<1>1. QuietFor(c) /\ TypeOK'
  <2>1. CASE \E l \in Locks : Acquire(c, l)
    BY <2>1 DEF IInv, TypeOK, Acquire, Goto, QuietFor, PCs
  <2>2. CASE Cli(c)
    BY <2>2, Zenon DEF IInv, TypeOK, Cli, Goto, QuietFor, PCs
  <2>3. CASE PushNcli(c)
    BY <2>3 DEF IInv, TypeOK, PushNcli, Goto, QuietFor, PCs
  <2>4. CASE AcquireLocked(c)
    BY <2>4, Zenon DEF IInv, TypeOK, AcquireLocked, Goto, QuietFor, PCs
  <2>5. CASE AcquireCpu(c)
    BY <2>5, Zenon DEF IInv, TypeOK, AcquireCpu, Goto, QuietFor, PCs
  <2> QED
    BY <2>1, <2>2, <2>3, <2>4, <2>5, Zenon
<1>2. /\ \A l \in Locks : Owns(c, l)' <=> Owns(c, l)
      /\ Held(c)' = Held(c)
  BY <1>1, QuietOwns, Zenon
<1>3. CallOK(c) /\ CliOK(c) /\ FrameOK(c) /\ TypeOK
  BY Zenon DEF IInv
<1>4. CallOK(c)' /\ FrameOK(c)'
  <2>1. CASE \E l \in Locks : Acquire(c, l)
    <3>1. PICK l \in Locks : Acquire(c, l)
      BY <2>1, Zenon
    <3>2. ~Owns(c, l)
      BY <3>1 DEF Acquire, Held
    <3> QED
      BY <3>1, <3>2, <1>2, <1>3, Zenon
      DEF Acquire, Goto, TypeOK, CallOK, FrameOK, InHandler, Acquiring, Releasing
  <2>2. CASE Cli(c)
    BY <2>2, <1>2, <1>3, ZenonT(30)
    DEF Cli, Goto, TypeOK, CallOK, FrameOK, InHandler, Acquiring, Releasing
  <2>3. CASE PushNcli(c)
    BY <2>3, <1>2, <1>3, ZenonT(30)
    DEF PushNcli, Goto, TypeOK, CallOK, FrameOK, InHandler, Acquiring, Releasing
  <2>4. CASE AcquireLocked(c)
    BY <2>4, <1>2, <1>3, ZenonT(30)
    DEF AcquireLocked, Goto, TypeOK, CallOK, FrameOK, InHandler, Acquiring, Releasing
  <2>5. CASE AcquireCpu(c)
    BY <2>5, <1>2, <1>3, Zenon
    DEF AcquireCpu, Goto, TypeOK, CallOK, FrameOK, InHandler, Acquiring, Releasing, Owns
  <2> QED
    BY <2>1, <2>2, <2>3, <2>4, <2>5, Zenon
<1>5. CliOK(c)'
  <2>0. Cardinality(Held(c)) \in Nat /\ (Cardinality(Held(c)) = 0 <=> Held(c) = {})
    BY <1>3, FS_EmptySet, FS_CardinalityType, Zenon DEF CliOK
  <2>1. CASE \E l \in Locks : Acquire(c, l)
    BY <2>1, <1>2, <1>3, <2>0
    DEF Acquire, Goto, TypeOK, CliOK, InHandler, Uncounted
  <2>2. CASE Cli(c)
    BY <2>2, <1>2, <1>3, <2>0, Zenon
    DEF Cli, Goto, TypeOK, CliOK, InHandler, Uncounted
  <2>3. CASE PushNcli(c)
    BY <2>3, <1>2, <1>3, <2>0
    DEF PushNcli, Goto, TypeOK, CliOK, InHandler, Uncounted
  <2>4. CASE AcquireLocked(c)
    BY <2>4, <1>2, <1>3, <2>0, Zenon
    DEF AcquireLocked, Goto, TypeOK, CliOK, InHandler, Uncounted
  <2>5. CASE AcquireCpu(c)
    BY <2>5, <1>2, <1>3, <2>0, Zenon
    DEF AcquireCpu, Goto, TypeOK, CallOK, CliOK, InHandler, Uncounted, Acquiring, Owns
  <2> QED
    BY <2>1, <2>2, <2>3, <2>4, <2>5, Zenon
<1> QED
  BY <1>1, <1>4, <1>5, QuietIInv, Zenon

\* the tests of holding() in release, and popcli
LEMMA ReleaseIInv ==
  ASSUME NEW c \in CPU, IInv,
         \/ \E l \in Locks : Release(c, l)
         \/ ReleaseLocked(c) \/ ReleaseCpu(c) \/ PopCli(c)
  PROVE  IInv' /\ QuietFor(c)
<1> USE SpinlockAssumption
<1>1. QuietFor(c) /\ TypeOK'
  <2>1. CASE \E l \in Locks : Release(c, l)
    BY <2>1 DEF IInv, TypeOK, Release, Goto, QuietFor, PCs
  <2>2. CASE ReleaseLocked(c)
    BY <2>2, Zenon DEF IInv, TypeOK, ReleaseLocked, Goto, QuietFor, PCs
  <2>3. CASE ReleaseCpu(c)
    BY <2>3, Zenon DEF IInv, TypeOK, ReleaseCpu, Goto, QuietFor, PCs
  <2>4. CASE PopCli(c)
    BY <2>4 DEF IInv, TypeOK, PopCli, Goto, QuietFor, PCs
  <2> QED
    BY <2>1, <2>2, <2>3, <2>4, Zenon
<1>2. /\ \A l \in Locks : Owns(c, l)' <=> Owns(c, l)
      /\ Held(c)' = Held(c)
  BY <1>1, QuietOwns, Zenon
<1>3. CallOK(c) /\ CliOK(c) /\ FrameOK(c) /\ TypeOK /\ LockedIffOwned
  BY Zenon DEF IInv
<1>4. Cardinality(Held(c)) \in Nat /\ (Cardinality(Held(c)) = 0 <=> Held(c) = {})
  BY <1>3, FS_EmptySet, FS_CardinalityType, Zenon DEF CliOK
<1>5. CallOK(c)' /\ CliOK(c)' /\ FrameOK(c)'
  <2>1. CASE \E l \in Locks : Release(c, l)
    <3>1. PICK l \in Locks : Release(c, l)
      BY <2>1, Zenon
    <3>2. lcpu[l] = c
      BY <3>1, Zenon DEF Release, Goto, Held, Owns
    <3>3. CallOK(c)' /\ FrameOK(c)'
      BY <3>1, <3>2, <1>2, <1>3, Zenon
      DEF Release, Goto, TypeOK, CallOK, FrameOK, InHandler, Acquiring, Releasing
    <3>4. CliOK(c)'
      BY <3>1, <1>2, <1>3, <1>4, ZenonT(30)
      DEF Release, Goto, TypeOK, CliOK, InHandler, Uncounted, Held
    <3> QED
      BY <3>3, <3>4, Zenon
  <2>2. CASE ReleaseLocked(c)
    <3>1. locked[arg[c]] = 1
      BY <2>2, <1>3, ZenonT(30) DEF ReleaseLocked, Goto, CallOK, Releasing, LockedIffOwned, Owns
    <3>2. CallOK(c)' /\ FrameOK(c)'
      BY <2>2, <3>1, <1>2, <1>3, Zenon
      DEF ReleaseLocked, Goto, TypeOK, CallOK, FrameOK, InHandler, Acquiring, Releasing
    <3>3. CliOK(c)'
      BY <2>2, <3>1, <1>2, <1>3, <1>4, Zenon
      DEF ReleaseLocked, Goto, TypeOK, CliOK, InHandler, Uncounted
    <3> QED
      BY <3>2, <3>3, Zenon
  <2>3. CASE ReleaseCpu(c)
    <3>1. CallOK(c)' /\ FrameOK(c)'
      BY <2>3, <1>2, <1>3, Zenon
      DEF ReleaseCpu, Goto, TypeOK, CallOK, FrameOK, InHandler, Acquiring, Releasing
    <3>2. CliOK(c)'
      BY <2>3, <1>2, <1>3, <1>4, Zenon
      DEF ReleaseCpu, Goto, TypeOK, CallOK, CliOK, InHandler, Uncounted, Releasing
    <3> QED
      BY <3>1, <3>2, Zenon
  <2>4. CASE PopCli(c)
    <3>1. iflag[c] = 0 /\ ncli[c] = Cardinality(Held(c)) + 1
      BY <2>4, <1>3, Zenon DEF PopCli, Goto, CliOK, TypeOK, Uncounted
    <3>2. CallOK(c)' /\ FrameOK(c)'
      BY <2>4, <3>1, <1>2, <1>3, <1>4
      DEF PopCli, Goto, TypeOK, CallOK, FrameOK, InHandler, Acquiring, Releasing
    <3>3. CliOK(c)'
      BY <2>4, <3>1, <1>2, <1>3, <1>4
      DEF PopCli, Goto, TypeOK, CliOK, InHandler, Uncounted
    <3> QED
      BY <3>2, <3>3, Zenon
  <2> QED
    BY <2>1, <2>2, <2>3, <2>4, Zenon
<1> QED
  BY <1>1, <1>5, QuietIInv, Zenon

\* interrupts: taken with interrupts on, returned from with no lock held
LEMMA InterruptIInv ==
  ASSUME NEW c \in CPU, IInv, Interrupt(c) \/ Iret(c)
  PROVE  IInv' /\ QuietFor(c)
<1> USE SpinlockAssumption
<1>1. CallOK(c) /\ CliOK(c) /\ FrameOK(c) /\ TypeOK
  BY Zenon DEF IInv
<1>2. QuietFor(c) /\ TypeOK'
  <2>1. CASE Interrupt(c)
    BY <2>1, <1>1, Zenon DEF TypeOK, Interrupt, QuietFor, PCs, Frames, CliOK
  <2>2. CASE Iret(c)
    BY <2>2, <1>1 DEF TypeOK, Iret, QuietFor, PCs, Frames, FrameOK, NoFrame, InHandler
  <2> QED
    BY <2>1, <2>2, Zenon
<1>3. /\ \A l \in Locks : Owns(c, l)' <=> Owns(c, l)
      /\ Held(c)' = Held(c)
  BY <1>2, QuietOwns, Zenon
<1>4. Cardinality(Held(c)) \in Nat /\ (Cardinality(Held(c)) = 0 <=> Held(c) = {})
  BY <1>1, FS_EmptySet, FS_CardinalityType, Zenon DEF CliOK
<1>5. Held(c) = {} /\ ncli[c] = 0
  BY <1>1, <1>4 DEF Interrupt, Iret, CliOK, Uncounted
<1>6. CASE Interrupt(c)
  <2>1. InHandler(c)' /\ frame'[c].pc \in {"run", "cli"}
    BY <1>6, <1>1, Zenon DEF Interrupt, InHandler, NoFrame, TypeOK, CliOK
  <2>2. FrameOK(c)'
    BY <1>6, <1>1, <2>1, Zenon DEF Interrupt, FrameOK, TypeOK, CallOK, CliOK
  <2>3. CallOK(c)' /\ CliOK(c)'
    BY <1>6, <1>1, <1>3, <1>5, <1>4, <2>1, Zenon
    DEF Interrupt, TypeOK, CallOK, CliOK, Acquiring, Releasing, Uncounted
  <2> QED
    BY <2>2, <2>3, <1>2, QuietIInv, Zenon
<1>7. CASE Iret(c)
  <2>1. ~InHandler(c)' /\ FrameOK(c)'
    BY <1>7, <1>1, Zenon DEF Iret, InHandler, TypeOK, FrameOK
  <2>2. \A l \in Locks : ~Owns(c, l)'
    BY <1>3, <1>5, Zenon DEF Held
  <2>3. CallOK(c)'
    BY <1>7, <1>1, <2>2, ZenonT(30) DEF Iret, TypeOK, CallOK, FrameOK, Acquiring, Releasing
  <2>4. CliOK(c)'
    BY <1>7, <1>1, <1>3, <1>5, <1>4, <2>1, Zenon DEF Iret, TypeOK, CliOK, FrameOK, Uncounted
  <2> QED
    BY <2>1, <2>3, <2>4, <1>2, QuietIInv, Zenon
<1> QED
  BY <1>2, <1>6, <1>7, Zenon

\* lock->cpu written by the lock's owner: ownership does not change
LEMMA CpuFieldIInv ==
  ASSUME NEW c \in CPU, IInv, SetCpu(c) \/ ClearCpu(c)
  PROVE  IInv' /\ \A d \in CPU, l \in Locks : Owns(d, l)' <=> Owns(d, l)
<1> USE SpinlockAssumption
<1>1. CallOK(c) /\ CliOK(c) /\ FrameOK(c) /\ TypeOK /\ LockedIffOwned /\ MutualExclusion
  BY Zenon DEF IInv
<1>2. TypeOK' /\ arg[c] \in Locks /\ Owns(c, arg[c])
  BY <1>1 DEF TypeOK, SetCpu, ClearCpu, Goto, PCs, CallOK, Owns, Releasing
<1>3. \A l \in Locks : Owns(c, l)' <=> Owns(c, l)
  BY <1>1, <1>2 DEF SetCpu, ClearCpu, Goto, Owns, TypeOK, CallOK, Releasing
<1>4. Held(c)' = Held(c)
  BY <1>3, ZenonT(30) DEF Held
<1>5. ASSUME NEW d \in CPU \ {c}
      PROVE  /\ CallOK(d)' /\ CliOK(d)' /\ FrameOK(d)'
             /\ \A l \in Locks : Owns(d, l)' <=> Owns(d, l)
  <2>1. ~Owns(d, arg[c])
    BY <1>1, <1>2, ZenonT(30) DEF MutualExclusion
  <2>2. \A l \in Locks : lcpu'[l] = d <=> lcpu[l] = d
    BY <1>1, <1>2, <2>1, Zenon DEF SetCpu, ClearCpu, Goto, Owns, TypeOK
  <2>3. pc[d] \in {"set_cpu", "xchg0"} => lcpu'[arg[d]] = lcpu[arg[d]]
    <3> SUFFICES ASSUME pc[d] \in {"set_cpu", "xchg0"}
                 PROVE  lcpu'[arg[d]] = lcpu[arg[d]]
      BY Zenon
    <3>1. arg[d] # arg[c]
      BY <2>1, Zenon DEF Owns
    <3>2. arg[d] \in Locks
      BY Zenon DEF IInv, CallOK
    <3> QED
      BY <1>1, <3>1, <3>2, ZenonT(30) DEF SetCpu, ClearCpu, TypeOK
  <2>4. /\ iflag'[d] = iflag[d] /\ ncli'[d] = ncli[d] /\ intena'[d] = intena[d]
        /\ pc'[d] = pc[d] /\ arg'[d] = arg[d] /\ eflags'[d] = eflags[d]
        /\ frame'[d] = frame[d]
    BY <1>1, Zenon DEF SetCpu, ClearCpu, Goto, TypeOK
  <2>5. CallOK(d) /\ CliOK(d) /\ FrameOK(d)
    BY Zenon DEF IInv
  <2>6. CallOK(d)' /\ CliOK(d)' /\ FrameOK(d)'
    BY <1>1, <1>2, <2>2, <2>3, <2>4, <2>5, OthersKeep, Zenon
  <2> QED
    BY <2>2, <2>4, <2>6, Zenon DEF Owns
<1>6. LockedIffOwned' /\ MutualExclusion'
  BY <1>1, <1>3, <1>5 DEF LockedIffOwned, MutualExclusion, SetCpu, ClearCpu
<1>7. CallOK(c)' /\ FrameOK(c)'
  BY <1>1, <1>2
  DEF SetCpu, ClearCpu, Goto, TypeOK, CallOK, FrameOK, InHandler, Acquiring, Releasing
<1>8. CliOK(c)'
  <2>1. arg[c] \in Held(c)
    BY <1>2, Zenon DEF Held
  <2> QED
    BY <1>1, <1>4, <2>1 DEF SetCpu, ClearCpu, Goto, TypeOK, CliOK, InHandler, Uncounted
<1> QED
  BY <1>2, <1>3, <1>5, <1>6, <1>7, <1>8, Zenon DEF IInv

\* the exchange that takes the lock
LEMMA XchgIInv ==
  ASSUME NEW c \in CPU, NEW a, a = arg[c], IInv, Xchg(c)
  PROVE  /\ IInv'
         /\ a \in Locks /\ Owns(c, a)'
         /\ \A d \in CPU : ~Owns(d, a)
         /\ \A d \in CPU, l \in Locks : l # a => (Owns(d, l)' <=> Owns(d, l))
<1> USE SpinlockAssumption
<1>1. CallOK(c) /\ CliOK(c) /\ FrameOK(c) /\ TypeOK /\ LockedIffOwned /\ MutualExclusion
  BY Zenon DEF IInv
<1>2. TypeOK' /\ a \in Locks
  BY <1>1, Zenon DEF TypeOK, Xchg, Goto, PCs, CallOK
<1>3. \A d \in CPU : ~Owns(d, a)
  BY <1>1, <1>2 DEF Xchg, LockedIffOwned
<1>4. /\ Owns(c, a)'
      /\ \A d \in CPU, l \in Locks : l # a => (Owns(d, l)' <=> Owns(d, l))
      /\ \A d \in CPU : d # c => ~Owns(d, a)'
  BY <1>1, <1>2, <1>3, Zenon DEF Xchg, Goto, Owns, TypeOK
<1>5. ASSUME NEW d \in CPU \ {c} PROVE CallOK(d)' /\ CliOK(d)' /\ FrameOK(d)'
  <2>1. CallOK(d) /\ CliOK(d) /\ FrameOK(d)
    BY Zenon DEF IInv
  <2>2. /\ iflag'[d] = iflag[d] /\ ncli'[d] = ncli[d] /\ intena'[d] = intena[d]
        /\ pc'[d] = pc[d] /\ arg'[d] = arg[d] /\ eflags'[d] = eflags[d]
        /\ frame'[d] = frame[d] /\ lcpu' = lcpu
    BY <1>1, Zenon DEF Xchg, Goto, TypeOK
  <2> QED
    BY <1>1, <1>2, <2>1, <2>2, OthersKeep, Zenon
<1>6. LockedIffOwned' /\ MutualExclusion'
  BY <1>1, <1>2, <1>4 DEF LockedIffOwned, MutualExclusion, Xchg, TypeOK
<1>7. CallOK(c)' /\ FrameOK(c)'
  BY <1>1, <1>2, <1>3, ZenonT(30)
  DEF Xchg, Goto, TypeOK, CallOK, FrameOK, InHandler, Acquiring, Releasing, Owns
<1>8. CliOK(c)'
  <2>1. Held(c)' = Held(c) \cup {a} /\ a \notin Held(c)
    BY <1>2, <1>3, <1>4, ZenonT(30) DEF Held
  <2>2. IsFiniteSet(Held(c))
    BY <1>1, Zenon DEF CliOK
  <2>3. /\ IsFiniteSet(Held(c) \cup {a})
        /\ Cardinality(Held(c) \cup {a}) = Cardinality(Held(c)) + 1
    BY <2>1, <2>2, FS_AddElement, Zenon
  <2> QED
    BY <1>1, <2>1, <2>3 DEF Xchg, Goto, TypeOK, CliOK, InHandler, Uncounted
<1> QED
  BY <1>2, <1>3, <1>4, <1>5, <1>6, <1>7, <1>8, Zenon DEF IInv

\* the exchange that gives it back
LEMMA Xchg0IInv ==
  ASSUME NEW c \in CPU, NEW a, a = arg[c], IInv, Xchg0(c)
  PROVE  /\ IInv'
         /\ a \in Locks /\ Owns(c, a)
         /\ \A d \in CPU : ~Owns(d, a)'
         /\ \A d \in CPU, l \in Locks : l # a => (Owns(d, l)' <=> Owns(d, l))
<1> USE SpinlockAssumption
<1>1. CallOK(c) /\ CliOK(c) /\ FrameOK(c) /\ TypeOK /\ LockedIffOwned /\ MutualExclusion
  BY Zenon DEF IInv
<1>2. TypeOK' /\ a \in Locks /\ Owns(c, a) /\ lcpu[a] = NoCpu
  BY <1>1, Zenon DEF TypeOK, Xchg0, Goto, PCs, CallOK, Owns
<1>3. \A d \in CPU : d # c => ~Owns(d, a)
  BY <1>1, <1>2, Zenon DEF MutualExclusion
<1>4. /\ \A d \in CPU : ~Owns(d, a)'
      /\ \A d \in CPU, l \in Locks : l # a => (Owns(d, l)' <=> Owns(d, l))
  BY <1>1, <1>2, <1>3, Zenon DEF Xchg0, Goto, Owns, TypeOK
<1>5. ASSUME NEW d \in CPU \ {c} PROVE CallOK(d)' /\ CliOK(d)' /\ FrameOK(d)'
  <2>1. CallOK(d) /\ CliOK(d) /\ FrameOK(d)
    BY Zenon DEF IInv
  <2>2. /\ iflag'[d] = iflag[d] /\ ncli'[d] = ncli[d] /\ intena'[d] = intena[d]
        /\ pc'[d] = pc[d] /\ arg'[d] = arg[d] /\ eflags'[d] = eflags[d]
        /\ frame'[d] = frame[d] /\ lcpu' = lcpu
    BY <1>1, Zenon DEF Xchg0, Goto, TypeOK
  <2> QED
    BY <1>1, <1>2, <2>1, <2>2, OthersKeep, ZenonT(30)
<1>6. LockedIffOwned' /\ MutualExclusion'
  BY <1>1, <1>2, <1>4 DEF LockedIffOwned, MutualExclusion, Xchg0, TypeOK
<1>7. CallOK(c)' /\ FrameOK(c)'
  BY <1>1, <1>2, Zenon
  DEF Xchg0, Goto, TypeOK, CallOK, FrameOK, InHandler, Acquiring, Releasing
<1>8. CliOK(c)'
  <2>1. Held(c)' = Held(c) \ {a} /\ a \in Held(c)
    BY <1>2, <1>4, ZenonT(30) DEF Held
  <2>2. IsFiniteSet(Held(c)') /\ Cardinality(Held(c)') = Cardinality(Held(c)) - 1
    BY <1>1, <2>1, FS_RemoveElement DEF CliOK
  <2>3. Cardinality(Held(c)) \in Nat
    BY <1>1, FS_CardinalityType, Zenon DEF CliOK
  <2> QED
    BY <1>1, <2>1, <2>2, <2>3 DEF Xchg0, Goto, TypeOK, CliOK, InHandler, Uncounted
<1> QED
  BY <1>2, <1>3, <1>4, <1>5, <1>6, <1>7, <1>8, Zenon DEF IInv

-----------------------------------------------------------------------------
\* The invariant is inductive, and every step takes one free lock, gives back
\* one lock of its owner's, or changes no ownership.
LEMMA StepIInv ==
  ASSUME IInv, [Next]_vars
  PROVE  /\ IInv'
         /\ \/ \A d \in CPU, l \in Locks : Owns(d, l)' <=> Owns(d, l)
            \/ \E c \in CPU, a \in Locks :
                 /\ \A d \in CPU, l \in Locks :
                      l # a => (Owns(d, l)' <=> Owns(d, l))
                 /\ \/ Owns(c, a)' /\ \A d \in CPU : ~Owns(d, a)
                    \/ Owns(c, a) /\ \A d \in CPU : ~Owns(d, a)'
<1>1. CASE UNCHANGED vars
  <2>1. \A d \in CPU, l \in Locks : Owns(d, l)' <=> Owns(d, l)
    BY <1>1, Zenon DEF vars, Owns
  <2>2. \A d \in CPU : Held(d)' = Held(d)
    BY <2>1, Zenon DEF Held
  <2>3. TypeOK' /\ LockedIffOwned' /\ MutualExclusion'
    BY <1>1, <2>1, Zenon DEF vars, IInv, TypeOK, LockedIffOwned, MutualExclusion
  <2>4. ASSUME NEW d \in CPU PROVE CallOK(d)' /\ CliOK(d)' /\ FrameOK(d)'
    BY <1>1, <2>3, OthersKeep, Zenon DEF vars, IInv
  <2> QED
    BY <2>1, <2>3, <2>4, Zenon DEF IInv
<1>2. ASSUME NEW c \in CPU,
             \/ \E l \in Locks : Acquire(c, l) \/ Release(c, l)
             \/ AcquireStep(c) \/ ReleaseStep(c) \/ Interrupt(c) \/ Iret(c)
      PROVE  \/ IInv' /\ \A d \in CPU, l \in Locks : Owns(d, l)' <=> Owns(d, l)
             \/ Xchg(c) \/ Xchg0(c)
  <2>1. CASE \/ \E l \in Locks : Acquire(c, l)
             \/ Cli(c) \/ PushNcli(c) \/ AcquireLocked(c) \/ AcquireCpu(c)
    BY <2>1, AcquireIInv, QuietOwns, Zenon
  <2>2. CASE \/ \E l \in Locks : Release(c, l)
             \/ ReleaseLocked(c) \/ ReleaseCpu(c) \/ PopCli(c)
    BY <2>2, ReleaseIInv, QuietOwns, Zenon
  <2>3. CASE Interrupt(c) \/ Iret(c)
    BY <2>3, InterruptIInv, QuietOwns, Zenon
  <2>4. CASE SetCpu(c) \/ ClearCpu(c)
    BY <2>4, CpuFieldIInv, Zenon
  <2> QED
    BY <1>2, <2>1, <2>2, <2>3, <2>4, Zenon DEF AcquireStep, ReleaseStep
<1>3. ASSUME NEW c \in CPU, Xchg(c) \/ Xchg0(c)
      PROVE  /\ IInv'
             /\ \E a \in Locks :
                  /\ \A d \in CPU, l \in Locks :
                       l # a => (Owns(d, l)' <=> Owns(d, l))
                  /\ \/ Owns(c, a)' /\ \A d \in CPU : ~Owns(d, a)
                     \/ Owns(c, a) /\ \A d \in CPU : ~Owns(d, a)'
  BY <1>3, XchgIInv, Xchg0IInv, Zenon
<1>4. CASE Next
  <2>1. PICK c \in CPU :
             \/ \E l \in Locks : Acquire(c, l) \/ Release(c, l)
             \/ AcquireStep(c) \/ ReleaseStep(c) \/ Interrupt(c) \/ Iret(c)
    BY <1>4, Zenon DEF Next
  <2> QED
    BY <2>1, <1>2, <1>3, Zenon
<1> QED
  BY <1>1, <1>4, Zenon

\* IInv holds in every reachable state of spinlock.c's instructions.
THEOREM SpinlockIInv == Spec => []IInv
<1>1. Init => IInv
  BY InitIInv, Zenon
<1>2. IInv /\ [Next]_vars => IInv'
  BY StepIInv, Zenon
<1> QED
  BY <1>1, <1>2, PTL DEF Spec

\* Each variable of the spinlock code keeps its type, for any set of CPUs and
\* locks.
THEOREM SpinlockTypeOK == Spec => []TypeOK
<1>1. IInv => TypeOK
  BY Zenon DEF IInv
<1> QED
  BY <1>1, SpinlockIInv, PTL

\* acquire and release keep every lock's critical section exclusive.
THEOREM SpinlockMutualExclusion == Spec => []MutualExclusion
<1>1. IInv => MutualExclusion
  BY Zenon DEF IInv
<1> QED
  BY <1>1, SpinlockIInv, PTL

\* holding() is exact, which the panics of enqueue_proc and release rely on.
THEOREM SpinlockHoldingExact == Spec => []HoldingExact
<1>1. IInv => HoldingExact
  <2> SUFFICES ASSUME IInv, NEW c \in CPU, NEW l \in Locks
               PROVE  /\ locked[l] = 1 /\ lcpu[l] = c => Owns(c, l)
                      /\ Owns(c, l) /\ ~(pc[c] \in {"set_cpu", "xchg0"} /\ arg[c] = l)
                            => locked[l] = 1 /\ lcpu[l] = c
    BY Zenon DEF HoldingExact
  <2> QED
    BY Zenon DEF IInv, Owns, LockedIffOwned
<1> QED
  BY <1>1, SpinlockIInv, PTL

\* No panic of spinlock.c is reachable from callers that release what they hold.
THEOREM SpinlockNoPanic == Spec => []NoPanic
<1>1. IInv => NoPanic
  BY Zenon DEF IInv, NoPanic, CallOK
<1> QED
  BY <1>1, SpinlockIInv, PTL

\* A handler never runs on top of a critical section of its own CPU.
THEOREM SpinlockInterruptsOff == Spec => []InterruptsOffInCriticalSection
<1>1. IInv => InterruptsOffInCriticalSection
  BY Zenon DEF IInv, InterruptsOffInCriticalSection, CliOK, TypeOK
<1> QED
  BY <1>1, SpinlockIInv, PTL

\* cpus[c].ncli counts the locks of the CPU, pushcli by pushcli.
THEOREM SpinlockNcliCountsLocks == Spec => []NcliCountsLocks
<1>1. IInv => NcliCountsLocks
  BY Zenon DEF IInv, CliOK, Uncounted, NcliCountsLocks
<1> QED
  BY <1>1, SpinlockIInv, PTL

\* Matched pushcli and popcli restore the interrupt flag.
THEOREM SpinlockPopCliRestores == Spec => []PopCliRestores
<1>1. IInv => PopCliRestores
  BY Zenon DEF IInv, PopCliRestores, CliOK, TypeOK
<1> QED
  BY <1>1, SpinlockIInv, PTL

-----------------------------------------------------------------------------
\* Under mutual exclusion the refinement mapping is the owner, where there is
\* one.
OwnerFacts ==
  \A l \in Locks :
     /\ \A c \in CPU : Owns(c, l) => Owner[l] = c
     /\ (\A c \in CPU : ~Owns(c, l)) => Owner[l] = NoCpu

\* With one owner at most, Owner(l) is the CPU between the two exchanges of l.
LEMMA OwnerValue == MutualExclusion => OwnerFacts
<1> SUFFICES ASSUME MutualExclusion, NEW l \in Locks
             PROVE  /\ \A c \in CPU : Owns(c, l) => Owner[l] = c
                    /\ (\A c \in CPU : ~Owns(c, l)) => Owner[l] = NoCpu
  BY Zenon DEF OwnerFacts
<1>1. ASSUME NEW c \in CPU, Owns(c, l) PROVE Owner[l] = c
  <2>1. (CHOOSE d \in CPU : Owns(d, l)) = c
    BY <1>1, Zenon DEF MutualExclusion
  <2> QED
    BY <1>1, <2>1, Zenon DEF Owner
<1>2. ASSUME \A c \in CPU : ~Owns(c, l) PROVE Owner[l] = NoCpu
  BY <1>2, Zenon DEF Owner
<1> QED
  BY <1>1, <1>2, Zenon

\* The instruction-level code implements the atomic lock: acquire's exchange is
\* its Take, release's exchange its Drop, and everything else stutters.
THEOREM SpinlockImplementsLock == Spec => ImplementsLock
<1>1. Init => Abstract!LInit
  <2> SUFFICES ASSUME Init PROVE Owner = [l \in Locks |-> NoCpu]
    BY Zenon DEF Abstract!LInit
  <2>1. \A c \in CPU, l \in Locks : ~Owns(c, l)
    BY SpinlockAssumption, Zenon DEF Init, Owns
  <2> QED
    BY <2>1, Zenon DEF Owner
<1>2. MutualExclusion => OwnerFacts
  BY OwnerValue, Zenon
<1>3. IInv /\ IInv' /\ OwnerFacts /\ OwnerFacts' /\ [Next]_vars
        => [Abstract!LNext]_Owner
  <2> SUFFICES ASSUME IInv, IInv', OwnerFacts, OwnerFacts', [Next]_vars
               PROVE  Abstract!LNext \/ Owner' = Owner
    BY Zenon
  <2>0. /\ Owner = [l \in Locks |-> Owner[l]]
        /\ Owner' = [l \in Locks |-> Owner'[l]]
    BY Zenon DEF Owner
  <2>1. ASSUME NEW l \in Locks,
               \A d \in CPU : Owns(d, l)' <=> Owns(d, l)
        PROVE  Owner'[l] = Owner[l]
    <3>1. CASE \E c \in CPU : Owns(c, l)
      BY <2>1, <3>1, Zenon DEF OwnerFacts
    <3>2. CASE \A c \in CPU : ~Owns(c, l)
      BY <2>1, <3>2, Zenon DEF OwnerFacts
    <3> QED
      BY <3>1, <3>2, Zenon
  <2>2. CASE \A d \in CPU, l \in Locks : Owns(d, l)' <=> Owns(d, l)
    BY <2>0, <2>1, <2>2, Zenon
  <2>3. ASSUME NEW c \in CPU, NEW a \in Locks,
               \A d \in CPU, l \in Locks : l # a => (Owns(d, l)' <=> Owns(d, l)),
               \/ Owns(c, a)' /\ \A d \in CPU : ~Owns(d, a)
               \/ Owns(c, a) /\ \A d \in CPU : ~Owns(d, a)'
        PROVE  Abstract!LNext
    <3>1. \A l \in Locks : l # a => Owner'[l] = Owner[l]
      BY <2>1, <2>3, Zenon
    <3>2. CASE Owns(c, a)' /\ \A d \in CPU : ~Owns(d, a)
      <4>1. Owner[a] = NoCpu /\ Owner'[a] = c
        BY <3>2, Zenon DEF OwnerFacts
      <4>2. Owner' = [Owner EXCEPT ![a] = c]
        BY <2>0, <3>1, <4>1, Zenon
      <4> QED
        BY <4>1, <4>2, ZenonT(30) DEF Abstract!LNext, Abstract!Take
    <3>3. CASE Owns(c, a) /\ \A d \in CPU : ~Owns(d, a)'
      <4>1. Owner[a] = c /\ Owner'[a] = NoCpu
        BY <3>3, Zenon DEF OwnerFacts
      <4>2. Owner' = [Owner EXCEPT ![a] = NoCpu]
        BY <2>0, <3>1, <4>1, Zenon
      <4> QED
        BY <4>1, <4>2, ZenonT(30) DEF Abstract!LNext, Abstract!Drop
    <3> QED
      BY <2>3, <3>2, <3>3, Zenon
  <2> QED
    BY <2>2, <2>3, StepIInv, Zenon
<1>4. IInv => MutualExclusion
  BY Zenon DEF IInv
<1> QED
  BY <1>1, <1>2, <1>3, <1>4, SpinlockIInv, PTL DEF Spec, ImplementsLock, Abstract!LSpec
=============================================================================
