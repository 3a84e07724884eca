------------------------------ MODULE Spinlock ------------------------------
(***************************************************************************)
(* spinlock.c, one action per access to shared memory or to the interrupt  *)
(* flag: pushcli/popcli, holding, acquire and release, executed by every   *)
(* CPU in a kernel thread and in the interrupt handlers that hit it.       *)
(*                                                                         *)
(* A CPU is at "run" when it is in no spinlock function; its caller is any *)
(* kernel code that takes locks in increasing order and gives back what it *)
(* took (in a handler: before the iret).                                   *)
(***************************************************************************)
EXTENDS Naturals, FiniteSets

CONSTANTS CPU,      \* the processors
          NoCpu,    \* lock->cpu == 0xffffffff
          Locks     \* the spinlocks, numbered in the order callers nest them

ASSUME SpinlockAssumption ==
  /\ NoCpu \notin CPU
  /\ Locks \subseteq Nat \ {0}

VARIABLES locked,   \* lock->locked (here and below, a flag is 0 or 1)
          lcpu,     \* lock->cpu, without the + 10
          iflag,    \* FL_IF of each CPU
          ncli,     \* cpus[c].ncli
          intena,   \* cpus[c].intena
          pc,       \* where each CPU is in spinlock.c
          arg,      \* the lock the running call is about, 0 outside calls
          eflags,   \* pushcli's local eflags & FL_IF, 0 when dead
          frame     \* trap frame of the interrupted code, if any

vars == <<locked, lcpu, iflag, ncli, intena, pc, arg, eflags, frame>>

PCs == {"run", "cli", "ncli", "acq_locked", "acq_cpu", "xchg", "set_cpu",
        "rel_locked", "rel_cpu", "clr_cpu", "xchg0", "popcli", "panic"}

NoFrame == [pc |-> "panic", arg |-> 0, eflags |-> 0]
Frames == [pc : PCs, arg : Locks \cup {0}, eflags : {0, 1}]

\* c is between the xchg that took l and the xchg that gives it back.
Owns(c, l) ==
  \/ lcpu[l] = c
  \/ pc[c] \in {"set_cpu", "xchg0"} /\ arg[c] = l

Held(c) == {l \in Locks : Owns(c, l)}

InHandler(c) == frame[c] # NoFrame

\* initlock, on CPUs that run the kernel with interrupts on.
Init ==
  /\ locked = [l \in Locks |-> 0]
  /\ lcpu   = [l \in Locks |-> NoCpu]
  /\ iflag  = [c \in CPU |-> 1]
  /\ ncli   = [c \in CPU |-> 0]
  /\ intena = [c \in CPU |-> 0]
  /\ pc     = [c \in CPU |-> "run"]
  /\ arg    = [c \in CPU |-> 0]
  /\ eflags = [c \in CPU |-> 0]
  /\ frame  = [c \in CPU |-> NoFrame]

Goto(c, from, to) ==
  /\ pc[c] = from
  /\ pc' = [pc EXCEPT ![c] = to]

-----------------------------------------------------------------------------
\* Mutant of Acquire: a caller that nests locks in any order.
MAcquire(c, l) ==
  /\ l \notin Held(c)
  /\ Goto(c, "run", "cli")
  /\ arg' = [arg EXCEPT ![c] = l]
  /\ eflags' = [eflags EXCEPT ![c] = iflag[c]]
  /\ UNCHANGED <<locked, lcpu, iflag, ncli, intena, frame>>

\* acquire -> pushcli: eflags = read_eflags()
Acquire(c, l) ==
  /\ \A h \in Held(c) : h < l
  /\ Goto(c, "run", "cli")
  /\ arg' = [arg EXCEPT ![c] = l]
  /\ eflags' = [eflags EXCEPT ![c] = iflag[c]]
  /\ UNCHANGED <<locked, lcpu, iflag, ncli, intena, frame>>

\* pushcli: cli()
Cli(c) ==
  /\ Goto(c, "cli", "ncli")
  /\ iflag' = [iflag EXCEPT ![c] = 0]
  /\ UNCHANGED <<locked, lcpu, ncli, intena, arg, eflags, frame>>

\* pushcli: if(ncli++ == 0) intena = eflags & FL_IF
PushNcli(c) ==
  /\ Goto(c, "ncli", "acq_locked")
  /\ ncli' = [ncli EXCEPT ![c] = @ + 1]
  /\ intena' = [intena EXCEPT ![c] = IF ncli[c] = 0 THEN eflags[c] ELSE @]
  /\ eflags' = [eflags EXCEPT ![c] = 0]
  /\ UNCHANGED <<locked, lcpu, iflag, arg, frame>>

\* holding(): lock->locked, then lock->cpu == cpu() + 10; acquire panics on it
AcquireLocked(c) ==
  /\ Goto(c, "acq_locked", IF locked[arg[c]] = 1 THEN "acq_cpu" ELSE "xchg")
  /\ UNCHANGED <<locked, lcpu, iflag, ncli, intena, arg, eflags, frame>>

AcquireCpu(c) ==
  /\ Goto(c, "acq_cpu", IF lcpu[arg[c]] = c THEN "panic" ELSE "xchg")
  /\ UNCHANGED <<locked, lcpu, iflag, ncli, intena, arg, eflags, frame>>

\* Mutant of Xchg: the old value is not tested.
MXchg(c) ==
  /\ Goto(c, "xchg", "set_cpu")
  /\ locked' = [locked EXCEPT ![arg[c]] = 1]
  /\ UNCHANGED <<lcpu, iflag, ncli, intena, arg, eflags, frame>>

\* while(xchg(&lock->locked, 1) == 1): the exchange that ends the loop
Xchg(c) ==
  /\ Goto(c, "xchg", "set_cpu")
  /\ locked[arg[c]] = 0
  /\ locked' = [locked EXCEPT ![arg[c]] = 1]
  /\ UNCHANGED <<lcpu, iflag, ncli, intena, arg, eflags, frame>>

SetCpu(c) ==
  /\ Goto(c, "set_cpu", "run")
  /\ lcpu' = [lcpu EXCEPT ![arg[c]] = c]
  /\ arg' = [arg EXCEPT ![c] = 0]
  /\ UNCHANGED <<locked, iflag, ncli, intena, eflags, frame>>

-----------------------------------------------------------------------------
Release(c, l) ==
  /\ l \in Held(c)
  /\ Goto(c, "run", "rel_locked")
  /\ arg' = [arg EXCEPT ![c] = l]
  /\ UNCHANGED <<locked, lcpu, iflag, ncli, intena, eflags, frame>>

\* if(!holding(lock)) panic("release")
ReleaseLocked(c) ==
  /\ Goto(c, "rel_locked", IF locked[arg[c]] = 1 THEN "rel_cpu" ELSE "panic")
  /\ UNCHANGED <<locked, lcpu, iflag, ncli, intena, arg, eflags, frame>>

ReleaseCpu(c) ==
  /\ Goto(c, "rel_cpu", IF lcpu[arg[c]] = c THEN "clr_cpu" ELSE "panic")
  /\ UNCHANGED <<locked, lcpu, iflag, ncli, intena, arg, eflags, frame>>

\* Mutant of ClearCpu: lock->cpu is kept.
MClearCpuKeep(c) ==
  /\ Goto(c, "clr_cpu", "xchg0")
  /\ UNCHANGED <<locked, lcpu, iflag, ncli, intena, arg, eflags, frame>>

ClearCpu(c) ==
  /\ Goto(c, "clr_cpu", "xchg0")
  /\ lcpu' = [lcpu EXCEPT ![arg[c]] = NoCpu]
  /\ UNCHANGED <<locked, iflag, ncli, intena, arg, eflags, frame>>

Xchg0(c) ==
  /\ Goto(c, "xchg0", "popcli")
  /\ locked' = [locked EXCEPT ![arg[c]] = 0]
  /\ UNCHANGED <<lcpu, iflag, ncli, intena, arg, eflags, frame>>

\* Mutant of PopCli: sti() without looking at intena.
MPopCli(c) ==
  /\ Goto(c, "popcli", IF iflag[c] = 1 \/ ncli[c] = 0 THEN "panic" ELSE "run")
  /\ ncli' = [ncli EXCEPT ![c] = IF @ = 0 THEN 0 ELSE @ - 1]
  /\ iflag' = [iflag EXCEPT ![c] = IF ncli[c] = 1 THEN 1 ELSE @]
  /\ arg' = [arg EXCEPT ![c] = 0]
  /\ UNCHANGED <<locked, lcpu, intena, eflags, frame>>

\* popcli: two panics (what they leave in ncli does not matter), the decrement,
\* and sti() at depth zero
PopCli(c) ==
  /\ Goto(c, "popcli", IF iflag[c] = 1 \/ ncli[c] = 0 THEN "panic" ELSE "run")
  /\ ncli' = [ncli EXCEPT ![c] = IF @ = 0 THEN 0 ELSE @ - 1]
  /\ iflag' = [iflag EXCEPT ![c] = IF ncli[c] = 1 /\ intena[c] = 1 THEN 1 ELSE @]
  /\ arg' = [arg EXCEPT ![c] = 0]
  /\ UNCHANGED <<locked, lcpu, intena, eflags, frame>>

-----------------------------------------------------------------------------
\* An interrupt gate: the CPU saves its state, clears FL_IF and runs trap().
Interrupt(c) ==
  /\ iflag[c] = 1
  /\ pc[c] # "panic"
  /\ ~InHandler(c)
  /\ frame' = [frame EXCEPT ![c] =
                 [pc |-> pc[c], arg |-> arg[c], eflags |-> eflags[c]]]
  /\ pc' = [pc EXCEPT ![c] = "run"]
  /\ iflag' = [iflag EXCEPT ![c] = 0]
  /\ UNCHANGED <<locked, lcpu, ncli, intena, arg, eflags>>

\* iret at the end of the handler restores FL_IF, which was set.
Iret(c) ==
  /\ InHandler(c)
  /\ pc[c] = "run"
  /\ Held(c) = {}
  /\ pc' = [pc EXCEPT ![c] = frame[c].pc]
  /\ arg' = [arg EXCEPT ![c] = frame[c].arg]
  /\ eflags' = [eflags EXCEPT ![c] = frame[c].eflags]
  /\ iflag' = [iflag EXCEPT ![c] = 1]
  /\ frame' = [frame EXCEPT ![c] = NoFrame]
  /\ UNCHANGED <<locked, lcpu, ncli, intena>>

AcquireStep(c) ==
  \/ Cli(c) \/ PushNcli(c) \/ AcquireLocked(c) \/ AcquireCpu(c)
  \/ Xchg(c) \/ SetCpu(c)

ReleaseStep(c) ==
  \/ ReleaseLocked(c) \/ ReleaseCpu(c) \/ ClearCpu(c) \/ Xchg0(c) \/ PopCli(c)

Next ==
  \E c \in CPU :
     \/ \E l \in Locks : Acquire(c, l) \/ Release(c, l)
     \/ AcquireStep(c)
     \/ ReleaseStep(c)
     \/ Interrupt(c)
     \/ Iret(c)

\* A CPU keeps executing: it finishes the function it is in, gives back what
\* it took and returns from handlers.  acquire's spinning is not fair among
\* the CPUs that contend.
Executes(c) ==
  AcquireStep(c) \/ ReleaseStep(c) \/ Iret(c) \/ \E l \in Locks : Release(c, l)

Fairness == \A c \in CPU : WF_vars(Executes(c))

Spec == Init /\ [][Next]_vars

FairSpec == Spec /\ Fairness

-----------------------------------------------------------------------------
\* The types; lock->cpu is a CPU's number or the "nobody" initlock stores.
TypeOK ==
  /\ locked \in [Locks -> {0, 1}]
  /\ lcpu   \in [Locks -> CPU \cup {NoCpu}]
  /\ iflag  \in [CPU -> {0, 1}]
  /\ ncli   \in [CPU -> Nat]
  /\ intena \in [CPU -> {0, 1}]
  /\ pc     \in [CPU -> PCs]
  /\ arg    \in [CPU -> Locks \cup {0}]
  /\ eflags \in [CPU -> {0, 1}]
  /\ frame  \in [CPU -> Frames]

\* Two CPUs are never both between acquire's xchg and release's xchg of one
\* lock, although lock->cpu is written after the first and before the second.
MutualExclusion ==
  \A c, d \in CPU, l \in Locks : Owns(c, l) /\ Owns(d, l) => c = d

\* holding() answers for its caller only: what it reads in lock->locked and
\* lock->cpu is "mine" exactly when this CPU took the lock, except in the few
\* instructions of its own acquire or release around lock->cpu.
HoldingExact ==
  \A c \in CPU, l \in Locks :
     /\ locked[l] = 1 /\ lcpu[l] = c => Owns(c, l)
     /\ Owns(c, l) /\ ~(pc[c] \in {"set_cpu", "xchg0"} /\ arg[c] = l)
          => locked[l] = 1 /\ lcpu[l] = c

\* None of the panics of acquire, release and popcli can be reached by callers
\* that nest locks in order and release what they took, interrupts included.
NoPanic == \A c \in CPU : pc[c] # "panic"

\* An interrupt handler never runs on top of a critical section of its own
\* CPU, so it cannot spin on a lock that the code it interrupted holds.
InterruptsOffInCriticalSection ==
  \A c \in CPU : Held(c) # {} => iflag[c] = 0

\* "it takes two popcli to undo two pushcli.  Also, if interrupts are off, then
\* pushcli, popcli leaves them off" (spinlock.c): in no spinlock function and
\* holding nothing, a thread has interrupts on and a handler has them off.
PopCliRestores ==
  \A c \in CPU :
     pc[c] = "run" /\ Held(c) = {} => (iflag[c] = 1 <=> ~InHandler(c))

\* cpus[c].ncli counts the locks the CPU holds, plus the one that a running
\* acquire or release has counted but not taken, or given back but not uncounted.
NcliCountsLocks ==
  \A c \in CPU :
     ncli[c] = Cardinality(Held(c))
       + IF pc[c] \in {"acq_locked", "acq_cpu", "xchg", "popcli"} THEN 1 ELSE 0

\* The instruction-level spinlock implements Lock: a lock changes hands in one
\* atomic step and only its owner gives it up.
Owner ==
  [l \in Locks |-> IF \E c \in CPU : Owns(c, l)
                   THEN CHOOSE c \in CPU : Owns(c, l) ELSE NoCpu]

Abstract == INSTANCE Lock WITH owner <- Owner

ImplementsLock == Abstract!LSpec

\* Lock nesting in one order, with handlers on the same locks, cannot wedge the
\* machine: while a CPU spins in acquire, some CPU completes an acquire.
SpinnersMakeProgress ==
  (\E c \in CPU : pc[c] = "xchg") ~> (\E d \in CPU : pc[d] = "set_cpu")
=============================================================================
