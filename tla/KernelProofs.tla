---------------------------- MODULE KernelProofs ----------------------------
(***************************************************************************)
(* Proofs about module Kernel for every size of the process table: locks,  *)
(* interrupts and slots; then fork, exit and wait (the family tree,        *)
(* wakeups and statuses) and the refinement to LifeCycle.                  *)
(***************************************************************************)
EXTENDS KernelLife, TLAPS, WellFoundedInduction, FiniteSetTheorems

\* The first of a nonempty set of slots is one of them: allocproc(), and the
\* scan of kwait(), find a slot if there is one.
LEMMA FirstOfIn ==
    ASSUME NEW S, S \subseteq Slots, S # {}
    PROVE  FirstOf(S) \in S
<1> DEFINE R == OpToRel(<, Nat)
<1>1. IsWellFoundedOn(R, Nat)
  BY NatLessThanWellFounded
<1>2. S \subseteq Nat
  BY NprocAssumption DEF Slots
<1>3. \A a, b \in Nat : a < b => <<a, b>> \in R
  BY DEF OpToRel
<1> HIDE DEF R
<1>4. PICK x \in S : \A y \in S : ~(<<y, x>> \in R)
  BY <1>1, <1>2, WFMin
<1>5. \A y \in S : x <= y
  <2> SUFFICES ASSUME NEW y \in S PROVE ~(y < x)
    BY <1>2
  <2> QED
    BY <1>2, <1>3, <1>4
<1> QED
  BY <1>5 DEF FirstOf

\* What push_interrupt_off() leaves in the fields of the hart.
LEMMA PushFields ==
    ASSUME NEW c \in CpuState
    PROVE  /\ PushInterruptOff(c) \in CpuState
           /\ ~PushInterruptOff(c).sie
           /\ PushInterruptOff(c).off_stack = c.off_stack + 1
           /\ PushInterruptOff(c).prev <=> IF c.off_stack = 0 THEN c.sie ELSE c.prev
BY DEF CpuState, PushInterruptOff

\* What pop_interrupt_off() leaves in the fields of the hart.
LEMMA PopFields ==
    ASSUME NEW c \in CpuState
    PROVE  /\ PopInterruptOff(c) \in CpuState
           /\ PopInterruptOff(c).off_stack = c.off_stack - 1
           /\ PopInterruptOff(c).sie <=> c.sie \/ (c.off_stack = 1 /\ c.prev)
           /\ PopInterruptOff(c).prev <=> c.prev
BY DEF CpuState, PopInterruptOff

\* interrupt_on() and interrupt_off() change SIE only.
LEMMA OnOffFields ==
    ASSUME NEW c \in CpuState
    PROVE  /\ InterruptOn(c) \in CpuState /\ InterruptOff(c) \in CpuState
           /\ InterruptOn(c).off_stack = c.off_stack
           /\ InterruptOff(c).off_stack = c.off_stack
           /\ InterruptOn(c).sie /\ ~InterruptOff(c).sie
           /\ InterruptOn(c).prev <=> c.prev
           /\ InterruptOff(c).prev <=> c.prev
BY DEF CpuState, InterruptOn, InterruptOff

\* A guard taken and dropped leaves the count as it was and SIE too.
LEMMA LockUnlockFields ==
    ASSUME NEW c \in CpuState, c.off_stack >= 0, c.off_stack > 0 => ~c.sie
    PROVE  /\ LockUnlock(c) \in CpuState
           /\ LockUnlock(c).off_stack = c.off_stack
           /\ LockUnlock(c).sie <=> c.sie
           /\ LockUnlock(c).prev <=> IF c.off_stack = 0 THEN c.sie ELSE c.prev
<1>1. PushInterruptOff(c) \in CpuState
  BY PushFields
<1> DEFINE p == PushInterruptOff(c)
<1>2. /\ ~p.sie
      /\ p.off_stack = c.off_stack + 1
      /\ p.prev <=> IF c.off_stack = 0 THEN c.sie ELSE c.prev
  BY PushFields
<1>3. /\ PopInterruptOff(p) \in CpuState
      /\ PopInterruptOff(p).off_stack = p.off_stack - 1
      /\ PopInterruptOff(p).sie <=> p.sie \/ (p.off_stack = 1 /\ p.prev)
      /\ PopInterruptOff(p).prev <=> p.prev
  BY <1>1, PopFields
<1>4. c.off_stack \in Int
  BY DEF CpuState
<1> HIDE DEF p
<1>5. LockUnlock(c) = PopInterruptOff(p)
  BY DEF LockUnlock, p
<1>6. CASE c.off_stack = 0
  BY <1>2, <1>3, <1>4, <1>5, <1>6
<1>7. CASE c.off_stack > 0
  BY <1>2, <1>3, <1>4, <1>5, <1>7
<1> QED
  BY <1>4, <1>6, <1>7

-----------------------------------------------------------------------------
(* What the invariant says about the thread on the hart, and what a step of *)
(* a process has to establish for each part of it.                          *)

\* A process may stay Running at these labels.
Steady == {"user", "fork", "exit", "wait", "other", "ret", "ktret", "yeld",
           "fork_alloc", "exit_reparent", "exit_wakeup", "exit_zombie",
           "wait_scan", "wait_copy", "wait_sleep", "panic"}

\* The label of the thread on the hart can be one of these.
OnHart == ProcLabels \ {"none", "exit_resume"}

\* The label sets are sets of labels.
LEMMA SteadyLabels ==
    /\ Steady \cup {"yeld_sched", "wait_sched", "exit_sched", "fork_parent", "fork_run"}
         \subseteq OnHart
    /\ OnHart \subseteq Labels /\ SchedLabels \subseteq Labels
    /\ ParkedLabels \subseteq ProcLabels
BY DEF Steady, OnHart, ProcLabels, Labels, SchedLabels, ForkLabels, ExitLabels,
       WaitLabels, YeldLabels, ParkedLabels

\* The threads are the slots and the scheduler.
LEMMA ThreadFacts ==
    /\ Sched \in Threads /\ Sched \notin Slots /\ None \notin Slots /\ None # Sched
    /\ Slots \subseteq Threads /\ Slots \subseteq Nat
    /\ \A t \in Threads : t \in Slots \/ t = Sched
BY NprocAssumption DEF Sched, Threads, Slots, None

\* The state of the hart when process s is on it.
LEMMA OnHartFacts ==
    ASSUME Inv, NEW s \in Slots, running = s
    PROVE  /\ current = s /\ found = s /\ pc[Sched] = "after"
           /\ cpu \in CpuState /\ cpu.off_stack \in Int
           /\ \A u \in Slots : plock[u] <=> \/ u = s /\ pc[s] \in SelfLocked
                                            \/ pc[s] = "fork_parent" /\ u = child[s]
           /\ klock <=> pc[s] \in KernelLocked
           /\ cpu.off_stack = OffStack(pc[s])
           /\ pc[s] \in SieOn => cpu.sie
           /\ pc[s] \notin SieOn \cup SieMaybe => ~cpu.sie
           /\ pc[s] \in KernelLocked \cup Guarded \cup {"wait_sched", "exit_sched"}
                => cpu.prev
           /\ pc[s] \in {"forkret", "yeld_sched"} => ~cpu.prev
           /\ pc[s] \in OnHart
           /\ \A u \in Slots \ {s} : pc[u] \in ParkedLabels
<1>1. current = s /\ found = s /\ pc[Sched] = "after"
  BY DEF Inv, ControlInv
<1>2. cpu \in CpuState /\ cpu.off_stack \in Int
  BY DEF Inv, TypeOK, CpuState
<1>3. \A u \in Slots : plock[u] <=> \/ u = s /\ pc[s] \in SelfLocked
                                    \/ pc[s] = "fork_parent" /\ u = child[s]
  BY ThreadFacts DEF Inv, LockInv, Held
<1>4. /\ klock <=> pc[s] \in KernelLocked
      /\ cpu.off_stack = OffStack(pc[s])
      /\ pc[s] \in SieOn => cpu.sie
      /\ pc[s] \notin SieOn \cup SieMaybe => ~cpu.sie
  BY DEF Inv, LockInv
<1>5. /\ pc[s] \in KernelLocked \cup Guarded \cup {"wait_sched", "exit_sched"}
           => cpu.prev
      /\ pc[s] \in {"forkret", "yeld_sched"} => ~cpu.prev
  BY DEF Inv, SavedInv
<1>6. pc[s] \in OnHart /\ \A u \in Slots \ {s} : pc[u] \in ParkedLabels
  BY DEF Inv, ControlInv, OnHart
<1> QED
  BY <1>1, <1>2, <1>3, <1>4, <1>5, <1>6

\* ControlInv survives a step of process s that leaves it on the hart.
LEMMA ControlStep ==
    ASSUME Inv, NEW s \in Slots, running = s,
           UNCHANGED <<running, current, found>>,
           pc'[Sched] = pc[Sched],
           pc'[s] \in OnHart,
           \A u \in Slots \ {s} : pc'[u] \in ParkedLabels
    PROVE  ControlInv'
<1>1. \A u \in Slots : pc'[u] \in ProcLabels
  BY SteadyLabels DEF OnHart
<1> QED
  BY <1>1, ThreadFacts DEF Inv, ControlInv, OnHart

\* Only the label changes and the process stays Running.
LEMMA StateStep ==
    ASSUME Inv, NEW s \in Slots, running = s, NEW l \in Steady,
           pc[s] \notin {"yeld_sched", "wait_sched", "exit_sched"},
           UNCHANGED <<running, state, child>>,
           pc' = [pc EXCEPT ![s] = l]
    PROVE  StateInv'
<1>1. /\ pc'[s] = l
      /\ \A u \in Slots \ {s} : pc'[u] = pc[u]
  BY ThreadFacts DEF Inv, TypeOK
<1>2. \A u \in Slots \ {s} : ParkedState(u)'
  BY <1>1, ThreadFacts DEF Inv, StateInv, ParkedState
<1>3. RunningState(s)'
  BY <1>1 DEF Inv, StateInv, RunningState, Steady
<1> QED
  BY <1>1, <1>2, <1>3, ThreadFacts DEF StateInv, Steady

\* LockInv survives a step to a label with these locks and this SIE.
LEMMA LockStep ==
    ASSUME NEW s \in Slots, running' = s,
           \A u \in Slots : plock'[u] <=> \/ u = s /\ pc'[s] \in SelfLocked
                                          \/ pc'[s] = "fork_parent" /\ u = child'[s],
           klock' <=> pc'[s] \in KernelLocked,
           cpu'.off_stack = OffStack(pc'[s]),
           pc'[s] \in SieOn => cpu'.sie,
           pc'[s] \notin SieOn \cup SieMaybe => ~cpu'.sie
    PROVE  LockInv'
<1>1. \A u \in Slots : plock'[u] <=> Held(u)'
  BY ThreadFacts DEF Held
<1> QED
  BY <1>1 DEF LockInv

\* SavedInv survives a step after which interrupt_prev_state fits the label.
LEMMA SavedStep ==
    ASSUME Inv, NEW s \in Slots, running' = s, UNCHANGED saved_prev,
           pc'[s] \notin {"wait_resume", "yeld_resume"},
           \A u \in Slots \ {s} : pc'[u] = pc[u] \/ pc'[u] \in {"none", "forkret"},
           pc'[s] \in KernelLocked \cup Guarded \cup {"wait_sched", "exit_sched"}
              => cpu'.prev,
           pc'[s] \in {"forkret", "yeld_sched"} => ~cpu'.prev
    PROVE  SavedInv'
<1>1. \A u \in Slots : pc'[u] = "wait_resume" => saved_prev'[u]
  BY DEF Inv, SavedInv
<1>2. \A u \in Slots : pc'[u] = "yeld_resume" => ~saved_prev'[u]
  BY DEF Inv, SavedInv
<1> QED
  BY <1>1, <1>2, ThreadFacts DEF SavedInv

\* FrameInv survives a step that leaves the kernelvec frames alone.
LEMMA FrameStep ==
    ASSUME Inv, NEW s \in Slots, UNCHANGED frames,
           pc'[Sched] = pc[Sched],
           pc[s] \notin YeldLabels \cup {"ktret"} \/ pc'[s] \in YeldLabels,
           pc'[s] # "ktret",
           \A u \in Slots \ {s} : \/ pc'[u] = pc[u]
                                  \/ /\ pc'[u] # "ktret"
                                     /\ pc[u] \notin YeldLabels \cup {"ktret"}
    PROVE  FrameInv'
<1>1. \A u \in Slots : \/ frames'[u] = <<>>
                       \/ /\ pc'[u] \in YeldLabels \cup {"ktret"}
                          /\ \E l \in CallLabels : frames'[u] = <<l>>
  BY DEF Inv, FrameInv
<1>2. \A t \in Threads : pc'[t] = "ktret" => frames'[t] # <<>>
  BY ThreadFacts DEF Inv, FrameInv
<1> QED
  BY <1>1, <1>2 DEF Inv, FrameInv

\* PidInv survives a step that changes no pid and frees no slot.
LEMMA PidStep ==
    ASSUME Inv, UNCHANGED <<pid, kernel_pid>>,
           \A u \in Slots : state'[u] = "Unused" <=> state[u] = "Unused"
    PROVE  PidInv'
BY DEF Inv, PidInv

\* Where the thread of a process holds no lock.
Open == {"user", "fork", "exit", "wait", "other", "ret", "ktret", "yeld",
         "wait_copy", "panic"}

\* A process at a label where it holds no lock.
LEMMA OpenFacts ==
    ASSUME Inv, NEW s \in Slots, running = s, pc[s] \in Open
    PROVE  /\ \A u \in Slots : ~plock[u]
           /\ ~klock /\ cpu.off_stack = 0
           /\ cpu \in CpuState
           /\ pc[s] \in {"ktret", "yeld"} => ~cpu.sie
           /\ pc[s] \notin {"ktret", "yeld", "ret", "panic"} => cpu.sie
           /\ state[s] = "Running"
<1>1. state[s] = "Running"
  BY DEF Inv, StateInv, RunningState, Open
<1> QED
  BY <1>1, OnHartFacts DEF Open, SelfLocked, KernelLocked, Guarded, FoundLocked,
     OneLock, OffStack, SieOn, SieMaybe

\* The control, state and pid parts for a step that leaves the process table
\* alone and moves the process on the hart from one label to another.
LEMMA MoveKeeps ==
    ASSUME Inv, NEW s \in Slots, running = s, NEW l \in Steady,
           pc[s] \notin {"yeld_sched", "wait_sched", "exit_sched"},
           pc' = [pc EXCEPT ![s] = l],
           UNCHANGED <<state, pid, kernel_pid, child, running, current, found>>
    PROVE  ControlInv' /\ StateInv' /\ PidInv'
<1>1. pc'[s] = l /\ \A t \in Threads \ {s} : pc'[t] = pc[t]
  BY ThreadFacts DEF Inv, TypeOK
<1>2. ControlInv'
  BY <1>1, OnHartFacts, ControlStep, SteadyLabels, ThreadFacts
<1>3. StateInv' /\ PidInv'
  BY StateStep, PidStep
<1> QED
  BY <1>2, <1>3

\* Such a step to a label without locks.
LEMMA OpenKeeps ==
    ASSUME Inv, NEW s \in Slots, running = s, NEW l \in Open,
           pc[s] \notin {"yeld_sched", "wait_sched", "exit_sched"},
           pc' = [pc EXCEPT ![s] = l],
           UNCHANGED <<state, pid, kernel_pid, child, running, current, found,
                       saved_prev, panic>>,
           TypeOK', FrameInv',
           \A u \in Slots : ~plock'[u],
           ~klock', cpu'.off_stack = 0,
           l \in {"ktret", "yeld"} => ~cpu'.sie,
           l \notin {"ktret", "yeld", "ret", "panic"} => cpu'.sie
    PROVE  Inv'
<1>1. pc'[s] = l /\ \A t \in Threads \ {s} : pc'[t] = pc[t]
  BY ThreadFacts DEF Inv, TypeOK
<1>2. ControlInv' /\ StateInv' /\ PidInv'
  BY MoveKeeps DEF Open, Steady
<1>3. LockInv'
  BY <1>1, LockStep DEF Open, SelfLocked, KernelLocked, Guarded, FoundLocked,
     OneLock, OffStack, SieOn, SieMaybe
<1>4. SavedInv'
  BY <1>1, SavedStep, ThreadFacts DEF Open, KernelLocked, Guarded
<1> QED
  BY <1>2, <1>3, <1>4 DEF Inv

\* A process that panics spins without a lock, with interrupts as they were.
LEMMA PanicKeeps ==
    ASSUME Inv, NEW s \in Slots, running = s,
           pc[s] \notin YeldLabels \cup {"ktret", "wait_sched", "exit_sched"},
           NEW c \in CpuState, c.off_stack = 0, Panic(s, c),
           \A u \in Slots : ~plock[u], UNCHANGED plock, ~klock', klock' \in BOOLEAN,
           UNCHANGED <<procVars, localVars, current, running, frames, panic>>
    PROVE  Inv'
<1> USE DEF Panic, Goto
<1>1. cpu' \in CpuState /\ cpu'.off_stack = 0
  BY LockUnlockFields
<1>2. TypeOK'
  BY <1>1, SteadyLabels DEF Inv, TypeOK, procVars, localVars, Steady
<1>3. FrameInv'
  <2>1. pc'[s] = "panic" /\ \A t \in Threads \ {s} : pc'[t] = pc[t]
    BY ThreadFacts DEF Inv, TypeOK
  <2> QED
    BY <2>1, FrameStep, ThreadFacts
<1> QED
  BY <1>1, <1>2, <1>3, OpenKeeps DEF procVars, localVars, Open, YeldLabels

-----------------------------------------------------------------------------
(* The actions that leave the process table alone.                          *)

\* A system call enters the kernel with interrupts enabled and no lock.
LEMMA UserSyscallKeeps ==
    ASSUME Inv, NEW s \in Slots, UserSyscall(s)
    PROVE  Inv'
<1> USE DEF UserSyscall, At, Goto
<1>1. PICK l \in SyscallLabels : pc' = [pc EXCEPT ![s] = l]
  OBVIOUS
<1>2. l \in Open /\ l \in Labels
  BY DEF SyscallLabels, Open, Labels, ForkLabels, ExitLabels, WaitLabels
<1>3. /\ \A u \in Slots : ~plock[u]
      /\ ~klock /\ cpu.off_stack = 0 /\ cpu \in CpuState
  BY OpenFacts DEF Open
<1>4. cpu' \in CpuState /\ cpu'.off_stack = 0 /\ cpu'.sie
  BY <1>3, OnOffFields
<1>5. TypeOK'
  BY <1>1, <1>2, <1>4 DEF Inv, TypeOK, procVars, lockVars, PidsOrNone
<1>6. FrameInv'
  <2>1. pc'[s] = l /\ \A t \in Threads \ {s} : pc'[t] = pc[t]
    BY <1>1, ThreadFacts DEF Inv, TypeOK
  <2> QED
    BY <2>1, FrameStep, ThreadFacts DEF SyscallLabels, YeldLabels
<1> QED
  BY <1>1, <1>2, <1>3, <1>4, <1>5, <1>6, OpenKeeps
  DEF procVars, lockVars, SyscallLabels

\* A timer interrupt in user mode enters yeld() with interrupts off.
LEMMA UserTimerKeeps ==
    ASSUME Inv, NEW s \in Slots, UserTimer(s)
    PROVE  Inv'
<1> USE DEF UserTimer, At, Goto
<1>1. /\ \A u \in Slots : ~plock[u]
      /\ ~klock /\ cpu.off_stack = 0 /\ cpu \in CpuState
  BY OpenFacts DEF Open
<1>2. cpu' \in CpuState /\ cpu'.off_stack = 0 /\ ~cpu'.sie
  BY <1>1, OnOffFields, LockUnlockFields
<1>3. TypeOK'
  BY <1>2, SteadyLabels DEF Inv, TypeOK, procVars, lockVars, localVars, Steady
<1>4. FrameInv'
  <2>1. pc'[s] = "yeld" /\ \A t \in Threads \ {s} : pc'[t] = pc[t]
    BY ThreadFacts DEF Inv, TypeOK
  <2> QED
    BY <2>1, FrameStep, ThreadFacts DEF YeldLabels
<1> QED
  BY <1>1, <1>2, <1>3, <1>4, OpenKeeps DEF procVars, lockVars, localVars, Open

\* A fault in user mode panics with interrupts off.
LEMMA UserFaultKeeps ==
    ASSUME Inv, NEW s \in Slots, UserFault(s)
    PROVE  Inv'
<1> USE DEF UserFault, At
<1>1. /\ \A u \in Slots : ~plock[u]
      /\ ~klock /\ cpu.off_stack = 0 /\ cpu \in CpuState
  BY OpenFacts DEF Open
<1>2. InterruptOff(cpu) \in CpuState /\ InterruptOff(cpu).off_stack = 0
  BY <1>1, OnOffFields
<1> QED
  <2>1. klock \in BOOLEAN
    BY DEF Inv, TypeOK
  <2> QED
    BY <1>1, <1>2, <2>1, PanicKeeps DEF YeldLabels, lockVars

\* prepare_return() and userret go back to user mode.
LEMMA PrepareReturnKeeps ==
    ASSUME Inv, NEW s \in Slots, PrepareReturn(s)
    PROVE  Inv'
<1> USE DEF PrepareReturn, At, Goto
<1>1. /\ \A u \in Slots : ~plock[u]
      /\ ~klock /\ cpu.off_stack = 0 /\ cpu \in CpuState
  BY OpenFacts DEF Open
<1>2. cpu' \in CpuState /\ cpu'.off_stack = 0 /\ cpu'.sie
  BY <1>1, OnOffFields
<1>3. TypeOK'
  BY <1>2, SteadyLabels DEF Inv, TypeOK, procVars, lockVars, localVars, Steady
<1>4. FrameInv'
  <2>1. pc'[s] = "user" /\ \A t \in Threads \ {s} : pc'[t] = pc[t]
    BY ThreadFacts DEF Inv, TypeOK
  <2> QED
    BY <2>1, FrameStep, ThreadFacts DEF YeldLabels
<1> QED
  BY <1>1, <1>2, <1>3, <1>4, OpenKeeps DEF procVars, lockVars, localVars, Open

\* write and exec take and drop the heap lock.
LEMMA OtherSyscallKeeps ==
    ASSUME Inv, NEW s \in Slots, OtherSyscall(s)
    PROVE  Inv'
<1> USE DEF OtherSyscall, At, Goto
<1>1. CASE Panic(s, cpu)
  <2>1. klock \in BOOLEAN
    BY DEF Inv, TypeOK
  <2> QED
    BY <1>1, <2>1, PanicKeeps, OpenFacts DEF Open, YeldLabels, lockVars
<1>2. CASE cpu' = LockUnlock(cpu) /\ pc' = [pc EXCEPT ![s] = "ret"]
  <2>1. /\ \A u \in Slots : ~plock[u]
        /\ ~klock /\ cpu.off_stack = 0 /\ cpu \in CpuState
    BY OpenFacts DEF Open
  <2>2. cpu' \in CpuState /\ cpu'.off_stack = 0
    BY <1>2, <2>1, LockUnlockFields
  <2>3. TypeOK'
    BY <1>2, <2>2, SteadyLabels DEF Inv, TypeOK, procVars, lockVars, localVars, Steady
  <2>4. FrameInv'
    <3>1. pc'[s] = "ret" /\ \A t \in Threads \ {s} : pc'[t] = pc[t]
      BY <1>2, ThreadFacts DEF Inv, TypeOK
    <3> QED
      BY <3>1, FrameStep, ThreadFacts DEF YeldLabels
  <2> QED
    BY <1>2, <2>1, <2>2, <2>3, <2>4, OpenKeeps DEF procVars, lockVars, localVars, Open
<1> QED
  BY <1>1, <1>2

\* kwait() copies the status out with interrupts enabled.
LEMMA KwaitCopyKeeps ==
    ASSUME Inv, NEW s \in Slots, KwaitCopy(s)
    PROVE  Inv'
<1> USE DEF KwaitCopy, At, Goto
<1>1. CASE Panic(s, cpu)
  <2>1. klock \in BOOLEAN
    BY DEF Inv, TypeOK
  <2> QED
    BY <1>1, <2>1, PanicKeeps, OpenFacts DEF Open, YeldLabels, lockVars
<1>2. CASE pc' = [pc EXCEPT ![s] = "ret"] /\ UNCHANGED cpu
  <2>1. /\ \A u \in Slots : ~plock[u]
        /\ ~klock /\ cpu.off_stack = 0 /\ cpu \in CpuState
    BY OpenFacts DEF Open
  <2>2. TypeOK'
    BY <1>2, SteadyLabels DEF Inv, TypeOK, procVars, lockVars, localVars, Steady
  <2>3. FrameInv'
    <3>1. pc'[s] = "ret" /\ \A t \in Threads \ {s} : pc'[t] = pc[t]
      BY <1>2, ThreadFacts DEF Inv, TypeOK
    <3> QED
      BY <3>1, FrameStep, ThreadFacts DEF YeldLabels
  <2> QED
    BY <1>2, <2>1, <2>2, <2>3, OpenKeeps DEF procVars, lockVars, localVars, Open
<1> QED
  BY <1>1, <1>2

\* A process that holds only its own lock.
LEMMA SelfFacts ==
    ASSUME Inv, NEW s \in Slots, running = s, pc[s] \in SelfLocked
    PROVE  /\ \A u \in Slots : plock[u] <=> u = s
           /\ ~klock /\ cpu.off_stack = 1 /\ ~cpu.sie
           /\ cpu \in CpuState
BY OnHartFacts DEF SelfLocked, KernelLocked, Guarded, FoundLocked, OneLock,
   OffStack, SieOn, SieMaybe

\* forkret() drops the lock that the scheduler took.
LEMMA ForkRetKeeps ==
    ASSUME Inv, NEW s \in Slots, ForkRet(s)
    PROVE  Inv'
<1> USE DEF ForkRet, At, Goto
<1>1. /\ \A u \in Slots : plock[u] <=> u = s
      /\ ~klock /\ cpu.off_stack = 1 /\ ~cpu.sie /\ cpu \in CpuState
  BY SelfFacts DEF SelfLocked
<1>2. current = s
  BY OnHartFacts
<1>3. cpu' \in CpuState /\ cpu'.off_stack = 0
  BY <1>1, PopFields
<1>4. \A u \in Slots : ~plock'[u]
  BY <1>1, <1>2 DEF Inv, TypeOK
<1>5. TypeOK'
  BY <1>3, SteadyLabels DEF Inv, TypeOK, procVars, localVars, Steady
<1>6. FrameInv'
  <2>1. pc'[s] = "ret" /\ \A t \in Threads \ {s} : pc'[t] = pc[t]
    BY ThreadFacts DEF Inv, TypeOK
  <2> QED
    BY <2>1, FrameStep, ThreadFacts DEF YeldLabels
<1> QED
  BY <1>1, <1>3, <1>4, <1>5, <1>6, OpenKeeps DEF procVars, localVars, Open

\* kwait() comes back from sched() with its interrupts.
LEMMA KwaitWakeKeeps ==
    ASSUME Inv, NEW s \in Slots, KwaitWake(s)
    PROVE  Inv'
<1> USE DEF KwaitWake, At, Goto
<1>1. /\ \A u \in Slots : plock[u] <=> u = s
      /\ ~klock /\ cpu.off_stack = 1 /\ ~cpu.sie /\ cpu \in CpuState
  BY SelfFacts DEF SelfLocked
<1>2. /\ Restored(s) \in CpuState /\ Restored(s).prev
      /\ Restored(s).off_stack = 1 /\ ~Restored(s).sie
  BY <1>1 DEF Restored, CpuState, Inv, TypeOK, SavedInv
<1>3. cpu' \in CpuState /\ cpu'.off_stack = 0 /\ cpu'.sie
  BY <1>2, PopFields
<1>4. \A u \in Slots : ~plock'[u]
  BY <1>1 DEF Inv, TypeOK
<1>5. TypeOK'
  BY <1>3, SteadyLabels DEF Inv, TypeOK, PidsOrNone, localVars, Steady
<1>6. FrameInv'
  <2>1. pc'[s] = "wait" /\ \A t \in Threads \ {s} : pc'[t] = pc[t]
    BY ThreadFacts DEF Inv, TypeOK
  <2> QED
    BY <2>1, FrameStep, ThreadFacts DEF YeldLabels
<1> QED
  BY <1>1, <1>3, <1>4, <1>5, <1>6, OpenKeeps DEF localVars, Open

\* yeld() comes back from sched() with interrupts off.
LEMMA YeldReturnKeeps ==
    ASSUME Inv, NEW s \in Slots, YeldReturn(s)
    PROVE  Inv'
<1> USE DEF YeldReturn, At, Goto
<1> DEFINE l == IF frames[s] # <<>> THEN "ktret" ELSE "ret"
<1>1. /\ \A u \in Slots : plock[u] <=> u = s
      /\ ~klock /\ cpu.off_stack = 1 /\ ~cpu.sie /\ cpu \in CpuState
  BY SelfFacts DEF SelfLocked
<1>2. /\ Restored(s) \in CpuState /\ ~Restored(s).prev
      /\ Restored(s).off_stack = 1 /\ ~Restored(s).sie
  BY <1>1 DEF Restored, CpuState, Inv, TypeOK, SavedInv
<1>3. cpu' \in CpuState /\ cpu'.off_stack = 0 /\ ~cpu'.sie
  BY <1>2, PopFields
<1>4. \A u \in Slots : ~plock'[u]
  BY <1>1 DEF Inv, TypeOK
<1>5. l \in Open /\ l \in Labels
  BY SteadyLabels DEF Open, Steady
<1>6. TypeOK'
  BY <1>3, <1>5 DEF Inv, TypeOK, procVars, localVars
<1>7. FrameInv'
  <2>1. pc'[s] = l /\ \A t \in Threads \ {s} : pc'[t] = pc[t]
    BY ThreadFacts DEF Inv, TypeOK
  <2>2. \A u \in Slots : \/ frames'[u] = <<>>
                         \/ /\ pc'[u] \in YeldLabels \cup {"ktret"}
                            /\ \E k \in CallLabels : frames'[u] = <<k>>
    BY <2>1, ThreadFacts DEF Inv, FrameInv
  <2>3. \A t \in Threads : pc'[t] = "ktret" => frames'[t] # <<>>
    BY <2>1 DEF Inv, FrameInv
  <2> QED
    BY <2>1, <2>2, <2>3, ThreadFacts DEF Inv, FrameInv
<1>8. l \notin {"yeld", "user", "fork", "exit", "wait", "other", "wait_copy"}
  OBVIOUS
<1>9. pc' = [pc EXCEPT ![s] = l]
  OBVIOUS
<1> HIDE DEF l
<1> QED
  BY <1>1, <1>3, <1>4, <1>5, <1>6, <1>7, <1>8, <1>9, OpenKeeps
  DEF procVars, localVars, Open

\* A timer interrupt hits a system call.
LEMMA KernelTrapProcessKeeps ==
    ASSUME Inv, NEW s \in Slots, KernelTrap(s)
    PROVE  Inv'
<1> USE DEF KernelTrap, Goto
<1>1. current = s /\ current # None /\ pc[s] \in SieOn \cup SieMaybe /\ pc[s] \in OnHart
  BY OnHartFacts, ThreadFacts
<1>2. pc[s] \in CallLabels
  BY <1>1 DEF SieOn, SieMaybe, CallLabels, OnHart, ProcLabels, SchedLabels
<1>3. pc[s] \in Open
  BY <1>2 DEF CallLabels, Open
<1>4. /\ \A u \in Slots : ~plock[u]
      /\ ~klock /\ cpu.off_stack = 0 /\ cpu \in CpuState
  BY <1>3, OpenFacts
<1>5. cpu' \in CpuState /\ cpu'.off_stack = 0 /\ ~cpu'.sie
  BY <1>4, OnOffFields
<1>6. pc' = [pc EXCEPT ![s] = "yeld"]
  BY <1>1
<1>7. frames[s] = <<>>
  BY <1>2 DEF Inv, FrameInv, CallLabels, YeldLabels
<1>8. frames' = [frames EXCEPT ![s] = <<pc[s]>>]
  BY <1>7, ThreadFacts DEF Inv, TypeOK
<1>9. TypeOK'
  <2>1. <<pc[s]>> \in Seq(Labels) /\ "yeld" \in Labels
    BY ThreadFacts, SteadyLabels DEF Inv, TypeOK, Steady
  <2> QED
    BY <1>5, <1>6, <1>8, <2>1 DEF Inv, TypeOK, procVars, lockVars, localVars
<1>10. FrameInv'
  <2>1. pc'[s] = "yeld" /\ \A t \in Threads \ {s} : pc'[t] = pc[t]
    BY <1>6, ThreadFacts DEF Inv, TypeOK
  <2>2. frames'[s] = <<pc[s]>> /\ \A t \in Threads \ {s} : frames'[t] = frames[t]
    BY <1>8, ThreadFacts DEF Inv, TypeOK
  <2>3. \A u \in Slots : \/ frames'[u] = <<>>
                         \/ /\ pc'[u] \in YeldLabels \cup {"ktret"}
                            /\ \E k \in CallLabels : frames'[u] = <<k>>
    BY <1>2, <2>1, <2>2, ThreadFacts DEF Inv, FrameInv, YeldLabels
  <2>4. \A t \in Threads : pc'[t] = "ktret" => frames'[t] # <<>>
    BY <2>1, <2>2 DEF Inv, FrameInv
  <2> QED
    BY <2>1, <2>2, <2>3, <2>4, ThreadFacts DEF Inv, FrameInv
<1> QED
  BY <1>3, <1>4, <1>5, <1>6, <1>9, <1>10, OpenKeeps
  DEF procVars, lockVars, localVars, Open

\* kerneltrap() returns to the system call.
LEMMA KernelTrapReturnProcessKeeps ==
    ASSUME Inv, NEW s \in Slots, KernelTrapReturn(s)
    PROVE  Inv'
<1> USE DEF KernelTrapReturn, At, Goto
<1>1. /\ \A u \in Slots : ~plock[u]
      /\ ~klock /\ cpu.off_stack = 0 /\ cpu \in CpuState
  BY OpenFacts DEF Open
<1>2. cpu' \in CpuState /\ cpu'.off_stack = 0 /\ cpu'.sie
  BY <1>1, OnOffFields
<1>3. PICK l \in CallLabels : frames[s] = <<l>>
  BY ThreadFacts DEF Inv, FrameInv
<1>4. pc' = [pc EXCEPT ![s] = l] /\ frames' = [frames EXCEPT ![s] = <<>>]
  BY <1>3
<1>5. l \in Open /\ l \in Labels
  BY SteadyLabels DEF CallLabels, Open, Steady
<1>6. TypeOK'
  <2>1. frames' \in [Threads -> Seq(Labels)]
    <3>1. <<>> \in Seq(Labels)
      OBVIOUS
    <3>2. frames \in [Threads -> Seq(Labels)]
      BY DEF Inv, TypeOK
    <3> QED
      BY <1>4, <3>1, <3>2, Zenon
  <2>2. pc' \in [Threads -> Labels]
    BY <1>4, <1>5 DEF Inv, TypeOK
  <2> QED
    BY <1>2, <2>1, <2>2 DEF Inv, TypeOK, procVars, lockVars, localVars
<1>7. FrameInv'
  <2>1. pc'[s] = l /\ \A t \in Threads \ {s} : pc'[t] = pc[t]
    BY <1>4, ThreadFacts DEF Inv, TypeOK
  <2>2. frames'[s] = <<>> /\ \A t \in Threads \ {s} : frames'[t] = frames[t]
    BY <1>4, ThreadFacts DEF Inv, TypeOK
  <2>3. \A u \in Slots : \/ frames'[u] = <<>>
                         \/ /\ pc'[u] \in YeldLabels \cup {"ktret"}
                            /\ \E k \in CallLabels : frames'[u] = <<k>>
    BY <2>1, <2>2, ThreadFacts DEF Inv, FrameInv
  <2>4. \A t \in Threads : pc'[t] = "ktret" => frames'[t] # <<>>
    BY <2>1, <2>2 DEF Inv, FrameInv, CallLabels
  <2> QED
    BY <2>1, <2>2, <2>3, <2>4, ThreadFacts DEF Inv, FrameInv
<1>8. l \notin {"ktret", "yeld"}
  BY DEF CallLabels
<1> QED
  BY <1>1, <1>2, <1>4, <1>5, <1>6, <1>7, <1>8, OpenKeeps
  DEF procVars, lockVars, localVars

-----------------------------------------------------------------------------
(* The scheduler's thread.                                                  *)

\* The state of the hart when the scheduler is on it.
LEMMA SchedFacts ==
    ASSUME Inv, running = Sched
    PROVE  /\ pc[Sched] \in SchedLabels \cup {"ktret"}
           /\ \A u \in Slots : pc[u] \in ParkedLabels
           /\ \A u \in Slots : plock[u] <=> pc[Sched] \in FoundLocked /\ u = found
           /\ klock <=> pc[Sched] \in KernelLocked
           /\ cpu \in CpuState /\ cpu.off_stack = OffStack(pc[Sched])
           /\ pc[Sched] \in SieOn => cpu.sie
           /\ pc[Sched] \notin SieOn \cup SieMaybe => ~cpu.sie
           /\ pc[Sched] \in {"pick", "dispatch"} => ~cpu.prev
<1>1. /\ pc[Sched] \in SchedLabels \cup {"ktret"}
      /\ \A u \in Slots : pc[u] \in ParkedLabels
  BY ThreadFacts DEF Inv, ControlInv
<1>2. \A u \in Slots : plock[u] <=> pc[Sched] \in FoundLocked /\ u = found
  BY ThreadFacts DEF Inv, LockInv, Held
<1>3. cpu \in CpuState
  BY DEF Inv, TypeOK
<1>4. /\ klock <=> pc[Sched] \in KernelLocked
      /\ cpu.off_stack = OffStack(pc[Sched])
      /\ pc[Sched] \in SieOn => cpu.sie
      /\ pc[Sched] \notin SieOn \cup SieMaybe => ~cpu.sie
  BY DEF Inv, LockInv
<1>5. pc[Sched] \in {"pick", "dispatch"} => ~cpu.prev
  BY DEF Inv, SavedInv
<1> QED
  BY <1>1, <1>2, <1>3, <1>4, <1>5

\* The scheduler holds no lock at these labels.
SchedOpen == {"loop", "window", "ktret"}

\* The scheduler where it holds no lock.
LEMMA SchedOpenFacts ==
    ASSUME Inv, running = Sched, pc[Sched] \in SchedOpen
    PROVE  /\ \A u \in Slots : ~plock[u]
           /\ ~klock /\ cpu.off_stack = 0 /\ cpu \in CpuState
           /\ current = None
<1>1. current = None
  BY DEF Inv, ControlInv, SchedOpen
<1> QED
  BY <1>1, SchedFacts DEF SchedOpen, FoundLocked, KernelLocked, OffStack, OneLock,
     SelfLocked, Guarded

\* The scheduler moves without touching the process table.
LEMMA SchedMoveKeeps ==
    ASSUME Inv, running = Sched, pc[Sched] # "dispatch",
           NEW l \in SchedOpen \cup {"pick"},
           pc' = [pc EXCEPT ![Sched] = l],
           UNCHANGED <<state, pid, kernel_pid, saved_prev, running, panic>>,
           current' = None,
           TypeOK', FrameInv',
           \A u \in Slots : ~plock'[u],
           klock' <=> l = "pick",
           cpu'.off_stack = IF l = "pick" THEN 1 ELSE 0,
           l = "window" => cpu'.sie,
           l \in {"ktret", "pick"} => ~cpu'.sie,
           l = "pick" => ~cpu'.prev
    PROVE  Inv'
<1>1. pc'[Sched] = l /\ \A u \in Slots : pc'[u] = pc[u]
  BY ThreadFacts DEF Inv, TypeOK
<1>2. ControlInv'
  BY <1>1, ThreadFacts DEF Inv, ControlInv, SchedOpen, SchedLabels, FoundLocked
<1>3. StateInv'
  <2>1. \A u \in Slots : ParkedState(u)'
    BY <1>1, ThreadFacts DEF Inv, StateInv, ParkedState
  <2> QED
    BY <1>1, <2>1, ThreadFacts DEF StateInv, SchedOpen
<1>4. PidInv'
  BY PidStep
<1>5. LockInv'
  <2>1. \A u \in Slots : ~Held(u)'
    BY <1>1, ThreadFacts DEF Held, SchedOpen, FoundLocked
  <2> QED
    BY <1>1, <2>1 DEF LockInv, SchedOpen, FoundLocked, KernelLocked, OffStack,
       OneLock, SelfLocked, Guarded, SieOn, SieMaybe
<1>6. SavedInv'
  BY <1>1, ThreadFacts DEF Inv, SavedInv, SchedOpen
<1> QED
  BY <1>2, <1>3, <1>4, <1>5, <1>6 DEF Inv

\* The stack of the scheduler holds no frame outside a handler.
LEMMA SchedFrameStep ==
    ASSUME Inv, UNCHANGED frames,
           pc[Sched] # "ktret", pc'[Sched] # "ktret",
           \A u \in Slots : pc'[u] = pc[u]
    PROVE  FrameInv'
<1>1. frames[Sched] = <<>>
  BY DEF Inv, FrameInv
<1> QED
  BY <1>1, ThreadFacts DEF Inv, FrameInv

\* scheduler() enables interrupts.
LEMMA SchedLoopKeeps ==
    ASSUME Inv, SchedLoop
    PROVE  Inv'
<1> USE DEF SchedLoop, At, Goto
<1>1. /\ \A u \in Slots : ~plock[u]
      /\ ~klock /\ cpu.off_stack = 0 /\ cpu \in CpuState /\ current = None
  BY SchedOpenFacts DEF SchedOpen
<1>2. LockUnlock(cpu) \in CpuState /\ LockUnlock(cpu).off_stack = 0
  BY <1>1, LockUnlockFields
<1>3. cpu' \in CpuState /\ cpu'.off_stack = 0 /\ cpu'.sie
  BY <1>2, OnOffFields
<1>4. TypeOK'
  BY <1>3, SteadyLabels DEF Inv, TypeOK, procVars, lockVars, SchedLabels
<1>5. FrameInv'
  <2>1. pc'[Sched] = "window" /\ \A u \in Slots : pc'[u] = pc[u]
    BY ThreadFacts DEF Inv, TypeOK
  <2> QED
    BY <2>1, SchedFrameStep
<1> QED
  BY <1>1, <1>3, <1>4, <1>5, SchedMoveKeeps DEF procVars, lockVars, SchedOpen

\* scheduler() takes the kernel lock, or finds nothing to run.
LEMMA SchedLockKeeps ==
    ASSUME Inv, SchedLock
    PROVE  Inv'
<1> USE DEF At, Goto
<1>1. /\ \A u \in Slots : ~plock[u]
      /\ ~klock /\ cpu.off_stack = 0 /\ cpu \in CpuState /\ current = None
      /\ running = Sched /\ pc[Sched] = "window"
  BY SchedOpenFacts DEF SchedLock, SchedOpen
<1>2. /\ InterruptOff(cpu) \in CpuState /\ InterruptOff(cpu).off_stack = 0
      /\ ~InterruptOff(cpu).sie
  BY <1>1, OnOffFields
<1>3. UNCHANGED <<procVars, plock, localVars, current, running, frames, panic>>
  BY DEF SchedLock
<1>4. CASE /\ klock' = TRUE
           /\ cpu' = PushInterruptOff(InterruptOff(cpu))
           /\ pc' = [pc EXCEPT ![Sched] = "pick"]
  <2>1. cpu' \in CpuState /\ cpu'.off_stack = 1 /\ ~cpu'.sie /\ ~cpu'.prev
    BY <1>2, <1>4, PushFields
  <2>2. TypeOK'
    BY <1>3, <1>4, <2>1, SteadyLabels DEF Inv, TypeOK, procVars, localVars, SchedLabels
  <2>3. FrameInv'
    <3>1. pc'[Sched] = "pick" /\ \A u \in Slots : pc'[u] = pc[u]
      BY <1>4, ThreadFacts DEF Inv, TypeOK
    <3> QED
      BY <1>1, <1>3, <3>1, SchedFrameStep
  <2> QED
    BY <1>1, <1>3, <1>4, <2>1, <2>2, <2>3, SchedMoveKeeps DEF procVars, localVars
<1>5. CASE /\ cpu' = InterruptOn(LockUnlock(LockUnlock(InterruptOff(cpu))))
           /\ pc' = [pc EXCEPT ![Sched] = "loop"]
           /\ UNCHANGED klock
  <2>1. /\ LockUnlock(InterruptOff(cpu)) \in CpuState
        /\ LockUnlock(InterruptOff(cpu)).off_stack = 0
    BY <1>2, LockUnlockFields
  <2>2. /\ LockUnlock(LockUnlock(InterruptOff(cpu))) \in CpuState
        /\ LockUnlock(LockUnlock(InterruptOff(cpu))).off_stack = 0
    BY <2>1, LockUnlockFields
  <2>3. cpu' \in CpuState /\ cpu'.off_stack = 0 /\ cpu'.sie
    BY <1>5, <2>2, OnOffFields
  <2>4. TypeOK'
    BY <1>3, <1>5, <2>3, SteadyLabels DEF Inv, TypeOK, procVars, localVars, SchedLabels
  <2>5. FrameInv'
    <3>1. pc'[Sched] = "loop" /\ \A u \in Slots : pc'[u] = pc[u]
      BY <1>5, ThreadFacts DEF Inv, TypeOK
    <3> QED
      BY <1>1, <1>3, <3>1, SchedFrameStep
  <2> QED
    BY <1>1, <1>3, <1>5, <2>3, <2>4, <2>5, SchedMoveKeeps
    DEF procVars, localVars, SchedOpen
<1> QED
  BY <1>4, <1>5 DEF SchedLock

\* scheduler() is switched back to and drops the lock of the process.
LEMMA SchedAfterKeeps ==
    ASSUME Inv, SchedAfter
    PROVE  Inv'
<1> USE DEF SchedAfter, ClearCurrent, At, Goto
<1>1. /\ \A u \in Slots : plock[u] <=> u = found
      /\ ~klock /\ cpu.off_stack = 1 /\ cpu \in CpuState
  BY SchedFacts DEF FoundLocked, KernelLocked, OffStack, OneLock, SelfLocked,
     Guarded, SieOn, SieMaybe
<1>2. cpu' \in CpuState /\ cpu'.off_stack = 0
  BY <1>1, PopFields
<1>3. \A u \in Slots : ~plock'[u]
  BY <1>1 DEF Inv, TypeOK
<1>4. TypeOK'
  BY <1>2, SteadyLabels DEF Inv, TypeOK, procVars, localVars, SchedLabels
<1>5. FrameInv'
  <2>1. pc'[Sched] = "loop" /\ \A u \in Slots : pc'[u] = pc[u]
    BY ThreadFacts DEF Inv, TypeOK
  <2> QED
    BY <2>1, SchedFrameStep
<1> QED
  BY <1>1, <1>2, <1>3, <1>4, <1>5, SchedMoveKeeps DEF procVars, localVars, SchedOpen

\* With no process current a handler on the scheduler's stack returns.
LEMMA KernelTrapSchedKeeps ==
    ASSUME Inv, KernelTrap(Sched)
    PROVE  Inv'
<1> USE DEF KernelTrap, Goto
<1>1. pc[Sched] \in {"loop", "window"}
  BY SchedFacts DEF SieOn, SieMaybe, SchedLabels
<1>2. /\ \A u \in Slots : ~plock[u]
      /\ ~klock /\ cpu.off_stack = 0 /\ cpu \in CpuState /\ current = None
  BY <1>1, SchedOpenFacts DEF SchedOpen
<1>3. cpu' \in CpuState /\ cpu'.off_stack = 0 /\ ~cpu'.sie
  BY <1>2, OnOffFields
<1>4. pc' = [pc EXCEPT ![Sched] = "ktret"]
  BY <1>2
<1>5. frames[Sched] = <<>>
  BY <1>1 DEF Inv, FrameInv
<1>6. frames' = [frames EXCEPT ![Sched] = <<pc[Sched]>>]
  BY <1>5, ThreadFacts DEF Inv, TypeOK
<1>7. TypeOK'
  <2>1. <<pc[Sched]>> \in Seq(Labels) /\ "ktret" \in Labels
    BY ThreadFacts, SteadyLabels DEF Inv, TypeOK, Steady
  <2> QED
    BY <1>3, <1>4, <1>6, <2>1 DEF Inv, TypeOK, procVars, lockVars, localVars
<1>8. FrameInv'
  <2>1. pc'[Sched] = "ktret" /\ \A u \in Slots : pc'[u] = pc[u]
    BY <1>4, ThreadFacts DEF Inv, TypeOK
  <2>2. frames'[Sched] = <<pc[Sched]>> /\ \A u \in Slots : frames'[u] = frames[u]
    BY <1>6, ThreadFacts DEF Inv, TypeOK
  <2>3. \A t \in Threads : pc'[t] = "ktret" => frames'[t] # <<>>
    BY <2>1, <2>2, ThreadFacts DEF Inv, FrameInv
  <2> QED
    BY <1>1, <2>1, <2>2, <2>3 DEF Inv, FrameInv
<1> QED
  BY <1>1, <1>2, <1>3, <1>4, <1>7, <1>8, SchedMoveKeeps
  DEF procVars, lockVars, localVars, SchedOpen

\* kerneltrap() returns to the scheduler.
LEMMA KernelTrapReturnSchedKeeps ==
    ASSUME Inv, KernelTrapReturn(Sched)
    PROVE  Inv'
<1> USE DEF KernelTrapReturn, At, Goto
<1>1. /\ \A u \in Slots : ~plock[u]
      /\ ~klock /\ cpu.off_stack = 0 /\ cpu \in CpuState /\ current = None
  BY SchedOpenFacts DEF SchedOpen
<1>2. cpu' \in CpuState /\ cpu'.off_stack = 0 /\ cpu'.sie
  BY <1>1, OnOffFields
<1>3. PICK l \in {"loop", "window"} : frames[Sched] = <<l>>
  BY ThreadFacts DEF Inv, FrameInv
<1>4. pc' = [pc EXCEPT ![Sched] = l] /\ frames' = [frames EXCEPT ![Sched] = <<>>]
  BY <1>3
<1>5. TypeOK'
  <2>1. frames' \in [Threads -> Seq(Labels)]
    <3>1. <<>> \in Seq(Labels)
      OBVIOUS
    <3>2. frames \in [Threads -> Seq(Labels)]
      BY DEF Inv, TypeOK
    <3> QED
      BY <1>4, <3>1, <3>2, Zenon
  <2>2. pc' \in [Threads -> Labels]
    BY <1>4, SteadyLabels DEF Inv, TypeOK, SchedLabels
  <2> QED
    BY <1>2, <2>1, <2>2 DEF Inv, TypeOK, procVars, lockVars, localVars
<1>6. FrameInv'
  <2>1. pc'[Sched] = l /\ \A u \in Slots : pc'[u] = pc[u]
    BY <1>4, ThreadFacts DEF Inv, TypeOK
  <2>2. frames'[Sched] = <<>> /\ \A u \in Slots : frames'[u] = frames[u]
    BY <1>4, ThreadFacts DEF Inv, TypeOK
  <2>3. \A t \in Threads : pc'[t] = "ktret" => frames'[t] # <<>>
    BY <2>1, <2>2, ThreadFacts DEF Inv, FrameInv
  <2> QED
    BY <2>1, <2>2, <2>3 DEF Inv, FrameInv
<1> QED
  BY <1>1, <1>2, <1>4, <1>5, <1>6, SchedMoveKeeps
  DEF procVars, lockVars, localVars, SchedOpen

-----------------------------------------------------------------------------
(* The switch to a process and back.                                        *)

\* scheduler() picks a process, keeps its lock and drops the kernel lock.
LEMMA SchedPickKeeps ==
    ASSUME Inv, NEW s \in Slots, SchedPick(s)
    PROVE  Inv'
<1> USE DEF SchedPick, Eligible, At, Goto
<1>1. /\ \A u \in Slots : ~plock[u]
      /\ cpu.off_stack = 1 /\ cpu \in CpuState /\ ~cpu.sie /\ ~cpu.prev
      /\ \A u \in Slots : pc[u] \in ParkedLabels
  BY SchedFacts DEF FoundLocked, KernelLocked, OffStack, OneLock, SelfLocked,
     Guarded, SieOn, SieMaybe
<1>2. current = None
  BY DEF Inv, ControlInv
<1>3. /\ PushInterruptOff(cpu) \in CpuState /\ PushInterruptOff(cpu).off_stack = 2
      /\ ~PushInterruptOff(cpu).sie /\ ~PushInterruptOff(cpu).prev
  BY <1>1, PushFields
<1>4. cpu' \in CpuState /\ cpu'.off_stack = 1 /\ ~cpu'.sie /\ ~cpu'.prev
  BY <1>3, PopFields
<1>5. /\ pc'[Sched] = "dispatch" /\ \A u \in Slots : pc'[u] = pc[u]
      /\ state'[s] = "Running" /\ \A u \in Slots \ {s} : state'[u] = state[u]
      /\ \A u \in Slots : plock'[u] <=> u = s
  BY <1>1, ThreadFacts DEF Inv, TypeOK
<1>6. TypeOK'
  BY <1>4, SteadyLabels DEF Inv, TypeOK, SchedLabels, ProcStates
<1>7. ControlInv'
  BY <1>1, <1>2, <1>5, ThreadFacts DEF Inv, ControlInv, SchedLabels
<1>8. StateInv'
  <2>1. \A u \in Slots : ParkedState(u)'
    BY <1>5, ThreadFacts DEF Inv, StateInv, ParkedState
  <2> QED
    BY <1>5, <2>1, ThreadFacts DEF StateInv
<1>9. LockInv'
  <2>1. \A u \in Slots : plock'[u] <=> Held(u)'
    BY <1>5, ThreadFacts DEF Held, FoundLocked
  <2> QED
    BY <1>4, <1>5, <2>1 DEF LockInv, FoundLocked, KernelLocked, OffStack,
       OneLock, SelfLocked, Guarded, SieOn, SieMaybe
<1>10. SavedInv'
  BY <1>4, <1>5, ThreadFacts DEF Inv, SavedInv
<1>11. FrameInv'
  BY <1>5, SchedFrameStep
<1>12. PidInv'
  BY <1>5, PidStep
<1> QED
  BY <1>6, <1>7, <1>8, <1>9, <1>10, <1>11, <1>12 DEF Inv

\* The process that is switched to is not one that has exited.
LEMMA SchedDispatchKeeps ==
    ASSUME Inv, SchedDispatch
    PROVE  Inv'
<1> USE DEF SchedDispatch, At, Goto
<1>1. /\ \A u \in Slots : plock[u] <=> u = found
      /\ ~klock /\ cpu.off_stack = 1 /\ cpu \in CpuState /\ ~cpu.sie /\ ~cpu.prev
      /\ \A u \in Slots : pc[u] \in ParkedLabels
  BY SchedFacts DEF FoundLocked, KernelLocked, OffStack, OneLock, SelfLocked,
     Guarded, SieOn, SieMaybe
<1>2. found \in Slots
  BY DEF Inv, ControlInv, FoundLocked
<1>3. state[found] = "Running"
  BY DEF Inv, StateInv
<1>4. pc[found] \in {"forkret", "yeld_resume", "wait_resume"}
  BY <1>1, <1>2, <1>3, ThreadFacts DEF Inv, StateInv, ParkedState, ParkedLabels
<1>5. cpu' \in CpuState /\ cpu'.off_stack = 1 /\ ~cpu'.sie /\ ~cpu'.prev
  BY <1>1, LockUnlockFields
<1>6. UNCHANGED panic
  BY <1>4
<1>7. pc'[Sched] = "after" /\ \A u \in Slots : pc'[u] = pc[u]
  BY ThreadFacts DEF Inv, TypeOK
<1>8. TypeOK'
  BY <1>2, <1>5, <1>6, ThreadFacts, SteadyLabels
  DEF Inv, TypeOK, procVars, lockVars, localVars, SchedLabels
<1>9. ControlInv'
  BY <1>1, <1>2, <1>4, <1>7, ThreadFacts
  DEF Inv, ControlInv, SchedLabels, localVars
<1>10. StateInv'
  <2>1. \A u \in Slots \ {found} : ParkedState(u)'
    BY <1>7, ThreadFacts DEF Inv, StateInv, ParkedState, procVars, localVars
  <2>2. RunningState(found)'
    BY <1>2, <1>3, <1>4, <1>7 DEF RunningState, procVars, localVars
  <2> QED
    BY <1>2, <1>4, <1>7, <2>1, <2>2, ThreadFacts DEF StateInv, procVars, localVars
<1>11. LockInv'
  BY <1>1, <1>2, <1>4, <1>5, <1>7, LockStep
  DEF lockVars, FoundLocked, KernelLocked, OffStack, OneLock, SelfLocked,
      Guarded, SieOn, SieMaybe
<1>12. SavedInv'
  BY <1>2, <1>4, <1>5, <1>7, ThreadFacts
  DEF Inv, SavedInv, localVars, KernelLocked, Guarded
<1>13. FrameInv'
  BY <1>7, SchedFrameStep
<1>14. PidInv'
  BY PidStep DEF procVars
<1> QED
  BY <1>6, <1>8, <1>9, <1>10, <1>11, <1>12, <1>13, <1>14 DEF Inv

\* sched() finds what it asserts.
LEMMA SchedSwitchKeeps ==
    ASSUME Inv, NEW s \in Slots, NEW from, NEW to,
           <<from, to>> \in {<<"yeld_sched", "yeld_resume">>,
                             <<"wait_sched", "wait_resume">>,
                             <<"exit_sched", "exit_resume">>},
           SchedSwitch(s, from, to)
    PROVE  Inv'
<1> USE DEF SchedSwitch, At, Goto
<1>1. /\ from \in {"yeld_sched", "wait_sched", "exit_sched"}
      /\ to \in {"yeld_resume", "wait_resume", "exit_resume"}
      /\ from = "yeld_sched" <=> to = "yeld_resume"
      /\ from = "wait_sched" <=> to = "wait_resume"
      /\ from = "exit_sched" <=> to = "exit_resume"
  OBVIOUS
<1>2. /\ \A u \in Slots : plock[u] <=> u = s
      /\ ~klock /\ cpu.off_stack = 1 /\ ~cpu.sie /\ cpu \in CpuState
  BY <1>1, SelfFacts DEF SelfLocked
<1>3. /\ current = s /\ found = s /\ pc[Sched] = "after"
      /\ from \in {"wait_sched", "exit_sched"} => cpu.prev
      /\ from = "yeld_sched" => ~cpu.prev
      /\ \A u \in Slots \ {s} : pc[u] \in ParkedLabels
  BY OnHartFacts
<1>4. /\ from = "yeld_sched" => state[s] = "Runnable"
      /\ from = "wait_sched" => state[s] = "Sleeping"
      /\ from = "exit_sched" => state[s] = "Zombie"
  BY DEF Inv, StateInv, RunningState
<1>5. SchedAllowed
  BY <1>1, <1>2, <1>3, <1>4 DEF SchedAllowed
<1>6. /\ saved_prev' = [saved_prev EXCEPT ![s] = cpu.prev]
      /\ running' = Sched
      /\ pc' = [pc EXCEPT ![s] = to]
      /\ UNCHANGED panic
  BY <1>5
<1>7. pc'[s] = to /\ \A t \in Threads \ {s} : pc'[t] = pc[t]
  BY <1>6, ThreadFacts DEF Inv, TypeOK
<1>8. TypeOK'
  <2>1. to \in Labels /\ cpu.prev \in BOOLEAN
    BY <1>1, <1>2 DEF Labels, YeldLabels, WaitLabels, ExitLabels, CpuState
  <2> QED
    BY <1>6, <2>1, ThreadFacts DEF Inv, TypeOK, procVars, lockVars
<1>9. ControlInv'
  <2>1. \A u \in Slots : pc'[u] \in ParkedLabels
    BY <1>1, <1>3, <1>7, ThreadFacts DEF ParkedLabels
  <2> QED
    BY <1>3, <1>6, <1>7, <2>1, ThreadFacts, SteadyLabels
    DEF ControlInv, SchedLabels
<1>10. StateInv'
  <2>1. \A u \in Slots \ {s} : ParkedState(u)'
    BY <1>6, <1>7, ThreadFacts DEF Inv, StateInv, ParkedState, procVars
  <2>2. ParkedState(s)'
    BY <1>1, <1>4, <1>7 DEF ParkedState, procVars
  <2> QED
    BY <1>3, <1>6, <1>7, <2>1, <2>2, ThreadFacts DEF StateInv
<1>11. LockInv'
  <2>1. \A u \in Slots : plock'[u] <=> Held(u)'
    BY <1>2, <1>3, <1>6, <1>7, ThreadFacts DEF Held, FoundLocked, lockVars
  <2> QED
    BY <1>2, <1>3, <1>6, <1>7, <2>1, ThreadFacts
    DEF LockInv, lockVars, FoundLocked, KernelLocked, OffStack,
        OneLock, SelfLocked, Guarded, SieOn, SieMaybe
<1>12. SavedInv'
  <2>1. /\ saved_prev'[s] <=> cpu.prev
        /\ \A u \in Slots \ {s} : saved_prev'[u] = saved_prev[u]
    BY <1>6 DEF Inv, TypeOK
  <2> QED
    BY <1>1, <1>3, <1>6, <1>7, <2>1, ThreadFacts DEF Inv, SavedInv
<1>13. FrameInv'
  <2>1. \A u \in Slots : \/ frames'[u] = <<>>
                         \/ /\ pc'[u] \in YeldLabels \cup {"ktret"}
                            /\ \E k \in CallLabels : frames'[u] = <<k>>
    BY <1>1, <1>7, ThreadFacts DEF Inv, FrameInv, YeldLabels
  <2> QED
    BY <1>1, <1>7, <2>1, ThreadFacts DEF Inv, FrameInv
<1>14. PidInv'
  BY PidStep DEF procVars
<1> QED
  BY <1>6, <1>8, <1>9, <1>10, <1>11, <1>12, <1>13, <1>14 DEF Inv

-----------------------------------------------------------------------------
(* fork, exit and wait.                                                     *)

\* One guard is taken and interrupts are off.
OneGuard == {"fork_alloc", "fork_run", "exit_reparent", "exit_wakeup", "exit_zombie",
             "wait_scan", "wait_sleep"}

\* A process where it holds the kernel lock or the guard of kexit().
LEMMA GuardFacts ==
    ASSUME Inv, NEW s \in Slots, running = s, pc[s] \in OneGuard
    PROVE  /\ \A u \in Slots : ~plock[u]
           /\ klock <=> pc[s] \in KernelLocked
           /\ cpu.off_stack = 1 /\ ~cpu.sie /\ cpu.prev /\ cpu \in CpuState
           /\ state[s] = "Running"
<1>1. state[s] = "Running"
  BY DEF Inv, StateInv, RunningState, OneGuard
<1> QED
  BY <1>1, OnHartFacts DEF OneGuard, SelfLocked, KernelLocked, Guarded, FoundLocked,
     OneLock, OffStack, SieOn, SieMaybe

\* A step to a label with one guard, whatever it does to the process table.
LEMMA GuardKeeps ==
    ASSUME Inv, NEW s \in Slots, running = s, NEW l \in OneGuard,
           pc[s] \notin YeldLabels \cup {"ktret"},
           pc'[s] = l, \A t \in Threads \ {s} : pc'[t] = pc[t],
           UNCHANGED <<running, current, found, saved_prev, panic, frames>>,
           TypeOK', StateInv', PidInv',
           \A u \in Slots : ~plock'[u],
           klock' <=> l \in KernelLocked,
           cpu'.off_stack = 1, ~cpu'.sie, cpu'.prev
    PROVE  Inv'
<1>1. ControlInv'
  BY OnHartFacts, ControlStep, SteadyLabels, ThreadFacts DEF OneGuard, Steady
<1>2. LockInv'
  BY LockStep DEF OneGuard, SelfLocked, KernelLocked, Guarded, FoundLocked,
     OneLock, OffStack, SieOn, SieMaybe
<1>3. SavedInv'
  BY SavedStep, ThreadFacts DEF OneGuard
<1>4. FrameInv'
  BY FrameStep, ThreadFacts DEF OneGuard
<1> QED
  BY <1>1, <1>2, <1>3, <1>4 DEF Inv

\* The first step of fork, exit and wait takes a guard.
LEMMA TakeGuardKeeps ==
    ASSUME Inv, NEW s \in Slots, running = s, pc[s] \in {"fork", "exit", "wait"},
           NEW l \in OneGuard \cap Steady,
           pc' = [pc EXCEPT ![s] = l],
           cpu' = PushInterruptOff(cpu),
           klock' \in BOOLEAN, klock' <=> l \in KernelLocked,
           UNCHANGED <<procVars, plock, localVars, current, running, frames, panic>>
    PROVE  Inv'
<1>1. /\ \A u \in Slots : ~plock[u]
      /\ cpu.off_stack = 0 /\ cpu \in CpuState /\ cpu.sie
  BY OpenFacts DEF Open
<1>2. cpu' \in CpuState /\ cpu'.off_stack = 1 /\ ~cpu'.sie /\ cpu'.prev
  BY <1>1, PushFields
<1>3. pc'[s] = l /\ \A t \in Threads \ {s} : pc'[t] = pc[t]
  BY ThreadFacts DEF Inv, TypeOK
<1>4. TypeOK'
  <2>1. l \in Labels
    BY SteadyLabels
  <2> QED
    BY <1>2, <2>1 DEF Inv, TypeOK, procVars, localVars
<1>5. StateInv' /\ PidInv'
  BY MoveKeeps DEF procVars, localVars
<1> QED
  BY <1>1, <1>2, <1>3, <1>4, <1>5, GuardKeeps DEF procVars, localVars, YeldLabels

\* kfork() takes the kernel lock.
LEMMA KforkLockKeeps ==
    ASSUME Inv, NEW s \in Slots, KforkLock(s)
    PROVE  Inv'
BY TakeGuardKeeps DEF KforkLock, At, Goto, OneGuard, Steady, KernelLocked

\* kwait() takes the kernel lock.
LEMMA KwaitLockKeeps ==
    ASSUME Inv, NEW s \in Slots, KwaitLock(s)
    PROVE  Inv'
BY TakeGuardKeeps DEF KwaitLock, At, Goto, OneGuard, Steady, KernelLocked

\* kexit() takes its guard, or init may not exit.
LEMMA KexitGuardKeeps ==
    ASSUME Inv, NEW s \in Slots, KexitGuard(s)
    PROVE  Inv'
<1> USE DEF KexitGuard, At, Goto
<1>1. CASE pid[s] = 0
  <2>1. klock \in BOOLEAN
    BY DEF Inv, TypeOK
  <2> QED
    BY <1>1, <2>1, PanicKeeps, OpenFacts DEF Open, YeldLabels, lockVars
<1>2. CASE pid[s] # 0
  <2>1. ~klock
    BY OpenFacts DEF Open
  <2>2. klock' \in BOOLEAN /\ "exit_reparent" \notin KernelLocked
    BY DEF lockVars, KernelLocked, Inv, TypeOK
  <2> QED
    BY <1>2, <2>1, <2>2, TakeGuardKeeps DEF OneGuard, Steady, lockVars
<1> QED
  BY <1>1, <1>2

\* wakeup() makes sleeping processes Runnable and changes no other state; the
\* process that calls it is not asleep.
LEMMA WakeupFacts ==
    ASSUME Inv, NEW ch
    PROVE  /\ Wakeup(state, ch) \in [Slots -> ProcStates]
           /\ \A u \in Slots : \/ Wakeup(state, ch)[u] = state[u]
                               \/ /\ state[u] = "Sleeping"
                                  /\ Wakeup(state, ch)[u] = "Runnable"
BY DEF Wakeup, Inv, TypeOK, ProcStates

\* wakeup() turns some sleeping processes Runnable and nothing else.
LEMMA WokenState ==
    ASSUME Inv, NEW s \in Slots, running = s, NEW l \in Steady,
           state[s] = "Running",
           UNCHANGED <<running, child>>,
           pc' = [pc EXCEPT ![s] = l],
           \A u \in Slots : \/ state'[u] = state[u]
                            \/ state[u] = "Sleeping" /\ state'[u] = "Runnable"
    PROVE  StateInv'
<1>1. pc'[s] = l /\ \A u \in Slots \ {s} : pc'[u] = pc[u]
  BY ThreadFacts DEF Inv, TypeOK
<1>2. \A u \in Slots \ {s} : ParkedState(u)'
  BY <1>1, ThreadFacts DEF Inv, StateInv, ParkedState
<1>3. RunningState(s)'
  BY <1>1 DEF RunningState, Steady
<1> QED
  BY <1>1, <1>2, <1>3, ThreadFacts DEF StateInv, Steady

\* The two steps of kexit() that wake others.
LEMMA KexitWakes ==
    ASSUME Inv, NEW s \in Slots, running = s,
           pc[s] \in {"exit_reparent", "exit_wakeup"},
           NEW l \in {"exit_wakeup", "exit_zombie"},
           pc' = [pc EXCEPT ![s] = l],
           cpu' = LockUnlock(cpu),
           parent' \in [Slots -> PidsOrNone],
           state' \in [Slots -> ProcStates],
           \A u \in Slots : \/ state'[u] = state[u]
                            \/ state[u] = "Sleeping" /\ state'[u] = "Runnable",
           UNCHANGED <<pid, sleep_channel, xstatus, kernel_pid, lockVars, localVars,
                       current, running, frames, panic>>
    PROVE  Inv'
<1>1. /\ \A u \in Slots : ~plock[u]
      /\ klock <=> pc[s] \in KernelLocked
      /\ cpu.off_stack = 1 /\ ~cpu.sie /\ cpu.prev /\ cpu \in CpuState
      /\ state[s] = "Running"
  BY GuardFacts DEF OneGuard
<1>2. cpu' \in CpuState /\ cpu'.off_stack = 1 /\ ~cpu'.sie /\ cpu'.prev
  BY <1>1, LockUnlockFields
<1>3. pc'[s] = l /\ \A t \in Threads \ {s} : pc'[t] = pc[t]
  BY ThreadFacts DEF Inv, TypeOK
<1>4. TypeOK'
  <2>1. l \in Labels
    BY SteadyLabels DEF Steady
  <2> QED
    BY <1>2, <2>1 DEF Inv, TypeOK, lockVars, localVars
<1>5. StateInv'
  BY <1>1, WokenState DEF Steady, localVars
<1>6. PidInv'
  BY PidStep
<1> QED
  BY <1>1, <1>2, <1>3, <1>4, <1>5, <1>6, GuardKeeps
  DEF OneGuard, KernelLocked, YeldLabels, lockVars, localVars

\* kexit() gives the children to init.
LEMMA KexitReparentKeeps ==
    ASSUME Inv, NEW s \in Slots, KexitReparent(s)
    PROVE  Inv'
<1> USE DEF KexitReparent, At, Goto, Reparent
<1>1. parent' \in [Slots -> PidsOrNone]
  BY DEF Inv, TypeOK, PidsOrNone
<1>2. /\ state' \in [Slots -> ProcStates]
      /\ \A u \in Slots : \/ state'[u] = state[u]
                          \/ state[u] = "Sleeping" /\ state'[u] = "Runnable"
  BY WakeupFacts DEF Inv, TypeOK
<1> QED
  BY <1>1, <1>2, KexitWakes

\* kexit() wakes the parent.
LEMMA KexitWakeupKeeps ==
    ASSUME Inv, NEW s \in Slots, KexitWakeup(s)
    PROVE  Inv'
<1> USE DEF KexitWakeup, At, Goto
<1>1. parent' \in [Slots -> PidsOrNone]
  BY DEF Inv, TypeOK
<1>2. /\ state' \in [Slots -> ProcStates]
      /\ \A u \in Slots : \/ state'[u] = state[u]
                          \/ state[u] = "Sleeping" /\ state'[u] = "Runnable"
  BY WakeupFacts
<1> QED
  BY <1>1, <1>2, KexitWakes

\* A step of the process on the hart into sched(): it holds its own lock and
\* its state is the one it will be parked with.
LEMMA IntoSchedKeeps ==
    ASSUME Inv, NEW s \in Slots, running = s, state[s] = "Running",
           NEW l \in {"yeld_sched", "wait_sched", "exit_sched"}, NEW st,
           state' = [state EXCEPT ![s] = st],
           st = IF l = "yeld_sched" THEN "Runnable"
                ELSE IF l = "wait_sched" THEN "Sleeping" ELSE "Zombie",
           pc' = [pc EXCEPT ![s] = l],
           plock' = [plock EXCEPT ![s] = TRUE],
           \A u \in Slots : ~plock[u],
           UNCHANGED <<pid, kernel_pid, running, current, found, saved_prev, child,
                       panic, frames>>,
           TypeOK',
           pc[s] \notin YeldLabels \cup {"ktret"} \/ l = "yeld_sched",
           ~klock', cpu'.off_stack = 1, ~cpu'.sie,
           cpu'.prev <=> l # "yeld_sched"
    PROVE  Inv'
<1>1. /\ pc'[s] = l /\ \A t \in Threads \ {s} : pc'[t] = pc[t]
      /\ state'[s] = st /\ \A u \in Slots \ {s} : state'[u] = state[u]
      /\ \A u \in Slots : plock'[u] <=> u = s
  BY ThreadFacts DEF Inv, TypeOK
<1>2. ControlInv'
  BY <1>1, OnHartFacts, ControlStep, SteadyLabels, ThreadFacts
<1>3. StateInv'
  <2>1. \A u \in Slots \ {s} : ParkedState(u)'
    BY <1>1, ThreadFacts DEF Inv, StateInv, ParkedState
  <2>2. RunningState(s)'
    BY <1>1 DEF RunningState
  <2> QED
    BY <1>1, <2>1, <2>2, ThreadFacts DEF StateInv
<1>4. LockInv'
  BY <1>1, LockStep DEF SelfLocked, KernelLocked, Guarded, FoundLocked,
     OneLock, OffStack, SieOn, SieMaybe
<1>5. SavedInv'
  BY <1>1, SavedStep, ThreadFacts DEF KernelLocked, Guarded
<1>6. FrameInv'
  BY <1>1, FrameStep, ThreadFacts DEF YeldLabels
<1>7. PidInv'
  BY <1>1, PidStep
<1> QED
  BY <1>2, <1>3, <1>4, <1>5, <1>6, <1>7 DEF Inv

\* yeld() takes the process lock and becomes Runnable.
LEMMA YeldKeeps ==
    ASSUME Inv, NEW s \in Slots, Yeld(s)
    PROVE  Inv'
<1> USE DEF Yeld, At, Goto
<1>1. /\ \A u \in Slots : ~plock[u]
      /\ ~klock /\ cpu.off_stack = 0 /\ cpu \in CpuState /\ ~cpu.sie
      /\ state[s] = "Running"
  BY OpenFacts DEF Open
<1>2. /\ LockUnlock(cpu) \in CpuState /\ LockUnlock(cpu).off_stack = 0
      /\ ~LockUnlock(cpu).sie
  BY <1>1, LockUnlockFields
<1>3. cpu' \in CpuState /\ cpu'.off_stack = 1 /\ ~cpu'.sie /\ ~cpu'.prev
  BY <1>2, PushFields
<1>4. TypeOK'
  BY <1>3, SteadyLabels DEF Inv, TypeOK, localVars, ProcStates
<1> QED
  BY <1>1, <1>3, <1>4, IntoSchedKeeps DEF localVars

\* kexit() takes the process lock and becomes a Zombie.
LEMMA KexitZombieKeeps ==
    ASSUME Inv, NEW s \in Slots, KexitZombie(s)
    PROVE  Inv'
<1> USE DEF KexitZombie, At, Goto
<1>1. /\ \A u \in Slots : ~plock[u]
      /\ klock <=> pc[s] \in KernelLocked
      /\ cpu.off_stack = 1 /\ ~cpu.sie /\ cpu.prev /\ cpu \in CpuState
      /\ state[s] = "Running"
  BY GuardFacts DEF OneGuard
<1>2. /\ PushInterruptOff(cpu) \in CpuState /\ PushInterruptOff(cpu).off_stack = 2
      /\ ~PushInterruptOff(cpu).sie /\ PushInterruptOff(cpu).prev
  BY <1>1, PushFields
<1>3. cpu' \in CpuState /\ cpu'.off_stack = 1 /\ ~cpu'.sie /\ cpu'.prev
  BY <1>2, PopFields
<1>4. pid[s] \in Nat
  BY <1>1 DEF Inv, TypeOK, PidInv, PidsOrNone
<1>5. TypeOK'
  BY <1>3, <1>4, SteadyLabels DEF Inv, TypeOK, localVars, ProcStates, ExitStatusOf
<1> QED
  BY <1>1, <1>3, <1>5, IntoSchedKeeps DEF localVars, KernelLocked, YeldLabels

\* kwait() finds its own slot again by its pid.
LEMMA KwaitSleepKeeps ==
    ASSUME Inv, NEW s \in Slots, KwaitSleep(s)
    PROVE  Inv'
<1> USE DEF KwaitSleep, At, Goto
<1>1. /\ \A u \in Slots : ~plock[u]
      /\ cpu.off_stack = 1 /\ ~cpu.sie /\ cpu.prev /\ cpu \in CpuState
      /\ state[s] = "Running"
  BY GuardFacts DEF OneGuard
<1>2. {u \in Slots : pid[u] = pid[s]} = {s}
  BY <1>1 DEF Inv, PidInv
<1>3. FirstOf({u \in Slots : pid[u] = pid[s]}) = s
  BY <1>2, FirstOfIn
<1>4. /\ PushInterruptOff(cpu) \in CpuState /\ PushInterruptOff(cpu).off_stack = 2
      /\ ~PushInterruptOff(cpu).sie /\ PushInterruptOff(cpu).prev
  BY <1>1, PushFields
<1>5. cpu' \in CpuState /\ cpu'.off_stack = 1 /\ ~cpu'.sie /\ cpu'.prev
  BY <1>4, PopFields
<1>6. /\ plock' = [plock EXCEPT ![s] = TRUE]
      /\ state' = [state EXCEPT ![s] = "Sleeping"]
      /\ sleep_channel' = [sleep_channel EXCEPT ![s] = pid[s]]
  BY <1>3
<1>7. TypeOK'
  <2>1. /\ state' \in [Slots -> ProcStates] /\ plock' \in [Slots -> BOOLEAN]
        /\ sleep_channel' \in [Slots -> PidsOrNone]
    <3>1. /\ state \in [Slots -> ProcStates] /\ plock \in [Slots -> BOOLEAN]
          /\ sleep_channel \in [Slots -> PidsOrNone] /\ pid[s] \in PidsOrNone
      BY DEF Inv, TypeOK
    <3> HIDE DEF KwaitSleep
    <3> QED
      BY <1>6, <3>1 DEF ProcStates
  <2>2. pc' \in [Threads -> Labels] /\ klock' \in BOOLEAN
    BY SteadyLabels DEF Inv, TypeOK
  <2> QED
    BY <1>5, <2>1, <2>2 DEF Inv, TypeOK, localVars
<1> QED
  BY <1>1, <1>5, <1>6, <1>7, IntoSchedKeeps DEF localVars, YeldLabels

\* allocproc() takes a slot that nobody uses, with a pid nobody has.
LEMMA KforkAllocKeeps ==
    ASSUME Inv, NEW s \in Slots, KforkAlloc(s)
    PROVE  Inv'
<1> DEFINE unused == {u \in Slots : state[u] = "Unused"}
           c == FirstOf(unused)
<1>1. panic = "none" /\ running = s /\ pc[s] = "fork_alloc"
  BY DEF KforkAlloc, At
<1>2. CASE unused = {}
  <2>1. /\ klock' = FALSE /\ Panic(s, PopInterruptOff(cpu))
        /\ UNCHANGED <<procVars, plock, localVars, current, running, frames, panic>>
    BY <1>2 DEF KforkAlloc, localVars
  <2>2. /\ \A u \in Slots : ~plock[u]
        /\ cpu.off_stack = 1 /\ cpu \in CpuState
    BY <1>1, GuardFacts DEF OneGuard, KernelLocked
  <2>3. PopInterruptOff(cpu) \in CpuState /\ PopInterruptOff(cpu).off_stack = 0
    BY <2>2, PopFields
  <2> QED
    BY <1>1, <2>1, <2>2, <2>3, PanicKeeps DEF YeldLabels
<1>3. CASE unused # {}
  <2>1. c \in Slots /\ state[c] = "Unused"
    BY <1>3, FirstOfIn
  <2>2. /\ plock' = [plock EXCEPT ![c] = TRUE]
        /\ cpu' = PushInterruptOff(cpu)
        /\ pid' = [pid EXCEPT ![c] = kernel_pid]
        /\ kernel_pid' = kernel_pid + 1
        /\ state' = [state EXCEPT ![c] = "Used"]
        /\ child' = [child EXCEPT ![s] = c]
        /\ pc' = [pc EXCEPT ![s] = "fork_parent", ![c] = "forkret"]
        /\ UNCHANGED <<parent, sleep_channel, xstatus, klock>>
        /\ UNCHANGED <<saved_prev, found, waited, current, running, frames, panic>>
    BY <1>3 DEF KforkAlloc
  <2> HIDE DEF c, unused
  <2>u. UNCHANGED <<klock, saved_prev, found, current, running, frames, panic>>
    BY <2>2
  <2>3. /\ \A u \in Slots : ~plock[u]
        /\ klock /\ cpu.off_stack = 1 /\ ~cpu.sie /\ cpu.prev /\ cpu \in CpuState
        /\ state[s] = "Running"
    BY <1>1, GuardFacts DEF OneGuard, KernelLocked
  <2>4. c # s
    BY <2>1, <2>3
  <2>5. cpu' \in CpuState /\ cpu'.off_stack = 2 /\ ~cpu'.sie /\ cpu'.prev
    BY <2>2, <2>3, PushFields
  <2>6. pc[c] = "none"
    BY <1>1, <2>1, <2>4 DEF Inv, StateInv, ParkedState
  <2>7. /\ pc'[s] = "fork_parent" /\ pc'[c] = "forkret"
        /\ \A t \in Threads \ {s, c} : pc'[t] = pc[t]
        /\ state'[c] = "Used" /\ \A u \in Slots \ {c} : state'[u] = state[u]
        /\ pid'[c] = kernel_pid /\ \A u \in Slots \ {c} : pid'[u] = pid[u]
        /\ child'[s] = c
        /\ \A u \in Slots : plock'[u] <=> u = c
    BY <2>1, <2>2, <2>3, <2>4, ThreadFacts DEF Inv, TypeOK
  <2>8. TypeOK'
    <3>1. "fork_parent" \in Labels /\ "forkret" \in Labels
      BY DEF Labels, ForkLabels
    <3>2. pc' \in [Threads -> Labels] /\ child' \in [Slots -> Slots \cup {None}]
      BY <2>1, <2>2, <3>1 DEF Inv, TypeOK
    <3>3. pid' \in [Slots -> PidsOrNone] /\ kernel_pid' \in Nat
      <4>1. kernel_pid \in Nat /\ pid \in [Slots -> PidsOrNone]
        BY DEF Inv, TypeOK
      <4>2. pid' = [pid EXCEPT ![c] = kernel_pid] /\ kernel_pid' = kernel_pid + 1
        BY <2>2
      <4>3. kernel_pid \in PidsOrNone /\ kernel_pid' \in Nat
        BY <4>1, <4>2 DEF PidsOrNone
      <4> QED
        BY <4>1, <4>2, <4>3
    <3>4. state' \in [Slots -> ProcStates] /\ plock' \in [Slots -> BOOLEAN]
      BY <2>2 DEF Inv, TypeOK, ProcStates
    <3> QED
      BY <2>2, <2>5, <3>2, <3>3, <3>4 DEF Inv, TypeOK
  <2>9. ControlInv'
    <3>1. pc'[s] \in OnHart /\ "forkret" \in ParkedLabels
      BY <2>7, SteadyLabels DEF ParkedLabels
    <3>2. \A u \in Slots \ {s} : pc[u] \in ParkedLabels
      BY <1>1 DEF Inv, ControlInv
    <3>3. pc'[Sched] = pc[Sched]
      BY <2>1, <2>7, ThreadFacts
    <3>4. \A u \in Slots \ {s} : pc'[u] \in ParkedLabels
      BY <2>7, <3>1, <3>2, ThreadFacts
    <3> QED
      BY <1>1, <2>u, <3>1, <3>3, <3>4, ControlStep
  <2>10. StateInv'
    <3>1. ASSUME NEW u \in Slots \ {s} PROVE ParkedState(u)'
      <4>1. CASE u = c
        BY <2>7, <4>1 DEF ParkedState
      <4>2. CASE u # c
        <5>1. ParkedState(u) /\ state'[u] = state[u] /\ pc'[u] = pc[u]
              /\ running' = s /\ running = s
          BY <1>1, <2>u, <2>7, <4>2, ThreadFacts DEF Inv, StateInv
        <5> QED
          BY <5>1, ThreadFacts DEF ParkedState
      <4> QED
        BY <4>1, <4>2
    <3>2. RunningState(s)'
      BY <2>3, <2>4, <2>7 DEF RunningState
    <3> QED
      BY <1>1, <2>1, <2>u, <2>7, <3>1, <3>2, ThreadFacts DEF StateInv
  <2>11. LockInv'
    BY <1>1, <2>u, <2>3, <2>5, <2>7, LockStep
    DEF SelfLocked, KernelLocked, OffStack, SieOn, SieMaybe
  <2>12. SavedInv'
    BY <1>1, <2>u, <2>5, <2>7, SavedStep, ThreadFacts
  <2>13. FrameInv'
    BY <1>1, <2>1, <2>u, <2>6, <2>7, FrameStep, ThreadFacts DEF YeldLabels
  <2>14. PidInv'
    <3>1. kernel_pid \in Nat /\ kernel_pid # None /\ \A u \in Slots : pid[u] \in Int
      BY DEF Inv, TypeOK, PidsOrNone, None
    <3>2. \A u \in Slots : pid'[u] < kernel_pid'
      BY <2>1, <2>2, <2>7, <3>1 DEF Inv, PidInv
    <3>3. \A u \in Slots : pid'[u] = None <=> state'[u] = "Unused"
      BY <2>1, <2>7, <3>1 DEF Inv, PidInv
    <3>4. \A u, v \in Slots : pid'[u] # None /\ pid'[u] = pid'[v] => u = v
      BY <2>1, <2>7, <3>1 DEF Inv, PidInv
    <3> QED
      BY <3>2, <3>3, <3>4 DEF PidInv
  <2> QED
    BY <2>u, <2>8, <2>9, <2>10, <2>11, <2>12, <2>13, <2>14 DEF Inv
<1> QED
  BY <1>2, <1>3

\* The child of a fork in progress is another slot, and in use.
LEMMA ChildFacts ==
    ASSUME Inv, NEW s \in Slots, running = s, pc[s] \in {"fork_parent", "fork_run"}
    PROVE  /\ child[s] \in Slots \ {s}
           /\ state[child[s]] = "Used" /\ state[s] = "Running"
BY DEF Inv, StateInv, RunningState

\* kfork() unlocks the child and sets its parent.
LEMMA KforkParentKeeps ==
    ASSUME Inv, NEW s \in Slots, KforkParent(s)
    PROVE  Inv'
<1> USE DEF KforkParent, At, Goto
<1>1. child[s] \in Slots \ {s} /\ state[child[s]] = "Used" /\ state[s] = "Running"
  BY ChildFacts
<1>2. /\ \A u \in Slots : plock[u] <=> u = child[s]
      /\ klock /\ cpu.off_stack = 2 /\ ~cpu.sie /\ cpu.prev /\ cpu \in CpuState
  BY OnHartFacts DEF SelfLocked, KernelLocked, OffStack, SieOn, SieMaybe
<1>3. cpu' \in CpuState /\ cpu'.off_stack = 1 /\ ~cpu'.sie /\ cpu'.prev
  BY <1>2, PopFields
<1>4. /\ pc'[s] = "fork_run" /\ \A t \in Threads \ {s} : pc'[t] = pc[t]
      /\ \A u \in Slots : ~plock'[u]
  BY <1>2, ThreadFacts DEF Inv, TypeOK
<1>5. TypeOK'
  <2>1. parent' \in [Slots -> PidsOrNone] /\ plock' \in [Slots -> BOOLEAN]
    BY DEF Inv, TypeOK
  <2>2. pc' \in [Threads -> Labels]
    BY SteadyLabels DEF Inv, TypeOK
  <2> QED
    BY <1>3, <2>1, <2>2 DEF Inv, TypeOK, localVars
<1>6. StateInv'
  <2>1. \A u \in Slots \ {s} : ParkedState(u)'
    BY <1>4, ThreadFacts DEF Inv, StateInv, ParkedState
  <2>2. RunningState(s)'
    BY <1>1, <1>4 DEF RunningState
  <2> QED
    BY <1>1, <1>4, <2>1, <2>2, ThreadFacts DEF StateInv, localVars
<1>7. PidInv'
  BY PidStep
<1> QED
  BY <1>2, <1>3, <1>4, <1>5, <1>6, <1>7, GuardKeeps
  DEF OneGuard, KernelLocked, YeldLabels, localVars

\* kfork() makes the child Runnable and drops the kernel lock.
LEMMA KforkRunKeeps ==
    ASSUME Inv, NEW s \in Slots, KforkRun(s)
    PROVE  Inv'
<1> USE DEF KforkRun, At, Goto
<1>1. child[s] \in Slots \ {s} /\ state[child[s]] = "Used" /\ state[s] = "Running"
  BY ChildFacts
<1>2. /\ \A u \in Slots : ~plock[u]
      /\ klock /\ cpu.off_stack = 1 /\ ~cpu.sie /\ cpu.prev /\ cpu \in CpuState
  BY GuardFacts DEF OneGuard, KernelLocked
<1>3. /\ LockUnlock(cpu) \in CpuState /\ LockUnlock(cpu).off_stack = 1
      /\ ~LockUnlock(cpu).sie
  BY <1>2, LockUnlockFields
<1>4. cpu' \in CpuState /\ cpu'.off_stack = 0
  BY <1>3, PopFields
<1>5. /\ pc'[s] = "ret" /\ \A t \in Threads \ {s} : pc'[t] = pc[t]
      /\ state'[child[s]] = "Runnable"
      /\ \A u \in Slots \ {child[s]} : state'[u] = state[u]
  BY <1>1, ThreadFacts DEF Inv, TypeOK
<1>6. TypeOK'
  <2>1. state' \in [Slots -> ProcStates] /\ child' \in [Slots -> Slots \cup {None}]
    BY DEF Inv, TypeOK, ProcStates
  <2>2. pc' \in [Threads -> Labels]
    BY SteadyLabels DEF Inv, TypeOK, Steady
  <2> QED
    BY <1>4, <2>1, <2>2 DEF Inv, TypeOK
<1>7. ControlInv'
  BY <1>5, OnHartFacts, ControlStep, SteadyLabels, ThreadFacts DEF Steady
<1>8. StateInv'
  <2>1. \A u \in Slots \ {s} : ParkedState(u)'
    BY <1>1, <1>5, ThreadFacts DEF Inv, StateInv, ParkedState
  <2>2. RunningState(s)'
    BY <1>1, <1>5 DEF RunningState
  <2> QED
    BY <1>5, <2>1, <2>2, ThreadFacts DEF StateInv
<1>9. LockInv'
  BY <1>2, <1>4, <1>5, LockStep
  DEF SelfLocked, KernelLocked, Guarded, FoundLocked, OneLock, OffStack, SieOn, SieMaybe
<1>10. SavedInv'
  BY <1>5, SavedStep, ThreadFacts DEF KernelLocked, Guarded
<1>11. FrameInv'
  BY <1>5, FrameStep, ThreadFacts DEF YeldLabels
<1>12. PidInv'
  BY <1>1, <1>5, PidStep
<1> QED
  BY <1>6, <1>7, <1>8, <1>9, <1>10, <1>11, <1>12 DEF Inv

\* kwait() frees a zombie, goes on to sleep, or returns -1.
LEMMA KwaitScanKeeps ==
    ASSUME Inv, NEW s \in Slots, KwaitScan(s)
    PROVE  Inv'
<1> DEFINE kids == Kids(pid[s])
           zombies == {u \in kids : state[u] = "Zombie"}
           z == FirstOf(zombies)
<1>1. running = s /\ pc[s] = "wait_scan"
  BY DEF KwaitScan, At
<1>2. /\ \A u \in Slots : ~plock[u]
      /\ klock /\ cpu.off_stack = 1 /\ ~cpu.sie /\ cpu.prev /\ cpu \in CpuState
      /\ state[s] = "Running"
  BY <1>1, GuardFacts DEF OneGuard, KernelLocked
<1>3. UNCHANGED <<kernel_pid, plock, saved_prev, found, child, current, running,
                  frames, panic>>
  BY DEF KwaitScan
<1>4. /\ PopInterruptOff(cpu) \in CpuState
      /\ PopInterruptOff(cpu).off_stack = 0 /\ PopInterruptOff(cpu).sie
  BY <1>2, PopFields
<1>5. CASE /\ zombies # {}
           /\ waited' = [waited EXCEPT ![s] = Report(z)]
           /\ Free(z)
           /\ DropKernelGuard
           /\ pc' = [pc EXCEPT ![z] = "none", ![s] = "wait_copy"]
  <2>1. z \in Slots /\ state[z] = "Zombie"
    <3>1. zombies \subseteq Slots
      BY DEF Kids
    <3>2. z \in zombies
      BY <1>5, <3>1, FirstOfIn
    <3> QED
      BY <3>1, <3>2
  <2> HIDE DEF z, zombies, kids
  <2>2. z # s
    BY <1>2, <2>1
  <2>3. cpu' \in CpuState /\ cpu'.off_stack = 0 /\ cpu'.sie /\ klock' = FALSE
    BY <1>4, <1>5 DEF DropKernelGuard
  <2>4. pc[z] = "exit_resume"
    BY <1>1, <2>1, <2>2 DEF Inv, StateInv, ParkedState
  <2>5. /\ pc'[s] = "wait_copy" /\ pc'[z] = "none"
        /\ \A t \in Threads \ {s, z} : pc'[t] = pc[t]
    BY <1>5, <2>1, <2>2, ThreadFacts DEF Inv, TypeOK
  <2>6. /\ state'[z] = "Unused" /\ \A u \in Slots \ {z} : state'[u] = state[u]
        /\ pid'[z] = None /\ \A u \in Slots \ {z} : pid'[u] = pid[u]
    BY <1>5, <2>1 DEF Free, Inv, TypeOK
  <2>7. TypeOK'
    <3>1. "wait_copy" \in Labels /\ "none" \in Labels /\ None \in PidsOrNone
      BY DEF Labels, WaitLabels, PidsOrNone
    <3>2. pc' \in [Threads -> Labels]
      BY <1>5, <3>1 DEF Inv, TypeOK
    <3>3. /\ pid' \in [Slots -> PidsOrNone] /\ parent' \in [Slots -> PidsOrNone]
          /\ sleep_channel' \in [Slots -> PidsOrNone]
      BY <1>5, <3>1 DEF Free, Inv, TypeOK
    <3>4. xstatus' \in [Slots -> Nat] /\ state' \in [Slots -> ProcStates]
      BY <1>5 DEF Free, Inv, TypeOK, ProcStates
    <3>5. waited' \in [Slots -> PidsOrNone \X Nat]
      BY <1>5, <2>1 DEF Report, Inv, TypeOK
    <3> QED
      BY <1>3, <2>3, <3>2, <3>3, <3>4, <3>5 DEF Inv, TypeOK
  <2>8. ControlInv'
    <3>1. pc'[s] \in OnHart /\ "none" \in ParkedLabels
      BY <2>5, SteadyLabels DEF ParkedLabels, Steady
    <3>2. \A u \in Slots \ {s} : pc[u] \in ParkedLabels
      BY <1>1 DEF Inv, ControlInv
    <3>3. pc'[Sched] = pc[Sched]
      BY <2>1, <2>5, ThreadFacts
    <3>4. \A u \in Slots \ {s} : pc'[u] \in ParkedLabels
      BY <2>5, <3>1, <3>2, ThreadFacts
    <3> QED
      BY <1>1, <1>3, <3>1, <3>3, <3>4, ControlStep
  <2>9. StateInv'
    <3>1. ASSUME NEW u \in Slots \ {s} PROVE ParkedState(u)'
      <4>1. CASE u = z
        BY <2>5, <2>6, <4>1 DEF ParkedState
      <4>2. CASE u # z
        <5>1. ParkedState(u) /\ state'[u] = state[u] /\ pc'[u] = pc[u]
              /\ running' = s /\ running = s
          BY <1>1, <1>3, <2>5, <2>6, <4>2, ThreadFacts DEF Inv, StateInv
        <5> QED
          BY <5>1, ThreadFacts DEF ParkedState
      <4> QED
        BY <4>1, <4>2
    <3>2. RunningState(s)'
      BY <1>2, <2>2, <2>5, <2>6 DEF RunningState
    <3> QED
      BY <1>1, <1>3, <2>5, <3>1, <3>2, ThreadFacts DEF StateInv
  <2>10. LockInv'
    BY <1>1, <1>2, <1>3, <2>3, <2>5, LockStep
    DEF SelfLocked, KernelLocked, Guarded, FoundLocked, OneLock, OffStack, SieOn,
        SieMaybe
  <2>11. SavedInv'
    BY <1>1, <1>3, <2>5, SavedStep, ThreadFacts DEF KernelLocked, Guarded
  <2>12. FrameInv'
    BY <1>1, <1>3, <2>1, <2>4, <2>5, FrameStep, ThreadFacts DEF YeldLabels
  <2>13. PidInv'
    <3>1. kernel_pid \in Nat /\ None < kernel_pid
      BY DEF Inv, TypeOK, None
    <3> QED
      BY <1>3, <2>1, <2>6, <3>1 DEF Inv, PidInv
  <2> QED
    BY <1>3, <2>7, <2>8, <2>9, <2>10, <2>11, <2>12, <2>13 DEF Inv
<1>6. CASE /\ KeepKernelGuard
           /\ pc' = [pc EXCEPT ![s] = "wait_sleep"]
           /\ UNCHANGED <<state, pid, parent, sleep_channel, xstatus, waited>>
  <2>1. UNCHANGED <<klock, cpu>>
    BY <1>6 DEF KeepKernelGuard
  <2>2. pc'[s] = "wait_sleep" /\ \A t \in Threads \ {s} : pc'[t] = pc[t]
    BY <1>6, ThreadFacts DEF Inv, TypeOK
  <2>3. TypeOK'
    <3>1. pc' \in [Threads -> Labels]
      BY <1>6, SteadyLabels DEF Inv, TypeOK, Steady
    <3> QED
      BY <1>3, <1>6, <2>1, <3>1 DEF Inv, TypeOK
  <2>4. StateInv' /\ PidInv'
    BY <1>1, <1>3, <1>6, MoveKeeps DEF Steady
  <2> QED
    BY <1>1, <1>2, <1>3, <2>1, <2>2, <2>3, <2>4, GuardKeeps
    DEF OneGuard, KernelLocked, YeldLabels
<1>7. CASE /\ klock' = FALSE
           /\ cpu' = LockUnlock(PopInterruptOff(cpu))
           /\ pc' = [pc EXCEPT ![s] = "ret"]
           /\ waited' = [waited EXCEPT ![s] = NoKids]
           /\ UNCHANGED <<state, pid, parent, sleep_channel, xstatus>>
  <2>1. cpu' \in CpuState /\ cpu'.off_stack = 0
    BY <1>4, <1>7, LockUnlockFields
  <2>2. pc'[s] = "ret" /\ \A t \in Threads \ {s} : pc'[t] = pc[t]
    BY <1>7, ThreadFacts DEF Inv, TypeOK
  <2>3. TypeOK'
    <3>1. pc' \in [Threads -> Labels]
      BY <1>7, SteadyLabels DEF Inv, TypeOK, Steady
    <3>2. waited' \in [Slots -> PidsOrNone \X Nat]
      BY <1>7 DEF Inv, TypeOK, NoKids, None, PidsOrNone
    <3> QED
      BY <1>3, <1>7, <2>1, <3>1, <3>2 DEF Inv, TypeOK
  <2>4. FrameInv'
    BY <1>1, <1>3, <2>2, FrameStep, ThreadFacts DEF YeldLabels
  <2> QED
    BY <1>1, <1>2, <1>3, <1>7, <2>1, <2>3, <2>4, OpenKeeps DEF Open
<1> QED
  BY <1>5, <1>6, <1>7 DEF KwaitScan, Goto

-----------------------------------------------------------------------------
(* The invariant is inductive.                                              *)

\* What main() leaves behind satisfies the invariant.
LEMMA InitInv == Init => Inv
<1> SUFFICES ASSUME Init PROVE Inv
  OBVIOUS
<1> USE ThreadFacts DEF Init
<1>0. 0 \in Slots
  BY NprocAssumption DEF Slots
<1>1. pc[Sched] = "loop" /\ \A s \in Slots : pc[s] = IF s = 0 THEN "forkret" ELSE "none"
  OBVIOUS
<1>2. TypeOK
  <2>1. pc \in [Threads -> Labels]
    <3>1. \A t \in Threads : pc[t] \in Labels
      BY <1>1 DEF Labels, SchedLabels
    <3> QED
      BY <3>1
  <2>2. frames \in [Threads -> Seq(Labels)]
    OBVIOUS
  <2>3. /\ state \in [Slots -> ProcStates] /\ pid \in [Slots -> PidsOrNone]
        /\ parent \in [Slots -> PidsOrNone] /\ sleep_channel \in [Slots -> PidsOrNone]
    BY DEF ProcStates, PidsOrNone
  <2>4. cpu \in CpuState
    BY DEF CpuState
  <2>5. waited \in [Slots -> PidsOrNone \X Nat]
    BY DEF PidsOrNone
  <2> QED
    BY <2>1, <2>2, <2>3, <2>4, <2>5 DEF TypeOK
<1>3. ControlInv
  BY <1>1 DEF ControlInv, SchedLabels, FoundLocked, ParkedLabels, ProcLabels, Labels
<1>4. StateInv
  BY <1>1 DEF StateInv, ParkedState
<1>5. LockInv
  <2>1. \A s \in Slots : ~Held(s)
    BY <1>1 DEF Held, FoundLocked
  <2> QED
    BY <1>1, <2>1 DEF LockInv, KernelLocked, OffStack, OneLock, SelfLocked, Guarded,
       FoundLocked, SieOn, SieMaybe
<1>6. SavedInv
  BY <1>1 DEF SavedInv
<1>7. FrameInv
  BY <1>1 DEF FrameInv
<1>8. PidInv
  BY DEF PidInv, None
<1>9. panic \notin KernelPanics
  BY DEF KernelPanics
<1> QED
  BY <1>2, <1>3, <1>4, <1>5, <1>6, <1>7, <1>8, <1>9 DEF Inv

\* Every step of the hart preserves the invariant.
LEMMA NextInv == Inv /\ [Next]_vars => Inv'
<1> SUFFICES ASSUME Inv, [Next]_vars PROVE Inv'
  OBVIOUS
<1>1. ASSUME NEW s \in Slots, UserSyscall(s) \/ UserTimer(s) \/ UserFault(s) PROVE Inv'
  BY <1>1, UserSyscallKeeps, UserTimerKeeps, UserFaultKeeps
<1>2. ASSUME NEW s \in Slots, SwitchStep(s) PROVE Inv'
  <2>1. CASE Switch(s)
    BY <2>1, SchedSwitchKeeps DEF Switch
  <2> QED
    BY <1>2, <2>1, ForkRetKeeps, YeldKeeps, YeldReturnKeeps DEF SwitchStep
<1>3. ASSUME NEW s \in Slots, CallStep(s) PROVE Inv'
  BY <1>3, OtherSyscallKeeps, PrepareReturnKeeps, KforkLockKeeps, KforkAllocKeeps,
     KforkParentKeeps, KforkRunKeeps, KexitGuardKeeps, KexitReparentKeeps,
     KexitWakeupKeeps, KexitZombieKeeps, KwaitLockKeeps, KwaitScanKeeps,
     KwaitCopyKeeps, KwaitSleepKeeps, KwaitWakeKeeps
  DEF CallStep
<1>4. ASSUME NEW s \in Slots, SchedPick(s) PROVE Inv'
  BY <1>4, SchedPickKeeps
<1>5. CASE SchedStep
  BY <1>5, SchedLoopKeeps, SchedLockKeeps, SchedDispatchKeeps, SchedAfterKeeps
  DEF SchedStep
<1>6. ASSUME NEW t \in Threads, KernelTrap(t) \/ KernelTrapReturn(t) PROVE Inv'
  BY <1>6, ThreadFacts, KernelTrapProcessKeeps, KernelTrapReturnProcessKeeps,
     KernelTrapSchedKeeps, KernelTrapReturnSchedKeeps
<1>7. CASE UNCHANGED vars
  <2>1. /\ UNCHANGED <<procVars, lockVars, localVars, cpu, current, running, pc, frames>>
        /\ UNCHANGED panic
    BY <1>7 DEF vars
  <2>2. TypeOK' /\ panic' \notin KernelPanics
    BY <2>1 DEF Inv, TypeOK, procVars, lockVars, localVars
  <2>3. ControlInv' /\ FrameInv' /\ SavedInv' /\ PidInv'
    BY <2>1 DEF Inv, ControlInv, FrameInv, SavedInv, PidInv, procVars, lockVars, localVars
  <2>4. StateInv'
    BY <2>1 DEF Inv, StateInv, ParkedState, RunningState, procVars, localVars
  <2>5. LockInv'
    BY <2>1 DEF Inv, LockInv, Held, lockVars, localVars
  <2> QED
    BY <2>2, <2>3, <2>4, <2>5 DEF Inv
<1> QED
  BY <1>1, <1>2, <1>3, <1>4, <1>5, <1>6, <1>7 DEF Next, PanicLoop

\* The invariant holds in every reachable state.
LEMMA Invariance == Spec => []Inv
BY InitInv, NextInv, PTL DEF Spec


-----------------------------------------------------------------------------
(* What the invariant says of the kernel.                                   *)

\* Type correctness of the process core, for every table size and any number
\* of forks.
THEOREM TypeCorrect == Spec => []TypeOK
<1>1. Inv => TypeOK
  BY DEF Inv
<1> QED
  BY <1>1, Invariance, PTL

\* The assertions of sched(), the panic after sched() in kexit() and the
\* empty-stack panic of pop_interrupt_off() never fire.
THEOREM AssertionsNeverFire == Spec => []KernelAssertionsHold
<1>1. Inv => KernelAssertionsHold
  BY DEF Inv, LockInv, OffStack, KernelAssertionsHold
<1> QED
  BY <1>1, Invariance, PTL

\* A trap is taken only while no IntMutex and no process lock is held.
THEOREM TrapsMeetNoLock == Spec => []InterruptsOnlyUnlocked
<1>1. ASSUME Inv, cpu.sie PROVE pc[running] \in SieOn \cup SieMaybe
  BY <1>1 DEF Inv, LockInv
<1>2. ASSUME Inv, cpu.sie PROVE cpu.off_stack = 0 /\ ~klock
  BY <1>1, <1>2 DEF Inv, LockInv, SieOn, SieMaybe, OffStack, OneLock, SelfLocked,
     KernelLocked, Guarded, FoundLocked
<1>3. ASSUME Inv, cpu.sie, NEW s \in Slots PROVE ~plock[s]
  <2>1. ~Held(s)
    BY <1>1, <1>3 DEF Held, SieOn, SieMaybe, SelfLocked, FoundLocked
  <2> QED
    BY <1>3, <2>1 DEF Inv, LockInv
<1>4. Inv => InterruptsOnlyUnlocked
  BY <1>2, <1>3 DEF InterruptsOnlyUnlocked
<1> QED
  BY <1>4, Invariance, PTL

\* interrupt_off_stack counts the guards that are alive.
THEOREM GuardsAreCounted == Spec => []LockAccounting
<1> DEFINE locked == {s \in Slots : plock[s]}
<1>1. ASSUME Inv PROVE LockAccounting
  <2>1. running \in Threads
    BY <1>1 DEF Inv, TypeOK
  <2>2. CASE pc[running] \in SelfLocked \cup FoundLocked \cup {"fork_parent"}
    <3>1. PICK h \in Slots : locked = {h}
      <4>1. CASE running \in Slots
        <5>1. pc[running] \in SelfLocked \cup {"fork_parent"}
          BY <1>1, <2>2, <4>1 DEF Inv, ControlInv, ProcLabels, SchedLabels, FoundLocked
        <5> DEFINE h == IF pc[running] = "fork_parent" THEN child[running] ELSE running
        <5>2. h \in Slots
          BY <1>1, <4>1 DEF Inv, StateInv
        <5>3. \A s \in Slots : Held(s) <=> s = h
          BY <4>1, <5>1, ThreadFacts DEF Held, SelfLocked
        <5>4. \A s \in Slots : plock[s] <=> s = h
          BY <1>1, <5>3 DEF Inv, LockInv
        <5> QED
          BY <5>2, <5>4
      <4>2. CASE running = Sched
        <5>1. pc[Sched] \in FoundLocked
          BY <1>1, <2>2, <4>2
          DEF Inv, ControlInv, SchedLabels, SelfLocked, FoundLocked
        <5>2. found \in Slots
          BY <1>1, <4>2, <5>1 DEF Inv, ControlInv
        <5>3. \A s \in Slots : Held(s) <=> s = found
          BY <4>2, <5>1, ThreadFacts DEF Held
        <5>4. \A s \in Slots : plock[s] <=> s = found
          BY <1>1, <5>3 DEF Inv, LockInv
        <5> QED
          BY <5>2, <5>4
      <4> QED
        BY <2>1, <4>1, <4>2, ThreadFacts
    <3>2. Cardinality(locked) = 1
      BY <3>1, FS_Singleton
    <3> QED
      BY <1>1, <2>2, <3>2 DEF LockAccounting, Inv, LockInv, OffStack, OneLock, SelfLocked,
         KernelLocked, Guarded, FoundLocked
  <2>3. CASE pc[running] \notin SelfLocked \cup FoundLocked \cup {"fork_parent"}
    <3>1. \A s \in Slots : ~Held(s)
      BY <2>3 DEF Held
    <3>2. locked = {}
      BY <1>1, <3>1 DEF Inv, LockInv
    <3>3. Cardinality(locked) = 0
      BY <3>2, FS_EmptySet
    <3>4. running = Sched => pc[running] \notin Guarded
      BY <1>1 DEF Inv, ControlInv, SchedLabels, Guarded
    <3> QED
      BY <1>1, <2>1, <2>3, <3>3, <3>4, ThreadFacts
      DEF LockAccounting, Inv, LockInv, OffStack, OneLock, KernelLocked, Guarded
  <2> QED
    BY <2>2, <2>3
<1> QED
  BY <1>1, Invariance, PTL

\* At most one kernelvec frame per kernel stack.
THEOREM OneTrapFrame == Spec => []TrapsDoNotNest
<1>1. ASSUME Inv, NEW t \in Threads PROVE Len(frames[t]) <= 1
  <2>1. frames[t] = <<>> \/ \E l \in Labels : frames[t] = <<l>>
    BY <1>1, ThreadFacts
    DEF Inv, FrameInv, CallLabels, Labels, ForkLabels, ExitLabels, WaitLabels, SchedLabels
  <2>2. Len(<<>>) = 0 /\ \A l \in Labels : Len(<<l>>) = 1
    OBVIOUS
  <2>3. \A n : n = 0 \/ n = 1 => n <= 1
    OBVIOUS
  <2>4. Len(frames[t]) = 0 \/ Len(frames[t]) = 1
    BY <2>1, <2>2, Zenon
  <2> QED
    BY <2>3, <2>4, Zenon
<1>2. Inv => TrapsDoNotNest
  BY <1>1 DEF TrapsDoNotNest
<1> QED
  BY <1>2, Invariance, PTL

\* Whatever ran in between, a system call gets its interrupts back.
THEOREM InterruptsComeBack == Spec => []InterruptsRestored
<1>1. Inv => InterruptsRestored
  BY DEF Inv, LockInv, SieOn, SyscallLabels, InterruptsRestored
<1> QED
  BY <1>1, Invariance, PTL

\* CPU.current is exactly the process on the hart.
THEOREM CurrentIsOnHart == Spec => []CurrentIsRunning
<1>1. ASSUME Inv PROVE running \in Slots => current = running
  BY <1>1 DEF Inv, ControlInv
<1>2. ASSUME Inv, running = Sched, cpu.sie PROVE current = None
  BY <1>2 DEF Inv, ControlInv, LockInv, SieOn, SieMaybe
<1>3. ASSUME Inv, NEW s \in Slots, state[s] = "Running"
      PROVE  s = current \/ s = found
  BY <1>1, <1>3 DEF Inv, StateInv, ParkedState
<1>4. Inv => CurrentIsRunning
  BY <1>1, <1>2, <1>3 DEF CurrentIsRunning
<1> QED
  BY <1>4, Invariance, PTL

-----------------------------------------------------------------------------
(* Fork, exit and wait.                                                     *)

\* Labels at which a call is half done as far as the family is concerned.
\* The process stays on the hart from the first of them to the last.
Critical == Guarded \cup {"fork_parent", "fork_run", "wait_sleep"}

\* The slot that a kfork() is filling.
Forking(s) == /\ running \in Slots /\ pc[running] \in {"fork_parent", "fork_run"}
              /\ s = child[running]

\* init stays in slot 0 for ever.
RootInv ==
    /\ pid[0] = 0 /\ parent[0] = None
    /\ state[0] \notin {"Unused", "Used", "Zombie"}
    /\ pc[0] \notin Guarded

\* Parents are older than their children and have not started to end.
TreeInv ==
    /\ \A s \in Slots : state[s] = "Used" => Forking(s)
    /\ \A s \in Slots : parent[s] = None <=> s = 0 \/ state[s] = "Unused" \/ Newborn(s)
    /\ \A s \in Slots : parent[s] # None => parent[s] < pid[s]
    /\ \A s \in Slots : Newborn(s) => pid[running] < pid[s]
    /\ \A s \in Slots : parent[s] # None =>
          \E u \in Slots : pid[u] = parent[s] /\ state[u] # "Unused" /\ ~Ending(u)

\* Process s has a child and no child that it could reap.
MustSleep(s) == Kids(pid[s]) # {} /\ \A u \in Kids(pid[s]) : state[u] # "Zombie"

\* A process sleeps on its own pid, and decided to while that was right.  The
\* parent of a process about to become a zombie is awake.
SleepInv ==
    /\ \A s \in Slots : state[s] = "Sleeping" => sleep_channel[s] = pid[s] /\ MustSleep(s)
    /\ \A s \in Slots : pc[s] = "wait_sleep" => MustSleep(s)
    /\ \A s, u \in Slots :
          pc[s] = "exit_zombie" /\ pid[u] = parent[s] => state[u] # "Sleeping"

\* A zombie keeps its own status, and wait passes it on with its pid.
StatusInv ==
    /\ \A s \in Slots : state[s] = "Zombie" => xstatus[s] = ExitStatusOf(pid[s])
    /\ ExitStatusDelivered

FamilyInv == RootInv /\ TreeInv /\ SleepInv /\ StatusInv

-----------------------------------------------------------------------------
(* Most steps move a thread from label to label and leave the family alone. *)

\* A step after which the family is what it was.
Calm ==
    /\ UNCHANGED <<pid, parent, xstatus, kernel_pid>>
    /\ \A s \in Slots : pc[s] \notin Critical /\ pc'[s] \notin Critical
    /\ \A s \in Slots : \/ state'[s] = state[s]
                        \/ {state[s], state'[s]} \subseteq {"Runnable", "Running"}
    /\ \A s \in Slots : state'[s] = "Sleeping" => sleep_channel'[s] = sleep_channel[s]

\* ... and which gives no answer to a process either.
Quiet == Calm /\ UNCHANGED waited

\* Only the thread on the hart can be at a critical label.
LEMMA CalmLabels ==
    ASSUME Inv, pc[running] \notin Critical, NEW l, l \notin Critical,
           pc' = [pc EXCEPT ![running] = l]
    PROVE  \A s \in Slots : pc[s] \notin Critical /\ pc'[s] \notin Critical
<1>1. \A s \in Slots : s # running => pc[s] \notin Critical
  BY DEF Inv, ControlInv, ParkedLabels, Critical, Guarded
<1>2. \A s \in Slots : pc'[s] = pc[s] \/ pc'[s] = l
  BY ThreadFacts DEF Inv, TypeOK
<1> QED
  BY <1>1, <1>2, ThreadFacts DEF Inv, TypeOK

\* A thread moves on and nothing of the table changes.
LEMMA CalmMove ==
    ASSUME Inv, pc[running] \notin Critical, NEW l, l \notin Critical,
           pc' = [pc EXCEPT ![running] = l],
           UNCHANGED procVars
    PROVE  Calm
<1>1. UNCHANGED <<state, pid, parent, sleep_channel, xstatus, kernel_pid>>
  BY DEF procVars
<1> QED
  BY <1>1, CalmLabels DEF Calm

\* The kernel stays where it is.
LEMMA CalmStay ==
    ASSUME Inv, pc[running] \notin Critical, UNCHANGED <<pc, procVars>>
    PROVE  Calm
<1>1. UNCHANGED <<state, pid, parent, sleep_channel, xstatus, kernel_pid>>
  BY DEF procVars
<1>2. \A s \in Slots : s # running => pc[s] \notin Critical
  BY DEF Inv, ControlInv, ParkedLabels, Critical, Guarded
<1> QED
  BY <1>1, <1>2 DEF Calm

\* A system call starts.
LEMMA UserSyscallCalm ==
    ASSUME Inv, NEW s \in Slots, UserSyscall(s)
    PROVE  Calm
<1>1. PICK l \in SyscallLabels : pc' = [pc EXCEPT ![s] = l]
  BY DEF UserSyscall, Goto
<1>2. l \notin Critical /\ "user" \notin Critical
  BY DEF SyscallLabels, Critical, Guarded
<1> QED
  BY <1>1, <1>2, CalmMove DEF UserSyscall, At

\* Other traps from user mode, and the other system calls.
LEMMA UserQuiet ==
    ASSUME Inv, NEW s \in Slots,
           UserTimer(s) \/ UserFault(s) \/ PrepareReturn(s) \/ ForkRet(s) \/ OtherSyscall(s)
    PROVE  Quiet
<1> USE DEF Critical, Guarded, Quiet, localVars
<1>2. CASE UserTimer(s)
  BY <1>2, CalmMove DEF UserTimer, At, Goto
<1>3. CASE UserFault(s)
  BY <1>3, CalmMove DEF UserFault, At, Panic, Goto
<1>4. CASE PrepareReturn(s)
  BY <1>4, CalmMove DEF PrepareReturn, At, Goto
<1>5. CASE ForkRet(s)
  BY <1>5, CalmMove DEF ForkRet, At, Goto
<1>6. CASE OtherSyscall(s)
  BY <1>6, CalmMove DEF OtherSyscall, At, Panic, Goto
<1> QED
  BY <1>2, <1>3, <1>4, <1>5, <1>6

\* Traps from kernel mode.
LEMMA KernelTrapQuiet ==
    ASSUME Inv, NEW t \in Threads, KernelTrap(t) \/ KernelTrapReturn(t)
    PROVE  Quiet
<1>1. CASE KernelTrap(t)
  <2>1. pc[t] \in SieOn \cup SieMaybe
    BY <1>1 DEF KernelTrap, Inv, LockInv
  <2>2. pc[t] \notin Critical
    BY <2>1 DEF SieOn, SieMaybe, Critical, Guarded
  <2> DEFINE l == IF current = None THEN "ktret" ELSE "yeld"
  <2>3. l \notin Critical
    BY DEF Critical, Guarded
  <2> QED
    BY <1>1, <2>2, <2>3, CalmMove DEF KernelTrap, Goto, Quiet, localVars
<1>2. CASE KernelTrapReturn(t)
  <2>1. running = t /\ pc[t] = "ktret"
    BY <1>2 DEF KernelTrapReturn, At
  <2>2. \E l \in CallLabels \cup {"loop", "window"} : frames[t] = <<l>>
    BY <2>1, ThreadFacts DEF Inv, FrameInv
  <2>3. PICK l \in CallLabels \cup {"loop", "window"} : Head(frames[t]) = l
    BY <2>2
  <2>4. l \notin Critical /\ "ktret" \notin Critical
    BY DEF CallLabels, Critical, Guarded
  <2> QED
    BY <1>2, <2>1, <2>3, <2>4, CalmMove DEF KernelTrapReturn, Goto, Quiet, localVars
<1> QED
  BY <1>1, <1>2

\* yeld() and sched().
LEMMA SwitchQuiet ==
    ASSUME Inv, NEW s \in Slots, Yeld(s) \/ Switch(s) \/ YeldReturn(s)
    PROVE  Quiet
<1> USE DEF Critical, Guarded, Quiet, localVars
<1>1. CASE Yeld(s)
  <2>1. running = s /\ pc[s] = "yeld"
    BY <1>1 DEF Yeld, At
  <2>2. state[s] = "Running"
    BY <2>1 DEF Inv, StateInv, RunningState
  <2>3. \A u \in Slots : pc[u] \notin Critical /\ pc'[u] \notin Critical
    BY <1>1, <2>1, CalmLabels DEF Yeld, Goto
  <2>4. state' = [state EXCEPT ![s] = "Runnable"]
        /\ UNCHANGED <<pid, parent, sleep_channel, xstatus, kernel_pid, waited>>
    BY <1>1 DEF Yeld
  <2> QED
    BY <2>2, <2>3, <2>4 DEF Calm, Inv, TypeOK
<1>2. ASSUME NEW from, NEW to, SchedSwitch(s, from, to),
             from \notin Critical, to \notin Critical
      PROVE  Quiet
  BY <1>2, CalmMove, CalmStay DEF SchedSwitch, At, Goto
<1>3. CASE Switch(s)
  BY <1>2, <1>3 DEF Switch
<1>4. CASE YeldReturn(s)
  <2> DEFINE l == IF frames[s] # <<>> THEN "ktret" ELSE "ret"
  <2>1. l \notin Critical
    OBVIOUS
  <2> QED
    BY <1>4, <2>1, CalmMove DEF YeldReturn, At, Goto
<1> QED
  BY <1>1, <1>3, <1>4

\* The scheduler's loop.
LEMMA SchedQuiet ==
    ASSUME Inv, SchedStep \/ \E s \in Slots : SchedPick(s)
    PROVE  Quiet
<1> USE DEF Critical, Guarded, Quiet, localVars
<1>1. CASE SchedLoop
  BY <1>1, CalmMove DEF SchedLoop, At, Goto
<1>2. CASE SchedLock
  BY <1>2, CalmMove DEF SchedLock, At, Goto
<1>3. CASE SchedDispatch
  <2>1. running = Sched /\ pc[Sched] = "dispatch" /\ UNCHANGED <<procVars, waited>>
        /\ pc' = [pc EXCEPT ![Sched] = "after"]
    BY <1>3 DEF SchedDispatch, At, Goto
  <2> QED
    BY <2>1, CalmMove
<1>4. CASE SchedAfter
  BY <1>4, CalmMove DEF SchedAfter, At, Goto
<1>5. ASSUME NEW s \in Slots, SchedPick(s) PROVE Quiet
  <2>1. running = Sched /\ pc[Sched] = "pick" /\ state[s] = "Runnable"
    BY <1>5 DEF SchedPick, At, Eligible
  <2>2. \A u \in Slots : pc[u] \notin Critical /\ pc'[u] \notin Critical
    BY <1>5, <2>1, CalmLabels DEF SchedPick, Goto
  <2>3. state' = [state EXCEPT ![s] = "Running"]
        /\ UNCHANGED <<pid, parent, sleep_channel, xstatus, kernel_pid, waited>>
    BY <1>5 DEF SchedPick
  <2> QED
    BY <2>1, <2>2, <2>3 DEF Calm, Inv, TypeOK
<1> QED
  BY <1>1, <1>2, <1>3, <1>4, <1>5 DEF SchedStep

\* The locks of kfork() and kwait(), and the end of kwait().
LEMMA CallQuiet ==
    ASSUME Inv, NEW s \in Slots,
           KforkLock(s) \/ KwaitLock(s) \/ KwaitCopy(s) \/ KwaitWake(s)
    PROVE  Quiet
<1> USE DEF Critical, Guarded, Quiet, localVars
<1>1. CASE KforkLock(s)
  BY <1>1, CalmMove DEF KforkLock, At, Goto
<1>2. CASE KwaitLock(s)
  BY <1>2, CalmMove DEF KwaitLock, At, Goto
<1>3. CASE KwaitCopy(s)
  BY <1>3, CalmMove DEF KwaitCopy, At, Panic, Goto
<1>4. CASE KwaitWake(s)
  <2>1. running = s /\ pc[s] = "wait_resume"
    BY <1>4 DEF KwaitWake, At
  <2>2. state[s] = "Running"
    BY <2>1 DEF Inv, StateInv, RunningState
  <2>3. \A u \in Slots : pc[u] \notin Critical /\ pc'[u] \notin Critical
    BY <1>4, <2>1, CalmLabels DEF KwaitWake, Goto
  <2>4. sleep_channel' = [sleep_channel EXCEPT ![s] = None]
        /\ UNCHANGED <<state, pid, parent, xstatus, kernel_pid, waited>>
    BY <1>4 DEF KwaitWake
  <2> QED
    BY <2>2, <2>3, <2>4 DEF Calm, Inv, TypeOK
<1> QED
  BY <1>1, <1>2, <1>3, <1>4

-----------------------------------------------------------------------------
(* The family survives every step.  Inv' is available: KernelProofs shows   *)
(* it first.                                                                *)

\* A slot that is not on the hart is at no critical label.
LEMMA ParkedNotCritical ==
    ASSUME Inv, NEW u \in Slots, u # running
    PROVE  pc[u] \notin Critical /\ pc[u] \notin Guarded
BY DEF Inv, ControlInv, ParkedLabels, Critical, Guarded

\* Slot 0 is a slot.
LEMMA ZeroIsSlot == 0 \in Slots
BY NprocAssumption DEF Slots

\* A calm step keeps the family; the answers of wait are a matter of their own.
LEMMA CalmKeeps ==
    ASSUME Inv, FamilyInv, Calm, ExitStatusDelivered'
    PROVE  FamilyInv'
<1>1. UNCHANGED <<pid, parent, xstatus>>
  BY DEF Calm
<1>2. \A s \in Slots : /\ state'[s] = "Unused" <=> state[s] = "Unused"
                       /\ state'[s] = "Used" <=> state[s] = "Used"
                       /\ state'[s] = "Zombie" <=> state[s] = "Zombie"
                       /\ state'[s] = "Sleeping" <=> state[s] = "Sleeping"
                       /\ state'[s] = "Sleeping" => sleep_channel'[s] = sleep_channel[s]
  BY DEF Calm
<1>3. \A s \in Slots : pc[s] \notin Critical /\ pc'[s] \notin Critical
  BY DEF Calm
<1>4. \A s \in Slots : ~Newborn(s) /\ ~Newborn(s)' /\ ~Forking(s) /\ ~Forking(s)'
  BY <1>3 DEF Newborn, Forking, Critical
<1>5. \A s \in Slots : Ending(s)' <=> Ending(s)
  BY <1>2, <1>3 DEF Ending, Critical, Guarded
<1>6. RootInv'
  BY <1>1, <1>2, <1>3, ZeroIsSlot DEF FamilyInv, RootInv, Critical
<1>7. TreeInv'
  BY <1>1, <1>2, <1>4, <1>5 DEF FamilyInv, TreeInv
<1>8. \A s \in Slots : MustSleep(s)' <=> MustSleep(s)
  BY <1>1, <1>2 DEF MustSleep, Kids
<1>9. SleepInv'
  BY <1>1, <1>2, <1>3, <1>8 DEF FamilyInv, SleepInv, Critical, Guarded
<1>10. StatusInv'
  BY <1>1, <1>2 DEF FamilyInv, StatusInv
<1> QED
  BY <1>6, <1>7, <1>9, <1>10 DEF FamilyInv

\* The answers stay what they are.
LEMMA AnswersKept ==
    ASSUME FamilyInv, UNCHANGED waited
    PROVE  ExitStatusDelivered'
BY DEF FamilyInv, StatusInv, ExitStatusDelivered, ExitStatusOf

\* A wait that gives no pid is no matter.
LEMMA AnswersReset ==
    ASSUME Inv, FamilyInv, NEW s \in Slots, NEW n, waited' = [waited EXCEPT ![s] = <<None, n>>]
    PROVE  ExitStatusDelivered'
<1>1. waited'[s][1] = None /\ \A u \in Slots \ {s} : waited'[u] = waited[u]
  BY DEF Inv, TypeOK
<1> QED
  BY <1>1 DEF FamilyInv, StatusInv, ExitStatusDelivered, ExitStatusOf

\* What the invariants say of the process s on the hart.
LEMMA SelfIsAlive ==
    ASSUME Inv, NEW s \in Slots, running = s,
           pc[s] \notin {"yeld_sched", "wait_sched", "exit_sched"}
    PROVE  /\ state[s] = "Running"
           /\ pid[s] \in Nat /\ pid[s] # None /\ pid[s] < kernel_pid /\ kernel_pid \in Nat
           /\ \A u \in Slots : pid[u] = pid[s] => u = s
<1>1. state[s] = "Running"
  BY DEF Inv, StateInv, RunningState
<1> QED
  BY <1>1 DEF Inv, PidInv, TypeOK, PidsOrNone

\* kfork(): the child has a pid and no parent yet.
LEMMA KforkAllocFamily ==
    ASSUME Inv, FamilyInv, NEW s \in Slots, KforkAlloc(s)
    PROVE  FamilyInv'
<1> DEFINE unused == {u \in Slots : state[u] = "Unused"}
           c == FirstOf(unused)
<1>1. running = s /\ pc[s] = "fork_alloc" /\ UNCHANGED <<running, waited>>
  BY DEF KforkAlloc, At
<1>2. CASE unused = {}
  <2>1. pc' = [pc EXCEPT ![s] = "panic"] /\ UNCHANGED procVars
    BY <1>2 DEF KforkAlloc, Panic, Goto
  <2> QED
    BY <1>1, <2>1, CalmMove, CalmKeeps, AnswersKept DEF Critical, Guarded
<1>3. CASE unused # {}
  <2>1. c \in Slots /\ state[c] = "Unused"
    <3>1. c \in unused
      BY <1>3, FirstOfIn
    <3> QED
      BY <3>1
  <2>2. /\ pid' = [pid EXCEPT ![c] = kernel_pid]
        /\ state' = [state EXCEPT ![c] = "Used"]
        /\ child' = [child EXCEPT ![s] = c]
        /\ pc' = [pc EXCEPT ![s] = "fork_parent", ![c] = "forkret"]
        /\ UNCHANGED <<parent, sleep_channel, xstatus>>
    BY <1>3 DEF KforkAlloc
  <2> HIDE DEF c, unused
  <2>3. c # s /\ c # 0
    BY <1>1, <2>1, SelfIsAlive DEF FamilyInv, RootInv
  <2>4. /\ pid'[c] = kernel_pid /\ \A u \in Slots \ {c} : pid'[u] = pid[u]
        /\ state'[c] = "Used" /\ \A u \in Slots \ {c} : state'[u] = state[u]
        /\ child'[s] = c
        /\ pc'[s] = "fork_parent" /\ pc'[c] = "forkret"
        /\ \A u \in Slots \ {s, c} : pc'[u] = pc[u]
    BY <2>1, <2>2, <2>3, ThreadFacts DEF Inv, TypeOK
  <2>5. \A u \in Slots : u # s => pc[u] \notin Critical /\ pc'[u] \notin Critical
    BY <1>1, <2>4, ParkedNotCritical DEF Critical, Guarded
  <2>6. \A u \in Slots : Newborn(u)' <=> u = c
    BY <1>1, <2>4 DEF Newborn
  <2>7. \A u \in Slots : ~Newborn(u) /\ ~Forking(u)
    BY <1>1 DEF Newborn, Forking
  <2>8. \A u \in Slots \ {c} : state[u] # "Unused" /\ ~Ending(u) => ~Ending(u)'
    BY <1>1, <2>4 DEF Ending
  <2>9. RootInv'
    BY <1>1, <2>1, <2>2, <2>3, <2>4, ZeroIsSlot, ThreadFacts DEF FamilyInv, RootInv, Guarded
  <2>10. TreeInv'
    <3>1. \A u \in Slots : state'[u] = "Used" => Forking(u)'
      BY <1>1, <2>4, <2>7 DEF FamilyInv, TreeInv, Forking
    <3>2. \A u \in Slots : parent'[u] = None <=> u = 0 \/ state'[u] = "Unused" \/ Newborn(u)'
      BY <2>1, <2>2, <2>4, <2>6, <2>7 DEF FamilyInv, TreeInv
    <3>3. \A u \in Slots : Newborn(u)' => pid'[running'] < pid'[u]
      BY <1>1, <2>3, <2>4, <2>6, SelfIsAlive
    <3>4. \A u \in Slots : parent'[u] # None => u # c
      BY <2>1, <2>2 DEF FamilyInv, TreeInv
    <3>5. \A u \in Slots : parent'[u] # None => parent'[u] < pid'[u]
      BY <2>2, <2>4, <3>4 DEF FamilyInv, TreeInv
    <3>6. ASSUME NEW u \in Slots, parent'[u] # None
          PROVE  \E w \in Slots : pid'[w] = parent'[u] /\ state'[w] # "Unused" /\ ~Ending(w)'
      <4>1. PICK w \in Slots : pid[w] = parent[u] /\ state[w] # "Unused" /\ ~Ending(w)
        BY <2>2, <3>6 DEF FamilyInv, TreeInv
      <4> QED
        BY <2>1, <2>2, <2>4, <2>8, <4>1
    <3> QED
      BY <3>1, <3>2, <3>3, <3>5, <3>6 DEF TreeInv
  <2>11. SleepInv'
    <3>1. \A u \in Slots \ {c} : MustSleep(u) => MustSleep(u)'
      BY <2>2, <2>4 DEF MustSleep, Kids
    <3> QED
      BY <2>2, <2>4, <2>5, <3>1 DEF FamilyInv, SleepInv, Critical, Guarded
  <2>12. StatusInv'
    BY <1>1, <2>2, <2>4, AnswersKept DEF FamilyInv, StatusInv, ExitStatusOf
  <2> QED
    BY <2>9, <2>10, <2>11, <2>12 DEF FamilyInv
<1> QED
  BY <1>2, <1>3

\* kfork(): the child gets its parent.
LEMMA KforkParentFamily ==
    ASSUME Inv, FamilyInv, NEW s \in Slots, KforkParent(s)
    PROVE  FamilyInv'
<1> DEFINE c == child[s]
<1>1. running = s /\ pc[s] = "fork_parent"
      /\ UNCHANGED <<running, waited, state, pid, sleep_channel, xstatus, child>>
  BY DEF KforkParent, At, localVars
<1>2. c \in Slots /\ state[c] = "Used"
  BY <1>1 DEF Inv, StateInv
<1>3. parent' = [parent EXCEPT ![c] = pid[s]] /\ pc' = [pc EXCEPT ![s] = "fork_run"]
  BY DEF KforkParent, Goto
<1>4. /\ parent'[c] = pid[s] /\ \A u \in Slots \ {c} : parent'[u] = parent[u]
      /\ pc'[s] = "fork_run" /\ \A u \in Slots \ {s} : pc'[u] = pc[u]
  BY <1>2, <1>3, ThreadFacts DEF Inv, TypeOK
<1>5. c # s /\ c # 0
  BY <1>1, <1>2, SelfIsAlive DEF FamilyInv, RootInv
<1>6. \A u \in Slots : Newborn(u) <=> u = c
  BY <1>1 DEF Newborn
<1>7. \A u \in Slots : ~Newborn(u)' /\ (Forking(u)' <=> Forking(u))
  BY <1>1, <1>4 DEF Newborn, Forking
<1>8. \A u \in Slots : Ending(u)' <=> Ending(u)
  BY <1>1, <1>4 DEF Ending
<1> HIDE DEF c
<1>9. parent[c] = None
  BY <1>2, <1>6 DEF FamilyInv, TreeInv
<1>10. RootInv'
  BY <1>1, <1>4, <1>5, ZeroIsSlot DEF FamilyInv, RootInv, Guarded
<1>11. TreeInv'
  <2>1. \A u \in Slots : state'[u] = "Used" => Forking(u)'
    BY <1>1, <1>7 DEF FamilyInv, TreeInv
  <2>2. \A u \in Slots : parent'[u] = None <=> u = 0 \/ state'[u] = "Unused" \/ Newborn(u)'
    BY <1>1, <1>2, <1>4, <1>5, <1>6, <1>7, SelfIsAlive DEF FamilyInv, TreeInv
  <2>3. \A u \in Slots : parent'[u] # None => parent'[u] < pid'[u]
    BY <1>1, <1>2, <1>4, <1>6 DEF FamilyInv, TreeInv
  <2>4. ASSUME NEW u \in Slots, parent'[u] # None
        PROVE  \E w \in Slots : pid'[w] = parent'[u] /\ state'[w] # "Unused" /\ ~Ending(w)'
    <3>1. CASE u = c
      BY <1>1, <1>4, <1>8, <3>1, SelfIsAlive DEF Ending
    <3>2. CASE u # c
      BY <1>1, <1>4, <1>8, <2>4, <3>2 DEF FamilyInv, TreeInv
    <3> QED
      BY <3>1, <3>2
  <2> QED
    BY <1>7, <2>1, <2>2, <2>3, <2>4 DEF TreeInv
<1>12. SleepInv'
  <2>1. ASSUME NEW u \in Slots, state[u] = "Sleeping" PROVE MustSleep(u)'
    <3>1. pid[u] # pid[s] /\ pid[u] # None
      BY <1>1, <2>1, SelfIsAlive DEF Inv, PidInv
    <3>2. Kids(pid[u])' = Kids(pid[u])
      BY <1>1, <1>4, <1>9, <3>1 DEF Kids
    <3>3. MustSleep(u)
      BY <2>1 DEF FamilyInv, SleepInv
    <3> QED
      BY <1>1, <3>2, <3>3 DEF MustSleep
  <2> QED
    BY <1>1, <1>4, <2>1, ParkedNotCritical DEF FamilyInv, SleepInv, Critical, Guarded
<1>13. StatusInv'
  BY <1>1, AnswersKept DEF FamilyInv, StatusInv
<1> QED
  BY <1>10, <1>11, <1>12, <1>13 DEF FamilyInv

\* kfork(): the child becomes Runnable.
LEMMA KforkRunFamily ==
    ASSUME Inv, FamilyInv, NEW s \in Slots, KforkRun(s)
    PROVE  FamilyInv'
<1> DEFINE c == child[s]
<1>1. running = s /\ pc[s] = "fork_run"
      /\ UNCHANGED <<running, waited, pid, parent, sleep_channel, xstatus>>
  BY DEF KforkRun, At
<1>2. c \in Slots /\ state[c] = "Used"
  BY <1>1 DEF Inv, StateInv
<1>3. state' = [state EXCEPT ![c] = "Runnable"] /\ pc' = [pc EXCEPT ![s] = "ret"]
  BY DEF KforkRun, Goto
<1>4. /\ state'[c] = "Runnable" /\ \A u \in Slots \ {c} : state'[u] = state[u]
      /\ pc'[s] = "ret" /\ \A u \in Slots \ {s} : pc'[u] = pc[u]
  BY <1>2, <1>3, ThreadFacts DEF Inv, TypeOK
<1>5. \A u \in Slots : ~Newborn(u) /\ ~Newborn(u)' /\ (Forking(u) <=> u = c)
  BY <1>1, <1>4 DEF Newborn, Forking
<1>6. \A u \in Slots : Ending(u)' <=> Ending(u)
  BY <1>1, <1>2, <1>4 DEF Ending
<1> HIDE DEF c
<1>7. RootInv'
  BY <1>1, <1>2, <1>4, ZeroIsSlot DEF FamilyInv, RootInv, Guarded
<1>8. TreeInv'
  <2>1. \A u \in Slots : state'[u] # "Used"
    BY <1>4, <1>5 DEF FamilyInv, TreeInv
  <2>2. \A u \in Slots : state'[u] = "Unused" <=> state[u] = "Unused"
    BY <1>2, <1>4
  <2> QED
    BY <1>1, <1>5, <1>6, <2>1, <2>2 DEF FamilyInv, TreeInv
<1>9. SleepInv'
  <2>1. \A u \in Slots : MustSleep(u) => MustSleep(u)'
    BY <1>1, <1>4 DEF MustSleep, Kids
  <2> QED
    BY <1>1, <1>4, <2>1, ParkedNotCritical DEF FamilyInv, SleepInv, Critical, Guarded
<1>10. StatusInv'
  BY <1>1, <1>4, AnswersKept DEF FamilyInv, StatusInv
<1> QED
  BY <1>7, <1>8, <1>9, <1>10 DEF FamilyInv

\* kexit() starts; init does not get this far.
LEMMA KexitGuardFamily ==
    ASSUME Inv, FamilyInv, NEW s \in Slots, KexitGuard(s)
    PROVE  FamilyInv'
<1>1. running = s /\ pc[s] = "exit" /\ UNCHANGED <<procVars, running, waited, child>>
  BY DEF KexitGuard, At, localVars
<1>2. CASE pid[s] = 0
  <2>1. pc' = [pc EXCEPT ![s] = "panic"]
    BY <1>2 DEF KexitGuard, Panic, Goto
  <2> QED
    BY <1>1, <2>1, CalmMove, CalmKeeps, AnswersKept DEF Critical, Guarded
<1>3. CASE pid[s] # 0
  <2>1. UNCHANGED <<state, pid, parent, sleep_channel, xstatus, running, waited>>
    BY <1>1 DEF procVars
  <2>2. pc'[s] = "exit_reparent" /\ \A u \in Slots \ {s} : pc'[u] = pc[u]
    BY <1>3, ThreadFacts DEF KexitGuard, Goto, Inv, TypeOK
  <2>3. s # 0
    BY <1>3 DEF FamilyInv, RootInv
  <2>4. \A u \in Slots : ~Newborn(u) /\ ~Newborn(u)' /\ ~Forking(u) /\ ~Forking(u)'
    BY <1>1, <2>2 DEF Newborn, Forking
  <2>5. \A u \in Slots : Ending(u)' <=> Ending(u)
    BY <1>1, <2>1, <2>2 DEF Ending
  <2>6. RootInv'
    BY <2>1, <2>2, <2>3, ZeroIsSlot DEF FamilyInv, RootInv
  <2>7. TreeInv'
    BY <2>1, <2>4, <2>5 DEF FamilyInv, TreeInv
  <2>8. SleepInv'
    <3>1. \A u \in Slots : MustSleep(u)' <=> MustSleep(u)
      BY <2>1 DEF MustSleep, Kids
    <3> QED
      BY <1>1, <2>1, <2>2, <3>1 DEF FamilyInv, SleepInv
  <2>9. StatusInv'
    BY <2>1, AnswersKept DEF FamilyInv, StatusInv
  <2> QED
    BY <2>6, <2>7, <2>8, <2>9 DEF FamilyInv
<1> QED
  BY <1>2, <1>3

\* reparent(): the children of s go to init.
LEMMA KexitReparentFamily ==
    ASSUME Inv, FamilyInv, NEW s \in Slots, KexitReparent(s)
    PROVE  FamilyInv'
<1>1. running = s /\ pc[s] = "exit_reparent" /\ UNCHANGED <<running, waited, pid, sleep_channel, xstatus>>
  BY DEF KexitReparent, At, localVars
<1>2. /\ parent' = [u \in Slots |-> IF parent[u] = pid[s] THEN 0 ELSE parent[u]]
      /\ state' = IF Kids(pid[s]) # {} THEN Wakeup(state, 0) ELSE state
      /\ pc' = [pc EXCEPT ![s] = "exit_wakeup"]
  BY DEF KexitReparent, Reparent, Goto
<1>3. pc'[s] = "exit_wakeup" /\ \A u \in Slots \ {s} : pc'[u] = pc[u]
  BY <1>2, ThreadFacts DEF Inv, TypeOK
<1>4. \A u \in Slots : parent'[u] = IF parent[u] = pid[s] THEN 0 ELSE parent[u]
  BY <1>2
<1>5. \A u \in Slots : \/ state'[u] = state[u]
                       \/ state[u] = "Sleeping" /\ state'[u] = "Runnable"
  BY <1>2 DEF Wakeup
<1>6. s # 0 /\ pid[s] # 0 /\ pid[s] # None
  BY <1>1, SelfIsAlive, ZeroIsSlot DEF FamilyInv, RootInv, Guarded
<1>7. \A u \in Slots : ~Newborn(u) /\ ~Newborn(u)' /\ ~Forking(u) /\ ~Forking(u)'
  BY <1>1, <1>3 DEF Newborn, Forking
<1>8. \A u \in Slots \ {s} : Ending(u)' <=> Ending(u)
  BY <1>3, <1>5 DEF Ending
<1>9. RootInv'
  BY <1>1, <1>3, <1>4, <1>5, <1>6, ZeroIsSlot DEF FamilyInv, RootInv
<1>10. TreeInv'
  <2>1. \A u \in Slots : state'[u] # "Used"
    BY <1>5, <1>7 DEF FamilyInv, TreeInv
  <2>2. \A u \in Slots : parent'[u] = None <=> u = 0 \/ state'[u] = "Unused" \/ Newborn(u)'
    <3>1. \A u \in Slots : parent'[u] = None <=> parent[u] = None
      BY <1>4, <1>6 DEF None
    <3> QED
      BY <1>5, <1>7, <3>1 DEF FamilyInv, TreeInv
  <2>3. ASSUME NEW u \in Slots, parent'[u] # None PROVE parent'[u] < pid'[u]
    <3>1. CASE parent[u] = pid[s]
      <4>1. pid[s] < pid[u] /\ pid[s] \in Nat /\ pid[u] \in Int
        BY <1>1, <1>6, <3>1, SelfIsAlive DEF FamilyInv, TreeInv, Inv, TypeOK, PidsOrNone, None
      <4> QED
        BY <1>1, <1>4, <3>1, <4>1
    <3>2. CASE parent[u] # pid[s]
      BY <1>1, <1>4, <2>3, <3>2 DEF FamilyInv, TreeInv
    <3> QED
      BY <3>1, <3>2
  <2>4. ASSUME NEW u \in Slots, parent'[u] # None
        PROVE  \E w \in Slots : pid'[w] = parent'[u] /\ state'[w] # "Unused" /\ ~Ending(w)'
    <3>1. CASE parent[u] = pid[s]
      <4>1. state[0] # "Unused" /\ state[0] # "Zombie" /\ pid[0] = 0 /\ ~Ending(0)
        BY DEF FamilyInv, RootInv, Ending, Guarded
      <4> QED
        BY <1>1, <1>4, <1>5, <1>6, <1>8, <3>1, <4>1, ZeroIsSlot
    <3>2. CASE parent[u] # pid[s]
      <4>1. PICK w \in Slots : pid[w] = parent[u] /\ state[w] # "Unused" /\ ~Ending(w)
        BY <1>4, <2>4, <3>2 DEF FamilyInv, TreeInv
      <4>2. w # s
        BY <3>2, <4>1
      <4> QED
        BY <1>1, <1>4, <1>5, <1>8, <3>2, <4>1, <4>2
    <3> QED
      BY <3>1, <3>2
  <2> QED
    BY <1>7, <2>1, <2>2, <2>3, <2>4 DEF TreeInv
<1>11. SleepInv'
  <2>1. ASSUME NEW u \in Slots, state'[u] = "Sleeping"
        PROVE  sleep_channel'[u] = pid'[u] /\ MustSleep(u)'
    <3>1. state[u] = "Sleeping" /\ sleep_channel[u] = pid[u] /\ MustSleep(u)
      BY <1>5, <2>1 DEF FamilyInv, SleepInv
    <3>2. pid[u] # pid[s] /\ pid[u] # None
      BY <1>1, <3>1, SelfIsAlive DEF Inv, PidInv
    <3>3. Kids(pid[u])' = Kids(pid[u])
      <4>1. CASE pid[u] = 0
        <5>1. Kids(pid[s]) = {}
          BY <1>2, <2>1, <3>1, <4>1 DEF Wakeup
        <5> QED
          BY <1>1, <1>4, <5>1 DEF Kids
      <4>2. CASE pid[u] # 0
        BY <1>1, <1>4, <3>2, <4>2 DEF Kids
      <4> QED
        BY <4>1, <4>2
    <3> QED
      BY <1>1, <1>5, <3>1, <3>3 DEF MustSleep, Kids
  <2> QED
    BY <1>1, <1>3, <2>1, ParkedNotCritical DEF SleepInv, Critical, Guarded
<1>12. StatusInv'
  BY <1>1, <1>5, AnswersKept DEF FamilyInv, StatusInv
<1> QED
  BY <1>9, <1>10, <1>11, <1>12 DEF FamilyInv

\* wakeup(): the parent of s is awake from here on.
LEMMA KexitWakeupFamily ==
    ASSUME Inv, FamilyInv, NEW s \in Slots, KexitWakeup(s)
    PROVE  FamilyInv'
<1>1. running = s /\ pc[s] = "exit_wakeup"
      /\ UNCHANGED <<running, waited, pid, parent, sleep_channel, xstatus>>
  BY DEF KexitWakeup, At, localVars
<1>2. state' = Wakeup(state, parent[s]) /\ pc' = [pc EXCEPT ![s] = "exit_zombie"]
  BY DEF KexitWakeup, Goto
<1>3. pc'[s] = "exit_zombie" /\ \A u \in Slots \ {s} : pc'[u] = pc[u]
  BY <1>2, ThreadFacts DEF Inv, TypeOK
<1>4. \A u \in Slots : \/ state'[u] = state[u]
                       \/ state[u] = "Sleeping" /\ state'[u] = "Runnable"
  BY <1>2 DEF Wakeup
<1>5. \A u \in Slots : ~Newborn(u) /\ ~Newborn(u)' /\ ~Forking(u) /\ ~Forking(u)'
  BY <1>1, <1>3 DEF Newborn, Forking
<1>6. \A u \in Slots : Ending(u)' <=> Ending(u)
  BY <1>1, <1>3, <1>4 DEF Ending
<1>7. RootInv'
  BY <1>1, <1>3, <1>4, ZeroIsSlot DEF FamilyInv, RootInv, Guarded
<1>8. TreeInv'
  <2>1. \A u \in Slots : state'[u] # "Used" /\ (state'[u] = "Unused" <=> state[u] = "Unused")
    BY <1>4, <1>5 DEF FamilyInv, TreeInv
  <2> QED
    BY <1>1, <1>5, <1>6, <2>1 DEF FamilyInv, TreeInv
<1>9. SleepInv'
  <2>1. \A u \in Slots : MustSleep(u) => MustSleep(u)'
    BY <1>1, <1>4 DEF MustSleep, Kids
  <2>2. ASSUME NEW u \in Slots, pid[u] = parent[s] PROVE state'[u] # "Sleeping"
    BY <1>2, <1>4, <2>2 DEF Wakeup, FamilyInv, SleepInv
  <2>3. \A u \in Slots : u # s => pc'[u] \notin {"wait_sleep", "exit_zombie"}
    BY <1>1, <1>3, ParkedNotCritical DEF Critical, Guarded
  <2>4. \A u \in Slots : state'[u] = "Sleeping" => sleep_channel'[u] = pid'[u] /\ MustSleep(u)'
    BY <1>1, <1>4, <2>1 DEF FamilyInv, SleepInv
  <2> QED
    BY <1>1, <1>3, <2>2, <2>3, <2>4 DEF SleepInv
<1>10. StatusInv'
  BY <1>1, <1>4, AnswersKept DEF FamilyInv, StatusInv
<1> QED
  BY <1>7, <1>8, <1>9, <1>10 DEF FamilyInv

\* kexit() ends: the process is a zombie with its status.
LEMMA KexitZombieFamily ==
    ASSUME Inv, FamilyInv, NEW s \in Slots, KexitZombie(s)
    PROVE  FamilyInv'
<1>1. running = s /\ pc[s] = "exit_zombie"
      /\ UNCHANGED <<running, waited, pid, parent, sleep_channel>>
  BY DEF KexitZombie, At, localVars
<1>2. /\ state' = [state EXCEPT ![s] = "Zombie"] /\ pc' = [pc EXCEPT ![s] = "exit_sched"]
      /\ xstatus' = [xstatus EXCEPT ![s] = ExitStatusOf(pid[s])]
  BY DEF KexitZombie, Goto
<1>3. /\ pc'[s] = "exit_sched" /\ \A u \in Slots \ {s} : pc'[u] = pc[u]
      /\ state'[s] = "Zombie" /\ \A u \in Slots \ {s} : state'[u] = state[u]
      /\ xstatus'[s] = ExitStatusOf(pid[s]) /\ \A u \in Slots \ {s} : xstatus'[u] = xstatus[u]
  BY <1>2, ThreadFacts DEF Inv, TypeOK
<1>4. \A u \in Slots : ~Newborn(u) /\ ~Newborn(u)' /\ ~Forking(u) /\ ~Forking(u)'
  BY <1>1, <1>3 DEF Newborn, Forking
<1>5. \A u \in Slots : Ending(u)' <=> Ending(u)
  BY <1>1, <1>3 DEF Ending
<1>6. state[s] = "Running" /\ s # 0
  BY <1>1, SelfIsAlive DEF FamilyInv, RootInv, Guarded
<1>7. RootInv'
  BY <1>1, <1>3, <1>6, ZeroIsSlot DEF FamilyInv, RootInv, Guarded
<1>8. TreeInv'
  <2>1. \A u \in Slots : state'[u] # "Used" /\ (state'[u] = "Unused" <=> state[u] = "Unused")
    BY <1>3, <1>4, <1>6 DEF FamilyInv, TreeInv
  <2> QED
    BY <1>1, <1>4, <1>5, <2>1 DEF FamilyInv, TreeInv
<1>9. SleepInv'
  <2>1. ASSUME NEW u \in Slots, state'[u] = "Sleeping"
        PROVE  sleep_channel'[u] = pid'[u] /\ MustSleep(u)'
    <3>1. state[u] = "Sleeping" /\ sleep_channel[u] = pid[u] /\ MustSleep(u)
      BY <1>3, <2>1 DEF FamilyInv, SleepInv
    <3>2. parent[s] # pid[u]
      BY <1>1, <3>1 DEF FamilyInv, SleepInv
    <3> QED
      BY <1>1, <1>3, <3>1, <3>2 DEF MustSleep, Kids
  <2> QED
    BY <1>1, <1>3, <2>1, ParkedNotCritical DEF SleepInv, Critical, Guarded
<1>10. StatusInv'
  BY <1>1, <1>3, AnswersKept DEF FamilyInv, StatusInv
<1> QED
  BY <1>7, <1>8, <1>9, <1>10 DEF FamilyInv

\* kwait() frees the zombie z, and reports it.
LEMMA ReapFamily ==
    ASSUME Inv, FamilyInv, NEW s \in Slots, NEW z \in Slots,
           running = s, pc[s] = "wait_scan", UNCHANGED running,
           parent[z] = pid[s], state[z] = "Zombie",
           waited' = [waited EXCEPT ![s] = Report(z)],
           Free(z),
           pc' = [pc EXCEPT ![z] = "none", ![s] = "wait_copy"]
    PROVE  FamilyInv'
<1>1. state[s] = "Running" /\ pid[s] # None /\ z # s
  BY SelfIsAlive
<1>2. /\ pc'[s] = "wait_copy" /\ pc'[z] = "none"
      /\ \A u \in Slots \ {s, z} : pc'[u] = pc[u]
  BY <1>1, ThreadFacts DEF Inv, TypeOK
<1>3. /\ state'[z] = "Unused" /\ \A u \in Slots \ {z} : state'[u] = state[u]
      /\ pid'[z] = None /\ \A u \in Slots \ {z} : pid'[u] = pid[u]
      /\ parent'[z] = None /\ \A u \in Slots \ {z} : parent'[u] = parent[u]
      /\ \A u \in Slots \ {z} : sleep_channel'[u] = sleep_channel[u]
      /\ \A u \in Slots \ {z} : xstatus'[u] = xstatus[u]
  BY DEF Free, Inv, TypeOK
<1>4. z # 0
  BY DEF FamilyInv, RootInv
<1>5. \A u \in Slots : ~Newborn(u) /\ ~Newborn(u)' /\ ~Forking(u) /\ ~Forking(u)'
  BY <1>2 DEF Newborn, Forking
<1>6. Ending(z) /\ \A u \in Slots \ {z} : Ending(u)' <=> Ending(u)
  BY <1>2, <1>3 DEF Ending
<1>7. RootInv'
  BY <1>2, <1>3, <1>4, ZeroIsSlot DEF FamilyInv, RootInv, Guarded
<1>8. TreeInv'
  <2>1. \A u \in Slots : state'[u] # "Used"
    BY <1>3, <1>5 DEF FamilyInv, TreeInv
  <2>2. \A u \in Slots : parent'[u] = None <=> u = 0 \/ state'[u] = "Unused" \/ Newborn(u)'
    BY <1>3, <1>5 DEF FamilyInv, TreeInv
  <2>3. \A u \in Slots : parent'[u] # None => parent'[u] < pid'[u]
    BY <1>3 DEF FamilyInv, TreeInv
  <2>4. ASSUME NEW u \in Slots, parent'[u] # None
        PROVE  \E w \in Slots : pid'[w] = parent'[u] /\ state'[w] # "Unused" /\ ~Ending(w)'
    <3>1. u # z /\ parent'[u] = parent[u]
      BY <1>3, <2>4
    <3>2. PICK w \in Slots : pid[w] = parent[u] /\ state[w] # "Unused" /\ ~Ending(w)
      BY <2>4, <3>1 DEF FamilyInv, TreeInv
    <3> QED
      BY <1>3, <1>6, <3>1, <3>2
  <2> QED
    BY <1>5, <2>1, <2>2, <2>3, <2>4 DEF TreeInv
<1>9. SleepInv'
  <2>1. ASSUME NEW u \in Slots, state'[u] = "Sleeping"
        PROVE  sleep_channel'[u] = pid'[u] /\ MustSleep(u)'
    <3>1. u # z /\ state[u] = "Sleeping" /\ sleep_channel[u] = pid[u] /\ MustSleep(u)
      BY <1>3, <2>1 DEF FamilyInv, SleepInv
    <3>2. pid[u] # None /\ pid'[u] = pid[u] /\ parent[z] # pid[u]
      BY <1>3, <3>1 DEF Inv, PidInv, MustSleep, Kids
    <3> QED
      BY <1>3, <3>1, <3>2 DEF MustSleep, Kids
  <2> QED
    BY <1>2, <2>1, ParkedNotCritical DEF SleepInv, Critical, Guarded
<1>10. StatusInv'
  <2>1. waited'[s] = <<pid[z], xstatus[z]>> /\ \A u \in Slots \ {s} : waited'[u] = waited[u]
    BY DEF Report, Inv, TypeOK
  <2>2. waited'[s][1] = pid[z] /\ waited'[s][2] = ExitStatusOf(pid[z])
    BY <2>1 DEF FamilyInv, StatusInv
  <2> QED
    BY <1>3, <2>1, <2>2 DEF FamilyInv, StatusInv, ExitStatusDelivered, ExitStatusOf
<1> QED
  BY <1>7, <1>8, <1>9, <1>10 DEF FamilyInv

\* The scan of kwait() picks a child of its own that is a zombie.
LEMMA FirstZombie ==
    ASSUME NEW s \in Slots, {u \in Kids(pid[s]) : state[u] = "Zombie"} # {}
    PROVE  LET z == FirstOf({u \in Kids(pid[s]) : state[u] = "Zombie"})
           IN  z \in Slots /\ parent[z] = pid[s] /\ state[z] = "Zombie"
<1> DEFINE zombies == {u \in Kids(pid[s]) : state[u] = "Zombie"}
<1>1. zombies \subseteq Slots /\ \A u \in zombies : parent[u] = pid[s] /\ state[u] = "Zombie"
  BY DEF Kids
<1>2. FirstOf(zombies) \in zombies
  BY <1>1, FirstOfIn
<1> QED
  BY <1>1, <1>2

\* The scan of kwait().
LEMMA KwaitScanFamily ==
    ASSUME Inv, FamilyInv, NEW s \in Slots, KwaitScan(s)
    PROVE  FamilyInv'
<1> DEFINE kids == Kids(pid[s])
           zombies == {u \in kids : state[u] = "Zombie"}
           z == FirstOf(zombies)
<1>1. running = s /\ pc[s] = "wait_scan" /\ UNCHANGED <<running, child, kernel_pid>>
  BY DEF KwaitScan, At
<1>2. CASE /\ zombies # {}
           /\ waited' = [waited EXCEPT ![s] = Report(z)]
           /\ Free(z)
           /\ pc' = [pc EXCEPT ![z] = "none", ![s] = "wait_copy"]
  <2>1. z \in Slots /\ parent[z] = pid[s] /\ state[z] = "Zombie"
    BY <1>2, FirstZombie
  <2> HIDE DEF z, zombies, kids
  <2> QED
    BY <1>1, <1>2, <2>1, ReapFamily
<1>3. CASE /\ zombies = {} /\ kids # {}
           /\ pc' = [pc EXCEPT ![s] = "wait_sleep"]
           /\ UNCHANGED <<state, pid, parent, sleep_channel, xstatus, waited>>
  <2>1. pc'[s] = "wait_sleep" /\ \A u \in Slots \ {s} : pc'[u] = pc[u]
    BY <1>3, ThreadFacts DEF Inv, TypeOK
  <2>2. \A u \in Slots : ~Newborn(u) /\ ~Newborn(u)' /\ ~Forking(u) /\ ~Forking(u)'
    BY <1>1, <2>1 DEF Newborn, Forking
  <2>3. \A u \in Slots : Ending(u)' <=> Ending(u)
    BY <1>1, <1>3, <2>1 DEF Ending
  <2>4. RootInv'
    BY <1>3, <2>1, ZeroIsSlot DEF FamilyInv, RootInv, Guarded
  <2>5. TreeInv'
    BY <1>3, <2>2, <2>3 DEF FamilyInv, TreeInv
  <2>6. SleepInv'
    <3>1. \A u \in Slots : MustSleep(u)' <=> MustSleep(u)
      BY <1>3 DEF MustSleep, Kids
    <3>2. MustSleep(s)
      BY <1>3 DEF MustSleep
    <3> QED
      BY <1>1, <1>3, <2>1, <3>1, <3>2, ParkedNotCritical DEF FamilyInv, SleepInv, Critical, Guarded
  <2>7. StatusInv'
    BY <1>3, AnswersKept DEF FamilyInv, StatusInv
  <2> QED
    BY <2>4, <2>5, <2>6, <2>7 DEF FamilyInv
<1>4. CASE /\ waited' = [waited EXCEPT ![s] = NoKids]
           /\ pc' = [pc EXCEPT ![s] = "ret"]
           /\ UNCHANGED <<state, pid, parent, sleep_channel, xstatus>>
  <2>1. Calm
    BY <1>1, <1>4, CalmMove DEF Critical, Guarded, procVars
  <2> QED
    BY <1>4, <2>1, CalmKeeps, AnswersReset DEF NoKids
<1> QED
  BY <1>2, <1>3, <1>4 DEF KwaitScan, Goto

\* kwait() goes to sleep, by its own pid, for a reason that still holds.
LEMMA KwaitSleepFamily ==
    ASSUME Inv, FamilyInv, NEW s \in Slots, KwaitSleep(s)
    PROVE  FamilyInv'
<1>1. running = s /\ pc[s] = "wait_sleep"
      /\ UNCHANGED <<running, waited, pid, parent, xstatus, child>>
  BY DEF KwaitSleep, At, localVars
<1>2. FirstOf({u \in Slots : pid[u] = pid[s]}) = s
  <2>1. {u \in Slots : pid[u] = pid[s]} = {s}
    BY <1>1, SelfIsAlive
  <2> QED
    BY <2>1, FirstOfIn
<1>3. /\ state' = [state EXCEPT ![s] = "Sleeping"]
      /\ sleep_channel' = [sleep_channel EXCEPT ![s] = pid[s]]
      /\ pc' = [pc EXCEPT ![s] = "wait_sched"]
  BY <1>2 DEF KwaitSleep, Goto
<1>4. /\ pc'[s] = "wait_sched" /\ \A u \in Slots \ {s} : pc'[u] = pc[u]
      /\ state'[s] = "Sleeping" /\ \A u \in Slots \ {s} : state'[u] = state[u]
      /\ sleep_channel'[s] = pid[s]
      /\ \A u \in Slots \ {s} : sleep_channel'[u] = sleep_channel[u]
  BY <1>3, ThreadFacts DEF Inv, TypeOK
<1>5. state[s] = "Running"
  BY <1>1, SelfIsAlive
<1>6. \A u \in Slots : ~Newborn(u) /\ ~Newborn(u)' /\ ~Forking(u) /\ ~Forking(u)'
  BY <1>1, <1>4 DEF Newborn, Forking
<1>7. \A u \in Slots : Ending(u)' <=> Ending(u)
  BY <1>1, <1>4, <1>5 DEF Ending
<1>8. RootInv'
  BY <1>1, <1>4, ZeroIsSlot DEF FamilyInv, RootInv, Guarded
<1>9. TreeInv'
  <2>1. \A u \in Slots : state'[u] # "Used" /\ (state'[u] = "Unused" <=> state[u] = "Unused")
    BY <1>4, <1>5, <1>6 DEF FamilyInv, TreeInv
  <2> QED
    BY <1>1, <1>6, <1>7, <2>1 DEF FamilyInv, TreeInv
<1>10. SleepInv'
  <2>1. \A u \in Slots : MustSleep(u) => MustSleep(u)'
    BY <1>1, <1>4 DEF MustSleep, Kids
  <2>2. MustSleep(s)
    BY <1>1 DEF FamilyInv, SleepInv
  <2>3. \A u \in Slots : state'[u] = "Sleeping" => sleep_channel'[u] = pid'[u] /\ MustSleep(u)'
    BY <1>1, <1>4, <2>1, <2>2 DEF FamilyInv, SleepInv
  <2>4. \A u \in Slots : pc'[u] \notin {"wait_sleep", "exit_zombie"}
    BY <1>1, <1>4, ParkedNotCritical DEF Critical, Guarded
  <2> QED
    BY <2>3, <2>4 DEF SleepInv
<1>11. StatusInv'
  BY <1>1, <1>4, AnswersKept DEF FamilyInv, StatusInv
<1> QED
  BY <1>8, <1>9, <1>10, <1>11 DEF FamilyInv

-----------------------------------------------------------------------------
(* The family invariant is inductive relative to Inv.                       *)

\* Every step is one of the calls that change the family, the start of a
\* system call, or quiet.
LEMMA NextCases ==
    ASSUME Inv, Next
    PROVE  \/ Quiet
           \/ \E s \in Slots :
                \/ UserSyscall(s)
                \/ KforkAlloc(s) \/ KforkParent(s) \/ KforkRun(s)
                \/ KexitGuard(s) \/ KexitReparent(s) \/ KexitWakeup(s) \/ KexitZombie(s)
                \/ KwaitScan(s) \/ KwaitSleep(s)
           \/ UNCHANGED vars
<1>1. ASSUME NEW s \in Slots, UserTimer(s) \/ UserFault(s) PROVE Quiet
  BY <1>1, UserQuiet
<1>2. ASSUME NEW s \in Slots, SwitchStep(s) PROVE Quiet
  BY <1>2, UserQuiet, SwitchQuiet DEF SwitchStep
<1>3. ASSUME NEW s \in Slots, OtherSyscall(s) \/ PrepareReturn(s) PROVE Quiet
  BY <1>3, UserQuiet
<1>4. ASSUME NEW s \in Slots, KforkLock(s) \/ KwaitLock(s) \/ KwaitCopy(s) \/ KwaitWake(s)
      PROVE  Quiet
  BY <1>4, CallQuiet
<1>5. ASSUME SchedStep \/ \E s \in Slots : SchedPick(s) PROVE Quiet
  BY <1>5, SchedQuiet
<1>6. ASSUME NEW t \in Threads, KernelTrap(t) \/ KernelTrapReturn(t) PROVE Quiet
  BY <1>6, KernelTrapQuiet
<1> QED
  BY <1>1, <1>2, <1>3, <1>4, <1>5, <1>6 DEF Next, CallStep, PanicLoop

\* The family of main(): init alone.
LEMMA InitFamily == Init => FamilyInv
<1> SUFFICES ASSUME Init PROVE FamilyInv
  OBVIOUS
<1>1. pc[Sched] = "loop" /\ \A s \in Slots : pc[s] = IF s = 0 THEN "forkret" ELSE "none"
  BY ThreadFacts DEF Init
<1>2. \A s \in Slots : ~Newborn(s)
  BY ThreadFacts DEF Init, Newborn
<1>3. RootInv
  <2>1. pid[0] = 0 /\ parent[0] = None /\ state[0] = "Runnable" /\ pc[0] = "forkret"
    BY <1>1, ZeroIsSlot DEF Init
  <2> QED
    BY <2>1 DEF RootInv, Guarded
<1>4. TreeInv
  BY <1>2 DEF Init, TreeInv
<1>5. SleepInv
  BY <1>1 DEF Init, SleepInv
<1>6. StatusInv
  BY DEF Init, StatusInv, ExitStatusDelivered
<1> QED
  BY <1>3, <1>4, <1>5, <1>6 DEF FamilyInv

\* Every step preserves it.
LEMMA NextFamily == Inv /\ FamilyInv /\ [Next]_vars => FamilyInv'
<1> SUFFICES ASSUME Inv, FamilyInv, [Next]_vars PROVE FamilyInv'
  OBVIOUS
<1>1. CASE Quiet
  BY <1>1, CalmKeeps, AnswersKept DEF Quiet
<1>2. ASSUME NEW s \in Slots, UserSyscall(s) PROVE FamilyInv'
  <2>1. waited' = [waited EXCEPT ![s] = <<None, 0>>]
    BY <1>2 DEF UserSyscall
  <2> QED
    BY <1>2, <2>1, UserSyscallCalm, CalmKeeps, AnswersReset
<1>3. CASE UNCHANGED vars
  <2>1. UNCHANGED <<state, pid, parent, sleep_channel, xstatus, waited, pc, running, child>>
    BY <1>3 DEF vars, procVars, localVars
  <2>2. RootInv'
    BY <2>1 DEF FamilyInv, RootInv
  <2>3. TreeInv'
    BY <2>1 DEF FamilyInv, TreeInv, Newborn, Forking, Ending
  <2>4. SleepInv'
    BY <2>1 DEF FamilyInv, SleepInv, MustSleep, Kids
  <2>5. StatusInv'
    BY <2>1, AnswersKept DEF FamilyInv, StatusInv
  <2> QED
    BY <2>2, <2>3, <2>4, <2>5 DEF FamilyInv
<1> QED
  BY <1>1, <1>2, <1>3, NextCases, KforkAllocFamily, KforkParentFamily, KforkRunFamily,
     KexitGuardFamily, KexitReparentFamily, KexitWakeupFamily, KexitZombieFamily,
     KwaitScanFamily, KwaitSleepFamily

\* The family invariant holds in every reachable state.
LEMMA FamilyInvariance == Spec => [](Inv /\ FamilyInv)
<1>1. Inv /\ FamilyInv /\ [Next]_vars => (Inv /\ FamilyInv)'
  BY NextInv, NextFamily
<1>2. Init => Inv /\ FamilyInv
  BY InitInv, InitFamily
<1> QED
  BY <1>1, <1>2, PTL DEF Spec

-----------------------------------------------------------------------------
(* What the invariants say of fork, exit and wait.                          *)

\* Pids are unique, and every process but init has a parent that is still
\* able to wait for it: reparent() leaves no orphan, whatever runs between
\* the steps of kfork(), kexit() and kwait().
THEOREM EverybodyHasAParent == Spec => []FamilyTree
<1>1. ASSUME Inv, FamilyInv PROVE FamilyTree
  <2>1. \A s, u \in Slots : pid[s] # None /\ pid[s] = pid[u] => s = u
    BY <1>1 DEF Inv, PidInv
  <2>2. \A s \in Slots : parent[s] # None =>
           \E u \in Slots : pid[u] = parent[s] /\ state[u] \notin {"Unused", "Zombie"}
    BY <1>1 DEF FamilyInv, TreeInv, Ending
  <2>3. ASSUME NEW s \in Slots, state[s] \notin {"Unused", "Used"}, pid[s] # 0
        PROVE  parent[s] # None
    <3>1. ~Newborn(s)
      BY <1>1, <2>3 DEF Newborn, Inv, StateInv
    <3> QED
      BY <1>1, <2>3, <3>1 DEF FamilyInv, TreeInv, RootInv
  <2> QED
    BY <2>1, <2>2, <2>3 DEF FamilyTree
<1> QED
  BY <1>1, FamilyInvariance, PTL

\* A process asleep in kwait() has a child to wait for and no zombie that it
\* missed: the kernel lock from the scan to the sleep, and the wakeup of kexit()
\* before the state becomes Zombie, are enough.
THEOREM NoWakeupIsLost == Spec => []NoLostWakeup
<1>1. Inv /\ FamilyInv => NoLostWakeup
  BY DEF FamilyInv, SleepInv, MustSleep, NoLostWakeup
<1> QED
  BY <1>1, FamilyInvariance, PTL

\* wait() passes on the status that the very child exited with.
THEOREM StatusesArrive == Spec => []ExitStatusDelivered
<1>1. Inv /\ FamilyInv => ExitStatusDelivered
  BY DEF FamilyInv, StatusInv
<1> QED
  BY <1>1, FamilyInvariance, PTL

\* The scheduler always finds a process to run.  If nobody were Runnable, the
\* youngest sleeper would have a child, which is younger and no zombie, and so
\* asleep too.
THEOREM SomebodyCanRun == Spec => []SchedulerFindsWork
<1>1. ASSUME Inv, FamilyInv, running = Sched, pc[Sched] \in {"loop", "window", "pick"},
             \A s \in Slots : state[s] # "Runnable"
      PROVE  FALSE
  <2>1. \A s \in Slots : state[s] \in {"Unused", "Zombie", "Sleeping"}
    <3>1. \A s \in Slots : state[s] # "Used"
      BY <1>1, ThreadFacts DEF FamilyInv, TreeInv, Forking
    <3>2. \A s \in Slots : state[s] # "Running"
      BY <1>1, ThreadFacts DEF Inv, StateInv, ParkedState
    <3> QED
      BY <1>1, <3>1, <3>2 DEF Inv, TypeOK, ProcStates
  <2> DEFINE Asleep == {s \in Slots : state[s] = "Sleeping"}
             Ages == {kernel_pid - pid[s] : s \in Asleep}
             R == OpToRel(<, Nat)
  <2>2. 0 \in Asleep
    BY <1>1, <2>1, ZeroIsSlot DEF FamilyInv, RootInv
  <2>3. \A s \in Asleep : pid[s] \in Nat /\ pid[s] < kernel_pid /\ kernel_pid \in Nat
    BY <1>1 DEF Inv, TypeOK, PidInv, PidsOrNone
  <2>4. Ages \subseteq Nat /\ Ages # {}
    BY <2>2, <2>3
  <2>5. IsWellFoundedOn(R, Nat)
    BY NatLessThanWellFounded
  <2>6. \A a, b \in Nat : a < b => <<a, b>> \in R
    BY DEF OpToRel
  <2> HIDE DEF R, Ages, Asleep
  <2>7. PICK x \in Ages : \A y \in Ages : ~(<<y, x>> \in R)
    BY <2>4, <2>5, WFMin
  <2> USE DEF Ages, Asleep
  <2>8. PICK s \in Asleep : x = kernel_pid - pid[s]
    BY <2>7
  <2>9. PICK u \in Kids(pid[s]) : state[u] # "Zombie"
    BY <1>1, <2>8 DEF FamilyInv, SleepInv, MustSleep
  <2>10. u \in Slots /\ parent[u] = pid[s] /\ parent[u] # None
    BY <2>3, <2>8, <2>9 DEF Kids, None
  <2>11. u \in Asleep /\ pid[s] < pid[u]
    BY <1>1, <2>1, <2>9, <2>10 DEF FamilyInv, TreeInv
  <2>12. kernel_pid - pid[u] < x /\ kernel_pid - pid[u] \in Ages
    BY <2>3, <2>8, <2>11
  <2> QED
    BY <2>4, <2>7, <2>12, <2>6
<1>2. Inv /\ FamilyInv => SchedulerFindsWork
  BY <1>1 DEF SchedulerFindsWork
<1> QED
  BY <1>2, FamilyInvariance, PTL

-----------------------------------------------------------------------------
(* The refinement to LifeCycle.  One more invariant: a slot that is free,   *)
(* or whose process is on its way out, holds no answer of wait, so that the *)
(* next process in the slot starts without one.                             *)

Nothing == <<None, 0>>

\* Where the process of a slot has called exit, or there is none.
GoneLabels == {"none", "exit", "exit_sched", "exit_resume"} \cup Guarded

Leaving(s) == pc[s] \in GoneLabels \/ frames[s] = <<"exit">>

AnswerInv == \A s \in Slots : Leaving(s) => waited[s] = Nothing

\* The thread on the hart moves on, and not into kexit().
LEMMA AnswerMove ==
    ASSUME Inv, AnswerInv, NEW l, l \in GoneLabels => pc[running] \in GoneLabels,
           pc' = [pc EXCEPT ![running] = l],
           UNCHANGED <<frames, waited>>
    PROVE  AnswerInv'
<1>1. \A s \in Slots : pc'[s] = pc[s] \/ (s = running /\ pc'[s] = l)
  BY ThreadFacts DEF Inv, TypeOK
<1> QED
  BY <1>1 DEF AnswerInv, Leaving, Nothing

\* The answers and the labels stay what they are.
LEMMA AnswerStay ==
    ASSUME AnswerInv, UNCHANGED <<pc, frames, waited>>
    PROVE  AnswerInv'
BY DEF AnswerInv, Leaving, Nothing

\* The steps of the calls and of the scheduler.
LEMMA AnswerCalls ==
    ASSUME Inv, AnswerInv, NEW s \in Slots,
           \/ UserTimer(s) \/ UserFault(s) \/ PrepareReturn(s) \/ ForkRet(s)
           \/ OtherSyscall(s) \/ Yeld(s) \/ YeldReturn(s) \/ SchedPick(s)
           \/ KforkLock(s) \/ KforkParent(s) \/ KforkRun(s)
           \/ KexitGuard(s) \/ KexitReparent(s) \/ KexitWakeup(s) \/ KexitZombie(s)
           \/ KwaitLock(s) \/ KwaitCopy(s) \/ KwaitSleep(s) \/ KwaitWake(s)
    PROVE  AnswerInv'
<1> USE DEF At, Goto, Panic, localVars, GoneLabels, Guarded
<1>1. CASE UserTimer(s) \/ UserFault(s)
  BY <1>1, AnswerMove DEF UserTimer, UserFault
<1>2. CASE PrepareReturn(s) \/ ForkRet(s)
  BY <1>2, AnswerMove DEF PrepareReturn, ForkRet
<1>3. CASE OtherSyscall(s)
  BY <1>3, AnswerMove DEF OtherSyscall
<1>4. CASE Yeld(s) \/ SchedPick(s)
  BY <1>4, AnswerMove DEF Yeld, SchedPick
<1>5. CASE YeldReturn(s)
  BY <1>5, AnswerMove DEF YeldReturn
<1>6. CASE KforkLock(s) \/ KforkParent(s) \/ KforkRun(s)
  BY <1>6, AnswerMove DEF KforkLock, KforkParent, KforkRun
<1>7. CASE KexitGuard(s)
  BY <1>7, AnswerMove DEF KexitGuard
<1>8. CASE KexitReparent(s) \/ KexitWakeup(s) \/ KexitZombie(s)
  BY <1>8, AnswerMove DEF KexitReparent, KexitWakeup, KexitZombie
<1>9. CASE KwaitLock(s) \/ KwaitSleep(s) \/ KwaitWake(s)
  BY <1>9, AnswerMove DEF KwaitLock, KwaitSleep, KwaitWake
<1>10. CASE KwaitCopy(s)
  BY <1>10, AnswerMove DEF KwaitCopy
<1> QED
  BY <1>1, <1>2, <1>3, <1>4, <1>5, <1>6, <1>7, <1>8, <1>9, <1>10

\* sched(), and the scheduler.
LEMMA AnswerSwitches ==
    ASSUME Inv, AnswerInv, (\E s \in Slots : Switch(s)) \/ SchedStep
    PROVE  AnswerInv'
<1> USE DEF At, Goto, localVars, GoneLabels, Guarded
<1>1. ASSUME NEW s \in Slots, NEW from, NEW to, SchedSwitch(s, from, to),
             to \in GoneLabels => from \in GoneLabels
      PROVE  AnswerInv'
  BY <1>1, AnswerMove, AnswerStay DEF SchedSwitch
<1>2. ASSUME NEW s \in Slots, Switch(s) PROVE AnswerInv'
  BY <1>1, <1>2 DEF Switch
<1>3. CASE SchedLoop \/ SchedAfter
  BY <1>3, AnswerMove DEF SchedLoop, SchedAfter
<1>4. CASE SchedLock
  BY <1>4, AnswerMove DEF SchedLock
<1>5. CASE SchedDispatch
  <2>1. running = Sched /\ pc' = [pc EXCEPT ![Sched] = "after"] /\ UNCHANGED <<frames, waited>>
    BY <1>5 DEF SchedDispatch
  <2> QED
    BY <2>1, AnswerMove
<1> QED
  BY <1>2, <1>3, <1>4, <1>5 DEF SchedStep

\* Traps: an interrupted exit is still an exit.
LEMMA AnswerTraps ==
    ASSUME Inv, AnswerInv, NEW t \in Threads, KernelTrap(t) \/ KernelTrapReturn(t)
    PROVE  AnswerInv'
<1>1. running = t /\ UNCHANGED waited
  BY DEF KernelTrap, KernelTrapReturn, At, localVars
<1>2. \A s \in Slots \ {t} : pc'[s] = pc[s] /\ frames'[s] = frames[s]
  BY ThreadFacts DEF KernelTrap, KernelTrapReturn, Goto, Inv, TypeOK
<1>3. ASSUME t \in Slots, Leaving(t)' PROVE Leaving(t)
  <2>1. CASE KernelTrap(t)
    <3>1. pc'[t] \in {"ktret", "yeld"} /\ frames'[t] = <<pc[t]>> \o frames[t]
      BY <2>1 DEF KernelTrap, Goto, Inv, TypeOK
    <3>2. frames'[t] = <<"exit">>
      BY <1>3, <3>1 DEF Leaving, GoneLabels, Guarded
    <3>3. pc[t] \in SieOn \cup SieMaybe
      BY <2>1 DEF KernelTrap, Inv, LockInv
    <3>4. frames[t] = <<>>
      BY <1>3, <3>3 DEF Inv, FrameInv, SieOn, SieMaybe, YeldLabels
    <3>5. frames'[t] = <<pc[t]>>
      BY <3>1, <3>4
    <3>6. pc[t] = "exit"
      BY <3>2, <3>5
    <3> QED
      BY <3>6 DEF Leaving, GoneLabels
  <2>2. CASE KernelTrapReturn(t)
    <3>1. pc[t] = "ktret" /\ pc'[t] = Head(frames[t]) /\ frames'[t] = Tail(frames[t])
      BY <2>2 DEF KernelTrapReturn, At, Goto, Inv, TypeOK
    <3>2. PICK l \in CallLabels : frames[t] = <<l>>
      BY <1>3, <3>1 DEF Inv, FrameInv
    <3>3. pc'[t] = l /\ frames'[t] = <<>>
      BY <3>1, <3>2
    <3>4. l = "exit"
      BY <1>3, <3>3 DEF Leaving, CallLabels, GoneLabels, Guarded
    <3> QED
      BY <3>2, <3>4 DEF Leaving
  <2> QED
    BY <2>1, <2>2
<1> QED
  BY <1>1, <1>2, <1>3 DEF AnswerInv, Leaving, Nothing

\* A system call starts without an answer.
LEMMA AnswerSyscall ==
    ASSUME Inv, AnswerInv, NEW s \in Slots, UserSyscall(s)
    PROVE  AnswerInv'
<1>1. /\ waited'[s] = Nothing /\ \A u \in Slots \ {s} : waited'[u] = waited[u]
      /\ \A u \in Slots \ {s} : pc'[u] = pc[u]
      /\ UNCHANGED frames
  BY ThreadFacts DEF UserSyscall, Goto, Nothing, Inv, TypeOK
<1> QED
  BY <1>1 DEF AnswerInv, Leaving, Nothing

\* The child of a kfork() has none.
LEMMA AnswerKforkAlloc ==
    ASSUME Inv, AnswerInv, NEW s \in Slots, KforkAlloc(s)
    PROVE  AnswerInv'
<1> DEFINE unused == {u \in Slots : state[u] = "Unused"}
           c == FirstOf(unused)
<1>1. UNCHANGED <<frames, waited>>
  BY DEF KforkAlloc
<1>2. CASE unused = {}
  <2>1. running = s /\ pc' = [pc EXCEPT ![s] = "panic"]
    BY <1>2 DEF KforkAlloc, At, Panic, Goto
  <2> QED
    BY <1>1, <2>1, AnswerMove DEF GoneLabels, Guarded
<1>3. CASE unused # {}
  <2>1. c \in Slots
    BY <1>3, FirstOfIn
  <2>2. pc' = [pc EXCEPT ![s] = "fork_parent", ![c] = "forkret"]
    BY <1>3 DEF KforkAlloc
  <2> HIDE DEF c, unused
  <2>3. \A u \in Slots : pc'[u] = pc[u] \/ pc'[u] \in {"fork_parent", "forkret"}
    BY <2>1, <2>2, ThreadFacts DEF Inv, TypeOK
  <2> QED
    BY <1>1, <2>3 DEF AnswerInv, Leaving, Nothing, GoneLabels, Guarded
<1> QED
  BY <1>2, <1>3

\* Only a process that stays gets an answer.
LEMMA AnswerKwaitScan ==
    ASSUME Inv, AnswerInv, NEW s \in Slots, KwaitScan(s)
    PROVE  AnswerInv'
<1> DEFINE zombies == {u \in Kids(pid[s]) : state[u] = "Zombie"}
           z == FirstOf(zombies)
<1>1. running = s /\ pc[s] = "wait_scan" /\ UNCHANGED frames
  BY DEF KwaitScan, At
<1>2. frames[s] = <<>>
  BY <1>1 DEF Inv, FrameInv, YeldLabels
<1>3. CASE zombies # {} /\ pc' = [pc EXCEPT ![z] = "none", ![s] = "wait_copy"]
           /\ waited' = [waited EXCEPT ![s] = Report(z)]
  <2>1. z \in Slots /\ state[z] = "Zombie"
    BY <1>3, FirstZombie
  <2> HIDE DEF z, zombies
  <2>2. z # s
    BY <1>1, <2>1, SelfIsAlive
  <2>3. Leaving(z)
    BY <1>1, <2>1, <2>2 DEF Inv, StateInv, ParkedState, Leaving, GoneLabels
  <2>4. /\ pc'[s] = "wait_copy"
        /\ \A u \in Slots \ {s, z} : pc'[u] = pc[u]
        /\ \A u \in Slots \ {s} : waited'[u] = waited[u]
    BY <1>3, <2>1, <2>2, ThreadFacts DEF Inv, TypeOK
  <2> QED
    BY <1>1, <1>2, <2>3, <2>4 DEF AnswerInv, Leaving, Nothing, GoneLabels, Guarded
<1>4. ASSUME NEW l \in {"wait_sleep", "ret"}, pc' = [pc EXCEPT ![s] = l],
             waited' = waited \/ waited' = [waited EXCEPT ![s] = NoKids]
      PROVE  AnswerInv'
  <2>1. /\ pc'[s] = l
        /\ \A u \in Slots \ {s} : pc'[u] = pc[u] /\ waited'[u] = waited[u]
    BY <1>4, ThreadFacts DEF Inv, TypeOK
  <2> QED
    BY <1>1, <1>2, <2>1 DEF AnswerInv, Leaving, Nothing, GoneLabels, Guarded
<1> QED
  BY <1>3, <1>4 DEF KwaitScan, Goto

\* AnswerInv is inductive relative to Inv.
LEMMA NextAnswer == Inv /\ AnswerInv /\ [Next]_vars => AnswerInv'
<1> SUFFICES ASSUME Inv, AnswerInv, [Next]_vars PROVE AnswerInv'
  OBVIOUS
<1>1. CASE UNCHANGED vars
  BY <1>1, AnswerStay DEF vars, localVars
<1>2. ASSUME NEW s \in Slots, UserSyscall(s) \/ UserTimer(s) \/ UserFault(s)
      PROVE  AnswerInv'
  BY <1>2, AnswerSyscall, AnswerCalls
<1>3. ASSUME NEW s \in Slots, SwitchStep(s) \/ CallStep(s) \/ SchedPick(s)
      PROVE  AnswerInv'
  BY <1>3, AnswerCalls, AnswerSwitches, AnswerKforkAlloc, AnswerKwaitScan
  DEF SwitchStep, CallStep
<1>4. CASE SchedStep
  BY <1>4, AnswerSwitches
<1>5. ASSUME NEW t \in Threads, KernelTrap(t) \/ KernelTrapReturn(t) PROVE AnswerInv'
  BY <1>5, AnswerTraps
<1> QED
  BY <1>1, <1>2, <1>3, <1>4, <1>5 DEF Next, PanicLoop

\* The slots that hold a process, and what they stand for in LifeCycle.
InUse    == LiveSlots \cup DeadSlots
Alive    == PidsOf(LiveSlots)
Dead     == PidsOf(DeadSlots)
Parents  == [p \in PidsOf(InUse) |-> ParentOf(SlotOf(p))]
Answers  == [p \in Alive |-> waited[SlotOf(p)]]

\* A slot is in use, alive or not, by its state and label.
LEMMA SlotSets ==
    /\ InUse = {s \in Slots : state[s] # "Unused"}
    /\ \A s \in Slots : s \in LiveSlots <=> state[s] # "Unused" /\ ~Ending(s)
    /\ \A s \in Slots : s \in DeadSlots <=> state[s] # "Unused" /\ Ending(s)
    /\ LiveSlots \subseteq Slots /\ DeadSlots \subseteq Slots /\ InUse \subseteq Slots
    /\ PidsOf(InUse) = Alive \cup Dead
BY DEF InUse, LiveSlots, DeadSlots, Alive, Dead, PidsOf

\* A pid leads back to its slot.
LEMMA SlotOfPid ==
    ASSUME Inv, NEW s \in InUse
    PROVE  SlotOf(pid[s]) = s
<1>1. s \in Slots /\ pid[s] # None
  BY SlotSets DEF Inv, PidInv
<1>2. \A u \in Slots : pid[u] = pid[s] <=> u = s
  BY <1>1 DEF Inv, PidInv
<1> QED
  BY <1>1, <1>2 DEF SlotOf

\* What the abstract state is, slot by slot.
Slotwise ==
    /\ Alive = {pid[s] : s \in LiveSlots} /\ Dead = {pid[s] : s \in DeadSlots}
    /\ Parents = [p \in Alive \cup Dead |-> Parents[p]]
    /\ Answers = [p \in Alive |-> Answers[p]]
    /\ \A s \in InUse : Parents[pid[s]] = ParentOf(s)
    /\ \A s \in LiveSlots : Answers[pid[s]] = waited[s]
    /\ \A s, u \in InUse : pid[s] = pid[u] => s = u

\* The slot of a pid is well defined, so the abstract functions are what the
\* slots say.
LEMMA SlotwiseHolds == Inv => Slotwise
<1> SUFFICES ASSUME Inv PROVE Slotwise
  OBVIOUS
<1>1. \A s, u \in InUse : pid[s] = pid[u] => s = u
  BY SlotSets DEF Inv, PidInv
<1>2. Alive = {pid[s] : s \in LiveSlots} /\ Dead = {pid[s] : s \in DeadSlots}
  BY DEF Alive, Dead, PidsOf
<1>3. LiveSlots \subseteq InUse /\ DeadSlots \subseteq InUse
  BY DEF InUse
<1>4. \A s \in InUse : pid[s] \in PidsOf(InUse) /\ Parents[pid[s]] = ParentOf(s)
  BY SlotOfPid DEF Parents, PidsOf
<1>5. \A s \in LiveSlots : pid[s] \in Alive /\ Answers[pid[s]] = waited[s]
  BY <1>3, SlotOfPid DEF Answers, Alive, PidsOf
<1>6. Parents = [p \in Alive \cup Dead |-> Parents[p]] /\ Answers = [p \in Alive |-> Answers[p]]
  BY SlotSets DEF Parents, Answers
<1> QED
  BY <1>1, <1>2, <1>4, <1>5, <1>6 DEF Slotwise

\* The abstract state after a step is what the slots say then.
LEMMA SlotwiseNext == Inv' => Slotwise'
BY SlotwiseHolds, PTL

\* A step that moves no slot from one set to another, changes no pid, no
\* parent and no answer, is a stuttering step of LifeCycle.
LEMMA StutterStep ==
    ASSUME Inv, Inv', UNCHANGED <<pid, waited, kernel_pid>>,
           \A s \in Slots : state'[s] = "Unused" <=> state[s] = "Unused",
           \A s \in Slots : Ending(s)' <=> Ending(s),
           \A s \in Slots : ParentOf(s)' = ParentOf(s)
    PROVE  UNCHANGED Life!lifeVars
<1>1. LiveSlots' = LiveSlots /\ DeadSlots' = DeadSlots
  BY DEF LiveSlots, DeadSlots
<1>2. Slotwise /\ Slotwise'
  BY SlotwiseHolds, SlotwiseNext
<1>3. Alive' = Alive /\ Dead' = Dead
  BY <1>1, <1>2 DEF Slotwise
<1>4. ASSUME NEW p \in Alive \cup Dead PROVE Parents'[p] = Parents[p]
  <2>1. PICK s \in InUse : p = pid[s]
    BY <1>2 DEF Slotwise, InUse
  <2>2. s \in InUse' /\ s \in Slots /\ pid'[s] = p
    BY <1>1, <2>1, SlotSets DEF InUse
  <2> QED
    BY <1>2, <2>1, <2>2 DEF Slotwise
<1>5. ASSUME NEW p \in Alive PROVE Answers'[p] = Answers[p]
  <2>1. PICK s \in LiveSlots : p = pid[s]
    BY <1>2 DEF Slotwise
  <2> QED
    BY <1>1, <1>2, <2>1 DEF Slotwise
<1>6. Parents' = Parents /\ Answers' = Answers
  BY <1>2, <1>3, <1>4, <1>5 DEF Slotwise
<1> QED
  BY <1>3, <1>6 DEF Life!lifeVars, Alive, Dead, Parents, Answers, InUse

\* Calm steps that give no answer.
LEMMA QuietStutters ==
    ASSUME Inv, Inv', Quiet
    PROVE  UNCHANGED Life!lifeVars
<1>1. UNCHANGED <<pid, parent, waited, kernel_pid>>
  BY DEF Quiet, Calm
<1>2. \A s \in Slots : /\ state'[s] = "Unused" <=> state[s] = "Unused"
                       /\ state'[s] = "Zombie" <=> state[s] = "Zombie"
                       /\ pc[s] \notin Critical /\ pc'[s] \notin Critical
  BY DEF Quiet, Calm
<1>3. \A s \in Slots : Ending(s)' <=> Ending(s)
  BY <1>2 DEF Ending, Critical, Guarded
<1>4. \A s \in Slots : ParentOf(s)' = ParentOf(s)
  BY <1>1, <1>2 DEF ParentOf, Newborn, Critical
<1> QED
  BY <1>1, <1>2, <1>3, <1>4, StutterStep

\* The steps of fork, exit and wait before and after their effect.
LEMMA CallsStutter ==
    ASSUME Inv, Inv', FamilyInv, NEW s \in Slots,
           \/ KforkParent(s) \/ KforkRun(s) \/ KexitGuard(s)
           \/ KexitWakeup(s) \/ KexitZombie(s) \/ KwaitSleep(s)
    PROVE  UNCHANGED Life!lifeVars
<1> USE DEF At, Goto, localVars, procVars
<1>1. CASE KforkParent(s)
  <2>1. running = s /\ pc[s] = "fork_parent" /\ child[s] \in Slots
    BY <1>1 DEF KforkParent, Inv, StateInv
  <2>2. /\ pc'[s] = "fork_run" /\ \A u \in Slots \ {s} : pc'[u] = pc[u]
        /\ parent'[child[s]] = pid[s] /\ \A u \in Slots \ {child[s]} : parent'[u] = parent[u]
        /\ UNCHANGED <<state, pid, waited, kernel_pid, child, running>>
    BY <1>1, <2>1, ThreadFacts DEF KforkParent, Inv, TypeOK
  <2>3. \A u \in Slots : Ending(u)' <=> Ending(u)
    BY <2>1, <2>2 DEF Ending
  <2>4. \A u \in Slots : ParentOf(u)' = ParentOf(u)
    BY <2>1, <2>2 DEF ParentOf, Newborn
  <2> QED
    BY <2>2, <2>3, <2>4, StutterStep
<1>2. CASE KforkRun(s)
  <2>1. /\ running = s /\ pc[s] = "fork_run"
        /\ child[s] \in Slots /\ state[child[s]] = "Used"
    BY <1>2 DEF KforkRun, Inv, StateInv
  <2>2. /\ pc'[s] = "ret" /\ \A u \in Slots \ {s} : pc'[u] = pc[u]
        /\ state'[child[s]] = "Runnable" /\ \A u \in Slots \ {child[s]} : state'[u] = state[u]
        /\ UNCHANGED <<parent, pid, waited, kernel_pid, running>>
    BY <1>2, <2>1, ThreadFacts DEF KforkRun, Inv, TypeOK
  <2>3. \A u \in Slots : Ending(u)' <=> Ending(u)
    BY <2>1, <2>2 DEF Ending
  <2>4. \A u \in Slots : ParentOf(u)' = ParentOf(u)
    BY <2>1, <2>2 DEF ParentOf, Newborn
  <2>5. \A u \in Slots : state'[u] = "Unused" <=> state[u] = "Unused"
    BY <2>1, <2>2
  <2> QED
    BY <2>2, <2>3, <2>4, <2>5, StutterStep
<1>3. CASE KexitGuard(s)
  <2>1. running = s /\ pc[s] = "exit" /\ UNCHANGED <<state, parent, pid, waited, kernel_pid, running>>
    BY <1>3 DEF KexitGuard
  <2>2. /\ pc'[s] \in {"panic", "exit_reparent"}
        /\ \A u \in Slots \ {s} : pc'[u] = pc[u]
    BY <1>3, <2>1, ThreadFacts DEF KexitGuard, Panic, Inv, TypeOK
  <2>3. \A u \in Slots : Ending(u)' <=> Ending(u)
    BY <2>1, <2>2 DEF Ending
  <2>4. \A u \in Slots : ParentOf(u)' = ParentOf(u)
    BY <2>1, <2>2 DEF ParentOf, Newborn
  <2> QED
    BY <2>1, <2>3, <2>4, StutterStep
<1>4. CASE KexitWakeup(s)
  <2>1. running = s /\ pc[s] = "exit_wakeup" /\ UNCHANGED <<parent, pid, waited, kernel_pid, running>>
    BY <1>4 DEF KexitWakeup
  <2>2. pc'[s] = "exit_zombie" /\ \A u \in Slots \ {s} : pc'[u] = pc[u]
    BY <1>4, <2>1, ThreadFacts DEF KexitWakeup, Inv, TypeOK
  <2>3. \A u \in Slots : \/ state'[u] = state[u]
                         \/ state[u] = "Sleeping" /\ state'[u] = "Runnable"
    BY <1>4 DEF KexitWakeup, Wakeup
  <2>4. \A u \in Slots : Ending(u)' <=> Ending(u)
    BY <2>1, <2>2, <2>3 DEF Ending
  <2>5. \A u \in Slots : ParentOf(u)' = ParentOf(u)
    BY <2>1, <2>2 DEF ParentOf, Newborn
  <2>6. \A u \in Slots : state'[u] = "Unused" <=> state[u] = "Unused"
    BY <2>3
  <2> QED
    BY <2>1, <2>4, <2>5, <2>6, StutterStep
<1>5. CASE KexitZombie(s)
  <2>1. /\ running = s /\ pc[s] = "exit_zombie" /\ state[s] = "Running"
        /\ UNCHANGED <<parent, pid, waited, kernel_pid, running>>
    BY <1>5, SelfIsAlive DEF KexitZombie
  <2>2. /\ pc'[s] = "exit_sched" /\ \A u \in Slots \ {s} : pc'[u] = pc[u]
        /\ state'[s] = "Zombie" /\ \A u \in Slots \ {s} : state'[u] = state[u]
    BY <1>5, <2>1, ThreadFacts DEF KexitZombie, Inv, TypeOK
  <2>3. \A u \in Slots : Ending(u)' <=> Ending(u)
    BY <2>1, <2>2 DEF Ending
  <2>4. \A u \in Slots : ParentOf(u)' = ParentOf(u)
    BY <2>1, <2>2 DEF ParentOf, Newborn
  <2>5. \A u \in Slots : state'[u] = "Unused" <=> state[u] = "Unused"
    BY <2>1, <2>2
  <2> QED
    BY <2>1, <2>3, <2>4, <2>5, StutterStep
<1>6. CASE KwaitSleep(s)
  <2>1. /\ running = s /\ pc[s] = "wait_sleep" /\ state[s] = "Running"
        /\ UNCHANGED <<parent, pid, waited, kernel_pid, running>>
    BY <1>6, SelfIsAlive DEF KwaitSleep
  <2>2. {u \in Slots : pid[u] = pid[s]} = {s}
    BY <2>1, SelfIsAlive
  <2>3. FirstOf({u \in Slots : pid[u] = pid[s]}) = s
    BY <2>2, FirstOfIn
  <2>4. state' = [state EXCEPT ![s] = "Sleeping"] /\ pc' = [pc EXCEPT ![s] = "wait_sched"]
    BY <1>6, <2>3 DEF KwaitSleep
  <2>5. /\ pc'[s] = "wait_sched" /\ \A u \in Slots \ {s} : pc'[u] = pc[u]
        /\ state'[s] = "Sleeping" /\ \A u \in Slots \ {s} : state'[u] = state[u]
    BY <2>4, ThreadFacts DEF Inv, TypeOK
  <2>6. \A u \in Slots : Ending(u)' <=> Ending(u)
    BY <2>1, <2>5 DEF Ending
  <2>7. \A u \in Slots : ParentOf(u)' = ParentOf(u)
    BY <2>1, <2>5 DEF ParentOf, Newborn
  <2>8. \A u \in Slots : state'[u] = "Unused" <=> state[u] = "Unused"
    BY <2>1, <2>5
  <2> QED
    BY <2>1, <2>6, <2>7, <2>8, StutterStep
<1> QED
  BY <1>1, <1>2, <1>3, <1>4, <1>5, <1>6

\* The abstract state when only the answer of the living process s changes.
LEMMA AnswerStep ==
    ASSUME Inv, Inv', NEW s \in LiveSlots, NEW a,
           waited' = [waited EXCEPT ![s] = a],
           UNCHANGED <<pid, kernel_pid>>,
           \A u \in Slots : state'[u] = "Unused" <=> state[u] = "Unused",
           \A u \in Slots : Ending(u)' <=> Ending(u),
           \A u \in Slots : ParentOf(u)' = ParentOf(u)
    PROVE  /\ pid[s] \in Alive
           /\ UNCHANGED <<Alive, Dead, Parents>>
           /\ Answers' = [Answers EXCEPT ![pid[s]] = a]
<1>1. LiveSlots' = LiveSlots /\ DeadSlots' = DeadSlots /\ s \in Slots
  BY DEF LiveSlots, DeadSlots
<1>2. Slotwise /\ Slotwise'
  BY SlotwiseHolds, SlotwiseNext
<1>3. Alive' = Alive /\ Dead' = Dead /\ pid[s] \in Alive
  BY <1>1, <1>2 DEF Slotwise
<1>4. ASSUME NEW p \in Alive \cup Dead PROVE Parents'[p] = Parents[p]
  <2>1. PICK u \in InUse : p = pid[u]
    BY <1>2 DEF Slotwise, InUse
  <2>2. u \in InUse' /\ u \in Slots /\ pid'[u] = p
    BY <1>1, <2>1, SlotSets DEF InUse
  <2> QED
    BY <1>2, <2>1, <2>2 DEF Slotwise
<1>5. ASSUME NEW p \in Alive
      PROVE  Answers'[p] = IF p = pid[s] THEN a ELSE Answers[p]
  <2>1. PICK u \in LiveSlots : p = pid[u]
    BY <1>2 DEF Slotwise
  <2>2. p = pid[s] <=> u = s
    BY <1>2, <2>1 DEF Slotwise, InUse
  <2>3. waited'[u] = IF u = s THEN a ELSE waited[u]
    BY <1>1, <2>1, SlotSets DEF Inv, TypeOK
  <2> QED
    BY <1>1, <1>2, <2>1, <2>2, <2>3 DEF Slotwise
<1>6. Parents' = Parents
  BY <1>2, <1>3, <1>4 DEF Slotwise
<1>7. Answers' = [Answers EXCEPT ![pid[s]] = a]
  BY <1>2, <1>3, <1>5 DEF Slotwise
<1> QED
  BY <1>3, <1>6, <1>7

\* A process on the hart that is not in kexit() is alive.
LEMMA SelfIsLive ==
    ASSUME Inv, NEW s \in Slots, running = s,
           pc[s] \notin {"yeld_sched", "wait_sched", "exit_sched", "exit_wakeup", "exit_zombie"}
    PROVE  s \in LiveSlots /\ pid[s] \in Alive
<1>1. state[s] = "Running"
  BY SelfIsAlive
<1> QED
  BY <1>1 DEF LiveSlots, Ending, Alive, PidsOf

\* A system call starts.
LEMMA SyscallIsCall ==
    ASSUME Inv, Inv', NEW s \in Slots, UserSyscall(s)
    PROVE  Life!Call(pid[s])
<1>1. running = s /\ pc[s] = "user" /\ waited' = [waited EXCEPT ![s] = <<None, 0>>]
  BY DEF UserSyscall, At
<1>2. s \in LiveSlots
  BY <1>1, SelfIsLive
<1>3. Calm
  BY UserSyscallCalm
<1>4. UNCHANGED <<pid, parent, kernel_pid>>
  BY <1>3 DEF Calm
<1>5. \A u \in Slots : /\ state'[u] = "Unused" <=> state[u] = "Unused"
                       /\ state'[u] = "Zombie" <=> state[u] = "Zombie"
                       /\ pc[u] \notin Critical /\ pc'[u] \notin Critical
  BY <1>3 DEF Calm
<1>6. \A u \in Slots : Ending(u)' <=> Ending(u)
  BY <1>5 DEF Ending, Critical, Guarded
<1>7. \A u \in Slots : ParentOf(u)' = ParentOf(u)
  BY <1>4, <1>5 DEF ParentOf, Newborn, Critical
<1>8. /\ pid[s] \in Alive
      /\ UNCHANGED <<Alive, Dead, Parents>>
      /\ Answers' = [Answers EXCEPT ![pid[s]] = <<None, 0>>]
  BY <1>1, <1>2, <1>4, <1>5, <1>6, <1>7, AnswerStep
<1> QED
  BY <1>4, <1>8 DEF Life!Call, Life!Nothing, Life!None, None, Alive, Dead, Parents, Answers, InUse

\* allocproc() gives the child a slot and a pid: that is the fork.
LEMMA AllocIsFork ==
    ASSUME Inv, Inv', AnswerInv, NEW s \in Slots, KforkAlloc(s)
    PROVE  Life!Fork(pid[s]) \/ UNCHANGED Life!lifeVars
<1> DEFINE unused == {u \in Slots : state[u] = "Unused"}
<1>1. running = s /\ pc[s] = "fork_alloc" /\ UNCHANGED <<running, waited>>
  BY DEF KforkAlloc, At
<1>2. CASE unused = {}
  <2>1. /\ UNCHANGED <<state, pid, parent, kernel_pid, child>>
        /\ pc'[s] = "panic" /\ \A u \in Slots \ {s} : pc'[u] = pc[u]
    BY <1>2, ThreadFacts DEF KforkAlloc, procVars, Panic, Goto, Inv, TypeOK
  <2>2. \A u \in Slots : (Ending(u)' <=> Ending(u)) /\ ParentOf(u)' = ParentOf(u)
    BY <1>1, <2>1 DEF Ending, ParentOf, Newborn
  <2>3. UNCHANGED Life!lifeVars
    BY <1>1, <2>1, <2>2, StutterStep
  <2> QED
    BY <2>3
<1>3. CASE unused # {}
  <2>1. PICK c \in Slots : c = FirstOf(unused) /\ state[c] = "Unused"
    <3>1. FirstOf(unused) \in unused
      BY <1>3, FirstOfIn
    <3> QED
      BY <3>1
  <2>2. /\ pid' = [pid EXCEPT ![c] = kernel_pid]
        /\ kernel_pid' = kernel_pid + 1
        /\ state' = [state EXCEPT ![c] = "Used"]
        /\ child' = [child EXCEPT ![s] = c]
        /\ pc' = [pc EXCEPT ![s] = "fork_parent", ![c] = "forkret"]
        /\ UNCHANGED parent
    BY <1>3, <2>1 DEF KforkAlloc
  <2> HIDE DEF unused
  <2>3. c # s /\ pc[c] = "none"
    BY <1>1, <2>1, SelfIsAlive DEF Inv, StateInv, ParkedState
  <2>4. waited[c] = Nothing
    BY <2>1, <2>3 DEF AnswerInv, Leaving, GoneLabels
  <2>5. /\ pid'[c] = kernel_pid /\ \A u \in Slots \ {c} : pid'[u] = pid[u]
        /\ state'[c] = "Used" /\ \A u \in Slots \ {c} : state'[u] = state[u]
        /\ child'[s] = c
        /\ pc'[s] = "fork_parent" /\ pc'[c] = "forkret"
        /\ \A u \in Slots \ {s, c} : pc'[u] = pc[u]
    BY <2>1, <2>2, <2>3, ThreadFacts DEF Inv, TypeOK
  <2>6. /\ ~Ending(c)' /\ \A u \in Slots \ {c} : Ending(u)' <=> Ending(u)
        /\ ParentOf(c)' = pid[s] /\ \A u \in Slots \ {c} : ParentOf(u)' = ParentOf(u)
    <3>1. \A u \in Slots : ~Newborn(u)
      BY <1>1 DEF Newborn
    <3>2. \A u \in Slots : Newborn(u)' <=> u = c
      BY <1>1, <2>1, <2>5 DEF Newborn
    <3>3. pid'[running'] = pid[s]
      BY <1>1, <2>3, <2>5
    <3>4. ~Ending(c)' /\ \A u \in Slots \ {c} : Ending(u)' <=> Ending(u)
      BY <1>1, <2>5 DEF Ending
    <3> QED
      BY <2>1, <2>2, <3>1, <3>2, <3>3, <3>4 DEF ParentOf
  <2>7. /\ LiveSlots' = LiveSlots \cup {c} /\ DeadSlots' = DeadSlots
        /\ c \notin InUse /\ InUse \subseteq Slots
    <3>1. c \notin InUse /\ InUse \subseteq Slots
      BY <2>1, SlotSets
    <3>2. \A u \in Slots : /\ u \in LiveSlots' <=> u \in LiveSlots \cup {c}
                           /\ u \in DeadSlots' <=> u \in DeadSlots
      BY <2>1, <2>5, <2>6 DEF LiveSlots, DeadSlots
    <3>3. LiveSlots' \subseteq Slots /\ DeadSlots' \subseteq Slots
      BY DEF LiveSlots, DeadSlots
    <3> QED
      BY <2>1, <3>1, <3>2, <3>3, SlotSets
  <2>8. Slotwise /\ Slotwise'
    BY SlotwiseHolds, SlotwiseNext
  <2>9. Alive' = Alive \cup {kernel_pid} /\ Dead' = Dead
    BY <2>5, <2>7, <2>8 DEF Slotwise, InUse
  <2>10. kernel_pid \notin Alive \cup Dead
    <3>1. \A u \in InUse : pid[u] # kernel_pid
      BY <2>7 DEF Inv, TypeOK, PidInv, PidsOrNone, None
    <3> QED
      BY <2>8, <3>1 DEF Slotwise, InUse
  <2>11. c \in LiveSlots' /\ c \in InUse'
    BY <2>7 DEF InUse
  <2>12. Parents'[kernel_pid] = pid[s] /\ Answers'[kernel_pid] = Nothing
    <3>1. Parents'[pid'[c]] = ParentOf(c)' /\ Answers'[pid'[c]] = waited'[c]
      BY <2>8, <2>11 DEF Slotwise
    <3> QED
      BY <1>1, <2>4, <2>5, <2>6, <3>1
  <2>13. ASSUME NEW p \in Alive \cup Dead PROVE Parents'[p] = Parents[p]
    <3>1. PICK u \in InUse : p = pid[u]
      BY <2>8 DEF Slotwise, InUse
    <3>2. u \in InUse' /\ u # c /\ u \in Slots
      BY <2>7, <3>1 DEF InUse
    <3>3. pid'[u] = p
      BY <2>5, <3>1, <3>2
    <3> QED
      BY <2>6, <2>8, <3>1, <3>2, <3>3 DEF Slotwise
  <2>14. ASSUME NEW p \in Alive PROVE Answers'[p] = Answers[p]
    <3>1. PICK u \in LiveSlots : p = pid[u]
      BY <2>8 DEF Slotwise
    <3>2. u \in LiveSlots' /\ u # c /\ u \in Slots
      BY <2>7, <3>1 DEF InUse
    <3>3. pid'[u] = p
      BY <2>5, <3>1, <3>2
    <3> QED
      BY <1>1, <2>8, <3>1, <3>2, <3>3 DEF Slotwise
  <2>15. Parents' = [q \in Alive \cup Dead \cup {kernel_pid} |->
                       IF q = kernel_pid THEN pid[s] ELSE Parents[q]]
    <3>1. Alive' \cup Dead' = Alive \cup Dead \cup {kernel_pid}
      BY <2>9
    <3>2. Parents' = [q \in Alive \cup Dead \cup {kernel_pid} |-> Parents'[q]]
      BY <2>8, <3>1 DEF Slotwise
    <3> QED
      BY <2>12, <2>13, <3>2
  <2>16. Answers' = [q \in Alive \cup {kernel_pid} |->
                       IF q = kernel_pid THEN Nothing ELSE Answers[q]]
    <3>1. Answers' = [q \in Alive \cup {kernel_pid} |-> Answers'[q]]
      BY <2>8, <2>9 DEF Slotwise
    <3> QED
      BY <2>12, <2>14, <3>1
  <2>17. pid[s] \in Alive
    BY <1>1, SelfIsLive
  <2>18. Life!Fork(pid[s])
    BY <2>2, <2>9, <2>15, <2>16, <2>17
    DEF Life!Fork, Life!Nothing, Life!None, Nothing, None, Alive, Dead, Parents, Answers, InUse
  <2> QED
    BY <2>18
<1> QED
  BY <1>2, <1>3

\* reparent() is the exit: the children have a new parent from here on.
LEMMA ReparentIsExit ==
    ASSUME Inv, Inv', FamilyInv, NEW s \in Slots, KexitReparent(s)
    PROVE  Life!Exit(pid[s])
<1>1. running = s /\ pc[s] = "exit_reparent" /\ UNCHANGED <<running, waited, pid, kernel_pid>>
  BY DEF KexitReparent, At, localVars
<1>2. /\ parent' = [u \in Slots |-> IF parent[u] = pid[s] THEN 0 ELSE parent[u]]
      /\ state' = IF Kids(pid[s]) # {} THEN Wakeup(state, 0) ELSE state
      /\ pc' = [pc EXCEPT ![s] = "exit_wakeup"]
  BY DEF KexitReparent, Reparent, Goto
<1>3. pc'[s] = "exit_wakeup" /\ \A u \in Slots \ {s} : pc'[u] = pc[u]
  BY <1>2, ThreadFacts DEF Inv, TypeOK
<1>4. \A u \in Slots : parent'[u] = IF parent[u] = pid[s] THEN 0 ELSE parent[u]
  BY <1>2
<1>5. \A u \in Slots : \/ state'[u] = state[u]
                       \/ state[u] = "Sleeping" /\ state'[u] = "Runnable"
  BY <1>2 DEF Wakeup
<1>6. pid[s] # 0
  BY <1>1, SelfIsAlive, ZeroIsSlot DEF FamilyInv, RootInv, Guarded
<1>7. \A u \in Slots : ~Newborn(u) /\ ~Newborn(u)'
  BY <1>1, <1>3 DEF Newborn
<1>8. \A u \in Slots : ParentOf(u)' = IF ParentOf(u) = pid[s] THEN 0 ELSE ParentOf(u)
  BY <1>4, <1>7 DEF ParentOf
<1>9. /\ state[s] = "Running" /\ state'[s] = "Running"
      /\ ~Ending(s) /\ Ending(s)' /\ \A u \in Slots \ {s} : Ending(u)' <=> Ending(u)
  BY <1>1, <1>3, <1>5, SelfIsAlive DEF Ending
<1>10. \A u \in Slots : state'[u] = "Unused" <=> state[u] = "Unused"
  BY <1>5
<1>11. LiveSlots' = LiveSlots \ {s} /\ DeadSlots' = DeadSlots \cup {s} /\ s \in LiveSlots
  BY <1>9, <1>10 DEF LiveSlots, DeadSlots
<1>12. InUse' = InUse /\ InUse \subseteq Slots
  BY <1>11, SlotSets DEF InUse
<1>13. Slotwise /\ Slotwise'
  BY SlotwiseHolds, SlotwiseNext
<1>14. pid[s] \in Alive /\ Alive' = Alive \ {pid[s]} /\ Dead' = Dead \cup {pid[s]}
  <2>1. \A u \in LiveSlots : pid[u] = pid[s] => u = s
    BY <1>11, <1>13 DEF Slotwise, InUse
  <2> QED
    BY <1>1, <1>11, <1>13, <2>1 DEF Slotwise
<1>15. ASSUME NEW p \in Alive \cup Dead
       PROVE  Parents'[p] = IF Parents[p] = pid[s] THEN 0 ELSE Parents[p]
  <2>1. PICK u \in InUse : p = pid[u]
    BY <1>13 DEF Slotwise, InUse
  <2>2. u \in InUse' /\ u \in Slots /\ pid'[u] = p
    BY <1>1, <1>12, <2>1
  <2> QED
    BY <1>8, <1>13, <2>1, <2>2 DEF Slotwise
<1>16. ASSUME NEW p \in Alive \ {pid[s]} PROVE Answers'[p] = Answers[p]
  <2>1. PICK u \in LiveSlots : p = pid[u]
    BY <1>13 DEF Slotwise
  <2>2. u \in LiveSlots' /\ pid'[u] = p
    BY <1>1, <1>11, <1>16, <2>1
  <2> QED
    BY <1>1, <1>13, <2>1, <2>2 DEF Slotwise
<1>17. Parents' = [p \in Alive \cup Dead |-> IF Parents[p] = pid[s] THEN 0 ELSE Parents[p]]
  <2>1. Alive' \cup Dead' = Alive \cup Dead
    BY <1>14
  <2>2. Parents' = [p \in Alive \cup Dead |-> Parents'[p]]
    BY <1>13, <2>1 DEF Slotwise
  <2> QED
    BY <1>15, <2>2
<1>18. Answers' = [p \in Alive' |-> Answers[p]]
  BY <1>13, <1>14, <1>16 DEF Slotwise
<1> QED
  BY <1>1, <1>6, <1>14, <1>17, <1>18
  DEF Life!Exit, Life!On, Alive, Dead, Parents, Answers, InUse

\* Process::free in the scan is the wait: the parent gets the answer.
LEMMA ReapIsWait ==
    ASSUME Inv, Inv', FamilyInv, NEW s \in Slots, NEW z \in Slots,
           running = s, pc[s] = "wait_scan", UNCHANGED <<running, kernel_pid>>,
           parent[z] = pid[s], state[z] = "Zombie",
           waited' = [waited EXCEPT ![s] = Report(z)],
           Free(z),
           pc' = [pc EXCEPT ![z] = "none", ![s] = "wait_copy"]
    PROVE  pid[z] \in Dead /\ Life!WaitChild(pid[s], pid[z])
<1>1. state[s] = "Running" /\ z # s
  BY SelfIsAlive
<1>2. /\ pc'[s] = "wait_copy" /\ pc'[z] = "none"
      /\ \A u \in Slots \ {s, z} : pc'[u] = pc[u]
  BY <1>1, ThreadFacts DEF Inv, TypeOK
<1>3. /\ state'[z] = "Unused" /\ \A u \in Slots \ {z} : state'[u] = state[u]
      /\ \A u \in Slots \ {z} : pid'[u] = pid[u]
      /\ \A u \in Slots \ {z} : parent'[u] = parent[u]
  BY DEF Free, Inv, TypeOK
<1>4. \A u \in Slots : ~Newborn(u) /\ ~Newborn(u)'
  BY <1>2 DEF Newborn
<1>5. Ending(z) /\ \A u \in Slots \ {z} : Ending(u)' <=> Ending(u)
  BY <1>2, <1>3 DEF Ending
<1>6. \A u \in Slots : ParentOf(u) = parent[u] /\ ParentOf(u)' = parent'[u]
  BY <1>4 DEF ParentOf
<1>7. LiveSlots' = LiveSlots /\ DeadSlots' = DeadSlots \ {z} /\ z \in DeadSlots
  <2>1. \A u \in Slots : /\ u \in LiveSlots' <=> u \in LiveSlots
                         /\ u \in DeadSlots' <=> u \in DeadSlots \ {z}
    BY <1>3, <1>5 DEF LiveSlots, DeadSlots
  <2>2. LiveSlots' \subseteq Slots /\ DeadSlots' \subseteq Slots /\ z \in DeadSlots
    BY <1>5 DEF LiveSlots, DeadSlots
  <2> QED
    BY <2>1, <2>2, SlotSets
<1>8. InUse' = InUse \ {z} /\ InUse \subseteq Slots /\ z \in InUse /\ z \notin LiveSlots
  BY <1>5, <1>7, SlotSets DEF InUse
<1>9. Slotwise /\ Slotwise'
  BY SlotwiseHolds, SlotwiseNext
<1>10. pid[z] \in Dead /\ Alive' = Alive /\ Dead' = Dead \ {pid[z]}
  <2>1. \A u \in DeadSlots : pid[u] = pid[z] => u = z
    BY <1>8, <1>9 DEF Slotwise, InUse
  <2>2. \A u \in LiveSlots' \cup DeadSlots' : u \in Slots \ {z} /\ pid'[u] = pid[u]
    BY <1>3, <1>7, <1>8 DEF InUse
  <2>3. {pid'[u] : u \in DeadSlots'} = {pid[u] : u \in DeadSlots} \ {pid[z]}
    BY <1>7, <2>1, <2>2
  <2>4. {pid'[u] : u \in LiveSlots'} = {pid[u] : u \in LiveSlots}
    BY <1>7, <2>2
  <2> QED
    BY <1>7, <1>9, <2>3, <2>4 DEF Slotwise
<1>11. ASSUME NEW p \in Alive \cup (Dead \ {pid[z]}) PROVE Parents'[p] = Parents[p]
  <2>1. PICK u \in InUse' : p = pid'[u]
    <3>1. p \in {pid'[u] : u \in LiveSlots'} \/ p \in {pid'[u] : u \in DeadSlots'}
      BY <1>9, <1>10, <1>11 DEF Slotwise
    <3> QED
      BY <3>1 DEF InUse
  <2>2. u \in InUse /\ u \in Slots \ {z} /\ pid[u] = p
    BY <1>3, <1>8, <2>1
  <2> QED
    BY <1>3, <1>6, <1>9, <2>1, <2>2 DEF Slotwise
<1>12. ASSUME NEW p \in Alive
       PROVE  Answers'[p] = IF p = pid[s] THEN Report(z) ELSE Answers[p]
  <2>1. PICK u \in LiveSlots : p = pid[u]
    BY <1>9 DEF Slotwise
  <2>2. u \in LiveSlots' /\ u \in Slots \ {z} /\ pid'[u] = p
    BY <1>3, <1>7, <1>8, <2>1 DEF InUse
  <2>3. p = pid[s] <=> u = s
    BY <1>1, <2>1, <2>2, SelfIsAlive
  <2>4. waited'[u] = IF u = s THEN Report(z) ELSE waited[u]
    BY <2>2 DEF Inv, TypeOK
  <2> QED
    BY <1>9, <2>1, <2>2, <2>3, <2>4 DEF Slotwise
<1>13. Parents' = [p \in Alive \cup Dead' |-> Parents[p]]
  BY <1>9, <1>10, <1>11 DEF Slotwise
<1>14. Answers' = [Answers EXCEPT ![pid[s]] = Report(z)]
  BY <1>9, <1>10, <1>12 DEF Slotwise
<1>15. Report(z) = <<pid[z], ExitStatusOf(pid[z])>>
  BY DEF Report, FamilyInv, StatusInv
<1>16. Parents[pid[z]] = pid[s] /\ pid[s] \in Alive
  BY <1>6, <1>8, <1>9, SelfIsLive DEF Slotwise
<1>17. pid[z] \in {q \in Alive \cup Dead : Parents[q] = pid[s]}
  BY <1>10, <1>16
<1> QED
  BY <1>10, <1>13, <1>14, <1>15, <1>16, <1>17
  DEF Life!WaitChild, Life!KidsOf, Life!On, Alive, Dead, Parents, Answers, InUse

\* The scan of kwait() answers, or decides to sleep.
LEMMA ScanIsWait ==
    ASSUME Inv, Inv', FamilyInv, NEW s \in Slots, KwaitScan(s)
    PROVE  \/ \E z \in Slots : pid[z] \in Dead /\ Life!WaitChild(pid[s], pid[z])
           \/ Life!WaitFails(pid[s])
           \/ UNCHANGED Life!lifeVars
<1> DEFINE kids == Kids(pid[s])
           zombies == {u \in kids : state[u] = "Zombie"}
<1>1. running = s /\ pc[s] = "wait_scan" /\ UNCHANGED <<running, child, kernel_pid>>
  BY DEF KwaitScan, At
<1>2. CASE /\ zombies # {}
           /\ waited' = [waited EXCEPT ![s] = Report(FirstOf(zombies))]
           /\ Free(FirstOf(zombies))
           /\ pc' = [pc EXCEPT ![FirstOf(zombies)] = "none", ![s] = "wait_copy"]
  <2>1. PICK z \in Slots : z = FirstOf(zombies) /\ parent[z] = pid[s] /\ state[z] = "Zombie"
    BY <1>2, FirstZombie
  <2> HIDE DEF zombies, kids
  <2>2. pid[z] \in Dead /\ Life!WaitChild(pid[s], pid[z])
    BY <1>1, <1>2, <2>1, ReapIsWait
  <2> QED
    BY <2>2
<1>3. ASSUME NEW l \in {"wait_sleep", "ret"}, pc' = [pc EXCEPT ![s] = l],
             UNCHANGED <<state, pid, parent>>
      PROVE  /\ \A u \in Slots : Ending(u)' <=> Ending(u)
             /\ \A u \in Slots : ParentOf(u)' = ParentOf(u)
             /\ \A u \in Slots : ParentOf(u) = parent[u]
  <2>1. pc'[s] = l /\ \A u \in Slots \ {s} : pc'[u] = pc[u]
    BY <1>3, ThreadFacts DEF Inv, TypeOK
  <2>2. \A u \in Slots : ~Newborn(u) /\ ~Newborn(u)'
    BY <1>1, <2>1 DEF Newborn
  <2> QED
    BY <1>1, <1>3, <2>1, <2>2 DEF Ending, ParentOf
<1>4. CASE pc' = [pc EXCEPT ![s] = "wait_sleep"] /\ UNCHANGED <<state, pid, parent, waited>>
  <2>1. UNCHANGED Life!lifeVars
    BY <1>1, <1>3, <1>4, StutterStep
  <2> QED
    BY <2>1
<1>5. CASE /\ kids = {}
           /\ waited' = [waited EXCEPT ![s] = NoKids]
           /\ pc' = [pc EXCEPT ![s] = "ret"]
           /\ UNCHANGED <<state, pid, parent>>
  <2>1. s \in LiveSlots
    BY <1>1, SelfIsLive
  <2>2. /\ pid[s] \in Alive
        /\ UNCHANGED <<Alive, Dead, Parents>>
        /\ Answers' = [Answers EXCEPT ![pid[s]] = NoKids]
    BY <1>1, <1>3, <1>5, <2>1, AnswerStep
  <2>3. {q \in Alive \cup Dead : Parents[q] = pid[s]} = {}
    <3>1. Slotwise
      BY SlotwiseHolds
    <3>2. \A u \in InUse : u \in Slots /\ ParentOf(u) # pid[s]
      BY <1>3, <1>5, SlotSets DEF Kids
    <3>3. \A q \in Alive \cup Dead : Parents[q] # pid[s]
      BY <3>1, <3>2 DEF Slotwise, InUse
    <3> QED
      BY <3>3
  <2>4. Life!WaitFails(pid[s])
    BY <1>1, <2>2, <2>3
    DEF Life!WaitFails, Life!KidsOf, Life!NoKids, Life!None, NoKids, None,
        Alive, Dead, Parents, Answers, InUse
  <2> QED
    BY <2>4
<1> QED
  BY <1>2, <1>4, <1>5 DEF KwaitScan, Goto

\* main() starts with init alone and no answer.
LEMMA InitLife == Init => Life!Init /\ AnswerInv
<1> SUFFICES ASSUME Init PROVE Life!Init /\ AnswerInv
  OBVIOUS
<1>1. Inv
  BY InitInv
<1>2. /\ \A s \in Slots : pc[s] = IF s = 0 THEN "forkret" ELSE "none"
      /\ running = Sched /\ kernel_pid = 1
      /\ \A s \in Slots : state[s] = IF s = 0 THEN "Runnable" ELSE "Unused"
      /\ pid[0] = 0 /\ parent[0] = None
      /\ \A s \in Slots : waited[s] = <<None, 0>>
  BY ThreadFacts, ZeroIsSlot DEF Init
<1>3. LiveSlots = {0} /\ DeadSlots = {}
  BY <1>2, ZeroIsSlot DEF LiveSlots, DeadSlots, Ending
<1>4. ParentOf(0) = None
  BY <1>2, ThreadFacts DEF ParentOf, Newborn
<1>5. Slotwise
  BY <1>1, SlotwiseHolds
<1>6. Alive = {0} /\ Dead = {}
  BY <1>2, <1>3, <1>5 DEF Slotwise
<1>7. Parents = [p \in {0} |-> None]
  <2>1. Parents[0] = None
    BY <1>2, <1>3, <1>4, <1>5 DEF Slotwise, InUse
  <2> QED
    BY <1>5, <1>6, <2>1 DEF Slotwise
<1>8. Answers = [p \in {0} |-> Nothing]
  <2>1. Answers[0] = Nothing
    BY <1>2, <1>3, <1>5, ZeroIsSlot DEF Slotwise, Nothing
  <2> QED
    BY <1>5, <1>6, <2>1 DEF Slotwise
<1>9. AnswerInv
  BY <1>2 DEF AnswerInv, Nothing
<1> QED
  BY <1>2, <1>6, <1>7, <1>8, <1>9
  DEF Life!Init, Life!Nothing, Life!None, Nothing, None, Alive, Dead, Parents, Answers, InUse

\* Every step of the kernel is a step of LifeCycle, or none.
LEMMA NextLife ==
    Inv /\ Inv' /\ FamilyInv /\ AnswerInv /\ [Next]_vars => [Life!Next]_(Life!lifeVars)
<1> SUFFICES ASSUME Inv, Inv', FamilyInv, AnswerInv, [Next]_vars,
                    ~UNCHANGED Life!lifeVars
             PROVE  Life!Next
  OBVIOUS
<1>1. ~UNCHANGED vars
  <2> SUFFICES ASSUME UNCHANGED vars PROVE FALSE
    OBVIOUS
  <2>1. UNCHANGED <<state, pid, parent, waited, pc, running, child, kernel_pid>>
    BY DEF vars, procVars, localVars
  <2>2. \A u \in Slots : (Ending(u)' <=> Ending(u)) /\ ParentOf(u)' = ParentOf(u)
    BY <2>1 DEF Ending, ParentOf, Newborn
  <2> QED
    BY <2>1, <2>2, StutterStep
<1>2. PICK s \in Slots : UserSyscall(s) \/ KforkAlloc(s) \/ KexitReparent(s) \/ KwaitScan(s)
  BY <1>1, NextCases, QuietStutters, CallsStutter
<1>3. ASSUME Life!Call(pid[s]) \/ Life!Fork(pid[s]) \/ Life!Exit(pid[s]) \/ Life!WaitFails(pid[s])
      PROVE  Life!Next
  BY <1>3 DEF Life!Next, Life!Call, Life!Fork, Life!Exit, Life!WaitFails
<1>4. ASSUME NEW z \in Slots, pid[z] \in Dead, Life!WaitChild(pid[s], pid[z])
      PROVE  Life!Next
  BY <1>4 DEF Life!Next, Life!WaitChild, Dead
<1> QED
  BY <1>2, <1>3, <1>4, SyscallIsCall, AllocIsFork, ReparentIsExit, ScanIsWait

\* The kernel implements LifeCycle, whatever the size of the table and the
\* number of processes: interleaved with interrupts and the scheduler, the
\* steps of kfork(), kexit() and kwait() look to user programs as if each call
\* took effect at once.
THEOREM KernelImplementsLifeCycle == Spec => ImplementsLifeCycle
<1>1. Spec => [](Inv /\ FamilyInv /\ AnswerInv)
  <2>1. Init => AnswerInv
    BY InitLife
  <2> QED
    BY <2>1, FamilyInvariance, NextAnswer, PTL DEF Spec
<1>2. Init => Life!Init
  BY InitLife
<1> QED
  BY <1>1, <1>2, NextLife, PTL DEF Spec, ImplementsLifeCycle, Life!Spec

=============================================================================
