----------------------------- MODULE KernelInv -----------------------------
(***************************************************************************)
(* The inductive invariant of module Kernel: what is true of every thread  *)
(* at every label.  It is stated apart from the proofs so that TLC can     *)
(* check it.                                                               *)
(***************************************************************************)
EXTENDS Kernel

\* Labels of the kernel thread of a slot, and of the scheduler's thread.
CallLabels  == {"fork", "exit", "wait", "other", "wait_copy", "ret", "panic"}
ProcLabels  == Labels \ SchedLabels

\* Where a thread that is not on the hart can be.
ParkedLabels == {"none", "forkret", "yeld_resume", "wait_resume", "exit_resume"}

\* Where the thread on the hart holds its own process lock; the kernel lock;
\* the guard of kexit(); where the scheduler holds the lock of `found`.
SelfLocked   == {"forkret", "yeld_sched", "yeld_resume", "wait_sched",
                 "wait_resume", "exit_sched"}
KernelLocked == {"fork_alloc", "fork_parent", "fork_run", "wait_scan",
                 "wait_sleep", "pick"}
Guarded      == {"exit_reparent", "exit_wakeup", "exit_zombie"}
FoundLocked  == {"dispatch", "after"}

\* Where interrupts are enabled for certain, and where they may be.
SieOn    == {"user", "fork", "exit", "wait", "other", "wait_copy", "window"}
SieMaybe == {"ret", "loop", "panic"}

\* One thread is on the hart; CPU.current and the scheduler agree with it.
ControlInv ==
    /\ pc[Sched] \in SchedLabels \cup {"ktret"}
    /\ \A s \in Slots : pc[s] \in ProcLabels
    /\ \A s \in Slots : s # running => pc[s] \in ParkedLabels
    /\ running \in Slots => /\ current = running
                            /\ found = running
                            /\ pc[Sched] = "after"
                            /\ pc[running] \notin {"none", "exit_resume"}
    /\ running = Sched =>
          /\ pc[Sched] \in FoundLocked => found \in Slots
          /\ current = IF pc[Sched] = "after" THEN found ELSE None

\* What the label of a parked thread says about the state of its process.
ParkedState(s) ==
    /\ state[s] = "Unused"   <=> pc[s] = "none"
    /\ state[s] = "Zombie"   <=> pc[s] = "exit_resume"
    /\ state[s] = "Sleeping" => pc[s] = "wait_resume"
    /\ state[s] = "Used"     => pc[s] = "forkret"
    /\ state[s] = "Running"  => running = Sched /\ pc[Sched] = "dispatch" /\ s = found

\* ... and the label of the thread on the hart.
RunningState(s) ==
    /\ pc[s] = "yeld_sched" => state[s] = "Runnable"
    /\ pc[s] = "wait_sched" => state[s] = "Sleeping"
    /\ pc[s] = "exit_sched" => state[s] = "Zombie"
    /\ pc[s] \notin {"yeld_sched", "wait_sched", "exit_sched"} => state[s] = "Running"

StateInv ==
    /\ \A s \in Slots : s # running => ParkedState(s)
    /\ running \in Slots => RunningState(running)
    /\ running = Sched /\ pc[Sched] = "dispatch" => state[found] = "Running"
    /\ running \in Slots /\ pc[running] \in {"fork_parent", "fork_run"} =>
          child[running] \in Slots /\ state[child[running]] = "Used"

\* The locks that are taken.
Held(s) ==
    \/ running = s /\ pc[s] \in SelfLocked
    \/ running \in Slots /\ pc[running] = "fork_parent" /\ s = child[running]
    \/ running = Sched /\ pc[Sched] \in FoundLocked /\ s = found

OneLock == (SelfLocked \cup KernelLocked \cup Guarded \cup FoundLocked)
             \ {"fork_parent"}

OffStack(l) == IF l = "fork_parent" THEN 2 ELSE IF l \in OneLock THEN 1 ELSE 0

LockInv ==
    /\ \A s \in Slots : plock[s] <=> Held(s)
    /\ klock <=> pc[running] \in KernelLocked
    /\ cpu.off_stack = OffStack(pc[running])
    /\ pc[running] \in SieOn => cpu.sie
    /\ pc[running] \notin SieOn \cup SieMaybe => ~cpu.sie

\* The saved interrupt state: a system call will get its interrupts back, an
\* interrupt handler and a new process will not.
SavedInv ==
    /\ running \in Slots /\ pc[running] \in
          (KernelLocked \cup Guarded \cup {"wait_sched", "exit_sched"}) => cpu.prev
    /\ running \in Slots /\ pc[running] \in {"forkret", "yeld_sched"} => ~cpu.prev
    /\ running = Sched /\ pc[Sched] \in {"pick", "dispatch"} => ~cpu.prev
    /\ \A s \in Slots : pc[s] = "wait_resume" => saved_prev[s]
    /\ \A s \in Slots : pc[s] = "yeld_resume" => ~saved_prev[s]

\* kernelvec frames: at most one on a stack, and only under a handler.
FrameInv ==
    /\ \A s \in Slots : \/ frames[s] = <<>>
                        \/ /\ pc[s] \in YeldLabels \cup {"ktret"}
                           /\ \E l \in CallLabels : frames[s] = <<l>>
    /\ \/ frames[Sched] = <<>>
       \/ /\ pc[Sched] = "ktret"
          /\ \E l \in {"loop", "window"} : frames[Sched] = <<l>>
    /\ \A t \in Threads : pc[t] = "ktret" => frames[t] # <<>>

\* A slot has a pid exactly while it is in use, and no two slots share one.
PidInv ==
    /\ \A s \in Slots : pid[s] = None <=> state[s] = "Unused"
    /\ \A s \in Slots : pid[s] < kernel_pid
    /\ \A s, u \in Slots : pid[s] # None /\ pid[s] = pid[u] => s = u

\* The inductive invariant: all of the above, and no assertion of the kernel
\* has fired.
Inv ==
    /\ TypeOK
    /\ panic \notin KernelPanics
    /\ ControlInv
    /\ StateInv
    /\ LockInv
    /\ SavedInv
    /\ FrameInv
    /\ PidInv

=============================================================================
