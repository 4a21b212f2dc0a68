----------------------------- MODULE KernelLife -----------------------------
(***************************************************************************)
(* The kernel implements LifeCycle.  The points at which a call takes      *)
(* effect for everybody:                                                   *)
(*   fork    allocproc() gives the child its pid; kfork() stores the       *)
(*           parent only later, so until then the parent is the process    *)
(*           that runs kfork();                                            *)
(*   exit    reparent(): from there on the process counts as a zombie,     *)
(*           although kexit() has still to wake the parent and to set the  *)
(*           state, because its children have a new parent already;        *)
(*   wait    Process::free in the scan, or the scan that finds no child.   *)
(***************************************************************************)
EXTENDS KernelInv

\* Slot s is past the reparent() of its kexit().
Ending(s) == state[s] = "Zombie" \/ pc[s] \in {"exit_wakeup", "exit_zombie"}

LiveSlots == {s \in Slots : state[s] # "Unused" /\ ~Ending(s)}
DeadSlots == {s \in Slots : state[s] # "Unused" /\ Ending(s)}

PidsOf(S)  == {pid[s] : s \in S}
SlotOf(p)  == CHOOSE s \in Slots : pid[s] = p

\* The child of a kfork() that did not get to `child_proc.parent = self.pid`.
Newborn(s) == running \in Slots /\ pc[running] = "fork_parent" /\ child[running] = s

ParentOf(s) == IF Newborn(s) THEN pid[running] ELSE parent[s]

Life == INSTANCE LifeCycle WITH
    Status  <- ExitStatusOf,
    alive   <- PidsOf(LiveSlots),
    zombies <- PidsOf(DeadSlots),
    parent  <- [p \in PidsOf(LiveSlots \cup DeadSlots) |-> ParentOf(SlotOf(p))],
    next    <- kernel_pid,
    answer  <- [p \in PidsOf(LiveSlots) |-> waited[SlotOf(p)]]

\* Whatever the interrupts and the scheduler do, user programs see fork, exit
\* and wait take effect one at a time: every child is waited for by exactly
\* one process, its parent or init, pids and statuses belong together, and
\* wait fails only without children.
ImplementsLifeCycle == Life!Spec

=============================================================================
