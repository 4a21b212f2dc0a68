------------------------------- MODULE Kernel -------------------------------
(***************************************************************************)
(* The process core of the kernel: the process table and the operations    *)
(* fork, exit and wait on it, the scheduler loop, the context switch, and  *)
(* the timer interrupt that may hit any kernel code running with           *)
(* sstatus.SIE set (process.rs, kernel.rs, trap.rs, lock.rs, main.rs).     *)
(*                                                                         *)
(* One hart executes one thread at a time: the scheduler or the kernel     *)
(* thread of a slot of the process table.  pc[t] is where thread t is, or  *)
(* will resume; `running` is the thread on the hart.  An action is the     *)
(* code between two points at which a timer interrupt could be taken if    *)
(* interrupts were enabled there, so that the model, like the code, is     *)
(* atomic only where cpu.sie is FALSE.                                     *)
(*                                                                         *)
(* A panic!() or unwrap() does not stop the kernel by itself: the panic    *)
(* handler prints and loops, and it leaves SIE as it is.  A thread that    *)
(* panics in a system call spins at label "panic" with interrupts enabled, *)
(* is preempted, and the others go on; one that panics with interrupts off *)
(* keeps the hart for ever.  Out-of-memory panics are in module Memory,    *)
(* external interrupts in module Trap.                                     *)
(*                                                                         *)
(* Scheduling order: scheduler() visits the slots by increasing `quants`.  *)
(* Here it takes any Runnable slot; module Scheduler models the order and  *)
(* justifies the fairness assumed below.                                   *)
(***************************************************************************)
EXTENDS Cpu, Sequences, FiniteSets

CONSTANTS
    NPROC,      \* slots of the process table; main() calls initproc(4)
    MaxPid      \* bound: user programs fork only while kernel.pid <= MaxPid

ASSUME NprocAssumption == NPROC \in Nat \ {0}
ASSUME MaxPidAssumption == MaxPid \in Nat

None    == -1               \* Option::None, and the null process pointer
Slots   == 0 .. NPROC - 1   \* indices of Kernel::process_table
Sched   == NPROC            \* the thread of scheduler()
Threads == 0 .. NPROC

ProcStates == {"Unused", "Used", "Sleeping", "Runnable", "Running", "Zombie"}

VARIABLES
    \* fields of Process
    state, pid, parent, sleep_channel, xstatus,
    plock,          \* plock[s]: Process::lock of slot s is taken
    kernel_pid,     \* Kernel::pid, the next pid to hand out
    klock,          \* the IntMutex around Kernel is taken
    \* static mut CPU and sstatus.SIE
    cpu, current,
    \* control state
    running,        \* the thread on the hart
    pc,             \* pc[t]: the label thread t is at
    frames,         \* frames[t]: labels interrupted by kernelvec, newest first
    saved_prev,     \* sched()'s local interrupt_prev_state
    found,          \* scheduler()'s local
    child,          \* kfork()'s local child_proc
    waited,         \* <<pid, status>> that the last wait of s gave to the user
    panic           \* the assertion of the kernel that failed, or "none"

procVars  == <<state, pid, parent, sleep_channel, xstatus, kernel_pid>>
lockVars  == <<plock, klock>>
localVars == <<saved_prev, found, child, waited>>
vars == <<procVars, lockVars, localVars, cpu, current, running, pc, frames, panic>>

-----------------------------------------------------------------------------
(* Labels.  A *_sched label is a thread about to call sched(), a *_resume   *)
(* label one that sched() will return to.                                   *)

SyscallLabels == {"fork", "exit", "wait", "other"}
ForkLabels    == {"fork", "fork_alloc", "fork_parent", "fork_run"}
ExitLabels    == {"exit", "exit_reparent", "exit_wakeup", "exit_zombie",
                  "exit_sched", "exit_resume"}
WaitLabels    == {"wait", "wait_scan", "wait_copy", "wait_sleep", "wait_sched",
                  "wait_resume"}
YeldLabels    == {"yeld", "yeld_sched", "yeld_resume"}
SchedLabels   == {"loop", "window", "pick", "dispatch", "after"}
Labels        == ForkLabels \cup ExitLabels \cup WaitLabels \cup YeldLabels
                   \cup SchedLabels
                   \cup {"none", "forkret", "user", "other", "ret", "ktret", "panic"}

\* The assertions of sched() and kexit() about the kernel itself.
KernelPanics == {"sched", "cordyceps"}

\* Thread t is on the hart at label l.
At(t, l) == panic = "none" /\ running = t /\ pc[t] = l

Goto(t, l) == pc' = [pc EXCEPT ![t] = l]

\* The panic handler of main.rs: println!, then loop {}.  c is the state of
\* the hart at the panic.
Panic(s, c) == Goto(s, "panic") /\ cpu' = LockUnlock(c)

FirstOf(S) == CHOOSE s \in S : \A u \in S : s <= u

-----------------------------------------------------------------------------
(* main(): the table is built, slot 0 holds init with pid 0, Runnable and   *)
(* about to start in forkret, and the scheduler starts with interrupts off. *)

Init ==
    /\ state = [s \in Slots |-> IF s = 0 THEN "Runnable" ELSE "Unused"]
    /\ pid = [s \in Slots |-> IF s = 0 THEN 0 ELSE None]
    /\ parent = [s \in Slots |-> None]
    /\ sleep_channel = [s \in Slots |-> None]
    /\ xstatus = [s \in Slots |-> 0]
    /\ plock = [s \in Slots |-> FALSE]
    /\ kernel_pid = 1
    /\ klock = FALSE
    /\ cpu = [sie |-> FALSE, off_stack |-> 0, prev |-> FALSE]
    /\ current = None
    /\ running = Sched
    /\ pc = [t \in Threads |-> IF t = Sched THEN "loop"
                                ELSE IF t = 0 THEN "forkret" ELSE "none"]
    /\ frames = [t \in Threads |-> <<>>]
    /\ saved_prev = [s \in Slots |-> FALSE]
    /\ found = None
    /\ child = [s \in Slots |-> None]
    /\ waited = [s \in Slots |-> <<None, 0>>]
    /\ panic = "none"

-----------------------------------------------------------------------------
(* Traps from user mode: uservec, usertrap(), syscall().  A trap clears     *)
(* SIE; the system call path sets it again before it runs the call.         *)

UserSyscall(s) ==
    /\ At(s, "user")
    /\ \E call \in SyscallLabels :
          /\ call = "fork" => kernel_pid <= MaxPid
          /\ Goto(s, call)
    /\ cpu' = InterruptOn(InterruptOff(cpu))
    /\ waited' = [waited EXCEPT ![s] = <<None, 0>>]
    /\ UNCHANGED <<procVars, lockVars, saved_prev, found, child, current,
                   running, frames, panic>>

\* The timer: print!, rearm, yeld.
UserTimer(s) ==
    /\ At(s, "user")
    /\ cpu' = LockUnlock(InterruptOff(cpu))
    /\ Goto(s, "yeld")
    /\ UNCHANGED <<procVars, lockVars, localVars, current, running, frames, panic>>

\* Any other scause: usertrap() panics with interrupts still off.
UserFault(s) ==
    /\ At(s, "user")
    /\ Panic(s, InterruptOff(cpu))
    /\ UNCHANGED <<procVars, lockVars, localVars, current, running, frames, panic>>

\* prepare_return() and userret: interrupts off, then sret to user mode with
\* SPIE set, so user code runs with interrupts enabled.
PrepareReturn(s) ==
    /\ At(s, "ret")
    /\ cpu' = InterruptOn(InterruptOff(cpu))
    /\ Goto(s, "user")
    /\ UNCHANGED <<procVars, lockVars, localVars, current, running, frames, panic>>

\* forkret(): a new process drops the lock that scheduler() took for it.
ForkRet(s) ==
    /\ At(s, "forkret")
    /\ plock' = [plock EXCEPT ![current] = FALSE]
    /\ cpu' = PopInterruptOff(cpu)
    /\ Goto(s, "ret")
    /\ UNCHANGED <<procVars, klock, localVars, current, running, frames, panic>>

\* write and exec: no effect on the table, but they allocate, with
\* interrupts enabled, and they unwrap() what goes wrong with an argument.
\* A number that syscall() does not know panics too.
OtherSyscall(s) ==
    /\ At(s, "other")
    /\ \/ cpu' = LockUnlock(cpu) /\ Goto(s, "ret")
       \/ Panic(s, cpu)
    /\ UNCHANGED <<procVars, lockVars, localVars, current, running, frames, panic>>

\* A thread in the loop of the panic handler.
PanicLoop(s) == At(s, "panic") /\ UNCHANGED vars

-----------------------------------------------------------------------------
(* Traps from kernel mode: kernelvec, kerneltrap().                         *)

\* A timer interrupt hits thread t anywhere it runs with SIE set.  The
\* handler yields if a process is current and otherwise returns.
KernelTrap(t) ==
    /\ panic = "none" /\ running = t /\ pc[t] # "user"
    /\ cpu.sie
    /\ frames' = [frames EXCEPT ![t] = <<pc[t]>> \o @]
    /\ cpu' = InterruptOff(cpu)
    /\ Goto(t, IF current = None THEN "ktret" ELSE "yeld")
    /\ UNCHANGED <<procVars, lockVars, localVars, current, running, panic>>

\* kerneltrap() rewrites the sstatus it saved and kernelvec executes sret,
\* which restores SIE.
KernelTrapReturn(t) ==
    /\ At(t, "ktret")
    /\ cpu' = InterruptOn(cpu)
    /\ Goto(t, Head(frames[t]))
    /\ frames' = [frames EXCEPT ![t] = Tail(@)]
    /\ UNCHANGED <<procVars, lockVars, localVars, current, running, panic>>

-----------------------------------------------------------------------------
(* yeld() and sched().                                                      *)

Yeld(s) ==
    /\ At(s, "yeld")
    /\ ~plock[s]
    /\ plock' = [plock EXCEPT ![s] = TRUE]
    /\ cpu' = PushInterruptOff(LockUnlock(cpu))
    /\ state' = [state EXCEPT ![s] = "Runnable"]
    /\ Goto(s, "yeld_sched")
    /\ UNCHANGED <<pid, parent, sleep_channel, xstatus, kernel_pid, klock,
                   localVars, current, running, frames, panic>>

\* What sched() asserts before it switches.
SchedAllowed ==
    /\ ~cpu.sie
    /\ cpu.off_stack = 1
    /\ state[current] # "Running"

\* sched(): remember interrupt_prev_state on the stack of the process and
\* switch to the scheduler's context.
SchedSwitch(s, from, to) ==
    /\ At(s, from)
    /\ IF SchedAllowed
         THEN /\ saved_prev' = [saved_prev EXCEPT ![s] = cpu.prev]
              /\ running' = Sched
              /\ Goto(s, to)
              /\ UNCHANGED panic
         ELSE /\ panic' = "sched"
              /\ UNCHANGED <<saved_prev, running, pc>>
    /\ UNCHANGED <<procVars, lockVars, found, child, waited, cpu, current, frames>>

\* Slip: interrupt_prev_state stays what the last process left in it.
NotRestored(s) == cpu

\* The rest of sched() after the process is switched to again: restore the
\* interrupt_prev_state of the process.
Restored(s) == [cpu EXCEPT !.prev = saved_prev[s]]

\* yeld() after sched(): back to kerneltrap() if that called it, else to
\* usertrap().
YeldReturn(s) ==
    /\ At(s, "yeld_resume")
    /\ plock' = [plock EXCEPT ![s] = FALSE]
    /\ cpu' = PopInterruptOff(Restored(s))
    /\ Goto(s, IF frames[s] # <<>> THEN "ktret" ELSE "ret")
    /\ UNCHANGED <<procVars, klock, localVars, current, running, frames, panic>>

-----------------------------------------------------------------------------
(* The scheduler loop.                                                      *)

\* print!("scheduler: "), interrupt_on().
SchedLoop ==
    /\ At(Sched, "loop")
    /\ cpu' = InterruptOn(LockUnlock(cpu))
    /\ found' = None
    /\ Goto(Sched, "window")
    /\ UNCHANGED <<procVars, lockVars, saved_prev, child, waited, current,
                   running, frames, panic>>

\* interrupt_off(), the kernel lock, and the scan of the table, with
\* interrupts off to its end.  If it finds nothing the lock is dropped:
\* println!, interrupt_on(), wfi, and around the loop.
SchedLock ==
    /\ At(Sched, "window")
    /\ ~klock
    /\ IF \E s \in Slots : state[s] = "Runnable"
         THEN /\ klock' = TRUE
              /\ cpu' = PushInterruptOff(InterruptOff(cpu))
              /\ Goto(Sched, "pick")
         ELSE /\ \A s \in Slots : ~plock[s]
              /\ cpu' = InterruptOn(LockUnlock(LockUnlock(InterruptOff(cpu))))
              /\ Goto(Sched, "loop")
              /\ UNCHANGED klock
    /\ UNCHANGED <<procVars, plock, localVars, current, running, frames, panic>>

\* Slip: the first Runnable slot of the table is taken, whatever its quants.
EligibleFirst(s) ==
    state[s] = "Runnable" /\ \A u \in Slots : state[u] = "Runnable" => s <= u

\* The order by quants lets any Runnable slot come first.
Eligible(s) == state[s] = "Runnable"

\* The scan finds Runnable slot s: it stays locked, the slots visited before
\* it are locked and unlocked in turn, and the kernel lock is dropped.
SchedPick(s) ==
    /\ At(Sched, "pick")
    /\ Eligible(s)
    /\ \A u \in Slots : ~plock[u]
    /\ plock' = [plock EXCEPT ![s] = TRUE]
    /\ state' = [state EXCEPT ![s] = "Running"]
    /\ found' = s
    /\ klock' = FALSE
    /\ cpu' = PopInterruptOff(PushInterruptOff(cpu))
    /\ Goto(Sched, "dispatch")
    /\ UNCHANGED <<pid, parent, sleep_channel, xstatus, kernel_pid,
                   saved_prev, child, waited, current, running, frames, panic>>

\* CPU.current = found, println!, switch to the process.  An exited process
\* that is switched to panics at once (kexit: "cordyceps").
SchedDispatch ==
    /\ At(Sched, "dispatch")
    /\ current' = found
    /\ cpu' = LockUnlock(cpu)
    /\ running' = found
    /\ Goto(Sched, "after")
    /\ panic' = IF pc[found] = "exit_resume" THEN "cordyceps" ELSE panic
    /\ UNCHANGED <<procVars, lockVars, localVars, frames>>

\* Slip: the pointer to the last process stays in CPU.current.
KeepCurrent == UNCHANGED current

\* CPU.current = null
ClearCurrent == current' = None

\* Back from the process: CPU.current = null, drop the process lock, which
\* the process took before it called sched().
SchedAfter ==
    /\ At(Sched, "after")
    /\ ClearCurrent
    /\ plock' = [plock EXCEPT ![found] = FALSE]
    /\ cpu' = PopInterruptOff(cpu)
    /\ Goto(Sched, "loop")
    /\ UNCHANGED <<procVars, klock, localVars, running, frames, panic>>

-----------------------------------------------------------------------------
(* Kernel::wakeup, Kernel::reparent and Process::free on the table.         *)

\* Slip: wakeup() misses processes that sleep on a channel.
WakeupNobody(ps, channel) == ps

\* Kernel::wakeup: every process sleeping on the channel becomes Runnable.
Wakeup(ps, channel) ==
    [s \in Slots |-> IF ps[s] = "Sleeping" /\ sleep_channel[s] = channel
                       THEN "Runnable" ELSE ps[s]]

Kids(p) == {s \in Slots : parent[s] = p}

\* wakeup() and the scan of kwait() lock and unlock the slots they visit.
Visitable(S) == \A s \in S : ~plock[s]

-----------------------------------------------------------------------------
(* kfork(), under the kernel lock from the first step to the last.          *)

KforkLock(s) ==
    /\ At(s, "fork")
    /\ ~klock
    /\ klock' = TRUE
    /\ cpu' = PushInterruptOff(cpu)
    /\ Goto(s, "fork_alloc")
    /\ UNCHANGED <<procVars, plock, localVars, current, running, frames, panic>>

\* allocproc() takes the first Unused slot and locks it; with none left
\* kfork() returns Err, which drops the kernel guard, and sys_fork() unwraps
\* it.
KforkAlloc(s) ==
    /\ At(s, "fork_alloc")
    /\ LET unused == {u \in Slots : state[u] = "Unused"}
           c == FirstOf(unused)
       IN IF unused = {}
            THEN /\ klock' = FALSE
                 /\ Panic(s, PopInterruptOff(cpu))
                 /\ UNCHANGED <<procVars, plock, child>>
            ELSE /\ ~plock[c]
                 /\ plock' = [plock EXCEPT ![c] = TRUE]
                 /\ cpu' = PushInterruptOff(cpu)
                 /\ pid' = [pid EXCEPT ![c] = kernel_pid]
                 /\ kernel_pid' = kernel_pid + 1
                 /\ state' = [state EXCEPT ![c] = "Used"]
                 /\ child' = [child EXCEPT ![s] = c]
                 /\ pc' = [pc EXCEPT ![s] = "fork_parent", ![c] = "forkret"]
                 /\ UNCHANGED <<parent, sleep_channel, xstatus, klock>>
    /\ UNCHANGED <<saved_prev, found, waited, current, running, frames, panic>>

\* The child is unlocked and then gets its parent.
KforkParent(s) ==
    /\ At(s, "fork_parent")
    /\ plock' = [plock EXCEPT ![child[s]] = FALSE]
    /\ cpu' = PopInterruptOff(cpu)
    /\ parent' = [parent EXCEPT ![child[s]] = pid[s]]
    /\ Goto(s, "fork_run")
    /\ UNCHANGED <<state, pid, sleep_channel, xstatus, kernel_pid, klock,
                   localVars, current, running, frames, panic>>

\* Locked again to become Runnable, unlocked; the kernel guard is dropped.
KforkRun(s) ==
    /\ At(s, "fork_run")
    /\ ~plock[child[s]]
    /\ state' = [state EXCEPT ![child[s]] = "Runnable"]
    /\ klock' = FALSE
    /\ cpu' = PopInterruptOff(LockUnlock(cpu))
    /\ child' = [child EXCEPT ![s] = None]
    /\ Goto(s, "ret")
    /\ UNCHANGED <<pid, parent, sleep_channel, xstatus, kernel_pid, plock,
                   saved_prev, found, waited, current, running, frames, panic>>

-----------------------------------------------------------------------------
(* kexit().  A lock of its own keeps interrupts off from before reparent()  *)
(* until the process is a Zombie.                                           *)

KexitGuard(s) ==
    /\ At(s, "exit")
    /\ IF pid[s] = 0
         THEN Panic(s, cpu)
         ELSE /\ cpu' = PushInterruptOff(cpu)
              /\ Goto(s, "exit_reparent")
    /\ UNCHANGED <<procVars, lockVars, localVars, current, running, frames, panic>>

\* Slip: the children keep the exiting process as their parent.
ReparentNobody(p) == UNCHANGED <<parent, state>>

\* Kernel::reparent: the children go to init, which is woken if there are any.
Reparent(p) ==
    /\ parent' = [u \in Slots |-> IF parent[u] = p THEN 0 ELSE parent[u]]
    /\ state' = IF Kids(p) # {} THEN Wakeup(state, 0) ELSE state

\* KERNEL.lock().reparent(self.pid)
KexitReparent(s) ==
    /\ At(s, "exit_reparent")
    /\ ~klock /\ Visitable(Slots)
    /\ Reparent(pid[s])
    /\ cpu' = LockUnlock(cpu)
    /\ Goto(s, "exit_wakeup")
    /\ UNCHANGED <<pid, sleep_channel, xstatus, kernel_pid, lockVars, localVars,
                   current, running, frames, panic>>

\* KERNEL.lock().wakeup(self.parent)
KexitWakeup(s) ==
    /\ At(s, "exit_wakeup")
    /\ ~klock /\ Visitable(Slots)
    /\ state' = Wakeup(state, parent[s])
    /\ cpu' = LockUnlock(cpu)
    /\ Goto(s, "exit_zombie")
    /\ UNCHANGED <<pid, parent, sleep_channel, xstatus, kernel_pid, lockVars,
                   localVars, current, running, frames, panic>>

\* Slip: a negative status is stored as it is, not as u32.
ExitStatusSigned(p) == 0 - p

\* The status a program exits with is arbitrary; tagging it with the pid of
\* the program lets ExitStatusDelivered tell statuses apart.
ExitStatusOf(p) == p

\* The own lock is taken and kept, the guard of the first step is dropped.
KexitZombie(s) ==
    /\ At(s, "exit_zombie")
    /\ ~plock[s]
    /\ plock' = [plock EXCEPT ![s] = TRUE]
    /\ xstatus' = [xstatus EXCEPT ![s] = ExitStatusOf(pid[s])]
    /\ state' = [state EXCEPT ![s] = "Zombie"]
    /\ cpu' = PopInterruptOff(PushInterruptOff(cpu))
    /\ Goto(s, "exit_sched")
    /\ UNCHANGED <<pid, parent, sleep_channel, kernel_pid, klock, localVars,
                   current, running, frames, panic>>


-----------------------------------------------------------------------------
(* kwait(): one pass of its loop.                                           *)

KwaitLock(s) ==
    /\ At(s, "wait")
    /\ ~klock
    /\ klock' = TRUE
    /\ cpu' = PushInterruptOff(cpu)
    /\ Goto(s, "wait_scan")
    /\ UNCHANGED <<procVars, plock, localVars, current, running, frames, panic>>

\* The kernel guard goes out of scope.
DropKernelGuard == klock' = FALSE /\ cpu' = PopInterruptOff(cpu)

\* The guard lives on from the scan to the publication of the sleep state.
\* (Slip: DropKernelGuard here.)
KeepKernelGuard == UNCHANGED <<klock, cpu>>

\* Process::free: the slot is Unused again; its context is reset.
Free(z) ==
    /\ state' = [state EXCEPT ![z] = "Unused"]
    /\ pid' = [pid EXCEPT ![z] = None]
    /\ parent' = [parent EXCEPT ![z] = None]
    /\ sleep_channel' = [sleep_channel EXCEPT ![z] = None]
    /\ xstatus' = [xstatus EXCEPT ![z] = 0]

\* Slip: the status is read after the slot was freed.
ReportFreed(z) == <<pid[z], 0>>

\* zombie_pid and zombie_xstatus, read before the slot is freed.
Report(z) == <<pid[z], xstatus[z]>>

\* What `waited` records of a wait that returns -1.
NoKids == <<None, 1>>

\* The scan of the children: the first zombie is freed and reported, with
\* no child at all -1 is returned (after a println!), and otherwise the
\* caller goes to sleep.
KwaitScan(s) ==
    LET kids == Kids(pid[s])
        zombies == {u \in kids : state[u] = "Zombie"}
        z == FirstOf(zombies)
    IN  /\ At(s, "wait_scan")
        /\ Visitable(kids)
        /\ \/ /\ zombies # {}
              /\ waited' = [waited EXCEPT ![s] = Report(z)]
              /\ Free(z)
              /\ DropKernelGuard
              /\ pc' = [pc EXCEPT ![z] = "none", ![s] = "wait_copy"]
           \/ /\ zombies = {} /\ kids # {}
              /\ KeepKernelGuard
              /\ Goto(s, "wait_sleep")
              /\ UNCHANGED <<state, pid, parent, sleep_channel, xstatus, waited>>
           \/ /\ kids = {}
              /\ waited' = [waited EXCEPT ![s] = NoKids]
              /\ klock' = FALSE
              /\ cpu' = LockUnlock(PopInterruptOff(cpu))
              /\ Goto(s, "ret")
              /\ UNCHANGED <<state, pid, parent, sleep_channel, xstatus>>
        /\ UNCHANGED <<kernel_pid, plock, saved_prev, found, child, current,
                       running, frames, panic>>

\* With interrupts enabled again the status is copied out to the user, if it
\* asked for it, and the pid returned.  A status pointer that copy_out()
\* rejects is a panic: the slot of the child is free by now, and its status
\* reaches nobody.
KwaitCopy(s) ==
    /\ At(s, "wait_copy")
    /\ \/ Goto(s, "ret") /\ UNCHANGED cpu
       \/ Panic(s, cpu)
    /\ UNCHANGED <<procVars, lockVars, localVars, current, running, frames, panic>>

\* The caller's slot, found again by its pid, is locked and put to sleep;
\* then the kernel guard is dropped.
KwaitSleep(s) ==
    LET self == FirstOf({u \in Slots : pid[u] = pid[s]})
    IN  /\ At(s, "wait_sleep")
        /\ ~plock[self]
        /\ plock' = [plock EXCEPT ![self] = TRUE]
        /\ sleep_channel' = [sleep_channel EXCEPT ![self] = pid[s]]
        /\ state' = [state EXCEPT ![self] = "Sleeping"]
        /\ klock' = FALSE
        /\ cpu' = PopInterruptOff(PushInterruptOff(cpu))
        /\ Goto(s, "wait_sched")
        /\ UNCHANGED <<pid, parent, xstatus, kernel_pid, localVars, current,
                       running, frames, panic>>

\* After sched(): awake, unlocked, and around the loop again.
KwaitWake(s) ==
    /\ At(s, "wait_resume")
    /\ sleep_channel' = [sleep_channel EXCEPT ![s] = None]
    /\ plock' = [plock EXCEPT ![s] = FALSE]
    /\ cpu' = PopInterruptOff(Restored(s))
    /\ Goto(s, "wait")
    /\ UNCHANGED <<state, pid, parent, xstatus, kernel_pid, klock, localVars,
                   current, running, frames, panic>>

-----------------------------------------------------------------------------
\* The three calls of sched().
Switch(s) ==
    \/ SchedSwitch(s, "yeld_sched", "yeld_resume")
    \/ SchedSwitch(s, "wait_sched", "wait_resume")
    \/ SchedSwitch(s, "exit_sched", "exit_resume")

\* Slot s gives up the hart and gets it back.
SwitchStep(s) == ForkRet(s) \/ Yeld(s) \/ Switch(s) \/ YeldReturn(s)

\* Slot s gets on with a system call.
CallStep(s) ==
    \/ OtherSyscall(s) \/ PrepareReturn(s)
    \/ KforkLock(s) \/ KforkAlloc(s) \/ KforkParent(s) \/ KforkRun(s)
    \/ KexitGuard(s) \/ KexitReparent(s) \/ KexitWakeup(s) \/ KexitZombie(s)
    \/ KwaitLock(s) \/ KwaitScan(s) \/ KwaitCopy(s) \/ KwaitSleep(s) \/ KwaitWake(s)

SchedStep ==
    SchedLoop \/ SchedLock \/ SchedDispatch \/ SchedAfter

Next ==
    \/ \E s \in Slots : UserSyscall(s) \/ UserTimer(s) \/ UserFault(s)
    \/ \E s \in Slots : SwitchStep(s) \/ CallStep(s) \/ SchedPick(s)
    \/ SchedStep
    \/ \E t \in Threads : KernelTrap(t) \/ KernelTrapReturn(t)
    \/ \E s \in Slots : PanicLoop(s)

Spec == Init /\ [][Next]_vars

\* The hart executes instructions: code with interrupts off gets on (WF).  A
\* timer period is much longer than any step here, so an interrupt cannot hit
\* the same step for ever (SF of SchedStep and CallStep).  The timer interrupt
\* stays pending until it is taken, so a process that has interrupts enabled
\* again and again is interrupted, in user mode or in the kernel.  The order
\* by quants passes over a Runnable process a bounded number of times (module
\* Scheduler).
Fairness ==
    /\ WF_vars(\/ \E s \in Slots : SwitchStep(s)
               \/ \E t \in Threads : KernelTrapReturn(t))
    /\ SF_vars(\E s \in Slots : UserTimer(s) \/ KernelTrap(s))
    /\ SF_vars(SchedStep)
    /\ \A s \in Slots : SF_vars(CallStep(s)) /\ SF_vars(SchedPick(s))

FairSpec == Spec /\ Fairness

-----------------------------------------------------------------------------
(* Properties.                                                              *)

PidsOrNone == Nat \cup {None}

\* The variables have the types of the fields they model.
TypeOK ==
    /\ state \in [Slots -> ProcStates]
    /\ pid \in [Slots -> PidsOrNone]
    /\ parent \in [Slots -> PidsOrNone]
    /\ sleep_channel \in [Slots -> PidsOrNone]
    /\ xstatus \in [Slots -> Nat]
    /\ plock \in [Slots -> BOOLEAN]
    /\ kernel_pid \in Nat
    /\ klock \in BOOLEAN
    /\ cpu \in CpuState
    /\ current \in Slots \cup {None}
    /\ running \in Threads
    /\ pc \in [Threads -> Labels]
    /\ frames \in [Threads -> Seq(Labels)]
    /\ saved_prev \in [Slots -> BOOLEAN]
    /\ found \in Slots \cup {None}
    /\ child \in [Slots -> Slots \cup {None}]
    /\ waited \in [Slots -> PidsOrNone \X Nat]
    /\ panic \in {"none"} \cup KernelPanics

\* The kernel's own assertions never fire, whatever the interrupts do: the
\* checks of sched(), the panic after sched() in kexit(), and the empty-stack
\* panic of pop_interrupt_off().
KernelAssertionsHold == panic \notin KernelPanics /\ cpu.off_stack >= 0

\* A trap can only be taken when nothing is locked: an interrupt handler may
\* print, allocate and switch away without meeting a lock of the code it
\* interrupted, and interrupt_prev_state is not in use when it is overwritten.
InterruptsOnlyUnlocked ==
    cpu.sie => /\ cpu.off_stack = 0
               /\ ~klock
               /\ \A s \in Slots : ~plock[s]

\* interrupt_off_stack counts the guards that are alive: the kernel lock, the
\* process locks, and the guard that kexit() holds around its middle steps.
LockAccounting ==
    cpu.off_stack = (IF klock THEN 1 ELSE 0)
                    + Cardinality({s \in Slots : plock[s]})
                    + (IF running \in Slots /\ pc[running] \in
                             {"exit_reparent", "exit_wakeup", "exit_zombie"}
                         THEN 1 ELSE 0)

\* No kernel stack ever holds two kernelvec frames: the pages of a stack do
\* not have to hold a pile of interrupted interrupt handlers.
TrapsDoNotNest == \A t \in Threads : Len(frames[t]) <= 1

\* A system call that holds no lock and is not itself inside a trap handler
\* runs with interrupts enabled: sched() gives a process back the interrupt
\* state it had, whichever processes ran in between.
InterruptsRestored ==
    \A s \in Slots :
        running = s /\ frames[s] = <<>> /\ pc[s] \in SyscallLabels => cpu.sie

\* CPU.current is the process on the hart, it is the only Running one, and
\* the scheduler takes interrupts only with CPU.current null (kerneltrap()
\* would otherwise yield a process from the scheduler's stack).
CurrentIsRunning ==
    /\ running \in Slots => current = running
    /\ running = Sched /\ cpu.sie => current = None
    /\ \A s \in Slots : state[s] = "Running" => s = current \/ s = found

\* Pids are unique, and every process other than init has a parent that is
\* still in the table: it is neither free nor itself a zombie.  (It may have
\* panicked and spin.)
FamilyTree ==
    /\ \A s, u \in Slots : pid[s] # None /\ pid[s] = pid[u] => s = u
    /\ \A s \in Slots : parent[s] # None =>
          \E u \in Slots : /\ pid[u] = parent[s]
                           /\ state[u] \notin {"Unused", "Zombie"}
    /\ \A s \in Slots : /\ state[s] \notin {"Unused", "Used"}
                        /\ pid[s] # 0
                        => parent[s] # None

\* No wakeup is lost: a process asleep in kwait() has a child to wait for and
\* no child that already is a zombie.
NoLostWakeup ==
    \A s \in Slots : state[s] = "Sleeping" =>
        /\ sleep_channel[s] = pid[s]
        /\ Kids(pid[s]) # {}
        /\ \A u \in Kids(pid[s]) : state[u] # "Zombie"

\* There is always a process to run: whenever the scheduler looks for one it
\* finds one, so that "no processes found" is never printed.  Not everybody
\* can be waiting for somebody.
SchedulerFindsWork ==
    running = Sched /\ pc[Sched] \in {"loop", "window", "pick"} =>
        \E s \in Slots : state[s] = "Runnable"

\* What wait() reports is a pid with the status that very process exited with.
ExitStatusDelivered ==
    \A s \in Slots : waited[s][1] # None => waited[s][2] = ExitStatusOf(waited[s][1])

\* Process s is inside kwait().
InWait(s) ==
    \/ pc[s] \in WaitLabels
    \/ \E i \in 1 .. Len(frames[s]) : frames[s][i] \in WaitLabels

\* A process that panicked with interrupts off has the hart for ever.
HartHalted == running \in Slots /\ pc[running] = "panic" /\ ~cpu.sie

\* kwait() ends once there is a zombie to reap: it returns, or panics over
\* the status pointer.  Panics of other processes in a system call do not
\* prevent it; only a fault in user mode does, which halts the hart.
WaitReturns ==
    \A s \in Slots :
        InWait(s) /\ (\E u \in Kids(pid[s]) : state[u] = "Zombie")
            ~> ~InWait(s) \/ HartHalted

\* A Runnable process runs, whatever the others do in the kernel: the ones
\* that spin in the panic handler with interrupts enabled are preempted.  Only
\* a fault in user mode, which halts the hart, is excepted.
RunnableRuns ==
    \A s \in Slots : state[s] = "Runnable" ~> state[s] = "Running" \/ HartHalted

=============================================================================
