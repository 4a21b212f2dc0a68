# A TLA+ model of the rust-baremetal kernel

`src/kernel` is a small single-hart RISC-V (rv32, S-mode) kernel in Rust in the
style of xv6: a fixed process table, fork/exec/wait/exit/write, preemption by the
timer in user *and* kernel mode, Sv32 page tables, a buddy heap. `src/user` holds a
C library and a few programs. This directory models the parts of the kernel whose
correctness depends on the order of events, checks them with TLC, and proves the
central invariants with TLAPS.

## 1. Inventory

| Component | State | Operations | Hard because |
|---|---|---|---|
| Interrupt discipline, locks (`kernel.rs` `Cpu`, `lock.rs`, `trap.rs`) | `sstatus.SIE`, `interrupt_off_stack`, `interrupt_prev_state`, one flag per `IntMutex` | push/pop_interrupt_off, lock, lock_manual, unlock_manual, guard drop, interrupt_on/off | the two `Cpu` fields are shared by all threads of the hart; locks are released by other threads than took them |
| Process life cycle (`process.rs`, `kernel.rs` `Kernel`, `sys_proc.rs`) | `process_table` (state, pid, parent, sleep_channel, xstatus), `Kernel::pid` | kfork, kexit, kwait, allocproc, reparent, wakeup, Process::free, yeld | sleep/wakeup races, zombies whose parent dies, slots that are reused |
| Scheduler (`process.rs`) | `CPU.current`, `CPU.context`, `found`, `quants` | scheduler, sched, switch, forkret | hand-over of locks and of the interrupt state across `switch`; starvation |
| Traps (`trap.rs`, `trampoline.rs`, `prepare_return`) | stvec, sepc, sstatus, satp, trapframe, kernelvec frames | uservec, usertrap, userret, kernelvec, kerneltrap | interrupts inside the kernel, a handler that switches away |
| Timer (`trap.rs`) | `time`, `stimecmp` | rearm | 32-bit arithmetic |
| Address spaces (`virtmemory.rs`) | page tables, `Uvm::size`, leaf entries | new, walk, map, unmap, free, clone, alloc, grow, load, init_proc | ownership of raw frames, the trapframe `Box` mapped by address |
| Heap (`allocator.rs`) | free lists | alloc, dealloc, FrameAllocator | exhaustion |
| User memory access (`virtmemory.rs`) | - | walkaddr, copy_in*, copy_out* | ranges across pages |
| System calls (`syscall.rs`, `sys_*.rs`) | argument registers | fork, exec, wait, exit, write | errors end in `unwrap()`, and a panic spins with interrupts as they are |
| Boot (`main.rs`, `Kvm`) | kernel page table, kernel stacks | main, Kvm::init, alloc_kstack | layout |
| Console (`uart.rs`), CSR macros (`csr.rs`) | - | output | - |
| User programs and library (`src/user`) | - | itoa, atoi, malloc, printf | - |

How they interact. One hart runs either `scheduler()` or the kernel thread of one
process (or its user code). `switch` moves between them; the process lock taken by
one side of a switch is released by the other. Every heap operation - so every
`print!`, `Vec` and `Box` - takes the heap's `IntMutex` and therefore pushes and pops
the interrupt state. System calls run with interrupts enabled, so a timer interrupt
may hit any of their instructions outside a lock; `kerneltrap` then yields.

What makes each part correct: interrupts never reach code that holds a lock; the
assertions of `sched()` never fire; a process gets its interrupt state back; no
wakeup is lost; a zombie always has someone to reap it, and reports its own status;
a Runnable process runs; a frame has one owner, the trapframe mapping points to the
process's trapframe, and an address space can be dropped without meeting a page
that is still mapped; registers and CSRs come back from every trap; the timer fires
when it was set; the page table is the function the kernel takes it for; system calls
read and write the memory the process meant. `PROJECT.json` lists the hazards line by
line.

## 2. Modules

| Module | Models | |
|---|---|---|
| `Cpu` | `Cpu`, `IntMutex`, `interrupt_on/off` | operators on the state of the hart, used by `Kernel` |
| `Kernel` | process table, fork/exit/wait, scheduler loop, traps, context switch | the core state machine |
| `KernelInv` | - | the inductive invariant of `Kernel` |
| `KernelProofs` | - | its proof and the theorems that follow: locks, interrupts, fork, exit, wait, and the refinement |
| `LifeCycle` | what fork, exit and wait promise | abstract specification |
| `KernelLife` | - | the refinement mapping from `Kernel` to `LifeCycle` |
| `Scheduler` | the order by `quants` | justifies the fairness of `Kernel` |
| `SchedulerProofs` | - | no starvation, for every table size |
| `Trap` | registers and CSRs through uservec, usertrap, userret, kernelvec, kerneltrap, switch, prepare_return | |
| `TrapProofs` | - | what user and kernel code find after a trap, for any number of processes |
| `Timer` | reading the time and writing stimecmp | the widths of the registers |
| `TimerProofs` | - | the timer is neither early nor late while the time fits a word |
| `Memory` | page frames, page tables, address spaces, fork/exec/exit/reap | who owns which frame |
| `MemoryProofs` | - | ownership and layout, for every table, heap and image size |
| `AddressSpace` | what a page table promises | abstract specification |
| `PageTable` | the words of the tables: new, walk, map, unmap, free, walkaddr | implements `AddressSpace` |
| `PageTableProofs` | - | the words are an address space, for every size of tables and heap |
| `UserMemory` | load, the argument block of exec, copy_in*, copy_out* | bytes of user memory |
| `UserMemoryProofs` | - | the copies, for every page size and argument list |
| `Layout` | Kvm::init, alloc_kstack, start_kvm | the kernel's address space |
| `LayoutProofs` | - | stacks, heap and text, for every number of slots |
| `MC...` | - | instances for TLC |

Definitions named as a *slip* in their comment are not part of the model: they are
plausible mistakes in the definition that follows, and `PROJECT.json` ("mutants")
pairs each property with a slip that violates it.

### Kernel

`pc[t]` is where thread `t` is (a slot of the table, or `Sched`), `running` the thread
on the hart. An action is the code between two points at which an interrupt could be
taken *if* interrupts were enabled there; whether one can is decided by `cpu.sie`,
which the model computes as the code does. So the atomicity of, say, the three steps
of `kexit()` is not assumed: it follows from the guard they run under, and
`KernelTrap` can hit wherever `cpu.sie` is true.

| Code | Actions |
|---|---|
| `usertrap`, `syscall` | `UserSyscall`, `UserTimer`, `UserFault`, `OtherSyscall` (write, exec) |
| `prepare_return`, `userret`, `forkret` | `PrepareReturn`, `ForkRet` |
| `kernelvec`, `kerneltrap` | `KernelTrap`, `KernelTrapReturn` |
| `yeld`, `sched`, `switch` | `Yeld`, `SchedSwitch`, `YeldReturn`, `KwaitWake` |
| `scheduler` | `SchedLoop`, `SchedLock`, `SchedPick`, `SchedDispatch`, `SchedAfter` |
| `kfork`, `allocproc` | `KforkLock`, `KforkAlloc`, `KforkParent`, `KforkRun` |
| `kexit`, `reparent`, `wakeup` | `KexitGuard`, `KexitReparent`, `KexitWakeup`, `KexitZombie` |
| `kwait`, `Process::free` | `KwaitLock`, `KwaitScan`, `KwaitCopy`, `KwaitSleep`, `KwaitWake` |
| `panic` | `Panic`, `PanicLoop` |

Locks are booleans, and taking a taken one is a disabled action: on one hart nobody
would ever release it, so such a state is a deadlock, which TLC looks for. The exit
status is tagged with the pid of the process so that `ExitStatusDelivered` can tell
statuses apart. `waited` records what the last `wait` of a slot returned.

A panic does not stop the kernel by itself. The panic handler (`main.rs:159`) prints and
loops, and it leaves SIE as it is. A process that panics in a system call (fork with a full
table, a bad pointer, an unknown program or number, exit of init) therefore spins at label
`"panic"` with interrupts enabled: the timer preempts it and the others go on, although
nobody can reap it. `kfork()` drops the kernel guard before `sys_fork()` panics. A fault in
user mode panics in `usertrap()` with interrupts off, and then nothing runs any more
(`HartHalted`). The variable `panic` is for the assertions of the kernel itself, which
`KernelAssertionsHold` shows unreachable. Panics for want of memory are in `Memory`,
external interrupts in `Trap`.

`KernelLife` gives the refinement mapping to `LifeCycle`, in which fork, exit and wait
take effect at once on a set of pids. The choice of the points at which they do is the
content of the proof: fork when `allocproc()` hands out the pid (until `kfork()` stores
the parent, the mapping takes the parent from the process that runs it), exit at
`reparent()`, wait at `Process::free` or at the scan that finds no child.

### Scheduler

`scheduler()` sorts the slots by `quants` and takes the first Runnable one. `Kernel`
lets any Runnable slot be picked, which contains every order; `Scheduler` models the
order alone, with any pattern of sleeping, waking, forking and exiting around it,
and shows that a waiting process is passed over only a bounded number of times.
That is why `Kernel` may assume strong fairness of `SchedPick(s)`.

### Memory

Frames are those the heap has left after boot. A `Uvm` is a root frame, up to two
second-level tables, leaf entries and the size. `kfork()` and the reaping in `kwait()`
hold the kernel lock (`locked`), so nobody moves in between; the steps of `kexec()`
interleave with all other processes, because it runs with interrupts enabled. Each
step allocates a page and, if `walk` needs one, a table, and the heap may be empty at
any of them. The drop of the old address space at `process.rs:238` is interruptible too:
`DropPage` gives a page back (`virtmemory.rs:361`), `DropPte` clears its entry (`:364`), and
in between the page may be free or somebody else's. `Old(s)` and `New(s)`, from which
ownership is counted, leave out that one entry; `TrapframeIsMapped` and `UserLayout` leave
out a process that is in this drop, which cannot enter user mode before it ends. When `?`
fails in `kexec()` the half-built space is dropped in the same steps (`ExecErr`,
`WorkDropped`) before the caller's `unwrap()` panics, and `ForkInitProc` drops the child's,
with interrupts off. `unwrap()` at `process.rs:205` panics on the spot, so there the space
stays as it is for ever. A process that panicked keeps its frames, and the others go on
unless interrupts are off. `Reap` may be done by any process in user mode; who may reap whom is the
business of `Kernel`. `lost` is a history variable: the second-level tables of address
spaces that were dropped. Which free frame the buddy allocator (an external crate)
hands out is fixed as the lowest; the properties do not depend on it. Page contents and
PTE bit positions are the subject of `PageTable` and `UserMemory`; the alignment checks
of `map`, which no caller fails, are left out.

### Trap

The hart is a mode, an address, four groups of registers (by who saves them) and the
CSRs sie/spie/spp, sepc, scause, stvec and satp. `TakeTrap` and `Sret` are what RISC-V
does; every other action is what the code does to the registers, the CSRs, the
trapframe, the contexts of `switch()` and the frames that kernelvec and `kerneltrap()`
keep on a stack. Values are tokens that name their owner. `Self` is the owner of the
stack in use, `current` is `CPU.current`: the code goes by one, the handlers by the
other, and `CurrentOwnsStack` says that they agree. `interrupt_off()` is two actions,
since the read-modify-write of sstatus can be interrupted. `user` records what a process
must find when it is back in user mode, `interrupted` what kernel code must find after
an interrupt. Which process may run when is left to `Kernel`: here any process that is
not free may be picked. User code may take any trap: an ecall, the timer, or another cause
(a fault, an external interrupt, which `init_trap()` enables), which ends in the panic of
`usertrap()`; kernel code may be hit by the timer and by external interrupts, on which
`kerneltrap()` panics. Both have interrupts off (`"halt"`). System calls may panic too
(`CallPanics`), and then spin with interrupts enabled. `HandlersAccept` is about the checks
that come before scause is looked at: mode, interrupts, current process.

### Timer

`time` is the full counter; `time % WORD` is what a 32-bit read gives. `stimecmp` is the
lower half of a compare register whose upper half nothing writes. `checks` says whether
the build checks overflow (the development profile does). `due` is the time that the
handler prints, in full. `MaxDelay` and `MaxStep` bound how long a handler takes from its
read of the time, and how long the first instruction after it takes; `ran` records whether
one ran since the last handler.

### PageTable

Tables are words in frames, with the flag and offset positions of the code and `Entries`
words per table instead of 1024, so that a machine word has `Entries * Entries * PAGESIZE`
values instead of 2^32. Frames keep what their last owner wrote, and users write
words that look like entries. `Sv32` is the hardware's translation; the refinement
mapping to `AddressSpace` applies it to every page.

### UserMemory

Physical memory byte by byte, with bytes that say where they come from. The address
space is the image, the guard page and the stack page of `kexec()`, in frames that need
not be neighbours, and, above a gap, the trapframe and the trampoline, which `init_proc`
maps without PTE_U. `walkaddr` asks for V and one of R, W and X, not for U, so the copies
reach these two pages as well when a system call names them: they read them, and `wait`
writes its status to the trapframe page; a store to the trampoline faults in the kernel,
because the text is read-only. Pointers may be any address (`Passed`). `flat` is memory as
seen through the table of the process. `Layouts` are the frames that the heap may give:
five of them in the runs, with neighbours in either order and scattered, any in the proofs.
`CrossPages` restricts the ranges that programs pass to single pages; without the
restriction the copies are wrong (see 6).

### Layout

Addresses are page numbers and the kernel's page table is the function it stands for.
The device, text, data and heap are mapped to themselves, the trampoline at the top, the
stacks of the slots below it; which frames the heap gives is arbitrary.

## 3. Runs

| Run | Instance | States | Shows |
|---|---|---|---|
| `kernel_safety` | 3 slots, fork while `kernel.pid <= 3` | 472,106 | 11 invariants, `ImplementsLifeCycle`, no deadlock |
| `kernel_live` | 2 slots, `MaxPid = 3` | 6,876 | `WaitReturns`, `RunnableRuns` |
| `scheduler_order` | 3 slots, `quants <= 4` | 12,455 | `BoundedBypass` |
| `memory_safety` | 2 slots, 20 frames, images of 1 or 2 pages | 612,962 | 6 invariants, no deadlock |
| `memory_leak` | 2 slots, 24 frames, images of 1 page | - | a counterexample, see 6 |
| `trap` | 2 processes, programs of 2 instructions | 5,209,749 | 4 invariants, `InterruptIsTransparent`, no deadlock |
| `timer` | words of 32 values, period 5, 26 ticks | 7,190 | `TimerNotEarly`, `TimerNotLate`, `InstructionsInBetween` |
| `timer_wrap` | the same, 70 ticks | - | a counterexample, see 6 |
| `page_table` | tables of 4 entries, 5 frames | 63,293 | `WalkaddrAgrees`, `TablesArePrivate`, `ImplementsAddressSpace` |
| `user_memory` | pages of 12 bytes, words of 2, 2 arguments of up to 5 bytes, 5 choices of frames | 8,665 | 4 invariants |
| `user_memory_cross` | the same, ranges may cross pages | - | a counterexample, see 6 |
| `layout` | 2 slots, a heap of 9 frames | 34,310 | `StacksAreGuarded`, `HeapIsIdentityMapped`, `TextIsReadOnly` |

Bounds. With three slots init, a child and a grandchild exist at once, so parents die
before children, zombies go to init while it sleeps, and the table is full; pids up
to 4 make a slot be freed and used again. Two slots and four pids are enough for a parent
that waits, an exit that races it, and a slot that is reused; a third slot takes the
liveness run beyond a few minutes. `MaxQuants = 4` lets a slot fall behind and be
overtaken by two others (the run stops at the bound, hence no deadlock check). Twenty
frames hold two processes and an exec in progress, and run out after a few more
operations, so the run ends in exhaustion at every allocation.

`trap`: with two processes one can be interrupted in a system call while the other traps,
calls and is interrupted too, which overwrites every CSR; two instructions are enough to
tell `epc` from `epc + 4`. `timer`: the period is well below the word, a handler takes up to
3 ticks and the first instruction after it one more; 26 ticks are the last that keep the sum
within a word, and hold five periods. The properties are about single steps, so that time
stops at the bound excuses nothing.
`page_table`: the ranges start at the last page of one table, the first of the next, and
at the end; five frames run out in the middle of a `map`. The run may stop when the heap is
empty, where `new()` panics. `user_memory`: a page holds two arguments with their pointers
or is too small for them; one image fills its page, one breaks off in its second page; one
write after exec (`MaxOps`) puts a NUL or a status anywhere. `layout`: two stacks make
neighbours. In the last two the program stops after its work, hence no deadlock check.

Properties:

- `KernelAssertionsHold` - the panics of `sched()`, of `pop_interrupt_off()` and after
  `sched()` in `kexit()` are unreachable.
- `InterruptsOnlyUnlocked` - when an interrupt can be taken nothing is locked. This is
  why `println!` (which locks the heap) in `yeld()` is safe in a trap handler although
  `uart.rs:14` calls heap allocation there unsafe: the state it would corrupt is not in
  use when a trap can be taken.
- `LockAccounting`, `TrapsDoNotNest`, `InterruptsRestored`, `CurrentIsRunning` - see the
  comments in `Kernel.tla`.
- `FamilyTree`, `NoLostWakeup`, `ExitStatusDelivered` - the fork/exit/wait protocol.
- `SchedulerFindsWork` - the branch "no processes found" of `scheduler()` is never taken:
  the only way to sleep is `kwait()`, and a chain of waiting parents ends in a process
  that can run.
- `WaitReturns`, `RunnableRuns` - liveness, also while other processes spin in the panic
  handler with interrupts enabled; only a halted hart is excepted.
- `BoundedBypass` - the order of the scheduler.
- `FramesAreExclusive`, `OnlyTablesGetLost`, `TrapframeIsMapped`, `UserLayout`,
  `DropsAreClean` - frames and address spaces, in the drops of the error paths and between
  the steps of an interrupted drop too.
- `ImplementsLifeCycle` - processes see fork, exit and wait as single steps, whatever the
  interrupts and the scheduler do.
- `UserContextRestored`, `InterruptIsTransparent` - user code and interrupted kernel code
  find their registers, address and page table again, however many switches and traps lie
  between. `TrapVectorFits`, `HandlersAccept`, `CurrentOwnsStack` - a trap always meets the
  right vector, page table and stack, and no handler finds a mode, an interrupt state or a
  current process that it panics on. The panic on an unknown cause is reachable.
- `TimerNotEarly`, `TimerNotLate` - the next timer interrupt comes at the time that the
  handler printed; `InstructionsInBetween` - between two timer interrupts some instruction
  runs with interrupts enabled, so the handlers do not eat up the hart.
- `ImplementsAddressSpace`, `WalkaddrAgrees`, `TablesArePrivate` - the words of the tables
  mean the same to the kernel and to the hardware, `map` and `unmap` change their range
  only, and no table is ever in the hands of a user or of the heap.
- `WritesReachTheUser`, `ReadsComeFromTheUser`, `ImageIsLoaded`, `ArgumentsArrive` - what the
  kernel copies is what the table of the process maps at the address it was given, and it
  touches no frame that this table does not map. Nothing is said about PTE_U: the trapframe
  and the trampoline are reached like other pages (see UserMemory above).
- `StacksAreGuarded`, `HeapIsIdentityMapped`, `TextIsReadOnly` - the kernel's address space.

Fairness, `kernel_live`. Code with interrupts off gets on: weak fairness of the
switching steps and of the return from `kerneltrap`. A step with interrupts enabled
may be interrupted, but not for ever at the same place, since the timer is rearmed a
million ticks ahead and a step is a few instructions: strong fairness of the steps of a system call
and of the scheduler. A pending timer interrupt stays pending until it is taken:
strong fairness of the timer. `SchedPick(s)` is strongly fair by module `Scheduler`.
User programs are not fair: they need not call anything.

A process in the panic handler has no step of its own; the timer takes the hart from it
if its interrupts are on.

`timer` needs no fairness. That a handler and the first instruction after it take less than
the period (`MaxDelay + MaxStep < PERIOD`) is an assumption on the hardware that
`InstructionsInBetween` needs: a handler prints some 200 bytes, and the period is a million
ticks, 0.1 s at QEMU's 10 MHz. `timer_wrap` states the fairness of a hart that executes, so
that its counterexample is no hart that stopped.

## 4. Proofs

`KernelProofs` proves `Spec => []Inv` for every `NPROC >= 1` and every `MaxPid` (so for
any number of forks), and from it `TypeCorrect`, `AssertionsNeverFire`,
`TrapsMeetNoLock`, `GuardsAreCounted`, `OneTrapFrame`, `InterruptsComeBack` and
`CurrentIsOnHart`, each of which states a property that `kernel_safety` checks.

None of these properties is inductive: that `sched()` finds exactly one guard depends
on where every other thread is. `Inv` (module `KernelInv`) therefore says, label by
label, what holds of the thread on the hart and of the parked ones:

- `ControlInv` - one thread runs, all others are parked at labels `switch` returns to;
  `current`, `found` and the scheduler's label agree with it;
- `StateInv` - the label of a thread determines the state of its process (a parked
  thread at `exit_resume` is a Zombie, at `none` is Unused, ...);
- `LockInv` - which locks are taken, the value of `interrupt_off_stack` and SIE, as
  functions of the label of the running thread;
- `SavedInv` - `interrupt_prev_state`, on the hart and saved by `sched()`, is true in
  system calls and false in handlers and new processes;
- `FrameInv` - at most one kernelvec frame, and only under a handler;
- `PidInv` - pids are unique and below `Kernel::pid`.

There is one lemma per action (`...Keeps`); the lemmas `...Step` before them say how one
conjunct survives a step of a given shape.

The second part of `KernelProofs` goes on from `Inv` with `FamilyInv` and proves `EverybodyHasAParent`,
`NoWakeupIsLost`, `StatusesArrive` and `SomebodyCanRun`:

- `RootInv` - init stays in slot 0 and never ends;
- `TreeInv` - the parent of a process is a process that has not started to end, and is
  older: its pid is smaller;
- `SleepInv` - a process that sleeps, or has decided to, has a child and none that it could
  reap; the parent of a process that is about to become a zombie is awake. The second part
  is why no wakeup is lost: `kexit()` wakes the parent *before* the state changes, and the
  kernel lock keeps the parent from scanning in between;
- `StatusInv` - a zombie keeps its own status, and so does the answer of `wait`.

Most actions leave the family alone (`Calm`), and one lemma deals with all of them. That the
scheduler finds work needs the age of parents: if nobody were Runnable, the youngest sleeper
would have a child that is no zombie, so it would sleep too and be younger still.

`KernelImplementsLifeCycle` states the whole refinement, `Spec => ImplementsLifeCycle`, where
`LifeCycle` has no fairness. There is one step per action of `Kernel`: `KforkAlloc` maps to a
fork, `KexitReparent` to an exit, `KwaitScan` to a wait that reaps or fails (or to nothing,
when the process is going to sleep), all others to a stutter. It needs `FamilyInv` (the abstract fork takes the parent that `kfork()` stores a step
later) and `AnswerInv`: a slot whose process has called exit, or that is free,
holds no answer of an earlier `wait`, so a new process starts without one.

`MemoryProofs` proves `MemoryIsTyped`, `Isolation`, `LeaksAreTables`, `TrapframesAreMapped`,
`LayoutIsKept` and `NoPanicInDrop`. Its `Inv` has `ControlInv` (who holds the kernel lock and
which slot is being filled), and for every slot `TidyInv` (what is mapped lies below the size
and is the user's), `WorkInv` (how far the space that fork or exec builds has come: the pages
copied so far, the image pages allocated so far) and `LayoutInv` (what a space that runs, or
that nobody uses, looks like). During a drop `TidyInv` goes on to hold of what is left, and
`WorkInv` of the space that waits to take its place. `FramesAreExclusive` and `OnlyTablesGetLost` are kept by an
accounting argument: lemma `Transfer` says that a step which hands frames from one owner to
another, and leaves the rest of the owners alone, keeps both; each action is shown to be such
a transfer. Ownership is counted from `Old` and `New`, so a page changes hands when unmap
gives it back and not when its entry is cleared: `DropPage` is a transfer to the free list,
`DropPte` moves nothing. `PanicKeeps` deals with all panics that leave a space as it is,
`DropWorkInv` and `ExecErrInv` with those that drop it first. `DropsAreClean` rests on `TidyInv`: `Uvm::free` unmaps as many pages as the size
says, so a mapped page beyond it would be met by `PageTable::free`, and it holds at every step of the
construction, where an error may end it.

`TrapProofs` proves `UserNeverNotices`, `VectorsFit`, `HandlersNeverReject`, `CurrentIsRight`
and the action property `InterruptsAreTransparent`. `Inv` describes the hart place by place
(`HartInv`): which of the registers and CSRs are already saved, set or restored at each label
from uservec to userret and from kernelvec to its end. All other processes are `Idle`: their
context leads to forkret, to a sleep in `kwait()` or into `yeld()`, and a context in `yeld()`
under `kerneltrap()` has exactly one frame on its stack, which holds what was interrupted
(`Nested`). That there is only one is what makes one copy of sepc and sstatus enough.

`UserMemoryProofs` proves `WritesStayInside`, `ImageArrives`, `ArgumentsAreFound` and
`ReadsAreTheUsers` for every page size, alignment, image, number and length of arguments,
and every choice of frames, on the assumption `~CrossPages`: ranges of user programs do not
cross pages. Run `user_memory_cross` shows that it is needed; the ranges that the kernel
chooses itself are not restricted, and that the argument block stays within the stack page
is part of the proof. `Inv` follows the stack downwards (`StackInv`: `sp` is the end
of the stack minus the padded lengths so far, and everything placed lies above it), says what
the process sees in its memory so far (`ContentsInv`) and that physical memory agrees
(`WritesReachTheUser`). The sum of the padded lengths is a recursive function; the two facts
needed of it, that it is a natural number and grows, are shown by the least counterexample.

`PageTableProofs` proves `WordsAreAnAddressSpace` (the whole refinement, `Spec =>
ImplementsAddressSpace`), `SoftwareWalkAgrees` and `TablesAreNobodyElses`, for every number of
entries per table, every heap and every choice of ranges, if the addresses of the heap and of
the image fit a machine word (`PageTableAssumption`). None of them is inductive: that a `map()`
changes no other translation depends on the frame it writes being nobody's page and no other
table. The argument is about a root `r`, a memory `m` and a set `out` of frames:

- `RootGood(r, m, out)` - every word of the root that is not zero is a link, with no rights,
  to a table in the heap; the tables are different from each other, from the root and from
  the frames of `out`;
- `LeavesGood(r, m, out)` - every word of a table that is not zero is a page of the image,
  readable and executable, or a page of the user's in a heap frame that is no table, is not in
  `out` and is mapped once;
- `Inv` is `Good(root, mem, free)`, both together, whenever there is a page table. Between
  two steps `out` is the free list; while `Uvm::alloc` works, it also holds the frame that has left the
  free list but is not mapped yet.

`AddTable`, `SetLeaf`, `ClearLeaf` and `WriteFrame` say what each change of a word does to
`Good` and to the meaning of every place of the tree. The loops of `map()` and `unmap()` are
unfolded for the one or two pages that the model maps at a time, and a failure of `walk` in
the middle leaves the first page mapped, as `AddressSpace` allows. `WordParts`, `WordTests` and
`PteFacts` give the fields of a word, `VpnFacts` those of an address. `SvIsView` joins the
two: for a tree that is `Good`, the hardware's translation of a page is the meaning of its
place. `walkaddr` agrees with it at every byte of a page (`WalkaddrFacts`), not only at the
two that the run tries.

`SchedulerProofs` proves `NoStarvation` for every `NPROC` and `MaxQuants`.

`TimerProofs` proves `AnnouncedTimeHolds` and `PreemptionInTime` for every word, period and
delay, on the assumption `MaxTime + PERIOD < WORD` that run `timer_wrap` shows to be needed,
and `HandlersLeaveTime` if also `MaxDelay + MaxStep < PERIOD`.
The inductive invariant `TimerInv` says that `stimecmp` holds the announced time in full
whenever interrupts are enabled, and that no sum overflows.

`LayoutProofs` proves `KernelStacksSafe`, `HeapReachable` and `TextProtected` for every number
of slots and every choice of frames, if image, heap, stacks and trampoline lie in this
order (`LayoutAssumption`). `LayoutInv` says which stacks are placed, that their frames
left the heap, that all other pages between memory and trampoline are unmapped, and that
the image and the heap keep their mappings.

The assumptions are those on the constants, named in the modules that declare them, and
those given above. `NPROC` is a positive number everywhere; a heap holds at least the two
frames per slot that boot takes from it (`NframesAssumption`); images have at least one page
and, in `UserMemory`, at most two; pages are a whole number of alignments and
alignments of words. Every inductive invariant was checked with TLC, on the instance of the
run of its module, before it was proved.

Only model-checked is liveness (`WaitReturns`, `RunnableRuns`): fairness is outside the
prover's reach.

## 5. Not modelled

- The console (`uart.rs`, `print!`, `kprint!`): bytes sent to a device in order. That
  `print!` takes the heap lock is part of the actions of `Kernel` that print.
- The fields `tp` and `hartid`, which are saved but used by nothing, and the `Csr` enum.
- `Uvm::dealloc`, `Process::sleep`, `ProcState::Delete` and the stubs in `sys_proc.rs`:
  nothing calls or assigns them. System call numbers without a handler panic.
- `quants` as a 32-bit word: at ten picks a second it overflows after 13 years.
- The user programs and their library. A user program is any sequence of system calls,
  faults and interrupts; the library is sequential C after xv6, and its malloc needs sbrk,
  which the kernel does not implement.
- The spin mutex and the buddy allocator are external crates, modelled by how they
  are used.

## 6. Findings

- `memory_leak`. `PageTable::free` promises to "free all 2nd level page tables"
  (`virtmemory.rs:230`). `free_req` visits them and clears their first word but never
  deallocates them; the run shows two frames that are neither free nor owned after the
  first time an address space is replaced. A round of fork, exec and wait, as in the
  endless loop of `user/init.c`, loses four pages. `OnlyTablesGetLost` (run `memory_safety`)
  shows that nothing else is lost.
- `timer_wrap`. The handler prints "next timer on" (`trap.rs:149`) and writes the lower
  word of `time + 1000000` to stimecmp; stimecmph is never written. One period before `time`
  reaches 2^32, seven minutes at 10 MHz, the sum no longer fits: a development build panics
  there, a release build writes the remainder and takes the next interrupt at once, which is
  what the run shows. Past 2^32 the compare register, whose upper word stays 0, is always
  below `time`.
- `user_memory_cross`. `copy_in_cont` ("Copy continuous bytes", `virtmemory.rs:645`) and its
  relatives translate the first address only. The part of a range that lies in the next
  page is read from, or written to, the next physical frame.

Met on the way, without a run of their own:

- `kwait` frees the zombie before it copies the status out (`process.rs:293`, `:317`). If the
  copy fails the parent panics, the status is lost and the kernel goes on.
- `load` (`virtmemory.rs:611`) copies a whole page for the last, shorter chunk of an image,
  so the rest of the page holds what follows the image in the kernel (`Rodata`).
- `kexec` copies arguments without a terminating NUL into a stack page that is not
  cleared, while `user/prime.c:19` reads `argv[0]` as a C string; an empty first argument
  makes exec fail, and `sys_exec` unwraps the error (`ArgumentsArrive` states both cases in
  which exec fails).
- The comment at `process.rs:216` says 16-byte alignment, the mask aligns to 8.
- The note at `virtmemory.rs:380` draws a guard between the trampoline and the first
  kernel stack; there is none, as `memory_map.md` shows. The guards below the stacks are
  there (`StacksAreGuarded`).

## 7. Plan

1. Done: `Cpu`, `Kernel`, `Scheduler`, `Memory` and the proofs about `Kernel` and `Scheduler`.
2. Done: `LifeCycle` and its refinement, `Trap`, `Timer`, `AddressSpace` and `PageTable`,
   `UserMemory`, `Layout`, and the proofs about `Timer` and `Layout`.
3. Done: the proofs about fork, exit and wait and that `Kernel` implements `LifeCycle`
   (`KernelProofs`), and those about `Memory`, `Trap` and `UserMemory`.
4. Done: the proofs about `PageTable`, for every size of tables, with the refinement to
   `AddressSpace`.
