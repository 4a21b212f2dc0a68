-------------------------------- MODULE Trap --------------------------------
(***************************************************************************)
(* Registers and CSRs through traps: what uservec, usertrap(), userret,    *)
(* kernelvec, kerneltrap(), switch() and prepare_return() save, overwrite  *)
(* and restore (trap.rs, trampoline.rs, trapframe.rs, process.rs).         *)
(*                                                                         *)
(* The hart is a privilege mode, an address, registers and the CSRs of     *)
(* S-mode; the hardware's part is TakeTrap and Sret.  Registers are        *)
(* grouped by who saves them: a0, which returns results and which uservec  *)
(* needs first (a1, which kexec() sets too, goes with it); tmp, the other  *)
(* caller-saved ones (kernelvec); cs, the callee-saved ones (switch());    *)
(* and sp.  Values are tokens that say whose they are, so that a mix-up    *)
(* shows.                                                                  *)
(*                                                                         *)
(* Kernel code acts for the process whose kernel stack it is on (Self);    *)
(* CPU.current is what the handlers go by.  A system call is any mix of    *)
(* code with interrupts enabled, code under a lock and sleeping.  Which    *)
(* process may run when is the subject of module Kernel.                   *)
(*                                                                         *)
(* A panic loops in the panic handler with SIE as it is: "panic" is that   *)
(* loop in a system call, which the timer interrupts, "halt" the same with *)
(* interrupts off, from where nothing happens any more.                    *)
(***************************************************************************)
EXTENDS Integers, Sequences

CONSTANTS
    NPROC,      \* slots of the process table
    NPC         \* bound: user programs are loops of NPC instructions

ASSUME NprocAssumption == NPROC \in Nat \ {0}
ASSUME NpcAssumption == NPC \in Nat \ {0}

None    == -1
Procs   == 0 .. NPROC - 1
Sched   == NPROC
Threads == 0 .. NPROC

\* Addresses: user instructions, and places in the kernel.
User(n) == <<"user", n>>
Kern(l) == <<l, 0>>
After(a) == User((a[2] + 1) % NPC)      \* epc + 4

\* Values of registers: of user p at instruction n; of kernel thread t; a
\* value that nobody needs.
U(p, n) == <<"user", p, n>>
K(t)    == <<"kernel", t, 0>>
Junk    == <<"junk", 0, 0>>
Sp(t, d) == <<"stack", t, d>>           \* the stack of t, d frames deep

\* satp: the kernel's page table, or generation b of process p.
KernelSatp    == <<"kernel", 0, 0>>
UserSatp(p, b) == <<"user", p, b>>

VARIABLES
    mode, pc, reg, csr,     \* the hart
    current,                \* CPU.current
    tf,                     \* Process::trapframe
    ctx,                    \* Process::context, and CPU.context for Sched
    stack,                  \* frames of kernelvec and kerneltrap() on each stack
    pt,                     \* the generation of Process::pagetable
    ready,                  \* the processes that scheduler() may pick
    user,                   \* history: what process p must find in user mode
    interrupted             \* history: where an interrupt hit kernel thread t

procVars == <<tf, ctx, pt, ready, user>>
vars == <<mode, pc, reg, csr, current, stack, interrupted, procVars>>

\* The process or scheduler on whose stack the hart is.
Self == reg.sp[2]

At(l) == mode = "S" /\ pc = Kern(l)

\* Kernel code of thread t, with its own values in the registers.
Working(t) == [a0 |-> K(t), tmp |-> K(t), cs |-> K(t), sp |-> Sp(t, 0)]

\* uservec needs the page table of a user, where TRAPFRAME is mapped.
UservecAccepts == csr.satp[1] = "user"

\* The checks by which usertrap() and kerneltrap() panic before they look at
\* scause.
UsertrapAccepts   == current # None /\ csr.spp = "U" /\ ~csr.sie
KerneltrapAccepts == csr.spp = "S" /\ ~csr.sie

\* What the bits of sstatus are read as, and written back from.
Sstatus(c) == <<"sstatus", c.spp, c.spie>>
WithSstatus(c, v, on) == [c EXCEPT !.spp = v[2], !.spie = v[3], !.sie = on]

Nowhere == [pc |-> Kern("none"), reg |-> <<>>]      \* no interrupt is being handled

-----------------------------------------------------------------------------
(* The hardware.                                                            *)

\* A trap is taken: the interrupted address and mode are kept, interrupts
\* are disabled, and execution goes on at stvec.
TakeTrap(cause) ==
    /\ csr' = [csr EXCEPT !.sepc = pc, !.spp = mode, !.spie = csr.sie,
                          !.sie = FALSE, !.scause = cause]
    /\ mode' = "S"
    /\ pc' = csr.stvec

\* sret with the CSRs c.
Sret(c) ==
    /\ csr' = [c EXCEPT !.sie = c.spie, !.spie = TRUE, !.spp = "U"]
    /\ mode' = c.spp
    /\ pc' = c.sepc

-----------------------------------------------------------------------------
\* Slip: kernel_sp is left as it was copied from the parent's trapframe.
ReturnFrameOfParent(f, p) ==
    [f EXCEPT !.kernel_satp = csr.satp, !.trap_handler = Kern("usertrap")]

\* What prepare_return() writes to the trapframe f for the next trap.
ReturnFrame(f, p) ==
    [f EXCEPT !.kernel_satp = csr.satp, !.kernel_sp = Sp(p, 0),
              !.trap_handler = Kern("usertrap")]

Context(ra, sp, cs) == [ra |-> ra, sp |-> sp, cs |-> cs]

\* allocproc(): a new process starts in forkret() with an empty stack.
NewContext(p) == Context(Kern("forkret"), Sp(p, 0), Junk)

EmptyFrame == [epc |-> User(0), kernel_satp |-> KernelSatp, kernel_sp |-> Sp(None, 0),
               trap_handler |-> Kern("none"),
               a0 |-> Junk, tmp |-> Junk, cs |-> Junk, sp |-> Junk]

\* The user's part of trapframe f.
UserPart(f) == [pc |-> f.epc, a0 |-> f.a0, tmp |-> f.tmp, cs |-> f.cs, sp |-> f.sp]

\* init_trap() and start_kvm() have run, init is loaded, scheduler() starts.
Init ==
    /\ mode = "S" /\ pc = Kern("sched") /\ reg = Working(Sched)
    /\ csr = [sie |-> FALSE, spie |-> FALSE, spp |-> "U", sepc |-> User(0),
              scause |-> "none", stvec |-> Kern("kernelvec"), satp |-> KernelSatp]
    /\ current = None
    /\ tf = [p \in Procs |-> EmptyFrame]
    /\ ctx = [t \in Threads |-> NewContext(t)]
    /\ stack = [t \in Threads |-> <<>>]
    /\ pt = [p \in Procs |-> 0]
    /\ ready = {0}
    /\ user = [p \in Procs |-> UserPart(EmptyFrame)]
    /\ interrupted = [t \in Threads |-> Nowhere]

-----------------------------------------------------------------------------
(* User mode.                                                               *)

\* One instruction of the current process changes its registers.
UserStep ==
    /\ mode = "U" /\ pc[1] = "user"
    /\ LET n == After(pc)
           v == U(current, n[2])
       IN  /\ pc' = n
           /\ reg' = [a0 |-> v, tmp |-> v, cs |-> v, sp |-> v]
           /\ user' = [user EXCEPT ![current] =
                         [pc |-> n, a0 |-> v, tmp |-> v, cs |-> v, sp |-> v]]
    /\ UNCHANGED <<mode, csr, current, stack, interrupted, tf, ctx, pt, ready>>

\* An ecall, the timer, which U-mode cannot mask, or anything else: a fault of
\* the program or an external interrupt, which init_trap() enables.
UserTrap ==
    /\ mode = "U"
    /\ \E cause \in {"ecall", "timer", "other"} :
          /\ TakeTrap(cause)
          /\ user' = IF cause = "ecall" THEN [user EXCEPT ![current].pc = After(pc)]
                                        ELSE user
    /\ UNCHANGED <<reg, current, stack, interrupted, tf, ctx, pt, ready>>

\* Slip: a0 is stored after it was made to point to the trapframe.
SaveClobbered(f) == [f EXCEPT !.a0 = Junk, !.tmp = reg.tmp, !.cs = reg.cs, !.sp = reg.sp]

\* uservec stores the registers of the user, a0 by way of sscratch.
SaveUser(f) == [f EXCEPT !.a0 = reg.a0, !.tmp = reg.tmp, !.cs = reg.cs, !.sp = reg.sp]

\* uservec: at TRAPFRAME it finds the trapframe that the page table in satp
\* maps there, saves the user's registers, and takes the kernel's stack, page
\* table and handler from it.  (No copy of the user's satp is left then: the
\* count of its generations can start again.)
Uservec ==
    /\ At("uservec") /\ UservecAccepts
    /\ LET p == csr.satp[2]
           f == tf[p]
       IN  /\ tf' = [tf EXCEPT ![p] = SaveUser(@)]
           /\ reg' = [a0 |-> Junk, tmp |-> Junk, cs |-> reg.cs, sp |-> f.kernel_sp]
           /\ csr' = [csr EXCEPT !.satp = f.kernel_satp]
           /\ pc' = f.trap_handler
           /\ pt' = [pt EXCEPT ![p] = 0]
    /\ UNCHANGED <<mode, current, stack, interrupted, ctx, ready, user>>

\* Slip: stvec is left at uservec while the kernel runs.
EntersLate(call) == [csr EXCEPT !.sie = call]

\* The CSRs as usertrap() sets them: traps go to kernelvec from here on, and a
\* system call runs with interrupts enabled.
Enters(call) == [csr EXCEPT !.stvec = Kern("kernelvec"), !.sie = call]

\* usertrap() up to the call of the handler: epc is kept in the trapframe,
\* behind the ecall for a system call.  An unknown cause is a panic with
\* interrupts off.
Usertrap ==
    /\ At("usertrap") /\ UsertrapAccepts
    /\ LET call == csr.scause = "ecall"
       IN  /\ tf' = [tf EXCEPT ![current].epc =
                        IF call THEN After(csr.sepc) ELSE csr.sepc]
           /\ csr' = Enters(call)
           /\ pc' = Kern(CASE call -> "syscall"
                           [] csr.scause = "timer" -> "yeld"
                           [] OTHER -> "halt")
    /\ reg' = Working(Self)
    /\ UNCHANGED <<mode, current, stack, interrupted, ctx, pt, ready, user>>

-----------------------------------------------------------------------------
(* The system call.                                                         *)

\* interrupt_off() reads sstatus and then writes it: an interrupt may come in
\* between.  Here the first half, for a lock and for prepare_return().
InterruptOffRead ==
    /\ At("syscall") \/ At("ret")
    /\ reg' = [reg EXCEPT !.tmp = Sstatus(csr)]
    /\ pc' = Kern(IF pc = Kern("ret") THEN "ret_off" ELSE "lock_off")
    /\ UNCHANGED <<mode, csr, current, stack, interrupted, procVars>>

InterruptOffWrite ==
    /\ At("lock_off") \/ At("ret_off")
    /\ csr' = WithSstatus(csr, reg.tmp, FALSE)
    /\ reg' = Working(Self)
    /\ pc' = Kern(IF pc = Kern("ret_off") THEN "prepare" ELSE "locked")
    /\ UNCHANGED <<mode, current, stack, interrupted, procVars>>

\* The lock is released, which enables the interrupts again.
Unlock ==
    /\ At("locked")
    /\ csr' = [csr EXCEPT !.sie = TRUE]
    /\ pc' = Kern("syscall")
    /\ UNCHANGED <<mode, reg, current, stack, interrupted, procVars>>

\* write and wait are done: their value goes to a0.
CallReturns ==
    /\ At("syscall")
    /\ tf' = [tf EXCEPT ![Self].a0 = K(Self)]
    /\ user' = [user EXCEPT ![Self].a0 = K(Self)]
    /\ pc' = Kern("ret")
    /\ UNCHANGED <<mode, reg, csr, current, stack, interrupted, ctx, pt, ready>>

\* A call panics: over an argument, an unknown number, or under a lock.
CallPanics ==
    /\ \/ At("syscall") /\ pc' = Kern("panic")
       \/ At("locked") /\ pc' = Kern("halt")
    /\ UNCHANGED <<mode, reg, csr, current, stack, interrupted, procVars>>

\* The loop of the panic handler.
PanicLoop == (At("panic") \/ At("halt")) /\ UNCHANGED vars

\* kfork(): the child gets a copy of the trapframe, with 0 in a0, and the
\* context to start in forkret().
CallForks ==
    /\ At("locked")
    /\ \E c \in Procs \ (ready \cup {Self}) :
          /\ tf' = [tf EXCEPT ![c] = [tf[Self] EXCEPT !.a0 = Junk], ![Self].a0 = K(Self)]
          /\ user' = [user EXCEPT ![c] = [user[Self] EXCEPT !.a0 = Junk],
                                  ![Self].a0 = K(Self)]
          /\ ctx' = [ctx EXCEPT ![c] = NewContext(c)]
          /\ ready' = ready \cup {c}
    /\ csr' = [csr EXCEPT !.sie = TRUE]
    /\ pc' = Kern("ret")
    /\ UNCHANGED <<mode, reg, current, stack, interrupted, pt>>

\* kexec(), with interrupts enabled: the arguments, then the page table, the
\* stack pointer and the entry point.
ExecArguments ==
    /\ At("syscall")
    /\ tf' = [tf EXCEPT ![Self].a0 = K(Self)]
    /\ pc' = Kern("exec")
    /\ UNCHANGED <<mode, reg, csr, current, stack, interrupted, ctx, pt, ready, user>>

ExecCommit ==
    /\ At("exec")
    /\ LET f == [tf[Self] EXCEPT !.sp = K(Self), !.epc = User(0)]
       IN  /\ tf' = [tf EXCEPT ![Self] = f]
           /\ user' = [user EXCEPT ![Self] = [pc |-> User(0), a0 |-> K(Self), sp |-> K(Self),
                                              tmp |-> user[Self].tmp, cs |-> user[Self].cs]]
    /\ pt' = [pt EXCEPT ![Self] = 1]
    /\ pc' = Kern("ret")
    /\ UNCHANGED <<mode, reg, csr, current, stack, interrupted, ctx, ready>>

-----------------------------------------------------------------------------
(* Context switches.                                                        *)

\* Slip: switch() keeps the callee-saved registers of whoever ran last.
SwitchKeepsCs(t) == [a0 |-> Junk, tmp |-> Junk, cs |-> reg.cs, sp |-> ctx[t].sp]

\* The registers after switch() to the context of t.
Loaded(t) == [a0 |-> Junk, tmp |-> Junk, cs |-> ctx[t].cs, sp |-> ctx[t].sp]

\* switch() from the context of t, which will go on at ra, to that of u.
Switch(t, ra, u) ==
    /\ ctx' = [ctx EXCEPT ![t] = Context(ra, reg.sp, reg.cs)]
    /\ reg' = Loaded(u)
    /\ pc' = ctx[u].ra

\* yeld() for CPU.current in a handler, and the sleep of kwait() under a lock.
GiveUp ==
    /\ \/ At("yeld") /\ Switch(current, Kern("yeld_back"), Sched)
       \/ At("locked") /\ Switch(Self, Kern("sleep_back"), Sched)
    /\ UNCHANGED <<mode, csr, current, stack, interrupted, tf, pt, ready, user>>

\* kexit(), which init must not call: the context is not switched to again.
CallExits ==
    /\ At("locked") /\ Self # 0
    /\ Switch(Self, Kern("cordyceps"), Sched)
    /\ ready' = ready \ {Self}
    /\ UNCHANGED <<mode, csr, current, stack, interrupted, tf, pt, user>>

\* After switch(): back to the handler, kernel's or user's, for a new process
\* to forkret(), or to kwait(), where unlock_manual() enables the interrupts.
Resume ==
    /\ At("yeld_back") \/ At("sleep_back") \/ At("forkret")
    /\ pc' = CASE pc = Kern("sleep_back") -> Kern("syscall")
               [] pc = Kern("yeld_back") /\ stack[Self] # <<>> -> Kern("kt_end")
               [] OTHER -> Kern("ret")
    /\ csr' = [csr EXCEPT !.sie = (pc = Kern("sleep_back"))]
    /\ reg' = [a0 |-> K(Self), tmp |-> K(Self), sp |-> reg.sp,
               cs |-> IF pc = Kern("forkret") THEN K(Self) ELSE reg.cs]
    /\ UNCHANGED <<mode, current, stack, interrupted, procVars>>

\* scheduler(): interrupts are enabled for a moment, then a process is picked
\* and switched to, and CPU.current is null again when the switch returns.
SchedWindow ==
    /\ At("sched") \/ At("window")
    /\ csr' = [csr EXCEPT !.sie = (pc = Kern("sched"))]
    /\ pc' = Kern(IF pc = Kern("sched") THEN "window" ELSE "pick")
    /\ UNCHANGED <<mode, reg, current, stack, interrupted, procVars>>

SchedPick ==
    /\ At("pick")
    /\ \E p \in ready : current' = p /\ Switch(Sched, Kern("sched_back"), p)
    /\ UNCHANGED <<mode, csr, stack, interrupted, tf, pt, ready, user>>

\* Nobody is Runnable: interrupts are enabled, and wfi waits for one.
SchedIdle ==
    /\ At("pick")
    /\ csr' = [csr EXCEPT !.sie = TRUE]
    /\ pc' = Kern("sched")
    /\ UNCHANGED <<mode, reg, current, stack, interrupted, procVars>>

\* Slip: CPU.current still points to the process that gave up the hart.
SchedBackKeeps ==
    /\ At("sched_back")
    /\ reg' = [reg EXCEPT !.a0 = K(Self), !.tmp = K(Self)]
    /\ pc' = Kern("sched")
    /\ UNCHANGED <<mode, csr, current, stack, interrupted, procVars>>

SchedBack ==
    /\ At("sched_back")
    /\ current' = None
    /\ reg' = [reg EXCEPT !.a0 = K(Self), !.tmp = K(Self)]
    /\ pc' = Kern("sched")
    /\ UNCHANGED <<mode, csr, stack, interrupted, procVars>>

-----------------------------------------------------------------------------
(* Traps from the kernel.                                                   *)

\* The timer or an external interrupt hits kernel code.
KernelTrap ==
    /\ mode = "S" /\ csr.sie
    /\ \E cause \in {"timer", "other"} : TakeTrap(cause)
    /\ interrupted' = [interrupted EXCEPT ![Self] = [pc |-> pc, reg |-> reg]]
    /\ UNCHANGED <<reg, current, stack, procVars>>

\* kernelvec stores the caller-saved registers, kerneltrap() keeps sepc and
\* sstatus; then the current process yields.  An interrupt that is not the
\* timer's is a panic in the handler.
Kernelvec ==
    /\ At("kernelvec") /\ KerneltrapAccepts
    /\ stack' = [stack EXCEPT ![Self] =
                    <<[a0 |-> reg.a0, tmp |-> reg.tmp, sepc |-> csr.sepc,
                       sstatus |-> Sstatus(csr)]>> \o @]
    /\ reg' = [reg EXCEPT !.a0 = Junk, !.tmp = Junk, !.sp = Sp(Self, reg.sp[3] + 1)]
    /\ pc' = Kern(CASE csr.scause # "timer" -> "halt"
                    [] csr.scause = "timer" /\ current = None -> "kt_end"
                    [] OTHER -> "yeld")
    /\ UNCHANGED <<mode, csr, current, interrupted, procVars>>

\* Slip: sepc is not written back, as if nobody had trapped in between.
KeepSepc(frame) == WithSstatus(csr, frame.sstatus, FALSE)

\* The CSRs as kerneltrap() writes them back.
WriteBack(frame) == [WithSstatus(csr, frame.sstatus, FALSE) EXCEPT !.sepc = frame.sepc]

\* The end of kerneltrap() and of kernelvec.
KernelvecReturn ==
    /\ At("kt_end")
    /\ LET frame == Head(stack[Self])
       IN  /\ Sret(WriteBack(frame))
           /\ reg' = [a0 |-> frame.a0, tmp |-> frame.tmp, cs |-> reg.cs,
                      sp |-> Sp(Self, reg.sp[3] - 1)]
    /\ stack' = [stack EXCEPT ![Self] = Tail(@)]
    /\ interrupted' = [interrupted EXCEPT ![Self] = Nowhere]
    /\ UNCHANGED <<current, procVars>>

-----------------------------------------------------------------------------
(* The return to user mode.                                                 *)

\* prepare_return() with interrupts off, and get_satp() of the page table.
PrepareReturn ==
    /\ At("prepare")
    /\ tf' = [tf EXCEPT ![Self] = ReturnFrame(@, Self)]
    /\ csr' = [csr EXCEPT !.stvec = Kern("uservec"), !.spp = "U", !.spie = TRUE,
                          !.sepc = tf[Self].epc]
    /\ reg' = [reg EXCEPT !.a0 = UserSatp(Self, pt[Self])]
    /\ pc' = Kern("userret")
    /\ UNCHANGED <<mode, current, stack, interrupted, ctx, pt, ready, user>>

\* userret: the user's page table, registers from the trapframe it maps, sret.
Userret ==
    /\ At("userret")
    /\ LET f == tf[reg.a0[2]]
       IN  reg' = [a0 |-> f.a0, tmp |-> f.tmp, cs |-> f.cs, sp |-> f.sp]
    /\ Sret([csr EXCEPT !.satp = reg.a0])
    /\ UNCHANGED <<current, stack, interrupted, procVars>>

Next ==
    \/ UserStep \/ UserTrap \/ Uservec \/ Usertrap
    \/ InterruptOffRead \/ InterruptOffWrite
    \/ Unlock \/ CallReturns \/ CallForks \/ CallExits \/ ExecArguments \/ ExecCommit
    \/ CallPanics \/ PanicLoop
    \/ GiveUp \/ Resume \/ SchedWindow \/ SchedPick \/ SchedIdle \/ SchedBack
    \/ KernelTrap \/ Kernelvec \/ KernelvecReturn
    \/ PrepareReturn \/ Userret

Spec == Init /\ [][Next]_vars

-----------------------------------------------------------------------------
(* Properties.                                                              *)

\* In user mode a process has the address and the registers it had when it
\* trapped, except for what the system call did to them, and its own page
\* table, whoever ran in between and however often the kernel was interrupted
\* on its behalf.
UserContextRestored ==
    mode = "U" =>
        /\ [pc |-> pc, a0 |-> reg.a0, tmp |-> reg.tmp, cs |-> reg.cs, sp |-> reg.sp]
              = user[current]
        /\ csr.satp = UserSatp(current, pt[current])

\* A trap finds the vector that fits the mode it is taken from: in user mode
\* uservec, and the trapframe leads to the stack of this very process; in the
\* kernel, whenever interrupts are enabled, kernelvec and the kernel's table.
TrapVectorFits ==
    /\ mode = "U" => /\ csr.stvec = Kern("uservec")
                     /\ tf[current].kernel_sp = Sp(current, 0)
                     /\ tf[current].kernel_satp = KernelSatp
                     /\ tf[current].trap_handler = Kern("usertrap")
    /\ mode = "S" /\ csr.sie => /\ csr.stvec = Kern("kernelvec")
                                /\ csr.satp = KernelSatp

\* The handlers are never entered in a way they reject before they look at the
\* cause: from the wrong mode, with interrupts enabled, or without a current
\* process; and uservec finds the page table of a user.
HandlersAccept ==
    /\ At("uservec") => UservecAccepts
    /\ At("usertrap") => UsertrapAccepts
    /\ At("kernelvec") => KerneltrapAccepts

\* CPU.current owns the kernel stack in use, so that yeld() in kerneltrap()
\* saves the stack it runs on as the context of the right process.
CurrentOwnsStack ==
    mode = "S" /\ pc # Kern("uservec") /\ pc # Kern("sched_back") =>
        current = IF Self = Sched THEN None ELSE Self

\* An interrupt is transparent to kernel code: kernelvec returns to the very
\* instruction that was interrupted, in S-mode with interrupts enabled and
\* every register as it was, although other processes used the hart.
InterruptIsTransparent ==
    [][pc = Kern("kt_end") /\ mode = "S" =>
          /\ pc' = interrupted[Self].pc
          /\ reg' = interrupted[Self].reg
          /\ mode' = "S" /\ csr'.sie]_vars

=============================================================================
