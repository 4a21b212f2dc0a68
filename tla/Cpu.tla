-------------------------------- MODULE Cpu --------------------------------
(***************************************************************************)
(* The interrupt discipline of the one hart: sstatus.SIE together with the *)
(* two fields of `static mut CPU: Cpu` that every IntMutex goes through,   *)
(* interrupt_off_stack and interrupt_prev_state (kernel.rs, lock.rs,       *)
(* trap.rs).  The operators map the state of the hart before a call to the *)
(* state after it.  Push and pop run with interrupts off from the first    *)
(* CSR write to the last, so each of them is one step for the rest of the  *)
(* kernel.                                                                 *)
(***************************************************************************)
EXTENDS Integers

\* off_stack is an Int: pop_interrupt_off panics on an empty stack, which is
\* the value -1 here, and no invariant of the project admits it.
CpuState == [sie : BOOLEAN, off_stack : Int, prev : BOOLEAN]

\* trap::interrupt_on and trap::interrupt_off set and clear sstatus.SIE.
InterruptOn(c)  == [c EXCEPT !.sie = TRUE]
InterruptOff(c) == [c EXCEPT !.sie = FALSE]

\* Cpu::push_interrupt_off: the outermost push remembers whether interrupts
\* were enabled.
PushInterruptOff(c) ==
    [sie       |-> FALSE,
     off_stack |-> c.off_stack + 1,
     prev      |-> IF c.off_stack = 0 THEN c.sie ELSE c.prev]

\* Slip: the outermost pop enables interrupts whatever was saved.
PopAlwaysEnables(c) ==
    [c EXCEPT !.off_stack = @ - 1, !.sie = @ \/ c.off_stack = 1]

\* Slip: every pop restores, the inner ones too.
PopRestoresEarly(c) ==
    [c EXCEPT !.off_stack = @ - 1, !.sie = @ \/ c.prev]

\* Cpu::pop_interrupt_off: only the outermost pop may enable interrupts, and
\* only if they were enabled when the outermost push ran.
PopInterruptOff(c) ==
    [sie       |-> c.sie \/ (c.off_stack = 1 /\ c.prev),
     off_stack |-> c.off_stack - 1,
     prev      |-> c.prev]

\* A guard taken and dropped within one statement.  Every print!, println!
\* and Vec or Box operation does this on the heap's IntMutex.
LockUnlock(c) == PopInterruptOff(PushInterruptOff(c))

=============================================================================
