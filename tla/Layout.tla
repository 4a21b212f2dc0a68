------------------------------- MODULE Layout -------------------------------
(***************************************************************************)
(* The kernel's address space as boot builds it: Kvm::init, initproc,      *)
(* alloc_kstack and start_kvm (main.rs, kernel.rs, virtmemory.rs, and      *)
(* KSTACK! of process.rs), before the first process runs.                  *)
(*                                                                         *)
(* Addresses are numbers of pages.  Physical memory is the kernel image    *)
(* (text, whose last page is the trampoline, and data with the boot        *)
(* stack), then the heap.  The page table is the function it stands for;   *)
(* its own pages are the subject of module PageTable.                      *)
(***************************************************************************)
EXTENDS Integers

CONSTANTS
    NPROC,          \* initproc(n)
    UART,           \* the page of the device
    KERNEL_START,   \* first page of text
    ETEXT,          \* first page of data
    EKERNEL,        \* first page of the heap
    RAMEND,         \* end of memory
    VIRT_END        \* the last page of the address space, which is not used

KERNEL_STACK_PAGES == 2
TRAMPOLINE == VIRT_END - 1
TRAPFRAME  == TRAMPOLINE - 1

ASSUME LayoutAssumption ==
    /\ {NPROC, UART, KERNEL_START, ETEXT, EKERNEL, RAMEND, VIRT_END} \subseteq Nat
    /\ UART < KERNEL_START /\ KERNEL_START < ETEXT /\ ETEXT < EKERNEL /\ EKERNEL < RAMEND
    /\ RAMEND + NPROC * (KERNEL_STACK_PAGES + 1) < TRAMPOLINE

Slots    == 0 .. NPROC - 1
Text     == KERNEL_START .. ETEXT - 1
HeapMem  == EKERNEL .. RAMEND - 1
Unmapped == [frame |-> -1, perm |-> {}]

VARIABLES
    at,         \* "init", "new", "kstack", "start", "paged"
    slot,       \* initproc()'s i
    kvm,        \* the kernel's page table
    free,       \* the free pages of the heap
    kstack      \* Process::kstack of the slots made so far

vars == <<at, slot, kvm, free, kstack>>

Init ==
    /\ at = "init" /\ slot = 0
    /\ kvm = [v \in 0 .. VIRT_END |-> Unmapped]
    /\ free = HeapMem
    /\ kstack = <<>>

\* Slip: the guard page is not counted.
StackWithoutGuard(n) == TRAMPOLINE - (n + 1) * KERNEL_STACK_PAGES

\* KSTACK!(n)
KSTACK(n) == TRAMPOLINE - (n + 1) * (KERNEL_STACK_PAGES + 1) + 1

\* map of the pages vs, which lie `off` above their frames.
Map(m, vs, off, perm) ==
    [v \in DOMAIN m |-> IF v \in vs THEN [frame |-> v - off, perm |-> perm] ELSE m[v]]

\* Slip: the rest of memory is mapped only up to the heap.
DataOnly == ETEXT .. EKERNEL - 1

\* Kernel data and ram after the kernel.
DataAndRam == ETEXT .. RAMEND - 1

\* Slip: text gets the permissions of data.
TextWritable == {"r", "w", "x"}

TextPerm == {"r", "x"}

\* Kvm::init: the device, text, data and ram, and the trampoline.
KvmInit ==
    /\ at = "init"
    /\ kvm' = Map(Map(Map(Map(kvm, {UART}, 0, {"r", "w"}), Text, 0, TextPerm),
                      DataAndRam, 0, {"r", "w"}),
                  {TRAMPOLINE}, TRAMPOLINE - (ETEXT - 1), {"r", "x"})
    /\ at' = IF NPROC = 0 THEN "start" ELSE "new"
    /\ UNCHANGED <<slot, free, kstack>>

\* Process::new: the root of the empty address space and the trapframe.
ProcessNew ==
    /\ at = "new"
    /\ \E f, g \in free : f < g /\ free' = free \ {f, g}
    /\ kstack' = [s \in 0 .. slot |-> IF s = slot THEN KSTACK(slot) ELSE kstack[s]]
    /\ at' = "kstack"
    /\ UNCHANGED <<slot, kvm>>

\* alloc_kstack: a page of the heap for every page of the stack.
AllocKstack ==
    /\ at = "kstack"
    /\ \E f, g \in free :
          /\ f # g
          /\ free' = free \ {f, g}
          /\ LET low == KSTACK(slot)
             IN  kvm' = Map(Map(kvm, {low}, low - f, {"r", "w"}),
                            {low + 1}, low + 1 - g, {"r", "w"})
    /\ slot' = slot + 1
    /\ at' = IF slot + 1 = NPROC THEN "start" ELSE "new"
    /\ UNCHANGED kstack

\* start_kvm: from here on every address is translated.
StartKvm ==
    /\ at = "start"
    /\ at' = "paged"
    /\ UNCHANGED <<slot, kvm, free, kstack>>

Next == KvmInit \/ ProcessNew \/ AllocKstack \/ StartKvm

Spec == Init /\ [][Next]_vars

-----------------------------------------------------------------------------
(* Properties.                                                              *)

StackPages(n) == kstack[n] .. kstack[n] + KERNEL_STACK_PAGES - 1

\* The kernel stack of a slot, whose top prepare_return() and allocproc() put
\* at kstack + KERNEL_STACK_PAGES, is writable memory of its own: neither its
\* pages nor their frames are those of another stack, and the page below it
\* is a guard.
StacksAreGuarded ==
    at = "paged" =>
        /\ \A n \in Slots :
              /\ kvm[kstack[n] - 1] = Unmapped
              /\ \A v \in StackPages(n) :
                    kvm[v].perm = {"r", "w"} /\ kvm[v].frame \in HeapMem \ free
        /\ \A n, m \in Slots : \A v \in StackPages(n), u \in StackPages(m) :
              n # m \/ u # v => u # v /\ kvm[u].frame # kvm[v].frame

\* Once paging is on, the kernel finds every page of the heap, so also the
\* page tables, trapframes and user pages, at its physical address, and can
\* write it.
HeapIsIdentityMapped ==
    at = "paged" => \A f \in HeapMem : kvm[f] = [frame |-> f, perm |-> {"r", "w"}]

\* No mapping, the trampoline's included, lets the kernel write its text.
TextIsReadOnly ==
    at = "paged" => \A v \in 0 .. VIRT_END :
        kvm[v].frame \in Text => "w" \notin kvm[v].perm

=============================================================================
