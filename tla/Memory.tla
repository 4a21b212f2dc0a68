------------------------------- MODULE Memory -------------------------------
(***************************************************************************)
(* Page frames and user address spaces: who owns which frame of the heap   *)
(* while processes fork, exec, exit and are reaped (virtmemory.rs,         *)
(* allocator.rs, and the memory side of process.rs and kernel.rs).         *)
(*                                                                         *)
(* Frames are the pages the heap has left once Kvm::init and alloc_kstack  *)
(* took theirs, which are never given back.  A user address space (Uvm) is *)
(* a root page, second-level page tables and leaf entries; user pages are  *)
(* counted from USER_START and share one second-level table, the           *)
(* trampoline and the trapframe share another.                             *)
(*                                                                         *)
(* kfork() and the reaping in kwait() hold the kernel lock with interrupts *)
(* off: while `locked` is a slot nobody else moves.  kexec() runs with     *)
(* interrupts enabled, so the steps of an exec interleave with everything  *)
(* other processes do, those of the drop of an address space included.  A  *)
(* step allocates or gives back one page, an allocation together with the  *)
(* page table it needs.                                                    *)
(*                                                                         *)
(* A panic is a process that loops in the panic handler.  With interrupts  *)
(* off it keeps the hart, with interrupts on the others go on.             *)
(***************************************************************************)
EXTENDS Integers

CONSTANTS
    NPROC,      \* slots of the process table
    NFRAMES,    \* page frames of the heap
    MaxImg      \* bound: pages of the largest program image

ASSUME NprocAssumption == NPROC \in Nat \ {0}
ASSUME NframesAssumption == NFRAMES \in Nat /\ NFRAMES >= 2 * NPROC
ASSUME MaxImgAssumption == MaxImg \in Nat \ {0}

None   == -1
Tramp  == 0                     \* the trampoline's page of kernel text
Slots  == 0 .. NPROC - 1
Frames == 1 .. NFRAMES

\* Virtual pages: the image, a guard page and the stack, then the two pages
\* at the top of the address space.
MaxPages   == MaxImg + 2
UserPages  == 0 .. MaxPages - 1
TRAPFRAME  == MaxPages
TRAMPOLINE == MaxPages + 1
VPages     == 0 .. MaxPages + 1

\* Pte: v, r, w, x, u, and the frame.
Perms  == SUBSET {"r", "w", "x", "u"}
Pte    == [v : BOOLEAN, frame : Frames \cup {None, Tramp}, perm : Perms]
NoPte  == [v |-> FALSE, frame |-> None, perm |-> {}]
IsLeaf(pte) == pte.v /\ pte.perm \cap {"r", "w", "x"} # {}

\* Uvm.  dir holds the second-level tables: "low" for the user pages, "high"
\* for the two pages at the top.
Dirs == {"low", "high"}
Uvm  == [root : Frames, dir : [Dirs -> Frames \cup {None}],
         leaf : [VPages -> Pte], size : 0 .. MaxPages]

DirOf(v) == IF v \in UserPages THEN "low" ELSE "high"

VARIABLES
    free,       \* the free pages of HEAP_ALLOCATOR
    uvm,        \* Process::pagetable
    tf,         \* Process::trapframe, a Box in a page of its own
    state,      \* Process::state; "Live" is Runnable, Running or Sleeping
    pc,         \* where the process is in kfork() or kexec()
    work,       \* the local Uvm of kfork() or kexec(), NoUvm elsewhere
    next,       \* the page that Uvm::clone or Uvm::free is at; before the drop
                \* in kexec() the pages of the image
    child,      \* kfork()'s child_proc
    locked,     \* the slot that runs with interrupts off
    lost,       \* history: second-level tables of address spaces that are gone
    panic       \* history: a panic in a drop, or load() without a page

vars == <<free, uvm, tf, state, pc, work, next, child, locked, lost, panic>>

-----------------------------------------------------------------------------
(* HEAP_ALLOCATOR hands out some free page.  Which one makes no difference  *)
(* to the properties.                                                       *)

LeastOf(fr) == CHOOSE f \in fr : \A g \in fr : f <= g
Rest(fr)    == fr \ {LeastOf(fr)}

-----------------------------------------------------------------------------
(* PageTable and Uvm.                                                       *)

\* PageTable::new, Uvm::new with root page f.
NewUvm(f) == [root |-> f, dir  |-> [d \in Dirs |-> None],
                          leaf |-> [v \in VPages |-> NoPte], size |-> 0]

NoUvm == NewUvm(1)      \* any value: the local of nobody

\* PageTable::walk with WalkType::Alloc needs a page if the second-level
\* table is missing.
CanWalk(vm, fr, v) == vm.dir[DirOf(v)] # None \/ fr # {}

\* PageTable::walk: vm with the table for v, and the free pages after it.
Walk(vm, fr, v) ==
    IF vm.dir[DirOf(v)] # None THEN vm
                               ELSE [vm EXCEPT !.dir[DirOf(v)] = LeastOf(fr)]
WalkFree(vm, fr, v) == IF vm.dir[DirOf(v)] # None THEN fr ELSE Rest(fr)

\* PageTable::map of one page.
Map(vm, fr, v, f, perm) ==
    [Walk(vm, fr, v) EXCEPT !.leaf[v] = [v |-> TRUE, frame |-> f, perm |-> perm]]

\* Slip: the last page of the address space is forgotten.
UnmapEndShort(vm) == vm.size - 1

\* Uvm::free unmaps the two pages at the top, then those up to UnmapEnd.
UnmapEnd(vm) == vm.size
Unmapped(vm) == {TRAMPOLINE, TRAPFRAME} \cup {v \in UserPages : v < UnmapEnd(vm)}

\* Slip: only the pages of the image are given back.
UnmapFreesImage(vm, v) == v \in UserPages /\ IsLeaf(vm.leaf[v]) /\ "x" \in vm.leaf[v].perm

\* PageTable::unmap gives back leaves with PTE_U; Uvm::free asks for it for
\* the pages of the user, not for the two at the top.
UnmapFrees(vm, v) == v \in UserPages /\ IsLeaf(vm.leaf[v]) /\ "u" \in vm.leaf[v].perm

\* PageTable::unmap writes 0 to the entry, of page v and of the two at the top.
Cleared(vm, v) == [vm EXCEPT !.leaf[v] = NoPte]
TopCleared(vm) == Cleared(Cleared(vm, TRAMPOLINE), TRAPFRAME)

\* Drop of a Uvm: Uvm::free gives back the user pages, PageTable::free walks
\* the rest of the tree, panics if a leaf is left, and gives back the root.
DropPanics(vm) ==
    \E v \in VPages \ Unmapped(vm) : vm.dir[DirOf(v)] # None /\ IsLeaf(vm.leaf[v])

\* Slip: the second-level tables are given back too, without a look whether
\* there is one.
DropFreesTables(vm, fr) ==
    fr \cup {vm.root} \cup {vm.dir[d] : d \in Dirs}
       \cup {vm.leaf[v].frame : v \in {u \in Unmapped(vm) : UnmapFrees(vm, u)}}

\* The free pages after the drop: the second-level tables are not among them.
DropFree(vm, fr) ==
    fr \cup {vm.root} \cup {vm.leaf[v].frame : v \in {u \in Unmapped(vm) : UnmapFrees(vm, u)}}
Tables(vm) == {vm.dir[d] : d \in Dirs} \ {None}

\* Slip: the trapframe is mapped with the permissions of user memory.
InitProcUser(vm, fr, t) ==
    Map(Map(vm, fr, TRAMPOLINE, Tramp, {"r", "x"}), fr, TRAPFRAME, t, {"r", "w", "u"})

\* Uvm::init_proc: the trampoline and the trapframe t.
InitProc(vm, fr, t) ==
    Map(Map(vm, fr, TRAMPOLINE, Tramp, {"r", "x"}), fr, TRAPFRAME, t, {"r", "w"})

-----------------------------------------------------------------------------
(* main(): initproc() built every slot with Process::new, which takes a     *)
(* root page and a page for the trapframe; main() goes on, under the kernel *)
(* lock, with allocproc() and kexec() of init.                              *)

Init ==
    /\ uvm = [s \in Slots |-> NewUvm(2 * s + 1)]
    /\ tf = [s \in Slots |-> 2 * s + 2]
    /\ free = Frames \ (1 .. 2 * NPROC)
    /\ state = [s \in Slots |-> "Unused"]
    /\ pc = [s \in Slots |-> IF s = 0 THEN "boot" ELSE "none"]
    /\ work = [s \in Slots |-> NoUvm]
    /\ next = [s \in Slots |-> 0]
    /\ child = [s \in Slots |-> None]
    /\ locked = 0
    /\ lost = {}
    /\ panic = "none"

\* Process s is at label l, and may run: nobody else has interrupts off.
At(s, l) == locked \in {None, s} /\ pc[s] = l

Goto(s, l) == pc' = [pc EXCEPT ![s] = l]

\* Process s panics at a place where its local Uvm, if it has one, is kept for
\* ever.  by is the slot that has interrupts off from here on, if any.
Panics(s, l, by) ==
    /\ Goto(s, l) /\ locked' = by
    /\ UNCHANGED <<free, uvm, tf, state, work, next, child, lost, panic>>

\* The same where the drop of a Uvm meets a leaf.
DropPanic(s, l, by) ==
    /\ panic' = "unmapping_allocated_page"
    /\ Goto(s, l) /\ locked' = by
    /\ UNCHANGED <<free, uvm, tf, state, work, next, child, lost>>

\* #[panic_handler] loops for ever.
PanicLoop(s) ==
    /\ At(s, "panic") \/ At(s, "panic_uvm")
    /\ UNCHANGED vars

\* The local Uvm of process s is dropped at once, and the process panics.
DropWork(s) ==
    IF DropPanics(work[s])
      THEN DropPanic(s, "panic_uvm", locked)
      ELSE /\ free' = DropFree(work[s], free)
           /\ lost' = lost \cup Tables(work[s])
           /\ work' = [work EXCEPT ![s] = NoUvm]
           /\ Goto(s, "panic")
           /\ UNCHANGED <<uvm, tf, state, next, child, locked, panic>>

\* The trapframe of slot c is replaced: the new Box is allocated before the
\* old one is dropped.
ReplaceTrapframe(c) ==
    /\ tf' = [tf EXCEPT ![c] = LeastOf(free)]
    /\ free' = Rest(free) \cup {tf[c]}

\* allocproc() for init.
Boot ==
    /\ At(0, "boot")
    /\ IF free = {}
         THEN Panics(0, "panic", 0)
         ELSE /\ ReplaceTrapframe(0)
              /\ state' = [state EXCEPT ![0] = "Used"]
              /\ Goto(0, "exec")
              /\ next' = [next EXCEPT ![0] = 1]
              /\ UNCHANGED <<uvm, work, child, locked, lost, panic>>

-----------------------------------------------------------------------------
(* kfork(), the kernel lock held throughout.                                *)

\* allocproc() takes the first Unused slot.  Without one kfork() returns Err,
\* which drops the kernel guard before sys_fork() panics; without a page the
\* allocation error handler panics under the lock.
Kfork(s) ==
    /\ At(s, "user")
    /\ LET unused == {u \in Slots : state[u] = "Unused"}
           c == LeastOf(unused)
       IN IF unused = {} \/ free = {}
            THEN Panics(s, "panic", IF unused = {} THEN None ELSE s)
            ELSE /\ ReplaceTrapframe(c)
                 /\ state' = [state EXCEPT ![c] = "Used"]
                 /\ child' = [child EXCEPT ![s] = c]
                 /\ locked' = s
                 /\ Goto(s, "fork_tf")
                 /\ UNCHANGED <<uvm, work, next, lost, panic>>

\* The child gets a copy of the parent's trapframe in a new Box.
ForkTrapframe(s) ==
    /\ At(s, "fork_tf")
    /\ IF free = {}
         THEN Panics(s, "panic", s)
         ELSE /\ ReplaceTrapframe(child[s])
              /\ Goto(s, "clone")
              /\ UNCHANGED <<uvm, state, work, next, child, locked, lost, panic>>

\* Uvm::clone starts with Uvm::new and the size of the parent.
CloneNew(s) ==
    /\ At(s, "clone")
    /\ IF free = {}
         THEN Panics(s, "panic", s)
         ELSE /\ work' = [work EXCEPT ![s] = [NewUvm(LeastOf(free)) EXCEPT
                                                !.size = uvm[s].size]]
              /\ free' = Rest(free)
              /\ next' = [next EXCEPT ![s] = 0]
              /\ Goto(s, "clone_page")
              /\ UNCHANGED <<uvm, tf, state, child, locked, lost, panic>>

\* Slip: the child shares the page of the parent.
ShareFrame(s, v) == uvm[s].leaf[v].frame

\* The page that Uvm::clone maps in the child for page v of the parent.
CloneFrame(s, v) == LeastOf(free)

\* Slip: the permissions are copied without PTE_U.
ClonePermKernel(s, v) == uvm[s].leaf[v].perm \ {"u"}

\* ... and its permissions: Pte::perm has the four bits from PTE_R to PTE_U.
ClonePerm(s, v) == uvm[s].leaf[v].perm

\* The loop of Uvm::clone: an unmapped page is skipped, any other is copied
\* to a new frame that is mapped with the same permissions.
ClonePage(s) ==
    LET v == next[s]
    IN  /\ At(s, "clone_page") /\ v < uvm[s].size
        /\ \/ /\ ~uvm[s].leaf[v].v
              /\ next' = [next EXCEPT ![s] = @ + 1]
              /\ UNCHANGED <<free, uvm, tf, state, pc, work, child, locked, lost, panic>>
           \/ /\ uvm[s].leaf[v].v
              /\ IF free = {} \/ ~CanWalk(work[s], Rest(free), v)
                   THEN Panics(s, "panic_uvm", s)
                   ELSE /\ work' = [work EXCEPT ![s] =
                                      Map(@, Rest(free), v, CloneFrame(s, v),
                                          ClonePerm(s, v))]
                        /\ free' = WalkFree(work[s], Rest(free), v)
                        /\ next' = [next EXCEPT ![s] = @ + 1]
                        /\ UNCHANGED <<uvm, tf, state, pc, child, locked, lost, panic>>

\* init_proc() with the trapframe of the child.  If it fails kfork() drops its
\* Uvm and returns Err; interrupts stay off, the child's lock is still held.
ForkInitProc(s) ==
    /\ At(s, "clone_page") /\ next[s] >= uvm[s].size
    /\ IF ~CanWalk(work[s], free, TRAPFRAME)
         THEN DropWork(s)
         ELSE /\ work' = [work EXCEPT ![s] = InitProc(@, free, tf[child[s]])]
              /\ free' = WalkFree(work[s], free, TRAPFRAME)
              /\ Goto(s, "fork_run")
              /\ UNCHANGED <<uvm, tf, state, next, child, locked, lost, panic>>

\* Process s gets the Uvm vm; the one it had is dropped.
ReplaceUvm(c, vm) ==
    /\ uvm' = [uvm EXCEPT ![c] = vm]
    /\ free' = DropFree(uvm[c], free)
    /\ lost' = lost \cup Tables(uvm[c])

\* The child gets its address space and becomes Runnable, the kernel guard
\* is dropped.
ForkRun(s) ==
    LET c == child[s]
    IN  /\ At(s, "fork_run")
        /\ IF DropPanics(uvm[c])
             THEN DropPanic(s, "panic_uvm", s)
             ELSE /\ ReplaceUvm(c, work[s])
                  /\ state' = [state EXCEPT ![c] = "Live"]
                  /\ pc' = [pc EXCEPT ![s] = "user", ![c] = "user"]
                  /\ child' = [child EXCEPT ![s] = None]
                  /\ locked' = None
                  /\ work' = [work EXCEPT ![s] = NoUvm]
                  /\ next' = [next EXCEPT ![s] = 0]
                  /\ UNCHANGED <<tf, panic>>

-----------------------------------------------------------------------------
(* kexec(), with interrupts enabled; main() calls it for init under the     *)
(* kernel lock.                                                             *)

\* sys_exec() with a program of n pages, or one that kexec() does not know.
Exec(s) ==
    /\ At(s, "user")
    /\ \/ /\ \E n \in 1 .. MaxImg : next' = [next EXCEPT ![s] = n]
          /\ Goto(s, "exec")
          /\ UNCHANGED <<free, uvm, tf, state, work, child, locked, lost, panic>>
       \/ Panics(s, "panic", locked)

\* Uvm::new.  Without a page the new root is at address 0: the fault traps,
\* and kerneltrap() panics with interrupts off.
ExecNew(s) ==
    /\ At(s, "exec")
    /\ IF free = {}
         THEN Panics(s, "panic", s)
         ELSE /\ work' = [work EXCEPT ![s] = NewUvm(LeastOf(free))]
              /\ free' = Rest(free)
              /\ Goto(s, "exec_init")
              /\ UNCHANGED <<uvm, tf, state, next, child, locked, lost, panic>>

\* kexec() returns Err: its Uvm is dropped before the caller panics.
ExecErr(s) ==
    /\ work' = [work EXCEPT ![s] = TopCleared(@)]
    /\ next' = [next EXCEPT ![s] = 0]
    /\ Goto(s, "work_drop")
    /\ UNCHANGED <<free, uvm, tf, state, child, locked, lost>>

\* init_proc(self)
ExecInitProc(s) ==
    /\ At(s, "exec_init")
    /\ IF ~CanWalk(work[s], free, TRAPFRAME)
         THEN ExecErr(s) /\ UNCHANGED panic
         ELSE /\ work' = [work EXCEPT ![s] = InitProc(@, free, tf[s])]
              /\ free' = WalkFree(work[s], free, TRAPFRAME)
              /\ Goto(s, "exec_alloc")
              /\ UNCHANGED <<uvm, tf, state, next, child, locked, lost, panic>>

\* One round of the loop of Uvm::alloc: a page at the end of the space, if
\* there are pages for it and for its table.
CanAlloc(s) == free # {} /\ CanWalk(work[s], Rest(free), work[s].size)

UvmAlloc(s, perm) ==
    LET v == work[s].size
    IN  /\ work' = [work EXCEPT ![s] =
                       [Map(work[s], Rest(free), v, LeastOf(free), perm \cup {"u"})
                          EXCEPT !.size = v + 1]]
        /\ free' = WalkFree(work[s], Rest(free), v)

\* alloc(img.len(), PTE_R | PTE_W | PTE_X)
ExecAlloc(s) ==
    /\ At(s, "exec_alloc") /\ work[s].size < next[s]
    /\ IF ~CanAlloc(s)
         THEN ExecErr(s) /\ UNCHANGED panic
         ELSE /\ UvmAlloc(s, {"r", "w", "x"})
              /\ UNCHANGED <<uvm, tf, state, pc, next, child, locked, lost, panic>>

\* load() copies the image to the pages it finds by walk(), then grow() adds
\* the guard page, which is not mapped.
ExecLoad(s) ==
    /\ At(s, "exec_alloc") /\ work[s].size >= next[s]
    /\ IF \E v \in 0 .. next[s] - 1 : ~work[s].leaf[v].v
         THEN ExecErr(s) /\ panic' = "load"
         ELSE /\ work' = [work EXCEPT ![s].size = @ + 1]
              /\ Goto(s, "exec_stack")
              /\ UNCHANGED <<free, uvm, tf, state, next, child, locked, lost, panic>>

\* grow(PAGESIZE, PTE_W | PTE_R).unwrap()
ExecStack(s) ==
    /\ At(s, "exec_stack")
    /\ IF ~CanAlloc(s)
         THEN Panics(s, "panic_uvm", locked)
         ELSE /\ UvmAlloc(s, {"r", "w"})
              /\ Goto(s, "exec_args")
              /\ UNCHANGED <<uvm, tf, state, next, child, locked, lost, panic>>

\* The arguments are copied to the stack; kexec() fails if they do not fit.
ExecArgsFail(s) ==
    /\ At(s, "exec_args") /\ state[s] = "Live"
    /\ ExecErr(s) /\ UNCHANGED panic

\* self.pagetable = pagetree starts with the drop of the old address space.
ExecCommit(s) ==
    /\ At(s, "exec_args")
    /\ uvm' = [uvm EXCEPT ![s] = TopCleared(@)]
    /\ next' = [next EXCEPT ![s] = 0]
    /\ Goto(s, "old_drop")
    /\ UNCHANGED <<free, tf, state, work, child, locked, lost, panic>>

-----------------------------------------------------------------------------
(* Drop of a Uvm in kexec(): of the old address space, or of the one that   *)
(* kexec() gives up.  Interrupts are as they were, and others may run       *)
(* between any two steps.                                                   *)

OldDrop  == {"old_drop", "old_pte"}
WorkDrop == {"work_drop", "work_pte"}
Victim(s) == IF pc[s] \in OldDrop THEN uvm[s] ELSE work[s]

\* pte_addr.write(0), and on to the next page.
ClearPte(s) ==
    /\ IF pc[s] \in OldDrop
         THEN uvm' = [uvm EXCEPT ![s] = Cleared(@, next[s])] /\ UNCHANGED work
         ELSE work' = [work EXCEPT ![s] = Cleared(@, next[s])] /\ UNCHANGED uvm
    /\ next' = [next EXCEPT ![s] = @ + 1]

\* A round of PageTable::unmap gives back the page of the user.  Its entry is
\* still there when it does.
DropPage(s) ==
    /\ At(s, "old_drop") \/ At(s, "work_drop")
    /\ next[s] < UnmapEnd(Victim(s))
    /\ IF UnmapFrees(Victim(s), next[s])
         THEN /\ free' = free \cup {Victim(s).leaf[next[s]].frame}
              /\ Goto(s, IF pc[s] = "old_drop" THEN "old_pte" ELSE "work_pte")
              /\ UNCHANGED <<uvm, work, next>>
         ELSE ClearPte(s) /\ UNCHANGED <<free, pc>>
    /\ UNCHANGED <<tf, state, child, locked, lost, panic>>

\* The end of such a round.
DropPte(s) ==
    /\ At(s, "old_pte") \/ At(s, "work_pte")
    /\ ClearPte(s)
    /\ Goto(s, IF pc[s] = "old_pte" THEN "old_drop" ELSE "work_drop")
    /\ UNCHANGED <<free, tf, state, child, locked, lost, panic>>

\* PageTable::free of the old address space, and the new one takes its place.
\* For init main() then sets Runnable and drops the kernel guard.
OldDropped(s) ==
    /\ At(s, "old_drop") /\ next[s] >= UnmapEnd(uvm[s])
    /\ IF DropPanics(uvm[s])
         THEN DropPanic(s, "panic_uvm", locked)
         ELSE /\ ReplaceUvm(s, work[s])
              /\ state' = [state EXCEPT ![s] = "Live"]
              /\ locked' = None
              /\ work' = [work EXCEPT ![s] = NoUvm]
              /\ next' = [next EXCEPT ![s] = 0]
              /\ Goto(s, "user")
              /\ UNCHANGED <<tf, child, panic>>

\* PageTable::free of the address space that kexec() gave up; unwrap() in
\* sys_exec(), or in main(), panics.
WorkDropped(s) ==
    /\ At(s, "work_drop") /\ next[s] >= UnmapEnd(work[s])
    /\ DropWork(s)

-----------------------------------------------------------------------------
(* kexit() and the reaping in kwait().                                      *)

\* kexit() of init panics.
Exit(s) ==
    /\ At(s, "user")
    /\ IF s = 0
         THEN Panics(s, "panic", locked)
         ELSE /\ state' = [state EXCEPT ![s] = "Zombie"]
              /\ Goto(s, "none")
              /\ UNCHANGED <<free, uvm, tf, work, next, child, locked, lost, panic>>

\* The Uvm of a slot that is free again.
ClearedUvm(z) == NewUvm(LeastOf(free))

\* Process::free of zombie z, by the process that waits for it: a new Uvm
\* replaces the old one, then a new trapframe the old one.  With the lock
\* dropped kwait() returns, or panics if it cannot copy the status out.
Reap(s, z) ==
    /\ At(s, "user") /\ state[z] = "Zombie"
    /\ IF free = {}
         THEN Panics(s, "panic", s)
       ELSE IF DropPanics(uvm[z])
         THEN DropPanic(s, "panic", s)
         ELSE LET fr == DropFree(uvm[z], Rest(free))
              IN  /\ uvm' = [uvm EXCEPT ![z] = ClearedUvm(z)]
                  /\ lost' = lost \cup Tables(uvm[z])
                  /\ tf' = [tf EXCEPT ![z] = LeastOf(fr)]
                  /\ free' = Rest(fr) \cup {tf[z]}
                  /\ state' = [state EXCEPT ![z] = "Unused"]
                  /\ \E l \in {"user", "panic"} : Goto(s, l)
                  /\ UNCHANGED <<work, next, child, locked, panic>>

ForkStep(s) == \/ Kfork(s) \/ ForkTrapframe(s) \/ CloneNew(s) \/ ClonePage(s)
               \/ ForkInitProc(s) \/ ForkRun(s)
ExecStep(s) == \/ Exec(s) \/ ExecNew(s) \/ ExecInitProc(s) \/ ExecAlloc(s)
               \/ ExecLoad(s) \/ ExecStack(s) \/ ExecArgsFail(s) \/ ExecCommit(s)
DropStep(s) == DropPage(s) \/ DropPte(s) \/ OldDropped(s) \/ WorkDropped(s)

Next ==
    \/ Boot
    \/ \E s \in Slots : ForkStep(s) \/ ExecStep(s) \/ DropStep(s) \/ Exit(s) \/ PanicLoop(s)
    \/ \E s, z \in Slots : Reap(s, z)

Spec == Init /\ [][Next]_vars

-----------------------------------------------------------------------------
(* Properties.                                                              *)

ExecLabels == {"exec_init", "exec_alloc", "exec_stack", "exec_args"}
Building   == {"clone_page", "fork_run", "panic_uvm"} \cup ExecLabels \cup OldDrop \cup WorkDrop
Labels     == {"boot", "none", "user", "fork_tf", "clone", "exec", "panic"} \cup Building

\* The variables have their types: what is on the free list and in a page
\* table is a page frame.
TypeOK ==
    /\ free \in SUBSET Frames /\ lost \in SUBSET Frames
    /\ uvm \in [Slots -> Uvm] /\ work \in [Slots -> Uvm]
    /\ tf \in [Slots -> Frames]
    /\ state \in [Slots -> {"Unused", "Used", "Live", "Zombie"}]
    /\ pc \in [Slots -> Labels]
    /\ next \in [Slots -> 0 .. MaxPages]
    /\ child \in [Slots -> Slots \cup {None}]
    /\ locked \in Slots \cup {None}
    /\ panic \in {"none", "load", "unmapping_allocated_page"}

\* The frames that a Uvm owns: those that are given back, or lost, with it.
UserFrames(vm) == {vm.leaf[v].frame : v \in {u \in UserPages : vm.leaf[u].v}}
OwnedBy(vm) == {vm.root} \cup Tables(vm) \cup UserFrames(vm)

\* The address spaces of slot s without the entry whose page was just given
\* back: the page may be free or in use by somebody else before the entry is
\* cleared, and no one translates through it any more.
Old(s) == IF pc[s] = "old_pte" THEN Cleared(uvm[s], next[s]) ELSE uvm[s]
New(s) == IF pc[s] = "work_pte" THEN Cleared(work[s], next[s]) ELSE work[s]

\* The frames owned on behalf of slot s.
Owned(s) == OwnedBy(Old(s)) \cup {tf[s]}
              \cup (IF pc[s] \in Building THEN OwnedBy(New(s)) ELSE {})

\* Within a Uvm no frame has two uses.
Injective(vm) ==
    /\ vm.root \notin Tables(vm) \cup UserFrames(vm)
    /\ vm.dir["low"] = None \/ vm.dir["low"] # vm.dir["high"]
    /\ Tables(vm) \cap UserFrames(vm) = {}
    /\ \A u, v \in UserPages :
          vm.leaf[u].v /\ vm.leaf[v].v /\ u # v => vm.leaf[u].frame # vm.leaf[v].frame

\* Isolation: no page frame has two uses.  Page tables, user pages and
\* trapframes of all processes, and of address spaces under construction or
\* half way through their drop, are different frames, and none of them is on
\* the free list (so none is ever handed out again or freed twice).  The one
\* exception is the entry that unmap() is about to clear, which see above.
FramesAreExclusive ==
    /\ \A s \in Slots : /\ Owned(s) \cap (free \cup lost) = {}
                        /\ \A t \in Slots \ {s} : Owned(s) \cap Owned(t) = {}
    /\ \A s \in Slots :
          /\ Injective(Old(s)) /\ tf[s] \notin OwnedBy(Old(s))
          /\ pc[s] \in Building => /\ Injective(New(s))
                                   /\ tf[s] \notin OwnedBy(New(s))
                                   /\ OwnedBy(New(s)) \cap OwnedBy(Old(s)) = {}
    /\ free \cap lost = {}

\* The only pages that get lost are second-level tables of dropped address
\* spaces: every other page is free or in use.
OnlyTablesGetLost ==
    Frames = free \cup lost \cup UNION {Owned(s) : s \in Slots}

\* No page gets lost at all, as PageTable::free says: "free all 2nd level
\* page tables".
NoPageGetsLost == Frames = free \cup UNION {Owned(s) : s \in Slots}

\* Wherever a process may enter user mode, that is except while kexec() drops
\* the address space it replaces, this space maps the trampoline, and at
\* TRAPFRAME the very page that Process::trapframe is in, out of reach of user
\* code.
TrapframeIsMapped ==
    \A s \in Slots : state[s] = "Live" /\ pc[s] \notin OldDrop =>
        /\ uvm[s].leaf[TRAMPOLINE] =
              [v |-> TRUE, frame |-> Tramp, perm |-> {"r", "x"}]
        /\ uvm[s].leaf[TRAPFRAME] =
              [v |-> TRUE, frame |-> tf[s], perm |-> {"r", "w"}]

\* The image, the unmapped guard page below the stack, and the stack, with
\* PTE_U on every page that is mapped, also in a child that was forked from
\* a child; only kexec() takes them away, page by page.  A slot that is
\* Unused, and one that kfork() is filling, has an empty space: allocproc()
\* may replace its trapframe, because no page table maps the old one.
UserLayout ==
    \A s \in Slots :
        LET vm == uvm[s] IN
        /\ state[s] = "Live" /\ pc[s] \notin OldDrop =>
              /\ vm.size >= 3
              /\ \A v \in UserPages :
                    IF v < vm.size - 2
                      THEN vm.leaf[v].v /\ vm.leaf[v].perm = {"r", "w", "x", "u"}
                    ELSE IF v = vm.size - 1
                      THEN vm.leaf[v].v /\ vm.leaf[v].perm = {"r", "w", "u"}
                    ELSE ~vm.leaf[v].v
        /\ state[s] \in {"Unused", "Used"} =>
              vm.size = 0 /\ \A v \in VPages : ~vm.leaf[v].v

\* Dropping an address space never meets a page that is still mapped: not one
\* of a process that execs, exits or forks, nor the half-built one that
\* kexec() or kfork() gives up when it runs out of memory or the arguments do
\* not fit.  And load() finds all its pages.
DropsAreClean == panic = "none"

=============================================================================
