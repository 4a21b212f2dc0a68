---------------------------- MODULE MemoryProofs ----------------------------
(***************************************************************************)
(* Proofs about module Memory for every number of slots, every heap and    *)
(* every size of program images: no frame has two uses, none is lost but   *)
(* second-level tables, and the address spaces have the layout that traps  *)
(* and drops rely on.                                                      *)
(***************************************************************************)
EXTENDS Memory, TLAPS, NaturalsInduction, WellFoundedInduction

ForkLabels  == {"fork_tf", "clone", "clone_page", "fork_run"}
PanicLabels == {"panic", "panic_uvm"}
PteLabels   == {"old_pte", "work_pte"}

\* Where a new address space grows, and where main() may be after allocproc().
Growing    == {"clone_page", "fork_run"} \cup ExecLabels
MainLabels == {"exec"} \cup ExecLabels \cup OldDrop \cup WorkDrop

\* What the kernel lock and the labels say about the states.
ControlInv ==
    /\ \A s \in Slots : pc[s] = "boot" => s = 0 /\ locked = 0 /\ state[s] = "Unused"
    /\ \A s \in Slots : state[s] = "Unused" =>
          pc[s] = "none" \/ (s = 0 /\ locked = 0 /\ pc[s] \in {"boot", "panic"})
    /\ \A s \in Slots : state[s] = "Zombie" => pc[s] = "none"
    /\ \A s \in Slots : state[s] = "Live" => pc[s] # "none"
    /\ \A s \in Slots : state[s] = "Used" =>
          \/ /\ locked \in Slots /\ pc[locked] \in ForkLabels \cup PanicLabels
             /\ child[locked] = s /\ pc[s] = "none"
          \/ s = 0 /\ locked = 0 /\ pc[s] \in MainLabels \cup PanicLabels
    /\ \A s \in Slots : pc[s] \in ForkLabels =>
          /\ locked = s /\ state[s] = "Live"
          /\ child[s] \in Slots /\ state[child[s]] = "Used"
    /\ \A s \in Slots : pc[s] = "user" => state[s] = "Live" /\ locked # s

\* What is mapped in an address space is a page of the user, below its end.
Tidy(vm) ==
    \A v \in UserPages : vm.leaf[v].v =>
        v < vm.size /\ {"r", "u"} \subseteq vm.leaf[v].perm /\ vm.leaf[v].frame \in Frames

TidyInv(s) == Tidy(uvm[s]) /\ (pc[s] \in Building => Tidy(work[s]))

\* The first n pages of vm are the image, and nothing else is mapped.
Image(vm, n) ==
    \A v \in UserPages :
        IF v < n THEN vm.leaf[v].v /\ vm.leaf[v].perm = {"r", "w", "x", "u"}
                 ELSE ~vm.leaf[v].v

\* The layout of a space that a program runs in, and of one that nobody uses.
Program(vm) ==
    /\ vm.size >= 3
    /\ \A v \in UserPages :
          IF v < vm.size - 2
            THEN vm.leaf[v].v /\ vm.leaf[v].perm = {"r", "w", "x", "u"}
          ELSE IF v = vm.size - 1
            THEN vm.leaf[v].v /\ vm.leaf[v].perm = {"r", "w", "u"}
          ELSE ~vm.leaf[v].v
Empty(vm) == vm.size = 0 /\ \A v \in VPages : ~vm.leaf[v].v

\* The two pages at the top.
TopMapped(vm, t) ==
    /\ vm.leaf[TRAMPOLINE] = [v |-> TRUE, frame |-> Tramp, perm |-> {"r", "x"}]
    /\ vm.leaf[TRAPFRAME] = [v |-> TRUE, frame |-> t, perm |-> {"r", "w"}]

\* The pages of vm below n are mapped as those of the original are.
Copied(vm, orig, n) ==
    /\ vm.size = orig.size
    /\ \A v \in UserPages : vm.leaf[v].v <=> v < n /\ orig.leaf[v].v
    /\ \A v \in UserPages : vm.leaf[v].v => vm.leaf[v].perm = orig.leaf[v].perm

\* How far the address space under construction is, and the drop of one.
WorkInv(s) ==
    /\ pc[s] = "clone_page" => Copied(work[s], uvm[s], next[s])
    /\ pc[s] = "fork_run" => /\ Copied(work[s], uvm[s], uvm[s].size)
                             /\ TopMapped(work[s], tf[child[s]])
    /\ pc[s] \in ExecLabels \cup {"exec"} => next[s] \in 1 .. MaxImg
    /\ pc[s] = "exec_init" => Empty(work[s])
    /\ pc[s] \in (ExecLabels \ {"exec_init"}) \cup OldDrop => TopMapped(work[s], tf[s])
    /\ pc[s] = "exec_alloc" => /\ work[s].size <= next[s]
                               /\ Image(work[s], work[s].size)
    /\ pc[s] = "exec_stack" => /\ work[s].size = next[s] + 1
                               /\ Image(work[s], next[s])
    /\ pc[s] \in {"exec_args"} \cup OldDrop => Program(work[s])
    /\ pc[s] \in PteLabels => next[s] \in UserPages

LayoutInv(s) ==
    /\ state[s] = "Live" /\ pc[s] \notin OldDrop => Program(uvm[s]) /\ TopMapped(uvm[s], tf[s])
    /\ state[s] \in {"Unused", "Used"} => Empty(uvm[s])

SlotInv(s) == TidyInv(s) /\ WorkInv(s) /\ LayoutInv(s)

\* The inductive invariant.
Inv ==
    /\ TypeOK /\ ControlInv /\ DropsAreClean
    /\ \A s \in Slots : SlotInv(s)
    /\ FramesAreExclusive /\ OnlyTablesGetLost

-----------------------------------------------------------------------------
(* The free list and the operators on address spaces.                       *)

\* There is a least element in a set of numbers, and LeastOf finds it.
LEMMA LeastOfIn ==
    ASSUME NEW S, S \subseteq Nat, S # {}
    PROVE  LeastOf(S) \in S
<1> DEFINE R == OpToRel(<, Nat)
<1>1. IsWellFoundedOn(R, Nat)
  BY NatLessThanWellFounded
<1>2. \A a, b \in Nat : a < b => <<a, b>> \in R
  BY DEF OpToRel
<1> HIDE DEF R
<1>3. PICK x \in S : \A y \in S : ~(<<y, x>> \in R)
  BY <1>1, WFMin
<1>4. \A y \in S : x <= y
  <2> SUFFICES ASSUME NEW y \in S PROVE ~(y < x)
    OBVIOUS
  <2> QED
    BY <1>2, <1>3
<1> QED
  BY <1>4 DEF LeastOf

\* An allocation takes one page off the free list.
LEMMA Taken ==
    ASSUME NEW fr \in SUBSET Frames, fr # {}
    PROVE  /\ LeastOf(fr) \in fr /\ LeastOf(fr) \in Frames
           /\ Rest(fr) \in SUBSET Frames /\ LeastOf(fr) \notin Rest(fr)
           /\ Rest(fr) \cup {LeastOf(fr)} = fr
<1>1. Frames \subseteq Nat
  BY NframesAssumption DEF Frames
<1>2. LeastOf(fr) \in fr
  BY <1>1, LeastOfIn
<1> QED
  BY <1>2 DEF Rest

\* Pages, and the tables they are found in.
LEMMA PageFacts ==
    /\ UserPages \subseteq VPages /\ TRAPFRAME \in VPages /\ TRAMPOLINE \in VPages
    /\ TRAPFRAME \notin UserPages /\ TRAMPOLINE \notin UserPages /\ TRAPFRAME # TRAMPOLINE
    /\ VPages = UserPages \cup {TRAPFRAME, TRAMPOLINE}
    /\ MaxPages \in Nat /\ 0 \in Slots
    /\ \A v \in UserPages : DirOf(v) = "low"
    /\ DirOf(TRAPFRAME) = "high" /\ DirOf(TRAMPOLINE) = "high"
BY MaxImgAssumption, NprocAssumption
DEF UserPages, VPages, TRAPFRAME, TRAMPOLINE, MaxPages, DirOf, Slots

\* A new address space owns its root page.
LEMMA NewFacts ==
    ASSUME NEW f \in Frames
    PROVE  /\ NewUvm(f) \in Uvm /\ Empty(NewUvm(f)) /\ Tidy(NewUvm(f))
           /\ OwnedBy(NewUvm(f)) = {f} /\ Injective(NewUvm(f)) /\ Tables(NewUvm(f)) = {}
<1> DEFINE vm == NewUvm(f)
<1>1. /\ vm.root = f /\ vm.size = 0 /\ vm.dir = [d \in Dirs |-> None]
      /\ vm.leaf = [v \in VPages |-> NoPte]
  BY DEF NewUvm
<1>2. NoPte \in Pte /\ ~NoPte.v
  BY DEF NoPte, Pte, Perms
<1>3. vm \in Uvm
  BY <1>2, PageFacts DEF NewUvm, Uvm
<1>4. \A v \in VPages : ~vm.leaf[v].v
  BY <1>1, <1>2
<1>5. Empty(vm) /\ Tidy(vm)
  BY <1>1, <1>4, PageFacts DEF Empty, Tidy
<1>6. Tables(vm) = {} /\ UserFrames(vm) = {}
  BY <1>1, <1>4, PageFacts DEF Tables, UserFrames
<1>7. OwnedBy(vm) = {f}
  BY <1>1, <1>6 DEF OwnedBy
<1>8. Injective(vm)
  BY <1>1, <1>4, <1>6, PageFacts DEF Injective, Dirs
<1> QED
  BY <1>3, <1>5, <1>6, <1>7, <1>8

\* The fields of an address space.
LEMMA UvmFields ==
    ASSUME NEW vm \in Uvm
    PROVE  /\ vm.root \in Frames /\ vm.dir \in [Dirs -> Frames \cup {None}]
           /\ vm.leaf \in [VPages -> Pte] /\ vm.size \in 0 .. MaxPages
           /\ \A v \in VPages : /\ vm.leaf[v].v \in BOOLEAN /\ vm.leaf[v].perm \in Perms
                                /\ vm.leaf[v].frame \in Frames \cup {None, Tramp}
BY DEF Uvm, Pte

\* walk() adds the missing table, from the free list.
LEMMA WalkFacts ==
    ASSUME NEW vm \in Uvm, NEW fr \in SUBSET Frames, NEW v \in VPages,
           CanWalk(vm, fr, v), Injective(vm), OwnedBy(vm) \cap fr = {}
    PROVE  /\ Walk(vm, fr, v) \in Uvm
           /\ Walk(vm, fr, v).leaf = vm.leaf /\ Walk(vm, fr, v).size = vm.size
           /\ Injective(Walk(vm, fr, v))
           /\ WalkFree(vm, fr, v) \subseteq fr
           /\ OwnedBy(Walk(vm, fr, v)) \cup WalkFree(vm, fr, v) = OwnedBy(vm) \cup fr
           /\ OwnedBy(Walk(vm, fr, v)) \cap WalkFree(vm, fr, v) = {}
<1>1. CASE vm.dir[DirOf(v)] # None
  BY <1>1 DEF Walk, WalkFree
<1>2. CASE vm.dir[DirOf(v)] = None
  <2> DEFINE d == DirOf(v)
             g == LeastOf(fr)
             w == Walk(vm, fr, v)
  <2>1. d \in Dirs
    BY DEF DirOf, Dirs
  <2>2. g \in fr /\ g \in Frames /\ g \notin Rest(fr) /\ Rest(fr) \cup {g} = fr
    BY <1>2, Taken DEF CanWalk
  <2>3. w = [vm EXCEPT !.dir[d] = g] /\ WalkFree(vm, fr, v) = Rest(fr)
    BY <1>2 DEF Walk, WalkFree
  <2> HIDE DEF d, g, w
  <2>4. /\ w.root = vm.root /\ w.leaf = vm.leaf /\ w.size = vm.size
        /\ w.dir = [vm.dir EXCEPT ![d] = g] /\ w \in Uvm
    BY <2>1, <2>2, <2>3 DEF Uvm
  <2>5. w.dir[d] = g /\ vm.dir[d] = None /\ \A e \in Dirs \ {d} : w.dir[e] = vm.dir[e]
    BY <1>2, <2>1, <2>4, UvmFields DEF d
  <2>6. g # None
    BY <2>2 DEF Frames, None
  <2>7. Tables(w) = Tables(vm) \cup {g}
    BY <2>1, <2>5, <2>6 DEF Tables
  <2>8. UserFrames(w) = UserFrames(vm)
    BY <2>4 DEF UserFrames
  <2>9. OwnedBy(w) = OwnedBy(vm) \cup {g}
    BY <2>4, <2>7, <2>8 DEF OwnedBy
  <2>10. g \notin OwnedBy(vm)
    BY <2>2
  <2>11. Injective(w)
    <3>1. w.root \notin Tables(w) \cup UserFrames(w) /\ Tables(w) \cap UserFrames(w) = {}
      BY <2>4, <2>7, <2>8, <2>10 DEF Injective, OwnedBy
    <3>2. w.dir["low"] = None \/ w.dir["low"] # w.dir["high"]
      <4>1. \A e \in Dirs : vm.dir[e] # g
        BY <2>6, <2>10 DEF OwnedBy, Tables
      <4>2. "low" \in Dirs /\ "high" \in Dirs /\ (d = "low" \/ d = "high")
        BY <2>1 DEF Dirs
      <4> QED
        BY <2>1, <2>5, <4>1, <4>2 DEF Injective
    <3> QED
      BY <2>4, <3>1, <3>2 DEF Injective
  <2> QED
    BY <2>2, <2>3, <2>4, <2>9, <2>10, <2>11 DEF w
<1> QED
  BY <1>1, <1>2

\* What an address space owns depends on its root, its tables and the pages
\* of the user only.
LEMMA SameOwned ==
    ASSUME NEW vm, NEW w, w.root = vm.root, w.dir = vm.dir,
           \A v \in UserPages : w.leaf[v] = vm.leaf[v]
    PROVE  /\ OwnedBy(w) = OwnedBy(vm) /\ Tables(w) = Tables(vm)
           /\ UserFrames(w) = UserFrames(vm)
           /\ Injective(vm) => Injective(w)
<1>1. Tables(w) = Tables(vm) /\ UserFrames(w) = UserFrames(vm)
  BY DEF Tables, UserFrames
<1> QED
  BY <1>1 DEF OwnedBy, Injective

\* map() of a new frame f at a page of the user that is not mapped.
LEMMA MapFacts ==
    ASSUME NEW vm \in Uvm, NEW fr \in SUBSET Frames, NEW f \in Frames, NEW v \in UserPages,
           NEW perm \in Perms, CanWalk(vm, fr, v), ~vm.leaf[v].v,
           Injective(vm), OwnedBy(vm) \cap fr = {}, f \notin OwnedBy(vm) \cup fr
    PROVE  LET m == Map(vm, fr, v, f, perm) IN
           /\ m \in Uvm /\ m.size = vm.size
           /\ m.leaf[v] = [v |-> TRUE, frame |-> f, perm |-> perm]
           /\ \A u \in VPages \ {v} : m.leaf[u] = vm.leaf[u]
           /\ Injective(m)
           /\ WalkFree(vm, fr, v) \subseteq fr
           /\ OwnedBy(m) \cup WalkFree(vm, fr, v) = OwnedBy(vm) \cup fr \cup {f}
           /\ OwnedBy(m) \cap WalkFree(vm, fr, v) = {}
<1> DEFINE w == Walk(vm, fr, v)
           m == Map(vm, fr, v, f, perm)
           pte == [v |-> TRUE, frame |-> f, perm |-> perm]
<1>1. v \in VPages
  BY PageFacts
<1>2. /\ w \in Uvm /\ w.leaf = vm.leaf /\ w.size = vm.size /\ Injective(w)
      /\ WalkFree(vm, fr, v) \subseteq fr
      /\ OwnedBy(w) \cup WalkFree(vm, fr, v) = OwnedBy(vm) \cup fr
      /\ OwnedBy(w) \cap WalkFree(vm, fr, v) = {}
  BY <1>1, WalkFacts
<1>3. m = [w EXCEPT !.leaf[v] = pte] /\ pte \in Pte
  BY DEF Map, Pte
<1> HIDE DEF w, m
<1>4. /\ m \in Uvm /\ m.root = w.root /\ m.dir = w.dir /\ m.size = vm.size
      /\ m.leaf = [vm.leaf EXCEPT ![v] = pte]
  BY <1>1, <1>2, <1>3 DEF Uvm
<1>5. /\ m.leaf[v] = pte /\ pte.v /\ pte.frame = f /\ pte.perm = perm
      /\ \A u \in VPages \ {v} : m.leaf[u] = vm.leaf[u]
  BY <1>1, <1>4, UvmFields
<1> HIDE DEF pte
<1>6. UserFrames(m) = UserFrames(w) \cup {f} /\ Tables(m) = Tables(w)
  <2>1. Tables(m) = Tables(w)
    BY <1>4 DEF Tables
  <2>2. {u \in UserPages : m.leaf[u].v} = {u \in UserPages : w.leaf[u].v} \cup {v}
    BY <1>2, <1>5, PageFacts
  <2>3. \A u \in UserPages : w.leaf[u].v => m.leaf[u].frame = w.leaf[u].frame
    BY <1>2, <1>5, PageFacts
  <2> QED
    BY <1>5, <2>1, <2>2, <2>3 DEF UserFrames
<1>7. OwnedBy(m) = OwnedBy(w) \cup {f} /\ f \notin OwnedBy(w)
  BY <1>2, <1>4, <1>6 DEF OwnedBy
<1>8. Injective(m)
  <2>1. \A u \in UserPages : w.leaf[u].v => w.leaf[u].frame # f
    BY <1>7 DEF OwnedBy, UserFrames
  <2>2. \A t, u \in UserPages :
           m.leaf[t].v /\ m.leaf[u].v /\ t # u => m.leaf[t].frame # m.leaf[u].frame
    BY <1>2, <1>5, <2>1, PageFacts DEF Injective
  <2>3. /\ m.root \notin Tables(m) \cup UserFrames(m)
        /\ Tables(m) \cap UserFrames(m) = {}
    BY <1>2, <1>4, <1>6, <1>7 DEF Injective, OwnedBy
  <2> QED
    BY <1>2, <1>4, <2>2, <2>3 DEF Injective
<1>9. /\ OwnedBy(m) \cup WalkFree(vm, fr, v) = OwnedBy(vm) \cup fr \cup {f}
      /\ OwnedBy(m) \cap WalkFree(vm, fr, v) = {}
  BY <1>2, <1>7
<1> QED
  BY <1>2, <1>4, <1>5, <1>8, <1>9 DEF m, pte

\* init_proc() maps the two pages at the top and takes at most one page.
LEMMA InitProcFacts ==
    ASSUME NEW vm \in Uvm, NEW fr \in SUBSET Frames, NEW t \in Frames,
           CanWalk(vm, fr, TRAPFRAME), Injective(vm), OwnedBy(vm) \cap fr = {}
    PROVE  LET m == InitProc(vm, fr, t)
               g == WalkFree(vm, fr, TRAPFRAME)
           IN  /\ m \in Uvm /\ m.size = vm.size
               /\ \A v \in UserPages : m.leaf[v] = vm.leaf[v]
               /\ TopMapped(m, t)
               /\ Injective(m) /\ g \subseteq fr
               /\ OwnedBy(m) \cup g = OwnedBy(vm) \cup fr
               /\ OwnedBy(m) \cap g = {}
<1> DEFINE g == WalkFree(vm, fr, TRAPFRAME)
           w == Walk(vm, fr, TRAMPOLINE)
           pte1 == [v |-> TRUE, frame |-> Tramp, perm |-> {"r", "x"}]
           pte2 == [v |-> TRUE, frame |-> t, perm |-> {"r", "w"}]
           m1 == [w EXCEPT !.leaf[TRAMPOLINE] = pte1]
           m == [m1 EXCEPT !.leaf[TRAPFRAME] = pte2]
<1>1. CanWalk(vm, fr, TRAMPOLINE) /\ g = WalkFree(vm, fr, TRAMPOLINE)
  BY PageFacts DEF CanWalk, WalkFree
<1>2. /\ w \in Uvm /\ w.leaf = vm.leaf /\ w.size = vm.size /\ Injective(w)
      /\ g \subseteq fr
      /\ OwnedBy(w) \cup g = OwnedBy(vm) \cup fr
      /\ OwnedBy(w) \cap g = {}
  BY <1>1, WalkFacts, PageFacts
<1>3. w.dir["high"] # None
  <2>1. CASE vm.dir["high"] # None
    BY <2>1, PageFacts DEF Walk
  <2>2. CASE vm.dir["high"] = None
    <3>1. LeastOf(fr) \in Frames
      BY <1>1, <2>2, Taken, PageFacts DEF CanWalk
    <3>2. w = [vm EXCEPT !.dir["high"] = LeastOf(fr)]
      BY <2>2, PageFacts DEF Walk
    <3>3. w.dir["high"] = LeastOf(fr)
      BY <3>2, UvmFields DEF Uvm, Dirs
    <3> QED
      BY <3>1, <3>3 DEF Frames, None
  <2> QED
    BY <2>1, <2>2
<1>4. pte1 \in Pte /\ pte2 \in Pte
  BY DEF Pte, Perms
<1> HIDE DEF w, g, pte1, pte2
<1>5. m1 \in Uvm /\ m1.dir = w.dir /\ m1.root = w.root /\ m1.size = w.size
      /\ m1.leaf = [w.leaf EXCEPT ![TRAMPOLINE] = pte1]
  BY <1>2, <1>4, PageFacts DEF Uvm
<1>6. Map(vm, fr, TRAMPOLINE, Tramp, {"r", "x"}) = m1
  BY DEF Map, w, pte1
<1> HIDE DEF m1
<1>7. Walk(m1, fr, TRAPFRAME) = m1
  BY <1>3, <1>5, PageFacts DEF Walk
<1>8. InitProc(vm, fr, t) = m
  BY <1>6, <1>7 DEF InitProc, Map, pte2
<1>9. /\ m \in Uvm /\ m.dir = w.dir /\ m.root = w.root /\ m.size = w.size
      /\ m.leaf = [m1.leaf EXCEPT ![TRAPFRAME] = pte2]
  BY <1>4, <1>5, PageFacts DEF Uvm
<1> HIDE DEF m
<1>10. m.leaf[TRAMPOLINE] = pte1 /\ m.leaf[TRAPFRAME] = pte2
  BY <1>2, <1>5, <1>9, PageFacts, UvmFields
<1>11. \A v \in UserPages : m.leaf[v] = w.leaf[v]
  BY <1>2, <1>5, <1>9, PageFacts, UvmFields
<1>12. OwnedBy(m) = OwnedBy(w) /\ Injective(m)
  BY <1>2, <1>9, <1>11, SameOwned
<1>13. TopMapped(m, t)
  BY <1>10 DEF TopMapped, pte1, pte2
<1> QED
  BY <1>2, <1>8, <1>9, <1>11, <1>12, <1>13 DEF g

\* The drop of an address space meets no mapped page, and gives back what the
\* space owns but its second-level tables.
LEMMA DropFacts ==
    ASSUME NEW vm \in Uvm, Tidy(vm), Injective(vm), NEW fr \in SUBSET Frames
    PROVE  /\ ~DropPanics(vm)
           /\ DropFree(vm, fr) \in SUBSET Frames /\ Tables(vm) \in SUBSET Frames
           /\ OwnedBy(vm) \in SUBSET Frames
           /\ DropFree(vm, fr) \cup Tables(vm) = OwnedBy(vm) \cup fr
           /\ OwnedBy(vm) \cap fr = {} => DropFree(vm, fr) \cap Tables(vm) = {}
<1>1. \A v \in UserPages : vm.leaf[v].v => v \in Unmapped(vm) /\ UnmapFrees(vm, v)
  BY DEF Tidy, Unmapped, UnmapEnd, UnmapFrees, IsLeaf
<1>2. ~DropPanics(vm)
  BY <1>1, PageFacts DEF DropPanics, IsLeaf, Unmapped
<1>3. \A v \in Unmapped(vm) : UnmapFrees(vm, v) => v \in UserPages /\ vm.leaf[v].v
  BY DEF UnmapFrees, IsLeaf
<1>4. {v \in Unmapped(vm) : UnmapFrees(vm, v)} = {v \in UserPages : vm.leaf[v].v}
  BY <1>1, <1>3
<1>5. DropFree(vm, fr) = fr \cup {vm.root} \cup UserFrames(vm)
  BY <1>4 DEF DropFree, UserFrames
<1>6. UserFrames(vm) \subseteq Frames /\ Tables(vm) \subseteq Frames /\ vm.root \in Frames
  BY UvmFields DEF Tidy, UserFrames, Tables
<1> QED
  BY <1>2, <1>5, <1>6 DEF OwnedBy, Injective

\* Clearing an entry: nothing but the entry changes.
LEMMA ClearFacts ==
    ASSUME NEW vm \in Uvm, NEW v \in VPages
    PROVE  LET c == Cleared(vm, v) IN
           /\ c \in Uvm /\ c.root = vm.root /\ c.dir = vm.dir /\ c.size = vm.size
           /\ ~c.leaf[v].v /\ \A u \in VPages \ {v} : c.leaf[u] = vm.leaf[u]
           /\ Tidy(vm) => Tidy(c)
           /\ Empty(vm) => Empty(c)
<1> DEFINE c == Cleared(vm, v)
<1>1. NoPte \in Pte /\ ~NoPte.v
  BY DEF NoPte, Pte, Perms
<1>2. c = [vm EXCEPT !.leaf[v] = NoPte]
  BY DEF Cleared
<1> HIDE DEF c
<1>3. /\ c \in Uvm /\ c.root = vm.root /\ c.dir = vm.dir /\ c.size = vm.size
      /\ c.leaf = [vm.leaf EXCEPT ![v] = NoPte]
  BY <1>1, <1>2 DEF Uvm
<1>4. ~c.leaf[v].v /\ \A u \in VPages \ {v} : c.leaf[u] = vm.leaf[u]
  BY <1>1, <1>3, UvmFields
<1>5. \A u \in VPages : c.leaf[u].v => u # v /\ c.leaf[u] = vm.leaf[u]
  BY <1>4
<1>6. Tidy(vm) => Tidy(c)
  BY <1>3, <1>5, PageFacts DEF Tidy
<1>7. Empty(vm) => Empty(c)
  BY <1>3, <1>5 DEF Empty
<1> QED
  BY <1>3, <1>4, <1>6, <1>7 DEF c

\* Clearing the entry of a page of the user takes the page away from the space,
LEMMA ClearUserPage ==
    ASSUME NEW vm \in Uvm, NEW v \in UserPages, vm.leaf[v].v, Injective(vm)
    PROVE  LET c == Cleared(vm, v)
               f == vm.leaf[v].frame
           IN  OwnedBy(c) \cup {f} = OwnedBy(vm) /\ f \notin OwnedBy(c) /\ Injective(c)
<1> DEFINE c == Cleared(vm, v)
           f == vm.leaf[v].frame
<1>1. /\ c.root = vm.root /\ c.dir = vm.dir
      /\ ~c.leaf[v].v /\ \A u \in UserPages \ {v} : c.leaf[u] = vm.leaf[u]
  BY ClearFacts, PageFacts
<1> HIDE DEF c
<1>2. Tables(c) = Tables(vm)
  BY <1>1 DEF Tables
<1>3. UserFrames(c) \cup {f} = UserFrames(vm) /\ f \notin UserFrames(c)
  <2>1. {u \in UserPages : c.leaf[u].v} = {u \in UserPages : vm.leaf[u].v} \ {v}
    BY <1>1
  <2>2. \A u \in UserPages \ {v} : vm.leaf[u].v => c.leaf[u].frame = vm.leaf[u].frame /\ vm.leaf[u].frame # f
    BY <1>1 DEF Injective
  <2> HIDE DEF f
  <2>3. f = vm.leaf[v].frame
    BY DEF f
  <2> QED
    BY <2>1, <2>2, <2>3 DEF UserFrames
<1>4. f \in UserFrames(vm)
  BY <1>3
<1>5. OwnedBy(c) \cup {f} = OwnedBy(vm) /\ f \notin OwnedBy(c)
  BY <1>1, <1>2, <1>3, <1>4 DEF OwnedBy, Injective
<1>6. Injective(c)
  <2>1. UserFrames(c) \subseteq UserFrames(vm)
    BY <1>3
  <2>2. \A t, u \in UserPages :
           c.leaf[t].v /\ c.leaf[u].v /\ t # u => c.leaf[t].frame # c.leaf[u].frame
    BY <1>1 DEF Injective
  <2> QED
    BY <1>1, <1>2, <2>1, <2>2 DEF Injective
<1> QED
  BY <1>5, <1>6 DEF c

\* and that of any other entry takes nothing.
LEMMA ClearOther ==
    ASSUME NEW vm \in Uvm, NEW v \in VPages, v \in UserPages => ~vm.leaf[v].v, Injective(vm)
    PROVE  LET c == Cleared(vm, v) IN OwnedBy(c) = OwnedBy(vm) /\ Injective(c)
<1> DEFINE c == Cleared(vm, v)
<1>1. /\ c.root = vm.root /\ c.dir = vm.dir
      /\ ~c.leaf[v].v /\ \A u \in VPages \ {v} : c.leaf[u] = vm.leaf[u]
  BY ClearFacts
<1> HIDE DEF c
<1>2. /\ \A u \in UserPages : c.leaf[u].v <=> vm.leaf[u].v
      /\ \A u \in UserPages : vm.leaf[u].v => c.leaf[u].frame = vm.leaf[u].frame
  BY <1>1, PageFacts
<1>3. Tables(c) = Tables(vm) /\ UserFrames(c) = UserFrames(vm)
  <2>1. {u \in UserPages : c.leaf[u].v} = {u \in UserPages : vm.leaf[u].v}
    BY <1>2
  <2> QED
    BY <1>1, <1>2, <2>1 DEF Tables, UserFrames
<1>4. \A t, u \in UserPages :
         c.leaf[t].v /\ c.leaf[u].v /\ t # u => c.leaf[t].frame # c.leaf[u].frame
  BY <1>2 DEF Injective
<1> QED
  BY <1>1, <1>3, <1>4 DEF c, OwnedBy, Injective

\* The two entries at the top belong to nobody.
LEMMA TopClearedFacts ==
    ASSUME NEW vm \in Uvm, Injective(vm)
    PROVE  LET c == TopCleared(vm) IN
           /\ c \in Uvm /\ OwnedBy(c) = OwnedBy(vm) /\ Injective(c)
           /\ Tidy(vm) => Tidy(c)
           /\ Empty(vm) => Empty(c)
<1> DEFINE b == Cleared(vm, TRAMPOLINE)
           c == Cleared(b, TRAPFRAME)
<1>1. b \in Uvm /\ OwnedBy(b) = OwnedBy(vm) /\ Injective(b)
      /\ (Tidy(vm) => Tidy(b)) /\ (Empty(vm) => Empty(b))
  BY ClearFacts, ClearOther, PageFacts
<1> HIDE DEF b
<1>2. c \in Uvm /\ OwnedBy(c) = OwnedBy(b) /\ Injective(c)
      /\ (Tidy(b) => Tidy(c)) /\ (Empty(b) => Empty(c))
  BY <1>1, ClearFacts, ClearOther, PageFacts
<1> QED
  BY <1>1, <1>2 DEF TopCleared, b

-----------------------------------------------------------------------------
(* Ownership.  A step moves frames between at most two slots, the free list *)
(* and the lost tables; nobody else notices.                                *)

\* The labels of kfork() and of kexec().
LEMMA LabelFacts ==
    /\ ForkLabels \subseteq Labels /\ ExecLabels \subseteq Growing /\ Building \subseteq Labels
    /\ Growing \subseteq Building /\ Growing \cap (PteLabels \cup OldDrop \cup WorkDrop) = {}
    /\ PteLabels \subseteq OldDrop \cup WorkDrop /\ OldDrop \cup WorkDrop \subseteq Building
    /\ OldDrop \cap WorkDrop = {} /\ (OldDrop \cup WorkDrop) \cap ExecLabels = {}
    /\ ForkLabels \cap (MainLabels \cup PanicLabels \cup {"user", "none", "boot"}) = {}
    /\ MainLabels \cap (PanicLabels \cup {"user", "none", "boot"}) = {}
    /\ MainLabels \subseteq Labels /\ PanicLabels \subseteq Labels
    /\ ExecLabels \cup OldDrop \cup WorkDrop \cup {"exec"} = MainLabels /\ "exec" \notin ExecLabels
    /\ "panic_uvm" \in Building \ (PteLabels \cup OldDrop)
    /\ Building \cap {"exec", "user", "none", "boot", "fork_tf", "clone", "panic"} = {}
    /\ {"exec", "user", "none", "boot", "fork_tf", "clone", "panic"} \subseteq Labels
    /\ PanicLabels = {"panic", "panic_uvm"}
BY DEF ForkLabels, ExecLabels, Building, Labels, Growing, PteLabels, OldDrop, WorkDrop,
       MainLabels, PanicLabels

\* The part of FramesAreExclusive about slot s alone.
Inner(s) ==
    /\ Injective(Old(s)) /\ tf[s] \notin OwnedBy(Old(s))
    /\ pc[s] \in Building => /\ Injective(New(s))
                             /\ tf[s] \notin OwnedBy(New(s))
                             /\ OwnedBy(New(s)) \cap OwnedBy(Old(s)) = {}

\* What slot t owns is as it was.
Untouched(t) ==
    /\ Old(t)' = Old(t) /\ tf'[t] = tf[t]
    /\ pc'[t] \in Building <=> pc[t] \in Building
    /\ pc[t] \in Building => New(t)' = New(t)

\* A process that keeps its label, or is not building, keeps its frames.
Idle(t) ==
    /\ uvm'[t] = uvm[t] /\ tf'[t] = tf[t]
    /\ \/ pc'[t] = pc[t] /\ work'[t] = work[t] /\ next'[t] = next[t]
       \/ pc[t] \notin Building /\ pc'[t] \notin Building

LEMMA IdleFacts ==
    ASSUME NEW t, Idle(t)
    PROVE  Untouched(t)
<1>1. PteLabels \subseteq Building
  BY DEF PteLabels, Building, OldDrop, WorkDrop
<1>2. CASE pc'[t] = pc[t] /\ work'[t] = work[t] /\ next'[t] = next[t]
  BY <1>2 DEF Idle, Untouched, Old, New
<1>3. CASE pc[t] \notin Building /\ pc'[t] \notin Building
  BY <1>1, <1>3 DEF Idle, Untouched, Old, New, PteLabels
<1> QED
  BY <1>2, <1>3 DEF Idle

\* Away from the two labels in the middle of unmap() the address spaces own
\* what their tables say.
LEMMA PlainSpaces ==
    ASSUME NEW t, pc[t] \notin PteLabels
    PROVE  Old(t) = uvm[t] /\ New(t) = work[t]
BY DEF Old, New, PteLabels

LEMMA PlainSpacesNext ==
    ASSUME NEW t, pc'[t] \notin PteLabels
    PROVE  Old(t)' = uvm'[t] /\ New(t)' = work'[t]
BY DEF Old, New, PteLabels

LEMMA Transfer ==
    ASSUME FramesAreExclusive, OnlyTablesGetLost, NEW a \in Slots, NEW b \in Slots,
           \A t \in Slots \ {a, b} : Untouched(t),
           Owned(a)' \cup Owned(b)' \cup free' \cup lost' = Owned(a) \cup Owned(b) \cup free \cup lost,
           (Owned(a)' \cup Owned(b)') \cap (free' \cup lost') = {},
           a # b => Owned(a)' \cap Owned(b)' = {},
           free' \cap lost' = {}, Inner(a)', Inner(b)'
    PROVE  FramesAreExclusive' /\ OnlyTablesGetLost'
<1>1. \A t \in Slots \ {a, b} : Owned(t)' = Owned(t) /\ (Inner(t) => Inner(t)')
  BY DEF Untouched, Owned, Inner
<1>2. \A t \in Slots : Inner(t)'
  BY <1>1 DEF FramesAreExclusive, Inner
<1>3. \A s \in Slots : Owned(s)' \cap (free' \cup lost') = {}
  <2> SUFFICES ASSUME NEW s \in Slots \ {a, b} PROVE Owned(s)' \cap (free' \cup lost') = {}
    OBVIOUS
  <2>1. Owned(s) \cap (Owned(a) \cup Owned(b) \cup free \cup lost) = {}
    BY DEF FramesAreExclusive
  <2> QED
    BY <1>1, <2>1
<1>4. \A s \in Slots : \A t \in Slots \ {s} : Owned(s)' \cap Owned(t)' = {}
  <2>1. ASSUME NEW s \in Slots \ {a, b} PROVE Owned(s)' \cap (Owned(a)' \cup Owned(b)') = {}
    <3>1. Owned(s) \cap (Owned(a) \cup Owned(b) \cup free \cup lost) = {}
      BY DEF FramesAreExclusive
    <3> QED
      BY <1>1, <3>1
  <2>2. \A s, t \in Slots \ {a, b} : s # t => Owned(s)' \cap Owned(t)' = {}
    BY <1>1 DEF FramesAreExclusive
  <2> QED
    BY <2>1, <2>2
<1>5. Frames = free' \cup lost' \cup UNION {Owned(s)' : s \in Slots}
  <2>1. Frames = free \cup lost \cup UNION {Owned(s) : s \in Slots}
    BY DEF OnlyTablesGetLost
  <2>2. \A f : (\E s \in Slots : f \in Owned(s)') <=> (\E s \in Slots \ {a, b} : f \in Owned(s)) \/ f \in Owned(a)' \cup Owned(b)'
    BY <1>1
  <2>3. \A f : (\E s \in Slots : f \in Owned(s)) <=> (\E s \in Slots \ {a, b} : f \in Owned(s)) \/ f \in Owned(a) \cup Owned(b)
    OBVIOUS
  <2>4. \A f : f \in UNION {Owned(s)' : s \in Slots} <=> (\E s \in Slots : f \in Owned(s)')
    OBVIOUS
  <2>5. \A f : f \in UNION {Owned(s) : s \in Slots} <=> (\E s \in Slots : f \in Owned(s))
    OBVIOUS
  <2>6. \A f : f \in Frames <=> f \in free \cup lost \/ (\E s \in Slots : f \in Owned(s))
    BY <2>1, <2>5
  <2>7. \A f : f \in Frames <=> f \in free' \cup lost' \/ (\E s \in Slots : f \in Owned(s)')
    BY <2>2, <2>3, <2>6
  <2> QED
    BY <2>4, <2>7
<1> QED
  BY <1>2, <1>3, <1>4, <1>5 DEF FramesAreExclusive, OnlyTablesGetLost, Inner

\* Nothing changes hands.
LEMMA NoTransfer ==
    ASSUME FramesAreExclusive, OnlyTablesGetLost, UNCHANGED <<free, lost>>,
           \A t \in Slots : Untouched(t)
    PROVE  FramesAreExclusive' /\ OnlyTablesGetLost'
<1>1. 0 \in Slots /\ Owned(0)' = Owned(0) /\ (Inner(0) => Inner(0)')
  BY PageFacts DEF Untouched, Owned, Inner
<1>2. Inner(0) /\ Owned(0) \cap (free \cup lost) = {} /\ free \cap lost = {}
  BY <1>1 DEF FramesAreExclusive, Inner
<1> QED
  BY <1>1, <1>2, Transfer

\* The frames of the address space that slot s is building.
Draft(s) == IF pc[s] \in Building THEN OwnedBy(New(s)) ELSE {}

\* The address space under construction grows from the free list.
LEMMA WorkTransfer ==
    ASSUME TypeOK, FramesAreExclusive, OnlyTablesGetLost, NEW s \in Slots, NEW m,
           UNCHANGED <<uvm, tf, lost>>, work' = [work EXCEPT ![s] = m],
           pc[s] \notin PteLabels, pc'[s] \in Growing,
           \A t \in Slots \ {s} : pc'[t] = pc[t] /\ next'[t] = next[t],
           Injective(m), free' \subseteq free,
           OwnedBy(m) \cup free' = Draft(s) \cup free,
           OwnedBy(m) \cap free' = {}
    PROVE  FramesAreExclusive' /\ OnlyTablesGetLost'
<1>1. work'[s] = m /\ \A t \in Slots \ {s} : work'[t] = work[t]
  BY DEF TypeOK
<1>2. \A t \in Slots \ {s} : Untouched(t)
  BY <1>1, IdleFacts DEF Idle
<1>3. pc'[s] \in Building /\ pc'[s] \notin PteLabels
  BY LabelFacts
<1>4. Old(s) = uvm[s] /\ Old(s)' = uvm[s] /\ New(s)' = m
  BY <1>1, <1>3, PlainSpaces, PlainSpacesNext
<1> DEFINE R == OwnedBy(uvm[s]) \cup {tf[s]}
<1>5. Owned(s) = R \cup Draft(s)
  BY <1>4 DEF Owned, Draft
<1>6. Owned(s)' = R \cup OwnedBy(m)
  BY <1>3, <1>4 DEF Owned
<1>7. /\ R \cap (free \cup lost) = {} /\ Draft(s) \cap (free \cup lost) = {}
      /\ free \cap lost = {}
  BY <1>5 DEF FramesAreExclusive
<1>8. R \cap Draft(s) = {} /\ Injective(uvm[s]) /\ tf[s] \notin OwnedBy(uvm[s])
  BY <1>4 DEF FramesAreExclusive, Draft
<1>9. R \cap OwnedBy(m) = {}
  BY <1>7, <1>8
<1>10. OwnedBy(m) \cap lost = {}
  BY <1>7
<1>11. Inner(s)'
  BY <1>4, <1>8, <1>9 DEF Inner
<1>12. Owned(s)' \cup free' \cup lost' = Owned(s) \cup free \cup lost
  BY <1>5, <1>6
<1>13. Owned(s)' \cap (free' \cup lost') = {} /\ free' \cap lost' = {}
  BY <1>6, <1>7, <1>10
<1> HIDE DEF R
<1> QED
  BY <1>2, <1>11, <1>12, <1>13, Transfer

\* Slot c gets a new page for its trapframe and gives back the old one.
LEMMA TrapframeTransfer ==
    ASSUME TypeOK, FramesAreExclusive, OnlyTablesGetLost, NEW c \in Slots,
           free # {}, ReplaceTrapframe(c), UNCHANGED <<uvm, work, lost>>,
           pc[c] \notin Building, pc'[c] \notin Building,
           \A t \in Slots : \/ pc'[t] = pc[t] /\ next'[t] = next[t]
                            \/ pc[t] \notin Building /\ pc'[t] \notin Building
    PROVE  FramesAreExclusive' /\ OnlyTablesGetLost'
<1> DEFINE f == LeastOf(free)
           R == OwnedBy(uvm[c])
<1>1. f \in free /\ f \notin Rest(free) /\ Rest(free) \cup {f} = free
  BY Taken DEF TypeOK
<1>2. tf'[c] = f /\ free' = Rest(free) \cup {tf[c]} /\ \A t \in Slots \ {c} : tf'[t] = tf[t]
  BY DEF ReplaceTrapframe, TypeOK
<1>3. \A t \in Slots \ {c} : Untouched(t)
  BY <1>2, IdleFacts DEF Idle
<1>4. Old(c) = uvm[c] /\ Old(c)' = uvm[c]
  BY LabelFacts, PlainSpaces, PlainSpacesNext
<1>5. Owned(c) = R \cup {tf[c]}
  BY <1>4 DEF Owned
<1> HIDE DEF f
<1>6. Owned(c)' = R \cup {f}
  BY <1>2, <1>4 DEF Owned
<1>7. R \cap (free \cup lost) = {} /\ tf[c] \notin free \cup lost /\ free \cap lost = {}
  BY <1>5 DEF FramesAreExclusive
<1>8. tf[c] \notin R /\ Injective(uvm[c])
  BY <1>4 DEF FramesAreExclusive
<1>9. Inner(c)'
  BY <1>1, <1>2, <1>4, <1>7, <1>8 DEF Inner
<1> HIDE DEF R
<1>10. Owned(c)' \cup free' \cup lost' = Owned(c) \cup free \cup lost
  BY <1>1, <1>2, <1>5, <1>6
<1>11. Owned(c)' \cap (free' \cup lost') = {} /\ free' \cap lost' = {}
  BY <1>1, <1>2, <1>6, <1>7, <1>8
<1> QED
  BY <1>3, <1>9, <1>10, <1>11, Transfer

-----------------------------------------------------------------------------
(* The steps.                                                               *)

\* A slot that a step does not touch keeps its part of the invariant.
LEMMA OthersKeep ==
    ASSUME NEW t \in Slots, SlotInv(t),
           uvm'[t] = uvm[t], tf'[t] = tf[t], work'[t] = work[t],
           next'[t] = next[t], state'[t] = state[t],
           pc'[t] = pc[t] \/ (pc[t] = "user" /\ pc'[t] = "panic"),
           pc[t] = "fork_run" => tf'[child'[t]] = tf[child[t]]
    PROVE  SlotInv(t)'
<1>1. pc[t] = "user" => /\ pc[t] \notin Building \cup ExecLabels \cup OldDrop \cup PteLabels
                        /\ "panic" \notin Building \cup ExecLabels \cup OldDrop \cup PteLabels
  BY LabelFacts
<1>2. TidyInv(t)'
  BY <1>1 DEF SlotInv, TidyInv, Tidy
<1>3. WorkInv(t)'
  <2>1. WorkInv(t)
    BY DEF SlotInv
  <2>2. CASE pc'[t] = pc[t]
    BY <2>1, <2>2 DEF WorkInv
  <2>3. CASE pc[t] = "user" /\ pc'[t] = "panic"
    BY <1>1, <2>3 DEF WorkInv
  <2> QED
    BY <2>2, <2>3
<1>4. LayoutInv(t)'
  BY <1>1 DEF SlotInv, LayoutInv, TopMapped, Empty, Program
<1> QED
  BY <1>2, <1>3, <1>4 DEF SlotInv

\* The states and the lock when a process panics.
LEMMA PanicControl ==
    ASSUME ControlInv, NEW s \in Slots, NEW l \in PanicLabels, NEW by,
           pc'[s] = l, \A t \in Slots \ {s} : pc'[t] = pc[t], UNCHANGED <<state, child>>,
           locked \in {None, s}, by \in {locked, s}, locked' = by,
           pc[s] \in {"boot", "user"} \cup ForkLabels \cup MainLabels,
           pc[s] = "boot" => l = "panic"
    PROVE  ControlInv'
<1>1. None \notin Slots /\ pc[s] \notin PanicLabels \cup {"none"}
  BY LabelFacts DEF None, Slots
<1>2. \A t \in Slots : pc'[t] = "boot" => t = 0 /\ locked' = 0 /\ state'[t] = "Unused"
  BY <1>1, LabelFacts DEF ControlInv
<1>3. \A t \in Slots : state'[t] = "Unused" =>
        pc'[t] = "none" \/ (t = 0 /\ locked' = 0 /\ pc'[t] \in {"boot", "panic"})
  <2>1. CASE state[s] = "Unused"
    <3>1. pc[s] = "boot" /\ s = 0 /\ locked = 0 /\ l = "panic"
      BY <1>1, <2>1, LabelFacts DEF ControlInv
    <3> QED
      BY <1>1, <3>1 DEF ControlInv
  <2>2. CASE state[s] # "Unused"
    BY <1>1, <2>2 DEF ControlInv
  <2> QED
    BY <2>1, <2>2
<1>4. /\ \A t \in Slots : state'[t] = "Zombie" => pc'[t] = "none"
      /\ \A t \in Slots : state'[t] = "Live" => pc'[t] # "none"
      /\ \A t \in Slots : pc'[t] = "user" => state'[t] = "Live" /\ locked' # t
  BY <1>1, LabelFacts DEF ControlInv
<1>5. \A t \in Slots : state'[t] = "Used" =>
        \/ /\ locked' \in Slots /\ pc'[locked'] \in ForkLabels \cup PanicLabels
           /\ child'[locked'] = t /\ pc'[t] = "none"
        \/ t = 0 /\ locked' = 0 /\ pc'[t] \in MainLabels \cup PanicLabels
  <2> SUFFICES ASSUME NEW t \in Slots, state[t] = "Used"
               PROVE  \/ /\ locked' \in Slots /\ pc'[locked'] \in ForkLabels \cup PanicLabels
                         /\ child'[locked'] = t /\ pc'[t] = "none"
                      \/ t = 0 /\ locked' = 0 /\ pc'[t] \in MainLabels \cup PanicLabels
    OBVIOUS
  <2>1. locked = s /\ locked' = s
    BY <1>1, PageFacts DEF ControlInv
  <2> QED
    BY <1>1, <2>1, LabelFacts DEF ControlInv
<1>6. \A t \in Slots : pc'[t] \in ForkLabels =>
        /\ locked' = t /\ state'[t] = "Live"
        /\ child'[t] \in Slots /\ state'[child'[t]] = "Used"
  BY <1>1, LabelFacts DEF ControlInv
<1> QED
  BY <1>2, <1>3, <1>4, <1>5, <1>6 DEF ControlInv

\* A process panics and moves no page: it keeps what it has for ever.
LEMMA PanicKeeps ==
    ASSUME Inv, NEW s \in Slots, NEW l, NEW by, Panics(s, l, by),
           locked \in {None, s}, by \in {locked, s},
           \/ l = "panic" /\ pc[s] \in {"boot", "user", "fork_tf", "clone", "exec"}
           \/ l = "panic_uvm" /\ pc[s] \in Growing
    PROVE  Inv'
<1>1. /\ pc' = [pc EXCEPT ![s] = l] /\ locked' = by
      /\ UNCHANGED <<free, uvm, tf, state, work, next, child, lost, panic>>
  BY DEF Panics, Goto
<1>2. pc'[s] = l /\ (\A t \in Slots \ {s} : pc'[t] = pc[t]) /\ l \in PanicLabels
  BY <1>1, LabelFacts DEF Inv, TypeOK
<1>3. pc[s] \notin PanicLabels \cup OldDrop \cup WorkDrop \cup PteLabels \cup {"none"}
  BY DEF PanicLabels, OldDrop, WorkDrop, PteLabels, Growing, ExecLabels
<1>4. TypeOK' /\ DropsAreClean'
  BY <1>1, <1>2, LabelFacts DEF Inv, TypeOK, DropsAreClean
<1>5. ControlInv'
  <2>1. /\ l \in PanicLabels /\ (pc[s] = "boot" => l = "panic")
        /\ pc[s] \in {"boot", "user"} \cup ForkLabels \cup MainLabels
    BY LabelFacts DEF Growing, ForkLabels
  <2> QED
    BY <1>1, <1>2, <2>1, PanicControl DEF Inv
<1>6. \A t \in Slots \ {s} : SlotInv(t)'
  BY <1>1, <1>2, OthersKeep DEF Inv
<1>7. SlotInv(s)'
  <2>1. SlotInv(s)
    BY DEF Inv
  <2>2. TidyInv(s)'
    BY <1>1, <1>2, <2>1, LabelFacts DEF SlotInv, TidyInv
  <2>3. WorkInv(s)'
    BY <1>2, LabelFacts DEF WorkInv, ExecLabels, OldDrop, PteLabels
  <2>4. LayoutInv(s)'
    BY <1>1, <1>2, <1>3, <2>1 DEF SlotInv, LayoutInv
  <2> QED
    BY <2>2, <2>3, <2>4 DEF SlotInv
<1>8. \A t \in Slots : Untouched(t)
  <2>1. \A t \in Slots \ {s} : Untouched(t)
    BY <1>1, <1>2, IdleFacts DEF Idle
  <2>2. Untouched(s)
    <3>1. pc'[s] \notin PteLabels /\ (pc'[s] \in Building <=> pc[s] \in Building)
      BY <1>2, LabelFacts
    <3> QED
      BY <1>1, <1>3, <3>1, PlainSpaces, PlainSpacesNext DEF Untouched
  <2> QED
    BY <2>1, <2>2
<1> QED
  BY <1>1, <1>4, <1>5, <1>6, <1>7, <1>8, NoTransfer DEF Inv

\* Slot s gets on with kexec(), or with the drop of an address space in it.
LEMMA MainStep ==
    ASSUME ControlInv, NEW s \in Slots, UNCHANGED <<state, child, locked>>,
           \A t \in Slots \ {s} : pc'[t] = pc[t],
           pc[s] \in MainLabels, pc'[s] \in MainLabels
    PROVE  ControlInv'
<1>1. /\ pc[s] \notin ForkLabels \cup PanicLabels \cup {"user", "none", "boot", "panic"}
      /\ pc'[s] \notin ForkLabels \cup PanicLabels \cup {"user", "none", "boot", "panic"}
  BY LabelFacts
<1>2. \A t \in Slots : state'[t] = "Used" =>
        \/ /\ locked' \in Slots /\ pc'[locked'] \in ForkLabels \cup PanicLabels
           /\ child'[locked'] = t /\ pc'[t] = "none"
        \/ t = 0 /\ locked' = 0 /\ pc'[t] \in MainLabels \cup PanicLabels
  BY <1>1 DEF ControlInv
<1>3. \A t \in Slots : pc'[t] \in ForkLabels =>
        /\ locked' = t /\ state'[t] = "Live"
        /\ child'[t] \in Slots /\ state'[child'[t]] = "Used"
  BY <1>1 DEF ControlInv
<1>4. /\ \A t \in Slots : pc'[t] = "boot" => t = 0 /\ locked' = 0 /\ state'[t] = "Unused"
      /\ \A t \in Slots : state'[t] = "Unused" =>
            pc'[t] = "none" \/ (t = 0 /\ locked' = 0 /\ pc'[t] \in {"boot", "panic"})
      /\ \A t \in Slots : state'[t] = "Zombie" => pc'[t] = "none"
      /\ \A t \in Slots : state'[t] = "Live" => pc'[t] # "none"
      /\ \A t \in Slots : pc'[t] = "user" => state'[t] = "Live" /\ locked' # t
  BY <1>1 DEF ControlInv
<1> QED
  BY <1>2, <1>3, <1>4 DEF ControlInv

\* Slot s gets on with kfork(), or with kexec().
SameCall(l, k) == {l, k} \subseteq ForkLabels \/ {l, k} \subseteq ExecLabels \cup {"exec"}

LEMMA ControlStep ==
    ASSUME ControlInv, NEW s \in Slots, UNCHANGED <<state, child, locked>>,
           \A t \in Slots \ {s} : pc'[t] = pc[t], SameCall(pc[s], pc'[s])
    PROVE  ControlInv'
<1>1. CASE pc[s] \in ForkLabels /\ pc'[s] \in ForkLabels
  BY <1>1, LabelFacts DEF ControlInv
<1>2. CASE pc[s] \in MainLabels /\ pc'[s] \in MainLabels
  BY <1>2, MainStep
<1> QED
  BY <1>1, <1>2 DEF SameCall, MainLabels

\* A step in the construction of an address space.
LEMMA WorkStep ==
    ASSUME Inv, NEW s \in Slots, NEW m \in Uvm, NEW l, NEW n \in 0 .. MaxPages,
           UNCHANGED <<uvm, tf, state, child, locked, lost, panic>>,
           work' = [work EXCEPT ![s] = m], pc' = [pc EXCEPT ![s] = l],
           next' = [next EXCEPT ![s] = n],
           l \in Growing, SameCall(pc[s], l),
           Injective(m), Tidy(m), free' \subseteq free,
           OwnedBy(m) \cup free' = Draft(s) \cup free, OwnedBy(m) \cap free' = {},
           WorkInv(s)'
    PROVE  Inv'
<1>1. /\ pc'[s] = l /\ \A t \in Slots \ {s} : pc'[t] = pc[t]
      /\ work'[s] = m /\ \A t \in Slots \ {s} : work'[t] = work[t]
      /\ \A t \in Slots \ {s} : next'[t] = next[t]
  BY DEF Inv, TypeOK
<1>2. /\ pc[s] \notin OldDrop \cup PteLabels /\ l \notin OldDrop
      /\ l \in Building /\ l \in Labels
  BY LabelFacts DEF SameCall
<1>3. TypeOK'
  BY <1>2 DEF Inv, TypeOK
<1>4. ControlInv'
  BY <1>1, ControlStep DEF Inv
<1>5. \A t \in Slots \ {s} : SlotInv(t)'
  BY <1>1, OthersKeep DEF Inv
<1>6. SlotInv(s)'
  <2>1. TidyInv(s)'
    BY <1>1 DEF Inv, SlotInv, TidyInv, Tidy
  <2>2. LayoutInv(s)'
    BY <1>1, <1>2 DEF Inv, SlotInv, LayoutInv, Program, TopMapped, Empty
  <2> QED
    BY <2>1, <2>2 DEF SlotInv
<1>7. FramesAreExclusive' /\ OnlyTablesGetLost'
  BY <1>1, <1>2, WorkTransfer DEF Inv
<1> QED
  BY <1>3, <1>4, <1>5, <1>6, <1>7 DEF Inv, DropsAreClean

\* The address space under construction.
LEMMA DraftFacts ==
    ASSUME Inv, NEW s \in Slots, pc[s] \in Growing
    PROVE  /\ work[s] \in Uvm /\ Injective(work[s]) /\ Tidy(work[s])
           /\ OwnedBy(work[s]) \cap free = {} /\ Draft(s) = OwnedBy(work[s])
           /\ free \in SUBSET Frames /\ WorkInv(s)
<1>1. pc[s] \in Building /\ New(s) = work[s]
  BY LabelFacts, PlainSpaces
<1>2. OwnedBy(work[s]) \subseteq Owned(s)
  BY <1>1 DEF Owned
<1> QED
  BY <1>1, <1>2 DEF Inv, TypeOK, FramesAreExclusive, SlotInv, TidyInv, Draft

\* The address space that slot s was building is gone.
LEMMA WorkDropTransfer ==
    ASSUME TypeOK, FramesAreExclusive, OnlyTablesGetLost, NEW s \in Slots,
           pc[s] \in Building, pc[s] \notin PteLabels, Tidy(work[s]), pc'[s] \notin Building,
           free' = DropFree(work[s], free), lost' = lost \cup Tables(work[s]),
           work' = [work EXCEPT ![s] = NoUvm], UNCHANGED <<uvm, tf, next>>,
           \A t \in Slots \ {s} : pc'[t] = pc[t]
    PROVE  FramesAreExclusive' /\ OnlyTablesGetLost'
<1> DEFINE W == OwnedBy(work[s])
           R == OwnedBy(uvm[s]) \cup {tf[s]}
           T == Tables(work[s])
<1>1. \A t \in Slots \ {s} : work'[t] = work[t]
  BY DEF TypeOK
<1>2. \A t \in Slots \ {s} : Untouched(t)
  BY <1>1, IdleFacts DEF Idle
<1>3. Old(s) = uvm[s] /\ New(s) = work[s] /\ Old(s)' = uvm[s]
  BY LabelFacts, PlainSpaces, PlainSpacesNext
<1>4. Owned(s) = R \cup W /\ Owned(s)' = R
  BY <1>3 DEF Owned
<1>5. /\ Injective(uvm[s]) /\ Injective(work[s]) /\ tf[s] \notin OwnedBy(uvm[s])
      /\ R \cap W = {}
  BY <1>3 DEF FramesAreExclusive
<1>6. (R \cup W) \cap (free \cup lost) = {} /\ free \cap lost = {}
  BY <1>4 DEF FramesAreExclusive
<1>7. free' \cup T = W \cup free /\ free' \cap T = {}
  <2>1. W \cap free = {} /\ work[s] \in Uvm /\ free \in SUBSET Frames
    BY <1>6 DEF TypeOK
  <2> QED
    BY <1>5, <2>1, DropFacts
<1>8. T \subseteq W
  BY DEF OwnedBy
<1>9. Inner(s)'
  BY <1>3, <1>5 DEF Inner
<1>10. lost' = lost \cup T
  OBVIOUS
<1> HIDE DEF W, R, T
<1>11. free' \cup lost' = W \cup free \cup lost /\ free' \cap lost' = {}
  BY <1>6, <1>7, <1>8, <1>10
<1>12. Owned(s)' \cup free' \cup lost' = Owned(s) \cup free \cup lost
  BY <1>4, <1>11
<1>13. Owned(s)' \cap (free' \cup lost') = {}
  BY <1>4, <1>5, <1>6, <1>11
<1> QED
  BY <1>2, <1>9, <1>11, <1>12, <1>13, Transfer

\* kfork() or kexec() gives its address space up, and the process panics.
LEMMA DropWorkInv ==
    ASSUME Inv, NEW s \in Slots, pc[s] \in {"clone_page", "work_drop"},
           locked \in {None, s}, DropWork(s)
    PROVE  Inv'
<1>1. pc[s] \in Building /\ pc[s] \notin PteLabels \cup OldDrop
  BY LabelFacts DEF Growing, WorkDrop, OldDrop, PteLabels
<1>2. /\ work[s] \in Uvm /\ Tidy(work[s]) /\ Injective(work[s]) /\ free \in SUBSET Frames
  BY <1>1, PlainSpaces DEF Inv, TypeOK, SlotInv, TidyInv, FramesAreExclusive
<1>3. ~DropPanics(work[s])
  BY <1>2, DropFacts
<1>4. /\ free' = DropFree(work[s], free) /\ lost' = lost \cup Tables(work[s])
      /\ work' = [work EXCEPT ![s] = NoUvm] /\ pc' = [pc EXCEPT ![s] = "panic"]
      /\ UNCHANGED <<uvm, tf, state, next, child, locked, panic>>
  BY <1>3 DEF DropWork, Goto
<1>5. /\ pc'[s] = "panic" /\ \A t \in Slots \ {s} : pc'[t] = pc[t]
      /\ \A t \in Slots \ {s} : work'[t] = work[t]
  BY <1>4 DEF Inv, TypeOK
<1>6. TypeOK' /\ DropsAreClean'
  <2>1. free' \in SUBSET Frames /\ Tables(work[s]) \in SUBSET Frames
    BY <1>2, <1>4, DropFacts
  <2>2. NoUvm \in Uvm
    <3>1. 1 \in Frames
      BY NframesAssumption, NprocAssumption DEF Frames
    <3> QED
      BY <3>1, NewFacts DEF NoUvm
  <2> QED
    BY <1>4, <2>1, <2>2, LabelFacts DEF Inv, TypeOK, DropsAreClean
<1>7. ControlInv'
  <2>1. "panic" \in PanicLabels /\ pc[s] \in ForkLabels \cup MainLabels /\ pc[s] # "boot"
    BY LabelFacts DEF ForkLabels, WorkDrop
  <2> QED
    BY <1>4, <1>5, <2>1, PanicControl DEF Inv
<1>8. \A t \in Slots \ {s} : SlotInv(t)'
  BY <1>4, <1>5, OthersKeep DEF Inv
<1>9. SlotInv(s)'
  <2>1. SlotInv(s)
    BY DEF Inv
  <2>2. TidyInv(s)'
    BY <1>4, <1>5, <2>1, LabelFacts DEF SlotInv, TidyInv
  <2>3. WorkInv(s)'
    BY <1>5 DEF WorkInv, ExecLabels, OldDrop, PteLabels
  <2>4. LayoutInv(s)'
    BY <1>1, <1>4, <2>1 DEF SlotInv, LayoutInv
  <2> QED
    BY <2>2, <2>3, <2>4 DEF SlotInv
<1>10. FramesAreExclusive' /\ OnlyTablesGetLost'
  BY <1>1, <1>2, <1>4, <1>5, LabelFacts, WorkDropTransfer DEF Inv
<1> QED
  BY <1>6, <1>7, <1>8, <1>9, <1>10 DEF Inv

\* A step of kexec() that gives back pages, or none, of one of its two address
\* spaces.
LEMMA SpaceStep ==
    ASSUME Inv, NEW s \in Slots, NEW l \in OldDrop \cup WorkDrop, NEW n \in 0 .. MaxPages,
           pc[s] \in ExecLabels \cup OldDrop \cup WorkDrop,
           UNCHANGED <<tf, state, child, locked, lost, panic>>,
           uvm' \in [Slots -> Uvm], work' \in [Slots -> Uvm],
           \A t \in Slots \ {s} : uvm'[t] = uvm[t] /\ work'[t] = work[t],
           pc' = [pc EXCEPT ![s] = l], next' = [next EXCEPT ![s] = n],
           SlotInv(s)', Injective(Old(s))', Injective(New(s))',
           OwnedBy(Old(s))' \cup OwnedBy(New(s))' \cup free' = OwnedBy(Old(s)) \cup OwnedBy(New(s)) \cup free,
           OwnedBy(Old(s))' \subseteq OwnedBy(Old(s)), OwnedBy(New(s))' \subseteq OwnedBy(New(s)),
           (OwnedBy(Old(s))' \cup OwnedBy(New(s))') \cap free' = {}, free' \in SUBSET Frames
    PROVE  Inv'
<1>1. /\ pc'[s] = l /\ \A t \in Slots \ {s} : pc'[t] = pc[t]
      /\ \A t \in Slots \ {s} : next'[t] = next[t]
  BY DEF Inv, TypeOK
<1>2. /\ pc[s] \in MainLabels /\ l \in MainLabels /\ l \in Labels
      /\ pc[s] \in Building /\ l \in Building
  BY DEF MainLabels, Building, Labels
<1>3. TypeOK' /\ DropsAreClean'
  BY <1>2 DEF Inv, TypeOK, DropsAreClean
<1>4. ControlInv'
  BY <1>1, <1>2, MainStep DEF Inv
<1>5. \A t \in Slots \ {s} : SlotInv(t)'
  BY <1>1, OthersKeep DEF Inv
<1>6. \A t \in Slots \ {s} : Untouched(t)
  BY <1>1, IdleFacts DEF Idle
<1> DEFINE O == OwnedBy(Old(s))
           N == OwnedBy(New(s))
<1>7. Owned(s) = O \cup {tf[s]} \cup N
  BY <1>2 DEF Owned
<1>8. Owned(s)' = O' \cup {tf[s]} \cup N'
  BY <1>1, <1>2 DEF Owned
<1>9. Owned(s) \cap (free \cup lost) = {} /\ free \cap lost = {}
  BY DEF FramesAreExclusive, Inv
<1>10. tf[s] \notin O \cup N /\ O \cap N = {}
  BY <1>2 DEF FramesAreExclusive, Inv
<1>11. /\ O' \cup N' \cup free' = O \cup N \cup free /\ O' \subseteq O /\ N' \subseteq N
       /\ (O' \cup N') \cap free' = {} /\ Injective(Old(s))' /\ Injective(New(s))'
  OBVIOUS
<1>12. Inner(s)'
  <2>1. tf[s] \notin O' \cup N' /\ O' \cap N' = {}
    BY <1>10, <1>11
  <2> QED
    BY <1>11, <2>1 DEF Inner
<1> HIDE DEF O, N
<1>13. Owned(s)' \cup free' \cup lost' = Owned(s) \cup free \cup lost
  BY <1>7, <1>8, <1>11
<1>14. Owned(s)' \cap (free' \cup lost') = {} /\ free' \cap lost' = {}
  BY <1>7, <1>8, <1>9, <1>10, <1>11
<1>15. FramesAreExclusive' /\ OnlyTablesGetLost'
  BY <1>6, <1>12, <1>13, <1>14, Transfer DEF Inv
<1> QED
  BY <1>3, <1>4, <1>5, <1>15 DEF Inv

\* The two address spaces of a process in kexec().
LEMMA ExecFacts ==
    ASSUME Inv, NEW s \in Slots, pc[s] \in ExecLabels \cup OldDrop \cup WorkDrop
    PROVE  /\ uvm[s] \in Uvm /\ work[s] \in Uvm /\ Tidy(uvm[s]) /\ Tidy(work[s])
           /\ Injective(Old(s)) /\ Injective(New(s))
           /\ OwnedBy(Old(s)) \cap OwnedBy(New(s)) = {}
           /\ (OwnedBy(Old(s)) \cup OwnedBy(New(s))) \cap free = {}
           /\ free \in SUBSET Frames /\ SlotInv(s)
<1>1. pc[s] \in Building
  BY LabelFacts
<1>2. OwnedBy(Old(s)) \cup OwnedBy(New(s)) \subseteq Owned(s)
  BY <1>1 DEF Owned
<1> QED
  BY <1>1, <1>2 DEF Inv, TypeOK, SlotInv, TidyInv, FramesAreExclusive

\* kexec() fails: the drop of the new address space starts.
LEMMA ExecErrInv ==
    ASSUME Inv, NEW s \in Slots, pc[s] \in ExecLabels, ExecErr(s), UNCHANGED panic
    PROVE  Inv'
<1> DEFINE m == TopCleared(work[s])
<1>1. /\ work' = [work EXCEPT ![s] = m] /\ next' = [next EXCEPT ![s] = 0]
      /\ pc' = [pc EXCEPT ![s] = "work_drop"]
      /\ UNCHANGED <<free, uvm, tf, state, child, locked, lost>>
  BY DEF ExecErr, Goto
<1>2. /\ pc[s] \notin PteLabels \cup OldDrop /\ "work_drop" \notin PteLabels \cup OldDrop
      /\ "work_drop" \in WorkDrop
  BY LabelFacts DEF PteLabels, OldDrop, WorkDrop
<1>3. /\ Old(s) = uvm[s] /\ New(s) = work[s] /\ SlotInv(s)
      /\ work[s] \in Uvm /\ Tidy(work[s]) /\ Injective(uvm[s]) /\ Injective(work[s])
      /\ (OwnedBy(uvm[s]) \cup OwnedBy(work[s])) \cap free = {} /\ free \in SUBSET Frames
  BY <1>2, PlainSpaces, ExecFacts
<1>4. m \in Uvm /\ OwnedBy(m) = OwnedBy(work[s]) /\ Injective(m) /\ Tidy(m)
  BY <1>3, TopClearedFacts
<1> HIDE DEF m
<1>5. /\ work'[s] = m /\ pc'[s] = "work_drop" /\ \A t \in Slots \ {s} : work'[t] = work[t]
      /\ work' \in [Slots -> Uvm] /\ uvm' \in [Slots -> Uvm]
  BY <1>1, <1>4 DEF Inv, TypeOK
<1>6. Old(s)' = uvm[s] /\ New(s)' = m
  BY <1>1, <1>2, <1>5, PlainSpacesNext
<1>7. SlotInv(s)'
  <2>1. TidyInv(s)'
    BY <1>1, <1>3, <1>4, <1>5 DEF SlotInv, TidyInv
  <2>2. WorkInv(s)'
    BY <1>5 DEF WorkInv, ExecLabels, OldDrop, PteLabels
  <2>3. LayoutInv(s)'
    BY <1>1, <1>2, <1>3 DEF SlotInv, LayoutInv
  <2> QED
    BY <2>1, <2>2, <2>3 DEF SlotInv
<1>8. 0 \in 0 .. MaxPages
  BY PageFacts
<1> QED
  BY <1>1, <1>2, <1>3, <1>4, <1>5, <1>6, <1>7, <1>8, SpaceStep

\* A new page of the user is mapped in the address space under construction.
LEMMA AddPage ==
    ASSUME Inv, NEW s \in Slots, pc[s] \in Growing, free # {}, NEW v \in UserPages,
           NEW perm \in Perms, CanWalk(work[s], Rest(free), v), ~work[s].leaf[v].v,
           free' = WalkFree(work[s], Rest(free), v)
    PROVE  LET m == Map(work[s], Rest(free), v, LeastOf(free), perm) IN
           /\ m \in Uvm /\ m.size = work[s].size
           /\ m.leaf[v].v /\ m.leaf[v].perm = perm /\ m.leaf[v].frame \in Frames
           /\ \A u \in VPages \ {v} : m.leaf[u] = work[s].leaf[u]
           /\ Injective(m) /\ free' \subseteq free
           /\ OwnedBy(m) \cup free' = Draft(s) \cup free
           /\ OwnedBy(m) \cap free' = {}
<1> DEFINE f == LeastOf(free)
           fr == Rest(free)
           vm == work[s]
           m == Map(vm, fr, v, f, perm)
<1>1. /\ vm \in Uvm /\ Injective(vm) /\ OwnedBy(vm) \cap free = {}
      /\ Draft(s) = OwnedBy(vm) /\ free \in SUBSET Frames
  BY DraftFacts
<1>2. /\ f \in Frames /\ f \in free /\ f \notin fr /\ fr \cup {f} = free
      /\ fr \in SUBSET Frames
  BY <1>1, Taken
<1>3. CanWalk(vm, fr, v) /\ ~vm.leaf[v].v /\ free' = WalkFree(vm, fr, v)
  OBVIOUS
<1> HIDE DEF f, fr, vm
<1>4. f \notin OwnedBy(vm) \cup fr /\ OwnedBy(vm) \cap fr = {}
  BY <1>1, <1>2
<1>5. /\ m \in Uvm /\ m.size = vm.size
      /\ m.leaf[v] = [v |-> TRUE, frame |-> f, perm |-> perm]
      /\ \A u \in VPages \ {v} : m.leaf[u] = vm.leaf[u]
      /\ Injective(m)
      /\ WalkFree(vm, fr, v) \subseteq fr
      /\ OwnedBy(m) \cup WalkFree(vm, fr, v) = OwnedBy(vm) \cup fr \cup {f}
      /\ OwnedBy(m) \cap WalkFree(vm, fr, v) = {}
  BY <1>1, <1>2, <1>3, <1>4, MapFacts, Zenon
<1> HIDE DEF m
<1>6. m.leaf[v].v /\ m.leaf[v].perm = perm /\ m.leaf[v].frame \in Frames
  BY <1>2, <1>5
<1>7. free' \subseteq free /\ OwnedBy(m) \cup free' = Draft(s) \cup free /\ OwnedBy(m) \cap free' = {}
  BY <1>1, <1>2, <1>3, <1>5
<1> QED
  BY <1>5, <1>6, <1>7 DEF m, f, fr, vm

\* Uvm::clone starts.
LEMMA CloneNewInv ==
    ASSUME Inv, NEW s \in Slots, CloneNew(s)
    PROVE  Inv'
<1>1. pc[s] = "clone" /\ locked \in {None, s}
  BY DEF CloneNew, At
<1>2. CASE free = {}
  BY <1>1, <1>2, PanicKeeps DEF CloneNew
<1>3. CASE free # {}
  <2> DEFINE f == LeastOf(free)
             w == NewUvm(f)
             m == [w EXCEPT !.size = uvm[s].size]
  <2>1. free \in SUBSET Frames /\ uvm[s] \in Uvm /\ uvm[s].size \in 0 .. MaxPages
    BY UvmFields DEF Inv, TypeOK
  <2>2. f \in Frames /\ f \notin Rest(free) /\ Rest(free) \cup {f} = free
    BY <1>3, <2>1, Taken
  <2>3. w \in Uvm /\ Empty(w) /\ OwnedBy(w) = {f} /\ Injective(w)
    BY <2>2, NewFacts
  <2>4. /\ work' = [work EXCEPT ![s] = m] /\ free' = Rest(free)
        /\ next' = [next EXCEPT ![s] = 0] /\ pc' = [pc EXCEPT ![s] = "clone_page"]
        /\ UNCHANGED <<uvm, tf, state, child, locked, lost, panic>>
    BY <1>3 DEF CloneNew, Goto
  <2> HIDE DEF f, w
  <2>5. /\ m \in Uvm /\ m.root = w.root /\ m.dir = w.dir /\ m.leaf = w.leaf
        /\ m.size = uvm[s].size
    BY <2>1, <2>3 DEF Uvm
  <2> HIDE DEF m
  <2>6. OwnedBy(m) = {f} /\ Injective(m)
    BY <2>3, <2>5, SameOwned
  <2>7. Tidy(m) /\ Copied(m, uvm[s], 0)
    BY <2>3, <2>5, PageFacts DEF Tidy, Empty, Copied, UserPages
  <2>8. work'[s] = m /\ pc'[s] = "clone_page" /\ next'[s] = 0
    BY <2>4 DEF Inv, TypeOK
  <2>9. WorkInv(s)'
    BY <2>4, <2>7, <2>8 DEF WorkInv, ExecLabels, OldDrop, PteLabels
  <2>10. SameCall(pc[s], "clone_page") /\ "clone_page" \in Growing /\ Draft(s) = {}
    BY <1>1, LabelFacts DEF SameCall, ForkLabels, Draft, Growing
  <2>11. 0 \in 0 .. MaxPages
    BY PageFacts
  <2> QED
    BY <1>1, <2>2, <2>4, <2>5, <2>6, <2>7, <2>9, <2>10, <2>11, WorkStep
<1> QED
  BY <1>2, <1>3

\* Uvm::clone copies a page, or skips one that is not mapped.
LEMMA ClonePageInv ==
    ASSUME Inv, NEW s \in Slots, ClonePage(s)
    PROVE  Inv'
<1> DEFINE v == next[s]
<1>1. pc[s] = "clone_page" /\ v < uvm[s].size /\ locked \in {None, s}
  BY DEF ClonePage, At
<1>2. pc[s] \in Growing /\ SameCall(pc[s], "clone_page") /\ "clone_page" \in Growing
  BY <1>1 DEF Growing, SameCall, ForkLabels
<1>3. /\ work[s] \in Uvm /\ Injective(work[s]) /\ Tidy(work[s])
      /\ OwnedBy(work[s]) \cap free = {} /\ Draft(s) = OwnedBy(work[s])
      /\ free \in SUBSET Frames /\ Copied(work[s], uvm[s], v)
  BY <1>1, <1>2, DraftFacts DEF WorkInv
<1>4. /\ uvm[s] \in Uvm /\ uvm[s].size \in 0 .. MaxPages /\ v \in 0 .. MaxPages
      /\ v \in UserPages /\ v + 1 \in 0 .. MaxPages /\ Tidy(uvm[s])
  <2>1. uvm[s] \in Uvm /\ v \in 0 .. MaxPages /\ Tidy(uvm[s])
    BY DEF Inv, TypeOK, SlotInv, TidyInv
  <2>2. uvm[s].size \in 0 .. MaxPages
    BY <2>1, UvmFields
  <2> QED
    BY <1>1, <2>1, <2>2, PageFacts DEF UserPages
<1>5. UNCHANGED pc => pc' = [pc EXCEPT ![s] = "clone_page"] /\ pc'[s] = "clone_page"
  BY <1>1 DEF Inv, TypeOK
<1>6. CASE /\ ~uvm[s].leaf[v].v /\ next' = [next EXCEPT ![s] = v + 1]
           /\ UNCHANGED <<free, uvm, tf, state, pc, work, child, locked, lost, panic>>
  <2>1. work' = [work EXCEPT ![s] = work[s]] /\ work'[s] = work[s] /\ next'[s] = v + 1
    BY <1>6 DEF Inv, TypeOK
  <2>2. Copied(work[s], uvm[s], v + 1)
    BY <1>3, <1>4, <1>6 DEF Copied, UserPages
  <2>3. WorkInv(s)'
    BY <1>5, <1>6, <2>1, <2>2 DEF WorkInv, ExecLabels, OldDrop, PteLabels
  <2> QED
    BY <1>1, <1>2, <1>3, <1>4, <1>5, <1>6, <2>1, <2>3, WorkStep
<1>7. CASE Panics(s, "panic_uvm", s)
  BY <1>1, <1>2, <1>7, PanicKeeps
<1>8. CASE /\ uvm[s].leaf[v].v /\ free # {} /\ CanWalk(work[s], Rest(free), v)
           /\ work' = [work EXCEPT ![s] = Map(@, Rest(free), v, CloneFrame(s, v), ClonePerm(s, v))]
           /\ free' = WalkFree(work[s], Rest(free), v)
           /\ next' = [next EXCEPT ![s] = v + 1]
           /\ UNCHANGED <<uvm, tf, state, pc, child, locked, lost, panic>>
  <2> DEFINE perm == uvm[s].leaf[v].perm
             m == Map(work[s], Rest(free), v, LeastOf(free), perm)
  <2>1. perm \in Perms /\ {"r", "u"} \subseteq perm /\ ~work[s].leaf[v].v
    BY <1>3, <1>4, <1>8, UvmFields, PageFacts DEF Copied, Tidy
  <2>2. work' = [work EXCEPT ![s] = m]
    BY <1>8 DEF CloneFrame, ClonePerm, Inv, TypeOK
  <2> HIDE DEF v, perm
  <2>3. /\ m \in Uvm /\ m.size = work[s].size
        /\ m.leaf[v].v /\ m.leaf[v].perm = perm /\ m.leaf[v].frame \in Frames
        /\ \A u \in VPages \ {v} : m.leaf[u] = work[s].leaf[u]
        /\ Injective(m) /\ free' \subseteq free
        /\ OwnedBy(m) \cup free' = Draft(s) \cup free
        /\ OwnedBy(m) \cap free' = {}
    BY <1>2, <1>4, <1>8, <2>1, AddPage
  <2> HIDE DEF m
  <2>4. Tidy(m)
    BY <1>1, <1>3, <2>1, <2>3, PageFacts DEF Tidy, Copied, v
  <2>5. Copied(m, uvm[s], v + 1)
    <3>1. m.size = uvm[s].size
      BY <1>3, <2>3 DEF Copied
    <3>2. ASSUME NEW u \in UserPages
          PROVE  /\ m.leaf[u].v <=> u < v + 1 /\ uvm[s].leaf[u].v
                 /\ m.leaf[u].v => m.leaf[u].perm = uvm[s].leaf[u].perm
      <4>1. CASE u = v
        BY <1>4, <1>8, <2>3, <4>1 DEF perm, UserPages, v
      <4>2. CASE u # v
        <5>1. m.leaf[u] = work[s].leaf[u] /\ (u < v + 1 <=> u < v)
          BY <1>4, <2>3, <4>2, PageFacts DEF UserPages
        <5> QED
          BY <1>3, <5>1 DEF Copied
      <4> QED
        BY <4>1, <4>2
    <3> QED
      BY <3>1, <3>2 DEF Copied
  <2>6. work'[s] = m /\ next'[s] = v + 1
    BY <1>8, <2>2 DEF Inv, TypeOK
  <2>7. WorkInv(s)'
    BY <1>5, <1>8, <2>5, <2>6 DEF WorkInv, ExecLabels, OldDrop, PteLabels
  <2> QED
    BY <1>1, <1>2, <1>4, <1>5, <1>8, <2>2, <2>3, <2>4, <2>7, WorkStep
<1> QED
  BY <1>6, <1>7, <1>8 DEF ClonePage

\* init_proc() in the address space under construction, for the trapframe t.
LEMMA InitProcStep ==
    ASSUME Inv, NEW s \in Slots, pc[s] \in Growing, NEW t \in Frames,
           CanWalk(work[s], free, TRAPFRAME), free' = WalkFree(work[s], free, TRAPFRAME)
    PROVE  LET m == InitProc(work[s], free, t) IN
           /\ m \in Uvm /\ m.size = work[s].size
           /\ \A v \in UserPages : m.leaf[v] = work[s].leaf[v]
           /\ TopMapped(m, t) /\ Tidy(m) /\ Injective(m)
           /\ free' \subseteq free
           /\ OwnedBy(m) \cup free' = Draft(s) \cup free
           /\ OwnedBy(m) \cap free' = {}
<1> DEFINE vm == work[s]
           m == InitProc(vm, free, t)
<1>1. /\ vm \in Uvm /\ Injective(vm) /\ Tidy(vm) /\ OwnedBy(vm) \cap free = {}
      /\ Draft(s) = OwnedBy(vm) /\ free \in SUBSET Frames
  BY DraftFacts
<1>2. CanWalk(vm, free, TRAPFRAME) /\ free' = WalkFree(vm, free, TRAPFRAME)
  OBVIOUS
<1> HIDE DEF vm
<1>3. /\ m \in Uvm /\ m.size = vm.size
      /\ \A v \in UserPages : m.leaf[v] = vm.leaf[v]
      /\ TopMapped(m, t)
      /\ Injective(m) /\ WalkFree(vm, free, TRAPFRAME) \subseteq free
      /\ OwnedBy(m) \cup WalkFree(vm, free, TRAPFRAME) = OwnedBy(vm) \cup free
      /\ OwnedBy(m) \cap WalkFree(vm, free, TRAPFRAME) = {}
  BY <1>1, <1>2, InitProcFacts, Zenon
<1> HIDE DEF m
<1>4. Tidy(m)
  BY <1>1, <1>3 DEF Tidy
<1> QED
  BY <1>1, <1>2, <1>3, <1>4 DEF m, vm

\* kfork() ends the construction of the child's address space.
LEMMA ForkInitProcInv ==
    ASSUME Inv, NEW s \in Slots, ForkInitProc(s)
    PROVE  Inv'
<1>1. pc[s] = "clone_page" /\ next[s] >= uvm[s].size
  BY DEF ForkInitProc, At
<1>2. pc[s] \in Growing /\ SameCall(pc[s], "fork_run") /\ "fork_run" \in Growing
  BY <1>1 DEF Growing, SameCall, ForkLabels
<1>3. CASE ~CanWalk(work[s], free, TRAPFRAME)
  BY <1>1, <1>3, DropWorkInv DEF ForkInitProc, At
<1>4. CASE CanWalk(work[s], free, TRAPFRAME)
  <2> DEFINE t == tf[child[s]]
             m == InitProc(work[s], free, t)
  <2>1. t \in Frames /\ next[s] \in 0 .. MaxPages
    BY <1>1 DEF Inv, TypeOK, ControlInv, ForkLabels
  <2>2. /\ work' = [work EXCEPT ![s] = m] /\ free' = WalkFree(work[s], free, TRAPFRAME)
        /\ pc' = [pc EXCEPT ![s] = "fork_run"]
        /\ UNCHANGED <<uvm, tf, state, next, child, locked, lost, panic>>
    BY <1>4 DEF ForkInitProc, Goto
  <2> HIDE DEF t
  <2>3. /\ m \in Uvm /\ m.size = work[s].size
        /\ \A v \in UserPages : m.leaf[v] = work[s].leaf[v]
        /\ TopMapped(m, t) /\ Tidy(m) /\ Injective(m)
        /\ free' \subseteq free
        /\ OwnedBy(m) \cup free' = Draft(s) \cup free
        /\ OwnedBy(m) \cap free' = {}
    BY <1>2, <1>4, <2>1, <2>2, InitProcStep
  <2> HIDE DEF m
  <2>4. next' = [next EXCEPT ![s] = next[s]]
    BY <2>2 DEF Inv, TypeOK
  <2>5. Copied(m, uvm[s], uvm[s].size)
    <3>1. Copied(work[s], uvm[s], next[s]) /\ Tidy(uvm[s])
      BY <1>1 DEF Inv, SlotInv, WorkInv, TidyInv
    <3>2. \A v \in UserPages : uvm[s].leaf[v].v => v < next[s] /\ v < uvm[s].size
      <4>1. uvm[s] \in Uvm
        BY DEF Inv, TypeOK
      <4>2. uvm[s].size \in 0 .. MaxPages
        BY <4>1, UvmFields
      <4>3. \A v \in UserPages : v \in Int
        BY PageFacts DEF UserPages
      <4>4. \A v \in UserPages : uvm[s].leaf[v].v => v < uvm[s].size
        BY <3>1 DEF Tidy
      <4> QED
        BY <1>1, <2>1, <4>2, <4>3, <4>4, PageFacts
    <3> QED
      BY <2>3, <3>1, <3>2 DEF Copied
  <2>6. work'[s] = m /\ pc'[s] = "fork_run"
    BY <2>2 DEF Inv, TypeOK
  <2>7. WorkInv(s)'
    BY <2>2, <2>3, <2>5, <2>6 DEF WorkInv, ExecLabels, OldDrop, PteLabels, t
  <2> QED
    BY <1>1, <1>2, <2>1, <2>2, <2>3, <2>4, <2>7, WorkStep
<1> QED
  BY <1>3, <1>4

\* kexec() starts an address space.
LEMMA ExecNewInv ==
    ASSUME Inv, NEW s \in Slots, ExecNew(s)
    PROVE  Inv'
<1>1. pc[s] = "exec" /\ locked \in {None, s}
  BY DEF ExecNew, At
<1>2. CASE free = {}
  BY <1>1, <1>2, PanicKeeps DEF ExecNew
<1>3. CASE free # {}
  <2> DEFINE f == LeastOf(free)
             m == NewUvm(f)
  <2>1. free \in SUBSET Frames /\ next[s] \in 0 .. MaxPages /\ next[s] \in 1 .. MaxImg
    BY <1>1 DEF Inv, TypeOK, SlotInv, WorkInv
  <2>2. f \in Frames /\ f \notin Rest(free) /\ Rest(free) \cup {f} = free
    BY <1>3, <2>1, Taken
  <2>3. m \in Uvm /\ Empty(m) /\ Tidy(m) /\ OwnedBy(m) = {f} /\ Injective(m)
    BY <2>2, NewFacts
  <2>4. /\ work' = [work EXCEPT ![s] = m] /\ free' = Rest(free)
        /\ next' = [next EXCEPT ![s] = next[s]] /\ pc' = [pc EXCEPT ![s] = "exec_init"]
        /\ UNCHANGED <<uvm, tf, state, next, child, locked, lost, panic>>
    BY <1>3 DEF ExecNew, Goto, Inv, TypeOK
  <2> HIDE DEF f, m
  <2>5. work'[s] = m /\ pc'[s] = "exec_init"
    BY <2>4 DEF Inv, TypeOK
  <2>6. WorkInv(s)'
    BY <2>1, <2>3, <2>4, <2>5 DEF WorkInv, ExecLabels, OldDrop, PteLabels
  <2>7. SameCall(pc[s], "exec_init") /\ "exec_init" \in Growing /\ Draft(s) = {}
    BY <1>1, LabelFacts DEF SameCall, Draft, Growing, ExecLabels
  <2> QED
    BY <1>1, <2>1, <2>2, <2>3, <2>4, <2>6, <2>7, WorkStep
<1> QED
  BY <1>2, <1>3

\* kexec() maps the pages at the top.
LEMMA ExecInitProcInv ==
    ASSUME Inv, NEW s \in Slots, ExecInitProc(s)
    PROVE  Inv'
<1>1. pc[s] = "exec_init"
  BY DEF ExecInitProc, At
<1>2. pc[s] \in Growing /\ SameCall(pc[s], "exec_alloc") /\ "exec_alloc" \in Growing
  BY <1>1 DEF Growing, SameCall, ExecLabels
<1>3. CASE ~CanWalk(work[s], free, TRAPFRAME)
  BY <1>1, <1>3, ExecErrInv DEF ExecInitProc, ExecLabels
<1>4. CASE CanWalk(work[s], free, TRAPFRAME)
  <2> DEFINE t == tf[s]
             m == InitProc(work[s], free, t)
  <2>1. t \in Frames /\ next[s] \in 0 .. MaxPages /\ next[s] \in 1 .. MaxImg /\ Empty(work[s])
    BY <1>1 DEF Inv, TypeOK, SlotInv, WorkInv, ExecLabels
  <2>2. /\ work' = [work EXCEPT ![s] = m] /\ free' = WalkFree(work[s], free, TRAPFRAME)
        /\ pc' = [pc EXCEPT ![s] = "exec_alloc"]
        /\ UNCHANGED <<uvm, tf, state, next, child, locked, lost, panic>>
    BY <1>4 DEF ExecInitProc, Goto
  <2> HIDE DEF t
  <2>3. /\ m \in Uvm /\ m.size = work[s].size
        /\ \A v \in UserPages : m.leaf[v] = work[s].leaf[v]
        /\ TopMapped(m, t) /\ Tidy(m) /\ Injective(m)
        /\ free' \subseteq free
        /\ OwnedBy(m) \cup free' = Draft(s) \cup free
        /\ OwnedBy(m) \cap free' = {}
    BY <1>2, <1>4, <2>1, <2>2, InitProcStep
  <2> HIDE DEF m
  <2>4. next' = [next EXCEPT ![s] = next[s]]
    BY <2>2 DEF Inv, TypeOK
  <2>5. m.size = 0 /\ Image(m, 0)
    BY <2>1, <2>3, PageFacts DEF Empty, Image, UserPages
  <2>6. work'[s] = m /\ pc'[s] = "exec_alloc"
    BY <2>2 DEF Inv, TypeOK
  <2>7. WorkInv(s)'
    BY <2>1, <2>2, <2>3, <2>5, <2>6 DEF WorkInv, ExecLabels, OldDrop, PteLabels, t
  <2> QED
    BY <1>1, <1>2, <2>1, <2>2, <2>3, <2>4, <2>7, WorkStep
<1> QED
  BY <1>3, <1>4

\* Uvm::alloc adds a page at the end of the address space.
LEMMA UvmAllocStep ==
    ASSUME Inv, NEW s \in Slots, pc[s] \in Growing, free # {}, NEW perm \in Perms,
           "r" \in perm, "u" \in perm,
           work[s].size \in UserPages, ~work[s].leaf[work[s].size].v,
           CanWalk(work[s], Rest(free), work[s].size),
           free' = WalkFree(work[s], Rest(free), work[s].size)
    PROVE  LET v == work[s].size
               m == [Map(work[s], Rest(free), v, LeastOf(free), perm) EXCEPT !.size = v + 1]
           IN  /\ m \in Uvm /\ m.size = v + 1
               /\ m.leaf[v].v /\ m.leaf[v].perm = perm
               /\ \A u \in VPages \ {v} : m.leaf[u] = work[s].leaf[u]
               /\ Injective(m) /\ Tidy(m) /\ free' \subseteq free
               /\ OwnedBy(m) \cup free' = Draft(s) \cup free
               /\ OwnedBy(m) \cap free' = {}
<1> DEFINE v == work[s].size
           k == Map(work[s], Rest(free), v, LeastOf(free), perm)
           m == [k EXCEPT !.size = v + 1]
<1>1. v \in UserPages /\ v + 1 \in 0 .. MaxPages /\ Tidy(work[s])
  BY PageFacts, DraftFacts DEF UserPages
<1> HIDE DEF v
<1>2. /\ k \in Uvm /\ k.size = work[s].size
      /\ k.leaf[v].v /\ k.leaf[v].perm = perm /\ k.leaf[v].frame \in Frames
      /\ \A u \in VPages \ {v} : k.leaf[u] = work[s].leaf[u]
      /\ Injective(k) /\ free' \subseteq free
      /\ OwnedBy(k) \cup free' = Draft(s) \cup free
      /\ OwnedBy(k) \cap free' = {}
  BY <1>1, AddPage DEF v
<1> HIDE DEF k
<1>3. /\ m \in Uvm /\ m.size = v + 1 /\ m.root = k.root /\ m.dir = k.dir
      /\ m.leaf = k.leaf
  BY <1>1, <1>2 DEF Uvm, v
<1> HIDE DEF m
<1>4. OwnedBy(m) = OwnedBy(k) /\ Injective(m)
  BY <1>2, <1>3, SameOwned
<1>5. Tidy(m)
  <2>1. \A u \in UserPages : u \in Int
    BY PageFacts DEF UserPages
  <2>2. ASSUME NEW u \in UserPages, m.leaf[u].v
        PROVE  u < v + 1 /\ {"r", "u"} \subseteq m.leaf[u].perm /\ m.leaf[u].frame \in Frames
    <3>1. CASE u = v
      BY <1>1, <1>2, <1>3, <2>1, <3>1
    <3>2. CASE u # v
      <4>1. m.leaf[u] = work[s].leaf[u]
        BY <1>2, <1>3, <3>2, PageFacts
      <4>2. u < v /\ {"r", "u"} \subseteq m.leaf[u].perm /\ m.leaf[u].frame \in Frames
        BY <1>1, <2>2, <4>1 DEF Tidy, v
      <4> QED
        BY <1>1, <2>1, <4>2
    <3> QED
      BY <3>1, <3>2
  <2> QED
    BY <1>3, <2>2 DEF Tidy
<1>6. m.leaf[v].v /\ m.leaf[v].perm = perm /\ \A u \in VPages \ {v} : m.leaf[u] = work[s].leaf[u]
  BY <1>2, <1>3
<1> QED
  BY <1>2, <1>3, <1>4, <1>5, <1>6 DEF m, k, v

\* kexec() allocates a page of the image.
LEMMA ExecAllocInv ==
    ASSUME Inv, NEW s \in Slots, ExecAlloc(s)
    PROVE  Inv'
<1> DEFINE v == work[s].size
           perm == {"r", "w", "x", "u"}
           m == [Map(work[s], Rest(free), v, LeastOf(free), perm) EXCEPT !.size = v + 1]
<1>1. pc[s] = "exec_alloc" /\ v < next[s]
  BY DEF ExecAlloc, At
<1>2. pc[s] \in Growing /\ SameCall(pc[s], "exec_alloc") /\ "exec_alloc" \in Growing
  BY <1>1 DEF Growing, SameCall, ExecLabels
<1>3. CASE ExecErr(s) /\ UNCHANGED panic
  BY <1>1, <1>3, ExecErrInv DEF ExecLabels
<1>4. CASE /\ free # {} /\ CanWalk(work[s], Rest(free), v)
           /\ work' = [work EXCEPT ![s] = m]
           /\ free' = WalkFree(work[s], Rest(free), v)
           /\ UNCHANGED <<uvm, tf, state, pc, next, child, locked, lost, panic>>
  <2>1. /\ work[s] \in Uvm /\ Image(work[s], v) /\ TopMapped(work[s], tf[s])
        /\ next[s] \in 1 .. MaxImg /\ next[s] \in 0 .. MaxPages
    BY <1>1, <1>2, DraftFacts DEF WorkInv, ExecLabels, OldDrop, PteLabels, Inv, TypeOK
  <2>2. v \in 0 .. MaxPages
    BY <2>1, UvmFields
  <2>3. v \in UserPages /\ v + 1 <= next[s]
    BY <1>1, <2>1, <2>2, PageFacts, MaxImgAssumption DEF UserPages, MaxPages
  <2>4. ~work[s].leaf[v].v /\ perm \in Perms /\ "r" \in perm /\ "u" \in perm
    BY <2>1, <2>3, PageFacts DEF Image, Perms, UserPages
  <2> HIDE DEF perm
  <2>5. /\ m \in Uvm /\ m.size = v + 1
        /\ m.leaf[v].v /\ m.leaf[v].perm = perm
        /\ \A u \in VPages \ {v} : m.leaf[u] = work[s].leaf[u]
        /\ Injective(m) /\ Tidy(m) /\ free' \subseteq free
        /\ OwnedBy(m) \cup free' = Draft(s) \cup free
        /\ OwnedBy(m) \cap free' = {}
    BY <1>2, <1>4, <2>3, <2>4, UvmAllocStep
  <2> HIDE DEF m, v
  <2>6. Image(m, m.size)
    <3>1. ASSUME NEW u \in UserPages
          PROVE  IF u < v + 1 THEN m.leaf[u].v /\ m.leaf[u].perm = perm ELSE ~m.leaf[u].v
      <4>1. u \in Int /\ v \in Int
        BY <2>3, PageFacts DEF UserPages
      <4>2. CASE u = v
        BY <2>5, <4>1, <4>2
      <4>3. CASE u # v
        <5>1. m.leaf[u] = work[s].leaf[u] /\ (u < v + 1 <=> u < v)
          BY <2>5, <4>1, <4>3, PageFacts
        <5> QED
          BY <2>1, <5>1 DEF Image, perm
      <4> QED
        BY <4>2, <4>3
    <3> QED
      BY <2>5, <3>1 DEF Image, perm
  <2>7. TopMapped(m, tf[s])
    <3>1. m.leaf[TRAMPOLINE] = work[s].leaf[TRAMPOLINE] /\ m.leaf[TRAPFRAME] = work[s].leaf[TRAPFRAME]
      BY <2>3, <2>5, PageFacts
    <3> QED
      BY <2>1, <3>1 DEF TopMapped
  <2>8. /\ work'[s] = m /\ pc'[s] = "exec_alloc"
        /\ next' = [next EXCEPT ![s] = next[s]] /\ pc' = [pc EXCEPT ![s] = "exec_alloc"]
    BY <1>1, <1>4 DEF Inv, TypeOK
  <2>9. WorkInv(s)'
    BY <1>4, <2>1, <2>3, <2>5, <2>6, <2>7, <2>8 DEF WorkInv, ExecLabels, OldDrop, PteLabels
  <2> QED
    BY <1>1, <1>2, <1>4, <2>1, <2>5, <2>8, <2>9, WorkStep
<1>5. {"r", "w", "x"} \cup {"u"} = perm
  OBVIOUS
<1> HIDE DEF perm
<1>6. \/ ExecErr(s) /\ UNCHANGED panic
      \/ /\ free # {} /\ CanWalk(work[s], Rest(free), v)
         /\ work' = [work EXCEPT ![s] = m]
         /\ free' = WalkFree(work[s], Rest(free), v)
         /\ UNCHANGED <<uvm, tf, state, pc, next, child, locked, lost, panic>>
  BY <1>5 DEF ExecAlloc, CanAlloc, UvmAlloc
<1> HIDE DEF m
<1> QED
  BY <1>3, <1>4, <1>6

\* kexec() loads the image, all of whose pages it finds, and leaves the guard
\* page out.
LEMMA ExecLoadInv ==
    ASSUME Inv, NEW s \in Slots, ExecLoad(s)
    PROVE  Inv'
<1> DEFINE m == [work[s] EXCEPT !.size = @ + 1]
<1>1. pc[s] = "exec_alloc" /\ work[s].size >= next[s]
  BY DEF ExecLoad, At
<1>2. pc[s] \in Growing /\ SameCall(pc[s], "exec_stack") /\ "exec_stack" \in Growing
  BY <1>1 DEF Growing, SameCall, ExecLabels
<1>3. /\ work[s] \in Uvm /\ Image(work[s], work[s].size) /\ TopMapped(work[s], tf[s])
      /\ work[s].size <= next[s] /\ next[s] \in 1 .. MaxImg /\ next[s] \in 0 .. MaxPages
      /\ Injective(work[s]) /\ Tidy(work[s])
      /\ OwnedBy(work[s]) \cap free = {} /\ Draft(s) = OwnedBy(work[s])
  BY <1>1, <1>2, DraftFacts DEF WorkInv, ExecLabels, OldDrop, PteLabels, Inv, TypeOK
<1>4. work[s].size \in 0 .. MaxPages
  BY <1>3, UvmFields
<1>5. work[s].size = next[s] /\ next[s] + 1 \in 0 .. MaxPages /\ \A v \in UserPages : v \in Int
  BY <1>1, <1>3, <1>4, MaxImgAssumption DEF MaxPages, UserPages
<1>6. ~(\E v \in 0 .. next[s] - 1 : ~work[s].leaf[v].v)
  <2>1. \A v \in 0 .. next[s] - 1 : v \in UserPages /\ v < next[s]
    BY <1>3, MaxImgAssumption DEF MaxPages, UserPages
  <2> QED
    BY <1>3, <1>5, <2>1 DEF Image
<1>7. /\ work' = [work EXCEPT ![s].size = @ + 1] /\ pc' = [pc EXCEPT ![s] = "exec_stack"]
      /\ UNCHANGED <<free, uvm, tf, state, next, child, locked, lost, panic>>
  BY <1>6 DEF ExecLoad, Goto
<1>8. /\ work' = [work EXCEPT ![s] = m] /\ next' = [next EXCEPT ![s] = next[s]]
      /\ work'[s] = m /\ pc'[s] = "exec_stack"
  BY <1>7 DEF Inv, TypeOK
<1>9. /\ m \in Uvm /\ m.size = next[s] + 1 /\ m.root = work[s].root /\ m.dir = work[s].dir
      /\ m.leaf = work[s].leaf
  BY <1>3, <1>5 DEF Uvm
<1> HIDE DEF m
<1>10. OwnedBy(m) = OwnedBy(work[s]) /\ Injective(m)
  BY <1>3, <1>9, SameOwned
<1>11. Tidy(m)
  BY <1>3, <1>4, <1>5, <1>9 DEF Tidy
<1>12. Image(m, next[s]) /\ TopMapped(m, tf[s])
  BY <1>3, <1>5, <1>9 DEF Image, TopMapped
<1>13. WorkInv(s)'
  BY <1>3, <1>7, <1>8, <1>9, <1>12 DEF WorkInv, ExecLabels, OldDrop, PteLabels
<1>14. free' \subseteq free /\ OwnedBy(m) \cup free' = Draft(s) \cup free /\ OwnedBy(m) \cap free' = {}
  BY <1>3, <1>7, <1>10
<1> QED
  BY <1>1, <1>2, <1>3, <1>7, <1>8, <1>9, <1>10, <1>11, <1>13, <1>14, WorkStep

\* kexec() adds the stack.
LEMMA ExecStackInv ==
    ASSUME Inv, NEW s \in Slots, ExecStack(s)
    PROVE  Inv'
<1> DEFINE v == work[s].size
           perm == {"r", "w", "u"}
           m == [Map(work[s], Rest(free), v, LeastOf(free), perm) EXCEPT !.size = v + 1]
<1>1. pc[s] = "exec_stack" /\ locked \in {None, s}
  BY DEF ExecStack, At
<1>2. pc[s] \in Growing /\ SameCall(pc[s], "exec_args") /\ "exec_args" \in Growing
  BY <1>1 DEF Growing, SameCall, ExecLabels
<1>3. /\ work[s] \in Uvm /\ Image(work[s], next[s]) /\ TopMapped(work[s], tf[s])
      /\ v = next[s] + 1
      /\ next[s] \in 1 .. MaxImg /\ next[s] \in 0 .. MaxPages
  BY <1>1, <1>2, DraftFacts DEF WorkInv, ExecLabels, OldDrop, PteLabels, Inv, TypeOK
<1>4. CASE Panics(s, "panic_uvm", locked)
  BY <1>1, <1>2, <1>4, PanicKeeps
<1>5. pc' = [pc EXCEPT ![s] = "exec_args"] => pc'[s] = "exec_args"
  BY DEF Inv, TypeOK
<1>6. CASE /\ free # {} /\ CanWalk(work[s], Rest(free), v)
           /\ work' = [work EXCEPT ![s] = m]
           /\ free' = WalkFree(work[s], Rest(free), v)
           /\ pc' = [pc EXCEPT ![s] = "exec_args"]
           /\ UNCHANGED <<uvm, tf, state, next, child, locked, lost, panic>>
  <2>1. v \in UserPages /\ \A u \in UserPages : u \in Int
    BY <1>3, MaxImgAssumption DEF UserPages, MaxPages
  <2>2. ~work[s].leaf[v].v /\ perm \in Perms /\ "r" \in perm /\ "u" \in perm
    BY <1>3, <2>1 DEF Image, Perms
  <2> HIDE DEF perm
  <2>3. /\ m \in Uvm /\ m.size = v + 1
        /\ m.leaf[v].v /\ m.leaf[v].perm = perm
        /\ \A u \in VPages \ {v} : m.leaf[u] = work[s].leaf[u]
        /\ Injective(m) /\ Tidy(m) /\ free' \subseteq free
        /\ OwnedBy(m) \cup free' = Draft(s) \cup free
        /\ OwnedBy(m) \cap free' = {}
    BY <1>2, <1>6, <2>1, <2>2, UvmAllocStep
  <2> HIDE DEF m, v
  <2>4. Program(m)
    <3>1. m.size >= 3 /\ m.size - 2 = next[s] /\ m.size - 1 = v
      BY <1>3, <2>3
    <3>2. ASSUME NEW u \in UserPages
          PROVE  IF u < next[s]
                   THEN m.leaf[u].v /\ m.leaf[u].perm = {"r", "w", "x", "u"}
                 ELSE IF u = v
                   THEN m.leaf[u].v /\ m.leaf[u].perm = {"r", "w", "u"}
                 ELSE ~m.leaf[u].v
      <4>1. CASE u = v
        BY <1>3, <2>3, <4>1 DEF perm
      <4>2. CASE u # v
        <5>1. m.leaf[u] = work[s].leaf[u]
          BY <2>3, <4>2, PageFacts
        <5> QED
          BY <1>3, <4>2, <5>1 DEF Image
      <4> QED
        BY <4>1, <4>2
    <3> QED
      BY <3>1, <3>2 DEF Program
  <2>5. TopMapped(m, tf[s])
    <3>1. m.leaf[TRAMPOLINE] = work[s].leaf[TRAMPOLINE] /\ m.leaf[TRAPFRAME] = work[s].leaf[TRAPFRAME]
      BY <2>1, <2>3, PageFacts
    <3> QED
      BY <1>3, <3>1 DEF TopMapped
  <2>6. work'[s] = m /\ pc'[s] = "exec_args" /\ next' = [next EXCEPT ![s] = next[s]]
    BY <1>5, <1>6 DEF Inv, TypeOK
  <2>7. WorkInv(s)'
    BY <1>3, <1>6, <2>4, <2>5, <2>6 DEF WorkInv, ExecLabels, OldDrop, PteLabels
  <2> QED
    BY <1>2, <1>3, <1>6, <2>3, <2>6, <2>7, WorkStep
<1>7. {"r", "w"} \cup {"u"} = perm
  OBVIOUS
<1> HIDE DEF perm
<1>8. \/ Panics(s, "panic_uvm", locked)
      \/ /\ free # {} /\ CanWalk(work[s], Rest(free), v)
         /\ work' = [work EXCEPT ![s] = m]
         /\ free' = WalkFree(work[s], Rest(free), v)
         /\ pc' = [pc EXCEPT ![s] = "exec_args"]
         /\ UNCHANGED <<uvm, tf, state, next, child, locked, lost, panic>>
  BY <1>7 DEF ExecStack, CanAlloc, UvmAlloc, Goto
<1> HIDE DEF m
<1> QED
  BY <1>4, <1>6, <1>8

\* sys_exec(), and the exit of a process.
LEMMA ExecInv ==
    ASSUME Inv, NEW s \in Slots, Exec(s)
    PROVE  Inv'
<1> SUFFICES ASSUME ~Panics(s, "panic", locked) PROVE Inv'
  BY PanicKeeps DEF Exec, At
<1>1. /\ pc[s] = "user" /\ locked \in {None, s}
      /\ pc' = [pc EXCEPT ![s] = "exec"]
      /\ UNCHANGED <<free, uvm, tf, state, work, child, locked, lost, panic>>
  BY DEF Exec, At, Goto
<1>2. PICK n \in 1 .. MaxImg : next' = [next EXCEPT ![s] = n]
  BY DEF Exec
<1>3. /\ pc'[s] = "exec" /\ \A t \in Slots \ {s} : pc'[t] = pc[t]
      /\ next'[s] = n /\ \A t \in Slots \ {s} : next'[t] = next[t]
  BY <1>1, <1>2 DEF Inv, TypeOK
<1>4. TypeOK' /\ DropsAreClean'
  <2>1. n \in 0 .. MaxPages
    BY <1>2, MaxImgAssumption DEF MaxPages
  <2> QED
    BY <1>1, <1>2, <2>1, LabelFacts DEF Inv, TypeOK, DropsAreClean
<1>5. ControlInv'
  BY <1>1, <1>3, LabelFacts DEF Inv, ControlInv, ForkLabels
<1>6. \A t \in Slots \ {s} : SlotInv(t)'
  BY <1>1, <1>3, OthersKeep DEF Inv
<1>7. SlotInv(s)'
  <2>1. SlotInv(s)
    BY DEF Inv
  <2>2. TidyInv(s)' /\ LayoutInv(s)'
    BY <1>1, <1>3, <2>1, LabelFacts DEF SlotInv, TidyInv, LayoutInv
  <2>3. WorkInv(s)'
    BY <1>2, <1>3 DEF WorkInv, ExecLabels, OldDrop, PteLabels
  <2> QED
    BY <2>2, <2>3 DEF SlotInv
<1>8. \A t \in Slots : Untouched(t)
  BY <1>1, <1>3, LabelFacts, IdleFacts DEF Idle
<1> QED
  BY <1>1, <1>4, <1>5, <1>6, <1>7, <1>8, NoTransfer DEF Inv

LEMMA ExitInv ==
    ASSUME Inv, NEW s \in Slots, Exit(s)
    PROVE  Inv'
<1> SUFFICES ASSUME s # 0 PROVE Inv'
  BY PanicKeeps DEF Exit, At
<1>1. /\ pc[s] = "user" /\ locked \in {None, s}
      /\ pc' = [pc EXCEPT ![s] = "none"] /\ state' = [state EXCEPT ![s] = "Zombie"]
      /\ UNCHANGED <<free, uvm, tf, work, next, child, locked, lost, panic>>
  BY DEF Exit, At, Goto
<1>2. /\ pc'[s] = "none" /\ \A t \in Slots \ {s} : pc'[t] = pc[t]
      /\ state'[s] = "Zombie" /\ \A t \in Slots \ {s} : state'[t] = state[t]
  BY <1>1 DEF Inv, TypeOK
<1>3. TypeOK' /\ DropsAreClean'
  BY <1>1, LabelFacts DEF Inv, TypeOK, DropsAreClean
<1>4. ControlInv'
  <2>1. state[s] = "Live" /\ locked = None
    BY <1>1 DEF Inv, ControlInv
  <2>2. locked \notin Slots
    BY <2>1 DEF None, Slots
  <2> QED
    BY <1>1, <1>2, <2>1, <2>2, LabelFacts DEF Inv, ControlInv, ForkLabels
<1>5. \A t \in Slots \ {s} : SlotInv(t)'
  BY <1>1, <1>2, OthersKeep DEF Inv
<1>6. SlotInv(s)'
  <2>1. SlotInv(s)
    BY DEF Inv
  <2>2. TidyInv(s)' /\ LayoutInv(s)'
    BY <1>1, <1>2, <2>1, LabelFacts DEF SlotInv, TidyInv, LayoutInv
  <2>3. WorkInv(s)'
    BY <1>2 DEF WorkInv, ExecLabels, OldDrop, PteLabels
  <2> QED
    BY <2>2, <2>3 DEF SlotInv
<1>7. \A t \in Slots : Untouched(t)
  BY <1>1, <1>2, LabelFacts, IdleFacts DEF Idle
<1> QED
  BY <1>1, <1>3, <1>4, <1>5, <1>6, <1>7, NoTransfer DEF Inv

\* allocproc() of slot c, by slot s that takes or holds the kernel lock.
LEMMA AllocStep ==
    ASSUME Inv, NEW s \in Slots, NEW c \in Slots, NEW l \in {"exec", "fork_tf", "clone"},
           locked \in {None, s},
           pc[s] \in {"boot", "user", "fork_tf"}, pc[c] \in {"none", "boot"},
           state[c] \in {"Unused", "Used"},
           free # {}, ReplaceTrapframe(c),
           state' = [state EXCEPT ![c] = "Used"], pc' = [pc EXCEPT ![s] = l],
           UNCHANGED <<uvm, work, lost, panic>>,
           \A t \in Slots \ {s} : next'[t] = next[t] /\ child'[t] = child[t],
           l = "exec" => next'[s] \in 1 .. MaxImg,
           next' \in [Slots -> 0 .. MaxPages], child' \in [Slots -> Slots \cup {None}],
           locked' \in Slots \cup {None}, ControlInv'
    PROVE  Inv'
<1>1. /\ pc'[s] = l /\ \A t \in Slots \ {s} : pc'[t] = pc[t]
      /\ state'[c] = "Used" /\ \A t \in Slots \ {c} : state'[t] = state[t]
  BY DEF Inv, TypeOK
<1>2. LeastOf(free) \in Frames /\ Rest(free) \in SUBSET Frames
  BY Taken DEF Inv, TypeOK
<1>3. /\ tf' \in [Slots -> Frames] /\ \A t \in Slots \ {c} : tf'[t] = tf[t]
      /\ free' \in SUBSET Frames
  BY <1>2 DEF ReplaceTrapframe, Inv, TypeOK
<1>4. TypeOK' /\ DropsAreClean'
  <2>1. l \in Labels
    BY LabelFacts DEF ForkLabels
  <2> QED
    BY <1>3, <2>1 DEF Inv, TypeOK, DropsAreClean
<1>5. ASSUME NEW t \in Slots \ {s, c} PROVE SlotInv(t)'
  <2>1. pc[t] # "fork_run"
    BY DEF Inv, ControlInv, ForkLabels, None, Slots
  <2> QED
    BY <1>1, <1>3, <2>1, OthersKeep DEF Inv
<1>6. ASSUME NEW t \in {s, c} PROVE SlotInv(t)'
  <2>1. SlotInv(t) /\ t \in Slots
    BY DEF Inv
  <2>2. pc[t] \in {"boot", "user", "fork_tf", "none"} /\ pc'[t] \in {"none", "boot", "exec", "fork_tf", "clone"}
    BY <1>1
  <2>3. TidyInv(t)'
    BY <2>1, <2>2, LabelFacts DEF SlotInv, TidyInv
  <2>4. WorkInv(t)'
    <3>1. pc'[t] = "exec" => t = s /\ l = "exec"
      BY <1>1
    <3> QED
      BY <2>2, <3>1 DEF WorkInv, ExecLabels, OldDrop, PteLabels
  <2>5. LayoutInv(t)'
    <3>1. CASE t = c
      BY <1>1, <2>1, <3>1 DEF SlotInv, LayoutInv
    <3>2. CASE t # c
      BY <1>1, <1>3, <2>1, <2>2, <3>2 DEF SlotInv, LayoutInv, OldDrop
    <3> QED
      BY <3>1, <3>2
  <2> QED
    BY <2>3, <2>4, <2>5 DEF SlotInv
<1>7. FramesAreExclusive' /\ OnlyTablesGetLost'
  <2>1. /\ pc[c] \notin Building /\ pc'[c] \notin Building
        /\ pc[s] \notin Building /\ pc'[s] \notin Building
    BY <1>1, LabelFacts
  <2> QED
    BY <1>1, <2>1, TrapframeTransfer DEF Inv
<1> QED
  BY <1>4, <1>5, <1>6, <1>7 DEF Inv

\* allocproc() for init.
LEMMA BootInv ==
    ASSUME Inv, Boot
    PROVE  Inv'
<1>1. pc[0] = "boot" /\ locked \in {None, 0} /\ 0 \in Slots
  BY PageFacts DEF Boot, At
<1>2. CASE free = {}
  BY <1>1, <1>2, PanicKeeps DEF Boot
<1>3. CASE free # {}
  <2>1. /\ ReplaceTrapframe(0) /\ state' = [state EXCEPT ![0] = "Used"]
        /\ pc' = [pc EXCEPT ![0] = "exec"] /\ next' = [next EXCEPT ![0] = 1]
        /\ UNCHANGED <<uvm, work, child, locked, lost, panic>>
    BY <1>3 DEF Boot, Goto
  <2>2. locked = 0 /\ state[0] = "Unused"
    BY <1>1 DEF Inv, ControlInv
  <2>3. /\ pc'[0] = "exec" /\ \A t \in Slots \ {0} : pc'[t] = pc[t]
        /\ state'[0] = "Used" /\ \A t \in Slots \ {0} : state'[t] = state[t]
        /\ next'[0] = 1 /\ \A t \in Slots \ {0} : next'[t] = next[t]
    BY <1>1, <2>1 DEF Inv, TypeOK
  <2>4. \A t \in Slots \ {0} : state[t] # "Used" /\ pc[t] \notin ForkLabels \cup {"boot"}
    BY <1>1, <2>2, LabelFacts DEF Inv, ControlInv
  <2>5. ControlInv'
    BY <2>1, <2>2, <2>3, <2>4, LabelFacts DEF Inv, ControlInv
  <2>6. 1 \in 1 .. MaxImg /\ 1 \in 0 .. MaxPages
    BY MaxImgAssumption DEF MaxPages
  <2>7. /\ next' \in [Slots -> 0 .. MaxPages] /\ child' \in [Slots -> Slots \cup {None}]
        /\ locked' \in Slots \cup {None}
    BY <2>1, <2>6 DEF Inv, TypeOK
  <2> QED
    BY <1>1, <1>3, <2>1, <2>2, <2>3, <2>5, <2>6, <2>7, AllocStep
<1> QED
  BY <1>2, <1>3

\* kfork() takes the kernel lock and a slot.
LEMMA KforkInv ==
    ASSUME Inv, NEW s \in Slots, Kfork(s)
    PROVE  Inv'
<1> DEFINE unused == {u \in Slots : state[u] = "Unused"}
<1>1. pc[s] = "user" /\ locked \in {None, s}
  BY DEF Kfork, At
<1>2. CASE unused = {} \/ free = {}
  <2>1. Panics(s, "panic", IF unused = {} THEN None ELSE s)
    BY <1>2 DEF Kfork
  <2>2. locked = None
    BY <1>1 DEF Inv, ControlInv
  <2> QED
    BY <1>1, <2>1, <2>2, PanicKeeps
<1>3. CASE ~(unused = {} \/ free = {})
  <2>1. PICK c \in Slots : c = LeastOf(unused) /\ state[c] = "Unused"
    <3>1. unused \subseteq Nat
      BY NprocAssumption DEF Slots
    <3>2. LeastOf(unused) \in unused
      BY <1>3, <3>1, LeastOfIn
    <3> QED
      BY <3>2
  <2>2. /\ ReplaceTrapframe(c) /\ state' = [state EXCEPT ![c] = "Used"]
        /\ child' = [child EXCEPT ![s] = c] /\ locked' = s
        /\ pc' = [pc EXCEPT ![s] = "fork_tf"]
        /\ UNCHANGED <<uvm, work, next, lost, panic>>
    BY <1>3, <2>1 DEF Kfork, Goto
  <2> HIDE DEF unused
  <2>3. /\ pc'[s] = "fork_tf" /\ \A t \in Slots \ {s} : pc'[t] = pc[t]
        /\ state'[c] = "Used" /\ \A t \in Slots \ {c} : state'[t] = state[t]
        /\ child'[s] = c /\ \A t \in Slots \ {s} : child'[t] = child[t]
    BY <2>2 DEF Inv, TypeOK
  <2>4. state[s] = "Live" /\ locked = None /\ None \notin Slots
    BY <1>1 DEF Inv, ControlInv, None, Slots
  <2>5. pc[c] = "none" /\ c # s
    BY <2>1, <2>4, PageFacts DEF Inv, ControlInv
  <2>6. \A t \in Slots : state[t] # "Used" /\ pc[t] \notin ForkLabels \cup {"boot"}
    BY <2>4, PageFacts DEF Inv, ControlInv
  <2>7. ControlInv'
    <3>1. /\ \A t \in Slots : pc'[t] # "boot"
          /\ \A t \in Slots : state'[t] = "Unused" => pc'[t] = "none"
          /\ \A t \in Slots : state'[t] = "Zombie" => pc'[t] = "none"
          /\ \A t \in Slots : state'[t] = "Live" => pc'[t] # "none"
          /\ \A t \in Slots : pc'[t] = "user" => state'[t] = "Live" /\ locked' # t
      BY <2>2, <2>3, <2>4, <2>5, <2>6, LabelFacts DEF Inv, ControlInv
    <3>2. \A t \in Slots : state'[t] = "Used" =>
             /\ locked' \in Slots /\ pc'[locked'] \in ForkLabels
             /\ child'[locked'] = t /\ pc'[t] = "none"
      BY <2>2, <2>3, <2>5, <2>6 DEF ForkLabels
    <3>3. \A t \in Slots : pc'[t] \in ForkLabels =>
             /\ locked' = t /\ state'[t] = "Live"
             /\ child'[t] \in Slots /\ state'[child'[t]] = "Used"
      BY <2>2, <2>3, <2>4, <2>5, <2>6
    <3> QED
      BY <3>1, <3>2, <3>3 DEF ControlInv
  <2>8. /\ next' \in [Slots -> 0 .. MaxPages] /\ child' \in [Slots -> Slots \cup {None}]
        /\ locked' \in Slots \cup {None} /\ free # {}
    BY <1>3, <2>2 DEF Inv, TypeOK
  <2> QED
    BY <1>1, <2>1, <2>2, <2>3, <2>5, <2>7, <2>8, AllocStep
<1> QED
  BY <1>2, <1>3

\* The trapframe of the child is replaced a second time.
LEMMA ForkTrapframeInv ==
    ASSUME Inv, NEW s \in Slots, ForkTrapframe(s)
    PROVE  Inv'
<1>1. pc[s] = "fork_tf" /\ locked \in {None, s}
  BY DEF ForkTrapframe, At
<1>2. CASE free = {}
  BY <1>1, <1>2, PanicKeeps DEF ForkTrapframe
<1>3. CASE free # {}
  <2> DEFINE c == child[s]
  <2>1. c \in Slots /\ state[c] = "Used" /\ locked = s /\ state[s] = "Live"
    BY <1>1 DEF Inv, ControlInv, ForkLabels
  <2>2. pc[c] = "none"
    BY <1>1, <2>1, LabelFacts DEF Inv, ControlInv, ForkLabels
  <2>3. /\ ReplaceTrapframe(c) /\ pc' = [pc EXCEPT ![s] = "clone"]
        /\ UNCHANGED <<uvm, state, work, next, child, locked, lost, panic>>
    BY <1>3 DEF ForkTrapframe, Goto
  <2>4. state' = [state EXCEPT ![c] = "Used"] /\ \A t \in Slots \ {s} : pc'[t] = pc[t]
    BY <2>1, <2>3 DEF Inv, TypeOK
  <2>5. pc'[s] = "clone" /\ SameCall(pc[s], pc'[s])
    BY <1>1, <2>3 DEF SameCall, ForkLabels, Inv, TypeOK
  <2>6. ControlInv'
    BY <2>3, <2>4, <2>5, ControlStep DEF Inv
  <2>7. /\ next' \in [Slots -> 0 .. MaxPages] /\ child' \in [Slots -> Slots \cup {None}]
        /\ locked' \in Slots \cup {None}
        /\ \A t \in Slots \ {s} : next'[t] = next[t] /\ child'[t] = child[t]
    BY <2>3 DEF Inv, TypeOK
  <2> HIDE DEF c
  <2> QED
    BY <1>1, <1>3, <2>1, <2>2, <2>3, <2>4, <2>6, <2>7, AllocStep
<1> QED
  BY <1>2, <1>3

\* Slot c gets the address space that slot s built; the one it had is dropped.
LEMMA CommitTransfer ==
    ASSUME TypeOK, FramesAreExclusive, OnlyTablesGetLost, NEW s \in Slots, NEW c \in Slots,
           pc[s] \in Building, pc[s] \notin PteLabels, c = s \/ pc[c] \notin Building, Tidy(uvm[c]),
           ReplaceUvm(c, work[s]), work' = [work EXCEPT ![s] = NoUvm], UNCHANGED tf,
           pc'[s] \notin Building, pc'[c] \notin Building,
           \A t \in Slots \ {s, c} : pc'[t] = pc[t] /\ next'[t] = next[t]
    PROVE  FramesAreExclusive' /\ OnlyTablesGetLost'
<1> DEFINE W == OwnedBy(work[s])
           D == OwnedBy(uvm[c])
<1>1. /\ uvm'[c] = work[s] /\ \A t \in Slots \ {c} : uvm'[t] = uvm[t]
      /\ \A t \in Slots \ {s} : work'[t] = work[t]
      /\ free' = DropFree(uvm[c], free) /\ lost' = lost \cup Tables(uvm[c])
  BY DEF ReplaceUvm, TypeOK
<1>2. \A t \in Slots \ {s, c} : Untouched(t)
  BY <1>1, IdleFacts DEF Idle
<1>3. /\ Old(s) = uvm[s] /\ New(s) = work[s] /\ Old(c) = uvm[c]
       /\ Old(s)' = uvm'[s] /\ Old(c)' = uvm'[c]
  BY LabelFacts, PlainSpaces, PlainSpacesNext
<1>4. /\ Injective(uvm[c]) /\ Injective(work[s]) /\ tf[s] \notin W /\ tf[c] \notin D
      /\ Injective(uvm[s]) /\ tf[s] \notin OwnedBy(uvm[s]) /\ W \cap OwnedBy(uvm[s]) = {}
  BY <1>3 DEF FramesAreExclusive
<1>5. Owned(s) = OwnedBy(uvm[s]) \cup {tf[s]} \cup W
  BY <1>3 DEF Owned
<1>6. Owned(s) \cap (free \cup lost) = {} /\ Owned(c) \cap (free \cup lost) = {}
      /\ free \cap lost = {} /\ (c # s => Owned(s) \cap Owned(c) = {})
  BY DEF FramesAreExclusive
<1>7. D \subseteq Owned(c) /\ tf[c] \in Owned(c)
  BY <1>3 DEF Owned
<1>8. /\ free' \cup Tables(uvm[c]) = D \cup free
      /\ free' \cap Tables(uvm[c]) = {}
  <2>1. D \cap free = {} /\ uvm[c] \in Uvm /\ free \in SUBSET Frames
    BY <1>6, <1>7 DEF TypeOK
  <2> QED
    BY <1>1, <1>4, <2>1, DropFacts
<1>9. Tables(uvm[c]) \subseteq D
  BY DEF OwnedBy
<1>10. free' \cup lost' = D \cup free \cup lost /\ free' \cap lost' = {}
  BY <1>1, <1>6, <1>7, <1>8, <1>9
<1>11. Owned(c)' = W \cup {tf[c]}
  BY <1>1, <1>3 DEF Owned
<1>12. c # s => Owned(s)' = OwnedBy(uvm[s]) \cup {tf[s]} /\ Owned(c) = D \cup {tf[c]}
  BY <1>1, <1>3 DEF Owned
<1>13. W \subseteq Owned(s) /\ tf[c] \notin W
  BY <1>4, <1>5, <1>6, <1>7
<1>14. Inner(c)' /\ Inner(s)'
  <2>1. Inner(c)'
    BY <1>1, <1>4, <1>13, <1>3 DEF Inner
  <2>2. CASE c # s
    BY <1>1, <1>4, <1>3, <2>1, <2>2 DEF Inner
  <2> QED
    BY <2>1, <2>2
<1> HIDE DEF W, D
<1>15. CASE c = s
  <2>1. W \cap D = {}
    BY <1>4, <1>15 DEF D
  <2>2. Owned(s)' \cup free' \cup lost' = Owned(s) \cup free \cup lost
    BY <1>5, <1>10, <1>11, <1>15 DEF D
  <2>3. Owned(s)' \cap (free' \cup lost') = {}
    BY <1>4, <1>5, <1>6, <1>10, <1>11, <1>15, <2>1
  <2> QED
    BY <1>2, <1>10, <1>14, <1>15, <2>2, <2>3, Transfer
<1>16. CASE c # s
  <2>1. Owned(s)' \cap Owned(c)' = {}
    BY <1>4, <1>5, <1>6, <1>7, <1>11, <1>12, <1>16
  <2>2. Owned(s)' \cup Owned(c)' \cup free' \cup lost' = Owned(s) \cup Owned(c) \cup free \cup lost
    BY <1>5, <1>10, <1>11, <1>12, <1>16
  <2>3. (Owned(s)' \cup Owned(c)') \cap (free' \cup lost') = {}
    BY <1>4, <1>5, <1>6, <1>7, <1>10, <1>11, <1>12, <1>16
  <2> QED
    BY <1>2, <1>10, <1>14, <1>16, <2>1, <2>2, <2>3, Transfer
<1> QED
  BY <1>15, <1>16

\* The end of kfork() and of kexec().
LEMMA CommitStep ==
    ASSUME Inv, NEW s \in Slots, NEW c \in Slots, pc[s] \in {"fork_run", "old_drop"},
           c = s \/ pc[c] = "none", Program(work[s]), TopMapped(work[s], tf[c]),
           c # s => pc[s] = "fork_run" /\ state[s] = "Live",
           ReplaceUvm(c, work[s]), state' = [state EXCEPT ![c] = "Live"],
           pc'[s] = "user", pc'[c] = "user", \A t \in Slots \ {s, c} : pc'[t] = pc[t],
           pc' \in [Slots -> Labels],
           child' \in [Slots -> Slots \cup {None}], \A t \in Slots \ {s} : child'[t] = child[t],
           locked' = None, work' = [work EXCEPT ![s] = NoUvm],
           next' = [next EXCEPT ![s] = 0], UNCHANGED <<tf, panic>>, ControlInv'
    PROVE  Inv'
<1>1. /\ uvm'[c] = work[s] /\ \A t \in Slots \ {c} : uvm'[t] = uvm[t]
      /\ \A t \in Slots \ {s} : work'[t] = work[t] /\ next'[t] = next[t]
      /\ state'[c] = "Live" /\ \A t \in Slots \ {c} : state'[t] = state[t]
  BY DEF ReplaceUvm, Inv, TypeOK
<1>2. /\ work[s] \in Uvm /\ Tidy(work[s]) /\ uvm[c] \in Uvm /\ Tidy(uvm[c]) /\ Tidy(uvm[s])
      /\ Injective(uvm[c]) /\ free \in SUBSET Frames
  <2>1. pc[s] \in Building /\ pc[s] \notin PteLabels /\ pc[c] \notin PteLabels
    BY LabelFacts DEF Growing, OldDrop, PteLabels
  <2> QED
    BY <2>1, PlainSpaces DEF Inv, TypeOK, SlotInv, TidyInv, FramesAreExclusive
<1>3. TypeOK' /\ DropsAreClean'
  <2>1. free' \in SUBSET Frames /\ lost' \in SUBSET Frames
    BY <1>2, DropFacts DEF ReplaceUvm, Inv, TypeOK
  <2>2. NoUvm \in Uvm
    <3>1. 1 \in Frames
      BY NframesAssumption, NprocAssumption DEF Frames
    <3> QED
      BY <3>1, NewFacts DEF NoUvm
  <2>3. uvm' \in [Slots -> Uvm] /\ work' \in [Slots -> Uvm]
    BY <1>2, <2>2 DEF ReplaceUvm, Inv, TypeOK
  <2>4. next' \in [Slots -> 0 .. MaxPages]
    BY PageFacts DEF Inv, TypeOK
  <2>5. state' \in [Slots -> {"Unused", "Used", "Live", "Zombie"}] /\ locked' \in Slots \cup {None}
    BY DEF Inv, TypeOK
  <2> QED
    BY <2>1, <2>3, <2>4, <2>5 DEF Inv, TypeOK, DropsAreClean
<1>4. \A t \in Slots \ {s, c} : SlotInv(t)'
  BY <1>1, OthersKeep DEF Inv
<1>5. ASSUME NEW t \in {s, c} PROVE SlotInv(t)'
  <2>1. pc'[t] = "user" /\ pc'[t] \notin Building /\ state'[t] = "Live"
    BY <1>1, LabelFacts
  <2>2. TidyInv(t)'
    BY <1>1, <1>2, <2>1 DEF TidyInv
  <2>3. WorkInv(t)'
    BY <2>1 DEF WorkInv, ExecLabels, OldDrop, PteLabels
  <2>4. Program(uvm'[t]) /\ TopMapped(uvm'[t], tf[t])
    <3>1. CASE t = c
      BY <1>1, <3>1
    <3>2. CASE t # c
      BY <1>1, <3>2 DEF Inv, SlotInv, LayoutInv, OldDrop
    <3> QED
      BY <3>1, <3>2
  <2>5. LayoutInv(t)'
    BY <2>1, <2>4 DEF LayoutInv
  <2> QED
    BY <2>2, <2>3, <2>5 DEF SlotInv
<1>6. FramesAreExclusive' /\ OnlyTablesGetLost'
  <2>1. /\ pc'[s] \notin Building /\ pc'[c] \notin Building /\ (c = s \/ pc[c] \notin Building)
        /\ pc[s] \in Building /\ pc[s] \notin PteLabels
    BY LabelFacts DEF Growing, OldDrop, PteLabels
  <2> QED
    BY <1>1, <1>2, <2>1, CommitTransfer DEF Inv
<1> QED
  BY <1>3, <1>4, <1>5, <1>6 DEF Inv

\* The child gets its address space and may run.
LEMMA ForkRunInv ==
    ASSUME Inv, NEW s \in Slots, ForkRun(s)
    PROVE  Inv'
<1>1. pc[s] = "fork_run"
  BY DEF ForkRun, At
<1>2. PICK c \in Slots : c = child[s] /\ state[c] = "Used" /\ locked = s /\ state[s] = "Live"
  BY <1>1 DEF Inv, ControlInv, ForkLabels
<1>3. pc[c] = "none" /\ c # s
  BY <1>1, <1>2, LabelFacts DEF Inv, ControlInv, ForkLabels
<1>4. ~DropPanics(uvm[c])
  <2>1. uvm[c] \in Uvm /\ Tidy(uvm[c]) /\ Injective(uvm[c]) /\ free \in SUBSET Frames
    BY <1>3, PlainSpaces DEF Inv, TypeOK, SlotInv, TidyInv, FramesAreExclusive, PteLabels
  <2> QED
    BY <2>1, DropFacts
<1>5. /\ ReplaceUvm(c, work[s]) /\ state' = [state EXCEPT ![c] = "Live"]
      /\ pc' = [pc EXCEPT ![s] = "user", ![c] = "user"]
      /\ child' = [child EXCEPT ![s] = None] /\ locked' = None
      /\ work' = [work EXCEPT ![s] = NoUvm] /\ next' = [next EXCEPT ![s] = 0]
      /\ UNCHANGED <<tf, panic>>
  BY <1>2, <1>4 DEF ForkRun
<1>6. /\ pc'[s] = "user" /\ pc'[c] = "user" /\ \A t \in Slots \ {s, c} : pc'[t] = pc[t]
      /\ pc' \in [Slots -> Labels]
      /\ state'[c] = "Live" /\ \A t \in Slots \ {c} : state'[t] = state[t]
      /\ child' \in [Slots -> Slots \cup {None}] /\ \A t \in Slots \ {s} : child'[t] = child[t]
  BY <1>5, LabelFacts DEF Inv, TypeOK
<1>7. ControlInv'
  <2>1. \A t \in Slots \ {s} : pc[t] \notin ForkLabels
    BY <1>2 DEF Inv, ControlInv
  <2>2. \A t \in Slots : pc[t] # "boot"
    BY <1>1, <1>2 DEF Inv, ControlInv
  <2>3. \A t \in Slots \ {c} : state[t] # "Used"
    BY <1>1, <1>2, LabelFacts DEF Inv, ControlInv, ForkLabels
  <2>4. None \notin Slots
    BY DEF None, Slots
  <2>5. \A t \in Slots : pc'[t] # "boot" /\ state'[t] # "Used" /\ pc'[t] \notin ForkLabels
    BY <1>2, <1>6, <2>1, <2>2, <2>3, LabelFacts
  <2>6. /\ \A t \in Slots : state'[t] = "Unused" => pc'[t] = "none"
        /\ \A t \in Slots : state'[t] = "Zombie" => pc'[t] = "none"
        /\ \A t \in Slots : state'[t] = "Live" => pc'[t] # "none"
        /\ \A t \in Slots : pc'[t] = "user" => state'[t] = "Live" /\ locked' # t
    BY <1>1, <1>2, <1>5, <1>6, <2>4 DEF Inv, ControlInv
  <2> QED
    BY <2>5, <2>6 DEF ControlInv
<1>8. Program(work[s]) /\ TopMapped(work[s], tf[c])
  <2>1. SlotInv(s)
    BY DEF Inv
  <2>2. /\ Copied(work[s], uvm[s], uvm[s].size) /\ Program(uvm[s])
        /\ Tidy(uvm[s]) /\ TopMapped(work[s], tf[c])
    BY <1>1, <1>2, <2>1 DEF SlotInv, WorkInv, LayoutInv, TidyInv, OldDrop
  <2>3. /\ work[s].size = uvm[s].size
        /\ \A v \in UserPages : work[s].leaf[v].v <=> uvm[s].leaf[v].v
        /\ \A v \in UserPages : work[s].leaf[v].v => work[s].leaf[v].perm = uvm[s].leaf[v].perm
    BY <2>2 DEF Copied, Tidy
  <2> QED
    BY <2>2, <2>3 DEF Program
<1> QED
  BY <1>1, <1>2, <1>3, <1>5, <1>6, <1>7, <1>8, CommitStep

\* kexec() starts to drop the address space it replaces.
LEMMA ExecCommitInv ==
    ASSUME Inv, NEW s \in Slots, ExecCommit(s)
    PROVE  Inv'
<1> DEFINE m == TopCleared(uvm[s])
<1>1. /\ pc[s] = "exec_args" /\ uvm' = [uvm EXCEPT ![s] = m] /\ next' = [next EXCEPT ![s] = 0]
      /\ pc' = [pc EXCEPT ![s] = "old_drop"]
      /\ UNCHANGED <<free, tf, state, work, child, locked, lost, panic>>
  BY DEF ExecCommit, At, Goto
<1>2. /\ pc[s] \in ExecLabels /\ pc[s] \notin PteLabels
      /\ "old_drop" \notin PteLabels /\ "old_drop" \in OldDrop
  BY <1>1 DEF PteLabels, OldDrop, ExecLabels
<1>3. /\ Old(s) = uvm[s] /\ New(s) = work[s] /\ SlotInv(s)
      /\ uvm[s] \in Uvm /\ Tidy(uvm[s]) /\ Tidy(work[s])
      /\ Injective(uvm[s]) /\ Injective(work[s])
      /\ (OwnedBy(uvm[s]) \cup OwnedBy(work[s])) \cap free = {} /\ free \in SUBSET Frames
  BY <1>2, PlainSpaces, ExecFacts
<1>4. /\ m \in Uvm /\ OwnedBy(m) = OwnedBy(uvm[s]) /\ Injective(m) /\ Tidy(m)
      /\ Empty(uvm[s]) => Empty(m)
  BY <1>3, TopClearedFacts
<1> HIDE DEF m
<1>5. /\ uvm'[s] = m /\ pc'[s] = "old_drop" /\ next'[s] = 0
      /\ \A t \in Slots \ {s} : uvm'[t] = uvm[t]
      /\ work' \in [Slots -> Uvm] /\ uvm' \in [Slots -> Uvm]
  BY <1>1, <1>4 DEF Inv, TypeOK
<1>6. Old(s)' = m /\ New(s)' = work[s]
  BY <1>1, <1>2, <1>5, PlainSpacesNext
<1>7. SlotInv(s)'
  <2>1. TidyInv(s)'
    BY <1>1, <1>3, <1>4, <1>5 DEF TidyInv
  <2>2. Program(work[s]) /\ TopMapped(work[s], tf[s])
    BY <1>1, <1>3 DEF SlotInv, WorkInv, ExecLabels
  <2>3. WorkInv(s)'
    BY <1>1, <1>5, <2>2 DEF WorkInv, ExecLabels, PteLabels
  <2>4. LayoutInv(s)'
    BY <1>1, <1>2, <1>3, <1>4, <1>5 DEF SlotInv, LayoutInv
  <2> QED
    BY <2>1, <2>3, <2>4 DEF SlotInv
<1>8. 0 \in 0 .. MaxPages
  BY PageFacts
<1> QED
  BY <1>1, <1>2, <1>3, <1>4, <1>5, <1>6, <1>7, <1>8, SpaceStep

\* The entry of page next[s] is cleared, in the space that is being dropped.
LEMMA ClearPteInv ==
    ASSUME Inv, NEW s \in Slots, NEW k,
           \/ pc[s] \in OldDrop /\ k = "old_drop"
           \/ pc[s] \in WorkDrop /\ k = "work_drop",
           next[s] \in UserPages, pc[s] \notin PteLabels => ~Victim(s).leaf[next[s]].v,
           ClearPte(s), pc' = [pc EXCEPT ![s] = k],
           UNCHANGED <<free, tf, state, child, locked, lost, panic>>
    PROVE  Inv'
<1> DEFINE v == next[s]
           m == Cleared(Victim(s), v)
<1>1. /\ k \in OldDrop \cup WorkDrop /\ k \notin PteLabels
      /\ pc[s] \in OldDrop <=> k \in OldDrop
      /\ pc[s] \in OldDrop => pc[s] \notin WorkDrop /\ pc[s] # "work_pte"
      /\ pc[s] \in WorkDrop => pc[s] # "old_pte" /\ k \notin OldDrop
  BY LabelFacts DEF OldDrop, WorkDrop, PteLabels
<1>2. /\ uvm[s] \in Uvm /\ work[s] \in Uvm /\ Tidy(uvm[s]) /\ Tidy(work[s])
      /\ Injective(Old(s)) /\ Injective(New(s))
      /\ (OwnedBy(Old(s)) \cup OwnedBy(New(s))) \cap free = {}
      /\ free \in SUBSET Frames /\ SlotInv(s)
  BY ExecFacts
<1>3. v \in VPages /\ v + 1 \in 0 .. MaxPages /\ Victim(s) \in Uvm /\ Tidy(Victim(s))
  BY <1>2, PageFacts DEF UserPages, Victim
<1>4. m \in Uvm /\ Tidy(m) /\ (Empty(Victim(s)) => Empty(m))
  BY <1>3, ClearFacts
<1>5. CASE pc[s] \in OldDrop
  <2>1. /\ uvm' = [uvm EXCEPT ![s] = m] /\ UNCHANGED work /\ Victim(s) = uvm[s]
        /\ next' = [next EXCEPT ![s] = v + 1]
    BY <1>5 DEF ClearPte, Victim
  <2>2. /\ uvm'[s] = m /\ pc'[s] = k
        /\ \A t \in Slots \ {s} : uvm'[t] = uvm[t] /\ work'[t] = work[t]
        /\ work' \in [Slots -> Uvm] /\ uvm' \in [Slots -> Uvm]
    BY <1>4, <2>1 DEF Inv, TypeOK
  <2>3. New(s) = work[s] /\ New(s)' = work[s] /\ Old(s)' = m
    BY <1>1, <1>5, <2>1, <2>2, PlainSpacesNext DEF New
  <2>4. OwnedBy(m) = OwnedBy(Old(s)) /\ Injective(m)
    <3>1. CASE pc[s] \in PteLabels
      BY <1>1, <1>2, <1>5, <2>1, <3>1 DEF Old, PteLabels
    <3>2. CASE pc[s] \notin PteLabels
      BY <1>2, <1>3, <2>1, <3>2, PlainSpaces, ClearOther
    <3> QED
      BY <3>1, <3>2
  <2> HIDE DEF m
  <2>5. SlotInv(s)'
    <3>1. TidyInv(s)'
      BY <1>2, <1>4, <2>1, <2>2 DEF TidyInv
    <3>2. Program(work[s]) /\ TopMapped(work[s], tf[s])
      BY <1>2, <1>5 DEF SlotInv, WorkInv
    <3>3. WorkInv(s)'
      BY <1>1, <1>5, <2>1, <2>2, <3>2 DEF WorkInv, ExecLabels, OldDrop, WorkDrop
    <3>4. LayoutInv(s)'
      BY <1>1, <1>2, <1>4, <1>5, <2>1, <2>2 DEF SlotInv, LayoutInv
    <3> QED
      BY <3>1, <3>3, <3>4 DEF SlotInv
  <2> QED
    BY <1>1, <1>2, <1>3, <1>5, <2>1, <2>2, <2>3, <2>4, <2>5, SpaceStep
<1>6. CASE pc[s] \in WorkDrop
  <2>1. /\ work' = [work EXCEPT ![s] = m] /\ UNCHANGED uvm /\ Victim(s) = work[s]
        /\ next' = [next EXCEPT ![s] = v + 1]
    BY <1>1, <1>6 DEF ClearPte, Victim
  <2>2. /\ work'[s] = m /\ pc'[s] = k
        /\ \A t \in Slots \ {s} : uvm'[t] = uvm[t] /\ work'[t] = work[t]
        /\ work' \in [Slots -> Uvm] /\ uvm' \in [Slots -> Uvm]
    BY <1>4, <2>1 DEF Inv, TypeOK
  <2>3. Old(s) = uvm[s] /\ Old(s)' = uvm[s] /\ New(s)' = m
    BY <1>1, <1>6, <2>1, <2>2, PlainSpacesNext DEF Old
  <2>4. OwnedBy(m) = OwnedBy(New(s)) /\ Injective(m)
    <3>1. CASE pc[s] \in PteLabels
      BY <1>1, <1>2, <1>6, <2>1, <3>1 DEF New, PteLabels
    <3>2. CASE pc[s] \notin PteLabels
      BY <1>2, <1>3, <2>1, <3>2, PlainSpaces, ClearOther
    <3> QED
      BY <3>1, <3>2
  <2> HIDE DEF m
  <2>5. SlotInv(s)'
    <3>1. TidyInv(s)'
      BY <1>2, <1>4, <2>1, <2>2 DEF TidyInv
    <3>2. k = "work_drop"
      BY <1>1, <1>6
    <3>3. WorkInv(s)'
      BY <2>2, <3>2 DEF WorkInv, ExecLabels, OldDrop, PteLabels
    <3>4. LayoutInv(s)'
      BY <1>1, <1>2, <1>6, <2>1, <2>2 DEF SlotInv, LayoutInv
    <3> QED
      BY <3>1, <3>3, <3>4 DEF SlotInv
  <2> QED
    BY <1>1, <1>2, <1>3, <1>6, <2>1, <2>2, <2>3, <2>4, <2>5, SpaceStep
<1> QED
  BY <1>5, <1>6

\* unmap() gives back a page, or skips one that is not mapped.
LEMMA DropPageInv ==
    ASSUME Inv, NEW s \in Slots, DropPage(s)
    PROVE  Inv'
<1> DEFINE v == next[s]
           vm == Victim(s)
           f == vm.leaf[v].frame
<1>1. /\ pc[s] \in {"old_drop", "work_drop"} /\ v < vm.size
      /\ UNCHANGED <<tf, state, child, locked, lost, panic>>
  BY DEF DropPage, At, UnmapEnd
<1>2. pc[s] \in OldDrop \cup WorkDrop /\ pc[s] \notin PteLabels
  BY <1>1 DEF OldDrop, WorkDrop, PteLabels
<1>3. /\ uvm[s] \in Uvm /\ work[s] \in Uvm /\ Tidy(uvm[s]) /\ Tidy(work[s])
      /\ Injective(uvm[s]) /\ Injective(work[s])
      /\ OwnedBy(uvm[s]) \cap OwnedBy(work[s]) = {}
      /\ (OwnedBy(uvm[s]) \cup OwnedBy(work[s])) \cap free = {}
      /\ free \in SUBSET Frames /\ SlotInv(s) /\ Old(s) = uvm[s] /\ New(s) = work[s]
  BY <1>2, PlainSpaces, ExecFacts
<1>4. vm \in Uvm /\ Tidy(vm) /\ Injective(vm)
  BY <1>3 DEF Victim
<1>5. v \in UserPages /\ v \in 0 .. MaxPages /\ v \in VPages
  <2>1. vm.size \in 0 .. MaxPages
    BY <1>4, UvmFields
  <2>2. v \in 0 .. MaxPages
    BY DEF Inv, TypeOK
  <2> QED
    BY <1>1, <2>1, <2>2, PageFacts DEF UserPages
<1>6. CASE ~UnmapFrees(vm, v)
  <2>1. ~vm.leaf[v].v
    BY <1>4, <1>5, <1>6 DEF Tidy, UnmapFrees, IsLeaf
  <2>2. ClearPte(s) /\ UNCHANGED <<free, pc>>
    BY <1>6 DEF DropPage
  <2>3. pc' = [pc EXCEPT ![s] = pc[s]]
    BY <2>2 DEF Inv, TypeOK
  <2>4. \/ pc[s] \in OldDrop /\ pc[s] = "old_drop"
        \/ pc[s] \in WorkDrop /\ pc[s] = "work_drop"
    BY <1>1 DEF OldDrop, WorkDrop
  <2> QED
    BY <1>1, <1>5, <2>1, <2>2, <2>3, <2>4, ClearPteInv
<1>7. CASE UnmapFrees(vm, v)
  <2>1. vm.leaf[v].v /\ f \in Frames
    BY <1>4, <1>5, <1>7 DEF Tidy, UnmapFrees, IsLeaf
  <2>2. /\ free' = free \cup {f} /\ UNCHANGED <<uvm, work, next>>
        /\ pc' = [pc EXCEPT ![s] = IF pc[s] = "old_drop" THEN "old_pte" ELSE "work_pte"]
    BY <1>7 DEF DropPage, Goto
  <2> DEFINE m == Cleared(vm, v)
  <2>3. OwnedBy(m) \cup {f} = OwnedBy(vm) /\ f \notin OwnedBy(m) /\ Injective(m)
    BY <1>4, <1>5, <2>1, ClearUserPage
  <2>4. /\ next' = [next EXCEPT ![s] = v] /\ uvm' \in [Slots -> Uvm] /\ work' \in [Slots -> Uvm]
        /\ free' \in SUBSET Frames
    BY <1>3, <2>1, <2>2 DEF Inv, TypeOK
  <2>5. CASE pc[s] = "old_drop"
    <3>1. /\ pc' = [pc EXCEPT ![s] = "old_pte"] /\ pc'[s] = "old_pte" /\ vm = uvm[s]
          /\ "old_pte" \in OldDrop /\ pc[s] \in OldDrop
      BY <2>2, <2>5 DEF Inv, TypeOK, Victim, OldDrop
    <3>2. Old(s)' = m /\ New(s)' = work[s]
      BY <2>2, <3>1 DEF Old, New
    <3> HIDE DEF m, f
    <3>3. SlotInv(s)'
      <4>1. TidyInv(s)'
        BY <1>3, <2>2 DEF TidyInv
      <4>2. Program(work[s]) /\ TopMapped(work[s], tf[s])
        BY <1>3, <3>1 DEF SlotInv, WorkInv
      <4>3. WorkInv(s)'
        BY <1>1, <1>5, <2>2, <3>1, <4>2 DEF WorkInv, ExecLabels
      <4>4. LayoutInv(s)'
        BY <1>1, <1>3, <2>2, <3>1 DEF SlotInv, LayoutInv
      <4> QED
        BY <4>1, <4>3, <4>4 DEF SlotInv
    <3>4. /\ OwnedBy(m) \cup OwnedBy(work[s]) \cup free' = OwnedBy(uvm[s]) \cup OwnedBy(work[s]) \cup free
          /\ OwnedBy(m) \subseteq OwnedBy(uvm[s])
          /\ (OwnedBy(m) \cup OwnedBy(work[s])) \cap free' = {}
      BY <1>3, <2>2, <2>3, <3>1
    <3> QED
      BY <1>1, <1>2, <1>3, <1>5, <2>2, <2>3, <2>4, <3>1, <3>2, <3>3, <3>4, SpaceStep
  <2>6. CASE pc[s] = "work_drop"
    <3>1. /\ pc' = [pc EXCEPT ![s] = "work_pte"] /\ pc'[s] = "work_pte" /\ vm = work[s]
          /\ "work_pte" \in WorkDrop /\ pc[s] \in WorkDrop
      BY <2>2, <2>6 DEF Inv, TypeOK, Victim, OldDrop, WorkDrop
    <3>2. New(s)' = m /\ Old(s)' = uvm[s]
      BY <2>2, <3>1 DEF Old, New
    <3> HIDE DEF m, f
    <3>3. SlotInv(s)'
      <4>1. TidyInv(s)'
        BY <1>3, <2>2 DEF TidyInv
      <4>2. WorkInv(s)'
        BY <1>5, <2>2, <3>1 DEF WorkInv, ExecLabels, OldDrop
      <4>3. LayoutInv(s)'
        BY <1>1, <1>3, <2>2, <2>6, <3>1 DEF SlotInv, LayoutInv, OldDrop
      <4> QED
        BY <4>1, <4>2, <4>3 DEF SlotInv
    <3>4. /\ OwnedBy(uvm[s]) \cup OwnedBy(m) \cup free' = OwnedBy(uvm[s]) \cup OwnedBy(work[s]) \cup free
          /\ OwnedBy(m) \subseteq OwnedBy(work[s])
          /\ (OwnedBy(uvm[s]) \cup OwnedBy(m)) \cap free' = {}
      BY <1>3, <2>2, <2>3, <3>1
    <3> QED
      BY <1>1, <1>2, <1>3, <1>5, <2>2, <2>3, <2>4, <3>1, <3>2, <3>3, <3>4, SpaceStep
  <2> QED
    BY <1>1, <2>5, <2>6
<1> QED
  BY <1>6, <1>7

\* unmap() clears the entry of the page it gave back.
LEMMA DropPteInv ==
    ASSUME Inv, NEW s \in Slots, DropPte(s)
    PROVE  Inv'
<1>1. /\ pc[s] \in {"old_pte", "work_pte"} /\ ClearPte(s)
      /\ pc' = [pc EXCEPT ![s] = IF pc[s] = "old_pte" THEN "old_drop" ELSE "work_drop"]
      /\ UNCHANGED <<free, tf, state, child, locked, lost, panic>>
  BY DEF DropPte, At, Goto
<1>2. pc[s] \in PteLabels
  BY <1>1 DEF PteLabels
<1>3. next[s] \in UserPages
  BY <1>2 DEF Inv, SlotInv, WorkInv
<1>4. CASE pc[s] = "old_pte"
  <2>1. pc[s] \in OldDrop /\ pc' = [pc EXCEPT ![s] = "old_drop"]
    BY <1>1, <1>4 DEF OldDrop
  <2> QED
    BY <1>1, <1>2, <1>3, <2>1, ClearPteInv
<1>5. CASE pc[s] = "work_pte"
  <2>1. pc[s] \in WorkDrop /\ pc' = [pc EXCEPT ![s] = "work_drop"]
    BY <1>1, <1>5 DEF WorkDrop
  <2> QED
    BY <1>1, <1>2, <1>3, <2>1, ClearPteInv
<1> QED
  BY <1>1, <1>4, <1>5

\* The old address space is gone, and the new one takes its place.
LEMMA OldDroppedInv ==
    ASSUME Inv, NEW s \in Slots, OldDropped(s)
    PROVE  Inv'
<1>1. pc[s] = "old_drop" /\ pc[s] \in MainLabels /\ locked \in {None, s}
  BY DEF OldDropped, At, MainLabels, OldDrop
<1>2. ~DropPanics(uvm[s])
  <2>1. uvm[s] \in Uvm /\ Tidy(uvm[s]) /\ Injective(uvm[s]) /\ free \in SUBSET Frames
    BY <1>1, PlainSpaces DEF Inv, TypeOK, SlotInv, TidyInv, FramesAreExclusive, PteLabels
  <2> QED
    BY <2>1, DropFacts
<1>3. /\ ReplaceUvm(s, work[s]) /\ state' = [state EXCEPT ![s] = "Live"]
      /\ pc' = [pc EXCEPT ![s] = "user"] /\ locked' = None
      /\ work' = [work EXCEPT ![s] = NoUvm] /\ next' = [next EXCEPT ![s] = 0]
      /\ UNCHANGED <<tf, child, panic>>
  BY <1>2 DEF OldDropped, Goto
<1>4. /\ pc'[s] = "user" /\ \A t \in Slots \ {s} : pc'[t] = pc[t]
      /\ pc' \in [Slots -> Labels]
      /\ state'[s] = "Live" /\ \A t \in Slots \ {s} : state'[t] = state[t]
      /\ child' \in [Slots -> Slots \cup {None}] /\ \A t \in Slots \ {s} : child'[t] = child[t]
  BY <1>3, LabelFacts DEF Inv, TypeOK
<1>5. ControlInv'
  <2>1. None \notin Slots /\ pc[s] \notin ForkLabels
    BY <1>1, LabelFacts DEF None, Slots
  <2>2. \A t \in Slots : pc[t] \notin ForkLabels \cup {"boot"}
    BY <1>1, <2>1, LabelFacts, PageFacts DEF Inv, ControlInv
  <2>3. \A t \in Slots \ {s} : state[t] # "Used"
    BY <1>1, <2>1, <2>2, LabelFacts, PageFacts DEF Inv, ControlInv
  <2>4. \A t \in Slots : pc'[t] # "boot" /\ state'[t] # "Used" /\ pc'[t] \notin ForkLabels
    BY <1>4, <2>2, <2>3, LabelFacts
  <2>5. /\ \A t \in Slots : state'[t] = "Unused" => pc'[t] = "none"
        /\ \A t \in Slots : state'[t] = "Zombie" => pc'[t] = "none"
        /\ \A t \in Slots : state'[t] = "Live" => pc'[t] # "none"
        /\ \A t \in Slots : pc'[t] = "user" => state'[t] = "Live" /\ locked' # t
    BY <1>1, <1>3, <1>4, <2>1, <2>2, LabelFacts DEF Inv, ControlInv
  <2> QED
    BY <2>4, <2>5 DEF ControlInv
<1>6. Program(work[s]) /\ TopMapped(work[s], tf[s])
  BY <1>1 DEF Inv, SlotInv, WorkInv, OldDrop
<1> QED
  BY <1>1, <1>3, <1>4, <1>5, <1>6, CommitStep

\* The reaping of a zombie moves its frames to the free list and to the lost
\* tables.
LEMMA ReapTransfer ==
    ASSUME TypeOK, FramesAreExclusive, OnlyTablesGetLost, NEW z \in Slots,
           NEW fr \in SUBSET Frames, fr = DropFree(uvm[z], Rest(free)),
           free # {}, fr # {}, Tidy(uvm[z]), pc[z] \notin Building,
           uvm' = [uvm EXCEPT ![z] = NewUvm(LeastOf(free))],
           lost' = lost \cup Tables(uvm[z]), tf' = [tf EXCEPT ![z] = LeastOf(fr)],
           free' = Rest(fr) \cup {tf[z]}, UNCHANGED <<work, next>>, pc'[z] \notin Building,
           \A t \in Slots : \/ pc'[t] = pc[t]
                            \/ pc[t] \notin Building /\ pc'[t] \notin Building
    PROVE  FramesAreExclusive' /\ OnlyTablesGetLost'
<1> DEFINE f == LeastOf(free)
           g == LeastOf(fr)
           D == OwnedBy(uvm[z])
           T == Tables(uvm[z])
           r == Rest(free)
<1>1. /\ f \in free /\ f \in Frames /\ f \notin r /\ r \cup {f} = free /\ r \in SUBSET Frames
  BY Taken DEF TypeOK
<1>2. g \in fr /\ g \in Frames /\ g \notin Rest(fr) /\ Rest(fr) \cup {g} = fr
  BY Taken
<1>3. /\ uvm'[z] = NewUvm(f) /\ \A t \in Slots \ {z} : uvm'[t] = uvm[t]
      /\ tf'[z] = g /\ \A t \in Slots \ {z} : tf'[t] = tf[t]
  BY DEF TypeOK
<1>4. \A t \in Slots \ {z} : Untouched(t)
  BY <1>3, IdleFacts DEF Idle
<1>5. OwnedBy(NewUvm(f)) = {f} /\ Injective(NewUvm(f))
  BY <1>1, NewFacts
<1>6. Old(z) = uvm[z] /\ Old(z)' = uvm'[z]
  BY LabelFacts, PlainSpaces, PlainSpacesNext
<1>7. Injective(uvm[z]) /\ tf[z] \notin D
  BY <1>6 DEF FramesAreExclusive
<1>8. Owned(z) = D \cup {tf[z]} /\ Owned(z)' = {f, g}
  <2>1. Owned(z) = D \cup {tf[z]}
    BY <1>6 DEF Owned
  <2>2. Owned(z)' = {f} \cup {g}
    BY <1>3, <1>5, <1>6 DEF Owned
  <2> QED
    BY <2>1, <2>2
<1>9. (D \cup {tf[z]}) \cap (free \cup lost) = {} /\ free \cap lost = {}
  BY <1>8 DEF FramesAreExclusive
<1>10. fr \cup T = D \cup r /\ fr \cap T = {}
  <2>1. D \cap r = {} /\ uvm[z] \in Uvm
    BY <1>1, <1>9 DEF TypeOK
  <2> QED
    BY <1>1, <1>7, <2>1, DropFacts
<1>11. T \subseteq D
  BY DEF OwnedBy
<1> HIDE DEF f, g, D, T, r
<1>12. free' = Rest(fr) \cup {tf[z]} /\ lost' = lost \cup T
  BY DEF T
<1>13. f \notin fr /\ f # g /\ tf[z] \notin fr /\ f # tf[z] /\ f \notin T /\ tf[z] \notin T
  BY <1>1, <1>2, <1>7, <1>9, <1>10, <1>11
<1>14. Owned(z)' \cup free' \cup lost' = Owned(z) \cup free \cup lost
  BY <1>1, <1>2, <1>8, <1>10, <1>12
<1>15. lost \cap (fr \cup {f, tf[z]}) = {}
  BY <1>1, <1>9, <1>10
<1>16. Owned(z)' \cap (free' \cup lost') = {} /\ free' \cap lost' = {}
  BY <1>2, <1>8, <1>10, <1>12, <1>13, <1>15
<1>17. Inner(z)'
  BY <1>3, <1>5, <1>13, <1>6 DEF Inner
<1> QED
  BY <1>4, <1>14, <1>16, <1>17, Transfer

\* kwait() reaps a zombie.
LEMMA ReapInv ==
    ASSUME Inv, NEW s \in Slots, NEW z \in Slots, Reap(s, z)
    PROVE  Inv'
<1>1. pc[s] = "user" /\ locked \in {None, s} /\ state[z] = "Zombie"
  BY DEF Reap, At
<1>2. /\ uvm[z] \in Uvm /\ Tidy(uvm[z]) /\ Injective(uvm[z]) /\ free \in SUBSET Frames
      /\ pc[z] = "none" /\ pc[z] \notin Building
  <2>1. pc[z] = "none" /\ pc[z] \notin Building /\ pc[z] \notin PteLabels
    BY <1>1, LabelFacts DEF Inv, ControlInv
  <2> QED
    BY <2>1, PlainSpaces DEF Inv, TypeOK, SlotInv, TidyInv, FramesAreExclusive
<1>3. ~DropPanics(uvm[z])
  BY <1>2, DropFacts
<1>4. CASE free = {}
  BY <1>1, <1>4, PanicKeeps DEF Reap
<1>5. CASE free # {}
  <2>1. LeastOf(free) \in Frames /\ Rest(free) \in SUBSET Frames
    BY <1>2, <1>5, Taken
  <2>2. PICK fr \in SUBSET Frames : fr = DropFree(uvm[z], Rest(free))
    BY <1>2, <2>1, DropFacts
  <2>3. fr # {}
    BY <2>2 DEF DropFree
  <2>4. /\ uvm' = [uvm EXCEPT ![z] = NewUvm(LeastOf(free))]
        /\ lost' = lost \cup Tables(uvm[z]) /\ tf' = [tf EXCEPT ![z] = LeastOf(fr)]
        /\ free' = Rest(fr) \cup {tf[z]} /\ state' = [state EXCEPT ![z] = "Unused"]
        /\ \E l \in {"user", "panic"} : pc' = [pc EXCEPT ![s] = l]
        /\ UNCHANGED <<work, next, child, locked, panic>>
    BY <1>3, <1>5, <2>2 DEF Reap, ClearedUvm, Goto
  <2>5. /\ pc'[s] \in {"user", "panic"} /\ \A t \in Slots \ {s} : pc'[t] = pc[t]
        /\ pc' \in [Slots -> Labels] /\ s # z /\ pc'[z] = "none"
        /\ {"user", "panic", "none"} \cap Building = {}
    <3>1. PICK l \in {"user", "panic"} : pc' = [pc EXCEPT ![s] = l]
      BY <2>4
    <3>2. l \in Labels /\ {"user", "panic", "none"} \cap Building = {}
      BY LabelFacts
    <3>3. pc \in [Slots -> Labels] /\ s # z
      BY <1>1, <1>2 DEF Inv, TypeOK
    <3> QED
      BY <1>2, <3>1, <3>2, <3>3
  <2>6. NewUvm(LeastOf(free)) \in Uvm /\ Empty(NewUvm(LeastOf(free))) /\ Tidy(NewUvm(LeastOf(free)))
    BY <2>1, NewFacts
  <2>7. TypeOK' /\ DropsAreClean'
    <3>1. LeastOf(fr) \in Frames /\ Rest(fr) \in SUBSET Frames /\ Tables(uvm[z]) \in SUBSET Frames
      BY <1>2, <2>1, <2>3, Taken, DropFacts
    <3> TypeOK /\ DropsAreClean
      BY DEF Inv
    <3>2. uvm' \in [Slots -> Uvm] /\ tf' \in [Slots -> Frames]
      BY <2>4, <2>6, <3>1 DEF Inv, TypeOK
    <3>3. /\ free' \in SUBSET Frames /\ lost' \in SUBSET Frames
          /\ state' \in [Slots -> {"Unused", "Used", "Live", "Zombie"}]
      BY <2>4, <3>1 DEF Inv, TypeOK
    <3> QED
      BY <2>4, <2>5, <3>2, <3>3 DEF TypeOK, DropsAreClean
  <2>8. /\ state'[z] = "Unused" /\ uvm'[z] = NewUvm(LeastOf(free))
        /\ \A t \in Slots \ {z} : state'[t] = state[t] /\ uvm'[t] = uvm[t] /\ tf'[t] = tf[t]
    BY <2>4 DEF Inv, TypeOK
  <2>9. ControlInv'
    <3>1. locked = None /\ None \notin Slots /\ state[s] = "Live"
      BY <1>1 DEF Inv, ControlInv, None, Slots
    <3> QED
      BY <1>1, <1>2, <2>4, <2>8, <2>5, <3>1, LabelFacts, PageFacts DEF Inv, ControlInv
  <2>10. ASSUME NEW t \in Slots \ {z} PROVE SlotInv(t)'
    <3>1. pc[t] = "fork_run" => child[t] # z
      BY <1>1 DEF Inv, ControlInv, ForkLabels
    <3>2. pc[t] = "fork_run" => child[t] \in Slots
      BY DEF Inv, ControlInv, ForkLabels
    <3> QED
      BY <1>1, <2>4, <2>8, <2>5, <3>1, <3>2, OthersKeep DEF Inv
  <2>11. SlotInv(z)'
    <3>1. TidyInv(z)'
      BY <1>2, <2>6, <2>8, <2>5 DEF TidyInv
    <3>2. WorkInv(z)'
      BY <2>5 DEF WorkInv, ExecLabels, OldDrop, PteLabels
    <3>3. LayoutInv(z)'
      BY <2>6, <2>8 DEF LayoutInv
    <3> QED
      BY <3>1, <3>2, <3>3 DEF SlotInv
  <2>12. FramesAreExclusive' /\ OnlyTablesGetLost'
    <3>1. /\ pc'[z] \notin Building
          /\ \A t \in Slots : pc'[t] = pc[t] \/ (pc[t] \notin Building /\ pc'[t] \notin Building)
      BY <1>1, <1>2, <2>5
    <3> QED
      BY <1>2, <1>5, <2>2, <2>3, <2>4, <3>1, ReapTransfer DEF Inv
  <2> QED
    BY <2>7, <2>9, <2>10, <2>11, <2>12 DEF Inv
<1> QED
  BY <1>4, <1>5

-----------------------------------------------------------------------------
(* The theorems.                                                            *)

\* initproc() gives every slot two pages of its own.
LEMMA InitInv == Init => Inv
<1> SUFFICES ASSUME Init PROVE Inv
  OBVIOUS
<1>1. \A s \in Slots : s \in Int /\ 0 <= s /\ s < NPROC /\ 2 * s + 1 \in 1 .. 2 * NPROC /\ 2 * s + 2 \in 1 .. 2 * NPROC
  BY NprocAssumption DEF Slots
<1>2. \A s \in Slots : 2 * s + 1 \in Frames /\ 2 * s + 2 \in Frames
  BY <1>1, NprocAssumption, NframesAssumption DEF Frames
<1>3. \A s \in Slots : uvm[s] = NewUvm(2 * s + 1) /\ tf[s] = 2 * s + 2
                       /\ state[s] = "Unused" /\ pc[s] = IF s = 0 THEN "boot" ELSE "none"
  BY DEF Init
<1>4. \A s \in Slots : pc[s] \in {"boot", "none"} /\ pc[s] \notin Building
  BY <1>3, LabelFacts
<1>5. \A s \in Slots : /\ uvm[s] \in Uvm /\ Empty(uvm[s]) /\ Tidy(uvm[s])
                       /\ OwnedBy(uvm[s]) = {2 * s + 1} /\ Injective(uvm[s])
  BY <1>2, <1>3, NewFacts
<1>6. NoUvm \in Uvm
  <2>1. 1 \in Frames
    BY NframesAssumption, NprocAssumption DEF Frames
  <2> QED
    BY <2>1, NewFacts DEF NoUvm
<1>7. TypeOK
  <2>1. uvm \in [Slots -> Uvm]
    BY <1>3, <1>5 DEF Init
  <2>2. tf \in [Slots -> Frames]
    BY <1>2 DEF Init
  <2>3. free \in SUBSET Frames /\ lost \in SUBSET Frames
    BY DEF Init
  <2>4. 0 \in 0 .. MaxPages /\ 0 \in Slots
    BY PageFacts
  <2>5. pc \in [Slots -> Labels]
    BY LabelFacts DEF Init
  <2> QED
    BY <1>6, <2>1, <2>2, <2>3, <2>4, <2>5 DEF TypeOK, Init
<1>8. ControlInv /\ DropsAreClean
  BY <1>3, <1>4, LabelFacts, PageFacts DEF ControlInv, DropsAreClean, Init
<1>9. ASSUME NEW s \in Slots PROVE SlotInv(s)
  BY <1>3, <1>4, <1>5 DEF SlotInv, TidyInv, WorkInv, LayoutInv, ExecLabels, OldDrop, PteLabels
<1>10. \A s \in Slots : Old(s) = uvm[s]
  BY <1>4, PlainSpaces DEF PteLabels
<1>11. \A s \in Slots : Owned(s) = {2 * s + 1, 2 * s + 2}
  BY <1>3, <1>4, <1>5, <1>10 DEF Owned
<1>12. free = Frames \ (1 .. 2 * NPROC) /\ lost = {}
  BY DEF Init
<1>13. FramesAreExclusive
  <2>1. \A s \in Slots : Owned(s) \cap (free \cup lost) = {}
    BY <1>1, <1>11, <1>12
  <2>2. \A s \in Slots : \A t \in Slots \ {s} : Owned(s) \cap Owned(t) = {}
    <3> SUFFICES ASSUME NEW s \in Slots, NEW t \in Slots \ {s}, NEW f \in Owned(s), f \in Owned(t)
                 PROVE  FALSE
      OBVIOUS
    <3>1. (f = 2 * s + 1 \/ f = 2 * s + 2) /\ (f = 2 * t + 1 \/ f = 2 * t + 2)
      BY <1>11
    <3> QED
      BY <1>1, <3>1
  <2>3. ASSUME NEW s \in Slots PROVE tf[s] \notin OwnedBy(uvm[s])
    <3>1. s \in Int /\ tf[s] = 2 * s + 2 /\ OwnedBy(uvm[s]) = {2 * s + 1}
      BY <1>1, <1>3, <1>5
    <3> QED
      BY <3>1
  <2> QED
    BY <1>4, <1>5, <1>12, <1>10, <2>1, <2>2, <2>3 DEF FramesAreExclusive
<1>14. OnlyTablesGetLost
  <2>1. UNION {Owned(s) : s \in Slots} = 1 .. 2 * NPROC
    <3>1. \A s \in Slots : Owned(s) \subseteq 1 .. 2 * NPROC
      BY <1>1, <1>11
    <3>2. ASSUME NEW f \in 1 .. 2 * NPROC PROVE \E s \in Slots : f \in Owned(s)
      <4> DEFINE s == (f - 1) \div 2
      <4>1. s \in Slots /\ (f = 2 * s + 1 \/ f = 2 * s + 2)
        BY NprocAssumption DEF Slots
      <4> QED
        BY <1>11, <4>1
    <3>3. \A f : f \in UNION {Owned(s) : s \in Slots} <=> \E s \in Slots : f \in Owned(s)
      OBVIOUS
    <3> QED
      BY <3>1, <3>2, <3>3
  <2>2. 1 .. 2 * NPROC \subseteq Frames
    BY NprocAssumption, NframesAssumption DEF Frames
  <2> QED
    BY <1>12, <2>1, <2>2 DEF OnlyTablesGetLost
<1> QED
  BY <1>7, <1>8, <1>9, <1>13, <1>14 DEF Inv

\* Every step of every process keeps the invariant.
LEMMA NextInv == Inv /\ [Next]_vars => Inv'
<1> SUFFICES ASSUME Inv, [Next]_vars PROVE Inv'
  OBVIOUS
<1>1. CASE Boot
  BY <1>1, BootInv
<1>2. ASSUME NEW s \in Slots, ForkStep(s) PROVE Inv'
  BY <1>2, KforkInv, ForkTrapframeInv, CloneNewInv, ClonePageInv, ForkInitProcInv, ForkRunInv
  DEF ForkStep
<1>3. ASSUME NEW s \in Slots, ExecStep(s) PROVE Inv'
  <2>1. CASE ExecArgsFail(s)
    BY <2>1, ExecErrInv DEF ExecArgsFail, At, ExecLabels
  <2> QED
    BY <1>3, <2>1, ExecInv, ExecNewInv, ExecInitProcInv, ExecAllocInv, ExecLoadInv,
       ExecStackInv, ExecCommitInv
    DEF ExecStep
<1>4. ASSUME NEW s \in Slots, Exit(s) PROVE Inv'
  BY <1>4, ExitInv
<1>5. ASSUME NEW s \in Slots, DropStep(s) PROVE Inv'
  <2>1. CASE WorkDropped(s)
    BY <2>1, DropWorkInv DEF WorkDropped, At
  <2> QED
    BY <1>5, <2>1, DropPageInv, DropPteInv, OldDroppedInv DEF DropStep
<1>6. ASSUME NEW s \in Slots, NEW z \in Slots, Reap(s, z) PROVE Inv'
  BY <1>6, ReapInv
<1>7. CASE UNCHANGED vars
  <2>1. TypeOK' /\ ControlInv' /\ DropsAreClean'
    BY <1>7 DEF vars, Inv, TypeOK, ControlInv, DropsAreClean
  <2>2. ASSUME NEW s \in Slots PROVE SlotInv(s)'
    BY <1>7, OthersKeep DEF vars, Inv
  <2>3. \A s \in Slots : Untouched(s)
    BY <1>7, IdleFacts DEF vars, Idle
  <2> QED
    BY <1>7, <2>1, <2>2, <2>3, NoTransfer DEF vars, Inv
<1> QED
  BY <1>1, <1>2, <1>3, <1>4, <1>6, <1>7, <1>5 DEF Next, PanicLoop

LEMMA Invariance == Spec => []Inv
BY InitInv, NextInv, PTL DEF Spec

\* The free list, the page tables and the trapframes hold page frames, and
\* every process is at a label of kfork() or kexec().
THEOREM MemoryIsTyped == Spec => []TypeOK
<1>1. Inv => TypeOK
  BY DEF Inv
<1> QED
  BY <1>1, Invariance, PTL

\* Isolation, for every number of processes and every heap: whatever the
\* interleaving of exec, and of the page by page drop of an address space in
\* it, with the forks, exits, execs and reapings of others, no page frame has
\* two uses, and none in use is handed out again or freed twice.  Not covered
\* is the entry of the page that unmap() has just given back.
THEOREM Isolation == Spec => []FramesAreExclusive
<1>1. Inv => FramesAreExclusive
  BY DEF Inv
<1> QED
  BY <1>1, Invariance, PTL

\* The leak is exactly the second-level tables of the address spaces that
\* Drop for Uvm took apart: every other page is free or in use.
THEOREM LeaksAreTables == Spec => []OnlyTablesGetLost
<1>1. Inv => OnlyTablesGetLost
  BY DEF Inv
<1> QED
  BY <1>1, Invariance, PTL

\* A process that may enter user mode, which is any but one whose kexec() is
\* dropping its address space, has the trampoline, and the page its
\* Process::trapframe is in, mapped at the top of that space.
THEOREM TrapframesAreMapped == Spec => []TrapframeIsMapped
<1>1. Inv => TrapframeIsMapped
  BY DEF Inv, SlotInv, LayoutInv, TopMapped, TrapframeIsMapped
<1> QED
  BY <1>1, Invariance, PTL

\* A program that runs has its image, an unmapped guard page and its stack,
\* and no page without PTE_U below them, until kexec() drops them; a slot
\* nobody uses maps nothing.
THEOREM LayoutIsKept == Spec => []UserLayout
<1>1. Inv => UserLayout
  BY DEF Inv, SlotInv, LayoutInv, Program, Empty, UserLayout
<1> QED
  BY <1>1, Invariance, PTL

\* PageTable::free never meets a page that is still mapped, neither in the
\* space of a process nor in the half-built one that kexec() or kfork() drops
\* on an error, and load() finds every page of the image.
THEOREM NoPanicInDrop == Spec => []DropsAreClean
<1>1. Inv => DropsAreClean
  BY DEF Inv
<1> QED
  BY <1>1, Invariance, PTL

=============================================================================
