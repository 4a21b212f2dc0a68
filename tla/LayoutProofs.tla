---------------------------- MODULE LayoutProofs ----------------------------
(* Proofs about module Layout.                                              *)
EXTENDS Layout, TLAPS

\* The inductive invariant behind the theorems: what boot has placed so
\* far, and that nothing else lies between memory and the trampoline.
Placed    == 0 .. slot - 1
StackOf(n) == KSTACK(n) .. KSTACK(n) + KERNEL_STACK_PAGES - 1

LayoutTypes ==
    /\ at \in {"init", "new", "kstack", "start", "paged"}
    /\ slot \in 0 .. NPROC
    /\ at \in {"new", "kstack"} => slot < NPROC
    /\ at \in {"start", "paged"} => slot = NPROC
    /\ at = "init" => slot = 0
    /\ kvm \in [0 .. VIRT_END -> [frame : Int, perm : SUBSET {"r", "w", "x"}]]
    /\ free \subseteq HeapMem
    /\ \A n \in Placed : kstack[n] = KSTACK(n)
    /\ at = "kstack" => kstack[slot] = KSTACK(slot)

StacksPlaced ==
    /\ \A n \in Placed : \A v \in StackOf(n) :
          kvm[v].perm = {"r", "w"} /\ kvm[v].frame \in HeapMem \ free
    /\ \A n, m \in Placed : \A v \in StackOf(n), u \in StackOf(m) :
          u # v => kvm[u].frame # kvm[v].frame
    /\ \A v \in RAMEND .. TRAMPOLINE - 1 :
          (\A n \in Placed : v \notin StackOf(n)) => kvm[v] = Unmapped

ImageMapped ==
    at # "init" =>
        /\ \A f \in HeapMem : kvm[f] = [frame |-> f, perm |-> {"r", "w"}]
        /\ \A v \in 0 .. VIRT_END : kvm[v].frame \in Text => "w" \notin kvm[v].perm

NothingYet == at = "init" => \A v \in 0 .. VIRT_END : kvm[v] = Unmapped

LayoutInv == LayoutTypes /\ StacksPlaced /\ ImageMapped /\ NothingYet

\* The constants are natural numbers in the order of the linker script.
LEMMA Order ==
    /\ NPROC \in Nat /\ UART \in Nat /\ KERNEL_START \in Nat /\ ETEXT \in Nat
    /\ EKERNEL \in Nat /\ RAMEND \in Nat /\ VIRT_END \in Nat
    /\ UART < KERNEL_START /\ KERNEL_START < ETEXT /\ ETEXT < EKERNEL
    /\ EKERNEL < RAMEND /\ RAMEND + NPROC * 3 < VIRT_END - 1
BY LayoutAssumption DEF KERNEL_STACK_PAGES, TRAMPOLINE

\* KSTACK! puts the two pages of stack n between memory and the trampoline.
LEMMA StackPlace ==
    ASSUME NEW n \in Slots
    PROVE  /\ KSTACK(n) = VIRT_END - 1 - 3 * (n + 1) + 1
           /\ KSTACK(n) \in Int
           /\ StackOf(n) = KSTACK(n) .. KSTACK(n) + 1
           /\ KSTACK(n) > RAMEND /\ KSTACK(n) + 1 < VIRT_END - 1
BY Order DEF KSTACK, StackOf, KERNEL_STACK_PAGES, TRAMPOLINE, Slots

\* Stacks of different slots share no page, and the page below a stack is in
\* none of them.
LEMMA StacksApart ==
    ASSUME NEW n \in Slots, NEW m \in Slots
    PROVE  /\ n # m => StackOf(n) \cap StackOf(m) = {}
           /\ KSTACK(n) - 1 \notin StackOf(m)
           /\ KSTACK(n) - 1 \in RAMEND .. TRAMPOLINE - 1
<1>1. KSTACK(n) = VIRT_END - 1 - 3 * (n + 1) + 1 /\ KSTACK(m) = VIRT_END - 1 - 3 * (m + 1) + 1
  BY StackPlace
<1>2. StackOf(n) = KSTACK(n) .. KSTACK(n) + 1 /\ StackOf(m) = KSTACK(m) .. KSTACK(m) + 1
  BY StackPlace
<1>3. n \in Nat /\ m \in Nat /\ n < NPROC /\ m < NPROC
  BY Order DEF Slots
<1>4. n # m => StackOf(n) \cap StackOf(m) = {}
  BY <1>1, <1>2, <1>3, Order
<1>5. KSTACK(n) - 1 \notin StackOf(m)
  BY <1>1, <1>2, <1>3, Order
<1>6. KSTACK(n) - 1 \in RAMEND .. TRAMPOLINE - 1
  BY <1>1, <1>3, Order DEF TRAMPOLINE
<1> QED
  BY <1>4, <1>5, <1>6

LEMMA LayoutInit ==
    ASSUME Init PROVE LayoutInv
<1>1. LayoutTypes
  BY Order DEF Init, LayoutTypes, Unmapped, Placed
<1>2. StacksPlaced
  BY Order DEF Init, StacksPlaced, Placed, TRAMPOLINE
<1>3. ImageMapped /\ NothingYet
  BY DEF Init, ImageMapped, NothingYet
<1> QED
  BY <1>1, <1>2, <1>3 DEF LayoutInv

\* Kvm::init maps the image and memory, and nothing below the trampoline.
LEMMA KvmInitKeeps ==
    ASSUME LayoutInv, KvmInit
    PROVE  LayoutInv'
<1> USE Order
<1> DEFINE NewPte(v) ==
        IF v = TRAMPOLINE THEN [frame |-> ETEXT - 1, perm |-> {"r", "x"}]
        ELSE IF v \in ETEXT .. RAMEND - 1 THEN [frame |-> v, perm |-> {"r", "w"}]
        ELSE IF v \in Text THEN [frame |-> v, perm |-> {"r", "x"}]
        ELSE IF v = UART THEN [frame |-> v, perm |-> {"r", "w"}]
        ELSE Unmapped
<1>1. slot = 0 /\ slot' = 0 /\ free' = free /\ kstack' = kstack /\ at = "init"
      /\ at' = IF NPROC = 0 THEN "start" ELSE "new"
  BY DEF KvmInit, LayoutInv, LayoutTypes
<1>2. DOMAIN kvm = 0 .. VIRT_END /\ \A v \in 0 .. VIRT_END : kvm[v] = Unmapped
  BY <1>1 DEF LayoutInv, LayoutTypes, NothingYet
<1>3. kvm' = [v \in 0 .. VIRT_END |-> NewPte(v)]
  <2> DEFINE a == Map(kvm, {UART}, 0, {"r", "w"})
             b == Map(a, Text, 0, TextPerm)
             c == Map(b, DataAndRam, 0, {"r", "w"})
             d == Map(c, {TRAMPOLINE}, TRAMPOLINE - (ETEXT - 1), {"r", "x"})
  <2>1. DOMAIN a = 0 .. VIRT_END /\ \A v \in 0 .. VIRT_END :
          a[v] = IF v \in {UART} THEN [frame |-> v - 0, perm |-> {"r", "w"}] ELSE kvm[v]
    BY <1>2 DEF Map
  <2> HIDE DEF a
  <2>2. DOMAIN b = 0 .. VIRT_END /\ \A v \in 0 .. VIRT_END :
          b[v] = IF v \in Text THEN [frame |-> v - 0, perm |-> TextPerm] ELSE a[v]
    BY <2>1 DEF Map
  <2> HIDE DEF b
  <2>3. DOMAIN c = 0 .. VIRT_END /\ \A v \in 0 .. VIRT_END :
          c[v] = IF v \in DataAndRam THEN [frame |-> v - 0, perm |-> {"r", "w"}] ELSE b[v]
    BY <2>2 DEF Map
  <2> HIDE DEF c
  <2>4. /\ DOMAIN d = 0 .. VIRT_END
        /\ \A v \in 0 .. VIRT_END :
             d[v] = IF v \in {TRAMPOLINE}
                    THEN [frame |-> v - (TRAMPOLINE - (ETEXT - 1)), perm |-> {"r", "x"}]
                    ELSE c[v]
        /\ d = [v \in 0 .. VIRT_END |-> d[v]]
    BY <2>3 DEF Map
  <2>5. kvm' = d
    BY DEF KvmInit, a, b, c
  <2> HIDE DEF d
  <2>6. ASSUME NEW v \in 0 .. VIRT_END
        PROVE  d[v] = NewPte(v)
    <3>1. v \in Int /\ v - 0 = v /\ TRAMPOLINE - (TRAMPOLINE - (ETEXT - 1)) = ETEXT - 1
      BY DEF TRAMPOLINE
    <3> QED
      BY <1>2, <2>1, <2>2, <2>3, <2>4, <3>1 DEF DataAndRam, TextPerm
  <2> QED
    BY <2>4, <2>5, <2>6
<1>4. LayoutTypes'
  <2>1. kvm' \in [0 .. VIRT_END -> [frame : Int, perm : SUBSET {"r", "w", "x"}]]
    BY <1>3 DEF Text, Unmapped
  <2> QED
    BY <1>1, <2>1 DEF LayoutInv, LayoutTypes, Placed
<1>5. StacksPlaced'
  BY <1>1, <1>3 DEF StacksPlaced, Placed, TRAMPOLINE, Text
<1>6. ImageMapped'
  <2>1. \A f \in HeapMem : kvm'[f] = [frame |-> f, perm |-> {"r", "w"}]
    BY <1>3 DEF HeapMem, TRAMPOLINE
  <2>2. ASSUME NEW v \in 0 .. VIRT_END, kvm'[v].frame \in Text
        PROVE  "w" \notin kvm'[v].perm
    BY <1>3, <2>2 DEF Text, TRAMPOLINE, Unmapped
  <2> QED
    BY <2>1, <2>2 DEF ImageMapped
<1>7. NothingYet'
  BY <1>1 DEF NothingYet
<1> QED
  BY <1>4, <1>5, <1>6, <1>7 DEF LayoutInv

\* The stacks stay placed while the table stays and the heap only shrinks.
LEMMA SamePlaces ==
    ASSUME StacksPlaced, slot' = slot, kvm' = kvm, free' \subseteq free
    PROVE  StacksPlaced'
<1>1. Placed' = Placed
  BY DEF Placed
<1>2. ASSUME NEW n \in Placed, NEW v \in StackOf(n)
      PROVE  kvm'[v].perm = {"r", "w"} /\ kvm'[v].frame \in HeapMem \ free'
  BY <1>2 DEF StacksPlaced
<1>3. ASSUME NEW n \in Placed, NEW m \in Placed, NEW v \in StackOf(n), NEW u \in StackOf(m), u # v
      PROVE  kvm'[u].frame # kvm'[v].frame
  BY <1>3 DEF StacksPlaced
<1>4. ASSUME NEW v \in RAMEND .. TRAMPOLINE - 1, \A n \in Placed : v \notin StackOf(n)
      PROVE  kvm'[v] = Unmapped
  BY <1>4 DEF StacksPlaced
<1> QED
  BY <1>1, <1>2, <1>3, <1>4 DEF StacksPlaced

\* Process::new only takes pages from the heap.
LEMMA ProcessNewKeeps ==
    ASSUME LayoutInv, ProcessNew
    PROVE  LayoutInv'
<1> USE Order
<1>1. at = "new" /\ at' = "kstack" /\ slot' = slot /\ kvm' = kvm /\ free' \subseteq free
      /\ kstack' = [s \in 0 .. slot |-> IF s = slot THEN KSTACK(slot) ELSE kstack[s]]
  BY DEF ProcessNew
<1>2. LayoutTypes'
  BY <1>1 DEF LayoutInv, LayoutTypes, Placed, KSTACK
<1>3. StacksPlaced'
  BY <1>1, SamePlaces DEF LayoutInv
<1>4. ImageMapped' /\ NothingYet'
  BY <1>1 DEF LayoutInv, ImageMapped, NothingYet
<1> QED
  BY <1>2, <1>3, <1>4 DEF LayoutInv

\* alloc_kstack maps two fresh frames at pages where nothing was.
LEMMA AllocKstackKeeps ==
    ASSUME LayoutInv, AllocKstack
    PROVE  LayoutInv'
<1> USE Order
<1>1. PICK f \in free, g \in free :
        /\ f # g /\ free' = free \ {f, g}
        /\ kvm' = Map(Map(kvm, {KSTACK(slot)}, KSTACK(slot) - f, {"r", "w"}),
                      {KSTACK(slot) + 1}, KSTACK(slot) + 1 - g, {"r", "w"})
  BY DEF AllocKstack
<1>2. at = "kstack" /\ slot' = slot + 1 /\ kstack' = kstack
      /\ at' = IF slot + 1 = NPROC THEN "start" ELSE "new"
  BY DEF AllocKstack
<1>3. slot \in Slots /\ slot \in Nat /\ free \subseteq HeapMem /\ f \in HeapMem /\ g \in HeapMem
      /\ kvm \in [0 .. VIRT_END -> [frame : Int, perm : SUBSET {"r", "w", "x"}]]
  BY <1>2 DEF LayoutInv, LayoutTypes, Slots
<1> DEFINE low == KSTACK(slot)
<1>4. low \in Int /\ low > RAMEND /\ low + 1 < VIRT_END - 1 /\ StackOf(slot) = low .. low + 1
  BY <1>3, StackPlace
<1>5. f \in Int /\ g \in Int
  BY <1>3 DEF HeapMem
<1> HIDE DEF low
<1>6. kvm' = [v \in 0 .. VIRT_END |->
                IF v = low + 1 THEN [frame |-> g, perm |-> {"r", "w"}]
                ELSE IF v = low THEN [frame |-> f, perm |-> {"r", "w"}] ELSE kvm[v]]
  <2> DEFINE a == Map(kvm, {low}, low - f, {"r", "w"})
             b == Map(a, {low + 1}, low + 1 - g, {"r", "w"})
  <2>1. DOMAIN a = 0 .. VIRT_END /\ \A v \in 0 .. VIRT_END :
          a[v] = IF v \in {low} THEN [frame |-> v - (low - f), perm |-> {"r", "w"}] ELSE kvm[v]
    BY <1>3 DEF Map
  <2>2. kvm' = b
    BY <1>1 DEF low
  <2> HIDE DEF a
  <2>3. /\ DOMAIN b = 0 .. VIRT_END
        /\ \A v \in 0 .. VIRT_END :
             b[v] = IF v \in {low + 1} THEN [frame |-> v - (low + 1 - g), perm |-> {"r", "w"}]
                    ELSE a[v]
        /\ b = [v \in 0 .. VIRT_END |-> b[v]]
    BY <2>1 DEF Map
  <2> HIDE DEF b
  <2>4. low - (low - f) = f /\ low + 1 - (low + 1 - g) = g /\ low # low + 1
    BY <1>4, <1>5
  <2>5. ASSUME NEW v \in 0 .. VIRT_END
        PROVE  b[v] = IF v = low + 1 THEN [frame |-> g, perm |-> {"r", "w"}]
                      ELSE IF v = low THEN [frame |-> f, perm |-> {"r", "w"}] ELSE kvm[v]
    <3>1. CASE v = low + 1
      <4>1. v - (low + 1 - g) = g
        BY <1>4, <1>5, <3>1
      <4>2. b[v] = [frame |-> v - (low + 1 - g), perm |-> {"r", "w"}]
        BY <2>3, <3>1
      <4> QED
        BY <3>1, <4>1, <4>2
    <3>2. CASE v = low
      BY <2>1, <2>3, <2>4, <3>2
    <3>3. CASE v # low /\ v # low + 1
      BY <2>1, <2>3, <3>3
    <3> QED
      BY <2>4, <3>1, <3>2, <3>3
  <2> QED
    BY <2>2, <2>3, <2>5
<1>7. /\ kvm'[low] = [frame |-> f, perm |-> {"r", "w"}]
      /\ kvm'[low + 1] = [frame |-> g, perm |-> {"r", "w"}]
      /\ \A v \in 0 .. VIRT_END : v # low /\ v # low + 1 => kvm'[v] = kvm[v]
  BY <1>4, <1>6
<1>8. Placed' = Placed \cup {slot} /\ slot \notin Placed /\ Placed \subseteq Slots
  BY <1>2, <1>3 DEF Placed, Slots
<1>9. \A n \in Slots : StackOf(n)' = StackOf(n) /\ KSTACK(n)' = KSTACK(n)
  BY DEF StackOf, KSTACK
<1>10. ASSUME NEW n \in Placed, NEW v \in StackOf(n)
       PROVE  v \in 0 .. VIRT_END /\ v # low /\ v # low + 1 /\ kvm'[v] = kvm[v]
  <2>1. n \in Slots /\ n # slot
    BY <1>8
  <2>2. StackOf(n) \cap StackOf(slot) = {}
    BY <2>1, <1>3, StacksApart
  <2>3. KSTACK(n) \in Int /\ KSTACK(n) > RAMEND /\ KSTACK(n) + 1 < VIRT_END - 1
        /\ StackOf(n) = KSTACK(n) .. KSTACK(n) + 1
    BY <2>1, StackPlace
  <2>4. v \in 0 .. VIRT_END
    BY <2>3
  <2>5. v # low /\ v # low + 1
    BY <2>2, <1>4
  <2> QED
    BY <2>4, <2>5, <1>7
<1>11. LayoutTypes'
  <2>1. kvm' \in [0 .. VIRT_END -> [frame : Int, perm : SUBSET {"r", "w", "x"}]]
    BY <1>3, <1>5, <1>6
  <2>2. \A n \in Placed' : kstack'[n] = KSTACK(n)'
    BY <1>2, <1>8, <1>9 DEF LayoutInv, LayoutTypes
  <2>3. free' \subseteq HeapMem
    BY <1>1, <1>3
  <2>4. slot' \in 0 .. NPROC /\ at' \in {"new", "start"}
        /\ (at' = "new" => slot' < NPROC) /\ (at' = "start" => slot' = NPROC)
    BY <1>2, <1>3 DEF Slots
  <2> QED
    BY <2>1, <2>2, <2>3, <2>4 DEF LayoutTypes
<1>12. StacksPlaced'
  <2>1. ASSUME NEW n \in Placed', NEW v \in StackOf(n)
        PROVE  kvm'[v].perm = {"r", "w"} /\ kvm'[v].frame \in HeapMem \ free'
    <3>1. CASE n = slot
      <4>1. v = low \/ v = low + 1
        BY <1>4, <2>1, <3>1
      <4>2. kvm'[v] = [frame |-> f, perm |-> {"r", "w"}] \/ kvm'[v] = [frame |-> g, perm |-> {"r", "w"}]
        BY <1>7, <4>1
      <4>3. f \in HeapMem \ free' /\ g \in HeapMem \ free'
        BY <1>1, <1>3
      <4> QED
        BY <4>2, <4>3
    <3>2. CASE n \in Placed
      <4>1. kvm'[v] = kvm[v]
        BY <1>10, <3>2
      <4>2. kvm[v].perm = {"r", "w"} /\ kvm[v].frame \in HeapMem \ free
        BY <3>2, <2>1 DEF LayoutInv, StacksPlaced
      <4> QED
        BY <1>1, <4>1, <4>2
    <3> QED
      BY <1>8, <3>1, <3>2
  <2>2. ASSUME NEW n \in Placed', NEW m \in Placed', NEW v \in StackOf(n), NEW u \in StackOf(m),
               u # v
        PROVE  kvm'[u].frame # kvm'[v].frame
    <3>1. CASE n = slot /\ m = slot
      BY <1>1, <1>4, <1>7, <2>2, <3>1
    <3>2. CASE n = slot /\ m \in Placed
      <4>1. kvm'[v].frame \in free
        BY <1>4, <1>7, <3>2
      <4>2. kvm'[u] = kvm[u] /\ kvm[u].frame \notin free
        BY <1>10, <3>2 DEF LayoutInv, StacksPlaced
      <4> QED
        BY <4>1, <4>2
    <3>3. CASE n \in Placed /\ m = slot
      <4>1. kvm'[u].frame \in free
        BY <1>4, <1>7, <3>3
      <4>2. kvm'[v] = kvm[v] /\ kvm[v].frame \notin free
        BY <1>10, <3>3 DEF LayoutInv, StacksPlaced
      <4> QED
        BY <4>1, <4>2
    <3>4. CASE n \in Placed /\ m \in Placed
      <4>1. kvm'[u] = kvm[u] /\ kvm'[v] = kvm[v]
        BY <1>10, <3>4
      <4> QED
        BY <2>2, <3>4, <4>1 DEF LayoutInv, StacksPlaced
    <3> QED
      BY <1>8, <3>1, <3>2, <3>3, <3>4
  <2>3. ASSUME NEW v \in RAMEND .. TRAMPOLINE - 1, \A n \in Placed' : v \notin StackOf(n)
        PROVE  kvm'[v] = Unmapped
    <3>1. v \in 0 .. VIRT_END /\ v # low /\ v # low + 1
      BY <1>4, <1>8, <2>3 DEF TRAMPOLINE
    <3>2. kvm[v] = Unmapped
      BY <1>8, <2>3 DEF LayoutInv, StacksPlaced
    <3> QED
      BY <1>7, <3>1, <3>2
  <2> QED
    BY <1>8, <1>9, <2>1, <2>2, <2>3 DEF StacksPlaced
<1>13. ImageMapped'
  <2>1. \A f1 \in HeapMem : kvm'[f1] = kvm[f1]
    BY <1>4, <1>7 DEF HeapMem
  <2>2. ASSUME NEW v \in 0 .. VIRT_END, kvm'[v].frame \in Text
        PROVE  "w" \notin kvm'[v].perm
    <3>1. f \notin Text /\ g \notin Text
      BY <1>3 DEF HeapMem, Text
    <3>2. kvm'[v] = kvm[v]
      BY <1>7, <2>2, <3>1
    <3> QED
      BY <1>2, <2>2, <3>2 DEF LayoutInv, ImageMapped
  <2>3. \A f1 \in HeapMem : kvm[f1] = [frame |-> f1, perm |-> {"r", "w"}]
    BY <1>2 DEF LayoutInv, ImageMapped
  <2> QED
    BY <2>1, <2>2, <2>3 DEF ImageMapped
<1>14. NothingYet'
  BY <1>2 DEF NothingYet
<1> QED
  BY <1>11, <1>12, <1>13, <1>14 DEF LayoutInv

\* start_kvm changes neither the table nor the stacks.
LEMMA StartKvmKeeps ==
    ASSUME LayoutInv, StartKvm \/ UNCHANGED vars
    PROVE  LayoutInv'
<1>1. slot' = slot /\ kvm' = kvm /\ free' = free /\ kstack' = kstack
      /\ (at' = at \/ (at = "start" /\ at' = "paged"))
  <2>1. CASE StartKvm
    BY <2>1 DEF StartKvm
  <2>2. CASE UNCHANGED vars
    BY <2>2 DEF vars
  <2> QED
    BY <2>1, <2>2
<1>2. LayoutTypes'
  BY <1>1 DEF LayoutInv, LayoutTypes, Placed, KSTACK
<1>3. StacksPlaced'
  BY <1>1, SamePlaces DEF LayoutInv
<1>4. ImageMapped' /\ NothingYet'
  BY <1>1 DEF LayoutInv, ImageMapped, NothingYet
<1> QED
  BY <1>2, <1>3, <1>4 DEF LayoutInv

LEMMA LayoutInvariant == Spec => []LayoutInv
<1>1. Init => LayoutInv
  BY LayoutInit
<1>2. LayoutInv /\ [Next]_vars => LayoutInv'
  BY KvmInitKeeps, ProcessNewKeeps, AllocKstackKeeps, StartKvmKeeps DEF Next
<1> QED
  BY <1>1, <1>2, PTL DEF Spec

\* Every kernel stack that boot makes is writable, has frames and pages of its
\* own, and an unmapped page below it, for any number of processes that fits
\* between memory and the trampoline.
THEOREM KernelStacksSafe == Spec => []StacksAreGuarded
<1>1. LayoutInv => StacksAreGuarded
  <2> SUFFICES ASSUME LayoutInv, at = "paged"
               PROVE  /\ \A n \in Slots :
                            /\ kvm[kstack[n] - 1] = Unmapped
                            /\ \A v \in StackPages(n) :
                                  kvm[v].perm = {"r", "w"} /\ kvm[v].frame \in HeapMem \ free
                      /\ \A n, m \in Slots : \A v \in StackPages(n), u \in StackPages(m) :
                            n # m \/ u # v => u # v /\ kvm[u].frame # kvm[v].frame
    BY DEF StacksAreGuarded
  <2>1. Placed = Slots
    BY Order DEF LayoutInv, LayoutTypes, Placed, Slots
  <2>2. \A n \in Slots : kstack[n] = KSTACK(n) /\ StackPages(n) = StackOf(n)
    BY <2>1 DEF LayoutInv, LayoutTypes, StackPages, StackOf
  <2>3. ASSUME NEW n \in Slots
        PROVE  kvm[kstack[n] - 1] = Unmapped
    <3>1. KSTACK(n) - 1 \in RAMEND .. TRAMPOLINE - 1
      BY StacksApart
    <3>2. \A m \in Slots : KSTACK(n) - 1 \notin StackOf(m)
      BY StacksApart
    <3> QED
      BY <2>1, <2>2, <3>1, <3>2 DEF LayoutInv, StacksPlaced
  <2>4. ASSUME NEW n \in Slots, NEW v \in StackPages(n)
        PROVE  kvm[v].perm = {"r", "w"} /\ kvm[v].frame \in HeapMem \ free
    BY <2>1, <2>2, <2>4 DEF LayoutInv, StacksPlaced
  <2>5. ASSUME NEW n \in Slots, NEW m \in Slots, NEW v \in StackPages(n), NEW u \in StackPages(m),
               n # m \/ u # v
        PROVE  u # v /\ kvm[u].frame # kvm[v].frame
    <3>1. v \in StackOf(n) /\ u \in StackOf(m)
      BY <2>2, <2>5
    <3>2. u # v
      BY <2>5, <3>1, StacksApart
    <3> QED
      BY <2>1, <3>1, <3>2 DEF LayoutInv, StacksPlaced
  <2> QED
    BY <2>3, <2>4, <2>5
<1> QED
  BY <1>1, LayoutInvariant, PTL

\* Once paging is on, every page of the heap is mapped at its own address and
\* writable: load(), walk() and the allocator use physical addresses.
THEOREM HeapReachable == Spec => []HeapIsIdentityMapped
<1>1. LayoutInv => HeapIsIdentityMapped
  BY DEF LayoutInv, ImageMapped, HeapIsIdentityMapped
<1> QED
  BY <1>1, LayoutInvariant, PTL

\* No page of the kernel's address space lets it write its own text.
THEOREM TextProtected == Spec => []TextIsReadOnly
<1>1. LayoutInv => TextIsReadOnly
  BY DEF LayoutInv, ImageMapped, TextIsReadOnly
<1> QED
  BY <1>1, LayoutInvariant, PTL

=============================================================================
