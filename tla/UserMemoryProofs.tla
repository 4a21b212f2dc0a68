-------------------------- MODULE UserMemoryProofs --------------------------
(***************************************************************************)
(* Proofs about module UserMemory for every size of pages, words, images   *)
(* and arguments, and every choice of frames.                              *)
(***************************************************************************)
EXTENDS UserMemory, TLAPS, NaturalsInduction, WellFoundedInduction

-----------------------------------------------------------------------------
(* Quotients and remainders.                                                *)

\* What div and mod are.
LEMMA DivMod ==
    ASSUME NEW a \in Int, NEW n \in Nat \ {0}
    PROVE  /\ a \div n \in Int /\ a % n \in 0 .. n - 1
           /\ a = (a \div n) * n + (a % n)
           /\ a \in Nat => a \div n \in Nat
OBVIOUS

\* The same for natural numbers.
LEMMA Split ==
    ASSUME NEW a \in Nat, NEW n \in Nat \ {0}
    PROVE  \E q \in Nat, r \in 0 .. n - 1 : q = a \div n /\ r = a % n /\ a = q * n + r
<1>1. a \in Int
  OBVIOUS
<1> QED
  BY <1>1, DivMod

\* They are determined by that.
LEMMA DivModUnique ==
    ASSUME NEW n \in Nat \ {0}, NEW q \in Int, NEW r \in 0 .. n - 1
    PROVE  (q * n + r) \div n = q /\ (q * n + r) % n = r
<1> DEFINE a == q * n + r
<1>1. a \in Int
  OBVIOUS
<1>2. a \div n \in Int /\ a % n \in 0 .. n - 1 /\ a = (a \div n) * n + (a % n)
  BY <1>1, DivMod
<1> HIDE DEF a
<1>3. PICK k \in Int, m \in 0 .. n - 1 : k = a \div n /\ m = a % n
  BY <1>2
<1>4. q * n + r = k * n + m
  BY <1>2, <1>3 DEF a
<1>5. (q - k) * n = m - r
  BY <1>4
<1>6. q = k
  <2>1. CASE q > k
    <3>1. (q - k) * n >= n
      BY <2>1
    <3> QED
      BY <1>5, <3>1
  <2>2. CASE q < k
    <3>1. (k - q) * n >= n
      BY <2>2
    <3>2. (q - k) * n = -((k - q) * n)
      OBVIOUS
    <3> QED
      BY <1>5, <3>1, <3>2
  <2> QED
    BY <2>1, <2>2
<1> QED
  BY <1>1, <1>3, <1>4, <1>6 DEF a

-----------------------------------------------------------------------------
(* Pages and frames.                                                        *)

\* Pages and frames of the process in order.
PlaceInv ==
    /\ frame \in [VPages -> Frames] /\ IsInjective(frame)
    /\ frame[TrampolinePage] = TextFrame
    /\ size \in 0 .. 2 * PAGESIZE

LEMMA Sizes ==
    /\ PAGESIZE \in Nat \ {0} /\ WordSize \in Nat \ {0} /\ ALIGN \in Nat \ {0}
    /\ VEnd \in Nat /\ PEnd \in Nat /\ VEnd = PEnd
BY UserMemoryAssumption DEF VEnd, PEnd

\* An address and its place in physical memory have the same offset.
LEMMA PhysFacts ==
    ASSUME PlaceInv, NEW a \in 0 .. VEnd - 1
    PROVE  /\ a \div PAGESIZE \in VPages /\ Phys(a) \in 0 .. VEnd - 1
           /\ Phys(a) \div PAGESIZE = frame[a \div PAGESIZE]
           /\ Phys(a) % PAGESIZE = a % PAGESIZE
<1>1. PICK q \in Nat, r \in 0 .. PAGESIZE - 1 :
         q = a \div PAGESIZE /\ r = a % PAGESIZE /\ a = q * PAGESIZE + r
  <2>1. a \in Nat
    BY Sizes
  <2> QED
    BY <2>1, Sizes, Split
<1>2. q \in 0 .. 6
  <2> SUFFICES ASSUME q >= 7 PROVE FALSE
    OBVIOUS
  <2>1. q * PAGESIZE >= 7 * PAGESIZE
    BY Sizes
  <2> QED
    BY <1>1, <2>1, Sizes DEF VEnd
<1>3. PICK f \in 0 .. 6 : f = frame[q]
  BY <1>2 DEF PlaceInv, VPages, Frames
<1>4. Phys(a) = f * PAGESIZE + r
  BY <1>1, <1>3 DEF Phys
<1>5. f * PAGESIZE \in Nat /\ f * PAGESIZE <= 6 * PAGESIZE
  BY Sizes
<1>6. Phys(a) \in 0 .. VEnd - 1
  BY <1>4, <1>5, Sizes DEF VEnd
<1>7. Phys(a) \div PAGESIZE = f /\ Phys(a) % PAGESIZE = r
  BY <1>4, Sizes, DivModUnique
<1> QED
  BY <1>1, <1>2, <1>3, <1>6, <1>7 DEF VPages

\* Different addresses have different places.
LEMMA PhysInjective ==
    ASSUME PlaceInv, NEW a \in 0 .. VEnd - 1, NEW b \in 0 .. VEnd - 1, Phys(a) = Phys(b)
    PROVE  a = b
<1>1. /\ a \div PAGESIZE \in VPages /\ b \div PAGESIZE \in VPages
      /\ frame[a \div PAGESIZE] = frame[b \div PAGESIZE]
      /\ a % PAGESIZE = b % PAGESIZE
  BY PhysFacts
<1>2. a \div PAGESIZE = b \div PAGESIZE
  BY <1>1 DEF PlaceInv, IsInjective
<1>3. a \in Nat /\ b \in Nat
  BY Sizes
<1> QED
  BY <1>1, <1>2, <1>3, Sizes, Split

\* A byte in the frame of a page is the place of an address in this page.
LEMMA PlaceOf ==
    ASSUME PlaceInv, NEW p \in 0 .. PEnd - 1, NEW v \in VPages, frame[v] = p \div PAGESIZE
    PROVE  \E a \in 0 .. VEnd - 1 : a \div PAGESIZE = v /\ Phys(a) = p
<1>1. PICK q \in Nat, r \in 0 .. PAGESIZE - 1 :
         q = p \div PAGESIZE /\ r = p % PAGESIZE /\ p = q * PAGESIZE + r
  <2>1. p \in Nat
    BY Sizes
  <2> QED
    BY <2>1, Sizes, Split
<1>2. v \in Int /\ v \in 0 .. 6
  BY DEF VPages
<1>3. PICK a \in Int : a = v * PAGESIZE + r
  BY <1>2, Sizes
<1>4. a \div PAGESIZE = v /\ a % PAGESIZE = r
  BY <1>2, <1>3, Sizes, DivModUnique
<1>5. Phys(a) = p
  BY <1>1, <1>4 DEF Phys
<1>6. a \in 0 .. VEnd - 1
  <2>1. PICK k \in Int : k = v * PAGESIZE /\ k >= 0 /\ k <= 6 * PAGESIZE
    <3>1. v * PAGESIZE \in Int /\ v * PAGESIZE >= 0 /\ v * PAGESIZE <= 6 * PAGESIZE
      BY <1>2, Sizes
    <3> QED
      BY <3>1
  <2>2. a = k + r /\ r <= PAGESIZE - 1 /\ r >= 0
    BY <1>3, <2>1, Sizes
  <2> QED
    BY <2>1, <2>2, Sizes DEF VEnd
<1> QED
  BY <1>4, <1>5, <1>6

\* Physical memory goes on as virtual memory does up to the end of the page.
LEMMA PhysRun ==
    ASSUME PlaceInv, NEW a \in 0 .. VEnd - 1, NEW i \in Nat,
           (a % PAGESIZE) + i < PAGESIZE
    PROVE  /\ a + i \in 0 .. VEnd - 1 /\ Phys(a + i) = Phys(a) + i
           /\ (a + i) \div PAGESIZE = a \div PAGESIZE
<1>1. PICK q \in Nat, r \in 0 .. PAGESIZE - 1 :
         q = a \div PAGESIZE /\ r = a % PAGESIZE /\ a = q * PAGESIZE + r
  <2>1. a \in Nat
    BY Sizes
  <2> QED
    BY <2>1, Sizes, Split
<1>2. a + i = q * PAGESIZE + (r + i) /\ r + i \in 0 .. PAGESIZE - 1
  BY <1>1, Sizes
<1>3. (a + i) \div PAGESIZE = q /\ (a + i) % PAGESIZE = r + i
  <2>1. PICK k \in 0 .. PAGESIZE - 1 : k = r + i
    BY <1>2
  <2>2. (q * PAGESIZE + k) \div PAGESIZE = q /\ (q * PAGESIZE + k) % PAGESIZE = k
    BY Sizes, DivModUnique
  <2> QED
    BY <1>2, <2>1, <2>2
<1>4. q \in 0 .. 6
  BY <1>1, PhysFacts DEF VPages
<1>5. PICK f \in 0 .. 6 : f = frame[q]
  BY <1>4 DEF PlaceInv, VPages, Frames
<1>6. Phys(a) = f * PAGESIZE + r /\ Phys(a + i) = f * PAGESIZE + (r + i)
  BY <1>1, <1>3, <1>5 DEF Phys
<1>7. q * PAGESIZE >= 0 /\ q * PAGESIZE <= 6 * PAGESIZE /\ f * PAGESIZE \in Nat
  BY <1>4, Sizes
<1> QED
  BY <1>1, <1>2, <1>3, <1>6, <1>7, Sizes DEF VEnd

\* The image, the guard page and the stack page.
LEMMA LayoutFacts ==
    ASSUME PlaceInv
    PROVE  /\ ImagePages \in 0 .. 2 /\ StackPage = ImagePages + 1
           /\ size <= ImagePages * PAGESIZE /\ size > (ImagePages - 1) * PAGESIZE
           /\ ImagePages * PAGESIZE \in Nat
           /\ StackBase = ImagePages * PAGESIZE + PAGESIZE
           /\ UEnd = StackBase + PAGESIZE /\ UEnd <= VEnd
<1>1. size + PAGESIZE - 1 \in Nat
  BY Sizes DEF PlaceInv
<1>2. PICK q \in Nat, r \in 0 .. PAGESIZE - 1 :
         q = ImagePages /\ size + PAGESIZE - 1 = q * PAGESIZE + r
  <2>1. \E q \in Nat, r \in 0 .. PAGESIZE - 1 :
           /\ q = (size + PAGESIZE - 1) \div PAGESIZE
           /\ size + PAGESIZE - 1 = q * PAGESIZE + r
    <3>1. PAGESIZE \in Nat \ {0}
      BY Sizes
    <3> DEFINE a == size + PAGESIZE - 1
    <3>2. a \in Nat
      BY <1>1
    <3> HIDE DEF a
    <3>3. \E q \in Nat, r \in 0 .. PAGESIZE - 1 : q = a \div PAGESIZE /\ a = q * PAGESIZE + r
      BY <3>1, <3>2, Split
    <3> QED
      BY <3>3 DEF a
  <2>2. ImagePages = (size + PAGESIZE - 1) \div PAGESIZE
    BY DEF ImagePages
  <2> QED
    BY <2>1, <2>2
<1>3. q \in 0 .. 2
  <2> SUFFICES ASSUME q >= 3 PROVE FALSE
    OBVIOUS
  <2>1. q * PAGESIZE >= 3 * PAGESIZE
    BY Sizes
  <2> QED
    BY <1>2, <2>1, Sizes DEF PlaceInv
<1>4. q * PAGESIZE \in Nat /\ (q - 1) * PAGESIZE = q * PAGESIZE - PAGESIZE
      /\ (q + 1) * PAGESIZE = q * PAGESIZE + PAGESIZE
      /\ (q + 1 + 1) * PAGESIZE = q * PAGESIZE + 2 * PAGESIZE
      /\ q * PAGESIZE <= 2 * PAGESIZE
  BY <1>3, Sizes
<1> QED
  BY <1>2, <1>3, <1>4, Sizes DEF StackPage, StackBase, UEnd, VEnd, PlaceInv

-----------------------------------------------------------------------------
(* The inductive invariant.                                                 *)

\* What the variables are.
ShapeInv ==
    /\ PlaceInv
    /\ mem = [p \in 0 .. PEnd - 1 |-> mem[p]] /\ flat = [a \in 0 .. VEnd - 1 |-> flat[a]]
    /\ at \in {"load", "arg", "pointers", "err", "run", "panic", "fault"}
    /\ argv \in Seq(Nat) /\ ustack \in Seq(Nat) /\ sp \in Nat /\ ops \in Nat

\* Before the image is loaded.
FreshInv ==
    at = "load" =>
        /\ size = 0 /\ ustack = <<>> /\ ops = 0
        /\ \A a \in 0 .. VEnd - 1 : mem[Phys(a)] = flat[a]
        /\ \A p \in 0 .. PEnd - 1 :
              p \div PAGESIZE \notin {frame[TrapframePage], TextFrame} => mem[p] = Stale

\* The bytes that the first n arguments take on the stack.
PaddedSum[n \in 0 .. Len(argv)] == IF n = 0 THEN 0 ELSE PaddedSum[n - 1] + Padded(argv[n])

\* kexec() fills the stack downwards.
StackInv ==
    /\ at = "arg" => Len(ustack) < Len(argv)
    /\ at \in {"pointers", "run"} => Len(ustack) = Len(argv)
    /\ at \in {"arg", "pointers"} =>
          /\ StackBase <= sp /\ sp <= UEnd /\ sp % ALIGN = 0
          /\ sp = UEnd - PaddedSum[Len(ustack)]
    /\ at = "run" => StackBase <= sp /\ sp + (Len(ustack) + 1) * WordSize <= UEnd
    /\ at \in {"arg", "pointers", "run"} =>
          \A i \in 1 .. Len(ustack) :
              sp <= ustack[i] /\ ustack[i] < UEnd /\ ustack[i] + argv[i] <= UEnd

\* What is in memory, as the process sees it, when the program starts.
ContentsInv ==
    ops = 0 =>
        /\ at # "load" => \A a \in 0 .. size - 1 : flat[a] = Img(a)
        /\ at \in {"arg", "pointers", "run"} =>
              \A i \in 1 .. Len(ustack) : \A j \in 1 .. argv[i] :
                  flat[ustack[i] + j - 1] = Arg(i, j)
        /\ at = "run" =>
              \A k \in 1 .. (Len(ustack) + 1) * WordSize : flat[sp + k - 1] = PointerBytes[k]

\* When exec succeeds and when it fails.
FitInv ==
    /\ at = "run" => sp % WordSize = 0 /\ Needed <= PAGESIZE
    /\ at = "err" => Needed > PAGESIZE \/ argv[1] = 0

Inv ==
    /\ ShapeInv /\ FreshInv /\ StackInv /\ ContentsInv /\ FitInv
    /\ WritesReachTheUser

-----------------------------------------------------------------------------
(* The arguments on the stack.                                              *)

\* A set of numbers has a least element.
LEMMA LeastElement ==
    ASSUME NEW S, S \subseteq Nat, S # {}
    PROVE  \E x \in S : \A y \in S : x <= y
<1> DEFINE R == OpToRel(<, Nat)
<1>1. IsWellFoundedOn(R, Nat)
  BY NatLessThanWellFounded
<1>2. \A a, b \in Nat : a < b => <<a, b>> \in R
  BY DEF OpToRel
<1> HIDE DEF R
<1>3. PICK x \in S : \A y \in S : ~(<<y, x>> \in R)
  BY <1>1, WFMin
<1>4. \A y \in S : x <= y
  <2> SUFFICES ASSUME NEW y \in S PROVE ~(y < x)
    OBVIOUS
  <2> QED
    BY <1>2, <1>3
<1> QED
  BY <1>4

\* Padding rounds up to a multiple of ALIGN.
LEMMA PaddedFacts ==
    ASSUME NEW len \in Nat
    PROVE  /\ Padded(len) \in Nat /\ Padded(len) >= len
           /\ \E q \in Nat, r \in 0 .. ALIGN - 1 :
                 Padded(len) = q * ALIGN /\ len + ALIGN - 1 = q * ALIGN + r
<1>1. len + ALIGN - 1 \in Nat
  BY Sizes
<1>2. PICK q \in Nat, r \in 0 .. ALIGN - 1 :
         q = (len + ALIGN - 1) \div ALIGN /\ len + ALIGN - 1 = q * ALIGN + r
  BY <1>1, Sizes, DivMod
<1>3. Padded(len) = q * ALIGN /\ q * ALIGN \in Nat
  BY <1>2, Sizes DEF Padded
<1>4. Padded(len) >= len
  BY <1>2, <1>3, Sizes
<1> QED
  BY <1>2, <1>3, <1>4

\* The recursion has a solution: there is no least prefix without one.
LEMMA PaddedSumDef ==
    ASSUME argv \in Seq(Nat)
    PROVE  PaddedSum = [n \in 0 .. Len(argv) |->
                           IF n = 0 THEN 0 ELSE PaddedSum[n - 1] + Padded(argv[n])]
<1> DEFINE Body(f, n) == IF n = 0 THEN 0 ELSE f[n - 1] + Padded(argv[n])
           Solves(f, m) == f = [n \in 0 .. m |-> Body(f, n)]
           Open == {m \in 0 .. Len(argv) : ~ \E f : Solves(f, m)}
<1>1. Len(argv) \in Nat
  OBVIOUS
<1>2. Open = {}
  <2> SUFFICES ASSUME Open # {} PROVE FALSE
    OBVIOUS
  <2>1. Open \subseteq Nat
    BY <1>1
  <2>2. PICK m \in Open : \A k \in Open : m <= k
    BY <2>1, LeastElement
  <2>3. CASE m = 0
    <3>1. Solves([n \in 0 .. 0 |-> 0], 0)
      OBVIOUS
    <3> QED
      BY <2>2, <2>3, <3>1
  <2>4. CASE m # 0
    <3>1. m \in Nat /\ m - 1 \in 0 .. Len(argv) /\ m - 1 \notin Open
      <4>1. m \in 0 .. Len(argv)
        BY <2>2
      <4> HIDE DEF Open
      <4> QED
        BY <1>1, <2>2, <2>4, <4>1
    <3>2. PICK f : Solves(f, m - 1)
      BY <3>1
    <3> DEFINE g == [n \in 0 .. m |-> Body(f, n)]
    <3>3. \A n \in 0 .. m - 1 : f[n] = Body(f, n)
      BY <3>2
    <3>4. \A n \in 0 .. m : g[n] = Body(f, n)
      OBVIOUS
    <3>5. \A n \in 0 .. m - 1 : g[n] = f[n]
      BY <3>1, <3>3, <3>4
    <3>6. \A n \in 0 .. m : Body(g, n) = Body(f, n)
      <4> HIDE DEF g
      <4>1. SUFFICES ASSUME NEW n \in 0 .. m, n # 0 PROVE g[n - 1] = f[n - 1]
        OBVIOUS
      <4>2. n - 1 \in 0 .. m - 1
        BY <3>1, <4>1
      <4> QED
        BY <3>5, <4>2
    <3>7. Solves(g, m)
      BY <3>6
    <3> QED
      BY <2>2, <3>7
  <2> QED
    BY <2>3, <2>4
<1>3. \E f : Solves(f, Len(argv))
  BY <1>1, <1>2
<1> QED
  BY <1>3 DEF PaddedSum

\* What the first n arguments take grows with n.
LEMMA PaddedSumFacts ==
    ASSUME argv \in Seq(Nat)
    PROVE  /\ PaddedSum[0] = 0
           /\ \A n \in 1 .. Len(argv) : PaddedSum[n] = PaddedSum[n - 1] + Padded(argv[n])
           /\ \A n \in 0 .. Len(argv) : PaddedSum[n] \in Nat
           /\ \A n \in 0 .. Len(argv) : PaddedSum[n] <= PaddedSum[Len(argv)]
<1>1. Len(argv) \in Nat
  OBVIOUS
<1>2. /\ PaddedSum[0] = 0
      /\ \A n \in 1 .. Len(argv) : PaddedSum[n] = PaddedSum[n - 1] + Padded(argv[n])
  BY <1>1, PaddedSumDef
<1>3. \A n \in 1 .. Len(argv) : Padded(argv[n]) \in Nat
  <2>1. \A n \in 1 .. Len(argv) : argv[n] \in Nat
    OBVIOUS
  <2> QED
    BY <2>1, PaddedFacts
<1>4. \A n \in 0 .. Len(argv) : PaddedSum[n] \in Nat
  <2> DEFINE Bad == {n \in 0 .. Len(argv) : PaddedSum[n] \notin Nat}
  <2> SUFFICES ASSUME Bad # {} PROVE FALSE
    OBVIOUS
  <2>1. PICK m \in Bad : \A k \in Bad : m <= k
    <3>1. Bad \subseteq Nat
      BY <1>1
    <3> QED
      BY <3>1, LeastElement
  <2>2. m \in 1 .. Len(argv) /\ m - 1 \in 0 .. Len(argv) /\ m - 1 \notin Bad
    BY <1>1, <1>2, <2>1
  <2> QED
    BY <1>2, <1>3, <2>1, <2>2
<1>5. \A n \in 0 .. Len(argv) : PaddedSum[n] <= PaddedSum[Len(argv)]
  <2> DEFINE Bad == {k \in 0 .. Len(argv) : ~ PaddedSum[Len(argv) - k] <= PaddedSum[Len(argv)]}
  <2>1. Bad = {}
    <3> SUFFICES ASSUME Bad # {} PROVE FALSE
      OBVIOUS
    <3>1. PICK m \in Bad : \A k \in Bad : m <= k
      <4>1. Bad \subseteq Nat
        BY <1>1
      <4> QED
        BY <4>1, LeastElement
    <3>2. m # 0
      BY <1>1, <1>4, <3>1
    <3>3. /\ m - 1 \in 0 .. Len(argv) /\ m - 1 \notin Bad
          /\ Len(argv) - (m - 1) \in 1 .. Len(argv)
          /\ (Len(argv) - (m - 1)) - 1 = Len(argv) - m
          /\ Len(argv) - m \in 0 .. Len(argv)
      <4>1. m \in 0 .. Len(argv)
        BY <3>1
      <4> HIDE DEF Bad
      <4> QED
        BY <1>1, <3>1, <3>2, <4>1
    <3> DEFINE l == Len(argv) - (m - 1)
    <3>4. PaddedSum[l] <= PaddedSum[Len(argv)] /\ PaddedSum[l] = PaddedSum[l - 1] + Padded(argv[l])
          /\ Padded(argv[l]) \in Nat
      BY <1>2, <1>3, <3>3
    <3>5. PaddedSum[l - 1] \in Nat /\ PaddedSum[Len(argv)] \in Nat
      BY <1>1, <1>4, <3>3
    <3>6. l - 1 = Len(argv) - m
      BY <3>3
    <3>7. ~ PaddedSum[l - 1] <= PaddedSum[Len(argv)]
      BY <3>1, <3>6
    <3> HIDE DEF l
    <3> QED
      BY <3>4, <3>5, <3>7
  <2> SUFFICES ASSUME NEW n \in 0 .. Len(argv) PROVE PaddedSum[n] <= PaddedSum[Len(argv)]
    OBVIOUS
  <2>2. Len(argv) - n \in 0 .. Len(argv) /\ Len(argv) - (Len(argv) - n) = n
    BY <1>1
  <2> QED
    BY <2>1, <2>2
<1> QED
  BY <1>2, <1>4, <1>5

\* The length of the argument block.
LEMMA NeededIs ==
    Needed = PaddedSum[Len(argv)] + (Len(argv) + 1) * WordSize
BY DEF Needed, PaddedSum

\* The next argument is placed below sp, aligned.
LEMMA PlaceFacts ==
    ASSUME sp \in Nat, sp % ALIGN = 0, NEW len \in Nat
    PROVE  /\ Place(len) = sp - Padded(len) /\ Place(len) \in Int
           /\ Place(len) % ALIGN = 0 /\ Place(len) + len <= sp
<1>1. PICK k \in Nat : sp = k * ALIGN
  <2>1. sp \div ALIGN \in Nat /\ sp = (sp \div ALIGN) * ALIGN + (sp % ALIGN)
    BY Sizes, DivMod
  <2>2. (sp \div ALIGN) * ALIGN \in Nat
    BY <2>1, Sizes
  <2> QED
    BY <2>1, <2>2
<1>2. PICK q \in Nat, r \in 0 .. ALIGN - 1 :
         Padded(len) = q * ALIGN /\ len + ALIGN - 1 = q * ALIGN + r
  BY PaddedFacts
<1>3. q * ALIGN \in Nat /\ k * ALIGN \in Nat /\ (k - q) * ALIGN = k * ALIGN - q * ALIGN
  BY Sizes
<1>4. sp - len = (k - q) * ALIGN + (ALIGN - 1 - r) /\ ALIGN - 1 - r \in 0 .. ALIGN - 1
  BY <1>1, <1>2, <1>3, Sizes
<1>5. (sp - len) \div ALIGN = k - q
  BY <1>4, Sizes, DivModUnique
<1>6. Place(len) = (k - q) * ALIGN + 0
  BY <1>3, <1>5 DEF Place
<1>7. Place(len) % ALIGN = 0
  <2>1. 0 \in 0 .. ALIGN - 1 /\ k - q \in Int
    BY Sizes
  <2> QED
    BY <1>6, <2>1, Sizes, DivModUnique
<1>8. Place(len) = sp - Padded(len) /\ Place(len) \in Int
  BY <1>1, <1>2, <1>3, <1>6
<1>9. Padded(len) \in Nat /\ Padded(len) >= len
  BY PaddedFacts
<1> QED
  BY <1>7, <1>8, <1>9

\* Words lie in a row.
LEMMA WordRow ==
    ASSUME NEW i \in Nat, NEW k \in 0 .. WordSize - 1
    PROVE  /\ (i * WordSize + k) \div WordSize = i /\ (i * WordSize + k) % WordSize = k
           /\ i * WordSize \in Nat
BY Sizes, DivModUnique

\* The array of pointers is aligned if sp is.
LEMMA PointersAligned ==
    ASSUME sp \in Nat, sp % ALIGN = 0, NEW n \in Nat
    PROVE  (sp - n * WordSize) % WordSize = 0
<1>1. PICK k \in Nat, m \in Nat : sp = k * ALIGN /\ ALIGN = m * WordSize
  <2>1. sp \div ALIGN \in Nat /\ sp = (sp \div ALIGN) * ALIGN + (sp % ALIGN)
    BY Sizes, DivMod
  <2>2. (sp \div ALIGN) * ALIGN \in Nat
    BY <2>1, Sizes
  <2>3. /\ ALIGN \div WordSize \in Nat
        /\ ALIGN = (ALIGN \div WordSize) * WordSize + (ALIGN % WordSize)
    BY Sizes, DivMod
  <2>4. (ALIGN \div WordSize) * WordSize \in Nat /\ ALIGN % WordSize = 0
    BY <2>3, Sizes, UserMemoryAssumption
  <2> QED
    BY <2>1, <2>2, <2>3, <2>4
<1>2. PICK w \in Nat : w = k * m
  OBVIOUS
<1>3. sp = w * WordSize
  <2>1. k * (m * WordSize) = (k * m) * WordSize
    BY Sizes
  <2> QED
    BY <1>1, <1>2, <2>1
<1>4. sp - n * WordSize = (w - n) * WordSize + 0
  BY <1>3, Sizes
<1>5. 0 \in 0 .. WordSize - 1 /\ w - n \in Int
  BY Sizes
<1> QED
  BY <1>4, <1>5, Sizes, DivModUnique

\* The top of the stack is aligned.
LEMMA TopAligned ==
    ASSUME PlaceInv
    PROVE  UEnd % ALIGN = 0
<1>1. PICK k \in Nat : UEnd = k * PAGESIZE
  BY LayoutFacts DEF UEnd, StackPage
<1>2. PICK m \in Nat : PAGESIZE = m * ALIGN
  <2>1. PAGESIZE \div ALIGN \in Nat /\ PAGESIZE = (PAGESIZE \div ALIGN) * ALIGN + (PAGESIZE % ALIGN)
    BY Sizes, DivMod
  <2>2. (PAGESIZE \div ALIGN) * ALIGN \in Nat /\ PAGESIZE % ALIGN = 0
    BY <2>1, Sizes, UserMemoryAssumption
  <2> QED
    BY <2>1, <2>2
<1>3. PICK w \in Nat : w = k * m
  OBVIOUS
<1>4. UEnd = w * ALIGN + 0
  <2>1. k * (m * ALIGN) = (k * m) * ALIGN /\ (k * m) * ALIGN \in Nat
    BY Sizes
  <2> QED
    BY <1>1, <1>2, <1>3, <2>1
<1>5. 0 \in 0 .. ALIGN - 1
  BY Sizes
<1> QED
  BY <1>4, <1>5, Sizes, DivModUnique

-----------------------------------------------------------------------------
(* What the steps do to memory.                                             *)

\* With one address of a page the rest of the page is mapped, for the user.
LEMMA UserRun ==
    ASSUME PlaceInv, NEW a \in Nat, IsMapped(a), NEW i \in Nat,
           (a % PAGESIZE) + i < PAGESIZE
    PROVE  /\ IsMapped(a + i) /\ a \in 0 .. VEnd - 1 /\ a + i \in 0 .. VEnd - 1
           /\ a + i < UEnd /\ Phys(a + i) = Phys(a) + i
<1>1. /\ UEnd \in Nat /\ UEnd <= VEnd /\ UEnd = (ImagePages + 2) * PAGESIZE
      /\ ImagePages \in 0 .. 2
  BY LayoutFacts, Sizes DEF UEnd, StackPage
<1>2. a \in 0 .. VEnd - 1 /\ a < UEnd /\ a \div PAGESIZE # ImagePages
  BY <1>1, Sizes DEF IsMapped
<1>3. /\ a + i \in 0 .. VEnd - 1 /\ Phys(a + i) = Phys(a) + i
      /\ (a + i) \div PAGESIZE = a \div PAGESIZE
  BY <1>2, PhysRun
<1>4. PICK q \in Nat, r \in 0 .. PAGESIZE - 1 :
         q = a \div PAGESIZE /\ r = a % PAGESIZE /\ a = q * PAGESIZE + r
  BY Sizes, Split
<1>5. q < ImagePages + 2
  <2> SUFFICES ASSUME q >= ImagePages + 2 PROVE FALSE
    BY <1>1
  <2>1. q * PAGESIZE >= (ImagePages + 2) * PAGESIZE
    BY <1>1, Sizes
  <2> QED
    BY <1>1, <1>2, <1>4, <2>1, Sizes
<1>6. (q + 1) * PAGESIZE <= (ImagePages + 2) * PAGESIZE
  <2>1. PICK d \in Nat : ImagePages + 2 = (q + 1) + d
    BY <1>1, <1>5
  <2>2. ((q + 1) + d) * PAGESIZE = (q + 1) * PAGESIZE + d * PAGESIZE /\ d * PAGESIZE >= 0
    BY Sizes
  <2> QED
    BY <1>1, <2>1, <2>2, Sizes
<1>7. a + i < UEnd
  <2>1. (q + 1) * PAGESIZE = q * PAGESIZE + PAGESIZE
    BY Sizes
  <2> QED
    BY <1>1, <1>4, <1>6, <2>1, Sizes
<1>8. IsMapped(a + i)
  BY <1>1, <1>2, <1>3, <1>7 DEF IsMapped
<1> QED
  BY <1>2, <1>3, <1>7, <1>8

\* The same for all that walkaddr translates.
LEMMA MappedRun ==
    ASSUME PlaceInv, NEW a \in 0 .. VEnd - 1, Mapped(a), NEW i \in Nat,
           (a % PAGESIZE) + i < PAGESIZE
    PROVE  /\ Mapped(a + i) /\ a + i \in 0 .. VEnd - 1 /\ Phys(a + i) = Phys(a) + i
           /\ (a + i) \div PAGESIZE = a \div PAGESIZE
<1>1. /\ a + i \in 0 .. VEnd - 1 /\ Phys(a + i) = Phys(a) + i
      /\ (a + i) \div PAGESIZE = a \div PAGESIZE
  BY PhysRun
<1>2. CASE IsMapped(a)
  <2>1. a \in Nat
    BY Sizes
  <2> QED
    BY <1>1, <1>2, <2>1, UserRun DEF Mapped
<1>3. CASE a \div PAGESIZE \in {TrapframePage, TrampolinePage}
  BY <1>1, <1>3 DEF Mapped
<1> QED
  BY <1>1, <1>2, <1>3 DEF Mapped

\* What the process sees in the mapped part of its memory.
LEMMA MappedFacts ==
    ASSUME PlaceInv
    PROVE  \A a \in 0 .. UEnd - 1 : a \in 0 .. VEnd - 1 /\ a \in Nat
BY LayoutFacts, Sizes

\* The image and the stack are below the pages without PTE_U.
LEMMA UserPages ==
    ASSUME PlaceInv, NEW a \in Nat, a <= UEnd
    PROVE  a \in 0 .. VEnd - 1 /\ a \div PAGESIZE \notin {TrapframePage, TrampolinePage}
<1>1. ImagePages \in 0 .. 2 /\ UEnd = (ImagePages + 2) * PAGESIZE
  BY LayoutFacts DEF UEnd, StackPage
<1>2. PICK q \in Nat, r \in 0 .. PAGESIZE - 1 : q = a \div PAGESIZE /\ a = q * PAGESIZE + r
  BY Sizes, Split
<1>3. UEnd <= 4 * PAGESIZE
  BY <1>1, Sizes
<1>4. q <= 4
  <2> SUFFICES ASSUME q >= 5 PROVE FALSE
    OBVIOUS
  <2>1. q * PAGESIZE >= 5 * PAGESIZE
    BY Sizes
  <2> QED
    BY <1>1, <1>2, <1>3, <2>1, Sizes
<1>5. a \in 0 .. VEnd - 1
  BY <1>1, <1>3, Sizes DEF VEnd
<1> QED
  BY <1>2, <1>4, <1>5 DEF TrapframePage, TrampolinePage

\* A byte that nothing is mapped to is not in the trapframe or in the text.
LEMMA TopFrames ==
    ASSUME PlaceInv, NEW p \in 0 .. PEnd - 1,
           \A a \in 0 .. VEnd - 1 : a \div PAGESIZE \in {TrapframePage, TrampolinePage} => Phys(a) # p
    PROVE  p \div PAGESIZE \notin {frame[TrapframePage], TextFrame}
<1>1. TrapframePage \in VPages /\ TrampolinePage \in VPages /\ TextFrame = frame[TrampolinePage]
  BY DEF PlaceInv, TrapframePage, TrampolinePage, VPages
<1>2. \A v \in {TrapframePage, TrampolinePage} : frame[v] # p \div PAGESIZE
  BY <1>1, PlaceOf
<1> QED
  BY <1>1, <1>2

\* Memory that the table of the process does not map.
LEMMA OthersFrames ==
    ASSUME NEW p \in 0 .. PEnd - 1
    PROVE  p \in (0 .. PEnd - 1) \ {Phys(a) : a \in {b \in 0 .. VEnd - 1 : Mapped(b)}}
           <=> \A a \in 0 .. VEnd - 1 : Mapped(a) => Phys(a) # p
OBVIOUS

\* A copy to one page changes the bytes it is told to, in the memory of the
\* process and in the frames, and nothing else.
LEMMA CopyOutFacts ==
    ASSUME ShapeInv, WritesReachTheUser, at # "load", NEW addr \in 0 .. VEnd - 1, NEW bytes,
           Len(bytes) \in Nat, Mapped(addr), (addr % PAGESIZE) + Len(bytes) <= PAGESIZE,
           addr \div PAGESIZE # TrampolinePage,
           (ops' = ops /\ addr \div PAGESIZE # TrapframePage) \/ ops' # 0,
           CopyOut(addr, bytes), UNCHANGED <<frame, size>>
    PROVE  /\ WritesReachTheUser'
           /\ mem' = [p \in 0 .. PEnd - 1 |-> mem'[p]]
           /\ flat' = [a \in 0 .. VEnd - 1 |-> flat'[a]]
           /\ \A a \in 0 .. VEnd - 1 :
                 flat'[a] = IF a \in addr .. addr + Len(bytes) - 1 THEN bytes[a - addr + 1]
                                                                   ELSE flat[a]
<1> DEFINE n == Len(bytes)
           p0 == Phys(addr)
<1>0. PlaceInv /\ addr \in Nat
  BY Sizes DEF ShapeInv
<1>1. Walkaddr(addr) = p0 /\ p0 \in 0 .. VEnd - 1
  BY <1>0, PhysFacts DEF Walkaddr
<1>2. \A i \in 0 .. n - 1 : /\ Mapped(addr + i) /\ addr + i \in 0 .. VEnd - 1
                            /\ Phys(addr + i) = p0 + i
                            /\ (addr + i) \div PAGESIZE = addr \div PAGESIZE
  <2> SUFFICES ASSUME NEW i \in 0 .. n - 1
               PROVE  /\ Mapped(addr + i) /\ addr + i \in 0 .. VEnd - 1
                      /\ Phys(addr + i) = p0 + i
                      /\ (addr + i) \div PAGESIZE = addr \div PAGESIZE
    OBVIOUS
  <2>1. i \in Nat /\ (addr % PAGESIZE) + i < PAGESIZE
    <3>1. addr % PAGESIZE \in 0 .. PAGESIZE - 1
      BY <1>0, Sizes, Split
    <3> QED
      BY <3>1, Sizes
  <2> QED
    BY <1>0, <2>1, MappedRun
<1>3. \A q \in 0 .. PEnd - 1 :
         mem'[q] = IF q \in p0 .. p0 + n - 1 THEN bytes[q - p0 + 1] ELSE mem[q]
  BY <1>1 DEF CopyOut, Written
<1>4. \A a \in 0 .. VEnd - 1 :
         flat'[a] = IF a \in addr .. addr + n - 1 THEN bytes[a - addr + 1] ELSE flat[a]
  BY <1>1 DEF CopyOut
<1>5. /\ mem' = [p \in 0 .. PEnd - 1 |-> mem'[p]]
      /\ flat' = [a \in 0 .. VEnd - 1 |-> flat'[a]]
  BY DEF CopyOut
<1>6. /\ \A a : Mapped(a)' <=> Mapped(a)
      /\ \A a : Phys(a)' = Phys(a)
  BY DEF UEnd, StackPage, ImagePages, IsMapped, Mapped, Phys
<1>7. \A a \in 0 .. VEnd - 1 : Mapped(a) => mem'[Phys(a)] = flat'[a]
  <2> SUFFICES ASSUME NEW a \in 0 .. VEnd - 1, Mapped(a) PROVE mem'[Phys(a)] = flat'[a]
    OBVIOUS
  <2>1. a \in 0 .. VEnd - 1 /\ Phys(a) \in 0 .. VEnd - 1 /\ Phys(a) \in 0 .. PEnd - 1
    <3>1. Phys(a) \in 0 .. VEnd - 1
      BY <1>0, PhysFacts
    <3> QED
      BY <3>1, Sizes
  <2>2. CASE a \in addr .. addr + n - 1
    <3>1. a - addr \in 0 .. n - 1 /\ addr + (a - addr) = a
      BY <2>1, <2>2
    <3>2. Phys(a) = p0 + (a - addr)
      BY <1>2, <3>1
    <3>3. Phys(a) \in p0 .. p0 + n - 1 /\ Phys(a) - p0 + 1 = a - addr + 1
      BY <1>1, <2>1, <3>1, <3>2
    <3> QED
      BY <1>3, <1>4, <2>1, <2>2, <3>3
  <2>3. CASE a \notin addr .. addr + n - 1
    <3>1. Phys(a) \notin p0 .. p0 + n - 1
      <4> SUFFICES ASSUME Phys(a) \in p0 .. p0 + n - 1 PROVE FALSE
        OBVIOUS
      <4>1. PICK i \in 0 .. n - 1 : Phys(a) = p0 + i
        <5>1. Phys(a) - p0 \in 0 .. n - 1 /\ Phys(a) = p0 + (Phys(a) - p0)
          BY <1>1, <2>1
        <5> QED
          BY <5>1
      <4>2. addr + i \in 0 .. VEnd - 1 /\ Phys(addr + i) = Phys(a)
        BY <1>2, <4>1
      <4>3. a = addr + i
        BY <1>0, <2>1, <4>2, PhysInjective
      <4> QED
        BY <2>3, <4>3
    <3> QED
      BY <1>3, <1>4, <2>1, <2>3, <3>1 DEF WritesReachTheUser
  <2> QED
    BY <2>2, <2>3
<1>8. ASSUME NEW p \in 0 .. PEnd - 1, \A a \in 0 .. VEnd - 1 : Mapped(a) => Phys(a) # p
      PROVE  mem'[p] = Stale
  <2>1. p \notin p0 .. p0 + n - 1
    <3> SUFFICES ASSUME p \in p0 .. p0 + n - 1 PROVE FALSE
      OBVIOUS
    <3>1. p - p0 \in 0 .. n - 1 /\ p = p0 + (p - p0)
      BY <1>1, Sizes
    <3>2. /\ Mapped(addr + (p - p0)) /\ Phys(addr + (p - p0)) = p
          /\ addr + (p - p0) \in 0 .. VEnd - 1
      BY <1>2, <3>1
    <3> QED
      BY <1>8, <3>2
  <2>2. mem[p] = Stale
    BY <1>8, OthersFrames DEF WritesReachTheUser
  <2> QED
    BY <1>3, <2>1, <2>2
<1>9. ASSUME NEW a \in 0 .. VEnd - 1
      PROVE  /\ a \div PAGESIZE = TrampolinePage => mem'[Phys(a)] = Text
             /\ a \div PAGESIZE = TrapframePage /\ ops' = 0 => mem'[Phys(a)] = Tf
  <2>1. ASSUME \/ a \div PAGESIZE = TrampolinePage
               \/ a \div PAGESIZE = TrapframePage /\ ops' = 0
        PROVE  mem'[Phys(a)] = mem[Phys(a)]
    <3>1. a \div PAGESIZE # addr \div PAGESIZE /\ Mapped(a)
      BY <2>1 DEF Mapped, TrapframePage, TrampolinePage
    <3>2. a \notin addr .. addr + n - 1
      <4> SUFFICES ASSUME a \in addr .. addr + n - 1 PROVE FALSE
        OBVIOUS
      <4>1. a - addr \in 0 .. n - 1 /\ addr + (a - addr) = a
        BY <1>0, Sizes
      <4> QED
        BY <1>2, <3>1, <4>1
    <3>3. mem'[Phys(a)] = flat'[a] /\ flat'[a] = flat[a]
      BY <1>4, <1>7, <3>1, <3>2
    <3>4. mem[Phys(a)] = flat[a]
      BY <3>1 DEF WritesReachTheUser
    <3> QED
      BY <3>3, <3>4
  <2> QED
    BY <2>1 DEF WritesReachTheUser
<1>10. WritesReachTheUser'
  <2>1. \A p \in (0 .. PEnd - 1) \ {Phys(a)' : a \in {b \in 0 .. VEnd - 1 : Mapped(b)'}} :
           mem'[p] = Stale
    BY <1>6, <1>8
  <2> QED
    BY <1>6, <1>7, <1>9, <2>1 DEF WritesReachTheUser
<1> QED
  BY <1>4, <1>5, <1>10

-----------------------------------------------------------------------------
(* The steps keep the invariant.                                            *)

LEMMA InitInv == Init => Inv
<1> SUFFICES ASSUME Init PROVE Inv
  OBVIOUS
<1>1. PICK n \in 0 .. MaxArgs : argv \in [1 .. n -> 0 .. MaxLen]
  BY DEF Init
<1>2. argv \in Seq(Nat)
  <2>1. n \in Nat /\ MaxLen \in Nat
    BY UserMemoryAssumption
  <2> QED
    BY <1>1, <2>1
<1>3. PlaceInv
  BY Sizes, UserMemoryAssumption DEF Init, PlaceInv
<1>301. ASSUME NEW a \in 0 .. VEnd - 1
        PROVE  /\ mem[Phys(a)] = flat[a]
               /\ a \div PAGESIZE = TrampolinePage => flat[a] = Text
               /\ a \div PAGESIZE = TrapframePage => flat[a] = Tf
  <2>1. /\ a \div PAGESIZE \in VPages /\ Phys(a) \in 0 .. PEnd - 1
        /\ Phys(a) \div PAGESIZE = frame[a \div PAGESIZE]
    BY <1>3, PhysFacts, Sizes
  <2>2. TrapframePage \in VPages /\ TrampolinePage \in VPages /\ TrapframePage # TrampolinePage
    BY DEF TrapframePage, TrampolinePage, VPages
  <2>3. /\ frame[a \div PAGESIZE] = frame[TrapframePage] <=> a \div PAGESIZE = TrapframePage
        /\ frame[a \div PAGESIZE] = TextFrame <=> a \div PAGESIZE = TrampolinePage
    BY <1>3, <2>1, <2>2 DEF PlaceInv, IsInjective
  <2>4. /\ mem[Phys(a)] = CASE Phys(a) \div PAGESIZE = frame[TrapframePage] -> Tf
                            [] Phys(a) \div PAGESIZE = TextFrame -> Text
                            [] OTHER -> Stale
        /\ flat[a] = CASE a \div PAGESIZE = TrapframePage -> Tf
                       [] a \div PAGESIZE = TrampolinePage -> Text
                       [] OTHER -> Stale
    BY <2>1 DEF Init
  <2>5. CASE a \div PAGESIZE = TrapframePage
    BY <2>1, <2>2, <2>3, <2>4, <2>5
  <2>6. CASE a \div PAGESIZE = TrampolinePage
    BY <2>1, <2>2, <2>3, <2>4, <2>6
  <2>7. CASE a \div PAGESIZE \notin {TrapframePage, TrampolinePage}
    BY <2>1, <2>3, <2>4, <2>7
  <2> QED
    BY <2>5, <2>6, <2>7
<1>302. ASSUME NEW p \in 0 .. PEnd - 1, p \div PAGESIZE \notin {frame[TrapframePage], TextFrame}
        PROVE  mem[p] = Stale
  BY <1>302 DEF Init
<1>401. mem = [p \in 0 .. PEnd - 1 |-> mem[p]] /\ flat = [a \in 0 .. VEnd - 1 |-> flat[a]]
  BY DEF Init
<1>402. size = 0 /\ at = "load" /\ sp = 0 /\ ustack = <<>> /\ ops = 0
  BY DEF Init
<1>4. ShapeInv /\ FreshInv
  <2>1. ustack \in Seq(Nat)
    BY <1>402
  <2>2. ShapeInv
    BY <1>2, <1>3, <1>401, <1>402, <2>1 DEF ShapeInv
  <2>3. FreshInv
    BY <1>301, <1>302, <1>402 DEF FreshInv
  <2> QED
    BY <2>2, <2>3
<1>5. StackInv /\ ContentsInv /\ FitInv
  BY DEF Init, StackInv, ContentsInv, FitInv
<1>6. WritesReachTheUser
  <2>1. ASSUME NEW p \in 0 .. PEnd - 1, \A a \in 0 .. VEnd - 1 : Mapped(a) => Phys(a) # p
        PROVE  mem[p] = Stale
    <3>1. \A a \in 0 .. VEnd - 1 :
             a \div PAGESIZE \in {TrapframePage, TrampolinePage} => Phys(a) # p
      BY <2>1 DEF Mapped
    <3> QED
      BY <1>3, <1>302, <3>1, TopFrames
  <2> QED
    BY <1>301, <2>1, OthersFrames DEF Init, WritesReachTheUser
<1> QED
  BY <1>4, <1>5, <1>6 DEF Inv

\* An address and its page.
LEMMA PageOf ==
    ASSUME PlaceInv, NEW a \in Nat, NEW k \in 0 .. 4
    PROVE  a < k * PAGESIZE <=> a \div PAGESIZE < k
<1>1. PICK q \in Nat, r \in 0 .. PAGESIZE - 1 :
         q = a \div PAGESIZE /\ a = q * PAGESIZE + r
  BY Sizes, Split
<1>2. CASE q < k
  <2>1. PICK d \in Nat : k = (q + 1) + d
    BY <1>2
  <2>2. /\ ((q + 1) + d) * PAGESIZE = q * PAGESIZE + PAGESIZE + d * PAGESIZE
        /\ d * PAGESIZE >= 0
    BY Sizes
  <2> QED
    BY <1>1, <1>2, <2>1, <2>2, Sizes
<1>3. CASE q >= k
  <2>1. PICK d \in Nat : q = k + d
    BY <1>3
  <2>2. (k + d) * PAGESIZE = k * PAGESIZE + d * PAGESIZE /\ d * PAGESIZE >= 0
    BY Sizes
  <2> QED
    BY <1>1, <1>3, <2>1, <2>2, Sizes
<1> QED
  BY <1>1, <1>2, <1>3

\* The image is mapped, page by page.
LEMMA ImageFacts ==
    ASSUME PlaceInv
    PROVE  /\ Chunks(size) = 0 .. ImagePages - 1
           /\ \A a \in Nat : a \div PAGESIZE \in Chunks(size) =>
                 IsMapped(a) /\ a < ImagePages * PAGESIZE /\ a \in 0 .. VEnd - 1
           /\ \A a \in 0 .. size - 1 : a \div PAGESIZE \in Chunks(size) /\ IsMapped(a)
           /\ \A a \in 0 .. UEnd - 1 : IsMapped(a) =>
                 \/ a \div PAGESIZE \in Chunks(size)
                 \/ a \div PAGESIZE = StackPage /\ a >= StackBase
<1>1. Chunks(size) = 0 .. ImagePages - 1
  BY DEF Chunks, ImagePages
<1>2. /\ ImagePages \in 0 .. 2 /\ StackPage = ImagePages + 1 /\ size <= ImagePages * PAGESIZE
      /\ ImagePages * PAGESIZE \in Nat /\ StackBase = (ImagePages + 1) * PAGESIZE
      /\ UEnd = (ImagePages + 2) * PAGESIZE /\ UEnd <= VEnd /\ size \in Nat
      /\ ImagePages * PAGESIZE <= UEnd
  BY LayoutFacts, Sizes DEF UEnd, StackBase, StackPage, PlaceInv
<1>3. \A a \in Nat : a \div PAGESIZE \in Nat
  BY Sizes, Split
<1>4. ASSUME NEW a \in Nat, a \div PAGESIZE \in Chunks(size)
      PROVE  IsMapped(a) /\ a < ImagePages * PAGESIZE /\ a \in 0 .. VEnd - 1
  <2>1. a \div PAGESIZE < ImagePages
    BY <1>1, <1>2, <1>4
  <2>2. a < ImagePages * PAGESIZE
    BY <1>2, <2>1, PageOf
  <2> QED
    BY <1>2, <1>3, <2>1, <2>2, Sizes DEF IsMapped
<1>5. ASSUME NEW a \in 0 .. size - 1
      PROVE  a \div PAGESIZE \in Chunks(size) /\ IsMapped(a)
  <2>1. a \in Nat /\ a < ImagePages * PAGESIZE
    BY <1>2
  <2>2. a \div PAGESIZE < ImagePages
    BY <1>2, <2>1, PageOf
  <2>3. a \div PAGESIZE \in Chunks(size)
    BY <1>1, <1>2, <1>3, <2>1, <2>2
  <2> QED
    BY <1>4, <2>1, <2>3
<1>6. ASSUME NEW a \in 0 .. UEnd - 1, IsMapped(a)
      PROVE  \/ a \div PAGESIZE \in Chunks(size)
             \/ a \div PAGESIZE = StackPage /\ a >= StackBase
  <2>1. a \in Nat /\ a < (ImagePages + 2) * PAGESIZE /\ a \div PAGESIZE \in Nat
    BY <1>2, <1>3
  <2>2. a \div PAGESIZE < ImagePages + 2 /\ a \div PAGESIZE # ImagePages
    <3>1. ImagePages + 2 \in 0 .. 4
      BY <1>2
    <3> QED
      BY <1>6, <2>1, <3>1, PageOf DEF IsMapped
  <2>3. a < (ImagePages + 1) * PAGESIZE <=> a \div PAGESIZE < ImagePages + 1
    <3>1. ImagePages + 1 \in 0 .. 4
      BY <1>2
    <3> QED
      BY <2>1, <3>1, PageOf
  <2>4. (ImagePages + 1) * PAGESIZE \in Nat
    BY <1>2, Sizes
  <2> QED
    BY <1>1, <1>2, <2>1, <2>2, <2>3, <2>4
<1> QED
  BY <1>1, <1>4, <1>5, <1>6

\* The layout of the address space, in this state and in the next.
StackLayout ==
    /\ ImagePages \in 0 .. 2 /\ StackPage = ImagePages + 1
    /\ StackBase \in Nat /\ UEnd \in Nat
    /\ UEnd = StackBase + PAGESIZE /\ UEnd <= VEnd /\ UEnd % ALIGN = 0
ImageLayout ==
    /\ Chunks(size) = 0 .. ImagePages - 1
    /\ \A a \in Nat : a \div PAGESIZE \in Chunks(size) => IsMapped(a)
    /\ \A a \in 0 .. size - 1 : a \div PAGESIZE \in Chunks(size) /\ IsMapped(a)

LEMMA LayoutNext == PlaceInv' => StackLayout' /\ ImageLayout'
<1>1. PlaceInv => StackLayout /\ ImageLayout
  <2> SUFFICES ASSUME PlaceInv PROVE StackLayout /\ ImageLayout
    OBVIOUS
  <2>1. StackBase \in Nat /\ UEnd \in Nat
    BY LayoutFacts, Sizes
  <2> QED
    BY <2>1, LayoutFacts, ImageFacts, TopAligned DEF StackLayout, ImageLayout
<1> QED
  BY <1>1, PTL

\* What load() makes of memory.
Loaded(len) ==
    [p \in 0 .. PEnd - 1 |->
        LET page == {v \in Chunks(len) : frame[v] = p \div PAGESIZE}
        IN  IF page = {} THEN mem[p]
            ELSE LoadedByte(len, (CHOOSE v \in page : TRUE) * PAGESIZE + (p % PAGESIZE))]

\* load() puts the bytes of each chunk in the frame of its page.
LEMMA LoadedFacts ==
    ASSUME PlaceInv, NEW len \in Nat, Chunks(len) \subseteq VPages,
           NEW a \in 0 .. VEnd - 1
    PROVE  Loaded(len)[Phys(a)] = IF a \div PAGESIZE \in Chunks(len) THEN LoadedByte(len, a)
                                                                    ELSE mem[Phys(a)]
<1> DEFINE x == a \div PAGESIZE
           page == {v \in Chunks(len) : frame[v] = Phys(a) \div PAGESIZE}
<1>1. x \in VPages /\ Phys(a) \in 0 .. PEnd - 1
      /\ Phys(a) \div PAGESIZE = frame[x] /\ Phys(a) % PAGESIZE = a % PAGESIZE
  <2>1. Phys(a) \in 0 .. VEnd - 1
    BY PhysFacts
  <2> QED
    BY <2>1, PhysFacts, Sizes
<1>2. page = IF x \in Chunks(len) THEN {x} ELSE {}
  BY <1>1 DEF PlaceInv, IsInjective
<1>3. Loaded(len)[Phys(a)] =
         IF page = {} THEN mem[Phys(a)]
         ELSE LoadedByte(len, (CHOOSE v \in page : TRUE) * PAGESIZE + (a % PAGESIZE))
  BY <1>1 DEF Loaded
<1>4. a = x * PAGESIZE + (a % PAGESIZE)
  <2>1. a \in Nat
    BY Sizes
  <2> QED
    BY <2>1, Sizes, Split
<1>5. CASE x \in Chunks(len)
  <2>1. page = {x}
    BY <1>2, <1>5
  <2>2. (CHOOSE v \in page : TRUE) = x
    BY <2>1
  <2> HIDE DEF page, x
  <2>3. page # {}
    BY <2>1
  <2> QED
    BY <1>3, <1>4, <1>5, <2>2, <2>3 DEF x
<1>6. CASE x \notin Chunks(len)
  <2>1. page = {}
    BY <1>2, <1>6
  <2> HIDE DEF page
  <2> QED
    BY <1>3, <1>6, <2>1
<1> QED
  BY <1>5, <1>6

LEMMA LoadKeeps ==
    ASSUME Inv, Load
    PROVE  Inv'
<1>1. PICK len \in Images :
         /\ size' = len
         /\ flat' = [a \in 0 .. VEnd - 1 |->
                       IF a \div PAGESIZE \in Chunks(len) THEN LoadedByte(len, a) ELSE flat[a]]
         /\ mem' = Loaded(len)
  BY DEF Load, Loaded
<1>2. /\ at = "load" /\ sp' = UEnd' /\ UNCHANGED <<frame, argv, ustack, ops>>
      /\ at' = IF argv = <<>> THEN "pointers" ELSE "arg"
  BY DEF Load
<1>3. /\ PlaceInv /\ argv \in Seq(Nat) /\ ustack = <<>> /\ ops = 0
      /\ \A a \in 0 .. VEnd - 1 : mem[Phys(a)] = flat[a]
      /\ \A p \in 0 .. PEnd - 1 :
            p \div PAGESIZE \notin {frame[TrapframePage], TextFrame} => mem[p] = Stale
  BY <1>2 DEF Inv, ShapeInv, FreshInv
<1>4. len \in 1 .. 2 * PAGESIZE /\ len \in Nat /\ PlaceInv'
  BY <1>1, <1>2, <1>3, Sizes, UserMemoryAssumption DEF PlaceInv
<1>5. PICK m \in 0 .. 2, base \in Nat, end \in Nat :
         /\ m = ImagePages' /\ base = StackBase' /\ end = UEnd'
         /\ end = base + PAGESIZE /\ end <= VEnd /\ end % ALIGN = 0
         /\ Chunks(len) = 0 .. m - 1
         /\ \A a \in Nat : a \div PAGESIZE \in Chunks(len) => IsMapped(a)'
         /\ \A a \in 0 .. len - 1 : a \div PAGESIZE \in Chunks(len) /\ IsMapped(a)'
  <2>1. StackLayout' /\ ImageLayout'
    BY <1>4, LayoutNext
  <2>2. Chunks(size)' = Chunks(len)
    BY <1>1 DEF Chunks
  <2> QED
    BY <1>1, <2>1, <2>2 DEF StackLayout, ImageLayout
<1>501. /\ end = base + PAGESIZE /\ end <= VEnd /\ end % ALIGN = 0
       /\ Chunks(len) = 0 .. m - 1
  BY <1>5
<1>502. \A a \in 0 .. len - 1 : a \div PAGESIZE \in Chunks(len)
  BY <1>5
<1>6. Chunks(len) \subseteq VPages
  BY <1>501 DEF VPages
<1>7. \A a \in 0 .. VEnd - 1 :
         /\ flat'[a] = IF a \div PAGESIZE \in Chunks(len) THEN LoadedByte(len, a)
                                                         ELSE mem[Phys(a)]
         /\ mem'[Phys(a)] = flat'[a]
  <2> SUFFICES ASSUME NEW a \in 0 .. VEnd - 1
               PROVE  /\ flat'[a] = IF a \div PAGESIZE \in Chunks(len)
                                      THEN LoadedByte(len, a) ELSE mem[Phys(a)]
                      /\ mem'[Phys(a)] = flat'[a]
    OBVIOUS
  <2>1. mem'[Phys(a)] = IF a \div PAGESIZE \in Chunks(len) THEN LoadedByte(len, a)
                                                            ELSE mem[Phys(a)]
    BY <1>1, <1>3, <1>4, <1>6, LoadedFacts
  <2> QED
    BY <1>1, <1>3, <2>1
<1>8. \A a : Phys(a)' = Phys(a)
  BY <1>2 DEF Phys
<1>9. WritesReachTheUser'
  <2>1. \A a \in 0 .. VEnd - 1 : mem'[Phys(a)'] = flat'[a]
    BY <1>7, <1>8
  <2>2. ASSUME NEW p \in 0 .. PEnd - 1,
               \A a \in 0 .. VEnd - 1 : Mapped(a)' => Phys(a) # p
        PROVE  mem'[p] = Stale
    <3> DEFINE page == {v \in Chunks(len) : frame[v] = p \div PAGESIZE}
    <3>1. page = {}
      <4> SUFFICES ASSUME NEW v \in Chunks(len), frame[v] = p \div PAGESIZE PROVE FALSE
        OBVIOUS
      <4>1. PICK a \in 0 .. VEnd - 1 : a \div PAGESIZE = v /\ Phys(a) = p
        BY <1>3, <1>6, PlaceOf
      <4>2. Mapped(a)'
        <5>1. a \in Nat
          BY Sizes
        <5> QED
          BY <1>5, <4>1, <5>1 DEF Mapped
      <4> QED
        BY <2>2, <4>1, <4>2
    <3>2. mem'[p] = IF page = {} THEN mem[p]
                    ELSE LoadedByte(len, (CHOOSE v \in page : TRUE) * PAGESIZE + (p % PAGESIZE))
      BY <1>1 DEF Loaded
    <3> HIDE DEF page
    <3>3. \A a \in 0 .. VEnd - 1 :
             a \div PAGESIZE \in {TrapframePage, TrampolinePage} => Phys(a) # p
      BY <2>2 DEF Mapped
    <3>4. mem[p] = Stale
      BY <1>3, <3>3, TopFrames
    <3> QED
      BY <3>1, <3>2, <3>4
  <2>3. \A p \in (0 .. PEnd - 1) \ {Phys(a)' : a \in {b \in 0 .. VEnd - 1 : Mapped(b)'}} :
           mem'[p] = Stale
    BY <1>8, <2>2
  <2>4. ASSUME NEW a \in 0 .. VEnd - 1, a \div PAGESIZE \in {TrapframePage, TrampolinePage}
        PROVE  mem'[Phys(a)'] = mem[Phys(a)]
    <3>1. a \div PAGESIZE \notin Chunks(len)
      BY <1>501, <2>4 DEF TrapframePage, TrampolinePage
    <3> QED
      BY <1>7, <1>8, <3>1
  <2>5. \A a \in 0 .. VEnd - 1 :
           /\ a \div PAGESIZE = TrampolinePage => mem'[Phys(a)'] = Text
           /\ a \div PAGESIZE = TrapframePage /\ ops' = 0 => mem'[Phys(a)'] = Tf
    BY <1>2, <1>3, <2>4 DEF Inv, WritesReachTheUser
  <2> QED
    BY <2>1, <2>3, <2>5 DEF WritesReachTheUser
<1>10. ShapeInv'
  <2>1. UEnd' \in Nat
    BY <1>5
  <2>2. /\ mem' = [p \in 0 .. PEnd - 1 |-> mem'[p]]
        /\ flat' = [a \in 0 .. VEnd - 1 |-> flat'[a]]
    BY <1>1 DEF Loaded
  <2>3. argv' \in Seq(Nat) /\ ustack' \in Seq(Nat) /\ sp' \in Nat /\ ops' \in Nat
        /\ at' \in {"load", "arg", "pointers", "err", "run", "panic", "fault"}
    BY <1>2, <1>3, <2>1
  <2> QED
    BY <1>4, <2>2, <2>3 DEF ShapeInv
<1>11. StackInv'
  <2>1. PaddedSum'[0] = 0 /\ Len(ustack') = 0
    <3>1. PaddedSum' = PaddedSum
      BY <1>2 DEF PaddedSum
    <3> QED
      BY <1>2, <1>3, <3>1, PaddedSumFacts
  <2>2. argv # <<>> => Len(argv) > 0
    BY <1>3
  <2>3. base <= end /\ end <= end /\ end % ALIGN = 0 /\ end = end - 0
    BY <1>501, Sizes
  <2>4. /\ StackBase' <= sp' /\ sp' <= UEnd' /\ sp' % ALIGN = 0
        /\ sp' = UEnd' - PaddedSum'[Len(ustack')]
    BY <1>2, <1>5, <2>1, <2>3
  <2>5. 1 .. Len(ustack') = {} /\ at' # "run"
    BY <1>2, <2>1
  <2>6. at' = "arg" => Len(ustack') < Len(argv')
    BY <1>2, <1>3, <2>1, <2>2
  <2>7. at' \in {"pointers", "run"} => Len(ustack') = Len(argv')
    BY <1>2, <1>3, <2>1
  <2> QED
    BY <2>4, <2>5, <2>6, <2>7 DEF StackInv
<1>12. ContentsInv'
  <2>1. ASSUME NEW a \in 0 .. len - 1 PROVE flat'[a] = Img(a)
    <3>1. a \in Nat /\ a \div PAGESIZE \in Chunks(len) /\ a \in 0 .. VEnd - 1
      <4>1. a \in Nat /\ a < 2 * PAGESIZE
        BY <1>4, Sizes
      <4>2. a \in 0 .. VEnd - 1
        BY <4>1, Sizes DEF VEnd
      <4> QED
        BY <1>502, <4>1, <4>2
    <3>2. a < len
      BY <1>4
    <3> QED
      BY <1>7, <3>1, <3>2 DEF LoadedByte
  <2>2. 1 .. Len(ustack') = {} /\ at' # "run"
    BY <1>2, <1>3
  <2> QED
    BY <1>1, <2>1, <2>2 DEF ContentsInv
<1>13. FreshInv' /\ FitInv'
  BY <1>2 DEF FreshInv, FitInv
<1> QED
  BY <1>9, <1>10, <1>11, <1>12, <1>13 DEF Inv

\* Steps that leave frames, image and arguments alone leave the layout alone.
LEMMA SameLayout ==
    ASSUME UNCHANGED <<frame, size, argv>>
    PROVE  /\ StackBase' = StackBase /\ UEnd' = UEnd
           /\ PaddedSum' = PaddedSum /\ Needed' = Needed
           /\ PlaceInv' <=> PlaceInv
<1>1. argv' = argv /\ size' = size /\ frame' = frame
  OBVIOUS
<1>2. ImagePages' = ImagePages
  BY <1>1 DEF ImagePages
<1>3. StackBase' = StackBase /\ UEnd' = UEnd
  BY <1>2 DEF StackBase, UEnd, StackPage
<1>4. PaddedSum' = PaddedSum /\ Needed' = Needed
  BY <1>1 DEF PaddedSum, Needed
<1> QED
  BY <1>1, <1>3, <1>4 DEF PlaceInv

\* The whole stack page is mapped.
LEMMA StackMapped ==
    ASSUME PlaceInv, NEW a \in Int, StackBase <= a, a < UEnd
    PROVE  IsMapped(a) /\ a \in Nat /\ a % PAGESIZE = a - StackBase
<1>1. /\ ImagePages \in 0 .. 2 /\ StackPage = ImagePages + 1 /\ StackBase \in Nat
      /\ StackBase = (ImagePages + 1) * PAGESIZE /\ UEnd = StackBase + PAGESIZE
  BY LayoutFacts, Sizes DEF StackBase
<1>2. PICK r \in 0 .. PAGESIZE - 1 : r = a - StackBase
  BY <1>1, Sizes
<1>3. a = (ImagePages + 1) * PAGESIZE + r
  BY <1>1, <1>2
<1>4. a \div PAGESIZE = ImagePages + 1 /\ a % PAGESIZE = r
  <2>1. ImagePages + 1 \in Int
    BY <1>1
  <2> QED
    BY <1>3, <2>1, Sizes, DivModUnique
<1> QED
  BY <1>1, <1>2, <1>4, Sizes DEF IsMapped

\* Steps that write nothing.
LEMMA SameMemory ==
    ASSUME WritesReachTheUser, at # "load" \/ at' = "load", ops' = ops \/ ops' # 0,
           UNCHANGED <<frame, size, mem, flat>>
    PROVE  WritesReachTheUser'
<1>1. /\ \A a : Mapped(a)' <=> Mapped(a)
      /\ \A a : Phys(a)' = Phys(a)
  BY DEF UEnd, StackPage, ImagePages, IsMapped, Mapped, Phys
<1>2. \A p \in (0 .. PEnd - 1) \ {Phys(a)' : a \in {b \in 0 .. VEnd - 1 : Mapped(b)'}} :
         mem'[p] = Stale
  BY <1>1 DEF WritesReachTheUser
<1> QED
  BY <1>1, <1>2 DEF WritesReachTheUser

\* exec fails: nothing is written any more.
LEMMA FailKeeps ==
    ASSUME Inv, at # "load", at' = "err", Needed > PAGESIZE \/ argv[1] = 0,
           UNCHANGED <<frame, mem, size, argv, sp, ustack, ops, flat>>
    PROVE  Inv'
<1>1. Needed' = Needed /\ UEnd' = UEnd /\ (PlaceInv' <=> PlaceInv)
  BY SameLayout
<1>2. ShapeInv' /\ FreshInv' /\ StackInv' /\ FitInv'
  BY <1>1 DEF Inv, ShapeInv, FreshInv, StackInv, FitInv
<1>3. ContentsInv'
  BY DEF Inv, ContentsInv
<1>4. WritesReachTheUser'
  BY SameMemory DEF Inv
<1> QED
  BY <1>2, <1>3, <1>4 DEF Inv

LEMMA CopyArgKeeps ==
    ASSUME Inv, CopyArg
    PROVE  Inv'
<1> DEFINE i == Len(ustack) + 1
           len == argv[i]
           p == Place(len)
           bytes == [j \in 1 .. len |-> Arg(i, j)]
<1>1. at = "arg" /\ UNCHANGED <<frame, size, argv, ops>>
  BY DEF CopyArg
<1>2. /\ PlaceInv /\ argv \in Seq(Nat) /\ ustack \in Seq(Nat) /\ sp \in Nat
      /\ Len(ustack) \in Nat /\ Len(argv) \in Nat /\ Len(ustack) < Len(argv)
      /\ StackBase <= sp /\ sp <= UEnd /\ sp % ALIGN = 0
      /\ sp = UEnd - PaddedSum[Len(ustack)]
      /\ \A k \in 1 .. Len(ustack) :
            sp <= ustack[k] /\ ustack[k] < UEnd /\ ustack[k] + argv[k] <= UEnd
  BY <1>1 DEF Inv, ShapeInv, StackInv
<1>3. i \in 1 .. Len(argv) /\ i \in Nat /\ len \in Nat
  BY <1>2
<1>4. p = sp - Padded(len) /\ p \in Int /\ p % ALIGN = 0 /\ p + len <= sp
  BY <1>2, <1>3, PlaceFacts
<1>5. /\ StackBase \in Nat /\ UEnd \in Nat /\ UEnd = StackBase + PAGESIZE /\ UEnd <= VEnd
      /\ size <= StackBase /\ size \in Nat
  <2>1. size \in Nat
    BY <1>2, Sizes DEF PlaceInv
  <2>2. PICK b \in Nat : /\ size <= b /\ StackBase = b + PAGESIZE
                          /\ UEnd = StackBase + PAGESIZE /\ UEnd <= VEnd
    BY <1>2, LayoutFacts
  <2> QED
    BY <2>1, <2>2, Sizes
<1>6. /\ PaddedSum[i] = PaddedSum[i - 1] + Padded(len) /\ i - 1 = Len(ustack)
      /\ PaddedSum[i] \in Nat /\ PaddedSum[i - 1] \in Nat /\ Padded(len) \in Nat
      /\ PaddedSum[i] <= PaddedSum[Len(argv)] /\ PaddedSum[Len(argv)] \in Nat
  <2>1. i - 1 = Len(ustack) /\ i - 1 \in 0 .. Len(argv) /\ i \in 0 .. Len(argv)
    BY <1>2
  <2>2. Len(argv) \in 0 .. Len(argv)
    BY <1>2
  <2> QED
    BY <1>2, <1>3, <2>1, <2>2, PaddedSumFacts, PaddedFacts
<1> HIDE DEF i, len, p
<1>7. p = UEnd - PaddedSum[i] /\ p + len <= sp /\ sp <= UEnd /\ sp \in Nat /\ p \in Int
  BY <1>2, <1>4, <1>5, <1>6
<1>bounds. /\ p \in Int /\ len \in Nat /\ sp \in Nat /\ UEnd \in Nat /\ VEnd \in Nat
           /\ p + len <= sp /\ sp <= UEnd /\ UEnd <= VEnd
  BY <1>3, <1>5, <1>7, Sizes
<1>8. CASE p < StackBase \/ Walkaddr(p) = None
  <2>1. at' = "err" /\ UNCHANGED <<sp, ustack, mem, flat>>
    BY <1>8 DEF CopyArg, i, len, p
  <2>2. Needed > PAGESIZE \/ argv[1] = 0
    <3>1. CASE p < StackBase
      <4>1. PaddedSum[i] > PAGESIZE
        BY <1>5, <1>6, <1>7, <3>1, Sizes
      <4>2. (Len(argv) + 1) * WordSize \in Nat
        BY <1>2, Sizes
      <4> QED
        BY <1>6, <4>1, <4>2, NeededIs, Sizes
    <3>2. CASE p >= StackBase
      <4>1. ~IsMapped(p)
        <5> SUFFICES ASSUME IsMapped(p) PROVE FALSE
          OBVIOUS
        <5>1. p \in 0 .. VEnd - 1
          BY <1>4, <1>5, Sizes DEF IsMapped
        <5>2. Phys(p) \in 0 .. VEnd - 1
          BY <1>2, <5>1, PhysFacts
        <5>3. Phys(p) # None
          BY <5>2, Sizes DEF None
        <5> QED
          BY <1>4, <1>5, <1>8, <3>2, <5>3 DEF Walkaddr, Mapped
      <4>2. p >= UEnd
        BY <1>2, <1>4, <1>5, <3>2, <4>1, StackMapped
      <4>3. sp = UEnd /\ len = 0
        BY <1>2, <1>3, <1>4, <1>5, <4>2
      <4>4. Len(ustack) = 0
        <5> SUFFICES ASSUME 1 \in 1 .. Len(ustack) PROVE FALSE
          BY <1>2
        <5>1. ustack[1] \in Nat
          BY <1>2
        <5> QED
          BY <1>2, <1>5, <4>3, <5>1
      <4> QED
        BY <4>3, <4>4 DEF i, len
    <3> QED
      BY <1>4, <1>5, <3>1, <3>2
  <2> QED
    BY <1>1, <2>1, <2>2, FailKeeps
<1>9. CASE ~(p < StackBase \/ Walkaddr(p) = None)
  <2>1. /\ sp' = p /\ CopyOut(p, bytes) /\ ustack' = Append(ustack, p)
        /\ at' = IF i = Len(argv) THEN "pointers" ELSE "arg"
    BY <1>9 DEF CopyArg, i, len, p
  <2>200. p >= StackBase /\ p \in Nat /\ p <= UEnd
    BY <1>bounds, <1>5, <1>9
  <2>201. Mapped(p) /\ p \in 0 .. VEnd - 1 /\ p \div PAGESIZE \notin {TrapframePage, TrampolinePage}
    BY <1>2, <1>9, <2>200, UserPages DEF Walkaddr
  <2>2. IsMapped(p) /\ p >= StackBase /\ p \in Nat /\ p < UEnd
    BY <1>5, <2>200, <2>201 DEF Mapped, IsMapped
  <2>3. Len(bytes) = len
    BY <1>3
  <2>4. (p % PAGESIZE) + Len(bytes) <= PAGESIZE
    <3>1. p % PAGESIZE = p - StackBase
      BY <1>2, <1>4, <2>2, StackMapped
    <3> QED
      <4>1. StackBase \in Nat /\ PAGESIZE \in Nat /\ UEnd = StackBase + PAGESIZE
        BY <1>5, Sizes
      <4>2. p + len <= UEnd
        BY <1>bounds
      <4>3. p - StackBase + len <= PAGESIZE
        BY <1>bounds, <4>1, <4>2
      <4> QED
        BY <2>3, <3>1, <4>3
  <2>5. /\ WritesReachTheUser'
        /\ mem' = [q \in 0 .. PEnd - 1 |-> mem'[q]] /\ flat' = [a \in 0 .. VEnd - 1 |-> flat'[a]]
        /\ \A a \in 0 .. VEnd - 1 :
              flat'[a] = IF a \in p .. p + len - 1 THEN bytes[a - p + 1] ELSE flat[a]
    <3> HIDE DEF bytes
    <3>1. at # "load" /\ Len(bytes) \in Nat /\ ShapeInv /\ WritesReachTheUser
      BY <1>1, <1>3, <2>3 DEF Inv
    <3> QED
      BY <1>1, <2>1, <2>201, <2>3, <2>4, <3>1, CopyOutFacts
  <2>6. /\ Len(ustack') = i /\ ustack'[i] = p /\ ustack' \in Seq(Nat)
        /\ \A k \in 1 .. Len(ustack) : ustack'[k] = ustack[k] /\ k \in 1 .. Len(argv)
    BY <1>2, <2>1, <2>2 DEF i
  <2>7. \A k \in 1 .. i : k \in 1 .. Len(ustack) \/ k = i
    <3>1. Len(ustack) \in Nat
      BY <1>2
    <3> QED
      BY <3>1 DEF i
  <2>8. StackBase' = StackBase /\ UEnd' = UEnd /\ PaddedSum' = PaddedSum
        /\ (PlaceInv' <=> PlaceInv)
    BY <1>1, SameLayout
  <2>9. ShapeInv' /\ FreshInv' /\ FitInv'
    BY <1>1, <1>2, <2>1, <2>2, <2>5, <2>6, <2>8 DEF Inv, ShapeInv, FreshInv, FitInv
  <2>10. StackInv'
    <3>1. /\ at' = "arg" => Len(ustack') < Len(argv')
          /\ at' \in {"pointers", "run"} => Len(ustack') = Len(argv')
          /\ at' # "run"
      BY <1>1, <1>2, <1>3, <2>1, <2>6
    <3>2. \A k \in 1 .. i : p <= ustack'[k] /\ ustack'[k] < UEnd /\ ustack'[k] + argv[k] <= UEnd
      <4> SUFFICES ASSUME NEW k \in 1 .. i
                   PROVE  p <= ustack'[k] /\ ustack'[k] < UEnd /\ ustack'[k] + argv[k] <= UEnd
        OBVIOUS
      <4>1. CASE k = i
        BY <1>2, <1>3, <1>4, <1>5, <2>2, <2>6, <4>1 DEF len
      <4>2. CASE k \in 1 .. Len(ustack)
        <5>1. sp <= ustack[k] /\ ustack[k] < UEnd /\ ustack[k] + argv[k] <= UEnd
          BY <1>2, <4>2
        <5>2. ustack[k] \in Nat
          BY <1>2, <4>2
        <5>3. ustack'[k] = ustack[k]
          BY <2>6, <4>2
        <5>4. p <= sp
          BY <1>bounds
        <5>5. p <= ustack[k]
          BY <1>bounds, <5>1, <5>2, <5>4
        <5> QED
          BY <5>1, <5>3, <5>5
      <4> QED
        BY <2>7, <4>1, <4>2
    <3>3. StackBase <= p /\ p <= UEnd /\ p % ALIGN = 0 /\ p = UEnd - PaddedSum[i]
      BY <1>4, <1>5, <1>7, <2>2
    <3> QED
      BY <1>1, <2>1, <2>6, <2>8, <3>1, <3>2, <3>3 DEF StackInv
  <2>11. ContentsInv'
    <3> SUFFICES ASSUME ops = 0
                 PROVE  /\ \A a \in 0 .. size - 1 : flat'[a] = Img(a)
                        /\ \A k \in 1 .. i : \A j \in 1 .. argv[k] :
                              flat'[ustack'[k] + j - 1] = Arg(k, j)
      BY <1>1, <2>1, <2>6 DEF ContentsInv
    <3>1. ASSUME NEW a \in 0 .. size - 1 PROVE flat'[a] = Img(a)
      <4>1. a \in 0 .. VEnd - 1 /\ a \notin p .. p + len - 1
        BY <1>3, <1>5, <2>2, Sizes
      <4>2. flat[a] = Img(a)
        BY <1>1, <3>1 DEF Inv, ContentsInv
      <4> QED
        BY <2>5, <4>1, <4>2
    <3>2. ASSUME NEW k \in 1 .. i, NEW j \in 1 .. argv[k]
          PROVE  flat'[ustack'[k] + j - 1] = Arg(k, j)
      <4>1. CASE k = i
        <5>1. j \in 1 .. len
          BY <4>1 DEF len
        <5>2. /\ p + j - 1 \in p .. p + len - 1 /\ p + j - 1 \in 0 .. VEnd - 1
              /\ (p + j - 1) - p + 1 = j
          BY <1>3, <1>5, <1>7, <2>2, <5>1, Sizes
        <5>3. bytes[j] = Arg(i, j)
          BY <5>1
        <5> QED
          BY <2>5, <2>6, <4>1, <5>2, <5>3
      <4>2. CASE k \in 1 .. Len(ustack)
        <5>1. /\ sp <= ustack[k] /\ ustack[k] + argv[k] <= UEnd /\ ustack'[k] = ustack[k]
              /\ ustack[k] \in Nat /\ argv[k] \in Nat
          <6>1. k \in 1 .. Len(argv)
            BY <2>6, <4>2
          <6>2. argv[k] \in Nat
            BY <1>2, <6>1
          <6>3. ustack[k] \in Nat
            BY <1>2, <4>2
          <6>4. ustack'[k] = ustack[k]
            BY <2>6, <4>2
          <6>5. sp <= ustack[k] /\ ustack[k] + argv[k] <= UEnd
            BY <1>2, <4>2
          <6> QED
            BY <6>2, <6>3, <6>4, <6>5
        <5>2. /\ ustack[k] + j - 1 \in 0 .. VEnd - 1
              /\ ustack[k] + j - 1 \notin p .. p + len - 1
          <6>1. PICK u \in Nat, n \in Nat : u = ustack[k] /\ n = argv[k] /\ sp <= u /\ u + n <= UEnd
            BY <5>1
          <6>2. j \in 1 .. n
            BY <6>1
          <6>3. p + len <= u /\ u + n <= VEnd
            BY <1>bounds, <6>1
          <6>4. u + j - 1 \in 0 .. VEnd - 1 /\ u + j - 1 \notin p .. p + len - 1
            BY <1>3, <2>2, <6>2, <6>3, Sizes
          <6> QED
            BY <6>1, <6>4
        <5>3. flat[ustack[k] + j - 1] = Arg(k, j)
          BY <1>1, <4>2 DEF Inv, ContentsInv
        <5> QED
          BY <2>5, <5>1, <5>2, <5>3
      <4> QED
        BY <2>7, <4>1, <4>2
    <3> QED
      BY <3>1, <3>2
  <2> QED
    BY <2>5, <2>9, <2>10, <2>11 DEF Inv
<1> QED
  BY <1>8, <1>9

LEMMA CopyPointersKeeps ==
    ASSUME Inv, CopyPointers
    PROVE  Inv'
<1> DEFINE n == Len(ustack)
           p == PointersStart
           bytes == PointerBytes
<1>1. at = "pointers" /\ UNCHANGED <<frame, size, argv, ustack, ops>>
  BY DEF CopyPointers
<1>2. /\ PlaceInv /\ argv \in Seq(Nat) /\ ustack \in Seq(Nat) /\ sp \in Nat
      /\ n \in Nat /\ Len(argv) = n /\ StackBase <= sp /\ sp <= UEnd /\ sp % ALIGN = 0
      /\ sp = UEnd - PaddedSum[n]
      /\ \A k \in 1 .. n :
            sp <= ustack[k] /\ ustack[k] < UEnd /\ ustack[k] + argv[k] <= UEnd
  BY <1>1 DEF Inv, ShapeInv, StackInv
<1>3. PICK w \in Nat : w = (n + 1) * WordSize /\ w > 0
  <2>1. (n + 1) * WordSize >= 1 /\ (n + 1) * WordSize \in Nat
    BY <1>2, Sizes
  <2> QED
    BY <2>1
<1>4. p = sp - w
  BY <1>3 DEF PointersStart
<1>5. /\ StackBase \in Nat /\ UEnd \in Nat /\ UEnd = StackBase + PAGESIZE /\ UEnd <= VEnd
      /\ size <= StackBase /\ size \in Nat
  <2>1. size \in Nat
    BY <1>2, Sizes DEF PlaceInv
  <2>2. PICK b \in Nat : /\ size <= b /\ StackBase = b + PAGESIZE
                          /\ UEnd = StackBase + PAGESIZE /\ UEnd <= VEnd
    BY <1>2, LayoutFacts
  <2> QED
    BY <2>1, <2>2, Sizes
<1>6. PaddedSum[n] \in Nat /\ Needed = PaddedSum[n] + w
  <2>1. n \in 0 .. Len(argv)
    BY <1>2
  <2> QED
    BY <1>2, <1>3, <2>1, PaddedSumFacts, NeededIs
<1> HIDE DEF p, bytes
<1>7. p \in Int /\ p < sp /\ sp = p + w /\ sp <= UEnd /\ Needed = UEnd - p
  <2>1. PICK c \in Nat, e \in Nat, s \in Nat :
           /\ c = PaddedSum[n] /\ e = UEnd /\ s = sp
           /\ s = e - c /\ s <= e /\ Needed = c + w /\ p = s - w
    BY <1>2, <1>4, <1>5, <1>6
  <2>2. s = e - c /\ s <= e /\ Needed = c + w /\ p = s - w /\ w > 0
    BY <1>3, <2>1
  <2>3. p \in Int /\ p < s /\ s = p + w /\ s <= e /\ Needed = e - p
    BY <2>2
  <2> QED
    BY <2>1, <2>3
<1>bounds. /\ p \in Int /\ w \in Nat /\ sp \in Nat /\ UEnd \in Nat /\ VEnd \in Nat
           /\ p + w = sp /\ sp <= UEnd /\ UEnd <= VEnd
  <2>1. sp \in Nat
    BY <1>2
  <2> QED
    BY <1>5, <1>7, <2>1, Sizes
<1>8. CASE p < StackBase
  <2>1. at' = "err" /\ UNCHANGED <<sp, mem, flat>>
    BY <1>8 DEF CopyPointers, p
  <2>2. Needed > PAGESIZE
    BY <1>5, <1>7, <1>8, Sizes
  <2> QED
    BY <1>1, <2>1, <2>2, FailKeeps
<1>9. CASE p >= StackBase
  <2>1. sp' = p /\ CopyOut(p, bytes) /\ at' = "run"
    BY <1>5, <1>7, <1>9 DEF CopyPointers, p, bytes
  <2>2. IsMapped(p) /\ p \in Nat /\ p < UEnd /\ p % PAGESIZE = p - StackBase
    <3>1. p < UEnd
      BY <1>2, <1>5, <1>7
    <3> QED
      BY <1>2, <1>7, <1>9, <3>1, StackMapped
  <2>201. Mapped(p) /\ p \in 0 .. VEnd - 1 /\ p \div PAGESIZE \notin {TrapframePage, TrampolinePage}
    <3>1. p <= UEnd
      BY <1>5, <2>2
    <3> QED
      BY <1>2, <2>2, <3>1, UserPages DEF Mapped
  <2>3. Len(bytes) = w
    BY <1>3 DEF bytes, PointerBytes
  <2>4. (p % PAGESIZE) + Len(bytes) <= PAGESIZE
    BY <1>2, <1>3, <1>5, <1>7, <2>2, <2>3, Sizes
  <2>5. /\ WritesReachTheUser'
        /\ mem' = [q \in 0 .. PEnd - 1 |-> mem'[q]] /\ flat' = [a \in 0 .. VEnd - 1 |-> flat'[a]]
        /\ \A a \in 0 .. VEnd - 1 :
              flat'[a] = IF a \in p .. p + w - 1 THEN bytes[a - p + 1] ELSE flat[a]
    <3>1. at # "load" /\ Len(bytes) \in Nat /\ ShapeInv /\ WritesReachTheUser
      BY <1>1, <1>3, <2>3 DEF Inv
    <3> QED
      BY <1>1, <2>1, <2>201, <2>3, <2>4, <3>1, CopyOutFacts
  <2>6. /\ StackBase' = StackBase /\ UEnd' = UEnd /\ Needed' = Needed
        /\ (PlaceInv' <=> PlaceInv) /\ PointerBytes' = bytes
    BY <1>1, SameLayout DEF PointerBytes, bytes
  <2>7. ShapeInv' /\ FreshInv'
    BY <1>1, <1>2, <2>1, <2>2, <2>5, <2>6 DEF Inv, ShapeInv, FreshInv
  <2>8. StackInv'
    <3>1. \A k \in 1 .. n : p <= ustack[k] /\ ustack[k] < UEnd /\ ustack[k] + argv[k] <= UEnd
      <4> SUFFICES ASSUME NEW k \in 1 .. n
                   PROVE  p <= ustack[k] /\ ustack[k] < UEnd /\ ustack[k] + argv[k] <= UEnd
        OBVIOUS
      <4>1. ustack[k] \in Nat /\ sp <= ustack[k] /\ ustack[k] < UEnd /\ ustack[k] + argv[k] <= UEnd
        BY <1>2
      <4> QED
        BY <1>2, <1>7, <4>1
    <3>2. p + (n + 1) * WordSize <= UEnd
      BY <1>3, <1>7
    <3> QED
      BY <1>1, <1>2, <1>9, <2>1, <2>6, <3>1, <3>2 DEF StackInv
  <2>9. FitInv'
    <3>1. p % WordSize = 0
      <4>1. n + 1 \in Nat /\ p = sp - (n + 1) * WordSize
        BY <1>2, <1>3, <1>4
      <4> QED
        BY <1>2, <4>1, PointersAligned
    <3>2. Needed <= PAGESIZE
      BY <1>5, <1>7, <1>9, Sizes
    <3> QED
      BY <2>1, <2>6, <3>1, <3>2 DEF FitInv
  <2>10. ContentsInv'
    <3> SUFFICES ASSUME ops = 0
                 PROVE  /\ \A a \in 0 .. size - 1 : flat'[a] = Img(a)
                        /\ \A k \in 1 .. n : \A j \in 1 .. argv[k] :
                              flat'[ustack[k] + j - 1] = Arg(k, j)
                        /\ \A k \in 1 .. w : flat'[p + k - 1] = bytes[k]
      BY <1>1, <1>3, <2>1, <2>6 DEF ContentsInv
    <3>1. ASSUME NEW a \in 0 .. size - 1 PROVE flat'[a] = Img(a)
      <4>1. a \in 0 .. VEnd - 1 /\ a \notin p .. p + w - 1
        BY <1>5, <1>9, <2>2, Sizes
      <4>2. flat[a] = Img(a)
        BY <1>1, <3>1 DEF Inv, ContentsInv
      <4> QED
        BY <2>5, <4>1, <4>2
    <3>2. ASSUME NEW k \in 1 .. n, NEW j \in 1 .. argv[k]
          PROVE  flat'[ustack[k] + j - 1] = Arg(k, j)
      <4>1. PICK u \in Nat, m \in Nat :
               u = ustack[k] /\ m = argv[k] /\ sp <= u /\ u + m <= UEnd
        <5>1. ustack[k] \in Nat /\ argv[k] \in Nat
          BY <1>2
        <5> QED
          BY <1>2, <5>1
      <4>2. p + w <= u /\ u + m <= VEnd
        BY <1>bounds, <4>1
      <4>3. j \in 1 .. m
        BY <4>1
      <4>4. u + j - 1 \in 0 .. VEnd - 1 /\ u + j - 1 \notin p .. p + w - 1
        BY <1>3, <2>2, <4>2, <4>3, Sizes
      <4>5. flat[u + j - 1] = Arg(k, j)
        BY <1>1, <4>1 DEF Inv, ContentsInv
      <4> QED
        BY <2>5, <4>1, <4>4, <4>5
    <3>3. ASSUME NEW k \in 1 .. w PROVE flat'[p + k - 1] = bytes[k]
      <4>1. /\ p + k - 1 \in p .. p + w - 1 /\ p + k - 1 \in 0 .. VEnd - 1
            /\ (p + k - 1) - p + 1 = k
        BY <1>5, <1>7, <2>2, Sizes
      <4> QED
        BY <2>5, <4>1
    <3> QED
      BY <3>1, <3>2, <3>3
  <2> QED
    BY <2>5, <2>7, <2>8, <2>9, <2>10 DEF Inv
<1> QED
  BY <1>5, <1>7, <1>8, <1>9

\* Steps of the running program keep what exec left behind.
LEMMA RunKeeps ==
    ASSUME Inv, at = "run", at' \in {"run", "panic", "fault"}, ops' = ops + 1,
           UNCHANGED <<frame, size, argv, sp, ustack>>,
           mem' = [p \in 0 .. PEnd - 1 |-> mem'[p]], flat' = [a \in 0 .. VEnd - 1 |-> flat'[a]],
           WritesReachTheUser'
    PROVE  Inv'
<1>1. /\ StackBase' = StackBase /\ UEnd' = UEnd /\ Needed' = Needed
      /\ (PlaceInv' <=> PlaceInv)
  BY SameLayout
<1>2. ops \in Nat /\ ops' # 0 /\ ops' \in Nat
  BY DEF Inv, ShapeInv
<1>3. ShapeInv' /\ FreshInv' /\ FitInv' /\ ContentsInv'
  BY <1>1, <1>2 DEF Inv, ShapeInv, FreshInv, FitInv, ContentsInv
<1>4. StackInv'
  BY <1>1 DEF Inv, StackInv
<1> QED
  BY <1>3, <1>4 DEF Inv

LEMMA UserStoreKeeps ==
    ASSUME Inv, UserStore
    PROVE  Inv'
<1>1. PICK a \in 0 .. UEnd - 1 : /\ IsMapped(a) /\ mem' = [mem EXCEPT ![Phys(a)] = Nul]
                                 /\ flat' = [flat EXCEPT ![a] = Nul]
  BY DEF UserStore
<1>2. at = "run" /\ UNCHANGED <<frame, size, at, argv, sp, ustack>> /\ ops' = ops + 1
  BY DEF UserStore
<1>3. /\ PlaceInv /\ mem = [p \in 0 .. PEnd - 1 |-> mem[p]]
      /\ flat = [b \in 0 .. VEnd - 1 |-> flat[b]]
  BY DEF Inv, ShapeInv
<1>4. /\ a \in 0 .. VEnd - 1 /\ a \div PAGESIZE \notin {TrapframePage, TrampolinePage} /\ Mapped(a)
      /\ ops \in Nat /\ ops' # 0
  <2>1. a \in Nat /\ a <= UEnd
    BY <1>3, LayoutFacts, Sizes
  <2>2. ops \in Nat
    BY DEF Inv, ShapeInv
  <2> QED
    BY <1>1, <1>2, <1>3, <2>1, <2>2, UserPages DEF Mapped
<1>401. \A b \in 0 .. VEnd - 1 : Phys(b) \in 0 .. PEnd - 1 /\ (Phys(b) = Phys(a) => b = a)
  <2> SUFFICES ASSUME NEW b \in 0 .. VEnd - 1
               PROVE  Phys(b) \in 0 .. PEnd - 1 /\ (Phys(b) = Phys(a) => b = a)
    OBVIOUS
  <2>1. Phys(b) \in 0 .. VEnd - 1
    BY <1>3, PhysFacts
  <2>2. Phys(b) \in 0 .. PEnd - 1
    BY <2>1, Sizes
  <2> QED
    BY <1>3, <1>4, <2>2, PhysInjective
<1>5. /\ \A b : Mapped(b)' <=> Mapped(b)
      /\ \A b : Phys(b)' = Phys(b)
  BY <1>2 DEF UEnd, StackPage, ImagePages, IsMapped, Mapped, Phys
<1>6. \A b \in 0 .. VEnd - 1 : Mapped(b) => mem'[Phys(b)] = flat'[b]
  <2> SUFFICES ASSUME NEW b \in 0 .. VEnd - 1, Mapped(b) PROVE mem'[Phys(b)] = flat'[b]
    OBVIOUS
  <2>1. Phys(b) \in 0 .. PEnd - 1 /\ (Phys(b) = Phys(a) => b = a)
    BY <1>401
  <2>2. mem[Phys(b)] = flat[b]
    BY <1>2 DEF Inv, WritesReachTheUser
  <2> QED
    BY <1>1, <1>3, <2>1, <2>2
<1>7. ASSUME NEW p \in 0 .. PEnd - 1, \A b \in 0 .. VEnd - 1 : Mapped(b) => Phys(b) # p
      PROVE  mem'[p] = Stale
  <2>1. p # Phys(a)
    BY <1>4, <1>7
  <2>2. mem[p] = Stale
    BY <1>7, OthersFrames DEF Inv, WritesReachTheUser
  <2> QED
    BY <1>1, <1>3, <2>1, <2>2
<1>8. WritesReachTheUser'
  <2>1. \A p \in (0 .. PEnd - 1) \ {Phys(b)' : b \in {c \in 0 .. VEnd - 1 : Mapped(c)'}} :
           mem'[p] = Stale
    BY <1>5, <1>7
  <2>2. ASSUME NEW b \in 0 .. VEnd - 1, b \div PAGESIZE = TrampolinePage
        PROVE  mem'[Phys(b)] = Text
    <3>1. Phys(b) # Phys(a)
      BY <1>4, <1>401, <2>2
    <3>2. mem[Phys(b)] = Text
      BY <2>2 DEF Inv, WritesReachTheUser
    <3> QED
      BY <1>1, <1>3, <1>401, <3>1, <3>2
  <2> QED
    BY <1>4, <1>5, <1>6, <2>1, <2>2 DEF WritesReachTheUser
<1>9. /\ mem' = [p \in 0 .. PEnd - 1 |-> mem'[p]]
      /\ flat' = [b \in 0 .. VEnd - 1 |-> flat'[b]]
  BY <1>1, <1>3
<1> QED
  BY <1>2, <1>8, <1>9, RunKeeps

\* A store to one page reaches the text when its first byte does.
LEMMA HitsTextFacts ==
    ASSUME PlaceInv, NEW addr \in 0 .. VEnd - 1, NEW n \in Nat \ {0}, Mapped(addr),
           (addr % PAGESIZE) + n <= PAGESIZE
    PROVE  HitsText(Phys(addr), n) <=> addr \div PAGESIZE = TrampolinePage
<1>1. /\ addr \div PAGESIZE \in VPages /\ Phys(addr) \in 0 .. VEnd - 1
      /\ Phys(addr) \div PAGESIZE = frame[addr \div PAGESIZE]
  BY PhysFacts
<1>2. TrampolinePage \in VPages /\ frame[TrampolinePage] = TextFrame
  BY DEF PlaceInv, TrampolinePage, VPages
<1>3. CASE addr \div PAGESIZE = TrampolinePage
  <2>1. Phys(addr) \in Written(Phys(addr), n)
    BY <1>1, Sizes DEF Written
  <2> QED
    BY <1>1, <1>2, <1>3, <2>1 DEF HitsText
<1>4. CASE addr \div PAGESIZE # TrampolinePage
  <2> SUFFICES ASSUME NEW q \in Written(Phys(addr), n), q \div PAGESIZE = TextFrame PROVE FALSE
    BY <1>4 DEF HitsText
  <2>1. addr \in Nat /\ addr % PAGESIZE \in 0 .. PAGESIZE - 1
    <3>1. addr \in Nat
      BY Sizes
    <3> QED
      BY <3>1, Sizes, Split
  <2>2. PICK i \in Nat : q = Phys(addr) + i /\ (addr % PAGESIZE) + i < PAGESIZE
    <3>1. q - Phys(addr) \in 0 .. n - 1 /\ q = Phys(addr) + (q - Phys(addr))
      BY <1>1, Sizes DEF Written
    <3> QED
      BY <2>1, <3>1, Sizes
  <2>3. /\ addr + i \in 0 .. VEnd - 1 /\ Phys(addr + i) = q
        /\ (addr + i) \div PAGESIZE = addr \div PAGESIZE
    BY <2>2, PhysRun
  <2>4. q \div PAGESIZE = frame[addr \div PAGESIZE]
    BY <2>3, PhysFacts
  <2> QED
    BY <1>1, <1>2, <1>4, <2>4 DEF PlaceInv, IsInjective
<1> QED
  BY <1>3, <1>4

LEMMA WaitStatusKeeps ==
    ASSUME ~CrossPages, Inv, WaitStatus
    PROVE  Inv'
<1> DEFINE bytes == [i \in 1 .. WordSize |-> Data(i)]
<1>1. PICK addr \in 0 .. VEnd - 1 :
         /\ Passed(addr, WordSize)
         /\ \/ at' \in {"panic", "fault"} /\ UNCHANGED <<mem, flat>>
            \/ /\ Walkaddr(addr) # None /\ ~HitsText(Walkaddr(addr), WordSize)
               /\ CopyOut(addr, bytes) /\ at' = at
  BY DEF WaitStatus
<1>2. at = "run" /\ UNCHANGED <<frame, size, argv, sp, ustack>> /\ ops' = ops + 1
  BY DEF WaitStatus
<1>3. Len(bytes) = WordSize /\ Len(bytes) \in Nat /\ WordSize \in Nat \ {0}
  BY Sizes
<1> HIDE DEF bytes
<1>4. PlaceInv /\ ShapeInv /\ WritesReachTheUser /\ at # "load" /\ ops' # 0
  BY <1>2 DEF Inv, ShapeInv
<1>5. CASE at' \in {"panic", "fault"} /\ UNCHANGED <<mem, flat>>
  <2>1. WritesReachTheUser'
    BY <1>2, <1>4, <1>5, SameMemory
  <2>2. mem' = [p \in 0 .. PEnd - 1 |-> mem'[p]] /\ flat' = [a \in 0 .. VEnd - 1 |-> flat'[a]]
    BY <1>4, <1>5 DEF ShapeInv
  <2> QED
    BY <1>2, <1>5, <2>1, <2>2, RunKeeps
<1>6. CASE /\ Walkaddr(addr) # None /\ ~HitsText(Walkaddr(addr), WordSize)
           /\ CopyOut(addr, bytes) /\ at' = at
  <2>1. Mapped(addr) /\ Walkaddr(addr) = Phys(addr)
    BY <1>6 DEF Walkaddr
  <2>2. (addr % PAGESIZE) + Len(bytes) <= PAGESIZE
    BY <1>1, <1>3 DEF Passed
  <2>3. addr \div PAGESIZE # TrampolinePage
    BY <1>3, <1>4, <1>6, <2>1, <2>2, HitsTextFacts
  <2>4. /\ WritesReachTheUser'
        /\ mem' = [p \in 0 .. PEnd - 1 |-> mem'[p]] /\ flat' = [a \in 0 .. VEnd - 1 |-> flat'[a]]
    BY <1>2, <1>3, <1>4, <1>6, <2>1, <2>2, <2>3, CopyOutFacts
  <2> QED
    BY <1>2, <1>6, <2>4, RunKeeps
<1> QED
  BY <1>1, <1>5, <1>6

\* The inductive step.
LEMMA StepInv ==
    ASSUME ~CrossPages, Inv, [Next]_vars
    PROVE  Inv'
<1>1. CASE Load
  BY <1>1, LoadKeeps
<1>2. CASE CopyArg
  BY <1>2, CopyArgKeeps
<1>3. CASE CopyPointers
  BY <1>3, CopyPointersKeeps
<1>4. CASE UserStore
  BY <1>4, UserStoreKeeps
<1>5. CASE WaitStatus
  BY <1>5, WaitStatusKeeps
<1>6. CASE UNCHANGED vars
  <2>1. UNCHANGED <<frame, mem, size, at, argv, sp, ustack, ops, flat>>
    BY <1>6 DEF vars
  <2>2. /\ Needed' = Needed /\ UEnd' = UEnd /\ (PlaceInv' <=> PlaceInv)
        /\ StackBase' = StackBase /\ PaddedSum' = PaddedSum /\ PointerBytes' = PointerBytes
    BY <2>1, SameLayout DEF PointerBytes
  <2>3. ShapeInv' /\ FreshInv' /\ FitInv'
    <3>1. \A a : Phys(a)' = Phys(a)
      BY <2>1 DEF Phys
    <3>2. ShapeInv' /\ FitInv'
      BY <2>1, <2>2 DEF Inv, ShapeInv, FitInv
    <3>3. FreshInv'
      BY <2>1, <3>1 DEF Inv, FreshInv
    <3> QED
      BY <3>2, <3>3
  <2>4. StackInv'
    BY <2>1, <2>2 DEF Inv, StackInv
  <2>5. ContentsInv'
    BY <2>1, <2>2 DEF Inv, ContentsInv
  <2>6. WritesReachTheUser'
    BY <2>1, SameMemory DEF Inv
  <2> QED
    BY <2>3, <2>4, <2>5, <2>6 DEF Inv
<1> QED
  BY <1>1, <1>2, <1>3, <1>4, <1>5, <1>6 DEF Next

-----------------------------------------------------------------------------
(* The theorems.  Programs pass ranges that lie in one page (~CrossPages);  *)
(* run user_memory_cross shows that the assumption is needed.               *)

LEMMA Invariance ==
    ASSUME ~CrossPages
    PROVE  Spec => []Inv
<1>1. Init => Inv
  BY InitInv
<1>2. Inv /\ [Next]_vars => Inv'
  BY StepInv
<1> QED
  BY <1>1, <1>2, PTL DEF Spec

\* For every page size, image, argument list and choice of frames: load(),
\* copy_out and copy_out_cont change what the table of the process maps where
\* they were told to, and never another frame or the text; exec never changes
\* the trapframe's page.
THEOREM WritesStayInside ==
    ASSUME ~CrossPages
    PROVE  Spec => []WritesReachTheUser
<1>1. Inv => WritesReachTheUser
  BY DEF Inv
<1> QED
  BY <1>1, Invariance, PTL

\* Every byte of the image is where the program expects it when it starts,
\* although frames are in any order and the arguments are copied afterwards.
THEOREM ImageArrives ==
    ASSUME ~CrossPages
    PROVE  Spec => []ImageIsLoaded
<1>1. Inv => ImageIsLoaded
  <2> SUFFICES ASSUME Inv, at # "load", ops = 0, NEW a \in 0 .. size - 1
               PROVE  mem[Phys(a)] = Img(a)
    BY DEF ImageIsLoaded
  <2>1. IsMapped(a)
    BY ImageFacts DEF Inv, ShapeInv
  <2>2. a \in 0 .. VEnd - 1
    <3>1. a \in 0 .. UEnd - 1
      BY <2>1 DEF IsMapped
    <3> QED
      BY <3>1, MappedFacts DEF Inv, ShapeInv
  <2>3. flat[a] = Img(a)
    BY DEF Inv, ContentsInv
  <2> QED
    BY <2>1, <2>2, <2>3 DEF Inv, WritesReachTheUser, Mapped
<1> QED
  BY <1>1, Invariance, PTL

\* On the stack page memory is what the process should see.
LEMMA StackSeen ==
    ASSUME Inv, at # "load", NEW a \in Int, StackBase <= a, a < UEnd
    PROVE  mem[Phys(a)] = flat[a]
<1>1. IsMapped(a)
  BY StackMapped DEF Inv, ShapeInv
<1>2. a \in 0 .. VEnd - 1
  <2>1. a \in 0 .. UEnd - 1
    BY <1>1 DEF IsMapped
  <2> QED
    BY <2>1, MappedFacts DEF Inv, ShapeInv
<1> QED
  BY <1>1, <1>2 DEF Inv, WritesReachTheUser, Mapped

\* main() finds its arguments, and the array of pointers to them ends in a
\* null pointer.  exec fails only when the arguments with their padding and
\* the pointers do not fit the stack page, or when the first one is empty.
THEOREM ArgumentsAreFound ==
    ASSUME ~CrossPages
    PROVE  Spec => []ArgumentsArrive
<1>1. Inv => ArgumentsArrive
  <2> SUFFICES ASSUME Inv PROVE ArgumentsArrive
    OBVIOUS
  <2>1. at = "err" => Needed > PAGESIZE \/ argv[1] = 0
    BY DEF Inv, FitInv
  <2>2. ASSUME at = "run", ops = 0
        PROVE  /\ \A i \in 1 .. Len(argv) :
                     /\ \A j \in 1 .. argv[i] : mem[Phys(ustack[i] + j - 1)] = Arg(i, j)
                     /\ \A k \in 0 .. WordSize - 1 :
                           mem[Phys(sp + (i - 1) * WordSize + k)] = Ptr(i, k)
               /\ \A k \in 0 .. WordSize - 1 : mem[Phys(sp + Len(argv) * WordSize + k)] = Nul
               /\ sp % WordSize = 0 /\ Needed <= PAGESIZE
    <3> DEFINE n == Len(ustack)
    <3>1. /\ PlaceInv /\ argv \in Seq(Nat) /\ ustack \in Seq(Nat) /\ sp \in Nat
          /\ n \in Nat /\ Len(argv) = n /\ StackBase <= sp
          /\ sp + (n + 1) * WordSize <= UEnd
      BY <2>2 DEF Inv, ShapeInv, StackInv
    <3>2. StackBase \in Nat /\ UEnd \in Nat
      BY <3>1, LayoutFacts, Sizes
    <3>3. \A k \in 1 .. (n + 1) * WordSize : flat[sp + k - 1] = PointerBytes[k]
      BY <2>2 DEF Inv, ContentsInv
    <3>4. ASSUME NEW i \in 0 .. n, NEW k \in 0 .. WordSize - 1
          PROVE  mem[Phys(sp + i * WordSize + k)] = IF i = n THEN Nul ELSE Ptr(i + 1, k)
      <4>1. PICK o \in Nat : /\ o = i * WordSize + k /\ o \div WordSize = i /\ o % WordSize = k
                             /\ o < (n + 1) * WordSize
        <5>1. /\ (i * WordSize + k) \div WordSize = i /\ (i * WordSize + k) % WordSize = k
              /\ i * WordSize \in Nat
          BY <3>1, WordRow
        <5>2. i * WordSize + k \in Nat
          BY <5>1, Sizes
        <5>3. i * WordSize + k < (n + 1) * WordSize
          <6>1. PICK d \in Nat : n + 1 = (i + 1) + d
            <7>1. n - i \in Nat /\ n + 1 = (i + 1) + (n - i)
              BY <3>1
            <7> QED
              BY <7>1
          <6>2. /\ ((i + 1) + d) * WordSize = i * WordSize + WordSize + d * WordSize
                /\ d * WordSize >= 0
            BY Sizes
          <6> QED
            BY <5>1, <6>1, <6>2, Sizes
        <5> QED
          BY <5>1, <5>2, <5>3
      <4>2. PICK w \in Nat : w = (n + 1) * WordSize
        BY <3>1, Sizes
      <4>3. o + 1 \in 1 .. w /\ sp + o < UEnd /\ StackBase <= sp + o /\ (o + 1) - 1 = o
            /\ sp + (o + 1) - 1 = sp + o
        <5>1. o < w /\ sp + w <= UEnd
          BY <3>1, <4>1, <4>2
        <5> QED
          BY <3>1, <3>2, <5>1
      <4>4. PointerBytes[o + 1] = IF i = n THEN Nul ELSE Ptr(i + 1, k)
        <5>1. PointerBytes[o + 1] = IF o \div WordSize + 1 > n THEN Nul
                                    ELSE Ptr(o \div WordSize + 1, o % WordSize)
          BY <4>2, <4>3 DEF PointerBytes
        <5> QED
          BY <3>1, <4>1, <5>1
      <4>5. flat[sp + o] = PointerBytes[o + 1]
        BY <3>3, <4>2, <4>3
      <4>6. mem[Phys(sp + o)] = flat[sp + o]
        BY <2>2, <3>1, <4>3, StackSeen
      <4>7. sp + i * WordSize + k = sp + o
        <5>1. i * WordSize \in Nat
          BY <3>1, WordRow
        <5> QED
          BY <3>1, <4>1, <5>1
      <4> QED
        BY <4>4, <4>5, <4>6, <4>7
    <3>5. ASSUME NEW i \in 1 .. n, NEW j \in 1 .. argv[i]
          PROVE  mem[Phys(ustack[i] + j - 1)] = Arg(i, j)
      <4>1. PICK u \in Nat, m \in Nat :
               u = ustack[i] /\ m = argv[i] /\ sp <= u /\ u + m <= UEnd
        <5>1. ustack[i] \in Nat /\ argv[i] \in Nat
          BY <3>1
        <5>2. sp <= ustack[i] /\ ustack[i] + argv[i] <= UEnd
          BY <2>2 DEF Inv, StackInv
        <5> QED
          BY <5>1, <5>2
      <4>2. u + j - 1 \in Int /\ StackBase <= u + j - 1 /\ u + j - 1 < UEnd
        <5>1. j \in 1 .. m
          BY <4>1
        <5>2. StackBase <= u /\ u + m <= UEnd
          BY <3>1, <3>2, <4>1
        <5> QED
          BY <3>2, <5>1, <5>2
      <4>3. flat[u + j - 1] = Arg(i, j)
        BY <2>2, <4>1 DEF Inv, ContentsInv
      <4>4. mem[Phys(u + j - 1)] = flat[u + j - 1]
        BY <2>2, <4>2, StackSeen
      <4> QED
        BY <4>1, <4>3, <4>4
    <3>6. ASSUME NEW i \in 1 .. n, NEW k \in 0 .. WordSize - 1
          PROVE  mem[Phys(sp + (i - 1) * WordSize + k)] = Ptr(i, k)
      <4>1. i - 1 \in 0 .. n /\ i - 1 # n /\ (i - 1) + 1 = i
        BY <3>1
      <4> QED
        BY <3>4, <4>1
    <3>7. \A k \in 0 .. WordSize - 1 : mem[Phys(sp + n * WordSize + k)] = Nul
      <4>1. n \in 0 .. n
        BY <3>1
      <4> QED
        BY <3>4, <4>1
    <3>8. sp % WordSize = 0 /\ Needed <= PAGESIZE
      BY <2>2 DEF Inv, FitInv
    <3> QED
      BY <3>1, <3>5, <3>6, <3>7, <3>8
  <2> QED
    BY <2>1, <2>2 DEF ArgumentsArrive
<1> QED
  BY <1>1, Invariance, PTL

\* In one page the process and the kernel see the same bytes.
LEMMA PageSeen ==
    ASSUME Inv, at = "run", NEW addr \in 0 .. VEnd - 1, Mapped(addr), NEW i \in Nat,
           (addr % PAGESIZE) + i < PAGESIZE
    PROVE  mem[Phys(addr) + i] = flat[addr + i]
<1>1. Mapped(addr + i) /\ Phys(addr + i) = Phys(addr) + i /\ addr + i \in 0 .. VEnd - 1
  BY MappedRun DEF Inv, ShapeInv
<1> QED
  BY <1>1 DEF Inv, WritesReachTheUser

\* A system call that is passed a range in one page reads the bytes that the
\* table of the process maps there, with PTE_U or without, a string up to its
\* first NUL byte; addresses that are not mapped are errors.
THEOREM ReadsAreTheUsers ==
    ASSUME ~CrossPages
    PROVE  Spec => []ReadsComeFromTheUser
<1>1. Inv => ReadsComeFromTheUser
  <2> SUFFICES ASSUME Inv, at = "run" PROVE ReadsComeFromTheUser
    BY DEF ReadsComeFromTheUser
  <2>1. PlaceInv
    BY DEF Inv, ShapeInv
  <2>2. ASSUME NEW a \in 0 .. VEnd - 1, Mapped(a)
        PROVE  Walkaddr(a) = Phys(a) /\ Phys(a) \in 0 .. VEnd - 1 /\ Phys(a) # None
    <3>3. Phys(a) \in 0 .. VEnd - 1
      BY <2>1, PhysFacts
    <3>4. Phys(a) # None
      BY <3>3, Sizes DEF None
    <3> QED
      BY <2>2, <3>3, <3>4 DEF Walkaddr
  <2>3. ASSUME NEW addr \in 0 .. VEnd - 1, NEW len \in 1 .. WordSize + 1, Passed(addr, len),
               \A a \in addr .. addr + len - 1 : Mapped(a)
        PROVE  CopyIn(addr, len) = [i \in 1 .. len |-> flat[addr + i - 1]]
    <3>1. Mapped(addr) /\ addr \in Nat /\ (addr % PAGESIZE) + len <= PAGESIZE
      <4>1. addr \in Nat /\ len \in Nat \ {0} /\ addr \in addr .. addr + len - 1
        BY Sizes
      <4> QED
        BY <2>3, <4>1 DEF Passed
    <3>2. PICK p \in Nat : p = Phys(addr) /\ Walkaddr(addr) = p /\ p # None
      BY <2>2, <3>1, Sizes
    <3>3. ASSUME NEW i \in 1 .. len PROVE mem[p + i - 1] = flat[addr + i - 1]
      <4>1. /\ i - 1 \in Nat /\ (addr % PAGESIZE) + (i - 1) < PAGESIZE
            /\ p + (i - 1) = p + i - 1 /\ addr + (i - 1) = addr + i - 1
        <5>1. addr % PAGESIZE \in 0 .. PAGESIZE - 1
          BY <3>1, Sizes, Split
        <5> QED
          BY <3>1, <5>1, Sizes
      <4> QED
        BY <3>1, <3>2, <4>1, PageSeen
    <3> QED
      BY <3>2, <3>3 DEF CopyIn
  <2>4. ASSUME NEW addr \in 0 .. VEnd - 1, NEW n \in 0 .. PAGESIZE, Passed(addr, n + 1),
               \A a \in addr .. addr + n : Mapped(a),
               flat[addr + n] = Nul, \A m \in 0 .. n - 1 : flat[addr + m] # Nul
        PROVE  CopyInStr(addr) = [i \in 1 .. n |-> flat[addr + i - 1]]
    <3>1. /\ Mapped(addr) /\ addr \in Nat /\ (addr % PAGESIZE) + (n + 1) <= PAGESIZE
          /\ n \in Nat /\ addr % PAGESIZE \in 0 .. PAGESIZE - 1
      <4>1. n + 1 \in Nat \ {0} /\ n \in Nat /\ addr \in Nat /\ addr \in addr .. addr + n
        BY Sizes
      <4>2. Mapped(addr) /\ addr \in Nat /\ (addr % PAGESIZE) + (n + 1) <= PAGESIZE
        BY <2>4, <4>1 DEF Passed
      <4> QED
        BY <4>1, <4>2, Sizes, Split
    <3>2. PICK p \in Nat : /\ p = Phys(addr) /\ Walkaddr(addr) = p /\ p # None
                           /\ p \in 0 .. VEnd - 1
      BY <2>2, <3>1, Sizes
    <3>3. ASSUME NEW m \in 0 .. n PROVE mem[p + m] = flat[addr + m]
      <4>1. m \in Nat /\ (addr % PAGESIZE) + m < PAGESIZE
        BY <3>1, Sizes
      <4> QED
        BY <3>1, <3>2, <4>1, PageSeen
    <3>4. p + n \in 0 .. PEnd - 1
      <4>1. n < PAGESIZE
        BY <3>1, Sizes
      <4>2. addr + n \in 0 .. VEnd - 1 /\ Phys(addr + n) = p + n
        <5>1. (addr % PAGESIZE) + n < PAGESIZE
          BY <3>1, Sizes
        <5> QED
          BY <2>1, <3>1, <3>2, <5>1, PhysRun
      <4>3. Phys(addr + n) \in 0 .. VEnd - 1
        BY <2>1, <4>2, PhysFacts
      <4> QED
        BY <4>2, <4>3, Sizes
    <3> DEFINE nuls == {m \in 0 .. PEnd - 1 - p : mem[p + m] = Nul}
               len == CHOOSE m \in nuls : \A k \in nuls : m <= k
    <3>5. n \in nuls
      <4>1. n \in 0 .. PEnd - 1 - p
        BY <3>1, <3>4, Sizes
      <4>2. mem[p + n] = Nul
        BY <2>4, <3>1, <3>3
      <4> QED
        BY <4>1, <4>2
    <3>6. ASSUME NEW m \in nuls PROVE n <= m
      <4> SUFFICES ASSUME m < n PROVE FALSE
        BY <3>1, Sizes
      <4>1. m \in 0 .. n - 1 /\ m \in 0 .. n
        BY <3>1, Sizes
      <4>2. mem[p + m] = Nul
        OBVIOUS
      <4> QED
        BY <2>4, <3>3, <4>1, <4>2
    <3>7. nuls \subseteq Int
      BY Sizes
    <3> HIDE DEF nuls
    <3>8. len = n
      <4>1. len \in nuls /\ \A k \in nuls : len <= k
        BY <3>5, <3>6
      <4> HIDE DEF len
      <4>2. len <= n /\ n <= len /\ len \in Int
        BY <3>5, <3>6, <3>7, <4>1
      <4> QED
        BY <3>1, <4>2
    <3>9. CopyInStr(addr) = [i \in 1 .. len |-> mem[p + i - 1]]
      <4>1. nuls # {}
        BY <3>5
      <4> QED
        BY <3>2, <4>1 DEF CopyInStr, nuls
    <3>10. \A i \in 1 .. n : mem[p + i - 1] = flat[addr + i - 1]
      <4> SUFFICES ASSUME NEW i \in 1 .. n PROVE mem[p + i - 1] = flat[addr + i - 1]
        OBVIOUS
      <4>1. i - 1 \in 0 .. n /\ p + (i - 1) = p + i - 1 /\ addr + (i - 1) = addr + i - 1
        BY <3>1
      <4> QED
        BY <3>3, <4>1
    <3> HIDE DEF len
    <3> QED
      BY <3>8, <3>9, <3>10
  <2>5. ASSUME NEW addr \in 0 .. VEnd - 1, ~Mapped(addr)
        PROVE  CopyIn(addr, 1) = Err /\ CopyInStr(addr) = Err
    BY <2>5 DEF CopyIn, CopyInStr, Walkaddr
  <2> QED
    BY <2>3, <2>4, <2>5 DEF ReadsComeFromTheUser
<1> QED
  BY <1>1, Invariance, PTL

=============================================================================
