-------------------------- MODULE PageTableProofs --------------------------
(***************************************************************************)
(* Proofs about module PageTable for every size of tables and every heap:  *)
(* the words are an address space, the software walk finds what the        *)
(* hardware uses, and nobody else owns a frame of a table.                 *)
(***************************************************************************)
EXTENDS PageTable, TLAPS, NaturalsInduction, WellFoundedInduction

-----------------------------------------------------------------------------
(* Quotients and remainders.                                                *)

\* What div and mod are.
LEMMA DivMod ==
    ASSUME NEW a \in Int, NEW n \in Nat \ {0}
    PROVE  /\ a \div n \in Int /\ a % n \in 0 .. n - 1
           /\ a = (a \div n) * n + (a % n)
           /\ a \in Nat => a \div n \in Nat
OBVIOUS

\* The same for natural numbers.
LEMMA Split ==
    ASSUME NEW a \in Nat, NEW n \in Nat \ {0}
    PROVE  \E q \in Nat, r \in 0 .. n - 1 : q = a \div n /\ r = a % n /\ a = q * n + r
<1>1. a \in Int
  OBVIOUS
<1> QED
  BY <1>1, DivMod

\* They are determined by that.
LEMMA DivModUnique ==
    ASSUME NEW n \in Nat \ {0}, NEW q \in Int, NEW r \in 0 .. n - 1
    PROVE  (q * n + r) \div n = q /\ (q * n + r) % n = r
<1> DEFINE a == q * n + r
<1>1. a \in Int
  OBVIOUS
<1>2. a \div n \in Int /\ a % n \in 0 .. n - 1 /\ a = (a \div n) * n + (a % n)
  BY <1>1, DivMod
<1> HIDE DEF a
<1>3. PICK k \in Int, m \in 0 .. n - 1 : k = a \div n /\ m = a % n
  BY <1>2
<1>4. q * n + r = k * n + m
  BY <1>2, <1>3 DEF a
<1>5. (q - k) * n = m - r
  BY <1>4
<1>6. q = k
  <2>1. CASE q > k
    <3>1. (q - k) * n >= n
      BY <2>1
    <3> QED
      BY <1>5, <3>1
  <2>2. CASE q < k
    <3>1. (k - q) * n >= n
      BY <2>2
    <3>2. (q - k) * n = -((k - q) * n)
      OBVIOUS
    <3> QED
      BY <1>5, <3>1, <3>2
  <2> QED
    BY <2>1, <2>2
<1> QED
  BY <1>1, <1>3, <1>4, <1>6 DEF a

-----------------------------------------------------------------------------
(* Sizes, and addresses taken apart.                                        *)

\* The constants.
LEMMA Sizes ==
    /\ Entries \in Nat \ {0} /\ NFRAMES \in Nat \ {0} /\ 0 \in Index
    /\ PAGESIZE \in Nat \ {0} /\ Heap \subseteq Nat \ {0} /\ Static \in Nat \ Heap
    /\ Entries * Entries \in Nat /\ NFRAMES + 2 < Entries * Entries
BY PageTableAssumption DEF PAGESIZE, Heap, Static, Index

\* The pages of the image are outside the heap.
LEMMA StaticFacts == {Static, Static + 1} \subseteq Nat \ Heap
BY PageTableAssumption DEF Heap, Static

\* The indices of page v in the root and in a table.
Hi(v) == v \div Entries
Lo(v) == v % Entries

\* A page is given by its two indices.
LEMMA PageFacts ==
    ASSUME NEW v \in Pages
    PROVE  v \in Nat /\ Hi(v) \in Index /\ Lo(v) \in Index /\ v = Hi(v) * Entries + Lo(v)
<1>1. v \in Nat /\ v < Entries * Entries
  BY Sizes DEF Pages
<1>2. PICK a \in Nat, b \in 0 .. Entries - 1 :
         a = v \div Entries /\ b = v % Entries /\ v = a * Entries + b
  BY <1>1, Sizes, Split
<1>3. a < Entries
  <2> SUFFICES ASSUME a >= Entries PROVE FALSE
    BY Sizes
  <2>1. a * Entries >= Entries * Entries
    BY Sizes
  <2>2. a * Entries \in Nat
    BY Sizes
  <2> QED
    BY <1>1, <1>2, <2>1, <2>2, Sizes
<1> QED
  BY <1>1, <1>2, <1>3, Sizes DEF Hi, Lo, Index

\* Different pages have different places.
LEMMA PageUnique ==
    ASSUME NEW u \in Pages, NEW v \in Pages, Hi(u) = Hi(v), Lo(u) = Lo(v)
    PROVE  u = v
BY PageFacts

\* The parts of an address.
LEMMA VpnFacts ==
    ASSUME NEW v \in Pages, NEW off \in 0 .. PAGESIZE - 1
    PROVE  /\ Vpn1(v * PAGESIZE + off) = Hi(v) /\ Vpn0(v * PAGESIZE + off) = Lo(v)
           /\ (v * PAGESIZE + off) % PAGESIZE = off
<1>1. v \in Nat /\ Hi(v) \in Index /\ Lo(v) \in Index /\ v = Hi(v) * Entries + Lo(v)
  BY PageFacts
<1>2. /\ (v * PAGESIZE + off) \div PAGESIZE = v
      /\ (v * PAGESIZE + off) % PAGESIZE = off
  <2>1. v \in Int
    BY <1>1
  <2> QED
    BY <2>1, Sizes, DivModUnique
<1>3. PICK a \in Nat, b \in Nat, c \in Nat :
         a = Hi(v) /\ b = Lo(v) /\ c = a * Entries /\ v = c + b /\ b <= Entries - 1
  <2>1. Hi(v) \in Nat /\ Lo(v) \in Nat /\ Lo(v) <= Entries - 1 /\ Hi(v) * Entries \in Nat
    BY <1>1, Sizes DEF Index
  <2> QED
    BY <1>1, <2>1
<1>4. PICK n \in Nat \ {0} : n = 4096 * Entries
  BY Sizes
<1>5. a * n = 4096 * c
  BY <1>3, <1>4, Sizes
<1>6. off \in 0 .. 4095
  BY DEF PAGESIZE
<1>7. 4096 * b + off \in 0 .. n - 1
  BY <1>3, <1>4, <1>6, Sizes
<1>8. v * PAGESIZE + off = a * n + (4096 * b + off)
  <2>1. v * PAGESIZE + off = 4096 * (c + b) + off
    BY <1>3 DEF PAGESIZE
  <2>2. a * n + (4096 * b + off) = 4096 * c + (4096 * b + off)
    BY <1>5
  <2> QED
    BY <1>6, <2>1, <2>2
<1>9. (a * n + (4096 * b + off)) \div n = a
  <2> DEFINE r == 4096 * b + off
  <2>1. r \in 0 .. n - 1 /\ a \in Int
    BY <1>7
  <2> HIDE DEF r
  <2>2. (a * n + r) \div n = a
    BY <2>1, DivModUnique
  <2> QED
    BY <2>2 DEF r
<1>10. Vpn1(v * PAGESIZE + off) = Hi(v)
  <2>1. PAGESIZE * Entries = n
    BY <1>4 DEF PAGESIZE
  <2> QED
    BY <1>3, <1>8, <1>9, <2>1 DEF Vpn1
<1> QED
  BY <1>2, <1>10 DEF Vpn0, Lo

\* The first byte of a page.
Addr(v) == v * PAGESIZE

\* The code finds these indices in the first address of a page.
LEMMA VpnStart ==
    ASSUME NEW v \in Pages
    PROVE  Vpn1(Addr(v)) = Hi(v) /\ Vpn0(Addr(v)) = Lo(v)
<1>1. v * PAGESIZE + 0 = v * PAGESIZE /\ 0 \in 0 .. PAGESIZE - 1
  BY PageFacts, Sizes
<1> QED
  BY <1>1, VpnFacts DEF Addr

-----------------------------------------------------------------------------
(* Words.                                                                   *)

UserPerm == PTE_RWX + PTE_U

\* The word for frame f.
Word(f, perm) == f * FLAGS + 1 + perm
FrameOf(w)    == w \div FLAGS
PermOf(w)     == 2 * ((w \div 2) % 16)

\* The rights of the user's pages and of the image's, as numbers.
LEMMA PermValues == UserPerm = 30 /\ PTE_RX = 10
BY DEF UserPerm, PTE_RWX, PTE_U, PTE_RX

\* What map() and walk() compute for the start of a frame is its word.
LEMMA EntryIsWord ==
    ASSUME NEW f \in Nat, NEW perm \in {0, 10, 30}
    PROVE  Entry(Addr(f), perm) = Word(f, perm)
BY DEF Entry, Word, Addr, PAGESIZE

\* The fields of a word.
LEMMA WordParts ==
    ASSUME NEW f \in Nat, NEW perm \in {0, 10, 30}
    PROVE  Word(f, perm) \in Nat \ {0} /\ FrameOf(Word(f, perm)) = f /\ PermOf(Word(f, perm)) = perm
<1>1. Word(f, perm) \in Nat \ {0} /\ FrameOf(Word(f, perm)) = f
  BY DEF Word, FrameOf, FLAGS
<1>2. CASE perm = 0
  BY <1>1, <1>2 DEF Word, PermOf, FLAGS
<1>3. CASE perm = 10
  BY <1>1, <1>3 DEF Word, PermOf, FLAGS
<1>4. CASE perm = 30
  BY <1>1, <1>4 DEF Word, PermOf, FLAGS
<1> QED
  BY <1>1, <1>2, <1>3, <1>4

\* The hardware's tests: the word is valid, and a leaf unless it has no rights.
LEMMA WordTests ==
    ASSUME NEW f \in Nat, NEW perm \in {0, 10, 30}
    PROVE  Word(f, perm) % 2 # 0 /\ ((Word(f, perm) \div 2) % 8 = 0 <=> perm = 0)
<1>1. CASE perm = 0
  BY <1>1 DEF Word, FLAGS
<1>2. CASE perm = 10
  BY <1>2 DEF Word, FLAGS
<1>3. CASE perm = 30
  BY <1>3 DEF Word, FLAGS
<1> QED
  BY <1>1, <1>2, <1>3

\* What the code reads from it.
LEMMA PteFields ==
    ASSUME NEW w
    PROVE  /\ Pte(w).ppn = FrameOf(w) /\ Pte(w).v = Bit(w, 1) /\ Pte(w).u = Bit(w, 16)
           /\ Pte(w).leaf = (Bit(w, 2) \/ Bit(w, 4) \/ Bit(w, 8))
           /\ Pte(w).pa = (FrameOf(w) * PAGESIZE) % WORD
BY DEF Pte, FrameOf

\* The flags of a word.
LEMMA BitFacts ==
    ASSUME NEW f \in Nat, NEW perm \in {0, 10, 30}, NEW w, w = Word(f, perm)
    PROVE  /\ Bit(w, 1) /\ (Bit(w, 2) <=> perm # 0) /\ (Bit(w, 8) <=> perm # 0)
           /\ (Bit(w, 4) <=> perm = 30) /\ (Bit(w, 16) <=> perm = 30)
<1>1. CASE perm = 0
  BY <1>1 DEF Word, Bit, FLAGS
<1>2. CASE perm = 10
  BY <1>2 DEF Word, Bit, FLAGS
<1>3. CASE perm = 30
  BY <1>3 DEF Word, Bit, FLAGS
<1> QED
  BY <1>1, <1>2, <1>3

\* The entry read from a word: valid, the frame, a leaf if it has rights.
LEMMA PteFacts ==
    ASSUME NEW f \in Nat, NEW perm \in {0, 10, 30}
    PROVE  /\ Pte(Word(f, perm)).v /\ Pte(Word(f, perm)).ppn = f
           /\ Pte(Word(f, perm)).leaf <=> perm # 0
           /\ Pte(Word(f, perm)).u <=> perm = 30
<1> DEFINE w == Word(f, perm)
<1>1. /\ Bit(w, 1) /\ (Bit(w, 2) <=> perm # 0) /\ (Bit(w, 8) <=> perm # 0)
      /\ (Bit(w, 4) <=> perm = 30) /\ (Bit(w, 16) <=> perm = 30)
  BY BitFacts
<1>2. FrameOf(w) = f
  BY WordParts
<1>3. perm = 30 => perm # 0
  OBVIOUS
<1> HIDE DEF w
<1>4. Pte(w).v /\ (Pte(w).leaf <=> perm # 0) /\ (Pte(w).u <=> perm = 30)
  BY <1>1, <1>3, PteFields, Zenon
<1> QED
  BY <1>2, <1>4, PteFields DEF w

\* A word that was cleared is not valid.
LEMMA PteZero == ~Pte(0).v
<1>1. ~Bit(0, 1)
  BY DEF Bit
<1> QED
  BY <1>1, PteFields

\* An address below the end of memory survives the shift.
LEMMA PteAddress ==
    ASSUME NEW f \in Nat, NEW perm \in {0, 10, 30}, f < Entries * Entries
    PROVE  Pte(Word(f, perm)).pa = f * PAGESIZE
<1>1. Pte(Word(f, perm)).pa = (f * PAGESIZE) % WORD
  <2>1. FrameOf(Word(f, perm)) = f
    BY WordParts
  <2> QED
    BY <2>1, PteFields
<1>2. PICK e \in Nat \ {0} : e = Entries * Entries
  BY Sizes
<1>3. WORD = 4096 * e /\ f * PAGESIZE = 4096 * f /\ f < e
  BY <1>2 DEF WORD, PAGESIZE
<1>4. (4096 * f) % (4096 * e) = 4096 * f
  <2> DEFINE n == 4096 * e
             r == 4096 * f
  <2>1. n \in Nat \ {0} /\ r \in 0 .. n - 1
    BY <1>3
  <2> HIDE DEF n, r
  <2>2. 0 * n + r = r
    BY <2>1
  <2>3. (0 * n + r) % n = r
    BY <2>1, DivModUnique
  <2> QED
    BY <2>2, <2>3 DEF n, r
<1> QED
  BY <1>1, <1>3, <1>4

-----------------------------------------------------------------------------
(* The tree under root r in memory m.  out are the frames that are not part *)
(* of it: the free ones, and one that is about to be mapped.                *)

TableAt(r, m, i) == FrameOf(m[r][i])
Leaf(r, m, i, j) == m[TableAt(r, m, i)][j]

\* The root links to frames of its own, all different.
RootGood(r, m, out) ==
    /\ m \in [Heap -> [Index -> Nat]] /\ out \in SUBSET Heap /\ r \in Heap \ out
    /\ \A i \in Index : m[r][i] # 0 =>
          /\ m[r][i] = Word(TableAt(r, m, i), 0)
          /\ TableAt(r, m, i) \in Heap \ (out \cup {r})
    /\ \A i, j \in Index :
          m[r][i] # 0 /\ m[r][j] # 0 /\ TableAt(r, m, i) = TableAt(r, m, j) => i = j

\* A word of a table is a page of the image or a page of the user's.
StaticWord(w) == w = Word(FrameOf(w), PTE_RX) /\ FrameOf(w) \in {Static, Static + 1}
UserWord(r, m, out, w) ==
    /\ w = Word(FrameOf(w), UserPerm) /\ FrameOf(w) \in Heap \ (out \cup {r})
    /\ \A k \in Index : m[r][k] # 0 => FrameOf(w) # TableAt(r, m, k)

LeavesGood(r, m, out) ==
    /\ \A i, j \in Index : m[r][i] # 0 /\ Leaf(r, m, i, j) # 0 =>
          StaticWord(Leaf(r, m, i, j)) \/ UserWord(r, m, out, Leaf(r, m, i, j))
    /\ \A i, j, k, l \in Index :
          /\ m[r][i] # 0 /\ Leaf(r, m, i, j) # 0 /\ m[r][k] # 0 /\ Leaf(r, m, k, l) # 0
          /\ FrameOf(Leaf(r, m, i, j)) \in Heap
          /\ FrameOf(Leaf(r, m, i, j)) = FrameOf(Leaf(r, m, k, l))
          => i = k /\ j = l

Good(r, m, out) == RootGood(r, m, out) /\ LeavesGood(r, m, out)

\* What a place of the tree means.
ViewAt(r, m, i, j) ==
    IF m[r][i] = 0 \/ Leaf(r, m, i, j) = 0 THEN <<>>
    ELSE <<FrameOf(Leaf(r, m, i, j)), PermOf(Leaf(r, m, i, j))>>
View(r, m, v) == ViewAt(r, m, Hi(v), Lo(v))

\* The inductive invariant.
Inv ==
    /\ mem \in [Heap -> [Index -> Nat]] /\ free \in SUBSET Heap /\ root \in Heap \cup {Null}
    /\ root # Null => Good(root, mem, free)

-----------------------------------------------------------------------------
(* What happens to the tree when a word changes.                            *)

\* What Good says of a table.
LEMMA TableFacts ==
    ASSUME NEW r, NEW m, NEW out, RootGood(r, m, out), NEW i \in Index, m[r][i] # 0
    PROVE  /\ TableAt(r, m, i) \in Heap /\ TableAt(r, m, i) # r /\ TableAt(r, m, i) \notin out
           /\ m[r][i] = Word(TableAt(r, m, i), 0)
BY DEF RootGood

\* Frames that are no longer free may be used for something else.
LEMMA GoodShrinks ==
    ASSUME NEW r, NEW m, NEW out, NEW less, Good(r, m, out), less \subseteq out
    PROVE  Good(r, m, less)
<1>1. RootGood(r, m, less)
  BY DEF Good, RootGood
<1>2. \A w : UserWord(r, m, out, w) => UserWord(r, m, less, w)
  BY DEF UserWord
<1> QED
  BY <1>1, <1>2 DEF Good, LeavesGood

Link(m, r, i, f) == [m EXCEPT ![f] = Zero, ![r][i] = Word(f, 0)]

\* All places, or all but one, mean the same in m and in n.
SameView(r, m, n) == \A k, l \in Index : ViewAt(r, n, k, l) = ViewAt(r, m, k, l)
SameElse(r, m, n, i, j) ==
    \A k, l \in Index : k # i \/ l # j => ViewAt(r, n, k, l) = ViewAt(r, m, k, l)

\* A new table under the root changes no translation.
LEMMA AddTable ==
    ASSUME NEW r, NEW m, NEW out, NEW i \in Index, NEW f \in out, NEW n, NEW less,
           Good(r, m, out), m[r][i] = 0, n = Link(m, r, i, f), less = out \ {f}
    PROVE  Good(r, n, less) /\ n[r][i] # 0 /\ SameView(r, m, n)
<1>1. /\ m \in [Heap -> [Index -> Nat]] /\ out \in SUBSET Heap /\ r \in Heap /\ r \notin out
      /\ f \in Heap /\ f # r /\ f \in Nat
  BY Sizes DEF Good, RootGood
<1>2. Word(f, 0) \in Nat \ {0} /\ FrameOf(Word(f, 0)) = f /\ Zero \in [Index -> Nat]
      /\ \A l \in Index : Zero[l] = 0
  BY <1>1, WordParts DEF Zero
<1>3. /\ n \in [Heap -> [Index -> Nat]] /\ n[f] = Zero
      /\ \A g \in Heap : g # f /\ g # r => n[g] = m[g]
      /\ n[r][i] = Word(f, 0) /\ \A k \in Index : k # i => n[r][k] = m[r][k]
  BY <1>1, <1>2 DEF Link
<1>4. TableAt(r, n, i) = f
  BY <1>2, <1>3 DEF TableAt
<1>5. \A k \in Index : k # i => TableAt(r, n, k) = TableAt(r, m, k)
  BY <1>3 DEF TableAt
<1>6. \A k \in Index : m[r][k] # 0 =>
         /\ k # i /\ n[r][k] = m[r][k] /\ TableAt(r, n, k) = TableAt(r, m, k)
         /\ TableAt(r, m, k) \in Heap /\ TableAt(r, m, k) # r /\ TableAt(r, m, k) \notin out
         /\ m[r][k] = Word(TableAt(r, m, k), 0)
  <2> SUFFICES ASSUME NEW k \in Index, m[r][k] # 0
               PROVE  /\ k # i /\ n[r][k] = m[r][k] /\ TableAt(r, n, k) = TableAt(r, m, k)
                      /\ TableAt(r, m, k) \in Heap /\ TableAt(r, m, k) # r
                      /\ TableAt(r, m, k) \notin out /\ m[r][k] = Word(TableAt(r, m, k), 0)
    OBVIOUS
  <2>1. k # i
    OBVIOUS
  <2>2. RootGood(r, m, out)
    BY DEF Good
  <2>3. /\ TableAt(r, m, k) \in Heap /\ TableAt(r, m, k) # r
        /\ TableAt(r, m, k) \notin out /\ m[r][k] = Word(TableAt(r, m, k), 0)
    BY <2>2, TableFacts
  <2>4. n[r][k] = m[r][k]
    BY <1>3, <2>1
  <2> QED
    BY <1>5, <2>1, <2>3, <2>4
<1>7. \A k \in Index : n[r][k] # 0 => k = i \/ m[r][k] # 0
  BY <1>3
<1>8. RootGood(r, n, out \ {f})
  <2>1. \A k \in Index : n[r][k] # 0 =>
           /\ n[r][k] = Word(TableAt(r, n, k), 0)
           /\ TableAt(r, n, k) \in Heap \ ((out \ {f}) \cup {r})
    <3> SUFFICES ASSUME NEW k \in Index, n[r][k] # 0
                 PROVE  /\ n[r][k] = Word(TableAt(r, n, k), 0)
                        /\ TableAt(r, n, k) \in Heap \ ((out \ {f}) \cup {r})
      OBVIOUS
    <3>1. CASE k = i
      BY <1>1, <1>3, <1>4, <3>1
    <3>2. CASE m[r][k] # 0
      BY <1>6, <3>2
    <3> QED
      BY <1>7, <3>1, <3>2
  <2>2. \A k, l \in Index :
           n[r][k] # 0 /\ n[r][l] # 0 /\ TableAt(r, n, k) = TableAt(r, n, l) => k = l
    <3> SUFFICES ASSUME NEW k \in Index, NEW l \in Index, n[r][k] # 0, n[r][l] # 0,
                        TableAt(r, n, k) = TableAt(r, n, l)
                 PROVE  k = l
      OBVIOUS
    <3>1. CASE k = i /\ l # i
      BY <1>4, <1>6, <1>7, <3>1
    <3>2. CASE k # i /\ l = i
      BY <1>4, <1>6, <1>7, <3>2
    <3>3. CASE k # i /\ l # i
      BY <1>6, <1>7, <3>3 DEF Good, RootGood
    <3> QED
      BY <3>1, <3>2, <3>3
  <2> QED
    BY <1>1, <1>3, <2>1, <2>2 DEF RootGood
<1>9. \A l \in Index : Leaf(r, n, i, l) = 0
  <2> SUFFICES ASSUME NEW l \in Index PROVE Leaf(r, n, i, l) = 0
    OBVIOUS
  <2>1. n[f][l] = 0
    BY <1>2, <1>3
  <2> QED
    BY <1>4, <2>1 DEF Leaf
<1>10. \A k, l \in Index : m[r][k] # 0 => Leaf(r, n, k, l) = Leaf(r, m, k, l)
  <2> SUFFICES ASSUME NEW k \in Index, NEW l \in Index, m[r][k] # 0
               PROVE  Leaf(r, n, k, l) = Leaf(r, m, k, l)
    OBVIOUS
  <2>1. TableAt(r, n, k) = TableAt(r, m, k) /\ n[TableAt(r, m, k)] = m[TableAt(r, m, k)]
    <3>1. TableAt(r, m, k) \in Heap /\ TableAt(r, m, k) # r /\ TableAt(r, m, k) # f
      BY <1>6
    <3> QED
      BY <1>3, <1>6, <3>1
  <2> QED
    BY <2>1 DEF Leaf
<1>11. \A k, l \in Index : n[r][k] # 0 /\ Leaf(r, n, k, l) # 0 =>
          m[r][k] # 0 /\ Leaf(r, m, k, l) # 0 /\ Leaf(r, n, k, l) = Leaf(r, m, k, l)
  BY <1>7, <1>9, <1>10
<1>12. \A w : UserWord(r, m, out, w) => UserWord(r, n, out \ {f}, w)
  <2> SUFFICES ASSUME NEW w, UserWord(r, m, out, w)
               PROVE  UserWord(r, n, out \ {f}, w)
    OBVIOUS
  <2>1. FrameOf(w) # f
    BY DEF UserWord
  <2>2. \A k \in Index : n[r][k] # 0 => FrameOf(w) # TableAt(r, n, k)
    BY <1>4, <1>6, <1>7, <2>1 DEF UserWord
  <2> QED
    BY <2>2 DEF UserWord
<1>13. LeavesGood(r, n, out \ {f})
  <2>1. \A k, l \in Index : n[r][k] # 0 /\ Leaf(r, n, k, l) # 0 =>
           StaticWord(Leaf(r, n, k, l)) \/ UserWord(r, n, out \ {f}, Leaf(r, n, k, l))
    BY <1>11, <1>12 DEF Good, LeavesGood
  <2>2. \A a, b, c, d \in Index :
           /\ n[r][a] # 0 /\ Leaf(r, n, a, b) # 0 /\ n[r][c] # 0 /\ Leaf(r, n, c, d) # 0
           /\ FrameOf(Leaf(r, n, a, b)) \in Heap
           /\ FrameOf(Leaf(r, n, a, b)) = FrameOf(Leaf(r, n, c, d))
           => a = c /\ b = d
    BY <1>11 DEF Good, LeavesGood
  <2> QED
    BY <2>1, <2>2 DEF LeavesGood
<1>14. ASSUME NEW k \in Index, NEW l \in Index PROVE ViewAt(r, n, k, l) = ViewAt(r, m, k, l)
  <2>1. CASE k = i
    BY <1>9, <2>1 DEF ViewAt
  <2>2. CASE k # i
    <3>1. n[r][k] = m[r][k]
      BY <1>3, <2>2
    <3>2. CASE m[r][k] = 0
      BY <3>1, <3>2 DEF ViewAt
    <3>3. CASE m[r][k] # 0
      <4>1. Leaf(r, n, k, l) = Leaf(r, m, k, l)
        BY <1>10, <3>3
      <4> QED
        BY <3>1, <3>3, <4>1 DEF ViewAt
    <3> QED
      BY <3>2, <3>3
  <2> QED
    BY <2>1, <2>2
<1> QED
  BY <1>2, <1>3, <1>8, <1>13, <1>14 DEF Good, SameView

Write(m, t, j, w) == [m EXCEPT ![t][j] = w]

\* Word j of table i becomes w.
LEMMA ChangeWord ==
    ASSUME NEW r, NEW m, NEW out, RootGood(r, m, out), NEW i \in Index, NEW j \in Index,
           m[r][i] # 0, NEW w \in Nat, NEW n, n = Write(m, TableAt(r, m, i), j, w)
    PROVE  /\ RootGood(r, n, out) /\ n[r] = m[r]
           /\ \A k \in Index : TableAt(r, n, k) = TableAt(r, m, k)
           /\ \A o, x : UserWord(r, n, o, x) <=> UserWord(r, m, o, x)
           /\ Leaf(r, n, i, j) = w
           /\ \A k, l \in Index : m[r][k] # 0 /\ (k # i \/ l # j) =>
                 Leaf(r, n, k, l) = Leaf(r, m, k, l)
           /\ \A k, l \in Index : k # i \/ l # j => ViewAt(r, n, k, l) = ViewAt(r, m, k, l)
<1> DEFINE t == TableAt(r, m, i)
<1>1. m \in [Heap -> [Index -> Nat]] /\ r \in Heap
  BY DEF RootGood
<1>2. t \in Heap /\ t # r
  BY TableFacts
<1> HIDE DEF t
<1>3. n = [m EXCEPT ![t][j] = w]
  BY DEF t, Write
<1>4. /\ n \in [Heap -> [Index -> Nat]] /\ n[r] = m[r] /\ n[t][j] = w
      /\ \A g \in Heap : g # t => n[g] = m[g]
      /\ \A l \in Index : l # j => n[t][l] = m[t][l]
  <2> DEFINE row == [m[t] EXCEPT ![j] = w]
  <2>1. row \in [Index -> Nat] /\ row[j] = w /\ \A l \in Index : l # j => row[l] = m[t][l]
    BY <1>1, <1>2
  <2>2. n = [m EXCEPT ![t] = row]
    BY <1>3
  <2> HIDE DEF row
  <2>3. n \in [Heap -> [Index -> Nat]] /\ n[t] = row /\ \A g \in Heap : g # t => n[g] = m[g]
    BY <1>1, <1>2, <2>1, <2>2
  <2> QED
    BY <1>1, <1>2, <2>1, <2>3
<1>5. \A k \in Index : TableAt(r, n, k) = TableAt(r, m, k)
  BY <1>4 DEF TableAt
<1>6. \A o, x : UserWord(r, n, o, x) <=> UserWord(r, m, o, x)
  BY <1>4, <1>5 DEF UserWord
<1>7. RootGood(r, n, out)
  <2>1. \A k \in Index : n[r][k] = m[r][k]
    BY <1>4
  <2>2. \A k \in Index : n[r][k] # 0 =>
           /\ n[r][k] = Word(TableAt(r, n, k), 0)
           /\ TableAt(r, n, k) \in Heap \ (out \cup {r})
    BY <1>5, <2>1 DEF RootGood
  <2>3. \A k, l \in Index :
           n[r][k] # 0 /\ n[r][l] # 0 /\ TableAt(r, n, k) = TableAt(r, n, l) => k = l
    BY <1>5, <2>1 DEF RootGood
  <2>4. out \in SUBSET Heap /\ r \in Heap \ out
    BY DEF RootGood
  <2> QED
    BY <1>4, <2>2, <2>3, <2>4 DEF RootGood
<1>8. Leaf(r, n, i, j) = w
  BY <1>4, <1>5 DEF Leaf, t
<1>9. ASSUME NEW k \in Index, NEW l \in Index, m[r][k] # 0, k # i \/ l # j
      PROVE  Leaf(r, n, k, l) = Leaf(r, m, k, l)
  <2>1. TableAt(r, m, k) \in Heap
    BY <1>9, TableFacts
  <2>2. CASE TableAt(r, m, k) # t
    BY <1>4, <1>5, <2>1, <2>2 DEF Leaf
  <2>3. CASE TableAt(r, m, k) = t
    <3>1. k = i
      BY <1>9, <2>3 DEF RootGood, t
    <3>2. n[t][l] = m[t][l]
      BY <1>4, <1>9, <3>1
    <3> QED
      BY <1>5, <2>3, <3>2 DEF Leaf
  <2> QED
    BY <2>2, <2>3
<1>10. ASSUME NEW k \in Index, NEW l \in Index, k # i \/ l # j
       PROVE  ViewAt(r, n, k, l) = ViewAt(r, m, k, l)
  <2>1. n[r][k] = m[r][k]
    BY <1>4
  <2>2. CASE m[r][k] = 0
    BY <2>1, <2>2 DEF ViewAt
  <2>3. CASE m[r][k] # 0
    <3>1. Leaf(r, n, k, l) = Leaf(r, m, k, l)
      BY <1>9, <1>10, <2>3
    <3> QED
      BY <2>1, <2>3, <3>1 DEF ViewAt
  <2> QED
    BY <2>2, <2>3
<1> QED
  BY <1>4, <1>5, <1>6, <1>7, <1>8, <1>9, <1>10

\* A place that is free gets a page.
LEMMA SetLeaf ==
    ASSUME NEW r, NEW m, NEW out, NEW i \in Index, NEW j \in Index, NEW f, NEW perm,
           NEW n, NEW less,
           Good(r, m, out), m[r][i] # 0, Leaf(r, m, i, j) = 0,
           \/ perm = UserPerm /\ f \in out
           \/ perm = PTE_RX /\ f \in {Static, Static + 1},
           n = Write(m, TableAt(r, m, i), j, Word(f, perm)), less = out \ {f}
    PROVE  Good(r, n, less) /\ ViewAt(r, n, i, j) = <<f, perm>> /\ SameElse(r, m, n, i, j)
<1> DEFINE w == Word(f, perm)
<1>1. RootGood(r, m, out) /\ LeavesGood(r, m, out) /\ out \in SUBSET Heap
  BY DEF Good, RootGood
<1>2. f \in Nat /\ perm \in {0, 10, 30} /\ (f \in Heap <=> f \in out)
  <2>1. CASE perm = UserPerm /\ f \in out
    BY <1>1, <2>1, PermValues, Sizes
  <2>2. CASE perm = PTE_RX /\ f \in {Static, Static + 1}
    BY <1>1, <2>2, PermValues, StaticFacts
  <2> QED
    BY <2>1, <2>2
<1>3. w \in Nat \ {0} /\ FrameOf(w) = f /\ PermOf(w) = perm
  <2>1. f \in Nat /\ perm \in {0, 10, 30}
    BY <1>2
  <2> QED
    BY <2>1, WordParts
<1> HIDE DEF w
<1>4. n = Write(m, TableAt(r, m, i), j, w) /\ w \in Nat
  BY <1>3 DEF w
<1>5. /\ RootGood(r, n, out) /\ n[r] = m[r]
      /\ \A k \in Index : TableAt(r, n, k) = TableAt(r, m, k)
      /\ \A o, x : UserWord(r, n, o, x) <=> UserWord(r, m, o, x)
      /\ Leaf(r, n, i, j) = w
      /\ \A k, l \in Index : m[r][k] # 0 /\ (k # i \/ l # j) =>
                 Leaf(r, n, k, l) = Leaf(r, m, k, l)
      /\ \A k, l \in Index : k # i \/ l # j => ViewAt(r, n, k, l) = ViewAt(r, m, k, l)
  BY <1>1, <1>4, ChangeWord
<1>6. RootGood(r, n, out \ {f})
  BY <1>1, <1>5 DEF RootGood
<1>7. StaticWord(w) \/ UserWord(r, m, out \ {f}, w)
  <2>1. CASE perm = PTE_RX /\ f \in {Static, Static + 1}
    BY <1>3, <2>1 DEF StaticWord, w
  <2>2. CASE perm = UserPerm /\ f \in out
    <3>1. f \in Heap /\ f # r
      BY <1>1, <2>2 DEF RootGood
    <3>2. \A k \in Index : m[r][k] # 0 => f # TableAt(r, m, k)
      BY <1>1, <2>2, TableFacts
    <3> QED
      BY <1>3, <2>2, <3>1, <3>2 DEF UserWord, w
  <2> QED
    BY <2>1, <2>2
<1>8. ASSUME NEW k \in Index, NEW l \in Index, m[r][k] # 0, Leaf(r, m, k, l) # 0
      PROVE  /\ k # i \/ l # j
             /\ FrameOf(Leaf(r, m, k, l)) \notin out
             /\ \/ StaticWord(Leaf(r, m, k, l))
                \/ UserWord(r, m, out \ {f}, Leaf(r, m, k, l))
  <2>1. StaticWord(Leaf(r, m, k, l)) \/ UserWord(r, m, out, Leaf(r, m, k, l))
    BY <1>1, <1>8 DEF LeavesGood
  <2>2. Static \notin Heap /\ Static + 1 \notin Heap
    BY StaticFacts
  <2>3. FrameOf(Leaf(r, m, k, l)) \notin out
    BY <1>1, <2>1, <2>2 DEF StaticWord, UserWord
  <2>4. UserWord(r, m, out, Leaf(r, m, k, l)) => UserWord(r, m, out \ {f}, Leaf(r, m, k, l))
    BY DEF UserWord
  <2> QED
    BY <1>8, <2>1, <2>3, <2>4
<1>9. LeavesGood(r, n, out \ {f})
  <2>1. ASSUME NEW k \in Index, NEW l \in Index, n[r][k] # 0, Leaf(r, n, k, l) # 0
        PROVE  StaticWord(Leaf(r, n, k, l)) \/ UserWord(r, n, out \ {f}, Leaf(r, n, k, l))
    <3>1. CASE k = i /\ l = j
      BY <1>5, <1>7, <3>1
    <3>2. CASE k # i \/ l # j
      <4>1. m[r][k] # 0 /\ Leaf(r, n, k, l) = Leaf(r, m, k, l)
        BY <1>5, <2>1, <3>2
      <4>2. StaticWord(Leaf(r, m, k, l)) \/ UserWord(r, m, out \ {f}, Leaf(r, m, k, l))
        BY <1>8, <2>1, <4>1
      <4> QED
        BY <1>5, <4>1, <4>2
    <3> QED
      BY <3>1, <3>2
  <2>2. \A a, b, c, d \in Index :
           /\ n[r][a] # 0 /\ Leaf(r, n, a, b) # 0 /\ n[r][c] # 0 /\ Leaf(r, n, c, d) # 0
           /\ FrameOf(Leaf(r, n, a, b)) \in Heap
           /\ FrameOf(Leaf(r, n, a, b)) = FrameOf(Leaf(r, n, c, d))
           => a = c /\ b = d
    <3>0. SUFFICES
            ASSUME NEW a \in Index, NEW b \in Index, NEW c \in Index, NEW d \in Index,
                   n[r][a] # 0, Leaf(r, n, a, b) # 0, n[r][c] # 0, Leaf(r, n, c, d) # 0,
                   FrameOf(Leaf(r, n, a, b)) \in Heap,
                   FrameOf(Leaf(r, n, a, b)) = FrameOf(Leaf(r, n, c, d))
            PROVE  a = c /\ b = d
      OBVIOUS
    <3>1. m[r][a] # 0 /\ m[r][c] # 0
      BY <1>5, <3>0
    <3>2. CASE a = i /\ b = j
      <4>1. FrameOf(Leaf(r, n, c, d)) = f /\ f \in out
        BY <1>2, <1>3, <1>5, <3>0, <3>2
      <4> SUFFICES ASSUME c # i \/ d # j PROVE FALSE
        BY <3>2
      <4>2. Leaf(r, n, c, d) = Leaf(r, m, c, d)
        BY <1>5, <3>1
      <4> QED
        BY <1>8, <3>0, <3>1, <4>1, <4>2
    <3>3. CASE c = i /\ d = j
      <4>1. FrameOf(Leaf(r, n, a, b)) = f /\ f \in out
        BY <1>2, <1>3, <1>5, <3>0, <3>3
      <4> SUFFICES ASSUME a # i \/ b # j PROVE FALSE
        BY <3>3
      <4>2. Leaf(r, n, a, b) = Leaf(r, m, a, b)
        BY <1>5, <3>1
      <4> QED
        BY <1>8, <3>0, <3>1, <4>1, <4>2
    <3>4. CASE (a # i \/ b # j) /\ (c # i \/ d # j)
      <4>1. Leaf(r, n, a, b) = Leaf(r, m, a, b) /\ Leaf(r, n, c, d) = Leaf(r, m, c, d)
        BY <1>5, <3>1, <3>4
      <4> QED
        BY <1>1, <3>0, <3>1, <4>1 DEF LeavesGood
    <3> QED
      BY <3>2, <3>3, <3>4
  <2> QED
    BY <2>1, <2>2 DEF LeavesGood
<1>10. ViewAt(r, n, i, j) = <<f, perm>>
  BY <1>3, <1>5 DEF ViewAt
<1> QED
  BY <1>5, <1>6, <1>9, <1>10 DEF Good, SameElse

\* A page is taken away; if it was the user's nobody uses its frame.
LEMMA ClearLeaf ==
    ASSUME NEW r, NEW m, NEW out, NEW i \in Index, NEW j \in Index, NEW n, NEW more,
           Good(r, m, out), m[r][i] # 0, Leaf(r, m, i, j) # 0,
           n = Write(m, TableAt(r, m, i), j, 0),
           more = out \cup ({FrameOf(Leaf(r, m, i, j))} \cap Heap)
    PROVE  Good(r, n, more) /\ ViewAt(r, n, i, j) = <<>> /\ SameElse(r, m, n, i, j)
<1> DEFINE f == FrameOf(Leaf(r, m, i, j))
<1>1. RootGood(r, m, out) /\ LeavesGood(r, m, out) /\ out \in SUBSET Heap
  BY DEF Good, RootGood
<1>2. /\ RootGood(r, n, out) /\ n[r] = m[r]
      /\ \A k \in Index : TableAt(r, n, k) = TableAt(r, m, k)
      /\ \A o, x : UserWord(r, n, o, x) <=> UserWord(r, m, o, x)
      /\ Leaf(r, n, i, j) = 0
      /\ \A k, l \in Index : m[r][k] # 0 /\ (k # i \/ l # j) =>
                 Leaf(r, n, k, l) = Leaf(r, m, k, l)
      /\ \A k, l \in Index : k # i \/ l # j => ViewAt(r, n, k, l) = ViewAt(r, m, k, l)
  <2>1. 0 \in Nat
    OBVIOUS
  <2> QED
    BY <1>1, <2>1, ChangeWord
<1>3. f \in Heap => /\ f # r /\ f \notin out
                    /\ \A k \in Index : m[r][k] # 0 => f # TableAt(r, m, k)
  <2>1. StaticWord(Leaf(r, m, i, j)) \/ UserWord(r, m, out, Leaf(r, m, i, j))
    BY <1>1 DEF LeavesGood
  <2> QED
    BY <2>1, StaticFacts DEF StaticWord, UserWord
<1>4. RootGood(r, n, more)
  <2>1. more \in SUBSET Heap /\ r \in Heap \ more
    BY <1>1, <1>3 DEF RootGood
  <2>2. \A k \in Index : n[r][k] # 0 => TableAt(r, n, k) \in Heap \ (more \cup {r})
    BY <1>1, <1>2, <1>3, TableFacts
  <2> QED
    BY <1>2, <2>1, <2>2 DEF RootGood
<1>5. ASSUME NEW k \in Index, NEW l \in Index, n[r][k] # 0, Leaf(r, n, k, l) # 0
      PROVE  /\ k # i \/ l # j
             /\ m[r][k] # 0 /\ Leaf(r, n, k, l) = Leaf(r, m, k, l) /\ Leaf(r, m, k, l) # 0
  BY <1>2, <1>5
<1>6. LeavesGood(r, n, more)
  <2>1. ASSUME NEW k \in Index, NEW l \in Index, n[r][k] # 0, Leaf(r, n, k, l) # 0
        PROVE  StaticWord(Leaf(r, n, k, l)) \/ UserWord(r, n, more, Leaf(r, n, k, l))
    <3> DEFINE w == Leaf(r, m, k, l)
    <3>1. (k # i \/ l # j) /\ m[r][k] # 0 /\ Leaf(r, n, k, l) = w /\ w # 0
      BY <1>5, <2>1
    <3>2. StaticWord(w) \/ UserWord(r, m, out, w)
      BY <1>1, <3>1 DEF LeavesGood
    <3>3. CASE UserWord(r, m, out, w)
      <4>1. FrameOf(w) # f
        BY <1>1, <3>1, <3>3 DEF LeavesGood, UserWord
      <4>2. UserWord(r, m, more, w)
        BY <3>3, <4>1 DEF UserWord
      <4> QED
        BY <1>2, <3>1, <4>2
    <3> QED
      BY <3>1, <3>2, <3>3
  <2>2. \A a, b, c, d \in Index :
           /\ n[r][a] # 0 /\ Leaf(r, n, a, b) # 0 /\ n[r][c] # 0 /\ Leaf(r, n, c, d) # 0
           /\ FrameOf(Leaf(r, n, a, b)) \in Heap
           /\ FrameOf(Leaf(r, n, a, b)) = FrameOf(Leaf(r, n, c, d))
           => a = c /\ b = d
    BY <1>1, <1>5 DEF LeavesGood
  <2> QED
    BY <2>1, <2>2 DEF LeavesGood
<1>7. ViewAt(r, n, i, j) = <<>>
  BY <1>2 DEF ViewAt
<1> QED
  BY <1>2, <1>4, <1>6, <1>7 DEF Good, SameElse

\* What is in a frame that is no table does not matter.
LEMMA WriteFrame ==
    ASSUME NEW r, NEW m, NEW out, NEW f \in Heap, NEW row \in [Index -> Nat], NEW n,
           Good(r, m, out), f # r, \A k \in Index : m[r][k] # 0 => f # TableAt(r, m, k),
           n = [m EXCEPT ![f] = row]
    PROVE  Good(r, n, out) /\ SameView(r, m, n)
<1>1. RootGood(r, m, out) /\ LeavesGood(r, m, out) /\ m \in [Heap -> [Index -> Nat]]
      /\ r \in Heap /\ out \in SUBSET Heap /\ r \notin out
  BY DEF Good, RootGood
<1>2. n \in [Heap -> [Index -> Nat]] /\ n[r] = m[r] /\ \A g \in Heap : g # f => n[g] = m[g]
  BY <1>1
<1>3. \A k \in Index : n[r][k] = m[r][k] /\ TableAt(r, n, k) = TableAt(r, m, k)
  BY <1>2 DEF TableAt
<1>4. ASSUME NEW k \in Index, NEW l \in Index, m[r][k] # 0
      PROVE  Leaf(r, n, k, l) = Leaf(r, m, k, l)
  <2>1. TableAt(r, m, k) \in Heap /\ TableAt(r, m, k) # f
    BY <1>1, <1>4, TableFacts
  <2> QED
    BY <1>2, <1>3, <2>1 DEF Leaf
<1>5. RootGood(r, n, out)
  <2>1. \A k \in Index : n[r][k] # 0 =>
           /\ n[r][k] = Word(TableAt(r, n, k), 0)
           /\ TableAt(r, n, k) \in Heap \ (out \cup {r})
    BY <1>1, <1>3 DEF RootGood
  <2>2. \A k, l \in Index :
           n[r][k] # 0 /\ n[r][l] # 0 /\ TableAt(r, n, k) = TableAt(r, n, l) => k = l
    BY <1>1, <1>3 DEF RootGood
  <2> QED
    BY <1>1, <1>2, <2>1, <2>2 DEF RootGood
<1>6. \A w : UserWord(r, m, out, w) => UserWord(r, n, out, w)
  BY <1>3 DEF UserWord
<1>7. LeavesGood(r, n, out)
  <2>1. \A k, l \in Index : n[r][k] # 0 /\ Leaf(r, n, k, l) # 0 =>
           StaticWord(Leaf(r, n, k, l)) \/ UserWord(r, n, out, Leaf(r, n, k, l))
    BY <1>1, <1>3, <1>4, <1>6 DEF LeavesGood
  <2>2. \A a, b, c, d \in Index :
           /\ n[r][a] # 0 /\ Leaf(r, n, a, b) # 0 /\ n[r][c] # 0 /\ Leaf(r, n, c, d) # 0
           /\ FrameOf(Leaf(r, n, a, b)) \in Heap
           /\ FrameOf(Leaf(r, n, a, b)) = FrameOf(Leaf(r, n, c, d))
           => a = c /\ b = d
    <3>1. \A k, l \in Index : n[r][k] # 0 =>
             m[r][k] # 0 /\ Leaf(r, n, k, l) = Leaf(r, m, k, l)
      BY <1>3, <1>4
    <3> QED
      BY <1>1, <3>1 DEF LeavesGood
  <2> QED
    BY <2>1, <2>2 DEF LeavesGood
<1>8. ASSUME NEW k \in Index, NEW l \in Index PROVE ViewAt(r, n, k, l) = ViewAt(r, m, k, l)
  <2>1. CASE m[r][k] = 0
    BY <1>3, <2>1 DEF ViewAt
  <2>2. CASE m[r][k] # 0
    <3>1. Leaf(r, n, k, l) = Leaf(r, m, k, l) /\ n[r][k] = m[r][k]
      BY <1>3, <1>4, <2>2
    <3> QED
      BY <2>2, <3>1 DEF ViewAt
  <2> QED
    BY <2>1, <2>2
<1> QED
  BY <1>5, <1>7, <1>8 DEF Good, SameView

\* A root without a word is an empty address space.
LEMMA EmptyRoot ==
    ASSUME NEW r, NEW m \in [Heap -> [Index -> Nat]], NEW out \in SUBSET Heap,
           r \in Heap \ out, m[r] = Zero
    PROVE  Good(r, m, out) /\ \A k, l \in Index : ViewAt(r, m, k, l) = <<>>
<1>1. \A k \in Index : m[r][k] = 0
  BY DEF Zero
<1> QED
  BY <1>1 DEF Good, RootGood, LeavesGood, ViewAt

-----------------------------------------------------------------------------
(* The loops of map() and unmap() over one or two pages.                    *)

\* map() of one page is one turn of its loop.
LEMMA MapOne ==
    ASSUME NEW s, NEW virt, NEW phys, NEW perm
    PROVE  MapRange(s, virt, phys, 1, perm) =
               MapPage(s, virt + (1 - 1) * PAGESIZE, phys + (1 - 1) * PAGESIZE, perm)
<1> DEFINE Turn(t, k) == MapPage(t, virt + (k - 1) * PAGESIZE, phys + (k - 1) * PAGESIZE, perm)
           Body(M, k) == IF k = 0 THEN s ELSE Turn(M[k - 1], k)
           Loop == CHOOSE M : M = [k \in 0 .. 1 |-> Body(M, k)]
<1>1. MapRange(s, virt, phys, 1, perm) = Loop[1]
  BY DEF MapRange
<1> DEFINE W == [k \in 0 .. 1 |-> IF k = 0 THEN s ELSE Turn(s, 1)]
<1> HIDE DEF Turn
<1>2. W = [k \in 0 .. 1 |-> Body(W, k)]
  OBVIOUS
<1>3. Loop = [k \in 0 .. 1 |-> Body(Loop, k)]
  BY <1>2
<1> HIDE DEF Loop
<1>4. Loop[0] = s /\ Loop[1] = Turn(Loop[0], 1)
  BY <1>3
<1> QED
  BY <1>1, <1>4 DEF Turn

\* map() of two pages is two turns, one after the other.
LEMMA MapTwo ==
    ASSUME NEW s, NEW virt, NEW phys, NEW perm
    PROVE  MapRange(s, virt, phys, 2, perm) =
               MapPage(MapPage(s, virt + (1 - 1) * PAGESIZE, phys + (1 - 1) * PAGESIZE, perm),
                       virt + (2 - 1) * PAGESIZE, phys + (2 - 1) * PAGESIZE, perm)
<1> DEFINE Turn(t, k) == MapPage(t, virt + (k - 1) * PAGESIZE, phys + (k - 1) * PAGESIZE, perm)
           Body(M, k) == IF k = 0 THEN s ELSE Turn(M[k - 1], k)
           Loop == CHOOSE M : M = [k \in 0 .. 2 |-> Body(M, k)]
<1>1. MapRange(s, virt, phys, 2, perm) = Loop[2]
  BY DEF MapRange
<1> DEFINE W == [k \in 0 .. 2 |-> IF k = 0 THEN s
                                  ELSE IF k = 1 THEN Turn(s, 1) ELSE Turn(Turn(s, 1), 2)]
<1> HIDE DEF Turn
<1>2. W = [k \in 0 .. 2 |-> Body(W, k)]
  <2>1. W[0] = s /\ W[1] = Turn(s, 1) /\ W[2] = Turn(W[1], 2)
    OBVIOUS
  <2>2. \A k \in 0 .. 2 : W[k] = Body(W, k)
    BY <2>1
  <2> QED
    BY <2>2
<1>3. Loop = [k \in 0 .. 2 |-> Body(Loop, k)]
  BY <1>2
<1> HIDE DEF Loop
<1>4. Loop[0] = s /\ Loop[1] = Turn(Loop[0], 1) /\ Loop[2] = Turn(Loop[1], 2)
  BY <1>3
<1> QED
  BY <1>1, <1>4 DEF Turn

\* unmap() of one page is one turn of its loop.
LEMMA UnmapOne ==
    ASSUME NEW s, NEW virt, NEW free_them
    PROVE  UnmapRange(s, virt, 1, free_them) = UnmapPage(s, virt + (1 - 1) * PAGESIZE, free_them)
<1> DEFINE Turn(t, k) == UnmapPage(t, virt + (k - 1) * PAGESIZE, free_them)
           Body(M, k) == IF k = 0 THEN s ELSE Turn(M[k - 1], k)
           Loop == CHOOSE M : M = [k \in 0 .. 1 |-> Body(M, k)]
<1>1. UnmapRange(s, virt, 1, free_them) = Loop[1]
  BY DEF UnmapRange
<1> DEFINE W == [k \in 0 .. 1 |-> IF k = 0 THEN s ELSE Turn(s, 1)]
<1> HIDE DEF Turn
<1>2. W = [k \in 0 .. 1 |-> Body(W, k)]
  OBVIOUS
<1>3. Loop = [k \in 0 .. 1 |-> Body(Loop, k)]
  BY <1>2
<1> HIDE DEF Loop
<1>4. Loop[0] = s /\ Loop[1] = Turn(Loop[0], 1)
  BY <1>3
<1> QED
  BY <1>1, <1>4 DEF Turn

\* unmap() of two pages is two turns.
LEMMA UnmapTwo ==
    ASSUME NEW s, NEW virt, NEW free_them
    PROVE  UnmapRange(s, virt, 2, free_them) =
               UnmapPage(UnmapPage(s, virt + (1 - 1) * PAGESIZE, free_them),
                         virt + (2 - 1) * PAGESIZE, free_them)
<1> DEFINE Turn(t, k) == UnmapPage(t, virt + (k - 1) * PAGESIZE, free_them)
           Body(M, k) == IF k = 0 THEN s ELSE Turn(M[k - 1], k)
           Loop == CHOOSE M : M = [k \in 0 .. 2 |-> Body(M, k)]
<1>1. UnmapRange(s, virt, 2, free_them) = Loop[2]
  BY DEF UnmapRange
<1> DEFINE W == [k \in 0 .. 2 |-> IF k = 0 THEN s
                                  ELSE IF k = 1 THEN Turn(s, 1) ELSE Turn(Turn(s, 1), 2)]
<1> HIDE DEF Turn
<1>2. W = [k \in 0 .. 2 |-> Body(W, k)]
  <2>1. W[0] = s /\ W[1] = Turn(s, 1) /\ W[2] = Turn(W[1], 2)
    OBVIOUS
  <2>2. \A k \in 0 .. 2 : W[k] = Body(W, k)
    BY <2>1
  <2> QED
    BY <2>2
<1>3. Loop = [k \in 0 .. 2 |-> Body(Loop, k)]
  BY <1>2
<1> HIDE DEF Loop
<1>4. Loop[0] = s /\ Loop[1] = Turn(Loop[0], 1) /\ Loop[2] = Turn(Loop[1], 2)
  BY <1>3
<1> QED
  BY <1>1, <1>4 DEF Turn

\* In terms of pages and frames.
LEMMA NextPage ==
    ASSUME NEW v \in Nat
    PROVE  /\ Addr(v) + (1 - 1) * PAGESIZE = Addr(v)
           /\ Addr(v) + (2 - 1) * PAGESIZE = Addr(v + 1)
BY DEF Addr, PAGESIZE

\* map(), in pages and frames.
LEMMA MapPages ==
    ASSUME NEW s, NEW v \in Nat, NEW f \in Nat, NEW perm
    PROVE  /\ MapRange(s, Addr(v), Addr(f), 1, perm)
                 = MapPage(s, Addr(v), Addr(f), perm)
           /\ MapRange(s, Addr(v), Addr(f), 2, perm)
                 = MapPage(MapPage(s, Addr(v), Addr(f), perm),
                           Addr(v + 1), Addr(f + 1), perm)
<1>1. /\ Addr(v) + (1 - 1) * PAGESIZE = Addr(v)
      /\ Addr(v) + (2 - 1) * PAGESIZE = Addr(v + 1)
      /\ Addr(f) + (1 - 1) * PAGESIZE = Addr(f)
      /\ Addr(f) + (2 - 1) * PAGESIZE = Addr(f + 1)
  BY NextPage
<1>2. MapRange(s, Addr(v), Addr(f), 1, perm)
         = MapPage(s, Addr(v) + (1 - 1) * PAGESIZE, Addr(f) + (1 - 1) * PAGESIZE, perm)
  BY MapOne
<1>3. MapRange(s, Addr(v), Addr(f), 2, perm) =
         MapPage(MapPage(s, Addr(v) + (1 - 1) * PAGESIZE,
                            Addr(f) + (1 - 1) * PAGESIZE, perm),
                 Addr(v) + (2 - 1) * PAGESIZE, Addr(f) + (2 - 1) * PAGESIZE, perm)
  BY MapTwo
<1> QED
  BY <1>1, <1>2, <1>3

\* unmap(), in pages.
LEMMA UnmapPages ==
    ASSUME NEW s, NEW v \in Nat, NEW free_them
    PROVE  /\ UnmapRange(s, Addr(v), 1, free_them) = UnmapPage(s, Addr(v), free_them)
           /\ UnmapRange(s, Addr(v), 2, free_them) =
                 UnmapPage(UnmapPage(s, Addr(v), free_them), Addr(v + 1), free_them)
<1>1. /\ Addr(v) + (1 - 1) * PAGESIZE = Addr(v)
      /\ Addr(v) + (2 - 1) * PAGESIZE = Addr(v + 1)
  BY NextPage
<1>2. UnmapRange(s, Addr(v), 1, free_them)
         = UnmapPage(s, Addr(v) + (1 - 1) * PAGESIZE, free_them)
  BY UnmapOne
<1>3. UnmapRange(s, Addr(v), 2, free_them) =
         UnmapPage(UnmapPage(s, Addr(v) + (1 - 1) * PAGESIZE, free_them),
                   Addr(v) + (2 - 1) * PAGESIZE, free_them)
  BY UnmapTwo
<1> QED
  BY <1>1, <1>2, <1>3

-----------------------------------------------------------------------------
(* The turns of the loops.                                                  *)

Okay(m, fr)   == [mem |-> m, free |-> fr, ok |-> TRUE]
Failed(m, fr) == [mem |-> m, free |-> fr, ok |-> FALSE]

\* The fields of a state of memory and heap.
LEMMA Fields ==
    ASSUME NEW m, NEW fr
    PROVE  /\ Okay(m, fr).mem = m /\ Okay(m, fr).free = fr /\ Okay(m, fr).ok
           /\ Failed(m, fr).mem = m /\ Failed(m, fr).free = fr /\ ~Failed(m, fr).ok
           /\ [Okay(m, fr) EXCEPT !.ok = FALSE] = Failed(m, fr)
<1>1. /\ Okay(m, fr).mem = m /\ Okay(m, fr).free = fr
      /\ Failed(m, fr).mem = m /\ Failed(m, fr).free = fr
  BY DEF Okay, Failed
<1>2. Okay(m, fr).ok /\ ~Failed(m, fr).ok
  BY DEF Okay, Failed
<1>3. [Okay(m, fr) EXCEPT !.ok = FALSE] = Failed(m, fr)
  <2>1. PICK a, b : a = TRUE /\ b = FALSE
    OBVIOUS
  <2>2. [[mem |-> m, free |-> fr, ok |-> a] EXCEPT !.ok = b] = [mem |-> m, free |-> fr, ok |-> b]
    OBVIOUS
  <2> QED
    BY <2>1, <2>2 DEF Okay, Failed
<1> QED
  BY <1>1, <1>2, <1>3, Zenon

\* The heap hands out a frame that is free.
LEMMA LeastOfIn ==
    ASSUME NEW S, S \subseteq Nat, S # {}
    PROVE  LeastOf(S) \in S
<1> DEFINE R == OpToRel(<, Nat)
<1>1. IsWellFoundedOn(R, Nat)
  BY NatLessThanWellFounded
<1>2. \A a, b \in Nat : a < b => <<a, b>> \in R
  BY DEF OpToRel
<1> HIDE DEF R
<1>3. PICK x \in S : \A y \in S : ~(<<y, x>> \in R)
  BY <1>1, WFMin
<1>4. \A y \in S : x <= y
  <2> SUFFICES ASSUME NEW y \in S PROVE ~(y < x)
    OBVIOUS
  <2> QED
    BY <1>2, <1>3
<1> QED
  BY <1>4 DEF LeastOf

\* The entry of a page in the root.
LEMMA RootPteFacts ==
    ASSUME NEW m, NEW fr, NEW out, RootGood(root, m, out), NEW v \in Pages
    PROVE  /\ RootPte(Okay(m, fr), Addr(v)).v <=> m[root][Hi(v)] # 0
           /\ m[root][Hi(v)] # 0 =>
                 RootPte(Okay(m, fr), Addr(v)).ppn = TableAt(root, m, Hi(v))
<1> DEFINE w == m[root][Hi(v)]
<1>1. RootPte(Okay(m, fr), Addr(v)) = Pte(w)
  BY VpnStart, Fields DEF RootPte
<1>2. Hi(v) \in Index
  BY PageFacts
<1>3. CASE w = 0
  <2>1. ~Pte(w).v
    BY <1>3, PteZero
  <2> QED
    BY <1>1, <1>3, <2>1
<1>4. CASE w # 0
  <2>1. TableAt(root, m, Hi(v)) \in Heap /\ w = Word(TableAt(root, m, Hi(v)), 0)
    BY <1>2, <1>4, TableFacts
  <2>2. TableAt(root, m, Hi(v)) \in Nat /\ 0 \in {0, 10, 30}
    BY <2>1, Sizes
  <2>3. Pte(w).v /\ Pte(w).ppn = TableAt(root, m, Hi(v))
    BY <2>1, <2>2, PteFacts
  <2> QED
    BY <1>1, <1>4, <2>3
<1> QED
  BY <1>3, <1>4

\* walk: there is no memory for a table, or the page has one afterwards and
\* no translation has changed.
LEMMA WalkFacts ==
    ASSUME NEW m, NEW fr, NEW out, Good(root, m, out), fr \subseteq out, NEW v \in Pages
    PROVE  \/ WalkAlloc(Okay(m, fr), Addr(v)) = Failed(m, fr)
           \/ \E n, fn, less :
                 /\ WalkAlloc(Okay(m, fr), Addr(v)) = Okay(n, fn)
                 /\ fn \subseteq fr /\ less = out \ (fr \ fn) /\ Good(root, n, less)
                 /\ n[root][Hi(v)] # 0 /\ SameView(root, m, n)
<1> DEFINE s == Okay(m, fr)
           va == Addr(v)
           f == LeastOf(fr)
<1>1. RootGood(root, m, out) /\ out \in SUBSET Heap /\ Hi(v) \in Index
  BY PageFacts DEF Good, RootGood
<1>2. RootPte(s, va).v <=> m[root][Hi(v)] # 0
  BY <1>1, RootPteFacts
<1>3. s.ok /\ s.free = fr /\ s.mem = m
  BY Fields
<1> HIDE DEF s, va
<1>4. CASE m[root][Hi(v)] # 0
  <2>1. WalkAlloc(s, va) = s
    BY <1>2, <1>4 DEF WalkAlloc
  <2>2. fr \ fr = {} /\ out \ {} = out
    OBVIOUS
  <2>3. s = Okay(m, fr)
    BY DEF s
  <2> QED
    BY <1>4, <2>1, <2>2, <2>3 DEF va, SameView
<1>5. CASE m[root][Hi(v)] = 0 /\ fr = {}
  <2>1. WalkAlloc(s, va) = [s EXCEPT !.ok = FALSE]
    <3>1. ~(~s.ok \/ RootPte(s, va).v) /\ s.free = {}
      BY <1>2, <1>3, <1>5
    <3> QED
      BY <3>1 DEF WalkAlloc
  <2>2. [s EXCEPT !.ok = FALSE] = Failed(m, fr)
    BY Fields DEF s
  <2> QED
    BY <2>1, <2>2 DEF s, va
<1>6. CASE m[root][Hi(v)] = 0 /\ fr # {}
  <2>0. PICK n : n = Link(m, root, Hi(v), f)
    OBVIOUS
  <2>1. f \in fr
    BY <1>1, <1>6, Sizes, LeastOfIn
  <2>2. f \in out /\ f \in Nat /\ f \in Heap
    BY <1>1, <2>1, Sizes
  <2>3. Entry(Addr(f), 0) = Word(f, 0)
    BY <2>2, EntryIsWord
  <2>4. Vpn1(va) = Hi(v)
    BY VpnStart DEF va
  <2>5. WalkAlloc(s, va) = Okay(n, fr \ {f})
    <3>1. WalkAlloc(s, va) =
             [s EXCEPT !.free = @ \ {f},
                       !.mem = [@ EXCEPT ![f] = Zero, ![root][Vpn1(va)] = Entry(Addr(f), 0)]]
      BY <1>2, <1>3, <1>6 DEF WalkAlloc, NewTable, Addr
    <3> QED
      BY <2>0, <2>3, <2>4, <3>1 DEF s, Okay, Link
  <2>6. PICK less : less = out \ {f} /\ Good(root, n, less) /\ n[root][Hi(v)] # 0
                      /\ SameView(root, m, n)
    <3>1. PICK g \in out : g = f
      BY <2>2
    <3>2. PICK i \in Index : i = Hi(v)
      BY <1>1
    <3>3. PICK r, less : r = root /\ less = out \ {g}
      OBVIOUS
    <3>4. Good(r, m, out) /\ m[r][i] = 0 /\ n = Link(m, r, i, g) /\ less = out \ {g}
      BY <1>6, <2>0, <3>1, <3>2, <3>3
    <3>5. Good(r, n, less) /\ n[r][i] # 0 /\ SameView(r, m, n)
      BY ONLY g \in out, i \in Index, <3>4, AddTable
    <3> QED
      BY <3>1, <3>2, <3>3, <3>5
  <2>7. fr \ (fr \ {f}) = {f} /\ fr \ {f} \subseteq fr
    BY <2>1
  <2> QED
    BY <2>5, <2>6, <2>7 DEF s, va
<1> QED
  BY <1>4, <1>5, <1>6

\* What may be mapped, with the frames that are free and those that are not
\* part of the tree: a page of the heap, or a page of the image.
MayMap(f, perm, fr, out) ==
    \/ perm = UserPerm /\ f \notin fr /\ out = fr \cup {f}
    \/ perm = PTE_RX /\ f \in {Static, Static + 1} /\ out = fr

\* Such a frame and its rights make a word.
LEMMA MayMapFacts ==
    ASSUME NEW f, NEW perm, NEW fr, NEW out, MayMap(f, perm, fr, out), out \subseteq Heap
    PROVE  f \in Nat /\ perm \in {0, 10, 30} /\ fr \subseteq out
<1>1. CASE perm = UserPerm /\ f \notin fr /\ out = fr \cup {f}
  BY <1>1, PermValues, Sizes
<1>2. CASE perm = PTE_RX /\ f \in {Static, Static + 1} /\ out = fr
  BY <1>2, PermValues, StaticFacts
<1> QED
  BY <1>1, <1>2 DEF MayMap

\* Once walk() has taken its table and the page is mapped, what is left is free.
LEMMA MayMapRest ==
    ASSUME NEW f, NEW perm, NEW fr, NEW out, NEW fn, NEW less,
           MayMap(f, perm, fr, out), out \subseteq Heap, fn \subseteq fr, less = out \ (fr \ fn)
    PROVE  /\ less \ {f} = fn
           /\ \/ perm = UserPerm /\ f \in less
              \/ perm = PTE_RX /\ f \in {Static, Static + 1}
<1>1. CASE perm = UserPerm /\ f \notin fr /\ out = fr \cup {f}
  BY <1>1
<1>2. CASE perm = PTE_RX /\ f \in {Static, Static + 1} /\ out = fr
  <2>1. f \notin fn
    BY <1>2, StaticFacts
  <2> QED
    BY <1>2, <2>1
<1> QED
  BY <1>1, <1>2 DEF MayMap

\* The word that map() writes.
LEMMA MapWrites ==
    ASSUME NEW s, NEW n, NEW fn, NEW v \in Pages, NEW f \in Nat, NEW perm \in {0, 10, 30},
           NEW out, RootGood(root, n, out), n[root][Hi(v)] # 0,
           WalkAlloc(s, Addr(v)) = Okay(n, fn)
    PROVE  MapPage(s, Addr(v), Addr(f), perm) =
               Okay(Write(n, TableAt(root, n, Hi(v)), Lo(v), Word(f, perm)), fn)
<1> DEFINE t == Okay(n, fn)
<1>1. t.ok
  BY Fields
<1>2. RootPte(t, Addr(v)).ppn = TableAt(root, n, Hi(v))
  BY RootPteFacts
<1>3. Vpn0(Addr(v)) = Lo(v)
  BY VpnStart
<1>4. Entry(Addr(f), perm) = Word(f, perm)
  BY EntryIsWord
<1> HIDE DEF t
<1>5. MapPage(s, Addr(v), Addr(f), perm) =
         [t EXCEPT !.mem[TableAt(root, n, Hi(v))][Lo(v)] = Word(f, perm)]
  BY <1>1, <1>2, <1>3, <1>4 DEF MapPage, t
<1> QED
  BY <1>5 DEF t, Okay, Write

\* map: there is no memory for a table, or the page is mapped and no other
\* translation has changed.
LEMMA MapPageFacts ==
    ASSUME NEW m, NEW fr, NEW out, NEW v \in Pages, NEW f, NEW perm,
           Good(root, m, out), MayMap(f, perm, fr, out), View(root, m, v) = <<>>
    PROVE  \/ MapPage(Okay(m, fr), Addr(v), Addr(f), perm) = Failed(m, fr)
           \/ \E n, fn :
                 /\ MapPage(Okay(m, fr), Addr(v), Addr(f), perm)
                       = Okay(n, fn)
                 /\ fn \subseteq fr /\ Good(root, n, fn) /\ View(root, n, v) = <<f, perm>>
                 /\ SameElse(root, m, n, Hi(v), Lo(v))
<1>1. out \subseteq Heap
  BY DEF Good, RootGood
<1>2. f \in Nat /\ perm \in {0, 10, 30} /\ fr \subseteq out
  BY <1>1, MayMapFacts
<1>3. CASE WalkAlloc(Okay(m, fr), Addr(v)) = Failed(m, fr)
  <2>1. MapPage(Okay(m, fr), Addr(v), Addr(f), perm) = Failed(m, fr)
    BY <1>3, Fields DEF MapPage
  <2> QED
    BY <2>1
<1>4. ASSUME NEW n, NEW fn, NEW less,
             WalkAlloc(Okay(m, fr), Addr(v)) = Okay(n, fn), fn \subseteq fr, less = out \ (fr \ fn),
             Good(root, n, less), n[root][Hi(v)] # 0, SameView(root, m, n)
      PROVE  \E x : /\ MapPage(Okay(m, fr), Addr(v), Addr(f), perm) = Okay(x, fn)
                    /\ Good(root, x, fn) /\ View(root, x, v) = <<f, perm>>
                    /\ SameElse(root, m, x, Hi(v), Lo(v))
  <2>1. RootGood(root, n, less)
    BY <1>4 DEF Good
  <2>2. PICK r, x : r = root /\ x = Write(n, TableAt(r, n, Hi(v)), Lo(v), Word(f, perm))
    OBVIOUS
  <2>3. MapPage(Okay(m, fr), Addr(v), Addr(f), perm) = Okay(x, fn)
    BY ONLY <1>2, <1>4, <2>1, <2>2, v \in Pages, MapWrites
  <2>4. PICK i \in Index, j \in Index : i = Hi(v) /\ j = Lo(v)
    BY PageFacts
  <2>5. Leaf(r, n, i, j) = 0
    <3>1. ViewAt(r, n, i, j) = <<>>
      BY <1>4, <2>2, <2>4 DEF SameView, View
    <3> QED
      BY <1>4, <2>2, <2>4, <3>1 DEF ViewAt
  <2>6. /\ fn = less \ {f}
        /\ \/ perm = UserPerm /\ f \in less
           \/ perm = PTE_RX /\ f \in {Static, Static + 1}
    BY <1>1, <1>4, MayMapRest
  <2>7. Good(r, n, less) /\ n[r][i] # 0 /\ x = Write(n, TableAt(r, n, i), j, Word(f, perm))
    BY <1>4, <2>2, <2>4
  <2>8. Good(r, x, fn) /\ ViewAt(r, x, i, j) = <<f, perm>> /\ SameElse(r, n, x, i, j)
    BY ONLY i \in Index, j \in Index, <2>5, <2>6, <2>7, SetLeaf
  <2>9. SameElse(r, m, x, i, j)
    BY <1>4, <2>2, <2>8 DEF SameElse, SameView
  <2> QED
    BY <2>2, <2>3, <2>4, <2>8, <2>9 DEF View
<1> QED
  <2>1. \/ WalkAlloc(Okay(m, fr), Addr(v)) = Failed(m, fr)
        \/ \E n, fn, less :
              /\ WalkAlloc(Okay(m, fr), Addr(v)) = Okay(n, fn)
              /\ fn \subseteq fr /\ less = out \ (fr \ fn) /\ Good(root, n, less)
              /\ n[root][Hi(v)] # 0 /\ SameView(root, m, n)
    BY ONLY v \in Pages, Good(root, m, out), <1>2, WalkFacts
  <2>2. CASE \E n, fn, less :
                /\ WalkAlloc(Okay(m, fr), Addr(v)) = Okay(n, fn)
                /\ fn \subseteq fr /\ less = out \ (fr \ fn) /\ Good(root, n, less)
                /\ n[root][Hi(v)] # 0 /\ SameView(root, m, n)
    <3>1. \E n, fn : /\ MapPage(Okay(m, fr), Addr(v), Addr(f), perm) = Okay(n, fn)
                     /\ fn \subseteq fr /\ Good(root, n, fn) /\ View(root, n, v) = <<f, perm>>
                     /\ SameElse(root, m, n, Hi(v), Lo(v))
      BY <1>4, <2>2, Zenon
    <3> QED
      BY <3>1
  <2> QED
    BY <1>3, <2>1, <2>2

\* A page is not mapped once an allocation has failed.
LEMMA MapPageFailed ==
    ASSUME NEW m, NEW fr, NEW va, NEW pa, NEW perm
    PROVE  MapPage(Failed(m, fr), va, pa, perm) = Failed(m, fr)
<1>1. ~Failed(m, fr).ok
  BY Fields
<1>2. WalkAlloc(Failed(m, fr), va) = Failed(m, fr)
  BY <1>1 DEF WalkAlloc
<1> QED
  BY <1>1, <1>2 DEF MapPage

\* What a mapped place holds.
Page(r, m, out, w, g, perm) ==
    /\ w = Word(g, perm) /\ g = FrameOf(w) /\ g \in Nat
    /\ \/ perm = 30 /\ UserWord(r, m, out, w) /\ g \in Heap
       \/ perm = 10 /\ g \in {Static, Static + 1} /\ g \notin Heap

\* Place i, j holds a page.
Holds(r, m, out, i, j) ==
    \E g, perm : /\ Page(r, m, out, Leaf(r, m, i, j), g, perm)
                 /\ ViewAt(r, m, i, j) = <<g, perm>>

\* A word that is not zero is a page, and the place means its frame and rights.
LEMMA LeafParts ==
    ASSUME NEW r, NEW m, NEW out, NEW i \in Index, NEW j \in Index,
           Good(r, m, out), m[r][i] # 0, Leaf(r, m, i, j) # 0
    PROVE  Holds(r, m, out, i, j)
<1>0. PICK w, g, perm : w = Leaf(r, m, i, j) /\ g = FrameOf(w) /\ perm = PermOf(w)
  OBVIOUS
<1>1. StaticWord(w) \/ UserWord(r, m, out, w)
  BY <1>0 DEF Good, LeavesGood
<1>2. ViewAt(r, m, i, j) = <<g, perm>>
  BY <1>0 DEF ViewAt
<1>3. CASE StaticWord(w)
  <2>1. w = Word(g, 10) /\ g \in {Static, Static + 1} /\ g \in Nat /\ g \notin Heap
    BY <1>0, <1>3, PermValues, StaticFacts DEF StaticWord
  <2>2. perm = 10
    BY <1>0, <2>1, WordParts
  <2>3. Page(r, m, out, w, g, perm)
    BY <1>0, <2>1, <2>2 DEF Page
  <2> QED
    BY <1>0, <1>2, <2>3 DEF Holds
<1>4. CASE UserWord(r, m, out, w)
  <2>1. w = Word(g, 30) /\ g \in Heap /\ g \in Nat
    BY <1>0, <1>4, PermValues, Sizes DEF UserWord
  <2>2. perm = 30
    BY <1>0, <2>1, WordParts
  <2>3. Page(r, m, out, w, g, perm)
    BY <1>0, <1>4, <2>1, <2>2 DEF Page
  <2> QED
    BY <1>0, <1>2, <2>3 DEF Holds
<1> QED
  BY <1>1, <1>3, <1>4

\* A place that is not mapped.
LEMMA NoView ==
    ASSUME NEW r, NEW m, NEW i, NEW j
    PROVE  ViewAt(r, m, i, j) = <<>> <=> m[r][i] = 0 \/ Leaf(r, m, i, j) = 0
BY DEF ViewAt

\* The heap after a page has been unmapped.
Freed(fr, g, perm, free_them) == IF free_them /\ perm = 30 THEN fr \cup {g} ELSE fr

\* The turn of unmap()'s loop when the page has an entry.
LEMMA UnmapWrites ==
    ASSUME NEW m, NEW fr, NEW v \in Pages, NEW free_them \in BOOLEAN, NEW g \in Nat,
           NEW perm \in {10, 30}, NEW n, NEW fn,
           RootGood(root, m, fr), m[root][Hi(v)] # 0, Leaf(root, m, Hi(v), Lo(v)) = Word(g, perm),
           n = Write(m, TableAt(root, m, Hi(v)), Lo(v), 0),
           fn = Freed(fr, g, perm, free_them)
    PROVE  UnmapPage(Okay(m, fr), Addr(v), free_them) = Okay(n, fn)
<1> DEFINE s == Okay(m, fr)
           t == TableAt(root, m, Hi(v))
           w == Word(g, perm)
<1>1. RootPte(s, Addr(v)).v /\ RootPte(s, Addr(v)).ppn = t
  BY RootPteFacts
<1>2. Vpn0(Addr(v)) = Lo(v) /\ s.mem = m
  BY VpnStart, Fields
<1>3. m[t][Lo(v)] = w
  BY DEF Leaf
<1>4. Pte(w).v /\ Pte(w).ppn = g /\ Pte(w).leaf /\ (Pte(w).u <=> perm = 30)
  <2>1. perm \in {0, 10, 30} /\ perm # 0
    OBVIOUS
  <2> QED
    BY <2>1, PteFacts
<1> HIDE DEF s, t, w
<1>5. Pte(s.mem[RootPte(s, Addr(v)).ppn][Vpn0(Addr(v))]) = Pte(w)
  BY <1>1, <1>2, <1>3
<1>6. UnmapPage(s, Addr(v), free_them) =
         [s EXCEPT !.free = IF free_them /\ Pte(w).leaf /\ Pte(w).u THEN @ \cup {Pte(w).ppn} ELSE @,
                   !.mem[t][Lo(v)] = 0]
  BY <1>1, <1>2, <1>4, <1>5 DEF UnmapPage
<1>7. (IF free_them /\ Pte(w).leaf /\ Pte(w).u THEN fr \cup {Pte(w).ppn} ELSE fr) = fn
  BY <1>4 DEF Freed
<1>8. UnmapPage(s, Addr(v), free_them) = [s EXCEPT !.free = fn, !.mem[t][Lo(v)] = 0]
  <2>1. s.free = fr
    BY Fields DEF s
  <2> QED
    BY <1>6, <1>7, <2>1
<1>9. [s EXCEPT !.free = fn, !.mem[t][Lo(v)] = 0] = Okay(n, fn)
  <2>1. n = Write(m, t, Lo(v), 0)
    BY DEF t
  <2> QED
    <3>1. PICK k, j : k = TRUE /\ j = Lo(v)
      OBVIOUS
    <3>2. [[mem |-> m, free |-> fr, ok |-> k] EXCEPT !.free = fn, !.mem[t][j] = 0]
             = [mem |-> [m EXCEPT ![t][j] = 0], free |-> fn, ok |-> k]
      <4>1. [[mem |-> m, free |-> fr, ok |-> k] EXCEPT !.free = fn]
               = [mem |-> m, free |-> fn, ok |-> k]
        OBVIOUS
      <4>2. [[mem |-> m, free |-> fn, ok |-> k] EXCEPT !.mem[t][j] = 0]
               = [mem |-> [m EXCEPT ![t][j] = 0], free |-> fn, ok |-> k]
        OBVIOUS
      <4>3. [[mem |-> m, free |-> fr, ok |-> k] EXCEPT !.free = fn, !.mem[t][j] = 0]
               = [[[mem |-> m, free |-> fr, ok |-> k] EXCEPT !.free = fn] EXCEPT !.mem[t][j] = 0]
        OBVIOUS
      <4> QED
        BY <4>1, <4>2, <4>3
    <3> QED
      BY <2>1, <3>1, <3>2 DEF s, Okay, Write
<1> QED
  BY <1>8, <1>9 DEF s

\* unmap: the page has no translation any more, a user's page has gone back
\* to the heap, and no other translation has changed.
LEMMA UnmapPageFacts ==
    ASSUME NEW m, NEW fr, NEW v \in Pages, NEW free_them \in BOOLEAN, Good(root, m, fr),
           View(root, m, v) # <<>> => (free_them <=> View(root, m, v)[1] \in Heap)
    PROVE  \E n, fn : /\ UnmapPage(Okay(m, fr), Addr(v), free_them) = Okay(n, fn)
                      /\ Good(root, n, fn) /\ View(root, n, v) = <<>>
                      /\ SameElse(root, m, n, Hi(v), Lo(v))
<1> DEFINE s == Okay(m, fr)
<1>1. PICK i \in Index, j \in Index : i = Hi(v) /\ j = Lo(v)
  BY PageFacts
<1>2. RootGood(root, m, fr)
  BY DEF Good
<1>3. ASSUME UnmapPage(s, Addr(v), free_them) = s, View(root, m, v) = <<>>
      PROVE  \E n, fn : /\ UnmapPage(s, Addr(v), free_them) = Okay(n, fn)
                        /\ Good(root, n, fn) /\ View(root, n, v) = <<>>
                        /\ SameElse(root, m, n, Hi(v), Lo(v))
  <2>1. SameElse(root, m, m, Hi(v), Lo(v))
    BY DEF SameElse
  <2> QED
    BY <1>3, <2>1
<1>4. CASE m[root][Hi(v)] = 0
  <2>1. ~RootPte(s, Addr(v)).v
    BY <1>2, <1>4, RootPteFacts
  <2>2. UnmapPage(s, Addr(v), free_them) = s
    BY <2>1 DEF UnmapPage
  <2>3. View(root, m, v) = <<>>
    BY <1>4, NoView DEF View
  <2> QED
    BY <1>3, <2>2, <2>3
<1>5. CASE m[root][Hi(v)] # 0 /\ Leaf(root, m, Hi(v), Lo(v)) = 0
  <2>1. RootPte(s, Addr(v)).ppn = TableAt(root, m, Hi(v)) /\ Vpn0(Addr(v)) = Lo(v) /\ s.mem = m
    BY <1>2, <1>5, RootPteFacts, VpnStart, Fields
  <2>2. s.mem[RootPte(s, Addr(v)).ppn][Vpn0(Addr(v))] = 0
    BY <1>5, <2>1 DEF Leaf
  <2>3. UnmapPage(s, Addr(v), free_them) = s
    BY <2>2, PteZero DEF UnmapPage
  <2>4. View(root, m, v) = <<>>
    BY <1>5, NoView DEF View
  <2> QED
    BY <1>3, <2>3, <2>4
<1>6. CASE m[root][Hi(v)] # 0 /\ Leaf(root, m, Hi(v), Lo(v)) # 0
  <2>1. PICK r : r = root
    OBVIOUS
  <2>2. PICK g, perm : Page(r, m, fr, Leaf(r, m, i, j), g, perm)
                       /\ ViewAt(r, m, i, j) = <<g, perm>>
    <3>1. Good(r, m, fr) /\ m[r][i] # 0 /\ Leaf(r, m, i, j) # 0
      BY <1>1, <1>6, <2>1
    <3>2. Holds(r, m, fr, i, j)
      BY ONLY i \in Index, j \in Index, <3>1, LeafParts
    <3> QED
      BY <3>2 DEF Holds
  <2>3. /\ Leaf(r, m, i, j) = Word(g, perm) /\ g = FrameOf(Leaf(r, m, i, j)) /\ g \in Nat
        /\ \/ perm = 30 /\ g \in Heap
           \/ perm = 10 /\ g \notin Heap
    BY <2>2 DEF Page
  <2>4. PICK n, fn : /\ n = Write(m, TableAt(r, m, i), j, 0)
                     /\ fn = Freed(fr, g, perm, free_them)
    OBVIOUS
  <2>5. UnmapPage(s, Addr(v), free_them) = Okay(n, fn)
    <3>1. Leaf(root, m, Hi(v), Lo(v)) = Word(g, perm) /\ m[root][Hi(v)] # 0
      BY <1>1, <1>6, <2>1, <2>2, <2>3
    <3>2. /\ n = Write(m, TableAt(root, m, Hi(v)), Lo(v), 0)
          /\ fn = Freed(fr, g, perm, free_them)
          /\ g \in Nat /\ perm \in {10, 30}
      BY <1>1, <2>1, <2>3, <2>4
    <3> QED
      BY ONLY <1>2, <3>1, <3>2, v \in Pages, free_them \in BOOLEAN, UnmapWrites
  <2>6. free_them <=> g \in Heap
    <3>1. View(root, m, v) = <<g, perm>> /\ <<g, perm>> # <<>> /\ <<g, perm>>[1] = g
      BY <1>1, <2>1, <2>2 DEF View
    <3> QED
      BY <3>1
  <2>7. fn = fr \cup ({FrameOf(Leaf(r, m, i, j))} \cap Heap)
    BY <2>2, <2>3, <2>4, <2>6 DEF Freed
  <2>8. Good(r, m, fr) /\ m[r][i] # 0 /\ Leaf(r, m, i, j) # 0
    BY <1>1, <1>6, <2>1
  <2>9. Good(r, n, fn) /\ ViewAt(r, n, i, j) = <<>> /\ SameElse(r, m, n, i, j)
    BY ONLY i \in Index, j \in Index, <2>4, <2>7, <2>8, ClearLeaf
  <2> QED
    BY <1>1, <2>1, <2>5, <2>9 DEF View
<1> QED
  BY <1>4, <1>5, <1>6

-----------------------------------------------------------------------------
(* What the hardware sees.                                                  *)

\* Sv32 of a root and a memory.
SvOf(r, m, v) ==
    LET top  == m[r][v \div Entries]
        word == m[top \div FLAGS][v % Entries]
    IN  IF r = Null \/ top % 2 = 0 THEN <<>>
        ELSE IF word % 2 = 0 \/ (word \div 2) % 8 = 0 THEN <<>>
        ELSE <<word \div FLAGS, 2 * ((word \div 2) % 16)>>

\* The hardware's translation is the meaning of the page's place.
LEMMA SvIsView ==
    ASSUME NEW r, NEW m, NEW out, NEW v \in Pages, Good(r, m, out)
    PROVE  SvOf(r, m, v) = View(r, m, v)
<1> DEFINE top == m[r][Hi(v)]
           w   == Leaf(r, m, Hi(v), Lo(v))
<1>1. Hi(v) \in Index /\ Lo(v) \in Index /\ RootGood(r, m, out) /\ r # Null
  BY PageFacts, Sizes DEF Good, RootGood, Null
<1>2. SvOf(r, m, v) = IF top % 2 = 0 \/ w % 2 = 0 \/ (w \div 2) % 8 = 0 THEN <<>>
                      ELSE <<FrameOf(w), PermOf(w)>>
  BY <1>1 DEF SvOf, Leaf, TableAt, FrameOf, PermOf, Hi, Lo
<1>3. View(r, m, v) = IF top = 0 \/ w = 0 THEN <<>> ELSE <<FrameOf(w), PermOf(w)>>
  BY DEF View, ViewAt
<1>4. CASE top = 0
  <2>1. top % 2 = 0
    BY <1>4
  <2> QED
    BY <1>2, <1>3, <1>4, <2>1
<1>5. CASE top # 0 /\ w = 0
  <2>1. w % 2 = 0
    BY <1>5
  <2> QED
    BY <1>2, <1>3, <1>5, <2>1
<1>6. CASE top # 0 /\ w # 0
  <2>1. top % 2 # 0
    <3>1. top = Word(TableAt(r, m, Hi(v)), 0) /\ TableAt(r, m, Hi(v)) \in Nat /\ 0 \in {0, 10, 30}
      BY <1>1, <1>6, TableFacts, Sizes
    <3> QED
      BY <3>1, WordTests
  <2>2. PICK g, perm : Page(r, m, out, w, g, perm)
    <3>1. Holds(r, m, out, Hi(v), Lo(v))
      BY <1>1, <1>6, LeafParts
    <3> QED
      BY <3>1 DEF Holds
  <2>3. w = Word(g, perm) /\ g \in Nat /\ perm \in {0, 10, 30} /\ perm # 0
    BY <2>2 DEF Page
  <2>4. w % 2 # 0 /\ (w \div 2) % 8 # 0
    <3>1. (Word(g, perm) % 2) # 0 /\ ((Word(g, perm) \div 2) % 8 = 0 <=> perm = 0)
      BY <2>3, WordTests
    <3> QED
      BY <2>3, <3>1
  <2> HIDE DEF top, w
  <2> QED
    BY <1>2, <1>3, <1>6, <2>1, <2>4
<1> QED
  BY <1>4, <1>5, <1>6

\* Without a root nothing is translated.
LEMMA SvNull ==
    ASSUME NEW m, NEW v
    PROVE  SvOf(Null, m, v) = <<>>
BY DEF SvOf

\* The other pages have other places.
LEMMA OtherPage ==
    ASSUME NEW r, NEW m, NEW n, NEW u \in Pages, NEW v \in Pages, u # v,
           SameElse(r, m, n, Hi(v), Lo(v))
    PROVE  View(r, n, u) = View(r, m, u)
<1>1. Hi(u) # Hi(v) \/ Lo(u) # Lo(v)
  BY PageUnique
<1>2. Hi(u) \in Index /\ Lo(u) \in Index
  BY PageFacts
<1> QED
  BY <1>1, <1>2 DEF SameElse, View

\* From m to x the pages from v on have been mapped, or unmapped.
Maps(r, m, x, v, n, f, perm) ==
    \A u \in Pages : View(r, x, u) = IF u \in v .. v + n - 1 THEN <<f + (u - v), perm>>
                                     ELSE View(r, m, u)
Unmaps(r, m, x, v, n) ==
    \A u \in Pages : View(r, x, u) = IF u \in v .. v + n - 1 THEN <<>> ELSE View(r, m, u)

\* The pages of a range of up to two.
LEMMA RangePages ==
    ASSUME NEW v \in Pages, NEW u \in Pages
    PROVE  /\ u \notin v .. v + 0 - 1
           /\ u \in v .. v + 1 - 1 <=> u = v
           /\ u \in v .. v + 2 - 1 <=> u = v \/ u = v + 1
BY PageFacts

\* Nothing has been mapped.
LEMMA MapsNone ==
    ASSUME NEW r, NEW m, NEW v \in Pages, NEW f, NEW perm
    PROVE  Maps(r, m, m, v, 0, f, perm)
BY RangePages DEF Maps

\* A page that changed alone has been mapped.
LEMMA MapsOne ==
    ASSUME NEW r, NEW m, NEW x, NEW v \in Pages, NEW f \in Nat, NEW perm,
           View(r, x, v) = <<f, perm>>, SameElse(r, m, x, Hi(v), Lo(v))
    PROVE  Maps(r, m, x, v, 1, f, perm)
<1> SUFFICES ASSUME NEW u \in Pages
             PROVE  View(r, x, u) = IF u \in v .. v + 1 - 1 THEN <<f + (u - v), perm>>
                                    ELSE View(r, m, u)
  BY DEF Maps
<1>1. f + (v - v) = f
  BY PageFacts
<1>2. CASE u = v
  BY <1>1, <1>2, RangePages
<1>3. CASE u # v
  <2>1. View(r, x, u) = View(r, m, u)
    BY <1>3, OtherPage
  <2> QED
    BY <1>3, <2>1, RangePages
<1> QED
  BY <1>2, <1>3

\* So has the range when its second page follows.
LEMMA MapsTwo ==
    ASSUME NEW r, NEW m, NEW x, NEW y, NEW v \in Pages, v + 1 \in Pages, NEW f \in Nat, NEW perm,
           Maps(r, m, x, v, 1, f, perm),
           View(r, y, v + 1) = <<f + 1, perm>>, SameElse(r, x, y, Hi(v + 1), Lo(v + 1))
    PROVE  Maps(r, m, y, v, 2, f, perm)
<1> SUFFICES ASSUME NEW u \in Pages
             PROVE  View(r, y, u) = IF u \in v .. v + 2 - 1 THEN <<f + (u - v), perm>>
                                    ELSE View(r, m, u)
  BY DEF Maps
<1>1. f + (v - v) = f /\ f + ((v + 1) - v) = f + 1 /\ v # v + 1
  BY PageFacts
<1>2. View(r, x, u) = IF u \in v .. v + 1 - 1 THEN <<f + (u - v), perm>> ELSE View(r, m, u)
  BY DEF Maps
<1>3. CASE u = v + 1
  BY <1>1, <1>3, RangePages
<1>4. CASE u # v + 1
  <2>1. View(r, y, u) = View(r, x, u)
    BY <1>4, OtherPage
  <2>2. u \in v .. v + 2 - 1 <=> u \in v .. v + 1 - 1
    BY <1>4, RangePages
  <2> QED
    BY <1>2, <2>1, <2>2
<1> QED
  BY <1>3, <1>4

\* A page that changed alone has been unmapped.
LEMMA UnmapsOne ==
    ASSUME NEW r, NEW m, NEW x, NEW v \in Pages,
           View(r, x, v) = <<>>, SameElse(r, m, x, Hi(v), Lo(v))
    PROVE  Unmaps(r, m, x, v, 1)
<1> SUFFICES ASSUME NEW u \in Pages
             PROVE  View(r, x, u) = IF u \in v .. v + 1 - 1 THEN <<>> ELSE View(r, m, u)
  BY DEF Unmaps
<1>1. CASE u = v
  BY <1>1, RangePages
<1>2. CASE u # v
  <2>1. View(r, x, u) = View(r, m, u)
    BY <1>2, OtherPage
  <2> QED
    BY <1>2, <2>1, RangePages
<1> QED
  BY <1>1, <1>2

\* So has the range when its second page follows.
LEMMA UnmapsTwo ==
    ASSUME NEW r, NEW m, NEW x, NEW y, NEW v \in Pages, v + 1 \in Pages,
           Unmaps(r, m, x, v, 1),
           View(r, y, v + 1) = <<>>, SameElse(r, x, y, Hi(v + 1), Lo(v + 1))
    PROVE  Unmaps(r, m, y, v, 2)
<1> SUFFICES ASSUME NEW u \in Pages
             PROVE  View(r, y, u) = IF u \in v .. v + 2 - 1 THEN <<>> ELSE View(r, m, u)
  BY DEF Unmaps
<1>1. View(r, x, u) = IF u \in v .. v + 1 - 1 THEN <<>> ELSE View(r, m, u)
  BY DEF Unmaps
<1>2. CASE u = v + 1
  BY <1>2, RangePages
<1>3. CASE u # v + 1
  <2>1. View(r, y, u) = View(r, x, u)
    BY <1>3, OtherPage
  <2>2. u \in v .. v + 2 - 1 <=> u \in v .. v + 1 - 1
    BY <1>3, RangePages
  <2> QED
    BY <1>1, <2>1, <2>2
<1> QED
  BY <1>2, <1>3

-----------------------------------------------------------------------------
(* The ranges.                                                              *)

\* What map() of n pages of the image may leave behind.
Outcome(s, m, v, n) ==
    \E x, fx :
       /\ Good(root, x, fx)
       /\ \/ s = Okay(x, fx) /\ Maps(root, m, x, v, n, Static, PTE_RX)
          \/ s = Failed(x, fx) /\ \E k \in 0 .. n - 1 : Maps(root, m, x, v, k, Static, PTE_RX)

\* One page of the image.
LEMMA StaticOne ==
    ASSUME NEW m, NEW fr, NEW v \in Pages, Good(root, m, fr), View(root, m, v) = <<>>
    PROVE  Outcome(MapPage(Okay(m, fr), Addr(v), Addr(Static), PTE_RX), m, v, 1)
<1> DEFINE s == MapPage(Okay(m, fr), Addr(v), Addr(Static), PTE_RX)
<1>1. MayMap(Static, PTE_RX, fr, fr) /\ Static \in Nat
  BY Sizes DEF MayMap
<1>2. \/ s = Failed(m, fr)
      \/ \E n, fn : /\ s = Okay(n, fn)
                    /\ fn \subseteq fr /\ Good(root, n, fn) /\ View(root, n, v) = <<Static, PTE_RX>>
                    /\ SameElse(root, m, n, Hi(v), Lo(v))
  BY <1>1, MapPageFacts
<1> HIDE DEF s
<1>3. CASE s = Failed(m, fr)
  <2>1. Maps(root, m, m, v, 0, Static, PTE_RX) /\ 0 \in 0 .. 1 - 1
    BY MapsNone
  <2> QED
    BY <1>3, <2>1 DEF Outcome, s
<1>4. ASSUME NEW n, NEW fn, s = Okay(n, fn), Good(root, n, fn),
             View(root, n, v) = <<Static, PTE_RX>>, SameElse(root, m, n, Hi(v), Lo(v))
      PROVE  Outcome(s, m, v, 1)
  <2>1. Maps(root, m, n, v, 1, Static, PTE_RX)
    BY <1>1, <1>4, MapsOne
  <2> QED
    BY <1>4, <2>1 DEF Outcome
<1> QED
  BY <1>2, <1>3, <1>4 DEF s

\* Two pages: the second may fail after the first, or both.
LEMMA StaticTwo ==
    ASSUME NEW m, NEW fr, NEW v \in Pages, v + 1 \in Pages, Good(root, m, fr),
           View(root, m, v) = <<>>, View(root, m, v + 1) = <<>>
    PROVE  Outcome(MapPage(MapPage(Okay(m, fr), Addr(v), Addr(Static), PTE_RX),
                           Addr(v + 1), Addr(Static + 1), PTE_RX), m, v, 2)
<1> DEFINE t == MapPage(Okay(m, fr), Addr(v), Addr(Static), PTE_RX)
           s == MapPage(t, Addr(v + 1), Addr(Static + 1), PTE_RX)
<1>1. Static \in Nat /\ v + 1 # v /\ 0 \in 0 .. 2 - 1 /\ 1 \in 0 .. 2 - 1
  BY Sizes, PageFacts
<1>2. MayMap(Static, PTE_RX, fr, fr) /\ \A fn : MayMap(Static + 1, PTE_RX, fn, fn)
  BY DEF MayMap
<1>3. \/ t = Failed(m, fr)
      \/ \E n, fn : /\ t = Okay(n, fn)
                    /\ fn \subseteq fr /\ Good(root, n, fn) /\ View(root, n, v) = <<Static, PTE_RX>>
                    /\ SameElse(root, m, n, Hi(v), Lo(v))
  BY <1>2, MapPageFacts
<1> HIDE DEF t
<1>4. CASE t = Failed(m, fr)
  <2>1. s = Failed(m, fr)
    BY <1>4, MapPageFailed
  <2>2. Maps(root, m, m, v, 0, Static, PTE_RX)
    BY MapsNone
  <2> QED
    BY <1>1, <2>1, <2>2 DEF Outcome, t
<1>5. ASSUME NEW n, NEW fn, t = Okay(n, fn), Good(root, n, fn),
             View(root, n, v) = <<Static, PTE_RX>>, SameElse(root, m, n, Hi(v), Lo(v))
      PROVE  Outcome(s, m, v, 2)
  <2>1. Maps(root, m, n, v, 1, Static, PTE_RX)
    BY <1>1, <1>5, MapsOne
  <2>2. View(root, n, v + 1) = <<>>
    BY <1>1, <1>5, OtherPage
  <2>3. PICK u, g : u \in Pages /\ u = v + 1 /\ g = Static + 1
    OBVIOUS
  <2> u \in Pages
    BY <2>3
  <2>4. MayMap(g, PTE_RX, fn, fn) /\ View(root, n, u) = <<>>
    BY <1>2, <2>2, <2>3
  <2>5. \/ s = Failed(n, fn)
        \/ \E y, fy : /\ s = Okay(y, fy)
                      /\ fy \subseteq fn /\ Good(root, y, fy)
                      /\ View(root, y, u) = <<g, PTE_RX>>
                      /\ SameElse(root, n, y, Hi(u), Lo(u))
    <3>1. s = MapPage(Okay(n, fn), Addr(u), Addr(g), PTE_RX)
      BY <1>5, <2>3
    <3> QED
      BY <1>5, <2>4, <3>1, MapPageFacts
  <2> HIDE DEF s
  <2>6. CASE s = Failed(n, fn)
    BY <1>1, <1>5, <2>1, <2>6 DEF Outcome
  <2>7. ASSUME NEW y, NEW fy, s = Okay(y, fy), Good(root, y, fy),
               View(root, y, u) = <<g, PTE_RX>>, SameElse(root, n, y, Hi(u), Lo(u))
        PROVE  Outcome(s, m, v, 2)
    <3>1. Maps(root, m, y, v, 2, Static, PTE_RX)
      BY <1>1, <2>1, <2>3, <2>7, MapsTwo
    <3> QED
      BY <2>7, <3>1 DEF Outcome
  <2> QED
    BY <2>5, <2>6, <2>7
<1> QED
  BY <1>3, <1>4, <1>5 DEF t

\* unmap() of a range leaves the tree in order.
UnmapOutcome(s, m, v, n) ==
    \E x, fx : s = Okay(x, fx) /\ Good(root, x, fx) /\ Unmaps(root, m, x, v, n)

\* One page is unmapped.
LEMMA UnmapOneOut ==
    ASSUME NEW m, NEW fr, NEW v \in Pages, NEW free_them \in BOOLEAN, Good(root, m, fr),
           View(root, m, v) # <<>> => (free_them <=> View(root, m, v)[1] \in Heap)
    PROVE  UnmapOutcome(UnmapPage(Okay(m, fr), Addr(v), free_them), m, v, 1)
<1>1. PICK n, fn : /\ UnmapPage(Okay(m, fr), Addr(v), free_them) = Okay(n, fn)
                   /\ Good(root, n, fn) /\ View(root, n, v) = <<>>
                   /\ SameElse(root, m, n, Hi(v), Lo(v))
  BY UnmapPageFacts
<1>2. Unmaps(root, m, n, v, 1)
  BY <1>1, UnmapsOne
<1> QED
  BY <1>1, <1>2 DEF UnmapOutcome

\* Two pages are unmapped.
LEMMA UnmapTwoOut ==
    ASSUME NEW m, NEW fr, NEW v \in Pages, v + 1 \in Pages, NEW free_them \in BOOLEAN,
           Good(root, m, fr),
           View(root, m, v) # <<>> => (free_them <=> View(root, m, v)[1] \in Heap),
           View(root, m, v + 1) # <<>> => (free_them <=> View(root, m, v + 1)[1] \in Heap)
    PROVE  UnmapOutcome(UnmapPage(UnmapPage(Okay(m, fr), Addr(v), free_them),
                                  Addr(v + 1), free_them), m, v, 2)
<1>1. PICK n, fn : /\ UnmapPage(Okay(m, fr), Addr(v), free_them) = Okay(n, fn)
                   /\ Good(root, n, fn) /\ View(root, n, v) = <<>>
                   /\ SameElse(root, m, n, Hi(v), Lo(v))
  BY UnmapPageFacts
<1>2. Unmaps(root, m, n, v, 1)
  BY <1>1, UnmapsOne
<1>3. PICK u \in Pages : u = v + 1
  OBVIOUS
<1>4. View(root, n, u) = View(root, m, u)
  <2>1. u # v
    BY <1>3, PageFacts
  <2> QED
    BY <1>1, <2>1, OtherPage
<1>5. View(root, n, u) # <<>> => (free_them <=> View(root, n, u)[1] \in Heap)
  BY <1>3, <1>4
<1>6. PICK y, fy : /\ UnmapPage(Okay(n, fn), Addr(u), free_them) = Okay(y, fy)
                   /\ Good(root, y, fy) /\ View(root, y, u) = <<>>
                   /\ SameElse(root, n, y, Hi(u), Lo(u))
  BY <1>1, <1>5, UnmapPageFacts
<1>7. Unmaps(root, m, y, v, 2)
  BY <1>2, <1>3, <1>6, UnmapsTwo
<1> QED
  BY <1>1, <1>3, <1>6, <1>7 DEF UnmapOutcome

-----------------------------------------------------------------------------
(* The actions.                                                             *)

Space(r, m) == [v \in Pages |-> SvOf(r, m, v)]

\* The refinement mapping, in this state ...
LEMMA SpaceNow ==
    /\ \A v : Sv32(v) = SvOf(root, mem, v)
    /\ [v \in Pages |-> Sv32(v)] = Space(root, mem)
BY DEF Sv32, SvOf, Space

\* ... and in the next one.
LEMMA SpaceNext == [v \in Pages |-> Sv32(v)]' = Space(root', mem')
BY DEF Sv32, SvOf, Space

\* The address space in which n pages from v on have been mapped.
NewSpace(r, m, v, n, f, perm) ==
    [u \in Pages |-> IF u \in v .. v + n - 1 THEN <<f + (u - v), perm>> ELSE Space(r, m)[u]]

\* Mapping changes the address space as AddressSpace says.
LEMMA SpaceMaps ==
    ASSUME NEW r, NEW m, NEW x, NEW fm, NEW fx, NEW v, NEW n, NEW f, NEW perm,
           Good(r, m, fm), Good(r, x, fx), Maps(r, m, x, v, n, f, perm)
    PROVE  Space(r, x) = NewSpace(r, m, v, n, f, perm)
<1>1. ASSUME NEW u \in Pages
      PROVE  SvOf(r, x, u) = IF u \in v .. v + n - 1 THEN <<f + (u - v), perm>> ELSE SvOf(r, m, u)
  <2>1. SvOf(r, x, u) = View(r, x, u) /\ SvOf(r, m, u) = View(r, m, u)
    BY SvIsView
  <2>2. View(r, x, u) = IF u \in v .. v + n - 1 THEN <<f + (u - v), perm>> ELSE View(r, m, u)
    BY DEF Maps
  <2> QED
    BY <2>1, <2>2
<1> QED
  BY <1>1 DEF Space, NewSpace

\* So does unmapping.
LEMMA SpaceUnmaps ==
    ASSUME NEW r, NEW m, NEW x, NEW fm, NEW fx, NEW v, NEW n,
           Good(r, m, fm), Good(r, x, fx), Unmaps(r, m, x, v, n)
    PROVE  Space(r, x) = [u \in Pages |-> IF u \in v .. v + n - 1 THEN <<>> ELSE Space(r, m)[u]]
<1>1. ASSUME NEW u \in Pages
      PROVE  SvOf(r, x, u) = IF u \in v .. v + n - 1 THEN <<>> ELSE SvOf(r, m, u)
  <2>1. SvOf(r, x, u) = View(r, x, u) /\ SvOf(r, m, u) = View(r, m, u)
    BY SvIsView
  <2>2. View(r, x, u) = IF u \in v .. v + n - 1 THEN <<>> ELSE View(r, m, u)
    BY DEF Unmaps
  <2> QED
    BY <2>1, <2>2
<1> QED
  BY <1>1 DEF Space

\* If every place means the same, the address space is the same.
LEMMA SpaceSame ==
    ASSUME NEW r, NEW m, NEW x, NEW fm, NEW fx,
           Good(r, m, fm), Good(r, x, fx), SameView(r, m, x)
    PROVE  Space(r, x) = Space(r, m)
<1>1. ASSUME NEW u \in Pages PROVE SvOf(r, x, u) = SvOf(r, m, u)
  <2>1. SvOf(r, x, u) = View(r, x, u) /\ SvOf(r, m, u) = View(r, m, u)
    BY SvIsView
  <2>2. Hi(u) \in Index /\ Lo(u) \in Index
    BY PageFacts
  <2>3. View(r, x, u) = View(r, m, u)
    BY <2>2 DEF View, SameView
  <2> QED
    BY <2>1, <2>3
<1> QED
  BY <1>1 DEF Space

\* An address space without a translation.
LEMMA SpaceEmpty ==
    ASSUME NEW r, NEW m, \A v \in Pages : SvOf(r, m, v) = <<>>
    PROVE  Space(r, m) = [v \in Pages |-> <<>>]
BY DEF Space

\* A first page of a range, and the one behind it.
LEMMA StartFacts ==
    ASSUME NEW v \in VStart
    PROVE  v \in Pages /\ v + 1 \in Pages /\ v \in Nat
BY PageTableAssumption, Sizes DEF Pages

\* The state that an operation starts from, with and without frame f.
LEMMA NowFacts ==
    ASSUME NEW f
    PROVE  Now = Okay(mem, free) /\ [Now EXCEPT !.free = @ \ {f}] = Okay(mem, free \ {f})
<1>1. PICK k : k = TRUE
  OBVIOUS
<1>2. [[mem |-> mem, free |-> free, ok |-> k] EXCEPT !.free = @ \ {f}]
         = [mem |-> mem, free |-> free \ {f}, ok |-> k]
  OBVIOUS
<1> QED
  BY <1>1, <1>2 DEF Now, Okay

\* Good gives the types.
LEMMA GoodTypes ==
    ASSUME NEW r, NEW m, NEW out, Good(r, m, out)
    PROVE  /\ m \in [Heap -> [Index -> Nat]] /\ out \in SUBSET Heap /\ r \in Heap /\ r \notin out
           /\ r # Null
BY Sizes DEF Good, RootGood, Null

\* A tree in order is all that the invariant asks of the next state.
LEMMA InvAfter ==
    ASSUME Good(root', mem', free')
    PROVE  Inv'
<1>1. /\ mem' \in [Heap -> [Index -> Nat]] /\ free' \in SUBSET Heap /\ root' \in Heap
      /\ root' # Null
  BY GoodTypes
<1> QED
  BY <1>1 DEF Inv

\* A step that maps its range is a step of AddressSpace.
LEMMA AbstractMap ==
    ASSUME NEW v \in Pages, NEW n \in 1 .. 2, NEW f \in Heap \cup {Static},
           NEW perm \in {PTE_RWX + PTE_U, PTE_RX},
           Space(root', mem') = NewSpace(root, mem, v, n, f, perm),
           op' = <<"map", v, n, f, perm>>
    PROVE  Abstract!Next
<1>1. [w \in Pages |-> Sv32(w)]' =
         [u \in Pages |-> IF u \in v .. v + n - 1 THEN <<f + (u - v), perm>>
                          ELSE [w \in Pages |-> Sv32(w)][u]]
  BY SpaceNow, SpaceNext DEF NewSpace
<1>2. [w \in Pages |-> Sv32(w)]' = Abstract!Mapped(v, n, f, perm)
  BY <1>1 DEF Abstract!Mapped
<1>3. Abstract!Map
  BY <1>2 DEF Abstract!Map
<1> QED
  BY <1>3 DEF Abstract!Next

\* So is one that runs out of memory on the way,
LEMMA AbstractMapFails ==
    ASSUME NEW v \in Pages, NEW n \in 1 .. 2, NEW f \in Heap \cup {Static},
           NEW perm \in {PTE_RWX + PTE_U, PTE_RX}, NEW k \in 0 .. n - 1,
           Space(root', mem') = NewSpace(root, mem, v, k, f, perm),
           op' = <<"map_fails", v, n, f, perm>>
    PROVE  Abstract!Next
<1>1. [w \in Pages |-> Sv32(w)]' =
         [u \in Pages |-> IF u \in v .. v + k - 1 THEN <<f + (u - v), perm>>
                          ELSE [w \in Pages |-> Sv32(w)][u]]
  BY SpaceNow, SpaceNext DEF NewSpace
<1>2. [w \in Pages |-> Sv32(w)]' = Abstract!Mapped(v, k, f, perm)
  BY <1>1 DEF Abstract!Mapped
<1>3. Abstract!MapFails
  BY <1>2 DEF Abstract!MapFails
<1> QED
  BY <1>3 DEF Abstract!Next

\* one that unmaps its range,
LEMMA AbstractUnmap ==
    ASSUME NEW v \in Pages, NEW n \in 1 .. 2,
           Space(root', mem') = [u \in Pages |-> IF u \in v .. v + n - 1 THEN <<>>
                                                 ELSE Space(root, mem)[u]],
           op' = <<"unmap", v, n>>
    PROVE  Abstract!Next
<1>1. [w \in Pages |-> Sv32(w)]' =
         [u \in Pages |-> IF u \in v .. v + n - 1 THEN <<>> ELSE [w \in Pages |-> Sv32(w)][u]]
  BY SpaceNow, SpaceNext
<1>2. Abstract!Unmap
  BY <1>1 DEF Abstract!Unmap, Abstract!Unmapped
<1> QED
  BY <1>2 DEF Abstract!Next

\* one that leaves nothing translated,
LEMMA AbstractClear ==
    ASSUME \A v \in Pages : SvOf(root', mem', v) = <<>>, op' = <<"clear">>
    PROVE  Abstract!Next
<1>1. [w \in Pages |-> Sv32(w)]' = [w \in Pages |-> <<>>]
  BY SpaceNext, SpaceEmpty
<1>2. Abstract!Clear
  BY <1>1 DEF Abstract!Clear, Abstract!Unmapped
<1> QED
  BY <1>2 DEF Abstract!Next

\* and one that changes no translation.
LEMMA AbstractWrite ==
    ASSUME Space(root', mem') = Space(root, mem), op' = <<"write">>
    PROVE  Abstract!Next
<1>1. [w \in Pages |-> Sv32(w)]' = [w \in Pages |-> Sv32(w)]
  BY SpaceNow, SpaceNext
<1>2. Abstract!Write
  BY <1>1 DEF Abstract!Write
<1> QED
  BY <1>2 DEF Abstract!Next

\* The state of a page table that exists.
LEMMA InvNow ==
    ASSUME Inv, root # Null
    PROVE  Good(root, mem, free) /\ \A v \in Pages : Sv32(v) = View(root, mem, v)
<1>1. Good(root, mem, free)
  BY DEF Inv
<1>2. ASSUME NEW v \in Pages PROVE Sv32(v) = View(root, mem, v)
  BY <1>1, SpaceNow, SvIsView
<1> QED
  BY <1>1, <1>2

\* Uvm::alloc maps one page of the heap, or fails and gives it back.
LEMMA AllocPageStep ==
    ASSUME Inv, AllocPage
    PROVE  Inv' /\ Abstract!Next
<1>1. root # Null /\ free # {} /\ root' = root
  BY DEF AllocPage
<1>2. Good(root, mem, free) /\ \A v \in Pages : Sv32(v) = View(root, mem, v)
  BY <1>1, InvNow
<1>3. PICK f : f = LeastOf(free)
  OBVIOUS
<1>4. f \in free /\ free \in SUBSET Heap /\ f \in Heap /\ f \in Nat
  <2>1. free \in SUBSET Heap
    BY <1>2, GoodTypes
  <2>2. free \subseteq Nat
    BY <2>1, Sizes
  <2> QED
    BY <1>1, <1>3, <2>1, <2>2, LeastOfIn
<1>5. PICK v, s :
         /\ v \in VStart /\ Sv32(v) = <<>>
         /\ s = MapRange([Now EXCEPT !.free = @ \ {f}], v * PAGESIZE, f * PAGESIZE, 1,
                         PTE_RWX + PTE_U)
         /\ Commit(IF s.ok THEN s ELSE [s EXCEPT !.free = @ \cup {f}])
         /\ MapOp(s, v, 1, f, PTE_RWX + PTE_U)
  BY <1>3 DEF AllocPage
<1> v \in VStart
  BY <1>5
<1>6. v \in Pages /\ v \in Nat /\ View(root, mem, v) = <<>>
  BY <1>2, <1>5, StartFacts
<1>7. s = MapPage(Okay(mem, free \ {f}), Addr(v), Addr(f), UserPerm)
  <2>1. [Now EXCEPT !.free = @ \ {f}] = Okay(mem, free \ {f})
    BY NowFacts
  <2>2. s = MapRange(Okay(mem, free \ {f}), Addr(v), Addr(f), 1, UserPerm)
    BY <1>5, <2>1 DEF Addr, UserPerm
  <2> QED
    BY <1>4, <1>6, <2>2, MapPages
<1>8. PICK fr : fr = free \ {f}
  OBVIOUS
<1>9. MayMap(f, UserPerm, fr, free)
  BY <1>4, <1>8 DEF MayMap
<1>10. \/ s = Failed(mem, fr)
       \/ \E n, fn : /\ s = Okay(n, fn)
                     /\ fn \subseteq fr /\ Good(root, n, fn) /\ View(root, n, v) = <<f, UserPerm>>
                     /\ SameElse(root, mem, n, Hi(v), Lo(v))
  <2>1. PICK m : m = mem
    OBVIOUS
  <2>2. s = MapPage(Okay(m, fr), Addr(v), Addr(f), UserPerm) /\ Good(root, m, free)
        /\ View(root, m, v) = <<>>
    BY <1>2, <1>6, <1>7, <1>8, <2>1
  <2>3. \/ s = Failed(m, fr)
        \/ \E n, fn : /\ s = Okay(n, fn)
                      /\ fn \subseteq fr /\ Good(root, n, fn) /\ View(root, n, v) = <<f, UserPerm>>
                      /\ SameElse(root, m, n, Hi(v), Lo(v))
    BY ONLY <1>6, <1>9, <2>2, MapPageFacts
  <2> QED
    BY <2>1, <2>3
<1>11. f \in Heap \cup {Static} /\ UserPerm \in {PTE_RWX + PTE_U, PTE_RX} /\ 1 \in 1 .. 2
  BY <1>4 DEF UserPerm
<1>12. CASE s = Failed(mem, fr)
  <2>1. ~s.ok /\ s.mem = mem /\ s.free = fr
    BY <1>12, Fields
  <2>2. mem' = mem /\ free' = fr \cup {f}
    <3>1. Commit([s EXCEPT !.free = @ \cup {f}])
      BY <1>5, <2>1
    <3>2. [s EXCEPT !.free = @ \cup {f}].mem = mem /\ [s EXCEPT !.free = @ \cup {f}].free = fr \cup {f}
      BY <1>12 DEF Failed
    <3> QED
      BY <3>1, <3>2 DEF Commit
  <2>3. free' = free
    BY <1>4, <1>8, <2>2
  <2>4. op' = <<"map_fails", v, 1, f, UserPerm>>
    BY <1>5, <2>1 DEF MapOp, UserPerm
  <2>5. Space(root', mem') = NewSpace(root, mem, v, 0, f, UserPerm)
    <3>1. Maps(root, mem, mem, v, 0, f, UserPerm)
      BY <1>6, MapsNone
    <3>2. root' = root /\ mem' = mem
      BY <1>1, <2>2
    <3> QED
      BY <1>2, <3>1, <3>2, SpaceMaps
  <2>6. Abstract!Next
    <3>1. PICK n, k : n = 1 /\ k = 0
      OBVIOUS
    <3>4. n \in 1 .. 2 /\ k \in 0 .. n - 1
      BY <3>1
    <3>2. op' = <<"map_fails", v, n, f, UserPerm>>
      BY <2>4, <3>1
    <3>3. Space(root', mem') = NewSpace(root, mem, v, k, f, UserPerm)
      BY <2>5, <3>1
    <3> QED
      BY ONLY <1>6, <1>11, <3>2, <3>3, <3>4, AbstractMapFails
  <2>7. Inv'
    <3>1. Good(root', mem', free')
      BY <1>1, <1>2, <2>2, <2>3
    <3> QED
      BY <3>1, InvAfter
  <2> QED
    BY <2>6, <2>7
<1>13. ASSUME NEW n, NEW fn, s = Okay(n, fn), Good(root, n, fn),
              View(root, n, v) = <<f, UserPerm>>, SameElse(root, mem, n, Hi(v), Lo(v))
       PROVE  Inv' /\ Abstract!Next
  <2>1. s.ok /\ s.mem = n /\ s.free = fn
    BY <1>13, Fields
  <2>2. mem' = n /\ free' = fn /\ root' = root
    BY <1>1, <1>5, <2>1 DEF Commit
  <2>3. op' = <<"map", v, 1, f, UserPerm>>
    BY <1>5, <2>1 DEF MapOp, UserPerm
  <2>4. Space(root', mem') = NewSpace(root, mem, v, 1, f, UserPerm)
    <3>1. Maps(root, mem, n, v, 1, f, UserPerm)
      BY <1>4, <1>6, <1>13, MapsOne
    <3> QED
      BY <1>2, <1>13, <2>2, <3>1, SpaceMaps
  <2>5. Abstract!Next
    BY <1>6, <1>11, <2>3, <2>4, AbstractMap
  <2>6. Inv'
    <3>1. Good(root', mem', free')
      BY <1>13, <2>2
    <3> QED
      BY <3>1, InvAfter
  <2> QED
    BY <2>5, <2>6
<1> QED
  BY <1>10, <1>12, <1>13

\* The image is mapped, as far as there is memory for the tables.
LEMMA MapStaticStep ==
    ASSUME Inv, MapStatic
    PROVE  Inv' /\ Abstract!Next
<1>1. root # Null /\ root' = root
  BY DEF MapStatic
<1>2. Good(root, mem, free) /\ \A v \in Pages : Sv32(v) = View(root, mem, v)
  BY <1>1, InvNow
<1>3. PICK v, n, s :
         /\ v \in VStart /\ n \in 1 .. 2
         /\ \A u \in v .. v + n - 1 : Sv32(u) = <<>>
         /\ s = MapRange(Now, v * PAGESIZE, Static * PAGESIZE, n, PTE_RX)
         /\ Commit(s) /\ MapOp(s, v, n, Static, PTE_RX)
  BY DEF MapStatic
<1> v \in VStart /\ n \in 1 .. 2
  BY <1>3
<1>4. v \in Pages /\ v + 1 \in Pages /\ v \in Nat /\ Static \in Nat
  BY StartFacts, Sizes
<1>5. s = MapRange(Okay(mem, free), Addr(v), Addr(Static), n, PTE_RX)
  BY <1>3, NowFacts DEF Addr
<1>6. Outcome(s, mem, v, n)
  <2>1. PICK m, fr : m = mem /\ fr = free
    OBVIOUS
  <2>2. Good(root, m, fr)
    BY <1>2, <2>1
  <2>3. CASE n = 1
    <3>1. s = MapPage(Okay(m, fr), Addr(v), Addr(Static), PTE_RX)
      BY <1>4, <1>5, <2>1, <2>3, MapPages
    <3>2. View(root, m, v) = <<>>
      <4>1. v \in v .. v + n - 1
        BY <1>4, <2>3
      <4> QED
        BY <1>2, <1>3, <1>4, <2>1, <4>1
    <3>3. Outcome(s, m, v, 1)
      BY <1>4, <2>2, <3>1, <3>2, StaticOne
    <3> QED
      BY <2>1, <2>3, <3>3
  <2>4. CASE n = 2
    <3>1. s = MapPage(MapPage(Okay(m, fr), Addr(v), Addr(Static), PTE_RX),
                      Addr(v + 1), Addr(Static + 1), PTE_RX)
      BY <1>4, <1>5, <2>1, <2>4, MapPages
    <3>2. View(root, m, v) = <<>> /\ View(root, m, v + 1) = <<>>
      <4>1. v \in v .. v + n - 1 /\ v + 1 \in v .. v + n - 1
        BY <1>4, <2>4
      <4> QED
        BY <1>2, <1>3, <1>4, <2>1, <4>1
    <3>3. Outcome(s, m, v, 2)
      BY <1>4, <2>2, <3>1, <3>2, StaticTwo
    <3> QED
      BY <2>1, <2>4, <3>3
  <2> QED
    BY <2>3, <2>4
<1>7. PICK x, fx :
         /\ Good(root, x, fx)
         /\ \/ s = Okay(x, fx) /\ Maps(root, mem, x, v, n, Static, PTE_RX)
            \/ s = Failed(x, fx) /\ \E k \in 0 .. n - 1 : Maps(root, mem, x, v, k, Static, PTE_RX)
  BY <1>6 DEF Outcome
<1>8. mem' = x /\ free' = fx /\ root' = root
  <2>1. s.mem = x /\ s.free = fx
    BY <1>7, Fields
  <2> QED
    BY <1>1, <1>3, <2>1 DEF Commit
<1>9. Inv'
  <2>1. Good(root', mem', free')
    BY <1>7, <1>8
  <2> QED
    BY <2>1, InvAfter
<1>10. Static \in Heap \cup {Static} /\ PTE_RX \in {PTE_RWX + PTE_U, PTE_RX}
  OBVIOUS
<1>11. CASE s = Okay(x, fx) /\ Maps(root, mem, x, v, n, Static, PTE_RX)
  <2>1. op' = <<"map", v, n, Static, PTE_RX>>
    BY <1>3, <1>11, Fields DEF MapOp
  <2>2. Space(root', mem') = NewSpace(root, mem, v, n, Static, PTE_RX)
    BY <1>2, <1>7, <1>8, <1>11, SpaceMaps
  <2>3. Abstract!Next
    BY <1>4, <1>10, <2>1, <2>2, AbstractMap
  <2> QED
    BY <1>9, <2>3
<1>12. CASE s = Failed(x, fx) /\ \E k \in 0 .. n - 1 : Maps(root, mem, x, v, k, Static, PTE_RX)
  <2>1. PICK k \in 0 .. n - 1 : Maps(root, mem, x, v, k, Static, PTE_RX)
    BY <1>12
  <2>2. op' = <<"map_fails", v, n, Static, PTE_RX>>
    BY <1>3, <1>12, Fields DEF MapOp
  <2>3. Space(root', mem') = NewSpace(root, mem, v, k, Static, PTE_RX)
    BY <1>2, <1>7, <1>8, <2>1, SpaceMaps
  <2>4. Abstract!Next
    BY <1>4, <1>10, <2>2, <2>3, AbstractMapFails
  <2> QED
    BY <1>9, <2>4
<1> QED
  BY <1>7, <1>11, <1>12

\* Uvm::free unmaps a range; the user's pages go back to the heap.
LEMMA UnmapStep ==
    ASSUME Inv, Unmap
    PROVE  Inv' /\ Abstract!Next
<1>1. root # Null /\ root' = root
  BY DEF Unmap
<1>2. Good(root, mem, free) /\ \A v \in Pages : Sv32(v) = View(root, mem, v)
  BY <1>1, InvNow
<1>3. PICK v \in VStart, n \in 1 .. 2, free_them \in BOOLEAN :
         /\ \A u \in v .. v + n - 1 : Sv32(u) # <<>> => free_them = (Sv32(u)[1] \in Heap)
         /\ Commit(UnmapRange(Now, v * PAGESIZE, n, free_them))
         /\ op' = <<"unmap", v, n>>
  BY DEF Unmap
<1>4. v \in Pages /\ v + 1 \in Pages /\ v \in Nat
  BY StartFacts
<1>5. PICK s : s = UnmapRange(Okay(mem, free), Addr(v), n, free_them)
  OBVIOUS
<1>6. Commit(s)
  BY <1>3, <1>5, NowFacts DEF Addr
<1>7. ASSUME NEW u \in Pages, u \in v .. v + n - 1
      PROVE  View(root, mem, u) # <<>> => (free_them <=> View(root, mem, u)[1] \in Heap)
  <2>1. Sv32(u) # <<>> => free_them = (Sv32(u)[1] \in Heap)
    BY <1>3, <1>7
  <2> QED
    BY <1>2, <2>1
<1>8. UnmapOutcome(s, mem, v, n)
  <2>1. PICK m, fr : m = mem /\ fr = free
    OBVIOUS
  <2>2. Good(root, m, fr)
    BY <1>2, <2>1
  <2>3. CASE n = 1
    <3>1. s = UnmapPage(Okay(m, fr), Addr(v), free_them)
      BY <1>4, <1>5, <2>1, <2>3, UnmapPages
    <3>2. View(root, m, v) # <<>> => (free_them <=> View(root, m, v)[1] \in Heap)
      <4>1. v \in v .. v + n - 1
        BY <1>4, <2>3
      <4> QED
        BY <1>4, <1>7, <2>1, <4>1
    <3>3. UnmapOutcome(s, m, v, 1)
      BY <1>4, <2>2, <3>1, <3>2, UnmapOneOut
    <3> QED
      BY <2>1, <2>3, <3>3
  <2>4. CASE n = 2
    <3>1. s = UnmapPage(UnmapPage(Okay(m, fr), Addr(v), free_them), Addr(v + 1), free_them)
      BY <1>4, <1>5, <2>1, <2>4, UnmapPages
    <3>2. /\ View(root, m, v) # <<>> => (free_them <=> View(root, m, v)[1] \in Heap)
          /\ View(root, m, v + 1) # <<>> => (free_them <=> View(root, m, v + 1)[1] \in Heap)
      <4>1. v \in v .. v + n - 1 /\ v + 1 \in v .. v + n - 1
        BY <1>4, <2>4
      <4> QED
        BY <1>4, <1>7, <2>1, <4>1
    <3>3. UnmapOutcome(s, m, v, 2)
      BY <1>4, <2>2, <3>1, <3>2, UnmapTwoOut
    <3> QED
      BY <2>1, <2>4, <3>3
  <2> QED
    BY <2>3, <2>4
<1>9. PICK x, fx : s = Okay(x, fx) /\ Good(root, x, fx) /\ Unmaps(root, mem, x, v, n)
  BY <1>8 DEF UnmapOutcome
<1>10. mem' = x /\ free' = fx /\ root' = root
  <2>1. s.mem = x /\ s.free = fx
    BY <1>9, Fields
  <2> QED
    BY <1>1, <1>6, <2>1 DEF Commit
<1>11. Inv'
  <2>1. Good(root', mem', free')
    BY <1>9, <1>10
  <2> QED
    BY <2>1, InvAfter
<1>12. Space(root', mem') = [u \in Pages |-> IF u \in v .. v + n - 1 THEN <<>>
                                             ELSE Space(root, mem)[u]]
  BY <1>2, <1>9, <1>10, SpaceUnmaps
<1>13. Abstract!Next
  BY <1>3, <1>4, <1>12, AbstractUnmap
<1> QED
  BY <1>11, <1>13

\* A page table is dropped when nothing is mapped any more.
LEMMA FreeStep ==
    ASSUME Inv, Free
    PROVE  Inv' /\ Abstract!Next
<1>1. PICK tables :
         mem' = [f \in Heap |-> IF f \in tables THEN [mem[f] EXCEPT ![0] = 0] ELSE mem[f]]
  BY DEF Free
<1>2. root # Null /\ root' = Null /\ free' = free \cup {root} /\ op' = <<"clear">>
  BY DEF Free
<1>3. mem \in [Heap -> [Index -> Nat]] /\ free \in SUBSET Heap /\ root \in Heap
  BY <1>2 DEF Inv
<1>4. mem' \in [Heap -> [Index -> Nat]]
  <2>1. ASSUME NEW f \in Heap
        PROVE  (IF f \in tables THEN [mem[f] EXCEPT ![0] = 0] ELSE mem[f]) \in [Index -> Nat]
    <3>1. mem[f] \in [Index -> Nat]
      BY <1>3
    <3>2. [mem[f] EXCEPT ![0] = 0] \in [Index -> Nat]
      BY <3>1
    <3> QED
      BY <3>1, <3>2
  <2> QED
    BY <1>1, <2>1
<1>5. Inv'
  BY <1>2, <1>3, <1>4 DEF Inv
<1>6. \A v \in Pages : SvOf(root', mem', v) = <<>>
  BY <1>2, SvNull
<1> QED
  BY <1>2, <1>5, <1>6, AbstractClear

\* A page table that has just been made.
LEMMA EmptyAfter ==
    ASSUME NEW r, NEW m, NEW out, Good(r, m, out), \A k, l \in Index : ViewAt(r, m, k, l) = <<>>
    PROVE  \A v \in Pages : SvOf(r, m, v) = <<>>
<1> SUFFICES ASSUME NEW v \in Pages PROVE SvOf(r, m, v) = <<>>
  OBVIOUS
<1>1. SvOf(r, m, v) = View(r, m, v)
  BY SvIsView
<1>2. Hi(v) \in Index /\ Lo(v) \in Index
  BY PageFacts
<1> QED
  BY <1>1, <1>2 DEF View

\* PageTable::new makes an empty one from whatever the frame held.
LEMMA NewStep ==
    ASSUME Inv, New
    PROVE  Inv' /\ Abstract!Next
<1>1. mem \in [Heap -> [Index -> Nat]] /\ free \in SUBSET Heap /\ free # {}
  BY DEF Inv, New
<1>2. PICK f : f = LeastOf(free)
  OBVIOUS
<1>3. mem' = [mem EXCEPT ![f] = Zero] /\ free' = free \ {f} /\ root' = f /\ op' = <<"clear">>
  BY <1>2 DEF New, NewTable
<1>4. f \in free
  <2>1. free \subseteq Nat
    BY <1>1, Sizes
  <2> QED
    BY <1>1, <1>2, <2>1, LeastOfIn
<1>5. PICK r, m, out : r = root' /\ m = mem' /\ out = free'
  OBVIOUS
<1>6. m \in [Heap -> [Index -> Nat]] /\ out \in SUBSET Heap /\ r \in Heap \ out /\ m[r] = Zero
  <2>1. Zero \in [Index -> Nat]
    BY DEF Zero
  <2> QED
    BY <1>1, <1>3, <1>4, <1>5, <2>1
<1>7. Good(r, m, out) /\ \A k, l \in Index : ViewAt(r, m, k, l) = <<>>
  BY <1>6, EmptyRoot
<1>8. \A v \in Pages : SvOf(r, m, v) = <<>>
  BY <1>7, EmptyAfter
<1>9. Inv'
  BY <1>5, <1>7, InvAfter
<1> QED
  BY <1>3, <1>5, <1>8, <1>9, AbstractClear

\* What users write to their pages is never taken for a table.
LEMMA UserWritesStep ==
    ASSUME Inv, UserWrites
    PROVE  Inv' /\ Abstract!Next
<1>1. root # Null /\ root' = root /\ free' = free /\ op' = <<"write">>
  BY DEF UserWrites
<1>2. Good(root, mem, free) /\ \A v \in Pages : Sv32(v) = View(root, mem, v)
  BY <1>1, InvNow
<1>a. PICK v \in VStart :
         /\ Sv32(v) # <<>> /\ Sv32(v)[1] \in Heap
         /\ mem' = [mem EXCEPT ![Sv32(v)[1]] = [i \in Index |-> Entry(PAGESIZE, PTE_RWX)]]
  BY DEF UserWrites
<1>3. PICK f, row :
         /\ Sv32(v) # <<>> /\ Sv32(v)[1] \in Heap /\ f = Sv32(v)[1]
         /\ row = [i \in Index |-> Entry(PAGESIZE, PTE_RWX)]
         /\ mem' = [mem EXCEPT ![f] = row]
  BY <1>a
<1>4. row \in [Index -> Nat]
  <2>1. Entry(PAGESIZE, PTE_RWX) \in Nat
    BY DEF Entry, PAGESIZE, PTE_RWX, FLAGS
  <2> QED
    BY <1>3, <2>1
<1>5. PICK r, m, out, x : r = root /\ m = mem /\ out = free /\ x = mem'
  OBVIOUS
<1>6. PICK i \in Index, j \in Index : i = Hi(v) /\ j = Lo(v)
  BY StartFacts, PageFacts
<1>7. Good(r, m, out) /\ x = [m EXCEPT ![f] = row] /\ f \in Heap
  BY <1>2, <1>3, <1>5
<1>8. ViewAt(r, m, i, j) # <<>> /\ ViewAt(r, m, i, j)[1] = f
  <2>1. Sv32(v) = View(root, mem, v)
    BY <1>2, StartFacts
  <2> QED
    BY <1>3, <1>5, <1>6, <2>1 DEF View
<1>9. m[r][i] # 0 /\ Leaf(r, m, i, j) # 0
  BY <1>8, NoView
<1>10. PICK g, perm : Page(r, m, out, Leaf(r, m, i, j), g, perm) /\ ViewAt(r, m, i, j) = <<g, perm>>
  <2>1. Good(r, m, out) /\ m[r][i] # 0 /\ Leaf(r, m, i, j) # 0
    BY <1>7, <1>9
  <2>2. Holds(r, m, out, i, j)
    BY ONLY i \in Index, j \in Index, <2>1, LeafParts
  <2> QED
    BY <2>2 DEF Holds
<1>11. f # r /\ \A k \in Index : m[r][k] # 0 => f # TableAt(r, m, k)
  <2>1. g = f
    BY <1>8, <1>10
  <2> QED
    BY <1>7, <1>10, <2>1 DEF Page, UserWord
<1>12. Good(r, x, out) /\ SameView(r, m, x)
  BY ONLY <1>4, <1>7, <1>11, WriteFrame
<1>13. Inv'
  BY <1>1, <1>5, <1>12, InvAfter
<1>14. Space(root', mem') = Space(root, mem)
  BY <1>1, <1>5, <1>7, <1>12, SpaceSame
<1> QED
  BY <1>1, <1>13, <1>14, AbstractWrite

-----------------------------------------------------------------------------
(* The theorems.                                                            *)

\* The first page table is empty.
LEMMA InitFacts ==
    ASSUME Init
    PROVE  Inv /\ \A v \in Pages : Sv32(v) = <<>>
<1>1. mem = [f \in Heap |-> Zero] /\ root = 1 /\ free = Heap \ {1}
  BY DEF Init
<1>2. PICK r, m, out : r = root /\ m = mem /\ out = free
  OBVIOUS
<1>3. m \in [Heap -> [Index -> Nat]] /\ out \in SUBSET Heap /\ r \in Heap \ out /\ m[r] = Zero
  <2>1. Zero \in [Index -> Nat] /\ 1 \in Heap
    BY Sizes DEF Zero, Heap
  <2> QED
    BY <1>1, <1>2, <2>1
<1>4. Good(r, m, out) /\ \A k, l \in Index : ViewAt(r, m, k, l) = <<>>
  BY <1>3, EmptyRoot
<1>5. \A v \in Pages : SvOf(r, m, v) = <<>>
  BY <1>4, EmptyAfter
<1>6. Inv
  BY <1>2, <1>4, GoodTypes DEF Inv
<1> QED
  BY <1>2, <1>5, <1>6, SpaceNow

\* Every step of the tables keeps the tree in order and is a step of an
\* address space.
LEMMA NextFacts ==
    ASSUME Inv, Next
    PROVE  Inv' /\ Abstract!Next
BY AllocPageStep, MapStaticStep, UnmapStep, FreeStep, NewStep, UserWritesStep DEF Next

\* A step that changes nothing.
LEMMA Stutter ==
    ASSUME UNCHANGED vars
    PROVE  /\ Inv => Inv'
           /\ UNCHANGED <<[v \in Pages |-> Sv32(v)], op>>
<1>1. mem' = mem /\ free' = free /\ root' = root /\ op' = op
  BY DEF vars
<1> QED
  BY <1>1, SpaceNow, SpaceNext DEF Inv

\* The words of the frames are a tree: the root links to tables of its own,
\* the tables hold pages of the image and of the user, and no frame has two
\* uses or is free.
THEOREM TreeCorrect == Spec => []Inv
<1>1. Init => Inv
  BY InitFacts
<1>2. Inv /\ [Next]_vars => Inv'
  BY NextFacts, Stutter
<1> QED
  BY <1>1, <1>2, PTL DEF Spec

\* The words are an address space: what the hardware translates changes only
\* as map(), unmap(), drop and new() say, for the pages of their range and no
\* others, also when a table is added, when the memory for one is missing and
\* whatever the frames held before.
THEOREM WordsAreAnAddressSpace == Spec => ImplementsAddressSpace
<1>1. Init => Inv /\ Abstract!Init
  <2> SUFFICES ASSUME Init PROVE Inv /\ Abstract!Init
    OBVIOUS
  <2>1. Inv /\ \A v \in Pages : Sv32(v) = <<>>
    BY InitFacts
  <2>2. [v \in Pages |-> Sv32(v)] = [v \in Pages |-> <<>>]
    BY <2>1
  <2> QED
    BY <2>1, <2>2 DEF Init, Abstract!Init, Abstract!Unmapped
<1>2. Inv /\ [Next]_vars => Inv' /\ [Abstract!Next]_<<[v \in Pages |-> Sv32(v)], op>>
  BY NextFacts, Stutter
<1> QED
  BY <1>1, <1>2, PTL DEF Spec, ImplementsAddressSpace, Abstract!Spec

\* What a page means, in the fields of the entries.
LEMMA PageWord ==
    ASSUME Inv, root # Null, NEW v \in Pages, Sv32(v) # <<>>
    PROVE  \E g, perm : /\ Page(root, mem, free, Leaf(root, mem, Hi(v), Lo(v)), g, perm)
                        /\ Sv32(v) = <<g, perm>> /\ mem[root][Hi(v)] # 0
<1>1. PICK r, m, out : r = root /\ m = mem /\ out = free
  OBVIOUS
<1>2. PICK i \in Index, j \in Index : i = Hi(v) /\ j = Lo(v)
  BY PageFacts
<1>3. Good(r, m, out) /\ Sv32(v) = ViewAt(r, m, i, j)
  <2>1. Good(root, mem, free) /\ Sv32(v) = View(root, mem, v)
    BY InvNow
  <2> QED
    BY <1>1, <1>2, <2>1 DEF View
<1>4. Good(r, m, out) /\ m[r][i] # 0 /\ Leaf(r, m, i, j) # 0
  BY <1>3, NoView
<1>5. PICK g, perm : Page(r, m, out, Leaf(r, m, i, j), g, perm) /\ ViewAt(r, m, i, j) = <<g, perm>>
  <2>1. Holds(r, m, out, i, j)
    BY ONLY i \in Index, j \in Index, <1>4, LeafParts
  <2> QED
    BY <2>1 DEF Holds
<1> QED
  BY <1>1, <1>2, <1>3, <1>4, <1>5

\* walkaddr finds the address that the hardware uses, for every byte of every
\* page.
LEMMA WalkaddrFacts ==
    ASSUME Inv, root # Null, NEW v \in Pages, NEW off \in 0 .. PAGESIZE - 1
    PROVE  Walkaddr(v * PAGESIZE + off) =
               IF Sv32(v) = <<>> THEN Null ELSE Sv32(v)[1] * PAGESIZE + off
<1> DEFINE top == RootPte(Now, v * PAGESIZE + off)
           pte == Pte(mem[top.ppn][Vpn0(v * PAGESIZE + off)])
<1>1. /\ Vpn1(v * PAGESIZE + off) = Hi(v) /\ Vpn0(v * PAGESIZE + off) = Lo(v)
      /\ (v * PAGESIZE + off) % PAGESIZE = off
  BY VpnFacts
<1>2. Walkaddr(v * PAGESIZE + off) =
         IF ~top.v \/ ~pte.v \/ ~pte.leaf THEN Null ELSE pte.pa + off
  BY <1>1 DEF Walkaddr
<1>3. Good(root, mem, free) /\ Sv32(v) = View(root, mem, v)
  BY InvNow
<1>4. top = RootPte(Okay(mem, free), Addr(v))
  BY <1>1, VpnStart, NowFacts DEF RootPte
<1>5. /\ top.v <=> mem[root][Hi(v)] # 0
      /\ mem[root][Hi(v)] # 0 => top.ppn = TableAt(root, mem, Hi(v))
  BY <1>3, <1>4, RootPteFacts DEF Good
<1>6. mem[root][Hi(v)] # 0 => pte = Pte(Leaf(root, mem, Hi(v), Lo(v)))
  BY <1>1, <1>5 DEF Leaf
<1> HIDE DEF top, pte
<1>7. CASE mem[root][Hi(v)] = 0
  <2>1. Sv32(v) = <<>>
    BY <1>3, <1>7, NoView DEF View
  <2> QED
    BY <1>2, <1>5, <1>7, <2>1
<1>8. CASE mem[root][Hi(v)] # 0 /\ Leaf(root, mem, Hi(v), Lo(v)) = 0
  <2>1. Sv32(v) = <<>>
    BY <1>3, <1>8, NoView DEF View
  <2>2. ~pte.v
    BY <1>6, <1>8, PteZero
  <2> QED
    BY <1>2, <2>1, <2>2
<1>9. CASE mem[root][Hi(v)] # 0 /\ Leaf(root, mem, Hi(v), Lo(v)) # 0
  <2>1. Sv32(v) # <<>>
    BY <1>3, <1>9, NoView DEF View
  <2>2. PICK g, perm : /\ Page(root, mem, free, Leaf(root, mem, Hi(v), Lo(v)), g, perm)
                       /\ Sv32(v) = <<g, perm>>
    BY <2>1, PageWord
  <2>3. /\ Leaf(root, mem, Hi(v), Lo(v)) = Word(g, perm) /\ g \in Nat
        /\ perm \in {0, 10, 30} /\ perm # 0 /\ g \in Heap \cup {Static, Static + 1}
    BY <2>2 DEF Page
  <2>4. g < Entries * Entries
    BY <2>3, PageTableAssumption, Sizes DEF Heap, Static
  <2>5. top.v /\ pte = Pte(Word(g, perm))
    BY <1>5, <1>6, <1>9, <2>3
  <2>6. pte.v /\ pte.leaf
    BY <2>3, <2>5, PteFacts
  <2>7. pte.pa = g * PAGESIZE
    BY <2>3, <2>4, <2>5, PteAddress
  <2>8. Sv32(v)[1] = g
    BY <2>2
  <2> QED
    BY <1>2, <2>1, <2>5, <2>6, <2>7, <2>8
<1> QED
  BY <1>7, <1>8, <1>9

\* The kernel's own walk of the user's page table and the hardware agree.
THEOREM SoftwareWalkAgrees == Spec => []WalkaddrAgrees
<1>1. Inv => WalkaddrAgrees
  <2> SUFFICES ASSUME Inv, root # Null, NEW v \in Pages, NEW off \in {0, PAGESIZE - 1}
               PROVE  Walkaddr(v * PAGESIZE + off) =
                          IF Sv32(v) = <<>> THEN Null ELSE Sv32(v)[1] * PAGESIZE + off
    BY DEF WalkaddrAgrees
  <2>1. off \in 0 .. PAGESIZE - 1
    BY DEF PAGESIZE
  <2> QED
    BY <2>1, WalkaddrFacts
<1> QED
  BY <1>1, TreeCorrect, PTL

\* Nobody but the page table has the frames of its tables: they are neither
\* mapped for the user nor free, and no two entries share one.
THEOREM TablesAreNobodyElses == Spec => []TablesArePrivate
<1>1. Inv => TablesArePrivate
  <2> SUFFICES ASSUME Inv, root # Null PROVE TablesArePrivate
    BY DEF TablesArePrivate
  <2> DEFINE tables == {root} \cup
                          {Pte(mem[root][i]).ppn : i \in {j \in Index : Pte(mem[root][j]).v}}
             mapped == {Sv32(v)[1] : v \in {u \in Pages : Sv32(u) # <<>>}}
  <2>1. Good(root, mem, free) /\ RootGood(root, mem, free) /\ free \in SUBSET Heap
        /\ root \in Heap /\ root \notin free
    BY InvNow, GoodTypes DEF Good
  <2>2. ASSUME NEW i \in Index, Pte(mem[root][i]).v
        PROVE  mem[root][i] # 0 /\ Pte(mem[root][i]).ppn = TableAt(root, mem, i)
    <3>1. mem[root][i] # 0
      BY <2>2, PteZero
    <3> QED
      BY <3>1, PteFields DEF TableAt
  <2>3. ASSUME NEW f \in mapped
        PROVE  /\ f \notin free /\ f # root
               /\ \A i \in Index : mem[root][i] # 0 => f # TableAt(root, mem, i)
    <3>1. PICK v \in Pages : Sv32(v) # <<>> /\ f = Sv32(v)[1]
      BY <2>3
    <3>2. PICK g, perm : /\ Page(root, mem, free, Leaf(root, mem, Hi(v), Lo(v)), g, perm)
                         /\ Sv32(v) = <<g, perm>>
      BY <3>1, PageWord
    <3>3. f = g
      BY <3>1, <3>2
    <3>4. CASE g \in Heap
      BY <3>2, <3>3, <3>4 DEF Page, UserWord
    <3>5. CASE g \notin Heap
      <4>1. \A i \in Index : mem[root][i] # 0 => TableAt(root, mem, i) \in Heap
        BY <2>1, TableFacts
      <4> QED
        BY <2>1, <3>3, <3>5, <4>1
    <3> QED
      BY <3>4, <3>5
  <2>4. ASSUME NEW t \in tables
        PROVE  t = root \/ \E i \in Index : mem[root][i] # 0 /\ t = TableAt(root, mem, i)
    BY <2>2, <2>4
  <2>5. tables \cap mapped = {}
    BY <2>3, <2>4
  <2>6. tables \cap free = {}
    BY <2>1, <2>4, TableFacts
  <2>7. mapped \cap free = {}
    BY <2>3
  <2>8. \A i, j \in Index : Pte(mem[root][i]).v /\ Pte(mem[root][j]).v /\ i # j =>
           Pte(mem[root][i]).ppn # Pte(mem[root][j]).ppn
    BY <2>1, <2>2 DEF RootGood
  <2> QED
    BY <2>5, <2>6, <2>7, <2>8 DEF TablesArePrivate
<1> QED
  BY <1>1, TreeCorrect, PTL

=============================================================================
