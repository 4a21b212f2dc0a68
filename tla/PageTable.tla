----------------------------- MODULE PageTable -----------------------------
(***************************************************************************)
(* The two-level page table as words in page frames: PageTable::new, walk, *)
(* map, unmap, free and walkaddr with the bit fields of Pte and VA         *)
(* (virtmemory.rs).                                                        *)
(*                                                                         *)
(* The positions of the flags (10 bits) and the offset (12 bits) are those *)
(* of the code; a table has any number of entries instead of 1024, so that *)
(* words, addresses and tables can be smaller.  Frames that the heap hands *)
(* out keep what their last owner wrote, and users write to their pages    *)
(* words that look like entries.                                           *)
(***************************************************************************)
EXTENDS Integers

CONSTANTS
    Entries,    \* words of a table (1024 in the code)
    NFRAMES,    \* frames of the heap
    VStart      \* bound: first pages of the ranges that are mapped

\* The heap and the image have addresses that fit a word.
ASSUME PageTableAssumption ==
    /\ Entries \in Nat \ {0} /\ NFRAMES \in Nat \ {0}
    /\ NFRAMES + 2 < Entries * Entries
    /\ VStart \subseteq 0 .. Entries * Entries - 2

PAGESIZE == 4096
WORD     == Entries * Entries * PAGESIZE    \* 2^32 in the code
FLAGS    == 1024                            \* ppn starts behind ten bits of flags
Index    == 0 .. Entries - 1
Pages    == 0 .. Entries * Entries - 1
Heap     == 1 .. NFRAMES
Static   == NFRAMES + 1                     \* frames of the kernel image follow
PTE_U    == 16
PTE_RWX  == 14
PTE_RX   == 10
Null     == 0

VARIABLES
    mem,        \* the words of every heap frame
    free,       \* the free frames of HEAP_ALLOCATOR
    root,       \* PageTable::root, Null between a drop and new()
    op          \* history: the last operation

vars == <<mem, free, root, op>>

-----------------------------------------------------------------------------
(* Bit fields.                                                              *)

Bit(word, mask) == (word \div mask) % 2 = 1

\* Slip: the physical address keeps the position of ppn in the entry.
PteUnshifted(word) ==
    [ppn |-> word \div FLAGS, pa |-> (word \div FLAGS) * FLAGS, v |-> Bit(word, 1),
     leaf |-> Bit(word, 2) \/ Bit(word, 4) \/ Bit(word, 8), u |-> Bit(word, 16),
     perm |-> 2 * ((word \div 2) % 16)]

\* From<usize> for Pte; leaf is r, w or x.
Pte(word) ==
    [ppn |-> word \div FLAGS, pa |-> ((word \div FLAGS) * PAGESIZE) % WORD, v |-> Bit(word, 1),
     leaf |-> Bit(word, 2) \/ Bit(word, 4) \/ Bit(word, 8), u |-> Bit(word, 16),
     perm |-> 2 * ((word \div 2) % 16)]

\* Pte::from_addr, v set, back to a word, perm added.
Entry(pa, perm) == (pa \div PAGESIZE) * FLAGS + 1 + perm

\* From<usize> for VA.
Vpn1(va) == va \div (PAGESIZE * Entries)
Vpn0(va) == (va \div PAGESIZE) % Entries

-----------------------------------------------------------------------------
(* walk, map and unmap, on a state s of memory and heap; ok says whether    *)
(* the allocations so far succeeded.                                        *)

Now      == [mem |-> mem, free |-> free, ok |-> TRUE]
Zero     == [i \in Index |-> 0]
LeastOf(fr) == CHOOSE f \in fr : \A g \in fr : f <= g
RootPte(s, va) == Pte(s.mem[root][Vpn1(va)])

\* Slip: the new table keeps what the frame held.
NewTableDirty(s, f) == s.mem[f]

\* The words of a new table in frame f.
NewTable(s, f) == Zero

\* walk with WalkType::Alloc: a missing table is taken from the heap, cleared
\* and entered in the root.
WalkAlloc(s, va) ==
    LET f == LeastOf(s.free)
    IN  IF ~s.ok \/ RootPte(s, va).v THEN s
        ELSE IF s.free = {} THEN [s EXCEPT !.ok = FALSE]
        ELSE [s EXCEPT !.free = @ \ {f},
                       !.mem = [@ EXCEPT ![f] = NewTable(s, f),
                                         ![root][Vpn1(va)] = Entry(f * PAGESIZE, 0)]]

\* The turn of map()'s loop for one page.
MapPage(s, va, pa, perm) ==
    LET t == WalkAlloc(s, va)
    IN  IF ~t.ok THEN t
        ELSE [t EXCEPT !.mem[RootPte(t, va).ppn][Vpn0(va)] = Entry(pa, perm)]

\* PageTable::map of n pages.
MapRange(s, virt, phys, n, perm) ==
    LET M[k \in 0 .. n] ==
            IF k = 0 THEN s
            ELSE MapPage(M[k - 1], virt + (k - 1) * PAGESIZE, phys + (k - 1) * PAGESIZE, perm)
    IN  M[n]

\* Slip: a page that is given back stays in the table.
UnmapKeepsEntry(s, va, free_them) ==
    LET pte == Pte(s.mem[RootPte(s, va).ppn][Vpn0(va)])
    IN  IF ~RootPte(s, va).v \/ ~pte.v THEN s
        ELSE [s EXCEPT !.free = IF free_them /\ pte.leaf /\ pte.u THEN @ \cup {pte.ppn} ELSE @]

\* The turn of unmap()'s loop for one page: entries that are not valid stay;
\* with free_them set the pages of users go back to the heap.
UnmapPage(s, va, free_them) ==
    LET table == RootPte(s, va).ppn
        pte   == Pte(s.mem[table][Vpn0(va)])
    IN  IF ~RootPte(s, va).v \/ ~pte.v THEN s
        ELSE [s EXCEPT !.free = IF free_them /\ pte.leaf /\ pte.u THEN @ \cup {pte.ppn} ELSE @,
                       !.mem[table][Vpn0(va)] = 0]

UnmapRange(s, virt, n, free_them) ==
    LET M[k \in 0 .. n] ==
            IF k = 0 THEN s ELSE UnmapPage(M[k - 1], virt + (k - 1) * PAGESIZE, free_them)
    IN  M[n]

\* walkaddr: what the kernel takes for the address of user data; Null if the
\* page has no translation.
Walkaddr(va) ==
    LET pte == Pte(mem[RootPte(Now, va).ppn][Vpn0(va)])
    IN  IF ~RootPte(Now, va).v \/ ~pte.v \/ ~pte.leaf THEN Null ELSE pte.pa + (va % PAGESIZE)

\* The hardware's translation of page v: the frame and the permission bits.
Sv32(v) ==
    LET top  == mem[root][v \div Entries]
        word == mem[top \div FLAGS][v % Entries]
    IN  IF root = Null \/ top % 2 = 0 THEN <<>>
        ELSE IF word % 2 = 0 \/ (word \div 2) % 8 = 0 THEN <<>>
        ELSE <<word \div FLAGS, 2 * ((word \div 2) % 16)>>

-----------------------------------------------------------------------------
Commit(s) == mem' = s.mem /\ free' = s.free

Init ==
    /\ mem = [f \in Heap |-> Zero]
    /\ root = 1 /\ free = Heap \ {1}
    /\ op = <<"none">>

MapOp(s, v, n, f, perm) ==
    op' = <<IF s.ok THEN "map" ELSE "map_fails", v, n, f, perm>>

\* Uvm::alloc adds one page of the heap; it is given back if there is no
\* memory for its table.  Pages are not mapped twice.
AllocPage ==
    /\ root # Null /\ free # {}
    /\ \E v \in VStart :
          /\ Sv32(v) = <<>>
          /\ LET f == LeastOf(free)
                 s == MapRange([Now EXCEPT !.free = @ \ {f}], v * PAGESIZE, f * PAGESIZE, 1,
                               PTE_RWX + PTE_U)
             IN  /\ Commit(IF s.ok THEN s ELSE [s EXCEPT !.free = @ \cup {f}])
                 /\ MapOp(s, v, 1, f, PTE_RWX + PTE_U)
    /\ UNCHANGED root

\* map() of frames that unmap() is not to give back, without PTE_U, as in
\* init_proc, Kvm::init and alloc_kstack.  In the code some of them are heap
\* pages of another owner (the trapframe, kernel stacks, the whole of RAM);
\* here they are frames outside the heap: map() does not tell them apart.
MapStatic ==
    /\ root # Null
    /\ \E v \in VStart, n \in 1 .. 2 :
          /\ \A u \in v .. v + n - 1 : Sv32(u) = <<>>
          /\ LET s == MapRange(Now, v * PAGESIZE, Static * PAGESIZE, n, PTE_RX)
             IN  Commit(s) /\ MapOp(s, v, n, Static, PTE_RX)
    /\ UNCHANGED root

\* Uvm::free unmaps the user's pages and frees them, and the two pages at the
\* top without freeing them.
Unmap ==
    /\ root # Null
    /\ \E v \in VStart, n \in 1 .. 2, free_them \in BOOLEAN :
          /\ \A u \in v .. v + n - 1 : Sv32(u) # <<>> => free_them = (Sv32(u)[1] \in Heap)
          /\ Commit(UnmapRange(Now, v * PAGESIZE, n, free_them))
          /\ op' = <<"unmap", v, n>>
    /\ UNCHANGED root

\* free_req() panics at an entry of a page that is still mapped.
FreeFindsNoPage == \A v \in Pages : Sv32(v) = <<>>

\* Drop of the page table: free_req() clears the first word of every second-
\* level table, and the root goes back to the heap.  This is the drop of a
\* space whose owner unmapped all of it; that Uvm::free always did, and the
\* panic on a leaf is never reached, is DropsAreClean of module Memory.
Free ==
    /\ root # Null /\ FreeFindsNoPage
    /\ LET tables == {Pte(mem[root][i]).ppn : i \in {j \in Index : Pte(mem[root][j]).v}}
       IN  mem' = [f \in Heap |-> IF f \in tables THEN [mem[f] EXCEPT ![0] = 0] ELSE mem[f]]
    /\ free' = free \cup {root}
    /\ root' = Null
    /\ op' = <<"clear">>

\* PageTable::new; without a page clearing it faults, and the kernel panics.
New ==
    /\ root = Null /\ free # {}
    /\ LET f == LeastOf(free)
       IN  /\ mem' = [mem EXCEPT ![f] = NewTable(Now, f)]
           /\ free' = free \ {f}
           /\ root' = f
    /\ op' = <<"clear">>

\* The user fills a page with words that look like entries.
UserWrites ==
    /\ root # Null
    /\ \E v \in VStart :
          /\ Sv32(v) # <<>> /\ Sv32(v)[1] \in Heap
          /\ mem' = [mem EXCEPT ![Sv32(v)[1]] = [i \in Index |-> Entry(PAGESIZE, PTE_RWX)]]
    /\ op' = <<"write">>
    /\ UNCHANGED <<free, root>>

Next == AllocPage \/ MapStatic \/ Unmap \/ Free \/ New \/ UserWrites

Spec == Init /\ [][Next]_vars

-----------------------------------------------------------------------------
(* Properties.                                                              *)

Abstract == INSTANCE AddressSpace WITH
    space  <- [v \in Pages |-> Sv32(v)],
    Frames <- Heap \cup {Static},
    Perms  <- {PTE_RWX + PTE_U, PTE_RX}

\* The tree of words is an address space: as the hardware sees it, map() and
\* unmap() change the translations of their range and of no other page, also
\* where the range crosses into another table, where a table is added, and
\* whatever the frames held before.
ImplementsAddressSpace == Abstract!Spec

\* The software walk of walkaddr() finds the address that the hardware uses,
\* for the first and the last byte of every page.
WalkaddrAgrees ==
    root # Null =>
        \A v \in Pages, off \in {0, PAGESIZE - 1} :
            Walkaddr(v * PAGESIZE + off) =
                IF Sv32(v) = <<>> THEN Null ELSE Sv32(v)[1] * PAGESIZE + off

\* The frames of the tables, of the mapped pages and of the heap's free list
\* are distinct: no table can be written by the user or handed out again.
TablesArePrivate ==
    root # Null =>
        LET tables == {root} \cup {Pte(mem[root][i]).ppn : i \in {j \in Index : Pte(mem[root][j]).v}}
            mapped == {Sv32(v)[1] : v \in {u \in Pages : Sv32(u) # <<>>}}
        IN  /\ tables \cap mapped = {} /\ tables \cap free = {} /\ mapped \cap free = {}
            /\ \A i, j \in Index :
                  Pte(mem[root][i]).v /\ Pte(mem[root][j]).v /\ i # j =>
                      Pte(mem[root][i]).ppn # Pte(mem[root][j]).ppn

=============================================================================
