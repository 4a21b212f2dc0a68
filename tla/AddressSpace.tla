---------------------------- MODULE AddressSpace ----------------------------
(***************************************************************************)
(* What a page table promises: a partial function from virtual pages to    *)
(* frames with permissions.  An operation changes the translations of the  *)
(* pages it names, in order, and of no others.                             *)
(***************************************************************************)
EXTENDS Integers

CONSTANTS
    Pages,      \* virtual page numbers
    Frames,     \* frames that pages are mapped to
    Perms       \* permission bits of a page

Unmapped == <<>>

VARIABLES
    space,      \* the translation of every page
    op          \* the last operation: <<name, first page, pages, frame, perm>>

Init == space = [v \in Pages |-> Unmapped] /\ op = <<"none">>

Mapped(v, n, f, perm) ==
    [u \in Pages |-> IF u \in v .. v + n - 1 THEN <<f + (u - v), perm>> ELSE space[u]]

\* n pages from v on are mapped to the frames from f on.
Map == \E v \in Pages, n \in 1 .. 2, f \in Frames, perm \in Perms :
          /\ op' = <<"map", v, n, f, perm>>
          /\ space' = Mapped(v, n, f, perm)

\* Without memory for the tables the pages before the failure stay mapped.
MapFails == \E v \in Pages, n \in 1 .. 2, f \in Frames, perm \in Perms :
               /\ op' = <<"map_fails", v, n, f, perm>>
               /\ \E k \in 0 .. n - 1 : space' = Mapped(v, k, f, perm)

Unmap == \E v \in Pages, n \in 1 .. 2 :
            /\ op' = <<"unmap", v, n>>
            /\ space' = [u \in Pages |-> IF u \in v .. v + n - 1 THEN Unmapped ELSE space[u]]

\* The address space is dropped and replaced by an empty one.
Clear == op' = <<"clear">> /\ space' = [v \in Pages |-> Unmapped]

\* The user writes to its pages.
Write == op' = <<"write">> /\ UNCHANGED space

Next == Map \/ MapFails \/ Unmap \/ Clear \/ Write

Spec == Init /\ [][Next]_<<space, op>>

=============================================================================
