---------------------------- MODULE MCPageTable ----------------------------
(* Model checking of module PageTable with tables of four entries.          *)
EXTENDS PageTable

\* Two neighbours in different tables, and the last page but one.
Ranges == {3, 4, 13}

=============================================================================
