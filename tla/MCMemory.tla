------------------------------ MODULE MCMemory ------------------------------
(* Model checking of module Memory on a small heap.                         *)
EXTENDS Memory

=============================================================================
