------------------------------ MODULE MCLayout ------------------------------
(* Model checking of module Layout for a small memory.                      *)
EXTENDS Layout

=============================================================================
