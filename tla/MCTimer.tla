------------------------------ MODULE MCTimer ------------------------------
(* Model checking of module Timer with small registers.                     *)
EXTENDS Timer

=============================================================================
