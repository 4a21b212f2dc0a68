------------------------------ MODULE MCKernel ------------------------------
(* Model checking of module Kernel, of the invariant the proofs rest on,    *)
(* and of the refinement to LifeCycle, for small process tables.            *)
EXTENDS KernelLife

=============================================================================
