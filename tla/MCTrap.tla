------------------------------- MODULE MCTrap -------------------------------
(* Model checking of module Trap for a few processes.                       *)
EXTENDS Trap

=============================================================================
