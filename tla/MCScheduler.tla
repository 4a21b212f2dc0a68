---------------------------- MODULE MCScheduler ----------------------------
(* Model checking of module Scheduler.                                      *)
EXTENDS Scheduler

=============================================================================
