---------------------------- MODULE MCScheduler -----------------------------
(* A table of three tasks; kmain asks for one task more than fits. *)
EXTENDS Scheduler

=============================================================================
