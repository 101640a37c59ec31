---------------------------- MODULE MCScheduler ----------------------------
(* The scheduler on a small task table, for TLC. *)
EXTENDS Scheduler
=============================================================================
