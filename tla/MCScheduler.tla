----------------------------- MODULE MCScheduler -----------------------------
(* A CRON_EXPRESSION that is empty, valid (two of them) or invalid. *)
EXTENDS Scheduler
=============================================================================
