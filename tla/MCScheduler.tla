----------------------------- MODULE MCScheduler -----------------------------
(* A small system for TLC: a timer, an interrupt check and the frame event. *)
EXTENDS Scheduler

MCDelays == {-1, 0, 1, 3}
MCAdjusts == {2}
MCBudgets == {3}
=============================================================================
