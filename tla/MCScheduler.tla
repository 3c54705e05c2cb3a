---------------------------- MODULE MCScheduler ----------------------------
(* Small instances of Scheduler for TLC. *)
EXTENDS Scheduler

\* Every task of at most MaxSteps steps; the unused entries are "none".
AllTasks ==
  {t \in Task : \A i \in Steps : i > t.size => t.revert[i] = "none"}
=============================================================================
