-------------------------------- MODULE View --------------------------------
(***************************************************************************)
(* What a list of jobs that follows the scheduler from afar promises.  Of  *)
(* every job it shows how far the job once was: never more than has        *)
(* happened, and, until it is told that the feed was disturbed, never less *)
(* than it has shown before.                                               *)
(***************************************************************************)
EXTENDS Integers

CONSTANTS Jobs, End

VARIABLES
  stage,     \* how far each job is: 0 (it does not exist) to End (it is over)
  seen,      \* how far the list shows it
  disturbed  \* has the feed lost something, or told it late

vars == <<stage, seen, disturbed>>

Init ==
  /\ stage = [j \in Jobs |-> 0]
  /\ seen = [j \in Jobs |-> 0]
  /\ disturbed = FALSE

\* A job goes on, and never back.
Advance ==
  /\ \E j \in Jobs : \E s \in stage[j]..End : stage' = [stage EXCEPT ![j] = s]
  /\ UNCHANGED <<seen, disturbed>>

\* The list is told something: about one job, or, when a page is opened, about
\* all of them.
Tell ==
  /\ seen' \in [Jobs -> 0..End]
  /\ \A j \in Jobs : seen[j] <= seen'[j] /\ seen'[j] <= stage[j]
  /\ UNCHANGED <<stage, disturbed>>

\* Whatever a disturbed list shows, it is not ahead of the job.
TellLate ==
  /\ disturbed'
  /\ seen' \in [Jobs -> 0..End]
  /\ \A j \in Jobs : seen'[j] <= stage[j]
  /\ UNCHANGED stage

Next == Advance \/ Tell \/ TellLate

Spec == Init /\ [][Next]_vars
=============================================================================
