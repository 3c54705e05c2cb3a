-------------------------------- MODULE Saga --------------------------------
(***************************************************************************)
(* What the scheduler promises of a task, without rows, control points or  *)
(* statements that fail: a job is a saga.  Its steps add effects to the    *)
(* router while it runs and take them away while it rolls back, and the    *)
(* status it ends with says which effects are left.                        *)
(***************************************************************************)
EXTENDS Integers

CONSTANTS Jobs, Tasks

VARIABLES task, status, applied

vars == <<task, status, applied>>

StepsOf(j) == 1..task[j].size
Revertible(j, i) == task[j].revert[i] # "none"

Init ==
  /\ task \in [Jobs -> Tasks]
  /\ status = [j \in Jobs |-> "absent"]
  /\ applied = [j \in Jobs |-> {}]

Move(j, from, to) ==
  /\ status[j] \in from
  /\ status' = [status EXCEPT ![j] = to]
  /\ UNCHANGED <<task, applied>>

Submit(j) == Move(j, {"absent"}, "queued")
Start(j)  == Move(j, {"queued"}, "running")

\* A step takes effect, or part of it: only while the job runs.
Apply(j) ==
  /\ status[j] = "running"
  /\ \E i \in StepsOf(j) : applied' = [applied EXCEPT ![j] = @ \cup {i}]
  /\ UNCHANGED <<task, status>>

\* An effect is taken back: only while the job rolls back, and only that of a
\* step that has a revert.
Undo(j) ==
  /\ status[j] = "rolling_back"
  /\ \E i \in applied[j] :
       /\ Revertible(j, i)
       /\ applied' = [applied EXCEPT ![j] = @ \ {i}]
  /\ UNCHANGED <<task, status>>

\* Success is whole, unless the task continues after a failure.
Succeed(j) ==
  /\ task[j].policy # "continue" => applied[j] = StepsOf(j)
  /\ Move(j, {"running"}, "succeeded")

\* Only a task that asks for it is rolled back.
RollBack(j) ==
  /\ task[j].policy = "rollback"
  /\ Move(j, {"running"}, "rolling_back")

\* 'reverted' leaves at most one effect that could have been reverted: that of
\* the step that failed.
Revert(j) ==
  /\ \E failing \in StepsOf(j) : \A i \in applied[j] : i = failing \/ ~Revertible(j, i)
  /\ Move(j, {"rolling_back"}, "reverted")

GiveUp(j) ==
  \/ Move(j, {"rolling_back"}, "revert_failed")
  \/ Move(j, {"queued", "running", "rolling_back"}, "failed")

Next ==
  \E j \in Jobs :
    \/ Submit(j) \/ Start(j) \/ Apply(j) \/ Undo(j)
    \/ Succeed(j) \/ RollBack(j) \/ Revert(j) \/ GiveUp(j)

Spec == Init /\ [][Next]_vars
=============================================================================
