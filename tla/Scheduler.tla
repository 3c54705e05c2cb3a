------------------------------ MODULE Scheduler ------------------------------
(***************************************************************************)
(* The job scheduler: Service('scheduler').schedule, runTask and           *)
(* rollbackCompletedSteps, with the rows they keep in the jobs and         *)
(* job_steps tables.                                                       *)
(*                                                                         *)
(* Every job is an asynchronous function on one event loop: each action    *)
(* below is one awaited call (a SQL statement, a step's execute, a step's  *)
(* revert) together with the synchronous code that follows it up to the    *)
(* next await.  Between two actions of a job any other job may run, a      *)
(* statement may throw (StatementFails) and the process may die (Crash).   *)
(*                                                                         *)
(* A definition whose name begins with Bug is a mutant: the action as a    *)
(* plausible bug would have it.  No specification uses it; each shows that *)
(* a property of this module can fail.                                     *)
(***************************************************************************)
EXTENDS Integers

CONSTANTS
  Jobs,        \* jobs that callers may schedule
  MaxSteps,    \* bound on the number of steps of a task
  Tasks,       \* task definitions that callers may hand to schedule
  MaxFaults,   \* bound on the number of SQL statements that throw
  MaxCrashes   \* bound on the number of deaths of the process

Steps    == 1..MaxSteps
Policies == {"rollback", "stop", "continue"}

\* A step without a revert function and a step with revertPolicy 'none' are
\* the same to rollbackCompletedSteps: "none".  A revert without a policy is
\* treated like 'best_effort'.
Reverts == {"none", "best_effort", "required"}
Task    == [policy : Policies, size : 0..MaxSteps, revert : [Steps -> Reverts]]

ASSUME ConstantsAssumption ==
  /\ MaxSteps \in Nat
  /\ MaxFaults \in Nat
  /\ MaxCrashes \in Nat
  /\ Tasks \subseteq Task

VARIABLES
  task,       \* the definition each job runs
  \* persisted
  status,     \* jobs.status, or "absent" before the row exists
  progress,   \* jobs.progress
  rows,       \* job_steps.status by step, or "absent"
  \* in the memory of the process
  pc,         \* where schedule / runTask of the job is suspended
  cur,        \* the step being executed or reverted
  completed,  \* completedSteps
  rollbackFailed,
  \* outside the process
  applied,    \* the steps whose effect stands on the router
  announced,  \* the job:* events emitted so far
  \* bounds
  faults, crashes

persisted == <<status, progress, rows>>
memory    == <<pc, cur, completed, rollbackFailed>>
bounds    == <<faults, crashes>>
vars == <<task, persisted, memory, applied, announced, bounds>>

Terminal  == {"succeeded", "failed", "reverted", "revert_failed"}
JobStatus == {"absent", "queued", "running", "rolling_back"} \cup Terminal
RowStatus == {"absent", "queued", "running", "succeeded", "failed",
              "reverting", "reverted", "revert_failed", "revert_skipped"}
JobEvents == {"queued", "started", "rolling_back"} \cup Terminal

\* Control points.  In the first group an exception leaves runTask and ends in
\* the .catch of schedule; in the second it is caught by the try around the
\* step, in the third by the try around the revert.
UncaughtPoints == {"start", "empty", "open", "record_failed", "finish_failed",
                   "begin_rollback", "rollback", "record_revert_failed",
                   "finish_rollback", "finish"}
StepTryPoints   == {"record_ok", "progress"}
RevertTryPoints == {"record_reverted"}
Stopped == {"new", "orphaned", "lost", "done"}
Points  == UncaughtPoints \cup StepTryPoints \cup RevertTryPoints
             \cup Stopped \cup {"rows", "exec", "revert", "catch"}

-----------------------------------------------------------------------------
Init ==
  /\ task \in [Jobs -> Tasks]
  /\ status = [j \in Jobs |-> "absent"]
  /\ progress = [j \in Jobs |-> 0]
  /\ rows = [j \in Jobs |-> [i \in Steps |-> "absent"]]
  /\ pc = [j \in Jobs |-> "new"]
  /\ cur = [j \in Jobs |-> 0]
  /\ completed = [j \in Jobs |-> {}]
  /\ rollbackFailed = [j \in Jobs |-> FALSE]
  /\ applied = [j \in Jobs |-> {}]
  /\ announced = [j \in Jobs |-> {}]
  /\ faults = 0
  /\ crashes = 0

Goto(j, point)      == pc' = [pc EXCEPT ![j] = point]
SetStatus(j, s)     == status' = [status EXCEPT ![j] = s]
SetRow(j, i, s)     == rows' = [rows EXCEPT ![j][i] = s]
Announce(j, e)      == announced' = [announced EXCEPT ![j] = @ \cup {e}]

\* Math.round((i / n) * 100)
Percent(i, n) == (200 * i + n) \div (2 * n)

\* JobRepository.create: the defaults of the jobs table.
Schedule(j) ==
  /\ pc[j] = "new"
  /\ SetStatus(j, "queued")
  /\ Goto(j, "rows")
  /\ UNCHANGED <<task, progress, rows, cur, completed, rollbackFailed,
                 applied, announced, bounds>>

\* JobStepRepository.createMany, the job:queued event and queueMicrotask.
PersistSteps(j) ==
  /\ pc[j] = "rows"
  /\ rows' = [rows EXCEPT ![j] =
                [i \in Steps |-> IF i <= task[j].size THEN "queued" ELSE "absent"]]
  /\ Announce(j, "queued")
  /\ Goto(j, "start")
  /\ UNCHANGED <<task, status, progress, cur, completed, rollbackFailed,
                 applied, bounds>>

\* JobStepRepository.list and JobRepository.markRunning.
StartJob(j) ==
  /\ pc[j] = "start"
  /\ SetStatus(j, "running")
  /\ Announce(j, "started")
  /\ \/ task[j].size = 0 /\ Goto(j, "empty") /\ UNCHANGED cur
     \/ task[j].size > 0 /\ Goto(j, "open") /\ cur' = [cur EXCEPT ![j] = 1]
  /\ UNCHANGED <<task, progress, rows, completed, rollbackFailed, applied, bounds>>

\* A task without steps is marked succeeded, and says so.
FinishEmpty(j) ==
  /\ pc[j] = "empty"
  /\ SetStatus(j, "succeeded")
  /\ progress' = [progress EXCEPT ![j] = 100]
  /\ Announce(j, "succeeded")
  /\ Goto(j, "done")
  /\ UNCHANGED <<task, rows, cur, completed, rollbackFailed, applied, bounds>>

OpenStep(j) ==
  /\ pc[j] = "open"
  /\ SetRow(j, cur[j], "running")
  /\ Goto(j, "exec")
  /\ UNCHANGED <<task, status, progress, cur, completed, rollbackFailed,
                 applied, announced, bounds>>

ExecuteOk(j) ==
  /\ pc[j] = "exec"
  /\ applied' = [applied EXCEPT ![j] = @ \cup {cur[j]}]
  /\ Goto(j, "record_ok")
  /\ UNCHANGED <<task, persisted, cur, completed, rollbackFailed, announced, bounds>>

\* A step that throws may have changed the router before it did.
ExecuteFails(j) ==
  /\ pc[j] = "exec"
  /\ \E effect \in {{}, {cur[j]}} :
       applied' = [applied EXCEPT ![j] = @ \cup effect]
  /\ Goto(j, "record_failed")
  /\ UNCHANGED <<task, persisted, cur, completed, rollbackFailed, announced, bounds>>

RecordSuccess(j) ==
  /\ pc[j] = "record_ok"
  /\ SetRow(j, cur[j], "succeeded")
  /\ completed' = [completed EXCEPT ![j] = @ \cup {cur[j]}]
  /\ Goto(j, "progress")
  /\ UNCHANGED <<task, status, progress, cur, rollbackFailed, applied, announced, bounds>>

\* The loop over task.steps goes on, or is over.
NextStep(j) ==
  \/ cur[j] < task[j].size /\ Goto(j, "open") /\ cur' = [cur EXCEPT ![j] = @ + 1]
  \/ cur[j] = task[j].size /\ Goto(j, "finish") /\ UNCHANGED cur

RecordProgress(j) ==
  /\ pc[j] = "progress"
  /\ progress' = [progress EXCEPT ![j] = Percent(cur[j], task[j].size)]
  /\ NextStep(j)
  /\ UNCHANGED <<task, status, rows, completed, rollbackFailed, applied,
                 announced, bounds>>

\* the branch for 'stop' forgotten
BugRecordFailureRollsBack(j) ==
  /\ pc[j] = "record_failed"
  /\ SetRow(j, cur[j], "failed")
  /\ \/ task[j].policy = "continue" /\ NextStep(j)
     \/ task[j].policy # "continue" /\ Goto(j, "begin_rollback") /\ UNCHANGED cur
  /\ UNCHANGED <<task, status, progress, completed, rollbackFailed, applied,
                 announced, bounds>>

RecordFailure(j) ==
  /\ pc[j] = "record_failed"
  /\ SetRow(j, cur[j], "failed")
  /\ \/ task[j].policy = "continue" /\ NextStep(j)
     \/ task[j].policy = "stop" /\ Goto(j, "finish_failed") /\ UNCHANGED cur
     \/ task[j].policy = "rollback" /\ Goto(j, "begin_rollback") /\ UNCHANGED cur
  /\ UNCHANGED <<task, status, progress, completed, rollbackFailed, applied,
                 announced, bounds>>

FinishFailed(j) ==
  /\ pc[j] = "finish_failed"
  /\ SetStatus(j, "failed")
  /\ Announce(j, "failed")
  /\ Goto(j, "done")
  /\ UNCHANGED <<task, progress, rows, cur, completed, rollbackFailed, applied, bounds>>

\* JobRepository.markFinished('succeeded') after the last step: no event follows.
FinishSucceeded(j) ==
  /\ pc[j] = "finish"
  /\ SetStatus(j, "succeeded")
  /\ progress' = [progress EXCEPT ![j] = 100]
  /\ Goto(j, "done")
  /\ UNCHANGED <<task, rows, cur, completed, rollbackFailed, applied, announced, bounds>>

-----------------------------------------------------------------------------
(* rollbackCompletedSteps *)

\* The loop over completedSteps.reverse(), once the steps `left` remain.
NextRevert(j, left) ==
  /\ completed' = [completed EXCEPT ![j] = left]
  /\ Goto(j, IF left = {} THEN "finish_rollback" ELSE "rollback")

BeginRollback(j) ==
  /\ pc[j] = "begin_rollback"
  /\ SetStatus(j, "rolling_back")
  /\ Announce(j, "rolling_back")
  /\ NextRevert(j, completed[j])
  /\ UNCHANGED <<task, progress, rows, cur, rollbackFailed, applied, bounds>>

\* reverse() forgotten
BugIsLatest(i, S) == i \in S /\ \A k \in S : i <= k

\* The step whose turn it is: the latest of those that remain.
IsLatest(i, S) == i \in S /\ \A k \in S : k <= i

\* a step without a revert reported as reverted
BugSkipRevert(j) ==
  /\ pc[j] = "rollback"
  /\ \E i \in completed[j] :
       /\ IsLatest(i, completed[j])
       /\ task[j].revert[i] = "none"
       /\ SetRow(j, i, "reverted")
       /\ NextRevert(j, completed[j] \ {i})
  /\ UNCHANGED <<task, status, progress, cur, rollbackFailed, applied, announced, bounds>>

SkipRevert(j) ==
  /\ pc[j] = "rollback"
  /\ \E i \in completed[j] :
       /\ IsLatest(i, completed[j])
       /\ task[j].revert[i] = "none"
       /\ SetRow(j, i, "revert_skipped")
       /\ NextRevert(j, completed[j] \ {i})
  /\ UNCHANGED <<task, status, progress, cur, rollbackFailed, applied, announced, bounds>>

OpenRevert(j) ==
  /\ pc[j] = "rollback"
  /\ \E i \in completed[j] :
       /\ IsLatest(i, completed[j])
       /\ task[j].revert[i] # "none"
       /\ SetRow(j, i, "reverting")
       /\ cur' = [cur EXCEPT ![j] = i]
  /\ Goto(j, "revert")
  /\ UNCHANGED <<task, status, progress, completed, rollbackFailed, applied,
                 announced, bounds>>

RevertOk(j) ==
  /\ pc[j] = "revert"
  /\ applied' = [applied EXCEPT ![j] = @ \ {cur[j]}]
  /\ Goto(j, "record_reverted")
  /\ UNCHANGED <<task, persisted, cur, completed, rollbackFailed, announced, bounds>>

\* A revert that throws may have undone the effect before it did.
RevertFails(j) ==
  /\ pc[j] = "revert"
  /\ \E undone \in {{}, {cur[j]}} :
       applied' = [applied EXCEPT ![j] = @ \ undone]
  /\ Goto(j, "record_revert_failed")
  /\ UNCHANGED <<task, persisted, cur, completed, rollbackFailed, announced, bounds>>

RecordReverted(j) ==
  /\ pc[j] = "record_reverted"
  /\ SetRow(j, cur[j], "reverted")
  /\ NextRevert(j, completed[j] \ {cur[j]})
  /\ UNCHANGED <<task, status, progress, cur, rollbackFailed, applied, announced, bounds>>

\* rollbackFailed = true forgotten
BugRecordRevertFailed(j) ==
  /\ pc[j] = "record_revert_failed"
  /\ SetRow(j, cur[j], "revert_failed")
  /\ \/ task[j].revert[cur[j]] = "required" /\ Goto(j, "finish_rollback") /\ UNCHANGED completed
     \/ task[j].revert[cur[j]] # "required" /\ NextRevert(j, completed[j] \ {cur[j]})
  /\ UNCHANGED <<task, status, progress, cur, rollbackFailed, applied, announced, bounds>>

\* A failed revert ends the rollback when the step's revert is 'required'.
RecordRevertFailed(j) ==
  /\ pc[j] = "record_revert_failed"
  /\ SetRow(j, cur[j], "revert_failed")
  /\ rollbackFailed' = [rollbackFailed EXCEPT ![j] = TRUE]
  /\ \/ /\ task[j].revert[cur[j]] = "required"
        /\ Goto(j, "finish_rollback")
        /\ UNCHANGED completed
     \/ /\ task[j].revert[cur[j]] # "required"
        /\ NextRevert(j, completed[j] \ {cur[j]})
  /\ UNCHANGED <<task, status, progress, cur, applied, announced, bounds>>

FinishRollback(j) ==
  /\ pc[j] = "finish_rollback"
  /\ LET outcome == IF rollbackFailed[j] THEN "revert_failed" ELSE "reverted"
     IN  SetStatus(j, outcome) /\ Announce(j, outcome)
  /\ Goto(j, "done")
  /\ UNCHANGED <<task, progress, rows, cur, completed, rollbackFailed, applied, bounds>>

-----------------------------------------------------------------------------
(* Failures of the database and of the process *)

\* the rejection swallowed
BugCatchSilently(j) ==
  /\ pc[j] = "catch"
  /\ Goto(j, "done")
  /\ UNCHANGED <<task, persisted, cur, completed, rollbackFailed, applied,
                 announced, bounds>>

\* The .catch that schedule hangs on runTask.
CatchJob(j) ==
  /\ pc[j] = "catch"
  /\ SetStatus(j, "failed")
  /\ Announce(j, "failed")
  /\ Goto(j, "done")
  /\ UNCHANGED <<task, progress, rows, cur, completed, rollbackFailed, applied, bounds>>

\* A statement throws and has not committed: control goes to the handler that
\* encloses the await.  In schedule itself that is the caller: the job row
\* stays behind without steps and nothing ever runs it.
StatementFails(j) ==
  /\ faults < MaxFaults
  /\ faults' = faults + 1
  /\ \/ pc[j] = "rows" /\ Goto(j, "orphaned")
     \/ pc[j] \in UncaughtPoints /\ Goto(j, "catch")
     \/ pc[j] \in StepTryPoints /\ Goto(j, "record_failed")
     \/ pc[j] \in RevertTryPoints /\ Goto(j, "record_revert_failed")
  /\ UNCHANGED <<task, persisted, cur, completed, rollbackFailed, applied,
                 announced, crashes>>

\* The process dies: what runs is gone and no start-up code resumes it.
Die == pc' = [j \in Jobs |-> IF pc[j] \in Stopped THEN pc[j] ELSE "lost"]

\* A statement that throws inside the .catch is an unhandled rejection, which
\* ends the Node process and every job in it.
CatchFails(j) ==
  /\ pc[j] = "catch"
  /\ faults < MaxFaults
  /\ faults' = faults + 1
  /\ Die
  /\ UNCHANGED <<task, persisted, cur, completed, rollbackFailed, applied,
                 announced, crashes>>

Crash ==
  /\ crashes < MaxCrashes
  /\ crashes' = crashes + 1
  /\ \E j \in Jobs : pc[j] \notin Stopped
  /\ Die
  /\ UNCHANGED <<task, persisted, cur, completed, rollbackFailed, applied,
                 announced, faults>>

-----------------------------------------------------------------------------
\* One await of schedule or runTask settles, and the job runs to the next one.
Advance(j) ==
  \/ PersistSteps(j)  \/ StartJob(j)       \/ FinishEmpty(j)
  \/ OpenStep(j)      \/ ExecuteOk(j)      \/ ExecuteFails(j)
  \/ RecordSuccess(j) \/ RecordProgress(j) \/ RecordFailure(j)
  \/ FinishFailed(j)  \/ FinishSucceeded(j)
  \/ BeginRollback(j) \/ SkipRevert(j)     \/ OpenRevert(j)
  \/ RevertOk(j)      \/ RevertFails(j)    \/ RecordReverted(j)
  \/ RecordRevertFailed(j) \/ FinishRollback(j) \/ CatchJob(j)

Next ==
  \/ \E j \in Jobs : Schedule(j) \/ Advance(j) \/ StatementFails(j) \/ CatchFails(j)
  \/ Crash

Spec == Init /\ [][Next]_vars

\* Node runs every settled continuation, and every statement, execute and
\* revert settles in the end: drivers and router clients have timeouts.
\* Nothing obliges a caller to schedule, a statement to throw or a process to die.
FairSpec == Spec /\ \A j \in Jobs : WF_vars(Advance(j))

-----------------------------------------------------------------------------
(* Properties *)

TypeOK ==
  /\ task \in [Jobs -> Tasks]
  /\ status \in [Jobs -> JobStatus]
  /\ progress \in [Jobs -> Nat]
  /\ rows \in [Jobs -> [Steps -> RowStatus]]
  /\ pc \in [Jobs -> Points]
  /\ cur \in [Jobs -> 0..MaxSteps]
  /\ completed \in [Jobs -> SUBSET Steps]
  /\ rollbackFailed \in [Jobs -> BOOLEAN]
  /\ applied \in [Jobs -> SUBSET Steps]
  /\ announced \in [Jobs -> SUBSET JobEvents]
  /\ faults \in 0..MaxFaults
  /\ crashes \in 0..MaxCrashes

StepsOf(j) == 1..task[j].size

\* What the rows say of a step is what happened on the router, through every
\* failed statement and every death of the process: a step recorded as
\* succeeded (or whose revert was skipped) still has its effect, one that
\* waits or was reverted has none.  Only a row that is open or says that
\* something failed leaves the effect unknown.
RowsTellEffects ==
  \A j \in Jobs, i \in Steps :
    /\ rows[j][i] \in {"succeeded", "revert_skipped"} => i \in applied[j]
    /\ rows[j][i] \in {"absent", "queued", "reverted"} => i \notin applied[j]

\* A job that says 'reverted' has left nothing on the router but the effects
\* of steps that cannot be reverted and what a failed step did before it
\* threw: the scheduler does not revert the step that failed.
RevertedLeavesNothingElse ==
  \A j \in Jobs : status[j] = "reverted" =>
    \A i \in applied[j] : rows[j][i] \in {"failed", "revert_skipped"}

\* A task that stops or rolls back on failure and says 'succeeded' has every
\* effect it promised; one that continues has tried every step.
SuccessIsWhole ==
  \A j \in Jobs : status[j] = "succeeded" =>
    /\ progress[j] = 100
    /\ task[j].policy # "continue" => applied[j] = StepsOf(j)
    /\ \A i \in StepsOf(j) : rows[j][i] \in {"succeeded", "failed"}

\* Rollback goes backwards: when a completed step is taken back, every later
\* completed step has been dealt with.  A step whose required revert failed
\* is a barrier: no earlier step is touched.
RollbackBackwards ==
  \A j \in Jobs : \A i, k \in StepsOf(j) :
    (k < i /\ rows[j][k] \in {"reverting", "reverted", "revert_failed", "revert_skipped"}) =>
      /\ rows[j][i] \notin {"running", "succeeded", "reverting"}
      /\ rows[j][i] = "revert_failed" => task[j].revert[i] # "required"

\* The policy of the task decides how a job may end, whatever statements threw on the
\* way.  A success has a step that failed only if the task continues.  A rollback leaves no
\* row open, fails exactly if the row of a revert says so, and leaves a completed step alone
\* only below a required revert that failed.  A job fails because its task stops, or because
\* a statement threw that is in none of the inner handlers.
OutcomeFollowsPolicy ==
  \A j \in Jobs :
    /\ status[j] = "succeeded" =>
         \A i \in StepsOf(j) : rows[j][i] = "failed" => task[j].policy = "continue"
    /\ status[j] \in {"reverted", "revert_failed"} =>
         /\ task[j].policy = "rollback"
         /\ \A i \in StepsOf(j) : rows[j][i] \notin {"running", "reverting"}
         /\ status[j] = "revert_failed" <=> \E i \in StepsOf(j) : rows[j][i] = "revert_failed"
         /\ \A i \in StepsOf(j) : rows[j][i] = "succeeded" =>
              \E k \in StepsOf(j) :
                k > i /\ rows[j][k] = "revert_failed" /\ task[j].revert[k] = "required"
    /\ status[j] = "failed" /\ faults = 0 =>
         /\ task[j].policy = "stop"
         /\ \A i \in StepsOf(j) : rows[j][i] # "running"

\* ... and of every job that succeeds.  It does not hold: see FinishSucceeded.
SuccessAnnounced ==
  \A j \in Jobs : status[j] = "succeeded" => "succeeded" \in announced[j]

\* What a finished job says, and what it left on the router, never changes
\* again: nothing of it is still running.
FinishedIsFinal ==
  [][\A j \in Jobs : status[j] \in Terminal =>
       UNCHANGED <<status[j], progress[j], rows[j], applied[j]>>]_vars

\* Read through status and applied alone, every job is a saga.
Promise == INSTANCE Saga WITH task <- task, status <- status, applied <- applied
IsSaga  == Promise!Spec

\* A job that starts reaches a terminal status, whichever statements throw on
\* the way, unless the process dies: every handler leads on to a status that
\* ends the job.
StartedJobsSettle ==
  \A j \in Jobs : (pc[j] = "start") ~> (status[j] \in Terminal \/ pc[j] = "lost")
=============================================================================
