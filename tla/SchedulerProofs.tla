--------------------------- MODULE SchedulerProofs ---------------------------
(***************************************************************************)
(* Theorems about Scheduler, for any jobs, tasks, bound on the steps, and  *)
(* number of failing statements and crashes.                               *)
(*                                                                         *)
(* None of the invariants is inductive as it stands: what the rows and the *)
(* status say of the router depends on where the job is suspended.         *)
(* JobInv(j) says it for every control point of one job; IInv is TypeOK    *)
(* and JobInv of every job.  A step of one job leaves every other job      *)
(* alone, so preservation is proved for the job that takes the step.       *)
(* OInv says of every job in what order its steps are taken back and how   *)
(* it may end; it is inductive on top of IInv.  With IInv every job is a   *)
(* saga: Spec => IsSaga.                                                   *)
(***************************************************************************)
EXTENDS Scheduler, TLAPS

Forward   == {"open", "exec", "record_ok", "progress", "record_failed"}
Reverting == {"revert", "record_reverted", "record_revert_failed"}
Rolling   == Reverting \cup {"rollback", "finish_rollback"}

\* The status in the jobs table at each control point.
StatusFits(j) ==
  /\ pc[j] = "new" => status[j] = "absent"
  /\ pc[j] \in {"rows", "orphaned", "start"} => status[j] = "queued"
  /\ pc[j] \in Forward \cup {"empty", "finish", "finish_failed", "begin_rollback"} =>
       status[j] = "running"
  /\ pc[j] \in Rolling => status[j] = "rolling_back"
  /\ pc[j] \in {"catch", "lost"} => status[j] \in {"queued", "running", "rolling_back"}
  /\ pc[j] = "done" => status[j] \in Terminal

\* The step at work is one of the task's, and its row is open while it is.
StepFits(j) ==
  /\ pc[j] \in Forward \cup Reverting \cup {"begin_rollback"} => cur[j] \in StepsOf(j)
  /\ pc[j] \in {"exec", "record_ok"} => rows[j][cur[j]] = "running"
  /\ pc[j] = "record_ok" => cur[j] \in applied[j]
  /\ pc[j] = "begin_rollback" => rows[j][cur[j]] = "failed"
  /\ pc[j] \in Reverting =>
       cur[j] \in completed[j] /\ rows[j][cur[j]] = "reverting" /\ task[j].revert[cur[j]] # "none"
  /\ pc[j] = "record_reverted" => cur[j] \notin applied[j]
  /\ pc[j] = "empty" => task[j].size = 0

\* What is applied and what completedSteps holds.
EffectsFit(j) ==
  /\ applied[j] \subseteq StepsOf(j)
  /\ pc[j] \in {"new", "rows"} => applied[j] = {}
  /\ pc[j] \in {"new", "rows", "start"} => completed[j] = {} /\ ~rollbackFailed[j]
  /\ pc[j] \in {"start", "empty"} => applied[j] = {}
  /\ pc[j] \in Forward \cup {"begin_rollback", "rollback"} => completed[j] \subseteq applied[j]
  /\ pc[j] \in Reverting => completed[j] \ {cur[j]} \subseteq applied[j]

\* A task that does not continue after a failure leaves no step out.
WholeSoFar(j) ==
  task[j].policy # "continue" =>
    /\ pc[j] \in {"open", "exec", "record_ok"} => 1..(cur[j] - 1) \subseteq applied[j]
    /\ pc[j] = "progress" => 1..cur[j] \subseteq applied[j]
    /\ pc[j] = "finish" => StepsOf(j) \subseteq applied[j]
    /\ pc[j] \in {"open", "exec", "progress"} => applied[j] \subseteq completed[j]
    /\ pc[j] \in {"record_ok", "record_failed", "begin_rollback"} =>
         applied[j] \subseteq completed[j] \cup {cur[j]}

\* The steps behind the one at work are over.
RowsSoFar(j) ==
  LET over == {"succeeded", "failed"}
  IN  /\ pc[j] \in Forward => \A i \in 1..(cur[j] - 1) : rows[j][i] \in over
      /\ pc[j] = "progress" => rows[j][cur[j]] = "succeeded"
      /\ pc[j] = "finish" => \A i \in StepsOf(j) : rows[j][i] \in over

\* What rolling back has dealt with and what it has still to do.
RollbackFits(j) ==
  /\ pc[j] \in Rolling \cup {"begin_rollback"} => task[j].policy = "rollback"
  /\ pc[j] \in Forward \cup {"begin_rollback"} => ~rollbackFailed[j]
  /\ pc[j] \in Rolling /\ ~rollbackFailed[j] =>
       /\ \E failing \in StepsOf(j) : \A i \in applied[j] \ completed[j] :
            i = failing \/ task[j].revert[i] = "none"
       /\ \A i \in applied[j] \ completed[j] : rows[j][i] \in {"failed", "revert_skipped"}
       /\ pc[j] = "finish_rollback" => completed[j] = {}

\* RowsTellEffects, RevertedLeavesNothingElse and SuccessIsWhole for one job.
RowsTell(j) ==
  \A i \in Steps :
    /\ rows[j][i] \in {"succeeded", "revert_skipped"} => i \in applied[j]
    /\ rows[j][i] \in {"absent", "queued", "reverted"} => i \notin applied[j]

NothingElse(j) ==
  status[j] = "reverted" => \A i \in applied[j] : rows[j][i] \in {"failed", "revert_skipped"}

Whole(j) ==
  status[j] = "succeeded" =>
    /\ progress[j] = 100
    /\ task[j].policy # "continue" => applied[j] = StepsOf(j)
    /\ \A i \in StepsOf(j) : rows[j][i] \in {"succeeded", "failed"}

JobInv(j) ==
  /\ StatusFits(j)
  /\ StepFits(j)
  /\ EffectsFit(j)
  /\ WholeSoFar(j)
  /\ RowsSoFar(j)
  /\ RollbackFits(j)
  /\ RowsTell(j)
  /\ NothingElse(j)
  /\ Whole(j)

IInv == TypeOK /\ \A j \in Jobs : JobInv(j)

-----------------------------------------------------------------------------
(* Lemmas *)

\* What a job runs is a task of the shape that schedule accepts.
LEMMA TaskShape ==
  ASSUME TypeOK, NEW j \in Jobs
  PROVE  /\ task[j].policy \in Policies
         /\ task[j].size \in 0..MaxSteps
         /\ task[j].revert \in [Steps -> Reverts]
         /\ StepsOf(j) \subseteq Steps
BY ConstantsAssumption DEF TypeOK, Task, StepsOf, Steps

\* The percentage of a step of a task is a natural number.
LEMMA PercentIsNat ==
  ASSUME NEW i \in Nat, NEW n \in Nat \ {0}
  PROVE  Percent(i, n) \in Nat
BY DEF Percent

\* A step of one job changes nothing of another job.
LEMMA Frame ==
  ASSUME TypeOK, NEW j \in Jobs, NEW k \in Jobs \ {j},
         Schedule(j) \/ Advance(j) \/ StatementFails(j)
  PROVE  /\ task' = task
         /\ status'[k] = status[k] /\ progress'[k] = progress[k]
         /\ rows'[k] = rows[k] /\ pc'[k] = pc[k] /\ cur'[k] = cur[k]
         /\ completed'[k] = completed[k] /\ rollbackFailed'[k] = rollbackFailed[k]
         /\ applied'[k] = applied[k] /\ announced'[k] = announced[k]
BY DEF TypeOK, Goto, SetStatus, SetRow, Announce, NextStep, NextRevert, Schedule, Advance,
       StatementFails, persisted, bounds, PersistSteps, StartJob, FinishEmpty, OpenStep,
       ExecuteOk, ExecuteFails, RecordSuccess, RecordProgress, RecordFailure, FinishFailed,
       FinishSucceeded, BeginRollback, SkipRevert, OpenRevert, RevertOk, RevertFails,
       RecordReverted, RecordRevertFailed, FinishRollback, CatchJob

LEMMA OtherJob ==
  ASSUME TypeOK, NEW j \in Jobs, NEW k \in Jobs \ {j}, JobInv(k),
         Schedule(j) \/ Advance(j) \/ StatementFails(j)
  PROVE  JobInv(k)'
BY Frame DEF JobInv, StatusFits, StepFits, EffectsFit, WholeSoFar, RollbackFits, RowsTell,
       RowsSoFar, NothingElse, Whole, StepsOf

\* The step at work is a step.
LEMMA AtWork ==
  ASSUME IInv, NEW j \in Jobs, pc[j] \in Forward \cup Reverting \cup {"begin_rollback"}
  PROVE  cur[j] \in StepsOf(j) /\ cur[j] \in Steps /\ task[j].size \in Nat \ {0}
<1>1. cur[j] \in StepsOf(j) /\ StepsOf(j) \subseteq Steps
  BY TaskShape DEF IInv, JobInv, StepFits
<1>2. task[j].size \in 0..MaxSteps /\ MaxSteps \in Nat
  BY TaskShape, ConstantsAssumption DEF IInv
<1> QED BY <1>1, <1>2 DEF StepsOf

\* A step keeps every variable in its type.
LEMMA TypeStep ==
  ASSUME IInv, NEW j \in Jobs, Schedule(j) \/ Advance(j) \/ StatementFails(j)
  PROVE  TypeOK'
<1>0. TypeOK /\ MaxSteps \in Nat /\ MaxFaults \in Nat /\ task[j].size \in 0..MaxSteps
  BY TaskShape, ConstantsAssumption DEF IInv
<1> USE <1>0 DEF TypeOK, Goto, bounds
<1>1. CASE Schedule(j)
  BY <1>1 DEF Schedule, SetStatus, Points, JobStatus
<1>2. CASE PersistSteps(j)
  BY <1>2 DEF PersistSteps, Announce, Points, UncaughtPoints, RowStatus, JobEvents, Steps
<1>3. CASE StartJob(j)
  <2>1. pc' \in [Jobs -> Points]
    BY <1>3 DEF StartJob, Points, UncaughtPoints, StepTryPoints, RevertTryPoints, Stopped
  <2>2. cur' \in [Jobs -> 0..MaxSteps]
    BY <1>3 DEF StartJob
  <2> QED BY <1>3, <2>1, <2>2 DEF StartJob, SetStatus, Announce, JobStatus, JobEvents
<1>4. CASE FinishEmpty(j)
  BY <1>4 DEF FinishEmpty, SetStatus, Announce, Points, Stopped, JobStatus, Terminal, JobEvents
<1>5. CASE OpenStep(j)
  <2>1. cur[j] \in StepsOf(j) /\ cur[j] \in Steps /\ task[j].size \in Nat \ {0}
    BY <1>5, AtWork DEF OpenStep, Forward, Reverting
  <2> QED BY <1>5, <2>1 DEF OpenStep, SetRow, Points, RowStatus
<1>6. CASE ExecuteOk(j)
  <2>1. cur[j] \in StepsOf(j) /\ cur[j] \in Steps /\ task[j].size \in Nat \ {0}
    BY <1>6, AtWork DEF ExecuteOk, Forward, Reverting
  <2> QED BY <1>6, <2>1 DEF ExecuteOk, persisted, Points, StepTryPoints
<1>7. CASE ExecuteFails(j)
  <2>1. cur[j] \in StepsOf(j) /\ cur[j] \in Steps /\ task[j].size \in Nat \ {0}
    BY <1>7, AtWork DEF ExecuteFails, Forward, Reverting
  <2> QED BY <1>7, <2>1 DEF ExecuteFails, persisted, Points, UncaughtPoints
<1>8. CASE RecordSuccess(j)
  <2>1. cur[j] \in StepsOf(j) /\ cur[j] \in Steps /\ task[j].size \in Nat \ {0}
    BY <1>8, AtWork DEF RecordSuccess, Forward, Reverting
  <2> QED BY <1>8, <2>1 DEF RecordSuccess, SetRow, Points, StepTryPoints, RowStatus
<1>9. CASE RecordProgress(j)
  <2>1. cur[j] \in StepsOf(j) /\ cur[j] \in Steps /\ task[j].size \in Nat \ {0}
    BY <1>9, AtWork DEF RecordProgress, Forward, Reverting
  <2>2. pc' \in [Jobs -> Points]
    BY <1>9 DEF RecordProgress, NextStep, Points, UncaughtPoints, RevertTryPoints
  <2>3. cur' \in [Jobs -> 0..MaxSteps]
    <3>1. NextStep(j) /\ cur[j] + 1 \in Nat
      BY <1>9, <2>1 DEF RecordProgress, Steps
    <3> QED BY <3>1, <2>1 DEF NextStep, StepsOf
  <2>4. Percent(cur[j], task[j].size) \in Nat
    <3>1. cur[j] \in Nat BY <2>1 DEF Steps
    <3> QED BY <3>1, <2>1, PercentIsNat
  <2> QED BY <1>9, <2>2, <2>3, <2>4 DEF RecordProgress
<1>10. CASE RecordFailure(j)
  <2>1. cur[j] \in StepsOf(j) /\ cur[j] \in Steps /\ task[j].size \in Nat \ {0}
    BY <1>10, AtWork DEF RecordFailure, Forward, Reverting
  <2>2. pc' \in [Jobs -> Points]
    BY <1>10 DEF RecordFailure, NextStep, Points, UncaughtPoints, StepTryPoints,
           RevertTryPoints, Stopped
  <2>3. cur' \in [Jobs -> 0..MaxSteps]
    <3>1. cur' = cur \/ (cur' = [cur EXCEPT ![j] = @ + 1] /\ cur[j] < task[j].size)
      BY <1>10 DEF RecordFailure, NextStep
    <3>2. cur[j] < task[j].size => cur[j] + 1 \in 0..MaxSteps
      BY <2>1 DEF Steps
    <3> QED BY <3>1, <3>2
  <2>4. rows' \in [Jobs -> [Steps -> RowStatus]]
    <3>1. rows' = [rows EXCEPT ![j][cur[j]] = "failed"]
      BY <1>10 DEF RecordFailure, SetRow
    <3>2. "failed" \in RowStatus
      BY DEF RowStatus
    <3> QED BY <2>1, <3>1, <3>2
  <2> QED BY <1>10, <2>2, <2>3, <2>4 DEF RecordFailure
<1>11. CASE FinishFailed(j)
  BY <1>11 DEF FinishFailed, SetStatus, Announce, Points, Stopped, JobStatus, Terminal,
         JobEvents
<1>12. CASE FinishSucceeded(j)
  BY <1>12 DEF FinishSucceeded, SetStatus, Points, Stopped, JobStatus, Terminal
<1>13. CASE BeginRollback(j)
  BY <1>13 DEF BeginRollback, SetStatus, Announce, NextRevert, Points, UncaughtPoints,
         JobStatus, JobEvents, Steps
<1>14. CASE SkipRevert(j)
  BY <1>14 DEF SkipRevert, SetRow, NextRevert, IsLatest, Points, UncaughtPoints,
         RevertTryPoints, RowStatus
<1>15. CASE OpenRevert(j)
  BY <1>15 DEF OpenRevert, SetRow, Points, RowStatus, Steps
<1>16. CASE RevertOk(j)
  <2>1. cur[j] \in StepsOf(j) /\ cur[j] \in Steps /\ task[j].size \in Nat \ {0}
    BY <1>16, AtWork DEF RevertOk, Forward, Reverting
  <2> QED BY <1>16, <2>1 DEF RevertOk, persisted, Points, RevertTryPoints
<1>17. CASE RevertFails(j)
  <2>1. cur[j] \in StepsOf(j) /\ cur[j] \in Steps /\ task[j].size \in Nat \ {0}
    BY <1>17, AtWork DEF RevertFails, Forward, Reverting
  <2> QED BY <1>17, <2>1 DEF RevertFails, persisted, Points, UncaughtPoints
<1>18. CASE RecordReverted(j)
  <2>1. cur[j] \in StepsOf(j) /\ cur[j] \in Steps /\ task[j].size \in Nat \ {0}
    BY <1>18, AtWork DEF RecordReverted, Forward, Reverting
  <2> QED BY <1>18, <2>1 DEF RecordReverted, SetRow, NextRevert, Points, UncaughtPoints,
         RevertTryPoints, RowStatus
<1>19. CASE RecordRevertFailed(j)
  <2>1. cur[j] \in StepsOf(j) /\ cur[j] \in Steps /\ task[j].size \in Nat \ {0}
    BY <1>19, AtWork DEF RecordRevertFailed, Forward, Reverting
  <2>2. pc' \in [Jobs -> Points]
    BY <1>19, <2>1 DEF RecordRevertFailed, SetRow, NextRevert, Points, UncaughtPoints,
           StepTryPoints, RevertTryPoints, Stopped, RowStatus, Steps
  <2>3. rows' \in [Jobs -> [Steps -> RowStatus]]
    <3>1. rows' = [rows EXCEPT ![j][cur[j]] = "revert_failed"]
      BY <1>19 DEF RecordRevertFailed, SetRow
    <3>2. "revert_failed" \in RowStatus
      BY DEF RowStatus
    <3> QED BY <2>1, <3>1, <3>2
  <2>4. rollbackFailed' \in [Jobs -> BOOLEAN]
    BY <1>19 DEF RecordRevertFailed
  <2>5. completed' \in [Jobs -> SUBSET Steps]
    <3>1. completed' = completed \/ completed' = [completed EXCEPT ![j] = completed[j] \ {cur[j]}]
      BY <1>19 DEF RecordRevertFailed, NextRevert
    <3> QED BY <3>1
  <2> QED BY <1>19, <2>2, <2>3, <2>4, <2>5 DEF RecordRevertFailed
<1>20. CASE FinishRollback(j)
  BY <1>20 DEF FinishRollback, SetStatus, Announce, Points, Stopped, JobStatus, Terminal,
         JobEvents
<1>21. CASE CatchJob(j)
  BY <1>21 DEF CatchJob, SetStatus, Announce, Points, Stopped, JobStatus, Terminal, JobEvents
<1>22. CASE StatementFails(j)
  <2>1. pc' \in [Jobs -> Points]
    BY <1>22 DEF StatementFails, Points, UncaughtPoints, StepTryPoints, RevertTryPoints,
           Stopped
  <2>2. faults' \in 0..MaxFaults
    BY <1>22 DEF StatementFails
  <2> QED BY <1>22, <2>1, <2>2 DEF StatementFails, persisted
<1> QED BY <1>1, <1>2, <1>3, <1>4, <1>5, <1>6, <1>7, <1>8, <1>9, <1>10, <1>11, <1>12,
       <1>13, <1>14, <1>15, <1>16, <1>17, <1>18, <1>19, <1>20, <1>21, <1>22
       DEF Advance

\* A step of a job keeps that job's part of the invariant.
LEMMA OwnJob ==
  ASSUME IInv, NEW j \in Jobs, Schedule(j) \/ Advance(j) \/ StatementFails(j)
  PROVE  JobInv(j)'
<1>0. /\ TypeOK /\ JobInv(j) /\ MaxSteps \in Nat
      /\ task[j].size \in 0..MaxSteps /\ StepsOf(j) \subseteq Steps
  BY TaskShape, ConstantsAssumption DEF IInv
<1> USE <1>0 DEF TypeOK, JobInv, Goto, bounds
<1>1. CASE Schedule(j)
  BY <1>1 DEF Schedule, SetStatus, Forward, Reverting, Rolling, StatusFits, StepFits,
         EffectsFit, WholeSoFar, RowsSoFar, RollbackFits, RowsTell, NothingElse, Whole
<1>2. CASE PersistSteps(j)
  BY <1>2 DEF PersistSteps, Steps, Forward, Reverting, Rolling, StatusFits, StepFits,
         EffectsFit, WholeSoFar, RowsSoFar, RollbackFits, RowsTell, NothingElse, Whole
<1>3. CASE StartJob(j)
  BY <1>3 DEF StartJob, SetStatus, StepsOf, Forward, Reverting, Rolling, StatusFits,
         StepFits, EffectsFit, WholeSoFar, RowsSoFar, RollbackFits, RowsTell, NothingElse,
         Whole
<1>4. CASE FinishEmpty(j)
  <2>1. applied[j] = {} /\ StepsOf(j) = {}
    BY <1>4 DEF FinishEmpty, StepFits, EffectsFit, StepsOf
  <2> QED
    BY <1>4, <2>1 DEF FinishEmpty, SetStatus, StepsOf, Forward, Reverting, Rolling,
           Terminal, StatusFits, StepFits, EffectsFit, WholeSoFar, RowsSoFar, RollbackFits,
           RowsTell, NothingElse, Whole
<1>5. CASE OpenStep(j)
  <2>1. StatusFits(j)'
    BY <1>5 DEF OpenStep, Forward, Reverting, Rolling, StatusFits
  <2>2. StepFits(j)'
    BY <1>5 DEF OpenStep, SetRow, StepsOf, Forward, Reverting, StepFits
  <2>3. EffectsFit(j)'
    BY <1>5 DEF OpenStep, StepsOf, Forward, EffectsFit
  <2>4. WholeSoFar(j)'
    BY <1>5 DEF OpenStep, WholeSoFar, Whole
  <2>5. RowsSoFar(j)'
    BY <1>5 DEF OpenStep, SetRow, Forward, RowsSoFar
  <2>6. RollbackFits(j)'
    BY <1>5 DEF OpenStep, Forward, Reverting, Rolling, RollbackFits
  <2>7. RowsTell(j)'
    BY <1>5 DEF OpenStep, SetRow, RowsTell
  <2>8. NothingElse(j)'
    BY <1>5 DEF OpenStep, Forward, StatusFits, NothingElse
  <2>9. Whole(j)'
    BY <1>5 DEF OpenStep, Forward, StatusFits, Whole
  <2> QED BY <2>1, <2>2, <2>3, <2>4, <2>5, <2>6, <2>7, <2>8, <2>9
<1>6. CASE ExecuteOk(j)
  BY <1>6 DEF ExecuteOk, persisted, StepsOf, Forward, Reverting, Rolling, StatusFits,
         StepFits, EffectsFit, WholeSoFar, RowsSoFar, RollbackFits, RowsTell, NothingElse,
         Whole
<1>7. CASE ExecuteFails(j)
  BY <1>7 DEF ExecuteFails, persisted, StepsOf, Forward, Reverting, Rolling, StatusFits,
         StepFits, EffectsFit, WholeSoFar, RowsSoFar, RollbackFits, RowsTell, NothingElse,
         Whole
<1>8. CASE RecordSuccess(j)
  BY <1>8 DEF RecordSuccess, SetRow, Steps, StepsOf, Forward, Reverting, Rolling,
         StatusFits, StepFits, EffectsFit, WholeSoFar, RowsSoFar, RollbackFits, RowsTell,
         NothingElse, Whole
<1>9. CASE RecordProgress(j)
  BY <1>9 DEF RecordProgress, NextStep, Steps, StepsOf, Forward, Reverting, Rolling,
         StatusFits, StepFits, EffectsFit, WholeSoFar, RowsSoFar, RollbackFits, RowsTell,
         NothingElse, Whole
<1>10. CASE RecordFailure(j)
  <2>1. StatusFits(j)'
    BY <1>10 DEF RecordFailure, NextStep, Forward, Reverting, Rolling, StatusFits
  <2>2. StepFits(j)'
    BY <1>10 DEF RecordFailure, SetRow, NextStep, StepsOf, Forward, Reverting, StepFits
  <2>3. EffectsFit(j)'
    BY <1>10 DEF RecordFailure, NextStep, StepsOf, Forward, EffectsFit
  <2>4. WholeSoFar(j)'
    BY <1>10 DEF RecordFailure, WholeSoFar, Whole
  <2>5. RowsSoFar(j)'
    BY <1>10 DEF RecordFailure, SetRow, NextStep, Steps, StepsOf, Forward, Rolling,
           StatusFits, StepFits, EffectsFit, WholeSoFar, RowsSoFar
  <2>6. RollbackFits(j)'
    BY <1>10 DEF RecordFailure, NextStep, Forward, Reverting, Rolling, RollbackFits
  <2>7. RowsTell(j)'
    BY <1>10 DEF RecordFailure, SetRow, RowsTell
  <2>8. NothingElse(j)'
    BY <1>10 DEF RecordFailure, SetRow, NothingElse
  <2>9. Whole(j)'
    BY <1>10 DEF RecordFailure, SetRow, StepsOf, Whole
  <2> QED BY <2>1, <2>2, <2>3, <2>4, <2>5, <2>6, <2>7, <2>8, <2>9
<1>11. CASE FinishFailed(j)
  BY <1>11 DEF FinishFailed, SetStatus, StepsOf, Forward, Reverting, Rolling, Terminal,
         StatusFits, StepFits, EffectsFit, WholeSoFar, RowsSoFar, RollbackFits, RowsTell,
         NothingElse, Whole
<1>12. CASE FinishSucceeded(j)
  <2>1. StatusFits(j)'
    BY <1>12 DEF FinishSucceeded, SetStatus, Forward, Reverting, Rolling, Terminal, StatusFits
  <2>2. StepFits(j)'
    BY <1>12 DEF FinishSucceeded, Forward, Reverting, StepFits
  <2>3. EffectsFit(j)'
    BY <1>12 DEF FinishSucceeded, StepsOf, Forward, Reverting, EffectsFit
  <2>4. WholeSoFar(j)'
    BY <1>12 DEF FinishSucceeded, WholeSoFar, Whole
  <2>5. RowsSoFar(j)'
    BY <1>12 DEF FinishSucceeded, Forward, RowsSoFar
  <2>6. RollbackFits(j)'
    BY <1>12 DEF FinishSucceeded, Forward, Reverting, Rolling, RollbackFits
  <2>7. RowsTell(j)'
    BY <1>12 DEF FinishSucceeded, RowsTell
  <2>8. NothingElse(j)'
    BY <1>12 DEF FinishSucceeded, SetStatus, NothingElse
  <2>9. Whole(j)'
    <3>1. /\ progress'[j] = 100
          /\ task[j].policy # "continue" => StepsOf(j) \subseteq applied[j]
      BY <1>12 DEF FinishSucceeded, WholeSoFar
    <3>2. \A i \in StepsOf(j) : rows[j][i] \in {"succeeded", "failed"}
      BY <1>12 DEF FinishSucceeded, RowsSoFar
    <3>3. applied[j] \subseteq StepsOf(j)
      BY <1>12 DEF EffectsFit
    <3>4. UNCHANGED <<task, rows, applied>>
      BY <1>12 DEF FinishSucceeded
    <3>5. StepsOf(j)' = StepsOf(j)
      BY <3>4 DEF StepsOf
    <3>6. ASSUME task[j].policy # "continue" PROVE applied[j] = StepsOf(j)
      <4>1. StepsOf(j) \subseteq applied[j]
        BY <3>1, <3>6
      <4> QED BY <4>1, <3>3, Zenon
    <3> QED BY <3>1, <3>2, <3>4, <3>5, <3>6 DEF Whole
  <2> QED BY <2>1, <2>2, <2>3, <2>4, <2>5, <2>6, <2>7, <2>8, <2>9
<1>13. CASE BeginRollback(j)
  <2>1. StatusFits(j)'
    BY <1>13 DEF BeginRollback, SetStatus, NextRevert, Forward, StatusFits
  <2>2. StepFits(j)'
    BY <1>13 DEF BeginRollback, NextRevert, Forward, Reverting, StepFits
  <2>3. EffectsFit(j)'
    BY <1>13 DEF BeginRollback, NextRevert, StepsOf, EffectsFit
  <2>4. WholeSoFar(j)'
    BY <1>13 DEF BeginRollback, NextRevert, WholeSoFar, Whole
  <2>5. RowsSoFar(j)'
    BY <1>13 DEF BeginRollback, NextRevert, Forward, RowsSoFar
  <2>6. RollbackFits(j)'
    BY <1>13 DEF BeginRollback, NextRevert, StepsOf, StepFits, WholeSoFar, RollbackFits
  <2>7. RowsTell(j)'
    BY <1>13 DEF BeginRollback, RowsTell
  <2>8. NothingElse(j)'
    BY <1>13 DEF BeginRollback, SetStatus, NothingElse
  <2>9. Whole(j)'
    BY <1>13 DEF BeginRollback, SetStatus, Whole
  <2> QED BY <2>1, <2>2, <2>3, <2>4, <2>5, <2>6, <2>7, <2>8, <2>9
<1>14. CASE SkipRevert(j)
  <2>1. StatusFits(j)'
    BY <1>14 DEF SkipRevert, NextRevert, Forward, Rolling, StatusFits
  <2>2. StepFits(j)'
    BY <1>14 DEF SkipRevert, NextRevert, Forward, Reverting, StepFits
  <2>3. EffectsFit(j)'
    BY <1>14 DEF SkipRevert, NextRevert, StepsOf, EffectsFit
  <2>4. WholeSoFar(j)'
    BY <1>14 DEF SkipRevert, NextRevert, WholeSoFar, Whole
  <2>5. RowsSoFar(j)'
    BY <1>14 DEF SkipRevert, NextRevert, Forward, RowsSoFar
  <2>6. RollbackFits(j)'
    BY <1>14 DEF SkipRevert, SetRow, NextRevert, IsLatest, Steps, StepsOf, Forward,
           Reverting, Rolling, StatusFits, StepFits, EffectsFit, WholeSoFar, RowsSoFar,
           RollbackFits, RowsTell, NothingElse, Whole
  <2>7. RowsTell(j)'
    BY <1>14 DEF SkipRevert, SetRow, EffectsFit, RowsTell
  <2>8. NothingElse(j)'
    BY <1>14 DEF SkipRevert, SetRow, NothingElse
  <2>9. Whole(j)'
    BY <1>14 DEF SkipRevert, Rolling, StatusFits, Whole
  <2> QED BY <2>1, <2>2, <2>3, <2>4, <2>5, <2>6, <2>7, <2>8, <2>9
<1>15. CASE OpenRevert(j)
  <2>1. StatusFits(j)'
    BY <1>15 DEF OpenRevert, Forward, Rolling, StatusFits
  <2>2. StepFits(j)'
    BY <1>15 DEF OpenRevert, SetRow, StepsOf, StepFits, EffectsFit
  <2>3. EffectsFit(j)'
    BY <1>15 DEF OpenRevert, StepsOf, EffectsFit
  <2>4. WholeSoFar(j)'
    BY <1>15 DEF OpenRevert, WholeSoFar, Whole
  <2>5. RowsSoFar(j)'
    BY <1>15 DEF OpenRevert, Forward, RowsSoFar
  <2>6. RollbackFits(j)'
    BY <1>15 DEF OpenRevert, SetRow, StepsOf, Forward, Rolling, RollbackFits
  <2>7. RowsTell(j)'
    BY <1>15 DEF OpenRevert, SetRow, IsLatest, RowsTell
  <2>8. NothingElse(j)'
    BY <1>15 DEF OpenRevert, Steps, Rolling, StatusFits, NothingElse
  <2>9. Whole(j)'
    BY <1>15 DEF OpenRevert, Rolling, StatusFits, Whole
  <2> QED BY <2>1, <2>2, <2>3, <2>4, <2>5, <2>6, <2>7, <2>8, <2>9
<1>16. CASE RevertOk(j)
  BY <1>16 DEF RevertOk, persisted, Steps, StepsOf, Forward, Reverting, Rolling,
         StatusFits, StepFits, EffectsFit, WholeSoFar, RowsSoFar, RollbackFits, RowsTell,
         NothingElse, Whole
<1>17. CASE RevertFails(j)
  BY <1>17 DEF RevertFails, persisted, StepsOf, Forward, Reverting, Rolling, StatusFits,
         StepFits, EffectsFit, WholeSoFar, RowsSoFar, RollbackFits, RowsTell, NothingElse,
         Whole
<1>18. CASE RecordReverted(j)
  BY <1>18 DEF RecordReverted, SetRow, NextRevert, StepsOf, Forward, Reverting, Rolling,
         StatusFits, StepFits, EffectsFit, WholeSoFar, RowsSoFar, RollbackFits, RowsTell,
         NothingElse, Whole
<1>19. CASE RecordRevertFailed(j)
  BY <1>19 DEF RecordRevertFailed, SetRow, NextRevert, StepsOf, Forward, Reverting,
         Rolling, StatusFits, StepFits, EffectsFit, WholeSoFar, RowsSoFar, RollbackFits,
         RowsTell, NothingElse, Whole
<1>20. CASE FinishRollback(j)
  BY <1>20 DEF FinishRollback, SetStatus, StepsOf, Forward, Reverting, Rolling, Terminal,
         StatusFits, StepFits, EffectsFit, WholeSoFar, RowsSoFar, RollbackFits, RowsTell,
         NothingElse, Whole
<1>21. CASE CatchJob(j)
  BY <1>21 DEF CatchJob, SetStatus, Steps, StepsOf, Forward, Reverting, Rolling, Terminal,
         StatusFits, StepFits, EffectsFit, WholeSoFar, RowsSoFar, RollbackFits, RowsTell,
         NothingElse, Whole
<1>22. CASE StatementFails(j)
  <2>1. StatusFits(j)'
    BY <1>22 DEF StatementFails, persisted, UncaughtPoints, StepTryPoints, RevertTryPoints,
           Steps, StepsOf, Forward, Reverting, Rolling, StatusFits, StepFits, EffectsFit,
           WholeSoFar, RowsSoFar, RollbackFits, RowsTell, NothingElse, Whole
  <2>2. StepFits(j)'
    BY <1>22 DEF StatementFails, persisted, UncaughtPoints, StepTryPoints, RevertTryPoints,
           Steps, StepsOf, Forward, Reverting, Rolling, StatusFits, StepFits, EffectsFit,
           WholeSoFar, RowsSoFar, RollbackFits, RowsTell, NothingElse, Whole
  <2>3. EffectsFit(j)'
    BY <1>22 DEF StatementFails, persisted, UncaughtPoints, StepTryPoints, RevertTryPoints,
           Steps, StepsOf, Forward, Reverting, Rolling, StatusFits, StepFits, EffectsFit,
           WholeSoFar, RowsSoFar, RollbackFits, RowsTell, NothingElse, Whole
  <2>4. WholeSoFar(j)'
    BY <1>22 DEF StatementFails, persisted, UncaughtPoints, StepTryPoints, RevertTryPoints,
           Steps, StepsOf, Forward, Reverting, Rolling, StatusFits, StepFits, EffectsFit,
           WholeSoFar, RowsSoFar, RollbackFits, RowsTell, NothingElse, Whole
  <2>5. RowsSoFar(j)'
    BY <1>22 DEF StatementFails, persisted, UncaughtPoints, StepTryPoints, RevertTryPoints,
           Steps, StepsOf, Forward, Reverting, Rolling, StatusFits, StepFits, EffectsFit,
           WholeSoFar, RowsSoFar, RollbackFits, RowsTell, NothingElse, Whole
  <2>6. RollbackFits(j)'
    BY <1>22 DEF StatementFails, persisted, UncaughtPoints, StepTryPoints, RevertTryPoints,
           Steps, StepsOf, Forward, Reverting, Rolling, StatusFits, StepFits, EffectsFit,
           WholeSoFar, RowsSoFar, RollbackFits, RowsTell, NothingElse, Whole
  <2>7. RowsTell(j)'
    BY <1>22 DEF StatementFails, persisted, UncaughtPoints, StepTryPoints, RevertTryPoints,
           Steps, StepsOf, Forward, Reverting, Rolling, StatusFits, StepFits, EffectsFit,
           WholeSoFar, RowsSoFar, RollbackFits, RowsTell, NothingElse, Whole
  <2>8. NothingElse(j)'
    BY <1>22 DEF StatementFails, persisted, UncaughtPoints, StepTryPoints, RevertTryPoints,
           Steps, StepsOf, Forward, Reverting, Rolling, StatusFits, StepFits, EffectsFit,
           WholeSoFar, RowsSoFar, RollbackFits, RowsTell, NothingElse, Whole
  <2>9. Whole(j)'
    BY <1>22 DEF StatementFails, persisted, UncaughtPoints, StepTryPoints, RevertTryPoints,
           Steps, StepsOf, Forward, Reverting, Rolling, StatusFits, StepFits, EffectsFit,
           WholeSoFar, RowsSoFar, RollbackFits, RowsTell, NothingElse, Whole
  <2> QED BY <2>1, <2>2, <2>3, <2>4, <2>5, <2>6, <2>7, <2>8, <2>9
<1> QED BY <1>1, <1>2, <1>3, <1>4, <1>5, <1>6, <1>7, <1>8, <1>9, <1>10, <1>11, <1>12,
       <1>13, <1>14, <1>15, <1>16, <1>17, <1>18, <1>19, <1>20, <1>21, <1>22
       DEF Advance

\* The death of the process keeps the invariant: it changes nothing but where
\* the jobs are.
LEMMA DeathStep ==
  ASSUME IInv, Die,
         UNCHANGED <<task, persisted, cur, completed, rollbackFailed, applied, announced>>,
         faults' \in 0..MaxFaults, crashes' \in 0..MaxCrashes
  PROVE  IInv'
<1>1. pc' \in [Jobs -> Points]
  BY DEF IInv, Die, Points, Stopped
<1>2. TypeOK'
  BY <1>1 DEF IInv, TypeOK, persisted
<1>3. ASSUME NEW j \in Jobs PROVE JobInv(j)'
  <2>1. /\ JobInv(j) /\ pc[j] \in Points
        /\ pc'[j] = IF pc[j] \in Stopped THEN pc[j] ELSE "lost"
    BY DEF IInv, TypeOK, Die
  <2> QED
    BY <2>1 DEF JobInv, persisted, Points, UncaughtPoints, StepTryPoints, RevertTryPoints,
           Forward, Reverting, Rolling, StatusFits, StepFits, EffectsFit, WholeSoFar,
           RollbackFits, RowsTell, NothingElse, RowsSoFar, Whole, StepsOf
<1> QED BY <1>2, <1>3 DEF IInv

-----------------------------------------------------------------------------
(* The invariant *)

LEMMA InitIInv == Init => IInv
<1> SUFFICES ASSUME Init PROVE IInv
  OBVIOUS
<1>1. TypeOK
  BY ConstantsAssumption DEF Init, TypeOK, JobStatus, RowStatus, Points, Stopped
<1>2. ASSUME NEW j \in Jobs PROVE JobInv(j)
  BY DEF Init, JobInv, StatusFits, StepFits, EffectsFit, WholeSoFar, RollbackFits,
         RowsTell, NothingElse, RowsSoFar, Whole, Forward, Reverting, Rolling
<1> QED BY <1>1, <1>2 DEF IInv

LEMMA NextIInv == IInv /\ [Next]_vars => IInv'
<1> SUFFICES ASSUME IInv, [Next]_vars PROVE IInv'
  OBVIOUS
<1>1. ASSUME NEW j \in Jobs, Schedule(j) \/ Advance(j) \/ StatementFails(j)
      PROVE  IInv'
  <2>1. TypeOK'
    BY <1>1, TypeStep
  <2>2. ASSUME NEW k \in Jobs PROVE JobInv(k)'
    <3>1. CASE k = j
      BY <1>1, <3>1, OwnJob
    <3>2. CASE k # j
      BY <1>1, <3>2, OtherJob DEF IInv
    <3> QED BY <3>1, <3>2
  <2> QED BY <2>1, <2>2 DEF IInv
<1>2. ASSUME NEW j \in Jobs, CatchFails(j) PROVE IInv'
  <2>1. faults' \in 0..MaxFaults /\ crashes' \in 0..MaxCrashes
    BY <1>2, ConstantsAssumption DEF IInv, TypeOK, CatchFails
  <2> QED BY <1>2, <2>1, DeathStep DEF CatchFails
<1>3. CASE Crash
  <2>1. faults' \in 0..MaxFaults /\ crashes' \in 0..MaxCrashes
    BY <1>3, ConstantsAssumption DEF IInv, TypeOK, Crash
  <2> QED BY <1>3, <2>1, DeathStep DEF Crash
<1>4. CASE UNCHANGED vars
  BY <1>4 DEF vars, persisted, memory, bounds, IInv, TypeOK, JobInv, StatusFits, StepFits,
         EffectsFit, WholeSoFar, RollbackFits, RowsTell, NothingElse, RowsSoFar, Whole,
         StepsOf
<1> QED BY <1>1, <1>2, <1>3, <1>4 DEF Next

\* The inductive invariant holds in every reachable state.
THEOREM Inductive == Spec => []IInv
<1>1. Init => IInv
  BY InitIInv
<1>2. IInv /\ [Next]_vars => IInv'
  BY NextIInv
<1> QED BY <1>1, <1>2, PTL DEF Spec

-----------------------------------------------------------------------------
(* What follows from it *)

\* Every variable keeps its type.
THEOREM TypeCorrect == Spec => []TypeOK
<1>1. IInv => TypeOK
  BY DEF IInv
<1> QED BY <1>1, Inductive, PTL

\* The rows of job_steps tell what happened on the router, for every task,
\* every failing statement and every death of the process.
THEOREM RowsAreTrue == Spec => []RowsTellEffects
<1>1. IInv => RowsTellEffects
  BY DEF IInv, JobInv, RowsTell, RowsTellEffects
<1> QED BY <1>1, Inductive, PTL

\* A job that says 'reverted' has left nothing but what cannot be reverted and
\* what its failing step did.
THEOREM RevertedIsHonest == Spec => []RevertedLeavesNothingElse
<1>1. IInv => RevertedLeavesNothingElse
  BY DEF IInv, JobInv, NothingElse, RevertedLeavesNothingElse
<1> QED BY <1>1, Inductive, PTL

\* Success is whole.
THEOREM SuccessIsTrue == Spec => []SuccessIsWhole
<1>1. IInv => SuccessIsWhole
  BY DEF IInv, JobInv, Whole, SuccessIsWhole
<1> QED BY <1>1, Inductive, PTL

\* A finished job is at rest.
LEMMA FinishedRests ==
  ASSUME IInv, NEW j \in Jobs, status[j] \in Terminal
  PROVE  pc[j] = "done"
BY DEF IInv, TypeOK, JobInv, StatusFits, Terminal, Points, UncaughtPoints, StepTryPoints,
       RevertTryPoints, Stopped, Forward, Reverting, Rolling

LEMMA DoneTakesNoStep ==
  ASSUME NEW j \in Jobs, pc[j] = "done"
  PROVE  ~(Schedule(j) \/ Advance(j) \/ StatementFails(j) \/ CatchFails(j))
BY DEF Schedule, Advance, StatementFails, CatchFails, UncaughtPoints, StepTryPoints,
       RevertTryPoints, PersistSteps, StartJob, FinishEmpty, OpenStep, ExecuteOk,
       ExecuteFails, RecordSuccess, RecordProgress, RecordFailure, FinishFailed,
       FinishSucceeded, BeginRollback, SkipRevert, OpenRevert, RevertOk, RevertFails,
       RecordReverted, RecordRevertFailed, FinishRollback, CatchJob

\* What a finished job says, and what it left on the router, never changes.
THEOREM FinishedStays == Spec => FinishedIsFinal
<1> DEFINE Rest(j) == UNCHANGED <<status[j], progress[j], rows[j], applied[j]>>
<1>1. ASSUME IInv, [Next]_vars
      PROVE  [\A j \in Jobs : status[j] \in Terminal => Rest(j)]_vars
  <2>1. SUFFICES ASSUME NEW k \in Jobs, status[k] \in Terminal PROVE Rest(k)
    OBVIOUS
  <2>2. pc[k] = "done"
    BY <1>1, <2>1, FinishedRests
  <2>3. ASSUME NEW j \in Jobs, Schedule(j) \/ Advance(j) \/ StatementFails(j)
        PROVE  Rest(k)
    <3>1. k # j
      BY <2>2, <2>3, DoneTakesNoStep
    <3> QED BY <1>1, <2>3, <3>1, Frame DEF IInv
  <2>4. ASSUME NEW j \in Jobs, CatchFails(j) PROVE Rest(k)
    BY <2>4 DEF CatchFails, persisted
  <2>5. CASE Crash
    BY <2>5 DEF Crash, persisted
  <2>6. CASE UNCHANGED vars
    BY <2>6 DEF vars, persisted
  <2> QED BY <1>1, <2>3, <2>4, <2>5, <2>6 DEF Next
<1> QED BY <1>1, Inductive, PTL DEF Spec, FinishedIsFinal

-----------------------------------------------------------------------------
(* The order of the rollback and the outcome of a job.  OrderInv(j) says      *)
(* what of them depends on where the job is suspended; it is inductive once  *)
(* IInv is known.                                                            *)

Touched == {"reverting", "reverted", "revert_failed", "revert_skipped"}
Before  == {"new", "rows", "start", "empty", "finish", "finish_failed", "begin_rollback"}
             \cup Forward

\* Until a rollback begins no row says that a step was taken back.
NothingTouched(j) == pc[j] \in Before => \A i \in Steps : rows[j][i] \notin Touched

\* Only the row of the step at work is open.
OpenRows(j) ==
  pc[j] \notin {"catch", "lost", "done"} => \A i \in Steps :
    /\ rows[j][i] = "running" => i = cur[j] /\ pc[j] \in {"exec", "record_ok", "record_failed"}
    /\ rows[j][i] = "reverting" => i = cur[j] /\ pc[j] \in Reverting

\* A row that says succeeded is one that completedSteps still holds.
SucceededRemain(j) ==
  pc[j] \in Forward \cup Reverting \cup {"begin_rollback", "rollback"} =>
    \A i \in Steps : rows[j][i] = "succeeded" => i \in completed[j]

\* What remains to be reverted lies below all that was dealt with, and no
\* required revert has failed yet.
TurnsDown(j) ==
  /\ pc[j] = "rollback" =>
       \A i \in completed[j], k \in Steps : rows[j][k] \in Touched => i < k
  /\ pc[j] \in Reverting =>
       /\ \A i \in completed[j] : i <= cur[j]
       /\ \A k \in Steps : rows[j][k] \in Touched => cur[j] <= k
  /\ pc[j] \in Reverting \cup {"rollback"} =>
       \A i \in Steps : rows[j][i] = "revert_failed" => task[j].revert[i] # "required"

\* RollbackBackwards for one job.
Backwards(j) ==
  \A i, k \in StepsOf(j) : (k < i /\ rows[j][k] \in Touched) =>
    /\ rows[j][i] \notin {"running", "succeeded", "reverting"}
    /\ rows[j][i] = "revert_failed" => task[j].revert[i] # "required"

\* rollbackFailed remembers whether a revert failed, and only a task that stops
\* ends in a failure without one of the statements having thrown.
FailureKnown(j) ==
  /\ pc[j] \in Rolling =>
       (rollbackFailed[j] <=> \E i \in StepsOf(j) : rows[j][i] = "revert_failed")
  /\ pc[j] = "finish_failed" => task[j].policy = "stop"
  /\ pc[j] = "catch" => faults # 0

\* A row says failed while the steps go on only if the task continues.
NoneFailed(j) ==
  pc[j] \in Forward \cup {"new", "rows", "start", "finish"} /\ task[j].policy # "continue" =>
    \A i \in Steps : rows[j][i] # "failed"

\* i is a completed step that a required revert above it has kept from being taken back.
StaysDone(j, i) ==
  \E k \in StepsOf(j) :
    k > i /\ rows[j][k] = "revert_failed" /\ task[j].revert[k] = "required"
RestDone(j) ==
  pc[j] = "finish_rollback" => \A i \in StepsOf(j) : rows[j][i] = "succeeded" => StaysDone(j, i)

\* OutcomeFollowsPolicy for one job.
Outcome(j) ==
  /\ status[j] = "succeeded" =>
       \A i \in StepsOf(j) : rows[j][i] = "failed" => task[j].policy = "continue"
  /\ status[j] \in {"reverted", "revert_failed"} =>
       /\ task[j].policy = "rollback"
       /\ \A i \in StepsOf(j) : rows[j][i] \notin {"running", "reverting"}
       /\ status[j] = "revert_failed" <=> \E i \in StepsOf(j) : rows[j][i] = "revert_failed"
       /\ \A i \in StepsOf(j) : rows[j][i] = "succeeded" => StaysDone(j, i)
  /\ status[j] = "failed" /\ faults = 0 =>
       /\ task[j].policy = "stop"
       /\ \A i \in StepsOf(j) : rows[j][i] # "running"

InTurn(j) ==
  /\ NothingTouched(j)
  /\ OpenRows(j)
  /\ SucceededRemain(j)
  /\ TurnsDown(j)
  /\ Backwards(j)
  /\ FailureKnown(j)

EndFits(j) ==
  /\ NoneFailed(j)
  /\ RestDone(j)
  /\ Outcome(j)

OrderInv(j) == InTurn(j) /\ EndFits(j)

OInv == \A j \in Jobs : OrderInv(j)

\* The order in which the job that takes a step takes its steps back.
LEMMA OwnOrder ==
  ASSUME IInv, OInv, NEW j \in Jobs, Schedule(j) \/ Advance(j) \/ StatementFails(j)
  PROVE  InTurn(j)'
<1>0. /\ TypeOK /\ JobInv(j) /\ OrderInv(j) /\ MaxSteps \in Nat /\ MaxFaults \in Nat
      /\ task[j].size \in 0..MaxSteps /\ StepsOf(j) \subseteq Steps
  BY TaskShape, ConstantsAssumption DEF IInv, OInv
<1> USE <1>0 DEF TypeOK, Goto, bounds, persisted
<1>1. CASE Schedule(j)
  BY <1>1 DEF JobInv, OrderInv, InTurn, Schedule, SetStatus, NothingTouched, OpenRows,
         SucceededRemain, TurnsDown, Backwards, FailureKnown, RowsTell,
         EffectsFit, Before, Touched, StepsOf
<1>2. CASE PersistSteps(j)
  BY <1>2 DEF JobInv, OrderInv, InTurn, PersistSteps, NothingTouched, OpenRows,
         SucceededRemain, TurnsDown, Backwards, FailureKnown, StatusFits,
         Reverting, Rolling, Touched, Terminal, StepsOf, Steps
<1>3. CASE StartJob(j)
  BY <1>3 DEF JobInv, OrderInv, InTurn, StartJob, SetStatus, NothingTouched, OpenRows,
         SucceededRemain, TurnsDown, Backwards, FailureKnown, RowsTell,
         EffectsFit, StatusFits, Before, Touched, StepsOf
<1>4. CASE FinishEmpty(j)
  BY <1>4 DEF JobInv, OrderInv, InTurn, FinishEmpty, SetStatus, NothingTouched, OpenRows,
         SucceededRemain, TurnsDown, Backwards, FailureKnown, StepFits,
         RowsTell, EffectsFit, Before, Reverting, Rolling, StepsOf
<1>5. CASE OpenStep(j)
  BY <1>5 DEF JobInv, OrderInv, InTurn, OpenStep, SetRow, NothingTouched, OpenRows,
         SucceededRemain, TurnsDown, Backwards, FailureKnown, RollbackFits,
         StatusFits, Before, Forward, Reverting, Touched, Terminal, StepsOf, Steps
<1>6. CASE ExecuteOk(j)
  BY <1>6 DEF OrderInv, InTurn, ExecuteOk, NothingTouched, OpenRows, SucceededRemain,
         TurnsDown, Backwards, FailureKnown, Before, Forward, Reverting,
         Rolling, StepsOf
<1>7. CASE ExecuteFails(j)
  BY <1>7 DEF OrderInv, InTurn, ExecuteFails, NothingTouched, OpenRows, SucceededRemain,
         TurnsDown, Backwards, FailureKnown, Before, Forward, Reverting,
         Rolling, StepsOf
<1>8. CASE RecordSuccess(j)
  BY <1>8 DEF JobInv, OrderInv, InTurn, RecordSuccess, SetRow, NothingTouched, OpenRows,
         SucceededRemain, TurnsDown, Backwards, FailureKnown, StepFits,
         Before, Forward, Reverting, Rolling, Touched, StepsOf
<1>9. CASE RecordProgress(j)
  BY <1>9 DEF OrderInv, InTurn, RecordProgress, NextStep, NothingTouched, OpenRows,
         SucceededRemain, TurnsDown, Backwards, FailureKnown, Before,
         Forward, Reverting, Rolling, StepsOf
<1>10. CASE RecordFailure(j)
  BY <1>10 DEF OrderInv, InTurn, RecordFailure, SetRow, NextStep, NothingTouched, OpenRows,
         SucceededRemain, TurnsDown, Backwards, FailureKnown, Before,
         Forward, Reverting, Rolling, Touched, StepsOf
<1>11. CASE FinishFailed(j)
  BY <1>11 DEF OrderInv, InTurn, FinishFailed, SetStatus, NothingTouched, OpenRows,
         SucceededRemain, TurnsDown, Backwards, FailureKnown, Before,
         Forward, Reverting, Rolling, Touched, StepsOf
<1>12. CASE FinishSucceeded(j)
  BY <1>12 DEF JobInv, OrderInv, InTurn, FinishSucceeded, SetStatus, NothingTouched, OpenRows,
         SucceededRemain, TurnsDown, Backwards, FailureKnown, RowsSoFar,
         Before, Forward, Reverting, Rolling, StepsOf
<1>13. CASE BeginRollback(j)
  BY <1>13 DEF JobInv, OrderInv, InTurn, BeginRollback, SetStatus, NextRevert, NothingTouched,
         OpenRows, SucceededRemain, TurnsDown, Backwards, FailureKnown,
         RollbackFits, Before, Reverting, Touched, StepsOf
<1>14. CASE SkipRevert(j)
  BY SMTT(30), <1>14 DEF OrderInv, InTurn, SkipRevert, SetRow, NextRevert, IsLatest, NothingTouched,
         OpenRows, SucceededRemain, TurnsDown, Backwards, FailureKnown,
         Before, Forward, Reverting, Rolling, Touched, StepsOf, Steps
<1>15. CASE OpenRevert(j)
  BY SMTT(30), <1>15 DEF JobInv, OrderInv, InTurn, OpenRevert, SetRow, IsLatest, NothingTouched,
         OpenRows, SucceededRemain, TurnsDown, Backwards, FailureKnown,
         StatusFits, Before, Forward, Reverting, Rolling, Touched, Terminal, StepsOf,
         Steps
<1>16. CASE RevertOk(j)
  BY <1>16 DEF OrderInv, InTurn, RevertOk, NothingTouched, OpenRows, SucceededRemain,
         TurnsDown, Backwards, FailureKnown, Before, Forward, Reverting,
         Rolling, StepsOf
<1>17. CASE RevertFails(j)
  BY <1>17 DEF OrderInv, InTurn, RevertFails, NothingTouched, OpenRows, SucceededRemain,
         TurnsDown, Backwards, FailureKnown, Before, Forward, Reverting,
         Rolling, StepsOf
<1>18. CASE RecordReverted(j)
  <2>1. NothingTouched(j)'
    BY <1>18 DEF RecordReverted, NextRevert, NothingTouched, Before, Forward
  <2>2. OpenRows(j)'
    BY <1>18 DEF OrderInv, InTurn, RecordReverted, SetRow, OpenRows
  <2>3. SucceededRemain(j)'
    BY <1>18 DEF OrderInv, InTurn, RecordReverted, SetRow, NextRevert, SucceededRemain,
           Reverting
  <2>4. TurnsDown(j)'
    BY <1>18 DEF OrderInv, InTurn, RecordReverted, SetRow, NextRevert, TurnsDown, Reverting,
           Steps
  <2>5. Backwards(j)'
    <3>1. /\ cur[j] \in Steps /\ task' = task /\ pc[j] \in Reverting
          /\ \A i \in Steps : i # cur[j] => rows'[j][i] = rows[j][i]
      BY <1>18 DEF JobInv, RecordReverted, SetRow, NextRevert, StepFits, Forward, Reverting
    <3>2. \A i \in Steps : /\ rows[j][i] \in Touched => cur[j] <= i
                           /\ rows[j][i] = "revert_failed" => task[j].revert[i] # "required"
      BY <3>1 DEF OrderInv, InTurn, TurnsDown, Touched
    <3>3. \A i \in Steps : /\ rows[j][i] = "succeeded" => i <= cur[j]
                           /\ rows[j][i] \notin {"running", "reverting"} \/ i = cur[j]
      BY <3>1 DEF OrderInv, InTurn, SucceededRemain, TurnsDown, OpenRows, Reverting
    <3>4. StepsOf(j)' = StepsOf(j) /\ \A i \in Steps : i \in Int
      BY <3>1 DEF StepsOf, Steps
    <3>. QED BY SMTT(30), <3>1, <3>2, <3>3, <3>4 DEF Backwards
  <2>6. FailureKnown(j)'
    BY <1>18 DEF JobInv, OrderInv, InTurn, RecordReverted, SetRow, NextRevert, FailureKnown,
           StepFits, Reverting, Rolling, StepsOf
  <2> QED BY <2>1, <2>2, <2>3, <2>4, <2>5, <2>6 DEF InTurn
<1>19. CASE RecordRevertFailed(j)
  <2>1. NothingTouched(j)'
    BY <1>19 DEF RecordRevertFailed, NextRevert, NothingTouched, Before, Forward
  <2>2. OpenRows(j)'
    BY <1>19 DEF OrderInv, InTurn, RecordRevertFailed, SetRow, OpenRows
  <2>3. SucceededRemain(j)'
    BY <1>19 DEF OrderInv, InTurn, RecordRevertFailed, SetRow, NextRevert, SucceededRemain,
           Reverting
  <2>4. TurnsDown(j)'
    BY <1>19 DEF OrderInv, InTurn, RecordRevertFailed, SetRow, NextRevert, TurnsDown,
           Reverting, Steps
  <2>5. Backwards(j)'
    <3>1. /\ cur[j] \in Steps /\ task' = task /\ pc[j] \in Reverting
          /\ \A i \in Steps : i # cur[j] => rows'[j][i] = rows[j][i]
      BY <1>19 DEF JobInv, RecordRevertFailed, SetRow, NextRevert, StepFits, Forward, Reverting
    <3>2. \A i \in Steps : /\ rows[j][i] \in Touched => cur[j] <= i
                           /\ rows[j][i] = "revert_failed" => task[j].revert[i] # "required"
      BY <3>1 DEF OrderInv, InTurn, TurnsDown, Touched
    <3>3. \A i \in Steps : /\ rows[j][i] = "succeeded" => i <= cur[j]
                           /\ rows[j][i] \notin {"running", "reverting"} \/ i = cur[j]
      BY <3>1 DEF OrderInv, InTurn, SucceededRemain, TurnsDown, OpenRows, Reverting
    <3>4. StepsOf(j)' = StepsOf(j) /\ \A i \in Steps : i \in Int
      BY <3>1 DEF StepsOf, Steps
    <3>. QED BY SMTT(30), <3>1, <3>2, <3>3, <3>4 DEF Backwards
  <2>6. FailureKnown(j)'
    BY <1>19 DEF JobInv, RecordRevertFailed, SetRow, NextRevert, FailureKnown,
           StepFits, Reverting, StepsOf
  <2> QED BY <2>1, <2>2, <2>3, <2>4, <2>5, <2>6 DEF InTurn
<1>20. CASE FinishRollback(j)
  BY <1>20 DEF JobInv, OrderInv, InTurn, FinishRollback, SetStatus, NothingTouched, OpenRows,
         SucceededRemain, TurnsDown, Backwards, FailureKnown, RollbackFits,
         Before, Forward, Reverting, Rolling, StepsOf
<1>21. CASE CatchJob(j)
  BY <1>21 DEF OrderInv, InTurn, CatchJob, NothingTouched, OpenRows, SucceededRemain,
         TurnsDown, Backwards, FailureKnown, Before, Forward, Reverting,
         Rolling, StepsOf
<1>22. CASE StatementFails(j)
  <2>1. NothingTouched(j)'
    BY <1>22 DEF OrderInv, InTurn, StatementFails, StepTryPoints, NothingTouched, Before,
           Forward
  <2>2. OpenRows(j)'
    BY <1>22 DEF OrderInv, InTurn, StatementFails, StepTryPoints, RevertTryPoints, OpenRows,
           Reverting
  <2>3. SucceededRemain(j)'
    BY <1>22 DEF OrderInv, InTurn, StatementFails, StepTryPoints, RevertTryPoints,
           SucceededRemain, Forward, Reverting
  <2>4. TurnsDown(j)'
    BY <1>22 DEF OrderInv, InTurn, StatementFails, RevertTryPoints, TurnsDown, Reverting
  <2>5. Backwards(j)'
    BY <1>22 DEF OrderInv, InTurn, StatementFails, Backwards, StepsOf
  <2>6. FailureKnown(j)'
    BY <1>22 DEF OrderInv, InTurn, StatementFails, RevertTryPoints, FailureKnown, Reverting,
           Rolling, StepsOf
  <2> QED BY <2>1, <2>2, <2>3, <2>4, <2>5, <2>6 DEF InTurn
<1> QED BY <1>1, <1>2, <1>3, <1>4, <1>5, <1>6, <1>7, <1>8, <1>9, <1>10, <1>11,
       <1>12, <1>13, <1>14, <1>15, <1>16, <1>17, <1>18, <1>19, <1>20, <1>21,
       <1>22
       DEF Advance

\* Where a job that rolls back is done with its steps, or keeps those below a required revert.
LEMMA OwnLeft ==
  ASSUME IInv, OInv, NEW j \in Jobs, Advance(j), pc'[j] = "finish_rollback"
  PROVE  RestDone(j)'
<1>0. /\ TypeOK /\ JobInv(j) /\ InTurn(j) /\ MaxSteps \in Nat
      /\ StepsOf(j) \subseteq Steps /\ StepsOf(j)' = StepsOf(j)
  <2>1. task' = task
    BY DEF Advance, PersistSteps, StartJob, FinishEmpty, OpenStep, ExecuteOk,
         ExecuteFails, RecordSuccess, RecordProgress, RecordFailure, FinishFailed,
         FinishSucceeded, BeginRollback, SkipRevert, OpenRevert, RevertOk, RevertFails,
         RecordReverted, RecordRevertFailed, FinishRollback, CatchJob
  <2>. QED BY <2>1, TaskShape, ConstantsAssumption DEF IInv, OInv, OrderInv, StepsOf
<1>1. ASSUME completed'[j] = {}, SucceededRemain(j),
             pc[j] \in Reverting \cup {"begin_rollback", "rollback"},
             \A i \in Steps : rows'[j][i] = "succeeded" =>
               rows[j][i] = "succeeded" /\ i \notin completed[j]
      PROVE  RestDone(j)'
  BY <1>0, <1>1 DEF RestDone, SucceededRemain
<1>2. CASE BeginRollback(j)
  BY <1>0, <1>1, <1>2 DEF BeginRollback, NextRevert, Goto, InTurn, SucceededRemain, TypeOK
<1>3. CASE SkipRevert(j)
  BY <1>0, <1>1, <1>3 DEF SkipRevert, NextRevert, SetRow, Goto, InTurn, SucceededRemain, TypeOK
<1>4. CASE RecordReverted(j)
  BY <1>0, <1>1, <1>4 DEF RecordReverted, NextRevert, SetRow, Goto, InTurn, SucceededRemain,
         TypeOK, Reverting
<1>5. CASE RecordRevertFailed(j)
  <2> DEFINE c == cur[j]
  <2>1. /\ pc[j] = "record_revert_failed" /\ pc[j] \in Reverting /\ UNCHANGED task
        /\ rows' = [rows EXCEPT ![j][c] = "revert_failed"]
    BY <1>5 DEF RecordRevertFailed, SetRow, Reverting
  <2>2. c \in StepsOf(j) /\ \A i \in StepsOf(j) : i \in Int
    BY <1>0, <2>1 DEF JobInv, StepFits, StepsOf
  <2>3. \A i \in Steps : rows'[j][i] = IF i = c THEN "revert_failed" ELSE rows[j][i]
    BY <1>0, <2>1, <2>2 DEF TypeOK
  <2>4. \A i \in Steps : rows'[j][i] = "succeeded" => i \in completed[j] /\ i # c
    BY <1>0, <2>1, <2>3 DEF InTurn, SucceededRemain
  <2>5. CASE task[j].revert[c] = "required"
    <3>1. \A i \in completed[j] : i <= c
      BY <1>0, <2>1 DEF InTurn, TurnsDown
    <3>2. \A i \in StepsOf(j) : rows'[j][i] = "succeeded" => c > i
      BY <1>0, <2>2, <2>4, <3>1
    <3>3. rows'[j][c] = "revert_failed" /\ task'[j].revert[c] = "required" /\ c \in StepsOf(j)'
      BY <1>0, <2>1, <2>2, <2>3, <2>5
    <3>. QED BY <1>0, <3>2, <3>3 DEF RestDone, StaysDone
  <2>6. CASE task[j].revert[c] # "required"
    <3>1. completed[j] \ {c} = {}
      BY <1>0, <1>5, <2>6 DEF RecordRevertFailed, NextRevert, Goto, TypeOK
    <3>. QED BY <1>0, <2>4, <3>1 DEF RestDone
  <2>. QED BY <2>5, <2>6
<1>. QED BY <1>0, <1>2, <1>3, <1>4, <1>5 DEF Advance, PersistSteps, StartJob, FinishEmpty,
       OpenStep, ExecuteOk, ExecuteFails, RecordSuccess, RecordProgress, RecordFailure,
       FinishFailed, NextStep, FinishSucceeded, OpenRevert, RevertOk, RevertFails,
       FinishRollback, CatchJob, Goto, TypeOK

\* How the job that takes a step ends.
LEMMA OwnEnd ==
  ASSUME IInv, OInv, NEW j \in Jobs, Schedule(j) \/ Advance(j) \/ StatementFails(j)
  PROVE  EndFits(j)'
<1>0. /\ TypeOK /\ JobInv(j) /\ OrderInv(j) /\ MaxSteps \in Nat /\ MaxFaults \in Nat
      /\ StepsOf(j) \subseteq Steps
  BY TaskShape, ConstantsAssumption DEF IInv, OInv
<1>1. RestDone(j)'
  <2>1. ASSUME pc'[j] = "finish_rollback" PROVE Advance(j)
    BY <1>0, <2>1 DEF Schedule, StatementFails, Goto, TypeOK
  <2>. QED BY <2>1, OwnLeft DEF RestDone
<1>2. NoneFailed(j)'
  <2>. USE <1>0 DEF OrderInv, EndFits, NoneFailed, Forward, Goto, SetRow, persisted, TypeOK
  <2>1. CASE Schedule(j)
    BY <2>1 DEF Schedule
  <2>2. CASE StatementFails(j)
    BY <2>2 DEF StatementFails, UncaughtPoints, StepTryPoints, RevertTryPoints
  <2>3. CASE PersistSteps(j) \/ StartJob(j) \/ OpenStep(j)
    BY <2>3 DEF PersistSteps, StartJob, OpenStep
  <2>4. CASE ExecuteOk(j) \/ ExecuteFails(j) \/ RecordSuccess(j)
    BY <2>4 DEF ExecuteOk, ExecuteFails, RecordSuccess
  <2>5. CASE RecordProgress(j)
    BY <2>5 DEF RecordProgress, NextStep
  <2>6. CASE RecordFailure(j)
    BY <2>6 DEF RecordFailure, NextStep
  <2>7. CASE \/ FinishEmpty(j) \/ FinishFailed(j) \/ FinishSucceeded(j)
             \/ FinishRollback(j) \/ CatchJob(j)
    BY <2>7 DEF FinishEmpty, FinishFailed, FinishSucceeded, FinishRollback, CatchJob
  <2>8. CASE BeginRollback(j) \/ SkipRevert(j) \/ OpenRevert(j) \/ RecordReverted(j)
    BY <2>8 DEF BeginRollback, SkipRevert, OpenRevert, RecordReverted, NextRevert
  <2>9. CASE RevertOk(j) \/ RevertFails(j) \/ RecordRevertFailed(j)
    BY <2>9 DEF RevertOk, RevertFails, RecordRevertFailed, NextRevert
  <2>. QED BY <2>1, <2>2, <2>3, <2>4, <2>5, <2>6, <2>7, <2>8, <2>9 DEF Advance
<1>3. Outcome(j)'
  <2>1. ASSUME status'[j] \notin Terminal PROVE Outcome(j)'
    BY <2>1 DEF Outcome, Terminal
  <2>2. CASE FinishEmpty(j)
    BY <1>0, <2>2 DEF FinishEmpty, SetStatus, TypeOK, JobInv, StepFits, Outcome, StepsOf
  <2>3. CASE FinishFailed(j)
    BY <1>0, <2>3 DEF FinishFailed, SetStatus, TypeOK, OrderInv, InTurn, FailureKnown,
           OpenRows, Outcome, StepsOf
  <2>4. CASE FinishSucceeded(j)
    BY <1>0, <2>4 DEF FinishSucceeded, SetStatus, TypeOK, OrderInv, EndFits, NoneFailed,
           Outcome, StepsOf
  <2>5. CASE FinishRollback(j)
    <3>1. /\ UNCHANGED <<task, rows>> /\ pc[j] = "finish_rollback"
          /\ status'[j] = IF rollbackFailed[j] THEN "revert_failed" ELSE "reverted"
      BY <1>0, <2>5 DEF FinishRollback, SetStatus, TypeOK
    <3>2. /\ task[j].policy = "rollback"
          /\ \A i \in StepsOf(j) : rows[j][i] \notin {"running", "reverting"}
      BY <1>0, <3>1 DEF JobInv, RollbackFits, Rolling, OrderInv, InTurn, OpenRows, Reverting
    <3>3. rollbackFailed[j] <=> \E i \in StepsOf(j) : rows[j][i] = "revert_failed"
      BY <1>0, <3>1 DEF OrderInv, InTurn, FailureKnown, Rolling
    <3>4. \A i \in StepsOf(j) : rows[j][i] = "succeeded" => StaysDone(j, i)
      BY <1>0, <3>1 DEF OrderInv, EndFits, RestDone
    <3>5. StepsOf(j)' = StepsOf(j) /\ \A i \in StepsOf(j) : StaysDone(j, i)' <=> StaysDone(j, i)
      BY <3>1 DEF StepsOf, StaysDone
    <3>. QED BY <3>1, <3>2, <3>3, <3>4, <3>5 DEF Outcome
  <2>6. CASE CatchJob(j)
    BY <1>0, <2>6 DEF CatchJob, SetStatus, bounds, TypeOK, OrderInv, InTurn, FailureKnown, Outcome
  <2>7. ASSUME Schedule(j) \/ StatementFails(j) \/ Advance(j),
               ~(FinishEmpty(j) \/ FinishFailed(j) \/ FinishSucceeded(j) \/ FinishRollback(j)),
               ~CatchJob(j)
        PROVE  status'[j] \notin Terminal
    <3>. USE <1>0 DEF TypeOK, SetStatus, persisted, Terminal, JobInv, StatusFits
    <3>1. CASE Schedule(j) \/ StartJob(j) \/ BeginRollback(j)
      BY <3>1 DEF Schedule, StartJob, BeginRollback
    <3>2. CASE StatementFails(j)
      BY <3>2 DEF StatementFails, UncaughtPoints, StepTryPoints, RevertTryPoints, Forward, Rolling,
             Reverting
    <3>3. CASE PersistSteps(j) \/ OpenStep(j) \/ ExecuteOk(j) \/ ExecuteFails(j) \/ RecordSuccess(j)
      BY <3>3 DEF PersistSteps, OpenStep, ExecuteOk, ExecuteFails, RecordSuccess, Forward
    <3>4. CASE RecordProgress(j) \/ RecordFailure(j)
      BY <3>4 DEF RecordProgress, RecordFailure, Forward
    <3>5. CASE SkipRevert(j) \/ OpenRevert(j) \/ RevertOk(j) \/ RevertFails(j)
      BY <3>5 DEF SkipRevert, OpenRevert, RevertOk, RevertFails, Rolling, Reverting
    <3>6. CASE RecordReverted(j) \/ RecordRevertFailed(j)
      BY <3>6 DEF RecordReverted, RecordRevertFailed, Rolling, Reverting
    <3>. QED BY <2>7, <3>1, <3>2, <3>3, <3>4, <3>5, <3>6 DEF Advance
  <2>. QED BY <2>1, <2>2, <2>3, <2>4, <2>5, <2>6, <2>7
<1>. QED BY <1>1, <1>2, <1>3 DEF EndFits

\* A statement that throws counts, and no step takes the count back.
LEMMA FaultsGrow ==
  ASSUME TypeOK, NEW j \in Jobs, Schedule(j) \/ Advance(j) \/ StatementFails(j)
  PROVE  faults' = 0 => faults = 0
<1>1. CASE StatementFails(j)
  BY <1>1, ConstantsAssumption DEF StatementFails, TypeOK
<1>2. CASE Schedule(j)
  BY <1>2 DEF Schedule, bounds
<1>3. CASE Advance(j)
  BY <1>3 DEF Advance, bounds, PersistSteps, StartJob, FinishEmpty, OpenStep, ExecuteOk,
         ExecuteFails, RecordSuccess, RecordProgress, RecordFailure, FinishFailed,
         FinishSucceeded, BeginRollback, SkipRevert, OpenRevert, RevertOk, RevertFails,
         RecordReverted, RecordRevertFailed, FinishRollback, CatchJob
<1> QED BY <1>1, <1>2, <1>3

\* ... and of every other job.
LEMMA OtherOrder ==
  ASSUME TypeOK, NEW j \in Jobs, NEW k \in Jobs \ {j}, OrderInv(k),
         Schedule(j) \/ Advance(j) \/ StatementFails(j)
  PROVE  OrderInv(k)'
<1>1. InTurn(k)'
  BY Frame, FaultsGrow DEF OrderInv, InTurn, NothingTouched, OpenRows, SucceededRemain, TurnsDown,
         Backwards, FailureKnown, StepsOf
<1>2. EndFits(k)'
  BY Frame, FaultsGrow DEF OrderInv, EndFits, NoneFailed, RestDone, StaysDone, Outcome, StepsOf
<1>. QED BY <1>1, <1>2 DEF OrderInv

\* The death of the process.
LEMMA DeathOrder ==
  ASSUME TypeOK, OInv, Die, faults' = 0 => faults = 0,
         UNCHANGED <<task, persisted, cur, completed, rollbackFailed, applied, announced>>
  PROVE  OInv'
<1>1. ASSUME NEW j \in Jobs PROVE OrderInv(j)'
  <2>1. /\ OrderInv(j) /\ pc[j] \in Points
        /\ pc'[j] = IF pc[j] \in Stopped THEN pc[j] ELSE "lost"
    BY DEF OInv, TypeOK, Die
  <2>2. InTurn(j)'
    BY <2>1 DEF OrderInv, InTurn, persisted, Stopped, Before, Forward, Reverting, Rolling,
           NothingTouched, OpenRows, SucceededRemain, TurnsDown, Backwards, FailureKnown, StepsOf
  <2>3. EndFits(j)'
    BY <2>1 DEF OrderInv, EndFits, persisted, Stopped, Forward, NoneFailed, RestDone,
           StaysDone, Outcome, StepsOf
  <2> QED BY <2>2, <2>3 DEF OrderInv
<1> QED BY <1>1 DEF OInv

LEMMA InitOInv == Init => OInv
<1> SUFFICES ASSUME Init PROVE OInv
  OBVIOUS
<1>1. ASSUME NEW j \in Jobs PROVE OrderInv(j)
  <2>1. /\ status[j] = "absent" /\ pc[j] = "new" /\ StepsOf(j) \subseteq Steps
        /\ \A i \in Steps : rows[j][i] = "absent"
    <3>1. TypeOK
      BY InitIInv DEF IInv
    <3> QED BY <3>1, TaskShape DEF Init
  <2>2. NothingTouched(j) /\ OpenRows(j) /\ SucceededRemain(j)
    BY <2>1 DEF NothingTouched, OpenRows, SucceededRemain, Touched, Forward, Reverting
  <2>3. TurnsDown(j) /\ FailureKnown(j)
    BY <2>1 DEF TurnsDown, FailureKnown, Reverting, Rolling
  <2>4. Backwards(j)
    BY <2>1 DEF Backwards, Touched
  <2>5. EndFits(j)
    BY <2>1 DEF EndFits, NoneFailed, RestDone, Outcome
  <2> QED BY <2>2, <2>3, <2>4, <2>5 DEF OrderInv, InTurn
<1> QED BY <1>1 DEF OInv

LEMMA NextOInv == IInv /\ OInv /\ [Next]_vars => OInv'
<1> SUFFICES ASSUME IInv, OInv, [Next]_vars PROVE OInv'
  OBVIOUS
<1>0. TypeOK
  BY DEF IInv
<1>1. ASSUME NEW j \in Jobs, Schedule(j) \/ Advance(j) \/ StatementFails(j)
      PROVE  OInv'
  <2>1. ASSUME NEW k \in Jobs PROVE OrderInv(k)'
    <3>1. CASE k = j
      BY <1>1, <3>1, OwnOrder, OwnEnd DEF OrderInv
    <3>2. CASE k # j
      BY <1>0, <1>1, <3>2, OtherOrder DEF OInv
    <3> QED BY <3>1, <3>2
  <2> QED BY <2>1 DEF OInv
<1>2. ASSUME NEW j \in Jobs, CatchFails(j) PROVE OInv'
  <2>1. faults' = 0 => faults = 0
    BY <1>0, <1>2, ConstantsAssumption DEF TypeOK, CatchFails
  <2> QED BY <1>0, <1>2, <2>1, DeathOrder DEF CatchFails
<1>3. CASE Crash
  BY <1>0, <1>3, DeathOrder DEF Crash
<1>4. CASE UNCHANGED vars
  BY <1>4 DEF vars, persisted, memory, bounds, OInv, OrderInv, NothingTouched, OpenRows,
         SucceededRemain, TurnsDown, Backwards, FailureKnown, InTurn, EndFits, NoneFailed, RestDone,
         StaysDone, Outcome, StepsOf
<1> QED BY <1>1, <1>2, <1>3, <1>4 DEF Next

\* The order of the rollback and what is known of the outcome hold throughout.
THEOREM InOrder == Spec => []OInv
<1>1. Init => OInv
  BY InitOInv
<1>2. IInv /\ OInv /\ [Next]_vars => OInv'
  BY NextOInv
<1> QED BY <1>1, <1>2, Inductive, PTL DEF Spec

\* Rollback goes backwards, and stops for good at a required revert that fails.
THEOREM RollbackTurnsDown == Spec => []RollbackBackwards
<1>1. OInv => RollbackBackwards
  BY DEF OInv, OrderInv, InTurn, Backwards, Touched, RollbackBackwards
<1> QED BY <1>1, InOrder, PTL

\* The policy of its task decides how a job ends, whatever statements throw.
THEOREM PolicyDecides == Spec => []OutcomeFollowsPolicy
<1>1. OInv => OutcomeFollowsPolicy
  BY DEF OInv, OrderInv, EndFits, Outcome, StaysDone, OutcomeFollowsPolicy
<1> QED BY <1>1, InOrder, PTL

-----------------------------------------------------------------------------
(* The scheduler implements Saga: the mapping is the identity on task,     *)
(* status and applied; a step of the scheduler is a step of the saga, or   *)
(* it changes none of the three (a row, a progress, an event, a failing    *)
(* statement, a crash).                                                    *)

\* What the saga sees of the scheduler.
Seen == <<task, status, applied>>

\* A step that changes none of the three is a stutter of the saga.
LEMMA HiddenSteps ==
  ASSUME NEW j \in Jobs,
         \/ PersistSteps(j) \/ OpenStep(j) \/ RecordSuccess(j) \/ RecordProgress(j)
         \/ RecordFailure(j) \/ SkipRevert(j) \/ OpenRevert(j) \/ RecordReverted(j)
         \/ RecordRevertFailed(j) \/ StatementFails(j) \/ CatchFails(j)
  PROVE  UNCHANGED Seen
BY DEF Seen, persisted, PersistSteps, OpenStep, RecordSuccess, RecordProgress, RecordFailure,
       SkipRevert, OpenRevert, RecordReverted, RecordRevertFailed, StatementFails, CatchFails

\* The failure of the step at work leaves at most its own effect.
LEMMA RevertIsClean ==
  ASSUME IInv, NEW j \in Jobs, pc[j] = "finish_rollback", ~rollbackFailed[j]
  PROVE  \E failing \in Promise!StepsOf(j) : \A i \in applied[j] :
           i = failing \/ ~Promise!Revertible(j, i)
<1>1. RollbackFits(j)
  BY DEF IInv, JobInv
<1> QED
  BY <1>1 DEF RollbackFits, Rolling, StepsOf, Promise!StepsOf, Promise!Revertible

\* Every step of a job is a step of its saga, or none.
LEMMA JobStepRefines ==
  ASSUME IInv, NEW j \in Jobs, Schedule(j) \/ Advance(j)
  PROVE  Promise!Next \/ UNCHANGED Seen
<1>0. TypeOK /\ StatusFits(j) /\ StepFits(j) /\ EffectsFit(j) /\ WholeSoFar(j) /\ RollbackFits(j)
  BY DEF IInv, JobInv
<1>1. CASE Schedule(j)
  <2>1. Promise!Submit(j)
    BY <1>0, <1>1 DEF StatusFits, Schedule, SetStatus, Promise!Submit, Promise!Move
  <2> QED BY <2>1 DEF Promise!Next
<1>2. CASE StartJob(j)
  <2>1. Promise!Start(j)
    BY <1>0, <1>2 DEF StatusFits, StartJob, SetStatus, Promise!Start, Promise!Move
  <2> QED BY <2>1 DEF Promise!Next
<1>3. CASE FinishEmpty(j)
  <2>1. applied[j] = {} /\ task[j].size = 0
    BY <1>0, <1>3 DEF FinishEmpty, StepFits, EffectsFit
  <2>2. applied[j] = Promise!StepsOf(j)
    BY <2>1 DEF Promise!StepsOf
  <2>3. Promise!Succeed(j)
    BY <1>0, <1>3, <2>2 DEF StatusFits, FinishEmpty, SetStatus, Promise!Succeed, Promise!Move
  <2> QED BY <2>3 DEF Promise!Next
<1>4. CASE ExecuteOk(j)
  <2>1. Promise!Apply(j)
    BY <1>0, <1>4 DEF StatusFits, StepFits, Forward, ExecuteOk, persisted, StepsOf,
                      Promise!Apply, Promise!StepsOf
  <2> QED BY <2>1 DEF Promise!Next
<1>5. CASE ExecuteFails(j)
  <2>1. PICK effect \in {{}, {cur[j]}} : applied' = [applied EXCEPT ![j] = @ \cup effect]
    BY <1>5 DEF ExecuteFails
  <2>2. CASE effect = {}
    BY <1>0, <1>5, <2>1, <2>2 DEF TypeOK, ExecuteFails, persisted, Seen
  <2>3. CASE effect = {cur[j]}
    <3>1. Promise!Apply(j)
      BY <1>0, <1>5, <2>1, <2>3 DEF StatusFits, StepFits, Forward, ExecuteFails, persisted,
                                    StepsOf, Promise!Apply, Promise!StepsOf
    <3> QED BY <3>1 DEF Promise!Next
  <2> QED BY <2>1, <2>2, <2>3
<1>6. CASE FinishFailed(j)
  <2>1. Promise!GiveUp(j)
    BY <1>0, <1>6 DEF StatusFits, FinishFailed, SetStatus, Promise!GiveUp, Promise!Move
  <2> QED BY <2>1 DEF Promise!Next
<1>7. CASE FinishSucceeded(j)
  <2>1. task[j].policy # "continue" => applied[j] = Promise!StepsOf(j)
    BY <1>0, <1>7 DEF FinishSucceeded, EffectsFit, WholeSoFar, StepsOf, Promise!StepsOf
  <2>2. Promise!Succeed(j)
    BY <1>0, <1>7, <2>1 DEF StatusFits, FinishSucceeded, SetStatus, Promise!Succeed, Promise!Move
  <2> QED BY <2>2 DEF Promise!Next
<1>8. CASE BeginRollback(j)
  <2>1. Promise!RollBack(j)
    BY <1>0, <1>8 DEF StatusFits, RollbackFits, BeginRollback, SetStatus,
                      Promise!RollBack, Promise!Move
  <2> QED BY <2>1 DEF Promise!Next
<1>9. ASSUME pc[j] = "revert", UNCHANGED <<task, status>>,
             applied' = [applied EXCEPT ![j] = @ \ {cur[j]}]
      PROVE  Promise!Next \/ UNCHANGED Seen
  <2>1. CASE cur[j] \in applied[j]
    <3>1. Promise!Undo(j)
      BY <1>0, <1>9, <2>1 DEF StatusFits, StepFits, Rolling, Reverting,
                              Promise!Undo, Promise!Revertible
    <3> QED BY <3>1 DEF Promise!Next
  <2>2. CASE cur[j] \notin applied[j]
    BY <1>0, <1>9, <2>2 DEF TypeOK, Seen
  <2> QED BY <2>1, <2>2
<1>10. CASE RevertOk(j)
  BY <1>9, <1>10 DEF RevertOk, persisted
<1>11. CASE RevertFails(j)
  <2>1. PICK undone \in {{}, {cur[j]}} : applied' = [applied EXCEPT ![j] = @ \ undone]
    BY <1>11 DEF RevertFails
  <2>2. CASE undone = {}
    BY <1>0, <1>11, <2>1, <2>2 DEF TypeOK, RevertFails, persisted, Seen
  <2>3. CASE undone = {cur[j]}
    BY <1>9, <1>11, <2>1, <2>3 DEF RevertFails, persisted
  <2> QED BY <2>1, <2>2, <2>3
<1>12. CASE FinishRollback(j)
  <2>1. CASE rollbackFailed[j]
    <3>1. Promise!GiveUp(j)
      BY <1>0, <1>12, <2>1 DEF StatusFits, Rolling, FinishRollback, SetStatus,
                               Promise!GiveUp, Promise!Move
    <3> QED BY <3>1 DEF Promise!Next
  <2>2. CASE ~rollbackFailed[j]
    <3>1. Promise!Revert(j)
      BY <1>0, <1>12, <2>2, RevertIsClean DEF StatusFits, Rolling, FinishRollback, SetStatus,
                                              Promise!Revert, Promise!Move
    <3> QED BY <3>1 DEF Promise!Next
  <2> QED BY <2>1, <2>2
<1>13. CASE CatchJob(j)
  <2>1. Promise!GiveUp(j)
    BY <1>0, <1>13 DEF StatusFits, CatchJob, SetStatus, Promise!GiveUp, Promise!Move
  <2> QED BY <2>1 DEF Promise!Next
<1> QED
  BY <1>1, <1>2, <1>3, <1>4, <1>5, <1>6, <1>7, <1>8, <1>10, <1>11, <1>12, <1>13, HiddenSteps
     DEF Advance

\* Read through status and applied alone, every job is a saga: it takes effects
\* only while it runs, undoes them only while it rolls back, and its status says
\* what is left.
THEOREM JobsAreSagas == Spec => IsSaga
<1>1. Init => Promise!Init
  BY DEF Init, Promise!Init
<1>2. ASSUME IInv, [Next]_vars
      PROVE  [Promise!Next]_(Promise!vars)
  <2>1. UNCHANGED Seen => UNCHANGED Promise!vars
    BY DEF Seen, Promise!vars
  <2>2. ASSUME NEW j \in Jobs, Schedule(j) \/ Advance(j)
        PROVE  Promise!Next \/ UNCHANGED Seen
    BY <1>2, <2>2, JobStepRefines
  <2>3. ASSUME NEW j \in Jobs, StatementFails(j) \/ CatchFails(j)
        PROVE  UNCHANGED Seen
    BY <2>3, HiddenSteps
  <2>4. Crash \/ UNCHANGED vars => UNCHANGED Seen
    BY DEF Crash, vars, persisted, Seen
  <2> QED BY <1>2, <2>1, <2>2, <2>3, <2>4 DEF Next
<1> QED BY <1>1, <1>2, Inductive, PTL DEF Spec, IsSaga, Promise!Spec
=============================================================================
