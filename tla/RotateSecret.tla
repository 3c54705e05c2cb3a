---------------------------- MODULE RotateSecret ----------------------------
(***************************************************************************)
(* The task devices.credentials.rotate_rest_secret run by the scheduler:   *)
(* what its three steps and two reverts do to the password on the router   *)
(* and to the read_only credentials in the store.  Every job that rotates  *)
(* does so on the same device; the secret it has generated is named by the *)
(* job.  Jobs of other tasks, which module Identity adds, use the secret.  *)
(* Definitions whose name begins with Bug are mutants: see Scheduler.      *)
(***************************************************************************)
EXTENDS Scheduler

CONSTANTS Initial,   \* the secret in force before any rotation
          Null       \* previousSecret = null

ASSUME SecretsAssumption == Initial \notin Jobs /\ Null \notin Jobs /\ Initial # Null

Secrets == Jobs \cup {Initial}

\* The task definition: no revert for the validation, reverts without a
\* policy for the other two.
RotationTask ==
  [policy |-> "rollback", size |-> 3,
   revert |-> [i \in Steps |-> IF i \in {2, 3} THEN "best_effort" ELSE "none"]]
Rotates(j) == task[j] = RotationTask

VARIABLES
  router,     \* password of the REST user on the router
  active,     \* secrets of the active read_only credentials in the store
  previous,   \* previousSecret, captured by the first step of each job
  stage,      \* how far replaceCredential has come in the step being run
  overlapped, \* history: has a rotation been at work while another one was
  latest,     \* history: the rotation that started last, or Null
  foundRouter, foundActive  \* history: what that rotation found

deviceVars == <<router, active, previous, stage>>
history    == <<overlapped, latest, foundRouter, foundActive>>
rotateVars == <<vars, deviceVars, history>>

SecretsAtStart ==
  /\ router = Initial
  /\ active = {Initial}
  /\ previous = [j \in Jobs |-> Null]
  /\ stage = [j \in Jobs |-> "start"]
  /\ overlapped = FALSE
  /\ latest = Null
  /\ foundRouter = Initial
  /\ foundActive = {Initial}

RotateInit == Init /\ (\A j \in Jobs : Rotates(j)) /\ SecretsAtStart

InStep(j, i)   == pc[j] = "exec" /\ cur[j] = i
InRevert(j, i) == pc[j] = "revert" /\ cur[j] = i

-----------------------------------------------------------------------------
\* Step 1 reads the active credentials: the first read_only one that comes.
Validate(j) ==
  /\ InStep(j, 1)
  /\ \E secret \in active : previous' = [previous EXCEPT ![j] = secret]
  /\ ExecuteOk(j)
  /\ UNCHANGED <<router, active, stage>>

\* ... and fails without one, without the device or without the SSH trust.
ValidateFails(j) ==
  /\ InStep(j, 1)
  /\ ExecuteFails(j) /\ 1 \notin applied'[j]
  /\ UNCHANGED deviceVars

\* the error of the SSH command swallowed
BugRotateOnRouter(j) ==
  /\ InStep(j, 2)
  /\ router' \in {router, j}
  /\ ExecuteOk(j)
  /\ UNCHANGED <<active, previous, stage>>

\* Step 2: one SSH command.
RotateOnRouter(j) ==
  /\ InStep(j, 2)
  /\ router' = j
  /\ ExecuteOk(j)
  /\ UNCHANGED <<active, previous, stage>>

\* The SSH session may break before or after the router has run the command.
RotateOnRouterFails(j) ==
  /\ InStep(j, 2)
  /\ ExecuteFails(j)
  /\ router' = IF 2 \in applied'[j] THEN j ELSE router
  /\ UNCHANGED <<active, previous, stage>>

\* the update matches no row
BugDeactivate(j) ==
  /\ InStep(j, 3) \/ InRevert(j, 3)
  /\ stage[j] = "start"
  /\ stage' = [stage EXCEPT ![j] = "deactivated"]
  /\ UNCHANGED <<vars, router, active, previous>>

\* DeviceRepository.replaceCredential: two statements, no transaction.
Deactivate(j) ==
  /\ InStep(j, 3) \/ InRevert(j, 3)
  /\ stage[j] = "start"
  /\ active' = {}
  /\ stage' = [stage EXCEPT ![j] = "deactivated"]
  /\ UNCHANGED <<vars, router, previous>>

\* the revert stores nextSecret
BugInsert(j) ==
  /\ InStep(j, 3) \/ InRevert(j, 3)
  /\ stage[j] = "deactivated"
  /\ active' = active \cup {j}
  /\ stage' = [stage EXCEPT ![j] = "inserted"]
  /\ UNCHANGED <<vars, router, previous>>

Insert(j) ==
  /\ InStep(j, 3) \/ InRevert(j, 3)
  /\ stage[j] = "deactivated"
  /\ active' = active \cup {IF InStep(j, 3) THEN j ELSE previous[j]}
  /\ stage' = [stage EXCEPT ![j] = "inserted"]
  /\ UNCHANGED <<vars, router, previous>>

\* Step 3 ends with updateLastSeen and emitDeviceUpdated.
StoreCredential(j) ==
  /\ InStep(j, 3) /\ stage[j] = "inserted"
  /\ ExecuteOk(j)
  /\ stage' = [stage EXCEPT ![j] = "start"]
  /\ UNCHANGED <<router, active, previous>>

\* Any of its statements may throw; what the earlier ones did stays.
StoreCredentialFails(j) ==
  /\ InStep(j, 3)
  /\ ExecuteFails(j)
  /\ 3 \in applied'[j] <=> stage[j] # "start"
  /\ stage' = [stage EXCEPT ![j] = "start"]
  /\ UNCHANGED <<router, active, previous>>

RestoreCredential(j) ==
  /\ InRevert(j, 3) /\ stage[j] = "inserted"
  /\ RevertOk(j)
  /\ stage' = [stage EXCEPT ![j] = "start"]
  /\ UNCHANGED <<router, active, previous>>

\* replaceCredential is the whole of this revert: it throws before it is done.
RestoreCredentialFails(j) ==
  /\ InRevert(j, 3) /\ stage[j] # "inserted"
  /\ RevertFails(j) /\ 3 \in applied'[j]
  /\ stage' = [stage EXCEPT ![j] = "start"]
  /\ UNCHANGED <<router, active, previous>>

RestoreOnRouter(j) ==
  /\ InRevert(j, 2)
  /\ router' = previous[j]
  /\ RevertOk(j)
  /\ UNCHANGED <<active, previous, stage>>

RestoreOnRouterFails(j) ==
  /\ InRevert(j, 2)
  /\ RevertFails(j)
  /\ router' = IF 2 \in applied'[j] THEN router ELSE previous[j]
  /\ UNCHANGED <<active, previous, stage>>

-----------------------------------------------------------------------------
DeviceStep(j) ==
  /\ Rotates(j)
  /\ \/ Validate(j)          \/ ValidateFails(j)
     \/ RotateOnRouter(j)    \/ RotateOnRouterFails(j)
     \/ Deactivate(j)        \/ Insert(j)
     \/ StoreCredential(j)   \/ StoreCredentialFails(j)
     \/ RestoreCredential(j) \/ RestoreCredentialFails(j)
     \/ RestoreOnRouter(j)   \/ RestoreOnRouterFails(j)

\* The scheduler's own steps leave the device and the store alone.
SchedulerAlone(j) ==
  /\ \/ Schedule(j) \/ StatementFails(j) \/ CatchFails(j)
     \/ pc[j] \notin {"exec", "revert"} /\ Advance(j)
  /\ UNCHANGED deviceVars

\* A job is at work from its first step until it is over.
Working(j)  == pc[j] \notin Stopped \cup {"rows", "start"}
Rotating(j) == Rotates(j) /\ Working(j)
Overlap     == \E j, k \in Jobs : j # k /\ Rotating(j) /\ Rotating(k)

\* History: which rotation began last, what it found, and whether two were at work.
Record ==
  /\ overlapped' = (overlapped \/ Overlap')
  /\ \/ \E j \in Jobs :
          /\ Rotating(j)' /\ ~Rotating(j)
          /\ latest' = j /\ foundRouter' = router /\ foundActive' = active
     \/ /\ \A j \in Jobs : Rotating(j)' => Rotating(j)
        /\ UNCHANGED <<latest, foundRouter, foundActive>>

RotateNext ==
  /\ \/ \E j \in Jobs : DeviceStep(j) \/ SchedulerAlone(j)
     \/ Crash /\ UNCHANGED deviceVars
  /\ Record

RotateSpec == RotateInit /\ [][RotateNext]_rotateVars

-----------------------------------------------------------------------------
(* Properties *)

\* No rotation is at work.
Quiet == \A j \in Jobs : ~Rotating(j)

\* The controller can log in: the store's one active credential is the
\* password of the router.
Agreed == active = {router}

\* When jobs do not overlap, a rotation that succeeds leaves the router and the
\* store in agreement, whatever failed, stopped or was interrupted before it.
SuccessHeals ==
  \A j \in Jobs :
    (~overlapped /\ Quiet /\ latest = j /\ status[j] = "succeeded") => active = {j} /\ router = j

\* A rotation whose failing step had done nothing yet, and that was rolled back
\* without a failure of its own, leaves the store as it found it, and the router
\* as it found it or with the stored secret: rolling back repairs as well.
CleanRollbackRestores ==
  \A j \in Jobs :
    (~overlapped /\ Quiet /\ latest = j /\ status[j] = "reverted" /\ applied[j] = {1}) =>
      /\ active = foundActive
      /\ router = foundRouter \/ Agreed

OneUnlessOverlapped ==
  ~overlapped =>
    /\ \A s, t \in active : s = t
    /\ \A j \in Jobs : (latest = j /\ foundActive = {foundRouter}) =>
         /\ router \in {j, foundRouter}
         /\ active \subseteq {j, foundRouter}

GapIsTold ==
  active = {} =>
    \E j \in Jobs :
      Rotates(j) /\ rows[j][3] \in {"running", "failed", "reverting", "revert_failed"}

\* While jobs do not overlap the store never holds two active secrets, and a router
\* that was in agreement has the secret from before the rotation at work or the one of
\* that rotation: SSH trust can restore either.  And however rotations overlap, fail
\* and die, the store is without a secret only while some replaceCredential stands
\* between its two statements or has stopped there, and the row of that step says so:
\* it is open, or it failed.  Nobody who has succeeded leaves a gap.
OneSecretAtATime == OneUnlessOverlapped /\ GapIsTold

=============================================================================
