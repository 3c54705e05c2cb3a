------------------------------- MODULE Adoption -------------------------------
(***************************************************************************)
(* Adopting a router and removing it: the tasks                            *)
(* devices.adopt.managed_credentials, devices.adopt.credentials and        *)
(* devices.remove, run by the scheduler of module Scheduler.  Every job is *)
(* about the router at the same host, which is adopted for the first time  *)
(* or again; the secret a job has generated is named by the job.           *)
(* Definitions whose name begins with Bug are mutants: see Scheduler.      *)
(***************************************************************************)
EXTENDS Scheduler, Sequences

CONSTANTS
  None,     \* no password
  Earlier   \* the password of an adoption before these

ASSUME AdoptionAssumption == {None, Earlier} \cap Jobs = {} /\ MaxSteps = 5

Kinds == {"managed", "read_only", "removal"}

TaskOf(k) ==
  [policy |-> "stop",
   size   |-> IF k = "removal" THEN 3 ELSE 5,
   revert |-> [i \in Steps |-> "none"]]

\* The calls each step awaits, as far as they can be told apart.  "relate" is
\* what refers to the row of the device by a foreign key (its interfaces, the
\* job, an audit, the provisioning job); "settle" is what else a step awaits when
\* its work is done (the router's services, the last seen time, the event).
CallsOf(k, i) ==
  CASE k = "managed" ->
       << <<"create">>,
          <<"inventory", "syncing", "upsert", "relate">>,
          <<"password", "remove_keys", "import_key", "settle">>,
          <<"drop_read_only", "add_password", "drop_write", "add_key", "promote", "settle">>,
          <<"finish", "relate">> >>[i]
    [] k = "read_only" ->
       << <<"create">>,
          <<"inventory">>,
          <<"syncing", "upsert", "relate">>,
          <<"drop_all", "add_login">>,
          <<"finish", "relate">> >>[i]
    [] k = "removal" ->
       << <<"find", "credentials">>, <<"reset">>, <<"relate", "delete">> >>[i]

VARIABLES
  kind,        \* the task each job runs
  at,          \* the call its step awaits
  failing,     \* is the step on its way to throw
  attempt,     \* adoption_attempts.status
  device,      \* adoptionState of the row; adoptionMode is 'managed' with 'fully_managed'
  active,      \* active credentials in the store, with their purpose
  refers,      \* the jobs that hold the id of the row there is; others hold that of a deleted one
  resets,      \* shouldReset of the removals
  restPassword, managedKey,  \* on the router: of controller-rest, of mt-managed
  unrecorded,  \* history: jobs whose recordFailure threw
  overlapped,  \* history: has a job worked on the device while another one did
  latest       \* history: the job that started last, or None

rowVars      == <<attempt, device, active, refers, resets>>
routerVars   == <<restPassword, managedKey>>
adoptionVars == <<vars, kind, at, failing, rowVars, routerVars, unrecorded, overlapped, latest>>

Purposes    == {"read_only", "write"}
Credentials == Purposes \X (Jobs \cup {Earlier, "ssh_key", "login"})

\* Nothing is known of the router, or an earlier adoption manages it.
AdoptionInit ==
  /\ Init
  /\ kind \in [Jobs -> Kinds]
  /\ task = [j \in Jobs |-> TaskOf(kind[j])]
  /\ at = [j \in Jobs |-> 1]
  /\ failing = [j \in Jobs |-> FALSE]
  /\ attempt = [j \in Jobs |-> "none"]
  /\ \/ device = "absent" /\ active = {} /\ restPassword = None /\ managedKey = FALSE
     \/ /\ device = "fully_managed" /\ restPassword = Earlier /\ managedKey = TRUE
        /\ active = {<<"read_only", Earlier>>, <<"write", "ssh_key">>}
  /\ refers = {}
  /\ resets = [j \in Jobs |-> FALSE]
  /\ unrecorded = {}
  /\ overlapped = FALSE
  /\ latest = None

Calls(j) == CallsOf(kind[j], cur[j])

\* The step of the job awaits this call.
Due(j, call) == pc[j] = "exec" /\ ~failing[j] /\ Calls(j)[at[j]] = call

\* The call is answered: the step goes on, or returns.
Answered(j) ==
  /\ \/ at[j] < Len(Calls(j)) /\ at' = [at EXCEPT ![j] = @ + 1] /\ UNCHANGED vars
     \/ at[j] = Len(Calls(j)) /\ at' = [at EXCEPT ![j] = 1] /\ ExecuteOk(j)
  /\ UNCHANGED <<failing, unrecorded>>

\* The router has done what it was told and the answer is lost.
AnswerLost(j) ==
  /\ at' = [at EXCEPT ![j] = @ + 1]
  /\ failing' = [failing EXCEPT ![j] = TRUE]
  /\ UNCHANGED <<vars, unrecorded>>

SetAttempt(j, s) == attempt' = [attempt EXCEPT ![j] = s]

-----------------------------------------------------------------------------
(* The attempt and the row of the device *)

CreateAttempt(j) ==
  /\ Due(j, "create") /\ SetAttempt(j, "validating_credentials") /\ Answered(j)
  /\ UNCHANGED <<device, active, refers, resets, routerVars>>

MarkSyncing(j) ==
  /\ Due(j, "syncing") /\ SetAttempt(j, "syncing_inventory") /\ Answered(j)
  /\ UNCHANGED <<device, active, refers, resets, routerVars>>

\* the state of a row that exists is kept, as enroll keeps it
BugUpsertDevice(j) ==
  /\ Due(j, "upsert")
  /\ device' = IF device = "absent" THEN "inventoried" ELSE device
  /\ refers' = refers \cup {j}
  /\ Answered(j)
  /\ UNCHANGED <<attempt, active, resets, routerVars>>

\* DeviceRepository.upsertAdopted: a device adopted again starts again.
UpsertDevice(j) ==
  /\ Due(j, "upsert") /\ device' = "inventoried" /\ refers' = refers \cup {j} /\ Answered(j)
  /\ UNCHANGED <<attempt, active, resets, routerVars>>

\* updateState once the credentials are stored; of a deleted row it updates nothing.
Promote(j) ==
  /\ Due(j, "promote")
  /\ device' = IF j \in refers THEN "fully_managed" ELSE device
  /\ Answered(j)
  /\ UNCHANGED <<attempt, active, refers, resets, routerVars>>

\* finishCredentialAdoption: before its audit, and before the provisioning.
FinishAttempt(j) ==
  /\ Due(j, "finish") /\ j \in refers /\ SetAttempt(j, "succeeded") /\ Answered(j)
  /\ UNCHANGED <<device, active, refers, resets, routerVars>>

Pass(j) ==
  /\ \/ Due(j, "inventory") \/ Due(j, "settle")
     \/ Due(j, "relate") /\ j \in refers
  /\ Answered(j)
  /\ UNCHANGED <<rowVars, routerVars>>

-----------------------------------------------------------------------------
(* The router, through the API with the operator's login *)

SetPassword(j) ==
  /\ Due(j, "password") /\ restPassword' = j /\ (Answered(j) \/ AnswerLost(j))
  /\ UNCHANGED <<rowVars, managedKey>>

\* importControllerPublicKey removes the keys there are ...
RemoveKeys(j) ==
  /\ Due(j, "remove_keys") /\ managedKey' = FALSE /\ (Answered(j) \/ AnswerLost(j))
  /\ UNCHANGED <<rowVars, restPassword>>

\* ... before it imports the controller's.
ImportKey(j) ==
  /\ Due(j, "import_key") /\ managedKey' = TRUE /\ (Answered(j) \/ AnswerLost(j))
  /\ UNCHANGED <<rowVars, restPassword>>

-----------------------------------------------------------------------------
(* The store *)

\* the read-only adoption deactivates by purpose, as the managed one does
BugDeactivate(j) ==
  /\ \E call \in {"drop_write", "drop_read_only", "drop_all"} :
       /\ Due(j, call)
       /\ active' = {c \in active : j \in refers => c[1] # IF call = "drop_write" THEN "write" ELSE "read_only"}
  /\ Answered(j)
  /\ UNCHANGED <<attempt, device, refers, resets, routerVars>>

\* The update of replaceCredential, and of replaceReadOnlyCredential, which
\* deactivates the credentials of every purpose.
Deactivate(j) ==
  /\ \/ Due(j, "drop_write") /\ active' = {c \in active : j \in refers => c[1] # "write"}
     \/ Due(j, "drop_read_only") /\ active' = {c \in active : j \in refers => c[1] # "read_only"}
     \/ Due(j, "drop_all") /\ active' = {c \in active : j \notin refers}
  /\ Answered(j)
  /\ UNCHANGED <<attempt, device, refers, resets, routerVars>>

\* ... and their insert, which a deleted row refuses.
Insert(j) ==
  /\ j \in refers
  /\ \/ Due(j, "add_password") /\ active' = active \cup {<<"read_only", j>>}
     \/ Due(j, "add_key") /\ active' = active \cup {<<"write", "ssh_key">>}
     \/ Due(j, "add_login") /\ active' = active \cup {<<"read_only", "login">>}
  /\ Answered(j)
  /\ UNCHANGED <<attempt, device, refers, resets, routerVars>>

-----------------------------------------------------------------------------
(* The removal *)

\* The operator asks for an adoption of the host, or for the removal of its row.
Request(j) ==
  /\ kind[j] = "removal" => device # "absent"
  /\ Schedule(j)
  /\ refers' = IF kind[j] = "removal" THEN refers \cup {j} ELSE refers
  /\ UNCHANGED <<at, failing, attempt, device, active, resets, routerVars, unrecorded>>

\* getDeviceById: a managed device is to be reset if the monitor has seen it online ...
FindDevice(j) ==
  /\ Due(j, "find") /\ j \in refers
  /\ \E online \in BOOLEAN : resets' = [resets EXCEPT ![j] = online /\ device = "fully_managed"]
  /\ Answered(j)
  /\ UNCHANGED <<attempt, device, active, refers, routerVars>>

\* ... and there is a credential for SSH.
FindTrust(j) ==
  /\ Due(j, "credentials")
  /\ resets' = [resets EXCEPT ![j] = @ /\ j \in refers /\ \E c \in active : c[1] = "write"]
  /\ Answered(j)
  /\ UNCHANGED <<attempt, device, active, refers, routerVars>>

\* /system reset-configuration.  The router goes down under the session: an error
\* that mentions a reset counts as an answer, one of the connection as a router
\* that was not there, and the removal goes on after both.
ResetRouter(j) ==
  /\ Due(j, "reset")
  /\ \/ resets[j] /\ managedKey /\ restPassword' = None /\ managedKey' = FALSE
        /\ (Answered(j) \/ AnswerLost(j))
     \/ Answered(j) /\ UNCHANGED routerVars
  /\ UNCHANGED rowVars

\* DeviceRepository.delete, the credentials included: what other jobs hold is the
\* id of a row that is gone.
DeleteDevice(j) ==
  /\ Due(j, "delete")
  /\ IF j \in refers
     THEN device' = "absent" /\ active' = {} /\ refers' = {}
     ELSE UNCHANGED <<device, active, refers>>
  /\ Answered(j)
  /\ UNCHANGED <<attempt, resets, routerVars>>

-----------------------------------------------------------------------------
(* Failure *)

\* The call throws: a check, a statement, or a router that does not answer.
CallFails(j) ==
  /\ pc[j] = "exec" /\ ~failing[j]
  /\ failing' = [failing EXCEPT ![j] = TRUE]
  /\ UNCHANGED <<vars, at, rowVars, routerVars, unrecorded>>

\* the last step without the catch
BugStepThrows(j) ==
  /\ pc[j] = "exec" /\ failing[j]
  /\ ExecuteFails(j) /\ (cur[j] \in applied'[j] <=> at[j] > 1)
  /\ IF kind[j] = "removal" \/ cur[j] \in {1, 5} THEN UNCHANGED attempt ELSE SetAttempt(j, "failed")
  /\ at' = [at EXCEPT ![j] = 1]
  /\ failing' = [failing EXCEPT ![j] = FALSE]
  /\ UNCHANGED <<device, active, refers, resets, routerVars, unrecorded>>

\* Every step of an adoption but the first records the failure in the attempt,
\* which may throw as well, and throws; a removal only leaves an audit.
StepThrows(j) ==
  /\ pc[j] = "exec" /\ failing[j]
  /\ ExecuteFails(j) /\ (cur[j] \in applied'[j] <=> at[j] > 1)
  /\ LET records == kind[j] # "removal" /\ cur[j] > 1
     IN  \/ ~records /\ UNCHANGED <<attempt, unrecorded>>
         \/ records /\ SetAttempt(j, "failed") /\ UNCHANGED unrecorded
         \/ records /\ unrecorded' = unrecorded \cup {j} /\ UNCHANGED attempt
  /\ at' = [at EXCEPT ![j] = 1]
  /\ failing' = [failing EXCEPT ![j] = FALSE]
  /\ UNCHANGED <<device, active, refers, resets, routerVars>>

-----------------------------------------------------------------------------
AdoptionStep(j) ==
  \/ CreateAttempt(j) \/ MarkSyncing(j) \/ UpsertDevice(j) \/ Promote(j)
  \/ FinishAttempt(j) \/ Pass(j)
  \/ SetPassword(j) \/ RemoveKeys(j) \/ ImportKey(j)
  \/ Deactivate(j) \/ Insert(j)
  \/ FindDevice(j) \/ FindTrust(j) \/ ResetRouter(j) \/ DeleteDevice(j)
  \/ CallFails(j) \/ StepThrows(j)

\* The scheduler's own steps leave the router and the rows alone.
SchedulerStep(j) ==
  /\ \/ StatementFails(j) \/ CatchFails(j)
     \/ pc[j] # "exec" /\ Advance(j)
  /\ UNCHANGED <<at, failing, rowVars, routerVars, unrecorded>>

Working(j) == pc[j] \notin Stopped \cup {"rows", "start"}

Record ==
  /\ overlapped' = (overlapped \/ \E j, k \in Jobs : j # k /\ Working(j)' /\ Working(k)')
  /\ \/ \E j \in Jobs : Working(j)' /\ ~Working(j) /\ latest' = j
     \/ (\A j \in Jobs : Working(j)' => Working(j)) /\ UNCHANGED latest

AdoptionNext ==
  /\ \/ \E j \in Jobs : Request(j) \/ AdoptionStep(j) \/ SchedulerStep(j)
     \/ Crash /\ UNCHANGED <<at, failing, rowVars, routerVars, unrecorded>>
  /\ Record
  /\ UNCHANGED kind

AdoptionSpec == AdoptionInit /\ [][AdoptionNext]_adoptionVars

-----------------------------------------------------------------------------
(* Properties *)

\* The router as it left the factory.
Blank == restPassword = None /\ ~managedKey

\* A device that says fully_managed can be worked with: the store holds the
\* REST password of the router and the SSH trust, nothing else, and the router
\* has the controller's key.  Jobs for the same host must not overlap; that they
\* failed, stopped halfway or were interrupted by a restart does no harm, but for
\* a removal that has reset the router and gives up before it deletes the row.
ManagedIsReachable ==
  (~overlapped /\ device = "fully_managed") =>
    \/ active = {<<"read_only", restPassword>>, <<"write", "ssh_key">>} /\ managedKey
    \/ Blank /\ \E j \in Jobs : resets[j]

\* A job that succeeds leaves what it promises, whatever earlier ones had left:
\* a managed adoption a fully managed device with the secrets it has generated, a
\* read-only one the operator's login and no way to write, and a removal nothing
\* in the store.
AdoptionTakesHold ==
  \A j \in Jobs :
    (~overlapped /\ latest = j /\ status[j] = "succeeded") =>
      \/ kind[j] = "managed" /\ device = "fully_managed" /\ restPassword = j
      \/ kind[j] = "read_only" /\ device = "inventoried" /\ active = {<<"read_only", "login">>}
      \/ kind[j] = "removal" /\ device = "absent" /\ active = {}

\* The list of attempts and the list of jobs tell the same story: an adoption that
\* succeeds has an attempt that succeeded, and one that failed, while the
\* database did not, has an attempt that failed, or none if its first step did;
\* whoever removes the device meanwhile.
AttemptTellsOutcome ==
  \A j \in Jobs : kind[j] # "removal" =>
    /\ status[j] = "succeeded" => attempt[j] = "succeeded"
    /\ (status[j] = "failed" /\ faults = 0 /\ j \notin unrecorded) =>
         attempt[j] = IF rows[j][1] = "failed" THEN "none" ELSE "failed"
=============================================================================
