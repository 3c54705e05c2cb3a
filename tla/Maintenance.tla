----------------------------- MODULE Maintenance -----------------------------
(***************************************************************************)
(* The tasks that look after one managed router, run by the scheduler of   *)
(* module Scheduler: devices.backup, devices.firmware.check,               *)
(* devices.firmware.upgrade and config.deploy.                             *)
(* Tasks that share no state only meet in the scheduler, so that the jobs  *)
(* of a behaviour are about one matter.                                    *)
(* Definitions whose name begins with Bug are mutants: see Scheduler.      *)
(***************************************************************************)
EXTENDS Scheduler, Sequences, FiniteSets

CONSTANT Keep  \* DEFAULT_KEEP; there are as many backups at the start

ASSUME MaintenanceAssumption == Keep \in Nat \ {0} /\ MaxSteps = 3

Matters == {{"backup"}, {"check", "upgrade"}, {"deploy_by_ssh", "deploy_by_api"}}
Kinds   == UNION Matters

TaskOf(k) == [policy |-> "stop", size |-> IF k = "upgrade" THEN 3 ELSE 1,
              revert |-> [i \in Steps |-> "none"]]

\* The calls each step awaits, as far as they can be told apart.
CallsOf(k, i) ==
  CASE k = "backup"  -> <<"read", "export", "write_file", "add_row", "list", "prune">>
    [] k = "check"   -> <<"read", "update_info", "store_check">>
    [] k = "upgrade" -> << <<"verify">>, <<"read", "install">>,
                             <<"read", "log_in", "store_version">> >>[i]
    [] OTHER         -> <<"read", "write_config", "import", "add_record">>

None == 0
Versions == 1..2  \* of RouterOS: the old one and the latest

VARIABLES
  kind,      \* the task each job runs
  at,        \* the call its step awaits
  failing,   \* is the step on its way to throw
  seen,      \* what the step has in hand: a time stamp, a version, its steps so far
  excess,    \* backups that pruneOldBackups still has to delete
  \* the store
  clock,     \* the time stamps given so far
  backups,   \* rows of the table backups, by collectedAt
  files,     \* files under .data/backups, by the same
  firmware,  \* row of firmware_versions
  stored,    \* devices.routerOsVersion, or None
  deployed,  \* by job: the last step in its row of the deployments, or "no_row"
  \* the router
  version, installing,
  imported   \* the deployments that it has imported

local   == <<at, failing, seen, excess>>
backupV == <<clock, backups, files>>
upgradeV == <<firmware, stored, version, installing>>
deployV == <<deployed, imported>>
maintenanceVars == <<vars, kind, local, backupV, upgradeV, deployV>>

MaintenanceAtStart ==
  /\ at = [j \in Jobs |-> 1]
  /\ failing = [j \in Jobs |-> FALSE]
  /\ seen = [j \in Jobs |-> None]
  /\ excess = [j \in Jobs |-> {}]
  /\ clock = Keep
  /\ backups = 1..Keep
  /\ files = 1..Keep
  /\ firmware \in [current : {1}, available : BOOLEAN]
  /\ stored \in {None, 1}
  /\ deployed = [j \in Jobs |-> "no_row"]
  /\ version = 1
  /\ installing = FALSE
  /\ imported = {}

MaintenanceInit ==
  /\ Init
  /\ \E m \in Matters : kind \in [Jobs -> m]
  /\ \A j \in Jobs : task[j] = TaskOf(kind[j])
  /\ MaintenanceAtStart

Calls(j)     == CallsOf(kind[j], cur[j])
Due(j, call) == pc[j] = "exec" /\ ~failing[j] /\ Calls(j)[at[j]] = call

\* The call is answered: the step goes on, or returns.
GoesOn(j) ==
  /\ \/ at[j] < Len(Calls(j)) /\ at' = [at EXCEPT ![j] = @ + 1] /\ UNCHANGED vars
     \/ at[j] = Len(Calls(j)) /\ at' = [at EXCEPT ![j] = 1] /\ ExecuteOk(j)
  /\ UNCHANGED failing
Stays(j)  == UNCHANGED <<vars, at, failing>>
\* The router has done what it was told and the answer is lost.
AnswerLost(j) == failing' = [failing EXCEPT ![j] = TRUE] /\ UNCHANGED <<vars, at>>
Read(j, x) == seen' = [seen EXCEPT ![j] = x]

\* The device, its credentials and the template, which are there; or the call throws.
ReadStore(j) ==
  /\ \/ Due(j, "read")
     \/ Due(j, "verify") /\ firmware.available
  /\ GoesOn(j)
  /\ UNCHANGED <<seen, excess, backupV, upgradeV, deployV>>

-----------------------------------------------------------------------------
(* runExportBackup and pruneOldBackups *)

\* client.execute('/export') and the time, which names the file
Export(j) ==
  /\ Due(j, "export") /\ GoesOn(j)
  /\ clock' = clock + 1 /\ Read(j, clock + 1)
  /\ UNCHANGED <<excess, backups, files>>

WriteFile(j) ==
  /\ Due(j, "write_file") /\ GoesOn(j)
  /\ files' = files \cup {seen[j]}
  /\ UNCHANGED <<seen, excess, clock, backups>>

AddRow(j) ==
  /\ Due(j, "add_row") /\ GoesOn(j)
  /\ backups' = backups \cup {seen[j]}
  /\ UNCHANGED <<seen, excess, clock, files>>

Newer(b, S) == {c \in S : c > b}
\* ascending where the code sorts descending
BugBeyond(keep) == {b \in backups : Cardinality({c \in backups : c < b}) >= keep}
\* getOldestByDevice: all but the newest `keep`
Beyond(keep) == {b \in backups : Cardinality(Newer(b, backups)) >= keep}

\* The list is read once; the loop is over when nothing is left of it.
List(j) ==
  /\ Due(j, "list") /\ GoesOn(j)
  /\ excess' = [excess EXCEPT ![j] = Beyond(Keep)]
  /\ UNCHANGED <<seen, backupV>>

\* the newest of the excess, as the list is sorted
Turn(j) == CHOOSE b \in excess[j] : Newer(b, excess[j]) = {}

\* unlink, whose failure is ignored ...
Unlink(j) ==
  /\ Due(j, "prune") /\ excess[j] # {} /\ Turn(j) \in files
  /\ files' = files \ {Turn(j)} /\ Stays(j)
  /\ UNCHANGED <<seen, excess, clock, backups>>

\* ... and the row
DeleteRow(j) ==
  /\ Due(j, "prune") /\ excess[j] # {}
  /\ Stays(j)
  /\ backups' = backups \ {Turn(j)}
  /\ excess' = [excess EXCEPT ![j] = @ \ {Turn(j)}]
  /\ UNCHANGED <<seen, clock, files>>

Pruned(j) ==
  /\ Due(j, "prune") /\ excess[j] = {} /\ GoesOn(j)
  /\ UNCHANGED <<seen, excess, backupV>>

Backup(j) ==
  /\ \/ Export(j) \/ WriteFile(j) \/ AddRow(j) \/ List(j)
     \/ Unlink(j) \/ DeleteRow(j) \/ Pruned(j)
  /\ UNCHANGED <<upgradeV, deployV>>

-----------------------------------------------------------------------------
(* checkFirmwareUpdate and the upgrade *)

UpdateInfo(j) ==
  /\ Due(j, "update_info") /\ GoesOn(j) /\ Read(j, version)
  /\ UNCHANGED <<excess, upgradeV>>

\* The version in the devices table is preferred to the one the router has told;
\* the router may not know the latest one.
StoreCheck(j) ==
  /\ Due(j, "store_check") /\ GoesOn(j)
  /\ \E known \in BOOLEAN :
       LET current == IF stored # None THEN stored ELSE seen[j]
       IN firmware' = [current |-> current, available |-> known /\ current # 2]
  /\ UNCHANGED <<seen, excess, stored, version, installing>>

\* /system/package/update/install
Install(j) ==
  /\ Due(j, "install") /\ (GoesOn(j) \/ AnswerLost(j))
  /\ installing' = (version = 1)
  /\ UNCHANGED <<seen, excess, firmware, stored, version>>

\* The wait loop: a router that does not answer is asked again, until the time is over
\* (CallFails).  It may not even have begun to reboot.
LogIn(j) ==
  /\ Due(j, "log_in") /\ GoesOn(j) /\ Read(j, version)
  /\ UNCHANGED <<excess, upgradeV>>

\* the version it was to become
BugStoreVersion(j) ==
  /\ Due(j, "store_version") /\ GoesOn(j)
  /\ firmware' = [current |-> 2, available |-> FALSE]
  /\ UNCHANGED <<seen, excess, stored, version, installing>>

StoreVersion(j) ==
  /\ Due(j, "store_version") /\ GoesOn(j)
  /\ firmware' = [current |-> seen[j], available |-> FALSE]
  /\ UNCHANGED <<seen, excess, stored, version, installing>>

\* The statement throws inside the try of the loop.
WaitsAgain(j) ==
  /\ Due(j, "store_version")
  /\ at' = [at EXCEPT ![j] = @ - 1]
  /\ UNCHANGED <<vars, failing, seen, excess, upgradeV>>

Firmware(j) ==
  /\ \/ UpdateInfo(j) \/ StoreCheck(j) \/ Install(j)
     \/ LogIn(j) \/ StoreVersion(j) \/ WaitsAgain(j)
  /\ UNCHANGED <<backupV, deployV>>

RouterReboots ==
  /\ installing
  /\ installing' = FALSE /\ version' = 2
  /\ UNCHANGED <<vars, local, backupV, firmware, stored, deployV>>

-----------------------------------------------------------------------------
(* deployConfig: write a file on the router and import it, over SSH with the *)
(* write credential or through the API without one.  What becomes of the     *)
(* file, which is removed in the end if that works, is left out.             *)

WriteConfig(j) ==
  /\ Due(j, "write_config") /\ GoesOn(j) /\ Read(j, 1)
  /\ UNCHANGED <<excess, deployV>>

\* the step noted before the router is asked, and the answer of the router not needed
BugImport(j) ==
  /\ Due(j, "import") /\ GoesOn(j) /\ Read(j, 2)
  /\ \/ imported' = imported \cup {j}
     \/ kind[j] = "deploy_by_ssh" /\ UNCHANGED imported
  /\ UNCHANGED <<excess, deployed>>

Import(j) ==
  /\ Due(j, "import")
  /\ imported' = imported \cup {j}
  /\ \/ GoesOn(j) /\ Read(j, 2)
     \/ kind[j] = "deploy_by_api" /\ AnswerLost(j) /\ UNCHANGED seen
  /\ UNCHANGED <<excess, deployed>>

\* The catch around the SSH session is empty: the deployment goes on with its row.
SshFails(j) ==
  /\ kind[j] = "deploy_by_ssh"
  /\ \/ Due(j, "write_config") /\ UNCHANGED imported
     \/ Due(j, "import") /\ imported' \in {imported, imported \cup {j}}
  /\ at' = [at EXCEPT ![j] = 4]
  /\ UNCHANGED <<vars, failing, seen, excess, deployed>>

\* createDeployment; its column `success` is always true
AddRecord(j) ==
  /\ Due(j, "add_record") /\ GoesOn(j)
  /\ deployed' = [deployed EXCEPT ![j] = <<"nothing", "written", "imported">>[seen[j] + 1]]
  /\ UNCHANGED <<seen, excess, imported>>

Deploy(j) ==
  /\ WriteConfig(j) \/ Import(j) \/ SshFails(j) \/ AddRecord(j)
  /\ UNCHANGED <<backupV, upgradeV>>

-----------------------------------------------------------------------------
(* Failure, and the scheduler *)

\* A check or a call throws, but for the SSH session and for unlink.
CallFails(j) ==
  /\ pc[j] = "exec" /\ ~failing[j]
  /\ ~(kind[j] = "deploy_by_ssh" /\ (Due(j, "write_config") \/ Due(j, "import")))
  /\ failing' = [failing EXCEPT ![j] = TRUE]
  /\ UNCHANGED <<vars, at, seen, excess, backupV, upgradeV, deployV>>

StepThrows(j) ==
  /\ pc[j] = "exec" /\ failing[j]
  /\ ExecuteFails(j) /\ (cur[j] \in applied'[j] <=> at[j] > 1)
  /\ at' = [at EXCEPT ![j] = 1]
  /\ failing' = [failing EXCEPT ![j] = FALSE]
  /\ UNCHANGED <<seen, excess, backupV, upgradeV, deployV>>

\* The form actions of the device's page and the caller of a deployment, none of
\* which looks at the jobs that are there.
Request(j) == Schedule(j)

SchedulerStep(j) ==
  /\ \/ Request(j) \/ StatementFails(j) \/ CatchFails(j)
     \/ pc[j] # "exec" /\ Advance(j)
  /\ UNCHANGED <<local, backupV, upgradeV, deployV>>

MaintenanceNext ==
  /\ \/ \E j \in Jobs : \/ ReadStore(j) \/ Backup(j) \/ Firmware(j) \/ Deploy(j)
                        \/ CallFails(j) \/ StepThrows(j) \/ SchedulerStep(j)
     \/ RouterReboots
     \/ Crash /\ UNCHANGED <<local, backupV, upgradeV, deployV>>
  /\ UNCHANGED kind

MaintenanceSpec == MaintenanceInit /\ [][MaintenanceNext]_maintenanceVars

-----------------------------------------------------------------------------
(* Properties *)

\* Jobs that write and prune the backups of a device at the same time leave good
\* ones: whatever becomes of them the Keep newest rows have their file, and once
\* all that were run have succeeded no more than Keep are left.
BackupsAreKept ==
  /\ \A b \in backups : Cardinality(Newer(b, backups)) < Keep => b \in files
  /\ (\A j \in Jobs : kind[j] = "backup" /\ rows[j][1] \in {"absent", "queued", "succeeded"})
       => Cardinality(backups) <= Keep

\* The version in the store is one that the router has: neither a check nor an upgrade,
\* overlapping or interrupted, stores a version that the router does not yet run.
FirmwareNeverAhead == firmware.current <= version

\* What a deployment's row says was done was done, and a deployment that succeeds has a
\* row.  Through the API it then was imported, while over SSH the job succeeds without.
DeploymentTold ==
  \A j \in Jobs :
    /\ deployed[j] = "imported" => j \in imported
    /\ (kind[j] \in {"deploy_by_ssh", "deploy_by_api"} /\ status[j] = "succeeded")
         => deployed[j] # "no_row"
    /\ (kind[j] = "deploy_by_api" /\ deployed[j] # "no_row") => j \in imported
=============================================================================
