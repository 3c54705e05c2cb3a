--------------------------- MODULE DeviceJobsProofs ---------------------------
(***************************************************************************)
(* Theorems about the jobs of a managed device: those of RotateSecret and  *)
(* Identity, those of Maintenance, and the two together in DeviceJobs; for *)
(* any jobs, bound on the backups, failing statements and crashes, and in  *)
(* any interleaving.                                                       *)
(*                                                                         *)
(* These modules drive the jobs of Scheduler and say for themselves what   *)
(* their steps do.  That their steps are steps of Scheduler is therefore a *)
(* theorem and not the shape of the model; with it everything proved of    *)
(* Scheduler holds here, and IInv tells which step a job may be at.  On    *)
(* top of it:                                                              *)
(*   FirmwareInv   where the version that a step stores has come from      *)
(*   DeployInv     what a deployment has noted, imported and recorded      *)
(*   BackupInv     what is listed for deletion is beyond the newest, and   *)
(*                 some job has all that is too much in its hand           *)
(*   SecretInv     what the rotation at work has found and made            *)
(*   NamingInv     the same of the provisioning or renaming at work        *)
(* The last two hold while no two jobs of their sort have overlapped, so   *)
(* that only the job that takes a step can begin something or go on with   *)
(* it.                                                                     *)
(***************************************************************************)
EXTENDS DeviceJobs, SchedulerProofs, FiniteSetTheorems

-----------------------------------------------------------------------------
(* The jobs are the scheduler's *)

\* An answer is no step of the scheduler, or the end of a step that succeeds.
LEMMA AnswerIsStep ==
  ASSUME NEW j \in Jobs, GoesOn(j) \/ Stays(j) \/ AnswerLost(j)
  PROVE  UNCHANGED vars \/ ExecuteOk(j)
BY DEF GoesOn, Stays, AnswerLost

\* Every step of Maintenance is a step of the scheduler or leaves its jobs alone.
LEMMA StepIsScheduled == [MaintenanceNext]_maintenanceVars => [Next]_vars
<1> SUFFICES ASSUME [MaintenanceNext]_maintenanceVars PROVE [Next]_vars
  OBVIOUS
<1>1. ASSUME NEW j \in Jobs, ReadStore(j) \/ Backup(j) PROVE [Next]_vars
  BY <1>1, AnswerIsStep DEF ReadStore, Backup, Export, WriteFile, AddRow, List, Unlink, DeleteRow,
       Pruned, Next, Advance
<1>2. ASSUME NEW j \in Jobs, Firmware(j) PROVE [Next]_vars
  BY <1>2, AnswerIsStep DEF Firmware, UpdateInfo, StoreCheck, Install, LogIn, StoreVersion,
       WaitsAgain, Next, Advance
<1>3. ASSUME NEW j \in Jobs, Deploy(j) PROVE [Next]_vars
  BY <1>3, AnswerIsStep DEF Deploy, WriteConfig, Import, SshFails, AddRecord, Next, Advance
<1>4. ASSUME NEW j \in Jobs, CallFails(j) \/ StepThrows(j) \/ SchedulerStep(j) PROVE [Next]_vars
  BY <1>4 DEF CallFails, StepThrows, SchedulerStep, Request, Next, Advance
<1>5. CASE RouterReboots
  BY <1>5 DEF RouterReboots
<1>6. CASE Crash
  BY <1>6 DEF Next
<1>7. CASE UNCHANGED maintenanceVars
  BY <1>7 DEF maintenanceVars
<1> QED BY <1>1, <1>2, <1>3, <1>4, <1>5, <1>6, <1>7 DEF MaintenanceNext

\* The tasks that look after a router run as jobs of the scheduler: its module's
\* specification holds of them.
THEOREM RunsOnScheduler == MaintenanceSpec => Spec
<1>1. MaintenanceInit => Init
  BY DEF MaintenanceInit, MaintenanceAtStart
<1> QED BY <1>1, StepIsScheduled, PTL DEF MaintenanceSpec, Spec

\* So the rows of their jobs tell what happened.
THEOREM MaintenanceRowsTell == MaintenanceSpec => []RowsTellEffects
BY RunsOnScheduler, RowsAreTrue, PTL

-----------------------------------------------------------------------------
(* The firmware *)

\* Where the answer that a step is about to store has come from.
AtStore(j) == at[j] = 3 /\ (kind[j] = "check" \/ (kind[j] = "upgrade" /\ cur[j] = 3))

\* A job begins each step at its first call, awaits one of the step's calls, and has
\* a version of the router in hand when it stores one.
JobFits(j) ==
  /\ task[j] = TaskOf(kind[j])
  /\ pc[j] \notin {"exec", "lost"} => at[j] = 1
  /\ pc[j] = "exec" => at[j] \in 1..Len(Calls(j))
  /\ pc[j] = "exec" /\ AtStore(j) => seen[j] <= version

StateFits ==
  /\ kind \in [Jobs -> Kinds]
  /\ at \in [Jobs -> Nat]
  /\ seen \in [Jobs -> Nat]
  /\ clock \in Nat
  /\ version \in Versions
  /\ stored \in {None, 1}
  /\ firmware \in [current : Nat, available : BOOLEAN]

FirmwareInv ==
  /\ IInv
  /\ StateFits
  /\ \A j \in Jobs : JobFits(j)
  /\ FirmwareNeverAhead

LEMMA KindsAre ==
  Kinds = {"backup", "check", "upgrade", "deploy_by_ssh", "deploy_by_api"}
BY DEF Kinds, Matters

\* The calls of a step are a sequence, and where the ones about versions stand in it.
LEMMA CallsAre ==
  ASSUME NEW k \in Kinds, NEW i \in 1..TaskOf(k).size
  PROVE  /\ Len(CallsOf(k, i)) \in Nat \ {0}
         /\ k = "deploy_by_ssh" => Len(CallsOf(k, i)) = 4
         /\ \A n \in 1..Len(CallsOf(k, i)) :
              /\ CallsOf(k, i)[n] = "store_check" <=> k = "check" /\ n = 3
              /\ CallsOf(k, i)[n] = "update_info" <=> k = "check" /\ n = 2
              /\ CallsOf(k, i)[n] = "store_version" <=> k = "upgrade" /\ i = 3 /\ n = 3
              /\ CallsOf(k, i)[n] = "log_in" <=> k = "upgrade" /\ i = 3 /\ n = 2
              /\ k \in {"check", "upgrade"} =>
                   CallsOf(k, i)[n] \notin {"export", "write_config", "import", "add_record",
                                           "write_file", "add_row", "list", "prune"}
              /\ k \notin {"deploy_by_ssh", "deploy_by_api"} =>
                   CallsOf(k, i)[n] \notin {"write_config", "import", "add_record"}
<1>1. CASE k = "backup"
  <2>1. CallsOf(k, i) = <<"read", "export", "write_file", "add_row", "list", "prune">>
    BY <1>1, Zenon DEF CallsOf
  <2>2. /\ Len(CallsOf(k, i)) = 6
        /\ CallsOf(k, i)[1] = "read"
        /\ CallsOf(k, i)[2] = "export"
        /\ CallsOf(k, i)[3] = "write_file"
        /\ CallsOf(k, i)[4] = "add_row"
        /\ CallsOf(k, i)[5] = "list"
        /\ CallsOf(k, i)[6] = "prune"
    BY <2>1
  <2> QED BY <2>2, <1>1
<1>2. CASE k = "check"
  <2>1. CallsOf(k, i) = <<"read", "update_info", "store_check">>
    BY <1>2, Zenon DEF CallsOf
  <2>2. /\ Len(CallsOf(k, i)) = 3
        /\ CallsOf(k, i)[1] = "read"
        /\ CallsOf(k, i)[2] = "update_info"
        /\ CallsOf(k, i)[3] = "store_check"
    BY <2>1
  <2> QED BY <2>2, <1>2
<1>3. CASE k = "upgrade"
  <2>1. i \in 1..3
    BY <1>3 DEF TaskOf
  <2>2. CallsOf(k, i) = << <<"verify">>, <<"read", "install">>,
                            <<"read", "log_in", "store_version">> >>[i]
    BY <1>3, Zenon DEF CallsOf
  <2>3. CASE i = 1
    <3>1. CallsOf(k, i) = <<"verify">>
      BY <2>2, <2>3
    <3>2. /\ Len(CallsOf(k, i)) = 1
          /\ CallsOf(k, i)[1] = "verify"
      BY <3>1
    <3> QED BY <3>2, <1>3, <2>3
  <2>4. CASE i = 2
    <3>1. CallsOf(k, i) = <<"read", "install">>
      BY <2>2, <2>4
    <3>2. /\ Len(CallsOf(k, i)) = 2
          /\ CallsOf(k, i)[1] = "read"
          /\ CallsOf(k, i)[2] = "install"
      BY <3>1
    <3> QED BY <3>2, <1>3, <2>4
  <2>5. CASE i = 3
    <3>1. CallsOf(k, i) = <<"read", "log_in", "store_version">>
      BY <2>2, <2>5
    <3>2. /\ Len(CallsOf(k, i)) = 3
          /\ CallsOf(k, i)[1] = "read"
          /\ CallsOf(k, i)[2] = "log_in"
          /\ CallsOf(k, i)[3] = "store_version"
      BY <3>1
    <3> QED BY <3>2, <1>3, <2>5
  <2> QED BY <2>1, <2>3, <2>4, <2>5
<1>4. CASE k \in {"deploy_by_ssh", "deploy_by_api"}
  <2>1. CallsOf(k, i) = <<"read", "write_config", "import", "add_record">>
    BY <1>4, Zenon DEF CallsOf
  <2>2. /\ Len(CallsOf(k, i)) = 4
        /\ CallsOf(k, i)[1] = "read"
        /\ CallsOf(k, i)[2] = "write_config"
        /\ CallsOf(k, i)[3] = "import"
        /\ CallsOf(k, i)[4] = "add_record"
    BY <2>1
  <2> QED BY <2>2, <1>4
<1> QED BY <1>1, <1>2, <1>3, <1>4, KindsAre

\* What a job that awaits a call of its step may be at.
LEMMA DueAt ==
  ASSUME FirmwareInv, NEW j \in Jobs, pc[j] = "exec"
  PROVE  /\ kind[j] \in Kinds /\ cur[j] \in 1..TaskOf(kind[j]).size
         /\ at[j] \in 1..Len(Calls(j)) /\ Len(Calls(j)) \in Nat
         /\ kind[j] = "deploy_by_ssh" => Len(Calls(j)) = 4
         /\ Due(j, "store_check") => kind[j] = "check" /\ AtStore(j)
         /\ Due(j, "store_version") => kind[j] = "upgrade" /\ AtStore(j)
         /\ \A call : Due(j, call) /\ at[j] = 2 /\ kind[j] = "check" => call = "update_info"
         /\ \A call : Due(j, call) /\ at[j] = 2 /\ kind[j] = "upgrade" /\ cur[j] = 3
              => call = "log_in"
<1>1. kind[j] \in Kinds /\ cur[j] \in 1..TaskOf(kind[j]).size
  BY AtWork DEF FirmwareInv, StateFits, JobFits, StepsOf, Forward
<1>2. at[j] \in 1..Len(CallsOf(kind[j], cur[j]))
  BY DEF FirmwareInv, JobFits, Calls
<1> DEFINE calls == CallsOf(kind[j], cur[j])
<1>3. /\ Len(calls) \in Nat \ {0}
      /\ kind[j] = "deploy_by_ssh" => Len(calls) = 4
      /\ calls[at[j]] = "store_check" <=> kind[j] = "check" /\ at[j] = 3
      /\ calls[at[j]] = "update_info" <=> kind[j] = "check" /\ at[j] = 2
      /\ calls[at[j]] = "store_version" <=> kind[j] = "upgrade" /\ cur[j] = 3 /\ at[j] = 3
      /\ calls[at[j]] = "log_in" <=> kind[j] = "upgrade" /\ cur[j] = 3 /\ at[j] = 2
  BY <1>1, <1>2, CallsAre
<1>4. Calls(j) = calls
  BY DEF Calls
<1> HIDE DEF calls
<1> QED BY <1>1, <1>2, <1>3, <1>4 DEF Due, AtStore, calls

LEMMA NotOfVersions ==
  ASSUME FirmwareInv, NEW j \in Jobs,
         NEW call \in {"export", "write_config", "import", "add_record"}, Due(j, call)
  PROVE  kind[j] \notin {"check", "upgrade"}
<1>1. kind[j] \in Kinds /\ cur[j] \in 1..TaskOf(kind[j]).size /\ at[j] \in 1..Len(Calls(j))
  BY DueAt DEF Due
<1>2. Calls(j) = CallsOf(kind[j], cur[j]) /\ Calls(j)[at[j]] = call
  BY DEF Calls, Due
<1> QED BY <1>1, <1>2, CallsAre

\* What a call that is answered leaves: the position of one job, within its step or at
\* the first call of the next one.
LEMMA Answered ==
  ASSUME FirmwareInv, NEW j \in Jobs, pc[j] = "exec", GoesOn(j) \/ Stays(j) \/ AnswerLost(j)
  PROVE  /\ UNCHANGED <<task, cur>>
         /\ at' \in [Jobs -> Nat]
         /\ \A k \in Jobs \ {j} : at'[k] = at[k] /\ pc'[k] = pc[k]
         /\ \/ pc'[j] = "exec" /\ at'[j] \in {at[j], at[j] + 1} /\ at'[j] \in 1..Len(Calls(j))
            \/ pc'[j] = "record_ok" /\ at'[j] = 1
<1>1. at[j] \in 1..Len(Calls(j)) /\ Len(Calls(j)) \in Nat
  BY DueAt
<1>2. pc \in [Jobs -> Points] /\ at \in [Jobs -> Nat]
  BY DEF FirmwareInv, IInv, TypeOK, StateFits
<1>3. CASE GoesOn(j)
  <2>1. CASE at[j] < Len(Calls(j)) /\ at' = [at EXCEPT ![j] = @ + 1] /\ UNCHANGED vars
    BY <1>1, <1>2, <2>1 DEF vars, memory
  <2>2. CASE at' = [at EXCEPT ![j] = 1] /\ ExecuteOk(j)
    BY <1>2, <2>2 DEF ExecuteOk, Goto
  <2> QED BY <1>3, <2>1, <2>2 DEF GoesOn
<1>4. CASE Stays(j) \/ AnswerLost(j)
  BY <1>1, <1>2, <1>4 DEF Stays, AnswerLost, vars, memory
<1> QED BY <1>3, <1>4

\* A call of one job that is answered keeps every job's position, as long as what the
\* job has in hand, when it is about to store it, is a version of the router.
LEMMA CallKeeps ==
  ASSUME FirmwareInv, NEW j \in Jobs, pc[j] = "exec", GoesOn(j) \/ Stays(j) \/ AnswerLost(j),
         UNCHANGED <<kind, version>>,
         seen' \in [Jobs -> Nat], \A k \in Jobs \ {j} : seen'[k] = seen[k],
         pc'[j] = "exec" /\ AtStore(j)' => seen'[j] <= version
  PROVE  at' \in [Jobs -> Nat] /\ \A k \in Jobs : JobFits(k)'
<1>1. ASSUME NEW k \in Jobs \ {j} PROVE JobFits(k)'
  BY Answered DEF FirmwareInv, JobFits, Calls, AtStore
<1>2. JobFits(j)'
  BY Answered DEF FirmwareInv, JobFits, Calls
<1> QED BY <1>1, <1>2, Answered

\* As CallKeeps, for a call other than the two that ask the router for its version.
LEMMA OtherCallKeeps ==
  ASSUME FirmwareInv, NEW j \in Jobs, NEW call,
         Due(j, call), call \notin {"update_info", "log_in"},
         GoesOn(j) \/ Stays(j) \/ AnswerLost(j), UNCHANGED <<kind, version>>,
         seen' \in [Jobs -> Nat], \A k \in Jobs \ {j} : seen'[k] = seen[k],
         seen'[j] = seen[j] \/ kind[j] \notin {"check", "upgrade"}
  PROVE  at' \in [Jobs -> Nat] /\ \A k \in Jobs : JobFits(k)'
<1>1. pc[j] = "exec"
  BY DEF Due
<1>2. ASSUME pc'[j] = "exec", AtStore(j)' PROVE seen'[j] <= version
  <2>1. kind[j] \in {"check", "upgrade"} /\ seen'[j] = seen[j]
    BY <1>2 DEF AtStore
  <2>2. AtStore(j)
    BY <1>1, <1>2, Answered, DueAt DEF AtStore
  <2> QED BY <1>1, <2>1, <2>2 DEF FirmwareInv, JobFits
<1> QED BY <1>1, <1>2, CallKeeps

-----------------------------------------------------------------------------
(* Preservation *)

Kept == StateFits' /\ (\A j \in Jobs : JobFits(j)') /\ FirmwareNeverAhead'

LEMMA BackupKeeps ==
  ASSUME FirmwareInv, NEW j \in Jobs, Backup(j), UNCHANGED kind
  PROVE  Kept
<1> USE DEF backupV, upgradeV, Read
<1>0. StateFits /\ FirmwareNeverAhead
  BY DEF FirmwareInv
<1>1. CASE Export(j)
  <2>1. /\ Due(j, "export") /\ GoesOn(j)
        /\ seen' = [seen EXCEPT ![j] = clock + 1] /\ clock' = clock + 1
        /\ UNCHANGED <<version, stored, firmware>>
    BY <1>1 DEF Export, Backup
  <2>2. kind[j] \notin {"check", "upgrade"}
    BY <2>1, NotOfVersions
  <2>3. seen' \in [Jobs -> Nat] /\ clock' \in Nat /\ \A k \in Jobs \ {j} : seen'[k] = seen[k]
    BY <1>0, <2>1 DEF StateFits
  <2>4. at' \in [Jobs -> Nat] /\ \A k \in Jobs : JobFits(k)'
    BY <2>1, <2>2, <2>3, OtherCallKeeps
  <2> QED BY <1>0, <2>1, <2>3, <2>4 DEF Kept, StateFits, FirmwareNeverAhead
<1>2. CASE WriteFile(j) \/ AddRow(j) \/ List(j) \/ Unlink(j) \/ DeleteRow(j) \/ Pruned(j)
  <2>1. /\ \E call \in {"write_file", "add_row", "list", "prune"} : Due(j, call)
        /\ GoesOn(j) \/ Stays(j)
        /\ UNCHANGED <<seen, clock, version, stored, firmware>>
    BY <1>2 DEF WriteFile, AddRow, List, Unlink, DeleteRow, Pruned, Backup
  <2>2. at' \in [Jobs -> Nat] /\ \A k \in Jobs : JobFits(k)'
    BY <1>0, <2>1, OtherCallKeeps DEF StateFits
  <2> QED BY <1>0, <2>1, <2>2 DEF Kept, StateFits, FirmwareNeverAhead
<1> QED BY <1>1, <1>2 DEF Backup

LEMMA DeployKeeps ==
  ASSUME FirmwareInv, NEW j \in Jobs, Deploy(j), UNCHANGED kind
  PROVE  Kept
<1> USE DEF backupV, upgradeV, deployV, Read
<1>0. StateFits /\ FirmwareNeverAhead
  BY DEF FirmwareInv
<1>1. CASE WriteConfig(j) \/ Import(j) \/ AddRecord(j)
  <2>1. PICK call \in {"write_config", "import", "add_record"} :
          /\ Due(j, call)
          /\ GoesOn(j) \/ AnswerLost(j)
          /\ \E x \in 0..2 : seen' = [seen EXCEPT ![j] = x] \/ seen' = seen
          /\ UNCHANGED <<clock, version, stored, firmware>>
    BY <1>1 DEF WriteConfig, Import, AddRecord, Deploy
  <2>2. kind[j] \notin {"check", "upgrade"}
    BY <2>1, NotOfVersions
  <2>3. seen' \in [Jobs -> Nat] /\ \A k \in Jobs \ {j} : seen'[k] = seen[k]
    BY <1>0, <2>1 DEF StateFits
  <2>4. at' \in [Jobs -> Nat] /\ \A k \in Jobs : JobFits(k)'
    BY <2>1, <2>2, <2>3, OtherCallKeeps
  <2> QED BY <1>0, <2>1, <2>3, <2>4 DEF Kept, StateFits, FirmwareNeverAhead
<1>2. CASE SshFails(j)
  <2>1. /\ pc[j] = "exec" /\ kind[j] = "deploy_by_ssh"
        /\ at' = [at EXCEPT ![j] = 4]
        /\ UNCHANGED <<vars, seen, clock, version, stored, firmware>>
    BY <1>2 DEF SshFails, Due, Deploy
  <2>2. Len(Calls(j)) = 4
    BY <2>1, DueAt
  <2>3. at' \in [Jobs -> Nat] /\ \A k \in Jobs \ {j} : at'[k] = at[k]
    BY <1>0, <2>1 DEF StateFits
  <2>4. at'[j] = 4 /\ UNCHANGED <<task, kind, pc, cur>>
    BY <1>0, <2>1 DEF StateFits, vars, memory
  <2>5. ASSUME NEW k \in Jobs \ {j} PROVE JobFits(k)'
    BY <2>1, <2>3, <2>4 DEF FirmwareInv, JobFits, AtStore, Calls
  <2>6. JobFits(j)'
    BY <2>1, <2>2, <2>4 DEF FirmwareInv, JobFits, AtStore, Calls
  <2> QED BY <1>0, <2>1, <2>3, <2>5, <2>6 DEF Kept, StateFits, FirmwareNeverAhead
<1> QED BY <1>1, <1>2 DEF Deploy

LEMMA FirmwareKeeps ==
  ASSUME FirmwareInv, NEW j \in Jobs, Firmware(j), UNCHANGED kind
  PROVE  Kept
<1> USE DEF backupV, upgradeV, Read
<1>0. StateFits /\ FirmwareNeverAhead /\ clock' = clock
  BY DEF FirmwareInv, Firmware
<1>1. CASE UpdateInfo(j) \/ LogIn(j)
  <2>1. /\ pc[j] = "exec" /\ GoesOn(j) /\ seen' = [seen EXCEPT ![j] = version]
        /\ UNCHANGED <<version, stored, firmware>>
    BY <1>1 DEF UpdateInfo, LogIn, Due
  <2>2. seen' \in [Jobs -> Nat] /\ seen'[j] = version /\ version \in Nat
        /\ \A k \in Jobs \ {j} : seen'[k] = seen[k]
    BY <1>0, <2>1 DEF StateFits, Versions
  <2>3. at' \in [Jobs -> Nat] /\ \A k \in Jobs : JobFits(k)'
    BY <2>1, <2>2, CallKeeps
  <2> QED BY <1>0, <2>1, <2>2, <2>3 DEF Kept, StateFits, FirmwareNeverAhead
<1>2. CASE Install(j)
  <2>1. /\ Due(j, "install") /\ (GoesOn(j) \/ AnswerLost(j))
        /\ UNCHANGED <<seen, version, stored, firmware>>
    BY <1>2 DEF Install
  <2>2. at' \in [Jobs -> Nat] /\ \A k \in Jobs : JobFits(k)'
    BY <1>0, <2>1, OtherCallKeeps DEF StateFits
  <2> QED BY <1>0, <2>1, <2>2 DEF Kept, StateFits, FirmwareNeverAhead
<1>3. CASE StoreCheck(j) \/ StoreVersion(j)
  <2>1. PICK call \in {"store_check", "store_version"} : Due(j, call)
    BY <1>3 DEF StoreCheck, StoreVersion
  <2>2. GoesOn(j) /\ UNCHANGED <<seen, version, stored>> /\ pc[j] = "exec"
    BY <1>3, <2>1 DEF StoreCheck, StoreVersion, Due
  <2>3. seen[j] <= version /\ seen[j] \in Nat /\ version \in Versions
    BY <1>0, <2>1, <2>2, DueAt DEF FirmwareInv, JobFits, StateFits
  <2>4. PICK n \in Nat, more \in BOOLEAN :
          n <= version /\ firmware' = [current |-> n, available |-> more]
    <3>1. CASE StoreVersion(j)
      BY <2>3, <3>1 DEF StoreVersion
    <3>2. CASE StoreCheck(j)
      <4> DEFINE current == IF stored # None THEN stored ELSE seen[j]
      <4>1. current \in Nat /\ current <= version
        BY <1>0, <2>3 DEF StateFits, Versions, None
      <4>2. PICK known \in BOOLEAN :
              firmware' = [current |-> current, available |-> known /\ current # 2]
        BY <3>2 DEF StoreCheck
      <4>3. (known /\ current # 2) \in BOOLEAN
        OBVIOUS
      <4> HIDE DEF current
      <4> QED BY <4>1, <4>2, <4>3
    <3> QED BY <1>3, <3>1, <3>2
  <2>5. at' \in [Jobs -> Nat] /\ \A k \in Jobs : JobFits(k)'
    BY <1>0, <2>1, <2>2, OtherCallKeeps DEF StateFits
  <2> QED BY <1>0, <2>2, <2>4, <2>5 DEF Kept, StateFits, FirmwareNeverAhead
<1>4. CASE WaitsAgain(j)
  <2>1. /\ pc[j] = "exec" /\ AtStore(j) /\ at' = [at EXCEPT ![j] = @ - 1]
        /\ UNCHANGED <<vars, seen, version, stored, firmware>>
    BY <1>4, DueAt DEF WaitsAgain, Due
  <2>2. at' = [at EXCEPT ![j] = 2] /\ 3 \in 1..Len(Calls(j)) /\ Len(Calls(j)) \in Nat
    BY <1>0, <2>1, DueAt DEF StateFits, AtStore
  <2>3. ASSUME NEW k \in Jobs PROVE JobFits(k)'
    BY <1>0, <2>1, <2>2 DEF FirmwareInv, StateFits, JobFits, AtStore, Calls, vars, memory
  <2> QED BY <1>0, <2>1, <2>2, <2>3 DEF Kept, StateFits, FirmwareNeverAhead
<1> QED BY <1>1, <1>2, <1>3, <1>4 DEF Firmware

\* A step of a job of the scheduler leads to a step's calls from its start alone.
LEMMA LeadsToCalls ==
  ASSUME TypeOK, NEW j \in Jobs, Schedule(j) \/ Advance(j) \/ StatementFails(j)
  PROVE  /\ task' = task /\ pc[j] # "lost"
         /\ pc'[j] = "exec" => pc[j] = "open" /\ cur'[j] = cur[j]
BY DEF TypeOK, Goto, NextStep, NextRevert, Schedule, Advance,
       StatementFails, persisted, bounds, PersistSteps, StartJob, FinishEmpty, OpenStep,
       ExecuteOk, ExecuteFails, RecordSuccess, RecordProgress, RecordFailure, FinishFailed,
       FinishSucceeded, BeginRollback, SkipRevert, OpenRevert, RevertOk, RevertFails,
       RecordReverted, RecordRevertFailed, FinishRollback, CatchJob, UncaughtPoints,
       StepTryPoints, RevertTryPoints

\* A step of the scheduler other than the end of a step's calls.
LEMMA SchedulerKeeps ==
  ASSUME FirmwareInv, NEW j \in Jobs, UNCHANGED kind,
         Schedule(j) \/ Advance(j) \/ StatementFails(j),
         (pc[j] # "exec" /\ at' = at) \/ (pc'[j] # "exec" /\ at' = [at EXCEPT ![j] = 1]),
         UNCHANGED <<seen, clock, version, stored, firmware>>
  PROVE  Kept
<1>1. StateFits /\ FirmwareNeverAhead /\ TypeOK /\ JobFits(j)
  BY DEF FirmwareInv, IInv
<1>2. at' \in [Jobs -> Nat] /\ \A k \in Jobs \ {j} : at'[k] = at[k]
  BY <1>1 DEF StateFits
<1>3. ASSUME NEW k \in Jobs \ {j} PROVE JobFits(k)'
  BY <1>1, <1>2, Frame DEF FirmwareInv, JobFits, AtStore, Calls
<1>4. task' = task /\ at'[j] = 1
  BY <1>1, LeadsToCalls DEF JobFits, StateFits
<1>5. ASSUME pc'[j] = "exec" PROVE 1 \in 1..Len(Calls(j)')
  <2>1. cur'[j] = cur[j] /\ cur[j] \in 1..TaskOf(kind[j]).size
    BY <1>1, <1>5, LeadsToCalls, AtWork DEF FirmwareInv, JobFits, StepsOf, Forward
  <2>2. Calls(j)' = CallsOf(kind[j], cur[j]) /\ kind[j] \in Kinds
    BY <1>1, <2>1 DEF Calls, StateFits
  <2> QED BY <2>1, <2>2, CallsAre
<1>6. JobFits(j)'
  BY <1>1, <1>4, <1>5 DEF JobFits, AtStore
<1> QED BY <1>1, <1>2, <1>3, <1>6 DEF Kept, StateFits, FirmwareNeverAhead

\* The process dies, or the handler of schedule fails and it dies of that.
LEMMA DeathKeeps ==
  ASSUME FirmwareInv, Die,
         UNCHANGED <<task, kind, at, seen, clock, version, stored, firmware, cur>>
  PROVE  Kept
<1>1. ASSUME NEW j \in Jobs PROVE pc'[j] = pc[j] \/ pc'[j] = "lost"
  BY DEF Die
<1>2. ASSUME NEW j \in Jobs PROVE JobFits(j)'
  BY <1>1 DEF FirmwareInv, JobFits, AtStore, Calls
<1> QED BY <1>2 DEF FirmwareInv, Kept, StateFits, FirmwareNeverAhead

LEMMA InitFirmwareInv == MaintenanceInit => FirmwareInv
<1> SUFFICES ASSUME MaintenanceInit PROVE FirmwareInv
  OBVIOUS
<1>1. Init /\ IInv
  BY InitIInv DEF MaintenanceInit, MaintenanceAtStart
<1>2. StateFits
  BY MaintenanceAssumption DEF MaintenanceInit, MaintenanceAtStart, StateFits, Kinds, Versions, None
<1>3. ASSUME NEW j \in Jobs PROVE JobFits(j)
  BY <1>1 DEF MaintenanceInit, MaintenanceAtStart, Init, JobFits
<1>4. FirmwareNeverAhead
  BY DEF MaintenanceInit, MaintenanceAtStart, FirmwareNeverAhead
<1> QED BY <1>1, <1>2, <1>3, <1>4 DEF FirmwareInv

LEMMA NextFirmwareInv == FirmwareInv /\ [MaintenanceNext]_maintenanceVars => FirmwareInv'
<1> SUFFICES ASSUME FirmwareInv, [MaintenanceNext]_maintenanceVars PROVE FirmwareInv'
  OBVIOUS
<1>0. IInv'
  BY StepIsScheduled, NextIInv DEF FirmwareInv
<1> SUFFICES Kept
  BY <1>0 DEF Kept, FirmwareInv
<1>a. StateFits /\ FirmwareNeverAhead
  BY DEF FirmwareInv
<1>1. ASSUME NEW j \in Jobs, ReadStore(j), UNCHANGED kind PROVE Kept
  <2>1. /\ \E call \in {"read", "verify"} : Due(j, call)
        /\ GoesOn(j)
        /\ UNCHANGED <<seen, clock, version, stored, firmware>>
    BY <1>1 DEF ReadStore, backupV, upgradeV
  <2>2. at' \in [Jobs -> Nat] /\ \A k \in Jobs : JobFits(k)'
    BY <1>1, <1>a, <2>1, OtherCallKeeps DEF StateFits
  <2> QED BY <1>1, <1>a, <2>1, <2>2 DEF Kept, StateFits, FirmwareNeverAhead
<1>2. ASSUME NEW j \in Jobs, CallFails(j), UNCHANGED kind PROVE Kept
  <2>1. UNCHANGED <<vars, at, seen, clock, version, stored, firmware>>
    BY <1>2 DEF CallFails, backupV, upgradeV
  <2>2. ASSUME NEW k \in Jobs PROVE JobFits(k)'
    BY <1>2, <2>1 DEF FirmwareInv, JobFits, AtStore, Calls, vars, memory
  <2> QED BY <1>2, <1>a, <2>1, <2>2 DEF Kept, StateFits, FirmwareNeverAhead
<1>3. ASSUME NEW j \in Jobs, StepThrows(j), UNCHANGED kind PROVE Kept
  <2>1. /\ ExecuteFails(j) /\ at' = [at EXCEPT ![j] = 1]
        /\ UNCHANGED <<seen, clock, version, stored, firmware>>
    BY <1>3 DEF StepThrows, backupV, upgradeV
  <2>2. pc'[j] # "exec"
    BY <2>1 DEF ExecuteFails, Goto, FirmwareInv, IInv, TypeOK
  <2>3. Advance(j)
    BY <2>1 DEF Advance
  <2> QED BY <1>3, <2>1, <2>2, <2>3, SchedulerKeeps
<1>4. ASSUME NEW j \in Jobs, SchedulerStep(j), UNCHANGED kind PROVE Kept
  <2>1. UNCHANGED <<at, seen, clock, version, stored, firmware>>
    BY <1>4 DEF SchedulerStep, local, backupV, upgradeV
  <2>2. CASE CatchFails(j)
    BY <1>4, <2>1, <2>2, DeathKeeps DEF CatchFails
  <2>3. CASE Schedule(j) \/ (pc[j] # "exec" /\ Advance(j))
    <3>1. pc[j] # "exec"
      BY <2>3 DEF Schedule
    <3> QED BY <1>4, <2>1, <2>3, <3>1, SchedulerKeeps
  <2>4. CASE StatementFails(j)
    <3>1. pc[j] # "exec"
      BY <2>4 DEF StatementFails, UncaughtPoints, StepTryPoints, RevertTryPoints
    <3> QED BY <1>4, <2>1, <2>4, <3>1, SchedulerKeeps
  <2> QED BY <1>4, <2>2, <2>3, <2>4 DEF SchedulerStep, Request
<1>5. CASE RouterReboots /\ UNCHANGED kind
  <2>1. /\ UNCHANGED <<vars, at, seen, clock, stored, firmware>>
        /\ version' = 2 /\ version \in 1..2
    BY <1>5, <1>a DEF RouterReboots, local, backupV, StateFits, Versions
  <2>2. ASSUME NEW k \in Jobs PROVE JobFits(k)'
    BY <1>5, <1>a, <2>1 DEF FirmwareInv, StateFits, JobFits, AtStore, Calls, vars, memory
  <2> QED BY <1>5, <1>a, <2>1, <2>2 DEF Kept, StateFits, FirmwareNeverAhead, Versions
<1>6. CASE Crash /\ UNCHANGED <<kind, local, backupV, upgradeV, deployV>>
  BY <1>6, DeathKeeps DEF Crash, local, backupV, upgradeV
<1>7. CASE UNCHANGED maintenanceVars
  <2>1. UNCHANGED <<vars, kind, at, seen, clock, version, stored, firmware>>
    BY <1>7 DEF maintenanceVars, local, backupV, upgradeV
  <2>2. ASSUME NEW k \in Jobs PROVE JobFits(k)'
    BY <2>1 DEF FirmwareInv, JobFits, AtStore, Calls, vars, memory
  <2> QED BY <1>a, <2>1, <2>2 DEF Kept, StateFits, FirmwareNeverAhead
<1> QED BY <1>1, <1>2, <1>3, <1>4, <1>5, <1>6, <1>7, BackupKeeps, FirmwareKeeps, DeployKeeps
       DEF MaintenanceNext

\* Checks and upgrades of a router's firmware, however many overlap and however they
\* fail, never store a version that the router does not run.
THEOREM FirmwareIsNotAhead == MaintenanceSpec => []FirmwareNeverAhead
<1>1. FirmwareInv => FirmwareNeverAhead
  BY DEF FirmwareInv
<1> QED BY <1>1, InitFirmwareInv, NextFirmwareInv, PTL DEF MaintenanceSpec

-----------------------------------------------------------------------------
(* Deployments *)

Deployments == {"deploy_by_ssh", "deploy_by_api"}

\* A deployment that has noted the import has imported, one through the API that is at
\* its row has too, and past its step there is a row.
DeployFits(j) ==
  /\ kind[j] \in Deployments =>
       /\ seen[j] = 2 => j \in imported
       /\ seen[j] \in 0..2
       /\ pc[j] \in {"record_ok", "progress", "finish"} \/ status[j] = "succeeded"
            => deployed[j] # "no_row"
  /\ kind[j] = "deploy_by_api" /\ (deployed[j] # "no_row" \/ (pc[j] = "exec" /\ at[j] = 4))
       => j \in imported
  /\ deployed[j] = "imported" => j \in imported

DeployInv ==
  /\ FirmwareInv
  /\ deployed \in [Jobs -> {"no_row", "nothing", "written", "imported"}]
  /\ \A j \in Jobs : DeployFits(j)

DeployKept == deployed' \in [Jobs -> {"no_row", "nothing", "written", "imported"}]
                /\ \A j \in Jobs : DeployFits(j)'

\* The calls of a deployment, by their place.
LEMMA DeployCalls ==
  ASSUME FirmwareInv, NEW j \in Jobs, pc[j] = "exec", kind[j] \in Deployments
  PROVE  /\ at[j] \in 1..4 /\ Len(Calls(j)) = 4
         /\ Due(j, "write_config") => at[j] = 2
         /\ Due(j, "import") => at[j] = 3
         /\ Due(j, "add_record") => at[j] = 4
         /\ Due(j, "read") => at[j] = 1
         /\ \A call : Due(j, call) => call \in {"read", "write_config", "import", "add_record"}
<1>1. Calls(j) = <<"read", "write_config", "import", "add_record">>
  BY Zenon DEF Calls, CallsOf, Deployments
<1>2. /\ Len(Calls(j)) = 4
      /\ Calls(j)[1] = "read" /\ Calls(j)[2] = "write_config"
      /\ Calls(j)[3] = "import" /\ Calls(j)[4] = "add_record"
  BY <1>1
<1>3. at[j] \in 1..4
  BY <1>2, DueAt
<1> QED BY <1>2, <1>3 DEF Due

\* Which job a call of a deployment's row or import is of.
LEMMA DeployDue ==
  ASSUME FirmwareInv, NEW j \in Jobs,
         Due(j, "write_config") \/ Due(j, "import") \/ Due(j, "add_record")
  PROVE  kind[j] \in Deployments /\ pc[j] = "exec"
<1>1. kind[j] \in Kinds /\ cur[j] \in 1..TaskOf(kind[j]).size /\ at[j] \in 1..Len(Calls(j))
  BY DueAt DEF Due
<1>2. Calls(j) = CallsOf(kind[j], cur[j])
      /\ Calls(j)[at[j]] \in {"write_config", "import", "add_record"} /\ pc[j] = "exec"
  BY DEF Calls, Due
<1> QED BY <1>1, <1>2, CallsAre DEF Deployments

\* A job that takes no step keeps what it has, whatever else is imported.
LEMMA AtRest ==
  ASSUME NEW k \in Jobs, DeployFits(k), UNCHANGED kind, imported \subseteq imported',
         at'[k] = at[k], pc'[k] = pc[k] \/ pc'[k] = "lost", status'[k] = status[k],
         seen'[k] = seen[k], deployed'[k] = deployed[k]
  PROVE  DeployFits(k)'
BY DEF DeployFits

\* A call that is answered moves one job.
LEMMA CallMoves ==
  ASSUME DeployInv, NEW j \in Jobs, pc[j] = "exec", GoesOn(j) \/ Stays(j) \/ AnswerLost(j),
         UNCHANGED kind, imported \subseteq imported',
         \A k \in Jobs \ {j} : seen'[k] = seen[k] /\ deployed'[k] = deployed[k]
  PROVE  /\ status' = status
         /\ \A k \in Jobs \ {j} : DeployFits(k)'
<1>1. status' = status
  BY DEF GoesOn, Stays, AnswerLost, vars, persisted, ExecuteOk
<1>2. ASSUME NEW k \in Jobs \ {j} PROVE DeployFits(k)'
  BY <1>1, Answered, AtRest DEF DeployInv
<1> QED BY <1>1, <1>2

LEMMA OthersDeployKept ==
  ASSUME DeployInv, NEW j \in Jobs, Backup(j) \/ Firmware(j), UNCHANGED kind
  PROVE  DeployKept
<1>1. PICK call \in {"export", "write_file", "add_row", "list", "prune", "update_info",
                     "store_check", "install", "log_in", "store_version"} :
        Due(j, call) /\ UNCHANGED <<deployed, imported>>
  BY DEF Backup, Export, WriteFile, AddRow, List, Unlink, DeleteRow, Pruned, Firmware,
         UpdateInfo, StoreCheck, Install, LogIn, StoreVersion, WaitsAgain, deployV
<1>2. pc[j] = "exec" /\ kind[j] \notin Deployments
  BY <1>1, DeployCalls DEF Due, DeployInv
<1>3. /\ status' = status
      /\ \A k \in Jobs \ {j} : at'[k] = at[k] /\ pc'[k] = pc[k] /\ seen'[k] = seen[k]
  <2>1. CASE WaitsAgain(j)
    BY <2>1 DEF WaitsAgain, vars, memory, persisted, DeployInv, FirmwareInv, StateFits
  <2>2. CASE ~WaitsAgain(j)
    <3>1. GoesOn(j) \/ Stays(j) \/ AnswerLost(j)
      BY <2>2 DEF Backup, Export, WriteFile, AddRow, List, Unlink, DeleteRow, Pruned, Firmware,
         UpdateInfo, StoreCheck, Install, LogIn, StoreVersion
    <3>2. \E x : seen' = [seen EXCEPT ![j] = x] \/ seen' = seen
      BY <2>2 DEF Backup, Export, WriteFile, AddRow, List, Unlink, DeleteRow, Pruned, Firmware,
         UpdateInfo, StoreCheck, Install, LogIn, StoreVersion, Read
    <3>3. \A k \in Jobs \ {j} : seen'[k] = seen[k]
      BY <3>2 DEF DeployInv, FirmwareInv, StateFits
    <3> QED BY <1>1, <1>2, <3>1, <3>3, Answered, CallMoves DEF DeployInv
  <2> QED BY <2>1, <2>2
<1>4. ASSUME NEW k \in Jobs \ {j} PROVE DeployFits(k)'
  BY <1>1, <1>3, AtRest DEF DeployInv
<1>5. DeployFits(j)'
  BY <1>1, <1>2 DEF DeployInv, DeployFits, Deployments
<1> QED BY <1>1, <1>4, <1>5 DEF DeployInv, DeployKept

LEMMA DeployDeployKept ==
  ASSUME DeployInv, NEW j \in Jobs, Deploy(j) \/ ReadStore(j), UNCHANGED kind
  PROVE  DeployKept
<1> USE DEF Read
<1>0. /\ seen \in [Jobs -> Nat] /\ at \in [Jobs -> Nat] /\ pc \in [Jobs -> Points]
      /\ deployed \in [Jobs -> {"no_row", "nothing", "written", "imported"}]
      /\ FirmwareInv /\ DeployFits(j)
  BY DEF DeployInv, FirmwareInv, StateFits, IInv, TypeOK
<1>1. CASE ReadStore(j)
  <2>1. pc[j] = "exec" /\ GoesOn(j) /\ UNCHANGED <<seen, deployed, imported>>
    BY <1>1 DEF ReadStore, Due, deployV
  <2>2. CASE kind[j] \in Deployments
    <3>1. Due(j, "read") \/ Due(j, "verify")
      BY <1>1 DEF ReadStore
    <3>4. at[j] = 1 /\ Len(Calls(j)) = 4
      BY <1>0, <2>1, <2>2, <3>1, DeployCalls
    <3>2. at' = [at EXCEPT ![j] = 2] /\ UNCHANGED vars
      BY <1>0, <2>1, <3>4 DEF GoesOn
    <3>3. DeployFits(j)'
      BY <1>0, <2>1, <2>2, <3>2 DEF DeployFits, vars, memory, persisted
    <3> QED BY <1>0, <2>1, <3>3, CallMoves DEF DeployKept
  <2>3. CASE kind[j] \notin Deployments
    <3>1. DeployFits(j)'
      BY <1>0, <2>1, <2>3 DEF DeployFits, Deployments
    <3> QED BY <1>0, <2>1, <3>1, CallMoves DEF DeployKept
  <2> QED BY <2>2, <2>3
<1>2. CASE WriteConfig(j)
  <2>1. /\ Due(j, "write_config") /\ GoesOn(j)
        /\ seen' = [seen EXCEPT ![j] = 1] /\ UNCHANGED <<deployed, imported>>
    BY <1>2 DEF WriteConfig, deployV
  <2>2. kind[j] \in Deployments /\ pc[j] = "exec" /\ at[j] = 2 /\ Len(Calls(j)) = 4
    BY <1>0, <2>1, DeployDue, DeployCalls
  <2>3. at' = [at EXCEPT ![j] = 3] /\ UNCHANGED vars
    BY <1>0, <2>1, <2>2 DEF GoesOn
  <2>4. DeployFits(j)'
    BY <1>0, <2>1, <2>2, <2>3 DEF DeployFits, vars, memory, persisted
  <2> QED BY <1>0, <2>1, <2>2, <2>4, CallMoves DEF DeployKept
<1>3. CASE Import(j)
  <2>1. /\ Due(j, "import") /\ imported' = imported \cup {j} /\ UNCHANGED deployed
        /\ GoesOn(j) \/ AnswerLost(j)
        /\ seen' = [seen EXCEPT ![j] = 2] \/ seen' = seen
    BY <1>3 DEF Import
  <2>2. kind[j] \in Deployments /\ pc[j] = "exec" /\ at[j] = 3 /\ Len(Calls(j)) = 4
    BY <1>0, <2>1, DeployDue, DeployCalls
  <2>3. at' \in {at, [at EXCEPT ![j] = 4]} /\ UNCHANGED vars
    BY <1>0, <2>1, <2>2 DEF GoesOn, AnswerLost
  <2>4. DeployFits(j)'
    BY <1>0, <2>1, <2>2, <2>3 DEF DeployFits, vars, memory, persisted
  <2>5. \A k \in Jobs \ {j} : seen'[k] = seen[k]
    BY <1>0, <2>1
  <2> QED BY <1>0, <2>1, <2>2, <2>4, <2>5, CallMoves DEF DeployKept
<1>4. CASE SshFails(j)
  <2>1. /\ pc[j] = "exec" /\ kind[j] = "deploy_by_ssh"
        /\ at' = [at EXCEPT ![j] = 4] /\ UNCHANGED <<vars, seen, deployed>>
        /\ imported \subseteq imported'
    BY <1>4 DEF SshFails, Due
  <2>2. /\ UNCHANGED <<pc, status>>
        /\ \A k \in Jobs \ {j} : at'[k] = at[k]
    BY <1>0, <2>1 DEF vars, memory, persisted
  <2>3. ASSUME NEW k \in Jobs \ {j} PROVE DeployFits(k)'
    BY <2>1, <2>2, AtRest DEF DeployInv
  <2>4. DeployFits(j)'
    BY <1>0, <2>1, <2>2 DEF DeployFits
  <2> QED BY <1>0, <2>1, <2>3, <2>4 DEF DeployKept
<1>5. CASE AddRecord(j)
  <2>1. /\ Due(j, "add_record") /\ GoesOn(j) /\ UNCHANGED <<seen, imported>>
        /\ deployed' = [deployed EXCEPT ![j] = <<"nothing", "written", "imported">>[seen[j] + 1]]
    BY <1>5 DEF AddRecord
  <2>2. kind[j] \in Deployments /\ pc[j] = "exec" /\ at[j] = 4
    BY <1>0, <2>1, DeployDue, DeployCalls
  <2>3. PICK told \in {"nothing", "written", "imported"} :
          told = <<"nothing", "written", "imported">>[seen[j] + 1]
          /\ (told = "imported" => j \in imported)
    <3>1. seen[j] \in 0..2 /\ (seen[j] = 2 => j \in imported)
      BY <1>0, <2>2 DEF DeployFits
    <3>2. /\ <<"nothing", "written", "imported">>[1] = "nothing"
          /\ <<"nothing", "written", "imported">>[2] = "written"
          /\ <<"nothing", "written", "imported">>[3] = "imported"
      OBVIOUS
    <3>3. seen[j] = 0 \/ seen[j] = 1 \/ seen[j] = 2
      BY <3>1
    <3> QED BY <3>1, <3>2, <3>3
  <2>4. deployed' = [deployed EXCEPT ![j] = told]
    BY <2>1, <2>3
  <2>5. kind[j] = "deploy_by_api" => j \in imported
    BY <1>0, <2>2 DEF DeployFits
  <2>6. DeployFits(j)'
    BY <1>0, <2>1, <2>2, <2>3, <2>4, <2>5 DEF DeployFits
  <2>7. \A k \in Jobs \ {j} : deployed'[k] = deployed[k]
    BY <1>0, <2>4
  <2>8. deployed' \in [Jobs -> {"no_row", "nothing", "written", "imported"}]
    BY <1>0, <2>4
  <2> QED BY <1>0, <2>1, <2>2, <2>6, <2>7, <2>8, CallMoves DEF DeployKept
<1> QED BY <1>1, <1>2, <1>3, <1>4, <1>5 DEF Deploy

\* A deployment comes past its step, or to success, by no way but its step.
LEMMA NoOtherWay ==
  ASSUME FirmwareInv, NEW j \in Jobs, kind[j] \in Deployments,
         Schedule(j) \/ Advance(j) \/ StatementFails(j), pc[j] = "exec" => pc'[j] # "record_ok",
         pc'[j] \in {"record_ok", "progress", "finish"} \/ status'[j] = "succeeded"
  PROVE  pc[j] \in {"record_ok", "progress", "finish"} \/ status[j] = "succeeded"
<1>1. /\ TypeOK /\ StepFits(j)
      /\ task[j].policy = "stop" /\ task[j].size = 1
  <2>1. TypeOK /\ StepFits(j) /\ task[j] = TaskOf(kind[j])
    BY DEF FirmwareInv, IInv, JobInv, JobFits
  <2>2. TaskOf(kind[j]).policy = "stop" /\ TaskOf(kind[j]).size = 1
    BY DEF TaskOf, Deployments
  <2> QED BY <2>1, <2>2
<1>2. CASE pc[j] \in {"new", "rows", "start", "empty", "open", "exec"}
  BY <1>1, <1>2 DEF TypeOK, StepFits, Goto, SetStatus, Schedule, Advance, StatementFails,
       persisted, PersistSteps, StartJob, FinishEmpty, OpenStep, ExecuteOk, ExecuteFails,
       RecordSuccess, RecordProgress, RecordFailure, FinishFailed, FinishSucceeded,
       BeginRollback, SkipRevert, OpenRevert, RevertOk, RevertFails, RecordReverted,
       RecordRevertFailed, FinishRollback, CatchJob, UncaughtPoints, StepTryPoints,
       RevertTryPoints
<1>3. CASE pc[j] \notin {"new", "rows", "start", "empty", "open", "exec", "record_ok",
                         "progress", "finish"}
  BY <1>1, <1>3 DEF TypeOK, Goto, SetStatus, NextRevert, Schedule, Advance, StatementFails,
       persisted, PersistSteps, StartJob, FinishEmpty, OpenStep, ExecuteOk, ExecuteFails,
       RecordSuccess, RecordProgress, RecordFailure, FinishFailed, FinishSucceeded,
       BeginRollback, SkipRevert, OpenRevert, RevertOk, RevertFails, RecordReverted,
       RecordRevertFailed, FinishRollback, CatchJob, UncaughtPoints, StepTryPoints,
       RevertTryPoints
<1> QED BY <1>2, <1>3

LEMMA SchedulerDeployKept ==
  ASSUME DeployInv, NEW j \in Jobs, Schedule(j) \/ Advance(j) \/ StatementFails(j),
         (pc[j] # "exec" /\ at' = at)
           \/ (pc'[j] \notin {"exec", "record_ok"} /\ at' = [at EXCEPT ![j] = 1]),
         UNCHANGED <<kind, seen, deployed, imported>>
  PROVE  DeployKept
<1>1. FirmwareInv /\ TypeOK /\ StateFits /\ JobFits(j) /\ DeployFits(j)
  BY DEF DeployInv, FirmwareInv, IInv
<1>2. at'[j] = 1 /\ \A k \in Jobs \ {j} : at'[k] = at[k]
  BY <1>1, LeadsToCalls DEF JobFits, StateFits
<1>3. ASSUME NEW k \in Jobs \ {j} PROVE DeployFits(k)'
  BY <1>1, <1>2, Frame, AtRest DEF DeployInv
<1>4. DeployFits(j)'
  BY <1>1, <1>2, NoOtherWay DEF DeployFits
<1> QED BY <1>3, <1>4 DEF DeployInv, DeployKept

LEMMA RestDeployKept ==
  ASSUME DeployInv, UNCHANGED <<kind, at, status, seen, deployed, imported>>,
         Die \/ UNCHANGED pc
  PROVE  DeployKept
<1>1. ASSUME NEW k \in Jobs PROVE DeployFits(k)'
  BY AtRest DEF DeployInv, Die
<1> QED BY <1>1 DEF DeployInv, DeployKept

LEMMA NextDeployInv == DeployInv /\ [MaintenanceNext]_maintenanceVars => DeployInv'
<1> SUFFICES ASSUME DeployInv, [MaintenanceNext]_maintenanceVars PROVE DeployInv'
  OBVIOUS
<1>0. FirmwareInv' /\ FirmwareInv
  BY NextFirmwareInv DEF DeployInv
<1> SUFFICES DeployKept
  BY <1>0 DEF DeployInv, DeployKept
<1> USE DEF deployV
<1>1. ASSUME NEW j \in Jobs, CallFails(j), UNCHANGED kind PROVE DeployKept
  BY <1>1, RestDeployKept DEF CallFails, vars, persisted, memory
<1>2. ASSUME NEW j \in Jobs, StepThrows(j), UNCHANGED kind PROVE DeployKept
  <2>1. pc'[j] \notin {"exec", "record_ok"} /\ Advance(j)
    BY <1>0, <1>2 DEF StepThrows, ExecuteFails, Goto, FirmwareInv, IInv, TypeOK, Advance
  <2> QED BY <1>2, <2>1, SchedulerDeployKept DEF StepThrows
<1>3. ASSUME NEW j \in Jobs, SchedulerStep(j), UNCHANGED kind PROVE DeployKept
  <2>1. UNCHANGED <<at, seen, deployed, imported>>
    BY <1>3 DEF SchedulerStep, local
  <2>2. CASE CatchFails(j)
    BY <1>3, <2>1, <2>2, RestDeployKept DEF CatchFails, persisted
  <2>3. CASE Schedule(j) \/ (pc[j] # "exec" /\ Advance(j)) \/ StatementFails(j)
    <3>1. pc[j] # "exec"
      BY <2>3 DEF Schedule, StatementFails, UncaughtPoints, StepTryPoints, RevertTryPoints
    <3> QED BY <1>3, <2>1, <2>3, <3>1, SchedulerDeployKept
  <2> QED BY <1>3, <2>2, <2>3 DEF SchedulerStep, Request
<1>4. CASE RouterReboots /\ UNCHANGED kind
  BY <1>4, RestDeployKept DEF RouterReboots, local, vars, persisted, memory
<1>5. CASE Crash /\ UNCHANGED <<kind, local, backupV, upgradeV, deployV>>
  BY <1>5, RestDeployKept DEF Crash, local, persisted
<1>6. CASE UNCHANGED maintenanceVars
  BY <1>6, RestDeployKept DEF maintenanceVars, local, vars, persisted, memory
<1> QED BY <1>1, <1>2, <1>3, <1>4, <1>5, <1>6, OthersDeployKept, DeployDeployKept
       DEF MaintenanceNext

LEMMA InitDeployInv == MaintenanceInit => DeployInv
<1> SUFFICES ASSUME MaintenanceInit PROVE DeployInv
  OBVIOUS
<1>1. ASSUME NEW j \in Jobs PROVE DeployFits(j)
  BY DEF MaintenanceInit, MaintenanceAtStart, Init, DeployFits, None
<1> QED BY <1>1, InitFirmwareInv DEF MaintenanceInit, MaintenanceAtStart, DeployInv

LEMMA DeployInvTells == DeployInv => DeploymentTold
BY DEF DeployInv, DeployFits, DeploymentTold, Deployments

\* What the row of a deployment tells is true, for any number of deployments, failing
\* calls and crashes.
THEOREM DeploymentsAreTold == MaintenanceSpec => []DeploymentTold
BY InitDeployInv, DeployInvTells, NextDeployInv, PTL DEF MaintenanceSpec

-----------------------------------------------------------------------------
(* Backups *)

\* A job that has exported and has no row yet.
Unrecorded(j) == kind[j] = "backup" /\ pc[j] = "exec" /\ at[j] \in {3, 4}

\* Its time stamp is nobody else's and in no list; from its file on there is the file.
BackupFits(j) ==
  Unrecorded(j) =>
    /\ seen[j] \in 1..clock /\ seen[j] \notin backups
    /\ \A k \in Jobs : seen[j] \notin excess[k]
    /\ \A k \in Jobs \ {j} : Unrecorded(k) => seen[k] # seen[j]
    /\ at[j] = 4 => seen[j] \in files

\* What a job has still to delete is beyond the newest: it was when the list was read,
\* and whoever deletes something leaves what made it so.
ExcessIsBeyond ==
  \A j \in Jobs : \A b \in excess[j] : Cardinality(Newer(b, backups)) >= Keep

NewestHaveFiles == \A b \in backups : Cardinality(Newer(b, backups)) < Keep => b \in files

\* A job in whose hand it is that there are too many: it has not read the list, or failed.
Owes(j) ==
  \/ kind[j] # "backup"
  \/ /\ rows[j][1] \notin {"absent", "queued", "succeeded"}
     /\ pc[j] \notin {"new", "rows", "record_ok"}
     /\ ~Due(j, "prune")

\* Some job has all that is too much in its list, and works on it.
Settles(j) == Due(j, "prune") /\ Beyond(Keep) \subseteq excess[j]

BackupsFit ==
  /\ failing \in [Jobs -> BOOLEAN]
  /\ backups \subseteq 1..clock
  /\ excess \in [Jobs -> SUBSET (1..clock)]
  /\ ExcessIsBeyond
  /\ NewestHaveFiles
  /\ \A j \in Jobs : BackupFits(j)

TooManyIsSeenTo == Beyond(Keep) = {} \/ \E j \in Jobs : Settles(j) \/ Owes(j)

BackupInv == FirmwareInv /\ BackupsFit /\ TooManyIsSeenTo

\* A finite set has a member that none precedes, in any strict order: among the sets of
\* those that precede a member one is minimal.
LEMMA FirstOne ==
  ASSUME NEW S, IsFiniteSet(S), S # {}, NEW Less,
         \A a \in S : <<a, a>> \notin Less,
         \A a, b, c \in S : <<a, b>> \in Less /\ <<b, c>> \in Less => <<a, c>> \in Less
  PROVE  \E m \in S : \A b \in S : <<b, m>> \notin Less
<1> DEFINE Below(b) == {c \in S : <<c, b>> \in Less}
           T == {Below(b) : b \in S}
           R == StrictSubsetOrdering(S)
<1>1. T \subseteq FiniteSubsetsOf(S) /\ T # {}
  <2>1. \A b \in S : IsFiniteSet(Below(b)) /\ Below(b) \in SUBSET S
    BY FS_Subset
  <2> HIDE DEF Below
  <2>2. ASSUME NEW U \in T PROVE U \in FiniteSubsetsOf(S)
    <3>1. PICK b \in S : U = Below(b)
      BY DEF T
    <3>. QED
      BY <2>1, <3>1 DEF FiniteSubsetsOf
  <2>3. PICK b : b \in S
    BY Zenon
  <2>4. Below(b) \in T
    BY <2>3 DEF T
  <2>. QED
    BY <2>2, <2>4
<1>2. IsWellFoundedOn(R, FiniteSubsetsOf(S))
  BY FS_StrictSubsetOrderingWellFounded
<1> HIDE DEF R, T
<1>3. PICK U \in T : \A V \in T : <<V, U>> \notin R
  BY <1>1, <1>2, WFMin
<1>4. PICK m \in S : U = Below(m)
  BY <1>3 DEF T
<1>5. ASSUME NEW b \in S, <<b, m>> \in Less PROVE FALSE
  <2>1. Below(b) \in T
    BY DEF T
  <2>2. Below(b) \subseteq Below(m) /\ b \in Below(m) /\ b \notin Below(b)
    BY <1>4, <1>5
  <2>3. <<Below(b), Below(m)>> \in R
    <3> HIDE DEF Below
    <3>1. Below(b) \in SUBSET S /\ Below(m) \in SUBSET S
      BY DEF Below
    <3>. QED
      BY <2>2, <3>1, Zenon DEF R, StrictSubsetOrdering
  <2>. QED
    BY <1>3, <1>4, <2>1, <2>3
<1>. QED
  BY <1>5

\* A finite set of numbers has a least one and a greatest one.
LEMMA LeastOne ==
  ASSUME NEW S \in SUBSET Int, IsFiniteSet(S), S # {}
  PROVE  \E m \in S : \A b \in S : m <= b
<1> DEFINE Less == {p \in S \X S : p[1] < p[2]}
<1>1. \A a, b \in S : <<a, b>> \in Less <=> a < b
  OBVIOUS
<1> HIDE DEF Less
<1>2. \E m \in S : \A b \in S : <<b, m>> \notin Less
  <2>1. /\ \A a \in S : <<a, a>> \notin Less
        /\ \A a, b, c \in S : <<a, b>> \in Less /\ <<b, c>> \in Less => <<a, c>> \in Less
    BY <1>1
  <2>. QED
    BY <2>1, FirstOne
<1>3. PICK m \in S : \A b \in S : <<b, m>> \notin Less
  BY <1>2
<1>4. ASSUME NEW b \in S PROVE m <= b
  <2>1. m \in Int /\ b \in Int /\ ~(b < m)
    BY <1>1, <1>3
  <2>. QED
    BY <2>1
<1>. QED
  BY <1>4

LEMMA GreatestOne ==
  ASSUME NEW S \in SUBSET Int, IsFiniteSet(S), S # {}
  PROVE  \E m \in S : \A b \in S : b <= m
<1> DEFINE Less == {p \in S \X S : p[1] > p[2]}
<1>1. \A a, b \in S : <<a, b>> \in Less <=> a > b
  OBVIOUS
<1> HIDE DEF Less
<1>2. \E m \in S : \A b \in S : <<b, m>> \notin Less
  <2>1. /\ \A a \in S : <<a, a>> \notin Less
        /\ \A a, b, c \in S : <<a, b>> \in Less /\ <<b, c>> \in Less => <<a, c>> \in Less
    BY <1>1
  <2>. QED
    BY <2>1, FirstOne
<1>3. PICK m \in S : \A b \in S : <<b, m>> \notin Less
  BY <1>2
<1>4. ASSUME NEW b \in S PROVE b <= m
  <2>1. m \in Int /\ b \in Int /\ ~(b > m)
    BY <1>1, <1>3
  <2>. QED
    BY <2>1
<1>. QED
  BY <1>4

\* When none has Keep newer ones there are no more than Keep.
LEMMA FewRemain ==
  ASSUME NEW S \in SUBSET Int, IsFiniteSet(S), \A b \in S : Cardinality(Newer(b, S)) < Keep
  PROVE  Cardinality(S) <= Keep
<1> USE MaintenanceAssumption
<1>1. CASE S = {}
  BY <1>1, FS_EmptySet
<1>2. CASE S # {}
  <2>1. PICK m \in S : \A b \in S : m <= b
    BY <1>2, LeastOne
  <2>2. Newer(m, S) = S \ {m}
    <3>1. \A c \in S : c > m <=> c # m
      BY <2>1
    <3>. QED
      BY <3>1 DEF Newer
  <2>3. Cardinality(S \ {m}) = Cardinality(S) - 1 /\ Cardinality(S) \in Nat
    BY FS_RemoveElement, FS_CardinalityType
  <2>4. Cardinality(Newer(m, S)) < Keep
    OBVIOUS
  <2>. QED
    BY <2>2, <2>3, <2>4
<1>. QED
  BY <1>1, <1>2

\* More rows, more newer ones.
LEMMA NewerGrows ==
  ASSUME NEW S, NEW T, S \subseteq T, IsFiniteSet(T), NEW b
  PROVE  /\ Cardinality(Newer(b, S)) \in Nat /\ Cardinality(Newer(b, T)) \in Nat
         /\ Cardinality(Newer(b, S)) <= Cardinality(Newer(b, T))
<1>1. Newer(b, S) \subseteq Newer(b, T) /\ Newer(b, T) \subseteq T
  BY DEF Newer
<1>2. IsFiniteSet(Newer(b, T))
  BY <1>1, FS_Subset
<1>3. IsFiniteSet(Newer(b, S)) /\ Cardinality(Newer(b, S)) <= Cardinality(Newer(b, T))
  BY <1>1, <1>2, FS_Subset
<1>. QED
  BY <1>2, <1>3, FS_CardinalityType

\* Deleting a row that has Keep newer ones leaves Keep newer ones to all that had them.
LEMMA BeyondStays ==
  ASSUME NEW S \in SUBSET Int, IsFiniteSet(S), NEW t \in Int, Cardinality(Newer(t, S)) >= Keep,
         NEW b \in Int, Cardinality(Newer(b, S)) >= Keep
  PROVE  Cardinality(Newer(b, S \ {t})) >= Keep
<1>1. CASE b < t
  <2>a. ASSUME NEW c \in S, c > t PROVE c > b /\ c # t
    <3>1. c \in Int
      OBVIOUS
    <3>. QED
      BY <1>1, <2>a, <3>1
  <2>1. Newer(t, S) \subseteq Newer(b, S \ {t}) /\ Newer(b, S \ {t}) \subseteq S
    BY <2>a, Zenon DEF Newer
  <2>2. IsFiniteSet(Newer(b, S \ {t}))
    BY <2>1, FS_Subset
  <2>3. /\ Cardinality(Newer(t, S)) <= Cardinality(Newer(b, S \ {t}))
        /\ Cardinality(Newer(t, S)) \in Nat /\ Cardinality(Newer(b, S \ {t})) \in Nat
    BY <2>1, <2>2, FS_Subset, FS_CardinalityType
  <2>. QED
    BY <2>3, MaintenanceAssumption
<1>2. CASE ~(b < t)
  <2>1. Newer(b, S \ {t}) = Newer(b, S)
    BY <1>2 DEF Newer
  <2>. QED
    BY <2>1
<1>. QED
  BY <1>1, <1>2

\* The calls of a backup, by their place.
LEMMA BackupCalls ==
  ASSUME FirmwareInv, NEW j \in Jobs, pc[j] = "exec", kind[j] = "backup"
  PROVE  /\ at[j] \in 1..6 /\ Len(Calls(j)) = 6
         /\ Due(j, "read") => at[j] = 1
         /\ Due(j, "export") => at[j] = 2
         /\ Due(j, "write_file") => at[j] = 3
         /\ Due(j, "add_row") => at[j] = 4
         /\ Due(j, "list") => at[j] = 5
         /\ Due(j, "prune") <=> at[j] = 6 /\ ~failing[j]
         /\ \A call : Due(j, call) =>
              call \in {"read", "export", "write_file", "add_row", "list", "prune"}
<1>1. Calls(j) = <<"read", "export", "write_file", "add_row", "list", "prune">>
  BY Zenon DEF Calls, CallsOf
<1>2. /\ Len(Calls(j)) = 6
      /\ Calls(j)[1] = "read" /\ Calls(j)[2] = "export" /\ Calls(j)[3] = "write_file"
      /\ Calls(j)[4] = "add_row" /\ Calls(j)[5] = "list" /\ Calls(j)[6] = "prune"
  BY <1>1
<1>3. at[j] \in 1..6
  BY <1>2, DueAt
<1>. QED
  BY <1>2, <1>3 DEF Due

LEMMA BackupDue ==
  ASSUME FirmwareInv, NEW j \in Jobs,
         NEW call \in {"export", "write_file", "add_row", "list", "prune"}, Due(j, call)
  PROVE  kind[j] = "backup" /\ pc[j] = "exec" /\ rows[j][1] = "running" /\ cur[j] = 1
<1>1. kind[j] \in Kinds /\ cur[j] \in 1..TaskOf(kind[j]).size /\ at[j] \in 1..Len(Calls(j))
  BY DueAt DEF Due
<1>2. Calls(j) = CallsOf(kind[j], cur[j]) /\ Calls(j)[at[j]] = call /\ pc[j] = "exec"
  BY DEF Calls, Due
<1>3. kind[j] \notin {"check", "upgrade"}
  BY <1>1, <1>2, CallsAre
<1>4. kind[j] \notin Deployments
  BY <1>2, DeployCalls
<1>5. kind[j] = "backup"
  BY <1>1, <1>3, <1>4, KindsAre DEF Deployments
<1>6. cur[j] = 1
  BY <1>1, <1>5 DEF TaskOf
<1>7. rows[j][1] = "running"
  BY <1>2, <1>6 DEF FirmwareInv, IInv, JobInv, StepFits
<1>. QED
  BY <1>2, <1>5, <1>6, <1>7

\* What a step leaves of a job.
RestsIn(k) ==
  /\ kind'[k] = kind[k] /\ rows'[k] = rows[k] /\ cur'[k] = cur[k]
  /\ at'[k] = at[k] /\ failing'[k] = failing[k]
  /\ pc'[k] = pc[k] \/ pc'[k] = "lost"

LEMMA RestingStays ==
  ASSUME NEW k \in Jobs, RestsIn(k)
  PROVE  /\ Owes(k) => Owes(k)'
         /\ pc'[k] = pc[k] => \A call : Due(k, call) => Due(k, call)'
         /\ Unrecorded(k)' => Unrecorded(k)
<1>1. Calls(k)' = Calls(k)
  BY DEF RestsIn, Calls
<1>2. \A call : Due(k, call)' => Due(k, call)
  BY <1>1 DEF RestsIn, Due
<1>. QED
  BY <1>1, <1>2 DEF RestsIn, Owes, Due, Unrecorded

\* A step of a job's own calls leaves the others.
LEMMA OthersRest ==
  ASSUME FirmwareInv, BackupsFit, NEW j \in Jobs, pc[j] = "exec", UNCHANGED kind,
         GoesOn(j) \/ Stays(j) \/ AnswerLost(j)
  PROVE  /\ \A k \in Jobs \ {j} : RestsIn(k) /\ pc'[k] = pc[k]
         /\ UNCHANGED <<rows, cur>>
         /\ failing' \in [Jobs -> BOOLEAN]
<1>1. UNCHANGED <<rows, cur>>
  BY DEF GoesOn, Stays, AnswerLost, ExecuteOk, vars, persisted, memory
<1>2. failing' = failing \/ failing' = [failing EXCEPT ![j] = TRUE]
  BY DEF GoesOn, Stays, AnswerLost
<1>3. failing' \in [Jobs -> BOOLEAN] /\ \A k \in Jobs \ {j} : failing'[k] = failing[k]
  BY <1>2 DEF BackupsFit
<1>. QED
  BY <1>1, <1>3, Answered DEF RestsIn

\* What only some other step changes is left as it is.
LEMMA BackupsStayFit ==
  ASSUME BackupsFit, UNCHANGED <<kind, clock, backups, files, excess>>,
         failing' \in [Jobs -> BOOLEAN],
         \A k \in Jobs : Unrecorded(k)' => Unrecorded(k) /\ at'[k] = at[k] /\ seen'[k] = seen[k]
  PROVE  BackupsFit'
<1>1. ASSUME NEW k \in Jobs PROVE BackupFits(k)'
  BY DEF BackupsFit, BackupFits
<1>. QED
  BY <1>1 DEF BackupsFit, ExcessIsBeyond, NewestHaveFiles, Newer

\* A task that is no backup: there are none.
LEMMA OthersBackupKept ==
  ASSUME BackupInv, NEW j \in Jobs, Firmware(j) \/ Deploy(j), UNCHANGED kind
  PROVE  BackupsFit' /\ Owes(j)'
<1>1. FirmwareInv /\ BackupsFit
  BY DEF BackupInv
<1>2. PICK call \in {"update_info", "store_check", "install", "log_in", "store_version",
                     "write_config", "import", "add_record"} :
        Due(j, call)
  BY DEF Firmware, UpdateInfo, StoreCheck, Install, LogIn, StoreVersion, WaitsAgain,
         Deploy, WriteConfig, Import, SshFails, AddRecord
<1>3. pc[j] = "exec" /\ kind[j] # "backup"
  <2>1. ASSUME kind[j] = "backup" PROVE FALSE
    BY <1>1, <1>2, <2>1, BackupCalls DEF Due
  <2>. QED
    BY <1>2, <2>1 DEF Due
<1>4. UNCHANGED <<clock, backups, files, excess>>
  BY DEF Firmware, Deploy, UpdateInfo, StoreCheck, Install, LogIn, StoreVersion, WaitsAgain,
         WriteConfig, Import, SshFails, AddRecord, backupV
<1>5. /\ failing' \in [Jobs -> BOOLEAN]
      /\ \A k \in Jobs \ {j} : RestsIn(k) /\ pc'[k] = pc[k] /\ seen'[k] = seen[k]
  <2>1. \A k \in Jobs \ {j} : seen'[k] = seen[k]
    <3>1. seen' = seen \/ \E x : seen' = [seen EXCEPT ![j] = x]
      BY DEF Firmware, Deploy, UpdateInfo, StoreCheck, Install, LogIn, StoreVersion, WaitsAgain,
             WriteConfig, Import, SshFails, AddRecord, Read
    <3>. QED
      BY <1>1, <3>1 DEF FirmwareInv, StateFits
  <2>2. CASE GoesOn(j) \/ AnswerLost(j)
    BY <1>1, <1>3, <2>1, <2>2, OthersRest
  <2>3. CASE WaitsAgain(j) \/ SshFails(j)
    <3>1. /\ UNCHANGED <<rows, cur, pc, failing>>
          /\ \A k \in Jobs \ {j} : at'[k] = at[k]
      BY <1>1, <2>3 DEF WaitsAgain, SshFails, vars, persisted, memory, FirmwareInv, StateFits
    <3>. QED
      BY <1>1, <2>1, <3>1 DEF RestsIn, BackupsFit
  <2>. QED
    BY <2>2, <2>3 DEF Firmware, Deploy, UpdateInfo, StoreCheck, Install, LogIn, StoreVersion,
         WriteConfig, Import, AddRecord
<1>6. ~Unrecorded(j)' /\ Owes(j)'
  BY <1>3 DEF Unrecorded, Owes
<1>7. ASSUME NEW k \in Jobs, Unrecorded(k)'
      PROVE  Unrecorded(k) /\ at'[k] = at[k] /\ seen'[k] = seen[k]
  BY <1>5, <1>6, <1>7, RestingStays DEF RestsIn
<1>. QED
  BY <1>1, <1>4, <1>5, <1>6, <1>7, BackupsStayFit

\* What is seen to stays so when all but one job rest, and that one settles or owes.
LEMMA StillSeenTo ==
  ASSUME TooManyIsSeenTo, UNCHANGED <<backups, excess>>, NEW j \in Jobs,
         \A k \in Jobs \ {j} : RestsIn(k) /\ pc'[k] = pc[k],
         Settles(j) \/ Owes(j) => Settles(j)' \/ Owes(j)' \/ Beyond(Keep) = {}
  PROVE  TooManyIsSeenTo'
<1>1. Beyond(Keep)' = Beyond(Keep)
  BY DEF Beyond, Newer
<1>2. ASSUME NEW k \in Jobs \ {j}, Settles(k) \/ Owes(k) PROVE Settles(k)' \/ Owes(k)'
  BY <1>1, <1>2, RestingStays DEF Settles
<1>. QED
  BY <1>1, <1>2 DEF TooManyIsSeenTo

\* Death leaves to the ones that were at work what they had to do.
LEMMA DeathBackupKept ==
  ASSUME BackupInv, Die, UNCHANGED <<kind, rows, cur, at, failing, seen, excess, clock,
                                     backups, files>>
  PROVE  BackupsFit' /\ TooManyIsSeenTo'
<1>1. FirmwareInv /\ BackupsFit
  BY DEF BackupInv
<1>2. ASSUME NEW k \in Jobs PROVE RestsIn(k)
  BY DEF Die, RestsIn
<1>3. BackupsFit'
  <2>1. ASSUME NEW k \in Jobs, Unrecorded(k)'
        PROVE  Unrecorded(k) /\ at'[k] = at[k] /\ seen'[k] = seen[k]
    BY <1>2, <2>1, RestingStays
  <2>. QED
    BY <1>1, <2>1, BackupsStayFit DEF BackupsFit
<1>4. ASSUME NEW k \in Jobs, Settles(k) PROVE Owes(k)'
  <2>1. pc[k] = "exec" /\ rows[k][1] = "running"
    BY <1>1, <1>4, BackupDue DEF Settles
  <2>2. pc'[k] = "lost"
    BY <2>1 DEF Die, Stopped
  <2>. QED
    BY <2>1, <2>2 DEF Owes, Due
<1>5. Beyond(Keep)' = Beyond(Keep)
  BY DEF Beyond, Newer
<1>. QED
  BY <1>2, <1>3, <1>4, <1>5, RestingStays DEF TooManyIsSeenTo, BackupInv

LEMMA NothingBackupKept ==
  ASSUME BackupInv, UNCHANGED <<vars, kind, at, failing, seen, excess, clock, backups, files>>
  PROVE  BackupsFit' /\ TooManyIsSeenTo'
<1>1. UNCHANGED <<rows, pc, cur>>
  BY DEF vars, persisted, memory
<1>2. ASSUME NEW k \in Jobs PROVE RestsIn(k) /\ pc'[k] = pc[k]
  BY <1>1 DEF RestsIn
<1>3. BackupsFit'
  BY <1>2, RestingStays, BackupsStayFit DEF BackupInv, BackupsFit
<1>4. Beyond(Keep)' = Beyond(Keep)
  BY DEF Beyond, Newer
<1>. QED
  BY <1>2, <1>3, <1>4, RestingStays DEF TooManyIsSeenTo, BackupInv, Settles

\* Once a step has begun, its row says so until it ends well.
LEMMA RowTells ==
  ASSUME TypeOK, NEW j \in Jobs, Schedule(j) \/ Advance(j) \/ StatementFails(j),
         pc[j] # "exec" \/ pc'[j] # "record_ok",
         rows[j][1] \notin {"absent", "queued", "succeeded"},
         pc[j] \notin {"new", "rows", "record_ok"}
  PROVE  /\ rows'[j][1] \notin {"absent", "queued", "succeeded"}
         /\ pc'[j] \notin {"new", "rows", "record_ok"}
<1>1. 1 \in Steps
  BY MaintenanceAssumption DEF Steps
<1>. QED
  BY <1>1 DEF TypeOK, Goto, SetStatus, SetRow, NextStep, NextRevert, Schedule, Advance,
       StatementFails, persisted, PersistSteps, StartJob, FinishEmpty, OpenStep,
       ExecuteOk, ExecuteFails, RecordSuccess, RecordProgress, RecordFailure, FinishFailed,
       FinishSucceeded, BeginRollback, SkipRevert, OpenRevert, RevertOk, RevertFails,
       RecordReverted, RecordRevertFailed, FinishRollback, CatchJob, UncaughtPoints,
       StepTryPoints, RevertTryPoints

\* A step of the scheduler.
LEMMA SchedulerBackupKept ==
  ASSUME BackupInv, NEW j \in Jobs, Schedule(j) \/ Advance(j) \/ StatementFails(j),
         \/ pc[j] # "exec" /\ UNCHANGED <<at, failing>>
         \/ /\ pc[j] = "exec" /\ pc'[j] \notin {"exec", "record_ok"} /\ failing[j]
            /\ at' = [at EXCEPT ![j] = 1] /\ failing' = [failing EXCEPT ![j] = FALSE],
         UNCHANGED <<kind, seen, excess, clock, backups, files>>
  PROVE  BackupsFit' /\ TooManyIsSeenTo'
<1>1. FirmwareInv /\ BackupsFit /\ TypeOK /\ StateFits /\ JobFits(j)
  BY DEF BackupInv, FirmwareInv, IInv
<1>2. /\ at'[j] = 1 /\ \A k \in Jobs \ {j} : at'[k] = at[k] /\ failing'[k] = failing[k]
      /\ failing' \in [Jobs -> BOOLEAN]
  BY <1>1, LeadsToCalls DEF JobFits, StateFits, BackupsFit
<1>3. ASSUME NEW k \in Jobs \ {j} PROVE RestsIn(k) /\ pc'[k] = pc[k]
  BY <1>1, <1>2, Frame DEF RestsIn
<1>4. BackupsFit'
  <2>1. ASSUME NEW k \in Jobs, Unrecorded(k)'
        PROVE  Unrecorded(k) /\ at'[k] = at[k] /\ seen'[k] = seen[k]
    <3>1. k # j
      BY <1>2, <2>1 DEF Unrecorded
    <3>. QED
      BY <1>3, <2>1, <3>1, RestingStays DEF RestsIn
  <2>. QED
    BY <1>1, <1>2, <2>1, BackupsStayFit
<1>5. ASSUME kind[j] = "backup" PROVE ~Due(j, "prune")'
  <2>1. ASSUME pc'[j] = "exec" PROVE Calls(j)'[1] = "read"
    <3>1. Calls(j)' = <<"read", "export", "write_file", "add_row", "list", "prune">>
      BY <1>5, Zenon DEF Calls, CallsOf
    <3>. QED
      BY <3>1
  <2>. QED
    BY <1>2, <2>1 DEF Due
<1>6. ASSUME Settles(j) \/ Owes(j) PROVE Owes(j)'
  <2>1. CASE kind[j] # "backup"
    BY <2>1 DEF Owes
  <2>2. CASE kind[j] = "backup"
    <3>1. ~Settles(j)
      BY DEF Settles, Due
    <3>2. /\ rows[j][1] \notin {"absent", "queued", "succeeded"}
          /\ pc[j] \notin {"new", "rows", "record_ok"}
      BY <1>6, <2>2, <3>1 DEF Owes
    <3>3. pc[j] # "exec" \/ pc'[j] # "record_ok"
      OBVIOUS
    <3>. QED
      BY <1>1, <1>5, <2>2, <3>2, <3>3, RowTells DEF Owes
  <2>. QED
    BY <2>1, <2>2
<1>. QED
  BY <1>3, <1>4, <1>6, StillSeenTo DEF BackupInv

\* One of the five calls before the last is answered: the job has its next one to await.
LEMMA NextCall ==
  ASSUME BackupInv, NEW j \in Jobs, pc[j] = "exec", kind[j] = "backup", ~failing[j],
         at[j] < 6, GoesOn(j), UNCHANGED kind
  PROVE  /\ at'[j] = at[j] + 1 /\ pc'[j] = "exec" /\ ~failing'[j]
         /\ Calls(j)' = Calls(j) /\ rows'[j][1] = "running"
         /\ at[j] < 5 => Owes(j)'
         /\ at[j] = 5 => Due(j, "prune")'
<1>1. FirmwareInv /\ at \in [Jobs -> Nat]
  BY DEF BackupInv, FirmwareInv, StateFits
<1>2. Calls(j) = <<"read", "export", "write_file", "add_row", "list", "prune">>
  BY Zenon DEF Calls, CallsOf
<1>3. /\ Len(Calls(j)) = 6
      /\ Calls(j)[1] = "read" /\ Calls(j)[2] = "export" /\ Calls(j)[3] = "write_file"
      /\ Calls(j)[4] = "add_row" /\ Calls(j)[5] = "list" /\ Calls(j)[6] = "prune"
  BY <1>2
<1>4. at[j] \in 1..6
  BY <1>1, <1>3, DueAt
<1>5. at' = [at EXCEPT ![j] = @ + 1] /\ UNCHANGED <<vars, failing>>
  BY <1>3 DEF GoesOn
<1>6. UNCHANGED <<pc, cur, rows>> /\ at'[j] = at[j] + 1
  BY <1>1, <1>5 DEF vars, persisted, memory
<1>7. Calls(j)' = Calls(j)
  BY <1>6 DEF Calls
<1>8. rows[j][1] = "running"
  <2>1. cur[j] \in 1..TaskOf(kind[j]).size
    BY <1>1, DueAt
  <2>2. cur[j] = 1
    BY <2>1 DEF TaskOf
  <2>. QED
    BY <1>1, <2>2 DEF FirmwareInv, IInv, JobInv, StepFits
<1>9. at[j] < 5 => ~Due(j, "prune")'
  BY <1>3, <1>4, <1>6, <1>7 DEF Due
<1>10. at[j] = 5 => Due(j, "prune")'
  BY <1>3, <1>5, <1>6, <1>7 DEF Due
<1>. QED
  BY <1>5, <1>6, <1>7, <1>8, <1>9, <1>10 DEF Owes

LEMMA ExportKept ==
  ASSUME BackupInv, NEW j \in Jobs, Export(j), UNCHANGED kind
  PROVE  BackupsFit' /\ TooManyIsSeenTo'
<1>1. FirmwareInv /\ BackupsFit /\ Due(j, "export") /\ GoesOn(j)
      /\ seen \in [Jobs -> Nat] /\ clock \in Nat
  BY DEF BackupInv, FirmwareInv, StateFits, Export
<1>2. pc[j] = "exec" /\ kind[j] = "backup" /\ ~failing[j] /\ at[j] = 2
  BY <1>1, BackupDue, BackupCalls DEF Due
<1>3. at'[j] = 3 /\ Owes(j)'
  BY <1>1, <1>2, NextCall
<1>4. /\ seen'[j] = clock + 1 /\ clock' = clock + 1
      /\ \A k \in Jobs \ {j} : seen'[k] = seen[k]
      /\ UNCHANGED <<excess, backups, files>>
  BY <1>1 DEF Export, Read
<1>5. /\ \A k \in Jobs \ {j} : RestsIn(k) /\ pc'[k] = pc[k]
      /\ failing' \in [Jobs -> BOOLEAN]
  BY <1>1, <1>2, OthersRest
<1>6. 1..clock \subseteq 1..(clock + 1) /\ clock + 1 \in 1..(clock + 1) /\ clock + 1 \notin 1..clock
  BY <1>1
<1>7. ASSUME NEW k \in Jobs \ {j}, Unrecorded(k)'
      PROVE  Unrecorded(k) /\ at'[k] = at[k] /\ seen[k] \in 1..clock
  BY <1>1, <1>5, <1>7, RestingStays DEF RestsIn, BackupsFit, BackupFits
<1>8. ASSUME NEW k \in Jobs PROVE BackupFits(k)'
  <2>1. CASE k = j
    <3>1. \A i \in Jobs \ {j} : Unrecorded(i)' => seen'[i] # seen'[j]
      BY <1>4, <1>6, <1>7
    <3>2. seen'[j] \notin backups /\ \A i \in Jobs : seen'[j] \notin excess[i]
      BY <1>1, <1>4, <1>6 DEF BackupsFit
    <3>. QED
      BY <1>3, <1>4, <1>6, <2>1, <3>1, <3>2 DEF BackupFits
  <2>2. CASE k # j
    <3> SUFFICES ASSUME Unrecorded(k)'
                 PROVE  BackupFits(k)'
      BY DEF BackupFits
    <3>1. Unrecorded(k) /\ at'[k] = at[k] /\ seen[k] \in 1..clock /\ seen'[k] = seen[k]
      BY <1>4, <1>7, <2>2
    <3>2. \A i \in Jobs \ {k} : Unrecorded(i)' => seen'[i] # seen'[k]
      <4>1. ASSUME NEW i \in Jobs \ {k}, Unrecorded(i)' PROVE seen'[i] # seen'[k]
        <5>1. CASE i = j
          BY <1>4, <1>6, <3>1, <5>1
        <5>2. CASE i # j
          BY <1>1, <1>4, <1>7, <3>1, <4>1, <5>2 DEF BackupsFit, BackupFits
        <5>. QED
          BY <5>1, <5>2
      <4>. QED
        BY <4>1
    <3>. QED
      BY <1>1, <1>4, <1>6, <3>1, <3>2 DEF BackupsFit, BackupFits
  <2>. QED
    BY <2>1, <2>2
<1>9. BackupsFit'
  BY <1>1, <1>4, <1>5, <1>6, <1>8 DEF BackupsFit, ExcessIsBeyond, NewestHaveFiles, Newer
<1>. QED
  BY <1>3, <1>9 DEF TooManyIsSeenTo

\* The rows are finitely many numbers, as any part of the time stamps is.
LEMMA RowsAreFinite ==
  ASSUME FirmwareInv, BackupsFit
  PROVE  /\ backups \in SUBSET Int /\ IsFiniteSet(backups)
         /\ \A j \in Jobs : excess[j] \in SUBSET Int /\ IsFiniteSet(excess[j])
<1>1. IsFiniteSet(1..clock) /\ 1..clock \subseteq Int
  BY FS_Interval DEF FirmwareInv, StateFits
<1>2. backups \in SUBSET (1..clock) /\ \A j \in Jobs : excess[j] \in SUBSET (1..clock)
  BY DEF BackupsFit
<1>. QED
  BY <1>1, <1>2, FS_Subset

\* What a call of a backup leaves of the others, for all of them but the export.
LEMMA LaterCall ==
  ASSUME BackupInv, NEW j \in Jobs,
         NEW call \in {"write_file", "add_row", "list", "prune"}, Due(j, call),
         GoesOn(j) \/ Stays(j), UNCHANGED kind
  PROVE  /\ FirmwareInv /\ BackupsFit /\ pc[j] = "exec" /\ kind[j] = "backup" /\ ~failing[j]
         /\ \A k \in Jobs \ {j} : RestsIn(k) /\ pc'[k] = pc[k]
         /\ \A k \in Jobs \ {j} : Unrecorded(k)' => Unrecorded(k) /\ at'[k] = at[k]
         /\ failing' \in [Jobs -> BOOLEAN]
         /\ seen \in [Jobs -> Nat] /\ clock \in Nat
<1>1. FirmwareInv /\ BackupsFit
  BY DEF BackupInv
<1>2. pc[j] = "exec" /\ kind[j] = "backup" /\ ~failing[j]
  BY <1>1, BackupDue DEF Due
<1>3. /\ \A k \in Jobs \ {j} : RestsIn(k) /\ pc'[k] = pc[k]
      /\ failing' \in [Jobs -> BOOLEAN]
  BY <1>1, <1>2, OthersRest
<1>. QED
  BY <1>1, <1>2, <1>3, RestingStays DEF RestsIn, FirmwareInv, StateFits

LEMMA WriteFileKept ==
  ASSUME BackupInv, NEW j \in Jobs, WriteFile(j), UNCHANGED kind
  PROVE  BackupsFit' /\ TooManyIsSeenTo'
<1>1. /\ Due(j, "write_file") /\ GoesOn(j) /\ files' = files \cup {seen[j]}
      /\ UNCHANGED <<seen, excess, clock, backups>>
  BY DEF WriteFile
<1>2. /\ FirmwareInv /\ BackupsFit /\ pc[j] = "exec" /\ kind[j] = "backup" /\ ~failing[j]
      /\ \A k \in Jobs \ {j} : RestsIn(k) /\ pc'[k] = pc[k]
      /\ \A k \in Jobs \ {j} : Unrecorded(k)' => Unrecorded(k) /\ at'[k] = at[k]
      /\ failing' \in [Jobs -> BOOLEAN]
  BY <1>1, LaterCall
<1>3. at[j] = 3 /\ at'[j] = 4 /\ Owes(j)' /\ Unrecorded(j)
  BY <1>1, <1>2, BackupCalls, NextCall DEF Unrecorded
<1>4. ASSUME NEW k \in Jobs PROVE BackupFits(k)'
  BY <1>1, <1>2, <1>3 DEF BackupsFit, BackupFits
<1>5. BackupsFit'
  BY <1>1, <1>2, <1>4 DEF BackupsFit, ExcessIsBeyond, NewestHaveFiles, Newer
<1>. QED
  BY <1>3, <1>5 DEF TooManyIsSeenTo

LEMMA AddRowKept ==
  ASSUME BackupInv, NEW j \in Jobs, AddRow(j), UNCHANGED kind
  PROVE  BackupsFit' /\ TooManyIsSeenTo'
<1>1. /\ Due(j, "add_row") /\ GoesOn(j) /\ backups' = backups \cup {seen[j]}
      /\ UNCHANGED <<seen, excess, clock, files>>
  BY DEF AddRow
<1>2. /\ FirmwareInv /\ BackupsFit /\ pc[j] = "exec" /\ kind[j] = "backup" /\ ~failing[j]
      /\ \A k \in Jobs \ {j} : RestsIn(k) /\ pc'[k] = pc[k]
      /\ \A k \in Jobs \ {j} : Unrecorded(k)' => Unrecorded(k) /\ at'[k] = at[k]
      /\ failing' \in [Jobs -> BOOLEAN]
  BY <1>1, LaterCall
<1>3. at[j] = 4 /\ at'[j] = 5 /\ Owes(j)' /\ Unrecorded(j) /\ ~Unrecorded(j)'
  BY <1>1, <1>2, BackupCalls, NextCall DEF Unrecorded
<1>4. ASSUME NEW k \in Jobs PROVE BackupFits(k)'
  BY <1>1, <1>2, <1>3 DEF BackupsFit, BackupFits
<1>5. /\ seen[j] \in 1..clock /\ seen[j] \in files
      /\ backups' \subseteq 1..clock
  BY <1>1, <1>2, <1>3 DEF BackupsFit, BackupFits
<1>6. IsFiniteSet(backups')
  BY <1>1, <1>2, RowsAreFinite, FS_AddElement
<1>7. ASSUME NEW b
      PROVE  /\ Cardinality(Newer(b, backups)) \in Nat
             /\ Cardinality(Newer(b, backups')) \in Nat
             /\ Cardinality(Newer(b, backups)) <= Cardinality(Newer(b, backups'))
  BY <1>1, <1>6, NewerGrows
<1>8. ExcessIsBeyond'
  <2>1. ASSUME NEW k \in Jobs, NEW b \in excess[k]
        PROVE  Cardinality(Newer(b, backups')) >= Keep
    BY <1>2, <1>7, MaintenanceAssumption DEF BackupsFit, ExcessIsBeyond
  <2>2. ExcessIsBeyond' <=> \A k \in Jobs : \A b \in excess'[k] :
                              Cardinality(Newer(b, backups')) >= Keep
    BY DEF ExcessIsBeyond, Newer
  <2>. QED
    BY <1>1, <2>1, <2>2
<1>9. NewestHaveFiles'
  <2>1. ASSUME NEW b \in backups, Cardinality(Newer(b, backups')) < Keep PROVE b \in files
    BY <1>2, <1>7, <2>1, MaintenanceAssumption DEF BackupsFit, NewestHaveFiles
  <2>2. NewestHaveFiles' <=> \A b \in backups' :
                               Cardinality(Newer(b, backups')) < Keep => b \in files'
    BY DEF NewestHaveFiles, Newer
  <2>. QED
    BY <1>1, <1>5, <2>1, <2>2
<1>10. BackupsFit'
  BY <1>1, <1>2, <1>4, <1>5, <1>8, <1>9 DEF BackupsFit
<1>. QED
  BY <1>3, <1>10 DEF TooManyIsSeenTo

LEMMA ListKept ==
  ASSUME BackupInv, NEW j \in Jobs, List(j), UNCHANGED kind
  PROVE  BackupsFit' /\ TooManyIsSeenTo'
<1>1. /\ Due(j, "list") /\ GoesOn(j) /\ excess' = [excess EXCEPT ![j] = Beyond(Keep)]
      /\ UNCHANGED <<seen, clock, backups, files>>
  BY DEF List, backupV
<1>2. /\ FirmwareInv /\ BackupsFit /\ pc[j] = "exec" /\ kind[j] = "backup" /\ ~failing[j]
      /\ \A k \in Jobs \ {j} : RestsIn(k) /\ pc'[k] = pc[k]
      /\ \A k \in Jobs \ {j} : Unrecorded(k)' => Unrecorded(k) /\ at'[k] = at[k]
      /\ failing' \in [Jobs -> BOOLEAN]
  BY <1>1, LaterCall
<1>3. at[j] = 5 /\ at'[j] = 6 /\ Due(j, "prune")' /\ ~Unrecorded(j)'
  BY <1>1, <1>2, BackupCalls, NextCall DEF Unrecorded
<1>4. Beyond(Keep)' = Beyond(Keep) /\ Beyond(Keep) \subseteq backups
  BY <1>1 DEF Beyond, Newer
<1>5. /\ excess'[j] = Beyond(Keep)
      /\ \A k \in Jobs \ {j} : excess'[k] = excess[k]
      /\ excess' \in [Jobs -> SUBSET (1..clock)]
  BY <1>1, <1>2, <1>4 DEF BackupsFit
<1>6. ASSUME NEW k \in Jobs PROVE BackupFits(k)'
  BY <1>1, <1>2, <1>3, <1>4, <1>5 DEF BackupsFit, BackupFits
<1>7. ExcessIsBeyond'
  BY <1>1, <1>2, <1>5 DEF BackupsFit, ExcessIsBeyond, Beyond, Newer
<1>8. BackupsFit'
  BY <1>1, <1>2, <1>5, <1>6, <1>7 DEF BackupsFit, NewestHaveFiles, Newer
<1>. QED
  BY <1>3, <1>4, <1>5, <1>8 DEF TooManyIsSeenTo, Settles

\* The one whose turn it is: the newest of what is left of the list.
LEMMA TurnIsLeft ==
  ASSUME FirmwareInv, BackupsFit, NEW j \in Jobs, excess[j] # {}
  PROVE  Turn(j) \in excess[j]
<1>1. PICK m \in excess[j] : \A b \in excess[j] : b <= m
  BY RowsAreFinite, GreatestOne
<1>2. Newer(m, excess[j]) = {}
  <2>1. ASSUME NEW b \in excess[j], b > m PROVE FALSE
    <3>1. b \in Int /\ m \in Int /\ b <= m
      BY <1>1, RowsAreFinite
    <3>. QED
      BY <2>1, <3>1
  <2>. QED
    BY <2>1 DEF Newer
<1>. QED
  BY <1>2 DEF Turn

LEMMA UnlinkKept ==
  ASSUME BackupInv, NEW j \in Jobs, Unlink(j), UNCHANGED kind
  PROVE  BackupsFit' /\ TooManyIsSeenTo'
<1> DEFINE t == Turn(j)
<1>1. /\ Due(j, "prune") /\ Stays(j) /\ excess[j] # {} /\ files' = files \ {t}
      /\ UNCHANGED <<seen, excess, clock, backups>>
  BY DEF Unlink
<1>2. /\ FirmwareInv /\ BackupsFit /\ failing' \in [Jobs -> BOOLEAN]
      /\ \A k \in Jobs \ {j} : RestsIn(k) /\ pc'[k] = pc[k]
  BY <1>1, LaterCall
<1>3. UNCHANGED <<rows, pc, cur, at, failing>>
  BY <1>1 DEF Stays, vars, persisted, memory
<1>4. t \in excess[j]
  BY <1>1, <1>2, TurnIsLeft
<1> HIDE DEF t
<1>5. ASSUME NEW k \in Jobs PROVE BackupFits(k)'
  BY <1>1, <1>2, <1>3, <1>4 DEF BackupsFit, BackupFits, Unrecorded
<1>6. NewestHaveFiles'
  <2>1. Cardinality(Newer(t, backups)) >= Keep
    BY <1>2, <1>4 DEF BackupsFit, ExcessIsBeyond
  <2>2. ASSUME NEW b \in backups, Cardinality(Newer(b, backups)) < Keep PROVE b \in files'
    <3>1. Cardinality(Newer(b, backups)) \in Nat
      BY <1>2, RowsAreFinite, NewerGrows
    <3>2. b # t
      BY <2>1, <2>2, <3>1, MaintenanceAssumption
    <3>. QED
      BY <1>1, <1>2, <2>2, <3>2 DEF BackupsFit, NewestHaveFiles
  <2>3. NewestHaveFiles' <=> \A b \in backups' :
                               Cardinality(Newer(b, backups')) < Keep => b \in files'
    BY DEF NewestHaveFiles, Newer
  <2>. QED
    BY <1>1, <2>2, <2>3
<1>7. BackupsFit'
  BY <1>1, <1>2, <1>5, <1>6 DEF BackupsFit, ExcessIsBeyond, Newer
<1>8. RestsIn(j) /\ pc'[j] = pc[j]
  BY <1>3 DEF RestsIn
<1>9. Beyond(Keep)' = Beyond(Keep)
  BY <1>1 DEF Beyond, Newer
<1>10. Settles(j) \/ Owes(j) => Settles(j)' \/ Owes(j)'
  BY <1>1, <1>8, <1>9, RestingStays DEF Settles
<1>. QED
  BY <1>1, <1>2, <1>7, <1>10, StillSeenTo DEF BackupInv

LEMMA DeleteRowKept ==
  ASSUME BackupInv, NEW j \in Jobs, DeleteRow(j), UNCHANGED kind
  PROVE  BackupsFit' /\ TooManyIsSeenTo'
<1> DEFINE t == Turn(j)
<1>1. /\ Due(j, "prune") /\ Stays(j) /\ excess[j] # {} /\ backups' = backups \ {t}
      /\ excess' = [excess EXCEPT ![j] = @ \ {t}]
      /\ UNCHANGED <<seen, clock, files>>
  BY DEF DeleteRow
<1>2. /\ FirmwareInv /\ BackupsFit /\ failing' \in [Jobs -> BOOLEAN]
      /\ \A k \in Jobs \ {j} : RestsIn(k) /\ pc'[k] = pc[k]
  BY <1>1, LaterCall
<1>3. UNCHANGED <<rows, pc, cur, at, failing>>
  BY <1>1 DEF Stays, vars, persisted, memory
<1>4. t \in excess[j]
  BY <1>1, <1>2, TurnIsLeft
<1> HIDE DEF t
<1>5. /\ excess'[j] = excess[j] \ {t}
      /\ \A k \in Jobs \ {j} : excess'[k] = excess[k]
      /\ excess' \in [Jobs -> SUBSET (1..clock)]
  BY <1>1, <1>2 DEF BackupsFit
<1>6. ASSUME NEW k \in Jobs PROVE BackupFits(k)'
  BY <1>1, <1>2, <1>3, <1>5 DEF BackupsFit, BackupFits, Unrecorded
<1>7. ASSUME NEW b \in Int
      PROVE  /\ Cardinality(Newer(b, backups)) \in Nat
             /\ Cardinality(Newer(b, backups')) \in Nat
             /\ Cardinality(Newer(b, backups)) >= Keep
                  <=> Cardinality(Newer(b, backups')) >= Keep
  <2>1. t \in Int /\ Cardinality(Newer(t, backups)) >= Keep
    BY <1>2, <1>4, RowsAreFinite DEF BackupsFit, ExcessIsBeyond
  <2>2. backups \in SUBSET Int /\ IsFiniteSet(backups)
    BY <1>2, RowsAreFinite
  <2>3. Cardinality(Newer(b, backups)) >= Keep => Cardinality(Newer(b, backups')) >= Keep
    BY <1>1, <2>1, <2>2, BeyondStays
  <2>4. /\ Cardinality(Newer(b, backups')) <= Cardinality(Newer(b, backups))
        /\ Cardinality(Newer(b, backups)) \in Nat /\ Cardinality(Newer(b, backups')) \in Nat
    BY <1>1, <2>2, NewerGrows
  <2>. QED
    BY <2>3, <2>4, MaintenanceAssumption
<1>8. ExcessIsBeyond'
  <2>1. ASSUME NEW k \in Jobs, NEW b \in excess'[k]
        PROVE  Cardinality(Newer(b, backups')) >= Keep
    <3>1. b \in excess[k] /\ b \in Int
      BY <1>2, <1>5, RowsAreFinite
    <3>. QED
      BY <1>2, <1>7, <3>1 DEF BackupsFit, ExcessIsBeyond
  <2>2. ExcessIsBeyond' <=> \A k \in Jobs : \A b \in excess'[k] :
                              Cardinality(Newer(b, backups')) >= Keep
    BY DEF ExcessIsBeyond, Newer
  <2>. QED
    BY <2>1, <2>2
<1>9. NewestHaveFiles'
  <2>1. ASSUME NEW b \in backups', Cardinality(Newer(b, backups')) < Keep PROVE b \in files'
    <3>1. b \in backups /\ b \in Int
      BY <1>1, <1>2, RowsAreFinite
    <3>2. Cardinality(Newer(b, backups)) < Keep
      BY <1>7, <2>1, <3>1, MaintenanceAssumption
    <3>. QED
      BY <1>1, <1>2, <3>1, <3>2 DEF BackupsFit, NewestHaveFiles
  <2>2. NewestHaveFiles' <=> \A b \in backups' :
                               Cardinality(Newer(b, backups')) < Keep => b \in files'
    BY DEF NewestHaveFiles, Newer
  <2>. QED
    BY <2>1, <2>2
<1>10. BackupsFit'
  BY <1>1, <1>2, <1>5, <1>6, <1>8, <1>9 DEF BackupsFit
<1>11. Beyond(Keep)' \subseteq Beyond(Keep) \ {t}
  <2>1. Beyond(Keep)' = {b \in backups' : Cardinality(Newer(b, backups')) >= Keep}
    BY DEF Beyond, Newer
  <2>2. ASSUME NEW b \in Beyond(Keep)' PROVE b \in Beyond(Keep) /\ b # t
    <3>1. b \in backups /\ b # t /\ b \in Int /\ Cardinality(Newer(b, backups')) >= Keep
      BY <1>1, <1>2, <2>1, <2>2, RowsAreFinite
    <3>. QED
      BY <1>7, <3>1 DEF Beyond
  <2>. QED
    BY <2>2
<1>12. ASSUME NEW k \in Jobs, Settles(k) \/ Owes(k) PROVE Settles(k)' \/ Owes(k)'
  <2>1. RestsIn(k) /\ pc'[k] = pc[k]
    BY <1>1, <1>3 DEF RestsIn
  <2>2. Due(k, "prune") => Due(k, "prune")'
    BY <2>1, RestingStays
  <2>3. Beyond(Keep) \subseteq excess[k] => Beyond(Keep)' \subseteq excess'[k]
    BY <1>5, <1>11
  <2>. QED
    BY <1>12, <2>1, <2>2, <2>3, RestingStays DEF Settles
<1>. QED
  BY <1>10, <1>11, <1>12 DEF TooManyIsSeenTo, BackupInv

LEMMA PrunedKept ==
  ASSUME BackupInv, NEW j \in Jobs, Pruned(j), UNCHANGED kind
  PROVE  BackupsFit' /\ TooManyIsSeenTo'
<1>1. /\ Due(j, "prune") /\ GoesOn(j) /\ excess[j] = {}
      /\ UNCHANGED <<seen, excess, clock, backups, files>>
  BY DEF Pruned, backupV
<1>2. /\ FirmwareInv /\ BackupsFit /\ pc[j] = "exec" /\ kind[j] = "backup"
      /\ \A k \in Jobs \ {j} : RestsIn(k) /\ pc'[k] = pc[k]
      /\ \A k \in Jobs \ {j} : Unrecorded(k)' => Unrecorded(k) /\ at'[k] = at[k]
      /\ failing' \in [Jobs -> BOOLEAN]
  BY <1>1, LaterCall
<1>3. at' = [at EXCEPT ![j] = 1]
  <2>1. at[j] = 6 /\ Len(Calls(j)) = 6
    BY <1>1, <1>2, BackupCalls
  <2>. QED
    BY <1>1, <2>1 DEF GoesOn
<1>4. ~Unrecorded(j)'
  BY <1>2, <1>3 DEF Unrecorded, FirmwareInv, StateFits
<1>5. BackupsFit'
  BY <1>1, <1>2, <1>4, BackupsStayFit
<1>6. ~Owes(j) /\ (Settles(j) => Beyond(Keep) = {})
  BY <1>1, <1>2 DEF Owes, Settles
<1>. QED
  BY <1>1, <1>2, <1>5, <1>6, StillSeenTo DEF BackupInv

LEMMA ReadStoreKept ==
  ASSUME BackupInv, NEW j \in Jobs, ReadStore(j), UNCHANGED kind
  PROVE  BackupsFit' /\ TooManyIsSeenTo'
<1>1. /\ Due(j, "read") \/ Due(j, "verify")
      /\ GoesOn(j) /\ UNCHANGED <<seen, excess, clock, backups, files>>
  BY DEF ReadStore, backupV
<1>2. FirmwareInv /\ BackupsFit /\ pc[j] = "exec" /\ ~failing[j]
  BY <1>1 DEF BackupInv, Due
<1>3. /\ failing' \in [Jobs -> BOOLEAN]
      /\ \A k \in Jobs \ {j} : RestsIn(k) /\ pc'[k] = pc[k]
  BY <1>1, <1>2, OthersRest
<1>4. Owes(j)' /\ ~Unrecorded(j)'
  <2>1. CASE kind[j] = "backup"
    <3>1. at[j] = 1
      BY <1>1, <1>2, <2>1, BackupCalls
    <3>. QED
      BY <1>1, <1>2, <2>1, <3>1, NextCall DEF Unrecorded
  <2>2. CASE kind[j] # "backup"
    BY <2>2 DEF Owes, Unrecorded
  <2>. QED
    BY <2>1, <2>2
<1>5. ASSUME NEW k \in Jobs, Unrecorded(k)' PROVE Unrecorded(k) /\ at'[k] = at[k]
  BY <1>3, <1>4, <1>5, RestingStays DEF RestsIn
<1>. QED
  BY <1>1, <1>2, <1>3, <1>4, <1>5, BackupsStayFit DEF TooManyIsSeenTo

LEMMA CallFailsKept ==
  ASSUME BackupInv, NEW j \in Jobs, CallFails(j), UNCHANGED kind
  PROVE  BackupsFit' /\ TooManyIsSeenTo'
<1>1. /\ pc[j] = "exec" /\ failing' = [failing EXCEPT ![j] = TRUE]
      /\ UNCHANGED <<vars, at, seen, excess, clock, backups, files>>
  BY DEF CallFails, backupV
<1>2. FirmwareInv /\ BackupsFit /\ failing \in [Jobs -> BOOLEAN]
  BY DEF BackupInv, BackupsFit
<1>3. UNCHANGED <<rows, pc, cur>>
  BY <1>1 DEF vars, persisted, memory
<1>4. BackupsFit'
  BY <1>1, <1>2, <1>3, BackupsStayFit DEF Unrecorded
<1>5. Owes(j)'
  <2>1. CASE kind[j] = "backup"
    <3>1. cur[j] \in 1..TaskOf(kind[j]).size
      BY <1>1, <1>2, DueAt
    <3>2. cur[j] = 1
      BY <2>1, <3>1 DEF TaskOf
    <3>3. rows[j][1] = "running"
      BY <1>1, <1>2, <3>2 DEF FirmwareInv, IInv, JobInv, StepFits
    <3>4. ~Due(j, "prune")'
      BY <1>1, <1>2 DEF Due
    <3>. QED
      BY <1>1, <1>3, <3>3, <3>4 DEF Owes
  <2>2. CASE kind[j] # "backup"
    BY <2>2 DEF Owes
  <2>. QED
    BY <2>1, <2>2
<1>. QED
  BY <1>4, <1>5 DEF TooManyIsSeenTo

LEMMA InitBackupInv == MaintenanceInit => BackupInv
<1> SUFFICES ASSUME MaintenanceInit PROVE BackupInv
  OBVIOUS
<1>1. /\ FirmwareInv /\ Init
      /\ failing = [j \in Jobs |-> FALSE] /\ excess = [j \in Jobs |-> {}]
      /\ clock = Keep /\ backups = 1..Keep /\ files = 1..Keep
  BY InitFirmwareInv DEF MaintenanceInit, MaintenanceAtStart
<1>2. \A j \in Jobs : BackupFits(j)
  BY <1>1 DEF Init, BackupFits, Unrecorded
<1>3. BackupsFit
  BY <1>1, <1>2 DEF BackupsFit, ExcessIsBeyond, NewestHaveFiles
<1>4. ASSUME NEW b \in 1..Keep PROVE Cardinality(Newer(b, 1..Keep)) < Keep
  <2>1. IsFiniteSet(1..Keep) /\ Cardinality(1..Keep) = Keep /\ Keep \in Nat /\ b \in Int
    BY FS_Interval, MaintenanceAssumption
  <2>2. (1..Keep) \ {b} \in SUBSET (1..Keep) /\ Newer(b, 1..Keep) \subseteq (1..Keep) \ {b}
    BY DEF Newer
  <2>3. IsFiniteSet((1..Keep) \ {b}) /\ Cardinality((1..Keep) \ {b}) = Keep - 1
    BY <2>1, FS_RemoveElement
  <2>4. Cardinality(Newer(b, 1..Keep)) <= Keep - 1 /\ Cardinality(Newer(b, 1..Keep)) \in Nat
    BY <2>2, <2>3, FS_Subset, FS_CardinalityType
  <2>. QED
    BY <2>1, <2>4
<1>5. Beyond(Keep) = {}
  <2>1. ASSUME NEW b \in 1..Keep PROVE ~(Cardinality(Newer(b, 1..Keep)) >= Keep)
    <3>1. /\ Cardinality(Newer(b, 1..Keep)) \in Nat
          /\ Cardinality(Newer(b, 1..Keep)) < Keep /\ Keep \in Nat
      BY <1>4, FS_Interval, NewerGrows, MaintenanceAssumption
    <3>. QED
      BY <3>1
  <2>. QED
    BY <1>1, <2>1 DEF Beyond
<1>. QED
  BY <1>1, <1>3, <1>5 DEF BackupInv, TooManyIsSeenTo

LEMMA NextBackupInv == BackupInv /\ [MaintenanceNext]_maintenanceVars => BackupInv'
<1> SUFFICES ASSUME BackupInv, [MaintenanceNext]_maintenanceVars PROVE BackupInv'
  OBVIOUS
<1>0. FirmwareInv /\ FirmwareInv'
  BY NextFirmwareInv DEF BackupInv
<1> SUFFICES BackupsFit' /\ TooManyIsSeenTo'
  BY <1>0 DEF BackupInv
<1>1. ASSUME NEW j \in Jobs, Backup(j), UNCHANGED kind PROVE BackupsFit' /\ TooManyIsSeenTo'
  BY <1>1, ExportKept, WriteFileKept, AddRowKept, ListKept, UnlinkKept, DeleteRowKept,
     PrunedKept DEF Backup
<1>2. ASSUME NEW j \in Jobs, Firmware(j) \/ Deploy(j), UNCHANGED kind
      PROVE  BackupsFit' /\ TooManyIsSeenTo'
  BY <1>2, OthersBackupKept DEF TooManyIsSeenTo
<1>3. ASSUME NEW j \in Jobs, StepThrows(j), UNCHANGED kind
      PROVE  BackupsFit' /\ TooManyIsSeenTo'
  <2>1. pc'[j] \notin {"exec", "record_ok"} /\ Advance(j)
    BY <1>0, <1>3 DEF StepThrows, ExecuteFails, Goto, FirmwareInv, IInv, TypeOK, Advance
  <2>2. /\ pc[j] = "exec" /\ failing[j]
        /\ at' = [at EXCEPT ![j] = 1] /\ failing' = [failing EXCEPT ![j] = FALSE]
        /\ UNCHANGED <<kind, seen, excess, clock, backups, files>>
    BY <1>3 DEF StepThrows, backupV
  <2>. QED
    BY <2>1, <2>2, SchedulerBackupKept
<1>4. ASSUME NEW j \in Jobs, SchedulerStep(j), UNCHANGED kind
      PROVE  BackupsFit' /\ TooManyIsSeenTo'
  <2>1. UNCHANGED <<at, failing, kind, seen, excess, clock, backups, files>>
    BY <1>4 DEF SchedulerStep, local, backupV
  <2>2. CASE CatchFails(j)
    BY <2>1, <2>2, DeathBackupKept DEF CatchFails, persisted
  <2>3. CASE Schedule(j) \/ (pc[j] # "exec" /\ Advance(j)) \/ StatementFails(j)
    <3>1. pc[j] # "exec"
      BY <2>3 DEF Schedule, StatementFails, UncaughtPoints, StepTryPoints, RevertTryPoints
    <3>. QED
      BY <2>1, <2>3, <3>1, SchedulerBackupKept
  <2>. QED
    BY <1>4, <2>2, <2>3 DEF SchedulerStep, Request
<1>5. CASE RouterReboots /\ UNCHANGED kind
  BY <1>5, NothingBackupKept DEF RouterReboots, local, backupV
<1>6. CASE Crash /\ UNCHANGED <<kind, local, backupV, upgradeV, deployV>>
  BY <1>6, DeathBackupKept DEF Crash, persisted, local, backupV
<1>7. CASE UNCHANGED maintenanceVars
  BY <1>7, NothingBackupKept DEF maintenanceVars, local, backupV
<1>. QED
  BY <1>1, <1>2, <1>3, <1>4, <1>5, <1>6, <1>7, ReadStoreKept, CallFailsKept DEF MaintenanceNext

\* With nothing left to be seen to, there are no more than Keep.
LEMMA BackupInvKeeps == BackupInv => BackupsAreKept
<1>1. ASSUME BackupInv PROVE BackupsAreKept
  <2>1. FirmwareInv /\ BackupsFit /\ TooManyIsSeenTo
    BY <1>1 DEF BackupInv
  <2>2. ASSUME \A j \in Jobs : /\ kind[j] = "backup"
                               /\ rows[j][1] \in {"absent", "queued", "succeeded"}
        PROVE  Cardinality(backups) <= Keep
    <3>1. ASSUME NEW j \in Jobs PROVE ~Settles(j) /\ ~Owes(j)
      BY <2>1, <2>2, BackupDue DEF Settles, Owes
    <3>2. Beyond(Keep) = {}
      BY <2>1, <3>1 DEF TooManyIsSeenTo
    <3>3. ASSUME NEW b \in backups PROVE Cardinality(Newer(b, backups)) < Keep
      <4>1. ~(Cardinality(Newer(b, backups)) >= Keep)
        BY <3>2 DEF Beyond
      <4>2. Cardinality(Newer(b, backups)) \in Nat /\ Keep \in Nat
        BY <2>1, RowsAreFinite, NewerGrows, MaintenanceAssumption
      <4>. QED
        BY <4>1, <4>2
    <3>. QED
      BY <2>1, <3>3, RowsAreFinite, FewRemain
  <2>. QED
    BY <2>1, <2>2 DEF BackupsAreKept, BackupsFit, NewestHaveFiles
<1>. QED
  BY <1>1

\* Jobs that prune at the same time, each by the list it has read, leave the newest rows
\* and their files, and no more than Keep of them once all have succeeded.
THEOREM BackupsStay == MaintenanceSpec => []BackupsAreKept
BY BackupInvKeeps, InitBackupInv, NextBackupInv, PTL DEF MaintenanceSpec

-----------------------------------------------------------------------------
(* Rotations: the jobs are the scheduler's *)

\* The kinds of step, as far as the secrets and the scheduler can tell.
NamingAlone(j) ==
  ~Rotates(j) /\ (UNCHANGED vars \/ (pc[j] \in {"exec", "revert"} /\ Advance(j)))
              /\ UNCHANGED secretV
KindOfStep ==
  \/ \E j \in Jobs : DeviceStep(j) \/ SchedulerAlone(j) \/ NamingAlone(j)
  \/ Crash /\ UNCHANGED secretV

\* A task that names is not a rotation.
LEMMA NamingIsNoRotation ==
  ASSUME TypeOK, NEW j \in Jobs, Provisions(j) \/ Renames(j)
  PROVE  ~Rotates(j)
<1>1. CASE Renames(j)
  BY <1>1 DEF Renames, Rotates, RenameTask, RotationTask
<1>2. CASE Provisions(j)
  <2>1. task[j].size = 3 /\ task[j].revert = ProvisionTask.revert
    BY <1>2 DEF Provisions, ProvisionTask
  <2>2. 3 \in Steps
    BY <2>1, TaskShape, ConstantsAssumption DEF Steps
  <2>3. task[j].revert[3] = "none"
    BY <2>1, <2>2 DEF ProvisionTask
  <2>4. RotationTask.revert[3] = "best_effort"
    BY <2>2 DEF RotationTask
  <2> QED BY <2>3, <2>4 DEF Rotates
<1> QED BY <1>1, <1>2

LEMMA NamingStepIsAlone ==
  ASSUME TypeOK, NEW j \in Jobs, NamingStep(j), UNCHANGED secretV
  PROVE  NamingAlone(j)
<1>1. ~Rotates(j)
  BY NamingIsNoRotation DEF NamingStep, UpdateName, ReadForProvision, ReadForRename, Sets,
     SetIdentity, SetIdentityFails, Verify, ReadOrVerifyFails, GiveBack, GiveBackFails,
     NothingToGiveBack
<1>2. UNCHANGED vars \/ (pc[j] \in {"exec", "revert"} /\ Advance(j))
  BY DEF NamingStep, UpdateName, ReadForProvision, ReadForRename, SetIdentity,
     SetIdentityFails, Verify, ReadOrVerifyFails, GiveBack, GiveBackFails, NothingToGiveBack,
     InStep, InRevert, ExecuteOk, ExecuteFails, RevertOk, RevertFails, Advance
<1> QED BY <1>1, <1>2 DEF NamingAlone

LEMMA StepHasKind == TypeOK /\ IdentityNext => KindOfStep /\ Record
BY NamingStepIsAlone DEF IdentityNext, KindOfStep

LEMMA KindIsScheduled == KindOfStep => [Next]_vars
BY DEF KindOfStep, NamingAlone, DeviceStep, SchedulerAlone, Validate, ValidateFails,
       RotateOnRouter, RotateOnRouterFails, Deactivate, Insert, StoreCredential,
       StoreCredentialFails, RestoreCredential, RestoreCredentialFails, RestoreOnRouter,
       RestoreOnRouterFails, Advance, Next

\* Rotations, provisionings and renamings run as jobs of the scheduler.
THEOREM IdentityRunsOnScheduler == IdentitySpec => Spec
<1>1. IdentityInit => Init
  BY DEF IdentityInit
<1>2. IdentityInit => IInv
  BY <1>1, InitIInv
<1>3. IInv /\ [IdentityNext]_identityVars => IInv' /\ [Next]_vars
  <2>1. IInv /\ IdentityNext => [Next]_vars
    BY StepHasKind, KindIsScheduled DEF IInv
  <2>2. UNCHANGED identityVars => UNCHANGED vars
    BY DEF identityVars, rotateVars
  <2> QED BY <2>1, <2>2, NextIInv
<1> QED BY <1>1, <1>2, <1>3, PTL DEF IdentitySpec, Spec

-----------------------------------------------------------------------------
(* One secret at a time *)

SecretsType ==
  /\ router \in Secrets \cup {Null}
  /\ active \subseteq Secrets \cup {Null}
  /\ previous \in [Jobs -> Secrets \cup {Null}]
  /\ stage \in [Jobs -> {"start", "deactivated", "inserted"}]

\* replaceCredential is under way in the third step or its revert only.
StageFits(j) ==
  pc[j] # "lost" /\ stage[j] # "start" => Rotates(j) /\ (InStep(j, 3) \/ InRevert(j, 3))

\* What the rotation at work, with no other beside it, has found and made of it:
\* nothing is active between the two statements of replaceCredential, until its
\* first step has read the store nothing has changed there, what the first step
\* has read is what was there, and no later step is tried without it.
StoreFits(j) ==
  /\ stage[j] = "deactivated" => active = {}
  /\ pc[j] \in {"open", "exec"} /\ cur[j] = 1 => active = foundActive
  /\ 1 \in applied[j] => previous[j] \in foundActive
  /\ applied[j] # {} => 1 \in applied[j]
  /\ pc[j] = "revert" => 1 \in applied[j]

OneActive == \A s, t \in active : s = t

\* From agreement a rotation leads to its own secret or stays with the old one.
OldOrNew(j) ==
  foundActive = {foundRouter} =>
    router \in {j, foundRouter} /\ active \subseteq {j, foundRouter}

\* The job is past its i-th step, and no step has failed.
Behind(j, i) ==
  \/ pc[j] \in {"open", "exec"} /\ i < cur[j]
  \/ pc[j] \in {"record_ok", "progress"} /\ i <= cur[j]
  \/ pc[j] = "finish" \/ status[j] = "succeeded"

\* What the steps of the last rotation have made, and what their absence leaves.
MadeSoFar(j) ==
  /\ Behind(j, 2) => router = j
  /\ Behind(j, 3) \/ (InStep(j, 3) /\ stage[j] = "inserted") => active = {j}
  /\ 2 \notin applied[j] => router = foundRouter \/ foundActive = {router}
  /\ 3 \notin applied[j] /\ stage[j] = "start" => active = foundActive
  /\ InRevert(j, 3) /\ stage[j] = "inserted" => active = foundActive
  /\ \A s, t \in foundActive : s = t

\* While no two rotations have overlapped.
AloneInv ==
  /\ ~Overlap
  /\ \A j \in Jobs : Rotating(j) => latest = j /\ StoreFits(j)
  /\ OneActive
  /\ \A j \in Jobs : latest = j => Rotates(j) /\ OldOrNew(j) /\ MadeSoFar(j)

SecretInv ==
  /\ SecretsType
  /\ \A j \in Jobs : StageFits(j)
  /\ ~overlapped => AloneInv

LEMMA RotationShape ==
  ASSUME TypeOK, NEW j \in Jobs, Rotates(j)
  PROVE  /\ task[j].size = 3 /\ task[j].policy = "rollback" /\ StepsOf(j) = 1..3
         /\ {1, 2, 3} \subseteq Steps
         /\ task[j].revert[1] = "none"
<1>1. task[j].size = 3 /\ task[j].policy = "rollback" /\ task[j].revert = RotationTask.revert
  BY DEF Rotates, RotationTask
<1>2. {1, 2, 3} \subseteq Steps
  BY <1>1, TaskShape, ConstantsAssumption DEF Steps
<1>3. task[j].revert[1] = "none"
  BY <1>1, <1>2 DEF RotationTask
<1> QED BY <1>1, <1>2, <1>3 DEF StepsOf

\* Whatever happens, a job keeps its task.
LEMMA TaskStays == [Next]_vars => task' = task
<1>1. ASSUME NEW j \in Jobs, Advance(j) PROVE task' = task
  BY <1>1 DEF Advance, PersistSteps, StartJob, FinishEmpty, OpenStep, ExecuteOk, ExecuteFails,
       RecordSuccess, RecordProgress, RecordFailure, FinishFailed, FinishSucceeded,
       BeginRollback, SkipRevert, OpenRevert, RevertOk, RevertFails, RecordReverted,
       RecordRevertFailed, FinishRollback, CatchJob
<1> QED BY <1>1 DEF Next, vars, Schedule, StatementFails, CatchFails, Crash

\* What a call of a job's step is to the scheduler.
LEMMA CallIsStep ==
  ASSUME NEW j \in Jobs, DeviceStep(j) \/ NamingAlone(j)
  PROVE  UNCHANGED vars \/ Advance(j)
BY DEF NamingAlone, DeviceStep, Validate, ValidateFails, RotateOnRouter, RotateOnRouterFails,
       Deactivate, Insert, StoreCredential, StoreCredentialFails, RestoreCredential,
       RestoreCredentialFails, RestoreOnRouter, RestoreOnRouterFails, Advance

\* The scheduler's own step of a job that lives on.
OwnStep(j) ==
  /\ Schedule(j) \/ StatementFails(j) \/ (pc[j] \notin {"exec", "revert"} /\ Advance(j))
  /\ UNCHANGED deviceVars
Death == (Die /\ UNCHANGED <<status, cur, applied, secretV>>)

\* The steps of one job leave the others alone.
LEMMA OthersStay ==
  ASSUME TypeOK, SecretsType, NEW j \in Jobs, NEW k \in Jobs \ {j},
         DeviceStep(j) \/ NamingAlone(j) \/ OwnStep(j)
  PROVE  /\ pc'[k] = pc[k] /\ cur'[k] = cur[k] /\ applied'[k] = applied[k]
         /\ previous'[k] = previous[k] /\ stage'[k] = stage[k] /\ status'[k] = status[k]
<1>1. /\ pc'[k] = pc[k] /\ cur'[k] = cur[k] /\ applied'[k] = applied[k]
      /\ status'[k] = status[k]
  <2>1. CASE Schedule(j) \/ Advance(j) \/ StatementFails(j)
    BY <2>1, Frame
  <2>2. CASE UNCHANGED vars
    BY <2>2 DEF vars, memory, persisted
  <2> QED BY <2>1, <2>2, CallIsStep DEF OwnStep
<1>2. previous'[k] = previous[k] /\ stage'[k] = stage[k]
  BY DEF SecretsType, NamingAlone, OwnStep, deviceVars, secretV, DeviceStep, Validate,
         ValidateFails, RotateOnRouter, RotateOnRouterFails, Deactivate, Insert,
         StoreCredential, StoreCredentialFails, RestoreCredential, RestoreCredentialFails,
         RestoreOnRouter, RestoreOnRouterFails
<1> QED BY <1>1, <1>2

LEMMA KindSplits ==
  ASSUME KindOfStep
  PROVE  Death \/ \E j \in Jobs : DeviceStep(j) \/ NamingAlone(j) \/ OwnStep(j)
BY DEF KindOfStep, Death, OwnStep, SchedulerAlone, CatchFails, Crash, deviceVars, secretV, persisted

\* Where the scheduler's own step of a job leads.
LEMMA OwnStepLeads ==
  ASSUME IInv, NEW j \in Jobs, OwnStep(j)
  PROVE  /\ applied'[j] = applied[j]
         /\ pc'[j] \in {"open", "exec"} /\ cur'[j] = 1 =>
              pc[j] = "start" \/ (pc[j] = "open" /\ cur[j] = 1)
         /\ pc'[j] = "revert" => pc[j] = "rollback" /\ completed[j] # {}
         /\ pc[j] \notin {"exec", "revert"}
<1>1. /\ TypeOK /\ JobInv(j)
      /\ pc[j] \in Forward => cur[j] \in Nat \ {0}
  BY AtWork DEF IInv, Steps
<1>2. CASE Schedule(j)
  BY <1>1, <1>2 DEF TypeOK, Schedule, Goto
<1>3. CASE StatementFails(j)
  BY <1>1, <1>3 DEF TypeOK, StatementFails, Goto, UncaughtPoints, StepTryPoints, RevertTryPoints
<1>4. CASE pc[j] \notin {"exec", "revert"} /\ Advance(j)
  BY <1>1, <1>4 DEF TypeOK, Forward, Advance, Goto, NextStep, NextRevert, PersistSteps, StartJob,
       FinishEmpty, OpenStep, ExecuteOk, ExecuteFails, RecordSuccess, RecordProgress,
       RecordFailure, FinishFailed, FinishSucceeded, BeginRollback, SkipRevert, OpenRevert,
       RevertOk, RevertFails, RecordReverted, RecordRevertFailed, FinishRollback, CatchJob
<1> QED BY <1>2, <1>3, <1>4 DEF OwnStep

\* A job that is at rest for good takes no step of its own.
LEMMA LostTakesNoStep ==
  ASSUME NEW j \in Jobs, OwnStep(j)
  PROVE  pc[j] \notin {"lost", "orphaned", "done"}
BY DEF OwnStep, Schedule, StatementFails, UncaughtPoints, StepTryPoints, RevertTryPoints,
   Advance, PersistSteps, StartJob, FinishEmpty, OpenStep, ExecuteOk, ExecuteFails,
   RecordSuccess, RecordProgress, RecordFailure, FinishFailed, FinishSucceeded, BeginRollback,
   SkipRevert, OpenRevert, RevertOk, RevertFails, RecordReverted, RecordRevertFailed,
   FinishRollback, CatchJob

LEMMA SecretsTypeStep ==
  ASSUME IInv, SecretsType, KindOfStep
  PROVE  SecretsType'
<1>1. ASSUME NEW j \in Jobs, DeviceStep(j) PROVE SecretsType'
  BY <1>1 DEF SecretsType, Secrets, DeviceStep, Validate, ValidateFails, RotateOnRouter,
       RotateOnRouterFails, Deactivate, Insert, StoreCredential, StoreCredentialFails,
       RestoreCredential, RestoreCredentialFails, RestoreOnRouter, RestoreOnRouterFails,
       deviceVars
<1>2. CASE UNCHANGED secretV
  BY <1>2 DEF SecretsType, secretV
<1> QED BY <1>1, <1>2 DEF KindOfStep, NamingAlone, SchedulerAlone, secretV, deviceVars

\* Whoever dies or not, replaceCredential is under way only where it is called.
LEMMA StageStep ==
  ASSUME IInv, SecretsType, \A j \in Jobs : StageFits(j), KindOfStep
  PROVE  \A k \in Jobs : StageFits(k)'
<1>0. TypeOK /\ task' = task
  BY KindIsScheduled, TaskStays DEF IInv
<1>1. CASE Death
  BY <1>0, <1>1 DEF Death, Die, TypeOK, Stopped, StageFits, Rotates, InStep, InRevert, secretV
<1>2. ASSUME NEW j \in Jobs, DeviceStep(j) \/ NamingAlone(j) \/ OwnStep(j), NEW k \in Jobs
      PROVE  StageFits(k)'
  <2>1. CASE k # j
    BY <1>0, <1>2, <2>1, OthersStay DEF StageFits, Rotates, InStep, InRevert
  <2>2. CASE k = j /\ DeviceStep(j)
    BY <1>0, <2>2 DEF SecretsType, TypeOK, StageFits, Rotates, InStep, InRevert, DeviceStep,
         Validate, ValidateFails, RotateOnRouter, RotateOnRouterFails, Deactivate, Insert,
         StoreCredential, StoreCredentialFails, RestoreCredential, RestoreCredentialFails,
         RestoreOnRouter, RestoreOnRouterFails, deviceVars, vars, memory
  <2>3. CASE k = j /\ NamingAlone(j)
    <3>1. pc'[j] = "lost" => pc[j] = "lost"
      BY <1>0, <2>3 DEF NamingAlone, vars, memory, TypeOK, Goto, NextStep, NextRevert, Advance,
           PersistSteps, StartJob, FinishEmpty, OpenStep, ExecuteOk, ExecuteFails,
           RecordSuccess, RecordProgress, RecordFailure, FinishFailed, FinishSucceeded,
           BeginRollback, SkipRevert, OpenRevert, RevertOk, RevertFails, RecordReverted,
           RecordRevertFailed, FinishRollback, CatchJob
    <3>2. pc[j] # "lost" \/ UNCHANGED vars
      BY <2>3 DEF NamingAlone
    <3> QED BY <1>0, <2>3, <3>1, <3>2 DEF NamingAlone, StageFits, Rotates, secretV, vars, memory
  <2>4. CASE k = j /\ OwnStep(j)
    <3>1. pc[j] \notin {"exec", "revert", "lost"}
      BY <2>4, OwnStepLeads, LostTakesNoStep
    <3> QED BY <2>4, <3>1 DEF OwnStep, StageFits, InStep, InRevert, deviceVars
  <2> QED BY <1>2, <2>1, <2>2, <2>3, <2>4
<1> QED BY <1>1, <1>2, KindSplits

\* A call of the rotation at work, with no other beside it.
LEMMA AloneCall ==
  ASSUME IInv, SecretsType, NEW j \in Jobs, StageFits(j), StoreFits(j), OneActive,
         OldOrNew(j), MadeSoFar(j), DeviceStep(j), UNCHANGED <<foundRouter, foundActive>>
  PROVE  StoreFits(j)' /\ OneActive' /\ OldOrNew(j)' /\ MadeSoFar(j)'
<1>0. /\ TypeOK /\ JobInv(j) /\ Rotates(j) /\ {1, 2, 3} \subseteq Steps
      /\ pc[j] = "exec" /\ cur[j] # 1 => 1 \in applied[j]
      /\ pc[j] = "revert" => cur[j] # 1 /\ 1 \in applied[j]
      /\ cur[j] \in Nat /\ (pc[j] \in {"exec", "revert"} => status[j] # "succeeded")
  <2>1. /\ task[j].policy = "rollback" /\ task[j].revert[1] = "none" /\ StepsOf(j) = 1..3
        /\ {1, 2, 3} \subseteq Steps /\ TypeOK /\ JobInv(j) /\ Rotates(j)
    BY RotationShape DEF IInv, DeviceStep
  <2>2. pc[j] = "exec" => cur[j] \in 1..3 /\ 1..(cur[j] - 1) \subseteq applied[j]
    BY <2>1 DEF JobInv, StepFits, WholeSoFar, Forward
  <2>3. pc[j] = "revert" => task[j].revert[cur[j]] # "none"
    BY <2>1 DEF JobInv, StepFits, Reverting
  <2>4. cur[j] \in 0..MaxSteps /\ MaxSteps \in Nat
    BY <2>1, ConstantsAssumption DEF TypeOK
  <2> QED BY <2>1, <2>2, <2>3, <2>4, FinishedRests DEF StoreFits, Terminal, DeviceStep
<1> USE <1>0 DEF StoreFits, OneActive, OldOrNew, MadeSoFar, Behind, SecretsType, TypeOK, Goto,
        persisted, InStep, InRevert
<1>1. CASE Validate(j)
  BY <1>1 DEF Validate, ExecuteOk
<1>2. CASE ValidateFails(j)
  BY <1>2 DEF ValidateFails, ExecuteFails, deviceVars
<1>3. CASE RotateOnRouter(j)
  BY <1>3 DEF RotateOnRouter, ExecuteOk
<1>4. CASE RotateOnRouterFails(j)
  BY <1>4 DEF RotateOnRouterFails, ExecuteFails
<1>5. CASE Deactivate(j)
  BY <1>5 DEF Deactivate, vars, memory
<1>6. CASE Insert(j)
  BY <1>6 DEF Insert, vars, memory
<1>7. CASE StoreCredential(j)
  BY <1>7 DEF StoreCredential, ExecuteOk
<1>8. CASE StoreCredentialFails(j)
  BY <1>8 DEF StoreCredentialFails, ExecuteFails
<1>9. CASE RestoreCredential(j)
  BY <1>9 DEF RestoreCredential, RevertOk
<1>10. CASE RestoreCredentialFails(j)
  BY <1>10 DEF RestoreCredentialFails, RevertFails
<1>11. CASE RestoreOnRouter(j)
  BY <1>11 DEF RestoreOnRouter, RevertOk
<1>12. CASE RestoreOnRouterFails(j)
  BY <1>12 DEF RestoreOnRouterFails, RevertFails
<1> QED BY <1>1, <1>2, <1>3, <1>4, <1>5, <1>6, <1>7, <1>8, <1>9, <1>10, <1>11, <1>12
       DEF DeviceStep

\* The scheduler's own step of a rotation that is at work already.
LEMMA AloneOwn ==
  ASSUME IInv, NEW j \in Jobs, Rotating(j), StoreFits(j), OwnStep(j), UNCHANGED foundActive
  PROVE  StoreFits(j)'
<1>1. pc[j] # "start" /\ JobInv(j)
  BY DEF Rotating, Working, IInv
<1>2. pc'[j] = "revert" => 1 \in applied[j]
  BY <1>1, OwnStepLeads DEF JobInv, EffectsFit, StoreFits, Forward
<1> QED BY <1>1, <1>2, OwnStepLeads DEF StoreFits, OwnStep, deviceVars

\* The scheduler's own steps do not put a job behind a step that it is not behind.
LEMMA BehindStays ==
  ASSUME IInv, NEW j \in Jobs, task[j].policy = "rollback", NEW i \in 1..task[j].size,
         OwnStep(j), Behind(j, i)'
  PROVE  Behind(j, i)
<1>1. /\ TypeOK /\ JobInv(j) /\ cur[j] \in Nat /\ task[j].size \in Nat
      /\ pc[j] \notin {"exec", "revert"}
  BY TaskShape, OwnStepLeads, ConstantsAssumption DEF IInv, TypeOK
<1>2. CASE Schedule(j)
  BY <1>1, <1>2 DEF Behind, TypeOK, Schedule, SetStatus, Goto
<1>3. CASE StatementFails(j)
  BY <1>1, <1>3 DEF Behind, TypeOK, StatementFails, persisted, Goto
<1>4. CASE PersistSteps(j) \/ StartJob(j) \/ FinishEmpty(j) \/ OpenStep(j)
  BY <1>1, <1>4 DEF Behind, TypeOK, PersistSteps, StartJob, FinishEmpty, OpenStep, Goto,
       SetStatus, JobInv, StepFits
<1>5. CASE RecordSuccess(j) \/ RecordProgress(j) \/ RecordFailure(j)
  BY <1>1, <1>5 DEF Behind, TypeOK, RecordSuccess, RecordProgress, RecordFailure, NextStep,
       Goto
<1>6. CASE FinishFailed(j) \/ FinishSucceeded(j) \/ BeginRollback(j) \/ CatchJob(j)
  BY <1>1, <1>6 DEF Behind, TypeOK, FinishFailed, FinishSucceeded, BeginRollback, CatchJob,
       NextRevert, Goto, SetStatus
<1>7. CASE SkipRevert(j) \/ OpenRevert(j) \/ RecordReverted(j) \/ RecordRevertFailed(j)
  BY <1>1, <1>7 DEF Behind, TypeOK, SkipRevert, OpenRevert, RecordReverted,
       RecordRevertFailed, NextRevert, Goto
<1>8. CASE FinishRollback(j)
  BY <1>1, <1>8 DEF Behind, TypeOK, FinishRollback, Goto, SetStatus
<1> QED
  BY <1>1, <1>2, <1>3, <1>4, <1>5, <1>6, <1>7, <1>8 DEF OwnStep, Advance, ExecuteOk,
     ExecuteFails, RevertOk, RevertFails

\* A job that the scheduler's own step sets to work was about to start.
LEMMA BeginsAtStart ==
  ASSUME IInv, NEW j \in Jobs, OwnStep(j), ~Working(j), Working(j)'
  PROVE  pc[j] = "start" /\ pc'[j] # "revert" /\ status[j] = "queued" /\ applied[j] = {}
<1>1. TypeOK /\ JobInv(j) /\ pc[j] \notin {"exec", "revert", "lost", "orphaned", "done"}
  BY OwnStepLeads, LostTakesNoStep DEF IInv
<1>2. pc[j] \in {"new", "rows", "start"}
  BY <1>1 DEF Working, Stopped
<1>3. ASSUME pc[j] \in {"new", "rows"} PROVE ~Working(j)'
  BY <1>1, <1>3 DEF OwnStep, Schedule, StatementFails, Goto, Working, Stopped, Advance,
     UncaughtPoints, StepTryPoints, RevertTryPoints, TypeOK, PersistSteps, StartJob,
     FinishEmpty, OpenStep, ExecuteOk, ExecuteFails, RecordSuccess, RecordProgress,
     RecordFailure, FinishFailed, FinishSucceeded, BeginRollback, SkipRevert, OpenRevert,
     RevertOk, RevertFails, RecordReverted, RecordRevertFailed, FinishRollback, CatchJob
<1>4. pc[j] = "start"
  BY <1>2, <1>3
<1> QED BY <1>1, <1>4, OwnStepLeads DEF JobInv, StatusFits, EffectsFit

\* What a rotation has made, its scheduler's own steps neither undo nor claim.
LEMMA OwnStepMakesNothing ==
  ASSUME IInv, NEW j \in Jobs, Rotates(j), StageFits(j), OwnStep(j)
  PROVE  /\ ~InStep(j, 3)' \/ stage'[j] # "inserted"
         /\ ~InRevert(j, 3)' \/ stage'[j] # "inserted"
         /\ \A i \in {2, 3} : Behind(j, i)' => Behind(j, i)
<1>1. task[j].policy = "rollback" /\ task[j].size = 3
  BY RotationShape DEF IInv
<1>2. stage'[j] = "start"
  BY OwnStepLeads, LostTakesNoStep DEF StageFits, InStep, InRevert, OwnStep, deviceVars
<1> QED BY <1>1, <1>2, BehindStays

\* ... and of one that begins.
LEMMA AloneBegins ==
  ASSUME IInv, SecretsType, NEW j \in Jobs, StageFits(j), Rotates(j), ~Working(j),
         Working(j)', OwnStep(j), OneActive, foundRouter' = router, foundActive' = active
  PROVE  StoreFits(j)' /\ MadeSoFar(j)'
<1>1. pc[j] = "start" /\ pc'[j] # "revert" /\ status[j] = "queued"
  BY BeginsAtStart
<1>2. applied'[j] = {} /\ stage'[j] = "start" /\ active' = active /\ router' = router
  BY <1>1, BeginsAtStart, OwnStepLeads DEF StageFits, OwnStep, deviceVars, InStep, InRevert
<1>3. ~Behind(j, 2)' /\ ~Behind(j, 3)'
  BY <1>1, OwnStepMakesNothing DEF Behind
<1> QED BY <1>1, <1>2, <1>3 DEF StoreFits, MadeSoFar, OneActive

\* Only the job that takes a step can begin a rotation or make something of one.
LEMMA AloneStep ==
  ASSUME IInv, SecretsType, \A k \in Jobs : StageFits(k), ~overlapped => AloneInv, Record,
         ~overlapped', task' = task, NEW j \in Jobs,
         DeviceStep(j) \/ NamingAlone(j) \/ OwnStep(j)
  PROVE  AloneInv'
<1>1. /\ AloneInv /\ TypeOK /\ ~Overlap'
      /\ \A k \in Jobs \ {j} : Rotating(k)' <=> Rotating(k)
      /\ \A k \in Jobs \ {j} : StoreFits(k) /\ UNCHANGED <<active, foundActive>> => StoreFits(k)'
      /\ \A k \in Jobs \ {j} : MadeSoFar(k) /\ UNCHANGED <<router, active, foundRouter, foundActive>>
           => MadeSoFar(k)'
      /\ \A k \in Jobs : Rotates(k)' <=> Rotates(k)
  <2>1. AloneInv /\ TypeOK /\ ~Overlap'
    BY DEF Record, IInv
  <2>2. ASSUME NEW k \in Jobs \ {j}
        PROVE  /\ Rotating(k)' <=> Rotating(k)
               /\ StoreFits(k) /\ UNCHANGED <<active, foundActive>> => StoreFits(k)'
               /\ MadeSoFar(k) /\ UNCHANGED <<router, active, foundRouter, foundActive>>
                    => MadeSoFar(k)'
    BY <2>1, OthersStay DEF Rotating, Rotates, Working, StoreFits, MadeSoFar, Behind, InStep, InRevert
  <2> QED BY <2>1, <2>2 DEF Rotates
<1>2. CASE Rotating(j)' /\ ~Rotating(j)
  <2>1. OwnStep(j) /\ Rotates(j) /\ ~Working(j) /\ Working(j)'
    <3>1. Rotates(j) /\ ~Working(j) /\ Working(j)'
      BY <1>2 DEF Rotating, Rotates
    <3>2. ~DeviceStep(j)
      BY <3>1 DEF Working, Stopped, DeviceStep, Validate, ValidateFails, RotateOnRouter,
           RotateOnRouterFails, Deactivate, Insert, StoreCredential, StoreCredentialFails,
           RestoreCredential, RestoreCredentialFails, RestoreOnRouter, RestoreOnRouterFails,
           InStep, InRevert
    <3> QED BY <3>1, <3>2 DEF NamingAlone
  <2>2. /\ latest' = j /\ foundRouter' = router /\ foundActive' = active
        /\ UNCHANGED <<router, active>>
    <3>1. \A k \in Jobs : Rotating(k)' /\ ~Rotating(k) => k = j
      BY <1>1
    <3> QED BY <1>2, <2>1, <3>1 DEF Record, OwnStep, deviceVars
  <2>3. \A k \in Jobs : Rotating(k)' => k = j
    BY <1>1, <1>2 DEF Overlap
  <2>4. StoreFits(j)' /\ MadeSoFar(j)'
    BY <1>1, <2>1, <2>2, AloneBegins DEF AloneInv
  <2>5. OneActive' /\ OldOrNew(j)'
    BY <1>1, <2>2 DEF AloneInv, OneActive, OldOrNew
  <2> QED BY <1>1, <2>1, <2>2, <2>3, <2>4, <2>5 DEF AloneInv
<1>3. CASE ~(Rotating(j)' /\ ~Rotating(j))
  <2>1. UNCHANGED <<latest, foundRouter, foundActive>>
    BY <1>1, <1>3 DEF Record
  <2>2. CASE DeviceStep(j)
    <3>1. Rotating(j)
      BY <2>2 DEF Rotating, Working, Stopped, DeviceStep, Validate, ValidateFails, RotateOnRouter,
           RotateOnRouterFails, Deactivate, Insert, StoreCredential, StoreCredentialFails,
           RestoreCredential, RestoreCredentialFails, RestoreOnRouter, RestoreOnRouterFails,
           InStep, InRevert
    <3>2. latest = j /\ Rotates(j) /\ StoreFits(j) /\ OneActive /\ OldOrNew(j) /\ MadeSoFar(j)
      BY <1>1, <3>1 DEF AloneInv
    <3>3. StoreFits(j)' /\ OneActive' /\ OldOrNew(j)' /\ MadeSoFar(j)'
      BY <2>1, <2>2, <3>2, AloneCall
    <3>4. \A k \in Jobs : Rotating(k)' => k = j
      BY <1>1, <3>1 DEF AloneInv, Overlap
    <3> QED BY <1>1, <2>1, <3>2, <3>3, <3>4 DEF AloneInv
  <2>3. CASE NamingAlone(j) \/ OwnStep(j)
    <3>1. UNCHANGED <<router, active>>
      BY <2>3 DEF NamingAlone, OwnStep, secretV, deviceVars
    <3>2. OneActive' /\ \A k \in Jobs : latest' = k => Rotates(k)' /\ OldOrNew(k)'
      BY <1>1, <2>1, <3>1 DEF AloneInv, OneActive, OldOrNew
    <3>3. Rotating(j)' => Rotating(j) /\ OwnStep(j)
      BY <1>3, <2>3 DEF NamingAlone, Rotating, Rotates
    <3>4. Rotating(j)' => StoreFits(j)'
      BY <1>1, <2>1, <3>3, AloneOwn DEF AloneInv
    <3>5. ASSUME NEW k \in Jobs, Rotating(k)' PROVE latest' = k /\ StoreFits(k)'
      BY <1>1, <2>1, <3>1, <3>3, <3>4, <3>5 DEF AloneInv
    <3>6. ASSUME latest = j PROVE MadeSoFar(j)'
      <4>1. OwnStep(j) /\ Rotates(j) /\ MadeSoFar(j)
        BY <1>1, <2>3, <3>6 DEF AloneInv, NamingAlone
      <4>2. applied'[j] = applied[j] /\ stage'[j] = stage[j]
        BY <4>1, OwnStepLeads DEF OwnStep, deviceVars
      <4> QED BY <2>1, <3>1, <4>1, <4>2, OwnStepMakesNothing DEF MadeSoFar
    <3>7. \A k \in Jobs : latest' = k => MadeSoFar(k)'
      BY <1>1, <2>1, <3>1, <3>6 DEF AloneInv
    <3> QED BY <1>1, <3>2, <3>5, <3>7 DEF AloneInv
  <2> QED BY <2>2, <2>3
<1> QED BY <1>2, <1>3

LEMMA NextSecretInv ==
  ASSUME IInv, SecretInv, KindOfStep, Record
  PROVE  SecretInv'
<1>1. task' = task
  BY KindIsScheduled, TaskStays
<1>2. SecretsType' /\ \A k \in Jobs : StageFits(k)'
  BY SecretsTypeStep, StageStep DEF SecretInv
<1>3. ASSUME ~overlapped' PROVE AloneInv'
  <2>1. CASE Death
    <3>1. \A k \in Jobs : ~Rotating(k)'
      BY <2>1 DEF Death, Die, IInv, TypeOK, Rotating, Working, Stopped
    <3>2. AloneInv /\ UNCHANGED <<latest, foundRouter, foundActive, router, active>>
      BY <1>3, <2>1, <3>1 DEF Record, SecretInv, Death, secretV
    <3>3. \A k \in Jobs : MadeSoFar(k) => MadeSoFar(k)'
      BY <2>1, <3>2 DEF Death, Die, IInv, TypeOK, Stopped, secretV, MadeSoFar, Behind, InStep,
         InRevert
    <3>4. \A k \in Jobs : Rotates(k)' <=> Rotates(k)
      BY <1>1 DEF Rotates
    <3> QED BY <3>1, <3>2, <3>3, <3>4 DEF AloneInv, Overlap, OneActive, OldOrNew
  <2>2. CASE \E j \in Jobs : DeviceStep(j) \/ NamingAlone(j) \/ OwnStep(j)
    BY <1>1, <1>3, <2>2, AloneStep DEF SecretInv
  <2> QED BY <2>1, <2>2, KindSplits
<1> QED BY <1>2, <1>3 DEF SecretInv

LEMMA StillSecretInv == SecretInv /\ UNCHANGED rotateVars => SecretInv'
BY DEF SecretInv, rotateVars, vars, memory, deviceVars, history, SecretsType, StageFits, Rotates,
       InStep, InRevert, AloneInv, Overlap, Rotating, Working, StoreFits, OneActive, OldOrNew,
       MadeSoFar, Behind, persisted

LEMMA InitSecretInv == Init /\ SecretsAtStart => SecretInv
<1> SUFFICES ASSUME Init, SecretsAtStart PROVE SecretInv
  OBVIOUS
<1>1. SecretsType
  BY DEF SecretsAtStart, SecretsType, Secrets
<1>2. \A j \in Jobs : StageFits(j) /\ ~Rotating(j)
  BY DEF Init, SecretsAtStart, StageFits, Rotating, Working, Stopped
<1>3. \A j \in Jobs : latest # j
  BY SecretsAssumption DEF SecretsAtStart
<1>4. OneActive
  BY DEF SecretsAtStart, OneActive
<1> QED BY <1>1, <1>2, <1>3, <1>4 DEF SecretInv, AloneInv, Overlap

LEMMA StepSecretInv == IInv /\ SecretInv /\ [IdentityNext]_identityVars => IInv' /\ SecretInv'
<1>1. ASSUME IInv, SecretInv, IdentityNext PROVE IInv' /\ SecretInv'
  <2>1. KindOfStep /\ Record
    BY <1>1, StepHasKind DEF IInv
  <2> QED BY <1>1, <2>1, KindIsScheduled, NextIInv, NextSecretInv
<1>2. ASSUME IInv, SecretInv, UNCHANGED identityVars PROVE IInv' /\ SecretInv'
  <2>1. UNCHANGED rotateVars /\ UNCHANGED vars
    BY <1>2 DEF identityVars, rotateVars
  <2> QED BY <1>2, <2>1, NextIInv, StillSecretInv
<1> QED BY <1>1, <1>2

LEMMA SecretInvIsOne == SecretInv => OneUnlessOverlapped
BY DEF SecretInv, AloneInv, OneActive, OldOrNew, OneUnlessOverlapped

LEMMA SecretInvHeals == SecretInv => SuccessHeals
BY DEF SecretInv, AloneInv, MadeSoFar, Behind, SuccessHeals

LEMMA SecretInvRestores == IInv /\ SecretInv => CleanRollbackRestores
<1>1. ASSUME IInv, SecretInv PROVE CleanRollbackRestores
  <2>1. SUFFICES ASSUME NEW j \in Jobs, ~overlapped, latest = j, status[j] = "reverted",
                        applied[j] = {1}
                 PROVE  active = foundActive /\ (router = foundRouter \/ Agreed)
    BY DEF CleanRollbackRestores
  <2>2. stage[j] = "start"
    BY <1>1, <2>1, FinishedRests DEF SecretInv, StageFits, InStep, InRevert, Terminal
  <2> QED BY <1>1, <2>1, <2>2 DEF SecretInv, AloneInv, MadeSoFar, Agreed
<1> QED BY <1>1

-----------------------------------------------------------------------------
(* A store without a secret: whoever has left it so is told by his row.      *)

\* completedSteps holds steps behind the one at work.
CompletedBehind(j) ==
  /\ pc[j] \in {"open", "exec", "record_ok"} => \A i \in completed[j] : i < cur[j]
  /\ pc[j] \in {"progress", "record_failed"} => \A i \in completed[j] : i <= cur[j]

\* replaceCredential of j stands between its statements or has stopped there, and nothing
\* that is still to come of j touches the row of that step but to say that it failed.
LeftGap(j) ==
  /\ Rotates(j)
  /\ rows[j][3] \in {"running", "failed", "reverting", "revert_failed"}
  /\ \/ pc[j] \in {"exec", "revert"} /\ cur[j] = 3 /\ stage[j] = "deactivated"
     \/ pc[j] \in {"record_failed", "record_revert_failed"} /\ cur[j] = 3
     \/ pc[j] \in {"begin_rollback", "rollback"} \cup Reverting /\ 3 \notin completed[j]
     \/ pc[j] \in {"finish_rollback", "catch", "done", "lost"}
  /\ pc[j] \in {"exec", "record_failed"} => 3 \notin completed[j]

GapInv ==
  /\ \A j \in Jobs : CompletedBehind(j)
  /\ active = {} => \E j \in Jobs : LeftGap(j)

LEMMA BehindStep ==
  ASSUME IInv, \A j \in Jobs : CompletedBehind(j), [Next]_vars
  PROVE  \A j \in Jobs : CompletedBehind(j)'
<1>0. TypeOK /\ MaxSteps \in Nat
  BY ConstantsAssumption DEF IInv
<1>1. ASSUME NEW j \in Jobs, Schedule(j) \/ Advance(j) \/ StatementFails(j)
      PROVE  CompletedBehind(j)'
  <2>1. /\ JobInv(j) /\ CompletedBehind(j) /\ cur[j] \in Int
        /\ \A i \in completed[j] : i \in Int
    BY <1>0 DEF IInv, TypeOK, Steps
  <2>. USE <1>0, <2>1 DEF CompletedBehind, TypeOK, Goto
  <2>2. CASE Schedule(j)
    BY <2>2 DEF Schedule
  <2>3. CASE StatementFails(j)
    BY <2>3 DEF StatementFails, UncaughtPoints, StepTryPoints, RevertTryPoints
  <2>4. CASE PersistSteps(j) \/ StartJob(j) \/ OpenStep(j) \/ FinishEmpty(j)
    BY <2>4 DEF PersistSteps, StartJob, OpenStep, FinishEmpty, JobInv, EffectsFit
  <2>5. CASE ExecuteOk(j) \/ ExecuteFails(j) \/ RecordSuccess(j)
    BY <2>5 DEF ExecuteOk, ExecuteFails, RecordSuccess
  <2>6. CASE RecordProgress(j) \/ RecordFailure(j)
    BY <2>6 DEF RecordProgress, RecordFailure, NextStep
  <2>7. CASE \/ FinishFailed(j) \/ FinishSucceeded(j) \/ FinishRollback(j) \/ CatchJob(j)
             \/ RevertOk(j) \/ RevertFails(j) \/ OpenRevert(j)
    BY <2>7 DEF FinishFailed, FinishSucceeded, FinishRollback, CatchJob, RevertOk, RevertFails,
       OpenRevert
  <2>8. CASE BeginRollback(j) \/ SkipRevert(j) \/ RecordReverted(j) \/ RecordRevertFailed(j)
    BY <2>8 DEF BeginRollback, SkipRevert, RecordReverted, RecordRevertFailed, NextRevert
  <2>. QED BY <1>1, <2>2, <2>3, <2>4, <2>5, <2>6, <2>7, <2>8 DEF Advance
<1>2. ASSUME NEW j \in Jobs, NEW k \in Jobs \ {j},
             Schedule(j) \/ Advance(j) \/ StatementFails(j)
      PROVE  CompletedBehind(k)'
  BY <1>0, <1>2, Frame DEF CompletedBehind
<1>3. CASE Die /\ UNCHANGED <<cur, completed>>
  BY <1>0, <1>3 DEF CompletedBehind, Die, TypeOK, Stopped
<1>4. CASE UNCHANGED vars
  BY <1>4 DEF CompletedBehind, vars, memory
<1>5. ASSUME NEW j \in Jobs, Schedule(j) \/ Advance(j) \/ StatementFails(j)
      PROVE  \A k \in Jobs : CompletedBehind(k)'
  <2>1. ASSUME NEW k \in Jobs PROVE CompletedBehind(k)'
    <3>1. CASE k = j
      BY <1>1, <1>5, <3>1
    <3>2. CASE k # j
      BY <1>2, <1>5, <3>2
    <3>. QED BY <3>1, <3>2
  <2>. QED BY <2>1
<1>. QED BY <1>3, <1>4, <1>5 DEF Next, CatchFails, Crash

\* The scheduler's own step of the job that has left the gap.
LEMMA GapOwn ==
  ASSUME IInv, NEW j \in Jobs, LeftGap(j), OwnStep(j), task' = task
  PROVE  LeftGap(j)'
<1>0. /\ TypeOK /\ JobInv(j) /\ Rotates(j)' /\ {1, 2, 3} \subseteq Steps
      /\ task[j].policy = "rollback"
      /\ pc[j] \in Reverting => cur[j] \in completed[j]
  BY RotationShape DEF IInv, JobInv, StepFits, LeftGap, Rotates
<1>1. pc[j] \notin {"lost", "done", "exec", "revert"}
  BY LostTakesNoStep, OwnStepLeads
<1>. USE <1>0, <1>1 DEF LeftGap, TypeOK, Goto, SetRow, Reverting
<1>2. CASE Schedule(j)
  BY <1>2 DEF Schedule
<1>3. CASE StatementFails(j)
  BY <1>3 DEF StatementFails, UncaughtPoints, StepTryPoints, RevertTryPoints, persisted
<1>4. CASE Advance(j)
  <2>1. CASE RecordFailure(j)
    BY <2>1 DEF RecordFailure
  <2>2. CASE BeginRollback(j)
    BY <2>2 DEF BeginRollback, NextRevert
  <2>3. CASE SkipRevert(j)
    BY <2>3 DEF SkipRevert, NextRevert
  <2>4. CASE OpenRevert(j)
    BY <2>4 DEF OpenRevert
  <2>5. CASE RecordReverted(j)
    BY <2>5 DEF RecordReverted, NextRevert
  <2>6. CASE RecordRevertFailed(j)
    BY <2>6 DEF RecordRevertFailed, NextRevert
  <2>7. CASE FinishRollback(j) \/ CatchJob(j)
    BY <2>7 DEF FinishRollback, CatchJob
  <2>8. pc[j] \in {"record_failed", "begin_rollback", "rollback", "record_reverted",
                   "record_revert_failed", "finish_rollback", "catch"}
    OBVIOUS
  <2>. QED BY <1>4, <2>1, <2>2, <2>3, <2>4, <2>5, <2>6, <2>7, <2>8 DEF Advance, PersistSteps,
       StartJob, FinishEmpty, OpenStep, ExecuteOk, ExecuteFails, RecordSuccess, RecordProgress,
       FinishFailed, FinishSucceeded, RevertOk, RevertFails
<1>. QED BY <1>2, <1>3, <1>4 DEF OwnStep

\* A call of a rotation: the one that deactivates may leave a gap, and the job that has
\* left one lets it be.
LEMMA GapCall ==
  ASSUME IInv, SecretsType, NEW j \in Jobs, CompletedBehind(j), DeviceStep(j), task' = task,
         active' = {}
  PROVE  LeftGap(j)' \/ (active = {} /\ (LeftGap(j) => LeftGap(j)'))
<1>0. /\ TypeOK /\ JobInv(j) /\ Rotates(j) /\ Rotates(j)' /\ {1, 2, 3} \subseteq Steps
      /\ pc[j] = "exec" => rows[j][cur[j]] = "running"
      /\ pc[j] = "revert" => cur[j] \in completed[j] /\ rows[j][cur[j]] = "reverting"
  BY RotationShape DEF IInv, JobInv, StepFits, DeviceStep, Rotates, Reverting
<1>. USE <1>0 DEF LeftGap, TypeOK, SecretsType, Goto, Reverting, InStep, InRevert, persisted
<1>1. CASE Validate(j) \/ ValidateFails(j)
  BY <1>1 DEF Validate, ValidateFails, ExecuteOk, ExecuteFails, deviceVars
<1>2. CASE RotateOnRouter(j) \/ RotateOnRouterFails(j)
  BY <1>2 DEF RotateOnRouter, RotateOnRouterFails, ExecuteOk, ExecuteFails
<1>3. CASE Deactivate(j)
  BY <1>3 DEF Deactivate, CompletedBehind, vars, memory
<1>4. CASE Insert(j)
  BY <1>4 DEF Insert
<1>5. CASE StoreCredential(j)
  BY <1>5 DEF StoreCredential, ExecuteOk
<1>6. CASE StoreCredentialFails(j)
  BY <1>6 DEF StoreCredentialFails, ExecuteFails
<1>7. CASE RestoreCredential(j)
  BY <1>7 DEF RestoreCredential, RevertOk
<1>8. CASE RestoreCredentialFails(j)
  BY <1>8 DEF RestoreCredentialFails, RevertFails
<1>9. CASE RestoreOnRouter(j)
  BY <1>9 DEF RestoreOnRouter, RevertOk
<1>10. CASE RestoreOnRouterFails(j)
  BY <1>10 DEF RestoreOnRouterFails, RevertFails
<1>. QED BY <1>1, <1>2, <1>3, <1>4, <1>5, <1>6, <1>7, <1>8, <1>9, <1>10 DEF DeviceStep

\* The steps of one job leave the gap of another one.
LEMMA GapOther ==
  ASSUME TypeOK, SecretsType, NEW j \in Jobs, NEW k \in Jobs \ {j}, LeftGap(k), task' = task,
         DeviceStep(j) \/ NamingAlone(j) \/ OwnStep(j)
  PROVE  LeftGap(k)'
<1>1. rows'[k] = rows[k] /\ completed'[k] = completed[k]
  <2>1. CASE Schedule(j) \/ Advance(j) \/ StatementFails(j)
    BY <2>1, Frame
  <2>2. CASE UNCHANGED vars
    BY <2>2 DEF vars, memory, persisted
  <2>. QED BY <2>1, <2>2, CallIsStep DEF OwnStep
<1>. QED BY <1>1, OthersStay DEF LeftGap, Rotates

LEMMA GapStep ==
  ASSUME IInv, SecretsType, GapInv, KindOfStep
  PROVE  GapInv'
<1>0. TypeOK /\ task' = task /\ \A j \in Jobs : CompletedBehind(j)'
  BY KindIsScheduled, TaskStays, BehindStep DEF IInv, GapInv
<1>. SUFFICES ASSUME active' = {} PROVE \E j \in Jobs : LeftGap(j)'
  BY <1>0 DEF GapInv
<1>1. CASE Die /\ UNCHANGED <<rows, completed, cur, secretV>>
  <2>1. PICK k \in Jobs : LeftGap(k)
    BY <1>1 DEF GapInv, secretV
  <2>2. LeftGap(k)'
    BY <1>0, <1>1, <2>1 DEF LeftGap, Rotates, Die, TypeOK, Stopped
  <2>. QED BY <2>2
<1>2. ASSUME NEW j \in Jobs, DeviceStep(j) \/ NamingAlone(j) \/ OwnStep(j)
      PROVE  \E k \in Jobs : LeftGap(k)'
  <2>1. ASSUME active = {}, LeftGap(j) => LeftGap(j)' PROVE \E k \in Jobs : LeftGap(k)'
    <3>1. PICK k \in Jobs : LeftGap(k)
      BY <2>1 DEF GapInv
    <3>2. CASE k = j
      BY <2>1, <3>1, <3>2
    <3>3. CASE k # j
      BY <1>0, <1>2, <3>1, <3>3, GapOther
    <3>. QED BY <3>2, <3>3
  <2>2. CASE DeviceStep(j)
    BY <1>0, <2>1, <2>2, GapCall DEF GapInv
  <2>3. CASE OwnStep(j)
    BY <1>0, <2>1, <2>3, GapOwn DEF OwnStep, deviceVars
  <2>4. CASE NamingAlone(j)
    BY <2>1, <2>4 DEF NamingAlone, LeftGap, secretV
  <2>. QED BY <1>2, <2>2, <2>3, <2>4
<1>3. CASE \E j \in Jobs : CatchFails(j) /\ UNCHANGED deviceVars
  BY <1>1, <1>3 DEF CatchFails, deviceVars, secretV, persisted
<1>4. CASE Crash /\ UNCHANGED secretV
  BY <1>1, <1>4 DEF Crash, persisted
<1>. QED BY <1>2, <1>3, <1>4 DEF KindOfStep, SchedulerAlone, OwnStep

LEMMA InitGapInv == Init /\ SecretsAtStart => GapInv
BY DEF Init, SecretsAtStart, GapInv, CompletedBehind

LEMMA GapInvTells == GapInv => GapIsTold
BY DEF GapInv, LeftGap, GapIsTold

LEMMA StepGapInv ==
  IInv /\ SecretInv /\ GapInv /\ [IdentityNext]_identityVars => GapInv'
<1>1. ASSUME IInv, SecretInv, GapInv, IdentityNext PROVE GapInv'
  BY <1>1, StepHasKind, GapStep DEF IInv, SecretInv
<1>2. ASSUME GapInv, UNCHANGED identityVars PROVE GapInv'
  BY <1>2 DEF identityVars, rotateVars, vars, persisted, memory, deviceVars, GapInv,
     CompletedBehind, LeftGap, Rotates
<1>. QED BY <1>1, <1>2

-----------------------------------------------------------------------------
(* What holds of the secrets *)

\* The invariant holds of rotations, provisionings and renamings in any interleaving.
THEOREM SecretsInvariant == IdentitySpec => [](IInv /\ SecretInv)
<1>1. IdentityInit => IInv /\ SecretInv
  BY InitIInv, InitSecretInv DEF IdentityInit
<1> QED BY <1>1, StepSecretInv, PTL DEF IdentitySpec

\* While no two rotations have overlapped, the store never holds two active secrets,
\* and a router and a store that agreed hold the secret from before the rotation at
\* work or its own.  Whatever overlaps, a store without a secret has a row that says so.
THEOREM SecretsStayOne == IdentitySpec => []OneSecretAtATime
<1>1. IdentityInit => GapInv
  BY InitGapInv DEF IdentityInit
<1>2. SecretInv /\ GapInv => OneSecretAtATime
  BY SecretInvIsOne, GapInvTells DEF OneSecretAtATime
<1> QED BY <1>1, <1>2, StepGapInv, SecretsInvariant, PTL DEF IdentitySpec

\* A rotation that has succeeded, with none beside it, leaves the router and the store
\* with its own secret, in whatever state it found them.
THEOREM RotationHeals == IdentitySpec => []SuccessHeals
BY SecretInvHeals, SecretsInvariant, PTL

\* A rotation that was rolled back, with none beside it and nothing done by the step that
\* failed, leaves the store as it was and the router as it was or in agreement.
THEOREM RollbackRestores == IdentitySpec => []CleanRollbackRestores
BY SecretInvRestores, SecretsInvariant, PTL

\* What the rows of these jobs say is what happened on the router.
THEOREM IdentityRowsTell == IdentitySpec => []RowsTellEffects
BY IdentityRunsOnScheduler, RowsAreTrue, PTL

-----------------------------------------------------------------------------
(* The identity follows the job *)

\* The step of a provisioning or renaming that sets the identity.
SettingStep(j) == IF Renames(j) THEN 1 ELSE 2

\* What the last of them has made, and what its step's absence leaves.
NameMade(j) ==
  /\ Behind(j, SettingStep(j)) => identity = Wanted(j)
  /\ Provisions(j) /\ 2 \notin applied[j] => identity \in {foundIdentity, Adopted}

\* While no two of them have crossed.
NamingInv ==
  /\ \A j \in Jobs : Rotates(j) \/ Provisions(j) \/ Renames(j)
  /\ ~crossed =>
       /\ \A j, k \in Jobs : Naming(j) /\ Naming(k) => j = k
       /\ \A j \in Jobs : Naming(j) => namer = j
       /\ \A j \in Jobs : namer = j => ~Rotates(j) /\ NameMade(j)

LEMMA NamingShape ==
  ASSUME TypeOK, NEW j \in Jobs, Provisions(j) \/ Renames(j)
  PROVE  /\ task[j].policy = "rollback"
         /\ SettingStep(j) \in 1..task[j].size
         /\ ~(Provisions(j) /\ Renames(j))
         /\ SettingStep(j) \in Steps
<1>1. Provisions(j) => task[j].policy = "rollback" /\ task[j].size = 3
  BY DEF Provisions, ProvisionTask
<1>2. Renames(j) => task[j].policy = "rollback" /\ task[j].size = 1
  BY DEF Renames, RenameTask
<1>3. SettingStep(j) \in 1..task[j].size /\ ~(Provisions(j) /\ Renames(j))
  BY <1>1, <1>2 DEF SettingStep
<1> QED BY <1>1, <1>2, <1>3, TaskShape DEF StepsOf

\* A call of the provisioning or renaming at work.
LEMMA NamingCall ==
  ASSUME IInv, NEW j \in Jobs, Provisions(j) \/ Renames(j), Naming(j), NamingStep(j),
         NameMade(j), task' = task, UNCHANGED foundIdentity
  PROVE  NameMade(j)'
<1>0. /\ TypeOK /\ ~(Provisions(j) /\ Renames(j)) /\ 1 \in Steps /\ (Provisions(j) => 2 \in Steps)
      /\ cur[j] \in Nat
      /\ Provisions(j)' <=> Provisions(j)
      /\ Renames(j)' <=> Renames(j)
      /\ pc[j] \in {"exec", "revert"} => status[j] # "succeeded"
  <2>1. TypeOK /\ MaxSteps \in Nat
    BY ConstantsAssumption DEF IInv
  <2> QED
    BY <2>1, NamingShape, FinishedRests DEF TypeOK, Steps, SettingStep, Provisions, Renames,
       Terminal
<1> USE <1>0 DEF NameMade, SettingStep, Behind, Wanted, TypeOK, Goto, persisted, InStep, InRevert
<1>1. CASE UpdateName(j)
  BY <1>1 DEF UpdateName, Naming, Working, Stopped
<1>2. CASE ReadForProvision(j)
  BY <1>2 DEF ReadForProvision, ExecuteOk
<1>3. CASE ReadForRename(j)
  BY <1>3 DEF ReadForRename, vars, memory
<1>4. CASE SetIdentity(j)
  BY <1>4 DEF SetIdentity, Sets, ExecuteOk
<1>5. CASE SetIdentityFails(j)
  BY <1>5 DEF SetIdentityFails, ExecuteFails
<1>6. CASE Verify(j)
  BY <1>6 DEF Verify, ExecuteOk, namingV
<1>7. CASE ReadOrVerifyFails(j)
  BY <1>7 DEF ReadOrVerifyFails, ExecuteFails, namingV
<1>8. CASE GiveBack(j)
  BY <1>8 DEF GiveBack, RevertOk
<1>9. CASE GiveBackFails(j)
  BY <1>9 DEF GiveBackFails, RevertFails
<1>10. CASE NothingToGiveBack(j)
  BY <1>10 DEF NothingToGiveBack, RevertOk, namingV
<1> QED BY <1>1, <1>2, <1>3, <1>4, <1>5, <1>6, <1>7, <1>8, <1>9, <1>10 DEF NamingStep

\* The steps of the jobs, as far as the identity is concerned.
NamingKindOf(j) ==
  \/ UNCHANGED identity /\ (DeviceStep(j) \/ OwnStep(j))
  \/ NamingStep(j) /\ NamingAlone(j)

LEMMA NamingSplits ==
  ASSUME TypeOK, IdentityNext
  PROVE  /\ (Death /\ UNCHANGED identity) \/ \E j \in Jobs : NamingKindOf(j)
         /\ RecordNaming
<1>1. ASSUME NEW j \in Jobs, SchedulerAlone(j), UNCHANGED namingV
      PROVE  (Death /\ UNCHANGED identity) \/ NamingKindOf(j)
  BY <1>1 DEF SchedulerAlone, CatchFails, Death, OwnStep, NamingKindOf, namingV, secretV, deviceVars,
     persisted
<1>2. ASSUME NEW j \in Jobs, NamingStep(j), UNCHANGED secretV PROVE NamingKindOf(j)
  BY <1>2, NamingStepIsAlone DEF NamingKindOf
<1>3. ASSUME Crash, UNCHANGED secretV PROVE Death
  BY <1>3 DEF Crash, Death, persisted
<1> QED BY <1>1, <1>2, <1>3 DEF IdentityNext, NamingKindOf, namingV

LEMMA NamingOneStep ==
  ASSUME IInv, SecretsType, NamingInv, task' = task, RecordNaming, ~crossed',
         NEW j \in Jobs, NamingKindOf(j)
  PROVE  NamingInv'
<1>0. DeviceStep(j) \/ NamingAlone(j) \/ OwnStep(j)
  BY DEF NamingKindOf
<1>1. /\ TypeOK /\ ~crossed /\ \A i, k \in Jobs : Naming(i)' /\ Naming(k)' => i = k
      /\ \A k \in Jobs : /\ Rotates(k)' <=> Rotates(k)
                         /\ Provisions(k)' <=> Provisions(k)
                         /\ Renames(k)' <=> Renames(k)
  BY DEF RecordNaming, IInv, Rotates, Provisions, Renames
<1>2. ASSUME NEW k \in Jobs \ {j}
      PROVE  /\ Naming(k)' <=> Naming(k)
             /\ NameMade(k) /\ UNCHANGED <<identity, foundIdentity>> => NameMade(k)'
  BY <1>0, <1>1, OthersStay DEF Naming, Working, NameMade, Behind, SettingStep, Wanted
<1>3. CASE Naming(j)' /\ ~Naming(j)
  <2>1. OwnStep(j) /\ ~Rotates(j) /\ ~Working(j) /\ Working(j)' /\ UNCHANGED identity
    <3>1. ~Rotates(j) /\ ~Working(j) /\ Working(j)'
      BY <1>1, <1>3 DEF Naming
    <3>2. ~NamingAlone(j)
      BY <3>1 DEF NamingAlone, Working, Stopped, vars, memory
    <3>3. ~DeviceStep(j)
      BY <3>1 DEF DeviceStep
    <3> QED BY <3>1, <3>2, <3>3 DEF NamingKindOf
  <2>2. namer' = j /\ foundIdentity' = identity
    BY <1>2, <1>3 DEF RecordNaming
  <2>3. NameMade(j)'
    <3>1. pc[j] = "start" /\ status[j] = "queued" /\ (Provisions(j) \/ Renames(j))
      BY <2>1, BeginsAtStart DEF NamingInv
    <3>2. ~Behind(j, SettingStep(j)) /\ SettingStep(j)' = SettingStep(j)
      BY <1>1, <2>1, <3>1, BeginsAtStart DEF Behind, SettingStep
    <3>3. ~Behind(j, SettingStep(j))'
      BY <1>1, <2>1, <3>1, <3>2, NamingShape, BehindStays DEF NamingInv, Behind
    <3> QED BY <2>1, <2>2, <3>3 DEF NameMade
  <2> QED BY <1>1, <1>2, <1>3, <2>1, <2>2, <2>3 DEF NamingInv
<1>4. CASE ~(Naming(j)' /\ ~Naming(j))
  <2>1. UNCHANGED <<namer, foundIdentity>>
    BY <1>2, <1>4 DEF RecordNaming
  <2>2. CASE UNCHANGED identity /\ (DeviceStep(j) \/ OwnStep(j))
    <3>1. ASSUME namer = j PROVE NameMade(j)'
      <4>1. ~Rotates(j) /\ NameMade(j) /\ (Provisions(j) \/ Renames(j)) /\ OwnStep(j)
        BY <1>1, <2>2, <3>1 DEF NamingInv, DeviceStep
      <4>2. Behind(j, SettingStep(j))' => Behind(j, SettingStep(j))
        BY <1>1, <4>1, NamingShape, BehindStays DEF Behind, SettingStep
      <4>3. applied'[j] = applied[j]
        BY <4>1, OwnStepLeads
      <4> QED BY <1>1, <2>1, <2>2, <4>1, <4>2, <4>3 DEF NameMade, Wanted
    <3> QED BY <1>1, <1>2, <1>4, <2>1, <2>2, <3>1 DEF NamingInv
  <2>3. CASE NamingStep(j) /\ NamingAlone(j)
    <3>1. CASE Naming(j)
      <4>1. namer = j /\ ~Rotates(j) /\ NameMade(j) /\ (Provisions(j) \/ Renames(j))
        BY <1>1, <3>1 DEF NamingInv
      <4>2. NameMade(j)'
        BY <2>1, <2>3, <3>1, <4>1, NamingCall
      <4> QED BY <1>1, <1>2, <2>1, <3>1, <4>1, <4>2 DEF NamingInv
    <3>2. CASE ~Naming(j)
      <4>1. UpdateName(j)
        BY <2>3, <3>2 DEF NamingAlone, Naming, Working, Stopped, NamingStep, ReadForProvision,
           ReadForRename, Sets, SetIdentity, SetIdentityFails, Verify, ReadOrVerifyFails,
           GiveBack, GiveBackFails, NothingToGiveBack, InStep, InRevert
      <4>2. UNCHANGED <<vars, identity>>
        BY <4>1 DEF UpdateName
      <4> QED
        BY <1>1, <2>1, <4>2 DEF NamingInv, Naming, Working, NameMade, Behind, SettingStep, Wanted,
           vars, memory, persisted
    <3> QED BY <3>1, <3>2
  <2> QED BY <2>2, <2>3 DEF NamingKindOf
<1> QED BY <1>3, <1>4

LEMMA NextNamingInv ==
  ASSUME IInv, SecretsType, NamingInv, IdentityNext
  PROVE  NamingInv'
<1>1. TypeOK /\ task' = task /\ RecordNaming
  BY StepHasKind, KindIsScheduled, TaskStays, NamingSplits DEF IInv
<1>2. \A k \in Jobs : /\ Rotates(k)' <=> Rotates(k)
                      /\ Provisions(k)' <=> Provisions(k)
                      /\ Renames(k)' <=> Renames(k)
  BY <1>1 DEF Rotates, Provisions, Renames
<1>3. CASE crossed'
  BY <1>2, <1>3 DEF NamingInv
<1>4. CASE ~crossed' /\ Death /\ UNCHANGED identity
  <2>1. \A k \in Jobs : ~Naming(k)'
    BY <1>1, <1>4 DEF Death, Die, TypeOK, Naming, Working, Stopped
  <2>2. UNCHANGED <<namer, foundIdentity>> /\ ~crossed
    BY <1>1, <1>4, <2>1 DEF RecordNaming
  <2>3. \A k \in Jobs : NameMade(k) => NameMade(k)'
    BY <1>1, <1>2, <1>4, <2>2 DEF Death, Die, TypeOK, Stopped, NameMade, Behind, SettingStep, Wanted
  <2> QED BY <1>2, <2>1, <2>2, <2>3 DEF NamingInv
<1>5. CASE ~crossed' /\ \E j \in Jobs : NamingKindOf(j)
  BY <1>1, <1>5, NamingOneStep
<1> QED BY <1>1, <1>3, <1>4, <1>5, NamingSplits

LEMMA InitNamingInv == IdentityInit => NamingInv
BY IdentityAssumption, SecretsAssumption DEF IdentityInit, NamesAtStart, NamingInv, Naming,
   Working, Stopped, Init

LEMMA StepNamingInv ==
  IInv /\ SecretInv /\ NamingInv /\ [IdentityNext]_identityVars => NamingInv'
<1>1. UNCHANGED identityVars /\ NamingInv => NamingInv'
  BY DEF identityVars, rotateVars, namingV, namingPast, vars, memory, persisted, NamingInv,
     Rotates, Provisions, Renames, Naming, Working, NameMade, Behind, SettingStep, Wanted
<1> QED BY <1>1, NextNamingInv DEF SecretInv

LEMMA NamingInvFollows == NamingInv => IdentityFollowsJob
BY DEF NamingInv, NameMade, Behind, IdentityFollowsJob

\* A provisioning or renaming that has succeeded, with none of them beside it, has set the
\* identity of the router, and a provisioning that was rolled back has put it back, whatever
\* rotations have run beside it.
THEOREM IdentityIsKept == IdentitySpec => []IdentityFollowsJob
BY InitNamingInv, StepNamingInv, NamingInvFollows, SecretsInvariant, PTL DEF IdentitySpec

-----------------------------------------------------------------------------
(* The device *)

\* What is proved of the jobs of one matter holds where the other matter rests.
DeviceInv ==
  \/ /\ kind # Resting
     /\ DeployInv /\ BackupInv
     /\ SecretsAtStart /\ NamesAtStart
  \/ /\ kind = Resting
     /\ IInv /\ SecretInv /\ GapInv /\ NamingInv
     /\ MaintenanceAtStart

LEMMA InitDeviceInv == DeviceJobsInit => DeviceInv
<1>1. ASSUME IdentityInit, MaintenanceAtStart, kind = Resting PROVE DeviceInv
  BY <1>1, InitIInv, InitSecretInv, InitGapInv, InitNamingInv DEF IdentityInit, DeviceInv
<1>2. ASSUME MaintenanceInit, SecretsAtStart, NamesAtStart PROVE DeviceInv
  <2>1. CASE kind # Resting
    BY <1>2, <2>1, InitDeployInv, InitBackupInv DEF DeviceInv
  <2>2. CASE kind = Resting
    <3>1. \A j \in Jobs : FALSE
      <4>1. ASSUME NEW j \in Jobs PROVE FALSE
        <5>1. kind[j] \in Kinds
          BY <1>2, InitFirmwareInv DEF FirmwareInv, StateFits
        <5>2. kind[j] = "over_rest"
          BY <2>2 DEF Resting, OverRest
        <5>. QED
          BY <5>1, <5>2, KindsAre
      <4>. QED
        BY <4>1
    <3>2. IdentityInit /\ MaintenanceAtStart
      BY <1>2, <3>1 DEF IdentityInit, MaintenanceInit
    <3>. QED
      BY <1>1, <2>2, <3>2
  <2>. QED
    BY <2>1, <2>2
<1>. QED
  BY <1>1, <1>2 DEF DeviceJobsInit

LEMMA NextDeviceInv ==
  DeviceInv /\ [DeviceJobsNext]_<<maintenanceVars, identityVars>> => DeviceInv'
<1> SUFFICES ASSUME DeviceInv, [DeviceJobsNext]_<<maintenanceVars, identityVars>>
             PROVE  DeviceInv'
  OBVIOUS
<1>1. CASE kind # Resting /\ UNCHANGED kind
  <2>1. DeployInv /\ BackupInv /\ SecretsAtStart /\ NamesAtStart
    BY <1>1 DEF DeviceInv
  <2>2. [MaintenanceNext]_maintenanceVars
        /\ UNCHANGED <<deviceVars, history, namingV, namingPast>>
    BY <1>1 DEF DeviceJobsNext, identityVars, rotateVars
  <2>3. DeployInv' /\ BackupInv'
    BY <2>1, <2>2, NextDeployInv, NextBackupInv
  <2>4. SecretsAtStart' /\ NamesAtStart'
    BY <2>1, <2>2 DEF SecretsAtStart, NamesAtStart, deviceVars, history, namingV, namingPast
  <2>. QED
    BY <1>1, <2>3, <2>4 DEF DeviceInv, Resting
<1>2. CASE kind = Resting /\ UNCHANGED kind
  <2>1. IInv /\ SecretInv /\ GapInv /\ NamingInv /\ MaintenanceAtStart
    BY <1>2 DEF DeviceInv
  <2>2. (IdentityNext \/ UNCHANGED identityVars)
        /\ UNCHANGED <<local, backupV, upgradeV, deployV>>
    BY <1>2 DEF DeviceJobsNext, maintenanceVars
  <2>3. MaintenanceAtStart'
    BY <2>1, <2>2 DEF MaintenanceAtStart, local, backupV, upgradeV, deployV
  <2>4. IInv' /\ SecretInv' /\ GapInv' /\ NamingInv'
    BY <2>1, <2>2, StepSecretInv, StepGapInv, StepNamingInv
  <2>. QED
    BY <1>2, <2>3, <2>4 DEF DeviceInv, Resting
<1>3. UNCHANGED kind
  BY DEF DeviceJobsNext, MaintenanceNext, maintenanceVars
<1>. QED
  BY <1>1, <1>2, <1>3

\* All of it at once, of whatever jobs the page of a device and the services behind it
\* ask for.
THEOREM DeviceIsLookedAfter ==
  DeviceJobsSpec => [](/\ BackupsAreKept /\ FirmwareNeverAhead /\ DeploymentTold
                       /\ SuccessHeals /\ CleanRollbackRestores /\ OneSecretAtATime
                       /\ IdentityFollowsJob)
<1> DEFINE All == /\ BackupsAreKept /\ FirmwareNeverAhead /\ DeploymentTold
                  /\ SuccessHeals /\ CleanRollbackRestores /\ OneSecretAtATime
                  /\ IdentityFollowsJob
<1>1. ASSUME DeviceInv, kind # Resting PROVE All
  <2>1. DeployInv /\ BackupInv /\ FirmwareInv /\ SecretsAtStart /\ NamesAtStart
    BY <1>1 DEF DeviceInv, BackupInv
  <2>2. BackupsAreKept /\ FirmwareNeverAhead /\ DeploymentTold
    BY <2>1, BackupInvKeeps, DeployInvTells DEF FirmwareInv
  <2>3. \A j \in Jobs : latest # j /\ namer # j
    BY <2>1, SecretsAssumption DEF SecretsAtStart, NamesAtStart
  <2>4. SuccessHeals /\ CleanRollbackRestores /\ OneSecretAtATime /\ IdentityFollowsJob
    BY <2>1, <2>3 DEF SecretsAtStart, SuccessHeals, CleanRollbackRestores, OneSecretAtATime,
       OneUnlessOverlapped, GapIsTold, IdentityFollowsJob
  <2>. QED
    BY <2>2, <2>4
<1>2. ASSUME DeviceInv, kind = Resting PROVE All
  <2>1. IInv /\ SecretInv /\ GapInv /\ NamingInv /\ MaintenanceAtStart
    BY <1>2 DEF DeviceInv
  <2>2. SuccessHeals /\ CleanRollbackRestores /\ OneSecretAtATime /\ IdentityFollowsJob
    BY <2>1, SecretInvHeals, SecretInvRestores, SecretInvIsOne, GapInvTells, NamingInvFollows
       DEF OneSecretAtATime
  <2>3. /\ backups = 1..Keep /\ files = 1..Keep /\ firmware.current = 1 /\ version = 1
        /\ deployed = [j \in Jobs |-> "no_row"]
    BY <2>1 DEF MaintenanceAtStart
  <2>4. Cardinality(1..Keep) = Keep /\ Keep \in Nat
    BY FS_Interval, MaintenanceAssumption
  <2>5. BackupsAreKept /\ FirmwareNeverAhead
    BY <2>3, <2>4 DEF BackupsAreKept, FirmwareNeverAhead
  <2>6. DeploymentTold
    BY <1>2, <2>3 DEF DeploymentTold, Resting, OverRest
  <2>. QED
    BY <2>2, <2>5, <2>6
<1>3. DeviceInv => All
  BY <1>1, <1>2
<1>. QED
  BY <1>3, InitDeviceInv, NextDeviceInv, PTL DEF DeviceJobsSpec
=============================================================================
