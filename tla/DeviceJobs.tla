----------------------------- MODULE DeviceJobs -----------------------------
(***************************************************************************)
(* The jobs that the page of a managed device and the services behind it   *)
(* ask for: those of Maintenance, and those of Identity, which go over     *)
(* REST.  They share no state but the scheduler's, so that the jobs of a   *)
(* behaviour are about one matter; those of one matter interleave.         *)
(***************************************************************************)
EXTENDS Maintenance, Identity

\* The kind of a job that Identity is about, which is none of Maintenance's.
OverRest == "over_rest"
Resting  == [j \in Jobs |-> OverRest]

DeviceJobsInit ==
  \/ MaintenanceInit /\ SecretsAtStart /\ NamesAtStart
  \/ /\ IdentityInit /\ MaintenanceAtStart
     /\ kind = Resting /\ stored = None /\ ~firmware.available

\* provision, rename, backup, firmwareCheck, firmwareUpgrade, and the rotation
DeviceJobsNext ==
  \/ /\ kind # Resting
     /\ MaintenanceNext
     /\ UNCHANGED <<deviceVars, history, namingV, namingPast>>
  \/ /\ kind = Resting
     /\ IdentityNext
     /\ UNCHANGED <<kind, local, backupV, upgradeV, deployV>>

DeviceJobsSpec ==
  DeviceJobsInit /\ [][DeviceJobsNext]_<<maintenanceVars, identityVars>>
=============================================================================
