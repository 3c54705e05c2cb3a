------------------------------ MODULE Identity ------------------------------
(***************************************************************************)
(* The two tasks that set the identity of a router over REST, with the     *)
(* secret that the rotations of RotateSecret change: devices.provision and *)
(* devices.rename-identity, and the form that renames a device.            *)
(* The name that a renaming gives is named by its job.  The identity in    *)
(* the devices table is the one the adoption has read: no task writes it.  *)
(* Definitions whose name begins with Bug are mutants: see Scheduler.      *)
(***************************************************************************)
EXTENDS RotateSecret

Adopted    == "adopted"     \* devices.identity, and the name at the start
Controlled == "controlled"  \* device-<id>

ASSUME IdentityAssumption == Adopted \notin Jobs /\ Controlled \notin Jobs

ProvisionTask ==
  [policy |-> "rollback", size |-> 3,
   revert |-> [i \in Steps |-> IF i = 2 THEN "best_effort" ELSE "none"]]
RenameTask ==
  [policy |-> "rollback", size |-> 1,
   revert |-> [i \in Steps |-> IF i = 1 THEN "best_effort" ELSE "none"]]

Provisions(j) == task[j] = ProvisionTask
Renames(j)    == task[j] = RenameTask

VARIABLES
  identity,  \* system identity of the router
  name,      \* devices.name
  asked,     \* the renamings whose form has stored the name
  login,     \* the secret each job has read to log in with, or Null
  crossed,   \* history: has a provisioning or renaming been at work while another one was
  namer,     \* history: the one that started last, or Null
  foundIdentity  \* history: what it found

secretV      == <<router, active, previous, stage>>
namingV      == <<identity, name, asked, login>>
namingPast   == <<crossed, namer, foundIdentity>>
identityVars == <<rotateVars, namingV, namingPast>>

NamesAtStart ==
  /\ identity = Adopted /\ name = Adopted
  /\ asked = {}
  /\ login = [j \in Jobs |-> Null]
  /\ crossed = FALSE
  /\ namer = Null /\ foundIdentity = Adopted

IdentityInit ==
  /\ Init
  /\ \A j \in Jobs : Rotates(j) \/ Provisions(j) \/ Renames(j)
  /\ SecretsAtStart /\ NamesAtStart

-----------------------------------------------------------------------------
\* The form stores the name, and then hands the job over.
UpdateName(j) ==
  /\ Renames(j) /\ pc[j] = "new" /\ j \notin asked
  /\ name' = j
  /\ asked' = asked \cup {j}
  /\ UNCHANGED <<vars, identity, login>>

HandedOver(j) == pc[j] = "new" /\ Renames(j) => j \in asked

\* getCredentials, getActiveCredential: an active read_only one, kept for the
\* whole of a provisioning.
ReadSecret(j) == \E secret \in active : login' = [login EXCEPT ![j] = secret]

ReadForProvision(j) ==
  /\ Provisions(j) /\ InStep(j, 1)
  /\ ReadSecret(j) /\ ExecuteOk(j)
  /\ UNCHANGED <<identity, name, asked>>

ReadForRename(j) ==
  /\ Renames(j) /\ InStep(j, 1) /\ login[j] = Null
  /\ ReadSecret(j)
  /\ UNCHANGED <<vars, identity, name, asked>>

Sets(j) ==
  \/ Provisions(j) /\ InStep(j, 2)
  \/ Renames(j) /\ InStep(j, 1) /\ login[j] # Null
Wanted(j) == IF Renames(j) THEN j ELSE Controlled

\* client.system.identity.set, for which the secret must be the router's.
SetIdentity(j) ==
  /\ Sets(j) /\ login[j] = router
  /\ identity' = Wanted(j)
  /\ ExecuteOk(j)
  /\ UNCHANGED <<name, asked, login>>

\* No device or secret, a secret that is the router's no more, or an answer lost.
SetIdentityFails(j) ==
  /\ (Renames(j) /\ InStep(j, 1)) \/ (Provisions(j) /\ InStep(j, 2))
  /\ ExecuteFails(j)
  /\ cur[j] \in applied'[j] => Sets(j) /\ login[j] = router
  /\ identity' = IF cur[j] \in applied'[j] THEN Wanted(j) ELSE identity
  /\ UNCHANGED <<name, asked, login>>

\* The third step reads system.resource and touches the row.
Verify(j) ==
  /\ Provisions(j) /\ InStep(j, 3) /\ login[j] = router
  /\ ExecuteOk(j)
  /\ UNCHANGED namingV

ReadOrVerifyFails(j) ==
  /\ Provisions(j) /\ (InStep(j, 1) \/ InStep(j, 3))
  /\ ExecuteFails(j) /\ cur[j] \notin applied'[j]
  /\ UNCHANGED namingV

\* it returns without setting anything, as the revert of a renaming does
BugGiveBack(j) ==
  /\ Provisions(j) /\ InRevert(j, 2)
  /\ RevertOk(j)
  /\ UNCHANGED namingV

\* previousIdentity is what the first step found in the row.
GiveBack(j) ==
  /\ Provisions(j) /\ InRevert(j, 2) /\ login[j] = router
  /\ identity' = Adopted
  /\ RevertOk(j)
  /\ UNCHANGED <<name, asked, login>>

GiveBackFails(j) ==
  /\ Provisions(j) /\ InRevert(j, 2)
  /\ RevertFails(j)
  /\ 2 \notin applied'[j] => login[j] = router
  /\ identity' = IF 2 \in applied'[j] THEN identity ELSE Adopted
  /\ UNCHANGED <<name, asked, login>>

\* The result of the step is not in the payload: there is no previous identity.
NothingToGiveBack(j) ==
  /\ Renames(j) /\ InRevert(j, 1)
  /\ RevertOk(j)
  /\ UNCHANGED namingV

NamingStep(j) ==
  \/ UpdateName(j)
  \/ ReadForProvision(j) \/ ReadForRename(j)
  \/ SetIdentity(j)      \/ SetIdentityFails(j)
  \/ Verify(j)           \/ ReadOrVerifyFails(j)
  \/ GiveBack(j)         \/ GiveBackFails(j)
  \/ NothingToGiveBack(j)

-----------------------------------------------------------------------------
Naming(j) == ~Rotates(j) /\ Working(j)

RecordNaming ==
  /\ crossed' = (crossed \/ \E j, k \in Jobs : j # k /\ Naming(j)' /\ Naming(k)')
  /\ \/ \E j \in Jobs : Naming(j)' /\ ~Naming(j) /\ namer' = j /\ foundIdentity' = identity
     \/ (\A j \in Jobs : Naming(j)' => Naming(j)) /\ UNCHANGED <<namer, foundIdentity>>

IdentityNext ==
  /\ \/ \E j \in Jobs : DeviceStep(j) /\ UNCHANGED namingV
     \/ \E j \in Jobs : HandedOver(j) /\ SchedulerAlone(j) /\ UNCHANGED namingV
     \/ \E j \in Jobs : NamingStep(j) /\ UNCHANGED secretV
     \* a form that has stored the name goes with the process
     \/ /\ Crash
        /\ asked' = {j \in asked : pc[j] # "new"}
        /\ UNCHANGED <<secretV, identity, name, login>>
  /\ Record
  /\ RecordNaming

IdentitySpec == IdentityInit /\ [][IdentityNext]_identityVars

-----------------------------------------------------------------------------
(* Property *)

\* The end of a job tells the identity of the router, as long as no other provisioning
\* or renaming ran beside it: one that succeeded has set it, and a provisioning that
\* was rolled back without a failure has put it back.  Rotations may run beside it:
\* when they take the secret from it, its revert fails and does not just do nothing.
IdentityFollowsJob ==
  \A j \in Jobs :
    (~crossed /\ namer = j /\ ~Naming(j)) =>
      /\ status[j] = "succeeded" => identity = Wanted(j)
      /\ (status[j] = "reverted" /\ Provisions(j) /\ applied[j] \subseteq {1}) =>
           identity \in {foundIdentity, Adopted}

=============================================================================
