---------------------------- MODULE MCDeviceJobs ----------------------------
(* Small instances of RotateSecret, Identity and Maintenance for TLC. *)
EXTENDS DeviceJobs, TLC

DeviceTasks == {TaskOf(k) : k \in Kinds} \cup {RotationTask, ProvisionTask, RenameTask}

\* Nothing tells the jobs apart.
AnyJob == Permutations(Jobs)
=============================================================================
