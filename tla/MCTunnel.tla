------------------------------ MODULE MCTunnel ------------------------------
(* Small instances of Tunnel for TLC. *)
EXTENDS Tunnel

BothJobs    == {create, remove}
TunnelTasks == {CreateTask, RemoveTask}

\* Bound: of failing commands, failing statements and crashes any two where no
\* other tunnel is or could be in the way, else none.  The other tunnel has the
\* second /30 only where that is all the two may share.
TwoTroubles ==
  /\ failures + faults + crashes <= IF clash = "none" /\ other = "absent" THEN 2 ELSE 0
  /\ clash # "none" => otherIndex = 0
=============================================================================
