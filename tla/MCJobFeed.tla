----------------------------- MODULE MCJobFeed -----------------------------
(* Small instances of JobFeed for TLC. *)
EXTENDS JobFeed

\* Two steps that are rolled back with nothing to revert, and one step under each
\* policy, which a rollback must revert.
SmallTasks ==
  {[policy |-> "rollback", size |-> 2, revert |-> [i \in Steps |-> "none"]]}
    \cup {[policy |-> p, size |-> 1, revert |-> [i \in Steps |-> "required"]] : p \in Policies}
=============================================================================
