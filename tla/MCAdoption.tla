----------------------------- MODULE MCAdoption -----------------------------
(* Small instances of Adoption for TLC. *)
EXTENDS Adoption

AdoptionTasks == {TaskOf(k) : k \in Kinds}
=============================================================================
