------------------------------ MODULE MCAccess ------------------------------
(* Symmetry of Access for TLC. *)
EXTENDS Access, TLC

AnyRequest == Permutations(Requests) \cup Permutations(Emails)
=============================================================================
