------------------------------ MODULE MCAlerts ------------------------------
(* Small instances of Alerts for TLC; evaluations and rows have names there. *)
EXTENDS Alerts
=============================================================================
