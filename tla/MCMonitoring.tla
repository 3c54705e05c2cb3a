---------------------------- MODULE MCMonitoring ----------------------------
(* Small instances of Monitoring for TLC. *)
EXTENDS Monitoring
=============================================================================
