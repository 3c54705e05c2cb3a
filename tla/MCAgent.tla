------------------------------ MODULE MCAgent ------------------------------
(* Two routers behind one address; one of them also runs the script.        *)
EXTENDS Agent
CONSTANTS r1, r2
OneAddress == [r \in Routers |-> "nat"]
=============================================================================
