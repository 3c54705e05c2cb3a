----------------------------- MODULE MCTerminal -----------------------------
(* The instance of Terminal that TLC checks has no definitions of its own. *)
EXTENDS Terminal
=============================================================================
