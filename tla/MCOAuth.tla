------------------------------- MODULE MCOAuth -------------------------------
(* Small instances of OAuth for TLC. *)
EXTENDS OAuth, TLC

==============================================================================
