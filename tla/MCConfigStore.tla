----------------------------- MODULE MCConfigStore -----------------------------
(* Small instances of ConfigStore and ClientRegistration for TLC. *)
EXTENDS ClientRegistration, TLC

\* Processes are interchangeable, and so are backends.
Symmetry == Permutations(Procs) \cup Permutations(Servers)

==============================================================================
