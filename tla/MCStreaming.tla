------------------------------ MODULE MCStreaming ------------------------------
(* A small instance of StreamingCall for TLC. *)
EXTENDS StreamingCall, TLC

\* The stream of a call has the call's name.
MCStreamOf == [c \in Calls |-> c]

Symmetry == Permutations(Calls)

==============================================================================
