----------------------------- MODULE MCSupervisor -----------------------------
(* Small instances of Supervisor for TLC: one backend, a supervisor task. *)
EXTENDS Supervisor, TLC

CONSTANT s1

MCSupTask == [n \in Names |-> s1]

\* Tasks of the manager are interchangeable.
Symmetry == Permutations(Tasks \ {s1})

\* States that differ only in connection objects nobody refers to are the same.
Referenced(c) ==
    \/ \E n \in Names : connections[n] = c
    \/ \E t \in Tasks : job[t].conn = c \/ frame[t].conn = c

View ==
    <<[c \in Conns |->
          IF Referenced(c)
          THEN <<state[c], outbound[c], c \in withTools, inFlight[c], drainEvent[c], drainLock[c]>>
          ELSE <<outbound[c], state[c]>>],
      live, job, mgrVars, supVars>>

==============================================================================
