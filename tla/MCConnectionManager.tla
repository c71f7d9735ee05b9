------------------------- MODULE MCConnectionManager -------------------------
(* Small instances of ConnectionManager for TLC. *)
EXTENDS ConnectionManager, TLC

\* Tasks are interchangeable, and so are backends that are configured alike.
Symmetry == Permutations(Tasks) \cup Permutations(Lazy \ Pinned) \cup Permutations(Names \ (Lazy \cup Pinned))

\* Connection objects are interchangeable too (a new one is any that is free):
\* an object is what its fields hold and where it is referred to.  One that no
\* table, job or frame refers to is never read again, but for the client it
\* may still hold open.
Users(c) ==
    <<{n \in Names : connections[n] = c},
      {t \in Tasks : job[t].conn = c}, {t \in Tasks : frame[t].conn = c}>>

Fields(c) ==
    <<state[c], outbound[c], c \in withTools, inFlight[c], drainEvent[c], drainLock[c]>>

View ==
    LET used == {c \in Conns : Users(c) # <<{}, {}, {}>>} IN
    <<{<<Users(c), Fields(c)>> : c \in used},
      {outbound[c] : c \in Conns \ used},
      [t \in Tasks |-> <<job[t].op, job[t].client, frame[t].op, frame[t].pc,
                         frame[t].name, frame[t].victim>>],
      live, configured, boot, failed, evictedCaps, registry, lastActivity,
      connecting, lock>>

==============================================================================
