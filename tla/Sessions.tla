------------------------------- MODULE Sessions -------------------------------
(***************************************************************************)
(* The SessionManager (session/manager.py): a table of the clients that    *)
(* have initialized, with an idle time and a limit on its size.  Nothing   *)
(* sweeps it: an expired entry stays in it until an operation finds it.    *)
(* Operations are operators on the table; they contain no await.           *)
(***************************************************************************)
EXTENDS Integers, FiniteSets

CONSTANTS
    Sids,         \* session ids
    MaxSessions,  \* max_sessions
    Timeout       \* timeout_seconds, in ticks

ASSUME SessionsAssumption ==
    /\ IsFiniteSet(Sids)
    /\ MaxSessions \in Nat
    /\ Timeout \in Nat

VARIABLES
    sessions,  \* _sessions: how long each session has been idle, or Absent
    since,     \* history: time since a client of the session last used it
    ended      \* history: it was destroyed since

sessionVars == <<sessions, since, ended>>

Absent == -1

SessionsTypeOK ==
    /\ sessions \in [Sids -> {Absent} \cup 0..(Timeout + 1)]
    /\ since \in [Sids -> 0..(Timeout + 1)]
    /\ ended \in [Sids -> BOOLEAN]

SessionsInit ==
    /\ sessions = [s \in Sids |-> Absent]
    /\ since = [s \in Sids |-> Timeout + 1]
    /\ ended = [s \in Sids |-> FALSE]

Active(table) == {s \in Sids : table[s] # Absent}

\* _is_expired
IsExpired(idle) == idle > Timeout

Remove(table, s) == [table EXCEPT ![s] = Absent]

\* Mutant: expired entries are left to get_session.
CleanupNothing(table) == table

\* _cleanup_expired; get_stats and list_sessions do nothing else to the table.
CleanupExpired(table) ==
    [s \in Sids |-> IF IsExpired(table[s]) THEN Absent ELSE table[s]]

\* Mutant: an entry is found whatever its age.
GetSessionStale(table, s) == table

\* The table after get_session(s): an expired entry goes.
GetSession(table, s) == IF IsExpired(table[s]) THEN Remove(table, s) ELSE table

\* Mutant: touch does not refresh the entry.
TouchNothing(table, s) == GetSession(table, s)

\* The table after touch(s): it never brings a session back.
Touch(table, s) ==
    IF s \in Active(GetSession(table, s))
    THEN [table EXCEPT ![s] = 0]
    ELSE GetSession(table, s)

\* create_session raises ValueError, after it has cleaned up.
AtCapacity(table) == Cardinality(Active(table)) >= MaxSessions

\* The table after a create_session(s) that succeeds.
Created(table, s) == [CleanupExpired(table) EXCEPT ![s] = 0]

\* History: the client of s has used it.
Used(s) ==
    /\ since' = [since EXCEPT ![s] = 0]
    /\ ended' = [ended EXCEPT ![s] = FALSE]

\* destroy_session: DELETE /mcp, DELETE /api/sessions/{id}, and the end of a
\* stdio client.
DestroySession(s) ==
    /\ sessions' = Remove(sessions, s)
    /\ ended' = [ended EXCEPT ![s] = TRUE]
    /\ UNCHANGED since

\* /api/status, /api/sessions
GetStats ==
    /\ sessions' = CleanupExpired(sessions)
    /\ UNCHANGED <<since, ended>>

\* Time passes; beyond the timeout it does not matter how much.
Older(idle) == IF idle \in 0..Timeout THEN idle + 1 ELSE idle

Tick ==
    /\ sessions' = [s \in Sids |-> Older(sessions[s])]
    /\ since' = [s \in Sids |-> Older(since[s])]
    /\ UNCHANGED ended

------------------------------------------------------------------------------
(* Properties *)

\* Sessions that are in use: not destroyed, and used within the timeout.
Fresh == {s \in Sids : since[s] <= Timeout /\ ~ended[s]}

\* A client that uses its session at least once in every timeout keeps it,
\* however often other clients make the manager clean up.
KeptWhileUsed == Fresh \subseteq Active(sessions)

\* The table never outgrows max_sessions, by whichever path a session comes in.
SessionCapacity == Cardinality(Active(sessions)) <= MaxSessions

==============================================================================
