---------------------------- MODULE FrontEndProofs ----------------------------
(***************************************************************************)
(* Proofs about the session table and the two front ends, for any number   *)
(* of sessions and of requests under way, any limit and any timeout.       *)
(*                                                                         *)
(* The argument: an entry of the table is as old as the last use of its    *)
(* session, and a session without an entry has expired or was destroyed    *)
(* (Tracked).  So sweeping the table, which every operation may do, loses  *)
(* only sessions that are out of use, and what a sweep leaves is exactly   *)
(* what is in use: a session found is a fresh one, and a table that is     *)
(* full after a sweep is full of fresh sessions.                           *)
(***************************************************************************)
EXTENDS FrontEnd, FiniteSetTheorems, TLAPS

\* What the session table may be.
Table == [Sids -> {Absent} \cup 0..(Timeout + 1)]

\* Table b is table a without some of its expired entries.
Swept(a, b) ==
    /\ b \in Table
    /\ \A s \in Sids : b[s] = a[s] \/ (b[s] = Absent /\ IsExpired(a[s]))

\* An entry is as old as the last use; a session without one is out of use.
Tracked ==
    \A s \in Sids :
        /\ sessions[s] # Absent => sessions[s] = since[s] /\ ~ended[s]
        /\ sessions[s] = Absent => since[s] > Timeout \/ ended[s]

\* The invariant of the table.
SessionsInv == SessionsTypeOK /\ Tracked /\ SessionCapacity

------------------------------------------------------------------------------
(* The operations on the table *)

\* What an operation removes from the table can be removed from its size.
LEMMA ActiveFinite ==
    ASSUME NEW table
    PROVE  IsFiniteSet(Active(table)) /\ Cardinality(Active(table)) \in Nat
BY SessionsAssumption, FS_Subset, FS_CardinalityType DEF Active

\* get_session removes an expired entry and nothing else.
LEMMA GetSessionSweeps ==
    ASSUME NEW table \in Table, NEW s \in Sids
    PROVE  Swept(table, GetSession(table, s))
BY SessionsAssumption DEF Table, Swept, GetSession, Remove, IsExpired, Absent

\* _cleanup_expired after get_session leaves exactly the entries that have not
\* expired.
LEMMA CleanupSweeps ==
    ASSUME NEW a \in Table, NEW b, Swept(a, b)
    PROVE  /\ Swept(a, CleanupExpired(b))
           /\ \A s \in Sids : CleanupExpired(b)[s] # Absent <=> a[s] \in 0..Timeout
BY SessionsAssumption DEF Table, Swept, CleanupExpired, IsExpired, Absent

\* A sweep never makes the table larger.
LEMMA SweepShrinks ==
    ASSUME NEW a, NEW b, Swept(a, b)
    PROVE  Cardinality(Active(b)) <= Cardinality(Active(a))
<1>1. Active(b) \subseteq Active(a)
  BY DEF Swept, Active
<1> QED
  BY <1>1, ActiveFinite, FS_Subset

\* Sweeping the table, and nothing else, keeps the invariant.
LEMMA SweepKeepsInv ==
    ASSUME SessionsInv, Swept(sessions, sessions'), UNCHANGED <<since, ended>>
    PROVE  SessionsInv'
<1>1. SessionsTypeOK' /\ Tracked'
  BY SessionsAssumption DEF SessionsInv, SessionsTypeOK, Tracked, Swept, Table, IsExpired, Absent
<1>2. SessionCapacity'
  <2>1. Cardinality(Active(sessions')) <= Cardinality(Active(sessions))
    BY SweepShrinks
  <2> QED
    BY <2>1, ActiveFinite, SessionsAssumption DEF SessionsInv, SessionCapacity
<1> QED
  BY <1>1, <1>2 DEF SessionsInv

\* So does a sweep after which one session is used, if there is room for it.
LEMMA UseKeepsInv ==
    ASSUME SessionsInv, NEW b, Swept(sessions, b), NEW s \in Sids,
           sessions' = [b EXCEPT ![s] = 0], Used(s),
           s \in Active(b) \/ ~AtCapacity(b)
    PROVE  SessionsInv'
<1>1. SessionsTypeOK' /\ Tracked'
  BY SessionsAssumption
  DEF SessionsInv, SessionsTypeOK, Tracked, Swept, Table, IsExpired, Absent, Used
<1>2. SessionCapacity'
  <2>1. Cardinality(Active(b)) <= MaxSessions
    BY SweepShrinks, ActiveFinite, SessionsAssumption DEF SessionsInv, SessionCapacity
  <2>2. Active(sessions') = Active(b) \cup {s}
    BY DEF Swept, Table, Active, Absent
  <2>3. CASE s \in Active(b)
    <3>1. Active(sessions') = Active(b)
      BY <2>2, <2>3
    <3> QED
      BY <2>1, <3>1 DEF SessionCapacity
  <2>4. CASE s \notin Active(b) /\ ~AtCapacity(b)
    <3>1. Cardinality(Active(sessions')) = Cardinality(Active(b)) + 1
      BY <2>2, <2>4, ActiveFinite, FS_AddElement
    <3> QED
      BY <2>4, <3>1, ActiveFinite, SessionsAssumption DEF SessionCapacity, AtCapacity
  <2> QED
    BY <2>3, <2>4
<1> QED
  BY <1>1, <1>2 DEF SessionsInv

\* touch(s) is a sweep, and a use if the session is there.
LEMMA TouchUses ==
    ASSUME NEW table \in Table, NEW s \in Sids
    PROVE  IF s \in Active(GetSession(table, s))
           THEN Touch(table, s) = [table EXCEPT ![s] = 0] /\ Swept(table, table)
                /\ s \in Active(table) /\ s \in Active(Touch(table, s))
           ELSE Swept(table, Touch(table, s)) /\ s \notin Active(Touch(table, s))
<1>1. Swept(table, GetSession(table, s))
  BY GetSessionSweeps
<1>2. CASE s \in Active(GetSession(table, s))
  BY <1>1, <1>2 DEF Touch, Active, Swept, Table, Absent
<1>3. CASE s \notin Active(GetSession(table, s))
  BY <1>1, <1>3 DEF Touch
<1> QED
  BY <1>2, <1>3

\* get_session finds a session, only if it is in use; _cleanup_expired leaves
\* no other in the table.
LEMMA FoundFresh ==
    ASSUME SessionsInv, NEW s \in Sids
    PROVE  /\ s \in Active(GetSession(sessions, s)) => s \in Fresh
           /\ GetSession(sessions, s) = sessions \/ s \notin Active(GetSession(sessions, s))
           /\ Active(CleanupExpired(GetSession(sessions, s))) \subseteq Fresh
<1>1. sessions \in Table
  BY DEF SessionsInv, SessionsTypeOK, Table
<1>2. \A t \in Sids : CleanupExpired(GetSession(sessions, s))[t] # Absent <=> sessions[t] \in 0..Timeout
  BY <1>1, GetSessionSweeps, CleanupSweeps
<1>3. \A t \in Sids : sessions[t] \in 0..Timeout => t \in Fresh
  BY SessionsAssumption DEF SessionsInv, Tracked, Fresh, Absent
<1>4. /\ s \in Active(GetSession(sessions, s)) => sessions[s] \in 0..Timeout
      /\ GetSession(sessions, s) = sessions \/ s \notin Active(GetSession(sessions, s))
  BY <1>1, SessionsAssumption DEF GetSession, Remove, IsExpired, Active, Table, Absent
<1> QED
  BY <1>2, <1>3, <1>4 DEF Active

------------------------------------------------------------------------------
(* The inductive invariant *)

\* A request that has not been handled has no reply.
HttpInv ==
    /\ HttpTypeOK
    /\ \A r \in Requests : request[r].pc = "posted" => request[r].reply = "none"

\* Every change creates one task that reports it.
StdioInv == StdioTypeOK /\ notifies <= registry

\* The invariant of the front ends.
FrontInv == SessionsInv /\ HttpInv /\ StdioInv /\ mode \in {"start", "mcp"}

\* An empty table, and the table of the stdio server, satisfy the invariant.
LEMMA FrontInitInv == FrontInit => FrontInv
<1> SUFFICES ASSUME FrontInit PROVE FrontInv
  OBVIOUS
<1>1. ASSUME SessionsInit PROVE SessionsInv
  <2>1. SessionsTypeOK /\ Tracked
    BY <1>1, SessionsAssumption DEF SessionsInit, SessionsTypeOK, Tracked, Absent
  <2>2. Active(sessions) = {}
    BY <1>1 DEF SessionsInit, Active
  <2> QED
    BY <2>1, <2>2, FS_EmptySet, SessionsAssumption DEF SessionsInv, SessionCapacity
<1>2. ASSUME StdioSession PROVE SessionsInv
  <2>1. SessionsTypeOK /\ Tracked
    BY <1>2, SessionsAssumption DEF StdioSession, SessionsTypeOK, Tracked, Absent
  <2>2. Active(sessions) = {StdioSid}
    BY <1>2, StdioAssumption DEF StdioSession, Active, Absent
  <2>3. Cardinality({StdioSid}) = 1
    BY FS_Singleton
  <2> QED
    BY <1>2, <2>1, <2>2, <2>3, SessionsAssumption DEF SessionsInv, SessionCapacity, StdioSession
<1>3. HttpInv
  BY DEF FrontInit, HttpInit, HttpInv, HttpTypeOK, Request, NoRequest
<1>4. StdioInv
  BY StdioAssumption
  DEF FrontInit, StdioInit, StdioInv, StdioTypeOK, Version, Out, Plain
<1> QED
  BY <1>1, <1>2, <1>3, <1>4 DEF FrontInit, FrontInv

\* The operations on the table that are not part of a request.
LEMMA TableStepInv ==
    ASSUME SessionsInv,
           (\E s \in Sids : DestroySession(s)) \/ GetStats \/ Tick \/ UNCHANGED sessionVars
    PROVE  SessionsInv'
<1> sessions \in Table
  BY DEF SessionsInv, SessionsTypeOK, Table
<1>1. ASSUME NEW s \in Sids, DestroySession(s) PROVE SessionsInv'
  <2>1. SessionsTypeOK' /\ Tracked'
    BY <1>1, SessionsAssumption
    DEF SessionsInv, SessionsTypeOK, Tracked, DestroySession, Remove, Absent
  <2>2. Active(sessions') \subseteq Active(sessions)
    BY <1>1 DEF DestroySession, Remove, Active, Table
  <2>3. Cardinality(Active(sessions')) <= Cardinality(Active(sessions))
    BY <2>2, ActiveFinite, FS_Subset
  <2> QED
    BY <2>1, <2>3, ActiveFinite, SessionsAssumption DEF SessionsInv, SessionCapacity
<1>2. CASE GetStats
  <2>1. Swept(sessions, sessions)
    BY DEF Swept
  <2>2. Swept(sessions, sessions')
    BY <1>2, <2>1, CleanupSweeps DEF GetStats
  <2> QED
    BY <1>2, <2>2, SweepKeepsInv DEF GetStats
<1>3. CASE Tick
  <2>1. SessionsTypeOK' /\ Tracked'
    BY <1>3, SessionsAssumption DEF SessionsInv, SessionsTypeOK, Tracked, Tick, Older, Absent
  <2>2. Active(sessions') = Active(sessions)
    BY <1>3, SessionsAssumption DEF Tick, Older, Active, Table, Absent
  <2> QED
    BY <2>1, <2>2 DEF SessionsInv, SessionCapacity
<1>4. CASE UNCHANGED sessionVars
  BY <1>4
  DEF sessionVars, SessionsInv, SessionsTypeOK, Tracked, SessionCapacity, Active
<1> QED
  BY <1>1, <1>2, <1>3, <1>4

------------------------------------------------------------------------------
(* HTTP *)

\* Handling a request sweeps the table, and may use one session.
LEMMA HandleKeepsSessions ==
    ASSUME SessionsInv, HttpInv, NEW r \in Requests,
           HandleInitialize(r) \/ HandleFound(r) \/ HandleUnknown(r)
    PROVE  SessionsInv'
<1> sessions \in Table
  BY DEF SessionsInv, SessionsTypeOK, Table
<1> request[r].sid \in Sids \cup {NoSid}
  BY DEF HttpInv, HttpTypeOK, Request
<1>1. ASSUME NEW s \in Sids
      PROVE  /\ Swept(sessions, GetSession(sessions, s))
             /\ Swept(sessions, CleanupExpired(GetSession(sessions, s)))
  BY GetSessionSweeps, CleanupSweeps
<1>2. ASSUME NEW s \in Sids,
             sessions' = Created(GetSession(sessions, s), s), Used(s),
             ~AtCapacity(CleanupExpired(GetSession(sessions, s)))
      PROVE  SessionsInv'
  BY <1>1, <1>2, UseKeepsInv DEF Created
<1>3. ASSUME NEW s \in Sids, UNCHANGED <<since, ended>>,
             \/ sessions' = GetSession(sessions, s)
             \/ sessions' = CleanupExpired(GetSession(sessions, s))
      PROVE  SessionsInv'
  BY <1>1, <1>3, SweepKeepsInv
<1>4. CASE HandleInitialize(r)
  <2>1. PICK s \in Sids :
            \/ UNCHANGED <<since, ended>> /\ sessions' = GetSession(sessions, s)
            \/ UNCHANGED <<since, ended>> /\ sessions' = CleanupExpired(GetSession(sessions, s))
            \/ /\ ~AtCapacity(CleanupExpired(GetSession(sessions, s)))
               /\ sessions' = Created(GetSession(sessions, s), s)
               /\ Used(s)
    BY <1>4 DEF HandleInitialize
  <2> QED
    BY <1>2, <1>3, <2>1
<1>5. CASE HandleFound(r)
  <2> DEFINE s == request[r].sid
  <2>1. s \in Sids /\ s \in Active(GetSession(sessions, s))
    BY <1>5 DEF HandleFound
  <2>2. GetSession(sessions, s) = sessions
    BY <2>1, FoundFresh
  <2>3. CASE Touches(r)
    <3>1. sessions' = [sessions EXCEPT ![s] = 0] /\ s \in Active(sessions) /\ Swept(sessions, sessions)
      BY <1>5, <2>1, <2>2, <2>3, TouchUses DEF HandleFound
    <3>2. Used(s)
      BY <1>5, <2>3 DEF HandleFound
    <3> QED
      BY <2>1, <3>1, <3>2, UseKeepsInv
  <2>4. CASE ~Touches(r)
    BY <1>3, <1>5, <2>1, <2>4 DEF HandleFound
  <2> QED
    BY <2>3, <2>4
<1>6. CASE HandleUnknown(r)
  <2>1. request[r].sid \in Sids
    BY <1>6 DEF HandleUnknown
  <2> QED
    BY <1>2, <1>3, <1>6, <2>1 DEF HandleUnknown
<1> QED
  BY <1>4, <1>5, <1>6

\* The requests stay well formed.
LEMMA HttpStepInv ==
    ASSUME HttpInv, HttpNext
    PROVE  HttpInv'
<1> USE DEF HttpInv, HttpTypeOK, Request, NoRequest
<1>1. ASSUME NEW r \in Requests, NEW reply \in {"ok", "refused", "capacity", "error"}, Reply(r, reply),
             UNCHANGED recovery
      PROVE  HttpInv'
  BY <1>1 DEF Reply
<1>2. ASSUME NEW r \in Requests, NEW s \in Sids \cup {NoSid}, Dispatch(r, s), UNCHANGED recovery
      PROVE  HttpInv'
  BY <1>2 DEF Dispatch
<1>3. ASSUME NEW r \in Requests, NEW msg \in Message, NEW s \in Sids \cup {NoSid}, NEW b \in BOOLEAN,
             Post(r, Kind(msg), s, b)
      PROVE  HttpInv'
  <2>1. Kind(msg) \in {"initialize", "quiet", "local", "routed"}
    BY DEF Kind, Message, Tools
  <2> QED
    BY <1>3, <2>1 DEF Post
<1>4. ASSUME NEW r \in Requests, HandleSessionless(r) PROVE HttpInv'
  BY <1>2, <1>4 DEF HandleSessionless
<1>5. ASSUME NEW r \in Requests, HandleInitialize(r) PROVE HttpInv'
  BY <1>1, <1>5 DEF HandleInitialize
<1>6. ASSUME NEW r \in Requests, HandleMissing(r) PROVE HttpInv'
  BY <1>1, <1>6 DEF HandleMissing
<1>7. ASSUME NEW r \in Requests, HandleFound(r) PROVE HttpInv'
  BY <1>2, <1>7 DEF HandleFound
<1>8. ASSUME NEW r \in Requests, HandleUnknown(r) PROVE HttpInv'
  BY <1>1, <1>2, <1>8 DEF HandleUnknown
<1>9. ASSUME NEW r \in Requests, Answer(r) PROVE HttpInv'
  BY <1>1, <1>9 DEF Answer
<1>10. CASE UNCHANGED httpVars
  BY <1>10 DEF httpVars
<1> HIDE DEF HttpInv, HttpTypeOK, Request, NoRequest
<1> QED
  BY <1>3, <1>4, <1>5, <1>6, <1>7, <1>8, <1>9, <1>10 DEF HttpNext

\* The HTTP front end keeps the invariant of the table.
LEMMA HttpKeepsSessions ==
    ASSUME SessionsInv, HttpInv, HttpNext
    PROVE  SessionsInv'
<1>1. ASSUME NEW r \in Requests, NEW kind, NEW s, NEW b, Post(r, kind, s, b) PROVE UNCHANGED sessionVars
  BY <1>1 DEF Post
<1>2. ASSUME NEW r \in Requests, HandleSessionless(r) \/ HandleMissing(r) \/ Answer(r)
      PROVE  UNCHANGED sessionVars
  BY <1>2 DEF HandleSessionless, HandleMissing, Answer
<1> QED
  BY <1>1, <1>2, HandleKeepsSessions, TableStepInv DEF HttpNext

------------------------------------------------------------------------------
(* Stdio *)

\* The stdio server keeps the invariant of the table.
LEMMA StdioKeepsSessions ==
    ASSUME SessionsInv, StdioNext
    PROVE  SessionsInv'
<1> sessions \in Table
  BY DEF SessionsInv, SessionsTypeOK, Table
<1>1. ASSUME StdioTouch PROVE SessionsInv'
  <2>1. CASE StdioSid \in Active(GetSession(sessions, StdioSid))
    <3>1. /\ sessions' = [sessions EXCEPT ![StdioSid] = 0]
          /\ StdioSid \in Active(sessions)
          /\ StdioSid \in Active(sessions')
          /\ Swept(sessions, sessions)
      BY <1>1, <2>1, TouchUses, StdioAssumption DEF StdioTouch
    <3>2. Used(StdioSid)
      BY <1>1, <3>1 DEF StdioTouch
    <3> QED
      BY <3>1, <3>2, UseKeepsInv, StdioAssumption
  <2>2. CASE StdioSid \notin Active(GetSession(sessions, StdioSid))
    <3>1. Swept(sessions, sessions') /\ StdioSid \notin Active(sessions')
      BY <1>1, <2>2, TouchUses, StdioAssumption DEF StdioTouch
    <3> QED
      BY <1>1, <3>1, SweepKeepsInv DEF StdioTouch
  <2> QED
    BY <2>1, <2>2
<1>2. ASSUME ServeReads PROVE UNCHANGED sessionVars \/ StdioTouch
  BY <1>2 DEF ServeReads
<1>3. ASSUME ServeEnds PROVE DestroySession(StdioSid)
  BY <1>3 DEF ServeEnds
<1>4. ASSUME ServeHandled \/ ServeLocked \/ Notify \/ Broadcast \/ ShutdownBegins \/ ShutdownEnds
      PROVE  UNCHANGED sessionVars
  BY <1>4
  DEF ServeHandled, ServeLocked, Notify, Broadcast, NotifierOnly, ShutdownBegins, ShutdownEnds
<1>5. ASSUME (\E line \in Line : ClientSends(line)) \/ ClientReads \/ ClientHangsUp \/ ClientStopsReading \/ RegistryChanges
      PROVE  UNCHANGED sessionVars
  BY <1>5 DEF ClientSends, ClientReads, ClientHangsUp, ClientStopsReading, RegistryChanges
<1> QED
  BY <1>1, <1>2, <1>3, <1>4, <1>5, TableStepInv, StdioAssumption DEF StdioNext, StdioProgress

\* What is written, and who writes, stays well formed; no more tasks report
\* changes than there were changes.
LEMMA StdioStepInv ==
    ASSUME StdioInv, StdioNext
    PROVE  StdioInv'
<1> USE StdioAssumption DEF StdioInv, StdioTypeOK
<1> Plain \in Out /\ Changed \in Out /\ [kind |-> "found", version |-> registry] \in Out
  BY DEF Plain, Changed, Out, Version
<1>1. ASSUME NEW who \in {"serve", "notifier"}, NEW msg \in Out, Write(who, msg)
      PROVE  outbox' \in Seq(Out) /\ writer' \in {"none", "serve", "notifier"}
  BY <1>1 DEF Write
<1>2. ASSUME NEW msg \in Out, ServeReplies(msg)
      PROVE  /\ outbox' \in Seq(Out)
             /\ writer' \in {"none", "serve", "notifier"}
             /\ serve' \in {"reading", "locking", "draining"}
             /\ answer' \in Out
  BY <1>1, <1>2 DEF ServeReplies
<1>3. CASE ServeEnds
  BY <1>3 DEF ServeEnds, ServeOnly
<1>4. CASE ServeReads
  <2>1. inbox' \in Seq(Line)
    BY <1>4 DEF ServeReads
  <2> QED
    BY <1>2, <1>4, <2>1 DEF ServeReads, ServeOnly
<1>5. CASE ServeHandled
  BY <1>2, <1>5 DEF ServeHandled, ServeOnly
<1>6. CASE ServeLocked
  BY <1>1, <1>6 DEF ServeLocked, ServeOnly
<1>7. CASE Notify
  BY <1>7 DEF Notify, NotifierOnly, Version
<1>8. CASE Broadcast
  BY <1>1, <1>8 DEF Broadcast, NotifierOnly
<1>9. CASE ShutdownBegins \/ ShutdownEnds
  BY <1>9 DEF ShutdownBegins, ShutdownEnds
<1>10. ASSUME NEW line \in Line, ClientSends(line) PROVE StdioInv'
  <2>1. client' \in [sends : BOOLEAN, reads : BOOLEAN, seen : Version, behind : BOOLEAN]
    BY <1>10 DEF ClientSends
  <2>2. inbox' \in Seq(Line)
    BY <1>10 DEF ClientSends
  <2> QED
    BY <1>10, <2>1, <2>2 DEF ClientSends
<1>11. CASE ClientReads
  <2>1. outbox' \in Seq(Out) /\ Head(outbox) \in Out
    BY <1>11 DEF ClientReads
  <2>2. client' \in [sends : BOOLEAN, reads : BOOLEAN, seen : Version, behind : BOOLEAN]
    BY <1>11, <2>1 DEF ClientReads, Out
  <2> QED
    BY <1>11, <2>1, <2>2 DEF ClientReads, Drained
<1>12. CASE ClientHangsUp \/ ClientStopsReading
  <2>1. client' \in [sends : BOOLEAN, reads : BOOLEAN, seen : Version, behind : BOOLEAN]
    BY <1>12 DEF ClientHangsUp, ClientStopsReading
  <2>2. outbox' \in Seq(Out)
    <3>1. CASE outbox' = <<>>
      BY <3>1
    <3>2. CASE UNCHANGED outbox
      BY <3>2
    <3> QED
      BY <1>12, <3>1, <3>2 DEF ClientHangsUp, ClientStopsReading
  <2> QED
    BY <1>12, <2>1, <2>2 DEF ClientHangsUp, ClientStopsReading, Drained
<1>13. CASE RegistryChanges
  BY <1>13 DEF RegistryChanges, Version
<1>14. CASE UNCHANGED stdioVars
  BY <1>14 DEF stdioVars
<1> QED
  BY <1>3, <1>4, <1>5, <1>6, <1>7, <1>8, <1>9, <1>10, <1>11, <1>12, <1>13, <1>14
  DEF StdioNext, StdioProgress

------------------------------------------------------------------------------
(* Theorems *)

\* No step of either front end breaks the invariant.
LEMMA FrontNextInv ==
    ASSUME FrontInv, [FrontNext]_frontVars
    PROVE  FrontInv'
<1>1. CASE HttpNext /\ UNCHANGED <<mode, stdioVars>>
  <2>1. StdioInv'
    BY <1>1 DEF FrontInv, StdioInv, StdioTypeOK, stdioVars
  <2> QED
    BY <1>1, <2>1, HttpKeepsSessions, HttpStepInv DEF FrontInv
<1>2. CASE StdioNext /\ UNCHANGED <<mode, httpVars>>
  <2>1. HttpInv'
    BY <1>2 DEF FrontInv, HttpInv, HttpTypeOK, httpVars
  <2> QED
    BY <1>2, <2>1, StdioKeepsSessions, StdioStepInv DEF FrontInv
<1>3. CASE UNCHANGED frontVars
  <2>1. SessionsInv'
    BY <1>3, TableStepInv DEF FrontInv, frontVars
  <2> QED
    BY <1>3, <2>1
    DEF FrontInv, HttpInv, HttpTypeOK, StdioInv, StdioTypeOK, frontVars, httpVars, stdioVars
<1> QED
  BY <1>1, <1>2, <1>3 DEF FrontNext

\* The inductive invariant holds in every behaviour.
LEMMA FrontInvHolds == FrontSpec => []FrontInv
<1>1. FrontInv /\ [FrontNext]_frontVars => FrontInv'
  BY FrontNextInv
<1> QED
  BY FrontInitInv, <1>1, PTL DEF FrontSpec

\* Sessions, requests, messages and tasks are always well formed.
THEOREM FrontTypes == FrontSpec => []FrontTypeOK
<1>1. FrontInv => FrontTypeOK
  BY DEF FrontInv, SessionsInv, HttpInv, StdioInv, FrontTypeOK
<1> QED
  BY FrontInvHolds, <1>1, PTL

\* SessionManager: a session that is used at least once in every timeout is
\* never lost, for any number of clients, any limit and any timeout.
THEOREM SessionsKept == FrontSpec => []KeptWhileUsed
<1>1. FrontInv => KeptWhileUsed
  BY SessionsAssumption
  DEF FrontInv, SessionsInv, SessionsTypeOK, Tracked, KeptWhileUsed, Fresh, Active, Absent
<1> QED
  BY FrontInvHolds, <1>1, PTL

\* SessionManager: the table never outgrows max_sessions, by whichever path a
\* session comes in.
THEOREM SessionsBounded == FrontSpec => []SessionCapacity
<1>1. FrontInv => SessionCapacity
  BY DEF FrontInv, SessionsInv
<1> QED
  BY FrontInvHolds, <1>1, PTL

\* mcp_post: without recovery only requests of sessions in use are served.
THEOREM OnlyFreshServed == FrontSpec => ServedWhileFresh
<1> DEFINE Served(r) ==
        /\ request[r].kind \in {"local", "routed"}
        /\ request[r].pc = "posted"
        /\ ~request[r].sessionless
        /\ ~recovery
        /\ request'[r].pc = "running" \/ request'[r].reply = "ok"
<1>1. ASSUME FrontInv, FrontNext, NEW r \in Requests, Served(r)
      PROVE  request[r].sid \in Fresh
  <2>1. request[r].reply = "none" /\ request \in [Requests -> Request]
    BY <1>1 DEF FrontInv, HttpInv, HttpTypeOK
  <2>2. request'[r] # request[r]
    BY <1>1, <2>1
  <2>3. HttpNext
    BY <1>1, <2>2 DEF FrontNext, httpVars
  <2>4. ASSUME NEW q \in Requests, q # r,
               \/ \E kind, s, b : Post(q, kind, s, b)
               \/ HandleSessionless(q)
               \/ HandleInitialize(q)
               \/ HandleMissing(q)
               \/ HandleFound(q)
               \/ HandleUnknown(q)
               \/ Answer(q)
        PROVE  request'[r] = request[r]
    BY <2>1, <2>4
    DEF Post, HandleSessionless, HandleInitialize, HandleMissing, HandleFound, HandleUnknown,
        Answer, Reply, Dispatch
  <2>5. HandleFound(r) \/ HandleMissing(r) \/ HandleUnknown(r)
    <3>1. /\ \A kind, s, b : ~Post(r, kind, s, b)
          /\ ~HandleSessionless(r)
          /\ ~HandleInitialize(r)
          /\ ~Answer(r)
      BY <1>1 DEF Post, HandleSessionless, HandleInitialize, Answer
    <3>2. ~UNCHANGED httpVars
      BY <2>2 DEF httpVars
    <3>3. PICK q \in Requests :
              \/ \E kind, s, b : Post(q, kind, s, b)
              \/ HandleSessionless(q)
              \/ HandleInitialize(q)
              \/ HandleMissing(q)
              \/ HandleFound(q)
              \/ HandleUnknown(q)
              \/ Answer(q)
      BY <2>3, <3>2 DEF HttpNext
    <3>4. q = r
      BY <2>2, <2>4, <3>3
    <3> QED
      BY <3>1, <3>3, <3>4
  <2>6. ~HandleMissing(r) /\ ~HandleUnknown(r)
    BY <1>1, <2>1 DEF HandleMissing, HandleUnknown, Reply, NoRequest
  <2>7. /\ request[r].sid \in Sids
        /\ request[r].sid \in Active(GetSession(sessions, request[r].sid))
    BY <2>1, <2>5, <2>6 DEF HandleFound, Request
  <2> QED
    BY <1>1, <2>7, FoundFresh DEF FrontInv
<1>2. FrontInv /\ [FrontNext]_frontVars
        => [\A r \in Requests : Served(r) => request[r].sid \in Fresh]_<<sessionVars, httpVars>>
  BY <1>1 DEF frontVars
<1> QED
  BY FrontInvHolds, <1>2, PTL DEF FrontSpec, ServedWhileFresh

\* mcp_post: a client is turned away for lack of room only if max_sessions
\* sessions are in use.
THEOREM FullOfFresh == FrontSpec => RefusedOnlyWhenFull
<1> DEFINE Refused(r) ==
        /\ request[r].pc = "posted"
        /\ request'[r].reply \in {"capacity", "error"}
        /\ request'[r].pc = "idle"
<1>1. ASSUME FrontInv, FrontNext, NEW r \in Requests, Refused(r)
      PROVE  Cardinality(Fresh) >= MaxSessions
  <2>1. request[r].reply = "none" /\ request \in [Requests -> Request]
    BY <1>1 DEF FrontInv, HttpInv, HttpTypeOK
  <2>2. request'[r] # request[r]
    BY <1>1, <2>1
  <2>3. HttpNext
    BY <1>1, <2>2 DEF FrontNext, httpVars
  <2>4. ~UNCHANGED httpVars
    BY <2>2 DEF httpVars
  <2>5. ~Reply(r, "ok") /\ ~Reply(r, "refused")
    BY <1>1, <2>1 DEF Reply, NoRequest
  <2>6. ASSUME NEW s, Dispatch(r, s) PROVE FALSE
    <3>1. request[r] \in Request
      BY <2>1
    <3>2. CASE request[r].kind = "routed"
      <4>1. request'[r] = [request[r] EXCEPT !.pc = "running", !.sid = s]
        BY <2>1, <2>6, <3>2 DEF Dispatch
      <4>2. request'[r].pc = "running"
        BY <3>1, <4>1 DEF Request
      <4> QED
        BY <1>1, <4>2
    <3>3. CASE request[r].kind # "routed"
      <4>1. request'[r] = [NoRequest EXCEPT !.reply = "ok"]
        BY <2>1, <2>6, <3>3 DEF Dispatch
      <4> QED
        BY <1>1, <4>1 DEF NoRequest
    <3> QED
      BY <3>2, <3>3
  <2>7. ASSUME NEW q \in Requests,
               \/ \E kind, s, b : Post(q, kind, s, b)
               \/ HandleSessionless(q)
               \/ HandleMissing(q)
               \/ HandleFound(q)
               \/ Answer(q)
        PROVE  FALSE
    <3>1. CASE q # r
      BY <2>1, <2>2, <2>7, <3>1
      DEF Post, HandleSessionless, HandleMissing, HandleFound, Answer, Reply, Dispatch
    <3>2. CASE q = r
      <4>1. request[r].pc = "posted"
        BY <1>1
      <4> QED
        BY <2>5, <2>6, <2>7, <3>2, <4>1 DEF Post, HandleSessionless, HandleMissing, HandleFound, Answer
    <3> QED
      BY <3>1, <3>2
  <2>8. PICK q \in Requests : HandleInitialize(q) \/ HandleUnknown(q)
    BY <2>3, <2>4, <2>7 DEF HttpNext
  <2>9. q = r
    BY <2>1, <2>2, <2>8 DEF HandleInitialize, HandleUnknown, Reply, Dispatch
  <2>10. PICK s \in Sids : AtCapacity(CleanupExpired(GetSession(sessions, s)))
    <3>1. CASE HandleInitialize(r)
      BY <2>5, <3>1 DEF HandleInitialize
    <3>2. CASE HandleUnknown(r)
      <4>1. request[r].sid \in Sids
        BY <2>1, <3>2 DEF HandleUnknown, Request
      <4> QED
        BY <2>5, <2>6, <3>2, <4>1 DEF HandleUnknown
    <3> QED
      BY <2>8, <2>9, <3>1, <3>2
  <2>11. Active(CleanupExpired(GetSession(sessions, s))) \subseteq Fresh
    BY <1>1, FoundFresh DEF FrontInv
  <2>12. IsFiniteSet(Fresh) /\ Cardinality(Fresh) \in Nat
    BY SessionsAssumption, FS_Subset, FS_CardinalityType DEF Fresh
  <2>13. Cardinality(Active(CleanupExpired(GetSession(sessions, s)))) <= Cardinality(Fresh)
    BY <2>11, <2>12, FS_Subset
  <2> QED
    BY <2>10, <2>12, <2>13, ActiveFinite, SessionsAssumption DEF AtCapacity
<1>2. FrontInv /\ [FrontNext]_frontVars
        => [\A r \in Requests : Refused(r) => Cardinality(Fresh) >= MaxSessions]_<<sessionVars, httpVars>>
  BY <1>1 DEF frontVars
<1> QED
  BY FrontInvHolds, <1>2, PTL DEF FrontSpec, RefusedOnlyWhenFull

==============================================================================
