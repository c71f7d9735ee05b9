--------------------------- MODULE ConnectionProofs ---------------------------
(***************************************************************************)
(* Proofs about module Connection: the invariants of MCPConnection hold    *)
(* for any number of connections, clients and tasks.                       *)
(***************************************************************************)
EXTENDS Connection, FiniteSetTheorems, TLAPS

\* A suspended method is a method of a connection, and the steps that open,
\* close or use a client have one.
JobShape ==
    \A t \in Tasks :
        /\ job[t].op # "idle" => job[t].conn \in Conns
        /\ job[t].op \in {"handshake", "discover", "closing", "call"} => job[t].client \in Clients

\* Types and job shapes support each other.
Typed == TypeOK /\ JobShape

\* The invariants hold together: a call that ends finds itself counted, and
\* the count that reaches zero is what wakes the drain.
IInv ==
    /\ Typed
    /\ InFlightCounts
    /\ UpHasOutbound
    /\ DrainLockHeld
    /\ NoLostWakeup

\* A client that can be created is a client.
LEMMA NewClientType ==
    ASSUME CanCreateClient
    PROVE  NewClient \in Clients
BY DEF CanCreateClient, NewClient

\* The initial state is well-typed.
LEMMA InitTyped == ConnInit => Typed
BY DEF ConnInit, Typed, TypeOK, JobShape, ConnectionState, IdleJob, Job, JobOp

\* Suspending in a method keeps the jobs in shape.
LEMMA SuspendShape ==
    ASSUME Typed, NEW t \in Tasks, NEW op \in JobOp \ {"idle"}, NEW c \in Conns,
           NEW k \in Clients \cup {NoClient},
           op \in {"handshake", "discover", "closing", "call"} => k \in Clients,
           Suspend(t, op, c, k)
    PROVE  job' \in [Tasks -> Job] /\ JobShape'
BY DEF Typed, TypeOK, JobShape, Job, Suspend

\* So does the end of a method.
LEMMA FinishShape ==
    ASSUME Typed, NEW t \in Tasks, NEW how \in {"returned", "raised"},
           job[t].op # "idle", Finish(t, how)
    PROVE  job' \in [Tasks -> Job] /\ JobShape'
<1> DEFINE r == [job[t] EXCEPT !.op = how, !.client = NoClient]
<1>1. job[t] \in Job /\ job[t].conn \in Conns
  BY DEF Typed, TypeOK, JobShape
<1>2. how \in JobOp /\ how \notin {"handshake", "discover", "closing", "call"}
  BY DEF JobOp
<1>3. r \in Job /\ r.op = how /\ r.conn \in Conns
  BY <1>1, <1>2 DEF Job
<1>4. job' = [job EXCEPT ![t] = r]
  BY DEF Finish
<1> HIDE DEF r
<1>5. job' \in [Tasks -> Job]
  BY <1>3, <1>4 DEF Typed, TypeOK
<1>6. JobShape'
  BY <1>2, <1>3, <1>4 DEF Typed, TypeOK, JobShape
<1> QED
  BY <1>5, <1>6

\* What suspending does to the jobs, pointwise.
LEMMA SuspendAt ==
    ASSUME Typed, NEW t \in Tasks, NEW op, NEW c, NEW k, Suspend(t, op, c, k)
    PROVE  /\ job'[t].op = op /\ job'[t].conn = c /\ job'[t].client = k
           /\ \A u \in Tasks \ {t} : job'[u] = job[u]
BY DEF Typed, TypeOK, Suspend

\* What finishing does to the jobs, pointwise: the connection is remembered.
LEMMA FinishAt ==
    ASSUME Typed, NEW t \in Tasks, NEW how, Finish(t, how)
    PROVE  /\ job'[t].op = how /\ job'[t].conn = job[t].conn
           /\ \A u \in Tasks \ {t} : job'[u] = job[u]
BY DEF Typed, TypeOK, Job, Finish

\* connect() and its outcomes keep the types.
LEMMA ConnectTyped ==
    ASSUME Typed, NEW t \in Tasks, NEW c \in Conns,
           \/ ConnectNew(t, c)
           \/ Connect(t, c)
           \/ ConnectNoop(t, c)
           \/ HandshakeDone(t)
           \/ ConnectDone(t)
           \/ ConnectAuthRequired(t)
           \/ ConnectFailed(t)
           \/ ConnectCancelled(t)
           \/ ConnectTimedOut(t)
    PROVE  Typed'
<1> USE DEF Typed, TypeOK
<1>1. ASSUME Suspend(t, "handshake", c, NewClient), CanCreateClient
      PROVE  job' \in [Tasks -> Job] /\ JobShape'
  <2>1. NewClient \in Clients
    BY <1>1, NewClientType
  <2>2. "handshake" \in JobOp \ {"idle"}
    BY DEF JobOp
  <2> QED
    BY <1>1, <2>1, <2>2, SuspendShape
<1>2. CASE ConnectNew(t, c)
  <2>1. job' \in [Tasks -> Job] /\ JobShape'
    BY <1>1, <1>2 DEF ConnectNew
  <2>2. state' \in [Conns -> ConnectionState]
    BY <1>2 DEF ConnectNew, ConnectionState
  <2> QED
    BY <1>2, <2>1, <2>2 DEF ConnectNew
<1>3. CASE Connect(t, c)
  <2>1. job' \in [Tasks -> Job] /\ JobShape'
    BY <1>1, <1>3 DEF Connect
  <2>2. state' \in [Conns -> ConnectionState]
    BY <1>3 DEF Connect, ConnectionState
  <2> QED
    BY <1>3, <2>1, <2>2 DEF Connect
<1>4. CASE ConnectNoop(t, c)
  <2>1. "returned" \in JobOp \ {"idle"}
    BY DEF JobOp
  <2>2. job' \in [Tasks -> Job] /\ JobShape'
    BY <1>4, <2>1, SuspendShape DEF ConnectNoop
  <2> QED
    BY <1>4, <2>2 DEF ConnectNoop
<1>5. CASE HandshakeDone(t)
  <2>1. job' \in [Tasks -> Job] /\ JobShape'
    BY <1>5 DEF HandshakeDone, JobShape, Job, JobOp
  <2>2. job[t].client \in Clients
    BY <1>5 DEF HandshakeDone, JobShape
  <2> QED
    BY <1>5, <2>1, <2>2 DEF HandshakeDone
<1>6. CASE ConnectDone(t)
  <2>1. job' \in [Tasks -> Job] /\ JobShape'
    BY <1>6, FinishShape DEF ConnectDone
  <2>2. job[t].conn \in Conns /\ job[t].client \in Clients
    BY <1>6 DEF ConnectDone, JobShape
  <2>3. state' \in [Conns -> ConnectionState]
    BY <1>6 DEF ConnectDone, ConnectionState
  <2> QED
    BY <1>6, <2>1, <2>2, <2>3 DEF ConnectDone
<1>7. CASE ConnectAuthRequired(t)
  <2>1. job' \in [Tasks -> Job] /\ JobShape'
    BY <1>7, FinishShape DEF ConnectAuthRequired
  <2>2. state' \in [Conns -> ConnectionState]
    BY <1>7 DEF ConnectAuthRequired, ConnectionState
  <2> QED
    BY <1>7, <2>1, <2>2 DEF ConnectAuthRequired
<1>8. CASE ConnectFailed(t)
  <2>1. job' \in [Tasks -> Job] /\ JobShape'
    BY <1>8, FinishShape DEF ConnectFailed
  <2>2. state' \in [Conns -> ConnectionState]
    BY <1>8 DEF ConnectFailed, ConnectionState
  <2> QED
    BY <1>8, <2>1, <2>2 DEF ConnectFailed
<1>9. CASE ConnectCancelled(t)
  <2>1. job' \in [Tasks -> Job] /\ JobShape'
    BY <1>9, FinishShape DEF ConnectCancelled
  <2> QED
    BY <1>9, <2>1 DEF ConnectCancelled
<1>10. CASE ConnectTimedOut(t)
  <2>1. job' \in [Tasks -> Job] /\ JobShape'
    BY <1>10, FinishShape DEF ConnectTimedOut
  <2>2. state' \in [Conns -> ConnectionState]
    BY <1>10 DEF ConnectTimedOut, ConnectionState
  <2> QED
    BY <1>10, <2>1, <2>2 DEF ConnectTimedOut
<1> QED
  BY <1>2, <1>3, <1>4, <1>5, <1>6, <1>7, <1>8, <1>9, <1>10

\* disconnect() and drain_and_disconnect() keep the types.
LEMMA DrainTyped ==
    ASSUME Typed, NEW t \in Tasks, NEW c \in Conns,
           \/ Disconnect(t, c)
           \/ CloseDone(t)
           \/ DrainAndDisconnect(t, c)
           \/ DrainLockAcquired(t)
           \/ DrainDone(t)
           \/ DrainTimeout(t)
           \/ DrainCancelled(t)
    PROVE  Typed'
<1> USE DEF Typed, TypeOK
<1>1. {"closing", "returned", "drain_wait", "drain_lock"} \subseteq JobOp \ {"idle"}
  BY DEF JobOp
<1>2. ASSUME NEW d \in Conns, Disconnected(d)
      PROVE  state' \in [Conns -> ConnectionState] /\ outbound' \in [Conns -> Clients \cup {NoClient}]
  BY <1>2 DEF Disconnected, ConnectionState
<1>3. ASSUME NEW d \in Conns, MustClose(d), Suspend(t, "closing", d, outbound[d])
      PROVE  job' \in [Tasks -> Job] /\ JobShape'
  <2>1. outbound[d] \in Clients
    BY <1>3 DEF MustClose
  <2> QED
    BY <1>1, <1>3, <2>1, SuspendShape
<1>4. CASE Disconnect(t, c)
  <2>1. CASE MustClose(c)
    BY <1>3, <1>4, <2>1 DEF Disconnect
  <2>2. CASE ~MustClose(c)
    <3>1. job' \in [Tasks -> Job] /\ JobShape'
      BY <1>1, <1>4, <2>2, SuspendShape DEF Disconnect
    <3> QED
      BY <1>2, <1>4, <2>2, <3>1 DEF Disconnect
  <2> QED
    BY <2>1, <2>2
<1>5. CASE CloseDone(t)
  <2>1. job[t].conn \in Conns
    BY <1>5 DEF CloseDone, JobShape
  <2>2. job' \in [Tasks -> Job] /\ JobShape'
    BY <1>5, FinishShape DEF CloseDone
  <2>3. drainLock' \in [Conns -> Tasks \cup {NoTask}]
    BY <1>5 DEF CloseDone
  <2>4. UNCHANGED <<withTools, inFlight, drainEvent>> /\ live' \in SUBSET Clients
    BY <1>5 DEF CloseDone
  <2>5. state' \in [Conns -> ConnectionState] /\ outbound' \in [Conns -> Clients \cup {NoClient}]
    BY <1>2, <1>5, <2>1 DEF CloseDone
  <2> QED
    BY <2>2, <2>3, <2>4, <2>5
<1>6. ASSUME NEW d \in Conns, DrainLocked(t, d), UNCHANGED <<withTools, inFlight, live>>
      PROVE  Typed'
  <2>1. CASE DrainWaits(t, d)
    <3>1. job' \in [Tasks -> Job] /\ JobShape'
      BY <1>1, <2>1, SuspendShape DEF DrainWaits
    <3>2. state' \in [Conns -> ConnectionState]
      BY <2>1 DEF DrainWaits, ConnectionState
    <3> QED
      BY <1>6, <2>1, <3>1, <3>2 DEF DrainWaits
  <2>2. CASE DrainCloses(t, d) /\ MustClose(d)
    <3>1. job' \in [Tasks -> Job] /\ JobShape'
      BY <1>3, <2>2 DEF DrainCloses
    <3>2. state' \in [Conns -> ConnectionState]
      BY <2>2 DEF DrainCloses, ConnectionState
    <3> QED
      BY <1>6, <2>2, <3>1, <3>2 DEF DrainCloses
  <2>3. CASE DrainCloses(t, d) /\ ~MustClose(d)
    <3>1. job' \in [Tasks -> Job] /\ JobShape'
      BY <1>1, <2>3, SuspendShape DEF DrainCloses
    <3>2. drainLock' \in [Conns -> Tasks \cup {NoTask}] /\ UNCHANGED drainEvent
      BY <2>3 DEF DrainCloses
    <3>3. state' \in [Conns -> ConnectionState] /\ outbound' \in [Conns -> Clients \cup {NoClient}]
      BY <1>2, <2>3 DEF DrainCloses
    <3> QED
      BY <1>6, <3>1, <3>2, <3>3
  <2> QED
    BY <1>6, <2>1, <2>2, <2>3 DEF DrainLocked
<1>7. CASE DrainAndDisconnect(t, c)
  <2>1. CASE DrainLocked(t, c)
    BY <1>6, <1>7, <2>1 DEF DrainAndDisconnect
  <2>2. CASE ~DrainLocked(t, c)
    <3>1. job' \in [Tasks -> Job] /\ JobShape'
      BY <1>1, <1>7, <2>2, SuspendShape DEF DrainAndDisconnect
    <3> QED
      BY <1>7, <2>2, <3>1 DEF DrainAndDisconnect
  <2> QED
    BY <2>1, <2>2
<1>8. CASE DrainLockAcquired(t)
  <2>1. job[t].conn \in Conns
    BY <1>8 DEF DrainLockAcquired, JobShape
  <2> QED
    BY <1>6, <1>8, <2>1 DEF DrainLockAcquired
<1>9. ASSUME job[t].op = "drain_wait", DrainResumes(t)
      PROVE  Typed'
  <2> DEFINE d == job[t].conn
  <2>1. d \in Conns
    BY <1>9 DEF JobShape
  <2>2. CASE MustClose(d)
    <3>1. job' \in [Tasks -> Job] /\ JobShape'
      BY <1>3, <1>9, <2>1, <2>2 DEF DrainResumes
    <3> QED
      BY <1>9, <2>2, <3>1 DEF DrainResumes
  <2>3. CASE ~MustClose(d)
    <3>1. job' \in [Tasks -> Job] /\ JobShape'
      BY <1>9, <2>3, FinishShape DEF DrainResumes
    <3>2. state' \in [Conns -> ConnectionState] /\ outbound' \in [Conns -> Clients \cup {NoClient}]
      BY <1>2, <1>9, <2>1, <2>3 DEF DrainResumes
    <3>3. drainLock' \in [Conns -> Tasks \cup {NoTask}] /\ UNCHANGED <<withTools, inFlight, drainEvent, live>>
      BY <1>9, <2>3 DEF DrainResumes
    <3> QED
      BY <3>1, <3>2, <3>3
  <2> QED
    BY <2>2, <2>3
<1>10. CASE DrainDone(t) \/ DrainTimeout(t)
  BY <1>9, <1>10 DEF DrainDone, DrainTimeout
<1>11. CASE DrainCancelled(t)
  <2>1. job' \in [Tasks -> Job] /\ JobShape'
    BY <1>11, FinishShape DEF DrainCancelled
  <2>2. drainLock' \in [Conns -> Tasks \cup {NoTask}]
    BY <1>11 DEF DrainCancelled
  <2> QED
    BY <1>11, <2>1, <2>2 DEF DrainCancelled
<1> QED
  BY <1>4, <1>5, <1>7, <1>8, <1>10, <1>11

\* The calls, and the rest of the actions, keep the types.
LEMMA CallTyped ==
    ASSUME Typed, NEW t \in Tasks, NEW c \in Conns,
           \/ CallRejected(t, c)
           \/ Call(t, c)
           \/ Collect(t)
    PROVE  Typed'
<1> USE DEF Typed, TypeOK, JobShape, ConnectionState, Job, JobOp, Suspend, Finish
<1>1. CASE CallRejected(t, c)
  BY <1>1 DEF CallRejected
<1>2. CASE Call(t, c)
  BY <1>2 DEF Call, Callable
<1>3. CASE Collect(t)
  BY <1>3 DEF Collect, IdleJob
<1> QED
  BY <1>1, <1>2, <1>3

\* A step of a task: it begins a method of some connection, or goes on with
\* the one it is suspended in.
MethodStep(t, c) ==
    \/ ConnectNew(t, c)
    \/ Connect(t, c)
    \/ ConnectNoop(t, c)
    \/ HandshakeDone(t)
    \/ ConnectDone(t)
    \/ ConnectAuthRequired(t)
    \/ ConnectFailed(t)
    \/ ConnectCancelled(t)
    \/ ConnectTimedOut(t)
    \/ Disconnect(t, c)
    \/ CloseDone(t)
    \/ DrainAndDisconnect(t, c)
    \/ DrainLockAcquired(t)
    \/ DrainDone(t)
    \/ DrainTimeout(t)
    \/ DrainCancelled(t)
    \/ CallRejected(t, c)
    \/ Call(t, c)
    \/ CallDone(t)
    \/ Collect(t)

\* UpHasOutbound is preserved: an outbound client is dropped only together
\* with the state that needs it.
LEMMA StepUp ==
    ASSUME IInv, NEW t \in Tasks, NEW c \in Conns, MethodStep(t, c)
    PROVE  UpHasOutbound'
<1> USE DEF IInv, Typed, TypeOK, UpHasOutbound, ConnectionState
<1>1. CASE ConnectNew(t, c)
  BY <1>1 DEF ConnectNew, Unused
<1>2. CASE Connect(t, c)
  BY <1>2 DEF Connect
<1>3. CASE ConnectNoop(t, c)
  BY <1>3 DEF ConnectNoop
<1>4. CASE HandshakeDone(t)
  BY <1>4 DEF HandshakeDone
<1>5. CASE ConnectDone(t)
  BY <1>5, NullsAssumption DEF ConnectDone, JobShape
<1>6. CASE ConnectAuthRequired(t)
  BY <1>6 DEF ConnectAuthRequired
<1>7. CASE ConnectFailed(t)
  BY <1>7 DEF ConnectFailed
<1>8. CASE ConnectCancelled(t)
  BY <1>8 DEF ConnectCancelled
<1>9. CASE ConnectTimedOut(t)
  BY <1>9 DEF ConnectTimedOut
<1>10. CASE Disconnect(t, c)
  BY <1>10 DEF Disconnect, MustClose, Disconnected
<1>11. CASE CloseDone(t)
  BY <1>11 DEF CloseDone, Disconnected
<1>12. CASE DrainAndDisconnect(t, c)
  BY <1>12 DEF DrainAndDisconnect, DrainLocked, DrainWaits, DrainCloses, MustClose, Disconnected
<1>13. CASE DrainLockAcquired(t)
  BY <1>13 DEF DrainLockAcquired, DrainLocked, DrainWaits, DrainCloses, MustClose, Disconnected
<1>14. CASE DrainDone(t)
  BY <1>14 DEF DrainDone, DrainResumes, MustClose, Disconnected
<1>15. CASE DrainTimeout(t)
  BY <1>15 DEF DrainTimeout, DrainResumes, MustClose, Disconnected
<1>16. CASE DrainCancelled(t)
  BY <1>16 DEF DrainCancelled
<1>17. CASE CallRejected(t, c)
  BY <1>17 DEF CallRejected
<1>18. CASE Call(t, c)
  BY <1>18 DEF Call, Callable
<1>19. CASE CallDone(t)
  BY <1>19 DEF CallDone
<1>20. CASE Collect(t)
  BY <1>20 DEF Collect, IdleJob
<1> QED
  BY <1>1, <1>2, <1>3, <1>4, <1>5, <1>6, <1>7, <1>8, <1>9, <1>10, <1>11, <1>12, <1>13, <1>14, <1>15, <1>16, <1>17, <1>18, <1>19, <1>20 DEF MethodStep

\* DrainLockHeld is preserved: the lock is taken and given back together with
\* the job that runs under it.
LEMMA StepLock ==
    ASSUME IInv, NEW t \in Tasks, NEW c \in Conns, MethodStep(t, c)
    PROVE  DrainLockHeld'
<1> USE DEF IInv, Typed, TypeOK, JobShape, DrainLockHeld, Free
<1>1. CASE ConnectNew(t, c)
  BY <1>1, SuspendAt, FinishAt, NullsAssumption DEF ConnectNew, Unused
<1>2. CASE Connect(t, c)
  BY <1>2, SuspendAt, FinishAt, NullsAssumption DEF Connect
<1>3. CASE ConnectNoop(t, c)
  BY <1>3, SuspendAt, FinishAt, NullsAssumption DEF ConnectNoop
<1>4. CASE HandshakeDone(t)
  BY <1>4, SuspendAt, FinishAt, NullsAssumption DEF HandshakeDone
<1>5. CASE ConnectDone(t)
  BY <1>5, SuspendAt, FinishAt, NullsAssumption DEF ConnectDone
<1>6. CASE ConnectAuthRequired(t)
  BY <1>6, SuspendAt, FinishAt, NullsAssumption DEF ConnectAuthRequired
<1>7. CASE ConnectFailed(t)
  BY <1>7, SuspendAt, FinishAt, NullsAssumption DEF ConnectFailed
<1>8. CASE ConnectCancelled(t)
  BY <1>8, SuspendAt, FinishAt, NullsAssumption DEF ConnectCancelled
<1>9. CASE ConnectTimedOut(t)
  BY <1>9, SuspendAt, FinishAt, NullsAssumption DEF ConnectTimedOut
<1>10. CASE Disconnect(t, c)
  BY <1>10, SuspendAt, FinishAt, NullsAssumption DEF Disconnect, MustClose, Disconnected
<1>11. CASE CloseDone(t)
  BY <1>11, SuspendAt, FinishAt, NullsAssumption DEF CloseDone, Disconnected
<1>12. CASE DrainAndDisconnect(t, c)
  BY <1>12, SuspendAt, FinishAt, NullsAssumption DEF DrainAndDisconnect, DrainLocked, DrainWaits, DrainCloses, MustClose, Disconnected
<1>13. CASE DrainLockAcquired(t)
  BY <1>13, SuspendAt, FinishAt, NullsAssumption DEF DrainLockAcquired, DrainLocked, DrainWaits, DrainCloses, MustClose, Disconnected
<1>14. CASE DrainDone(t)
  BY <1>14, SuspendAt, FinishAt, NullsAssumption DEF DrainDone, DrainResumes, MustClose, Disconnected
<1>15. CASE DrainTimeout(t)
  BY <1>15, SuspendAt, FinishAt, NullsAssumption DEF DrainTimeout, DrainResumes, MustClose, Disconnected
<1>16. CASE DrainCancelled(t)
  BY <1>16, SuspendAt, FinishAt, NullsAssumption DEF DrainCancelled
<1>17. CASE CallRejected(t, c)
  BY <1>17, SuspendAt, FinishAt, NullsAssumption DEF CallRejected
<1>18. CASE Call(t, c)
  BY <1>18, SuspendAt, FinishAt, NullsAssumption DEF Call, Callable
<1>19. CASE CallDone(t)
  BY <1>19, SuspendAt, FinishAt, NullsAssumption DEF CallDone
<1>20. CASE Collect(t)
  BY <1>20, SuspendAt, FinishAt, NullsAssumption DEF Collect, IdleJob
<1> QED
  BY <1>1, <1>2, <1>3, <1>4, <1>5, <1>6, <1>7, <1>8, <1>9, <1>10, <1>11, <1>12, <1>13, <1>14, <1>15, <1>16, <1>17, <1>18, <1>19, <1>20 DEF MethodStep

\* There are finitely many calls on a connection.
LEMMA CallsFinite ==
    ASSUME NEW c \in Conns
    PROVE  IsFiniteSet(Calls(c)) /\ Cardinality(Calls(c)) \in Nat
BY FiniteAssumption, FS_Subset, FS_CardinalityType DEF Calls

\* A step that neither begins nor ends a call leaves the calls alone.
LEMMA CallsSame ==
    ASSUME NEW t \in Tasks, job[t].op # "call", job'[t].op # "call",
           \A u \in Tasks \ {t} : job'[u] = job[u]
    PROVE  \A c \in Conns : Calls(c)' = Calls(c)
BY DEF Calls

\* InFlightCounts is preserved: only Call and CallDone change the calls, and
\* a new connection object has none.
LEMMA StepCounts ==
    ASSUME IInv, NEW t \in Tasks, NEW c \in Conns, MethodStep(t, c)
    PROVE  InFlightCounts'
<1> USE DEF IInv, Typed, TypeOK, InFlightCounts, Free
<1>1. CASE ConnectNew(t, c)
  <2>1. Calls(c) = {}
    BY <1>1 DEF ConnectNew, Unused, Calls
  <2>2. \A d \in Conns : Calls(d)' = Calls(d)
    BY <1>1, SuspendAt, CallsSame DEF ConnectNew
  <2> QED
    BY <1>1, <2>1, <2>2, FS_EmptySet DEF ConnectNew
<1>2. CASE Connect(t, c)
  BY <1>2, SuspendAt, FinishAt, CallsSame DEF Connect
<1>3. CASE ConnectNoop(t, c)
  BY <1>3, SuspendAt, FinishAt, CallsSame DEF ConnectNoop
<1>4. CASE HandshakeDone(t)
  BY <1>4, SuspendAt, FinishAt, CallsSame DEF HandshakeDone
<1>5. CASE ConnectDone(t)
  BY <1>5, SuspendAt, FinishAt, CallsSame DEF ConnectDone
<1>6. CASE ConnectAuthRequired(t)
  BY <1>6, SuspendAt, FinishAt, CallsSame DEF ConnectAuthRequired
<1>7. CASE ConnectFailed(t)
  BY <1>7, SuspendAt, FinishAt, CallsSame DEF ConnectFailed
<1>8. CASE ConnectCancelled(t)
  BY <1>8, SuspendAt, FinishAt, CallsSame DEF ConnectCancelled
<1>9. CASE ConnectTimedOut(t)
  BY <1>9, SuspendAt, FinishAt, CallsSame DEF ConnectTimedOut
<1>10. CASE Disconnect(t, c)
  BY <1>10, SuspendAt, FinishAt, CallsSame DEF Disconnect, MustClose, Disconnected
<1>11. CASE CloseDone(t)
  BY <1>11, SuspendAt, FinishAt, CallsSame DEF CloseDone, Disconnected
<1>12. CASE DrainAndDisconnect(t, c)
  BY <1>12, SuspendAt, FinishAt, CallsSame DEF DrainAndDisconnect, DrainLocked, DrainWaits, DrainCloses, MustClose, Disconnected
<1>13. CASE DrainLockAcquired(t)
  BY <1>13, SuspendAt, FinishAt, CallsSame DEF DrainLockAcquired, DrainLocked, DrainWaits, DrainCloses, MustClose, Disconnected
<1>14. CASE DrainDone(t)
  BY <1>14, SuspendAt, FinishAt, CallsSame DEF DrainDone, DrainResumes, MustClose, Disconnected
<1>15. CASE DrainTimeout(t)
  BY <1>15, SuspendAt, FinishAt, CallsSame DEF DrainTimeout, DrainResumes, MustClose, Disconnected
<1>16. CASE DrainCancelled(t)
  BY <1>16, SuspendAt, FinishAt, CallsSame DEF DrainCancelled
<1>17. CASE CallRejected(t, c)
  BY <1>17, SuspendAt, FinishAt, CallsSame DEF CallRejected
<1>18. CASE Call(t, c)
  <2>1. t \notin Calls(c) /\ Calls(c)' = Calls(c) \cup {t}
    BY <1>18, SuspendAt DEF Call, Calls
  <2>2. \A d \in Conns \ {c} : Calls(d)' = Calls(d)
    BY <1>18, SuspendAt DEF Call, Calls
  <2>3. Cardinality(Calls(c) \cup {t}) = Cardinality(Calls(c)) + 1
    BY <2>1, CallsFinite, FS_AddElement
  <2> QED
    BY <1>18, <2>1, <2>2, <2>3 DEF Call
<1>19. CASE CallDone(t)
  <2>0. PICK d \in Conns : d = job[t].conn
    BY <1>19 DEF CallDone, JobShape
  <2>1. t \in Calls(d) /\ Calls(d)' = Calls(d) \ {t}
    BY <1>19, <2>0, FinishAt DEF CallDone, Calls
  <2>2. \A e \in Conns \ {d} : Calls(e)' = Calls(e)
    BY <1>19, <2>0, FinishAt DEF CallDone, Calls
  <2>3. Cardinality(Calls(d) \ {t}) = Cardinality(Calls(d)) - 1
    BY <2>1, CallsFinite, FS_RemoveElement
  <2> QED
    BY <1>19, <2>0, <2>1, <2>2, <2>3 DEF CallDone
<1>20. CASE Collect(t)
  BY <1>20, SuspendAt, FinishAt, CallsSame DEF Collect, IdleJob
<1> QED
  BY <1>1, <1>2, <1>3, <1>4, <1>5, <1>6, <1>7, <1>8, <1>9, <1>10, <1>11, <1>12, <1>13, <1>14, <1>15, <1>16, <1>17, <1>18, <1>19, <1>20 DEF MethodStep

\* A connection with a pending call counts at least that one.
LEMMA CallCounted ==
    ASSUME IInv, NEW t \in Tasks, job[t].op = "call"
    PROVE  job[t].conn \in Conns /\ inFlight[job[t].conn] \in Nat \ {0}
<1> DEFINE d == job[t].conn
<1>1. d \in Conns /\ t \in Calls(d)
  BY DEF IInv, Typed, JobShape, Calls
<1>2. Cardinality(Calls(d)) # 0
  BY <1>1, CallsFinite, FS_EmptySet
<1> QED
  BY <1>1, <1>2, CallsFinite DEF IInv, InFlightCounts

\* NoLostWakeup is preserved: one drain at a time owns the event, and the call
\* that brings the count to zero sets it.
LEMMA StepWakeup ==
    ASSUME IInv, NEW t \in Tasks, NEW c \in Conns, MethodStep(t, c)
    PROVE  NoLostWakeup'
<1> USE DEF IInv, Typed, TypeOK, JobShape, NoLostWakeup, Free
<1>1. CASE ConnectNew(t, c)
  BY <1>1, SuspendAt, FinishAt DEF ConnectNew, Unused
<1>2. CASE Connect(t, c)
  BY <1>2, SuspendAt, FinishAt DEF Connect
<1>3. CASE ConnectNoop(t, c)
  BY <1>3, SuspendAt, FinishAt DEF ConnectNoop
<1>4. CASE HandshakeDone(t)
  BY <1>4, SuspendAt, FinishAt DEF HandshakeDone
<1>5. CASE ConnectDone(t)
  BY <1>5, SuspendAt, FinishAt DEF ConnectDone
<1>6. CASE ConnectAuthRequired(t)
  BY <1>6, SuspendAt, FinishAt DEF ConnectAuthRequired
<1>7. CASE ConnectFailed(t)
  BY <1>7, SuspendAt, FinishAt DEF ConnectFailed
<1>8. CASE ConnectCancelled(t)
  BY <1>8, SuspendAt, FinishAt DEF ConnectCancelled
<1>9. CASE ConnectTimedOut(t)
  BY <1>9, SuspendAt, FinishAt DEF ConnectTimedOut
<1>10. CASE Disconnect(t, c)
  BY <1>10, SuspendAt, FinishAt DEF Disconnect, MustClose, Disconnected
<1>11. CASE CloseDone(t)
  BY <1>11, SuspendAt, FinishAt DEF CloseDone, Disconnected
<1>12. CASE DrainAndDisconnect(t, c)
  BY <1>12, SuspendAt, FinishAt DEF DrainAndDisconnect, DrainLocked, DrainWaits, DrainCloses, MustClose, Disconnected
<1>13. CASE DrainLockAcquired(t)
  BY <1>13, SuspendAt, FinishAt DEF DrainLockAcquired, DrainLocked, DrainWaits, DrainCloses, MustClose, Disconnected
<1>14. CASE DrainDone(t)
  BY <1>14, SuspendAt, FinishAt DEF DrainDone, DrainResumes, MustClose, Disconnected
<1>15. CASE DrainTimeout(t)
  BY <1>15, SuspendAt, FinishAt DEF DrainTimeout, DrainResumes, MustClose, Disconnected
<1>16. CASE DrainCancelled(t)
  BY <1>16, SuspendAt, FinishAt DEF DrainCancelled
<1>17. CASE CallRejected(t, c)
  BY <1>17, SuspendAt, FinishAt DEF CallRejected
<1>18. CASE Call(t, c)
  BY <1>18, SuspendAt, FinishAt DEF Call, Callable
<1>19. CASE CallDone(t)
  BY <1>19, SuspendAt, FinishAt, CallCounted DEF CallDone
<1>20. CASE Collect(t)
  BY <1>20, SuspendAt, FinishAt DEF Collect, IdleJob
<1> QED
  BY <1>1, <1>2, <1>3, <1>4, <1>5, <1>6, <1>7, <1>8, <1>9, <1>10, <1>11, <1>12, <1>13, <1>14, <1>15, <1>16, <1>17, <1>18, <1>19, <1>20 DEF MethodStep

\* A call that ends keeps the types: the count it decrements is positive.
LEMMA CallDoneTyped ==
    ASSUME IInv, NEW t \in Tasks, CallDone(t)
    PROVE  Typed'
<1> USE DEF IInv, Typed, TypeOK
<1>1. job' \in [Tasks -> Job] /\ JobShape'
  BY FinishShape DEF CallDone
<1>2. inFlight' \in [Conns -> Nat]
  BY CallCounted DEF CallDone
<1>3. drainEvent' \in [Conns -> {"none", "unset", "set"}]
  BY DEF CallDone
<1> QED
  BY <1>1, <1>2, <1>3 DEF CallDone

\* Every step of a task preserves the inductive invariant.
LEMMA MethodStepInv ==
    ASSUME IInv, NEW t \in Tasks, NEW c \in Conns, MethodStep(t, c)
    PROVE  IInv'
<1>1. Typed'
  BY ConnectTyped, DrainTyped, CallTyped, CallDoneTyped DEF IInv, MethodStep
<1> QED
  BY <1>1, StepUp, StepLock, StepCounts, StepWakeup DEF IInv

\* A dying upstream and the hooks of the supervisor do not touch what the
\* invariants are about.
LEMMA OtherStepInv ==
    ASSUME IInv,
           \/ \E k \in Clients : UpstreamDies(k)
           \/ \E c \in Conns, to \in {"reconnecting", "circuit_open", "failed"} : Hook(c, to)
           \/ UNCHANGED connVars
    PROVE  IInv'
<1> USE DEF IInv, Typed, TypeOK, JobShape, InFlightCounts, Calls, UpHasOutbound,
            DrainLockHeld, NoLostWakeup
<1>1. CASE \E k \in Clients : UpstreamDies(k)
  BY <1>1 DEF UpstreamDies
<1>2. CASE \E c \in Conns, to \in {"reconnecting", "circuit_open", "failed"} : Hook(c, to)
  BY <1>2 DEF Hook, ConnectionState
<1>3. CASE UNCHANGED connVars
  BY <1>3 DEF connVars
<1> QED
  BY <1>1, <1>2, <1>3

\* The initial state satisfies the inductive invariant.
LEMMA InitInv == ConnInit => IInv
<1> SUFFICES ASSUME ConnInit PROVE IInv
  OBVIOUS
<1>1. \A c \in Conns : Calls(c) = {}
  BY DEF ConnInit, Calls, IdleJob
<1>2. InFlightCounts
  BY <1>1, FS_EmptySet DEF InFlightCounts, ConnInit
<1>3. UpHasOutbound /\ DrainLockHeld /\ NoLostWakeup
  BY NullsAssumption DEF ConnInit, UpHasOutbound, DrainLockHeld, NoLostWakeup, IdleJob
<1> QED
  BY <1>2, <1>3, InitTyped DEF IInv

\* A step of the specification is a step of a task or one of the others.
LEMMA NextInv == IInv /\ [ConnNext]_connVars => IInv'
<1> SUFFICES ASSUME IInv, [ConnNext]_connVars PROVE IInv'
  OBVIOUS
<1>1. ASSUME NEW t \in Tasks, JobStep(t) \/ ConnectCancelled(t) \/ ConnectTimedOut(t)
                               \/ DrainTimeout(t) \/ DrainCancelled(t) \/ Collect(t)
      PROVE  IInv'
  <2>1. job[t].op # "idle"
    BY <1>1 DEF JobStep, ConnectCancelled, ConnectTimedOut, DrainTimeout, DrainCancelled,
                Collect, HandshakeDone, ConnectDone, ConnectAuthRequired, ConnectFailed,
                CloseDone, DrainLockAcquired, DrainDone, CallDone
  <2>2. PICK c \in Conns : c = job[t].conn
    BY <2>1 DEF IInv, Typed, JobShape
  <2>3. MethodStep(t, c)
    BY <1>1 DEF JobStep, MethodStep
  <2> QED
    BY <2>3, MethodStepInv
<1>2. ASSUME NEW t \in Tasks, NEW c \in Conns, Begin(t, c)
      PROVE  IInv'
  BY <1>2, MethodStepInv DEF Begin, MethodStep
<1> QED
  BY <1>1, <1>2, OtherStepInv DEF ConnNext

\* The inductive invariant holds in every reachable state of the most general
\* client of MCPConnection.
THEOREM ConnInvariance == ConnSpec => []IInv
<1> QED
  BY InitInv, NextInv, PTL DEF ConnSpec

\* Type correctness of MCPConnection's state.
THEOREM ConnTypeCorrect == ConnSpec => []TypeOK
<1>1. IInv => TypeOK
  BY DEF IInv, Typed
<1> QED
  BY <1>1, ConnInvariance, PTL

\* _in_flight counts the pending calls exactly, for any number of tasks that
\* call, drain, reconnect and are cancelled in any order.
THEOREM InFlightExact == ConnSpec => []InFlightCounts
<1>1. IInv => InFlightCounts
  BY DEF IInv
<1> QED
  BY <1>1, ConnInvariance, PTL

\* A connection reported as up has an outbound client to dispatch on.
THEOREM UpImpliesOutbound == ConnSpec => []UpHasOutbound
<1>1. IInv => UpHasOutbound
  BY DEF IInv
<1> QED
  BY <1>1, ConnInvariance, PTL

\* Drains exclude each other, and no outcome leaves the drain lock behind.
THEOREM DrainExclusion == ConnSpec => []DrainLockHeld
<1>1. IInv => DrainLockHeld
  BY DEF IInv
<1> QED
  BY <1>1, ConnInvariance, PTL

\* A waiting drain is never left without a wake-up once the last call ended.
THEOREM DrainWoken == ConnSpec => []NoLostWakeup
<1>1. IInv => NoLostWakeup
  BY DEF IInv
<1> QED
  BY <1>1, ConnInvariance, PTL

==============================================================================
