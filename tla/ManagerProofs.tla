----------------------------- MODULE ManagerProofs -----------------------------
(***************************************************************************)
(* Proofs about module ConnectionManager, for any number of backends,      *)
(* connections and tasks.                                                  *)
(*                                                                         *)
(* Types need Shaped: a task has a method under way where its frame says   *)
(* so, and none elsewhere.  With them every step is one of Connection, so  *)
(* that what ConnectionProofs shows holds in the fleet.                    *)
(*                                                                         *)
(* MgrInv is kept whatever operations and faults occur: the gate of        *)
(* _connect_timed (OneAttempt) and the lock (Held) support each other;     *)
(* Distinct and OwnConn say that the connection of a backend is worked on  *)
(* for that backend only; Synced, that a backend the registry does not list*)
(* as it is has a task that will see to it.                                *)
(*                                                                         *)
(* The rest holds of some fleets only, and says of which.  No call is cut  *)
(* (Closes, Waits) where no drain gives up and nobody reconnects.  Pinned  *)
(* backends stay up (Spared, Brought, Sheltered) where nobody reconfigures *)
(* and connect_all brings them up (Stable).  No session is orphaned (Kept) where nobody replaces a  *)
(* connection object under an attempt (Settled).  Capabilities stay listed *)
(* and backends stay tracked (Knows, OneEviction, Accounted) where clients *)
(* call and idle backends are evicted (Steady).                            *)
(***************************************************************************)
EXTENDS ConnectionManager, ConnectionProofs

\* What a task that is in frame f may be waiting for.
TaskFits(f, j) ==
    /\ j.op = "idle" => j = IdleJob
    /\ f.pc \notin {"connecting", "evicting", "draining", "closing", "calling",
                    "attempt", "done", "dropping", "disconnecting"} => j.op = "idle"
    /\ f.pc = "connecting" => j.op \in {"handshake", "discover", "returned", "raised"}
    /\ f.pc \in {"evicting", "draining"} => j.op \in {"drain_lock", "drain_wait", "closing", "returned"}
    /\ f.pc = "closing" => j.op \in {"closing", "returned"}
    /\ f.pc = "calling" => j.op \in {"call", "returned", "raised"}
    /\ f.pc = "attempt" => j.op \in {"handshake", "discover", "returned", "raised"}
    /\ f.pc = "done" => j.op \in {"idle", "raised"}
    /\ f.pc \in {"dropping", "disconnecting"} => j.op \in {"idle", "closing", "returned"}

\* The names and connections that a frame must have.
FrameShape(f) ==
    /\ f.pc \in {"connecting", "joining", "joined", "gate", "calling", "closing", "draining", "add", "dropping"}
          => f.name \in Names
    /\ f.pc \in {"evict", "evicting"} => f.victim \in Names
    /\ f.pc = "gate" => f.conn \in Conns
    /\ f.op = "remove" => f.pc = "draining"

\* Every task has the frame and the method that fit each other.
Shaped == \A t \in Tasks : FrameShape(frame[t]) /\ TaskFits(frame[t], job[t])

\* Types of the manager, of the connections and of the tasks.
MgrTyped == MgrTypeOK /\ Typed /\ Shaped

\* Of all tasks only t, of all connections only c, may have changed.
OnlyTask(t) == \A u \in Tasks \ {t} : job'[u] = job[u]

\* Of the states, clients and capabilities, only those of c.
OnlyConn(c) ==
    \A d \in Conns \ {c} :
        state'[d] = state[d] /\ outbound'[d] = outbound[d] /\ (d \in withTools' <=> d \in withTools)

\* Connection c does not come up, and its capabilities are not listed again.
Sinks(c) == (state'[c] = "connected" => state[c] = "connected") /\ UNCHANGED withTools

------------------------------------------------------------------------------
(* What the methods of a connection do to the task and to the connection *)

\* A new connection object is one, and nobody refers to it.
LEMMA NewConnFresh ==
    ASSUME \E c \in Conns : FreshConn(c)
    PROVE  NewConn \in Conns /\ FreshConn(NewConn)
BY DEF NewConn

\* What goes on inside a suspended method.
LEMMA UpstreamMoves ==
    ASSUME Typed, NEW t \in Tasks, Upstream(t)
    PROVE  /\ job[t].op \in {"handshake", "discover", "drain_lock", "drain_wait", "closing", "call"}
           /\ job[t].conn \in Conns /\ job'[t].conn = job[t].conn
           /\ OnlyTask(t) /\ OnlyConn(job[t].conn)
           /\ job[t].op = "handshake" => job'[t].op \in {"discover", "returned", "raised"}
           /\ job[t].op = "discover" => job'[t].op = "returned"
           /\ job[t].op = "drain_lock" => job'[t].op \in {"drain_wait", "closing", "returned"}
           /\ job[t].op = "drain_wait" => job'[t].op \in {"closing", "returned"}
           /\ job[t].op = "closing" => job'[t].op = "returned"
           /\ job[t].op = "call" => job'[t].op \in {"returned", "raised"} /\ UNCHANGED <<state, withTools>>
           /\ job[t].op \notin {"handshake", "discover"} => Sinks(job[t].conn)
<1> DEFINE c == job[t].conn
<1> USE DEF Sinks
<1>0. job[t].op # "idle" => c \in Conns
  BY DEF Typed, JobShape
<1>t. state \in [Conns -> ConnectionState] /\ outbound \in [Conns -> Clients \cup {NoClient}]
  BY DEF Typed, TypeOK
<1>1. CASE HandshakeDone(t)
  <2>1. job'[t].op = "discover" /\ job'[t].conn = c /\ OnlyTask(t)
    BY <1>1 DEF HandshakeDone, Typed, TypeOK, Job, OnlyTask
  <2> QED
    BY <1>0, <1>1, <2>1 DEF HandshakeDone, OnlyConn
<1>2. CASE ConnectDone(t)
  BY <1>0, <1>t, <1>2, FinishAt DEF ConnectDone, OnlyTask, OnlyConn
<1>3. CASE CloseDone(t)
  BY <1>0, <1>t, <1>3, FinishAt DEF CloseDone, Disconnected, OnlyTask, OnlyConn
<1>4. CASE DrainLockAcquired(t)
  BY <1>0, <1>t, <1>4, SuspendAt DEF DrainLockAcquired, DrainLocked, DrainWaits, DrainCloses, Disconnected,
     OnlyTask, OnlyConn
<1>5. CASE DrainResumes(t) /\ job[t].op = "drain_wait"
  BY <1>0, <1>t, <1>5, SuspendAt, FinishAt DEF DrainResumes, Disconnected, OnlyTask, OnlyConn
<1>6. CASE CallDone(t)
  BY <1>0, <1>6, FinishAt DEF CallDone, OnlyTask, OnlyConn
<1>7. CASE ConnectFailed(t)
  BY <1>0, <1>t, <1>7, FinishAt DEF ConnectFailed, OnlyTask, OnlyConn
<1>8. CASE ConnectAuthRequired(t)
  BY <1>0, <1>t, <1>8, FinishAt DEF ConnectAuthRequired, OnlyTask, OnlyConn
<1> QED
  BY <1>1, <1>2, <1>3, <1>4, <1>5, <1>6, <1>7, <1>8 DEF Upstream, DrainDone, DrainTimeout

\* A drain begins: it waits for the lock or for calls, closes, or is over.
LEMMA DrainBegins ==
    ASSUME Typed, NEW t \in Tasks, NEW c \in Conns, DrainAndDisconnect(t, c)
    PROVE  /\ job'[t].op \in {"drain_lock", "drain_wait", "closing", "returned"} /\ job'[t].conn = c
           /\ OnlyTask(t) /\ OnlyConn(c) /\ Sinks(c)
<1>1. state \in [Conns -> ConnectionState] /\ outbound \in [Conns -> Clients \cup {NoClient}]
  BY DEF Typed, TypeOK
<1> QED
  BY <1>1, SuspendAt DEF DrainAndDisconnect, DrainLocked, DrainWaits, DrainCloses, Disconnected,
     OnlyTask, OnlyConn, Sinks

\* A disconnect begins: it closes, or is over.
LEMMA DisconnectBegins ==
    ASSUME Typed, NEW t \in Tasks, NEW c \in Conns, Disconnect(t, c)
    PROVE  /\ job'[t].op \in {"closing", "returned"} /\ job'[t].conn = c
           /\ OnlyTask(t) /\ OnlyConn(c) /\ Sinks(c)
<1>1. state \in [Conns -> ConnectionState] /\ outbound \in [Conns -> Clients \cup {NoClient}]
  BY DEF Typed, TypeOK
<1> QED
  BY <1>1, SuspendAt DEF Disconnect, Disconnected, OnlyTask, OnlyConn, Sinks

\* A call begins, or is refused.
LEMMA CallBegins ==
    ASSUME Typed, NEW t \in Tasks, NEW c \in Conns, Call(t, c) \/ CallRejected(t, c)
    PROVE  /\ job'[t].op \in {"call", "raised"} /\ job'[t].conn = c /\ OnlyTask(t)
           /\ UNCHANGED <<state, outbound, withTools, live>>
BY SuspendAt DEF Call, CallRejected, OnlyTask

\* The caller goes on.
LEMMA Collects ==
    ASSUME Typed, NEW t \in Tasks, Collect(t)
    PROVE  /\ job'[t] = IdleJob /\ OnlyTask(t)
           /\ UNCHANGED <<state, outbound, withTools, inFlight, drainEvent, drainLock, live>>
BY DEF Collect, Typed, TypeOK, OnlyTask

\* _connect_timed begins an attempt with a new connection, or joins one.
LEMMA ConnectBegins ==
    ASSUME MgrTyped, NEW t \in Tasks, NEW op, NEW n \in Names, ConnectTimed(t, op, n)
    PROVE  /\ OnlyTask(t)
           /\ UNCHANGED <<outbound, live>>
           /\ frame' = [frame EXCEPT ![t] = NewFrame(op, IF connecting[n] = NoTask THEN "connecting" ELSE "joining", n, NoName)]
           /\ connecting[n] = NoTask =>
                 /\ NewConn \in Conns /\ FreshConn(NewConn)
                 /\ ConnectNew(t, NewConn)
                 /\ job'[t].op = "handshake" /\ job'[t].conn = NewConn
                 /\ OnlyConn(NewConn) /\ state'[NewConn] = "connecting"
                 /\ connections' = [connections EXCEPT ![n] = NewConn]
                 /\ connecting' = [connecting EXCEPT ![n] = t]
           /\ connecting[n] # NoTask =>
                 /\ job'[t] = IdleJob
                 /\ UNCHANGED <<state, withTools, inFlight, drainEvent, drainLock, connections, connecting>>
<1> USE DEF MgrTyped, Typed, TypeOK
<1>1. CASE connecting[n] = NoTask
  <2>1. NewConn \in Conns /\ FreshConn(NewConn) /\ ConnectNew(t, NewConn)
    BY <1>1, NewConnFresh DEF ConnectTimed
  <2>2. job'[t].op = "handshake" /\ job'[t].conn = NewConn /\ OnlyTask(t)
    BY <2>1, SuspendAt DEF ConnectNew, OnlyTask
  <2>3. OnlyConn(NewConn) /\ state'[NewConn] = "connecting" /\ UNCHANGED <<outbound, live>>
    BY <2>1 DEF ConnectNew, OnlyConn
  <2> QED
    BY <1>1, <2>1, <2>2, <2>3 DEF ConnectTimed, SetFrame
<1>2. CASE connecting[n] # NoTask
  BY <1>2 DEF ConnectTimed, SetFrame, OnlyTask
<1> QED
  BY <1>1, <1>2

------------------------------------------------------------------------------
(* The manager uses connections as module Connection allows *)

\* What the manager does with its connections.  Only the reconnect route
\* disconnects without a drain, only a drain that times out stops waiting, and
\* only a connect that times out is given up.
Uses ==
    \/ \E t \in Tasks : JobStep(t) \/ Collect(t)
    \/ "timeout" \in Ops /\ \E t \in Tasks : ConnectTimedOut(t)
    \/ \E t \in Tasks, c \in Conns :
          ConnectNew(t, c) \/ DrainAndDisconnect(t, c) \/ Call(t, c) \/ CallRejected(t, c)
    \/ "reconnect" \in Ops /\ \E t \in Tasks, c \in Conns : Disconnect(t, c)
    \/ "drain_timeout" \in Ops /\ \E t \in Tasks : DrainTimeout(t)

\* _connect_timed calls connect() on a new object, or only collects an outcome.
LEMMA ConnectUses ==
    ASSUME MgrTyped, NEW t \in Tasks, NEW op, NEW n \in Names, ConnectTimed(t, op, n), Free(t)
    PROVE  [Uses]_connVars
<1>1. CASE connecting[n] = NoTask
  BY <1>1, ConnectBegins DEF Uses
<1>2. CASE connecting[n] # NoTask /\ job[t].op = "idle"
  <2>1. job[t] = IdleJob /\ job \in [Tasks -> Job]
    BY <1>2 DEF MgrTyped, Typed, TypeOK, Shaped, TaskFits
  <2>2. job' = [job EXCEPT ![t] = IdleJob]
    BY <1>2 DEF ConnectTimed
  <2> QED
    BY <1>2, <2>1, <2>2 DEF ConnectTimed, connVars
<1>3. CASE connecting[n] # NoTask /\ job[t].op # "idle"
  <2>1. Collect(t)
    BY <1>3 DEF ConnectTimed, Collect, Free
  <2> QED
    BY <2>1 DEF Uses
<1> QED
  BY <1>1, <1>2, <1>3

\* Backends that are connected, evicted or drained have a connection.
LEMMA NamedConn ==
    ASSUME MgrTyped, NEW n \in Names, connections[n] # NoConn
    PROVE  connections[n] \in Conns
BY DEF MgrTyped, MgrTypeOK

\* evict() starts a drain.
LEMMA EvictUses ==
    ASSUME MgrTyped, NEW t \in Tasks, NEW v \in Names, EvictBegin(t, v)
    PROVE  [Uses]_connVars
BY NamedConn DEF EvictBegin, Uses

\* Every step of an operation that goes on is a step of a connection.
LEMMA ContinueUses ==
    ASSUME MgrTyped, NEW t \in Tasks, Continue(t)
    PROVE  [Uses]_connVars
<1>0. FrameShape(frame[t]) /\ TaskFits(frame[t], job[t])
  BY DEF MgrTyped, Shaped
<1>1. CASE Upstream(t)
  BY <1>1 DEF Upstream, Uses, JobStep
<1>2. CASE ConnectSucceeded(t) \/ ConnectErrored(t) \/ RouteEnds(t) \/ RemoveEnd(t) \/ ReplaceDrained(t)
  BY <1>2 DEF ConnectSucceeded, ConnectErrored, RouteEnds, RemoveEnd, ReplaceDrained, Uses
<1>3. CASE ConnectExpires(t)
  BY <1>3 DEF ConnectExpires, Uses
<1>4. CASE Joined(t)
  BY <1>4 DEF Joined
<1>5. CASE EvictEnd(t)
  <2>1. CASE frame[t].name = NoName
    BY <1>5, <2>1 DEF EvictEnd, Uses
  <2>2. CASE frame[t].name # NoName
    <3>1. frame[t].name \in Names
      BY <2>2 DEF MgrTyped, MgrTypeOK, Frame
    <3> QED
      BY <1>5, <2>2, <3>1, ConnectUses DEF EvictEnd, Ended, Free
  <2> QED
    BY <2>1, <2>2
<1>6. CASE ReaperEvicts(t)
  BY <1>0, <1>6, EvictUses DEF ReaperEvicts, At, FrameShape
<1>7. CASE ReconnectClosed(t)
  BY <1>0, <1>7, ConnectUses DEF ReconnectClosed, At, Ended, Free, FrameShape
<1>8. CASE Dispatch(t)
  BY <1>0, <1>8 DEF Dispatch, At, FrameShape, Uses
<1>9. CASE ReplaceAdds(t)
  BY <1>0, <1>9, ConnectUses DEF ReplaceAdds, AddServer, At, FrameShape, TaskFits, Free
<1> QED
  BY <1>1, <1>2, <1>3, <1>4, <1>5, <1>6, <1>7, <1>8, <1>9 DEF Continue

\* So is every start of an operation.
LEMMA StartUses ==
    ASSUME MgrTyped, NEW t \in Tasks, NEW n \in Names, Start(t, n)
    PROVE  [Uses]_connVars
<1>0. Idle(t) => Free(t)
  BY DEF Idle, Free
<1>1. ASSUME NEW op, EnsureConnected(t, op, n), Idle(t) PROVE [Uses]_connVars
  <2>1. \A v \in LRUVictims(n) : v \in Names
    BY DEF LRUVictims, LiveOthers
  <2> QED
    BY <1>0, <1>1, <2>1, ConnectUses, EvictUses DEF EnsureConnected
<1>2. CASE Boot(t, n)
  BY <1>0, <1>2, ConnectUses DEF Boot
<1>3. CASE Stop(t, n)
  BY <1>3, EvictUses DEF Stop
<1>4. CASE Warm(t, n)
  BY <1>1, <1>4 DEF Warm
<1>5. CASE Reconnect(t, n)
  BY <1>0, <1>5, ConnectUses, NamedConn DEF Reconnect, Up, Uses
<1>6. CASE Route(t, n)
  BY <1>1, <1>6 DEF Route
<1>7. CASE Add(t, n)
  BY <1>0, <1>7, ConnectUses DEF Add, AddServer
<1>8. CASE Remove(t, n)
  BY <1>8, NamedConn DEF Remove, DrainOld, Uses
<1>9. CASE Replace(t, n)
  BY <1>0, <1>9, ConnectUses, NamedConn DEF Replace, DrainOld, AddServer, Uses
<1> QED
  BY <1>2, <1>3, <1>4, <1>5, <1>6, <1>7, <1>8, <1>9 DEF Start

\* What the manager may do, whichever tasks are ahead of the others.
Moves ==
    \/ \E t \in Tasks : Continue(t)
    \/ \E t \in Tasks, n \in Names : Start(t, n)
    \/ Sweep
    \/ \E n \in Names : Ages(n)
    \/ UNCHANGED vars

\* The manager is a client of its connections: every step of it is a step of
\* one of them, or leaves them alone.
LEMMA MovesUse ==
    ASSUME MgrTyped, Moves
    PROVE  [Uses]_connVars
BY ContinueUses, StartUses DEF Moves, Sweep, Ages, vars

\* So is every step of its specification.
LEMMA NextUses ==
    ASSUME MgrTyped, [Next]_vars
    PROVE  [Uses]_connVars
BY MovesUse DEF Next, Moves

\* And the connections allow it.
LEMMA MovesAreConn ==
    ASSUME MgrTyped, Moves
    PROVE  [ConnNext]_connVars
BY MovesUse DEF Uses, ConnNext, Begin

------------------------------------------------------------------------------
(* Types *)

\* The tables of the manager.
Tables ==
    /\ connections \in [Names -> Conns \cup {NoConn}]
    /\ configured \in SUBSET Names
    /\ boot \in SUBSET Names
    /\ failed \in SUBSET Names
    /\ evictedCaps \in [Names -> {"absent", "empty", "tools"}]
    /\ registry \in SUBSET Names
    /\ lastActivity \in [Names -> {"none", "fresh", "stale"}]
    /\ connecting \in [Names -> Tasks \cup {NoTask}]
    /\ lock \in Tasks \cup {NoTask}

\* The part of the types that a task going on can disturb.
Framed == frame \in [Tasks -> Frame] /\ Shaped

\* One task goes on to a frame that fits its job.
LEMMA FrameStep ==
    ASSUME Framed, NEW t \in Tasks, NEW f \in Frame, FrameShape(f), TaskFits(f, job'[t]),
           OnlyTask(t), frame' = [frame EXCEPT ![t] = f]
    PROVE  Framed'
<1>1. frame' \in [Tasks -> Frame]
  BY DEF Framed
<1>2. ASSUME NEW u \in Tasks PROVE FrameShape(frame'[u]) /\ TaskFits(frame'[u], job'[u])
  <2>1. CASE u = t
    BY <2>1 DEF Framed
  <2>2. CASE u # t
    BY <2>2 DEF Framed, Shaped, OnlyTask
  <2> QED
    BY <2>1, <2>2
<1> QED
  BY <1>1, <1>2 DEF Framed, Shaped

\* A new frame is one.
LEMMA NewFrameType ==
    ASSUME NEW op \in {"none", "boot", "route", "read", "warm", "reconnect", "stop", "reap",
                       "add", "remove", "replace", "retry", "supervise", "shutdown"},
           NEW pc \in {"evict", "evicting", "connecting", "joining", "gate", "closing", "draining"},
           NEW n \in Names \cup {NoName}, NEW v \in Names \cup {NoName}
    PROVE  NewFrame(op, pc, n, v) \in Frame
BY DEF NewFrame, Frame

\* A task that has nothing to do has an idle job.
LEMMA NoFrameFits ==
    ASSUME NEW j, j = IdleJob
    PROVE  NoFrame \in Frame /\ FrameShape(NoFrame) /\ TaskFits(NoFrame, j)
BY DEF NoFrame, Frame, FrameShape, TaskFits, IdleJob

\* What a caller does after _connect_timed fits an idle job.
LEMMA AfterConnectFits ==
    ASSUME MgrTyped, NEW t \in Tasks, frame[t].pc \in {"connecting", "joined"}, NEW j, j = IdleJob
    PROVE  AfterConnect(t) \in Frame /\ FrameShape(AfterConnect(t)) /\ TaskFits(AfterConnect(t), j)
<1>0. frame[t] \in Frame /\ frame[t].name \in Names /\ frame[t].op # "remove"
  BY DEF MgrTyped, MgrTypeOK, Shaped, FrameShape
<1>1. CASE frame[t].op \in {"route", "read"} /\ Up(frame[t].name)
  <2> DEFINE f == [frame[t] EXCEPT !.pc = "gate", !.conn = connections[frame[t].name]]
  <2>1. connections[frame[t].name] \in Conns
    BY <1>0, <1>1, NamedConn DEF Up
  <2>2. f \in Frame /\ f.pc = "gate" /\ f.conn \in Conns /\ f.name \in Names /\ f.op # "remove"
    BY <1>0, <2>1 DEF Frame
  <2>3. AfterConnect(t) = f
    BY <1>1 DEF AfterConnect
  <2> HIDE DEF f
  <2> QED
    BY <2>2, <2>3 DEF FrameShape, TaskFits, IdleJob
<1>2. CASE ~(frame[t].op \in {"route", "read"} /\ Up(frame[t].name)) /\ frame[t].op = "retry"
  <2> DEFINE f == [frame[t] EXCEPT !.pc = "next"]
  <2>1. f \in Frame /\ f.pc = "next" /\ f.op # "remove"
    BY <1>0 DEF Frame
  <2>2. AfterConnect(t) = f
    BY <1>2 DEF AfterConnect
  <2> HIDE DEF f
  <2> QED
    BY <2>1, <2>2 DEF FrameShape, TaskFits, IdleJob
<1>3. CASE ~(frame[t].op \in {"route", "read"} /\ Up(frame[t].name)) /\ frame[t].op # "retry"
  <2>1. AfterConnect(t) = NoFrame
    BY <1>3 DEF AfterConnect
  <2> QED
    BY <2>1, NoFrameFits
<1> QED
  BY <1>1, <1>2, <1>3

\* The end of an attempt moves the caller and those who joined it.
LEMMA AttemptEndsTyped ==
    ASSUME MgrTyped, NEW t \in Tasks, At(t, "connecting"), AttemptEnds(t), job'[t] = IdleJob, OnlyTask(t)
    PROVE  Framed' /\ connecting' \in [Names -> Tasks \cup {NoTask}] /\ lock' \in Tasks \cup {NoTask}
<1> DEFINE n == frame[t].name
           F(u) == IF u = t THEN AfterConnect(t)
                   ELSE IF At(u, "joining") /\ frame[u].name = n
                        THEN [frame[u] EXCEPT !.pc = "joined"]
                        ELSE frame[u]
<1>1. frame' = [u \in Tasks |-> F(u)]
  BY DEF AttemptEnds
<1>2. ASSUME NEW u \in Tasks PROVE F(u) \in Frame /\ FrameShape(F(u)) /\ TaskFits(F(u), job'[u])
  <2>1. CASE u = t
    BY <2>1, AfterConnectFits DEF At
  <2>2. CASE u # t /\ At(u, "joining") /\ frame[u].name = n
    <3> DEFINE f == [frame[u] EXCEPT !.pc = "joined"]
    <3>1. frame[u] \in Frame /\ frame[u].name \in Names /\ frame[u].op # "remove" /\ job'[u].op = "idle" /\ job'[u] = IdleJob
      BY <2>2 DEF MgrTyped, MgrTypeOK, Shaped, FrameShape, TaskFits, At, OnlyTask
    <3>2. f \in Frame /\ f.pc = "joined" /\ f.name \in Names /\ f.op # "remove"
      BY <3>1 DEF Frame
    <3>3. F(u) = f
      BY <2>2
    <3> HIDE DEF f, F
    <3> QED
      BY <3>1, <3>2, <3>3 DEF FrameShape, TaskFits
  <2>3. CASE u # t /\ ~(At(u, "joining") /\ frame[u].name = n)
    BY <2>3 DEF MgrTyped, MgrTypeOK, Shaped, OnlyTask
  <2> QED
    BY <2>1, <2>2, <2>3
<1> HIDE DEF F
<1>3. Framed'
  BY <1>1, <1>2 DEF Framed, Shaped
<1>4. connecting' \in [Names -> Tasks \cup {NoTask}] /\ lock' \in Tasks \cup {NoTask}
  BY DEF AttemptEnds, ReleaseLock, MgrTyped, MgrTypeOK
<1> QED
  BY <1>3, <1>4

\* _connect_timed leaves everything well typed.
LEMMA AttemptTyped ==
    ASSUME MgrTyped, NEW t \in Tasks, NEW n \in Names,
           NEW op \in {"none", "boot", "route", "read", "warm", "reconnect", "stop", "reap",
                       "add", "replace", "retry", "supervise", "shutdown"},
           ConnectTimed(t, op, n)
    PROVE  /\ Framed'
           /\ connections' \in [Names -> Conns \cup {NoConn}]
           /\ connecting' \in [Names -> Tasks \cup {NoTask}]
<1>0. Framed /\ Tables
  BY DEF MgrTyped, MgrTypeOK, Framed, Tables
<1>1. PICK pc \in {"connecting", "joining"} :
         /\ frame' = [frame EXCEPT ![t] = NewFrame(op, pc, n, NoName)]
         /\ pc = "connecting" => job'[t].op = "handshake"
         /\ pc = "joining" => job'[t] = IdleJob
  BY ConnectBegins
<1>2. NewFrame(op, pc, n, NoName) \in Frame
  BY NewFrameType
<1>3. FrameShape(NewFrame(op, pc, n, NoName)) /\ TaskFits(NewFrame(op, pc, n, NoName), job'[t])
  BY <1>1 DEF NewFrame, FrameShape, TaskFits, IdleJob
<1>4. Framed'
  BY <1>0, <1>1, <1>2, <1>3, ConnectBegins, FrameStep
<1>5. connections' \in [Names -> Conns \cup {NoConn}] /\ connecting' \in [Names -> Tasks \cup {NoTask}]
  BY <1>0, ConnectBegins DEF Tables
<1> QED
  BY <1>4, <1>5

\* The beginning of an eviction leaves everything well typed.
LEMMA EvictTyped ==
    ASSUME MgrTyped, NEW t \in Tasks, NEW v \in Names, EvictBegin(t, v),
           NEW f \in Frame, f.pc = "evicting", f.victim = v, f.op # "remove",
           frame' = [frame EXCEPT ![t] = f]
    PROVE  Framed' /\ Tables'
<1>0. Framed /\ Tables /\ Typed
  BY DEF MgrTyped, MgrTypeOK, Framed, Tables
<1>1. connections[v] \in Conns /\ DrainAndDisconnect(t, connections[v])
  BY NamedConn DEF EvictBegin
<1>2. FrameShape(f) /\ TaskFits(f, job'[t]) /\ OnlyTask(t)
  BY <1>0, <1>1, DrainBegins DEF FrameShape, TaskFits
<1>3. Framed'
  BY <1>0, <1>2, FrameStep
<1>4. Tables'
  BY <1>0 DEF EvictBegin, CacheCaps, Tables
<1> QED
  BY <1>3, <1>4

\* What the registry is synced to are names.
LEMMA PublishedNames == \A caps : Published(caps) \subseteq Names
BY DEF Published

\* A task that has a result and nothing more to do.
LEMMA ReturnTyped ==
    ASSUME MgrTyped, NEW t \in Tasks, Return(t), job'[t] = IdleJob, OnlyTask(t)
    PROVE  Framed'
BY NoFrameFits, FrameStep DEF Return, MgrTyped, MgrTypeOK, Framed

\* Operations that go on leave everything well typed.
LEMMA ContinueTyped ==
    ASSUME MgrTyped, NEW t \in Tasks, Continue(t)
    PROVE  Framed' /\ Tables'
<1>0. Framed /\ Tables /\ Typed
  BY DEF MgrTyped, MgrTypeOK, Framed, Tables
<1>f. frame[t] \in Frame /\ FrameShape(frame[t]) /\ TaskFits(frame[t], job[t])
  BY DEF MgrTyped, MgrTypeOK, Shaped
<1>g. ASSUME NEW pc \in {"evicting", "calling", "add"}, Goto(t, pc)
      PROVE  \E f \in Frame : /\ f.pc = pc /\ f.op = frame[t].op /\ f.name = frame[t].name
                              /\ f.victim = frame[t].victim /\ f.conn = frame[t].conn
                              /\ frame' = [frame EXCEPT ![t] = f]
  <2> DEFINE f == [frame[t] EXCEPT !.pc = pc]
  <2>1. f \in Frame /\ f.pc = pc /\ f.op = frame[t].op /\ f.name = frame[t].name
                    /\ f.victim = frame[t].victim /\ f.conn = frame[t].conn
    BY <1>f DEF Frame
  <2>2. frame' = [frame EXCEPT ![t] = f]
    BY <1>g DEF Goto
  <2> QED
    BY <2>1, <2>2
<1>1. CASE Upstream(t)
  <2>1. TaskFits(frame[t], job'[t])
    BY <1>0, <1>1, <1>f, UpstreamMoves DEF TaskFits
  <2>2. \A u \in Tasks : TaskFits(frame[u], job'[u])
    BY <1>0, <1>1, <2>1, UpstreamMoves DEF OnlyTask, Framed, Shaped
  <2> QED
    BY <1>0, <1>1, <2>2 DEF Upstream, mgrVars, Framed, Shaped, Tables
<1>2. CASE ConnectSucceeded(t)
  BY <1>0, <1>2, Collects, AttemptEndsTyped, PublishedNames
     DEF ConnectSucceeded, SeedActivity, SyncRegistry, Tables
<1>3. CASE ConnectErrored(t)
  BY <1>0, <1>3, <1>f, Collects, AttemptEndsTyped, PublishedNames
     DEF ConnectErrored, SyncRegistry, Tables, At, FrameShape
<1>4. CASE ConnectExpires(t)
  <2>1. job'[t].op = "raised" /\ OnlyTask(t)
    BY <1>0, <1>4, FinishAt DEF ConnectExpires, ConnectTimedOut, OnlyTask
  <2>2. TaskFits(frame[t], job'[t])
    BY <1>4, <2>1 DEF ConnectExpires, At, TaskFits
  <2>3. \A u \in Tasks : TaskFits(frame[u], job'[u])
    BY <1>0, <2>1, <2>2 DEF OnlyTask, Framed, Shaped
  <2> QED
    BY <1>0, <1>4, <2>3 DEF ConnectExpires, mgrVars, Framed, Shaped, Tables
<1>5. CASE Joined(t)
  <2>1. job[t] = IdleJob /\ job' = job
    BY <1>5, <1>f DEF Joined, At, TaskFits, connVars
  <2>2. AfterConnect(t) \in Frame /\ FrameShape(AfterConnect(t)) /\ TaskFits(AfterConnect(t), job'[t])
    BY <1>5, <2>1, AfterConnectFits DEF Joined, At
  <2>3. Framed'
    BY <1>0, <1>5, <2>1, <2>2, FrameStep DEF Joined, SetFrame, OnlyTask
  <2> QED
    BY <1>0, <1>5, <2>3 DEF Joined, ReleaseLock, Tables
<1>6. CASE EvictEnd(t)
  <2>1. frame[t].victim \in Names /\ frame[t].op # "remove"
    BY <1>6, <1>f DEF EvictEnd, At, FrameShape
  <2>2. Framed' /\ connections' \in [Names -> Conns \cup {NoConn}] /\ connecting' \in [Names -> Tasks \cup {NoTask}]
    <3>1. CASE frame[t].name = NoName
      BY <1>0, <1>6, <3>1, Collects, ReturnTyped DEF EvictEnd, Tables
    <3>2. CASE frame[t].name # NoName
      BY <1>6, <1>f, <2>1, <3>2, AttemptTyped DEF EvictEnd, Frame
    <3> QED
      BY <3>1, <3>2
  <2> QED
    BY <1>0, <1>6, <2>1, <2>2, PublishedNames DEF EvictEnd, Forget, SyncRegistry, Tables
<1>7. CASE ReaperEvicts(t)
  <2>1. frame[t].victim \in Names /\ frame[t].op # "remove"
    BY <1>7, <1>f DEF ReaperEvicts, At, FrameShape
  <2>2. CASE EvictBegin(t, frame[t].victim) /\ Goto(t, "evicting")
    BY <1>g, <2>1, <2>2, EvictTyped
  <2>3. CASE Return(t) /\ UNCHANGED <<connVars, connections, configured, boot, failed, evictedCaps,
                                      registry, lastActivity, connecting, lock>>
    <3>1. job'[t] = IdleJob /\ OnlyTask(t)
      BY <1>7, <1>f, <2>3 DEF ReaperEvicts, At, TaskFits, connVars, OnlyTask
    <3> QED
      BY <1>0, <2>3, <3>1, ReturnTyped DEF Tables
  <2> QED
    BY <1>7, <2>2, <2>3 DEF ReaperEvicts
<1>8. CASE ReconnectClosed(t)
  BY <1>0, <1>8, <1>f, AttemptTyped DEF ReconnectClosed, At, FrameShape, Tables
<1>9. CASE Dispatch(t)
  <2>1. frame[t].conn \in Conns /\ frame[t].name \in Names /\ frame[t].op # "remove"
    BY <1>9, <1>f DEF Dispatch, At, FrameShape
  <2>2. job'[t].op \in {"call", "raised"} /\ OnlyTask(t)
    BY <1>0, <1>9, <2>1, CallBegins DEF Dispatch
  <2>3. PICK f \in Frame : f.pc = "calling" /\ f.op # "remove" /\ f.name \in Names /\ frame' = [frame EXCEPT ![t] = f]
    BY <1>9, <1>g, <2>1 DEF Dispatch
  <2>4. Framed'
    BY <1>0, <2>2, <2>3, FrameStep DEF FrameShape, TaskFits
  <2> QED
    BY <1>0, <1>9, <2>4 DEF Dispatch, Tables
<1>10. CASE RouteEnds(t)
  BY <1>0, <1>10, <1>f, Collects, ReturnTyped DEF RouteEnds, MarkActivity, At, FrameShape, Tables
<1>11. CASE RemoveEnd(t)
  BY <1>0, <1>11, <1>f, Collects, ReturnTyped, PublishedNames DEF RemoveEnd, Forget, At, FrameShape, Tables
<1>12. CASE ReplaceDrained(t)
  <2>1. frame[t].name \in Names /\ frame[t].op # "remove"
    BY <1>12, <1>f DEF ReplaceDrained, At, FrameShape
  <2>2. job'[t] = IdleJob /\ OnlyTask(t)
    BY <1>0, <1>12, Collects DEF ReplaceDrained
  <2>3. PICK f \in Frame : f.pc = "add" /\ f.op # "remove" /\ f.name \in Names /\ frame' = [frame EXCEPT ![t] = f]
    BY <1>12, <1>g, <2>1 DEF ReplaceDrained
  <2>4. FrameShape(f) /\ TaskFits(f, job'[t])
    BY <2>2, <2>3 DEF FrameShape, TaskFits, IdleJob
  <2>5. Framed'
    BY <1>0, <2>2, <2>3, <2>4, FrameStep
  <2> QED
    BY <1>0, <1>12, <2>5 DEF ReplaceDrained, Tables
<1>13. CASE ReplaceAdds(t)
  <2>1. frame[t].name \in Names /\ job[t] = IdleJob
    BY <1>13, <1>f DEF ReplaceAdds, At, FrameShape, TaskFits
  <2>2. CASE Return(t) /\ UNCHANGED <<connVars, connections, connecting, configured, lock>>
    <3>1. Framed'
      BY <2>1, <2>2, ReturnTyped DEF connVars, OnlyTask
    <3> QED
      BY <1>0, <1>13, <2>2, <3>1 DEF ReplaceAdds, AddServer, Tables
  <2>3. CASE ~Up(frame[t].name)
    BY <1>0, <1>13, <2>1, <2>3, AttemptTyped DEF ReplaceAdds, AddServer, Tables
  <2> QED
    BY <1>13, <2>2, <2>3 DEF ReplaceAdds, AddServer
<1> QED
  BY <1>1, <1>2, <1>3, <1>4, <1>5, <1>6, <1>7, <1>8, <1>9, <1>10, <1>11, <1>12, <1>13 DEF Continue

\* Operations that begin leave everything well typed.
LEMMA StartTyped ==
    ASSUME MgrTyped, NEW t \in Tasks, NEW n \in Names, Start(t, n)
    PROVE  Framed' /\ Tables'
<1>0. Framed /\ Tables /\ Typed
  BY DEF MgrTyped, MgrTypeOK, Framed, Tables
<1>i. Idle(t) => job[t] = IdleJob
  BY <1>0 DEF Idle, Framed, Shaped, TaskFits
<1>1. ASSUME NEW op \in {"route", "read", "warm"}, EnsureConnected(t, op, n) PROVE Framed' /\ Tables'
  <2>1. CASE /\ ConnectTimed(t, op, n)
             /\ UNCHANGED <<configured, boot, failed, evictedCaps, registry, lastActivity, lock>>
    BY <1>0, <1>1, <2>1, AttemptTyped DEF Tables
  <2>2. CASE \E v \in LRUVictims(n) : EvictBegin(t, v) /\ SetFrame(t, NewFrame(op, "evicting", n, v))
    <3>1. PICK v \in LRUVictims(n) : EvictBegin(t, v) /\ SetFrame(t, NewFrame(op, "evicting", n, v))
      BY <2>2
    <3>2. v \in Names
      BY <3>1 DEF LRUVictims, LiveOthers
    <3>3. NewFrame(op, "evicting", n, v) \in Frame
      BY <3>2, NewFrameType
    <3> QED
      BY <3>1, <3>2, <3>3, EvictTyped DEF SetFrame, NewFrame
  <2> QED
    BY <1>1, <2>1, <2>2 DEF EnsureConnected
<1>2. CASE Boot(t, n)
  BY <1>0, <1>2, AttemptTyped DEF Boot, Tables
<1>3. CASE Stop(t, n)
  <2>1. NewFrame("stop", "evicting", NoName, n) \in Frame
    BY NewFrameType
  <2> QED
    BY <1>3, <2>1, EvictTyped DEF Stop, SetFrame, NewFrame
<1>4. CASE Warm(t, n)
  BY <1>1, <1>4 DEF Warm
<1>5. CASE Reconnect(t, n)
  <2>1. CASE Up(n)
    <3>1. connections[n] \in Conns /\ Disconnect(t, connections[n])
      BY <1>5, <2>1, NamedConn DEF Reconnect, Up
    <3>2. NewFrame("reconnect", "closing", n, NoName) \in Frame
      BY NewFrameType
    <3>3. /\ FrameShape(NewFrame("reconnect", "closing", n, NoName))
          /\ TaskFits(NewFrame("reconnect", "closing", n, NoName), job'[t])
          /\ OnlyTask(t)
      BY <1>0, <3>1, DisconnectBegins DEF NewFrame, FrameShape, TaskFits
    <3>4. Framed'
      BY <1>0, <1>5, <2>1, <3>2, <3>3, FrameStep DEF Reconnect, SetFrame
    <3> QED
      BY <1>0, <1>5, <2>1, <3>4 DEF Reconnect, Tables
  <2>2. CASE ~Up(n)
    BY <1>0, <1>5, <2>2, AttemptTyped DEF Reconnect, Tables
  <2> QED
    BY <2>1, <2>2
<1>6. CASE Route(t, n)
  <2>1. ASSUME NEW op \in {"route", "read"}, Up(n),
               SetFrame(t, [NewFrame(op, "gate", n, NoName) EXCEPT !.conn = connections[n]]),
               UNCHANGED <<connVars, connections, configured, boot, failed, evictedCaps,
                           registry, lastActivity, connecting, lock>>
        PROVE  Framed' /\ Tables'
    <3> DEFINE f == [NewFrame(op, "gate", n, NoName) EXCEPT !.conn = connections[n]]
    <3>1. connections[n] \in Conns /\ NewFrame(op, "gate", n, NoName) \in Frame
      BY <2>1, NamedConn, NewFrameType DEF Up
    <3>2. f \in Frame /\ f.pc = "gate" /\ f.conn \in Conns /\ f.name = n /\ f.op # "remove"
      BY <3>1 DEF Frame, NewFrame
    <3>3. frame' = [frame EXCEPT ![t] = f] /\ job'[t] = IdleJob /\ OnlyTask(t)
      BY <1>6, <1>i, <2>1 DEF Route, SetFrame, connVars, OnlyTask
    <3> HIDE DEF f
    <3>4. FrameShape(f) /\ TaskFits(f, job'[t])
      BY <3>2, <3>3 DEF FrameShape, TaskFits, IdleJob
    <3>5. Framed'
      BY <1>0, <3>2, <3>3, <3>4, FrameStep
    <3> QED
      BY <1>0, <2>1, <3>5 DEF Tables
  <2> QED
    BY <1>1, <1>6, <2>1 DEF Route
<1>7. ASSUME NEW op \in {"add", "replace"}, AddServer(t, op, n), Idle(t) PROVE Framed' /\ Tables'
  <2>1. CASE Up(n)
    <3>1. Framed'
      BY <1>7, <1>i, <2>1, ReturnTyped DEF AddServer, connVars, OnlyTask
    <3> QED
      BY <1>0, <1>7, <2>1, <3>1 DEF AddServer, Tables
  <2>2. CASE ~Up(n)
    BY <1>0, <1>7, <2>2, AttemptTyped DEF AddServer, Tables
  <2> QED
    BY <2>1, <2>2
<1>8. ASSUME NEW op \in {"remove", "replace"}, DrainOld(t, op, n) PROVE Framed' /\ Tables'
  <2>1. connections[n] \in Conns /\ DrainAndDisconnect(t, connections[n])
    BY <1>8, NamedConn DEF DrainOld
  <2>2. NewFrame(op, "draining", n, NoName) \in Frame
    BY NewFrameType
  <2>3. /\ FrameShape(NewFrame(op, "draining", n, NoName))
        /\ TaskFits(NewFrame(op, "draining", n, NoName), job'[t])
        /\ OnlyTask(t)
    BY <1>0, <2>1, DrainBegins DEF NewFrame, FrameShape, TaskFits
  <2>4. Framed'
    BY <1>0, <1>8, <2>2, <2>3, FrameStep DEF DrainOld, SetFrame
  <2> QED
    BY <1>0, <1>8, <2>4 DEF DrainOld, Tables
<1> QED
  BY <1>2, <1>3, <1>4, <1>5, <1>6, <1>7, <1>8 DEF Start, Add, Remove, Replace

\* What a sweep of the reaper does to the frames.
LEMMA SweepFrames ==
    ASSUME MgrTyped, Sweep
    PROVE  \A t \in Tasks :
              \/ frame'[t] = frame[t]
              \/ /\ Idle(t)
                 /\ \E v \in Names : Evictable(v) /\ frame'[t] = NewFrame("reap", "evict", NoName, v)
<1> DEFINE victims == {n \in Names : Evictable(n)}
<1>1. PICK T \in SUBSET {t \in Tasks : Idle(t)} : \E victim \in Bijection(T, victims) :
          frame' = [t \in Tasks |-> IF t \in T THEN NewFrame("reap", "evict", NoName, victim[t]) ELSE frame[t]]
  BY DEF Sweep
<1>2. PICK victim \in Bijection(T, victims) :
          frame' = [t \in Tasks |-> IF t \in T THEN NewFrame("reap", "evict", NoName, victim[t]) ELSE frame[t]]
  BY <1>1
<1>3. \A t \in T : victim[t] \in victims
  BY <1>2 DEF Bijection, Injection
<1> QED
  BY <1>1, <1>2, <1>3

\* Every step of the manager keeps the types.
LEMMA MovesTyped ==
    ASSUME MgrTyped, IInv, Moves
    PROVE  MgrTyped' /\ IInv'
<1>0. Framed /\ Tables /\ Typed
  BY DEF MgrTyped, MgrTypeOK, Framed, Tables
<1>1. IInv' /\ Typed'
  BY MovesAreConn, NextInv DEF IInv
<1>2. Framed' /\ Tables'
  <2>1. ASSUME NEW t \in Tasks, Continue(t) PROVE Framed' /\ Tables'
    BY <2>1, ContinueTyped
  <2>2. ASSUME NEW t \in Tasks, NEW n \in Names, Start(t, n) PROVE Framed' /\ Tables'
    BY <2>2, StartTyped
  <2>3. CASE Sweep
    <3>1. UNCHANGED <<connVars, connections, configured, boot, failed, evictedCaps,
                      registry, lastActivity, connecting, lock>> /\ DOMAIN frame' = Tasks /\ frame' = [t \in Tasks |-> frame'[t]]
      BY <2>3 DEF Sweep
    <3>2. ASSUME NEW t \in Tasks
          PROVE  frame'[t] \in Frame /\ FrameShape(frame'[t]) /\ TaskFits(frame'[t], job'[t])
      <4>1. CASE frame'[t] = frame[t]
        BY <1>0, <3>1, <4>1 DEF Framed, Shaped, connVars
      <4>2. ASSUME NEW v \in Names, Idle(t), frame'[t] = NewFrame("reap", "evict", NoName, v)
            PROVE  frame'[t] \in Frame /\ FrameShape(frame'[t]) /\ TaskFits(frame'[t], job'[t])
        <5>1. job'[t].op = "idle" /\ job'[t] = IdleJob
          BY <1>0, <3>1, <4>2 DEF Idle, Framed, Shaped, TaskFits, connVars
        <5>2. NewFrame("reap", "evict", NoName, v) \in Frame
          BY NewFrameType
        <5>3. FrameShape(NewFrame("reap", "evict", NoName, v)) /\ TaskFits(NewFrame("reap", "evict", NoName, v), job'[t])
          BY <5>1 DEF NewFrame, FrameShape, TaskFits
        <5> QED
          BY <4>2, <5>2, <5>3
      <4> QED
        BY <2>3, <4>1, <4>2, SweepFrames
    <3> QED
      BY <1>0, <3>1, <3>2 DEF Framed, Shaped, Tables
  <2>4. ASSUME NEW n \in Names, Ages(n) PROVE Framed' /\ Tables'
    BY <1>0, <2>4 DEF Ages, Framed, Shaped, Tables, connVars
  <2>5. CASE UNCHANGED vars
    BY <1>0, <2>5 DEF vars, connVars, mgrVars, Framed, Shaped, Tables
  <2> QED
    BY <2>1, <2>2, <2>3, <2>4, <2>5 DEF Moves
<1> QED
  BY <1>1, <1>2 DEF MgrTyped, MgrTypeOK, Framed, Tables, Typed

\* So do the steps of the specification.
LEMMA MgrNextTyped ==
    ASSUME MgrTyped, IInv, [Next]_vars
    PROVE  MgrTyped' /\ IInv'
BY MovesTyped DEF Next, Moves

\* The manager starts well typed.
LEMMA MgrInitTyped == Init => MgrTyped /\ IInv
<1> SUFFICES ASSUME Init PROVE MgrTyped /\ IInv
  OBVIOUS
<1>1. IInv /\ Typed
  BY InitInv DEF Init, MgrInit, IInv
<1>2. frame \in [Tasks -> Frame]
  BY NoFrameFits DEF Init
<1>3. Shaped
  BY NoFrameFits DEF Init, MgrInit, ConnInit, Shaped
<1>4. MgrTypeOK
  BY <1>1, <1>2 DEF Init, MgrInit, MgrTypeOK, Typed
<1> QED
  BY <1>1, <1>3, <1>4 DEF MgrTyped

\* Types of the manager, with those of its connections.
THEOREM MgrTypes == Spec => [](MgrTyped /\ IInv)
<1>1. Init => MgrTyped /\ IInv
  BY MgrInitTyped
<1>2. (MgrTyped /\ IInv) /\ [Next]_vars => (MgrTyped /\ IInv)'
  BY MgrNextTyped
<1> QED
  BY <1>1, <1>2, PTL DEF Spec

\* The manager, the reaper, the router and the reloader use every connection as
\* one of its clients does: what holds for the most general client of
\* MCPConnection holds for the hub.
THEOREM ManagerImplementsConnection == Spec => ConnSpec
<1>1. Init => ConnInit
  BY DEF Init, MgrInit
<1>2. MgrTyped /\ [Next]_vars => [ConnNext]_connVars
  BY MovesAreConn DEF Next, Moves
<1> QED
  BY <1>1, <1>2, MgrTypes, PTL DEF Spec, ConnSpec

\* Hence the router's test of is_connected is enough to dispatch on the
\* connection, whatever the manager does to it.
THEOREM ManagerUpHasOutbound == Spec => []UpHasOutbound
BY ManagerImplementsConnection, UpImpliesOutbound, PTL

\* Hence no drain of an eviction, a removal or a replacement loses its wake-up.
THEOREM ManagerDrainsWoken == Spec => []NoLostWakeup
BY ManagerImplementsConnection, DrainWoken, PTL

------------------------------------------------------------------------------
(* The gate of _connect_timed and the lock of the manager *)

\* Where a task is inside _connect_timed.
Attempting == {"connecting", "joining", "joined"}

\* A step outside _connect_timed.
Quiet ==
    /\ UNCHANGED <<connecting, lock>>
    /\ \A u \in Tasks :
          \/ frame'[u] = frame[u]
          \/ frame[u].pc \notin Attempting /\ frame'[u].pc \notin Attempting

\* A step into it, perhaps with the lock.
Attempt(t, n) ==
    /\ frame[t].pc \notin Attempting
    /\ \E op : ConnectTimed(t, op, n)
    /\ UNCHANGED lock \/ (lock = NoTask /\ lock' = t)

\* A step out of it.
AttemptOver(t) == At(t, "connecting") /\ AttemptEnds(t)

\* One task moves outside _connect_timed.
LEMMA QuietStep ==
    ASSUME MgrTyped, NEW t \in Tasks, NEW f, frame' = [frame EXCEPT ![t] = f],
           frame[t].pc \notin Attempting, f.pc \notin Attempting, UNCHANGED <<connecting, lock>>
    PROVE  Quiet
BY DEF Quiet, MgrTyped, MgrTypeOK

\* An operation that goes on is outside of _connect_timed, enters it or leaves it.
LEMMA ContinueKinds ==
    ASSUME MgrTyped, NEW t \in Tasks, Continue(t)
    PROVE  \/ Quiet
           \/ \E n \in Names : Attempt(t, n)
           \/ AttemptOver(t)
           \/ Joined(t)
<1>f. frame[t] \in Frame /\ FrameShape(frame[t])
  BY DEF MgrTyped, MgrTypeOK, Shaped
<1>g. ASSUME NEW pc \in {"evicting", "calling", "add"}, Goto(t, pc), frame[t].pc \notin Attempting,
             UNCHANGED <<connecting, lock>>
      PROVE  Quiet
  <2> DEFINE f == [frame[t] EXCEPT !.pc = pc]
  <2>1. frame' = [frame EXCEPT ![t] = f] /\ f.pc = pc
    BY <1>f, <1>g DEF Goto, Frame
  <2> HIDE DEF f
  <2> QED
    BY <1>g, <2>1, QuietStep DEF Attempting
<1>r. ASSUME Return(t), frame[t].pc \notin Attempting, UNCHANGED <<connecting, lock>> PROVE Quiet
  BY <1>r, QuietStep DEF Return, NoFrame, Attempting
<1>1. CASE Upstream(t) \/ ConnectExpires(t)
  BY <1>1 DEF Upstream, ConnectExpires, mgrVars, Quiet
<1>2. CASE ConnectSucceeded(t) \/ ConnectErrored(t)
  BY <1>2 DEF ConnectSucceeded, ConnectErrored, AttemptOver
<1>3. CASE EvictEnd(t)
  BY <1>3, <1>f, <1>r DEF EvictEnd, At, Attempting, Attempt, Frame
<1>4. CASE ReaperEvicts(t)
  BY <1>4, <1>g, <1>r DEF ReaperEvicts, EvictBegin, At, Attempting
<1>5. CASE ReconnectClosed(t)
  BY <1>5, <1>f DEF ReconnectClosed, At, FrameShape, Attempting, Attempt
<1>6. CASE Dispatch(t)
  BY <1>6, <1>g DEF Dispatch, At, Attempting
<1>7. CASE RouteEnds(t)
  BY <1>7, <1>r DEF RouteEnds, At, Attempting
<1>8. CASE RemoveEnd(t)
  BY <1>8, <1>f, <1>r DEF RemoveEnd, FrameShape, At, Attempting
<1>9. CASE ReplaceDrained(t)
  BY <1>9, <1>g DEF ReplaceDrained, At, Attempting
<1>10. CASE ReplaceAdds(t)
  BY <1>10, <1>f, <1>r DEF ReplaceAdds, AddServer, At, FrameShape, Attempting, Attempt
<1> QED
  BY <1>1, <1>2, <1>3, <1>4, <1>5, <1>6, <1>7, <1>8, <1>9, <1>10 DEF Continue

\* An operation that begins is outside of it or enters it.
LEMMA StartKinds ==
    ASSUME MgrTyped, NEW t \in Tasks, NEW n \in Names, Start(t, n)
    PROVE  Quiet \/ Attempt(t, n)
<1>i. frame[t].pc \notin Attempting
  BY DEF Start, Boot, Stop, Warm, Reconnect, Route, Add, Remove, Replace, DrainOld, Idle, NoFrame, Attempting
<1>s. ASSUME NEW op, NEW pc \in {"evicting", "closing", "draining"}, NEW m, NEW v, SetFrame(t, NewFrame(op, pc, m, v)),
             UNCHANGED <<connecting, lock>>
      PROVE  Quiet
  BY <1>i, <1>s, QuietStep DEF SetFrame, NewFrame, Attempting
<1>1. ASSUME NEW op, EnsureConnected(t, op, n) PROVE Quiet \/ Attempt(t, n)
  BY <1>1, <1>i, <1>s DEF EnsureConnected, EvictBegin, Attempt
<1>2. ASSUME NEW op, AddServer(t, op, n) PROVE Quiet \/ Attempt(t, n)
  BY <1>2, <1>i, QuietStep DEF AddServer, Return, NoFrame, Attempting, Attempt
<1>3. CASE Boot(t, n)
  BY <1>3, <1>i DEF Boot, Attempt
<1>4. CASE Stop(t, n)
  BY <1>4, <1>s DEF Stop, EvictBegin
<1>5. CASE Warm(t, n)
  BY <1>1, <1>5 DEF Warm
<1>6. CASE Reconnect(t, n)
  BY <1>6, <1>i, <1>s DEF Reconnect, Attempt
<1>7. CASE Route(t, n)
  <2>1. ASSUME NEW op, SetFrame(t, [NewFrame(op, "gate", n, NoName) EXCEPT !.conn = connections[n]]),
               UNCHANGED <<connecting, lock>>
        PROVE  Quiet
    <3> DEFINE f == [NewFrame(op, "gate", n, NoName) EXCEPT !.conn = connections[n]]
    <3>1. f.pc = "gate" /\ frame' = [frame EXCEPT ![t] = f]
      BY <2>1 DEF NewFrame, SetFrame
    <3> HIDE DEF f
    <3> QED
      BY <1>i, <2>1, <3>1, QuietStep DEF Attempting
  <2> QED
    BY <1>1, <1>7, <2>1 DEF Route
<1>8. CASE Add(t, n)
  BY <1>2, <1>8 DEF Add
<1>9. CASE Remove(t, n) \/ Replace(t, n)
  BY <1>2, <1>9, <1>s DEF Remove, Replace, DrainOld
<1> QED
  BY <1>3, <1>4, <1>5, <1>6, <1>7, <1>8, <1>9 DEF Start

\* So is every other step.
LEMMA NextKinds ==
    ASSUME MgrTyped, [Next]_vars
    PROVE  \/ Quiet
           \/ \E t \in Tasks, n \in Names : Attempt(t, n)
           \/ \E t \in Tasks : AttemptOver(t) \/ Joined(t)
<1>1. CASE Sweep
  <2>1. ASSUME NEW t \in Tasks, Idle(t), NEW v, frame'[t] = NewFrame("reap", "evict", NoName, v)
        PROVE  frame[t].pc \notin Attempting /\ frame'[t].pc \notin Attempting
    BY <2>1 DEF Idle, NoFrame, NewFrame, Attempting
  <2> QED
    BY <1>1, <2>1, SweepFrames DEF Sweep, Quiet
<1>2. CASE UNCHANGED vars \/ \E n \in Names : Ages(n)
  BY <1>2 DEF vars, mgrVars, Ages, Quiet
<1> QED
  BY <1>1, <1>2, ContinueKinds, StartKinds DEF Next

\* The holder of the lock is inside _connect_timed.
Held == lock # NoTask => frame[lock].pc \in Attempting

\* Every step keeps the gate and the lock.
LEMMA GateStep ==
    ASSUME MgrTyped, OneAttempt, Held, [Next]_vars
    PROVE  OneAttempt' /\ Held'
<1>0. /\ frame \in [Tasks -> Frame] /\ connecting \in [Names -> Tasks \cup {NoTask}] /\ lock \in Tasks \cup {NoTask}
      /\ \A t \in Tasks : frame[t].pc \in Attempting => frame[t].name \in Names
  BY DEF MgrTyped, MgrTypeOK, Shaped, FrameShape, Attempting
<1>1. CASE Quiet
  BY <1>0, <1>1, NullsAssumption DEF Quiet, OneAttempt, Held, At, Attempting
<1>2. ASSUME NEW t \in Tasks, NEW n \in Names, Attempt(t, n) PROVE OneAttempt' /\ Held'
  <2>1. PICK op : ConnectTimed(t, op, n)
    BY <1>2 DEF Attempt
  <2>2. CASE connecting[n] = NoTask
    <3>1. frame' = [frame EXCEPT ![t] = NewFrame(op, "connecting", n, NoName)] /\ connecting' = [connecting EXCEPT ![n] = t]
      BY <2>1, <2>2, ConnectBegins
    <3>2. /\ frame'[t].pc = "connecting" /\ frame'[t].name = n /\ \A u \in Tasks \ {t} : frame'[u] = frame[u]
          /\ connecting'[n] = t /\ \A m \in Names \ {n} : connecting'[m] = connecting[m]
      BY <1>0, <3>1 DEF NewFrame
    <3>3. frame[t].pc # "connecting" /\ \A m \in Names : connecting[m] # t
      BY <1>2 DEF Attempt, Attempting, OneAttempt, At
    <3>4. OneAttempt'
      BY <1>0, <2>2, <3>2, <3>3, NullsAssumption DEF OneAttempt, At, Attempting
    <3>5. Held'
      BY <1>0, <1>2, <3>2 DEF Held, Attempt, Attempting
    <3> QED
      BY <3>4, <3>5
  <2>3. CASE connecting[n] # NoTask
    <3>1. frame' = [frame EXCEPT ![t] = NewFrame(op, "joining", n, NoName)] /\ connecting' = connecting
      BY <2>1, <2>3, ConnectBegins
    <3>2. frame'[t].pc = "joining" /\ frame'[t].name = n /\ \A u \in Tasks \ {t} : frame'[u] = frame[u]
      BY <1>0, <3>1 DEF NewFrame
    <3>3. OneAttempt'
      BY <1>2, <2>3, <3>1, <3>2 DEF OneAttempt, At, Attempt, Attempting
    <3>4. Held'
      BY <1>0, <1>2, <3>2 DEF Held, Attempt, Attempting
    <3> QED
      BY <3>3, <3>4
  <2> QED
    BY <2>2, <2>3
<1>a. ASSUME NEW t \in Tasks PROVE AfterConnect(t).pc \notin Attempting
  <2>1. frame[t] \in Frame
    BY <1>0
  <2> QED
    BY <2>1 DEF AfterConnect, NoFrame, Frame, Attempting
<1>3. ASSUME NEW t \in Tasks, AttemptOver(t) PROVE OneAttempt' /\ Held'
  <2> DEFINE n == frame[t].name
  <2>1. n \in Names /\ connecting[n] = t
    BY <1>0, <1>3 DEF AttemptOver, OneAttempt, At, Attempting
  <2>2. /\ connecting'[n] = NoTask /\ \A m \in Names \ {n} : connecting'[m] = connecting[m]
        /\ frame'[t].pc \notin Attempting
        /\ \A u \in Tasks \ {t} : IF At(u, "joining") /\ frame[u].name = n
                                  THEN frame'[u] = [frame[u] EXCEPT !.pc = "joined"]
                                  ELSE frame'[u] = frame[u]
        /\ lock' = IF lock = t THEN NoTask ELSE lock
    BY <1>0, <1>3, <1>a, <2>1 DEF AttemptOver, AttemptEnds, ReleaseLock
  <2>3. \A u \in Tasks \ {t} : IF At(u, "joining") /\ frame[u].name = n
                               THEN frame'[u].pc = "joined"
                               ELSE frame'[u] = frame[u]
    BY <1>0, <2>2 DEF Frame
  <2>4. OneAttempt'
    BY <1>0, <2>1, <2>2, <2>3, NullsAssumption DEF OneAttempt, At, Attempting
  <2>5. Held'
    BY <1>0, <2>2, <2>3 DEF Held, Attempting, At
  <2> QED
    BY <2>4, <2>5
<1>4. ASSUME NEW t \in Tasks, Joined(t) PROVE OneAttempt' /\ Held'
  <2>1. /\ frame'[t].pc \notin Attempting /\ \A u \in Tasks \ {t} : frame'[u] = frame[u]
        /\ connecting' = connecting /\ lock' = IF lock = t THEN NoTask ELSE lock
        /\ frame[t].pc = "joined"
    BY <1>0, <1>4, <1>a DEF Joined, SetFrame, ReleaseLock, At
  <2>2. OneAttempt'
    BY <1>0, <2>1, NullsAssumption DEF OneAttempt, At, Attempting
  <2>3. Held'
    BY <1>0, <2>1 DEF Held
  <2> QED
    BY <2>2, <2>3
<1> QED
  BY <1>1, <1>2, <1>3, <1>4, NextKinds

------------------------------------------------------------------------------
(* Whose connection a task is working on *)

\* Tasks that connect, drain or close a connection, and the backend they do it to.
Using == {"connecting", "evicting", "closing", "draining"}

\* The backend that task t works on.
Subject(t) == IF At(t, "evicting") THEN frame[t].victim ELSE frame[t].name

\* No two backends share a connection.
Distinct == \A m, n \in Names : connections[m] # NoConn /\ connections[m] = connections[n] => m = n

\* Who connects, drains or closes the connection of a backend does it for it.
OwnConn ==
    \A t \in Tasks, n \in Names :
        /\ frame[t].pc \in Using
        /\ connections[n] # NoConn
        /\ job[t].conn = connections[n]
        => Subject(t) = n

\* Tasks that go on with the connection they had, or without one.
LEMMA OwnKeep ==
    ASSUME Distinct, OwnConn,
           \A n \in Names : connections'[n] \in {connections[n], NoConn},
           \A u \in Tasks : \/ frame'[u] = frame[u] /\ job'[u].conn = job[u].conn
                            \/ frame'[u].pc \notin Using
    PROVE  Distinct' /\ OwnConn'
<1>1. Distinct'
  BY DEF Distinct
<1>2. OwnConn'
  BY DEF OwnConn, Subject, At, Using
<1> QED
  BY <1>1, <1>2

\* A task that begins to drain or close the connection of its backend.
LEMMA OwnTakes ==
    ASSUME MgrTyped, Distinct, OwnConn, NEW t \in Tasks, NEW n \in Names, NEW f,
           UNCHANGED connections, OnlyTask(t), job'[t].conn = connections[n],
           frame' = [frame EXCEPT ![t] = f], (IF f.pc = "evicting" THEN f.victim ELSE f.name) = n
    PROVE  Distinct' /\ OwnConn'
<1>1. Distinct'
  BY DEF Distinct
<1>2. frame'[t] = f /\ \A u \in Tasks \ {t} : frame'[u] = frame[u] /\ job'[u] = job[u]
  BY DEF MgrTyped, MgrTypeOK, OnlyTask
<1>3. OwnConn'
  BY <1>2 DEF Distinct, OwnConn, Subject, At, Using
<1> QED
  BY <1>1, <1>3

\* A task that begins an attempt has the new connection to itself.
LEMMA OwnConnects ==
    ASSUME MgrTyped, Distinct, OwnConn, NEW t \in Tasks, NEW n \in Names, NEW op, ConnectTimed(t, op, n)
    PROVE  Distinct' /\ OwnConn'
<1>0. frame \in [Tasks -> Frame] /\ connections \in [Names -> Conns \cup {NoConn}]
  BY DEF MgrTyped, MgrTypeOK
<1>1. CASE connecting[n] = NoTask
  <2>1. /\ \A m \in Names : connections[m] # NewConn
        /\ \A u \in Tasks : job[u].conn # NewConn
    BY <1>1, ConnectBegins DEF FreshConn, Unused
  <2>2. /\ connections'[n] = NewConn /\ \A m \in Names \ {n} : connections'[m] = connections[m]
        /\ frame'[t].pc = "connecting" /\ frame'[t].name = n /\ job'[t].conn = NewConn
        /\ \A u \in Tasks \ {t} : frame'[u] = frame[u] /\ job'[u] = job[u]
    BY <1>0, <1>1, ConnectBegins DEF NewFrame, OnlyTask
  <2>3. Distinct'
    BY <2>1, <2>2 DEF Distinct
  <2>4. OwnConn'
    BY <2>1, <2>2 DEF OwnConn, Subject, At
  <2> QED
    BY <2>3, <2>4
<1>2. CASE connecting[n] # NoTask
  <2>1. /\ connections' = connections /\ frame'[t].pc = "joining"
        /\ \A u \in Tasks \ {t} : frame'[u] = frame[u] /\ job'[u] = job[u]
    BY <1>0, <1>2, ConnectBegins DEF NewFrame, OnlyTask
  <2> QED
    BY <2>1, OwnKeep DEF Using
<1> QED
  BY <1>1, <1>2

\* What becomes of a task whose attempt is over.
LEMMA AfterConnectPc ==
    ASSUME MgrTyped, NEW t \in Tasks
    PROVE  AfterConnect(t).pc \in {"gate", "next", "idle"}
<1>1. frame[t] \in Frame
  BY DEF MgrTyped, MgrTypeOK
<1> QED
  BY <1>1 DEF AfterConnect, NoFrame, Frame

\* The end of an attempt takes nobody to a connection.
LEMMA AttemptEndsFrames ==
    ASSUME MgrTyped, NEW t \in Tasks, AttemptEnds(t)
    PROVE  /\ frame'[t].pc \in {"gate", "next", "idle"}
           /\ \A u \in Tasks \ {t} : \/ frame'[u] = frame[u]
                                     \/ frame[u].pc = "joining" /\ frame'[u].pc = "joined"
<1>1. frame'[t] = AfterConnect(t)
  BY DEF AttemptEnds
<1>2. ASSUME NEW u \in Tasks \ {t}
      PROVE  frame'[u] = frame[u] \/ (frame[u].pc = "joining" /\ frame'[u].pc = "joined")
  <2>1. frame[u] \in Frame
    BY DEF MgrTyped, MgrTypeOK
  <2> QED
    BY <2>1 DEF AttemptEnds, At, Frame
<1> QED
  BY <1>1, <1>2, AfterConnectPc

\* Every step keeps connections and tasks together.
LEMMA OwnContinue ==
    ASSUME MgrTyped, Distinct, OwnConn, NEW t \in Tasks, Continue(t)
    PROVE  Distinct' /\ OwnConn'
<1>0. Typed /\ frame \in [Tasks -> Frame] /\ frame[t] \in Frame /\ connections \in [Names -> Conns \cup {NoConn}]
  BY DEF MgrTyped, MgrTypeOK
<1>f. FrameShape(frame[t]) /\ TaskFits(frame[t], job[t])
  BY DEF MgrTyped, Shaped
<1>k. ASSUME UNCHANGED connections, OnlyTask(t), frame'[t].pc \notin Using,
             \A u \in Tasks \ {t} : frame'[u] = frame[u] \/ frame'[u].pc \notin Using
      PROVE  Distinct' /\ OwnConn'
  BY <1>k, OwnKeep DEF OnlyTask
<1>r. ASSUME Return(t) PROVE frame'[t].pc \notin Using /\ \A u \in Tasks \ {t} : frame'[u] = frame[u]
  BY <1>0, <1>r DEF Return, NoFrame, Using
<1>1. CASE Upstream(t)
  <2>1. frame' = frame /\ connections' = connections /\ \A u \in Tasks : job'[u].conn = job[u].conn
    BY <1>0, <1>1, UpstreamMoves DEF Upstream, mgrVars, OnlyTask
  <2> QED
    BY <2>1, OwnKeep
<1>2. CASE ConnectSucceeded(t) \/ ConnectErrored(t)
  <2>1. AttemptEnds(t) /\ OnlyTask(t) /\ connections' = connections
    BY <1>0, <1>2, Collects DEF ConnectSucceeded, ConnectErrored
  <2> QED
    BY <1>k, <2>1, AttemptEndsFrames DEF Using
<1>3. CASE ConnectExpires(t)
  <2>1. frame' = frame /\ connections' = connections /\ \A u \in Tasks : job'[u].conn = job[u].conn
    BY <1>0, <1>3, FinishAt DEF ConnectExpires, ConnectTimedOut, mgrVars
  <2> QED
    BY <2>1, OwnKeep
<1>4. CASE Joined(t)
  <2>1. connections' = connections /\ job' = job /\ frame' = [frame EXCEPT ![t] = AfterConnect(t)]
    BY <1>4 DEF Joined, SetFrame, connVars
  <2>2. frame'[t].pc \notin Using /\ \A u \in Tasks \ {t} : frame'[u] = frame[u]
    BY <1>0, <2>1, AfterConnectPc DEF Using
  <2> QED
    BY <1>k, <2>1, <2>2 DEF OnlyTask
<1>5. CASE EvictEnd(t)
  <2>1. CASE frame[t].name = NoName
    BY <1>0, <1>5, <1>k, <1>r, <2>1, Collects DEF EvictEnd
  <2>2. CASE frame[t].name # NoName
    BY <1>0, <1>5, <2>2, OwnConnects DEF EvictEnd, Frame
  <2> QED
    BY <2>1, <2>2
<1>6. CASE ReaperEvicts(t)
  <2>1. frame[t].victim \in Names
    BY <1>6, <1>f DEF ReaperEvicts, At, FrameShape
  <2>2. CASE EvictBegin(t, frame[t].victim) /\ Goto(t, "evicting")
    <3> DEFINE f == [frame[t] EXCEPT !.pc = "evicting"]
    <3>1. f.pc = "evicting" /\ f.victim = frame[t].victim /\ frame' = [frame EXCEPT ![t] = f]
      BY <1>0, <2>2 DEF Frame, Goto
    <3>2. job'[t].conn = connections[frame[t].victim] /\ OnlyTask(t) /\ UNCHANGED connections
      BY <1>0, <2>1, <2>2, NamedConn, DrainBegins DEF EvictBegin
    <3> HIDE DEF f
    <3> QED
      BY <2>1, <3>1, <3>2, OwnTakes
  <2>3. CASE Return(t) /\ UNCHANGED <<connVars, connections>>
    BY <1>k, <1>r, <2>3 DEF connVars, OnlyTask
  <2> QED
    BY <1>6, <2>2, <2>3 DEF ReaperEvicts
<1>7. CASE ReconnectClosed(t)
  BY <1>7, <1>f, OwnConnects DEF ReconnectClosed, At, FrameShape
<1>8. CASE Dispatch(t)
  <2>1. OnlyTask(t) /\ UNCHANGED connections
    BY <1>0, <1>8, <1>f, CallBegins DEF Dispatch, At, FrameShape
  <2>2. frame'[t].pc = "calling" /\ \A u \in Tasks \ {t} : frame'[u] = frame[u]
    BY <1>0, <1>8 DEF Dispatch, Goto, Frame
  <2> QED
    BY <1>k, <2>1, <2>2 DEF Using
<1>9. CASE RouteEnds(t)
  BY <1>0, <1>9, <1>k, <1>r, Collects DEF RouteEnds
<1>10. CASE RemoveEnd(t)
  <2>1. OnlyTask(t) /\ \A n \in Names : connections'[n] \in {connections[n], NoConn}
    BY <1>0, <1>10, Collects DEF RemoveEnd
  <2> QED
    BY <1>10, <1>r, <2>1, OwnKeep DEF RemoveEnd, OnlyTask
<1>11. CASE ReplaceDrained(t)
  <2>1. OnlyTask(t) /\ \A n \in Names : connections'[n] \in {connections[n], NoConn}
    BY <1>0, <1>11, Collects DEF ReplaceDrained
  <2>2. frame'[t].pc = "add" /\ \A u \in Tasks \ {t} : frame'[u] = frame[u]
    BY <1>0, <1>11 DEF ReplaceDrained, Goto, Frame
  <2> QED
    BY <2>1, <2>2, OwnKeep DEF OnlyTask, Using
<1>12. CASE ReplaceAdds(t)
  <2>1. CASE Return(t) /\ UNCHANGED <<connVars, connections>>
    BY <1>k, <1>r, <2>1 DEF connVars, OnlyTask
  <2>2. CASE ConnectTimed(t, "replace", frame[t].name)
    BY <1>12, <1>f, <2>2, OwnConnects DEF ReplaceAdds, At, FrameShape
  <2> QED
    BY <1>12, <2>1, <2>2 DEF ReplaceAdds, AddServer
<1> QED
  BY <1>1, <1>2, <1>3, <1>4, <1>5, <1>6, <1>7, <1>8, <1>9, <1>10, <1>11, <1>12 DEF Continue

\* So does every operation that begins.
LEMMA OwnStart ==
    ASSUME MgrTyped, Distinct, OwnConn, NEW t \in Tasks, NEW n \in Names, Start(t, n)
    PROVE  Distinct' /\ OwnConn'
<1>0. Typed /\ frame \in [Tasks -> Frame] /\ connections \in [Names -> Conns \cup {NoConn}]
  BY DEF MgrTyped, MgrTypeOK
<1>k. ASSUME UNCHANGED connections, job' = job, NEW f, frame' = [frame EXCEPT ![t] = f], f.pc \notin Using
      PROVE  Distinct' /\ OwnConn'
  BY <1>0, <1>k, OwnKeep
<1>e. ASSUME NEW v \in Names, EvictBegin(t, v), NEW op, NEW m, SetFrame(t, NewFrame(op, "evicting", m, v))
      PROVE  Distinct' /\ OwnConn'
  <2>1. job'[t].conn = connections[v] /\ OnlyTask(t) /\ UNCHANGED connections
    BY <1>0, <1>e, NamedConn, DrainBegins DEF EvictBegin
  <2> QED
    BY <1>e, <2>1, OwnTakes DEF SetFrame, NewFrame
<1>1. ASSUME NEW op, EnsureConnected(t, op, n) PROVE Distinct' /\ OwnConn'
  BY <1>1, <1>e, OwnConnects DEF EnsureConnected, LRUVictims, LiveOthers
<1>2. ASSUME NEW op, AddServer(t, op, n) PROVE Distinct' /\ OwnConn'
  BY <1>2, <1>k, OwnConnects DEF AddServer, Return, NoFrame, Using, connVars
<1>3. CASE Boot(t, n)
  BY <1>3, OwnConnects DEF Boot
<1>4. CASE Stop(t, n)
  BY <1>4, <1>e DEF Stop
<1>5. CASE Warm(t, n)
  BY <1>1, <1>5 DEF Warm
<1>6. CASE Reconnect(t, n)
  <2>1. CASE Up(n)
    <3>1. job'[t].conn = connections[n] /\ OnlyTask(t) /\ UNCHANGED connections
      BY <1>0, <1>6, <2>1, NamedConn, DisconnectBegins DEF Reconnect, Up
    <3> QED
      BY <1>6, <2>1, <3>1, OwnTakes DEF Reconnect, SetFrame, NewFrame
  <2>2. CASE ~Up(n)
    BY <1>6, <2>2, OwnConnects DEF Reconnect
  <2> QED
    BY <2>1, <2>2
<1>7. CASE Route(t, n)
  <2>1. ASSUME NEW op, SetFrame(t, [NewFrame(op, "gate", n, NoName) EXCEPT !.conn = connections[n]]),
               UNCHANGED <<connVars, connections>>
        PROVE  Distinct' /\ OwnConn'
    <3> DEFINE f == [NewFrame(op, "gate", n, NoName) EXCEPT !.conn = connections[n]]
    <3>1. f.pc = "gate" /\ frame' = [frame EXCEPT ![t] = f]
      BY <2>1 DEF NewFrame, SetFrame
    <3> HIDE DEF f
    <3> QED
      BY <1>k, <2>1, <3>1 DEF connVars, Using
  <2> QED
    BY <1>1, <1>7, <2>1 DEF Route
<1>8. CASE Add(t, n)
  BY <1>2, <1>8 DEF Add
<1>9. ASSUME NEW op, DrainOld(t, op, n) PROVE Distinct' /\ OwnConn'
  <2>1. job'[t].conn = connections[n] /\ OnlyTask(t) /\ UNCHANGED connections
    BY <1>0, <1>9, NamedConn, DrainBegins DEF DrainOld
  <2> QED
    BY <1>9, <2>1, OwnTakes DEF DrainOld, SetFrame, NewFrame
<1> QED
  BY <1>2, <1>3, <1>4, <1>5, <1>6, <1>7, <1>8, <1>9 DEF Start, Remove, Replace

\* So does every other step.
LEMMA OwnStep ==
    ASSUME MgrTyped, Distinct, OwnConn, [Next]_vars
    PROVE  Distinct' /\ OwnConn'
<1>1. CASE Sweep
  <2>1. ASSUME NEW t \in Tasks, NEW v, frame'[t] = NewFrame("reap", "evict", NoName, v)
        PROVE  frame'[t].pc \notin Using
    BY <2>1 DEF NewFrame, Using
  <2>2. UNCHANGED <<connections, job>>
    BY <1>1 DEF Sweep, connVars
  <2> QED
    BY <1>1, <2>1, <2>2, SweepFrames, OwnKeep
<1>2. CASE UNCHANGED vars \/ \E n \in Names : Ages(n)
  <2>1. UNCHANGED <<connections, job, frame>>
    BY <1>2 DEF vars, connVars, mgrVars, Ages
  <2> QED
    BY <2>1, OwnKeep
<1> QED
  BY <1>1, <1>2, OwnContinue, OwnStart DEF Next

------------------------------------------------------------------------------
(* The registry *)

\* What the next _sync_registry() would list of backend n.
Shows(n) == IF Up(n) THEN connections[n] \in withTools ELSE evictedCaps[n] = "tools"

\* The registry has been synced with what backend n is.
Listed(n) == n \in registry <=> Shows(n)

\* A task that will sync the registry, or go on to connect the backend.
Dirty(t, n) ==
    \/ frame[t].pc \in {"connecting", "closing", "draining", "add"} /\ frame[t].name = n
    \/ At(t, "evicting") /\ frame[t].victim = n

\* A backend that the registry does not list as it is has a task that will see
\* to it; one that is up has the task that brought it up.
Synced ==
    \A n \in Names :
        /\ Up(n) => Listed(n) \/ connecting[n] # NoTask
        /\ Listed(n) \/ \E t \in Tasks : Dirty(t, n)

\* Nothing that the registry says of backend n has changed.
Same(n) == (Up(n)' <=> Up(n)) /\ (Shows(n)' <=> Shows(n))

\* It depends on the connection of the backend and on its cached capabilities.
LEMMA SameIf ==
    ASSUME MgrTyped, NEW n \in Names, connections'[n] = connections[n], evictedCaps'[n] = evictedCaps[n],
           connections[n] \in Conns =>
              /\ state'[connections[n]] = state[connections[n]]
              /\ connections[n] \in withTools' <=> connections[n] \in withTools
    PROVE  Same(n)
<1>1. connections[n] \in Conns \/ connections[n] = NoConn
  BY DEF MgrTyped, MgrTypeOK
<1> QED
  BY <1>1 DEF Same, Up, Shows, IsConnected

\* A connection that goes down is listed as before until it is down.
LEMMA SameSinking ==
    ASSUME MgrTyped, NEW n \in Names, connections'[n] = connections[n], connections[n] \in Conns,
           Sinks(connections[n]), Up(n)'
    PROVE  Same(n)
<1>1. connections[n] # NoConn
  BY NullsAssumption
<1> QED
  BY <1>1 DEF Same, Up, Shows, IsConnected, Sinks

\* A sync lists every backend as it is.
LEMMA SyncsAll ==
    ASSUME NEW caps, registry' = Published(caps), evictedCaps' = caps, UNCHANGED <<connections, state, withTools>>
    PROVE  Synced'
<1>1. \A n \in Names : Listed(n)'
  BY DEF Listed, Shows, Published, Up, IsConnected
<1> QED
  BY <1>1 DEF Synced

\* A step of task t on behalf of backend s, without a sync.
LEMMA SyncKeep ==
    ASSUME MgrTyped, Synced, NEW t \in Tasks, NEW s \in Names, UNCHANGED registry,
           \A m \in Names : connecting'[m] = NoTask => connecting[m] = NoTask,
           \A m \in Names \ {s} : Same(m) /\ ~Dirty(t, m),
           Up(s)' => Same(s) \/ connecting'[s] # NoTask,
           \A u \in Tasks \ {t} : frame'[u] = frame[u],
           Listed(s)' \/ \E u \in Tasks : Dirty(u, s)'
    PROVE  Synced'
<1>1. ASSUME NEW n \in Names, n # s PROVE (Up(n)' => Listed(n)' \/ connecting'[n] # NoTask)
                                         /\ (Listed(n)' \/ \E u \in Tasks : Dirty(u, n)')
  <2>1. (Listed(n)' <=> Listed(n)) /\ (Up(n)' <=> Up(n))
    BY <1>1 DEF Same, Listed
  <2>2. \A u \in Tasks : Dirty(u, n) => Dirty(u, n)'
    BY <1>1 DEF Dirty, At
  <2> QED
    BY <2>1, <2>2 DEF Synced
<1>2. Up(s)' => Listed(s)' \/ connecting'[s] # NoTask
  BY DEF Synced, Same, Listed
<1> QED
  BY <1>1, <1>2 DEF Synced

\* A step that changes no connection, and takes no task away from its duty.
LEMMA SyncIdle ==
    ASSUME MgrTyped, Synced, UNCHANGED <<state, withTools, connections, evictedCaps, registry, connecting>>,
           \A u \in Tasks, n \in Names : Dirty(u, n) => Dirty(u, n)'
    PROVE  Synced'
<1>1. \A n \in Names : Same(n)
  BY SameIf
<1> QED
  BY <1>1 DEF Synced, Same, Listed

\* A task that drains or closes the connection of its backend.
LEMMA SyncTakes ==
    ASSUME MgrTyped, Distinct, Synced, NEW t \in Tasks, NEW n \in Names, connections[n] \in Conns,
           UNCHANGED <<connections, registry, connecting>>,
           \A m \in Names \ {n} : evictedCaps'[m] = evictedCaps[m],
           OnlyConn(connections[n]), Sinks(connections[n]), NEW f, frame' = [frame EXCEPT ![t] = f],
           \/ f.pc \in {"closing", "draining"} /\ f.name = n
           \/ f.pc = "evicting" /\ f.victim = n,
           \A m \in Names : ~Dirty(t, m)
    PROVE  Synced'
<1>1. ASSUME NEW m \in Names \ {n} PROVE Same(m)
  <2>1. connections[m] \in Conns => connections[m] # connections[n]
    BY NullsAssumption DEF Distinct
  <2> QED
    BY <2>1, SameIf DEF OnlyConn
<1>2. Up(n)' => Same(n)
  BY SameSinking
<1>3. frame'[t] = f /\ \A u \in Tasks \ {t} : frame'[u] = frame[u]
  BY DEF MgrTyped, MgrTypeOK
<1>4. Dirty(t, n)'
  BY <1>3 DEF Dirty, At
<1> QED
  BY <1>1, <1>2, <1>3, <1>4, SyncKeep

\* _connect_timed, by a task that has nothing else to see to.
LEMMA SyncConnects ==
    ASSUME MgrTyped, OneAttempt, Synced, NEW t \in Tasks, NEW n \in Names, NEW op, ConnectTimed(t, op, n),
           UNCHANGED <<registry, evictedCaps>>, ~At(t, "connecting"),
           \A m \in Names \ {n} : ~Dirty(t, m)
    PROVE  Synced'
<1>0. frame \in [Tasks -> Frame] /\ connections \in [Names -> Conns \cup {NoConn}]
      /\ connecting \in [Names -> Tasks \cup {NoTask}]
  BY DEF MgrTyped, MgrTypeOK
<1>o. \A u \in Tasks \ {t} : frame'[u] = frame[u]
  BY <1>0, ConnectBegins
<1>1. CASE connecting[n] = NoTask
  <2>1. ASSUME NEW m \in Names \ {n} PROVE Same(m)
    <3>1. connections[m] # NewConn /\ connections'[m] = connections[m]
      BY <1>0, <1>1, ConnectBegins DEF FreshConn
    <3> QED
      BY <1>1, <3>1, ConnectBegins, SameIf DEF OnlyConn
  <2>2. connections'[n] = NewConn /\ state'[NewConn] = "connecting"
    BY <1>0, <1>1, ConnectBegins
  <2>3. ~Up(n)'
    BY <2>2 DEF Up, IsConnected
  <2>4. Dirty(t, n)'
    BY <1>0, <1>1, ConnectBegins DEF Dirty, NewFrame
  <2>5. \A m \in Names : connecting'[m] = NoTask => connecting[m] = NoTask
    BY <1>0, <1>1, ConnectBegins
  <2> QED
    BY <1>o, <2>1, <2>3, <2>4, <2>5, SyncKeep
<1>2. CASE connecting[n] # NoTask
  <2>1. UNCHANGED <<connections, state, withTools, connecting>>
    BY <1>2, ConnectBegins
  <2>2. \A m \in Names : Same(m)
    BY <2>1, SameIf
  <2>3. PICK u \in Tasks : connecting[n] = u
    BY <1>0, <1>2
  <2>4. u # t /\ Dirty(u, n)'
    BY <1>o, <2>3 DEF OneAttempt, At, Dirty
  <2> QED
    BY <1>o, <2>1, <2>2, <2>4, SyncKeep
<1> QED
  BY <1>1, <1>2

\* No task is a supervisor, a cold-start retry or the shutdown: module
\* Supervisor adds those.
Managed == \A t \in Tasks : frame[t].pc \notin {"attempt", "done", "dropping", "disconnecting"}

\* What the tasks are at after a step of one of them.
LEMMA ManagedSet ==
    ASSUME MgrTyped, Managed, NEW t \in Tasks, NEW f, frame' = [frame EXCEPT ![t] = f],
           f.pc \notin {"attempt", "done", "dropping", "disconnecting"}
    PROVE  Managed'
BY DEF MgrTyped, MgrTypeOK, Managed

\* _connect_timed starts no such task.
LEMMA ManagedConnects ==
    ASSUME MgrTyped, Managed, NEW t \in Tasks, NEW op, NEW n, ConnectTimed(t, op, n)
    PROVE  Managed'
<1>1. ASSUME NEW pc \in {"connecting", "joining"}, SetFrame(t, NewFrame(op, pc, n, NoName)) PROVE Managed'
  BY <1>1, ManagedSet DEF SetFrame, NewFrame
<1> QED
  BY <1>1 DEF ConnectTimed

\* Nor does any operation of the manager.
LEMMA ManagedStep ==
    ASSUME MgrTyped, Managed, [Next]_vars
    PROVE  Managed'
<1>0. frame \in [Tasks -> Frame]
  BY DEF MgrTyped, MgrTypeOK
<1>g. ASSUME NEW t \in Tasks, NEW pc \in {"evicting", "calling", "add"}, Goto(t, pc) PROVE Managed'
  BY <1>0, <1>g DEF Goto, Managed
<1>n. ASSUME NEW t \in Tasks, NEW op, NEW pc \in {"evicting", "closing", "draining"}, NEW n, NEW v,
             SetFrame(t, NewFrame(op, pc, n, v))
      PROVE  Managed'
  BY <1>n, ManagedSet DEF SetFrame, NewFrame
<1>r. ASSUME NEW t \in Tasks, Return(t) PROVE Managed'
  BY <1>r, ManagedSet DEF Return, NoFrame
<1>1. ASSUME NEW t \in Tasks, Continue(t) PROVE Managed'
  <2>1. CASE Upstream(t) \/ ConnectExpires(t)
    BY <2>1 DEF Upstream, ConnectExpires, mgrVars, Managed
  <2>2. CASE ConnectSucceeded(t) \/ ConnectErrored(t)
    BY <2>2, AttemptEndsFrames DEF ConnectSucceeded, ConnectErrored, Managed
  <2>3. CASE Joined(t)
    <3>1. AfterConnect(t).pc \in {"gate", "next", "idle"}
      BY <1>0 DEF AfterConnect, Frame, NoFrame
    <3> QED
      BY <2>3, <3>1, ManagedSet DEF Joined, SetFrame
  <2>4. CASE EvictEnd(t)
    BY <1>r, <2>4, ManagedConnects DEF EvictEnd
  <2>5. CASE ReaperEvicts(t) \/ Dispatch(t) \/ RouteEnds(t) \/ RemoveEnd(t) \/ ReplaceDrained(t)
    BY <1>g, <1>r, <2>5 DEF ReaperEvicts, Dispatch, RouteEnds, RemoveEnd, ReplaceDrained
  <2>6. CASE ReconnectClosed(t) \/ ReplaceAdds(t)
    BY <1>r, <2>6, ManagedConnects DEF ReconnectClosed, ReplaceAdds, AddServer
  <2> QED
    BY <1>1, <2>1, <2>2, <2>3, <2>4, <2>5, <2>6 DEF Continue
<1>2. ASSUME NEW t \in Tasks, NEW n \in Names, Start(t, n) PROVE Managed'
  <2>1. ASSUME NEW op, EnsureConnected(t, op, n) PROVE Managed'
    BY <1>n, <2>1, ManagedConnects DEF EnsureConnected
  <2>2. CASE Route(t, n)
    <3>1. ASSUME NEW op, SetFrame(t, [NewFrame(op, "gate", n, NoName) EXCEPT !.conn = connections[n]]) PROVE Managed'
      BY <3>1, ManagedSet DEF SetFrame, NewFrame
    <3> QED
      BY <2>1, <2>2, <3>1 DEF Route
  <2> QED
    BY <1>2, <1>n, <1>r, <2>1, <2>2, ManagedConnects
    DEF Start, Boot, Stop, Warm, Reconnect, Add, AddServer, Remove, Replace, DrainOld
<1>3. CASE Sweep
  <2>1. \A v : NewFrame("reap", "evict", NoName, v).pc = "evict"
    BY DEF NewFrame
  <2> QED
    BY <1>3, <2>1, SweepFrames DEF Managed
<1>4. CASE UNCHANGED vars \/ \E n \in Names : Ages(n)
  BY <1>4 DEF vars, mgrVars, Ages, Managed
<1> QED
  BY <1>1, <1>2, <1>3, <1>4 DEF Next

\* Operations that go on keep the registry in sync.
LEMMA SyncContinue ==
    ASSUME MgrTyped, Managed, OneAttempt, Distinct, OwnConn, Synced, NEW t \in Tasks, Continue(t)
    PROVE  Synced'
<1>0. /\ Typed /\ frame \in [Tasks -> Frame] /\ frame[t] \in Frame
      /\ connections \in [Names -> Conns \cup {NoConn}] /\ evictedCaps \in [Names -> {"absent", "empty", "tools"}]
  BY DEF MgrTyped, MgrTypeOK
<1>f. FrameShape(frame[t]) /\ TaskFits(frame[t], job[t])
  BY DEF MgrTyped, Shaped
<1>m. ASSUME \/ frame[t].pc \in {"handshake", "idle", "evict", "joining", "joined", "gate", "calling"},
             \A u \in Tasks \ {t} : frame'[u] = frame[u]
      PROVE  \A u \in Tasks, n \in Names : Dirty(u, n) => Dirty(u, n)'
  BY <1>m DEF Dirty, At
<1>r. Return(t) => \A u \in Tasks \ {t} : frame'[u] = frame[u]
  BY <1>0 DEF Return
<1>1. ASSUME frame[t].pc \in Using, UNCHANGED mgrVars, job[t].conn \in Conns, OnlyConn(job[t].conn),
             At(t, "connecting") \/ Sinks(job[t].conn)
      PROVE  Synced'
  <2>n. Subject(t) \in Names
    BY <1>1, <1>f DEF Subject, FrameShape, At, Using
  <2> PICK s \in Names : s = Subject(t)
    BY <2>n
  <2>0. UNCHANGED <<frame, connections, registry, connecting, evictedCaps>>
    BY <1>1 DEF mgrVars
  <2>1. ASSUME NEW m \in Names, m # s PROVE Same(m)
    <3>1. connections[m] \in Conns => connections[m] # job[t].conn
      BY <1>1, <2>1, NullsAssumption DEF OwnConn
    <3> QED
      BY <1>1, <2>0, <3>1, SameIf DEF OnlyConn
  <2>2. Dirty(t, s)' /\ \A m \in Names \ {s} : ~Dirty(t, m)
    BY <1>1, <2>0 DEF Dirty, Subject, At, Using
  <2>3. At(t, "connecting") => connecting[s] # NoTask
    BY <2>0, NullsAssumption DEF OneAttempt, Subject, At
  <2>4. CASE connections[s] = job[t].conn
    <3>1. Up(s)' => Same(s) \/ connecting'[s] # NoTask
      BY <1>1, <2>0, <2>3, <2>4, SameSinking
    <3> QED
      BY <2>0, <2>1, <2>2, <3>1, SyncKeep
  <2>5. CASE connections[s] # job[t].conn
    <3>1. Same(s)
      BY <1>1, <2>0, <2>5, SameIf DEF OnlyConn
    <3> QED
      BY <2>0, <2>1, <2>2, <3>1, SyncKeep
  <2> QED
    BY <2>4, <2>5
<1>2. CASE Upstream(t)
  <2>0. frame[t].pc \in Using \/ job[t].op = "call"
    BY <1>0, <1>2, <1>f, UpstreamMoves DEF TaskFits, Using, Managed
  <2>1. CASE frame[t].pc \in Using
    <3>1. At(t, "connecting") \/ Sinks(job[t].conn)
      BY <1>0, <1>2, <1>f, <2>1, UpstreamMoves DEF TaskFits, Using, At
    <3> QED
      BY <1>0, <1>1, <1>2, <2>1, <3>1, UpstreamMoves DEF Upstream
  <2>2. CASE job[t].op = "call"
    BY <1>0, <1>2, <2>2, UpstreamMoves, SyncIdle DEF Upstream, mgrVars, Dirty, At
  <2> QED
    BY <2>0, <2>1, <2>2
<1>3. CASE ConnectSucceeded(t) \/ ConnectErrored(t)
  BY <1>0, <1>3, Collects, SyncsAll DEF ConnectSucceeded, ConnectErrored, SyncRegistry
<1>4. CASE ConnectExpires(t)
  <2>1. job[t].conn \in Conns
    BY <1>0, <1>4 DEF ConnectExpires, ConnectTimedOut, Typed, JobShape
  <2>2. OnlyConn(job[t].conn)
    BY <1>0, <1>4, <2>1 DEF ConnectExpires, ConnectTimedOut, OnlyConn, Typed, TypeOK
  <2> QED
    BY <1>1, <1>4, <2>1, <2>2 DEF ConnectExpires, At, Using
<1>5. CASE Joined(t)
  BY <1>0, <1>5, <1>m, SyncIdle DEF Joined, At, SetFrame, connVars
<1>6. CASE EvictEnd(t)
  <2>1. CASE frame[t].name = NoName
    BY <1>0, <1>6, <2>1, Collects, SyncsAll DEF EvictEnd, SyncRegistry
  <2>2. CASE frame[t].name # NoName
    <3>n. frame[t].name \in Names
      BY <1>0, <2>2 DEF Frame
    <3> PICK n \in Names : n = frame[t].name
      BY <3>n
    <3>1. ConnectTimed(t, frame[t].op, n) /\ registry' = Published(evictedCaps) /\ evictedCaps' = evictedCaps
      BY <1>6, <2>2 DEF EvictEnd, SyncRegistry
    <3>2. CASE connecting[n] = NoTask
      <4>1. ASSUME NEW m \in Names \ {n} PROVE Listed(m)'
        <5>1. connections[m] # NewConn /\ connections'[m] = connections[m]
          BY <1>0, <3>1, <3>2, ConnectBegins DEF FreshConn
        <5>2. Same(m)
          BY <3>1, <3>2, <5>1, ConnectBegins, SameIf DEF OnlyConn
        <5> QED
          BY <3>1, <5>2 DEF Same, Listed, Published, Shows
      <4>2. connections'[n] = NewConn /\ state'[NewConn] = "connecting"
        BY <1>0, <3>1, <3>2, ConnectBegins
      <4>3. ~Up(n)'
        BY <4>2 DEF Up, IsConnected
      <4>4. Dirty(t, n)'
        BY <1>0, <3>1, <3>2, ConnectBegins DEF Dirty, NewFrame
      <4> QED
        BY <4>1, <4>3, <4>4 DEF Synced
    <3>3. CASE connecting[n] # NoTask
      BY <3>1, <3>3, ConnectBegins, SyncsAll
    <3> QED
      BY <3>2, <3>3
  <2> QED
    BY <2>1, <2>2
<1>7. CASE ReaperEvicts(t)
  <2>1. frame[t].victim \in Names /\ \A m \in Names : ~Dirty(t, m)
    BY <1>7, <1>f DEF ReaperEvicts, At, FrameShape, Dirty
  <2>2. CASE EvictBegin(t, frame[t].victim) /\ Goto(t, "evicting")
    <3> DEFINE f == [frame[t] EXCEPT !.pc = "evicting"]
               v == frame[t].victim
    <3>1. f.pc = "evicting" /\ f.victim = v /\ frame' = [frame EXCEPT ![t] = f]
      BY <1>0, <2>2 DEF Frame, Goto
    <3>2. connections[v] \in Conns /\ OnlyConn(connections[v]) /\ Sinks(connections[v])
      BY <1>0, <2>1, <2>2, NamedConn, DrainBegins DEF EvictBegin
    <3>3. UNCHANGED <<connections, registry, connecting>> /\ \A m \in Names \ {v} : evictedCaps'[m] = evictedCaps[m]
      BY <1>0, <2>2 DEF EvictBegin, CacheCaps
    <3> HIDE DEF f
    <3> QED
      BY <2>1, <3>1, <3>2, <3>3, SyncTakes
  <2>3. CASE Return(t) /\ UNCHANGED <<connVars, connections, evictedCaps, registry, connecting>>
    BY <1>7, <1>m, <1>r, <2>3, SyncIdle DEF ReaperEvicts, At, connVars
  <2> QED
    BY <1>7, <2>2, <2>3 DEF ReaperEvicts
<1>8. CASE ReconnectClosed(t)
  BY <1>8, <1>f, SyncConnects DEF ReconnectClosed, At, FrameShape, Dirty
<1>9. CASE Dispatch(t)
  <2>1. UNCHANGED <<state, withTools>>
    BY <1>0, <1>9, <1>f, CallBegins DEF Dispatch, At, FrameShape
  <2> QED
    BY <1>0, <1>9, <1>m, <2>1, SyncIdle DEF Dispatch, At, Goto
<1>10. CASE RouteEnds(t)
  BY <1>0, <1>10, <1>m, <1>r, Collects, SyncIdle DEF RouteEnds, At
<1>11. CASE RemoveEnd(t)
  <2> DEFINE n == frame[t].name
  <2>1. /\ n \in Names /\ registry' = Published([evictedCaps EXCEPT ![n] = "absent"]) \ {n}
        /\ evictedCaps' = [evictedCaps EXCEPT ![n] = "absent"] /\ connections' = [connections EXCEPT ![n] = NoConn]
        /\ UNCHANGED <<state, withTools>>
    BY <1>0, <1>11, <1>f, Collects DEF RemoveEnd, FrameShape
  <2>2. ASSUME NEW m \in Names PROVE Listed(m)'
    <3>1. CASE m = n
      BY <1>0, <2>1, <3>1 DEF Listed, Shows, Up
    <3>2. CASE m # n
      BY <1>0, <2>1, <3>2 DEF Listed, Shows, Published, Up, IsConnected
    <3> QED
      BY <3>1, <3>2
  <2> QED
    BY <2>2 DEF Synced
<1>12. CASE ReplaceDrained(t)
  <2>n. frame[t].name \in Names
    BY <1>12, <1>f DEF ReplaceDrained, FrameShape, At
  <2> PICK n \in Names : n = frame[t].name
    BY <2>n
  <2>1. connections' = [connections EXCEPT ![n] = NoConn] /\ UNCHANGED <<state, withTools, evictedCaps, registry, connecting>>
    BY <1>0, <1>12, Collects DEF ReplaceDrained
  <2>2. \A m \in Names \ {n} : Same(m) /\ ~Dirty(t, m)
    BY <1>0, <1>12, <2>1, SameIf DEF Dirty, ReplaceDrained, At
  <2>3. ~Up(n)'
    BY <1>0, <2>1 DEF Up
  <2>4. Dirty(t, n)' /\ \A u \in Tasks \ {t} : frame'[u] = frame[u]
    BY <1>0, <1>12 DEF ReplaceDrained, Goto, Dirty, Frame
  <2> QED
    BY <2>1, <2>2, <2>3, <2>4, SyncKeep
<1>13. CASE ReplaceAdds(t)
  <2>n. frame[t].name \in Names
    BY <1>13, <1>f DEF ReplaceAdds, FrameShape, At
  <2> PICK n \in Names : n = frame[t].name
    BY <2>n
  <2>0. ~At(t, "connecting") /\ \A m \in Names \ {n} : ~Dirty(t, m)
    BY <1>13 DEF ReplaceAdds, At, Dirty
  <2>1. CASE Up(n) /\ Return(t) /\ UNCHANGED <<connVars, connections, connecting, evictedCaps, registry>>
    <3>1. \A m \in Names : Same(m)
      BY <2>1, SameIf DEF connVars
    <3>2. Listed(n)' \/ \E u \in Tasks : Dirty(u, n)'
      <4>1. CASE connecting[n] # NoTask
        <5>1. PICK u \in Tasks : connecting[n] = u
          BY <2>0, <4>1 DEF MgrTyped, MgrTypeOK
        <5>2. u # t /\ frame'[u] = frame[u] /\ Dirty(u, n)
          BY <1>r, <2>0, <2>1, <5>1 DEF OneAttempt, At, Dirty
        <5> QED
          BY <5>2 DEF Dirty, At
      <4>2. CASE Listed(n)
        BY <2>0, <2>1, <3>1, <4>2 DEF Same, Listed
      <4> QED
        BY <2>0, <2>1, <4>1, <4>2 DEF Synced
    <3> QED
      BY <1>r, <2>0, <2>1, <3>1, <3>2, SyncKeep
  <2>2. CASE ConnectTimed(t, "replace", n) /\ UNCHANGED <<evictedCaps, registry>>
    BY <2>0, <2>2, SyncConnects
  <2> QED
    BY <1>13, <2>1, <2>2 DEF ReplaceAdds, AddServer
<1> QED
  BY <1>2, <1>3, <1>4, <1>5, <1>6, <1>7, <1>8, <1>9, <1>10, <1>11, <1>12, <1>13 DEF Continue
\* So do operations that begin.
LEMMA SyncStart ==
    ASSUME MgrTyped, OneAttempt, Distinct, Synced, NEW t \in Tasks, NEW n \in Names, Start(t, n)
    PROVE  Synced'
<1>0. /\ Typed /\ frame \in [Tasks -> Frame]
      /\ connections \in [Names -> Conns \cup {NoConn}] /\ evictedCaps \in [Names -> {"absent", "empty", "tools"}]
  BY DEF MgrTyped, MgrTypeOK
<1>i. frame[t] = NoFrame
  BY DEF Start, Boot, Stop, Warm, Reconnect, Route, Add, Remove, Replace, DrainOld, Idle
<1>d. ~At(t, "connecting") /\ \A m \in Names : ~Dirty(t, m)
  BY <1>i DEF NoFrame, Dirty, At
<1>k. ASSUME NEW f, frame' = [frame EXCEPT ![t] = f],
             UNCHANGED <<connVars, connections, evictedCaps, registry, connecting>>
      PROVE  Synced'
  <2>1. \A u \in Tasks \ {t} : frame'[u] = frame[u]
    BY <1>0, <1>k
  <2>2. ASSUME NEW u \in Tasks, NEW m \in Names, Dirty(u, m) PROVE Dirty(u, m)'
    <3>1. u # t
      BY <1>d, <2>2
    <3> QED
      BY <2>1, <2>2, <3>1 DEF Dirty, At
  <2> QED
    BY <1>k, <2>2, SyncIdle DEF connVars
<1>e. ASSUME NEW v \in Names, EvictBegin(t, v), NEW op, NEW m, SetFrame(t, NewFrame(op, "evicting", m, v))
      PROVE  Synced'
  <2>1. connections[v] \in Conns /\ OnlyConn(connections[v]) /\ Sinks(connections[v])
    BY <1>0, <1>e, NamedConn, DrainBegins DEF EvictBegin
  <2>2. UNCHANGED <<connections, registry, connecting>> /\ \A w \in Names \ {v} : evictedCaps'[w] = evictedCaps[w]
    BY <1>0, <1>e DEF EvictBegin, CacheCaps
  <2> QED
    BY <1>d, <1>e, <2>1, <2>2, SyncTakes DEF SetFrame, NewFrame
<1>1. ASSUME NEW op, EnsureConnected(t, op, n) PROVE Synced'
  BY <1>1, <1>d, <1>e, SyncConnects DEF EnsureConnected, LRUVictims, LiveOthers
<1>2. ASSUME NEW op, AddServer(t, op, n) PROVE Synced'
  BY <1>2, <1>d, <1>k, SyncConnects DEF AddServer, Return
<1>3. CASE Boot(t, n)
  BY <1>3, <1>d, SyncConnects DEF Boot
<1>4. CASE Stop(t, n)
  BY <1>4, <1>e DEF Stop
<1>5. CASE Warm(t, n)
  BY <1>1, <1>5 DEF Warm
<1>6. CASE Reconnect(t, n)
  <2>1. CASE Up(n)
    <3>1. connections[n] \in Conns /\ OnlyConn(connections[n]) /\ Sinks(connections[n])
      BY <1>0, <1>6, <2>1, NamedConn, DisconnectBegins DEF Reconnect, Up
    <3> QED
      BY <1>d, <1>6, <2>1, <3>1, SyncTakes DEF Reconnect, SetFrame, NewFrame
  <2>2. CASE ~Up(n)
    BY <1>6, <1>d, <2>2, SyncConnects DEF Reconnect
  <2> QED
    BY <2>1, <2>2
<1>7. CASE Route(t, n)
  BY <1>1, <1>7, <1>k DEF Route, SetFrame
<1>8. CASE Add(t, n)
  BY <1>2, <1>8 DEF Add
<1>9. ASSUME NEW op, DrainOld(t, op, n) PROVE Synced'
  <2>1. connections[n] \in Conns /\ OnlyConn(connections[n]) /\ Sinks(connections[n])
    BY <1>0, <1>9, NamedConn, DrainBegins DEF DrainOld
  <2> QED
    BY <1>d, <1>9, <2>1, SyncTakes DEF DrainOld, SetFrame, NewFrame
<1> QED
  BY <1>2, <1>3, <1>4, <1>5, <1>6, <1>7, <1>8, <1>9 DEF Start, Remove, Replace

\* So does every other step.
LEMMA SyncStep ==
    ASSUME MgrTyped, Managed, OneAttempt, Distinct, OwnConn, Synced, [Next]_vars
    PROVE  Synced'
<1>1. CASE Sweep
  <2>1. UNCHANGED <<state, withTools, connections, evictedCaps, registry, connecting>>
    BY <1>1 DEF Sweep, connVars
  <2>2. ASSUME NEW u \in Tasks, NEW m \in Names, Dirty(u, m) PROVE Dirty(u, m)'
    <3>1. frame'[u] = frame[u]
      BY <1>1, <2>2, SweepFrames DEF Idle, NoFrame, Dirty, At
    <3> QED
      BY <2>2, <3>1 DEF Dirty, At
  <2> QED
    BY <2>1, <2>2, SyncIdle
<1>2. CASE UNCHANGED vars \/ \E n \in Names : Ages(n)
  <2>1. UNCHANGED <<state, withTools, connections, evictedCaps, registry, connecting, frame>>
    BY <1>2 DEF vars, connVars, mgrVars, Ages
  <2>2. \A u \in Tasks, m \in Names : Dirty(u, m) => Dirty(u, m)'
    BY <2>1 DEF Dirty, At
  <2> QED
    BY <2>1, <2>2, SyncIdle
<1> QED
  BY <1>1, <1>2, SyncContinue, SyncStart DEF Next

------------------------------------------------------------------------------
(* The invariant of the manager, whatever operations and faults occur *)

\* It is the conjunction of the invariants above.
MgrInv == MgrTyped /\ IInv /\ Managed /\ OneAttempt /\ Held /\ Distinct /\ OwnConn /\ Synced

\* The manager starts with no backend, no attempt and an empty registry.
LEMMA MgrInvInit == Init => MgrInv
<1> SUFFICES ASSUME Init PROVE MgrInv
  OBVIOUS
<1>0. /\ MgrTyped /\ IInv
      /\ connections = [n \in Names |-> NoConn] /\ connecting = [n \in Names |-> NoTask] /\ lock = NoTask
      /\ registry = {} /\ evictedCaps = [n \in Names |-> "absent"] /\ frame = [t \in Tasks |-> NoFrame]
  BY MgrInitTyped DEF Init, MgrInit
<1>1. OneAttempt
  BY <1>0, NullsAssumption DEF OneAttempt, At, NoFrame
<1>2. Distinct /\ OwnConn /\ Held
  BY <1>0 DEF Distinct, OwnConn, Held
<1>3. Synced
  BY <1>0 DEF Synced, Listed, Shows, Up
<1>4. Managed
  BY <1>0 DEF Managed, NoFrame
<1> QED
  BY <1>0, <1>1, <1>2, <1>3, <1>4 DEF MgrInv

\* Every step keeps it.
LEMMA MgrInvNext == MgrInv /\ [Next]_vars => MgrInv'
BY MgrNextTyped, ManagedStep, GateStep, OwnStep, SyncStep DEF MgrInv

\* The invariant holds of every fleet, under every choice of Ops.
THEOREM ManagerInvariant == Spec => []MgrInv
BY MgrInvInit, MgrInvNext, PTL DEF Spec

\* W2-P1: a backend never has two connection attempts, and nobody joins an
\* attempt whose event will not be set (_connect_timed).
THEOREM AttemptsExclusive == Spec => []OneAttempt
BY ManagerInvariant, PTL DEF MgrInv

\* Whoever holds _lock is connecting or waits for a task that is.
THEOREM LockHolderMoves == Spec => []LockHolderProgress
<1>1. MgrInv => LockHolderProgress
  <2> SUFFICES ASSUME MgrInv, lock # NoTask, ~At(lock, "connecting"), ~At(lock, "joined")
               PROVE  At(lock, "joining") /\ connecting[frame[lock].name] \in {t \in Tasks : At(t, "connecting")}
    BY DEF LockHolderProgress, At
  <2>1. lock \in Tasks /\ frame[lock].pc = "joining"
    BY DEF MgrInv, MgrTyped, MgrTypeOK, Held, Attempting, At
  <2>2. frame[lock].name \in Names /\ connecting[frame[lock].name] # NoTask
    BY <2>1 DEF MgrInv, MgrTyped, Shaped, FrameShape, OneAttempt, At
  <2>3. connecting[frame[lock].name] \in Tasks
    BY <2>2 DEF MgrInv, MgrTyped, MgrTypeOK
  <2> QED
    BY <2>1, <2>2, <2>3 DEF MgrInv, OneAttempt, At
<1> QED
  BY <1>1, ManagerInvariant, PTL

\* When nothing is under way the registry lists exactly what the live and the
\* evicted backends offer (_sync_registry).
THEOREM RegistryUpToDate == Spec => []RegistryCurrent
<1>1. MgrInv => RegistryCurrent
  <2> SUFFICES ASSUME MgrInv, NEW n \in Names,
                      \A t \in Tasks : frame[t].pc \in {"idle", "gate", "calling"}
               PROVE  Listed(n)
    BY DEF RegistryCurrent, Listed, Shows, Published, MgrInv, MgrTyped, MgrTypeOK
  <2> QED
    BY DEF MgrInv, Synced, Dirty, At
<1> QED
  BY <1>1, ManagerInvariant, PTL

------------------------------------------------------------------------------
(* Calls and the clients that are closed *)

\* Tasks that open a client, wait for calls to end, or close a client.
Busy == {"handshake", "discover", "drain_wait", "closing"}

\* A connection that is being opened has no client yet, and nobody else opens,
\* drains or closes it.
Fresh ==
    \A t \in Tasks : job[t].op \in {"handshake", "discover"} =>
        /\ outbound[job[t].conn] = NoClient
        /\ \A u \in Tasks : job[u].conn = job[t].conn /\ job[u].op \in Busy => u = t

\* A connection with a client is up: the tests of its state are tests for it.
OutboundUp == \A c \in Conns : outbound[c] # NoClient => state[c] \in {"connected", "draining"}

\* A task that goes on with its connection, or leaves it.
LEMMA FreshKeep ==
    ASSUME Fresh, NEW t \in Tasks, OnlyTask(t),
           job'[t].op \in Busy => job[t].op \in Busy /\ job'[t].conn = job[t].conn,
           job'[t].op \in {"handshake", "discover"} => job[t].op \in {"handshake", "discover"},
           \A u \in Tasks : job'[u].op \in {"handshake", "discover"} =>
              outbound'[job'[u].conn] \in {outbound[job'[u].conn], NoClient}
    PROVE  Fresh'
<1>1. \A u \in Tasks : job'[u].op \in Busy => job[u].op \in Busy /\ job'[u].conn = job[u].conn
  BY DEF OnlyTask
<1>2. \A u \in Tasks : job'[u].op \in {"handshake", "discover"} => job[u].op \in {"handshake", "discover"}
  BY DEF OnlyTask
<1> QED
  BY <1>1, <1>2 DEF Fresh, Busy

\* A task that begins to drain or to close a connection that has a client.
LEMMA FreshTakes ==
    ASSUME Fresh, NEW t \in Tasks, OnlyTask(t), NEW c \in Conns, UNCHANGED outbound,
           job'[t].op \notin {"handshake", "discover"},
           job'[t].op \in Busy => job'[t].conn = c /\ outbound[c] # NoClient
    PROVE  Fresh'
BY DEF Fresh, OnlyTask

\* drain_and_disconnect(), with the lock.
LEMMA DrainLockedClean ==
    ASSUME IInv, Fresh, OutboundUp, NEW t \in Tasks, NEW c \in Conns, DrainLocked(t, c),
           job[t].op \notin {"handshake", "discover"}
    PROVE  Fresh' /\ OutboundUp'
<1>0. /\ Typed /\ state \in [Conns -> ConnectionState] /\ outbound \in [Conns -> Clients \cup {NoClient}]
      /\ \A u \in Tasks : job[u].op # "idle" => job[u].conn \in Conns
  BY DEF IInv, Typed, TypeOK, JobShape
<1>1. CASE DrainWaits(t, c)
  <2>1. OnlyTask(t) /\ job'[t].op = "drain_wait" /\ job'[t].conn = c
    BY <1>0, <1>1, SuspendAt DEF DrainWaits, OnlyTask
  <2>2. outbound[c] # NoClient
    BY <1>1 DEF DrainWaits, IInv, UpHasOutbound
  <2> QED
    BY <1>0, <1>1, <2>1, <2>2, FreshTakes DEF DrainWaits, OutboundUp
<1>2. CASE DrainCloses(t, c) /\ MustClose(c)
  <2>1. OnlyTask(t) /\ job'[t].op = "closing" /\ job'[t].conn = c
    BY <1>0, <1>2, SuspendAt DEF DrainCloses, OnlyTask
  <2> QED
    BY <1>0, <1>2, <2>1, FreshTakes DEF DrainCloses, MustClose, OutboundUp
<1>3. CASE DrainCloses(t, c) /\ ~MustClose(c)
  <2>1. OnlyTask(t) /\ job'[t].op = "returned"
    BY <1>0, <1>3, SuspendAt DEF DrainCloses, OnlyTask
  <2>2. /\ \A d \in Conns : outbound'[d] \in {outbound[d], NoClient}
        /\ \A d \in Conns : outbound'[d] # NoClient => outbound'[d] = outbound[d] /\ state'[d] = state[d]
    BY <1>0, <1>3 DEF DrainCloses, Disconnected
  <2>3. Fresh'
    BY <1>0, <2>1, <2>2, FreshKeep DEF OnlyTask, Busy
  <2> QED
    BY <2>2, <2>3 DEF OutboundUp
<1> QED
  BY <1>1, <1>2, <1>3 DEF DrainLocked

\* Whatever the manager does with its connections.
LEMMA CleanStep ==
    ASSUME IInv, Fresh, OutboundUp, [Uses]_connVars
    PROVE  Fresh' /\ OutboundUp'
<1>0. /\ Typed /\ state \in [Conns -> ConnectionState] /\ outbound \in [Conns -> Clients \cup {NoClient}]
      /\ \A t \in Tasks : job[t] \in Job /\ (job[t].op # "idle" => job[t].conn \in Conns)
  BY DEF IInv, Typed, TypeOK, JobShape
<1>1. ASSUME NEW t \in Tasks, HandshakeDone(t) PROVE Fresh' /\ OutboundUp'
  <2>1. OnlyTask(t) /\ job'[t].conn = job[t].conn
    BY <1>0, <1>1 DEF HandshakeDone, OnlyTask, Typed, TypeOK, Job
  <2> QED
    BY <1>1, <2>1, FreshKeep DEF HandshakeDone, OutboundUp, Busy
<1>2. ASSUME NEW t \in Tasks, ConnectDone(t) PROVE Fresh' /\ OutboundUp'
  <2>1. OnlyTask(t) /\ job'[t].op = "returned" /\ job[t].conn \in Conns
    BY <1>0, <1>2, FinishAt DEF ConnectDone, OnlyTask
  <2>2. \A u \in Tasks \ {t} : job[u].op \in {"handshake", "discover"} => job[u].conn # job[t].conn
    BY <1>2, <2>1 DEF ConnectDone, Fresh, Busy
  <2>3. Fresh'
    BY <1>0, <1>2, <2>1, <2>2, FreshKeep DEF ConnectDone, Busy, OnlyTask
  <2> QED
    BY <1>0, <1>2, <2>3 DEF ConnectDone, OutboundUp
<1>3. ASSUME NEW t \in Tasks, ConnectAuthRequired(t) \/ ConnectFailed(t) \/ ConnectTimedOut(t)
      PROVE  Fresh' /\ OutboundUp'
  <2>1. OnlyTask(t) /\ job'[t].op \in {"returned", "raised"} /\ job[t].conn \in Conns /\ outbound[job[t].conn] = NoClient
    BY <1>0, <1>3, FinishAt DEF ConnectAuthRequired, ConnectFailed, ConnectTimedOut, OnlyTask, Fresh
  <2> QED
    BY <1>0, <1>3, <2>1, FreshKeep DEF ConnectAuthRequired, ConnectFailed, ConnectTimedOut, OutboundUp, Busy
<1>4. ASSUME NEW t \in Tasks, CloseDone(t) PROVE Fresh' /\ OutboundUp'
  <2>1. OnlyTask(t) /\ job'[t].op = "returned" /\ job[t].conn \in Conns
    BY <1>0, <1>4, FinishAt DEF CloseDone, OnlyTask
  <2> QED
    BY <1>0, <1>4, <2>1, FreshKeep DEF CloseDone, Disconnected, OutboundUp, Busy
<1>5. ASSUME NEW t \in Tasks, DrainLockAcquired(t) PROVE Fresh' /\ OutboundUp'
  BY <1>0, <1>5, DrainLockedClean DEF DrainLockAcquired
<1>6. ASSUME NEW t \in Tasks, job[t].op = "drain_wait", DrainResumes(t) PROVE Fresh' /\ OutboundUp'
  <2>1. OnlyTask(t) /\ job'[t].op \in {"closing", "returned"} /\ job'[t].conn = job[t].conn /\ job[t].conn \in Conns
    BY <1>0, <1>6, SuspendAt, FinishAt DEF DrainResumes, OnlyTask
  <2>2. /\ \A d \in Conns : outbound'[d] \in {outbound[d], NoClient}
        /\ \A d \in Conns : outbound'[d] # NoClient => outbound'[d] = outbound[d] /\ state'[d] = state[d]
    BY <1>0, <1>6 DEF DrainResumes, Disconnected
  <2>3. Fresh'
    BY <1>0, <1>6, <2>1, <2>2, FreshKeep DEF OnlyTask, Busy
  <2> QED
    BY <2>2, <2>3 DEF OutboundUp
<1>7. ASSUME NEW t \in Tasks, CallDone(t) PROVE Fresh' /\ OutboundUp'
  <2>1. OnlyTask(t) /\ job'[t].op \in {"returned", "raised"}
    BY <1>0, <1>7, FinishAt DEF CallDone, OnlyTask
  <2> QED
    BY <1>0, <1>7, <2>1, FreshKeep DEF CallDone, OutboundUp, Busy
<1>8. ASSUME NEW t \in Tasks, Collect(t) PROVE Fresh' /\ OutboundUp'
  <2>1. OnlyTask(t) /\ job'[t].op = "idle" /\ UNCHANGED <<state, outbound>>
    BY <1>0, <1>8, Collects DEF IdleJob
  <2> QED
    BY <2>1, FreshKeep DEF OutboundUp, Busy
<1>9. ASSUME NEW t \in Tasks, NEW c \in Conns, ConnectNew(t, c) PROVE Fresh' /\ OutboundUp'
  <2>1. OnlyTask(t) /\ job'[t].op = "handshake" /\ job'[t].conn = c
    BY <1>0, <1>9, SuspendAt DEF ConnectNew, OnlyTask
  <2>2. outbound[c] = NoClient /\ UNCHANGED outbound /\ \A u \in Tasks : job[u].conn # c
    BY <1>9 DEF ConnectNew, Unused
  <2> QED
    BY <1>0, <1>9, <2>1, <2>2 DEF Fresh, OnlyTask, OutboundUp, ConnectNew
<1>10. ASSUME NEW t \in Tasks, NEW c \in Conns, DrainAndDisconnect(t, c) PROVE Fresh' /\ OutboundUp'
  <2>1. CASE DrainLocked(t, c)
    BY <1>10, <2>1, DrainLockedClean DEF DrainAndDisconnect, Free
  <2>2. CASE Suspend(t, "drain_lock", c, NoClient) /\ UNCHANGED <<state, outbound>>
    BY <1>0, <2>2, SuspendAt, FreshKeep DEF OutboundUp, OnlyTask, Busy
  <2> QED
    BY <1>10, <2>1, <2>2 DEF DrainAndDisconnect
<1>11. ASSUME NEW t \in Tasks, NEW c \in Conns, Call(t, c) \/ CallRejected(t, c) PROVE Fresh' /\ OutboundUp'
  <2>1. OnlyTask(t) /\ job'[t].op \in {"call", "raised"} /\ UNCHANGED <<state, outbound>>
    BY <1>0, <1>11, CallBegins
  <2> QED
    BY <2>1, FreshKeep DEF OutboundUp, Busy
<1>12. ASSUME NEW t \in Tasks, NEW c \in Conns, Disconnect(t, c) PROVE Fresh' /\ OutboundUp'
  <2>1. CASE MustClose(c)
    BY <1>0, <1>12, <2>1, SuspendAt, FreshTakes DEF Disconnect, MustClose, OutboundUp, OnlyTask
  <2>2. CASE ~MustClose(c)
    BY <1>0, <1>12, <2>2, SuspendAt, FreshKeep DEF Disconnect, Disconnected, OutboundUp, OnlyTask, Busy
  <2> QED
    BY <2>1, <2>2
<1>13. CASE UNCHANGED connVars
  BY <1>13 DEF connVars, Fresh, OutboundUp
<1> QED
  BY <1>1, <1>2, <1>3, <1>4, <1>5, <1>6, <1>7, <1>8, <1>9, <1>10, <1>11, <1>12, <1>13
  DEF Uses, JobStep, DrainDone, DrainTimeout

\* Who closes a client closes that of its connection, with no call in flight
\* unless drains may give up.
Closes ==
    \A t \in Tasks : job[t].op = "closing" =>
        /\ drainLock[job[t].conn] = t
        /\ outbound[job[t].conn] = job[t].client
        /\ "drain_timeout" \notin Ops => inFlight[job[t].conn] = 0

\* A drain that waits lets no call in, and is woken by the last one.
Waits ==
    \A t \in Tasks : job[t].op = "drain_wait" =>
        /\ state[job[t].conn] = "draining"
        /\ drainEvent[job[t].conn] = "set" => inFlight[job[t].conn] = 0

\* Connections other than c, and the tasks that wait for them or close them,
\* are as before; so are those of c but for task t.
LEMMA ClosesKeep ==
    ASSUME IInv, Closes, Waits, NEW t \in Tasks, NEW c \in Conns, OnlyTask(t),
           job'[t].op \in {"drain_wait", "closing"} => job'[t].conn = c,
           \A d \in Conns \ {c} : /\ state'[d] = state[d] /\ outbound'[d] = outbound[d] /\ inFlight'[d] = inFlight[d]
                                  /\ drainEvent'[d] = drainEvent[d] /\ drainLock'[d] = drainLock[d],
           \A u \in Tasks : job'[u].op \in {"drain_wait", "closing"} /\ job'[u].conn = c =>
              /\ job'[u].op = "closing" =>
                    /\ drainLock'[c] = u /\ outbound'[c] = job'[u].client
                    /\ "drain_timeout" \notin Ops => inFlight'[c] = 0
              /\ job'[u].op = "drain_wait" => state'[c] = "draining" /\ (drainEvent'[c] = "set" => inFlight'[c] = 0)
    PROVE  Closes' /\ Waits'
<1>1. \A u \in Tasks : job[u].op # "idle" => job[u].conn \in Conns
  BY DEF IInv, Typed, JobShape
<1>2. Closes'
  BY <1>1 DEF Closes, OnlyTask
<1>3. Waits'
  BY <1>1 DEF Waits, OnlyTask
<1> QED
  BY <1>2, <1>3

\* drain_and_disconnect(), with the lock.
LEMMA DrainLockedCloses ==
    ASSUME IInv, OutboundUp, Closes, Waits, NEW t \in Tasks, NEW c \in Conns, DrainLocked(t, c), UNCHANGED inFlight
    PROVE  Closes' /\ Waits'
<1>0. /\ Typed /\ state \in [Conns -> ConnectionState] /\ outbound \in [Conns -> Clients \cup {NoClient}]
      /\ drainEvent \in [Conns -> {"none", "unset", "set"}] /\ drainLock \in [Conns -> Tasks \cup {NoTask}]
  BY DEF IInv, Typed, TypeOK
<1>1. \A u \in Tasks : job[u].op \in {"drain_wait", "closing"} => job[u].conn # c
  BY NullsAssumption DEF IInv, DrainLockHeld, Closes, DrainLocked
<1>2. CASE DrainWaits(t, c)
  <2>1. OnlyTask(t) /\ job'[t].op = "drain_wait" /\ job'[t].conn = c
    BY <1>0, <1>2, SuspendAt DEF DrainWaits, OnlyTask
  <2> QED
    BY <1>0, <1>1, <1>2, <2>1, ClosesKeep DEF DrainWaits, OnlyTask
<1>3. CASE DrainCloses(t, c) /\ MustClose(c)
  <2>1. OnlyTask(t) /\ job'[t].op = "closing" /\ job'[t].conn = c /\ job'[t].client = outbound[c]
    BY <1>0, <1>3, SuspendAt DEF DrainCloses, OnlyTask
  <2>2. inFlight[c] = 0
    BY <1>3 DEF DrainCloses, MustClose, OutboundUp
  <2> QED
    BY <1>0, <1>1, <1>3, <2>1, <2>2, ClosesKeep DEF DrainCloses, OnlyTask
<1>4. CASE DrainCloses(t, c) /\ ~MustClose(c)
  <2>1. OnlyTask(t) /\ job'[t].op = "returned"
    BY <1>0, <1>4, SuspendAt DEF DrainCloses, OnlyTask
  <2> QED
    BY <1>0, <1>1, <1>4, <2>1, ClosesKeep DEF DrainCloses, Disconnected, OnlyTask
<1> QED
  BY <1>2, <1>3, <1>4 DEF DrainLocked

\* In a fleet where nobody uses the reconnect route.
LEMMA ClosesStep ==
    ASSUME "reconnect" \notin Ops, IInv, Fresh, OutboundUp, Closes, Waits, [Uses]_connVars
    PROVE  Closes' /\ Waits'
<1>0. /\ Typed /\ state \in [Conns -> ConnectionState] /\ outbound \in [Conns -> Clients \cup {NoClient}]
      /\ drainEvent \in [Conns -> {"none", "unset", "set"}] /\ drainLock \in [Conns -> Tasks \cup {NoTask}]
      /\ inFlight \in [Conns -> Nat]
      /\ \A t \in Tasks : job[t] \in Job /\ (job[t].op # "idle" => job[t].conn \in Conns)
  BY DEF IInv, Typed, TypeOK, JobShape
<1>k. ASSUME NEW t \in Tasks, OnlyTask(t), job'[t].op \notin {"drain_wait", "closing"},
             UNCHANGED <<state, outbound, inFlight, drainEvent, drainLock>>
      PROVE  Closes' /\ Waits'
  BY <1>k DEF Closes, Waits, OnlyTask
<1>1. ASSUME NEW t \in Tasks, HandshakeDone(t) PROVE Closes' /\ Waits'
  <2>1. OnlyTask(t) /\ job'[t].op = "discover"
    BY <1>0, <1>1 DEF HandshakeDone, OnlyTask, Typed, TypeOK, Job
  <2> QED
    BY <1>1, <1>k, <2>1 DEF HandshakeDone
<1>2. ASSUME NEW t \in Tasks, ConnectDone(t) \/ ConnectAuthRequired(t) \/ ConnectFailed(t) \/ ConnectTimedOut(t)
      PROVE  Closes' /\ Waits'
  <2>1. PICK c \in Conns : c = job[t].conn
    BY <1>0, <1>2 DEF ConnectDone, ConnectAuthRequired, ConnectFailed, ConnectTimedOut
  <2>2. OnlyTask(t) /\ job'[t].op \in {"returned", "raised"}
    BY <1>0, <1>2, FinishAt DEF ConnectDone, ConnectAuthRequired, ConnectFailed, ConnectTimedOut, OnlyTask
  <2>3. \A u \in Tasks : job[u].op \in {"drain_wait", "closing"} => job[u].conn # c
    BY <1>2, <2>1 DEF ConnectDone, ConnectAuthRequired, ConnectFailed, ConnectTimedOut, Fresh, Busy
  <2> QED
    BY <1>0, <1>2, <2>1, <2>2, <2>3, ClosesKeep
    DEF ConnectDone, ConnectAuthRequired, ConnectFailed, ConnectTimedOut, OnlyTask
<1>3. ASSUME NEW t \in Tasks, CloseDone(t) PROVE Closes' /\ Waits'
  <2>1. PICK c \in Conns : c = job[t].conn
    BY <1>0, <1>3 DEF CloseDone
  <2>2. OnlyTask(t) /\ job'[t].op = "returned"
    BY <1>0, <1>3, FinishAt DEF CloseDone, OnlyTask
  <2>3. \A u \in Tasks \ {t} : job[u].op \in {"drain_wait", "closing"} => job[u].conn # c
    BY <1>3, <2>1 DEF CloseDone, Closes, IInv, DrainLockHeld
  <2> QED
    BY <1>0, <1>3, <2>1, <2>2, <2>3, ClosesKeep DEF CloseDone, Disconnected, OnlyTask
<1>4. ASSUME NEW t \in Tasks, DrainLockAcquired(t) PROVE Closes' /\ Waits'
  BY <1>0, <1>4, DrainLockedCloses DEF DrainLockAcquired
<1>5. ASSUME NEW t \in Tasks, job[t].op = "drain_wait", DrainResumes(t),
             "drain_timeout" \notin Ops => drainEvent[job[t].conn] = "set"
      PROVE  Closes' /\ Waits'
  <2>1. PICK c \in Conns : c = job[t].conn
    BY <1>0, <1>5
  <2>2. drainLock[c] = t /\ ("drain_timeout" \notin Ops => inFlight[c] = 0)
    BY <1>5, <2>1 DEF Waits, IInv, DrainLockHeld
  <2>3. \A u \in Tasks \ {t} : job[u].op \in {"drain_wait", "closing"} => job[u].conn # c
    BY <2>2 DEF Closes, IInv, DrainLockHeld
  <2>4. CASE MustClose(c)
    <3>1. OnlyTask(t) /\ job'[t].op = "closing" /\ job'[t].conn = c /\ job'[t].client = outbound[c]
      BY <1>0, <1>5, <2>1, <2>4, SuspendAt DEF DrainResumes, OnlyTask
    <3> QED
      BY <1>0, <1>5, <2>1, <2>2, <2>3, <2>4, <3>1, ClosesKeep DEF DrainResumes, OnlyTask
  <2>5. CASE ~MustClose(c)
    <3>1. OnlyTask(t) /\ job'[t].op = "returned"
      BY <1>0, <1>5, <2>1, <2>5, FinishAt DEF DrainResumes, OnlyTask
    <3> QED
      BY <1>0, <1>5, <2>1, <2>3, <2>5, <3>1, ClosesKeep DEF DrainResumes, Disconnected, OnlyTask
  <2> QED
    BY <2>4, <2>5
<1>6. ASSUME NEW t \in Tasks, CallDone(t) PROVE Closes' /\ Waits'
  <2>1. PICK c \in Conns : c = job[t].conn
    BY <1>0, <1>6 DEF CallDone
  <2>2. OnlyTask(t) /\ job'[t].op \in {"returned", "raised"}
    BY <1>0, <1>6, FinishAt DEF CallDone, OnlyTask
  <2>3. inFlight[c] > 0
    BY <1>6, <2>1, CallCounted DEF CallDone, IInv
  <2>4. \A u \in Tasks : job[u].op = "closing" /\ job[u].conn = c => "drain_timeout" \in Ops
    BY <2>3 DEF Closes
  <2> QED
    BY <1>0, <1>6, <2>1, <2>2, <2>3, <2>4, ClosesKeep DEF CallDone, OnlyTask, Waits, Closes
<1>7. ASSUME NEW t \in Tasks, Collect(t) PROVE Closes' /\ Waits'
  BY <1>0, <1>7, <1>k, Collects DEF IdleJob
<1>8. ASSUME NEW t \in Tasks, NEW c \in Conns, ConnectNew(t, c) PROVE Closes' /\ Waits'
  <2>1. OnlyTask(t) /\ job'[t].op = "handshake" /\ \A u \in Tasks : job[u].conn # c
    BY <1>0, <1>8, SuspendAt DEF ConnectNew, OnlyTask, Unused
  <2> QED
    BY <1>0, <1>8, <2>1, ClosesKeep DEF ConnectNew, OnlyTask
<1>9. ASSUME NEW t \in Tasks, NEW c \in Conns, DrainAndDisconnect(t, c) PROVE Closes' /\ Waits'
  <2>1. CASE DrainLocked(t, c)
    BY <1>9, <2>1, DrainLockedCloses DEF DrainAndDisconnect
  <2>2. CASE Suspend(t, "drain_lock", c, NoClient) /\ UNCHANGED <<state, outbound, drainEvent, drainLock>>
    BY <1>0, <1>9, <1>k, <2>2, SuspendAt DEF DrainAndDisconnect, OnlyTask
  <2> QED
    BY <1>9, <2>1, <2>2 DEF DrainAndDisconnect
<1>10. ASSUME NEW t \in Tasks, NEW c \in Conns, CallRejected(t, c) PROVE Closes' /\ Waits'
  BY <1>0, <1>10, <1>k, SuspendAt DEF CallRejected, OnlyTask
<1>11. ASSUME NEW t \in Tasks, NEW c \in Conns, Call(t, c) PROVE Closes' /\ Waits'
  <2>1. OnlyTask(t) /\ job'[t].op = "call"
    BY <1>0, <1>11, SuspendAt DEF Call, OnlyTask
  <2>2. \A u \in Tasks : job[u].op \in {"drain_wait", "closing"} => job[u].conn # c
    BY <1>11 DEF Call, Callable, BeingClosed, Closes, Waits
  <2> QED
    BY <1>0, <1>11, <2>1, <2>2, ClosesKeep DEF Call, OnlyTask
<1>12. CASE UNCHANGED connVars
  BY <1>12 DEF connVars, Closes, Waits
<1> QED
  BY <1>1, <1>2, <1>3, <1>4, <1>5, <1>6, <1>7, <1>8, <1>9, <1>10, <1>11, <1>12
  DEF Uses, JobStep, DrainDone, DrainTimeout

\* No upstream session is closed under a running call, in every fleet whose
\* drains do not time out and where nobody reconnects a live backend by hand:
\* the two places of the code that close without waiting for the calls.
THEOREM CallsNotCut ==
    ASSUME "reconnect" \notin Ops, "drain_timeout" \notin Ops
    PROVE  Spec => []NoCallCut
<1> DEFINE Inv == MgrTyped /\ IInv /\ Fresh /\ OutboundUp /\ Closes /\ Waits
<1>1. Init => Inv
  <2>1. ASSUME Init PROVE Fresh /\ OutboundUp /\ Closes /\ Waits
    BY <2>1 DEF Init, MgrInit, ConnInit, IdleJob, Fresh, OutboundUp, Closes, Waits
  <2> QED
    BY <2>1, MgrInitTyped
<1>2. Inv /\ [Next]_vars => Inv'
  BY MgrNextTyped, NextUses, CleanStep, ClosesStep
<1>3. Inv => NoCallCut
  BY DEF Closes, NoCallCut
<1> QED
  BY <1>1, <1>2, <1>3, PTL DEF Spec

------------------------------------------------------------------------------
(* Pinned backends *)

\* A connect may fail, time out, or end with the need of a login.
Faulty == Ops \cap {"fail", "auth", "timeout"} # {}

\* Nobody reconfigures the fleet or reconnects by hand, and connect_all itself
\* brings every backend up: where connects may fail, its own succeed, and no
\* warm route connects a backend before it does.
Stable ==
    /\ Ops \cap {"reload", "reconnect"} = {}
    /\ Faulty => Ops \cap {"boot_fail", "warm"} = {}

\* The operations that are under way in such a fleet spare the pinned backends.
Spares(f) ==
    /\ f.pc \notin {"closing", "draining", "add"}
    /\ f.op # "remove"
    /\ f.pc \in {"evict", "evicting"} => f.victim \notin Pinned /\ f.name \notin Pinned

\* No backend leaves the configuration, and no operation aims at a pinned one.
Spared ==
    /\ configured = Names
    /\ \A t \in Tasks : Spares(frame[t])

\* Backend n has yet to be connected, is being connected, or is up.
Brought(n) ==
    /\ n \notin boot /\ connecting[n] = NoTask => Up(n)
    /\ connecting[n] # NoTask =>
          /\ job[connecting[n]].op # "raised"
          /\ job[connecting[n]].conn = connections[n]
          /\ job[connecting[n]].op = "returned" <=> Up(n)

\* Only connect_all connects backend n: nothing evicts it, it is listed only
\* while it is up, and so no call asks for it while it is down.
Sheltered(n) ==
    /\ evictedCaps[n] = "absent"
    /\ n \in registry => Up(n)
    /\ n \in boot => connections[n] = NoConn /\ connecting[n] = NoTask
    /\ connecting[n] # NoTask => frame[connecting[n]].op = "boot"

\* It is, as long as its connection and its attempt are as they were.
LEMMA BroughtSame ==
    ASSUME MgrTyped, NEW n \in Names, Brought(n), UNCHANGED <<connections[n], connecting[n]>>,
           n \in boot => n \in boot',
           connections[n] \in Conns => state'[connections[n]] = state[connections[n]],
           connecting[n] \in Tasks => job'[connecting[n]] = job[connecting[n]]
    PROVE  Brought(n)'
<1>1. /\ connections[n] \in Conns \/ connections[n] = NoConn
      /\ connecting[n] \in Tasks \/ connecting[n] = NoTask
  BY DEF MgrTyped, MgrTypeOK
<1>2. Up(n)' <=> Up(n)
  BY <1>1 DEF Up, IsConnected
<1> QED
  BY <1>1, <1>2 DEF Brought

\* A task outside _connect_timed that leaves the state of connections alone.
LEMMA BroughtIdle ==
    ASSUME MgrTyped, OneAttempt, \A n \in Pinned : Brought(n),
           UNCHANGED <<connections, connecting, boot, state>>, NEW t \in Tasks, OnlyTask(t), ~At(t, "connecting")
    PROVE  \A n \in Pinned : Brought(n)'
<1> SUFFICES ASSUME NEW n \in Pinned PROVE Brought(n)'
  OBVIOUS
<1>1. n \in Names
  BY ManagerAssumption
<1>2. connecting[n] \in Tasks => connecting[n] # t
  BY <1>1 DEF OneAttempt
<1> QED
  BY <1>1, <1>2, BroughtSame DEF OnlyTask

\* A task that begins to drain the connection of another backend.
LEMMA BroughtTakes ==
    ASSUME MgrTyped, OneAttempt, Distinct, \A n \in Pinned : Brought(n), NEW t \in Tasks, NEW v \in Names \ Pinned,
           UNCHANGED <<connections, connecting, boot>>, OnlyTask(t), ~At(t, "connecting"),
           connections[v] \in Conns, OnlyConn(connections[v])
    PROVE  \A n \in Pinned : Brought(n)'
<1> SUFFICES ASSUME NEW n \in Pinned PROVE Brought(n)'
  OBVIOUS
<1>1. n \in Names /\ (connections[n] \in Conns => connections[n] # connections[v])
  BY ManagerAssumption, NullsAssumption DEF Distinct
<1>2. connecting[n] \in Tasks => connecting[n] # t
  BY <1>1 DEF OneAttempt
<1> QED
  BY <1>1, <1>2, BroughtSame DEF OnlyTask, OnlyConn

\* _connect_timed.
LEMMA BroughtConnects ==
    ASSUME MgrTyped, OneAttempt, \A n \in Pinned : Brought(n), NEW t \in Tasks, NEW m \in Names, NEW op,
           ConnectTimed(t, op, m), ~At(t, "connecting"), \A n \in Names \ {m} : n \in boot => n \in boot'
    PROVE  \A n \in Pinned : Brought(n)'
<1> SUFFICES ASSUME NEW n \in Pinned PROVE Brought(n)'
  OBVIOUS
<1>0. /\ n \in Names /\ connections \in [Names -> Conns \cup {NoConn}]
      /\ connecting \in [Names -> Tasks \cup {NoTask}]
  BY ManagerAssumption DEF MgrTyped, MgrTypeOK
<1>1. connecting[n] \in Tasks => connecting[n] # t
  BY <1>0 DEF OneAttempt
<1>2. CASE connecting[m] = NoTask
  <2>1. CASE n = m
    <3>1. /\ connecting'[n] = t /\ connections'[n] = NewConn /\ job'[t].op = "handshake" /\ job'[t].conn = NewConn
          /\ state'[NewConn] = "connecting"
      BY <1>0, <1>2, <2>1, ConnectBegins
    <3> QED
      BY <3>1, NullsAssumption DEF Brought, Up, IsConnected
  <2>2. CASE n # m
    <3>1. /\ connecting'[n] = connecting[n] /\ connections'[n] = connections[n] /\ connections[n] # NewConn
          /\ OnlyConn(NewConn) /\ OnlyTask(t)
      BY <1>0, <1>2, <2>2, ConnectBegins DEF FreshConn
    <3> QED
      BY <1>0, <1>1, <2>2, <3>1, BroughtSame DEF OnlyConn, OnlyTask
  <2> QED
    BY <2>1, <2>2
<1>3. CASE connecting[m] # NoTask
  <2>1. UNCHANGED <<connections, connecting, state>> /\ OnlyTask(t)
    BY <1>3, ConnectBegins
  <2>2. CASE n = m
    <3>1. Up(n)' <=> Up(n)
      BY <2>1 DEF Up, IsConnected
    <3> QED
      BY <1>0, <1>1, <1>3, <2>1, <2>2, <3>1 DEF Brought, OnlyTask
  <2>3. CASE n # m
    BY <1>0, <1>1, <2>1, <2>3, BroughtSame DEF OnlyTask
  <2> QED
    BY <2>2, <2>3
<1> QED
  BY <1>2, <1>3

\* The upstream side of a task: it is at work on a backend that is being
\* connected, or on one that is not pinned.
LEMMA BroughtUpstream ==
    ASSUME Stable, MgrInv, Spared, \A n \in Pinned : Brought(n), Faulty => \A n \in Pinned : Sheltered(n),
           NEW t \in Tasks, Upstream(t)
    PROVE  \A n \in Pinned : Brought(n)'
<1> SUFFICES ASSUME NEW n \in Pinned PROVE Brought(n)'
  OBVIOUS
<1>0. /\ n \in Names /\ Typed /\ UNCHANGED <<frame, connections, connecting, boot>>
      /\ TaskFits(frame[t], job[t]) /\ FrameShape(frame[t]) /\ MgrTyped /\ OneAttempt /\ OwnConn
      /\ frame[t].pc \notin {"closing", "draining", "add"}
      /\ state \in [Conns -> ConnectionState] /\ connecting \in [Names -> Tasks \cup {NoTask}]
  BY ManagerAssumption DEF MgrInv, MgrTyped, MgrTypeOK, Typed, TypeOK, Shaped, Upstream, mgrVars, Spared, Spares
<1>m. job[t].conn \in Conns /\ OnlyTask(t) /\ OnlyConn(job[t].conn)
  BY <1>0, UpstreamMoves
<1>1. CASE job[t].op = "call"
  BY <1>0, <1>1, UpstreamMoves, BroughtIdle DEF TaskFits, At
<1>2. CASE job[t].op # "call" /\ connecting[n] # t
  <2>1. frame[t].pc \in {"connecting", "evicting"}
    BY <1>0, <1>2, UpstreamMoves DEF TaskFits, MgrInv, Managed
  <2>2. Subject(t) # n
    BY <1>0, <1>2, <2>1 DEF Subject, At, OneAttempt, Spared, Spares
  <2>3. connections[n] \in Conns => connections[n] # job[t].conn
    BY <1>0, <1>m, <2>1, <2>2, NullsAssumption DEF OwnConn, Using
  <2> QED
    BY <1>0, <1>2, <1>m, <2>3, BroughtSame DEF OnlyConn, OnlyTask
<1>3. CASE connecting[n] = t
  <2>1. job[t].op \in {"handshake", "discover"} /\ job[t].conn = connections[n] /\ connections[n] # NoConn
    BY <1>0, <1>3, <1>m, UpstreamMoves, NullsAssumption DEF OneAttempt, At, TaskFits, Brought
  <2>2. CASE HandshakeDone(t)
    <3>1. job'[t].op = "discover" /\ job'[t].conn = job[t].conn /\ UNCHANGED state
      BY <1>0, <2>2 DEF HandshakeDone, Typed, TypeOK, Job
    <3>2. Up(n)' <=> Up(n)
      BY <1>0, <3>1 DEF Up, IsConnected
    <3> QED
      BY <1>0, <1>3, <2>1, <3>1, <3>2, NullsAssumption DEF Brought
  <2>3. CASE ConnectDone(t)
    <3>1. job'[t].op = "returned" /\ job'[t].conn = job[t].conn /\ state'[job[t].conn] = "connected"
      BY <1>0, <1>m, <2>3, FinishAt DEF ConnectDone
    <3> QED
      BY <1>0, <1>3, <2>1, <3>1 DEF Brought, Up, IsConnected
  <2>4. Faulty => frame[t].op = "boot"
    BY <1>3, NullsAssumption DEF Sheltered
  <2> QED
    BY <2>1, <2>2, <2>3, <2>4
    DEF Upstream, Stable, Faulty, CloseDone, DrainLockAcquired, DrainDone, DrainResumes, DrainTimeout, CallDone
<1> QED
  BY <1>1, <1>2, <1>3

\* One task moves to a frame that spares them.
LEMMA SparedMove ==
    ASSUME MgrTyped, Spared, NEW t \in Tasks, NEW f, frame' = [frame EXCEPT ![t] = f], Spares(f),
           UNCHANGED configured
    PROVE  Spared'
<1>1. frame'[t] = f /\ \A u \in Tasks \ {t} : frame'[u] = frame[u]
  BY DEF MgrTyped, MgrTypeOK
<1>2. \A u \in Tasks : Spares(frame'[u])
  BY <1>1 DEF Spared
<1> QED
  BY <1>2 DEF Spared

\* _connect_timed does.
LEMMA SparedConnects ==
    ASSUME MgrTyped, Spared, NEW t \in Tasks, NEW n \in Names, NEW op, op # "remove", ConnectTimed(t, op, n),
           UNCHANGED configured
    PROVE  Spared'
<1> DEFINE f == NewFrame(op, IF connecting[n] = NoTask THEN "connecting" ELSE "joining", n, NoName)
<1>1. Spares(f)
  BY DEF NewFrame, Spares
<1>2. frame' = [frame EXCEPT ![t] = f]
  BY ConnectBegins
<1> HIDE DEF f
<1> QED
  BY <1>1, <1>2, SparedMove

\* So does the end of an attempt.
LEMMA SparedAfter ==
    ASSUME MgrTyped, Spared, NEW t \in Tasks
    PROVE  Spares(AfterConnect(t))
<1>1. frame[t] \in Frame /\ Spares(frame[t])
  BY DEF MgrTyped, MgrTypeOK, Spared
<1> QED
  BY <1>1 DEF AfterConnect, NoFrame, Frame, Spares

\* Operations that go on spare the pinned backends.
LEMMA PinnedContinue ==
    ASSUME Stable, MgrInv, Spared, \A n \in Pinned : Brought(n), Faulty => \A n \in Pinned : Sheltered(n),
           NEW t \in Tasks, Continue(t)
    PROVE  Spared' /\ \A n \in Pinned : Brought(n)'
<1>0. /\ Typed /\ MgrTyped /\ OneAttempt /\ Distinct /\ frame \in [Tasks -> Frame] /\ frame[t] \in Frame
      /\ connections \in [Names -> Conns \cup {NoConn}] /\ connecting \in [Names -> Tasks \cup {NoTask}]
      /\ FrameShape(frame[t]) /\ Spares(frame[t])
  BY DEF MgrInv, MgrTyped, MgrTypeOK, Shaped, Spared
<1>n. Spares(NoFrame)
  BY DEF NoFrame, Spares
<1>r. ASSUME Return(t), UNCHANGED configured PROVE Spared'
  BY <1>0, <1>n, <1>r, SparedMove DEF Return
<1>1. CASE Upstream(t)
  <2>1. UNCHANGED <<frame, configured>>
    BY <1>1 DEF Upstream, mgrVars
  <2> QED
    BY <1>1, <2>1, BroughtUpstream DEF Spared
<1>2. CASE ConnectSucceeded(t) \/ ConnectErrored(t)
  <2>0. At(t, "connecting") /\ AttemptEnds(t) /\ UNCHANGED <<connections, configured, boot>>
    BY <1>2 DEF ConnectSucceeded, ConnectErrored
  <2>1. OnlyTask(t) /\ UNCHANGED state
    BY <1>0, <1>2, Collects DEF ConnectSucceeded, ConnectErrored
  <2>2. ASSUME NEW u \in Tasks PROVE Spares(frame'[u])
    <3>1. CASE u = t
      BY <2>0, <3>1, <1>0, SparedAfter DEF AttemptEnds
    <3>2. CASE u # t
      <4>1. frame[u] \in Frame /\ Spares(frame[u])
        BY <1>0 DEF Spared
      <4>2. Spares([frame[u] EXCEPT !.pc = "joined"])
        BY <4>1 DEF Spares, Frame
      <4> QED
        BY <2>0, <3>2, <4>1, <4>2 DEF AttemptEnds
    <3> QED
      BY <3>1, <3>2
  <2>3. ASSUME NEW n \in Pinned PROVE Brought(n)'
    <3>1. n \in Names
      BY ManagerAssumption
    <3>2. CASE connecting[n] = t
      <4>1. frame[t].name = n
        BY <3>1, <3>2, <1>0 DEF OneAttempt
      <4>2. Up(n)
        BY <1>2, <3>2, NullsAssumption DEF Brought, ConnectSucceeded, ConnectErrored
      <4>3. Up(n)' /\ connecting'[n] = NoTask
        BY <1>0, <2>0, <2>1, <3>1, <4>1, <4>2 DEF Up, IsConnected, AttemptEnds
      <4> QED
        BY <4>3 DEF Brought
    <3>3. CASE connecting[n] # t
      <4>1. frame[t].name # n
        BY <2>0, <3>1, <3>3, <1>0 DEF OneAttempt
      <4>2. connecting'[n] = connecting[n]
        BY <1>0, <2>0, <3>1, <4>1 DEF AttemptEnds
      <4> QED
        BY <1>0, <2>0, <2>1, <3>1, <3>3, <4>2, BroughtSame DEF OnlyTask
    <3> QED
      BY <3>2, <3>3
  <2> QED
    BY <2>0, <2>2, <2>3 DEF Spared
<1>3. CASE ConnectExpires(t)
  <2>0. Faulty /\ At(t, "connecting") /\ frame[t].op # "boot" /\ UNCHANGED mgrVars
    BY <1>3 DEF ConnectExpires, Faulty, Stable
  <2>1. Spared'
    BY <2>0 DEF mgrVars, Spared
  <2>2. job[t].conn \in Conns /\ OnlyTask(t) /\ OnlyConn(job[t].conn)
    <3>1. job[t].conn \in Conns
      BY <1>0, <1>3 DEF ConnectExpires, ConnectTimedOut, Typed, JobShape
    <3> QED
      BY <1>0, <1>3, <3>1, FinishAt DEF ConnectExpires, ConnectTimedOut, OnlyTask, OnlyConn, Typed, TypeOK
  <2>3. ASSUME NEW n \in Pinned PROVE Brought(n)'
    <3>1. n \in Names /\ connecting[n] # t
      BY <2>0, ManagerAssumption, NullsAssumption DEF Sheltered
    <3>2. Subject(t) # n
      BY <1>0, <2>0, <3>1 DEF Subject, At, OneAttempt
    <3>3. connections[n] \in Conns => connections[n] # job[t].conn
      BY <2>0, <2>2, <3>1, <3>2, NullsAssumption DEF MgrInv, OwnConn, Using, At
    <3> QED
      BY <1>0, <2>0, <2>2, <3>1, <3>3, BroughtSame DEF mgrVars, OnlyConn, OnlyTask
  <2> QED
    BY <2>1, <2>3
<1>4. CASE Joined(t)
  <2>1. Spared'
    BY <1>0, <1>4, SparedAfter, SparedMove DEF Joined, SetFrame
  <2> QED
    BY <1>0, <1>4, <2>1, BroughtIdle DEF Joined, At, connVars, OnlyTask
<1>5. CASE EvictEnd(t)
  <2>0. ~At(t, "connecting") /\ UNCHANGED <<configured, boot>>
    BY <1>5 DEF EvictEnd, At
  <2>1. CASE frame[t].name = NoName
    BY <1>0, <1>5, <1>r, <2>0, <2>1, Collects, BroughtIdle DEF EvictEnd
  <2>2. CASE frame[t].name # NoName
    <3>1. frame[t].name \in Names /\ ConnectTimed(t, frame[t].op, frame[t].name) /\ frame[t].op # "remove"
      BY <1>0, <1>5, <2>2 DEF EvictEnd, Frame, Spares
    <3> QED
      BY <1>0, <2>0, <3>1, BroughtConnects, SparedConnects
  <2> QED
    BY <2>1, <2>2
<1>6. CASE ReaperEvicts(t)
  <2>1. frame[t].victim \in Names \ Pinned /\ ~At(t, "connecting")
    BY <1>0, <1>6 DEF ReaperEvicts, At, FrameShape, Spares
  <2>2. CASE EvictBegin(t, frame[t].victim) /\ Goto(t, "evicting")
    <3> DEFINE f == [frame[t] EXCEPT !.pc = "evicting"]
               v == frame[t].victim
    <3>1. Spares(f) /\ frame' = [frame EXCEPT ![t] = f]
      BY <1>0, <1>6, <2>1, <2>2 DEF ReaperEvicts, At, Frame, Goto, Spares
    <3>2. connections[v] \in Conns /\ OnlyConn(connections[v]) /\ OnlyTask(t)
      BY <1>0, <2>1, <2>2, NamedConn, DrainBegins DEF EvictBegin
    <3>3. UNCHANGED <<connections, configured, connecting, boot>>
      BY <2>2 DEF EvictBegin
    <3> HIDE DEF f
    <3> QED
      BY <1>0, <2>1, <3>1, <3>2, <3>3, BroughtTakes, SparedMove
  <2>3. CASE Return(t) /\ UNCHANGED <<connVars, connections, connecting, configured, boot>>
    BY <1>0, <1>r, <2>1, <2>3, BroughtIdle DEF connVars, OnlyTask
  <2> QED
    BY <1>6, <2>2, <2>3 DEF ReaperEvicts
<1>7. CASE ReconnectClosed(t) \/ RemoveEnd(t) \/ ReplaceDrained(t) \/ ReplaceAdds(t)
  BY <1>0, <1>7 DEF ReconnectClosed, RemoveEnd, ReplaceDrained, ReplaceAdds, At, Spares
<1>8. CASE Dispatch(t)
  <2> DEFINE f == [frame[t] EXCEPT !.pc = "calling"]
  <2>1. Spares(f) /\ frame' = [frame EXCEPT ![t] = f]
    BY <1>0, <1>8 DEF Frame, Dispatch, Goto, Spares
  <2>2. OnlyTask(t) /\ UNCHANGED state /\ ~At(t, "connecting")
    BY <1>0, <1>8, CallBegins DEF Dispatch, At, FrameShape
  <2> HIDE DEF f
  <2> QED
    BY <1>0, <1>8, <2>1, <2>2, BroughtIdle, SparedMove DEF Dispatch
<1>9. CASE RouteEnds(t)
  <2>1. OnlyTask(t) /\ UNCHANGED state /\ ~At(t, "connecting")
    BY <1>0, <1>9, Collects DEF RouteEnds, At
  <2> QED
    BY <1>0, <1>9, <1>r, <2>1, BroughtIdle DEF RouteEnds
<1> QED
  BY <1>1, <1>2, <1>3, <1>4, <1>5, <1>6, <1>7, <1>8, <1>9 DEF Continue

\* So do operations that begin.
LEMMA PinnedStart ==
    ASSUME Stable, MgrInv, Spared, \A n \in Pinned : Brought(n), Faulty => \A n \in Pinned : Sheltered(n),
           NEW t \in Tasks, NEW n \in Names, Start(t, n)
    PROVE  Spared' /\ \A m \in Pinned : Brought(m)'
<1>0. Typed /\ MgrTyped /\ OneAttempt /\ Distinct /\ configured = Names
  BY DEF MgrInv, MgrTyped, Spared
<1>i. ~At(t, "connecting")
  BY DEF Start, Boot, Stop, Warm, Reconnect, Route, Add, Remove, Replace, DrainOld, Idle, NoFrame, At
<1>e. ASSUME NEW v \in Names \ Pinned, EvictBegin(t, v), NEW op, op # "remove", NEW m, m \notin Pinned,
             SetFrame(t, NewFrame(op, "evicting", m, v))
      PROVE  Spared' /\ \A k \in Pinned : Brought(k)'
  <2>1. connections[v] \in Conns /\ OnlyConn(connections[v]) /\ OnlyTask(t)
    BY <1>0, <1>e, NamedConn, DrainBegins DEF EvictBegin
  <2>2. UNCHANGED <<connections, configured, connecting, boot>>
    BY <1>e DEF EvictBegin
  <2>s. Spares(NewFrame(op, "evicting", m, v))
    BY <1>e DEF NewFrame, Spares
  <2>3. Spared'
    BY <1>0, <1>e, <2>2, <2>s, SparedMove DEF SetFrame
  <2> QED
    BY <1>0, <1>i, <2>1, <2>2, <2>3, BroughtTakes
<1>1. ASSUME NEW op, op # "remove", EnsureConnected(t, op, n) PROVE Spared' /\ \A m \in Pinned : Brought(m)'
  <2>1. \A v \in LRUVictims(n) : v \in Names \ Pinned
    BY <1>0, ManagerAssumption DEF LRUVictims, LiveOthers, IsPinned
  <2>2. CASE ConnectTimed(t, op, n) /\ UNCHANGED <<configured, boot>>
    BY <1>0, <1>1, <1>i, <2>2, BroughtConnects, SparedConnects
  <2> QED
    BY <1>1, <1>e, <2>1, <2>2 DEF EnsureConnected, CapReached
<1>2. CASE Boot(t, n)
  BY <1>0, <1>2, <1>i, BroughtConnects, SparedConnects DEF Boot
<1>3. CASE Stop(t, n)
  BY <1>0, <1>3, <1>e, ManagerAssumption DEF Stop, EvictBegin, IsPinned
<1>4. CASE Warm(t, n)
  BY <1>1, <1>4 DEF Warm
<1>5. CASE Route(t, n)
  <2>1. ASSUME NEW op \in {"route", "read"},
               SetFrame(t, [NewFrame(op, "gate", n, NoName) EXCEPT !.conn = connections[n]]),
               UNCHANGED <<connVars, connections, configured, connecting, boot>>
        PROVE  Spared' /\ \A m \in Pinned : Brought(m)'
    <3> DEFINE f == [NewFrame(op, "gate", n, NoName) EXCEPT !.conn = connections[n]]
    <3>1. Spares(f) /\ frame' = [frame EXCEPT ![t] = f]
      BY <2>1 DEF NewFrame, SetFrame, Spares
    <3>2. OnlyTask(t) /\ UNCHANGED state
      BY <2>1 DEF connVars, OnlyTask
    <3> HIDE DEF f
    <3> QED
      BY <1>0, <1>i, <2>1, <3>1, <3>2, BroughtIdle, SparedMove
  <2> QED
    BY <1>1, <1>5, <2>1 DEF Route
<1> QED
  BY <1>2, <1>3, <1>4, <1>5 DEF Start, Stable, Reconnect, Add, Remove, Replace, DrainOld, NoReload

\* An operation that leaves the attempt for backend n to go on, as long as it
\* goes on.
Leaves(n) ==
    /\ UNCHANGED <<connections[n], connecting[n]>>
    /\ connecting[n] # NoTask =>
          /\ frame'[connecting[n]].op = frame[connecting[n]].op
          /\ job[connecting[n]].op = "returned" => job'[connecting[n]].op = "returned"

\* A task outside the attempt for n that leaves the tables of n alone does.
LEMMA LeavesIdle ==
    ASSUME MgrTyped, NEW n \in Names, UNCHANGED <<connections[n], connecting[n]>>, NEW t \in Tasks, OnlyTask(t),
           connecting[n] # t, \A u \in Tasks \ {t} : frame'[u].op = frame[u].op
    PROVE  Leaves(n)
<1>1. connecting[n] \in Tasks \cup {NoTask}
  BY DEF MgrTyped, MgrTypeOK
<1> QED
  BY <1>1 DEF Leaves, OnlyTask

\* The attempt of another backend, or joining one, does.
LEMMA LeavesConnects ==
    ASSUME MgrTyped, NEW n \in Names, NEW t \in Tasks, connecting[n] # t, NEW m \in Names \ {n}, NEW op,
           ConnectTimed(t, op, m)
    PROVE  Leaves(n)
<1>1. /\ frame \in [Tasks -> Frame] /\ connections \in [Names -> Conns \cup {NoConn}]
      /\ connecting \in [Names -> Tasks \cup {NoTask}]
  BY DEF MgrTyped, MgrTypeOK
<1>2. UNCHANGED <<connections[n], connecting[n]>>
  BY <1>1, ConnectBegins
<1>3. OnlyTask(t) /\ \A u \in Tasks \ {t} : frame'[u] = frame[u]
  BY <1>1, ConnectBegins
<1> QED
  BY <1>2, <1>3, LeavesIdle

\* So does the eviction of another one.
LEMMA LeavesEvicts ==
    ASSUME MgrTyped, NEW n \in Names, evictedCaps[n] = "absent", NEW t \in Tasks, connecting[n] # t,
           NEW v \in Names \ {n}, EvictBegin(t, v), \A u \in Tasks \ {t} : frame'[u] = frame[u]
    PROVE  Leaves(n) /\ evictedCaps'[n] = "absent" /\ UNCHANGED <<registry, boot>>
<1>1. evictedCaps \in [Names -> {"absent", "empty", "tools"}] /\ Typed
  BY DEF MgrTyped, MgrTypeOK
<1>2. OnlyTask(t) /\ UNCHANGED <<connections, connecting, registry, boot>>
  BY <1>1, NamedConn, DrainBegins DEF EvictBegin
<1>3. evictedCaps'[n] = "absent"
  BY <1>1 DEF EvictBegin, CacheCaps
<1> QED
  BY <1>2, <1>3, LeavesIdle

\* What a step does to a sheltered backend: its attempt goes on, ends, or is
\* begun by connect_all.
Guards(n) ==
    /\ evictedCaps'[n] = "absent"
    /\ n \in registry' => n \in registry \/ Up(n)
    /\ \/ Leaves(n) /\ (n \in boot' => n \in boot)
       \/ connections'[n] = connections[n] /\ connecting'[n] = NoTask /\ (n \in boot' => n \in boot)
       \/ n \in boot \ boot' /\ frame'[connecting'[n]].op = "boot"

\* What the registry is synced with lists only what is up, of such backends.
LEMMA PublishedUp ==
    ASSUME NEW n \in Names, NEW caps, caps[n] = "absent", n \in Published(caps)
    PROVE  Up(n)
BY DEF Published

\* The end of an attempt.
LEMMA EndsGuard ==
    ASSUME MgrTyped, OneAttempt, NEW n \in Names, Sheltered(n), NEW t \in Tasks, ConnectSucceeded(t) \/ ConnectErrored(t)
    PROVE  Guards(n)
<1> DEFINE m == frame[t].name
           caps == [evictedCaps EXCEPT ![m] = "absent"]
<1>0. /\ Typed /\ frame \in [Tasks -> Frame] /\ evictedCaps \in [Names -> {"absent", "empty", "tools"}]
      /\ connecting \in [Names -> Tasks \cup {NoTask}] /\ evictedCaps[n] = "absent"
  BY DEF MgrTyped, MgrTypeOK, Sheltered
<1>1. /\ At(t, "connecting") /\ AttemptEnds(t) /\ Collect(t) /\ UNCHANGED <<connections, boot>>
      /\ evictedCaps' \in {evictedCaps, caps} /\ registry' = Published(evictedCaps')
  BY DEF ConnectSucceeded, ConnectErrored, SyncRegistry
<1>2. caps[n] = "absent"
  BY <1>0
<1>3. evictedCaps'[n] = "absent" /\ (n \in registry' => Up(n))
  BY <1>0, <1>1, <1>2, PublishedUp
<1>4. CASE m = n
  BY <1>0, <1>1, <1>3, <1>4 DEF AttemptEnds, Guards
<1>5. CASE m # n
  <2>1. connecting[n] # t /\ connecting'[n] = connecting[n]
    BY <1>0, <1>1, <1>5 DEF OneAttempt, AttemptEnds
  <2>2. ASSUME NEW u \in Tasks \ {t} PROVE frame'[u].op = frame[u].op
    <3>1. frame[u] \in Frame
      BY <1>0
    <3>2. frame'[u] \in {frame[u], [frame[u] EXCEPT !.pc = "joined"]}
      BY <1>1 DEF AttemptEnds
    <3> QED
      BY <3>1, <3>2 DEF Frame
  <2>3. Leaves(n)
    BY <1>0, <1>1, <2>1, <2>2, Collects, LeavesIdle
  <2> QED
    BY <1>1, <1>3, <2>3 DEF Guards
<1> QED
  BY <1>4, <1>5

\* Every operation of such a fleet that goes on guards a pinned backend.
LEMMA ContinueGuards ==
    ASSUME Stable, Faulty, MgrInv, Spared, NEW n \in Pinned, Sheltered(n), NEW t \in Tasks, Continue(t)
    PROVE  Guards(n)
<1>0. /\ Typed /\ MgrTyped /\ OneAttempt /\ frame \in [Tasks -> Frame] /\ n \in Names
      /\ connecting \in [Names -> Tasks \cup {NoTask}] /\ evictedCaps[n] = "absent"
      /\ FrameShape(frame[t]) /\ Spares(frame[t]) /\ (~At(t, "connecting") => connecting[n] # t)
  BY ManagerAssumption DEF MgrInv, MgrTyped, MgrTypeOK, Shaped, Spared, Sheltered, OneAttempt
<1>1. CASE Upstream(t) \/ ConnectExpires(t)
  <2>1. job[t].op # "returned" /\ OnlyTask(t)
    BY <1>0, <1>1, UpstreamMoves, FinishAt DEF ConnectExpires, ConnectTimedOut, OnlyTask
  <2>2. UNCHANGED mgrVars
    BY <1>1 DEF Upstream, ConnectExpires
  <2> QED
    BY <1>0, <2>1, <2>2 DEF mgrVars, OnlyTask, Leaves, Guards
<1>2. CASE ConnectSucceeded(t) \/ ConnectErrored(t)
  BY <1>0, <1>2, EndsGuard
<1>3. CASE Joined(t)
  <2>1. connecting[n] # t /\ \A u \in Tasks \ {t} : frame'[u] = frame[u]
    BY <1>0, <1>3 DEF Joined, At, SetFrame
  <2>2. Leaves(n)
    BY <1>0, <1>3, <2>1, LeavesIdle DEF Joined, connVars, OnlyTask
  <2> QED
    BY <1>0, <1>3, <2>2 DEF Joined, Guards
<1>4. CASE EvictEnd(t)
  <2>0. connecting[n] # t /\ frame[t].name # n
    BY <1>0, <1>4 DEF EvictEnd, At, Spares
  <2>1. evictedCaps'[n] = "absent" /\ (n \in registry' => Up(n)) /\ UNCHANGED boot
    BY <1>0, <1>4, PublishedUp DEF EvictEnd, SyncRegistry
  <2>2. CASE frame[t].name = NoName
    <3>1. \A u \in Tasks \ {t} : frame'[u] = frame[u]
      BY <1>0, <1>4, <2>2 DEF EvictEnd, Return
    <3>2. Leaves(n)
      BY <1>0, <1>4, <2>0, <2>2, <3>1, Collects, LeavesIdle DEF EvictEnd
    <3> QED
      BY <2>1, <3>2 DEF Guards
  <2>3. CASE frame[t].name # NoName
    <3>1. frame[t].name \in Names \ {n} /\ ConnectTimed(t, frame[t].op, frame[t].name)
      BY <1>0, <1>4, <2>0, <2>3 DEF EvictEnd, Frame
    <3>2. Leaves(n)
      BY <1>0, <2>0, <3>1, LeavesConnects
    <3> QED
      BY <2>1, <3>2 DEF Guards
  <2> QED
    BY <2>2, <2>3
<1>5. CASE ReaperEvicts(t)
  <2>0. connecting[n] # t /\ frame[t].victim \in Names \ {n}
    BY <1>0, <1>5 DEF ReaperEvicts, At, FrameShape, Spares
  <2>1. \A u \in Tasks \ {t} : frame'[u] = frame[u]
    BY <1>0, <1>5 DEF ReaperEvicts, Goto, Return
  <2>2. CASE EvictBegin(t, frame[t].victim)
    BY <1>0, <2>0, <2>1, <2>2, LeavesEvicts DEF Guards
  <2>3. CASE UNCHANGED <<connVars, connections, boot, evictedCaps, registry, connecting>>
    <3>1. Leaves(n)
      BY <1>0, <2>0, <2>1, <2>3, LeavesIdle DEF connVars, OnlyTask
    <3> QED
      BY <1>0, <2>3, <3>1 DEF Guards
  <2> QED
    BY <1>5, <2>2, <2>3 DEF ReaperEvicts
<1>6. CASE ReconnectClosed(t) \/ RemoveEnd(t) \/ ReplaceDrained(t) \/ ReplaceAdds(t)
  BY <1>0, <1>6 DEF ReconnectClosed, RemoveEnd, ReplaceDrained, ReplaceAdds, At, Spares
<1>7. CASE Dispatch(t) \/ RouteEnds(t)
  <2>1. connecting[n] # t /\ \A u \in Tasks \ {t} : frame'[u] = frame[u]
    BY <1>0, <1>7 DEF Dispatch, RouteEnds, At, Goto, Return
  <2>2. OnlyTask(t)
    BY <1>0, <1>7, CallBegins, Collects DEF Dispatch, RouteEnds, At, FrameShape
  <2>3. UNCHANGED <<connections, boot, evictedCaps, registry, connecting>>
    BY <1>7 DEF Dispatch, RouteEnds
  <2>4. Leaves(n)
    BY <1>0, <2>1, <2>2, <2>3, LeavesIdle
  <2> QED
    BY <1>0, <2>3, <2>4 DEF Guards
<1> QED
  BY <1>1, <1>2, <1>3, <1>4, <1>5, <1>6, <1>7 DEF Continue

\* So does every operation that begins.
LEMMA StartGuards ==
    ASSUME Stable, Faulty, MgrInv, Spared, NEW n \in Pinned, Sheltered(n), NEW t \in Tasks, NEW m \in Names, Start(t, m)
    PROVE  Guards(n)
<1>0. /\ Typed /\ MgrTyped /\ frame \in [Tasks -> Frame] /\ n \in Names /\ configured = Names
      /\ connecting \in [Names -> Tasks \cup {NoTask}] /\ evictedCaps[n] = "absent"
  BY ManagerAssumption DEF MgrInv, MgrTyped, MgrTypeOK, Spared, Sheltered
<1>i. connecting[n] # t
  <2>1. ~At(t, "connecting")
    BY DEF Start, Boot, Stop, Warm, Reconnect, Route, Add, Remove, Replace, DrainOld, Idle, NoFrame, At
  <2> QED
    BY <1>0, <2>1 DEF MgrInv, OneAttempt
<1>e. ASSUME NEW v \in Names \ {n}, EvictBegin(t, v), NEW f, SetFrame(t, f) PROVE Guards(n)
  <2>1. \A u \in Tasks \ {t} : frame'[u] = frame[u]
    BY <1>0, <1>e DEF SetFrame
  <2> QED
    BY <1>0, <1>i, <1>e, <2>1, LeavesEvicts DEF Guards
<1>1. CASE Boot(t, m)
  <2>1. CASE m = n
    <3>1. n \in boot /\ n \notin boot' /\ UNCHANGED <<evictedCaps, registry>>
      BY <1>1, <2>1 DEF Boot
    <3>2. connecting[n] = NoTask
      BY <3>1 DEF Sheltered
    <3>3. connecting'[n] = t /\ frame'[t] = NewFrame("boot", "connecting", n, NoName)
      BY <1>0, <1>1, <2>1, <3>2, ConnectBegins DEF Boot
    <3> QED
      BY <1>0, <3>1, <3>3 DEF NewFrame, Guards
  <2>2. CASE m # n
    <3>1. Leaves(n)
      BY <1>0, <1>1, <1>i, <2>2, LeavesConnects DEF Boot
    <3> QED
      BY <1>0, <1>1, <3>1 DEF Boot, Guards
  <2> QED
    BY <2>1, <2>2
<1>2. CASE Stop(t, m)
  <2>1. m # n /\ EvictBegin(t, m) /\ SetFrame(t, NewFrame("stop", "evicting", NoName, m))
    BY <1>0, <1>2 DEF Stop, EvictBegin, IsPinned
  <2> QED
    BY <1>e, <2>1
<1>3. CASE Route(t, m)
  <2>1. ASSUME NEW op, SetFrame(t, [NewFrame(op, "gate", m, NoName) EXCEPT !.conn = connections[m]]),
               UNCHANGED <<connVars, connections, boot, evictedCaps, registry, connecting>>
        PROVE  Guards(n)
    <3>1. \A u \in Tasks \ {t} : frame'[u] = frame[u]
      BY <1>0, <2>1 DEF SetFrame
    <3>2. Leaves(n)
      BY <1>0, <1>i, <2>1, <3>1, LeavesIdle DEF connVars, OnlyTask
    <3> QED
      BY <1>0, <2>1, <3>2 DEF Guards
  <2>2. ASSUME NEW op, EnsureConnected(t, op, m) PROVE Guards(n)
    <3>1. m # n
      BY <1>3, <2>2 DEF Route, EnsureConnected, Sheltered
    <3>2. \A v \in LRUVictims(m) : v \in Names \ {n}
      BY <1>0 DEF LRUVictims, LiveOthers, IsPinned
    <3>3. CASE ConnectTimed(t, op, m) /\ UNCHANGED <<boot, evictedCaps, registry>>
      <4>1. Leaves(n)
        BY <1>0, <1>i, <3>1, <3>3, LeavesConnects
      <4> QED
        BY <1>0, <3>3, <4>1 DEF Guards
    <3> QED
      BY <1>e, <2>2, <3>2, <3>3 DEF EnsureConnected
  <2> QED
    BY <1>3, <2>1, <2>2 DEF Route
<1> QED
  BY <1>1, <1>2, <1>3 DEF Start, Stable, Warm, Reconnect, Add, Remove, Replace, DrainOld, NoReload

\* A guarded backend stays sheltered: what is listed stays up.
LEMMA ShelteredStep ==
    ASSUME NEW n \in Names, Brought(n), Brought(n)', Sheltered(n), Guards(n)
    PROVE  Sheltered(n)'
<1>1. Up(n) => n \notin boot
  BY DEF Sheltered, Up
<1>2. Up(n) => Up(n)'
  <2>1. ASSUME Up(n), connecting'[n] = NoTask PROVE Up(n)'
    BY <1>1, <2>1 DEF Guards, Brought
  <2>2. ASSUME Up(n), connecting'[n] # NoTask PROVE Up(n)'
    <3>1. Leaves(n)
      BY <1>1, <2>2 DEF Guards
    <3> QED
      BY <2>2, <3>1 DEF Leaves, Brought
  <2> QED
    BY <2>1, <2>2
<1> QED
  BY <1>1, <1>2 DEF Guards, Leaves, Sheltered

\* A pinned backend stays connected once connect_all has brought it up, however
\* the reaper, the LRU cap, the stop and warm routes, the calls and the failing
\* connects of other backends interleave, in a fleet that nobody reconfigures.
THEOREM PinnedNeverDown ==
    ASSUME Stable
    PROVE  Spec => []PinnedStaysUp
<1> DEFINE Inv == Spared /\ \A n \in Pinned : Brought(n) /\ (Faulty => Sheltered(n))
<1>1. Init => Inv
  <2> SUFFICES ASSUME Init PROVE Inv
    OBVIOUS
  <2>1. Spared
    BY DEF Init, MgrInit, NoFrame, Spared, Spares
  <2>2. ASSUME NEW n \in Pinned PROVE Brought(n) /\ Sheltered(n)
    BY ManagerAssumption DEF Init, MgrInit, Brought, Sheltered
  <2> QED
    BY <2>1, <2>2
<1>2. MgrInv /\ Inv /\ [Next]_vars => Inv'
  <2> SUFFICES ASSUME MgrInv, Inv, [Next]_vars PROVE Inv'
    OBVIOUS
  <2>1. CASE Sweep
    <3>1. UNCHANGED <<connections, connecting, boot, state, job, configured, evictedCaps, registry>>
      BY <2>1 DEF Sweep, connVars
    <3>2. ASSUME NEW t \in Tasks PROVE Spares(frame'[t])
      <4>1. ASSUME NEW v \in Names, Evictable(v), frame'[t] = NewFrame("reap", "evict", NoName, v) PROVE Spares(frame'[t])
        BY <4>1, ManagerAssumption DEF NewFrame, Spares, Evictable
      <4> QED
        BY <2>1, <4>1, SweepFrames DEF Spared, MgrInv
    <3>3. ASSUME NEW n \in Pinned PROVE Brought(n)'
      BY <3>1, ManagerAssumption, BroughtSame DEF MgrInv
    <3>4. ASSUME NEW n \in Pinned, Sheltered(n) PROVE Sheltered(n)'
      <4>1. n \in Names /\ connecting[n] \in Tasks \cup {NoTask} /\ (Up(n)' <=> Up(n))
        BY <3>1, ManagerAssumption DEF MgrInv, MgrTyped, MgrTypeOK, Up, IsConnected
      <4>2. connecting[n] # NoTask => frame'[connecting[n]] = frame[connecting[n]]
        BY <2>1, <4>1, SweepFrames DEF MgrInv, OneAttempt, At, Idle, NoFrame
      <4> QED
        BY <3>1, <3>4, <4>1, <4>2 DEF Sheltered
    <3> QED
      BY <3>1, <3>2, <3>3, <3>4 DEF Spared
  <2>2. CASE UNCHANGED vars \/ \E n \in Names : Ages(n)
    <3>1. UNCHANGED <<connections, connecting, boot, state, job, configured, frame, evictedCaps, registry>>
      BY <2>2 DEF vars, connVars, mgrVars, Ages
    <3>3. ASSUME NEW n \in Pinned PROVE Brought(n)'
      BY <3>1, ManagerAssumption, BroughtSame DEF MgrInv
    <3>4. ASSUME NEW n \in Pinned, Sheltered(n) PROVE Sheltered(n)'
      BY <3>1, <3>4 DEF Sheltered, Up, IsConnected
    <3> QED
      BY <3>1, <3>3, <3>4 DEF Spared
  <2>3. ASSUME NEW t \in Tasks, Continue(t) \/ \E m \in Names : Start(t, m) PROVE Inv'
    <3>1. Spared' /\ \A n \in Pinned : Brought(n)'
      BY <2>3, PinnedContinue, PinnedStart
    <3>2. ASSUME Faulty, NEW n \in Pinned PROVE Sheltered(n)'
      <4>1. n \in Names /\ Guards(n)
        BY <2>3, <3>2, ManagerAssumption, ContinueGuards, StartGuards
      <4> QED
        BY <3>1, <3>2, <4>1, ShelteredStep
    <3> QED
      BY <3>1, <3>2 DEF Faulty
  <2> QED
    BY <2>1, <2>2, <2>3 DEF Next
<1>3. Inv => PinnedStaysUp
  BY DEF Brought, PinnedStaysUp
<1> HIDE DEF Inv
<1> QED
  BY <1>1, <1>2, <1>3, ManagerInvariant, PTL DEF Spec

------------------------------------------------------------------------------
(* Upstream sessions are not lost *)

\* Nobody reconfigures, warms or reconnects a backend, no connect times out,
\* and no backend is evicted to make room for another.
Settled ==
    /\ Ops \cap {"reload", "reconnect", "warm", "timeout"} = {}
    /\ MaxLive = 0

\* The operations of such a fleet; an eviction ends there.
Plain(f) ==
    /\ f.pc \notin {"closing", "draining", "add"}
    /\ f.op # "remove"
    /\ f.pc \in {"evict", "evicting"} => f.name = NoName

\* What connect_all has not come to yet has no connection, and is not listed.
Unborn == \A n \in boot : connections[n] = NoConn /\ evictedCaps[n] = "absent" /\ n \notin registry

\* A connection that is being opened is that of its backend.
Registered ==
    \A t \in Tasks : job[t].op \in {"handshake", "discover"} => connections[frame[t].name] = job[t].conn

\* Client k can be closed: it is the client of a backend, or in the hands of a
\* task that opens or closes it.
HasOwner(k) ==
    \/ \E n \in Names : connections[n] # NoConn /\ outbound[connections[n]] = k
    \/ \E t \in Tasks : job[t].op \in {"discover", "closing"} /\ job[t].client = k

\* No upstream session is open that nobody can close.
Kept == \A k \in live : HasOwner(k)

\* A task that does not let go of a client.
LEMMA KeptSame ==
    ASSUME Kept, MgrTyped, NEW t \in Tasks, OnlyTask(t), live' \subseteq live, UNCHANGED connections,
           \A n \in Names : connections[n] # NoConn => outbound'[connections[n]] = outbound[connections[n]],
           job[t].op \in {"discover", "closing"} =>
              job'[t].op \in {"discover", "closing"} /\ job'[t].client = job[t].client
    PROVE  Kept'
<1> SUFFICES ASSUME NEW k \in live' PROVE HasOwner(k)'
  BY DEF Kept
<1>1. HasOwner(k)
  BY DEF Kept
<1>2. CASE \E n \in Names : connections[n] # NoConn /\ outbound[connections[n]] = k
  BY <1>2 DEF HasOwner
<1>3. CASE \E u \in Tasks : job[u].op \in {"discover", "closing"} /\ job[u].client = k
  <2>1. PICK u \in Tasks : job[u].op \in {"discover", "closing"} /\ job[u].client = k
    BY <1>3
  <2>2. job'[u].op \in {"discover", "closing"} /\ job'[u].client = k
    BY <2>1 DEF OnlyTask
  <2> QED
    BY <2>2 DEF HasOwner
<1> QED
  BY <1>1, <1>2, <1>3 DEF HasOwner

\* A connection that is dropped has no client, or somebody closes it.
LEMMA KeptDrops ==
    ASSUME Kept, MgrTyped, NEW t \in Tasks, OnlyTask(t), live' \subseteq live, UNCHANGED connections, NEW c \in Conns,
           ~MustClose(c), Disconnected(c), job[t].op \notin {"discover", "closing"}
    PROVE  Kept'
<1> SUFFICES ASSUME NEW k \in live' PROVE HasOwner(k)'
  BY DEF Kept
<1>0. outbound \in [Conns -> Clients \cup {NoClient}] /\ k \in Clients /\ connections \in [Names -> Conns \cup {NoConn}]
  BY DEF MgrTyped, MgrTypeOK, TypeOK
<1>1. HasOwner(k)
  BY DEF Kept
<1>2. CASE \E u \in Tasks : job[u].op \in {"discover", "closing"} /\ job[u].client = k
  <2>1. PICK u \in Tasks : job[u].op \in {"discover", "closing"} /\ job[u].client = k
    BY <1>2
  <2>2. job'[u] = job[u]
    BY <2>1 DEF OnlyTask
  <2> QED
    BY <2>1, <2>2 DEF HasOwner
<1>3. CASE outbound[c] = k
  BY <1>0, <1>2, <1>3, NullsAssumption DEF MustClose, BeingClosed
<1>4. ASSUME NEW n \in Names, connections[n] # NoConn, outbound[connections[n]] = k, outbound[c] # k PROVE HasOwner(k)'
  <2>1. outbound'[connections[n]] = k
    BY <1>0, <1>4 DEF Disconnected
  <2> QED
    BY <1>4, <2>1 DEF HasOwner
<1> QED
  BY <1>1, <1>2, <1>3, <1>4 DEF HasOwner

\* drain_and_disconnect(), with the lock.
LEMMA KeptDrain ==
    ASSUME Kept, MgrTyped, NEW t \in Tasks, NEW c \in Conns, DrainLocked(t, c), UNCHANGED <<live, connections>>,
           job[t].op \notin {"discover", "closing"}
    PROVE  Kept'
<1>0. Typed
  BY DEF MgrTyped
<1>1. CASE DrainWaits(t, c)
  BY <1>0, <1>1, SuspendAt, KeptSame DEF DrainWaits, OnlyTask
<1>2. CASE DrainCloses(t, c) /\ MustClose(c)
  BY <1>0, <1>2, SuspendAt, KeptSame DEF DrainCloses, OnlyTask
<1>3. CASE DrainCloses(t, c) /\ ~MustClose(c)
  BY <1>0, <1>3, SuspendAt, KeptDrops DEF DrainCloses, OnlyTask
<1> QED
  BY <1>1, <1>2, <1>3 DEF DrainLocked

\* What the manager does with its connections in a settled fleet.
LEMMA KeptStep ==
    ASSUME Settled, MgrTyped, Managed, Fresh, Closes, Registered, Kept, [Uses]_connVars, UNCHANGED connections
    PROVE  Kept'
<1>0. /\ Typed /\ outbound \in [Conns -> Clients \cup {NoClient}] /\ live \subseteq Clients
      /\ connections \in [Names -> Conns \cup {NoConn}] /\ frame \in [Tasks -> Frame]
      /\ \A t \in Tasks : job[t] \in Job /\ (job[t].op # "idle" => job[t].conn \in Conns)
  BY DEF MgrTyped, MgrTypeOK, Typed, TypeOK, JobShape
<1>1. ASSUME NEW t \in Tasks, HandshakeDone(t) PROVE Kept'
  <2>1. OnlyTask(t) /\ job'[t].op = "discover" /\ job'[t].client = job[t].client /\ UNCHANGED outbound
    BY <1>0, <1>1 DEF HandshakeDone, OnlyTask, Typed, TypeOK, Job
  <2>2. HasOwner(job[t].client)'
    BY <2>1 DEF HasOwner
  <2>3. \A k \in live : HasOwner(k)'
    <3> SUFFICES ASSUME NEW k \in live PROVE HasOwner(k)'
      OBVIOUS
    <3>1. HasOwner(k)
      BY DEF Kept
    <3>2. ASSUME NEW u \in Tasks, job[u].op \in {"discover", "closing"}, job[u].client = k PROVE HasOwner(k)'
      <4>1. u # t /\ job'[u] = job[u]
        BY <1>1, <2>1, <3>2 DEF HandshakeDone, OnlyTask
      <4> QED
        BY <3>2, <4>1 DEF HasOwner
    <3> QED
      BY <2>1, <3>1, <3>2 DEF HasOwner
  <2> QED
    BY <1>1, <2>2, <2>3 DEF HandshakeDone, Kept
<1>2. ASSUME NEW t \in Tasks, ConnectDone(t) PROVE Kept'
  <2> DEFINE c == job[t].conn
             n == frame[t].name
  <2>1. OnlyTask(t) /\ c \in Conns /\ outbound[c] = NoClient /\ connections[n] = c /\ UNCHANGED live
        /\ outbound' = [outbound EXCEPT ![c] = job[t].client]
    BY <1>0, <1>2, FinishAt DEF ConnectDone, OnlyTask, Fresh, Registered
  <2>2. n \in Names
    BY <1>0, <1>2 DEF ConnectDone, MgrTyped, Managed, Shaped, TaskFits, FrameShape
  <2> SUFFICES ASSUME NEW k \in live PROVE HasOwner(k)'
    BY <2>1 DEF Kept
  <2>3. HasOwner(k) /\ k # NoClient
    BY <1>0, NullsAssumption DEF Kept
  <2>4. CASE k = job[t].client
    BY <1>0, <2>1, <2>2, <2>4, NullsAssumption DEF HasOwner
  <2>5. ASSUME NEW u \in Tasks, job[u].op \in {"discover", "closing"}, job[u].client = k, k # job[t].client PROVE HasOwner(k)'
    <3>1. job'[u] = job[u]
      BY <2>1, <2>5 DEF OnlyTask
    <3> QED
      BY <2>5, <3>1 DEF HasOwner
  <2>6. ASSUME NEW m \in Names, connections[m] # NoConn, outbound[connections[m]] = k PROVE HasOwner(k)'
    <3>1. outbound'[connections[m]] = k
      BY <1>0, <2>1, <2>3, <2>6
    <3> QED
      BY <2>6, <3>1 DEF HasOwner
  <2> QED
    BY <2>3, <2>4, <2>5, <2>6 DEF HasOwner
<1>3. ASSUME NEW t \in Tasks, ConnectAuthRequired(t) \/ ConnectFailed(t) PROVE Kept'
  BY <1>0, <1>3, FinishAt, KeptSame DEF ConnectAuthRequired, ConnectFailed, OnlyTask
<1>4. ASSUME NEW t \in Tasks, CloseDone(t) PROVE Kept'
  <2> DEFINE c == job[t].conn
  <2>1. /\ OnlyTask(t) /\ c \in Conns /\ outbound[c] = job[t].client /\ live' = live \ {job[t].client}
        /\ outbound' = [outbound EXCEPT ![c] = NoClient]
    BY <1>0, <1>4, FinishAt DEF CloseDone, Disconnected, OnlyTask, Closes
  <2> SUFFICES ASSUME NEW k \in live \ {job[t].client} PROVE HasOwner(k)'
    BY <2>1 DEF Kept
  <2>2. HasOwner(k)
    BY DEF Kept
  <2>3. ASSUME NEW u \in Tasks, job[u].op \in {"discover", "closing"}, job[u].client = k PROVE HasOwner(k)'
    <3>1. u # t /\ job'[u] = job[u]
      BY <2>1, <2>3 DEF OnlyTask
    <3> QED
      BY <2>3, <3>1 DEF HasOwner
  <2>4. ASSUME NEW m \in Names, connections[m] # NoConn, outbound[connections[m]] = k PROVE HasOwner(k)'
    <3>1. outbound'[connections[m]] = k
      BY <1>0, <2>1, <2>4
    <3> QED
      BY <2>4, <3>1 DEF HasOwner
  <2> QED
    BY <2>2, <2>3, <2>4 DEF HasOwner
<1>5. ASSUME NEW t \in Tasks, DrainLockAcquired(t) PROVE Kept'
  BY <1>0, <1>5, KeptDrain DEF DrainLockAcquired
<1>6. ASSUME NEW t \in Tasks, job[t].op = "drain_wait", DrainResumes(t) PROVE Kept'
  <2>1. CASE MustClose(job[t].conn)
    BY <1>0, <1>6, <2>1, SuspendAt, KeptSame DEF DrainResumes, OnlyTask
  <2>2. CASE ~MustClose(job[t].conn)
    BY <1>0, <1>6, <2>2, FinishAt, KeptDrops DEF DrainResumes, OnlyTask
  <2> QED
    BY <2>1, <2>2
<1>7. ASSUME NEW t \in Tasks, CallDone(t) PROVE Kept'
  BY <1>0, <1>7, FinishAt, KeptSame DEF CallDone, OnlyTask
<1>8. ASSUME NEW t \in Tasks, Collect(t) PROVE Kept'
  <2>1. job[t].op \notin {"discover", "closing"}
    BY <1>8 DEF Collect
  <2> QED
    BY <1>0, <1>8, <2>1, Collects, KeptSame
<1>9. ASSUME NEW t \in Tasks, NEW c \in Conns, ConnectNew(t, c) PROVE Kept'
  BY <1>0, <1>9, SuspendAt, KeptSame DEF ConnectNew, Free, OnlyTask
<1>10. ASSUME NEW t \in Tasks, NEW c \in Conns, DrainAndDisconnect(t, c) PROVE Kept'
  <2>1. CASE DrainLocked(t, c)
    BY <1>10, <2>1, KeptDrain DEF DrainAndDisconnect, Free
  <2>2. CASE Suspend(t, "drain_lock", c, NoClient) /\ UNCHANGED outbound
    BY <1>0, <1>10, <2>2, SuspendAt, KeptSame DEF DrainAndDisconnect, Free, OnlyTask
  <2> QED
    BY <1>10, <2>1, <2>2 DEF DrainAndDisconnect
<1>11. ASSUME NEW t \in Tasks, NEW c \in Conns, Call(t, c) \/ CallRejected(t, c) PROVE Kept'
  BY <1>0, <1>11, CallBegins, KeptSame DEF Call, CallRejected, Free
<1>12. CASE UNCHANGED connVars
  BY <1>12 DEF connVars, Kept, HasOwner
<1> QED
  BY <1>1, <1>2, <1>3, <1>4, <1>5, <1>6, <1>7, <1>8, <1>9, <1>10, <1>11, <1>12
  DEF Uses, JobStep, Settled, DrainDone, DrainTimeout

\* A new connection takes the place of one without a client.
LEMMA KeptConnects ==
    ASSUME MgrTyped, Kept, NEW t \in Tasks, NEW n \in Names, NEW op, ConnectTimed(t, op, n), Free(t),
           connections[n] # NoConn => outbound[connections[n]] = NoClient
    PROVE  Kept'
<1>0. /\ connections \in [Names -> Conns \cup {NoConn}] /\ live \subseteq Clients
      /\ OnlyTask(t) /\ UNCHANGED <<outbound, live>>
  BY ConnectBegins DEF MgrTyped, MgrTypeOK, TypeOK
<1> SUFFICES ASSUME NEW k \in live PROVE HasOwner(k)'
  BY <1>0 DEF Kept
<1>1. HasOwner(k) /\ k # NoClient
  BY <1>0, NullsAssumption DEF Kept
<1>2. ASSUME NEW u \in Tasks, job[u].op \in {"discover", "closing"}, job[u].client = k PROVE HasOwner(k)'
  <2>1. u # t /\ job'[u] = job[u]
    BY <1>0, <1>2 DEF OnlyTask, Free
  <2> QED
    BY <1>2, <2>1 DEF HasOwner
<1>3. ASSUME NEW m \in Names, connections[m] # NoConn, outbound[connections[m]] = k PROVE HasOwner(k)'
  <2>1. m # n \/ connections' = connections
    BY <1>1, <1>3
  <2>2. connections'[m] = connections[m]
    BY <1>0, <2>1, ConnectBegins
  <2> QED
    BY <1>0, <1>3, <2>2 DEF HasOwner
<1> QED
  BY <1>1, <1>2, <1>3 DEF HasOwner

\* Tasks that open a connection go on with it.
LEMMA RegisteredKeep ==
    ASSUME Registered, MgrTyped,
           \A u \in Tasks : job'[u].op \in {"handshake", "discover"} =>
              /\ job[u].op \in {"handshake", "discover"} /\ job'[u].conn = job[u].conn
              /\ frame'[u] = frame[u]
              /\ connections'[frame[u].name] = connections[frame[u].name]
    PROVE  Registered'
BY DEF Registered

\* _connect_timed.
LEMMA RegisteredConnects ==
    ASSUME MgrTyped, Managed, OneAttempt, Registered, NEW t \in Tasks, NEW n \in Names, NEW op, ConnectTimed(t, op, n)
    PROVE  Registered'
<1>0. /\ connections \in [Names -> Conns \cup {NoConn}] /\ frame \in [Tasks -> Frame] /\ OnlyTask(t)
      /\ \A u \in Tasks \ {t} : frame'[u] = frame[u]
      /\ \A u \in Tasks : job[u].op \in {"handshake", "discover"} => frame[u].pc = "connecting" /\ frame[u].name \in Names
  BY ConnectBegins DEF MgrTyped, Managed, MgrTypeOK, TypeOK, Shaped, TaskFits, FrameShape
<1>1. CASE connecting[n] = NoTask
  <2>1. frame'[t].name = n /\ job'[t].conn = NewConn /\ connections' = [connections EXCEPT ![n] = NewConn]
    BY <1>0, <1>1, ConnectBegins DEF NewFrame
  <2>2. \A u \in Tasks : job[u].op \in {"handshake", "discover"} => frame[u].name # n
    BY <1>0, <1>1, NullsAssumption DEF OneAttempt, At
  <2> QED
    BY <1>0, <2>1, <2>2 DEF Registered, OnlyTask
<1>2. CASE connecting[n] # NoTask
  <2>1. job'[t].op = "idle" /\ UNCHANGED connections
    BY <1>2, ConnectBegins DEF IdleJob
  <2> QED
    BY <1>0, <2>1, RegisteredKeep DEF OnlyTask
<1> QED
  BY <1>1, <1>2

\* The invariant of a settled fleet.
SettledInv == (\A t \in Tasks : Plain(frame[t])) /\ Unborn /\ Registered /\ Kept

\* A task that moves on, without touching the tables.
LEMMA SettledMove ==
    ASSUME Settled, MgrTyped, Managed, Fresh, Closes, SettledInv, [Uses]_connVars,
           NEW t \in Tasks, NEW f, frame' = [frame EXCEPT ![t] = f], Plain(f), OnlyTask(t),
           job'[t].op \notin {"handshake", "discover"},
           UNCHANGED <<connections, boot>>, \A n \in boot : evictedCaps'[n] = evictedCaps[n],
           \A n \in boot : n \in registry' => n \in registry
    PROVE  SettledInv'
<1>0. frame'[t] = f /\ \A u \in Tasks \ {t} : frame'[u] = frame[u]
  BY DEF MgrTyped, MgrTypeOK
<1>1. \A u \in Tasks : Plain(frame'[u])
  BY <1>0 DEF SettledInv
<1>2. Unborn'
  BY DEF SettledInv, Unborn
<1>3. Registered'
  BY <1>0, RegisteredKeep DEF SettledInv, OnlyTask
<1>4. Kept'
  BY KeptStep DEF SettledInv
<1> QED
  BY <1>1, <1>2, <1>3, <1>4 DEF SettledInv

\* _connect_timed, for a backend without a client.
LEMMA SettledConnects ==
    ASSUME MgrTyped, Managed, OneAttempt, SettledInv, NEW t \in Tasks, NEW n \in Names, NEW op, op # "remove",
           ConnectTimed(t, op, n), Free(t), connections[n] # NoConn => outbound[connections[n]] = NoClient,
           UNCHANGED <<evictedCaps, registry>>, boot' \subseteq boot \ {n}
    PROVE  SettledInv'
<1> DEFINE f == NewFrame(op, IF connecting[n] = NoTask THEN "connecting" ELSE "joining", n, NoName)
<1>0. frame' = [frame EXCEPT ![t] = f]
  BY ConnectBegins
<1>1. Plain(f)
  BY DEF NewFrame, Plain
<1>2. \A u \in Tasks : Plain(frame'[u])
  BY <1>0, <1>1 DEF SettledInv, MgrTyped, MgrTypeOK
<1>3. \A m \in Names \ {n} : connections'[m] = connections[m]
  BY ConnectBegins DEF MgrTyped, MgrTypeOK
<1>4. Unborn'
  BY <1>3 DEF SettledInv, Unborn, MgrTyped, MgrTypeOK
<1> QED
  BY <1>2, <1>4, RegisteredConnects, KeptConnects DEF SettledInv

\* Operations that go on.
LEMMA SettledContinue ==
    ASSUME Settled, MgrInv, Fresh, Closes, SettledInv, NEW t \in Tasks, Continue(t)
    PROVE  SettledInv'
<1>0. /\ Typed /\ MgrTyped /\ Managed /\ OneAttempt /\ frame \in [Tasks -> Frame] /\ frame[t] \in Frame
      /\ connections \in [Names -> Conns \cup {NoConn}] /\ evictedCaps \in [Names -> {"absent", "empty", "tools"}]
      /\ FrameShape(frame[t]) /\ TaskFits(frame[t], job[t]) /\ Plain(frame[t]) /\ boot \subseteq Names
  BY DEF MgrInv, MgrTyped, MgrTypeOK, Shaped, SettledInv
<1>u. [Uses]_connVars
  BY <1>0, ContinueUses
<1>n. Plain(NoFrame)
  BY DEF NoFrame, Plain
<1>p. ASSUME NEW n \in boot, NEW caps, caps[n] = "absent" PROVE n \notin Published(caps)
  BY <1>p DEF SettledInv, Unborn, Published, Up
<1>1. CASE Upstream(t)
  <2>1. UNCHANGED <<frame, connections, boot, registry, evictedCaps>> /\ OnlyTask(t) /\ job'[t].conn = job[t].conn
    BY <1>0, <1>1, UpstreamMoves DEF Upstream, mgrVars
  <2>2. job'[t].op \in {"handshake", "discover"} => job[t].op \in {"handshake", "discover"}
    BY <1>0, <1>1, UpstreamMoves
  <2>3. Registered'
    BY <1>0, <2>1, <2>2, RegisteredKeep DEF SettledInv, OnlyTask
  <2>4. Kept'
    BY <1>0, <1>u, <2>1, KeptStep DEF SettledInv
  <2> QED
    BY <2>1, <2>3, <2>4 DEF SettledInv, Unborn
<1>2. CASE ConnectSucceeded(t) \/ ConnectErrored(t)
  <2>0. At(t, "connecting") /\ AttemptEnds(t) /\ UNCHANGED <<connections, boot>>
    BY <1>2 DEF ConnectSucceeded, ConnectErrored
  <2>1. OnlyTask(t) /\ job'[t].op = "idle"
    BY <1>0, <1>2, Collects DEF ConnectSucceeded, ConnectErrored, IdleJob
  <2>2. ASSUME NEW u \in Tasks PROVE Plain(frame'[u])
    <3>1. CASE u = t
      <4>1. Plain(AfterConnect(t))
        BY <1>0 DEF AfterConnect, NoFrame, Frame, Plain
      <4> QED
        BY <2>0, <3>1, <4>1 DEF AttemptEnds
    <3>2. CASE u # t
      <4>1. frame[u] \in Frame /\ Plain(frame[u])
        BY <1>0 DEF SettledInv
      <4>2. Plain([frame[u] EXCEPT !.pc = "joined"])
        BY <4>1 DEF Plain, Frame
      <4> QED
        BY <2>0, <3>2, <4>1, <4>2 DEF AttemptEnds
    <3> QED
      BY <3>1, <3>2
  <2>3. ASSUME NEW n \in boot PROVE connections'[n] = NoConn /\ evictedCaps'[n] = "absent" /\ n \notin registry'
    <3>1. evictedCaps'[n] = "absent" /\ registry' = Published(evictedCaps')
      BY <1>0, <1>2 DEF SettledInv, Unborn, ConnectSucceeded, ConnectErrored, SyncRegistry
    <3> QED
      BY <1>p, <2>0, <3>1 DEF SettledInv, Unborn
  <2>4. ASSUME NEW u \in Tasks, job'[u].op \in {"handshake", "discover"}
        PROVE  job'[u] = job[u] /\ frame'[u] = frame[u]
    <3>1. u # t /\ job'[u] = job[u] /\ frame[u].pc = "connecting"
      BY <2>1, <2>4 DEF OnlyTask, MgrInv, MgrTyped, Managed, Shaped, TaskFits
    <3> QED
      BY <1>0, <2>0, <3>1, AttemptEndsFrames
  <2>5. Registered'
    BY <1>0, <2>0, <2>4, RegisteredKeep DEF SettledInv
  <2>6. Kept'
    BY <1>0, <1>u, <2>0, KeptStep DEF SettledInv
  <2> QED
    BY <2>0, <2>2, <2>3, <2>5, <2>6 DEF SettledInv, Unborn
<1>3. CASE ConnectExpires(t)
  BY <1>3 DEF ConnectExpires, Settled
<1>4. CASE Joined(t)
  <2>1. Plain(AfterConnect(t))
    BY <1>0 DEF AfterConnect, NoFrame, Frame, Plain
  <2>2. job[t].op = "idle"
    BY <1>0, <1>4 DEF Joined, At, TaskFits
  <2> QED
    BY <1>0, <1>4, <1>u, <2>1, <2>2, SettledMove DEF Joined, SetFrame, connVars, OnlyTask
<1>5. CASE EvictEnd(t)
  <2>1. frame[t].name = NoName
    BY <1>0, <1>5 DEF EvictEnd, At, Plain
  <2>2. OnlyTask(t) /\ job'[t].op = "idle" /\ UNCHANGED <<connections, boot, evictedCaps>> /\ registry' = Published(evictedCaps)
    BY <1>0, <1>5, <2>1, Collects DEF EvictEnd, SyncRegistry, IdleJob
  <2>3. \A n \in boot : n \notin registry'
    BY <1>p, <2>2 DEF SettledInv, Unborn
  <2> QED
    BY <1>0, <1>5, <1>n, <1>u, <2>1, <2>2, <2>3, SettledMove DEF EvictEnd, Return
<1>6. CASE ReaperEvicts(t)
  <2>1. frame[t].victim \in Names /\ frame[t].pc = "evict" /\ frame[t].name = NoName
    BY <1>0, <1>6 DEF ReaperEvicts, At, FrameShape, Plain
  <2>2. CASE EvictBegin(t, frame[t].victim) /\ Goto(t, "evicting")
    <3> DEFINE f == [frame[t] EXCEPT !.pc = "evicting"]
               v == frame[t].victim
    <3>1. Plain(f) /\ frame' = [frame EXCEPT ![t] = f]
      BY <1>0, <2>1, <2>2 DEF Frame, Goto, Plain
    <3>2. OnlyTask(t) /\ job'[t].op \notin {"handshake", "discover"}
      BY <1>0, <2>1, <2>2, NamedConn, DrainBegins DEF EvictBegin
    <3>3. UNCHANGED <<connections, boot, registry>> /\ \A n \in boot : evictedCaps'[n] = evictedCaps[n]
      BY <1>0, <2>2 DEF EvictBegin, CacheCaps, SettledInv, Unborn
    <3> HIDE DEF f
    <3> QED
      BY <1>0, <1>u, <3>1, <3>2, <3>3, SettledMove
  <2>3. CASE Return(t) /\ UNCHANGED <<connVars, connections, boot, registry, evictedCaps>>
    <3>1. job[t].op = "idle" /\ OnlyTask(t) /\ UNCHANGED job
      BY <1>0, <2>1, <2>3 DEF TaskFits, connVars, OnlyTask
    <3> QED
      BY <1>0, <1>n, <1>u, <2>3, <3>1, SettledMove DEF Return
  <2> QED
    BY <1>6, <2>2, <2>3 DEF ReaperEvicts
<1>7. CASE ReconnectClosed(t) \/ RemoveEnd(t) \/ ReplaceDrained(t) \/ ReplaceAdds(t)
  BY <1>0, <1>7 DEF ReconnectClosed, RemoveEnd, ReplaceDrained, ReplaceAdds, At, Plain
<1>8. CASE Dispatch(t)
  <2> DEFINE f == [frame[t] EXCEPT !.pc = "calling"]
  <2>1. Plain(f) /\ frame' = [frame EXCEPT ![t] = f]
    BY <1>0, <1>8 DEF Frame, Dispatch, Goto, Plain
  <2>2. OnlyTask(t) /\ job'[t].op \notin {"handshake", "discover"}
    BY <1>0, <1>8, CallBegins DEF Dispatch, At, FrameShape
  <2> HIDE DEF f
  <2> QED
    BY <1>0, <1>8, <1>u, <2>1, <2>2, SettledMove DEF Dispatch
<1>9. CASE RouteEnds(t)
  <2>1. OnlyTask(t) /\ job'[t].op = "idle"
    BY <1>0, <1>9, Collects DEF RouteEnds, IdleJob
  <2> QED
    BY <1>0, <1>9, <1>n, <1>u, <2>1, SettledMove DEF RouteEnds, Return
<1> QED
  BY <1>1, <1>2, <1>3, <1>4, <1>5, <1>6, <1>7, <1>8, <1>9 DEF Continue

\* Operations that begin: a backend is connected only when it has no client.
LEMMA SettledStart ==
    ASSUME Settled, MgrInv, Fresh, OutboundUp, Closes, SettledInv, NEW t \in Tasks, NEW n \in Names, Start(t, n)
    PROVE  SettledInv'
<1>0. /\ Typed /\ MgrTyped /\ Managed /\ OneAttempt /\ frame \in [Tasks -> Frame]
      /\ connections \in [Names -> Conns \cup {NoConn}] /\ evictedCaps \in [Names -> {"absent", "empty", "tools"}]
  BY DEF MgrInv, MgrTyped, MgrTypeOK
<1>u. [Uses]_connVars
  BY <1>0, StartUses
<1>i. Idle(t) /\ Free(t)
  BY DEF Start, Boot, Stop, Warm, Reconnect, Route, Add, Remove, Replace, DrainOld, Idle, Free
<1>1. CASE Boot(t, n)
  BY <1>0, <1>1, <1>i, SettledConnects DEF Boot, SettledInv, Unborn
<1>2. CASE Stop(t, n)
  <2> DEFINE f == NewFrame("stop", "evicting", NoName, n)
  <2>1. Plain(f) /\ frame' = [frame EXCEPT ![t] = f]
    BY <1>2 DEF Stop, SetFrame, NewFrame, Plain
  <2>2. OnlyTask(t) /\ job'[t].op \notin {"handshake", "discover"}
    BY <1>0, <1>2, NamedConn, DrainBegins DEF Stop, EvictBegin
  <2>3. UNCHANGED <<connections, boot, registry>> /\ \A m \in boot : evictedCaps'[m] = evictedCaps[m]
    BY <1>0, <1>2 DEF Stop, EvictBegin, CacheCaps, SettledInv, Unborn
  <2> HIDE DEF f
  <2> QED
    BY <1>0, <1>u, <2>1, <2>2, <2>3, SettledMove
<1>3. CASE Route(t, n)
  <2>0. n \in registry /\ n \notin boot
    BY <1>3 DEF Route, SettledInv, Unborn
  <2>1. ASSUME NEW op \in {"route", "read"},
               SetFrame(t, [NewFrame(op, "gate", n, NoName) EXCEPT !.conn = connections[n]]),
               UNCHANGED <<connVars, connections, evictedCaps, registry, boot>>
        PROVE  SettledInv'
    <3> DEFINE f == [NewFrame(op, "gate", n, NoName) EXCEPT !.conn = connections[n]]
    <3>1. Plain(f) /\ frame' = [frame EXCEPT ![t] = f]
      BY <2>1 DEF NewFrame, SetFrame, Plain
    <3>2. OnlyTask(t) /\ job'[t].op = "idle"
      BY <1>i, <2>1 DEF connVars, OnlyTask, Idle
    <3> HIDE DEF f
    <3> QED
      BY <1>0, <1>u, <2>1, <3>1, <3>2, SettledMove
  <2>2. ASSUME NEW op \in {"route", "read"}, EnsureConnected(t, op, n),
               connections[n] # NoConn => ~IsDraining(connections[n])
        PROVE  SettledInv'
    <3>1. ConnectTimed(t, op, n) /\ UNCHANGED <<evictedCaps, registry, boot>>
      BY <2>2 DEF EnsureConnected, CapReached, Settled
    <3>2. connections[n] # NoConn => outbound[connections[n]] = NoClient
      BY <1>0, <2>2 DEF EnsureConnected, Up, IsConnected, IsDraining, OutboundUp
    <3> QED
      BY <1>0, <1>i, <2>0, <3>1, <3>2, SettledConnects
  <2> QED
    BY <1>3, <2>1, <2>2 DEF Route
<1> QED
  BY <1>1, <1>2, <1>3 DEF Start, Settled, Warm, Reconnect, Add, Remove, Replace, DrainOld, NoReload

\* Whatever happens in a settled fleet.
LEMMA SettledStep ==
    ASSUME Settled, MgrInv, Fresh, OutboundUp, Closes, SettledInv, [Next]_vars
    PROVE  SettledInv'
<1>1. CASE Sweep
  <2>1. UNCHANGED <<connVars, connections, boot, evictedCaps, registry>>
    BY <1>1 DEF Sweep
  <2>2. ASSUME NEW t \in Tasks PROVE Plain(frame'[t]) /\ (frame'[t] = frame[t] \/ job[t].op = "idle")
    <3>1. ASSUME NEW v, frame'[t] = NewFrame("reap", "evict", NoName, v) PROVE Plain(frame'[t])
      BY <3>1 DEF NewFrame, Plain
    <3> QED
      BY <1>1, <3>1, SweepFrames DEF SettledInv, MgrInv, Idle
  <2>3. Registered'
    BY <2>1, <2>2, RegisteredKeep DEF SettledInv, MgrInv, connVars
  <2> QED
    BY <2>1, <2>2, <2>3 DEF SettledInv, Unborn, Kept, HasOwner, connVars
<1>2. CASE UNCHANGED vars \/ \E n \in Names : Ages(n)
  <2>1. UNCHANGED <<connVars, connections, boot, evictedCaps, registry, frame>>
    BY <1>2 DEF vars, mgrVars, Ages
  <2> QED
    BY <2>1 DEF SettledInv, Unborn, Registered, Kept, HasOwner, connVars
<1> QED
  BY <1>1, <1>2, SettledContinue, SettledStart DEF Next

\* Every open upstream session can still be closed, whatever calls, sweeps of
\* the reaper, stops and failing connects interleave in a settled fleet: no
\* connect takes the place of a connection that still has a client.
THEOREM NoOrphanedSession ==
    ASSUME Settled
    PROVE  Spec => []NoOrphan
<1> DEFINE Inv == Fresh /\ OutboundUp /\ Closes /\ Waits /\ SettledInv
<1>1. Init => Inv
  <2> SUFFICES ASSUME Init PROVE Inv
    OBVIOUS
  <2>1. Fresh /\ OutboundUp /\ Closes /\ Waits
    BY DEF Init, MgrInit, ConnInit, IdleJob, Fresh, OutboundUp, Closes, Waits
  <2>2. SettledInv
    BY DEF Init, MgrInit, ConnInit, IdleJob, NoFrame, SettledInv, Plain, Unborn, Registered, Kept
  <2> QED
    BY <2>1, <2>2
<1>2. MgrInv /\ Inv /\ [Next]_vars => Inv'
  <2> SUFFICES ASSUME MgrInv, Inv, [Next]_vars PROVE Inv'
    OBVIOUS
  <2>1. MgrTyped /\ IInv /\ [Uses]_connVars
    BY NextUses DEF MgrInv
  <2> QED
    BY <2>1, CleanStep, ClosesStep, SettledStep DEF Settled
<1>3. Inv => NoOrphan
  BY DEF SettledInv, Kept, HasOwner, NoOrphan, Reachable
<1> HIDE DEF Inv
<1> QED
  BY <1>1, <1>2, <1>3, ManagerInvariant, PTL DEF Spec

------------------------------------------------------------------------------
(* The activity timestamps and the registry of a steady fleet *)

\* A fleet that only serves calls and evicts what is idle; connects may fail.
Steady ==
    /\ Ops \subseteq {"route", "read", "reap", "fail", "boot_fail"}
    /\ MaxLive = 0

\* The backend that a task connects or evicts.
Evicting == {"evict", "evicting"}

\* The backend that task t is about.
Aim(t) == IF frame[t].pc \in Evicting THEN frame[t].victim ELSE frame[t].name

\* What a task knows of the backend it works on: an attempt under way is not
\* up, one that has returned is; a backend to be evicted is up, and from then
\* on it is down, and nobody connects it.
Knows(t) ==
    /\ Plain(frame[t])
    /\ frame[t].pc \in Evicting => frame[t].op = "reap" /\ connecting[frame[t].victim] = NoTask
    /\ At(t, "evict") => Up(frame[t].victim)
    /\ At(t, "evicting") =>
          /\ job[t].op \in {"drain_wait", "closing", "returned"}
          /\ connections[frame[t].victim] = job[t].conn
          /\ state[job[t].conn] = IF job[t].op = "returned" THEN "disconnected" ELSE "draining"
    /\ At(t, "connecting") =>
          /\ connections[frame[t].name] = job[t].conn
          /\ state[job[t].conn] = CASE job[t].op = "returned" -> "connected"
                                    [] job[t].op = "raised" -> "error"
                                    [] OTHER -> "connecting"

\* No two evictions of one backend.
OneEviction ==
    \A t, u \in Tasks :
        frame[t].pc \in Evicting /\ frame[u].pc \in Evicting /\ frame[t].victim = frame[u].victim => t = u

\* A backend that is listed and down has its tools cached; one that is up has
\* a timestamp.
Accounted(n) ==
    /\ n \in registry /\ ~Up(n) => evictedCaps[n] = "tools"
    /\ Up(n) /\ connecting[n] = NoTask => lastActivity[n] # "none"

\* The invariant of such a fleet.
SteadyInv ==
    /\ lock = NoTask
    /\ \A t \in Tasks : Knows(t)
    /\ OneEviction
    /\ \A n \in Names : Accounted(n)

\* The connection, the state and the attempt of backend n are as they were.
Untouched(n) ==
    /\ UNCHANGED <<connections[n], connecting[n]>>
    /\ connections[n] \in Conns => state'[connections[n]] = state[connections[n]]

\* A task whose backend is not touched.
LEMMA KnowsSame ==
    ASSUME MgrTyped, NEW u \in Tasks, Knows(u), UNCHANGED <<frame[u], job[u]>>,
           frame[u].pc \in {"evict", "evicting", "connecting"} => Untouched(Aim(u))
    PROVE  Knows(u)'
<1>0. /\ frame[u].pc \in {"evict", "evicting", "connecting"} => Aim(u) \in Names
      /\ frame[u].pc \in {"evicting", "connecting"} => job[u].conn \in Conns
  BY DEF MgrTyped, Typed, JobShape, Shaped, FrameShape, TaskFits, Aim, Evicting
<1>1. CASE frame[u].pc = "evict"
  <2>1. Up(frame[u].victim)' <=> Up(frame[u].victim)
    BY <1>0, <1>1 DEF Untouched, Aim, Evicting, Up, IsConnected, MgrTyped, MgrTypeOK
  <2> QED
    BY <1>1, <2>1 DEF Knows, At, Untouched, Aim, Evicting
<1>2. CASE frame[u].pc = "evicting"
  BY <1>0, <1>2 DEF Knows, At, Untouched, Aim, Evicting
<1>3. CASE frame[u].pc = "connecting"
  BY <1>0, <1>3 DEF Knows, At, Untouched, Aim, Evicting
<1>4. CASE frame[u].pc \notin {"evict", "evicting", "connecting"}
  BY <1>4 DEF Knows, At, Evicting
<1> QED
  BY <1>1, <1>2, <1>3, <1>4

\* A task where no backend is touched.
LEMMA KnowsQuiet ==
    ASSUME MgrTyped, NEW u \in Tasks, Knows(u), UNCHANGED <<frame[u], job[u]>>,
           UNCHANGED <<state, connections, connecting>>
    PROVE  Knows(u)'
<1>1. frame[u].pc \in {"evict", "evicting", "connecting"} => Aim(u) \in Names
  BY DEF MgrTyped, Shaped, FrameShape, Aim, Evicting
<1>2. \A n \in Names : Untouched(n)
  BY DEF Untouched
<1> QED
  BY <1>1, <1>2, KnowsSame

\* A task that is not at work on a backend.
LEMMA KnowsNothing ==
    ASSUME NEW u \in Tasks, Plain(frame'[u]), frame'[u].pc \notin {"evict", "evicting", "connecting"}
    PROVE  Knows(u)'
BY DEF Knows, At, Evicting

\* A backend that is not touched, nor its entries in the tables.
LEMMA AccountedSame ==
    ASSUME MgrTyped, NEW n \in Names, Accounted(n), Untouched(n), evictedCaps'[n] = evictedCaps[n],
           lastActivity[n] # "none" => lastActivity'[n] # "none", n \in registry' => n \in registry
    PROVE  Accounted(n)'
<1>1. Up(n)' <=> Up(n)
  BY DEF Untouched, Up, IsConnected, MgrTyped, MgrTypeOK
<1> QED
  BY <1>1 DEF Accounted, Untouched

\* A backend after a sync.
LEMMA AccountedSynced ==
    ASSUME NEW n \in Names, UNCHANGED <<connections, state, withTools>>, registry' = Published(evictedCaps'),
           Up(n) /\ connecting'[n] = NoTask => lastActivity'[n] # "none"
    PROVE  Accounted(n)'
<1>1. (Up(n)' <=> Up(n)) /\ (n \in registry' /\ ~Up(n) => evictedCaps'[n] = "tools")
  BY DEF Published, Up, IsConnected
<1> QED
  BY <1>1 DEF Accounted

\* A step of one task that touches no backend.
LEMMA SteadyMove ==
    ASSUME MgrTyped, SteadyInv, NEW t \in Tasks, NEW f, frame' = [frame EXCEPT ![t] = f], Plain(f), OnlyTask(t),
           f.pc \notin {"evict", "evicting", "connecting"},
           UNCHANGED <<state, connections, connecting, evictedCaps, registry, lock>>,
           \A n \in Names : lastActivity[n] # "none" => lastActivity'[n] # "none"
    PROVE  SteadyInv'
<1>0. frame'[t] = f /\ \A u \in Tasks \ {t} : UNCHANGED <<frame[u], job[u]>>
  BY DEF MgrTyped, MgrTypeOK, OnlyTask
<1>1. \A n \in Names : Untouched(n)
  BY DEF Untouched
<1>2. ASSUME NEW u \in Tasks PROVE Knows(u)'
  <2>1. CASE u = t
    BY <1>0, <2>1, KnowsNothing
  <2>2. CASE u # t
    <3>1. frame[u].pc \in {"evict", "evicting", "connecting"} => Aim(u) \in Names
      BY DEF MgrTyped, Shaped, FrameShape, Aim, Evicting
    <3> QED
      BY <1>0, <1>1, <2>2, <3>1, KnowsSame DEF SteadyInv
  <2> QED
    BY <2>1, <2>2
<1>3. OneEviction'
  BY <1>0 DEF SteadyInv, OneEviction, Evicting
<1>4. \A n \in Names : Accounted(n)'
  BY <1>1, AccountedSame DEF SteadyInv
<1> QED
  BY <1>2, <1>3, <1>4 DEF SteadyInv

\* Who works on backend s works on it alone.
LEMMA AimAlone ==
    ASSUME MgrTyped, OneAttempt, SteadyInv, NEW t \in Tasks, NEW u \in Tasks,
           frame[t].pc \in {"evict", "evicting", "connecting"}, frame[u].pc \in {"evict", "evicting", "connecting"},
           Aim(t) = Aim(u)
    PROVE  t = u
<1>0. Aim(t) \in Names
  BY DEF MgrTyped, Shaped, FrameShape, Aim, Evicting
<1>1. ASSUME NEW w \in Tasks, frame[w].pc = "connecting" PROVE connecting[Aim(w)] = w
  BY <1>1 DEF MgrTyped, Shaped, FrameShape, OneAttempt, At, Aim, Evicting
<1>2. ASSUME NEW w \in Tasks, frame[w].pc \in Evicting PROVE connecting[Aim(w)] = NoTask
  BY <1>2 DEF SteadyInv, Knows, Aim
<1> QED
  BY <1>1, <1>2, NullsAssumption DEF SteadyInv, OneEviction, Aim, Evicting

\* A task that works on its backend, and touches no other.
LEMMA SteadyWork ==
    ASSUME MgrTyped, OneAttempt, SteadyInv, NEW t \in Tasks, frame[t].pc \in {"evict", "evicting", "connecting"},
           NEW s \in Names, s = Aim(t), OnlyTask(t), \A u \in Tasks \ {t} : frame'[u] = frame[u],
           frame'[t].pc \in Evicting => frame[t].pc \in Evicting /\ frame'[t].victim = frame[t].victim,
           UNCHANGED <<lock, registry>>,
           \A n \in Names \ {s} : Untouched(n) /\ evictedCaps'[n] = evictedCaps[n] /\ lastActivity'[n] = lastActivity[n],
           Knows(t)', Accounted(s)'
    PROVE  SteadyInv'
<1>0. \A u \in Tasks : frame[u].pc \in {"evict", "evicting", "connecting"} => Aim(u) \in Names
  BY DEF MgrTyped, Shaped, FrameShape, Aim, Evicting
<1>1. ASSUME NEW u \in Tasks PROVE Knows(u)'
  <2>1. CASE u # t
    <3>1. frame[u].pc \in {"evict", "evicting", "connecting"} => Untouched(Aim(u))
      BY <1>0, <2>1, AimAlone
    <3> QED
      BY <2>1, <3>1, KnowsSame DEF OnlyTask, SteadyInv
  <2> QED
    BY <2>1
<1>2. OneEviction'
  BY DEF SteadyInv, OneEviction, Evicting
<1>3. ASSUME NEW n \in Names PROVE Accounted(n)'
  BY AccountedSame DEF SteadyInv
<1> QED
  BY <1>1, <1>2, <1>3 DEF SteadyInv

\* The upstream side of a task.
LEMMA SteadyUpstream ==
    ASSUME Steady, MgrInv, SteadyInv, NEW t \in Tasks, Upstream(t)
    PROVE  SteadyInv'
<1>0. /\ Typed /\ MgrTyped /\ OneAttempt /\ OwnConn /\ Distinct /\ frame[t] \in Frame /\ frame \in [Tasks -> Frame]
      /\ FrameShape(frame[t]) /\ TaskFits(frame[t], job[t]) /\ Knows(t) /\ Plain(frame[t])
      /\ UNCHANGED <<frame, connections, connecting, evictedCaps, registry, lock, lastActivity>>
      /\ state \in [Conns -> ConnectionState]
  BY DEF MgrInv, MgrTyped, MgrTypeOK, Typed, TypeOK, Shaped, SteadyInv, Knows, Upstream, mgrVars
<1>m. job[t].conn \in Conns /\ OnlyTask(t) /\ OnlyConn(job[t].conn) /\ job'[t].conn = job[t].conn
  BY <1>0, UpstreamMoves
<1>1. CASE job[t].op = "call"
  <2>1. frame[t].pc = "calling" /\ UNCHANGED state
    BY <1>0, <1>1, UpstreamMoves DEF TaskFits
  <2>2. frame' = [frame EXCEPT ![t] = frame[t]]
    BY <1>0
  <2> QED
    BY <1>0, <1>m, <2>1, <2>2, SteadyMove
<1>2. CASE job[t].op # "call"
  <2>1. frame[t].pc \in {"connecting", "evicting"}
    BY <1>0, <1>2, UpstreamMoves DEF TaskFits, Plain, MgrInv, Managed
  <2> DEFINE c == job[t].conn
  <2>2. Aim(t) \in Names /\ connections[Aim(t)] = c
    BY <1>0, <2>1 DEF Aim, FrameShape, Knows, At, Evicting
  <2>3. PICK s \in Names : s = Aim(t)
    BY <2>2
  <2>4. \A n \in Names \ {s} : Untouched(n)
    <3> SUFFICES ASSUME NEW n \in Names \ {s} PROVE Untouched(n)
      OBVIOUS
    <3>1. connections[n] \in Conns => connections[n] # c
      BY <1>m, <2>2, <2>3, NullsAssumption, <1>0 DEF Distinct
    <3> QED
      BY <1>0, <1>m, <3>1 DEF Untouched, OnlyConn
  <2>5. CASE frame[t].pc = "connecting"
    <3>1. job[t].op \in {"handshake", "discover"} /\ state[c] = "connecting" /\ connecting[s] = t
      BY <1>0, <1>2, <2>3, <2>5, UpstreamMoves DEF TaskFits, Knows, At, OneAttempt, Aim, Evicting
    <3>2. \/ job'[t].op = "discover" /\ state'[c] = "connecting"
          \/ job'[t].op = "returned" /\ state'[c] = "connected"
          \/ job'[t].op = "raised" /\ state'[c] = "error"
      <4>1. CASE HandshakeDone(t)
        <5>1. job'[t].op = "discover"
          BY <1>0, <4>1 DEF HandshakeDone, Typed, TypeOK, Job
        <5> QED
          BY <3>1, <4>1, <5>1 DEF HandshakeDone
      <4>2. CASE ConnectDone(t) \/ ConnectFailed(t)
        BY <1>0, <1>m, <4>2, FinishAt DEF ConnectDone, ConnectFailed
      <4> QED
        BY <3>1, <4>1, <4>2 DEF Upstream, Steady, CloseDone, DrainLockAcquired, DrainDone, DrainTimeout, CallDone
    <3>3. Knows(t)'
      BY <1>0, <1>m, <2>2, <2>3, <2>5, <3>2 DEF Knows, At, Evicting, Aim
    <3>4. ~Up(s)
      BY <2>2, <2>3, <3>1 DEF Up, IsConnected
    <3>5. Accounted(s)'
      BY <1>0, <3>1, <3>4, NullsAssumption DEF SteadyInv, Accounted
    <3> QED
      BY <1>0, <1>m, <2>1, <2>3, <2>4, <3>3, <3>5, SteadyWork
  <2>6. CASE frame[t].pc = "evicting"
    <3>1. job[t].op \in {"drain_wait", "closing"} /\ state[c] = "draining"
      BY <1>0, <2>6, UpstreamMoves DEF Knows, At
    <3>2. \/ job'[t].op = "closing" /\ state'[c] = "draining"
          \/ job'[t].op = "returned" /\ state'[c] = "disconnected"
      <4>1. CASE CloseDone(t)
        BY <1>0, <1>m, <4>1, FinishAt DEF CloseDone, Disconnected
      <4>2. CASE DrainResumes(t)
        BY <1>0, <1>m, <3>1, <4>2, FinishAt, SuspendAt DEF DrainResumes, Disconnected
      <4> QED
        BY <3>1, <4>1, <4>2 DEF Upstream, HandshakeDone, ConnectDone, ConnectFailed, ConnectAuthRequired,
           DrainLockAcquired, DrainDone, DrainTimeout, CallDone
    <3>3. Knows(t)'
      BY <1>0, <1>m, <2>6, <3>2 DEF Knows, At, Evicting
    <3>4. ~Up(s) /\ ~Up(s)'
      BY <1>0, <2>2, <2>3, <3>1, <3>2 DEF Up, IsConnected
    <3>5. Accounted(s)'
      BY <1>0, <3>4 DEF SteadyInv, Accounted
    <3> QED
      BY <1>0, <1>m, <2>1, <2>3, <2>4, <3>3, <3>5, SteadyWork
  <2> QED
    BY <2>1, <2>5, <2>6
<1> QED
  BY <1>1, <1>2

\* An attempt ends: the backend is up and gets a timestamp, or it is down.
LEMMA SteadyAttemptOver ==
    ASSUME Steady, MgrInv, SteadyInv, NEW t \in Tasks, ConnectSucceeded(t) \/ ConnectErrored(t)
    PROVE  SteadyInv'
<1>0. /\ Typed /\ MgrTyped /\ OneAttempt /\ frame \in [Tasks -> Frame] /\ frame[t] \in Frame
      /\ connecting \in [Names -> Tasks \cup {NoTask}] /\ lastActivity \in [Names -> {"none", "fresh", "stale"}]
      /\ FrameShape(frame[t]) /\ Knows(t) /\ Plain(frame[t]) /\ lock = NoTask
  BY DEF MgrInv, MgrTyped, MgrTypeOK, Shaped, SteadyInv, Knows
<1>1. /\ At(t, "connecting") /\ AttemptEnds(t) /\ UNCHANGED connections
      /\ OnlyTask(t) /\ UNCHANGED <<state, withTools>> /\ registry' = Published(evictedCaps')
  BY <1>0, Collects DEF ConnectSucceeded, ConnectErrored, SyncRegistry
<1>2. PICK s \in Names : s = frame[t].name
  BY <1>0, <1>1 DEF FrameShape, At
<1>3. lock' = NoTask /\ connecting' = [connecting EXCEPT ![s] = NoTask] /\ connecting[s] = t
  BY <1>0, <1>1, <1>2 DEF AttemptEnds, ReleaseLock, OneAttempt
<1>4. ASSUME NEW u \in Tasks PROVE Knows(u)'
  <2>1. CASE u = t
    <3>1. Plain(AfterConnect(t)) /\ AfterConnect(t).pc \notin {"evict", "evicting", "connecting"}
      BY <1>0 DEF AfterConnect, NoFrame, Frame, Plain
    <3> QED
      BY <1>1, <2>1, <3>1, KnowsNothing DEF AttemptEnds
  <2>2. CASE u # t /\ At(u, "joining") /\ frame[u].name = s
    <3>1. frame[u] \in Frame /\ Plain(frame[u])
      BY <1>0 DEF SteadyInv, Knows
    <3>2. /\ Plain([frame[u] EXCEPT !.pc = "joined"])
          /\ [frame[u] EXCEPT !.pc = "joined"].pc \notin {"evict", "evicting", "connecting"}
      BY <3>1 DEF Plain, Frame
    <3> QED
      BY <1>1, <1>2, <2>2, <3>2, KnowsNothing DEF AttemptEnds
  <2>3. CASE u # t /\ ~(At(u, "joining") /\ frame[u].name = s)
    <3>1. UNCHANGED <<frame[u], job[u]>>
      BY <1>1, <1>2, <2>3 DEF AttemptEnds, OnlyTask
    <3>2. frame[u].pc \in {"evict", "evicting", "connecting"} => Aim(u) \in Names /\ Aim(u) # s
      <4>1. frame[u].pc \in {"evict", "evicting", "connecting"} => Aim(u) \in Names
        BY <1>0 DEF MgrTyped, Shaped, FrameShape, Aim, Evicting
      <4>2. Aim(t) = s /\ frame[t].pc = "connecting"
        BY <1>1, <1>2 DEF At, Aim, Evicting
      <4> QED
        BY <1>0, <2>3, <4>1, <4>2, AimAlone
    <3>3. \A n \in Names \ {s} : Untouched(n)
      BY <1>0, <1>1, <1>3 DEF Untouched
    <3> QED
      BY <1>0, <3>1, <3>2, <3>3, KnowsSame DEF SteadyInv
  <2> QED
    BY <2>1, <2>2, <2>3
<1>5. OneEviction'
  BY <1>0, <1>1, AttemptEndsFrames DEF SteadyInv, OneEviction, Evicting
<1>6. ASSUME NEW n \in Names, Up(n), connecting'[n] = NoTask PROVE lastActivity'[n] # "none"
  <2>1. CASE n = s
    <3>1. job[t].op # "raised"
      BY <1>0, <1>1, <1>2, <1>6, <2>1 DEF Knows, At, Up, IsConnected
    <3> QED
      BY <1>0, <1>2, <2>1, <3>1 DEF ConnectSucceeded, ConnectErrored, SeedActivity
  <2>2. CASE n # s
    <3>1. lastActivity'[n] = lastActivity[n]
      BY <1>0, <1>2, <2>2 DEF ConnectSucceeded, ConnectErrored, SeedActivity
    <3> QED
      BY <1>0, <1>3, <1>6, <2>2, <3>1 DEF SteadyInv, Accounted
  <2> QED
    BY <2>1, <2>2
<1>7. \A n \in Names : Accounted(n)'
  BY <1>1, <1>6, AccountedSynced
<1> QED
  BY <1>3, <1>4, <1>5, <1>7 DEF SteadyInv

\* The reaper evicts a backend that is up, listed with its tools, and that
\* nobody else drains.
LEMMA SteadyEvicts ==
    ASSUME Steady, MgrInv, SteadyInv, NEW t \in Tasks, ReaperEvicts(t)
    PROVE  SteadyInv'
<1>n. CASE Return(t) /\ UNCHANGED <<connVars, connections, configured, boot, failed, evictedCaps,
                                    registry, lastActivity, connecting, lock>>
  <2>1. OnlyTask(t) /\ Plain(NoFrame) /\ NoFrame.pc = "idle" /\ MgrTyped
    BY <1>n DEF OnlyTask, connVars, Plain, NoFrame, At, MgrInv
  <2>2. frame' = [frame EXCEPT ![t] = NoFrame]
    BY <1>n DEF Return
  <2> QED
    BY <1>n, <2>1, <2>2, SteadyMove DEF connVars
<1> SUFFICES ASSUME EvictBegin(t, frame[t].victim), Goto(t, "evicting") PROVE SteadyInv'
  BY <1>n DEF ReaperEvicts
<1>0. /\ Typed /\ MgrTyped /\ OneAttempt /\ OwnConn /\ Distinct /\ frame[t] \in Frame /\ frame \in [Tasks -> Frame]
      /\ FrameShape(frame[t]) /\ Knows(t) /\ Plain(frame[t]) /\ IInv
      /\ state \in [Conns -> ConnectionState] /\ evictedCaps \in [Names -> {"absent", "empty", "tools"}]
      /\ drainLock \in [Conns -> Tasks \cup {NoTask}]
  BY DEF MgrInv, MgrTyped, MgrTypeOK, Typed, TypeOK, Shaped, SteadyInv, Knows
<1>1. PICK v \in Names : v = frame[t].victim
  BY <1>0 DEF ReaperEvicts, At, FrameShape
<1>2. At(t, "evict") /\ Up(v) /\ connecting[v] = NoTask /\ frame[t].op = "reap" /\ Aim(t) = v
  BY <1>0, <1>1 DEF ReaperEvicts, Knows, At, Evicting, Aim
<1> DEFINE c == connections[v]
<1>3. c \in Conns /\ state[c] = "connected" /\ EvictBegin(t, v) /\ Goto(t, "evicting")
  BY <1>0, <1>1, <1>2, NamedConn DEF Up, IsConnected
<1>4. OnlyTask(t) /\ OnlyConn(c) /\ job'[t].conn = c
  BY <1>0, <1>3, DrainBegins DEF EvictBegin
<1>5. drainLock[c] = NoTask
  <2> SUFFICES ASSUME NEW u \in Tasks, drainLock[c] = u PROVE FALSE
    BY <1>0, <1>3
  <2>1. job[u].op \in {"drain_wait", "closing"} /\ job[u].conn = c
    BY <1>0, <1>3 DEF IInv, DrainLockHeld
  <2>2. frame[u].pc = "evicting"
    BY <2>1 DEF MgrInv, MgrTyped, Managed, Shaped, TaskFits, SteadyInv, Knows, Plain
  <2>3. frame[u].victim = v
    BY <1>0, <1>3, <2>1, <2>2, NullsAssumption DEF OwnConn, Using, Subject, At
  <2> QED
    BY <1>1, <1>2, <2>2, <2>3 DEF SteadyInv, OneEviction, Evicting, At
<1>6. \/ job'[t].op \in {"drain_wait", "closing"} /\ state'[c] = "draining"
      \/ job'[t].op = "returned" /\ state'[c] = "disconnected"
  BY <1>0, <1>3, <1>5, SuspendAt DEF EvictBegin, DrainAndDisconnect, DrainLocked, DrainWaits, DrainCloses, Disconnected
<1>7. UNCHANGED <<connections, connecting, registry, lastActivity, lock>>
      /\ evictedCaps' = [evictedCaps EXCEPT ![v] = IF c \in withTools THEN "tools" ELSE "empty"]
  BY <1>3 DEF EvictBegin, CacheCaps
<1>8. /\ frame'[t].pc = "evicting" /\ frame'[t].victim = v /\ frame'[t].op = "reap" /\ frame'[t].name = frame[t].name
      /\ \A u \in Tasks \ {t} : frame'[u] = frame[u]
  BY <1>0, <1>1, <1>2, <1>3 DEF Goto, Frame
<1>9. Plain(frame'[t])
  BY <1>0, <1>2, <1>8 DEF Plain, At
<1>10. Knows(t)'
  BY <1>2, <1>4, <1>6, <1>7, <1>8, <1>9 DEF Knows, At, Evicting
<1>11. ASSUME NEW n \in Names \ {v} PROVE Untouched(n) /\ evictedCaps'[n] = evictedCaps[n] /\ lastActivity'[n] = lastActivity[n]
  <2>1. connections[n] \in Conns => connections[n] # c
    BY <1>0, <1>3, NullsAssumption DEF Distinct
  <2> QED
    BY <1>0, <1>4, <1>7, <2>1 DEF Untouched, OnlyConn
<1>12. Accounted(v)'
  <2>1. ~Up(v)'
    BY <1>3, <1>6, <1>7 DEF Up, IsConnected
  <2>2. v \in registry => c \in withTools
    BY <1>2 DEF MgrInv, Synced, Listed, Shows
  <2> QED
    BY <1>0, <1>7, <2>1, <2>2 DEF Accounted
<1> QED
  BY <1>0, <1>1, <1>2, <1>4, <1>7, <1>8, <1>10, <1>11, <1>12, SteadyWork DEF At, Evicting

\* Operations that go on.
LEMMA SteadyContinue ==
    ASSUME Steady, MgrInv, SteadyInv, NEW t \in Tasks, Continue(t)
    PROVE  SteadyInv'
<1>0. /\ Typed /\ MgrTyped /\ OneAttempt /\ frame[t] \in Frame /\ frame \in [Tasks -> Frame]
      /\ FrameShape(frame[t]) /\ TaskFits(frame[t], job[t]) /\ Knows(t) /\ Plain(frame[t]) /\ lock = NoTask
      /\ lastActivity \in [Names -> {"none", "fresh", "stale"}]
  BY DEF MgrInv, MgrTyped, MgrTypeOK, Shaped, SteadyInv, Knows
<1>n. Plain(NoFrame) /\ NoFrame.pc \notin {"evict", "evicting", "connecting"}
  BY DEF NoFrame, Plain
<1>1. CASE Upstream(t)
  BY <1>1, SteadyUpstream
<1>2. CASE ConnectSucceeded(t) \/ ConnectErrored(t)
  BY <1>2, SteadyAttemptOver
<1>3. CASE ConnectExpires(t)
  BY <1>3 DEF ConnectExpires, Steady
<1>4. CASE Joined(t)
  <2>1. Plain(AfterConnect(t)) /\ AfterConnect(t).pc \notin {"evict", "evicting", "connecting"}
    BY <1>0 DEF AfterConnect, NoFrame, Frame, Plain
  <2>2. UNCHANGED <<state, connections, connecting, evictedCaps, registry, lock, lastActivity>> /\ OnlyTask(t)
    BY <1>0, <1>4 DEF Joined, ReleaseLock, connVars, OnlyTask
  <2> QED
    BY <1>0, <1>4, <2>1, <2>2, SteadyMove DEF Joined, SetFrame
<1>5. CASE EvictEnd(t)
  <2>1. frame[t].name = NoName /\ At(t, "evicting") /\ job[t].op = "returned"
    BY <1>0, <1>5 DEF EvictEnd, At, Plain, Ended, TaskFits
  <2>2. PICK v \in Names : v = frame[t].victim
    BY <1>0, <2>1 DEF At, FrameShape
  <2>3. ~Up(v)
    BY <1>0, <2>1, <2>2 DEF Knows, Up, IsConnected
  <2>4. /\ Return(t) /\ OnlyTask(t) /\ UNCHANGED <<state, withTools, connections, connecting, lock>>
        /\ registry' = Published(evictedCaps') /\ lastActivity' = [lastActivity EXCEPT ![v] = "none"]
    BY <1>0, <1>5, <2>1, <2>2, Collects DEF EvictEnd, SyncRegistry, Forget
  <2>5. frame'[t] = NoFrame /\ \A u \in Tasks \ {t} : UNCHANGED <<frame[u], job[u]>>
    BY <1>0, <2>4 DEF Return, OnlyTask
  <2>6. ASSUME NEW u \in Tasks PROVE Knows(u)'
    <3>1. CASE u = t
      BY <1>n, <2>5, <3>1, KnowsNothing
    <3>2. CASE u # t
      BY <1>0, <2>4, <2>5, <3>2, KnowsQuiet DEF SteadyInv
    <3> QED
      BY <3>1, <3>2
  <2>7. OneEviction'
    BY <1>n, <2>5 DEF SteadyInv, OneEviction, Evicting
  <2>8. ASSUME NEW n \in Names PROVE Accounted(n)'
    <3>1. Up(n) /\ connecting'[n] = NoTask => lastActivity'[n] # "none"
      BY <1>0, <2>3, <2>4 DEF SteadyInv, Accounted
    <3> QED
      BY <2>4, <3>1, AccountedSynced
  <2> QED
    BY <1>0, <2>4, <2>6, <2>7, <2>8 DEF SteadyInv
<1>6. CASE ReaperEvicts(t)
  BY <1>6, SteadyEvicts
<1>7. CASE ReconnectClosed(t) \/ RemoveEnd(t) \/ ReplaceDrained(t) \/ ReplaceAdds(t)
  BY <1>0, <1>7 DEF ReconnectClosed, RemoveEnd, ReplaceDrained, ReplaceAdds, At, Plain
<1>8. CASE Dispatch(t)
  <2> DEFINE f == [frame[t] EXCEPT !.pc = "calling"]
  <2>1. Plain(f) /\ f.pc = "calling" /\ frame' = [frame EXCEPT ![t] = f]
    BY <1>0, <1>8 DEF Frame, Dispatch, Goto, Plain
  <2>2. OnlyTask(t) /\ UNCHANGED state
    BY <1>0, <1>8, CallBegins DEF Dispatch, At, FrameShape
  <2> HIDE DEF f
  <2> QED
    BY <1>0, <1>8, <2>1, <2>2, SteadyMove DEF Dispatch
<1>9. CASE RouteEnds(t)
  <2>1. OnlyTask(t) /\ UNCHANGED state
    BY <1>0, <1>9, Collects DEF RouteEnds
  <2>2. \A n \in Names : lastActivity[n] # "none" => lastActivity'[n] # "none"
    BY <1>0, <1>9 DEF RouteEnds, MarkActivity
  <2> QED
    BY <1>0, <1>9, <1>n, <2>1, <2>2, SteadyMove DEF RouteEnds, Return
<1> QED
  BY <1>1, <1>2, <1>3, <1>4, <1>5, <1>6, <1>7, <1>8, <1>9 DEF Continue

\* _connect_timed, for a backend that is down and that nobody evicts.
LEMMA SteadyConnects ==
    ASSUME MgrTyped, OneAttempt, SteadyInv, NEW t \in Tasks, NEW n \in Names, NEW op, op # "remove", ConnectTimed(t, op, n),
           ~Up(n), frame[t].pc = "idle", \A u \in Tasks : frame[u].pc \in Evicting => frame[u].victim # n,
           UNCHANGED <<evictedCaps, registry, lastActivity, lock>>
    PROVE  SteadyInv'
<1>0. /\ frame \in [Tasks -> Frame] /\ connections \in [Names -> Conns \cup {NoConn}]
      /\ connecting \in [Names -> Tasks \cup {NoTask}]
  BY DEF MgrTyped, MgrTypeOK
<1>1. CASE connecting[n] = NoTask
  <2>1. /\ frame'[t] = NewFrame(op, "connecting", n, NoName) /\ \A u \in Tasks \ {t} : UNCHANGED <<frame[u], job[u]>>
        /\ connections'[n] = NewConn /\ connecting'[n] = t /\ state'[NewConn] = "connecting"
        /\ job'[t].op = "handshake" /\ job'[t].conn = NewConn
    BY <1>0, <1>1, ConnectBegins DEF OnlyTask
  <2>2. ASSUME NEW m \in Names \ {n} PROVE Untouched(m)
    <3>1. connections[m] # NewConn /\ connections'[m] = connections[m] /\ connecting'[m] = connecting[m]
      BY <1>0, <1>1, ConnectBegins DEF FreshConn
    <3> QED
      BY <1>1, <3>1, ConnectBegins DEF OnlyConn, Untouched
  <2>3. ASSUME NEW u \in Tasks PROVE Knows(u)'
    <3>1. CASE u = t
      <4>1. frame'[t].pc = "connecting" /\ frame'[t].name = n /\ Plain(frame'[t])
        BY <2>1 DEF NewFrame, Plain
      <4> QED
        BY <2>1, <3>1, <4>1 DEF Knows, At, Evicting
    <3>2. CASE u # t
      <4>1. frame[u].pc \in {"evict", "evicting", "connecting"} => Aim(u) \in Names \ {n}
        BY <1>0, <1>1, NullsAssumption DEF MgrTyped, Shaped, FrameShape, Aim, Evicting, OneAttempt, At
      <4> QED
        BY <2>1, <2>2, <3>2, <4>1, KnowsSame DEF SteadyInv
    <3> QED
      BY <3>1, <3>2
  <2>4. OneEviction'
    BY <2>1 DEF SteadyInv, OneEviction, Evicting, NewFrame
  <2>5. ASSUME NEW m \in Names PROVE Accounted(m)'
    <3>1. CASE m = n
      <4>1. ~Up(n)'
        BY <2>1 DEF Up, IsConnected
      <4> QED
        BY <3>1, <4>1 DEF SteadyInv, Accounted
    <3>2. CASE m # n
      BY <2>2, <3>2, AccountedSame DEF SteadyInv
    <3> QED
      BY <3>1, <3>2
  <2> QED
    BY <2>3, <2>4, <2>5 DEF SteadyInv
<1>2. CASE connecting[n] # NoTask
  <2> DEFINE f == NewFrame(op, "joining", n, NoName)
  <2>1. Plain(f) /\ f.pc = "joining"
    BY DEF NewFrame, Plain
  <2>2. frame' = [frame EXCEPT ![t] = f] /\ OnlyTask(t) /\ UNCHANGED <<state, connections, connecting>>
    BY <1>2, ConnectBegins
  <2> HIDE DEF f
  <2> QED
    BY <2>1, <2>2, SteadyMove
<1> QED
  BY <1>1, <1>2

\* Operations that begin.  They wait until the evictions that are over have
\* forgotten their backends.
LEMMA SteadyStart ==
    ASSUME Steady, MgrInv, SteadyInv, SettledInv, Calm, NEW t \in Tasks, NEW n \in Names, Start(t, n)
    PROVE  SteadyInv'
<1>0. Typed /\ MgrTyped /\ OneAttempt /\ frame \in [Tasks -> Frame] /\ lock = NoTask
  BY DEF MgrInv, MgrTyped, MgrTypeOK, SteadyInv
<1>i. Idle(t) /\ frame[t].pc = "idle"
  BY DEF Start, Boot, Stop, Warm, Reconnect, Route, Add, Remove, Replace, DrainOld, Idle, NoFrame
<1>e. ASSUME NEW u \in Tasks, frame[u].pc \in Evicting, frame[u].victim = n
      PROVE  connections[n] # NoConn /\ state[connections[n]] \in {"connected", "draining"}
  <2>0. Knows(u)
    BY DEF SteadyInv
  <2>1. CASE At(u, "evict")
    BY <1>e, <2>0, <2>1 DEF Knows, Up, IsConnected
  <2>2. CASE At(u, "evicting")
    <3>1. job[u].op # "returned"
      BY <1>0, <2>2 DEF Calm, Running, Ended, At
    <3>2. job[u].conn \in Conns
      BY <1>0, <2>0, <2>2 DEF Knows, Typed, JobShape
    <3> QED
      BY <1>e, <2>0, <2>2, <3>1, <3>2, NullsAssumption DEF Knows
  <2> QED
    BY <1>e, <2>1, <2>2 DEF Evicting, At
<1>1. CASE Boot(t, n)
  <2>1. connections[n] = NoConn /\ ~Up(n)
    BY <1>1 DEF Boot, SettledInv, Unborn, Up
  <2> QED
    BY <1>0, <1>1, <1>e, <1>i, <2>1, SteadyConnects DEF Boot
<1>2. CASE Route(t, n)
  <2>1. ASSUME NEW op \in {"route", "read"},
               SetFrame(t, [NewFrame(op, "gate", n, NoName) EXCEPT !.conn = connections[n]]),
               UNCHANGED <<connVars, connections, connecting, evictedCaps, registry, lock, lastActivity>>
        PROVE  SteadyInv'
    <3> DEFINE f == [NewFrame(op, "gate", n, NoName) EXCEPT !.conn = connections[n]]
    <3>1. Plain(f) /\ f.pc = "gate" /\ frame' = [frame EXCEPT ![t] = f]
      BY <2>1 DEF NewFrame, SetFrame, Plain
    <3>2. OnlyTask(t) /\ UNCHANGED state
      BY <2>1 DEF connVars, OnlyTask
    <3> HIDE DEF f
    <3> QED
      BY <1>0, <2>1, <3>1, <3>2, SteadyMove
  <2>2. ASSUME NEW op \in {"route", "read"}, EnsureConnected(t, op, n),
               connections[n] # NoConn => ~IsDraining(connections[n])
        PROVE  SteadyInv'
    <3>1. ConnectTimed(t, op, n) /\ ~Up(n) /\ UNCHANGED <<evictedCaps, registry, lastActivity, lock>>
      BY <2>2 DEF EnsureConnected, CapReached, Steady
    <3>2. \A u \in Tasks : frame[u].pc \in Evicting => frame[u].victim # n
      BY <1>e, <2>2, <3>1 DEF Up, IsConnected, IsDraining
    <3> QED
      BY <1>0, <1>i, <3>1, <3>2, SteadyConnects
  <2> QED
    BY <1>2, <2>1, <2>2 DEF Route
<1> QED
  BY <1>1, <1>2 DEF Start, Steady, Stop, Warm, Reconnect, Add, Remove, Replace, DrainOld, NoReload

\* A sweep starts one eviction for each backend that is idle, and that nobody
\* is connecting.
LEMMA SteadySweep ==
    ASSUME Steady, MgrInv, SteadyInv, Calm, Sweep
    PROVE  SteadyInv'
<1> DEFINE victims == {n \in Names : Evictable(n)}
<1>0. /\ MgrTyped /\ OneAttempt /\ frame \in [Tasks -> Frame] /\ connecting \in [Names -> Tasks \cup {NoTask}]
      /\ UNCHANGED <<connVars, connections, connecting, evictedCaps, registry, lock, lastActivity>>
  BY DEF MgrInv, MgrTyped, MgrTypeOK, Sweep
<1>1. PICK T \in SUBSET {t \in Tasks : Idle(t)} : \E victim \in Bijection(T, victims) :
          frame' = [t \in Tasks |-> IF t \in T THEN NewFrame("reap", "evict", NoName, victim[t]) ELSE frame[t]]
  BY DEF Sweep
<1>2. PICK victim \in Bijection(T, victims) :
          frame' = [t \in Tasks |-> IF t \in T THEN NewFrame("reap", "evict", NoName, victim[t]) ELSE frame[t]]
  BY <1>1
<1>3. (\A t \in T : victim[t] \in victims) /\ (\A t, u \in T : victim[t] = victim[u] => t = u)
  <2>1. victim \in [T -> victims] /\ IsInjective(victim)
    BY <1>2 DEF Bijection, Injection
  <2> QED
    BY <2>1 DEF IsInjective
<1>4. /\ \A t \in T : frame'[t].pc = "evict" /\ frame'[t].op = "reap" /\ frame'[t].name = NoName /\ frame'[t].victim = victim[t]
      /\ \A t \in Tasks \ T : frame'[t] = frame[t]
  BY <1>1, <1>2 DEF NewFrame
<1>5. \A t \in Tasks : frame[t].pc \notin Evicting
  BY DEF Sweep, SteadyInv, Knows
<1>6. ASSUME NEW t \in Tasks PROVE Knows(t)'
  <2>1. CASE t \in T
    <3>1. PICK v \in Names : v = victim[t] /\ Evictable(v)
      BY <1>3, <2>1
    <3>2. Up(v)
      BY <3>1 DEF Evictable
    <3>3. connecting[v] = NoTask
      <4> SUFFICES ASSUME NEW u \in Tasks, connecting[v] = u PROVE FALSE
        BY <1>0
      <4>1. At(u, "connecting") /\ frame[u].name = v
        BY <1>0 DEF OneAttempt
      <4>2. ~Ended(u)
        BY <4>1 DEF Calm, Running, Steady
      <4>3. state[connections[v]] = "connecting"
        BY <4>1, <4>2 DEF SteadyInv, Knows, Ended
      <4> QED
        BY <3>2, <4>3 DEF Up, IsConnected
    <3>4. Plain(frame'[t])
      BY <1>4, <2>1 DEF Plain
    <3>5. Up(v)' /\ connecting'[v] = NoTask
      BY <1>0, <3>2, <3>3 DEF Up, IsConnected, connVars
    <3> QED
      BY <1>4, <2>1, <3>1, <3>4, <3>5 DEF Knows, At, Evicting
  <2>2. CASE t \notin T
    BY <1>0, <1>4, <2>2, KnowsQuiet DEF SteadyInv, connVars
  <2> QED
    BY <2>1, <2>2
<1>7. OneEviction'
  BY <1>1, <1>3, <1>4, <1>5 DEF OneEviction
<1>8. ASSUME NEW n \in Names PROVE Accounted(n)'
  BY <1>0, AccountedSame DEF SteadyInv, Untouched, connVars
<1> QED
  BY <1>0, <1>6, <1>7, <1>8 DEF SteadyInv

\* Whatever happens in a steady fleet.
LEMMA SteadyStep ==
    ASSUME Steady, MgrInv, SteadyInv, SettledInv, [Next]_vars
    PROVE  SteadyInv'
<1>1. CASE UNCHANGED vars \/ \E n \in Names : Ages(n)
  <2>1. UNCHANGED <<connVars, connections, connecting, evictedCaps, registry, frame, lock>>
    BY <1>1 DEF vars, mgrVars, Ages
  <2>2. \A n \in Names : lastActivity[n] # "none" => lastActivity'[n] # "none"
    BY <1>1 DEF vars, mgrVars, Ages, MgrInv, MgrTyped, MgrTypeOK
  <2>3. \A t \in Tasks : Knows(t)'
    BY <2>1, KnowsQuiet DEF SteadyInv, MgrInv, connVars
  <2>4. \A n \in Names : Accounted(n)'
    BY <2>1, <2>2, AccountedSame DEF SteadyInv, Untouched, MgrInv, connVars
  <2> QED
    BY <2>1, <2>3, <2>4 DEF SteadyInv, OneEviction
<1> QED
  BY <1>1, SteadyContinue, SteadyStart, SteadySweep DEF Next

\* What a steady fleet keeps.
SteadyAll == Fresh /\ OutboundUp /\ Closes /\ Waits /\ SettledInv /\ SteadyInv

\* The invariant of a steady fleet.
THEOREM SteadyInvariant ==
    ASSUME Steady
    PROVE  Spec => [](MgrInv /\ SteadyAll)
<1>s. Settled
  BY DEF Steady, Settled
<1>1. Init => SteadyAll
  <2> SUFFICES ASSUME Init PROVE SteadyAll
    OBVIOUS
  <2>1. Fresh /\ OutboundUp /\ Closes /\ Waits
    BY DEF Init, MgrInit, ConnInit, IdleJob, Fresh, OutboundUp, Closes, Waits
  <2>2. SettledInv
    BY DEF Init, MgrInit, ConnInit, IdleJob, NoFrame, SettledInv, Plain, Unborn, Registered, Kept
  <2>3. SteadyInv
    BY DEF Init, MgrInit, NoFrame, SteadyInv, Knows, Plain, OneEviction, Accounted, Up, At, Evicting
  <2> QED
    BY <2>1, <2>2, <2>3 DEF SteadyAll
<1>2. MgrInv /\ SteadyAll /\ [Next]_vars => SteadyAll'
  <2> SUFFICES ASSUME MgrInv, SteadyAll, [Next]_vars PROVE SteadyAll'
    OBVIOUS
  <2>1. MgrTyped /\ IInv /\ [Uses]_connVars
    BY NextUses DEF MgrInv
  <2> QED
    BY <1>s, <2>1, CleanStep, ClosesStep, SettledStep, SteadyStep DEF Settled, SteadyAll
<1> QED
  BY <1>1, <1>2, ManagerInvariant, PTL DEF Spec

\* CRIT-1: in a steady fleet no live backend is without a timestamp, so the
\* reaper can evict it one day.
THEOREM LiveBackendTracked ==
    ASSUME Steady
    PROVE  Spec => []LiveTracked
<1>1. SteadyAll => LiveTracked
  BY DEF SteadyAll, SteadyInv, Accounted, LiveTracked
<1> QED
  BY <1>1, SteadyInvariant, PTL

\* In a steady fleet the tools of an evicted or unreachable backend stay listed.
THEOREM ToolsStayDiscoverable ==
    ASSUME Steady
    PROVE  Spec => StaysDiscoverable
<1>1. MgrInv /\ SteadyAll /\ [Next]_vars => [\A n \in registry \ registry' : Up(n)' \/ n \notin configured']_vars
  <2> SUFFICES ASSUME MgrInv, SteadyInv, Next, NEW n \in registry \ registry' PROVE Up(n)'
    BY DEF SteadyAll
  <2>0. n \in Names /\ Accounted(n) /\ evictedCaps \in [Names -> {"absent", "empty", "tools"}]
    BY DEF MgrInv, MgrTyped, MgrTypeOK, SteadyInv
  <2>1. PICK t \in Tasks : ConnectSucceeded(t) \/ ConnectErrored(t) \/ EvictEnd(t)
    <3>1. ASSUME NEW t \in Tasks, Continue(t) PROVE ConnectSucceeded(t) \/ ConnectErrored(t) \/ EvictEnd(t)
      <4>1. Plain(frame[t])
        BY DEF SteadyInv, Knows
      <4>2. ~(ReconnectClosed(t) \/ RemoveEnd(t) \/ ReplaceDrained(t) \/ ReplaceAdds(t))
        BY <4>1 DEF ReconnectClosed, RemoveEnd, ReplaceDrained, ReplaceAdds, At, Plain
      <4> QED
        BY <3>1, <4>2 DEF Continue, Upstream, ConnectExpires, Joined, ReaperEvicts, EvictBegin, Dispatch, RouteEnds, mgrVars
    <3>2. ASSUME NEW t \in Tasks, NEW m \in Names, Start(t, m) PROVE FALSE
      BY <3>2 DEF Start, Boot, Stop, Warm, Reconnect, Route, EnsureConnected, EvictBegin, Add, AddServer,
         Remove, Replace, DrainOld
    <3> QED
      BY <3>1, <3>2 DEF Next, Sweep, Ages
  <2>2. Knows(t) /\ Typed /\ frame[t] \in Frame /\ TaskFits(frame[t], job[t]) /\ FrameShape(frame[t])
    BY DEF SteadyInv, MgrInv, MgrTyped, MgrTypeOK, Shaped
  <2>3. UNCHANGED <<connections, state, withTools>> /\ registry' = Published(evictedCaps')
    <3>1. EvictEnd(t) => frame[t].name = NoName
      BY <2>2 DEF EvictEnd, Knows, Plain, At
    <3> QED
      BY <2>1, <2>2, <3>1, Collects DEF ConnectSucceeded, ConnectErrored, EvictEnd, SyncRegistry
  <2>4. Up(n)' <=> Up(n)
    BY <2>3 DEF Up, IsConnected
  <2>5. CASE evictedCaps'[n] = evictedCaps[n]
    BY <2>0, <2>3, <2>4, <2>5 DEF Published, Accounted
  <2>6. CASE ConnectSucceeded(t) /\ frame[t].name = n
    BY <2>2, <2>4, <2>6, NullsAssumption DEF ConnectSucceeded, Knows, Up, IsConnected, At, Typed, JobShape
  <2> QED
    BY <2>0, <2>1, <2>5, <2>6 DEF ConnectSucceeded, ConnectErrored, EvictEnd
<1> QED
  BY <1>1, SteadyInvariant, PTL DEF Spec, StaysDiscoverable


================================================================================
