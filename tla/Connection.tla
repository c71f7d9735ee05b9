------------------------------ MODULE Connection ------------------------------
(***************************************************************************)
(* MCPConnection (federation/connection.py): one upstream MCP server       *)
(* connection, used concurrently by several asyncio tasks.                 *)
(*                                                                         *)
(* asyncio runs one task at a time and switches only at an await that      *)
(* suspends, so an action is the code between two suspension points.  A    *)
(* method that suspends leaves a job in job[t]; the caller goes on when    *)
(* the job is "returned" or "raised".  The specification below is the most *)
(* general client of the class: any task may call any method of any        *)
(* connection at any time.  The modules that compose the class restrict    *)
(* who calls what.                                                         *)
(***************************************************************************)
EXTENDS Naturals, FiniteSets

CONSTANTS
    Conns,      \* identities of MCPConnection objects
    Clients,    \* identities of OutboundClient objects (one per connect attempt)
    Tasks,      \* asyncio tasks
    NoConn, NoClient, NoTask

ASSUME NullsAssumption == NoConn \notin Conns /\ NoClient \notin Clients /\ NoTask \notin Tasks

ASSUME FiniteAssumption == IsFiniteSet(Tasks)

VARIABLES
    state,      \* _state
    outbound,   \* _outbound
    withTools,  \* connections whose _capabilities are not empty
    inFlight,   \* _in_flight
    drainEvent, \* _drain_event: no event, an unset one, a set one
    drainLock,  \* _drain_lock: the task that holds it
    live,       \* clients whose upstream session (subprocess, stream) is open
    job         \* the method each task is suspended in

connVars == <<state, outbound, withTools, inFlight, drainEvent, drainLock, live, job>>

\* The members of the enum that some code path enters.  STARTING,
\* INITIALIZING, READY, DEGRADED and STOPPED are declared and never assigned.
ConnectionState ==
    {"disconnected", "connecting", "connected", "draining", "error",
     "auth_required", "reconnecting", "circuit_open", "failed"}

JobOp ==
    {"idle",        \* not inside a method of a connection
     "handshake",   \* connect(): the SDK client is being opened
     "discover",    \* connect(): the client is open, capabilities are being listed
     "drain_lock",  \* drain_and_disconnect(): waiting for _drain_lock
     "drain_wait",  \* drain_and_disconnect(): waiting for in-flight calls
     "closing",     \* disconnect(): the outbound client is being closed
     "call",        \* _dispatch(): an upstream request is pending
     "returned",    \* the method returned
     "raised"}      \* the method raised

Job == [op : JobOp, conn : Conns \cup {NoConn}, client : Clients \cup {NoClient}]

IdleJob == [op |-> "idle", conn |-> NoConn, client |-> NoClient]

TypeOK ==
    /\ state \in [Conns -> ConnectionState]
    /\ outbound \in [Conns -> Clients \cup {NoClient}]
    /\ withTools \in SUBSET Conns
    /\ inFlight \in [Conns -> Nat]
    /\ drainEvent \in [Conns -> {"none", "unset", "set"}]
    /\ drainLock \in [Conns -> Tasks \cup {NoTask}]
    /\ live \in SUBSET Clients
    /\ job \in [Tasks -> Job]

------------------------------------------------------------------------------
\* Properties of the object that other components read.

IsConnected(c) == state[c] = "connected"
IsDraining(c)  == state[c] = "draining"

Calls(c) == {t \in Tasks : job[t].op = "call" /\ job[t].conn = c}

\* Some task is already inside OutboundClient.disconnect() for this client.
BeingClosed(k) == \E t \in Tasks : job[t].op = "closing" /\ job[t].client = k

\* A client object nobody refers to: the next OutboundClient(config).
FreshClient(k) ==
    /\ k \notin live
    /\ \A c \in Conns : outbound[c] # k
    /\ \A t \in Tasks : job[t].client # k

\* Object identities carry no meaning: any unreferenced one will do.
CanCreateClient == \E k \in Clients : FreshClient(k)
NewClient == CHOOSE k \in Clients : FreshClient(k)

Suspend(t, op, c, k) == job' = [job EXCEPT ![t] = [op |-> op, conn |-> c, client |-> k]]

\* A task that is not suspended in a method may call one; with no await in
\* between, the outcome of the previous method is consumed in the same step.
Free(t) == job[t].op \in {"idle", "returned", "raised"}

\* The job is over; the task still knows which connection it was for.
Finish(t, how) == job' = [job EXCEPT ![t] = [@ EXCEPT !.op = how, !.client = NoClient]]

------------------------------------------------------------------------------
\* connect()

\* MCPConnection(config): nobody else knows the object yet.
Unused(c) == outbound[c] = NoClient /\ \A t \in Tasks : job[t].conn # c

\* Construction followed by connect(), as the manager does for every attempt.
ConnectNew(t, c) ==
    /\ Free(t)
    /\ Unused(c)
    /\ CanCreateClient
    /\ Suspend(t, "handshake", c, NewClient)
    /\ state' = [state EXCEPT ![c] = "connecting"]
    /\ withTools' = withTools \ {c}
    /\ inFlight' = [inFlight EXCEPT ![c] = 0]
    /\ drainEvent' = [drainEvent EXCEPT ![c] = "none"]
    /\ drainLock' = [drainLock EXCEPT ![c] = NoTask]
    /\ UNCHANGED <<outbound, live>>

\* Entry: CONNECTING, a new OutboundClient, and the await of its connect().
Connect(t, c) ==
    /\ Free(t)
    /\ state[c] # "connected"
    /\ CanCreateClient
    /\ Suspend(t, "handshake", c, NewClient)
    /\ state' = [state EXCEPT ![c] = "connecting"]
    /\ UNCHANGED <<outbound, withTools, inFlight, drainEvent, drainLock, live>>

\* Early return when the connection is already up.
ConnectNoop(t, c) ==
    /\ Free(t)
    /\ state[c] = "connected"
    /\ Suspend(t, "returned", c, NoClient)
    /\ UNCHANGED <<state, outbound, withTools, inFlight, drainEvent, drainLock, live>>

\* The SDK client has been entered: subprocess or stream is up.
HandshakeDone(t) ==
    /\ job[t].op = "handshake"
    /\ job' = [job EXCEPT ![t].op = "discover"]
    /\ live' = live \cup {job[t].client}
    /\ UNCHANGED <<state, outbound, withTools, inFlight, drainEvent, drainLock>>

\* Discovery over (its errors are swallowed, leaving an empty tool list):
\* the client becomes the connection's outbound, CONNECTED.
ConnectDone(t) ==
    LET c == job[t].conn IN
    /\ job[t].op = "discover"
    /\ outbound' = [outbound EXCEPT ![c] = job[t].client]
    /\ \E tools \in {{}, {c}} : withTools' = (withTools \ {c}) \cup tools
    /\ state' = [state EXCEPT ![c] = "connected"]
    /\ Finish(t, "returned")
    /\ UNCHANGED <<inFlight, drainEvent, drainLock, live>>

\* OAuthAuthRequiredError is a normal return in AUTH_REQUIRED.
ConnectAuthRequired(t) ==
    LET c == job[t].conn IN
    /\ job[t].op = "handshake"
    /\ state' = [state EXCEPT ![c] = "auth_required"]
    /\ Finish(t, "returned")
    /\ UNCHANGED <<outbound, withTools, inFlight, drainEvent, drainLock, live>>

\* ConnectionError, or any other exception turned into one.
ConnectFailed(t) ==
    LET c == job[t].conn IN
    /\ job[t].op = "handshake"
    /\ state' = [state EXCEPT ![c] = "error"]
    /\ Finish(t, "raised")
    /\ UNCHANGED <<outbound, withTools, inFlight, drainEvent, drainLock, live>>

\* CancelledError (a wait_for timeout, a cancelled task) passes through
\* connect() uncaught: the state stays CONNECTING, and a client that was
\* already open is referenced only by the frame that just died.
ConnectCancelled(t) ==
    /\ job[t].op \in {"handshake", "discover"}
    /\ Finish(t, "raised")
    /\ UNCHANGED <<state, outbound, withTools, inFlight, drainEvent, drainLock, live>>

\* The same cancellation followed by the disconnect() that _connect_timed
\* issues on a timeout; without an outbound it closes nothing.
ConnectTimedOut(t) ==
    LET c == job[t].conn IN
    /\ job[t].op \in {"handshake", "discover"}
    /\ outbound[c] = NoClient
    /\ state' = [state EXCEPT ![c] = "disconnected"]
    /\ Finish(t, "raised")
    /\ UNCHANGED <<outbound, withTools, inFlight, drainEvent, drainLock, live>>

------------------------------------------------------------------------------
\* disconnect()

\* Mutant: the transition is skipped on a draining connection.
DisconnectedKeepsDraining(c) ==
    /\ outbound' = [outbound EXCEPT ![c] = NoClient]
    /\ state' = [state EXCEPT ![c] = IF @ = "draining" THEN @ ELSE "disconnected"]

\* The tail of disconnect(), always one step: no outbound, DISCONNECTED.
Disconnected(c) ==
    /\ outbound' = [outbound EXCEPT ![c] = NoClient]
    /\ state' = [state EXCEPT ![c] = "disconnected"]

\* disconnect() suspends only to close an outbound that nobody closes yet
\* (the exit stack of a client being closed is already empty).
MustClose(c) == outbound[c] # NoClient /\ ~BeingClosed(outbound[c])

Disconnect(t, c) ==
    /\ Free(t)
    /\ \/ /\ MustClose(c)
          /\ Suspend(t, "closing", c, outbound[c])
          /\ UNCHANGED <<outbound, state>>
       \/ /\ ~MustClose(c)
          /\ Disconnected(c)
          /\ Suspend(t, "returned", c, NoClient)
    /\ UNCHANGED <<withTools, inFlight, drainEvent, drainLock, live>>

\* The client is closed; a drain gives its lock back.
CloseDone(t) ==
    LET c == job[t].conn IN
    /\ job[t].op = "closing"
    /\ live' = live \ {job[t].client}
    /\ Disconnected(c)
    /\ drainLock' = [drainLock EXCEPT ![c] = IF @ = t THEN NoTask ELSE @]
    /\ Finish(t, "returned")
    /\ UNCHANGED <<withTools, inFlight, drainEvent>>

------------------------------------------------------------------------------
\* drain_and_disconnect()

\* With the lock: mark DRAINING and wait for the calls in flight ...
DrainWaits(t, c) ==
    /\ state[c] \in {"connected", "draining"}
    /\ inFlight[c] > 0
    /\ state' = [state EXCEPT ![c] = "draining"]
    /\ drainEvent' = [drainEvent EXCEPT ![c] = "unset"]
    /\ drainLock' = [drainLock EXCEPT ![c] = t]
    /\ Suspend(t, "drain_wait", c, NoClient)
    /\ UNCHANGED outbound

\* ... or, with none (or on a connection that is not up), disconnect at once.
DrainCloses(t, c) ==
    /\ state[c] \in {"connected", "draining"} => inFlight[c] = 0
    /\ \/ /\ MustClose(c)
          /\ state' = [state EXCEPT ![c] = IF @ = "connected" THEN "draining" ELSE @]
          /\ drainLock' = [drainLock EXCEPT ![c] = t]
          /\ Suspend(t, "closing", c, outbound[c])
          /\ UNCHANGED outbound
       \/ /\ ~MustClose(c)
          /\ Disconnected(c)
          /\ drainLock' = [drainLock EXCEPT ![c] = NoTask]
          /\ Suspend(t, "returned", c, NoClient)
    /\ UNCHANGED drainEvent

DrainLocked(t, c) ==
    /\ drainLock[c] = NoTask
    /\ DrainWaits(t, c) \/ DrainCloses(t, c)

DrainAndDisconnect(t, c) ==
    /\ Free(t)
    /\ \/ DrainLocked(t, c)
       \/ /\ drainLock[c] # NoTask
          /\ Suspend(t, "drain_lock", c, NoClient)
          /\ UNCHANGED <<state, outbound, drainEvent, drainLock>>
    /\ UNCHANGED <<withTools, inFlight, live>>

DrainLockAcquired(t) ==
    /\ job[t].op = "drain_lock"
    /\ DrainLocked(t, job[t].conn)
    /\ UNCHANGED <<withTools, inFlight, live>>

\* The wait is over, by the event or by the drain timeout: disconnect().
DrainResumes(t) ==
    LET c == job[t].conn IN
    /\ \/ /\ MustClose(c)
          /\ Suspend(t, "closing", c, outbound[c])
          /\ UNCHANGED <<state, outbound, drainLock>>
       \/ /\ ~MustClose(c)
          /\ Disconnected(c)
          /\ drainLock' = [drainLock EXCEPT ![c] = NoTask]
          /\ Finish(t, "returned")
    /\ UNCHANGED <<withTools, inFlight, drainEvent, live>>

DrainDone(t) ==
    /\ job[t].op = "drain_wait"
    /\ drainEvent[job[t].conn] = "set"
    /\ DrainResumes(t)

DrainTimeout(t) ==
    /\ job[t].op = "drain_wait"
    /\ DrainResumes(t)

\* The draining task is cancelled (reaper shutdown): the lock is released by
\* its async with, the connection stays DRAINING.
DrainCancelled(t) ==
    LET c == job[t].conn IN
    /\ job[t].op \in {"drain_lock", "drain_wait"}
    /\ drainLock' = [drainLock EXCEPT ![c] = IF @ = t THEN NoTask ELSE @]
    /\ Finish(t, "raised")
    /\ UNCHANGED <<state, outbound, withTools, inFlight, drainEvent, live>>

------------------------------------------------------------------------------
\* call_tool(), call_tool_streaming(), read_resource(), get_prompt()

\* Mutant: calls are admitted during a drain.
CallableDraining(c) == outbound[c] # NoClient

\* _check_callable()
Callable(c) == state[c] # "draining" /\ outbound[c] # NoClient

\* _check_callable() raises, or the outbound client is being closed.
CallRejected(t, c) ==
    /\ Free(t)
    /\ ~Callable(c) \/ BeingClosed(outbound[c])
    /\ Suspend(t, "raised", c, NoClient)
    /\ UNCHANGED <<state, outbound, withTools, inFlight, drainEvent, drainLock, live>>

\* _dispatch(): count the call, then await the upstream answer.
Call(t, c) ==
    /\ Free(t)
    /\ Callable(c)
    /\ ~BeingClosed(outbound[c])
    /\ inFlight' = [inFlight EXCEPT ![c] = @ + 1]
    /\ Suspend(t, "call", c, outbound[c])
    /\ UNCHANGED <<state, outbound, withTools, drainEvent, drainLock, live>>

\* Mutant: the counter is tested before it is decremented.
CallDoneTestsEarly(t) ==
    LET c == job[t].conn IN
    /\ job[t].op = "call"
    /\ inFlight' = [inFlight EXCEPT ![c] = @ - 1]
    /\ drainEvent' = [drainEvent EXCEPT ![c] =
                        IF inFlight[c] = 0 /\ @ # "none" THEN "set" ELSE @]
    /\ \E how \in {"returned", "raised"} : Finish(t, how)
    /\ UNCHANGED <<state, outbound, withTools, drainLock, live>>

\* The answer, an error, a timeout or a cancellation: the finally block of
\* _dispatch runs in every case.
CallDone(t) ==
    LET c == job[t].conn IN
    /\ job[t].op = "call"
    /\ inFlight' = [inFlight EXCEPT ![c] = @ - 1]
    /\ drainEvent' = [drainEvent EXCEPT ![c] =
                        IF inFlight[c] = 1 /\ @ # "none" THEN "set" ELSE @]
    /\ \E how \in {"returned", "raised"} : Finish(t, how)
    /\ UNCHANGED <<state, outbound, withTools, drainLock, live>>

------------------------------------------------------------------------------
\* The upstream process dies or the stream breaks.  No code of the hub runs:
\* the connection keeps its state and its outbound client.
UpstreamDies(k) ==
    /\ k \in live
    /\ live' = live \ {k}
    /\ UNCHANGED <<state, outbound, withTools, inFlight, drainEvent, drainLock, job>>

\* The caller has consumed the outcome of the method.
Collect(t) ==
    /\ job[t].op \in {"returned", "raised"}
    /\ job' = [job EXCEPT ![t] = IdleJob]
    /\ UNCHANGED <<state, outbound, withTools, inFlight, drainEvent, drainLock, live>>

\* What a suspended method does next, whoever called it, unless a timeout or
\* a cancellation comes first.
JobStep(t) ==
    \/ HandshakeDone(t)
    \/ ConnectDone(t)
    \/ ConnectAuthRequired(t)
    \/ ConnectFailed(t)
    \/ CloseDone(t)
    \/ DrainLockAcquired(t)
    \/ DrainDone(t)
    \/ CallDone(t)

Begin(t, c) ==
    \/ ConnectNew(t, c)
    \/ Connect(t, c)
    \/ ConnectNoop(t, c)
    \/ Disconnect(t, c)
    \/ DrainAndDisconnect(t, c)
    \/ CallRejected(t, c)
    \/ Call(t, c)

\* Supervisor hooks enter_reconnecting, enter_circuit_open and mark_failed:
\* a bare _transition.
Hook(c, to) ==
    /\ state' = [state EXCEPT ![c] = to]
    /\ UNCHANGED <<outbound, withTools, inFlight, drainEvent, drainLock, live, job>>

ConnInit ==
    /\ state = [c \in Conns |-> "disconnected"]
    /\ outbound = [c \in Conns |-> NoClient]
    /\ withTools = {}
    /\ inFlight = [c \in Conns |-> 0]
    /\ drainEvent = [c \in Conns |-> "none"]
    /\ drainLock = [c \in Conns |-> NoTask]
    /\ live = {}
    /\ job = [t \in Tasks |-> IdleJob]

ConnNext ==
    \/ \E t \in Tasks : JobStep(t) \/ ConnectCancelled(t) \/ ConnectTimedOut(t)
                        \/ DrainTimeout(t) \/ DrainCancelled(t) \/ Collect(t)
    \/ \E k \in Clients : UpstreamDies(k)
    \/ \E t \in Tasks, c \in Conns : Begin(t, c)
    \/ \E c \in Conns, to \in {"reconnecting", "circuit_open", "failed"} : Hook(c, to)

ConnSpec == ConnInit /\ [][ConnNext]_connVars

------------------------------------------------------------------------------
\* Properties

\* _in_flight is exactly the number of dispatched calls that have not ended,
\* whatever drains, disconnects, reconnects and cancellations interleave
\* with them (_dispatch, connection.py).
InFlightCounts == \A c \in Conns : inFlight[c] = Cardinality(Calls(c))

\* CONNECTED and DRAINING are never reported without an outbound client: the
\* router's is_connected test is enough to dispatch on the connection.
UpHasOutbound ==
    \A c \in Conns : state[c] \in {"connected", "draining"} => outbound[c] # NoClient

\* _drain_lock admits one drain at a time and is never left behind: whoever
\* holds it is inside the locked region of drain_and_disconnect, and a task
\* waiting for in-flight calls holds it.
DrainLockHeld ==
    /\ \A t \in Tasks : job[t].op = "drain_wait" => drainLock[job[t].conn] = t
    /\ \A c \in Conns, t \in Tasks :
          drainLock[c] = t => job[t].op \in {"drain_wait", "closing"} /\ job[t].conn = c

\* No lost wake-up: a drain still waiting on _drain_event when the last call
\* has ended finds its event set (not one replaced by another drain).
NoLostWakeup ==
    \A t \in Tasks :
        LET c == job[t].conn IN
        job[t].op = "drain_wait" =>
            /\ drainEvent[c] # "none"
            /\ inFlight[c] = 0 => drainEvent[c] = "set"

==============================================================================
