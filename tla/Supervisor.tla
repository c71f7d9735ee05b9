------------------------------ MODULE Supervisor ------------------------------
(***************************************************************************)
(* Supervised reconnects (resilience/supervisor.py), the coordinator that  *)
(* starts supervisors (federation/manager_retry.py), fast_retry_failed and *)
(* disconnect_all (federation/manager.py), added to ConnectionManager.     *)
(*                                                                         *)
(* Every backend has one task for its supervisor: frame[SupTask[n]] is the *)
(* place in _supervised_loop and the connection object it owns, which is   *)
(* not always the one registered under the name.  Backoff delays take any  *)
(* time; the counters stop at the value the code compares them with.       *)
(***************************************************************************)
EXTENDS ConnectionManager

CONSTANTS
    SupTask,          \* the task of each backend's supervisor
    FailureThreshold, \* failure_threshold
    EscalationAfter,  \* escalation_after
    FastRetries       \* length of _FAST_RETRY_DELAYS_S

ASSUME SupervisorAssumption ==
    /\ SupTask \in Injection(Names, Tasks)
    /\ FailureThreshold \in Nat \ {0}
    /\ EscalationAfter \in Nat \ {0}
    /\ FastRetries \in Nat \ {0}

VARIABLES
    phase,        \* of the hub: start-up, with or without a coordinator, shutdown
    health,       \* counters of each supervisor
    dropped,      \* supervisors whose _drop_event is set
    retriesLeft,  \* fast_retry_failed: passes left
    retryNames    \* ... and servers left in this pass

supVars == <<phase, health, dropped, retriesLeft, retryNames>>

allVars == <<vars, supVars>>

Health == [failures : 0..FailureThreshold, breaker : BOOLEAN,
           cycles : 0..EscalationAfter, attention : BOOLEAN]

Healthy == [failures |-> 0, breaker |-> FALSE, cycles |-> 0, attention |-> FALSE]

SupTypeOK ==
    /\ MgrTypeOK
    /\ phase \in {"boot", "plain", "supervised", "stopping", "down"}
    /\ health \in [Names -> Health]
    /\ dropped \in SUBSET Names
    /\ retriesLeft \in 0..FastRetries
    /\ retryNames \in SUBSET Names

Owned == {SupTask[n] : n \in Names}

Sup(n) == frame[SupTask[n]]

SupFrame(n, pc, c) == [NewFrame("supervise", pc, n, NoName) EXCEPT !.conn = c]

\* _supervisors has an entry for the backend; its task is not done.
Exists(n) == Sup(n).pc # "idle"
Active(n) == Sup(n).pc \in {"start", "attempt", "backoff", "watch", "auth"}

\* Tasks that go on without a suspension, as in ConnectionManager.
Resumed(t) ==
    \/ Running(t)
    \/ At(t, "attempt") /\ Ended(t)
    \/ At(t, "next")
    \/ At(t, "dropping") /\ job[t].op # "closing" /\ lock = NoTask

Still == \A t \in Tasks : ~Resumed(t)

Min2(a, b) == IF a <= b THEN a ELSE b

------------------------------------------------------------------------------
\* _supervised_loop()

\* Mutant: nobody subscribes to the connection.
NothingNoticed == UNCHANGED dropped

\* _capture_event: the connection left CONNECTED, whoever moved it.
Noticed ==
    dropped' = dropped \cup {n \in Names : /\ Active(n)
                                           /\ IsConnected(Sup(n).conn)
                                           /\ state'[Sup(n).conn] # "connected"}

\* Mutant: a failed attempt ends the retries.
MayLoopNoRetry(n) == Sup(n).pc = "start" \/ (Sup(n).pc = "watch" /\ n \in dropped)

\* start() was called, the backoff is over (_interruptible_sleep), or the drop
\* event woke _wait_for_drop_or_stop.
MayLoop(n) == Sup(n).pc \in {"start", "backoff"} \/ (Sup(n).pc = "watch" /\ n \in dropped)

\* The head of the loop: a new drop event and connect(), which returns at once
\* on a connection that is up.
LoopTop(n) ==
    LET s == SupTask[n] IN
    /\ MayLoop(n)
    /\ dropped' = dropped \ {n}
    /\ Connect(s, Sup(n).conn) \/ ConnectNoop(s, Sup(n).conn)
    /\ Goto(s, "attempt")
    /\ UNCHANGED <<connections, configured, boot, failed, evictedCaps, registry, lastActivity,
                   connecting, lock, phase, health, retriesLeft, retryNames>>

\* connect() returned: CONNECTED resets the counters and waits for a drop,
\* AUTH_REQUIRED waits for stop().
Attempted(n) ==
    LET s == SupTask[n] IN
    /\ At(s, "attempt")
    /\ job[s].op = "returned"
    /\ Collect(s)
    /\ \/ /\ IsConnected(Sup(n).conn)
          /\ health' = [health EXCEPT ![n] = [Healthy EXCEPT !.cycles = health[n].cycles]]
          /\ Goto(s, "watch")
       \/ /\ state[Sup(n).conn] = "auth_required"
          /\ Goto(s, "auth")
          /\ UNCHANGED health
    /\ UNCHANGED <<connections, configured, boot, failed, evictedCaps, registry, lastActivity,
                   connecting, lock, phase, dropped, retriesLeft, retryNames>>

\* Mutant: the breaker opens one failure late.
CountedLate(h) ==
    LET failures == Min2(h.failures + 1, FailureThreshold)
        open     == h.breaker \/ h.failures >= FailureThreshold
        cycles   == IF open THEN Min2(h.cycles + 1, EscalationAfter) ELSE h.cycles
    IN  [failures |-> failures, breaker |-> open, cycles |-> cycles,
         attention |-> h.attention \/ (open /\ cycles >= EscalationAfter)]

\* One more transient failure: the breaker opens at the threshold, every
\* failed probe of an open breaker is another cycle.
Counted(h) ==
    LET failures == Min2(h.failures + 1, FailureThreshold)
        open     == h.breaker \/ failures >= FailureThreshold
        cycles   == IF open THEN Min2(h.cycles + 1, EscalationAfter) ELSE h.cycles
    IN  [failures |-> failures, breaker |-> open, cycles |-> cycles,
         attention |-> h.attention \/ (open /\ cycles >= EscalationAfter)]

\* connect() raised: a terminal failure marks the connection FAILED and ends
\* the supervisor, any other one backs off.
AttemptFailed(n) ==
    LET s == SupTask[n]
        Hooked(to, pc) == state' = [state EXCEPT ![Sup(n).conn] = to] /\ Goto(s, pc) IN
    /\ At(s, "attempt")
    /\ job[s].op = "raised"
    /\ job' = [job EXCEPT ![s] = IdleJob]
    /\ \/ "terminal" \in Ops /\ Hooked("failed", "done") /\ UNCHANGED health
       \/ /\ health' = [health EXCEPT ![n] = Counted(@)]
          /\ Hooked(IF health'[n].breaker THEN "circuit_open" ELSE "reconnecting", "backoff")
    /\ UNCHANGED <<outbound, withTools, inFlight, drainEvent, drainLock, live,
                   connections, configured, boot, failed, evictedCaps, registry, lastActivity,
                   connecting, lock, phase, dropped, retriesLeft, retryNames>>

SupStep(n) == LoopTop(n) \/ Attempted(n) \/ AttemptFailed(n)

------------------------------------------------------------------------------
\* start_retry_loop, supervisor_fleet_coordinator and ensure_supervisors

\* The end of connect_all: a coordinator if something failed, and then the
\* cold-start retries in the same background task.
BootEnds ==
    /\ phase = "boot"
    /\ boot = {} /\ \A t \in Tasks : frame[t].op # "boot"
    /\ phase' = IF failed = {} THEN "plain" ELSE "supervised"
    /\ IF failed = {} \/ "fast_retry" \notin Ops THEN UNCHANGED frame
       ELSE \E t \in Tasks \ Owned : Idle(t) /\ SetFrame(t, NewFrame("retry", "asleep", NoName, NoName))
    /\ UNCHANGED <<connVars, connections, configured, boot, failed, evictedCaps, registry,
                   lastActivity, connecting, lock, health, dropped, retriesLeft, retryNames>>

\* Mutant: no churn guard.
UnsupervisedAll == {n \in configured : ~Active(n)}

Unsupervised ==
    {n \in configured : /\ ~Active(n)
                        /\ connections[n] # NoConn => state[connections[n]] # "failed"}

\* Mutant: recovered backends are not published.
PublishNothing(recovered) == UNCHANGED registry

PublishRecovered(recovered) ==
    IF recovered = {} THEN UNCHANGED registry ELSE SyncRegistry(evictedCaps)

\* One tick of the coordinator: recovered backends leave _failed, backends
\* without a supervisor get one, on the registered connection or on a new one.
Coordinate ==
    LET recovered == {n \in failed : Exists(n) /\ IsConnected(Sup(n).conn)}
        unnamed   == {n \in Unsupervised : connections[n] = NoConn}
        objects   == Injection(unnamed, {c \in Conns : FreshConn(c)})
        new       == CHOOSE f \in objects : TRUE
        Of(n)     == IF n \in unnamed THEN new[n] ELSE connections[n]
    IN
    /\ phase = "supervised"
    /\ recovered # {} \/ Unsupervised # {}
    /\ objects # {}
    /\ failed' = failed \ recovered
    /\ PublishRecovered(recovered)
    /\ connections' = [n \in Names |-> Of(n)]
    /\ frame' = [t \in Tasks |->
                   IF t \in {SupTask[n] : n \in Unsupervised}
                   THEN SupFrame(frame[t].name, "start", Of(frame[t].name))
                   ELSE frame[t]]
    /\ health' = [n \in Names |-> IF n \in Unsupervised THEN Healthy ELSE health[n]]
    /\ dropped' = dropped \ Unsupervised
    /\ state' = [c \in Conns |-> IF c \in Range(new) THEN "disconnected" ELSE state[c]]
    /\ withTools' = withTools \ Range(new)
    /\ inFlight' = [c \in Conns |-> IF c \in Range(new) THEN 0 ELSE inFlight[c]]
    /\ drainEvent' = [c \in Conns |-> IF c \in Range(new) THEN "none" ELSE drainEvent[c]]
    /\ drainLock' = [c \in Conns |-> IF c \in Range(new) THEN NoTask ELSE drainLock[c]]
    /\ UNCHANGED <<outbound, live, job, configured, boot, evictedCaps, lastActivity,
                   connecting, lock, phase, retriesLeft, retryNames>>

------------------------------------------------------------------------------
\* fast_retry_failed()

\* The sleep is over: the servers that are failed now.
RetryPass(t) ==
    /\ At(t, "asleep")
    /\ retryNames' = failed
    /\ retriesLeft' = retriesLeft - 1
    /\ Goto(t, "next")
    /\ UNCHANGED <<connVars, connections, configured, boot, failed, evictedCaps, registry,
                   lastActivity, connecting, lock, phase, health, dropped>>

\* The next server: its connection is dropped from the table and closed ...
RetryNext(t) ==
    /\ At(t, "next")
    /\ \E n \in retryNames \cap configured :
          LET old == connections[n] IN
          /\ retryNames' = retryNames \ {n}
          /\ connections' = [connections EXCEPT ![n] = NoConn]
          /\ IF old = NoConn THEN UNCHANGED connVars ELSE Disconnect(t, old)
          /\ SetFrame(t, NewFrame("retry", "dropping", n, NoName))
    /\ Noticed
    /\ UNCHANGED <<configured, boot, failed, evictedCaps, registry, lastActivity,
                   connecting, lock, phase, health, retriesLeft>>

\* ... and connected again under _lock.
RetryConnects(t) ==
    /\ At(t, "dropping")
    /\ Free(t)
    /\ lock = NoTask
    /\ lock' = t
    /\ ConnectTimed(t, "retry", frame[t].name)
    /\ UNCHANGED <<configured, boot, failed, evictedCaps, registry, lastActivity,
                   phase, health, dropped, retriesLeft, retryNames>>

\* Mutant: the schedule of delays never ends.
RetryPassEndsNever(t) ==
    /\ At(t, "next")
    /\ retryNames \cap configured = {}
    /\ retryNames' = {}
    /\ IF failed = {} THEN Return(t) ELSE Goto(t, "asleep")
    /\ UNCHANGED <<connVars, connections, configured, boot, failed, evictedCaps, registry,
                   lastActivity, connecting, lock, phase, health, dropped, retriesLeft>>

\* The pass is over, and the last one when nothing is failed any more.
RetryPassEnds(t) ==
    /\ At(t, "next")
    /\ retryNames \cap configured = {}
    /\ retryNames' = {}
    /\ IF retriesLeft = 0 \/ failed = {} THEN Return(t) ELSE Goto(t, "asleep")
    /\ UNCHANGED <<connVars, connections, configured, boot, failed, evictedCaps, registry,
                   lastActivity, connecting, lock, phase, health, dropped, retriesLeft>>

RetryStep(t) == RetryPass(t) \/ RetryNext(t) \/ RetryConnects(t) \/ RetryPassEnds(t)

------------------------------------------------------------------------------
\* disconnect_all(), called when the server has stopped: no request is being
\* served, start-up is over and no sweep of the reaper is under way.

Shutdown(t) ==
    /\ "shutdown" \in Ops
    /\ phase \in {"plain", "supervised"}
    /\ t \notin Owned
    /\ \A u \in Tasks \ Owned : Idle(u)
    /\ phase' = "stopping"
    /\ SetFrame(t, NewFrame("shutdown", "stopping", NoName, NoName))
    /\ UNCHANGED <<connVars, connections, configured, boot, failed, evictedCaps, registry,
                   lastActivity, connecting, lock, health, dropped, retriesLeft, retryNames>>

\* stop() of one supervisor: its task is cancelled wherever it waits.
StopSupervisor(t, n) ==
    /\ At(t, "stopping")
    /\ Active(n)
    /\ frame' = [frame EXCEPT ![SupTask[n]].pc = "done"]
    /\ IF job[SupTask[n]].op = "idle" THEN UNCHANGED connVars ELSE ConnectCancelled(SupTask[n])
    /\ UNCHANGED <<connections, configured, boot, failed, evictedCaps, registry, lastActivity,
                   connecting, lock, phase, health, dropped, retriesLeft, retryNames>>

\* Mutant: the connections are closed first.
MayDisconnectEarly(t) == At(t, "stopping")

\* All supervisors are stopped before the first connection is closed.
MayDisconnect(t) == At(t, "stopping") /\ \A n \in Names : ~Active(n)

\* _disconnect_one of a connection that is not closed yet.
ShutdownCloses(t, n) ==
    /\ MayDisconnect(t) \/ At(t, "disconnecting")
    /\ Free(t)
    /\ connections[n] # NoConn
    /\ state[connections[n]] # "disconnected"
    /\ Disconnect(t, connections[n])
    /\ Goto(t, "disconnecting")
    /\ Noticed
    /\ UNCHANGED <<connections, configured, boot, failed, evictedCaps, registry, lastActivity,
                   connecting, lock, phase, health, retriesLeft, retryNames>>

\* All closed: the tables are emptied.
ShutdownEnds(t) ==
    /\ MayDisconnect(t) \/ At(t, "disconnecting")
    /\ Free(t)
    /\ \A n \in Names : connections[n] # NoConn => state[connections[n]] = "disconnected"
    /\ phase' = "down"
    /\ connections' = [n \in Names |-> NoConn]
    /\ failed' = {}
    /\ evictedCaps' = [n \in Names |-> "absent"]
    /\ registry' = {}
    /\ frame' = [u \in Tasks |-> IF u = t THEN NoFrame ELSE frame[u]]
    /\ job' = [job EXCEPT ![t] = IdleJob]
    /\ UNCHANGED <<state, outbound, withTools, inFlight, drainEvent, drainLock, live,
                   configured, boot, lastActivity, connecting, lock, health, dropped,
                   retriesLeft, retryNames>>

ShutdownStep(t) ==
    \/ \E n \in Names : StopSupervisor(t, n) \/ ShutdownCloses(t, n)
    \/ ShutdownEnds(t)

------------------------------------------------------------------------------
SupInit ==
    /\ MgrInit
    /\ frame = [t \in Tasks |->
                  IF t \in Owned THEN SupFrame(CHOOSE n \in Names : SupTask[n] = t, "idle", NoConn)
                  ELSE NoFrame]
    /\ phase = "boot"
    /\ health = [n \in Names |-> Healthy]
    /\ dropped = {}
    /\ retriesLeft = FastRetries
    /\ retryNames = {}

Serving == phase \in {"boot", "plain", "supervised"}

\* Steps of the manager, seen by the subscribed supervisors.
ManagerContinues(t) ==
    /\ Continue(t)
    /\ Noticed
    /\ UNCHANGED <<phase, health, retriesLeft, retryNames>>

ManagerStarts ==
    /\ Serving
    /\ \/ \E t \in Tasks \ Owned, n \in Names : Start(t, n)
       \/ phase # "boot" /\ Sweep
       \/ \E n \in Names : Ages(n)
    /\ Noticed
    /\ UNCHANGED <<phase, health, retriesLeft, retryNames>>

TaskStep(t) == ManagerContinues(t) \/ RetryStep(t) \/ ShutdownStep(t)

SupNext ==
    \/ \E t \in Tasks : (Resumed(t) \/ Still) /\ TaskStep(t)
    \/ \E n \in Names : (Resumed(SupTask[n]) \/ Still) /\ SupStep(n)
    \/ Still /\ (ManagerStarts \/ BootEnds \/ Coordinate \/ \E t \in Tasks : Shutdown(t))

SupSpec == SupInit /\ [][SupNext]_allVars

\* As in ConnectionManager; backoffs, the ticks of the coordinator and the
\* delays of the retries are timers, which expire.
SupFairness ==
    /\ \A t \in Tasks : SF_allVars((Resumed(t) \/ Still) /\ ~InCall(t) /\ TaskStep(t))
    /\ \A n \in Names : SF_allVars((Resumed(SupTask[n]) \/ Still) /\ SupStep(n))
    /\ SF_allVars(Still /\ BootEnds)
    /\ SF_allVars(Still /\ Coordinate)

FairSupSpec == SupSpec /\ SupFairness

------------------------------------------------------------------------------
\* Properties

\* A supervisor never sleeps on a connection that is down: whoever took the
\* connection out of CONNECTED, before or after the supervisor began to wait,
\* its drop event is set.
DropNoticed ==
    \A n \in Names : Sup(n).pc = "watch" /\ ~IsConnected(Sup(n).conn) => n \in dropped

\* The breaker is open exactly from the failure_threshold-th failure in a row
\* to the next success, an alert is raised only with an open breaker, and
\* CIRCUIT_OPEN is never shown without one.
BreakerConsistent ==
    \A n \in Names :
        LET h == health[n] IN
        /\ h.breaker <=> h.failures = FailureThreshold
        /\ h.attention => h.breaker /\ h.cycles = EscalationAfter
        /\ Sup(n).pc = "watch" => h.failures = 0
        /\ Active(n) /\ state[Sup(n).conn] = "circuit_open" => h.breaker

\* W1-P3: a connection that failed for good has no running supervisor, neither
\* the one that marked it nor one the coordinator adds later.
FailedNotChurned ==
    \A n \in Names : Exists(n) /\ state[Sup(n).conn] = "failed" => ~Active(n)

\* After disconnect_all nothing is connected or being connected: no supervisor
\* brings a connection back that has been closed.
ShutdownQuiet ==
    phase = "down" =>
        /\ \A n \in Names : ~Active(n)
        /\ \A c \in Conns : state[c] \notin {"connected", "draining"}

\* Under a coordinator no configured backend stays down without anybody
\* trying: again and again it is up, being tried, failed for good, or waiting
\* for a login.
NeverAbandoned ==
    \A n \in Names :
        []<>(\/ phase # "supervised"
             \/ Up(n)
             \/ At(SupTask[n], "attempt")
             \/ Sup(n).pc = "auth" \/ state[connections[n]] = "failed"
             \/ PoolsExhausted)

\* A backend that recovers leaves _failed, and what it offers is published.
RecoveryPublished ==
    \A n \in Names :
        [](phase = "supervised" /\ Up(n) /\ n \in failed
             => <>(\/ n \notin failed /\ (connections[n] \in withTools => n \in registry)
                   \/ ~Up(n)
                   \/ phase # "supervised"))

\* manager.py, remove_server: "Drain in-flight calls then disconnect and
\* deregister a server."  Nothing is connected for a server that was removed
\* and is not being added again.
RemovedStaysDown ==
    \A n \in Names \ configured :
        Exists(n) /\ (\A t \in Tasks \ Owned : Idle(t)) => ~IsConnected(Sup(n).conn)

==============================================================================
