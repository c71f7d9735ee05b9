-------------------------- MODULE ConnectionManager --------------------------
(***************************************************************************)
(* ConnectionManager (federation/manager.py) with the IdleReaper           *)
(* (federation/eviction.py), the LRU cap (federation/lru.py), the          *)
(* per-backend gate (federation/concurrency.py) and the routing of calls   *)
(* (federation/router.py), over the connections of module Connection.      *)
(*                                                                         *)
(* A task runs one operation of the manager at a time: frame[t] is its     *)
(* stack (operation, program counter, backend, the backend being evicted   *)
(* on its behalf, the connection it has captured).  An action is the code  *)
(* between two awaits that suspend; Running keeps the tasks that have not  *)
(* reached one ahead of all others.                                        *)
(*                                                                         *)
(* Supervisors, fast_retry_failed and disconnect_all are added by module   *)
(* Supervisor.  On its own this module is the fleet of a hub whose initial *)
(* connects all succeeded, where no supervisor is ever started.            *)
(***************************************************************************)
EXTENDS Connection, Functions

CONSTANTS
    Names,          \* server names
    NoName,
    Lazy,           \* spawn == "lazy"
    Pinned,         \* is_pinned
    MaxLive,        \* max_live_backends, 0 = no cap
    MaxConcurrency, \* slots of the per-backend CapacityLimiter
    Ops             \* the entry points and faults that occur in this instance

ASSUME ManagerAssumption ==
    /\ NoName \notin Names
    /\ Lazy \subseteq Names
    /\ Pinned \subseteq Names
    /\ MaxLive \in Nat
    /\ MaxConcurrency \in Nat \ {0}

VARIABLES
    connections,   \* _connections
    configured,    \* names in _config.mcp_servers
    boot,          \* backends connect_all has not come to yet
    failed,        \* names in _failed
    evictedCaps,   \* _evicted_caps: absent, or a copy, empty or with tools
    registry,      \* servers whose capabilities the registry lists
    lastActivity,  \* reaper._last_activity: absent, within or beyond the TTL
    connecting,    \* _connect_events: the task whose attempt is under way
    lock,          \* _lock
    frame          \* the operation each task is in

mgrVars == <<connections, configured, boot, failed, evictedCaps, registry,
             lastActivity, connecting, lock, frame>>

vars == <<connVars, mgrVars>>

Frame == [op : {"none", "boot", "route", "read", "warm", "reconnect", "stop", "reap",
                "add", "remove", "replace", "retry", "supervise", "shutdown"},
          pc : {"idle", "evict", "evicting", "connecting", "joining", "joined",
                "gate", "calling", "closing", "draining", "add",
                "asleep", "next", "dropping",                     \* retry
                "start", "attempt", "backoff", "watch", "auth", "done", \* supervise
                "stopping", "disconnecting"},                     \* shutdown
          name : Names \cup {NoName},
          victim : Names \cup {NoName},
          conn : Conns \cup {NoConn}]

NoFrame == [op |-> "none", pc |-> "idle", name |-> NoName, victim |-> NoName, conn |-> NoConn]

MgrTypeOK ==
    /\ TypeOK
    /\ connections \in [Names -> Conns \cup {NoConn}]
    /\ configured \in SUBSET Names
    /\ boot \in SUBSET Names
    /\ failed \in SUBSET Names
    /\ evictedCaps \in [Names -> {"absent", "empty", "tools"}]
    /\ registry \in SUBSET Names
    /\ lastActivity \in [Names -> {"none", "fresh", "stale"}]
    /\ connecting \in [Names -> Tasks \cup {NoTask}]
    /\ lock \in Tasks \cup {NoTask}
    /\ frame \in [Tasks -> Frame]

------------------------------------------------------------------------------
\* State formulas

Up(n) == connections[n] # NoConn /\ IsConnected(connections[n])

\* mark_activity(), seed_activity() (which keeps a timestamp that is there)
\* and forget() of the reaper.
MarkActivity(n) == lastActivity' = [lastActivity EXCEPT ![n] = "fresh"]

\* Mutant: a connect that nobody routes to leaves no timestamp.
SeedNothing(n) == UNCHANGED lastActivity

SeedActivity(n) ==
    lastActivity' = [lastActivity EXCEPT ![n] = IF @ = "none" THEN "fresh" ELSE @]

Forget(n) == lastActivity' = [lastActivity EXCEPT ![n] = "none"]

\* What _sync_registry() publishes: the capabilities of the live backends,
\* and the cached ones of the evicted backends that are not live.
Published(caps) ==
    {n \in Names : IF Up(n) THEN connections[n] \in withTools ELSE caps[n] = "tools"}

\* Mutant: servers that are gone are not deregistered.
SyncAddsOnly(caps) == registry' = registry \cup Published(caps)

SyncRegistry(caps) == registry' = Published(caps)

At(t, pc) == frame[t].pc = pc

Ended(t) == job[t].op \in {"returned", "raised"}

Idle(t) == frame[t] = NoFrame /\ job[t].op = "idle"

\* The awaited method has ended and nothing suspends the task before its next
\* step.  (Python 3.11 runs wait_for(connect()) in a task of its own, so that
\* _connect_timed is resumed in a later turn; newer versions run it inline.)
Running(t) ==
    \/ Ended(t) /\ At(t, "connecting") /\ "python311" \notin Ops
    \/ Ended(t) /\ frame[t].pc \in {"calling", "closing"}
    \/ At(t, "gate") /\ frame[t].op = "read"
    \/ Ended(t) /\ frame[t].pc \in {"evicting", "draining"} /\ lock = NoTask
    \/ At(t, "add") /\ lock = NoTask

Calm == \A t \in Tasks : ~Running(t)

MayRun(t) == Running(t) \/ Calm

NewFrame(op, pc, n, v) ==
    [op |-> op, pc |-> pc, name |-> n, victim |-> v, conn |-> NoConn]

SetFrame(t, f) == frame' = [frame EXCEPT ![t] = f]

Goto(t, pc) == frame' = [frame EXCEPT ![t].pc = pc]

Return(t) == frame' = [frame EXCEPT ![t] = NoFrame]

\* An MCPConnection object nobody refers to any more.
FreshConn(c) ==
    /\ Unused(c)
    /\ \A n \in Names : connections[n] # c
    /\ \A t \in Tasks : frame[t].conn # c

NewConn == CHOOSE c \in Conns : FreshConn(c)

------------------------------------------------------------------------------
\* _connect_timed(server_config)

\* Mutant: no gate.
ConnectTimedUngated(t, op, n) ==
    /\ \E c \in Conns : FreshConn(c)
    /\ ConnectNew(t, NewConn)
    /\ connections' = [connections EXCEPT ![n] = NewConn]
    /\ connecting' = [connecting EXCEPT ![n] = t]
    /\ SetFrame(t, NewFrame(op, "connecting", n, NoName))

\* W2-P1 gate, then a new connection object and its connect(); a second
\* caller for the same backend joins the first one's attempt.
ConnectTimed(t, op, n) ==
    \/ /\ connecting[n] = NoTask
       /\ \E c \in Conns : FreshConn(c)
       /\ ConnectNew(t, NewConn)
       /\ connections' = [connections EXCEPT ![n] = NewConn]
       /\ connecting' = [connecting EXCEPT ![n] = t]
       /\ SetFrame(t, NewFrame(op, "connecting", n, NoName))
    \/ /\ connecting[n] # NoTask
       /\ job' = [job EXCEPT ![t] = IdleJob]
       /\ SetFrame(t, NewFrame(op, "joining", n, NoName))
       /\ UNCHANGED <<state, outbound, withTools, inFlight, drainEvent, drainLock,
                      live, connections, connecting>>

\* What the caller does when _connect_timed has returned: the router goes on
\* with a live connection, fast_retry_failed with its next server, every other
\* operation is over.
AfterConnect(t) ==
    LET n == frame[t].name IN
    CASE frame[t].op \in {"route", "read"} /\ Up(n) ->
            [frame[t] EXCEPT !.pc = "gate", !.conn = connections[n]]
      [] frame[t].op = "retry" -> [frame[t] EXCEPT !.pc = "next"]
      [] OTHER -> NoFrame

\* add_server and fast_retry_failed leave their async with.
ReleaseLock(t) == lock' = IF lock = t THEN NoTask ELSE lock

\* Mutant: the event is dropped without being set.
AttemptEndsUnset(t) ==
    /\ connecting' = [connecting EXCEPT ![frame[t].name] = NoTask]
    /\ SetFrame(t, AfterConnect(t))
    /\ ReleaseLock(t)

\* connect_done.set(): whoever joined this attempt is scheduled.
AttemptEnds(t) ==
    LET n == frame[t].name IN
    /\ connecting' = [connecting EXCEPT ![n] = NoTask]
    /\ frame' = [u \in Tasks |->
                   IF u = t THEN AfterConnect(t)
                   ELSE IF At(u, "joining") /\ frame[u].name = n
                        THEN [frame[u] EXCEPT !.pc = "joined"]
                        ELSE frame[u]]
    /\ ReleaseLock(t)

\* conn.connect() returned (CONNECTED or AUTH_REQUIRED alike).
ConnectSucceeded(t) ==
    LET n    == frame[t].name
        caps == [evictedCaps EXCEPT ![n] = "absent"] IN
    /\ At(t, "connecting")
    /\ job[t].op = "returned"
    /\ failed' = failed \ {n}
    /\ evictedCaps' = caps
    /\ SeedActivity(n)
    /\ SyncRegistry(caps)
    /\ AttemptEnds(t)
    /\ Collect(t)
    /\ UNCHANGED <<connections, configured, boot>>

\* conn.connect() raised, or timed out (ConnectExpires).
ConnectErrored(t) ==
    /\ At(t, "connecting")
    /\ job[t].op = "raised"
    /\ failed' = failed \cup {frame[t].name}
    /\ SyncRegistry(evictedCaps)
    /\ AttemptEnds(t)
    /\ Collect(t)
    /\ UNCHANGED <<connections, configured, boot, evictedCaps, lastActivity>>

\* wait_for(conn.connect(), 60 s) expires, with the disconnect() that follows.
ConnectExpires(t) ==
    /\ "timeout" \in Ops
    /\ At(t, "connecting")
    /\ frame[t].op = "boot" => "boot_fail" \in Ops
    /\ ConnectTimedOut(t)
    /\ UNCHANGED mgrVars

\* A task that joined the attempt of another one is resumed.
Joined(t) ==
    /\ At(t, "joined")
    /\ SetFrame(t, AfterConnect(t))
    /\ ReleaseLock(t)
    /\ UNCHANGED <<connVars, connections, configured, boot, failed, evictedCaps,
                   registry, lastActivity, connecting>>

\* connect_all(): one _connect_timed per enabled server, as the semaphore lets
\* them through.
Boot(t, n) ==
    /\ Idle(t)
    /\ n \in boot
    /\ boot' = boot \ {n}
    /\ ConnectTimed(t, "boot", n)
    /\ UNCHANGED <<configured, failed, evictedCaps, registry, lastActivity, lock>>

------------------------------------------------------------------------------
\* evict(name)

\* Mutant: nothing is cached.
CacheNothing(v) == UNCHANGED evictedCaps

CacheCaps(v) ==
    evictedCaps' = [evictedCaps EXCEPT ![v] = IF connections[v] \in withTools THEN "tools" ELSE "empty"]

IsPinned(n) == n \in configured \cap Pinned

\* Mutant: evict() takes a pinned backend down.
EvictBeginPinned(t, v) ==
    LET c == connections[v] IN
    /\ c # NoConn
    /\ CacheCaps(v)
    /\ DrainAndDisconnect(t, c)
    /\ UNCHANGED <<connections, configured, boot, failed, registry, lastActivity,
                   connecting, lock>>

\* Up to the await of drain_and_disconnect: a pinned backend is left alone,
\* then the capabilities are cached.
EvictBegin(t, v) ==
    LET c == connections[v] IN
    /\ ~IsPinned(v)
    /\ c # NoConn
    /\ CacheCaps(v)
    /\ DrainAndDisconnect(t, c)
    /\ UNCHANGED <<connections, configured, boot, failed, registry, lastActivity,
                   connecting, lock>>

\* The rest, under _lock: forget the activity, sync the registry.  An
\* eviction for the LRU cap goes on with the connect it makes room for.
EvictEnd(t) ==
    /\ At(t, "evicting")
    /\ Ended(t)
    /\ lock = NoTask
    /\ Forget(frame[t].victim)
    /\ SyncRegistry(evictedCaps)
    /\ \/ /\ frame[t].name = NoName
          /\ Collect(t)
          /\ Return(t)
          /\ UNCHANGED <<connections, connecting>>
       \/ /\ frame[t].name # NoName
          /\ ConnectTimed(t, frame[t].op, frame[t].name)
    /\ UNCHANGED <<configured, boot, failed, evictedCaps, lock>>

\* POST /servers/{name}/stop: evict() whatever the backend's state.
Stop(t, n) ==
    /\ "stop" \in Ops
    /\ Idle(t)
    /\ EvictBegin(t, n)
    /\ SetFrame(t, NewFrame("stop", "evicting", NoName, n))

\* The eligibility tests of _check_and_evict.
Evictable(n) ==
    /\ n \in configured \cap Lazy
    /\ n \notin Pinned
    /\ Up(n)
    /\ inFlight[connections[n]] = 0
    /\ lastActivity[n] = "stale"

\* One sweep of the reaper, which connect_all starts at its end.  gather()
\* wraps each evict(name) in a task that starts in a later turn of the loop;
\* the next sweep waits for all of them.
Sweep ==
    LET victims == {n \in Names : Evictable(n)} IN
    /\ "reap" \in Ops
    /\ boot = {} /\ \A t \in Tasks : frame[t].op # "boot"
    /\ victims # {}
    /\ \A t \in Tasks : frame[t].op # "reap"
    /\ \E T \in SUBSET {t \in Tasks : Idle(t)} : \E victim \in Bijection(T, victims) :
          frame' = [t \in Tasks |-> IF t \in T THEN NewFrame("reap", "evict", NoName, victim[t])
                                    ELSE frame[t]]
    /\ UNCHANGED <<connVars, connections, configured, boot, failed, evictedCaps,
                   registry, lastActivity, connecting, lock>>

ReaperEvicts(t) ==
    /\ At(t, "evict")
    /\ \/ EvictBegin(t, frame[t].victim) /\ Goto(t, "evicting")
       \/ /\ connections[frame[t].victim] = NoConn \/ IsPinned(frame[t].victim)
          /\ Return(t)
          /\ UNCHANGED <<connVars, connections, configured, boot, failed, evictedCaps,
                         registry, lastActivity, connecting, lock>>

\* The idle time of a backend passes idle_ttl_seconds.
Ages(n) ==
    /\ "reap" \in Ops
    /\ lastActivity[n] = "fresh"
    /\ lastActivity' = [lastActivity EXCEPT ![n] = "stale"]
    /\ UNCHANGED <<connVars, connections, configured, boot, failed, evictedCaps,
                   registry, connecting, lock, frame>>

------------------------------------------------------------------------------
\* ensure_connected(name) and _apply_lru_cap(name)

LiveOthers(n) == {m \in Names : m # n /\ Up(m) /\ ~IsPinned(m)}

\* select_lru_victim: an untracked backend is older than any tracked one.
Age(n) == CASE lastActivity[n] = "none" -> 0
            [] lastActivity[n] = "stale" -> 1
            [] lastActivity[n] = "fresh" -> 2

LRUVictims(n) == {v \in LiveOthers(n) : \A w \in LiveOthers(n) : Age(v) <= Age(w)}

CapReached(n) ==
    /\ MaxLive # 0
    /\ n \notin Pinned
    /\ Cardinality(LiveOthers(n)) >= MaxLive

\* A victim that evict() refuses does not stop the connect.
EnsureConnected(t, op, n) ==
    /\ ~Up(n)
    /\ n \in configured
    /\ \/ /\ CapReached(n) => \E v \in LRUVictims(n) : IsPinned(v)
          /\ ConnectTimed(t, op, n)
          /\ UNCHANGED <<configured, boot, failed, evictedCaps, registry, lastActivity, lock>>
       \/ /\ CapReached(n)
          /\ \E v \in LRUVictims(n) :
                EvictBegin(t, v) /\ SetFrame(t, NewFrame(op, "evicting", n, v))

\* POST /servers/{name}/warm
Warm(t, n) ==
    /\ "warm" \in Ops
    /\ Idle(t)
    /\ EnsureConnected(t, "warm", n)

\* POST /servers/{name}/reconnect: a live connection is closed first, without
\* a drain; any other is simply replaced.
Reconnect(t, n) ==
    /\ "reconnect" \in Ops
    /\ Idle(t)
    /\ n \in configured
    /\ \/ /\ Up(n)
          /\ Disconnect(t, connections[n])
          /\ SetFrame(t, NewFrame("reconnect", "closing", n, NoName))
          /\ UNCHANGED <<connections, connecting>>
       \/ /\ ~Up(n)
          /\ ConnectTimed(t, "reconnect", n)
    /\ UNCHANGED <<configured, boot, failed, evictedCaps, registry, lastActivity, lock>>

ReconnectClosed(t) ==
    /\ At(t, "closing")
    /\ Ended(t)
    /\ ConnectTimed(t, "reconnect", frame[t].name)
    /\ UNCHANGED <<configured, boot, failed, evictedCaps, registry, lastActivity, lock>>

------------------------------------------------------------------------------
\* Routing: a registered capability, dispatched on a live connection or on the
\* one a reconnect brings back.  A draining backend and an unknown one are
\* refused without any effect.  "route" stands for route_tool_call and
\* route_streaming_call, "read" for route_resource_read and route_prompt_get,
\* which do not pass the gate.
Route(t, n) ==
    /\ Idle(t)
    /\ n \in registry
    /\ \E op \in {"route", "read"} \cap Ops :
          \/ /\ Up(n)
             /\ SetFrame(t, [NewFrame(op, "gate", n, NoName) EXCEPT !.conn = connections[n]])
             /\ UNCHANGED <<connVars, connections, configured, boot, failed, evictedCaps,
                            registry, lastActivity, connecting, lock>>
          \/ /\ connections[n] # NoConn => ~IsDraining(connections[n])
             /\ EnsureConnected(t, op, n)

InUse(n) == Cardinality({u \in Tasks : frame[u].op = "route" /\ At(u, "calling") /\ frame[u].name = n})

\* _dispatch_call: a slot of the backend's limiter, then the call on the
\* connection captured before the wait for it.
Dispatch(t) ==
    LET n == frame[t].name IN
    /\ At(t, "gate")
    /\ frame[t].op = "route" => InUse(n) < MaxConcurrency
    /\ Call(t, frame[t].conn) \/ CallRejected(t, frame[t].conn)
    /\ Goto(t, "calling")
    /\ UNCHANGED <<connections, configured, boot, failed, evictedCaps, registry,
                   lastActivity, connecting, lock>>

\* The finally block: activity is marked on success, error and cancellation.
RouteEnds(t) ==
    /\ At(t, "calling")
    /\ Collect(t)
    /\ MarkActivity(frame[t].name)
    /\ Return(t)
    /\ UNCHANGED <<connections, configured, boot, failed, evictedCaps, registry,
                   connecting, lock>>

------------------------------------------------------------------------------
\* Configuration reload: add_server, remove_server, replace_server.  The
\* reloader's _reload_lock lets one of them run at a time.

NoReload == "reload" \in Ops /\ \A u \in Tasks : frame[u].op \notin {"add", "remove", "replace"}

\* add_server under _lock, held until its _connect_timed has returned.
AddServer(t, op, n) ==
    /\ lock = NoTask
    /\ \/ /\ Up(n)
          /\ Return(t)
          /\ UNCHANGED <<connVars, connections, connecting, configured, lock>>
       \/ /\ ~Up(n)
          /\ configured' = configured \cup {n}
          /\ lock' = t
          /\ ConnectTimed(t, op, n)
    /\ UNCHANGED <<boot, failed, evictedCaps, registry, lastActivity>>

Add(t, n) == Idle(t) /\ NoReload /\ n \notin configured /\ AddServer(t, "add", n)

\* Mutant: the drain runs with _lock held.
DrainOldLocked(t, op, n) ==
    /\ Idle(t)
    /\ NoReload
    /\ n \in configured
    /\ connections[n] # NoConn
    /\ lock = NoTask
    /\ lock' = t
    /\ DrainAndDisconnect(t, connections[n])
    /\ SetFrame(t, NewFrame(op, "draining", n, NoName))
    /\ UNCHANGED <<connections, configured, boot, failed, evictedCaps, registry,
                   lastActivity, connecting>>

\* remove_server and replace_server drain the current connection outside _lock.
DrainOld(t, op, n) ==
    /\ Idle(t)
    /\ NoReload
    /\ n \in configured
    /\ connections[n] # NoConn
    /\ DrainAndDisconnect(t, connections[n])
    /\ SetFrame(t, NewFrame(op, "draining", n, NoName))
    /\ UNCHANGED <<connections, configured, boot, failed, evictedCaps, registry,
                   lastActivity, connecting, lock>>

Remove(t, n) == DrainOld(t, "remove", n)

\* Under _lock: every trace of the name goes, then the registry is synced.
RemoveEnd(t) ==
    LET n    == frame[t].name
        caps == [evictedCaps EXCEPT ![n] = "absent"] IN
    /\ frame[t].op = "remove"
    /\ Ended(t)
    /\ lock = NoTask
    /\ connections' = [connections EXCEPT ![n] = NoConn]
    /\ failed' = failed \ {n}
    /\ evictedCaps' = caps
    /\ Forget(n)
    /\ configured' = configured \ {n}
    /\ registry' = Published(caps) \ {n}
    /\ Collect(t)
    /\ Return(t)
    /\ UNCHANGED <<boot, connecting, lock>>

Replace(t, n) ==
    \/ DrainOld(t, "replace", n)
    \/ /\ Idle(t)
       /\ NoReload
       /\ n \in configured
       /\ connections[n] = NoConn
       /\ AddServer(t, "replace", n)

\* Under _lock: the old connection is dropped; add_server follows.
ReplaceDrained(t) ==
    LET n == frame[t].name IN
    /\ frame[t].op = "replace"
    /\ At(t, "draining")
    /\ Ended(t)
    /\ lock = NoTask
    /\ connections' = [connections EXCEPT ![n] = NoConn]
    /\ failed' = failed \ {n}
    /\ Collect(t)
    /\ Goto(t, "add")
    /\ UNCHANGED <<configured, boot, evictedCaps, registry, lastActivity, connecting, lock>>

ReplaceAdds(t) == At(t, "add") /\ AddServer(t, "replace", frame[t].name)

------------------------------------------------------------------------------
\* The upstream side of a suspended method.  Failures, of connect_all too, and
\* the OAuth and drain-timeout outcomes are faults to be listed in Ops.
Upstream(t) ==
    /\ \/ HandshakeDone(t)
       \/ ConnectDone(t)
       \/ CloseDone(t)
       \/ DrainLockAcquired(t)
       \/ DrainDone(t)
       \/ CallDone(t)
       \/ "fail" \in Ops /\ (frame[t].op = "boot" => "boot_fail" \in Ops) /\ ConnectFailed(t)
       \/ "auth" \in Ops /\ (frame[t].op = "boot" => "boot_fail" \in Ops) /\ ConnectAuthRequired(t)
       \/ "drain_timeout" \in Ops /\ DrainTimeout(t)
    /\ UNCHANGED mgrVars

Continue(t) ==
    \/ Upstream(t)
    \/ ConnectSucceeded(t)
    \/ ConnectErrored(t)
    \/ ConnectExpires(t)
    \/ Joined(t)
    \/ EvictEnd(t)
    \/ ReaperEvicts(t)
    \/ ReconnectClosed(t)
    \/ Dispatch(t)
    \/ RouteEnds(t)
    \/ RemoveEnd(t)
    \/ ReplaceDrained(t)
    \/ ReplaceAdds(t)

Start(t, n) ==
    \/ Boot(t, n)
    \/ Stop(t, n)
    \/ Warm(t, n)
    \/ Reconnect(t, n)
    \/ Route(t, n)
    \/ Add(t, n)
    \/ Remove(t, n)
    \/ Replace(t, n)

\* Everything but the tasks, to which module Supervisor adds its own.
MgrInit ==
    /\ ConnInit
    /\ connections = [n \in Names |-> NoConn]
    /\ configured = Names
    /\ boot = Names
    /\ failed = {}
    /\ evictedCaps = [n \in Names |-> "absent"]
    /\ registry = {}
    /\ lastActivity = [n \in Names |-> "none"]
    /\ connecting = [n \in Names |-> NoTask]
    /\ lock = NoTask

Init == MgrInit /\ frame = [t \in Tasks |-> NoFrame]

Next ==
    \/ \E t \in Tasks : MayRun(t) /\ Continue(t)
    \/ Calm /\ \E t \in Tasks, n \in Names : Start(t, n)
    \/ Calm /\ Sweep
    \/ Calm /\ \E n \in Names : Ages(n)

Spec == Init /\ [][Next]_vars

\* Every suspended method is resumed but a call: connects have a timeout, a
\* drain is bounded, a call waits for its backend as long as it takes (the
\* timeout that router and connection are given is never set on a read).  The
\* event loop runs its ready tasks in order, and asyncio.Lock and
\* CapacityLimiter serve their waiters in order: a task that may go on again
\* and again does go on, whoever runs in between.
InCall(t) == job[t].op = "call"

Fairness == \A t \in Tasks : SF_vars(MayRun(t) /\ ~InCall(t) /\ Continue(t))

FairSpec == Spec /\ Fairness

------------------------------------------------------------------------------
\* Properties

\* W2-P1: at most one connection attempt per backend is under way, and its
\* event is in _connect_events exactly as long as the attempt runs, so no
\* joiner waits for an event nobody will set.
OneAttempt ==
    /\ \A n \in Names, t \in Tasks :
          connecting[n] = t <=> At(t, "connecting") /\ frame[t].name = n
    /\ \A t \in Tasks : At(t, "joining") => connecting[frame[t].name] # NoTask

\* Clients some part of the hub can still close: the outbound of a registered
\* connection, or a client in the hands of a task.
Reachable ==
    {outbound[connections[n]] : n \in {m \in Names : connections[m] # NoConn}}
        \cup {job[t].client : t \in Tasks}

\* Every open upstream session (subprocess, HTTP session) can still be closed:
\* connects, evictions and replacements never lose the last reference to one.
NoOrphan == live \subseteq Reachable

\* An upstream session is never closed under a running call: the drain of an
\* eviction, a removal or a replacement waits for the calls that are in
\* flight, and no call slips in between the drain and the close.
NoCallCut == \A t \in Tasks : job[t].op = "closing" => inFlight[job[t].conn] = 0

\* Whenever no connect, eviction or reload is under way, the registry lists
\* what the live and the evicted backends offer.
RegistryCurrent ==
    (\A t \in Tasks : frame[t].op \in {"none", "route", "read"} /\ frame[t].pc \in {"idle", "gate", "calling"})
        => registry = Published(evictedCaps)

\* The tools of a backend leave the registry only because the backend is live
\* again with another list, or was removed: evicted and unreachable backends
\* stay discoverable.
StaysDiscoverable ==
    [][\A n \in registry \ registry' : Up(n)' \/ n \notin configured']_vars

\* CRIT-1: a live backend has an activity timestamp, so the reaper can evict
\* it one day.
LiveTracked ==
    \A n \in Names : Up(n) /\ connecting[n] = NoTask => lastActivity[n] # "none"

\* A pinned backend stays connected once connect_all has brought it up, in a
\* fleet nobody reconfigures: neither the reaper, nor the LRU cap, nor the
\* stop route takes it down.
PinnedStaysUp ==
    \A n \in Pinned : n \notin boot /\ connecting[n] = NoTask => Up(n)

\* The holder of _lock is connecting, or waits for a task that is: it never
\* waits for somebody who waits for _lock.
LockHolderProgress ==
    lock # NoTask =>
        \/ frame[lock].pc \in {"connecting", "joined"}
        \/ /\ At(lock, "joining")
           /\ connecting[frame[lock].name] \in {t \in Tasks : At(t, "connecting")}

\* Every operation comes to an end, or comes to wait for an answer of its own
\* backend, in a call or for a slot that calls of that backend hold: a backend
\* that never answers holds up the callers it has, and no eviction, connect,
\* reload or stop.  (The pools of objects bound the instance: an operation
\* that finds no identity left for a new object is not counted.)
PoolsExhausted == ~CanCreateClient \/ \A c \in Conns : ~FreshConn(c)

AwaitsBackend(t) ==
    \/ InCall(t)
    \/ At(t, "gate") /\ InUse(frame[t].name) = MaxConcurrency

OperationsEnd ==
    \A t \in Tasks :
        frame[t].op # "none" ~> frame[t].op = "none" \/ AwaitsBackend(t) \/ PoolsExhausted

------------------------------------------------------------------------------
\* Claims of the documentation that the code does not keep.

\* CONFIGURATION.md: "Each backend's `timeout_class` sets the
\* `read_timeout_seconds` for its tool calls", 120 s for the default class.
\* The call of that class goes through call_tool, which drops the timeout.
CallsTimeOut == \A t \in Tasks : frame[t].op = "route" /\ InCall(t) ~> ~InCall(t)

\* eviction.py: "a backend with an in-flight routed call is NEVER evicted".
\* The sweep checks in_flight_count, the eviction it starts does not.
ReaperSparesCalls == \A t \in Tasks : frame[t].op = "reap" => job[t].op # "drain_wait"

==============================================================================
