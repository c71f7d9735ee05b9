# A TLA+ model of slm-mcp-hub

slm-mcp-hub is a gateway between MCP clients and many MCP servers
("backends"). It spawns or connects to every configured backend, publishes all
their tools under one name space, routes calls to them, shuts idle backends
down and reconnects them on demand, and follows changes of its configuration.
It is one asyncio process: everything that can go wrong between two of its
operations goes wrong at an `await`. Around it several processes meet: commands
that edit the configuration file, hubs that share an OAuth token, starts of the
hub that replace each other.

This directory holds TLA+ modules that model its core, configurations that
check them with TLC, and proofs checked by TLAPS. `PROJECT.json` lists the
runs, the mutants each property is tested against, the source lines each
definition models, the findings and the hazards.

## Inventory

Paths are under `src/src/slm_mcp_hub/`.

| Component | State | Operations | What makes it correct |
|---|---|---|---|
| `federation/connection.py` MCPConnection | `_state`, `_outbound`, `_capabilities`, `_in_flight`, `_drain_event`, `_drain_lock` | connect, disconnect, drain_and_disconnect, four kinds of call, three supervisor hooks | the in-flight count is exact; drains exclude each other and are always woken; an up connection has a client |
| `protocol/outbound.py` OutboundClient | the SDK session, discovered capabilities | connect, disconnect, calls | opened once, closed once |
| `federation/manager.py` ConnectionManager | `_connections`, `_failed`, `_evicted_caps`, `_connect_events`, `_lock`, the configuration | connect_all, reconnect, evict, add/remove/replace_server, ensure_connected, fast_retry_failed, disconnect_all | one attempt per backend; no upstream session is lost; calls are not cut; the registry is current; nobody waits for ever |
| `federation/eviction.py` IdleReaper | `_last_activity` | sweep, mark, seed, forget | only idle lazy backends are evicted, and every one of them some day |
| `federation/lru.py`, `concurrency.py` | none; one limiter per backend | choose a victim; acquire a slot | pinned backends are never victims |
| `federation/router.py` FederationRouter | none | resolve, reconnect on demand, dispatch | a call runs on a live connection and marks activity |
| `federation/manager_retry.py`, `resilience/supervisor.py` | failure counts, breaker, events | supervised reconnect loop, fleet coordinator | backs off, escalates, never revives a removed backend |
| `resilience/lifecycle.py`, `classifier.py`, `events.py` | transition table; webhook queue | is_valid_transition, classify_failure, deliver | every transition is in the table; failures are told apart |
| `core/registry.py`, `federation/namespace.py` | tool, resource and prompt tables | sync, lookup | sync reports exactly the changes |
| `lifecycle/reloader.py`, `config_diff.py` | the applied configuration | diff, apply | the fleet converges to the new configuration |
| `lifecycle/notifier.py` | subscribers, pending task | notify, broadcast | the client comes to know the current tools |
| `lifecycle/runtime.py`, `core/hub.py` | start-up task, plugins | start in the background, stop | shutdown leaves nothing running |
| `streaming/*` | bounded event buffers, resumption tokens | store, replay, resume | replay has no gaps and no foreign events; a call is not run twice |
| `session/*` | sessions, resource holders | create, touch, expire; acquire, release | a session in use is kept, one out of use keeps nobody out |
| `server/http_server.py`, `mcp_endpoint.py`, `protocol/product_operations.py` | the requests under way | POST and DELETE /mcp, meta-tools | only sessions in use are served; refusals only at the limit |
| `server/stdio_server.py` | the serve loop, the write lock | read, answer, notify | ends with its client, wherever its two writers are |
| `intelligence/*` | cache entries, budgets, records | get, put; can_afford, record_cost | bounded; no stale hit; budgets hold |
| `observability/*` | bounded queues, counters | publish, subscribe | drops are the oldest |
| `auth/*`, `cli/auth_commands.py` | tokens in the keychain, refresh lock, one-shot callback | login, refresh, logout | one refresh at a time; no false success; everything ends |
| `core/config.py`, `config_io.py`, `cli/server_commands.py` | the configuration file and its snapshots | load, edit, save, restore | a crash leaves a readable file, or one that can be restored |
| `discovery/auto_register.py`, `cli/setup_commands.py` | the configuration file of a client, its backup | register, unregister, import | the client's own entries survive |
| `cli/main.py`, `resilience/watchdog.py` | the PID file, the port | start, stop, status | one hub serves, and the PID file names it |
| plugins, storage, permissions, mDNS | little or none | | see `PROJECT.json` |

How they interact: a front end calls the router; the router reads the
registry and the manager's connection table and calls back
`ensure_connected`; the reaper calls `evict` through callbacks and reads
connection state; the reloader, the admin routes, supervisors and the
background `connect_all` call the manager at any time. The shared state is the
connection table, the connections themselves, the activity table, the
capability cache and the registry. `_lock` protects only parts of the
operations, and most of them await while they hold captured state.

Hard behaviours: an eviction racing a call or a reconnect; two connects of one
backend; a removal racing a reconnect on demand; a timeout or a cancellation
in the middle of a connect or a drain; waits that nobody ends; commands that are
killed half way through a file; a start that overlaps another start or the end of
the hub it replaces; a client that does not read what two tasks write to it.

## Plan

Done:

1. `Connection`, `ConnectionProofs`: the connection object.
2. `ConnectionManager`, `ManagerProofs`: the fleet: connects, evictions, LRU cap,
   routing, reload.
3. `Supervisor`, `SupervisorProofs`: supervised reconnects, circuit breaker, coordinator,
   `fast_retry_failed` and shutdown, over `ConnectionManager`.
4. `EventStore`, `StreamingCall`, `StreamingProofs`: streamed calls, their
   resumption, and the replay of their events.
5. `ConfigFile`, `ConfigStore`, `ConfigProofs`, `ClientRegistration`: the files on
   disk, their abstract specification and the refinement.
6. `Sessions`, `HttpFrontEnd`, `StdioFrontEnd`, `FrontEnd`, `FrontEndProofs`: the
   client side, with the change notifier.
7. `OAuth`, `OAuthProofs`: refresh, login and logout. `Daemon`, `DaemonProofs`: the
   life of the hub process.

Left:

8. The reloader as one operation (diff, then the changes in order), and the
   convergence of the fleet to the new configuration.
9. A shutdown that interrupts start-up or a sweep.
10. `LiveTracked` and `StaysDiscoverable` proved with timeouts, drains that give up and
   a cap, which `Steady` excludes.

## Modules

`Connection` models MCPConnection as its most general client sees it: any
task calls any method of any connection at any time. A method that suspends
leaves a *job* (`handshake`, `discover`, `drain_lock`, `drain_wait`,
`closing`, `call`) with its task; an action is the code between two awaits
that really suspend. Cancellation and timeout are possible at each await where
the hub cancels or times out. `outbound` is a client identity, and `live` the
set of clients whose upstream session is open, which the code does not record:
it is what the leak properties are about. The four call methods differ only in
data and are one action. Lifecycle subscribers only observe and are left out.

`ConnectionManager` extends it with the manager's tables, the reaper's
timestamps (absent, within, beyond the TTL: the passing of time is the action
`Ages`), and a *frame* for each task: the operation it is in, where it is, and
the connection or victim it has captured. `Running` and `Calm` model that
asyncio does not switch tasks before an await suspends. `EvictBegin` is `evict()`
up to its drain, with its own test for pinned backends, under all of its callers:
the sweep, the stop route and the cap. `Ops` selects which
entry points and faults an instance has. `_evicted_caps` and the registry keep
only whether a backend offers anything. No supervisor runs in its own
specification; with `boot_fail` the connects of `connect_all` may fail, expire or
ask for a login there too, and the backends stay as they then are. A call is one
of the default timeout class; the streamed ones are in `StreamingCall`.

`Supervisor` extends it with the failing start (`Ops` has `boot_fail`) and what
follows from it. The supervisor of a backend is a task of its own, with a frame
like every other task; `frame[SupTask[n]].conn` is the object the supervisor
was given, and stays that object when the manager registers another one.
`phase` is the hub's life: start-up, running without or with the coordinator,
shutting down. `health` holds the counters of the loop, which stop at the value
the code compares them with, so that the breaker and the alert are exact and
the state space finite. `dropped` is the set `_drop_event`s. Every step of the
manager is joined with `Noticed`: the connection's state hook runs inside the
assignment. Backoffs and ticks may take any time, so every delay schedule is
covered. Shutdown is modelled from the point where the server has stopped
serving: requests have ended and no sweep is under way.

`EventStore` models the buffers for clients that come back. A message is its
kind, a deque the sequence of its event ids. `log` is the history of all events,
which the code does not keep; `_next_event_id` is its length, and `created` is
the id of the first event where the code has a time. `stale` are the streams
past their TTL (`Expires` is the passing of time). `replay` holds what a call of
`replay_events_after` has collected under the lock and not yet sent; its
`buffered` and `owned` record for the properties whether the target was still in
a buffer and its stream still in the store. The collected events are a set, sent
in increasing order: `Ordered` says that this is the order of the deque. Both
maxima are assumed positive; the configuration does not check that.

`StreamingCall` extends it with `run_with_safe_resume`: the first attempt of a
call, the token its context has captured, the one resumption. Its progress and
its answer go through the store. How the SDK primes a stream and feeds it is
external and modelled as `event_store.py` describes it; that two requests have
different streams is assumed, the SDK chooses the stream ids.

`ConfigFile` is the abstract specification of config.json as its readers see it:
it holds a document that is one edit of a document it once held, or, through a
restore, an older one; only a restore may leave it unreadable. A document is the
state of each backend (absent, enabled, disabled). A backend is added enabled:
`--disabled` and an imported `enabled: false` give what an add followed by a
disable gives.

`ConfigStore` is the implementation. A command is a process that reads the file,
edits what it read, passes the guard against a large drop, snapshots and prunes,
and replaces the file, with a step for each call of the operating system that
another process can observe, and may be killed or fail between any two. A
snapshot's name is its second and its server count, since that is how
`_prune_snapshots` sorts them. `past` is the set of documents the file has held,
`overlap` whether two commands have run at the same time: there is no lock, and
what overlapping commands lose is not claimed to be safe, except for
`ImplementsConfigFile`, which holds for them too. `ConfigStore` has an
`INSTANCE` of `ConfigFile` with `file <- config` and `restoring` defined from the
processes; `ImplementsConfigFile` is that instance's specification.

`ClientRegistration` extends it with `setup register`, `unregister` and
`import`, run by the same processes on the file of an AI client, which the hub
writes in place after copying it to a backup, and which the client edits too.

`OAuth` has the keychain (token and client information, two accounts written one
after the other), hub processes that use a token, get a 401, refresh and store,
with or without the lock, and the login command with its callback server. The
SDK's exchange and the authorization server are external: a refresh token can be
used once, a token is a number in order of issue. `meddled` is history: somebody
wrote the keychain under a login or a refresh. The GET that drives a login may be
answered by anything: with a 401 the authorization begins, and every other answer
ends the flow, `accepted` recording whether the token was good; `fault` records a
refused token or a transport error.

`Sessions` has the operations of SessionManager as operators on the table; they
contain no await, so that each is part of the action that calls it. `sessions`
is the idle time of each entry; `since` and `ended` are history, the time since
the client used its session, and whether it ended it. `HttpFrontEnd` models POST
and DELETE /mcp: the request is read (an await), then admitted and dispatched
without one, and answered at once or when a backend has answered. An initialize
that finds no place ends in an uncaught ValueError (500), a recovery in a 429.
`StdioFrontEnd` models the serve loop and the broadcast of the ChangeNotifier as
two tasks that write to one client under a lock and wait, with the lock, until it
has read; shutdown cancels the broadcast and destroys the session. The tools a
client sees are what `search_tools` finds, a meta-tool: `tools/list` names only the
meta-tools, whatever the registry holds. The client has two ends, and may close
either first. `FrontEnd`
composes them: a hub process runs one of the two.

`Daemon` models processes with their PIDs: the check of the PID file, SIGTERM,
the wait, SIGKILL, the scan of the port, start, writing the PID file, binding,
serving, stopping, removing the PID file. Starts are not coordinated; a process
may hang while it stops, crash at any point, and its PID may come to belong to
another program. `lone`, `refused` and `raced` are history for the properties.

`MCConnectionManager`, `MCSupervisor`, `MCConfigStore` and the other MC modules
instantiate the specifications; they give TLC symmetry sets (tasks; processes;
backends configured alike) and a view in which a connection object is what its
fields hold and where it is referred to: objects are interchangeable, and one that
nobody refers to any more counts only for the client it may hold open (in
`MCSupervisor`, the view only ignores the fields of such objects). The runs with
fairness use neither.

`ConnectionProofs`, `ManagerProofs`, `SupervisorProofs`, `StreamingProofs`,
`ConfigProofs`, `FrontEndProofs`, `OAuthProofs` and `DaemonProofs` have the theorems.

Operators whose comment begins with "Mutant" are changed versions of the
definition that follows them; no specification uses them.

## Runs

| Run | Instance | Shows |
|---|---|---|
| `manager_steady` | a lazy and a pinned backend, 3 tasks, calls, reads, sweeps, failing reconnects | no lost upstream, no cut call, live backends are tracked, evicted ones stay discoverable |
| `manager_admin` | 1 backend, 2 tasks; start-up, calls, sweeps, stops, warm-ups, reconnects and reloads; connects that fail, ask for a login or expire, drains that give up; resumption as in Python 3.11 | one attempt at a time, current registry, progress of the lock holder; the connection is up only with a client, its drains lose no wake-up |
| `manager_lru` | 2 ordinary backends and a pinned one, cap 1, a connection object and a client to spare; calls, sweeps, stops | pinned backends stay up while the others compete |
| `manager_live` | 1 backend, 2 tasks, fairness | every operation ends, or waits for an answer of its backend |
| `supervisor` | 1 backend, a manager task and its supervisor, 3 connection objects, every kind of connect failure, reloads, stops, retries, shutdown | no drop is missed, breaker and alert agree with the failures, a terminal failure is not retried |
| `supervisor_live` | the same backend with idle evictions and fairness, no reload | a backend that is down is tried again for ever, a recovery is published, after shutdown nothing is connected |
| `streaming` | 3 calls, 2 streams of 2 events, 5 events in all, 1 reader | exact replays, the right stream, expired streams first, no tool started twice |
| `config` | 2 processes, 2 backends, thresholds 1, 2 snapshots kept, 2 seconds, 4 commands | the file implements `ConfigFile` whoever is killed and whatever overlaps; what a write replaces was snapshotted; an unreadable file, of the hub or of a client, can be recovered; the client's entries are kept |
| `oauth` | 2 hubs, 1 login, 1 more token, fairness | with the lock one refresh at a time; token and client information match after a login that died; a login that meets a refused token or a transport error does not end as a success on the old token; requests and logins end |
| `front_end` | HTTP: 3 session ids for 2 places, timeout of 1 tick; stdio: 2 changes, 2 lines, room for 1 unread message, a client that closes its two ends one by one; fairness | sessions in use are kept, only they are served, and only they keep others out; where backends answer, the stdio client comes to know the current tools, and the hub stops when the client goes |
| `daemon` | 3 starts, 1 connected program, fairness of the starts | without overlapping starts the PID file names the hub that serves; a start that nothing overlaps gets the port; a start ends although the hub it replaces hangs |

`removed_revived` refutes a sentence of the documentation, which `PROJECT.json`
quotes under `findings`: the supervisor of a removed server connects it again.

More sentences of the documentation do not hold. Each is stated in its module,
and adding it (as an INVARIANT; `CallsTimeOut` and `NoFalseLogin` as a PROPERTY) to
the configuration named gives a counterexample:

| Claim | Definition | Configuration | What happens |
|---|---|---|---|
| `eviction.py:22`: "a backend with an in-flight routed call is NEVER evicted" | `ReaperSparesCalls` | `MCManagerSteady.cfg` | a call dispatched between the sweep and the eviction it started is drained for five seconds and then cut |
| `manager.py:528`: ensure_connected is "Idempotent via W2-P1 gate" | `NoOrphan` | `MCManagerLRU.cfg` | a second call, held up by its LRU eviction, replaces the live connection of the first without closing it |
| `event_store.py:158-160`: "Returns None when" the owning stream has been evicted | `EvictedNotReplayed` | `MCStreaming.cfg` | the client is sent the events of the only younger stream |
| `CHANGELOG.md:188`: "Token refresh is serialized across tasks and processes." | `RefreshSerialized` | `MCOAuth.cfg` | no caller passes a `lock_path`, so two hubs exchange the same refresh token |
| `manager.py:285`: "Disconnect all MCP server connections" | `ShutdownQuiet` | `MCSupervisor.cfg` | a connection that a replaced attempt or a supervisor owns, and no table lists, stays up |
| `CONFIGURATION.md:85-90`: "Each backend's `timeout_class` sets the `read_timeout_seconds` for its tool calls", `default` 120 s | `CallsTimeOut` | `MCManagerLive.cfg` | `MCPConnection.call_tool` drops its timeout; only calls of another class, or with progress, take the streaming path, which has one: a call waits for its answer for ever, and the next caller for its slot |
| `broker.py:294`: "a failed (re-)login can never look like success on a stale token" | `NoFalseLogin` | `MCOAuth.cfg` | an endpoint that need not serve a plain GET answers the driving GET with 404 or 405; the status is ignored, no authorization takes place, and the stored token, however old, is reported as a success |
| `cli/main.py:84`: "Kill any existing hub process" | `OnlyHubsKilled` | `MCDaemon.cfg` | a program that is only connected to the port, or has got the PID of a stale file, is killed |

The passing runs leave out, through `Ops` and the pools, the operations that
lead to states like these: `NoOrphan` and `StaysDiscoverable` are checked
without logins, stops by hand and reloads, `NoCallCut` without drain timeouts.
Other deviations the model reaches in the same way: `seed_activity` keeps an old
timestamp and `forget` erases a new one; `stop` of an evicted backend loses its
tools, and so does a login that an evicted backend asks for; a reconnect on demand during start-up and a removal during a connect
each leave an open client; start-up neither trims the fleet to the cap nor
disconnects lazy backends; `fast_retry_failed` and a supervisor may connect the
same backend side by side; a connect that times out during discovery leaves its
client open; of two overlapping starts, the one that loses the port removes the
PID file of the other; a logout is undone by a hub that is refreshing.

Bounds. Two tasks are enough for a race between two operations, the third
lets a call hold a connection meanwhile. A backend needs a second connection
object for its replacement and one more for a captured old one; clients are
never reused while an orphan is open, so their number bounds how many leaks a
behaviour may have. When the pools run out, connects are no longer possible:
`OperationsEnd` and `NeverAbandoned` do not count such states. In `manager_lru`
there is one object and one client more than backends, so that a connect finds
both while the victim of the cap still drains. Thresholds of 2
distinguish the first failure, the one that opens the breaker and the one after
it. One backend is enough for the supervisor: supervisors of different backends
share only the registry. The event store overflows
a ring of two with the third event of a stream and a cap of two with the third
stream; five events allow both in one behaviour. Four commands are a save, a
restore that is killed, and what is done afterwards, or two that overlap twice;
two seconds give snapshots of the same and of different age, and keeping two is
as many as a second can have (with fewer, the snapshot just taken may go). Two
hubs and a login compete for one token and its successor. Three session ids
compete for two places; one HTTP request at a time is enough, since a request
touches the table only between its body and the first await of the router, and
what runs later writes nothing. The third start can meet what a race of the other
two has left. In `daemon` a PID is given to one hub only. The proofs remove the bounds on backends, connections and
tasks for the connection, the manager and the supervisors (and their thresholds), and every bound for the event store, the
files, the sessions, `OAuth` and `Daemon`. Deadlock is checked
for `oauth` and `front_end`, where there is always somebody who can act. In the other runs it is not: a hub with
nothing to do rests, and bounded commands, events and PIDs are used up.

Fairness. The event loop serves ready tasks in turn, and `asyncio.Lock` and the
limiter serve waiters in order, so strong fairness per task is justified where a
lock may be taken by others in between. Connects and drains have timeouts,
closing a client is bounded by the SDK. Calls have none: `Fairness` and
`SupFairness` leave out a task that is in a call (`InCall`), and `OperationsEnd`
says of an operation that it ends or comes to wait for its own backend, in a call
or for a slot that calls hold. Drains, evictions, connects and reloads end
although calls do not. Backoffs, coordinator ticks and retry delays are timers,
which expire. No client of a fleet is assumed to call anything. `OAuth`: a request
is answered or fails (HTTP timeouts), a waiter for the lock gets it or gives up
after 30 s, a login waits 120 s for its callback and then fails; weak fairness of
each process is enough. `FrontEnd`: tasks run, the write lock is an
`asyncio.Lock` and serves its waiters in order (strong fairness); this is
`HubFairness`. That backends answer is not part of it but the antecedent
`BackendsAnswer` of `ComesToKnow` and `StopsWithClient`: the serve loop handles one
line after the other, so while a backend hangs it reads neither the next line nor
the end of its input, and "until EOF" (`stdio_server.py`) does not hold.
`ClientFairness` is an assumption about the client: it reads what it is sent, as
long as it has that end open, and searches again when it is told of a change. A
client that hangs up, keeps the other end open and does not read leaves a writer
in `drain()`, and the hub running. `Daemon`: a start goes on by itself, its waits
being timed (`lsof` and the start hooks of the plugins, which have no timeout, are
taken to return); a hub that is stopping may hang for ever.

## Proofs

`ConnectionProofs` proves, for any sets of connections and clients and any
finite set of tasks, that `ConnSpec` implies `TypeOK`, `InFlightCounts`,
`UpHasOutbound`, `DrainLockHeld` and `NoLostWakeup`. Assumed are only
`NullsAssumption` and `FiniteAssumption` of `Connection`.

None of them is inductive alone. The invariant `IInv` is their conjunction with
`JobShape` (a suspended method belongs to a connection, and a method that uses
a client has one). Types need `JobShape`, because methods write at
`job[t].conn`. The count is kept because a call adds or removes exactly one
task from `Calls(c)`; it stays a natural number only because a call that ends
is counted. `NoLostWakeup` needs the exact count (the step from one to zero is
the one that sets the event) and `DrainLockHeld` (no other drain replaces the
event a drain waits on). There is one lemma per invariant with one step per
action, and `NextInv` puts them together.

`ManagerProofs` is about `Spec` of `ConnectionManager`, for any finite set of
tasks, any sets of backends, connections and clients, and any `Ops`, `MaxLive` and
`MaxConcurrency`. Assumed are the assumptions of `Connection` and `ConnectionManager`.
`MgrTypes` has the types; they need `Shaped`, which ties the frame of a task (where
it is in the code of the manager) to its job (where it is in a method of a
connection). With it every step of the fleet is a step of `Connection`
(`ManagerImplementsConnection`), so that the invariants of a connection need not be
proved again. The other results have these hypotheses:

| Theorem | Property | Holds for |
|---|---|---|
| `AttemptsExclusive` | `OneAttempt` | all operations and faults |
| `LockHolderMoves` | `LockHolderProgress` | all operations and faults |
| `RegistryUpToDate` | `RegistryCurrent` | all operations and faults |
| `CallsNotCut` | `NoCallCut` | no `reconnect`, no drain that gives up |
| `PinnedNeverDown` | `PinnedStaysUp` | `Stable`: no `reload`, `reconnect`; where connects fail or time out, also no `boot_fail` or `warm` |
| `NoOrphanedSession` | `NoOrphan` | `Settled`: no `reload`, `reconnect`, `warm`, connect timeout, nor a cap on live backends |
| `LiveBackendTracked`, `ToolsStayDiscoverable` | `LiveTracked`, `StaysDiscoverable` | `Steady`: calls, reads, idle evictions, failing connects; no cap |

Most of a hypothesis is there because the code does otherwise without it: TLC finds
`NoOrphan` violated as soon as one of the things `Settled` excludes is allowed, and
`PinnedStaysUp` as soon as one of those `Stable` excludes is, `LiveTracked` and
`StaysDiscoverable` with `stop`, `warm`, `reconnect` or `reload`, and
`StaysDiscoverable` with logins. Only `Steady` asks for more than the
small instances show necessary: both hold there with timeouts, drains that give up and
a cap, and `LiveTracked` with logins. A drain
that gives up closes the client under the calls that are left, and a reconnect
closes without draining; a reload takes pinned backends down; a timeout during
discovery leaves the opened client to nobody, and an eviction for room may let two
tasks go on to connect one backend.

The invariant of the first three is `MgrInv`. `OneAttempt` and `Held` (whoever has the lock is
inside `_connect_timed`) are inductive together with the types. `Distinct` (no two
backends share a connection) and `OwnConn` (who connects, drains or closes the
connection of a backend does it for that backend) say that a step of one task changes
what the registry should list for one backend only; `Synced` then says that a backend
that is not listed as it is has a task that will sync the registry, and one that
is up has the task that brought it up. `NoCallCut` rests on `Closes` and `Waits`
(who closes a client holds the drain lock and the count is zero; a drain that waits lets
nobody in), `PinnedStaysUp` on `Spared` and `Brought` (no operation under way aims at
a pinned backend; a pinned backend is yet to be connected, being connected, or up)
and, where connects fail, on `Sheltered` (nothing but `connect_all` connects it: it is
listed only while it is up, so that no call asks for it while it is down),
`NoOrphan` on `Kept` and `Fresh` (every open client is that of a registered connection, or in
the hands of a task that opens or closes it), and the last two on `Knows`,
`OneEviction` and `Accounted` (what the task that works on a backend knows of its
state). Each has one lemma per action, or per kind of step where several actions
do the same to it.

`SupervisorProofs` is about `SupSpec` of `Supervisor`, the fleet with its supervisors,
the coordinator and the shutdown, for any sets of backends, connections and clients,
any finite set of tasks and any positive thresholds. `SupTypesCorrect`,
`SupConnections` (the invariants of a connection), `DropsNoticed`, `BreakersConsistent`
and `FailedStaysFailed` hold for all operations and faults. What the manager's proofs say
of types and connections carries over, its steps being steps of `SupSpec`;
`OneAttempt` does not: a supervisor connects without asking the manager, next to a
task that connects the same backend. `SupTyped` has the types and
`Posted` (which task may be in which frame: a supervisor is only in its own loop,
and nobody else is there). `SupInv` adds `Apart` and `Opened`. `Apart`: no two
supervisors were given one object, nor one the object of another backend, so that
the step of a supervisor can disturb what is said of its own backend only. `Opened`: a
registered connection whose breaker is open is that of a running supervisor, which is
why the breaker of a backend can be compared with the counters of its loop.

`ShutdownsQuiet` has the hypothesis `Unattended`: no call, read, warm-up, reconnect,
reload or retry. Each of them is needed: with any one, TLC finds a
connection that `disconnect_all` does not see. What is left is what the hub does by
itself: the start with its failures, supervisors, sweeps, evictions, logins, stops.
The invariant `QuietInv` says that whatever is up or coming up is registered,
and that supervisors own what is registered (`Backed`), what the start has yet to do
(`Booting`), and that one task shuts down alone and closes connections only after it has
stopped every supervisor (`Closing`).

`StreamingProofs` proves, for any finite set of streams, any sets of readers and
calls and any positive maxima, that `StoreSpec` implies `Ordered`, `NoGaps`,
`ReplayExact`, `OwnerOrNothing` and `FreshKept`; that `CallSpec` implements
`StoreSpec`; and that it implies `AtMostOnce`. Assumed are `StoreAssumption` and
`CallAssumption`. `ReplayExact` is about a snapshot taken in the past: it holds
when the snapshot is taken because a buffer that holds the target holds
everything after it (`NoGaps`), and stays true because the log only grows.
`NoGaps` in turn needs `Ordered`: what a full deque drops is its smallest id.
`OwnerOrNothing` uses `NoGaps` the other way round: a stream that is in the store
without holding one of its own events has only younger ones, so it is a candidate
of the fallback, and the only candidate can be no other. `AtMostOnce` rests on
the invariant `Starts`: a call that has begun has started its tool once.

`ConfigProofs` proves that `ConfigSpec` implies `ConfigTypeOK` and implements
`ConfigFile`, for any set of processes, any finite set of backends, any thresholds
and any positive number of snapshots kept; and that `FilesSpec`, in which the
registrations take part too, implements `ConfigFile` and implies `TornRecoverable`,
`RegisterRecoverable`, `ForeignEntriesKept` and `SnapshottedFirst`. Assumed are
`ConfigAssumption`, `TornAssumption` and `ClientAssumption`. The refinement needs to
know where contents come from: the
invariant `Sources` says that what is in the file, in a snapshot or in a copy under
way is a document the file has held, or unreadable, that what a save is about to
write is an edit of a document it has held, and which command a process in a
given step runs. The last is what tells a write in place, which only a restore
does, from a replace. There is one lemma per action for the invariant, and one step
per action for the refinement.

The recoverability properties speak of commands that do not overlap. `Sequential`
says what that gives: one process is at work, no snapshot is newer than the clock,
and a complete snapshot exists whenever config.json is unreadable, or is too small to
be snapshotted and there are snapshots at all (`Kept`). It is not the snapshot that is
being restored, which may be one whose copy was killed: it is the one taken before. `Single` says the same of the client's file: a registration that is
writing has copied to the backup what it overwrites. `SnapshottedFirst` and `TornRecoverable` have a
hypothesis of their own, `FewServers` (fewer backends than `SnapshotMin +
MaxSnapshots`), and it is needed: snapshots are pruned by name, the name has
the second and then the number of backends, so that commands on ever smaller
documents within one second take snapshots that sort before those of the larger
ones, and the snapshot just taken may be the one that is pruned (TLC shows it with
one snapshot kept and two backends). With the code's 50 snapshots it takes
more than 50 commands in a second.

`FrontEndProofs` proves that `FrontSpec` implies `FrontTypeOK`, `KeptWhileUsed`,
`SessionCapacity`, `ServedWhileFresh` and `RefusedOnlyWhenFull`, for any finite set
of sessions, any set of requests, any limit and any timeout. Assumed are
`SessionsAssumption` and `StdioAssumption`. The heart of the inductive invariant
`FrontInv` is `Tracked`: an entry is as old as the last use of its session, and a
session without an entry is out of use. So a sweep, which any operation may make,
only loses sessions out of use, and leaves exactly those in use: what is found
is fresh, and what is full is full of fresh sessions. That a request that has
just been read has no reply, and that no more notifications are under way than
there were changes, completes it.

`OAuthProofs` proves that `OAuthSpec` implies `LockedRefresh`, `IssuerMatches` and
`NoFailureHidden`, for any set of hubs, any number of tokens and of logins.
`LockedRefresh` needs `Guarded`: whoever is between the token request and the
storing of its answer has the lock. `IssuerMatches` needs `Matched`, which follows a token
from the server to the keychain: a token under way is one of the issuer of now,
and the stored one may be of another only where the next step of the login
deletes it. `NoFailureHidden` needs `Honest`: a login that has met a failure and
has stored nothing finds the token it began with, or none, so that the comparison
after the failure tells.

`DaemonProofs` proves that `DaemonSpec` implies `DaemonTypeOK`, `ServingNamed` and
`LoneStartBinds`, for any set of processes. `ServingNamed` needs `Named`: as long as
nothing has raced, whoever will remove the PID file as its own is named in it, and
a start that has removed the file has nobody left behind it. `LoneStartBinds` needs
`Alone`: from its look at the port on, what listens there is one of those it still has to
kill.

Model-checked only: liveness (`OperationsEnd`, `NeverAbandoned`, `RecoveryPublished`,
`RequestsEnd`, `LoginsEnd`, `ComesToKnow`, `StopsWithClient`, `StartsEnd`), which is
beyond TLAPS, as is ENABLED. Every safety invariant and action property that a passing
run checks is the property of a theorem, some under the hypotheses above. No recursion over data is needed, and none is proved
about.

Some properties are proved and not run: `TypeOK`, `InFlightCounts`, `DrainLockHeld`
(TLC meets them only as parts of the manager, where no drain is cancelled),
`Ordered`, `NoGaps`, `SessionCapacity`, `ConfigTypeOK`, `FrontTypeOK` and
`DaemonTypeOK`.

## Not modelled

- The response cache, the cost engine, the learning store, the permissions, the
  audit log and the session coordinator: nothing in the runtime creates them, so
  that no execution of the hub has their state.
- Plugins, webhooks, mDNS: best-effort calls to other programs.
- Observability, dashboard, traces, the commands that only print: views.
- The database: a thin layer over sqlite3. That opening it fails is a choice of
  `Daemon`.
- The SDK transport and the per-server proxy endpoint: they keep no state of
  their own; parsing, formatting, and the conversion of results.
- `register_transparent`, which has no caller; the import of the hub's own entry
  by a registered client; overrides of the configuration from the environment;
  the fields of a backend other than `enabled`.
- The lifecycle table, whose violations the code only logs; the classification of
  failures, which is a choice of `Supervisor`; the selection of timeouts.
- A shutdown that interrupts start-up or a sweep; the diff of the reloader.
- Of `_kill_existing_hub`: a start that may not signal the program it finds, or
  has no `lsof`, which ends with an error, and a stale PID file that names the
  start itself.
