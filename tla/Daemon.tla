--------------------------------- MODULE Daemon ---------------------------------
(***************************************************************************)
(* The life of `slm-hub start' as a process (cli/main.py,                  *)
(* resilience/watchdog.py, core/hub.py): a start first kills the hub that  *)
(* is there, found through the PID file and through the port, then writes  *)
(* its own PID, binds the port and serves; when it stops it removes the    *)
(* PID file.  Starts by hand and those of launchd or systemd (KeepAlive,   *)
(* Restart=always) are not coordinated, a process may be killed at any     *)
(* point, and a PID may come to belong to another program.                 *)
(*                                                                         *)
(* External: the operating system and uvicorn, which binds the port,       *)
(* closes it at the first SIGTERM, and may deliver the signal again when   *)
(* it has stopped, so that the code after it does not run.                 *)
(***************************************************************************)
EXTENDS FiniteSets

CONSTANTS
    Pids,     \* process ids; each is given to one hub at most
    Clients,  \* programs that may have a connection to the port
    NoPid

ASSUME DaemonAssumption == NoPid \notin Pids \cup Clients /\ Pids \cap Clients = {}

VARIABLES
    proc,       \* what each process is doing
    target,     \* the process it waits for, after a SIGTERM
    victims,    \* the processes on the port that it has still to kill
    pidFile,    \* content of the PID file
    port,       \* the process that listens
    connected,  \* clients with a connection to it
    status,     \* a status command that found the PID of a dead process
    lone,       \* history: starts that no other start overlapped
    refused,    \* history: starts that found the port taken
    raced,      \* history: two starts, or a start and a status, overlapped
    killed      \* history: programs other than hubs that a start has killed

daemonVars == <<proc, target, victims, pidFile, port, connected, status, lone, refused, raced, killed>>

\* Before uvicorn has taken over, in the order of the code.
Phases == {"check", "await", "unlink", "probe", "orphan", "orphan_wait", "start", "write", "bind"}

Alive == {p \in Pids : proc[p] \notin {"none", "dead"}}

Starting == {p \in Pids : proc[p] \in Phases}

DaemonTypeOK ==
    /\ proc \in [Pids -> Phases \cup {"none", "serve", "stopping", "clean", "foreign", "dead"}]
    /\ target \in [Pids -> Pids \cup {NoPid}]
    /\ victims \in [Pids -> SUBSET (Pids \cup Clients)]
    /\ pidFile \in Pids \cup {NoPid}
    /\ port \in Pids \cup {NoPid}
    /\ connected \subseteq Clients
    /\ status \in Pids \cup {NoPid}
    /\ {lone, refused} \subseteq SUBSET Pids
    /\ raced \in BOOLEAN
    /\ killed \subseteq Pids \cup Clients
    /\ port \in Pids => proc[port] = "serve"
    /\ \A p \in Pids : proc[p] \in {"await", "orphan_wait"} => target[p] \in Pids \ {p}

DaemonInit ==
    /\ proc = [p \in Pids |-> "none"]
    /\ target = [p \in Pids |-> NoPid]
    /\ victims = [p \in Pids |-> {}]
    /\ pidFile = NoPid
    /\ port = NoPid
    /\ connected = {}
    /\ status = NoPid
    /\ lone = {}
    /\ refused = {}
    /\ raced = FALSE
    /\ killed = {}

------------------------------------------------------------------------------

\* Process p goes on, and process q comes to the state s.
Step(p, pc) == proc' = [proc EXCEPT ![p] = pc]

StepAnd(p, pc, q, s) == proc' = [proc EXCEPT ![p] = pc, ![q] = s]

\* A process that is gone, or is closing, leaves the port.
LeavesPort(q) ==
    /\ port' = IF port = q THEN NoPid ELSE port
    /\ connected' = IF port = q THEN {} ELSE connected

KeepsPort == UNCHANGED <<port, connected>>

Histories == <<lone, refused, raced>>

\* A foreign program that is hit.
Hit(q) == killed' = IF q \in Clients \/ (q \in Pids /\ proc[q] = "foreign") THEN killed \cup {q} ELSE killed

\* What SIGTERM makes of a process: one that serves begins to stop; before that,
\* and maybe after it, the signal is not handled.
Termed(q) ==
    CASE proc[q] = "serve" -> {"stopping"}
      [] proc[q] \in {"stopping", "clean"} -> {proc[q], "dead"}
      [] OTHER -> {"dead"}

Start(p) ==
    /\ proc[p] = "none"
    /\ Step(p, "check")
    /\ lone' = IF Starting = {} THEN lone \cup {p} ELSE lone \ Starting
    /\ raced' = (raced \/ Starting # {} \/ status # NoPid)
    /\ UNCHANGED <<target, victims, pidFile, port, connected, status, refused, killed>>

\* is_running: a PID file whose process is dead is removed; otherwise SIGTERM.
Check(p) ==
    /\ proc[p] = "check"
    /\ \/ /\ pidFile \notin Alive
          /\ pidFile' = NoPid
          /\ Step(p, "unlink")
          /\ KeepsPort
          /\ UNCHANGED <<target, killed>>
       \/ /\ pidFile \in Alive \ {p}
          /\ \E s \in Termed(pidFile) : StepAnd(p, "await", pidFile, s)
          /\ target' = [target EXCEPT ![p] = pidFile]
          /\ LeavesPort(pidFile)
          /\ Hit(pidFile)
          /\ UNCHANGED pidFile
    /\ UNCHANGED <<victims, status, Histories>>

\* It polls for 5 seconds...
Await(p) ==
    /\ proc[p] = "await"
    /\ target[p] \notin Alive
    /\ Step(p, "unlink")
    /\ target' = [target EXCEPT ![p] = NoPid]
    /\ UNCHANGED <<victims, pidFile, port, connected, status, Histories, killed>>

\* Mutant: it waits until the old hub is gone.
AwaitForever(p) ==
    /\ proc[p] = "await"
    /\ target[p] \notin Alive
    /\ Step(p, "unlink")
    /\ target' = [target EXCEPT ![p] = NoPid]
    /\ UNCHANGED <<victims, pidFile, port, connected, status, Histories, killed>>

\* Mutant: it goes on without killing it.
AwaitGivesUp(p) ==
    /\ proc[p] = "await"
    /\ target[p] \in Alive
    /\ Step(p, "unlink")
    /\ target' = [target EXCEPT ![p] = NoPid]
    /\ UNCHANGED <<victims, pidFile, port, connected, status, Histories, killed>>

\* ...and then sends SIGKILL.
AwaitKills(p) ==
    /\ proc[p] = "await"
    /\ target[p] \in Alive
    /\ StepAnd(p, "unlink", target[p], "dead")
    /\ target' = [target EXCEPT ![p] = NoPid]
    /\ LeavesPort(target[p])
    /\ Hit(target[p])
    /\ UNCHANGED <<victims, pidFile, status, Histories>>

\* remove_pid_file, whatever it says now.
Unlink(p) ==
    /\ proc[p] = "unlink"
    /\ pidFile' = NoPid
    /\ Step(p, "probe")
    /\ UNCHANGED <<target, victims, port, connected, status, Histories, killed>>

\* Mutant: the port is not looked at.
ProbeNothing(p) ==
    /\ proc[p] = "probe"
    /\ Step(p, "start")
    /\ UNCHANGED <<target, victims, pidFile, port, connected, status, Histories, killed>>

\* connect_ex and lsof -ti :port, which lists the programs with a connection to
\* the port as well as the one that listens.
Probe(p) ==
    /\ proc[p] = "probe"
    /\ IF port = NoPid
       THEN Step(p, "start") /\ UNCHANGED victims
       ELSE /\ Step(p, "orphan")
            /\ victims' = [victims EXCEPT ![p] = ({port} \cup connected) \ {p}]
    /\ UNCHANGED <<target, pidFile, port, connected, status, Histories, killed>>

\* Each of them gets a SIGTERM, a second of time, and a SIGKILL; one that is
\* gone by then is skipped.
TermOrphan(p, v) ==
    /\ proc[p] = "orphan"
    /\ v \in victims[p]
    /\ \/ /\ v \in Alive
          /\ \E s \in Termed(v) : StepAnd(p, "orphan_wait", v, s)
          /\ target' = [target EXCEPT ![p] = v]
          /\ LeavesPort(v)
          /\ UNCHANGED victims
       \/ /\ v \notin Alive
          /\ connected' = connected \ {v}
          /\ victims' = [victims EXCEPT ![p] = victims[p] \ {v}]
          /\ UNCHANGED <<proc, target, port>>
    /\ Hit(v)
    /\ UNCHANGED <<pidFile, status, Histories>>

KillOrphan(p) ==
    /\ proc[p] = "orphan_wait"
    /\ StepAnd(p, "orphan", target[p], "dead")
    /\ victims' = [victims EXCEPT ![p] = victims[p] \ {target[p]}]
    /\ target' = [target EXCEPT ![p] = NoPid]
    /\ LeavesPort(target[p])
    /\ Hit(target[p])
    /\ UNCHANGED <<pidFile, status, Histories>>

OrphansDone(p) ==
    /\ proc[p] = "orphan"
    /\ victims[p] = {}
    /\ Step(p, "start")
    /\ UNCHANGED <<target, victims, pidFile, port, connected, status, Histories, killed>>

\* HubOrchestrator.start: the database is opened and the plugins are started; a
\* plugin that fails is skipped, a database that fails ends the process.
StartHub(p) ==
    /\ proc[p] = "start"
    /\ \E s \in {"write", "dead"} : Step(p, s)
    /\ UNCHANGED <<target, victims, pidFile, port, connected, status, Histories, killed>>

\* The PID file is written, and the connecting of the backends begun, before
\* uvicorn has the port.
WritePid(p) ==
    /\ proc[p] = "write"
    /\ pidFile' = p
    /\ Step(p, "bind")
    /\ UNCHANGED <<target, victims, port, connected, status, Histories, killed>>

\* server.serve: a port that is taken ends it at once.
Bind(p) ==
    /\ proc[p] = "bind"
    /\ IF port = NoPid
       THEN port' = p /\ Step(p, "serve") /\ UNCHANGED refused
       ELSE Step(p, "stopping") /\ refused' = refused \cup {p} /\ UNCHANGED port
    /\ UNCHANGED <<target, victims, pidFile, connected, status, lone, raced, killed>>

\* SIGTERM or SIGINT of the user or of the supervisor.
StopServing(p) ==
    /\ proc[p] = "serve"
    /\ Step(p, "stopping")
    /\ LeavesPort(p)
    /\ UNCHANGED <<target, victims, pidFile, status, Histories, killed>>

\* serve has returned: runtime.stop, unless the signal ends the process.
StopRuntime(p) ==
    /\ proc[p] = "stopping"
    /\ \E s \in {"clean", "dead"} : Step(p, s)
    /\ UNCHANGED <<target, victims, pidFile, port, connected, status, Histories, killed>>

\* The PID file is removed if there is one, and the hub is stopped.
StopHub(p) ==
    /\ proc[p] = "clean"
    /\ pidFile' = NoPid
    /\ Step(p, "dead")
    /\ UNCHANGED <<target, victims, port, connected, status, Histories, killed>>

\* The process dies without a chance to clean up.
Crash(p) ==
    /\ p \in Alive
    /\ proc[p] # "foreign"
    /\ Step(p, "dead")
    /\ LeavesPort(p)
    /\ UNCHANGED <<target, victims, pidFile, status, Histories, killed>>

\* The PID of a dead hub is given to another program.
ReusePid(p) ==
    /\ proc[p] = "dead"
    /\ Step(p, "foreign")
    /\ UNCHANGED <<target, victims, pidFile, port, connected, status, Histories, killed>>

ClientConnects(c) ==
    /\ port # NoPid
    /\ c \notin killed
    /\ connected' = connected \cup {c}
    /\ UNCHANGED <<proc, target, victims, pidFile, port, status, Histories, killed>>

\* slm-hub status: is_running finds a PID that is dead...
StatusReads ==
    /\ status = NoPid
    /\ pidFile \in Pids \ Alive
    /\ status' = pidFile
    /\ raced' = (raced \/ Starting # {})
    /\ UNCHANGED <<proc, target, victims, pidFile, port, connected, lone, refused, killed>>

\* ...and then removes the file, whatever it says now.
StatusUnlinks ==
    /\ status # NoPid
    /\ pidFile' = NoPid
    /\ status' = NoPid
    /\ UNCHANGED <<proc, target, victims, port, connected, Histories, killed>>

StartStep(p) ==
    \/ Check(p)
    \/ Await(p)
    \/ AwaitKills(p)
    \/ Unlink(p)
    \/ Probe(p)
    \/ \E v \in victims[p] : TermOrphan(p, v)
    \/ KillOrphan(p)
    \/ OrphansDone(p)
    \/ StartHub(p)
    \/ WritePid(p)
    \/ Bind(p)

DaemonNext ==
    \/ \E p \in Pids :
          \/ Start(p)
          \/ StartStep(p)
          \/ StopServing(p)
          \/ StopRuntime(p)
          \/ StopHub(p)
          \/ Crash(p)
          \/ ReusePid(p)
    \/ \E c \in Clients : ClientConnects(c)
    \/ StatusReads
    \/ StatusUnlinks

\* A start goes on by itself; a hub that stops may hang.
DaemonSpec ==
    /\ DaemonInit
    /\ [][DaemonNext]_daemonVars
    /\ \A p \in Pids : WF_daemonVars(StartStep(p))

------------------------------------------------------------------------------
(* Properties *)

\* The PID file names the hub that serves, whichever hubs were killed, hung or
\* crashed before, as long as no two starts, nor a start and a status, overlap:
\* the hub that is replaced never removes the file of its successor.
ServingNamed == ~raced => \A p \in Pids : proc[p] = "serve" => pidFile = p

\* A start that no other start overlaps finds the port free, whatever earlier
\* races have left behind: a hub without a PID file, or a PID file without a hub.
LoneStartBinds == lone \cap refused = {}

\* A start comes to an end, also when the hub it replaces hangs.
StartsEnd == \A p \in Pids : proc[p] = "check" ~> p \notin Starting

\* _kill_existing_hub: "Kill any existing hub process - PID file + port check."
\* The code does not keep this: it kills whatever has the PID or a socket on
\* the port.
OnlyHubsKilled == killed = {}

==============================================================================
