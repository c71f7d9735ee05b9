------------------------------ MODULE DaemonProofs ------------------------------
(***************************************************************************)
(* Proofs about module Daemon, for any number of processes and clients.    *)
(*                                                                         *)
(* That the PID file names the hub that serves rests on Named: as long as  *)
(* nothing has raced, whoever may yet read or remove the PID file as its   *)
(* own is named in it, and a start that has removed the file has nobody    *)
(* left behind it.  That a lone start finds the port free rests on Alone:  *)
(* from its look at the port on, what listens there is one of the          *)
(* processes it still has to kill, since nobody else can bind.             *)
(***************************************************************************)
EXTENDS Daemon, TLAPS

\* Processes whose end removes the PID file, and the one about to be such.
Owning == {"bind", "serve", "stopping", "clean"}

\* A start that has dealt with the PID file and not written its own.
Cleared == {"unlink", "probe", "orphan", "orphan_wait", "start", "write"}

\* A start does not kill itself, nor is a process named before it has started.
Sound ==
    /\ DaemonTypeOK
    /\ \A p \in Pids : p \notin victims[p]
    /\ \A p \in lone \cup refused : proc[p] # "none"

\* Who has the PID file to itself, as long as nothing has raced.
Named ==
    ~raced =>
        /\ \A p, q \in Pids : proc[p] \in Phases /\ proc[q] \in Phases => p = q
        /\ \A p \in Pids : proc[p] \in Phases => status = NoPid
        /\ \A q \in Pids : proc[q] \in Owning => pidFile = q
        /\ \A p \in Pids : proc[p] = "await" => pidFile \in {target[p], NoPid}
        /\ \A p, q \in Pids : proc[p] \in Cleared => proc[q] \notin Owning
        /\ status # NoPid => \A q \in Pids : proc[q] \notin Owning

\* A lone start is the only one, and has yet to kill what listens.
Alone ==
    /\ \A p \in lone, q \in Pids : proc[p] \in Phases /\ proc[q] \in Phases => p = q
    /\ \A p \in lone : proc[p] \in {"start", "write", "bind"} => port = NoPid
    /\ \A p \in lone : proc[p] \in {"orphan", "orphan_wait"} => port \in victims[p] \cup {NoPid}
    /\ lone \cap refused = {}

\* The invariant.
DaemonInv == Sound /\ Named /\ Alone

------------------------------------------------------------------------------
(* The invariant is inductive *)

\* The invariant holds at first.
LEMMA DaemonInitInv == DaemonInit => DaemonInv
BY DaemonAssumption DEF DaemonInit, DaemonInv, Sound, DaemonTypeOK, Named, Alone, Phases, Owning, Cleared

\* Every step is well typed: what listens serves, and nobody waits for itself.
LEMMA StepSound ==
    ASSUME Sound, DaemonNext
    PROVE  Sound'
<1> USE DaemonAssumption DEF Sound, DaemonTypeOK, Phases, Histories
<1>1. ASSUME NEW p \in Pids, Start(p) PROVE Sound'
  BY <1>1 DEF Start, Step
<1>2. ASSUME NEW p \in Pids, Check(p) PROVE Sound'
  BY <1>2 DEF Check, Step, StepAnd, Alive, Termed, LeavesPort, KeepsPort, Hit
<1>3. ASSUME NEW p \in Pids, Await(p) PROVE Sound'
  BY <1>3 DEF Await, Step
<1>4. ASSUME NEW p \in Pids, AwaitKills(p) PROVE Sound'
  BY <1>4 DEF AwaitKills, StepAnd, LeavesPort, Hit, Alive
<1>5. ASSUME NEW p \in Pids, Unlink(p) PROVE Sound'
  BY <1>5 DEF Unlink, Step
<1>6. ASSUME NEW p \in Pids, Probe(p) PROVE Sound'
  BY <1>6 DEF Probe, Step
<1>7. ASSUME NEW p \in Pids, NEW v \in victims[p], TermOrphan(p, v) PROVE Sound'
  BY <1>7 DEF TermOrphan, StepAnd, Alive, Termed, LeavesPort, Hit
<1>8. ASSUME NEW p \in Pids, KillOrphan(p) PROVE Sound'
  BY <1>8 DEF KillOrphan, StepAnd, LeavesPort, Hit
<1>9. ASSUME NEW p \in Pids, OrphansDone(p) PROVE Sound'
  BY <1>9 DEF OrphansDone, Step
<1>10. ASSUME NEW p \in Pids, StartHub(p) PROVE Sound'
  BY <1>10 DEF StartHub, Step
<1>11. ASSUME NEW p \in Pids, WritePid(p) PROVE Sound'
  BY <1>11 DEF WritePid, Step
<1>12. ASSUME NEW p \in Pids, Bind(p) PROVE Sound'
  BY <1>12 DEF Bind, Step
<1>13. ASSUME NEW p \in Pids, StopServing(p) PROVE Sound'
  BY <1>13 DEF StopServing, Step, LeavesPort
<1>14. ASSUME NEW p \in Pids, StopRuntime(p) PROVE Sound'
  BY <1>14 DEF StopRuntime, Step
<1>15. ASSUME NEW p \in Pids, StopHub(p) PROVE Sound'
  BY <1>15 DEF StopHub, Step
<1>16. ASSUME NEW p \in Pids, Crash(p) PROVE Sound'
  BY <1>16 DEF Crash, Step, LeavesPort, Alive
<1>17. ASSUME NEW p \in Pids, ReusePid(p) PROVE Sound'
  BY <1>17 DEF ReusePid, Step
<1>18. ASSUME NEW c \in Clients, ClientConnects(c) PROVE Sound'
  BY <1>18 DEF ClientConnects
<1>19. CASE StatusReads
  BY <1>19 DEF StatusReads, Alive, Starting
<1>20. CASE StatusUnlinks
  BY <1>20 DEF StatusUnlinks
<1> QED
  BY <1>1, <1>2, <1>3, <1>4, <1>5, <1>6, <1>7, <1>8, <1>9, <1>10,
     <1>11, <1>12, <1>13, <1>14, <1>15, <1>16, <1>17, <1>18, <1>19, <1>20 DEF DaemonNext, StartStep

\* Every step keeps the PID file with its owner while nothing races.
LEMMA StepNamed ==
    ASSUME Sound, Named, DaemonNext
    PROVE  Named'
<1> USE DaemonAssumption DEF Sound, DaemonTypeOK, Named, Phases, Owning, Cleared, Histories
<1>1. ASSUME NEW p \in Pids, Start(p) PROVE Named'
  <2>1. ~raced' => ~raced /\ Starting = {} /\ status = NoPid
    BY <1>1, Zenon DEF Start
  <2>2. ~raced' => \A q \in Pids : q # p => proc'[q] \notin Phases /\ proc'[q] = proc[q]
    BY <1>1, <2>1 DEF Start, Step, Starting
  <2> QED
    BY <1>1, <2>1, <2>2 DEF Start, Step
<1>2. ASSUME NEW p \in Pids, Check(p) PROVE Named'
  BY <1>2 DEF Check, Step, StepAnd, Alive, Termed, LeavesPort, KeepsPort, Hit
<1>3. ASSUME NEW p \in Pids, Await(p) PROVE Named'
  BY <1>3 DEF Await, Step, Alive
<1>4. ASSUME NEW p \in Pids, AwaitKills(p) PROVE Named'
  BY <1>4 DEF AwaitKills, StepAnd, LeavesPort, Hit, Alive
<1>5. ASSUME NEW p \in Pids, Unlink(p) PROVE Named'
  BY <1>5 DEF Unlink, Step
<1>6. ASSUME NEW p \in Pids, Probe(p) PROVE Named'
  BY <1>6 DEF Probe, Step
<1>7. ASSUME NEW p \in Pids, NEW v \in victims[p], TermOrphan(p, v) PROVE Named'
  BY <1>7 DEF TermOrphan, StepAnd, Alive, Termed, LeavesPort, Hit
<1>8. ASSUME NEW p \in Pids, KillOrphan(p) PROVE Named'
  BY <1>8 DEF KillOrphan, StepAnd, LeavesPort, Hit
<1>9. ASSUME NEW p \in Pids, OrphansDone(p) PROVE Named'
  BY <1>9 DEF OrphansDone, Step
<1>10. ASSUME NEW p \in Pids, StartHub(p) PROVE Named'
  BY <1>10 DEF StartHub, Step
<1>11. ASSUME NEW p \in Pids, WritePid(p) PROVE Named'
  BY <1>11 DEF WritePid, Step
<1>12. ASSUME NEW p \in Pids, Bind(p) PROVE Named'
  BY <1>12 DEF Bind, Step
<1>13. ASSUME NEW p \in Pids, StopServing(p) PROVE Named'
  BY <1>13 DEF StopServing, Step, LeavesPort
<1>14. ASSUME NEW p \in Pids, StopRuntime(p) PROVE Named'
  BY <1>14 DEF StopRuntime, Step
<1>15. ASSUME NEW p \in Pids, StopHub(p) PROVE Named'
  BY <1>15 DEF StopHub, Step
<1>16. ASSUME NEW p \in Pids, Crash(p) PROVE Named'
  BY <1>16 DEF Crash, Step, LeavesPort, Alive
<1>17. ASSUME NEW p \in Pids, ReusePid(p) PROVE Named'
  BY <1>17 DEF ReusePid, Step
<1>18. ASSUME NEW c \in Clients, ClientConnects(c) PROVE Named'
  BY <1>18 DEF ClientConnects
<1>19. CASE StatusReads
  BY <1>19 DEF StatusReads, Alive, Starting
<1>20. CASE StatusUnlinks
  BY <1>20 DEF StatusUnlinks
<1> QED
  BY <1>1, <1>2, <1>3, <1>4, <1>5, <1>6, <1>7, <1>8, <1>9, <1>10,
     <1>11, <1>12, <1>13, <1>14, <1>15, <1>16, <1>17, <1>18, <1>19, <1>20 DEF DaemonNext, StartStep

\* Every step keeps the port of a lone start.
LEMMA StepAlone ==
    ASSUME Sound, Alone, DaemonNext
    PROVE  Alone'
<1> USE DaemonAssumption DEF Sound, DaemonTypeOK, Alone, Phases, Histories
<1>1. ASSUME NEW p \in Pids, Start(p) PROVE Alone'
  BY <1>1 DEF Start, Step, Starting
<1>2. ASSUME NEW p \in Pids, Check(p) PROVE Alone'
  BY <1>2 DEF Check, Step, StepAnd, Alive, Termed, LeavesPort, KeepsPort, Hit
<1>3. ASSUME NEW p \in Pids, Await(p) PROVE Alone'
  BY <1>3 DEF Await, Step
<1>4. ASSUME NEW p \in Pids, AwaitKills(p) PROVE Alone'
  BY <1>4 DEF AwaitKills, StepAnd, LeavesPort, Hit, Alive
<1>5. ASSUME NEW p \in Pids, Unlink(p) PROVE Alone'
  BY <1>5 DEF Unlink, Step
<1>6. ASSUME NEW p \in Pids, Probe(p) PROVE Alone'
  BY <1>6 DEF Probe, Step
<1>7. ASSUME NEW p \in Pids, NEW v \in victims[p], TermOrphan(p, v) PROVE Alone'
  BY <1>7 DEF TermOrphan, StepAnd, Alive, Termed, LeavesPort, Hit
<1>8. ASSUME NEW p \in Pids, KillOrphan(p) PROVE Alone'
  BY <1>8 DEF KillOrphan, StepAnd, LeavesPort, Hit
<1>9. ASSUME NEW p \in Pids, OrphansDone(p) PROVE Alone'
  BY <1>9 DEF OrphansDone, Step
<1>10. ASSUME NEW p \in Pids, StartHub(p) PROVE Alone'
  BY <1>10 DEF StartHub, Step
<1>11. ASSUME NEW p \in Pids, WritePid(p) PROVE Alone'
  BY <1>11 DEF WritePid, Step
<1>12. ASSUME NEW p \in Pids, Bind(p) PROVE Alone'
  BY <1>12 DEF Bind, Step
<1>13. ASSUME NEW p \in Pids, StopServing(p) PROVE Alone'
  BY <1>13 DEF StopServing, Step, LeavesPort
<1>14. ASSUME NEW p \in Pids, StopRuntime(p) PROVE Alone'
  BY <1>14 DEF StopRuntime, Step
<1>15. ASSUME NEW p \in Pids, StopHub(p) PROVE Alone'
  BY <1>15 DEF StopHub, Step
<1>16. ASSUME NEW p \in Pids, Crash(p) PROVE Alone'
  BY <1>16 DEF Crash, Step, LeavesPort, Alive
<1>17. ASSUME NEW p \in Pids, ReusePid(p) PROVE Alone'
  BY <1>17 DEF ReusePid, Step
<1>18. ASSUME NEW c \in Clients, ClientConnects(c) PROVE Alone'
  BY <1>18 DEF ClientConnects
<1>19. CASE StatusReads
  BY <1>19 DEF StatusReads, Alive, Starting
<1>20. CASE StatusUnlinks
  BY <1>20 DEF StatusUnlinks
<1> QED
  BY <1>1, <1>2, <1>3, <1>4, <1>5, <1>6, <1>7, <1>8, <1>9, <1>10,
     <1>11, <1>12, <1>13, <1>14, <1>15, <1>16, <1>17, <1>18, <1>19, <1>20 DEF DaemonNext, StartStep

\* The invariant is kept by every step, and by stuttering.
LEMMA DaemonStep == DaemonInv /\ [DaemonNext]_daemonVars => DaemonInv'
<1> SUFFICES ASSUME DaemonInv, [DaemonNext]_daemonVars PROVE DaemonInv'
  OBVIOUS
<1>1. CASE DaemonNext
  BY <1>1, StepSound, StepNamed, StepAlone DEF DaemonInv
<1>2. CASE UNCHANGED daemonVars
  BY <1>2 DEF DaemonInv, Sound, DaemonTypeOK, Named, Alone, daemonVars
<1> QED
  BY <1>1, <1>2

------------------------------------------------------------------------------
(* Theorems *)

\* Whatever is started, stopped, killed and reused in whichever order, the
\* inductive invariant holds.
THEOREM DaemonInvariant == DaemonSpec => []DaemonInv
<1>1. DaemonInit => DaemonInv
  BY DaemonInitInv
<1>2. DaemonInv /\ [DaemonNext]_daemonVars => DaemonInv'
  BY DaemonStep
<1> QED
  BY <1>1, <1>2, PTL DEF DaemonSpec

\* What listens on the port serves, and a start never waits for itself.
THEOREM DaemonTypes == DaemonSpec => []DaemonTypeOK
<1>1. DaemonInv => DaemonTypeOK
  BY DEF DaemonInv, Sound
<1> QED
  BY <1>1, DaemonInvariant, PTL

\* Without a race the PID file names the hub that serves: neither the hub that
\* was replaced (remove_pid_file at its end) nor a status command removes the
\* file of the hub that came after it.
THEOREM PidFileNamesServer == DaemonSpec => []ServingNamed
<1>1. DaemonInv => ServingNamed
  BY DEF DaemonInv, Named, ServingNamed, Owning
<1> QED
  BY <1>1, DaemonInvariant, PTL

\* A start that no other start overlaps is not refused the port: what
\* _kill_existing_hub found there is dead or closing when uvicorn binds.
THEOREM LoneStartFindsPort == DaemonSpec => []LoneStartBinds
<1>1. DaemonInv => LoneStartBinds
  BY DEF DaemonInv, Alone, LoneStartBinds
<1> QED
  BY <1>1, DaemonInvariant, PTL

================================================================================
