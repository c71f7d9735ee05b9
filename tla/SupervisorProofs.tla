---------------------------- MODULE SupervisorProofs ----------------------------
(***************************************************************************)
(* Proofs about module Supervisor: the manager with its supervisors, for   *)
(* any number of backends and tasks, every operation and every fault.      *)
(*                                                                         *)
(* A step of the hub is one of the manager, seen by supervisors that stay  *)
(* where they are (Outside), or one of a supervisor, the coordinator, the  *)
(* retries or the shutdown (SupMoves).  SupTyped has the types, where each *)
(* task is, and the invariant IInv of every connection.  SupInv ties       *)
(* each supervisor to its connection object: nobody else owns it (Apart),  *)
(* so that what opens a breaker, sets a drop event or marks a connection   *)
(* as failed is the step of one supervisor.                                *)
(*                                                                         *)
(* The last section is about the shutdown of a fleet in which only         *)
(* start-up, supervisors, the reaper and the stop route act (Unattended):  *)
(* QuietInv says that everything that is up or comes up is registered      *)
(* (Backed), so that disconnect_all finds it, and that supervisors rest    *)
(* before it closes anything (Closing).                                    *)
(***************************************************************************)
EXTENDS Supervisor, ManagerProofs

\* Where only supervisors are, and where only the shutdown is.
Supervising == {"start", "attempt", "backoff", "watch", "auth", "done"}
Halting == {"stopping", "disconnecting"}

\* The task of a supervisor is one, on a connection object from its start on;
\* an attempt is one at that connection, and only the shutdown cancels it.
Supervised(n) ==
    /\ Sup(n).op = "supervise"
    /\ Sup(n).name = n
    /\ Sup(n).pc \in Supervising \cup {"idle"}
    /\ Exists(n) => Sup(n).conn \in Conns
    /\ At(SupTask[n], "attempt") => job[SupTask[n]].conn = Sup(n).conn
    /\ At(SupTask[n], "done") /\ job[SupTask[n]].op # "idle" => ~Serving

\* At most one task retries, from the end of connect_all on, and it only sleeps
\* before a pass that is left.
Retries ==
    /\ \A t \in Tasks : frame[t].pc \in {"asleep", "next", "dropping"} => frame[t].op = "retry"
    /\ \A t, u \in Tasks : frame[t].op = "retry" /\ frame[u].op = "retry" => t = u
    /\ \A t \in Tasks : frame[t].op = "retry" => phase # "boot"
    /\ phase = "boot" => retriesLeft = FastRetries
    /\ \A t \in Tasks : At(t, "asleep") => retriesLeft # 0

\* Every task is where it belongs.
Posted ==
    /\ \A n \in Names : Supervised(n)
    /\ \A t \in Tasks : frame[t].pc \in Halting => ~Serving
    /\ Retries

\* Types of the fleet with its supervisors.
SupTyped ==
    /\ MgrTyped
    /\ IInv
    /\ SupTypeOK
    /\ Posted

\* The task of a supervisor is that of one backend.
LEMMA SupTasks ==
    /\ \A n \in Names : SupTask[n] \in Tasks /\ SupTask[n] \in Owned
    /\ \A m, n \in Names : SupTask[m] = SupTask[n] => m = n
BY SupervisorAssumption DEF Injection, IsInjective, Owned

------------------------------------------------------------------------------
(* What the steps of the manager do to the tasks and to the tables *)

\* Where the manager leaves a task that was in frame f: none becomes a
\* supervisor, the shutdown or a new series of retries.
Onward(f, g) ==
    /\ g.pc \notin Supervising \cup Halting \cup {"asleep", "dropping"}
    /\ g.pc = "next" => g.op = "retry"
    /\ g.op = "retry" => f.op = "retry"

\* One task moves, and may wake others that joined its attempt.
Advances(t) ==
    /\ OnlyTask(t)
    /\ \A u \in Tasks \ {t} :
          \/ frame'[u] = frame[u]
          \/ frame[u].pc = "joining" /\ frame'[u] = [frame[u] EXCEPT !.pc = "joined"]
    /\ Onward(frame[t], frame'[t])

\* A backend gets a new connection object, or backends lose theirs.
Registers ==
    \/ \A n \in Names : connections'[n] \in {connections[n], NoConn}
    \/ \E m \in Names :
          /\ NewConn \in Conns /\ FreshConn(NewConn) /\ state'[NewConn] = "connecting"
          /\ connections' = [connections EXCEPT ![m] = NewConn]

\* One frame is replaced.
LEMMA AdvanceSet ==
    ASSUME MgrTyped, NEW t \in Tasks, NEW f, OnlyTask(t), frame' = [frame EXCEPT ![t] = f],
           Onward(frame[t], f)
    PROVE  Advances(t)
BY DEF MgrTyped, MgrTypeOK, Advances

\* _connect_timed.
LEMMA AdvanceConnects ==
    ASSUME MgrTyped, NEW t \in Tasks, NEW op, NEW n \in Names, ConnectTimed(t, op, n),
           op = "retry" => frame[t].op = "retry"
    PROVE  Advances(t) /\ Registers
<1> DEFINE f == NewFrame(op, IF connecting[n] = NoTask THEN "connecting" ELSE "joining", n, NoName)
<1>1. Onward(frame[t], f)
  BY DEF NewFrame, Supervising, Halting, Onward
<1>2. OnlyTask(t) /\ frame' = [frame EXCEPT ![t] = f]
  BY ConnectBegins
<1>3. Registers
  <2>1. CASE connecting[n] = NoTask
    BY <2>1, ConnectBegins DEF Registers
  <2>2. CASE connecting[n] # NoTask
    BY <2>2, ConnectBegins DEF Registers
  <2> QED
    BY <2>1, <2>2
<1> HIDE DEF f
<1> QED
  BY <1>1, <1>2, <1>3, AdvanceSet

\* evict().
LEMMA AdvanceEvicts ==
    ASSUME MgrTyped, NEW t \in Tasks, NEW v \in Names, EvictBegin(t, v), NEW f,
           f.pc = "evicting", f.op # "retry", frame' = [frame EXCEPT ![t] = f]
    PROVE  Advances(t) /\ Registers
<1>1. OnlyTask(t)
  BY NamedConn, DrainBegins DEF EvictBegin, MgrTyped
<1>2. UNCHANGED connections
  BY DEF EvictBegin
<1> QED
  BY <1>1, <1>2, AdvanceSet DEF Registers, Supervising, Halting, Onward

\* add_server.
LEMMA AdvanceAdds ==
    ASSUME MgrTyped, NEW t \in Tasks, NEW op, NEW n \in Names, AddServer(t, op, n), op # "retry"
    PROVE  Advances(t) /\ Registers
<1>1. CASE Return(t) /\ UNCHANGED <<connVars, connections>>
  BY <1>1, AdvanceSet DEF Return, NoFrame, Registers, connVars, OnlyTask, Supervising, Halting, Onward
<1>2. CASE ConnectTimed(t, op, n)
  BY <1>2, AdvanceConnects
<1> QED
  BY <1>1, <1>2 DEF AddServer

\* A caller goes on after _connect_timed.
LEMMA AfterConnectOnward ==
    ASSUME MgrTyped, NEW t \in Tasks
    PROVE  Onward(frame[t], AfterConnect(t))
<1>1. frame[t] \in Frame
  BY DEF MgrTyped, MgrTypeOK
<1> QED
  BY <1>1 DEF AfterConnect, NoFrame, Frame, Onward, Supervising, Halting

\* The end of an attempt.
LEMMA AttemptEndsOnward ==
    ASSUME MgrTyped, NEW t \in Tasks, AttemptEnds(t), OnlyTask(t)
    PROVE  Advances(t)
<1>1. frame'[t] = AfterConnect(t)
  BY DEF AttemptEnds
<1>2. ASSUME NEW u \in Tasks \ {t}
      PROVE  frame'[u] = frame[u] \/ (frame[u].pc = "joining" /\ frame'[u] = [frame[u] EXCEPT !.pc = "joined"])
  BY DEF AttemptEnds, At
<1> QED
  BY <1>1, <1>2, AfterConnectOnward DEF Advances

\* An operation that goes on is suspended in a method of a connection, or is
\* one of the manager's own.
LEMMA ContinueAdvances ==
    ASSUME MgrTyped, NEW t \in Tasks, Continue(t)
    PROVE  /\ Upstream(t) \/ (frame[t].pc \notin Supervising \cup Halting \cup {"idle"} /\ Advances(t))
           /\ Registers
<1>0. /\ Typed /\ frame \in [Tasks -> Frame] /\ FrameShape(frame[t]) /\ connections \in [Names -> Conns \cup {NoConn}]
  BY DEF MgrTyped, MgrTypeOK, Shaped
<1>r. ASSUME Return(t), OnlyTask(t) PROVE Advances(t)
  BY <1>r, AdvanceSet DEF Return, NoFrame, Supervising, Halting, Onward
<1>g. ASSUME NEW pc \in {"gate", "calling", "evicting", "add"}, Goto(t, pc), OnlyTask(t) PROVE Advances(t)
  <2> DEFINE f == [frame[t] EXCEPT !.pc = pc]
  <2>1. f.pc = pc /\ f.op = frame[t].op /\ frame' = [frame EXCEPT ![t] = f]
    BY <1>0, <1>g DEF Goto, Frame
  <2> HIDE DEF f
  <2> QED
    BY <1>g, <2>1, AdvanceSet DEF Supervising, Halting, Onward
<1>u. ASSUME UNCHANGED connections PROVE Registers
  BY <1>u DEF Registers
<1>1. CASE Upstream(t)
  BY <1>1, <1>u DEF Upstream, mgrVars
<1>2. CASE ConnectSucceeded(t) \/ ConnectErrored(t)
  <2>1. OnlyTask(t) /\ UNCHANGED connections /\ At(t, "connecting") /\ AttemptEnds(t)
    BY <1>0, <1>2, Collects DEF ConnectSucceeded, ConnectErrored
  <2> QED
    BY <1>u, <2>1, AttemptEndsOnward DEF At, Supervising, Halting
<1>3. CASE ConnectExpires(t)
  <2>1. OnlyTask(t) /\ UNCHANGED mgrVars /\ At(t, "connecting")
    BY <1>0, <1>3, FinishAt DEF ConnectExpires, ConnectTimedOut, OnlyTask
  <2> QED
    BY <1>u, <2>1 DEF Advances, mgrVars, At, Supervising, Halting, Onward
<1>4. CASE Joined(t)
  <2>1. OnlyTask(t) /\ UNCHANGED connections /\ At(t, "joined") /\ SetFrame(t, AfterConnect(t))
    BY <1>4 DEF Joined, connVars, OnlyTask
  <2> QED
    BY <1>u, <2>1, AfterConnectOnward, AdvanceSet DEF SetFrame, At, Supervising, Halting
<1>5. CASE EvictEnd(t)
  <2>1. CASE frame[t].name = NoName
    BY <1>0, <1>5, <1>r, <1>u, <2>1, Collects DEF EvictEnd, At, Supervising, Halting
  <2>2. CASE frame[t].name # NoName
    <3>1. frame[t].name \in Names
      BY <1>0, <2>2 DEF Frame
    <3> QED
      BY <1>5, <2>2, <3>1, AdvanceConnects DEF EvictEnd, At, Supervising, Halting
  <2> QED
    BY <2>1, <2>2
<1>6. CASE ReaperEvicts(t)
  <2>1. At(t, "evict") /\ frame[t].victim \in Names
    BY <1>0, <1>6 DEF ReaperEvicts, At, FrameShape
  <2>2. CASE EvictBegin(t, frame[t].victim) /\ Goto(t, "evicting")
    <3>1. OnlyTask(t) /\ UNCHANGED connections
      BY <1>0, <2>1, <2>2, NamedConn, DrainBegins DEF EvictBegin
    <3> QED
      BY <1>g, <1>u, <2>1, <2>2, <3>1 DEF At, Supervising, Halting
  <2>3. CASE Return(t) /\ UNCHANGED <<connVars, connections>>
    BY <1>r, <1>u, <2>1, <2>3 DEF connVars, OnlyTask, At, Supervising, Halting
  <2> QED
    BY <1>6, <2>2, <2>3 DEF ReaperEvicts
<1>7. CASE ReconnectClosed(t)
  <2>1. At(t, "closing") /\ frame[t].name \in Names
    BY <1>0, <1>7 DEF ReconnectClosed, At, FrameShape
  <2> QED
    BY <1>7, <2>1, AdvanceConnects DEF ReconnectClosed, At, Supervising, Halting
<1>8. CASE Dispatch(t)
  <2>1. At(t, "gate") /\ OnlyTask(t) /\ UNCHANGED connections /\ Goto(t, "calling")
    BY <1>0, <1>8, CallBegins DEF Dispatch, At, FrameShape
  <2> QED
    BY <1>g, <1>u, <2>1 DEF At, Supervising, Halting
<1>9. CASE RouteEnds(t)
  BY <1>0, <1>9, <1>r, <1>u, Collects DEF RouteEnds, At, Supervising, Halting
<1>10. CASE RemoveEnd(t) \/ ReplaceDrained(t)
  <2>1. At(t, "draining") /\ OnlyTask(t) /\ (Return(t) \/ Goto(t, "add"))
    BY <1>0, <1>10, Collects DEF RemoveEnd, ReplaceDrained, FrameShape, At
  <2>2. \A n \in Names : connections'[n] \in {connections[n], NoConn}
    BY <1>0, <1>10 DEF RemoveEnd, ReplaceDrained
  <2> QED
    BY <1>r, <1>g, <2>1, <2>2 DEF At, Registers, Supervising, Halting
<1>11. CASE ReplaceAdds(t)
  <2>1. At(t, "add") /\ frame[t].name \in Names
    BY <1>0, <1>11 DEF ReplaceAdds, At, FrameShape
  <2>2. Advances(t) /\ Registers
    BY <1>11, <2>1, AdvanceAdds DEF ReplaceAdds
  <2> QED
    BY <2>1, <2>2 DEF At, Supervising, Halting
<1> QED
  BY <1>1, <1>2, <1>3, <1>4, <1>5, <1>6, <1>7, <1>8, <1>9, <1>10, <1>11 DEF Continue

\* The operations of the manager.
LEMMA StartAdvances ==
    ASSUME MgrTyped, NEW t \in Tasks, NEW n \in Names, Start(t, n)
    PROVE  Idle(t) /\ Advances(t) /\ Registers
<1>0. Typed
  BY DEF MgrTyped
<1>1. ASSUME NEW op, op # "retry", NEW m \in Names \cup {NoName}, NEW v \in Names, EvictBegin(t, v),
             SetFrame(t, NewFrame(op, "evicting", m, v))
      PROVE  Advances(t) /\ Registers
  <2> DEFINE f == NewFrame(op, "evicting", m, v)
  <2>1. f.pc = "evicting" /\ f.op # "retry" /\ frame' = [frame EXCEPT ![t] = f]
    BY <1>1 DEF NewFrame, SetFrame
  <2> HIDE DEF f
  <2> QED
    BY <1>1, <2>1, AdvanceEvicts
<1>2. ASSUME NEW op, op # "retry", EnsureConnected(t, op, n) PROVE Advances(t) /\ Registers
  <2>1. \A v \in LRUVictims(n) : v \in Names
    BY DEF LRUVictims, LiveOthers
  <2> QED
    BY <1>1, <1>2, <2>1, AdvanceConnects DEF EnsureConnected
<1>3. CASE Boot(t, n)
  BY <1>3, AdvanceConnects DEF Boot
<1>4. CASE Stop(t, n)
  BY <1>1, <1>4 DEF Stop
<1>5. CASE Warm(t, n)
  BY <1>2, <1>5 DEF Warm
<1>6. CASE Reconnect(t, n)
  <2>1. ASSUME Up(n), Disconnect(t, connections[n]), UNCHANGED connections,
               SetFrame(t, NewFrame("reconnect", "closing", n, NoName))
        PROVE  Advances(t) /\ Registers
    <3>1. OnlyTask(t)
      BY <1>0, <2>1, NamedConn, DisconnectBegins DEF Up
    <3>2. Onward(frame[t], NewFrame("reconnect", "closing", n, NoName))
      BY DEF NewFrame, Supervising, Halting, Onward
    <3> QED
      BY <2>1, <3>1, <3>2, AdvanceSet DEF SetFrame, Registers
  <2>2. ASSUME ConnectTimed(t, "reconnect", n) PROVE Advances(t) /\ Registers
    BY <2>2, AdvanceConnects
  <2>3. Advances(t) /\ Registers
    BY <1>6, <2>1, <2>2 DEF Reconnect
  <2> QED
    BY <1>6, <2>3 DEF Reconnect
<1>7. CASE Route(t, n)
  <2>1. ASSUME NEW op \in {"route", "read"},
               SetFrame(t, [NewFrame(op, "gate", n, NoName) EXCEPT !.conn = connections[n]]),
               UNCHANGED <<connVars, connections>>
        PROVE  Advances(t) /\ Registers
    <3> DEFINE f == [NewFrame(op, "gate", n, NoName) EXCEPT !.conn = connections[n]]
    <3>1. Onward(frame[t], f)
      BY <2>1 DEF NewFrame, Supervising, Halting, Onward
    <3>2. OnlyTask(t) /\ frame' = [frame EXCEPT ![t] = f] /\ Registers
      BY <2>1 DEF connVars, OnlyTask, SetFrame, Registers
    <3> HIDE DEF f
    <3> QED
      BY <3>1, <3>2, AdvanceSet
  <2> QED
    BY <1>2, <1>7, <2>1 DEF Route
<1>8. CASE Add(t, n)
  BY <1>8, AdvanceAdds DEF Add
<1>9. CASE \E op \in {"remove", "replace"} : DrainOld(t, op, n)
  <2>1. PICK op \in {"remove", "replace"} : DrainOld(t, op, n)
    BY <1>9
  <2>2. OnlyTask(t) /\ Registers
    BY <1>0, <2>1, NamedConn, DrainBegins DEF DrainOld, Registers
  <2>3. Onward(frame[t], NewFrame(op, "draining", n, NoName))
    BY DEF NewFrame, Supervising, Halting, Onward
  <2> QED
    BY <2>1, <2>2, <2>3, AdvanceSet DEF DrainOld, SetFrame
<1>10. CASE Replace(t, n) /\ ~DrainOld(t, "replace", n)
  BY <1>10, AdvanceAdds DEF Replace
<1>11. Idle(t)
  BY DEF Start, Boot, Stop, Warm, Reconnect, Route, Add, Remove, Replace, DrainOld
<1> QED
  BY <1>3, <1>4, <1>5, <1>6, <1>7, <1>8, <1>9, <1>10, <1>11 DEF Start, Remove
------------------------------------------------------------------------------
(* Types *)

\* What the supervisors see of a step of the manager: their tasks stay where
\* they are, an attempt of theirs may go on, and nobody begins what the manager
\* does not know of.
Outside ==
    /\ \A n \in Names : frame'[SupTask[n]] = frame[SupTask[n]]
    /\ \A n \in Names :
          \/ job'[SupTask[n]] = job[SupTask[n]]
          \/ At(SupTask[n], "attempt") /\ job'[SupTask[n]].conn = job[SupTask[n]].conn
    /\ \A t \in Tasks : frame'[t] = frame[t] \/ Onward(frame[t], frame'[t])

\* The steps of the manager that module Supervisor admits.
Managing ==
    \/ \E t \in Tasks : Continue(t)
    \/ Serving /\ \E t \in Tasks \ Owned, n \in Names : Start(t, n)
    \/ Serving /\ phase # "boot" /\ Sweep
    \/ \E n \in Names : Ages(n)

\* They are such steps.
LEMMA ManagingOutside ==
    ASSUME SupTyped, Managing
    PROVE  Outside /\ Registers
<1>0. /\ Typed /\ MgrTyped /\ frame \in [Tasks -> Frame]
      /\ \A n \in Names : Supervised(n) /\ TaskFits(Sup(n), job[SupTask[n]])
  BY SupTasks DEF SupTyped, Posted, MgrTyped, MgrTypeOK, Shaped, Sup
<1>1. ASSUME NEW t \in Tasks, Advances(t), \A n \in Names : SupTask[n] # t
      PROVE  Outside
  <2>1. ASSUME NEW u \in Tasks \ {t}, frame'[u] = [frame[u] EXCEPT !.pc = "joined"]
        PROVE  Onward(frame[u], frame'[u])
    BY <1>0, <2>1 DEF Onward, Frame, Supervising, Halting
  <2>2. \A n \in Names : frame[SupTask[n]].pc # "joining"
    BY <1>0 DEF Supervised, Sup, Supervising
  <2> QED
    BY <1>1, <2>1, <2>2, SupTasks DEF Outside, Advances, OnlyTask
<1>2. ASSUME NEW t \in Tasks, Continue(t) PROVE Outside /\ Registers
  <2>1. CASE Upstream(t)
    <3>1. UNCHANGED frame /\ OnlyTask(t) /\ job'[t].conn = job[t].conn /\ Registers
      BY <1>0, <1>2, <2>1, UpstreamMoves, ContinueAdvances DEF Upstream, mgrVars
    <3>2. ASSUME NEW n \in Names, SupTask[n] = t PROVE At(SupTask[n], "attempt")
      <4>1. job[SupTask[n]].op \notin {"idle", "raised"}
        BY <1>0, <2>1, <3>2, UpstreamMoves
      <4> QED
        BY <1>0, <4>1 DEF Supervised, Supervising, TaskFits, Sup, At
    <3> QED
      BY <3>1, <3>2, SupTasks DEF Outside, OnlyTask
  <2>2. CASE frame[t].pc \notin Supervising \cup Halting \cup {"idle"} /\ Advances(t)
    <3>1. \A n \in Names : SupTask[n] # t
      BY <1>0, <2>2 DEF Supervised, Sup
    <3> QED
      BY <1>0, <1>1, <1>2, <2>2, <3>1, ContinueAdvances
  <2> QED
    BY <1>0, <1>2, <2>1, <2>2, ContinueAdvances
<1>3. ASSUME NEW t \in Tasks \ Owned, NEW n \in Names, Start(t, n) PROVE Outside /\ Registers
  BY <1>0, <1>1, <1>3, SupTasks, StartAdvances
<1>4. CASE Sweep
  <2>1. UNCHANGED <<job, connections>>
    BY <1>4 DEF Sweep, connVars
  <2>2. \A t \in Tasks : frame'[t] = frame[t] \/ (frame[t] = NoFrame /\ Onward(frame[t], frame'[t]))
    <3>1. \A v \in Names, t \in Tasks : Onward(frame[t], NewFrame("reap", "evict", NoName, v))
      BY DEF NewFrame, Onward, Supervising, Halting
    <3> QED
      BY <1>0, <1>4, <3>1, SweepFrames DEF Idle
  <2>3. \A n \in Names : frame[SupTask[n]] # NoFrame
    BY <1>0 DEF Supervised, Sup, NoFrame
  <2> QED
    BY <2>1, <2>2, <2>3, SupTasks DEF Outside, Registers
<1>5. ASSUME NEW n \in Names, Ages(n) PROVE Outside /\ Registers
  BY <1>5 DEF Ages, connVars, Outside, Registers
<1> QED
  BY <1>2, <1>3, <1>4, <1>5 DEF Managing

\* Supervisors that are not moved by a step.
LEMMA PostedSame ==
    ASSUME SupTyped, Outside, ~Serving => ~Serving', phase' = "boot" => phase = "boot", UNCHANGED retriesLeft
    PROVE  Posted'
<1>1. ASSUME NEW n \in Names PROVE Supervised(n)'
  <2>1. Supervised(n) /\ Sup(n)' = Sup(n)
    BY DEF SupTyped, Posted, Outside, Sup
  <2>2. job'[SupTask[n]] = job[SupTask[n]] \/ (At(SupTask[n], "attempt") /\ job'[SupTask[n]].conn = job[SupTask[n]].conn)
    BY DEF Outside
  <2> QED
    BY <2>1, <2>2 DEF Supervised, Sup, At, Exists
<1>2. \A t \in Tasks : frame'[t].pc \in Halting => ~Serving'
  BY DEF SupTyped, Posted, Outside, Onward
<1>3. Retries'
  BY DEF SupTyped, Posted, Outside, Onward, Retries, At
<1> QED
  BY <1>1, <1>2, <1>3 DEF Posted

\* The tables and counters of the supervisors.
Counters ==
    /\ phase \in {"boot", "plain", "supervised", "stopping", "down"}
    /\ health \in [Names -> Health]
    /\ dropped \in SUBSET Names
    /\ retriesLeft \in 0..FastRetries
    /\ retryNames \in SUBSET Names

\* What the types are made of.
LEMMA SupTypedBy ==
    /\ SupTyped => Framed /\ Tables /\ Typed /\ Counters
    /\ SupTyped' <=> IInv' /\ Framed' /\ Tables' /\ Counters' /\ Posted'
BY DEF SupTyped, MgrTyped, MgrTypeOK, IInv, Typed, Framed, Tables, SupTypeOK, Counters

\* A supervisor moves.
LEMMA SupMove ==
    ASSUME SupTyped, NEW n \in Names, NEW pc \in Supervising, OnlyTask(SupTask[n]),
           frame' = [frame EXCEPT ![SupTask[n]] = [frame[SupTask[n]] EXCEPT !.pc = pc]],
           UNCHANGED <<phase, retriesLeft>>,
           Exists(n), TaskFits([Sup(n) EXCEPT !.pc = pc], job'[SupTask[n]]),
           pc = "attempt" => job'[SupTask[n]].conn = Sup(n).conn,
           pc = "done" /\ job'[SupTask[n]].op # "idle" => ~Serving
    PROVE  Framed' /\ Posted'
<1> DEFINE s == SupTask[n]
           f == [Sup(n) EXCEPT !.pc = pc]
<1>0. /\ s \in Tasks /\ frame \in [Tasks -> Frame] /\ Framed /\ frame' = [frame EXCEPT ![s] = f]
      /\ Supervised(n) /\ Serving' = Serving
  BY SupTasks, SupTypedBy DEF Framed, Sup, SupTyped, Posted, Serving
<1>1. f \in Frame /\ f.pc = pc /\ f.op = "supervise" /\ f.name = n /\ f.conn = Sup(n).conn
  BY <1>0 DEF Frame, Sup, Supervising, Supervised
<1>2. FrameShape(f)
  BY <1>1 DEF FrameShape, Supervising
<1>3. frame'[s] = f /\ \A t \in Tasks \ {s} : frame'[t] = frame[t]
  BY <1>0
<1> HIDE DEF f
<1>4. Framed'
  BY <1>0, <1>1, <1>2, FrameStep DEF f
<1>5. ASSUME NEW m \in Names PROVE Supervised(m)'
  <2>1. CASE m = n
    BY <1>0, <1>1, <1>3, <2>1 DEF Supervised, Sup, At, Exists
  <2>2. CASE m # n
    <3>1. SupTask[m] \in Tasks \ {s}
      BY <2>2, SupTasks
    <3> QED
      BY <1>0, <1>3, <3>1 DEF SupTyped, Posted, Supervised, Sup, At, Exists, OnlyTask
  <2> QED
    BY <2>1, <2>2
<1>6. \A t \in Tasks : frame'[t].pc \in Halting => ~Serving'
  BY <1>0, <1>1, <1>3 DEF SupTyped, Posted, Supervising, Halting
<1>7. Retries'
  BY <1>1, <1>3 DEF SupTyped, Posted, Supervising, Retries, At
<1> QED
  BY <1>4, <1>5, <1>6, <1>7 DEF Posted

\* A task that is no supervisor moves.
LEMMA OtherMove ==
    ASSUME SupTyped, NEW t \in Tasks \ Owned, NEW f \in Frame, OnlyTask(t), frame' = [frame EXCEPT ![t] = f],
           FrameShape(f), TaskFits(f, job'[t]),
           ~Serving => ~Serving', phase' = "boot" => phase = "boot",
           f.pc \in Halting => ~Serving',
           f.pc \in {"asleep", "next", "dropping"} => f.op = "retry",
           f.op = "retry" => (frame[t].op = "retry" \/ phase = "boot") /\ phase' # "boot",
           f.pc = "asleep" => retriesLeft' # 0,
           UNCHANGED retriesLeft \/ frame[t].op = "retry"
    PROVE  Framed' /\ Posted'
<1>1. Framed'
  BY FrameStep, SupTypedBy
<1>2. frame'[t] = f /\ \A u \in Tasks \ {t} : frame'[u] = frame[u]
  BY SupTypedBy DEF Framed
<1>3. ASSUME NEW m \in Names PROVE Supervised(m)'
  BY <1>2, SupTasks DEF SupTyped, Posted, Supervised, Sup, At, Exists, OnlyTask
<1>4. \A u \in Tasks : frame'[u].pc \in Halting => ~Serving'
  BY <1>2 DEF SupTyped, Posted
<1>5. Retries'
  BY <1>2 DEF SupTyped, Posted, Retries, At
<1> QED
  BY <1>1, <1>3, <1>4, <1>5 DEF Posted

\* A task at a place of the manager, of fast_retry_failed or of the shutdown is
\* no supervisor.
LEMMA NotOwned ==
    ASSUME SupTyped, NEW t \in Tasks, frame[t].pc \notin Supervising \cup {"idle"} \/ frame[t] = NoFrame
    PROVE  t \notin Owned
BY DEF SupTyped, Posted, Supervised, Sup, Owned, NoFrame

\* The start: supervisors that do not exist yet, no retries.
LEMMA SupInitTyped == SupInit => SupTyped
<1> SUFFICES ASSUME SupInit PROVE SupTyped
  OBVIOUS
<1>1. IInv /\ Typed /\ \A t \in Tasks : job[t] = IdleJob
  BY InitInv DEF SupInit, MgrInit, ConnInit, IInv
<1>2. ASSUME NEW n \in Names PROVE Sup(n) = SupFrame(n, "idle", NoConn)
  <2>1. (CHOOSE m \in Names : SupTask[m] = SupTask[n]) = n
    BY SupTasks
  <2> QED
    BY <2>1, SupTasks DEF SupInit, Sup
<1>3. \A t \in Tasks : frame[t] = NoFrame \/ \E n \in Names : SupTask[n] = t /\ frame[t] = SupFrame(n, "idle", NoConn)
  BY <1>2 DEF SupInit, Owned, Sup
<1>4. ASSUME NEW n \in Names
      PROVE  /\ SupFrame(n, "idle", NoConn) \in Frame
             /\ SupFrame(n, "idle", NoConn).pc = "idle" /\ SupFrame(n, "idle", NoConn).op = "supervise"
             /\ SupFrame(n, "idle", NoConn).name = n
  BY DEF SupFrame, NewFrame, Frame
<1>5. Framed
  <2>1. ASSUME NEW t \in Tasks
        PROVE  frame[t] \in Frame /\ FrameShape(frame[t]) /\ TaskFits(frame[t], job[t])
    <3>1. CASE frame[t] = NoFrame
      BY <1>1, <3>1, NoFrameFits
    <3>2. ASSUME NEW n \in Names, frame[t] = SupFrame(n, "idle", NoConn)
          PROVE  frame[t] \in Frame /\ FrameShape(frame[t]) /\ TaskFits(frame[t], job[t])
      BY <1>1, <1>4, <3>2 DEF FrameShape, TaskFits, IdleJob
    <3> QED
      BY <1>3, <3>1, <3>2
  <2>2. frame = [t \in Tasks |-> frame[t]]
    BY DEF SupInit
  <2> QED
    BY <2>1, <2>2 DEF Framed, Shaped
<1>6. Tables
  BY DEF SupInit, MgrInit, Tables
<1>7. Counters
  BY SupervisorAssumption DEF SupInit, Counters, Health, Healthy
<1>8. Posted
  <2>1. \A n \in Names : Supervised(n)
    BY <1>2, <1>4 DEF Supervised, At, Sup, Exists
  <2>2. \A t \in Tasks : frame[t].pc = "idle" /\ frame[t].op # "retry"
    BY <1>3, <1>4 DEF NoFrame
  <2> QED
    BY <2>1, <2>2 DEF SupInit, Posted, Retries, Halting, At
<1> QED
  BY <1>1, <1>5, <1>6, <1>7, <1>8 DEF SupTyped, MgrTyped, MgrTypeOK, IInv, Typed, Framed, Tables, SupTypeOK, Counters

\* The head of the loop.
LEMMA LoopTopTyped ==
    ASSUME SupTyped, NEW n \in Names, LoopTop(n)
    PROVE  SupTyped'
<1> DEFINE s == SupTask[n]
           c == Sup(n).conn
<1>0. s \in Tasks /\ c \in Conns /\ Exists(n) /\ IInv /\ Framed /\ Tables /\ Typed /\ Counters
  BY SupTasks, SupTypedBy DEF SupTyped, Posted, Supervised, LoopTop, MayLoop, Exists
<1>1. IInv'
  BY <1>0, MethodStepInv DEF LoopTop, MethodStep
<1>2. OnlyTask(s) /\ job'[s].conn = c /\ job'[s].op \in {"handshake", "returned"}
  BY <1>0, SuspendAt DEF LoopTop, Connect, ConnectNoop, OnlyTask
<1>3. TaskFits([Sup(n) EXCEPT !.pc = "attempt"], job'[s])
  <2> DEFINE f == [Sup(n) EXCEPT !.pc = "attempt"]
  <2>1. f.pc = "attempt"
    BY <1>0 DEF Framed, Sup, Frame
  <2> HIDE DEF f
  <2> QED
    BY <1>2, <2>1 DEF TaskFits
<1>4. Framed' /\ Posted'
  BY <1>0, <1>2, <1>3, SupMove DEF LoopTop, Goto, Supervising
<1>5. Tables' /\ Counters'
  BY <1>0 DEF LoopTop, Tables, Counters
<1> QED
  BY <1>1, <1>4, <1>5, SupTypedBy

\* connect() returned.
LEMMA AttemptedTyped ==
    ASSUME SupTyped, NEW n \in Names, Attempted(n)
    PROVE  SupTyped'
<1> DEFINE s == SupTask[n]
<1>0. s \in Tasks /\ Exists(n) /\ IInv /\ Framed /\ Tables /\ Typed /\ Counters
  BY SupTasks, SupTypedBy DEF SupTyped, Attempted, At, Exists, Sup
<1>1. IInv'
  BY <1>0, NextInv DEF Attempted, ConnNext
<1>2. job'[s] = IdleJob /\ OnlyTask(s)
  BY <1>0, Collects DEF Attempted
<1>3. PICK pc \in {"watch", "auth"} : Goto(s, pc)
  BY DEF Attempted
<1>4. TaskFits([Sup(n) EXCEPT !.pc = pc], job'[s])
  BY <1>0, <1>2 DEF TaskFits, IdleJob, Framed, Sup, Frame
<1>5. Framed' /\ Posted'
  BY <1>0, <1>2, <1>3, <1>4, SupMove DEF Attempted, Goto, Supervising
<1>6. health' \in [Names -> Health]
  <2>1. [Healthy EXCEPT !.cycles = health[n].cycles] \in Health
    <3>1. Healthy \in Health /\ health[n].cycles \in 0..EscalationAfter
      BY <1>0, SupervisorAssumption DEF Counters, Health, Healthy
    <3>2. \A h \in Health, k \in 0..EscalationAfter : [h EXCEPT !.cycles = k] \in Health
      BY DEF Health
    <3> QED
      BY <3>1, <3>2
  <2> QED
    BY <1>0, <2>1 DEF Attempted, Counters
<1>7. Tables' /\ Counters'
  BY <1>0, <1>6 DEF Attempted, Tables, Counters
<1> QED
  BY <1>1, <1>5, <1>7, SupTypedBy

\* One more failure is counted.
LEMMA CountedType ==
    ASSUME NEW h \in Health
    PROVE  Counted(h) \in Health
BY SupervisorAssumption DEF Health, Counted, Min2

\* Marking a connection that did not come up, and forgetting the outcome.
LEMMA MarkedInv ==
    ASSUME IInv, NEW t \in Tasks, NEW c \in Conns, NEW to \in {"reconnecting", "circuit_open", "failed"},
           job[t].op = "raised", job' = [job EXCEPT ![t] = IdleJob],
           state' = [state EXCEPT ![c] = to],
           UNCHANGED <<outbound, withTools, inFlight, drainEvent, drainLock, live>>
    PROVE  IInv'
<1>1. /\ job'[t] = IdleJob /\ \A u \in Tasks \ {t} : job'[u] = job[u]
      /\ job \in [Tasks -> Job] /\ state \in [Conns -> ConnectionState]
  BY DEF IInv, Typed, TypeOK
<1>2. Typed'
  BY <1>1 DEF IInv, Typed, TypeOK, JobShape, ConnectionState, IdleJob, Job, JobOp
<1>3. InFlightCounts'
  <2>1. \A d \in Conns : Calls(d)' = Calls(d)
    BY <1>1, CallsSame DEF IdleJob
  <2> QED
    BY <2>1 DEF IInv, InFlightCounts
<1>4. UpHasOutbound'
  BY <1>1 DEF IInv, UpHasOutbound
<1>5. DrainLockHeld' /\ NoLostWakeup'
  BY <1>1 DEF IInv, DrainLockHeld, NoLostWakeup, IdleJob
<1> QED
  BY <1>2, <1>3, <1>4, <1>5 DEF IInv

\* connect() raised.
LEMMA AttemptFailedTyped ==
    ASSUME SupTyped, NEW n \in Names, AttemptFailed(n)
    PROVE  SupTyped'
<1> DEFINE s == SupTask[n]
           c == Sup(n).conn
<1>0. s \in Tasks /\ c \in Conns /\ Exists(n) /\ IInv /\ Framed /\ Tables /\ Typed /\ Counters
  BY SupTasks, SupTypedBy DEF SupTyped, Posted, Supervised, AttemptFailed, At, Exists, Sup
<1>1. \E to \in {"reconnecting", "circuit_open", "failed"} : state' = [state EXCEPT ![c] = to]
  BY DEF AttemptFailed
<1>2. IInv'
  BY <1>0, <1>1, MarkedInv DEF AttemptFailed
<1>3. job'[s] = IdleJob /\ OnlyTask(s)
  BY <1>0 DEF AttemptFailed, OnlyTask, Typed, TypeOK
<1>4. PICK pc \in {"done", "backoff"} : Goto(s, pc)
  BY DEF AttemptFailed
<1>5. TaskFits([Sup(n) EXCEPT !.pc = pc], job'[s])
  BY <1>0, <1>3 DEF TaskFits, IdleJob, Framed, Sup, Frame
<1>6. Framed' /\ Posted'
  <2>1. pc \in Supervising /\ pc # "attempt" /\ job'[s].op = "idle"
    BY <1>3, <1>4 DEF Supervising, IdleJob
  <2>2. UNCHANGED <<phase, retriesLeft>> /\ frame' = [frame EXCEPT ![s] = [frame[s] EXCEPT !.pc = pc]]
    BY <1>4 DEF AttemptFailed, Goto
  <2> QED
    BY <1>0, <1>3, <1>5, <2>1, <2>2, SupMove
<1>7. health' \in [Names -> Health]
  BY <1>0, CountedType DEF AttemptFailed, Counters
<1>8. Tables' /\ Counters'
  BY <1>0, <1>7 DEF AttemptFailed, Tables, Counters
<1> QED
  BY <1>2, <1>6, <1>8, SupTypedBy

\* stop() of a supervisor.
LEMMA StopSupervisorTyped ==
    ASSUME SupTyped, NEW t \in Tasks, NEW n \in Names, StopSupervisor(t, n)
    PROVE  SupTyped'
<1> DEFINE s == SupTask[n]
<1>0. s \in Tasks /\ Exists(n) /\ IInv /\ Framed /\ Tables /\ Typed /\ Counters /\ ~Serving
  BY SupTasks, SupTypedBy DEF SupTyped, Posted, StopSupervisor, Active, Exists, At, Halting
<1>1. IInv'
  <2>1. UNCHANGED connVars \/ ConnectCancelled(s)
    BY DEF StopSupervisor
  <2> QED
    BY <1>0, <2>1, NextInv DEF ConnNext
<1>2. OnlyTask(s) /\ (job'[s] = IdleJob \/ job'[s].op = "raised")
  <2>1. CASE job[s].op = "idle"
    BY <1>0, <2>1 DEF StopSupervisor, connVars, OnlyTask, Framed, Shaped, TaskFits
  <2>2. CASE job[s].op # "idle"
    BY <1>0, <2>2, FinishAt DEF StopSupervisor, ConnectCancelled, OnlyTask
  <2> QED
    BY <2>1, <2>2
<1>3. TaskFits([Sup(n) EXCEPT !.pc = "done"], job'[s])
  <2> DEFINE f == [Sup(n) EXCEPT !.pc = "done"]
  <2>1. f.pc = "done"
    BY <1>0 DEF Framed, Sup, Frame
  <2> HIDE DEF f
  <2> QED
    BY <1>2, <2>1 DEF TaskFits, IdleJob
<1>4. Framed' /\ Posted'
  <2>1. UNCHANGED <<phase, retriesLeft>> /\ frame' = [frame EXCEPT ![s] = [frame[s] EXCEPT !.pc = "done"]]
    BY DEF StopSupervisor
  <2> QED
    BY <1>0, <1>2, <1>3, <2>1, SupMove DEF Supervising
<1>5. Tables' /\ Counters'
  BY <1>0 DEF StopSupervisor, Tables, Counters
<1> QED
  BY <1>1, <1>4, <1>5, SupTypedBy

\* The end of connect_all.
LEMMA BootEndsTyped ==
    ASSUME SupTyped, BootEnds
    PROVE  SupTyped'
<1>0. IInv /\ Framed /\ Tables /\ Typed /\ Counters
  BY SupTypedBy DEF SupTyped
<1>1. IInv'
  BY <1>0, NextInv DEF BootEnds
<1>2. Serving /\ phase = "boot" /\ phase' # "boot" /\ retriesLeft = FastRetries /\ UNCHANGED <<job, retriesLeft>>
  BY DEF SupTyped, Posted, Retries, BootEnds, Serving, connVars
<1>3. Framed' /\ Posted'
  <2>1. CASE UNCHANGED frame
    <3>1. Outside
      BY <1>2, <2>1 DEF Outside
    <3> QED
      BY <1>0, <1>2, <2>1, <3>1, PostedSame DEF Framed, Shaped
  <2>2. ASSUME NEW t \in Tasks \ Owned, Idle(t), SetFrame(t, NewFrame("retry", "asleep", NoName, NoName))
        PROVE  Framed' /\ Posted'
    <3> DEFINE f == NewFrame("retry", "asleep", NoName, NoName)
    <3>1. f \in Frame /\ f.op = "retry" /\ f.pc = "asleep"
      BY DEF NewFrame, Frame
    <3>2. frame' = [frame EXCEPT ![t] = f]
      BY <2>2 DEF SetFrame
    <3> HIDE DEF f
    <3>3. FrameShape(f) /\ TaskFits(f, job'[t]) /\ OnlyTask(t)
      BY <1>0, <1>2, <2>2, <3>1 DEF FrameShape, TaskFits, Idle, Framed, Shaped, OnlyTask
    <3>4. retriesLeft' # 0
      BY <1>2, SupervisorAssumption
    <3> QED
      BY <1>2, <3>1, <3>2, <3>3, <3>4, OtherMove DEF Halting
  <2> QED
    BY <2>1, <2>2 DEF BootEnds
<1>4. Tables' /\ Counters'
  BY <1>0 DEF BootEnds, Tables, Counters
<1> QED
  BY <1>1, <1>3, <1>4, SupTypedBy

\* fast_retry_failed begins a pass, or ends one.
LEMMA RetryPassTyped ==
    ASSUME SupTyped, NEW t \in Tasks, RetryPass(t) \/ RetryPassEnds(t)
    PROVE  SupTyped'
<1>0. IInv /\ Framed /\ Tables /\ Typed /\ Counters
  BY SupTypedBy DEF SupTyped
<1>1. IInv'
  BY <1>0, NextInv DEF RetryPass, RetryPassEnds
<1>2. /\ frame[t].pc \in {"asleep", "next"} /\ frame[t].op = "retry" /\ frame[t] \in Frame /\ job[t].op = "idle"
      /\ UNCHANGED job /\ t \in Tasks \ Owned /\ OnlyTask(t) /\ UNCHANGED phase /\ phase # "boot"
  BY <1>0, NotOwned DEF SupTyped, Posted, Retries, RetryPass, RetryPassEnds, At, Framed, Shaped, TaskFits,
     connVars, OnlyTask, Supervising
<1>3. At(t, "asleep") => retriesLeft # 0
  BY DEF SupTyped, Posted, Retries
<1>4. Framed' /\ Posted'
  <2>1. CASE RetryPass(t)
    <3> DEFINE f == [frame[t] EXCEPT !.pc = "next"]
    <3>1. f \in Frame /\ f.pc = "next" /\ f.op = "retry" /\ frame' = [frame EXCEPT ![t] = f]
      BY <1>2, <2>1 DEF RetryPass, Goto, Frame
    <3> HIDE DEF f
    <3>2. FrameShape(f) /\ TaskFits(f, job'[t])
      BY <1>0, <1>2, <3>1 DEF FrameShape, TaskFits, Framed, Shaped
    <3> QED
      BY <1>2, <3>1, <3>2, OtherMove DEF Halting, Serving
  <2>2. CASE RetryPassEnds(t) /\ Return(t)
    <3>1. NoFrame \in Frame /\ FrameShape(NoFrame) /\ TaskFits(NoFrame, job'[t])
      BY <1>0, <1>2, NoFrameFits DEF TaskFits, Framed, Shaped
    <3> QED
      BY <1>2, <2>2, <3>1, OtherMove DEF RetryPassEnds, Return, NoFrame, Halting, Serving
  <2>3. CASE RetryPassEnds(t) /\ Goto(t, "asleep") /\ retriesLeft # 0
    <3> DEFINE f == [frame[t] EXCEPT !.pc = "asleep"]
    <3>1. f \in Frame /\ f.pc = "asleep" /\ f.op = "retry" /\ frame' = [frame EXCEPT ![t] = f]
      BY <1>2, <2>3 DEF Goto, Frame
    <3> HIDE DEF f
    <3>2. FrameShape(f) /\ TaskFits(f, job'[t])
      BY <1>0, <1>2, <3>1 DEF FrameShape, TaskFits, Framed, Shaped
    <3> QED
      BY <1>2, <2>3, <3>1, <3>2, OtherMove DEF RetryPassEnds, Halting, Serving
  <2> QED
    BY <2>1, <2>2, <2>3 DEF RetryPassEnds
<1>5. retriesLeft' \in 0..FastRetries
  BY <1>0, <1>3, SupervisorAssumption DEF RetryPass, RetryPassEnds, Counters
<1>6. Tables' /\ Counters'
  BY <1>0, <1>5 DEF RetryPass, RetryPassEnds, Tables, Counters
<1> QED
  BY <1>1, <1>4, <1>6, SupTypedBy

\* fast_retry_failed drops a connection.
LEMMA RetryNextTyped ==
    ASSUME SupTyped, NEW t \in Tasks, RetryNext(t)
    PROVE  SupTyped'
<1>0. IInv /\ Framed /\ Tables /\ Typed /\ Counters
  BY SupTypedBy DEF SupTyped
<1>1. PICK n \in retryNames \cap configured :
         /\ retryNames' = retryNames \ {n}
         /\ connections' = [connections EXCEPT ![n] = NoConn]
         /\ IF connections[n] = NoConn THEN UNCHANGED connVars ELSE Disconnect(t, connections[n])
         /\ SetFrame(t, NewFrame("retry", "dropping", n, NoName))
  BY DEF RetryNext
<1>2. n \in Names /\ (connections[n] # NoConn => connections[n] \in Conns)
  BY <1>0 DEF Tables, Counters
<1>3. /\ frame[t].op = "retry" /\ job[t] = IdleJob /\ t \in Tasks \ Owned /\ UNCHANGED <<phase, retriesLeft>>
      /\ phase # "boot"
  BY <1>0, NotOwned DEF SupTyped, Posted, Retries, RetryNext, At, Framed, Shaped, TaskFits, Supervising
<1>4. IInv' /\ OnlyTask(t) /\ job'[t].op \in {"idle", "closing", "returned"} /\ (job'[t].op = "idle" => job'[t] = IdleJob)
  <2>1. CASE connections[n] = NoConn
    BY <1>0, <1>1, <1>3, <2>1, NextInv DEF connVars, OnlyTask, IdleJob
  <2>2. CASE connections[n] # NoConn
    BY <1>0, <1>1, <1>2, <2>2, NextInv, DisconnectBegins DEF ConnNext, Begin
  <2> QED
    BY <2>1, <2>2
<1>5. Framed' /\ Posted'
  <2> DEFINE f == NewFrame("retry", "dropping", n, NoName)
  <2>1. f \in Frame /\ f.op = "retry" /\ f.pc = "dropping" /\ f.name = n
    BY <1>2 DEF NewFrame, Frame
  <2>2. frame' = [frame EXCEPT ![t] = f]
    BY <1>1 DEF SetFrame
  <2> HIDE DEF f
  <2>3. FrameShape(f) /\ TaskFits(f, job'[t])
    BY <1>2, <1>4, <2>1 DEF FrameShape, TaskFits
  <2> QED
    BY <1>3, <1>4, <2>1, <2>2, <2>3, OtherMove DEF Halting, Serving
<1>6. Tables' /\ Counters'
  BY <1>0, <1>1, <1>2 DEF RetryNext, Noticed, Tables, Counters
<1> QED
  BY <1>4, <1>5, <1>6, SupTypedBy

\* fast_retry_failed connects again.
LEMMA RetryConnectsTyped ==
    ASSUME SupTyped, NEW t \in Tasks, RetryConnects(t)
    PROVE  SupTyped'
<1>0. IInv /\ Framed /\ Tables /\ Typed /\ Counters /\ MgrTyped
  BY SupTypedBy DEF SupTyped
<1>1. /\ frame[t].op = "retry" /\ frame[t].name \in Names /\ t \in Tasks \ Owned /\ phase # "boot"
      /\ ConnectTimed(t, "retry", frame[t].name) /\ Free(t) /\ UNCHANGED <<phase, retriesLeft>>
  BY <1>0, NotOwned DEF SupTyped, Posted, Retries, RetryConnects, At, Framed, Shaped, FrameShape, Supervising
<1>2. IInv'
  <2>1. [ConnNext]_connVars
    BY <1>0, <1>1, ConnectUses DEF Uses, ConnNext, Begin
  <2> QED
    BY <1>0, <2>1, NextInv
<1>3. Framed' /\ connections' \in [Names -> Conns \cup {NoConn}] /\ connecting' \in [Names -> Tasks \cup {NoTask}]
  BY <1>0, <1>1, AttemptTyped
<1>4. Posted'
  <2>1. PICK pc \in {"connecting", "joining"} : frame' = [frame EXCEPT ![t] = NewFrame("retry", pc, frame[t].name, NoName)]
    BY <1>0, <1>1, ConnectBegins
  <2> DEFINE f == NewFrame("retry", pc, frame[t].name, NoName)
  <2>2. f \in Frame /\ f.op = "retry" /\ f.pc = pc
    BY <1>1 DEF NewFrame, Frame
  <2> HIDE DEF f
  <2>3. frame' = [frame EXCEPT ![t] = f] /\ OnlyTask(t)
    BY <1>0, <1>1, <2>1, ConnectBegins DEF f
  <2>4. frame'[t] = f
    BY <1>0, <2>3 DEF Framed
  <2>5. FrameShape(f) /\ TaskFits(f, job'[t])
    BY <1>3, <2>4 DEF Framed, Shaped
  <2> QED
    BY <1>1, <2>2, <2>3, <2>5, OtherMove DEF Halting, Serving
<1>5. Tables' /\ Counters'
  BY <1>0, <1>3 DEF RetryConnects, Tables, Counters
<1> QED
  BY <1>2, <1>3, <1>4, <1>5, SupTypedBy

\* disconnect_all begins, and ends.
LEMMA ShutdownTyped ==
    ASSUME SupTyped, NEW t \in Tasks, Shutdown(t) \/ ShutdownEnds(t)
    PROVE  SupTyped'
<1>0. IInv /\ Framed /\ Tables /\ Typed /\ Counters
  BY SupTypedBy DEF SupTyped
<1>1. CASE Shutdown(t)
  <2>1. IInv'
    BY <1>0, <1>1, NextInv DEF Shutdown
  <2>2. t \in Tasks \ Owned /\ job[t].op = "idle" /\ UNCHANGED job
    BY <1>1 DEF Shutdown, Idle, connVars
  <2> DEFINE f == NewFrame("shutdown", "stopping", NoName, NoName)
  <2>3. f \in Frame /\ f.op = "shutdown" /\ f.pc = "stopping" /\ frame' = [frame EXCEPT ![t] = f]
    BY <1>1 DEF NewFrame, Frame, Shutdown, SetFrame
  <2> HIDE DEF f
  <2>4. FrameShape(f) /\ TaskFits(f, job'[t]) /\ OnlyTask(t)
    BY <1>0, <2>2, <2>3 DEF FrameShape, TaskFits, Framed, Shaped, OnlyTask
  <2>5. Framed' /\ Posted'
    BY <1>1, <2>2, <2>3, <2>4, OtherMove DEF Shutdown, Serving
  <2>6. Tables' /\ Counters'
    BY <1>0, <1>1 DEF Shutdown, Tables, Counters
  <2> QED
    BY <2>1, <2>5, <2>6, SupTypedBy
<1>2. CASE ShutdownEnds(t)
  <2>1. job'[t] = IdleJob /\ OnlyTask(t) /\ t \in Tasks \ Owned /\ ~Serving
    BY <1>0, <1>2, NotOwned DEF SupTyped, Posted, ShutdownEnds, MayDisconnect, At, Halting, Supervising, OnlyTask, Typed, TypeOK
  <2>2. IInv'
    <3>1. CASE job[t].op = "idle"
      <4>1. UNCHANGED connVars
        BY <1>0, <1>2, <3>1 DEF ShutdownEnds, connVars, Framed, Shaped, TaskFits, Typed, TypeOK
      <4> QED
        BY <1>0, <4>1, NextInv
    <3>2. CASE job[t].op # "idle"
      <4>1. Collect(t)
        BY <1>2, <3>2 DEF ShutdownEnds, Free, Collect
      <4> QED
        BY <1>0, <4>1, NextInv DEF ConnNext
    <3> QED
      BY <3>1, <3>2
  <2>3. NoFrame \in Frame /\ FrameShape(NoFrame) /\ TaskFits(NoFrame, job'[t])
    BY <2>1, NoFrameFits
  <2>4. frame' = [frame EXCEPT ![t] = NoFrame]
    BY <1>0, <1>2 DEF ShutdownEnds, Framed
  <2>5. Framed' /\ Posted'
    BY <1>2, <2>1, <2>3, <2>4, OtherMove DEF ShutdownEnds, NoFrame, Serving, Halting
  <2>6. Tables' /\ Counters'
    BY <1>0, <1>2 DEF ShutdownEnds, Tables, Counters
  <2> QED
    BY <2>2, <2>5, <2>6, SupTypedBy
<1> QED
  BY <1>1, <1>2

\* disconnect_all closes a connection.
LEMMA ShutdownClosesTyped ==
    ASSUME SupTyped, NEW t \in Tasks, NEW n \in Names, ShutdownCloses(t, n)
    PROVE  SupTyped'
<1>0. IInv /\ Framed /\ Tables /\ Typed /\ Counters
  BY SupTypedBy DEF SupTyped
<1>1. connections[n] \in Conns /\ Disconnect(t, connections[n])
  BY <1>0 DEF ShutdownCloses, Tables
<1>2. IInv' /\ OnlyTask(t) /\ job'[t].op \in {"closing", "returned"}
  BY <1>0, <1>1, NextInv, DisconnectBegins DEF ConnNext, Begin
<1>3. frame[t].pc \in Halting /\ t \in Tasks \ Owned /\ ~Serving /\ UNCHANGED <<phase, retriesLeft>>
  BY NotOwned DEF SupTyped, Posted, ShutdownCloses, MayDisconnect, At, Halting, Supervising
<1>4. Framed' /\ Posted'
  <2> DEFINE f == [frame[t] EXCEPT !.pc = "disconnecting"]
  <2>1. f \in Frame /\ f.op = frame[t].op /\ f.pc = "disconnecting" /\ frame' = [frame EXCEPT ![t] = f]
    BY <1>0 DEF ShutdownCloses, Goto, Framed, Frame
  <2> HIDE DEF f
  <2>2. FrameShape(f) /\ TaskFits(f, job'[t])
    BY <1>0, <1>2, <1>3, <2>1 DEF FrameShape, TaskFits, Framed, Shaped, Halting
  <2>3. f.op = "retry" => phase # "boot"
    BY <2>1 DEF SupTyped, Posted, Retries
  <2> QED
    BY <1>2, <1>3, <2>1, <2>2, <2>3, OtherMove DEF Serving
<1>5. Tables' /\ Counters'
  BY <1>0 DEF ShutdownCloses, Noticed, Tables, Counters
<1> QED
  BY <1>2, <1>4, <1>5, SupTypedBy

\* MCPConnection(config) of several objects nobody refers to.
LEMMA ConstructedInv ==
    ASSUME IInv, NEW S \in SUBSET Conns, \A c \in S : Unused(c),
           state' = [c \in Conns |-> IF c \in S THEN "disconnected" ELSE state[c]],
           withTools' = withTools \ S,
           inFlight' = [c \in Conns |-> IF c \in S THEN 0 ELSE inFlight[c]],
           drainEvent' = [c \in Conns |-> IF c \in S THEN "none" ELSE drainEvent[c]],
           drainLock' = [c \in Conns |-> IF c \in S THEN NoTask ELSE drainLock[c]],
           UNCHANGED <<outbound, live, job>>
    PROVE  IInv'
<1>1. Typed'
  BY DEF IInv, Typed, TypeOK, JobShape, ConnectionState
<1>2. InFlightCounts'
  <2>1. \A c \in Conns : Calls(c)' = Calls(c)
    BY DEF Calls
  <2>2. \A c \in S : Calls(c) = {}
    BY DEF Calls, Unused
  <2> QED
    BY <2>1, <2>2, FS_EmptySet DEF IInv, InFlightCounts
<1>3. UpHasOutbound'
  BY DEF IInv, UpHasOutbound
<1>4. DrainLockHeld'
  BY NullsAssumption DEF IInv, Typed, JobShape, DrainLockHeld, Unused
<1>5. NoLostWakeup'
  BY DEF IInv, Typed, JobShape, NoLostWakeup, Unused
<1> QED
  BY <1>1, <1>2, <1>3, <1>4, <1>5 DEF IInv

\* Objects of a tick of the coordinator: the backends that get a supervisor,
\* those of them without a connection, and what the supervisors will own.
Unnamed == {n \in Unsupervised : connections[n] = NoConn}

Objects == Injection(Unnamed, {c \in Conns : FreshConn(c)})

Constructed == CHOOSE f \in Objects : TRUE

Given(n) == IF n \in Unnamed THEN Constructed[n] ELSE connections[n]

\* A tick gives every supervisor a connection object, and a new one to those
\* that have none.
LEMMA CoordinateGives ==
    ASSUME SupTyped, Coordinate
    PROVE  /\ phase = "supervised" /\ UNCHANGED <<outbound, live, job, configured, boot, evictedCaps, lastActivity,
                                                  connecting, lock, phase, retriesLeft, retryNames>>
           /\ Unsupervised \subseteq Names
           /\ Constructed \in Objects
           /\ Range(Constructed) \subseteq Conns
           /\ \A c \in Range(Constructed) : FreshConn(c)
           /\ \A n \in Unnamed : Constructed[n] \in Range(Constructed)
           /\ \A n \in Unsupervised : Given(n) \in Conns
           /\ \A n \in Names : Given(n) \in Conns \cup {NoConn}
           /\ connections' = [n \in Names |-> Given(n)]
           /\ \A n \in Unsupervised : Sup(n)' = SupFrame(n, "start", Given(n))
           /\ \A t \in Tasks : \/ \E n \in Unsupervised : t = SupTask[n]
                               \/ frame'[t] = frame[t]
           /\ DOMAIN frame' = Tasks /\ frame' = [t \in Tasks |-> frame'[t]]
           /\ health' = [n \in Names |-> IF n \in Unsupervised THEN Healthy ELSE health[n]]
           /\ dropped' = dropped \ Unsupervised
           /\ state' = [c \in Conns |-> IF c \in Range(Constructed) THEN "disconnected" ELSE state[c]]
           /\ withTools' = withTools \ Range(Constructed)
           /\ inFlight' = [c \in Conns |-> IF c \in Range(Constructed) THEN 0 ELSE inFlight[c]]
           /\ drainEvent' = [c \in Conns |-> IF c \in Range(Constructed) THEN "none" ELSE drainEvent[c]]
           /\ drainLock' = [c \in Conns |-> IF c \in Range(Constructed) THEN NoTask ELSE drainLock[c]]
<1>0. Tables /\ \A n \in Names : SupTask[n] \in Tasks /\ Sup(n).name = n
  BY SupTypedBy, SupTasks DEF SupTyped, Posted, Supervised
<1>1. Unsupervised \subseteq Names /\ \A n \in Names : connections[n] \in Conns \cup {NoConn}
  BY <1>0 DEF Unsupervised, Tables
<1>2. Constructed \in Objects
  <2>1. Objects # {}
    BY DEF Coordinate, Objects, Unnamed
  <2> QED
    BY <2>1 DEF Constructed
<1>3. /\ DOMAIN Constructed = Unnamed
      /\ \A n \in Unnamed : Constructed[n] \in Conns /\ FreshConn(Constructed[n])
  BY <1>2 DEF Objects, Injection
<1>4. /\ Range(Constructed) \subseteq Conns
      /\ \A c \in Range(Constructed) : FreshConn(c)
      /\ \A n \in Unnamed : Constructed[n] \in Range(Constructed)
  BY <1>3 DEF Range
<1>5. /\ \A n \in Unsupervised : Given(n) \in Conns
      /\ \A n \in Names : Given(n) \in Conns \cup {NoConn}
  BY <1>1, <1>3 DEF Given, Unnamed
<1>6. /\ connections' = [n \in Names |-> Given(n)]
      /\ frame' = [t \in Tasks |->
                     IF t \in {SupTask[n] : n \in Unsupervised}
                     THEN SupFrame(frame[t].name, "start", Given(frame[t].name))
                     ELSE frame[t]]
      /\ state' = [c \in Conns |-> IF c \in Range(Constructed) THEN "disconnected" ELSE state[c]]
      /\ withTools' = withTools \ Range(Constructed)
      /\ inFlight' = [c \in Conns |-> IF c \in Range(Constructed) THEN 0 ELSE inFlight[c]]
      /\ drainEvent' = [c \in Conns |-> IF c \in Range(Constructed) THEN "none" ELSE drainEvent[c]]
      /\ drainLock' = [c \in Conns |-> IF c \in Range(Constructed) THEN NoTask ELSE drainLock[c]]
  BY DEF Coordinate, Given, Constructed, Objects, Unnamed
<1>7. \A n \in Unsupervised : Sup(n)' = SupFrame(n, "start", Given(n))
  BY <1>0, <1>1, <1>6 DEF Sup
<1>8. \A t \in Tasks : (\E n \in Unsupervised : t = SupTask[n]) \/ frame'[t] = frame[t]
  BY <1>6
<1>9. DOMAIN frame' = Tasks /\ frame' = [t \in Tasks |-> frame'[t]]
  BY <1>6
<1>10. /\ phase = "supervised" /\ UNCHANGED <<outbound, live, job, configured, boot, evictedCaps, lastActivity,
                                              connecting, lock, phase, retriesLeft, retryNames>>
       /\ health' = [n \in Names |-> IF n \in Unsupervised THEN Healthy ELSE health[n]]
       /\ dropped' = dropped \ Unsupervised
  BY DEF Coordinate
<1> QED
  BY <1>1, <1>2, <1>4, <1>5, <1>6, <1>7, <1>8, <1>9, <1>10

\* A tick of the coordinator.
LEMMA CoordinateTyped ==
    ASSUME SupTyped, Coordinate
    PROVE  SupTyped'
<1>0. IInv /\ Framed /\ Tables /\ Typed /\ Counters
  BY SupTypedBy DEF SupTyped
<1>1. IInv'
  BY <1>0, CoordinateGives, ConstructedInv DEF FreshConn
<1>2. ASSUME NEW n \in Unsupervised
      PROVE  /\ SupFrame(n, "start", Given(n)) \in Frame
             /\ SupFrame(n, "start", Given(n)).pc = "start" /\ SupFrame(n, "start", Given(n)).op = "supervise"
             /\ SupFrame(n, "start", Given(n)).name = n /\ SupFrame(n, "start", Given(n)).conn = Given(n)
             /\ n \in Names /\ SupTask[n] \in Tasks /\ frame'[SupTask[n]] = SupFrame(n, "start", Given(n))
             /\ job'[SupTask[n]] = IdleJob
  <2>1. Given(n) \in Conns /\ n \in Names /\ UNCHANGED job /\ Serving /\ Sup(n)' = SupFrame(n, "start", Given(n))
    BY CoordinateGives DEF Serving
  <2>2. job[SupTask[n]] = IdleJob
    <3>1. Supervised(n) /\ ~Active(n) /\ TaskFits(Sup(n), job[SupTask[n]])
      BY <1>0, <2>1, SupTasks DEF SupTyped, Posted, Unsupervised, Framed, Shaped, Sup
    <3> QED
      BY <2>1, <3>1 DEF Supervised, Supervising, Active, TaskFits, At, Sup
  <2>3. SupTask[n] \in Tasks
    BY <2>1, SupTasks
  <2> QED
    BY <2>1, <2>2, <2>3 DEF SupFrame, NewFrame, Frame, Sup
<1>3. Framed'
  <2>1. ASSUME NEW t \in Tasks
        PROVE  frame'[t] \in Frame /\ FrameShape(frame'[t]) /\ TaskFits(frame'[t], job'[t])
    <3>1. CASE frame'[t] = frame[t]
      BY <1>0, <3>1, CoordinateGives DEF Framed, Shaped
    <3>2. ASSUME NEW n \in Unsupervised, t = SupTask[n]
          PROVE  frame'[t] \in Frame /\ FrameShape(frame'[t]) /\ TaskFits(frame'[t], job'[t])
      BY <1>2, <3>2 DEF FrameShape, TaskFits, IdleJob
    <3> QED
      BY <3>1, <3>2, CoordinateGives
  <2> QED
    BY <2>1, CoordinateGives DEF Framed, Shaped
<1>4. Posted'
  <2>1. ASSUME NEW n \in Names PROVE Supervised(n)'
    <3>1. CASE n \in Unsupervised
      BY <1>2, <3>1, CoordinateGives DEF Supervised, Sup, Supervising, At, Exists
    <3>2. CASE n \notin Unsupervised
      <4>1. frame'[SupTask[n]] = frame[SupTask[n]]
        BY <3>2, CoordinateGives, SupTasks
      <4> QED
        BY <4>1, CoordinateGives DEF SupTyped, Posted, Supervised, Sup, At, Exists, Serving
    <3> QED
      BY <3>1, <3>2
  <2>2. \A t \in Tasks : frame'[t] = frame[t] \/ (frame'[t].pc = "start" /\ frame'[t].op = "supervise")
    BY <1>2, CoordinateGives
  <2> QED
    BY <2>1, <2>2, CoordinateGives DEF SupTyped, Posted, Retries, Halting, Serving, At
<1>5. Tables'
  <2>1. registry' \subseteq Names
    BY <1>0, PublishedNames DEF Coordinate, PublishRecovered, SyncRegistry, Tables
  <2>2. failed' \subseteq Names
    BY <1>0 DEF Coordinate, Tables
  <2> QED
    BY <1>0, <2>1, <2>2, CoordinateGives DEF Tables
<1>6. Counters'
  <2>1. Healthy \in Health
    BY SupervisorAssumption DEF Healthy, Health
  <2> QED
    BY <1>0, <2>1, CoordinateGives DEF Counters
<1> QED
  BY <1>1, <1>3, <1>4, <1>5, <1>6, SupTypedBy

\* A step of the manager, seen by the supervisors.
LEMMA ManagingTyped ==
    ASSUME SupTyped, Managing, Noticed, UNCHANGED <<phase, health, retriesLeft, retryNames>>
    PROVE  SupTyped'
<1>1. MgrTyped' /\ IInv'
  BY MovesTyped DEF SupTyped, Managing, Moves
<1>2. Posted'
  BY ManagingOutside, PostedSame DEF Serving
<1>3. Counters'
  BY SupTypedBy DEF Noticed, Counters
<1> QED
  BY <1>1, <1>2, <1>3, SupTypedBy DEF MgrTyped, MgrTypeOK, Framed, Tables

\* What a step of the whole hub is.
SupMoves ==
    \/ Managing /\ Noticed /\ UNCHANGED <<phase, health, retriesLeft, retryNames>>
    \/ \E t \in Tasks : RetryStep(t) \/ ShutdownStep(t) \/ Shutdown(t)
    \/ \E n \in Names : SupStep(n)
    \/ BootEnds
    \/ Coordinate
    \/ UNCHANGED allVars

\* There are no other steps.
LEMMA NextMoves ==
    ASSUME [SupNext]_allVars
    PROVE  SupMoves
BY DEF SupNext, SupMoves, Managing, TaskStep, ManagerContinues, ManagerStarts

\* Every step of the hub keeps the types.
LEMMA SupNextTyped ==
    ASSUME SupTyped, [SupNext]_allVars
    PROVE  SupTyped'
<1>1. CASE UNCHANGED allVars
  BY <1>1 DEF allVars, vars, connVars, mgrVars, supVars, SupTyped, MgrTyped, MgrTypeOK, Typed, TypeOK, JobShape, Shaped,
     IInv, InFlightCounts, Calls, UpHasOutbound, DrainLockHeld, NoLostWakeup, SupTypeOK,
     Posted, Supervised, Retries, Sup, At, Exists, Serving
<1> QED
  BY <1>1, NextMoves, ManagingTyped, LoopTopTyped, AttemptedTyped, AttemptFailedTyped, StopSupervisorTyped,
     BootEndsTyped, RetryPassTyped, RetryNextTyped, RetryConnectsTyped, ShutdownTyped, ShutdownClosesTyped,
     CoordinateTyped DEF SupMoves, RetryStep, ShutdownStep, SupStep

\* Types and connections are right in the whole hub, whatever fails in it.
THEOREM SupInvariance == SupSpec => []SupTyped
BY SupInitTyped, SupNextTyped, PTL DEF SupSpec

\* Type correctness of the hub with its supervisors.
THEOREM SupTypesCorrect == SupSpec => []SupTypeOK
<1>1. SupTyped => SupTypeOK
  BY DEF SupTyped
<1> QED
  BY <1>1, SupInvariance, PTL

\* The connections of the whole hub keep what ConnectionProofs shows of them:
\* calls are counted exactly, and no drain waits for a wake-up that was lost.
THEOREM SupConnections == SupSpec => [](InFlightCounts /\ UpHasOutbound /\ DrainLockHeld /\ NoLostWakeup)
<1>1. SupTyped => InFlightCounts /\ UpHasOutbound /\ DrainLockHeld /\ NoLostWakeup
  BY DEF SupTyped, IInv
<1> QED
  BY <1>1, SupInvariance, PTL

------------------------------------------------------------------------------
(* Supervisors and their connections *)

\* No two supervisors own one connection object, none owns the one that is
\* registered for another backend, and no two backends share one.
Apart ==
    \A m, n \in Names : m # n =>
        /\ Exists(m) /\ Exists(n) => Sup(m).conn # Sup(n).conn
        /\ Exists(m) => Sup(m).conn # connections[n]
        /\ connections[n] # NoConn => connections[m] # connections[n]

\* A registered connection with an open breaker is that of a running
\* supervisor: the coordinator never finds one left behind.
Opened ==
    Serving =>
        \A n \in Names :
            connections[n] # NoConn /\ state[connections[n]] = "circuit_open"
                => Active(n) /\ Sup(n).conn = connections[n]

\* What the supervisors and what they show agree on.
SupInv == Apart /\ Opened /\ DropNoticed /\ FailedNotChurned /\ BreakerConsistent

\* The states only a supervisor gives a connection.
Marks == {"reconnecting", "circuit_open", "failed"}

MarksNothing == \A c \in Conns : state'[c] \in Marks => state'[c] = state[c]

\* No method of a connection enters one.
LEMMA MethodsMarkNothing ==
    ASSUME Typed, NEW t \in Tasks, NEW d \in Conns, MethodStep(t, d)
    PROVE  MarksNothing
<1> USE DEF Marks, MarksNothing
<1>0. state \in [Conns -> ConnectionState]
  BY DEF Typed, TypeOK
<1>1. CASE ConnectNew(t, d) \/ Connect(t, d) \/ ConnectNoop(t, d) \/ HandshakeDone(t) \/ ConnectDone(t)
           \/ ConnectAuthRequired(t) \/ ConnectFailed(t) \/ ConnectCancelled(t) \/ ConnectTimedOut(t)
  BY <1>0, <1>1 DEF ConnectNew, Connect, ConnectNoop, HandshakeDone, ConnectDone, ConnectAuthRequired, ConnectFailed,
     ConnectCancelled, ConnectTimedOut
<1>2. CASE Disconnect(t, d) \/ CloseDone(t) \/ DrainAndDisconnect(t, d) \/ DrainLockAcquired(t)
  BY <1>0, <1>2 DEF Disconnect, CloseDone, Disconnected, DrainAndDisconnect, DrainLockAcquired, DrainLocked, DrainWaits,
     DrainCloses
<1>3. CASE DrainDone(t) \/ DrainTimeout(t) \/ DrainCancelled(t)
  BY <1>0, <1>3 DEF DrainDone, DrainTimeout, DrainResumes, Disconnected, DrainCancelled
<1>4. CASE CallRejected(t, d) \/ Call(t, d) \/ CallDone(t) \/ Collect(t)
  BY <1>4 DEF CallRejected, Call, CallDone, Collect
<1> QED
  BY <1>1, <1>2, <1>3, <1>4 DEF MethodStep

\* Nor does the manager.
LEMMA UsesMarkNothing ==
    ASSUME IInv, [Uses]_connVars
    PROVE  MarksNothing
<1>1. ASSUME NEW t \in Tasks, JobStep(t) \/ ConnectTimedOut(t) \/ DrainTimeout(t) \/ Collect(t)
      PROVE  MarksNothing
  <2>1. job[t].op # "idle"
    BY <1>1 DEF JobStep, ConnectTimedOut, DrainTimeout, Collect, HandshakeDone, ConnectDone, ConnectAuthRequired,
       ConnectFailed, CloseDone, DrainLockAcquired, DrainDone, CallDone
  <2>2. PICK c \in Conns : c = job[t].conn
    BY <2>1 DEF IInv, Typed, JobShape
  <2>3. MethodStep(t, c)
    BY <1>1 DEF JobStep, MethodStep
  <2> QED
    BY <2>3, MethodsMarkNothing DEF IInv
<1>2. ASSUME NEW t \in Tasks, NEW c \in Conns,
             ConnectNew(t, c) \/ DrainAndDisconnect(t, c) \/ Call(t, c) \/ CallRejected(t, c) \/ Disconnect(t, c)
      PROVE  MarksNothing
  BY <1>2, MethodsMarkNothing DEF IInv, MethodStep
<1>3. CASE UNCHANGED connVars
  BY <1>3 DEF connVars, MarksNothing
<1> QED
  BY <1>1, <1>2, <1>3 DEF Uses

------------------------------------------------------------------------------
(* What the steps do to the supervisors and to their connections *)

\* Supervisors that look on: their connections are left alone, or they are told.
LooksOn ==
    /\ \A n \in Names : Sup(n)' = Sup(n)
    /\ UNCHANGED health
    /\ Registers
    /\ MarksNothing
    /\ \/ Noticed
       \/ dropped' = dropped /\ \A n \in Names : Exists(n) => state'[Sup(n).conn] = state[Sup(n).conn]
    /\ Serving' => Serving

\* They look on while the manager works.
LEMMA ManagingLooksOn ==
    ASSUME SupTyped, Managing, Noticed, UNCHANGED <<phase, health, retriesLeft, retryNames>>
    PROVE  LooksOn
<1>1. Outside /\ Registers
  BY ManagingOutside
<1>2. MarksNothing
  BY MovesUse, UsesMarkNothing DEF SupTyped, Managing, Moves
<1> QED
  BY <1>1, <1>2 DEF LooksOn, Outside, Sup, Serving

\* And while others retry, begin or end.
LEMMA OthersLookOn ==
    ASSUME SupTyped,
           \/ \E t \in Tasks : RetryStep(t) \/ Shutdown(t) \/ ShutdownEnds(t)
           \/ \E t \in Tasks, n \in Names : ShutdownCloses(t, n)
           \/ BootEnds
           \/ UNCHANGED allVars
    PROVE  LooksOn
<1>0. /\ IInv /\ Typed /\ MgrTyped /\ frame \in [Tasks -> Frame] /\ connections \in [Names -> Conns \cup {NoConn}]
      /\ \A n \in Names : SupTask[n] \in Tasks
  BY SupTasks DEF SupTyped, MgrTyped, MgrTypeOK
<1>1. ASSUME NEW t \in Tasks \ Owned, \A u \in Tasks \ {t} : frame'[u] = frame[u]
      PROVE  \A n \in Names : Sup(n)' = Sup(n)
  BY <1>0, <1>1, SupTasks DEF Sup
<1>2. UNCHANGED state => MarksNothing /\ \A n \in Names : state'[Sup(n).conn] = state[Sup(n).conn]
  BY DEF MarksNothing
<1>3. ASSUME NEW t \in Tasks, RetryPass(t) \/ RetryPassEnds(t) PROVE LooksOn
  <2>1. t \in Tasks \ Owned
    BY <1>3, NotOwned DEF RetryPass, RetryPassEnds, At, Supervising
  <2>2. \A n \in Names : Sup(n)' = Sup(n)
    BY <1>0, <1>1, <1>3, <2>1 DEF RetryPass, RetryPassEnds, Goto, Return
  <2> QED
    BY <1>2, <1>3, <2>2 DEF RetryPass, RetryPassEnds, LooksOn, Registers, connVars, Serving
<1>4. ASSUME NEW t \in Tasks, RetryNext(t) PROVE LooksOn
  <2>1. t \in Tasks \ Owned
    BY <1>4, NotOwned DEF RetryNext, At, Supervising
  <2>2. PICK n \in Names :
          /\ connections' = [connections EXCEPT ![n] = NoConn]
          /\ IF connections[n] = NoConn THEN UNCHANGED connVars ELSE Disconnect(t, connections[n])
          /\ SetFrame(t, NewFrame("retry", "dropping", n, NoName))
    BY <1>4, SupTypedBy DEF RetryNext, Counters
  <2>3. \A m \in Names : Sup(m)' = Sup(m)
    BY <1>0, <1>1, <2>1, <2>2 DEF SetFrame
  <2>4. MarksNothing
    <3>1. CASE connections[n] = NoConn
      BY <1>2, <2>2, <3>1 DEF connVars
    <3>2. CASE connections[n] # NoConn
      BY <1>0, <2>2, <3>2, MethodsMarkNothing DEF MethodStep
    <3> QED
      BY <3>1, <3>2
  <2>5. Registers
    BY <1>0, <2>2 DEF Registers
  <2> QED
    BY <1>4, <2>3, <2>4, <2>5 DEF RetryNext, LooksOn, Serving
<1>5. ASSUME NEW t \in Tasks, RetryConnects(t) PROVE LooksOn
  <2>1. t \in Tasks \ Owned /\ frame[t].name \in Names /\ frame[t].op = "retry"
    BY <1>0, <1>5, NotOwned DEF RetryConnects, At, Supervising, SupTyped, Posted, Retries, MgrTyped, Shaped, FrameShape
  <2>2. Advances(t) /\ Registers
    BY <1>0, <1>5, <2>1, AdvanceConnects DEF RetryConnects
  <2>3. \A m \in Names : Sup(m)' = Sup(m)
    <3>1. \A u \in Tasks \ {t} : frame'[u] = frame[u]
      BY <1>0, <1>5, <2>1, ConnectBegins DEF RetryConnects
    <3> QED
      BY <1>1, <2>1, <3>1
  <2>4. MarksNothing
    BY <1>0, <1>5, <2>1, ConnectUses, UsesMarkNothing DEF RetryConnects
  <2>5. \A n \in Names : Exists(n) => state'[Sup(n).conn] = state[Sup(n).conn]
    <3>1. CASE connecting[frame[t].name] = NoTask
      <4>1. FreshConn(NewConn) /\ OnlyConn(NewConn)
        BY <1>0, <1>5, <2>1, <3>1, ConnectBegins DEF RetryConnects
      <4>2. \A n \in Names : Sup(n).conn # NewConn
        BY <1>0, <4>1 DEF FreshConn, Sup
      <4> QED
        BY <4>1, <4>2 DEF OnlyConn, SupTyped, Posted, Supervised
    <3>2. CASE connecting[frame[t].name] # NoTask
      BY <1>0, <1>5, <2>1, <3>2, ConnectBegins DEF RetryConnects
    <3> QED
      BY <3>1, <3>2
  <2> QED
    BY <1>5, <2>2, <2>3, <2>4, <2>5 DEF RetryConnects, LooksOn, Serving
<1>6. ASSUME NEW t \in Tasks, Shutdown(t) PROVE LooksOn
  <2>1. \A n \in Names : Sup(n)' = Sup(n)
    BY <1>0, <1>1, <1>6 DEF Shutdown, SetFrame
  <2> QED
    BY <1>2, <1>6, <2>1 DEF Shutdown, LooksOn, Registers, connVars, Serving
<1>7. ASSUME NEW t \in Tasks, ShutdownEnds(t) PROVE LooksOn
  <2>1. t \in Tasks \ Owned
    BY <1>7, NotOwned DEF ShutdownEnds, MayDisconnect, At, Supervising
  <2>2. \A n \in Names : Sup(n)' = Sup(n)
    BY <1>0, <1>1, <1>7, <2>1 DEF ShutdownEnds
  <2>3. Registers
    BY <1>7 DEF ShutdownEnds, Registers
  <2> QED
    BY <1>2, <1>7, <2>2, <2>3 DEF ShutdownEnds, LooksOn, Serving
<1>8. ASSUME NEW t \in Tasks, NEW n \in Names, ShutdownCloses(t, n) PROVE LooksOn
  <2>1. t \in Tasks \ Owned
    BY <1>8, NotOwned DEF ShutdownCloses, MayDisconnect, At, Supervising
  <2>2. \A m \in Names : Sup(m)' = Sup(m)
    BY <1>0, <1>1, <1>8, <2>1 DEF ShutdownCloses, Goto
  <2>3. connections[n] \in Conns
    BY <1>0, <1>8 DEF ShutdownCloses
  <2>4. MarksNothing
    BY <1>0, <1>8, <2>3, MethodsMarkNothing DEF ShutdownCloses, MethodStep
  <2> QED
    BY <1>8, <2>2, <2>4 DEF ShutdownCloses, LooksOn, Registers, Serving
<1>9. CASE BootEnds
  <2>1. \A n \in Names : Sup(n)' = Sup(n)
    <3>1. CASE UNCHANGED frame
      BY <3>1 DEF Sup
    <3>2. ASSUME NEW t \in Tasks \ Owned, SetFrame(t, NewFrame("retry", "asleep", NoName, NoName))
          PROVE  \A n \in Names : Sup(n)' = Sup(n)
      BY <1>0, <1>1, <3>2 DEF SetFrame
    <3> QED
      BY <1>9, <3>1, <3>2 DEF BootEnds
  <2> QED
    BY <1>2, <1>9, <2>1 DEF BootEnds, LooksOn, Registers, connVars, Serving
<1>10. CASE UNCHANGED allVars
  BY <1>2, <1>10 DEF allVars, vars, connVars, mgrVars, supVars, LooksOn, Sup, Registers, Serving
<1> QED
  BY <1>3, <1>4, <1>5, <1>6, <1>7, <1>8, <1>9, <1>10 DEF RetryStep

\* A supervisor goes on; the others, and the tables, stay.
Goes(n, pc) ==
    /\ Sup(n)' = [Sup(n) EXCEPT !.pc = pc]
    /\ \A m \in Names \ {n} : Sup(m)' = Sup(m)
    /\ UNCHANGED <<connections, phase>>
    /\ \A c \in Conns \ {Sup(n).conn} : state'[c] = state[c]

\* Every step of a supervisor, and its end, is one.
LEMMA SupGoes ==
    ASSUME SupTyped, NEW n \in Names, NEW pc \in Supervising, Goto(SupTask[n], pc),
           LoopTop(n) \/ Attempted(n) \/ AttemptFailed(n) \/ \E t \in Tasks : StopSupervisor(t, n)
    PROVE  Goes(n, pc) /\ Sup(n)'.pc = pc /\ Sup(n)'.conn = Sup(n).conn /\ Exists(n) /\ Sup(n).conn \in Conns
<1>0. /\ SupTask[n] \in Tasks /\ frame \in [Tasks -> Frame] /\ state \in [Conns -> ConnectionState]
      /\ Supervised(n)
  BY SupTasks DEF SupTyped, Posted, MgrTyped, MgrTypeOK, Typed, TypeOK
<1>1. Sup(n)' = [Sup(n) EXCEPT !.pc = pc] /\ Sup(n)'.pc = pc /\ Sup(n)'.conn = Sup(n).conn
  BY <1>0 DEF Goto, Sup, Frame
<1>2. \A m \in Names \ {n} : Sup(m)' = Sup(m)
  BY <1>0, SupTasks DEF Goto, Sup
<1>3. Exists(n) /\ Sup(n).conn \in Conns
  BY <1>0 DEF Supervised, LoopTop, MayLoop, Attempted, AttemptFailed, StopSupervisor, Active, At, Sup, Exists
<1>4. \A c \in Conns \ {Sup(n).conn} : state'[c] = state[c]
  <2>1. CASE LoopTop(n)
    BY <1>0, <2>1 DEF LoopTop, Connect, ConnectNoop
  <2>2. CASE Attempted(n)
    BY <2>2 DEF Attempted, Collect
  <2>3. CASE AttemptFailed(n)
    BY <1>0, <2>3 DEF AttemptFailed
  <2>4. ASSUME NEW t \in Tasks, StopSupervisor(t, n) PROVE UNCHANGED state
    BY <2>4 DEF StopSupervisor, ConnectCancelled, connVars
  <2> QED
    BY <2>1, <2>2, <2>3, <2>4
<1>5. UNCHANGED <<connections, phase>>
  BY DEF LoopTop, Attempted, AttemptFailed, StopSupervisor
<1> QED
  BY <1>1, <1>2, <1>3, <1>4, <1>5 DEF Goes

\* Looking on keeps what the supervisors and their connections agree on.
LEMMA LooksOnInv ==
    ASSUME SupTyped, SupInv, LooksOn
    PROVE  SupInv'
<1>0. \A n \in Names : /\ Sup(n)' = Sup(n) /\ (Exists(n)' <=> Exists(n)) /\ (Active(n)' <=> Active(n))
                       /\ Active(n) => Exists(n)
                       /\ Exists(n) => Sup(n).conn \in Conns /\ Sup(n).conn # NoConn
                       /\ SupTask[n] \in Tasks /\ connections[n] \in Conns \cup {NoConn}
  BY SupTasks, NullsAssumption DEF LooksOn, Exists, Active, SupTyped, Posted, Supervised, MgrTyped, MgrTypeOK
<1>1. Apart'
  <2>1. CASE \A n \in Names : connections'[n] \in {connections[n], NoConn}
    BY <1>0, <2>1 DEF SupInv, Apart
  <2>2. ASSUME NEW k \in Names, NewConn \in Conns, FreshConn(NewConn), connections' = [connections EXCEPT ![k] = NewConn]
        PROVE  Apart'
    <3>1. \A n \in Names : Sup(n).conn # NewConn /\ connections[n] # NewConn
      BY <1>0, <2>2 DEF FreshConn, Sup
    <3>2. \A n \in Names : connections'[n] = IF n = k THEN NewConn ELSE connections[n]
      BY <2>2 DEF SupTyped, MgrTyped, MgrTypeOK
    <3> QED
      BY <1>0, <3>1, <3>2 DEF SupInv, Apart
  <2> QED
    BY <2>1, <2>2 DEF LooksOn, Registers
<1>2. Opened'
  <2>1. ASSUME Serving', NEW n \in Names, connections'[n] # NoConn, state'[connections'[n]] = "circuit_open"
        PROVE  Active(n)' /\ Sup(n)'.conn = connections'[n]
    <3>1. connections'[n] = connections[n]
      BY <2>1 DEF LooksOn, Registers, SupTyped, MgrTyped, MgrTypeOK
    <3>2. state[connections[n]] = "circuit_open" /\ connections[n] # NoConn /\ Serving
      BY <1>0, <2>1, <3>1 DEF LooksOn, MarksNothing, Marks
    <3> QED
      BY <1>0, <2>1, <3>1, <3>2 DEF SupInv, Opened
  <2> QED
    BY <2>1 DEF Opened
<1>3. DropNoticed'
  <2>1. ASSUME NEW n \in Names, Sup(n).pc = "watch", ~IsConnected(Sup(n).conn)' PROVE n \in dropped'
    <3>1. Active(n) /\ Exists(n)
      BY <2>1 DEF Active, Exists
    <3>2. CASE Noticed
      BY <1>0, <2>1, <3>1, <3>2 DEF Noticed, SupInv, DropNoticed, IsConnected
    <3>3. CASE dropped' = dropped /\ state'[Sup(n).conn] = state[Sup(n).conn]
      BY <1>0, <2>1, <3>1, <3>3 DEF SupInv, DropNoticed, IsConnected
    <3> QED
      BY <3>1, <3>2, <3>3 DEF LooksOn
  <2> QED
    BY <1>0, <2>1 DEF DropNoticed
<1>4. FailedNotChurned'
  BY <1>0 DEF SupInv, FailedNotChurned, LooksOn, MarksNothing, Marks
<1>5. BreakerConsistent'
  BY <1>0 DEF SupInv, BreakerConsistent, LooksOn, MarksNothing, Marks
<1> QED
  BY <1>1, <1>2, <1>3, <1>4, <1>5 DEF SupInv

\* A supervisor that goes on owns the connection it owned.
LEMMA GoesApart ==
    ASSUME SupTyped, Apart, NEW n \in Names, NEW pc \in Supervising, Goes(n, pc), Exists(n),
           Sup(n)'.pc = pc, Sup(n)'.conn = Sup(n).conn
    PROVE  Apart' /\ \A m \in Names \ {n} : Exists(m) => state'[Sup(m).conn] = state[Sup(m).conn]
<1>1. \A m \in Names : Sup(m)'.conn = Sup(m).conn /\ (Exists(m)' <=> Exists(m))
  BY DEF Goes, Exists, Supervising
<1>2. \A m \in Names \ {n} : Exists(m) => Sup(m).conn \in Conns \ {Sup(n).conn}
  BY DEF Apart, SupTyped, Posted, Supervised
<1> QED
  BY <1>1, <1>2 DEF Apart, Goes

\* So it does, whatever it does to that connection, as long as it shows it.
LEMMA GoesInv ==
    ASSUME SupTyped, SupInv, NEW n \in Names, NEW pc \in Supervising, Goes(n, pc), Exists(n),
           Sup(n)'.pc = pc, Sup(n)'.conn = Sup(n).conn, Sup(n).conn \in Conns,
           \A m \in Names \ {n} : health'[m] = health[m] /\ (m \in dropped => m \in dropped'),
           pc = "watch" => state'[Sup(n).conn] = "connected" /\ health'[n].failures = 0,
           state'[Sup(n).conn] = "failed" => ~Active(n)',
           Serving /\ state'[Sup(n).conn] = "circuit_open" => Active(n)',
           Active(n)' /\ state'[Sup(n).conn] = "circuit_open" => health'[n].breaker,
           health'[n].breaker <=> health'[n].failures = FailureThreshold,
           health'[n].attention => health'[n].breaker /\ health'[n].cycles = EscalationAfter
    PROVE  SupInv'
<1>0. /\ Apart' /\ \A m \in Names \ {n} : Exists(m) => state'[Sup(m).conn] = state[Sup(m).conn]
  BY GoesApart DEF SupInv
<1>1. \A m \in Names \ {n} : /\ Sup(m)' = Sup(m) /\ (Active(m)' <=> Active(m)) /\ (Exists(m)' <=> Exists(m))
                             /\ Active(m) => Exists(m)
                             /\ Exists(m) => state'[Sup(m).conn] = state[Sup(m).conn]
  BY <1>0 DEF Goes, Active, Exists
<1>2. DropNoticed'
  <2>1. ASSUME NEW m \in Names \ {n}, Sup(m).pc = "watch", ~IsConnected(Sup(m).conn)' PROVE m \in dropped'
    BY <1>1, <2>1 DEF SupInv, DropNoticed, Exists, IsConnected
  <2> QED
    BY <1>1, <2>1 DEF DropNoticed, IsConnected
<1>3. FailedNotChurned'
  BY <1>1 DEF SupInv, FailedNotChurned
<1>4. BreakerConsistent'
  <2>1. ASSUME NEW m \in Names \ {n}
        PROVE  LET h == health'[m] IN
               /\ h.breaker <=> h.failures = FailureThreshold
               /\ h.attention => h.breaker /\ h.cycles = EscalationAfter
               /\ Sup(m)'.pc = "watch" => h.failures = 0
               /\ Active(m)' /\ state'[Sup(m)'.conn] = "circuit_open" => h.breaker
    BY <1>1, <2>1 DEF SupInv, BreakerConsistent
  <2> QED
    BY <2>1 DEF BreakerConsistent
<1>5. Opened'
  <2>1. ASSUME Serving, NEW m \in Names, connections[m] # NoConn, state'[connections[m]] = "circuit_open"
        PROVE  Active(m)' /\ Sup(m)'.conn = connections[m]
    <3>1. CASE connections[m] = Sup(n).conn
      BY <2>1, <3>1 DEF SupInv, Apart
    <3>2. CASE connections[m] # Sup(n).conn
      <4>1. state[connections[m]] = "circuit_open"
        BY <2>1, <3>2 DEF Goes, SupTyped, MgrTyped, MgrTypeOK
      <4>2. Active(m) /\ Sup(m).conn = connections[m]
        BY <2>1, <4>1 DEF SupInv, Opened
      <4> QED
        BY <1>1, <3>2, <4>2
    <3> QED
      BY <3>1, <3>2
  <2> QED
    BY <2>1 DEF Opened, Goes, Serving
<1> QED
  BY <1>0, <1>2, <1>3, <1>4, <1>5 DEF SupInv

\* The head of the loop.
LEMMA LoopTopInv ==
    ASSUME SupTyped, SupInv, NEW n \in Names, LoopTop(n)
    PROVE  SupInv'
<1> DEFINE c == Sup(n).conn
<1>1. Goes(n, "attempt") /\ Sup(n)'.pc = "attempt" /\ Sup(n)'.conn = c /\ Exists(n) /\ c \in Conns
  BY SupGoes DEF LoopTop, Supervising
<1>2. state'[c] \in {"connecting", "connected"}
  BY <1>1 DEF LoopTop, Connect, ConnectNoop, SupTyped, MgrTyped, Typed, TypeOK
<1>3. UNCHANGED health /\ dropped' = dropped \ {n}
  BY DEF LoopTop
<1> QED
  BY <1>1, <1>2, <1>3, GoesInv DEF Supervising, Active, SupInv, BreakerConsistent

\* connect() returned.
LEMMA AttemptedInv ==
    ASSUME SupTyped, SupInv, NEW n \in Names, Attempted(n)
    PROVE  SupInv'
<1> DEFINE c == Sup(n).conn
<1>1. UNCHANGED <<state, dropped>> /\ health \in [Names -> Health]
  BY DEF Attempted, Collect, SupTyped, SupTypeOK
<1>2. CASE IsConnected(c) /\ health' = [health EXCEPT ![n] = [Healthy EXCEPT !.cycles = health[n].cycles]] /\ Goto(SupTask[n], "watch")
  <2>1. Goes(n, "watch") /\ Sup(n)'.pc = "watch" /\ Sup(n)'.conn = c /\ Exists(n) /\ c \in Conns
    BY <1>2, SupGoes DEF Supervising
  <2>2. /\ health'[n].failures = 0 /\ ~health'[n].breaker /\ ~health'[n].attention
        /\ \A m \in Names \ {n} : health'[m] = health[m]
    BY <1>1, <1>2 DEF Healthy
  <2>3. FailureThreshold # 0
    BY SupervisorAssumption
  <2> QED
    BY <1>1, <1>2, <2>1, <2>2, <2>3, GoesInv DEF Supervising, Active, IsConnected
<1>3. CASE state[c] = "auth_required" /\ Goto(SupTask[n], "auth") /\ UNCHANGED health
  <2>1. Goes(n, "auth") /\ Sup(n)'.pc = "auth" /\ Sup(n)'.conn = c /\ Exists(n) /\ c \in Conns
    BY <1>3, SupGoes DEF Supervising
  <2> QED
    BY <1>1, <1>3, <2>1, GoesInv DEF Supervising, SupInv, BreakerConsistent
<1> QED
  BY <1>2, <1>3 DEF Attempted

\* The breaker of a supervisor opens at the threshold and stays open, and an
\* alert stands for enough cycles with an open breaker.
LEMMA CountedConsistent ==
    ASSUME NEW h \in Health, h.breaker <=> h.failures = FailureThreshold,
           h.attention => h.breaker /\ h.cycles = EscalationAfter
    PROVE  /\ Counted(h).breaker <=> Counted(h).failures = FailureThreshold
           /\ Counted(h).attention => Counted(h).breaker /\ Counted(h).cycles = EscalationAfter
<1>1. /\ h.failures \in Nat /\ h.failures <= FailureThreshold /\ h.breaker \in BOOLEAN /\ h.attention \in BOOLEAN
      /\ h.cycles \in Nat /\ h.cycles <= EscalationAfter
      /\ FailureThreshold \in Nat \ {0} /\ EscalationAfter \in Nat \ {0}
  BY SupervisorAssumption DEF Health
<1> DEFINE failures == Min2(h.failures + 1, FailureThreshold)
           open     == h.breaker \/ failures >= FailureThreshold
           cycles   == IF open THEN Min2(h.cycles + 1, EscalationAfter) ELSE h.cycles
<1>2. Counted(h) = [failures |-> failures, breaker |-> open, cycles |-> cycles,
                    attention |-> h.attention \/ (open /\ cycles >= EscalationAfter)]
  BY DEF Counted
<1>3. /\ Counted(h).failures = failures /\ Counted(h).breaker = open /\ Counted(h).cycles = cycles
      /\ Counted(h).attention = (h.attention \/ (open /\ cycles >= EscalationAfter))
  BY <1>2
<1>4. open <=> failures = FailureThreshold
  BY <1>1 DEF Min2
<1>5. open /\ (h.cycles = EscalationAfter \/ cycles >= EscalationAfter) => cycles = EscalationAfter
  BY <1>1 DEF Min2
<1> HIDE DEF failures, open, cycles
<1>6. h.breaker => open
  BY DEF open
<1> QED
  BY <1>3, <1>4, <1>5, <1>6

\* connect() raised.
LEMMA AttemptFailedInv ==
    ASSUME SupTyped, SupInv, NEW n \in Names, AttemptFailed(n)
    PROVE  SupInv'
<1> DEFINE c == Sup(n).conn
<1>1. UNCHANGED dropped /\ health \in [Names -> Health] /\ state \in [Conns -> ConnectionState] /\ c \in Conns
  BY DEF AttemptFailed, SupTyped, SupTypeOK, MgrTyped, Typed, TypeOK, Posted, Supervised, At, Sup, Exists
<1>2. CASE state' = [state EXCEPT ![c] = "failed"] /\ Goto(SupTask[n], "done") /\ UNCHANGED health
  <2>1. Goes(n, "done") /\ Sup(n)'.pc = "done" /\ Sup(n)'.conn = c /\ Exists(n)
    BY <1>2, SupGoes DEF Supervising
  <2> QED
    BY <1>1, <1>2, <2>1, GoesInv DEF Supervising, Active, SupInv, BreakerConsistent
<1>3. CASE /\ health' = [health EXCEPT ![n] = Counted(@)]
           /\ state' = [state EXCEPT ![c] = IF health'[n].breaker THEN "circuit_open" ELSE "reconnecting"]
           /\ Goto(SupTask[n], "backoff")
  <2>1. Goes(n, "backoff") /\ Sup(n)'.pc = "backoff" /\ Sup(n)'.conn = c /\ Exists(n)
    BY <1>3, SupGoes DEF Supervising
  <2>2. health'[n] = Counted(health[n]) /\ \A m \in Names \ {n} : health'[m] = health[m]
    BY <1>1, <1>3
  <2>3. /\ health'[n].breaker <=> health'[n].failures = FailureThreshold
        /\ health'[n].attention => health'[n].breaker /\ health'[n].cycles = EscalationAfter
    BY <1>1, <2>2, CountedConsistent DEF SupInv, BreakerConsistent
  <2>4. state'[c] = IF health'[n].breaker THEN "circuit_open" ELSE "reconnecting"
    BY <1>1, <1>3
  <2> QED
    BY <1>1, <2>1, <2>2, <2>3, <2>4, GoesInv DEF Supervising, Active
<1> QED
  BY <1>2, <1>3 DEF AttemptFailed

\* stop() of a supervisor.
LEMMA StopSupervisorInv ==
    ASSUME SupTyped, SupInv, NEW t \in Tasks, NEW n \in Names, StopSupervisor(t, n)
    PROVE  SupInv'
<1>1. Goto(SupTask[n], "done") /\ UNCHANGED <<state, health, dropped>> /\ ~Serving
  BY DEF StopSupervisor, Goto, ConnectCancelled, connVars, SupTyped, Posted, At, Halting
<1>2. Goes(n, "done") /\ Sup(n)'.pc = "done" /\ Sup(n)'.conn = Sup(n).conn /\ Exists(n) /\ Sup(n).conn \in Conns
  BY <1>1, SupGoes DEF Supervising
<1> QED
  BY <1>1, <1>2, GoesInv DEF Supervising, Active, SupInv, BreakerConsistent

\* A tick of the coordinator.
LEMMA CoordinateInv ==
    ASSUME SupTyped, SupInv, Coordinate
    PROVE  SupInv'
<1>0. \A n \in Names : /\ SupTask[n] \in Tasks /\ connections[n] \in Conns \cup {NoConn}
                       /\ Exists(n) => Sup(n).conn \in Conns /\ Sup(n).conn # NoConn
                       /\ Active(n) => Exists(n)
  BY SupTasks, NullsAssumption DEF SupTyped, Posted, Supervised, MgrTyped, MgrTypeOK, Active, Exists
<1>1. ASSUME NEW n \in Unsupervised
      PROVE  /\ n \in Names /\ ~Active(n) /\ Active(n)' /\ Exists(n)'
             /\ Sup(n)'.pc = "start" /\ Sup(n)'.conn = Given(n) /\ Given(n) \in Conns /\ Given(n) # NoConn
  <2>1. n \in Names /\ ~Active(n) /\ Given(n) \in Conns /\ Given(n) # NoConn
    BY CoordinateGives, NullsAssumption DEF Unsupervised
  <2>2. Sup(n)' = SupFrame(n, "start", Given(n))
    BY CoordinateGives
  <2>3. Sup(n)'.pc = "start" /\ Sup(n)'.conn = Given(n)
    BY <2>2 DEF SupFrame, NewFrame
  <2> QED
    BY <2>1, <2>3 DEF Active, Exists
<1>2. ASSUME NEW n \in Names \ Unsupervised
      PROVE  /\ Sup(n)' = Sup(n) /\ (Active(n)' <=> Active(n)) /\ (Exists(n)' <=> Exists(n))
             /\ Given(n) = connections[n]
  <2>1. Sup(n)' = Sup(n)
    BY CoordinateGives, SupTasks DEF Sup
  <2> QED
    BY <2>1 DEF Active, Exists, Given, Unnamed
<1>3. \A n \in Names : connections'[n] = Given(n)
  BY CoordinateGives
<1>4. \A n \in Names : /\ Given(n) = connections[n] \/ (n \in Unnamed /\ Given(n) \in Range(Constructed))
                       /\ connections[n] \notin Range(Constructed) /\ Sup(n).conn \notin Range(Constructed)
  BY <1>0, CoordinateGives DEF Given, FreshConn, Sup
<1>5. \A m, n \in Names : m # n /\ Given(m) # NoConn => Given(m) # Given(n)
  <2>1. \A m, n \in Unnamed : m # n => Constructed[m] # Constructed[n]
    BY CoordinateGives DEF Objects, Injection, IsInjective
  <2> QED
    BY <1>4, <2>1 DEF SupInv, Apart, Given
<1>6. \A c \in Conns : state'[c] = IF c \in Range(Constructed) THEN "disconnected" ELSE state[c]
  BY CoordinateGives
<1>7. Apart'
  <2>1. ASSUME NEW m \in Names, NEW n \in Names, m # n
        PROVE  /\ Exists(m)' /\ Exists(n)' => Sup(m)'.conn # Sup(n)'.conn
               /\ Exists(m)' => Sup(m)'.conn # Given(n)
    <3>1. Exists(m) => Sup(m).conn # Given(n)
      BY <1>4, <2>1 DEF SupInv, Apart
    <3>2. Exists(n) => Sup(n).conn # Given(m)
      BY <1>4, <2>1 DEF SupInv, Apart
    <3>3. Exists(m) /\ Exists(n) => Sup(m).conn # Sup(n).conn
      BY <2>1 DEF SupInv, Apart
    <3>4. Exists(m)' => (Sup(m)'.conn = Given(m) /\ Given(m) # NoConn) \/ (Exists(m) /\ Sup(m)'.conn = Sup(m).conn)
      BY <1>1, <1>2
    <3>5. Exists(n)' => (Sup(n)'.conn = Given(n) /\ Given(n) # NoConn) \/ (Exists(n) /\ Sup(n)'.conn = Sup(n).conn)
      BY <1>1, <1>2
    <3> QED
      BY <1>5, <2>1, <3>1, <3>2, <3>3, <3>4, <3>5
  <2> QED
    BY <1>3, <1>5, <2>1 DEF Apart
<1>8. ASSUME NEW n \in Unsupervised
      PROVE  state'[Given(n)] \notin {"failed", "circuit_open"} /\ health'[n] = Healthy
  <2>1. CASE n \in Unnamed
    BY <1>1, <1>6, <2>1, CoordinateGives DEF Given
  <2>2. CASE n \notin Unnamed
    <3>1. Given(n) = connections[n] /\ connections[n] # NoConn /\ connections[n] \in Conns
      BY <1>0, <1>1, <2>2 DEF Given, Unnamed
    <3>2. state[connections[n]] # "failed"
      BY <3>1 DEF Unsupervised
    <3>3. state[connections[n]] # "circuit_open"
      BY <1>1, <3>1, CoordinateGives DEF SupInv, Opened, Serving
    <3> QED
      BY <1>1, <1>4, <1>6, <3>1, <3>2, <3>3, CoordinateGives
  <2> QED
    BY <1>1, <2>1, <2>2, CoordinateGives
<1>9. ASSUME NEW n \in Names \ Unsupervised
      PROVE  /\ health'[n] = health[n] /\ (n \in dropped => n \in dropped')
             /\ Exists(n) => state'[Sup(n).conn] = state[Sup(n).conn]
  BY <1>0, <1>4, <1>6, CoordinateGives
<1>10. Opened'
  <2>1. ASSUME NEW n \in Names, Given(n) # NoConn, state'[Given(n)] = "circuit_open"
        PROVE  Active(n)' /\ Sup(n)'.conn = Given(n)
    <3>1. CASE n \in Unsupervised
      BY <1>1, <3>1
    <3>2. CASE n \notin Unsupervised
      <4>1. state[connections[n]] = "circuit_open"
        BY <1>0, <1>2, <1>4, <1>6, <2>1, <3>2
      <4> QED
        BY <1>2, <2>1, <3>2, <4>1, CoordinateGives DEF SupInv, Opened, Serving
    <3> QED
      BY <3>1, <3>2
  <2> QED
    BY <1>3, <2>1 DEF Opened
<1>11. DropNoticed'
  <2>1. ASSUME NEW n \in Names, Sup(n)'.pc = "watch", state'[Sup(n)'.conn] # "connected" PROVE n \in dropped'
    <3>1. n \notin Unsupervised
      BY <1>1, <2>1
    <3> QED
      BY <1>2, <1>9, <2>1, <3>1 DEF SupInv, DropNoticed, IsConnected, Exists
  <2> QED
    BY <2>1 DEF DropNoticed, IsConnected
<1>12. FailedNotChurned'
  <2>1. ASSUME NEW n \in Names, Exists(n)', state'[Sup(n)'.conn] = "failed" PROVE ~Active(n)'
    <3>1. n \notin Unsupervised
      BY <1>1, <1>8, <2>1
    <3> QED
      BY <1>2, <1>9, <2>1, <3>1 DEF SupInv, FailedNotChurned
  <2> QED
    BY <2>1 DEF FailedNotChurned
<1>13. BreakerConsistent'
  <2>1. ASSUME NEW n \in Names
        PROVE  LET h == health'[n] IN
               /\ h.breaker <=> h.failures = FailureThreshold
               /\ h.attention => h.breaker /\ h.cycles = EscalationAfter
               /\ Sup(n)'.pc = "watch" => h.failures = 0
               /\ Active(n)' /\ state'[Sup(n)'.conn] = "circuit_open" => h.breaker
    <3>1. CASE n \in Unsupervised
      <4>1. FailureThreshold # 0
        BY SupervisorAssumption
      <4> QED
        BY <1>1, <1>8, <3>1, <4>1 DEF Healthy
    <3>2. CASE n \notin Unsupervised
      BY <1>0, <1>2, <1>9, <3>2 DEF SupInv, BreakerConsistent
    <3> QED
      BY <3>1, <3>2
  <2> QED
    BY <2>1 DEF BreakerConsistent
<1> QED
  BY <1>7, <1>10, <1>11, <1>12, <1>13 DEF SupInv

\* No supervisor exists at the start.
LEMMA SupInitInv == SupInit => SupInv
<1> SUFFICES ASSUME SupInit PROVE SupInv
  OBVIOUS
<1>1. ASSUME NEW n \in Names PROVE Sup(n).pc = "idle"
  <2>1. frame[SupTask[n]] = SupFrame(CHOOSE m \in Names : SupTask[m] = SupTask[n], "idle", NoConn)
    BY SupTasks DEF SupInit
  <2> QED
    BY <2>1 DEF Sup, SupFrame, NewFrame
<1>2. \A n \in Names : connections[n] = NoConn /\ health[n] = Healthy
  BY DEF SupInit, MgrInit
<1> QED
  BY <1>1, <1>2, SupervisorAssumption
     DEF SupInv, Apart, Opened, DropNoticed, FailedNotChurned, BreakerConsistent, Exists, Active, Healthy

\* Every step of the hub keeps supervisors and connections together.
LEMMA SupNextInv ==
    ASSUME SupTyped, SupInv, [SupNext]_allVars
    PROVE  SupInv'
BY NextMoves, ManagingLooksOn, OthersLookOn, LooksOnInv, LoopTopInv, AttemptedInv, AttemptFailedInv, StopSupervisorInv,
   CoordinateInv DEF SupMoves, ShutdownStep, SupStep

\* Supervisors, their counters and their connections agree in the whole hub.
THEOREM SupervisorInvariance == SupSpec => [](SupTyped /\ SupInv)
<1>1. SupInit => SupTyped /\ SupInv
  BY SupInitTyped, SupInitInv
<1>2. SupTyped /\ SupInv /\ [SupNext]_allVars => (SupTyped /\ SupInv)'
  BY SupNextTyped, SupNextInv
<1> QED
  BY <1>1, <1>2, PTL DEF SupSpec

\* A supervisor that waits for a drop hears of every one: whoever takes its
\* connection out of CONNECTED, the reaper, a reload, the stop route or the
\* shutdown, its drop event is set before it can miss it.
THEOREM DropsNoticed == SupSpec => []DropNoticed
<1>1. SupInv => DropNoticed
  BY DEF SupInv
<1> QED
  BY <1>1, SupervisorInvariance, PTL

\* The counters of a supervisor and the state its connection shows agree:
\* CIRCUIT_OPEN is never shown without an open breaker.
THEOREM BreakersConsistent == SupSpec => []BreakerConsistent
<1>1. SupInv => BreakerConsistent
  BY DEF SupInv
<1> QED
  BY <1>1, SupervisorInvariance, PTL

\* A connection that failed for good is never tried again: neither its own
\* supervisor runs on, nor does the coordinator give it another.
THEOREM FailedStaysFailed == SupSpec => []FailedNotChurned
<1>1. SupInv => FailedNotChurned
  BY DEF SupInv
<1> QED
  BY <1>1, SupervisorInvariance, PTL

------------------------------------------------------------------------------
(* The shutdown *)

\* A fleet in which only start-up, the supervisors, the reaper and the stop
\* route touch connections, whatever else fails or times out.
Unattended == Ops \cap {"route", "read", "warm", "reconnect", "reload", "fast_retry"} = {}

\* States in which a connection holds a session, and methods that lead there.
Ups == {"connected", "draining"}
Trying == {"handshake", "discover"}

\* What is up, or may come up, is registered, and supervisors own what is.
Backed ==
    /\ \A c \in Conns : state[c] \in Ups => \E n \in Names : connections[n] = c
    /\ \A t \in Tasks : job[t].op \in Trying => \E n \in Names : connections[n] = job[t].conn
    /\ \A n \in Names : Exists(n) => Sup(n).conn = connections[n]

\* What a task that is no supervisor does in such a fleet.
Few(t) ==
    /\ frame[t].pc \in {"idle", "evict", "evicting", "connecting", "joining", "joined"} \cup Halting
    /\ frame[t].op \notin {"route", "read", "retry"}
    /\ frame[t].pc \in {"connecting", "joining", "joined"} => frame[t].op = "boot"
    /\ frame[t].pc \in {"evict", "evicting"} => frame[t].name = NoName

\* A backend is connected once by connect_all, before there are supervisors.
Booting ==
    /\ \A n \in boot : connections[n] = NoConn
    /\ phase # "boot" => boot = {}
    /\ phase = "boot" => \A n \in Names : ~Exists(n)

\* One task shuts down, alone, and closes connections when all supervisors
\* have been stopped.
Closing ==
    /\ ~Serving => \A t \in Tasks \ Owned : Idle(t) \/ (frame[t].pc \in Halting /\ phase = "stopping")
    /\ \A t, u \in Tasks : frame[t].pc \in Halting /\ frame[u].pc \in Halting => t = u
    /\ \A t \in Tasks : At(t, "disconnecting") => \A n \in Names : ~Active(n)

QuietInv ==
    /\ \A t \in Tasks \ Owned : Few(t)
    /\ Booting
    /\ Closing
    /\ phase # "down" => Backed
    /\ ShutdownQuiet

\* No connection comes up but by an attempt, and no attempt begins.
NoRise ==
    /\ \A t \in Tasks : job'[t].op \in Trying => job[t].op \in Trying /\ job'[t].conn = job[t].conn
    /\ \A c \in Conns : state'[c] \in Ups =>
          state[c] \in Ups \/ \E t \in Tasks : job[t].op \in Trying /\ job[t].conn = c

\* Methods other than connect() begin none.
Settling(t, c) ==
    \/ ConnectNoop(t, c)
    \/ HandshakeDone(t) \/ ConnectDone(t) \/ ConnectAuthRequired(t) \/ ConnectFailed(t)
    \/ ConnectCancelled(t) \/ ConnectTimedOut(t)
    \/ Disconnect(t, c) \/ CloseDone(t)
    \/ DrainAndDisconnect(t, c) \/ DrainLockAcquired(t) \/ DrainDone(t) \/ DrainTimeout(t)
    \/ CallRejected(t, c) \/ Call(t, c) \/ CallDone(t)
    \/ Collect(t)

\* With them nothing comes up that was not coming up.
LEMMA SettlingNoRise ==
    ASSUME Typed, NEW t \in Tasks, NEW d \in Conns, Settling(t, d)
    PROVE  NoRise
<1> USE DEF Ups, Trying
<1>0. state \in [Conns -> ConnectionState] /\ job \in [Tasks -> Job]
  BY DEF Typed, TypeOK
<1>1. CASE ConnectNoop(t, d)
  BY <1>0, <1>1, SuspendAt DEF ConnectNoop, NoRise
<1>2. CASE HandshakeDone(t)
  <2>1. job'[t].op = "discover" /\ job'[t].conn = job[t].conn /\ \A u \in Tasks \ {t} : job'[u] = job[u]
    BY <1>0, <1>2 DEF HandshakeDone, Job
  <2> QED
    BY <1>2, <2>1 DEF HandshakeDone, NoRise
<1>3. CASE ConnectDone(t)
  BY <1>0, <1>3, FinishAt DEF ConnectDone, NoRise
<1>4. CASE ConnectAuthRequired(t) \/ ConnectFailed(t) \/ ConnectCancelled(t) \/ ConnectTimedOut(t)
  BY <1>0, <1>4, FinishAt DEF ConnectAuthRequired, ConnectFailed, ConnectCancelled, ConnectTimedOut, NoRise
<1>5. CASE Disconnect(t, d)
  BY <1>0, <1>5, SuspendAt DEF Disconnect, Disconnected, NoRise
<1>6. CASE CloseDone(t)
  BY <1>0, <1>6, FinishAt DEF CloseDone, Disconnected, NoRise
<1>7. CASE DrainAndDisconnect(t, d)
  BY <1>0, <1>7, SuspendAt DEF DrainAndDisconnect, DrainLocked, DrainWaits, DrainCloses, Disconnected, NoRise
<1>8. CASE DrainLockAcquired(t)
  BY <1>0, <1>8, SuspendAt DEF DrainLockAcquired, DrainLocked, DrainWaits, DrainCloses, Disconnected, NoRise
<1>9. CASE DrainDone(t) \/ DrainTimeout(t)
  BY <1>0, <1>9, SuspendAt, FinishAt DEF DrainDone, DrainTimeout, DrainResumes, Disconnected, NoRise
<1>10. CASE CallRejected(t, d) \/ Call(t, d)
  BY <1>0, <1>10, SuspendAt DEF CallRejected, Call, NoRise
<1>11. CASE CallDone(t)
  BY <1>0, <1>11, FinishAt DEF CallDone, NoRise
<1>12. CASE Collect(t)
  BY <1>0, <1>12 DEF Collect, NoRise, IdleJob
<1> QED
  BY <1>1, <1>2, <1>3, <1>4, <1>5, <1>6, <1>7, <1>8, <1>9, <1>10, <1>11, <1>12 DEF Settling

\* A step that touches no connection.
LEMMA UnchangedNoRise == UNCHANGED <<state, job>> => NoRise
BY DEF NoRise

\* What is registered stays so, and nothing else comes up.
LEMMA BackedKept ==
    ASSUME Backed, NoRise, UNCHANGED connections, \A n \in Names : Exists(n)' => Exists(n) /\ Sup(n)'.conn = Sup(n).conn
    PROVE  Backed'
<1>1. \A c \in Conns : state'[c] \in Ups => \E n \in Names : connections[n] = c
  BY DEF Backed, NoRise
<1>2. \A t \in Tasks : job'[t].op \in Trying => \E n \in Names : connections[n] = job'[t].conn
  BY DEF Backed, NoRise
<1> QED
  BY <1>1, <1>2 DEF Backed

\* Nobody but a supervisor and the shutdown is at their places.
LEMMA FewAtRest ==
    ASSUME SupTyped, QuietInv, ~Serving, NEW t \in Tasks
    PROVE  /\ frame[t].pc \in Supervising \cup Halting \cup {"idle"}
           /\ frame[t].pc \in Halting => phase = "stopping"
           /\ frame[t].pc \notin Halting /\ t \notin Owned => job[t].op = "idle"
           /\ frame[t].pc \notin Halting /\ (\A n \in Names : ~Active(n)) => job[t].op \in {"idle", "raised"}
<1>1. CASE t \notin Owned
  BY <1>1 DEF QuietInv, Closing, Idle, NoFrame, Halting
<1>2. ASSUME NEW n \in Names, t = SupTask[n]
      PROVE  /\ frame[t].pc \in Supervising \cup {"idle"}
             /\ ~Active(n) => job[t].op \in {"idle", "raised"}
  <2>1. Supervised(n) /\ TaskFits(Sup(n), job[t])
    BY <1>2 DEF SupTyped, Posted, MgrTyped, Shaped, Sup
  <2> QED
    BY <1>2, <2>1 DEF Supervised, Supervising, Sup, Active, TaskFits
<1> QED
  BY <1>1, <1>2 DEF Owned, Supervising, Halting

\* What keeps QuietInv when nothing comes up: frames, boot and the shutdown.
LEMMA QuietBy ==
    ASSUME SupTyped, QuietInv, NoRise, UNCHANGED <<connections, boot, phase>>,
           \A n \in Names : (Exists(n)' => Exists(n) /\ Sup(n)'.conn = Sup(n).conn) /\ (Active(n)' => Active(n)),
           \A t \in Tasks \ Owned : Few(t)',
           Closing'
    PROVE  QuietInv'
<1>1. Booting'
  BY DEF QuietInv, Booting
<1>2. phase' # "down" => Backed'
  BY BackedKept DEF QuietInv
<1>3. ShutdownQuiet'
  <2>1. ASSUME phase = "down" PROVE \A c \in Conns : state'[c] \notin Ups
    <3>1. \A t \in Tasks : job[t].op \notin Trying
      BY <2>1, FewAtRest DEF QuietInv, ShutdownQuiet, Serving, Trying
    <3>2. \A c \in Conns : state[c] \notin Ups
      BY <2>1 DEF QuietInv, ShutdownQuiet, Ups
    <3> QED
      BY <3>1, <3>2 DEF NoRise
  <2> QED
    BY <2>1 DEF QuietInv, ShutdownQuiet, Ups
<1> QED
  BY <1>1, <1>2, <1>3 DEF QuietInv

\* The supervisors stay where they are.
LEMMA SupStays ==
    ASSUME \A n \in Names : Sup(n)' = Sup(n)
    PROVE  \A n \in Names : (Exists(n)' <=> Exists(n)) /\ (Active(n)' <=> Active(n)) /\ Sup(n)'.conn = Sup(n).conn
BY DEF Exists, Active

\* While the hub serves, a task that is not halting may go where it goes.
LEMMA ServingCloses ==
    ASSUME SupTyped, QuietInv, Serving, UNCHANGED phase,
           \A t \in Tasks : frame'[t] = frame[t] \/ frame'[t].pc \notin Halting
    PROVE  Closing'
BY DEF QuietInv, Closing, Serving, SupTyped, Posted, Halting, At

\* The operations that go on.
LEMMA ContinueQuiet ==
    ASSUME SupTyped, QuietInv, NEW t \in Tasks, Continue(t), UNCHANGED phase
    PROVE  QuietInv'
<1>0. /\ IInv /\ Typed /\ MgrTyped /\ frame \in [Tasks -> Frame] /\ FrameShape(frame[t]) /\ TaskFits(frame[t], job[t])
      /\ connections \in [Names -> Conns \cup {NoConn}]
  BY DEF SupTyped, MgrTyped, MgrTypeOK, Shaped
<1>1. CASE Upstream(t)
  <2>1. UNCHANGED mgrVars /\ OnlyTask(t) /\ job[t].conn \in Conns /\ job[t].op \notin {"idle", "raised"}
    BY <1>0, <1>1, UpstreamMoves DEF Upstream
  <2>2. NoRise
    <3>1. Settling(t, job[t].conn)
      BY <1>1 DEF Upstream, Settling
    <3> QED
      BY <1>0, <2>1, <3>1, SettlingNoRise
  <2>3. Closing'
    BY <2>1 DEF QuietInv, Closing, mgrVars, Serving, Idle, OnlyTask, At, Active, Sup
  <2>4. \A n \in Names : Sup(n)' = Sup(n)
    BY <2>1 DEF mgrVars, Sup
  <2>5. \A u \in Tasks \ Owned : Few(u)'
    BY <2>1 DEF QuietInv, Few, mgrVars, At
  <2> QED
    BY <2>1, <2>2, <2>3, <2>4, <2>5, SupStays, QuietBy DEF mgrVars
<1>2. CASE ~Upstream(t)
  <2>1. frame[t].pc \notin Supervising \cup Halting \cup {"idle"} /\ Advances(t)
    BY <1>0, <1>2, ContinueAdvances
  <2>2. Serving /\ t \in Tasks \ Owned /\ Few(t)
    BY <2>1, FewAtRest, NotOwned DEF QuietInv
  <2>3. Outside
    BY ManagingOutside DEF Managing
  <2>4. \A n \in Names : Sup(n)' = Sup(n)
    BY <2>3 DEF Outside, Sup
  <2>5. Closing'
    BY <2>2, <2>3, ServingCloses DEF Outside, Onward
  <2>6. AfterConnect(t) = NoFrame \/ frame[t].pc \notin {"connecting", "joined"}
    BY <2>2 DEF Few, AfterConnect
  <2>7. /\ NoRise /\ UNCHANGED <<connections, boot>>
        /\ frame'[t] = NoFrame \/ frame'[t] = frame[t] \/ (frame[t].pc = "evict" /\ frame'[t] = [frame[t] EXCEPT !.pc = "evicting"])
    <3>1. CASE ConnectSucceeded(t) \/ ConnectErrored(t)
      <4>1. Settling(t, job[t].conn) /\ UNCHANGED <<connections, boot>> /\ AttemptEnds(t) /\ frame[t].pc = "connecting" /\ job[t].conn \in Conns
        BY <1>0, <3>1 DEF ConnectSucceeded, ConnectErrored, Settling, At, TaskFits, Typed, JobShape
      <4> QED
        BY <1>0, <2>6, <4>1, SettlingNoRise DEF AttemptEnds
    <3>2. CASE ConnectExpires(t)
      <4>1. Settling(t, job[t].conn) /\ job[t].conn \in Conns /\ UNCHANGED mgrVars
        BY <1>0, <3>2 DEF ConnectExpires, ConnectTimedOut, Settling, Typed, JobShape
      <4> QED
        BY <1>0, <4>1, SettlingNoRise DEF mgrVars
    <3>3. CASE Joined(t)
      BY <1>0, <2>6, <3>3, UnchangedNoRise DEF Joined, At, SetFrame, connVars
    <3>4. CASE EvictEnd(t)
      <4>1. Collect(t) /\ Return(t) /\ UNCHANGED <<connections, boot>>
        BY <2>2, <3>4 DEF EvictEnd, Few, At
      <4>2. job[t].conn \in Conns
        BY <1>0, <4>1 DEF Collect, Typed, JobShape
      <4> QED
        BY <1>0, <4>1, <4>2, SettlingNoRise DEF Settling, Return
    <3>5. CASE ReaperEvicts(t)
      <4>1. CASE EvictBegin(t, frame[t].victim) /\ Goto(t, "evicting")
        <5>1. connections[frame[t].victim] \in Conns
          BY <1>0, <3>5, <4>1, NamedConn DEF ReaperEvicts, At, FrameShape, EvictBegin
        <5> QED
          BY <1>0, <3>5, <4>1, <5>1, SettlingNoRise DEF EvictBegin, Settling, Goto, ReaperEvicts, At
      <4>2. CASE Return(t) /\ UNCHANGED <<connVars, connections, boot>>
        BY <1>0, <4>2, UnchangedNoRise DEF Return, connVars
      <4> QED
        BY <3>5, <4>1, <4>2 DEF ReaperEvicts
    <3>6. CASE ReconnectClosed(t) \/ Dispatch(t) \/ RouteEnds(t) \/ RemoveEnd(t) \/ ReplaceDrained(t) \/ ReplaceAdds(t)
      <4>1. frame[t].pc \in {"closing", "gate", "calling", "draining", "add"}
        BY <1>0, <3>6 DEF ReconnectClosed, Dispatch, RouteEnds, RemoveEnd, ReplaceDrained, ReplaceAdds, At, FrameShape
      <4> QED
        BY <2>2, <4>1 DEF Few, Halting
    <3> QED
      BY <1>2, <3>1, <3>2, <3>3, <3>4, <3>5, <3>6 DEF Continue
  <2>8. \A u \in Tasks \ Owned : Few(u)'
    <3>1. Few(t)'
      <4>1. CASE frame'[t] = NoFrame
        BY <4>1 DEF Few, NoFrame, At
      <4>2. CASE frame'[t] = frame[t]
        BY <2>2, <4>2 DEF Few, At
      <4>3. CASE frame[t].pc = "evict" /\ frame'[t] = [frame[t] EXCEPT !.pc = "evicting"]
        BY <1>0, <2>2, <4>3 DEF Few, At, Frame
      <4> QED
        BY <2>7, <4>1, <4>2, <4>3
    <3>2. ASSUME NEW u \in Tasks \ Owned, u # t PROVE Few(u)'
      <4>1. Few(u)
        BY DEF QuietInv
      <4>2. CASE frame'[u] = frame[u]
        BY <4>1, <4>2 DEF Few, At
      <4>3. CASE frame[u].pc = "joining" /\ frame'[u] = [frame[u] EXCEPT !.pc = "joined"]
        <5>1. frame'[u].pc = "joined" /\ frame'[u].op = frame[u].op
          BY <1>0, <4>3 DEF Frame
        <5> QED
          BY <4>1, <4>3, <5>1 DEF Few, At
      <4> QED
        BY <2>1, <3>2, <4>2, <4>3 DEF Advances
    <3> QED
      BY <3>1, <3>2
  <2> QED
    BY <2>4, <2>5, <2>7, <2>8, SupStays, QuietBy
<1> QED
  BY <1>1, <1>2

\* connect_all connects a backend, for the first time.
LEMMA BootQuiet ==
    ASSUME SupTyped, QuietInv, Serving, NEW t \in Tasks \ Owned, NEW n \in Names, Boot(t, n), UNCHANGED phase
    PROVE  QuietInv'
<1>0. /\ Typed /\ MgrTyped /\ Outside /\ Idle(t) /\ n \in boot /\ phase = "boot" /\ boot' = boot \ {n}
      /\ connections \in [Names -> Conns \cup {NoConn}] /\ connections[n] = NoConn /\ boot \subseteq Names
      /\ state \in [Conns -> ConnectionState]
  BY ManagingOutside DEF SupTyped, MgrTyped, MgrTypeOK, Typed, TypeOK, Managing, Start, Boot, QuietInv, Booting
<1> DEFINE f == NewFrame("boot", IF connecting[n] = NoTask THEN "connecting" ELSE "joining", n, NoName)
<1>1. frame' = [frame EXCEPT ![t] = f] /\ OnlyTask(t)
  BY <1>0, ConnectBegins DEF Boot
<1>2. f.op = "boot" /\ f.pc \in {"connecting", "joining"}
  BY DEF NewFrame
<1> HIDE DEF f
<1>3. frame'[t] = f /\ \A u \in Tasks \ {t} : frame'[u] = frame[u]
  BY <1>0, <1>1 DEF MgrTyped, MgrTypeOK
<1>4. \A u \in Tasks \ Owned : Few(u)'
  BY <1>2, <1>3 DEF QuietInv, Few, At
<1>5. \A m \in Names : Sup(m)' = Sup(m)
  BY <1>0 DEF Outside, Sup
<1>6. Closing'
  BY <1>2, <1>3, ServingCloses DEF Halting
<1>7. /\ \A m \in Names \ {n} : connections'[m] = connections[m]
      /\ \A c \in Conns : state'[c] \in Ups => state[c] \in Ups
      /\ job'[t].op \in Trying => connections'[n] = job'[t].conn
  <2>1. CASE connecting[n] = NoTask
    BY <1>0, <2>1, ConnectBegins DEF Boot, OnlyConn, Ups
  <2>2. CASE connecting[n] # NoTask
    BY <1>0, <2>2, ConnectBegins DEF Boot, IdleJob, Trying
  <2> QED
    BY <2>1, <2>2
<1>8. Backed'
  <2>1. ASSUME NEW c \in Conns, state'[c] \in Ups PROVE \E m \in Names : connections'[m] = c
    <3>1. PICK m \in Names : connections[m] = c
      BY <1>0, <1>7, <2>1 DEF QuietInv, Backed
    <3> QED
      BY <1>0, <1>7, <3>1, NullsAssumption
  <2>2. ASSUME NEW u \in Tasks, job'[u].op \in Trying PROVE \E m \in Names : connections'[m] = job'[u].conn
    <3>1. CASE u = t
      BY <1>7, <2>2, <3>1
    <3>2. CASE u # t
      <4>1. job'[u] = job[u] /\ job[u].conn \in Conns
        BY <1>0, <1>1, <2>2, <3>2 DEF OnlyTask, Typed, JobShape, Trying
      <4>2. PICK m \in Names : connections[m] = job[u].conn
        BY <1>0, <2>2, <4>1 DEF QuietInv, Backed
      <4> QED
        BY <1>0, <1>7, <4>1, <4>2, NullsAssumption
    <3> QED
      BY <3>1, <3>2
  <2>3. \A m \in Names : ~Exists(m)'
    BY <1>0, <1>5, SupStays DEF QuietInv, Booting
  <2> QED
    BY <2>1, <2>2, <2>3 DEF Backed
<1>9. Booting'
  <2>1. \A m \in boot' : connections'[m] = NoConn
    BY <1>0, <1>7 DEF QuietInv, Booting
  <2>2. \A m \in Names : ~Exists(m)'
    BY <1>0, <1>5, SupStays DEF QuietInv, Booting
  <2> QED
    BY <1>0, <2>1, <2>2 DEF Booting
<1> QED
  BY <1>0, <1>4, <1>6, <1>8, <1>9 DEF QuietInv, ShutdownQuiet

\* The steps of the manager.
LEMMA ManagingQuiet ==
    ASSUME Unattended, SupTyped, QuietInv, Managing, UNCHANGED phase
    PROVE  QuietInv'
<1>0. /\ Typed /\ MgrTyped /\ Outside /\ frame \in [Tasks -> Frame]
      /\ \A n \in Names : Sup(n)' = Sup(n)
  BY ManagingOutside DEF SupTyped, MgrTyped, MgrTypeOK, Outside, Sup
<1>1. ASSUME NEW t \in Tasks \ Owned, NEW n \in Names, Stop(t, n), Serving PROVE QuietInv'
  <2> DEFINE f == NewFrame("stop", "evicting", NoName, n)
  <2>1. f.op = "stop" /\ f.pc = "evicting" /\ f.name = NoName /\ frame' = [frame EXCEPT ![t] = f]
    BY <1>1 DEF NewFrame, Stop, SetFrame
  <2> HIDE DEF f
  <2>2. frame'[t] = f /\ \A u \in Tasks \ {t} : frame'[u] = frame[u]
    BY <1>0, <2>1
  <2>3. Settling(t, connections[n]) /\ connections[n] \in Conns /\ UNCHANGED <<connections, boot>>
    BY <1>0, <1>1, NamedConn DEF Stop, EvictBegin, Settling
  <2>4. NoRise
    BY <1>0, <2>3, SettlingNoRise
  <2>5. \A u \in Tasks \ Owned : Few(u)'
    BY <2>1, <2>2 DEF QuietInv, Few, At, Halting
  <2>6. Closing'
    BY <1>1, <2>1, <2>2, ServingCloses DEF Halting
  <2> QED
    BY <1>0, <2>3, <2>4, <2>5, <2>6, SupStays, QuietBy
<1>2. CASE Sweep /\ Serving
  <2>1. NoRise /\ UNCHANGED <<connections, boot>>
    BY <1>2, UnchangedNoRise DEF Sweep, connVars
  <2>2. \A u \in Tasks : frame'[u] = frame[u] \/ (frame'[u].op = "reap" /\ frame'[u].pc = "evict" /\ frame'[u].name = NoName)
    <3>1. \A v \in Names : LET f == NewFrame("reap", "evict", NoName, v) IN f.op = "reap" /\ f.pc = "evict" /\ f.name = NoName
      BY DEF NewFrame
    <3> QED
      BY <1>0, <1>2, <3>1, SweepFrames
  <2>3. \A u \in Tasks \ Owned : Few(u)'
    BY <2>2 DEF QuietInv, Few, At, Halting
  <2>4. Closing'
    BY <1>2, <2>2, ServingCloses DEF Halting
  <2> QED
    BY <1>0, <2>1, <2>3, <2>4, SupStays, QuietBy
<1>3. ASSUME NEW n \in Names, Ages(n) PROVE QuietInv'
  <2>1. NoRise /\ UNCHANGED <<connections, boot, frame, job>>
    BY <1>3, UnchangedNoRise DEF Ages, connVars
  <2>2. Closing' /\ \A u \in Tasks \ Owned : Few(u)'
    BY <2>1 DEF QuietInv, Closing, Few, Serving, Idle, At, Active, Sup
  <2> QED
    BY <1>0, <2>1, <2>2, SupStays, QuietBy
<1>4. ASSUME NEW t \in Tasks \ Owned, NEW n \in Names, Start(t, n) PROVE Boot(t, n) \/ Stop(t, n)
  BY <1>4 DEF Unattended, Start, Warm, Reconnect, Route, Add, Remove, Replace, DrainOld, NoReload
<1> QED
  BY <1>1, <1>2, <1>3, <1>4, BootQuiet, ContinueQuiet DEF Managing

\* disconnect_all: it begins, stops a supervisor, closes a connection.
LEMMA HaltingQuiet ==
    ASSUME SupTyped, QuietInv, NEW t \in Tasks,
           Shutdown(t) \/ (\E n \in Names : StopSupervisor(t, n) \/ ShutdownCloses(t, n))
    PROVE  QuietInv'
<1>0. /\ Typed /\ frame \in [Tasks -> Frame] /\ job \in [Tasks -> Job] /\ \A n \in Names : Supervised(n)
      /\ connections \in [Names -> Conns \cup {NoConn}]
  BY DEF SupTyped, MgrTyped, MgrTypeOK, Typed, TypeOK, Posted
<1>1. CASE Shutdown(t)
  <2> DEFINE f == NewFrame("shutdown", "stopping", NoName, NoName)
  <2>1. f.op = "shutdown" /\ f.pc = "stopping" /\ frame' = [frame EXCEPT ![t] = f] /\ t \in Tasks \ Owned
    BY <1>1 DEF NewFrame, Shutdown, SetFrame
  <2> HIDE DEF f
  <2>2. frame'[t] = f /\ \A u \in Tasks \ {t} : frame'[u] = frame[u]
    BY <1>0, <2>1
  <2>3. Serving /\ phase # "boot" /\ phase' = "stopping" /\ UNCHANGED <<state, job, connections, boot>>
    BY <1>1 DEF Shutdown, Serving, connVars
  <2>4. \A n \in Names : Sup(n)' = Sup(n)
    BY <2>1, <2>2, SupTasks DEF Sup
  <2>5. Backed'
    BY <2>3, <2>4, SupStays, UnchangedNoRise, BackedKept DEF QuietInv, Serving
  <2>6. Booting'
    BY <2>3 DEF QuietInv, Booting
  <2>7. \A u \in Tasks \ Owned : Few(u)'
    BY <2>1, <2>2 DEF QuietInv, Few, At, Halting
  <2>8. Closing'
    <3>1. \A u \in Tasks : frame[u].pc \notin Halting
      BY <2>3 DEF SupTyped, Posted
    <3>2. \A u \in Tasks \ Owned : u # t => Idle(u)'
      BY <1>1, <2>2, <2>3 DEF Shutdown, Idle
    <3> QED
      BY <2>1, <2>2, <2>3, <3>1, <3>2 DEF Closing, Halting, At
  <2> QED
    BY <2>3, <2>5, <2>6, <2>7, <2>8 DEF QuietInv, ShutdownQuiet
<1>2. ASSUME NEW n \in Names, StopSupervisor(t, n) PROVE QuietInv'
  <2> DEFINE f == [Sup(n) EXCEPT !.pc = "done"]
  <2>1. f.pc = "done" /\ f.conn = Sup(n).conn /\ frame' = [frame EXCEPT ![SupTask[n]] = f]
    BY <1>0, <1>2, SupTasks DEF StopSupervisor, Sup, Frame
  <2> HIDE DEF f
  <2>2. Sup(n)' = f /\ \A u \in Tasks \ {SupTask[n]} : frame'[u] = frame[u]
    BY <1>0, <2>1, SupTasks DEF Sup
  <2>3. UNCHANGED <<connections, boot, phase>> /\ Exists(n)
    BY <1>2 DEF StopSupervisor, Active, Exists
  <2>4. NoRise /\ \A u \in Tasks \ Owned : job'[u] = job[u]
    <3>1. UNCHANGED <<state, job>> \/ ConnectCancelled(SupTask[n])
      BY <1>2 DEF StopSupervisor, connVars
    <3>2. CASE ConnectCancelled(SupTask[n])
      <4>1. Settling(SupTask[n], Sup(n).conn) /\ Sup(n).conn \in Conns /\ SupTask[n] \in Tasks
        BY <1>0, <2>3, <3>2, SupTasks DEF Settling, Supervised
      <4> QED
        BY <1>0, <3>2, <4>1, SupTasks, FinishAt, SettlingNoRise DEF ConnectCancelled
    <3> QED
      BY <3>1, <3>2, UnchangedNoRise
  <2>5. \A m \in Names : (Exists(m)' => Exists(m) /\ Sup(m)'.conn = Sup(m).conn) /\ (Active(m)' => Active(m))
    <3>1. ASSUME NEW m \in Names, m # n PROVE Sup(m)' = Sup(m)
      BY <2>2, <3>1, SupTasks DEF Sup
    <3> QED
      BY <2>1, <2>2, <2>3, <3>1 DEF Exists, Active
  <2>6. \A u \in Tasks \ Owned : Few(u)'
    BY <2>2, SupTasks DEF QuietInv, Few, At
  <2>7. Closing'
    <3>1. \A u \in Tasks : frame'[u] = frame[u] \/ frame'[u].pc \notin Halting
      BY <2>1, <2>2 DEF Halting, Sup
    <3>2. \A u \in Tasks \ Owned : frame'[u] = frame[u] /\ job'[u] = job[u]
      BY <2>2, <2>4, SupTasks
    <3> QED
      BY <2>3, <2>5, <3>1, <3>2 DEF QuietInv, Closing, Serving, Idle, At, Halting
  <2> QED
    BY <2>3, <2>4, <2>5, <2>6, <2>7, QuietBy
<1>3. ASSUME NEW n \in Names, ShutdownCloses(t, n) PROVE QuietInv'
  <2> DEFINE f == [frame[t] EXCEPT !.pc = "disconnecting"]
  <2>1. f.pc = "disconnecting" /\ f.op = frame[t].op /\ frame' = [frame EXCEPT ![t] = f]
    BY <1>0, <1>3 DEF ShutdownCloses, Goto, Frame
  <2> HIDE DEF f
  <2>2. frame'[t] = f /\ \A u \in Tasks \ {t} : frame'[u] = frame[u]
    BY <1>0, <2>1
  <2>3. /\ UNCHANGED <<connections, boot, phase>> /\ frame[t].pc \in Halting /\ t \notin Owned /\ ~Serving
        /\ \A m \in Names : ~Active(m)
    <3>1. frame[t].pc \in Halting /\ \A m \in Names : ~Active(m)
      BY <1>3 DEF ShutdownCloses, MayDisconnect, At, Halting, QuietInv, Closing
    <3> QED
      BY <1>3, <3>1, NotOwned DEF ShutdownCloses, SupTyped, Posted, Halting, Supervising
  <2>4. NoRise /\ \A u \in Tasks \ {t} : job'[u] = job[u]
    <3>1. Settling(t, connections[n]) /\ connections[n] \in Conns /\ Disconnect(t, connections[n])
      BY <1>0, <1>3 DEF ShutdownCloses, Settling
    <3> QED
      BY <1>0, <3>1, SettlingNoRise, DisconnectBegins DEF OnlyTask
  <2>5. \A m \in Names : Sup(m)' = Sup(m)
    BY <2>2, <2>3, SupTasks DEF Sup
  <2>6. \A u \in Tasks \ Owned : Few(u)'
    BY <2>1, <2>2, <2>3 DEF QuietInv, Few, At, Halting
  <2>7. Closing'
    <3>1. phase = "stopping"
      BY <2>3 DEF QuietInv, Closing, Idle, NoFrame, Halting
    <3>2. \A u \in Tasks \ Owned : u # t => Idle(u)' \/ frame'[u].pc \in Halting
      BY <2>2, <2>3, <2>4 DEF QuietInv, Closing, Idle
    <3>3. \A u, v \in Tasks : frame'[u].pc \in Halting /\ frame'[v].pc \in Halting => u = v
      BY <2>1, <2>2, <2>3 DEF QuietInv, Closing
    <3>4. \A m \in Names : ~Active(m)'
      BY <2>3, <2>5, SupStays
    <3> QED
      BY <2>1, <2>2, <2>3, <3>1, <3>2, <3>3, <3>4 DEF Closing, Halting
  <2> QED
    BY <2>3, <2>4, <2>5, <2>6, <2>7, SupStays, QuietBy
<1> QED
  BY <1>1, <1>2, <1>3

\* disconnect_all ends: everything that was up is closed.
LEMMA DownQuiet ==
    ASSUME SupTyped, QuietInv, NEW t \in Tasks, ShutdownEnds(t)
    PROVE  QuietInv'
<1>0. Typed /\ frame \in [Tasks -> Frame] /\ job \in [Tasks -> Job]
  BY DEF SupTyped, MgrTyped, MgrTypeOK, Typed, TypeOK
<1>1. frame[t].pc \in Halting /\ \A m \in Names : ~Active(m)
  BY DEF ShutdownEnds, MayDisconnect, At, Halting, QuietInv, Closing
<1>2. t \notin Owned /\ ~Serving /\ phase = "stopping" /\ phase' = "down"
  <2>1. t \notin Owned /\ ~Serving
    BY <1>1, NotOwned DEF SupTyped, Posted, Halting, Supervising
  <2> QED
    BY <1>1, <2>1 DEF QuietInv, Closing, Idle, NoFrame, Halting, ShutdownEnds
<1>3. /\ frame'[t] = NoFrame /\ job'[t] = IdleJob
      /\ \A u \in Tasks \ {t} : frame'[u] = frame[u] /\ job'[u] = job[u]
  BY <1>0 DEF ShutdownEnds
<1>4. \A m \in Names : Sup(m)' = Sup(m)
  BY <1>2, <1>3, SupTasks DEF Sup
<1>5. \A u \in Tasks \ Owned : Idle(u)'
  BY <1>1, <1>2, <1>3 DEF QuietInv, Closing, Idle, IdleJob
<1>6. \A u \in Tasks : frame'[u].pc \notin Halting
  BY <1>1, <1>3 DEF QuietInv, Closing, NoFrame, Halting
<1>7. Closing'
  BY <1>5, <1>6 DEF Closing, At, Halting
<1>8. Booting'
  BY <1>2 DEF QuietInv, Booting, ShutdownEnds, Serving
<1>9. \A u \in Tasks \ Owned : Few(u)'
  BY <1>5 DEF Few, Idle, NoFrame, At
<1>10. ShutdownQuiet'
  <2>1. \A c \in Conns : state[c] \notin Ups
    BY <1>2, NullsAssumption DEF QuietInv, Backed, ShutdownEnds, Ups
  <2>2. UNCHANGED state
    BY DEF ShutdownEnds
  <2> QED
    BY <1>1, <1>4, <2>1, <2>2, SupStays DEF ShutdownQuiet, Ups
<1> QED
  BY <1>2, <1>7, <1>8, <1>9, <1>10 DEF QuietInv

\* What a supervisor that moves leaves alone: it is running before the shutdown
\* closes the first connection.
LEMMA SupervisorAlone ==
    ASSUME SupTyped, QuietInv, NEW n \in Names, NEW pc \in Supervising, Active(n), Goto(SupTask[n], pc),
           OnlyTask(SupTask[n]), UNCHANGED phase
    PROVE  /\ phase # "down" /\ phase # "boot" /\ Closing'
           /\ \A u \in Tasks \ Owned : Few(u)'
           /\ \A m \in Names : (Exists(m)' => Exists(m) /\ Sup(m)'.conn = Sup(m).conn) /\ (Active(m)' => Active(m))
<1>0. frame \in [Tasks -> Frame] /\ SupTask[n] \in Tasks /\ Exists(n)
  BY SupTasks DEF SupTyped, MgrTyped, MgrTypeOK, Active, Exists
<1> DEFINE f == [frame[SupTask[n]] EXCEPT !.pc = pc]
<1>1. f.pc = pc /\ f.conn = Sup(n).conn /\ frame' = [frame EXCEPT ![SupTask[n]] = f]
  BY <1>0 DEF Goto, Frame, Sup
<1> HIDE DEF f
<1>2. frame'[SupTask[n]] = f /\ \A u \in Tasks \ {SupTask[n]} : frame'[u] = frame[u]
  BY <1>0, <1>1
<1>3. phase # "down" /\ phase # "boot"
  BY <1>0 DEF QuietInv, ShutdownQuiet, Booting
<1>4. \A u \in Tasks \ Owned : frame'[u] = frame[u] /\ job'[u] = job[u]
  BY <1>2, SupTasks DEF OnlyTask
<1>5. \A u \in Tasks \ Owned : Few(u)'
  BY <1>4 DEF QuietInv, Few, At
<1>6. \A m \in Names : (Exists(m)' => Exists(m) /\ Sup(m)'.conn = Sup(m).conn) /\ (Active(m)' => Active(m))
  <2>1. ASSUME NEW m \in Names, m # n PROVE Sup(m)' = Sup(m)
    BY <1>2, <2>1, SupTasks DEF Sup
  <2> QED
    BY <1>0, <1>1, <1>2, <2>1 DEF Exists, Active, Sup
<1>7. Closing'
  <2>1. \A u \in Tasks : frame'[u] = frame[u] \/ frame'[u].pc \notin Halting
    BY <1>1, <1>2 DEF Halting, Supervising
  <2> QED
    BY <1>4, <1>6, <2>1 DEF QuietInv, Closing, Serving, Idle, At, Halting
<1> QED
  BY <1>3, <1>5, <1>6, <1>7

\* A supervisor begins an attempt, at the connection that is registered.
LEMMA LoopTopQuiet ==
    ASSUME SupTyped, QuietInv, NEW n \in Names, LoopTop(n)
    PROVE  QuietInv'
<1> DEFINE s == SupTask[n]
           c == Sup(n).conn
<1>0. /\ Typed /\ s \in Tasks /\ c \in Conns /\ Active(n) /\ state \in [Conns -> ConnectionState] /\ job \in [Tasks -> Job]
      /\ UNCHANGED <<connections, boot, phase>> /\ Goto(s, "attempt")
  BY SupTasks DEF SupTyped, Posted, Supervised, LoopTop, MayLoop, Active, Exists, MgrTyped, Typed, TypeOK
<1>1. job'[s].conn = c /\ OnlyTask(s) /\ \A d \in Conns : state'[d] \in Ups => state[d] \in Ups
  <2>1. CASE Connect(s, c)
    BY <1>0, <2>1, SuspendAt DEF Connect, OnlyTask, Ups
  <2>2. CASE ConnectNoop(s, c)
    BY <1>0, <2>2, SuspendAt DEF ConnectNoop, OnlyTask, Ups
  <2> QED
    BY <2>1, <2>2 DEF LoopTop
<1>2. /\ phase # "down" /\ phase # "boot" /\ Closing' /\ \A u \in Tasks \ Owned : Few(u)'
      /\ \A m \in Names : Exists(m)' => Exists(m) /\ Sup(m)'.conn = Sup(m).conn
  BY <1>0, <1>1, SupervisorAlone DEF Supervising
<1>3. Backed'
  <2>1. Backed /\ connections[n] = c
    BY <1>0, <1>2 DEF QuietInv, Backed, Active, Exists
  <2>2. \A t \in Tasks : job'[t].op \in Trying => \E m \in Names : connections[m] = job'[t].conn
    BY <1>1, <2>1 DEF Backed, OnlyTask
  <2> QED
    BY <1>0, <1>1, <1>2, <2>1, <2>2 DEF Backed
<1>4. Booting'
  BY <1>0, <1>2 DEF QuietInv, Booting
<1> QED
  BY <1>0, <1>2, <1>3, <1>4 DEF QuietInv, ShutdownQuiet

\* An attempt of a supervisor is over.
LEMMA AttemptQuiet ==
    ASSUME SupTyped, QuietInv, NEW n \in Names, Attempted(n) \/ AttemptFailed(n)
    PROVE  QuietInv'
<1> DEFINE s == SupTask[n]
           c == Sup(n).conn
<1>0. /\ Typed /\ s \in Tasks /\ c \in Conns /\ Active(n) /\ state \in [Conns -> ConnectionState] /\ job \in [Tasks -> Job]
      /\ UNCHANGED <<connections, boot, phase>>
  BY SupTasks DEF SupTyped, Posted, Supervised, Attempted, AttemptFailed, At, Sup, Active, Exists, MgrTyped, Typed, TypeOK
<1>1. NoRise /\ OnlyTask(s)
  <2>1. CASE Attempted(n)
    BY <1>0, <2>1, Collects, SettlingNoRise DEF Attempted, Settling
  <2>2. CASE AttemptFailed(n)
    <3>1. job'[s] = IdleJob /\ OnlyTask(s) /\ \A d \in Conns : state'[d] \in Ups => state[d] \in Ups
      BY <1>0, <2>2 DEF AttemptFailed, OnlyTask, Ups
    <3> QED
      BY <3>1 DEF NoRise, IdleJob, OnlyTask, Trying
  <2> QED
    BY <2>1, <2>2
<1>2. PICK pc \in Supervising : Goto(s, pc)
  BY DEF Attempted, AttemptFailed, Supervising
<1> QED
  BY <1>0, <1>1, <1>2, SupervisorAlone, QuietBy

\* A tick of the coordinator.
LEMMA CoordinateQuiet ==
    ASSUME SupTyped, QuietInv, Coordinate
    PROVE  QuietInv'
<1>0. /\ Typed /\ \A n \in Names : SupTask[n] \in Tasks /\ Given(n) \in Conns \cup {NoConn}
      /\ phase = "supervised" /\ UNCHANGED <<job, boot, phase>> /\ Backed
      /\ connections' = [n \in Names |-> Given(n)]
  BY CoordinateGives, SupTasks DEF SupTyped, MgrTyped, QuietInv
<1>1. ASSUME NEW n \in Names, connections[n] # NoConn PROVE connections'[n] = connections[n]
  BY <1>0, <1>1 DEF Given, Unnamed
<1>2. ASSUME NEW n \in Unsupervised
      PROVE  n \in Names /\ frame'[SupTask[n]].pc = "start" /\ frame'[SupTask[n]].conn = Given(n)
  <2>1. Sup(n)' = SupFrame(n, "start", Given(n)) /\ n \in Names
    BY CoordinateGives
  <2>2. SupFrame(n, "start", Given(n)).pc = "start" /\ SupFrame(n, "start", Given(n)).conn = Given(n)
    BY DEF SupFrame, NewFrame
  <2> QED
    BY <2>1, <2>2 DEF Sup
<1>3. Backed'
  <2>1. ASSUME NEW d \in Conns, state'[d] \in Ups PROVE \E n \in Names : connections'[n] = d
    <3>1. state[d] \in Ups
      BY <2>1, CoordinateGives DEF Ups
    <3> QED
      BY <1>0, <1>1, <3>1, NullsAssumption DEF Backed
  <2>2. ASSUME NEW t \in Tasks, job'[t].op \in Trying PROVE \E n \in Names : connections'[n] = job'[t].conn
    <3>1. job[t].conn \in Conns
      BY <1>0, <2>2 DEF Typed, JobShape, Trying
    <3> QED
      BY <1>0, <1>1, <2>2, <3>1, NullsAssumption DEF Backed
  <2>3. ASSUME NEW n \in Names, Exists(n)' PROVE Sup(n)'.conn = connections'[n]
    <3>1. CASE n \in Unsupervised
      BY <1>0, <1>2, <3>1 DEF Sup
    <3>2. CASE n \notin Unsupervised
      <4>1. Sup(n)' = Sup(n)
        BY <3>2, CoordinateGives, SupTasks DEF Sup
      <4>2. Given(n) = connections[n]
        BY <3>2 DEF Given, Unnamed
      <4> QED
        BY <1>0, <2>3, <4>1, <4>2 DEF Backed, Exists
    <3> QED
      BY <3>1, <3>2
  <2> QED
    BY <2>1, <2>2, <2>3 DEF Backed
<1>4. \A t \in Tasks : frame'[t] = frame[t] \/ (t \in Owned /\ frame'[t].pc = "start")
  BY <1>2, CoordinateGives, SupTasks
<1>5. \A u \in Tasks \ Owned : Few(u)'
  BY <1>4 DEF QuietInv, Few, At
<1>6. Closing'
  BY <1>0, <1>4, ServingCloses DEF Serving, Halting
<1>7. Booting'
  BY <1>0 DEF QuietInv, Booting
<1> QED
  BY <1>0, <1>3, <1>5, <1>6, <1>7 DEF QuietInv, ShutdownQuiet

\* The end of connect_all, without cold-start retries.
LEMMA BootEndsQuiet ==
    ASSUME Unattended, SupTyped, QuietInv, BootEnds
    PROVE  QuietInv'
<1>1. /\ phase = "boot" /\ phase' \in {"plain", "supervised"} /\ boot = {}
      /\ UNCHANGED <<state, job, connections, boot, frame>>
  BY DEF BootEnds, Unattended, connVars
<1>2. Backed'
  BY <1>1, UnchangedNoRise, BackedKept DEF QuietInv, Exists, Sup
<1>3. Closing'
  BY <1>1 DEF SupTyped, Posted, Serving, Closing, Halting, At
<1>4. Booting' /\ \A u \in Tasks \ Owned : Few(u)'
  BY <1>1 DEF QuietInv, Booting, Few, At
<1> QED
  BY <1>1, <1>2, <1>3, <1>4 DEF QuietInv, ShutdownQuiet

\* The start: nothing is connected, nobody supervises.
LEMMA QuietInit == SupInit => QuietInv
<1> SUFFICES ASSUME SupInit PROVE QuietInv
  OBVIOUS
<1>1. /\ \A t \in Tasks : job[t] = IdleJob
      /\ \A c \in Conns : state[c] = "disconnected"
      /\ \A n \in Names : connections[n] = NoConn
      /\ phase = "boot"
  BY DEF SupInit, MgrInit, ConnInit
<1>2. \A t \in Tasks : frame[t].pc = "idle" /\ (t \notin Owned => frame[t] = NoFrame)
  BY DEF SupInit, SupFrame, NewFrame, NoFrame
<1>3. Booting /\ Backed
  <2>1. \A n \in Names : ~Exists(n)
    BY <1>2, SupTasks DEF Exists, Sup
  <2>2. boot = Names
    BY DEF SupInit, MgrInit
  <2>3. \A c \in Conns : state[c] \notin Ups
    BY <1>1 DEF Ups
  <2>4. \A t \in Tasks : job[t].op \notin Trying
    BY <1>1 DEF Trying, IdleJob
  <2> QED
    BY <1>1, <2>1, <2>2, <2>3, <2>4 DEF Booting, Backed
<1>4. Closing /\ ShutdownQuiet /\ \A t \in Tasks \ Owned : Few(t)
  BY <1>1, <1>2 DEF Closing, Serving, ShutdownQuiet, Few, At, Halting, NoFrame
<1> QED
  BY <1>3, <1>4 DEF QuietInv

\* Every step keeps it.
LEMMA QuietNext ==
    ASSUME Unattended, SupTyped, QuietInv, [SupNext]_allVars
    PROVE  QuietInv'
<1>1. ASSUME NEW t \in Tasks, RetryStep(t) PROVE FALSE
  <2>1. frame[t].pc \in {"asleep", "next", "dropping"}
    BY <1>1 DEF RetryStep, RetryPass, RetryNext, RetryConnects, RetryPassEnds, At
  <2>2. t \notin Owned
    BY <2>1, NotOwned DEF Supervising
  <2> QED
    BY <2>1, <2>2 DEF QuietInv, Few, Halting
<1>2. CASE UNCHANGED allVars
  BY <1>2 DEF allVars, vars, connVars, mgrVars, supVars, QuietInv, Few, Booting, Closing, Backed, ShutdownQuiet,
     Serving, Idle, Exists, Active, Sup, At
<1> QED
  BY <1>1, <1>2, NextMoves, ManagingQuiet, HaltingQuiet, DownQuiet, LoopTopQuiet, AttemptQuiet, CoordinateQuiet,
     BootEndsQuiet DEF SupMoves, ShutdownStep, SupStep

\* After disconnect_all nothing is connected, and nobody connects, in a fleet in
\* which no request, no reload and no cold-start retry gives a backend another
\* connection than the one its supervisor owns.
THEOREM ShutdownsQuiet ==
    ASSUME Unattended
    PROVE  SupSpec => []ShutdownQuiet
<1>1. SupInit => SupTyped /\ QuietInv
  BY SupInitTyped, QuietInit
<1>2. SupTyped /\ QuietInv /\ [SupNext]_allVars => (SupTyped /\ QuietInv)'
  BY SupNextTyped, QuietNext
<1>3. SupTyped /\ QuietInv => ShutdownQuiet
  BY DEF QuietInv
<1> QED
  BY <1>1, <1>2, <1>3, PTL DEF SupSpec

================================================================================
