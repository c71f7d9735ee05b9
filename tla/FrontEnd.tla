-------------------------------- MODULE FrontEnd --------------------------------
(***************************************************************************)
(* The client side of a hub process: `slm-hub start' serves any number of  *)
(* clients over HTTP, `slm-hub mcp' one client over stdio.  A process does *)
(* one of the two; each has a SessionManager.                              *)
(***************************************************************************)
EXTENDS HttpFrontEnd, StdioFrontEnd

VARIABLE mode  \* the command that was started

frontVars == <<mode, sessionVars, httpVars, stdioVars>>

FrontInit ==
    /\ mode \in {"start", "mcp"}
    /\ IF mode = "start" THEN SessionsInit ELSE StdioSession
    /\ HttpInit
    /\ mode = "mcp" => ~recovery
    /\ StdioInit

FrontNext ==
    \/ mode = "start" /\ HttpNext /\ UNCHANGED <<mode, stdioVars>>
    \/ mode = "mcp" /\ StdioNext /\ UNCHANGED <<mode, httpVars>>

Stdio(A) == mode = "mcp" /\ A /\ UNCHANGED <<mode, httpVars>>

\* Tasks of the event loop that can run do run.  Nothing makes a backend answer
\* (ServeHandled): a call has no timeout.
HubFairness ==
    /\ WF_frontVars(Stdio(ServeEnds))
    /\ WF_frontVars(Stdio(ServeReads))
    /\ SF_frontVars(Stdio(ServeLocked))
    /\ WF_frontVars(Stdio(Notify))
    /\ SF_frontVars(Stdio(Broadcast))
    /\ WF_frontVars(Stdio(ShutdownBegins))
    /\ WF_frontVars(Stdio(ShutdownEnds))

\* An assumption about the client: as long as it has the end it reads from, it
\* reads what it is sent, and it searches again when it is told to.
ClientFairness ==
    /\ WF_frontVars(Stdio(ClientReads))
    /\ SF_frontVars(Stdio(ClientSearches))

FrontSpec == FrontInit /\ [][FrontNext]_frontVars /\ HubFairness /\ ClientFairness

------------------------------------------------------------------------------
(* Properties *)

FrontTypeOK == SessionsTypeOK /\ HttpTypeOK /\ StdioTypeOK /\ mode \in {"start", "mcp"}

\* The backends answer every call they are sent, however late.
BackendsAnswer == []<>(serve # "handling")

\* notifications/tools/list_changed: a client that searches for the tools again
\* when it is told to comes to know the current set, although a change that is
\* reported during a broadcast is not announced on its own.
ComesToKnow ==
    BackendsAnswer =>
        (mode = "mcp" /\ client.seen # registry
            ~> client.seen = registry \/ ~client.sends \/ ~client.reads \/ serve = "ended")

\* When the client closes the end it sends by, wherever the two writers are, and
\* reads on or closes the other end too, then or later, the hub stops: its
\* session is destroyed, and no broadcast is left waiting for the client.  (One
\* that keeps the other end open and does not read leaves a writer in drain.)
StopsWithClient ==
    BackendsAnswer =>
        (mode = "mcp" /\ ~client.sends
            ~> stopping = "stopped" /\ StdioSid \notin Active(sessions) /\ writer = "none")

==============================================================================
