----------------------------- MODULE HttpFrontEnd -----------------------------
(***************************************************************************)
(* POST /mcp of the built-in transport (server/http_server.py mcp_post,    *)
(* server/mcp_endpoint.py, protocol/product_operations.py): a request is   *)
(* read, admitted to a session and dispatched, and answered at once or     *)
(* when a backend has answered.  From the moment the body is there to the  *)
(* first await of the router nothing else runs.                            *)
(***************************************************************************)
EXTENDS Sessions

CONSTANTS
    Requests,  \* requests that can be under way at the same time
    NoSid      \* no Mcp-Session-Id header

VARIABLES
    request,   \* what each request is doing
    recovery   \* SLM_HUB_SESSION_RECOVERY

httpVars == <<request, recovery>>

\* A JSON-RPC message.  A tools/call names a tool; one of call_tool names an
\* inner tool, "none" standing for a missing or malformed one.
Tools == {"search_tools", "list_servers", "call_tool", "backend", "none"}

Message ==
    [method : {"initialize", "notification", "unknown", "list", "read"}, tool : {"none"}, inner : {"none"}]
        \cup [method : {"tools/call"}, tool : Tools, inner : Tools]

\* How a message is handled: "quiet" ones (notifications, unknown methods, bad
\* params) leave the session alone, "local" ones are answered from the registry
\* or with an error, "routed" ones wait for a backend.  call_tool does not call
\* itself, and the other two meta-tools do not nest.
Kind(msg) ==
    LET target == IF msg.tool = "call_tool" THEN msg.inner ELSE msg.tool
    IN  CASE msg.method = "initialize" -> "initialize"
          [] msg.method \in {"notification", "unknown"} -> "quiet"
          [] msg.method = "list" -> "local"
          [] msg.method = "read" -> "routed"
          [] msg.method = "tools/call" -> IF target = "backend" THEN "routed" ELSE "local"

\* `sessionless': the request is a modern one, or SLM_HUB_STATELESS is set, and
\* its header is not looked at.
Request ==
    [pc : {"idle", "posted", "running"},
     kind : {"none", "initialize", "quiet", "local", "routed"},
     sid : Sids \cup {NoSid}, sessionless : BOOLEAN,
     reply : {"none", "ok", "refused", "capacity", "error"}]

NoRequest ==
    [pc |-> "idle", kind |-> "none", sid |-> NoSid, sessionless |-> FALSE, reply |-> "none"]

HttpTypeOK ==
    /\ request \in [Requests -> Request]
    /\ recovery \in BOOLEAN

HttpInit ==
    /\ request = [r \in Requests |-> NoRequest]
    /\ recovery \in BOOLEAN

------------------------------------------------------------------------------

\* A client, of whatever session, sends a request.
Post(r, kind, s, sessionless) ==
    /\ request[r].pc = "idle"
    /\ sessionless => s = NoSid
    /\ request' = [request EXCEPT ![r] =
           [NoRequest EXCEPT !.pc = "posted", !.kind = kind, !.sid = s,
                             !.sessionless = sessionless]]
    /\ UNCHANGED <<sessionVars, recovery>>

Reply(r, reply) == request' = [request EXCEPT ![r] = [NoRequest EXCEPT !.reply = reply]]

\* handle_jsonrpc up to the first await that suspends.
Dispatch(r, s) ==
    request' = [request EXCEPT ![r] =
        IF request[r].kind = "routed"
        THEN [request[r] EXCEPT !.pc = "running", !.sid = s]
        ELSE [NoRequest EXCEPT !.reply = "ok"]]

\* Touch is the first thing the handlers do.
Touches(r) == request[r].kind \in {"local", "routed"}

\* A sessionless request goes by the name "stateless", which is no session.
HandleSessionless(r) ==
    /\ request[r].pc = "posted"
    /\ request[r].sessionless
    /\ Dispatch(r, NoSid)
    /\ UNCHANGED <<sessionVars, recovery>>

\* uuid4: an id that nobody has used.
Unused(s) == s \notin Active(sessions) /\ \A r \in Requests : request[r].sid # s

\* initialize with the id of a live session keeps it as it is (and does not
\* touch it); any other id, or a new one, becomes a session.  Nobody catches the
\* ValueError of create_session: without room the answer is a 500.
HandleInitialize(r) ==
    /\ request[r].pc = "posted"
    /\ request[r].kind = "initialize"
    /\ ~request[r].sessionless
    /\ \E s \in Sids :
          /\ IF request[r].sid = NoSid THEN Unused(s) ELSE s = request[r].sid
          /\ LET found == GetSession(sessions, s)
             IN  \/ /\ s \in Active(found)
                    /\ Reply(r, "ok")
                    /\ sessions' = found
                    /\ UNCHANGED <<since, ended>>
                 \/ /\ s \notin Active(found)
                    /\ AtCapacity(CleanupExpired(found))
                    /\ Reply(r, "error")
                    /\ sessions' = CleanupExpired(found)
                    /\ UNCHANGED <<since, ended>>
                 \/ /\ s \notin Active(found)
                    /\ ~AtCapacity(CleanupExpired(found))
                    /\ Reply(r, "ok")
                    /\ sessions' = Created(found, s)
                    /\ Used(s)
    /\ UNCHANGED recovery

HandleMissing(r) ==
    /\ request[r].pc = "posted"
    /\ request[r].kind # "initialize"
    /\ ~request[r].sessionless
    /\ request[r].sid = NoSid
    /\ Reply(r, "refused")
    /\ UNCHANGED <<sessionVars, recovery>>

\* Any other request of a session that is there.
HandleFound(r) ==
    LET s == request[r].sid
        found == GetSession(sessions, s)
    IN  /\ request[r].pc = "posted"
        /\ request[r].kind # "initialize"
        /\ ~request[r].sessionless
        /\ s # NoSid
        /\ s \in Active(found)
        /\ Dispatch(r, s)
        /\ IF Touches(r)
           THEN sessions' = Touch(found, s) /\ Used(s)
           ELSE sessions' = found /\ UNCHANGED <<since, ended>>
        /\ UNCHANGED recovery

\* ...and of one that is not: 404, or the session is made again, or 429 when
\* there is no room.
HandleUnknown(r) ==
    LET s == request[r].sid
        found == GetSession(sessions, s)
    IN  /\ request[r].pc = "posted"
        /\ request[r].kind # "initialize"
        /\ ~request[r].sessionless
        /\ s # NoSid
        /\ s \notin Active(found)
        /\ \/ /\ ~recovery
              /\ Reply(r, "refused")
              /\ sessions' = found
              /\ UNCHANGED <<since, ended>>
           \/ /\ recovery
              /\ AtCapacity(CleanupExpired(found))
              /\ Reply(r, "capacity")
              /\ sessions' = CleanupExpired(found)
              /\ UNCHANGED <<since, ended>>
           \/ /\ recovery
              /\ ~AtCapacity(CleanupExpired(found))
              /\ Dispatch(r, s)
              /\ sessions' = Created(found, s)
              /\ Used(s)
        /\ UNCHANGED recovery

\* The backend has answered.  The session may have expired or been destroyed
\* meanwhile; the answer is sent all the same.
Answer(r) ==
    /\ request[r].pc = "running"
    /\ Reply(r, "ok")
    /\ UNCHANGED <<sessionVars, recovery>>

HttpNext ==
    \/ \E r \in Requests :
          \/ \E kind \in {Kind(msg) : msg \in Message}, s \in Sids \cup {NoSid}, b \in BOOLEAN :
                Post(r, kind, s, b)
          \/ HandleSessionless(r)
          \/ HandleInitialize(r)
          \/ HandleMissing(r)
          \/ HandleFound(r)
          \/ HandleUnknown(r)
          \/ Answer(r)
    \/ \E s \in Sids : DestroySession(s) /\ UNCHANGED httpVars
    \/ GetStats /\ UNCHANGED httpVars
    \/ Tick /\ UNCHANGED httpVars

------------------------------------------------------------------------------
(* Properties *)

\* A request for a session that has expired or was destroyed is not served,
\* however long the entry stays in the table, unless recovery is on.
ServedWhileFresh ==
    [][ \A r \in Requests :
          /\ request[r].kind \in {"local", "routed"}
          /\ request[r].pc = "posted"
          /\ ~request[r].sessionless
          /\ ~recovery
          /\ request'[r].pc = "running" \/ request'[r].reply = "ok"
        => request[r].sid \in Fresh ]_<<sessionVars, httpVars>>

\* A client is turned away only when max_sessions clients are using the hub:
\* sessions that nobody uses do not keep it out.
RefusedOnlyWhenFull ==
    [][ \A r \in Requests :
          /\ request[r].pc = "posted"
          /\ request'[r].reply \in {"capacity", "error"}
          /\ request'[r].pc = "idle"
        => Cardinality(Fresh) >= MaxSessions ]_<<sessionVars, httpVars>>

==============================================================================
