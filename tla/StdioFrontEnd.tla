---------------------------- MODULE StdioFrontEnd ----------------------------
(***************************************************************************)
(* The hub as a stdio server of one client (server/stdio_server.py), and   *)
(* the ChangeNotifier (lifecycle/notifier.py) that tells the client when   *)
(* the set of capabilities changes.  Two tasks write to the client, the    *)
(* serve loop and the broadcast, under one write lock; a message is        *)
(* written at once and the writer then waits, with the lock, until the     *)
(* client has read enough of it.                                           *)
(*                                                                         *)
(* External: the client, and the connection manager, which changes the     *)
(* registry (ConnectionManager!SyncRegistry).  Of the registry only a      *)
(* version of its key sets is kept: a change of a definition or of a       *)
(* resource template under the same keys is not announced.                 *)
(***************************************************************************)
EXTENDS Sessions, Sequences

CONSTANTS
    StdioSid,    \* the session of the client
    MaxChanges,  \* bound on the changes of the registry
    MaxLines,    \* bound on the lines that wait to be read by the hub
    PipeSize     \* messages the client may leave unread before a writer waits

ASSUME StdioAssumption ==
    /\ StdioSid \in Sids
    /\ {MaxChanges, MaxLines, PipeSize} \subseteq Nat

VARIABLES
    serve,       \* the serve loop
    answer,      \* the reply it has to write
    writer,      \* who holds the write lock
    inbox,       \* lines of the client
    outbox,      \* messages to the client
    client,      \* what the client knows
    registry,    \* version of the registry's key sets
    notifies,    \* notify_tools_changed tasks that have not run
    pending,     \* _pending_task
    subscribed,  \* the serve loop is a subscriber of the notifier
    stopping     \* runtime.stop

stdioVars == <<serve, answer, writer, inbox, outbox, client, registry, notifies, pending,
               subscribed, stopping>>

Version == 0..MaxChanges

\* "search" is a tools/call of search_tools, "list" a tools/list, whose reply
\* names the meta-tools of the hub only; "call" is whatever goes to a backend.
Line == {"search", "list", "call", "quiet", "malformed", "oversized"}

\* The reply to a search tells the version it was made from.
Out == [kind : {"reply", "changed", "found"}, version : Version]

Plain == [kind |-> "reply", version |-> 0]

StdioTypeOK ==
    /\ serve \in {"reading", "handling", "locking", "draining", "ended"}
    /\ answer \in Out
    /\ writer \in {"none", "serve", "notifier"}
    /\ inbox \in Seq(Line)
    /\ outbox \in Seq(Out)
    /\ client \in [sends : BOOLEAN, reads : BOOLEAN, seen : Version, behind : BOOLEAN]
    /\ registry \in Version
    /\ notifies \in Version
    /\ pending \in {"none", "sleeping", "locking", "draining", "cancelled", "done"}
    /\ subscribed \in BOOLEAN
    /\ stopping \in {"no", "shutdown", "stopped"}

\* serve has created the session, which it can unless max_sessions is zero...
StdioSession ==
    /\ MaxSessions > 0
    /\ sessions = [s \in Sids |-> IF s = StdioSid THEN 0 ELSE Absent]
    /\ since = [s \in Sids |-> IF s = StdioSid THEN 0 ELSE Timeout + 1]
    /\ ended = [s \in Sids |-> FALSE]

\* ...and subscribed; the client has searched for the tools.  It has two ends,
\* the one it sends by and the one it reads from.
StdioInit ==
    /\ serve = "reading"
    /\ answer = Plain
    /\ writer = "none"
    /\ inbox = <<>>
    /\ outbox = <<>>
    /\ client = [sends |-> TRUE, reads |-> TRUE, seen |-> 0, behind |-> FALSE]
    /\ registry = 0
    /\ notifies = 0
    /\ pending = "none"
    /\ subscribed = TRUE
    /\ stopping = "no"

------------------------------------------------------------------------------
(* Writing *)

\* drain will have to wait for the client.
Blocked == client.reads /\ Len(outbox) >= PipeSize

\* _write_message; an exception (nobody reads) is swallowed.
Write(who, msg) ==
    /\ writer = "none"
    /\ outbox' = IF client.reads THEN Append(outbox, msg) ELSE outbox
    /\ writer' = IF Blocked THEN who ELSE "none"

------------------------------------------------------------------------------
(* The serve loop *)

ServeOnly == UNCHANGED <<client, registry, notifies, pending, stopping>>

\* Mutant: at the end of the file the loop goes round again.
ServeEndsOnError ==
    /\ serve = "reading"
    /\ inbox # <<>> /\ Head(inbox) = "oversized"
    /\ serve' = "ended"
    /\ subscribed' = FALSE
    /\ DestroySession(StdioSid)
    /\ UNCHANGED <<answer, writer, inbox, outbox>>
    /\ ServeOnly

\* End of file, or a line of more than the 64 KiB of the StreamReader, which
\* readline answers with a ValueError; the finally block of serve.
ServeEnds ==
    /\ serve = "reading"
    /\ \/ ~client.sends /\ inbox = <<>>
       \/ inbox # <<>> /\ Head(inbox) = "oversized"
    /\ serve' = "ended"
    /\ subscribed' = FALSE
    /\ DestroySession(StdioSid)
    /\ UNCHANGED <<answer, writer, inbox, outbox>>
    /\ ServeOnly

\* The reply is written, or has to wait for the lock.
ServeReplies(msg) ==
    \/ /\ Write("serve", msg)
       /\ serve' = IF Blocked THEN "draining" ELSE "reading"
       /\ answer' = Plain
    \/ /\ writer # "none"
       /\ serve' = "locking"
       /\ answer' = msg
       /\ UNCHANGED <<writer, outbox>>

\* A request is served whether or not its session has expired.
StdioTouch ==
    /\ sessions' = Touch(sessions, StdioSid)
    /\ IF StdioSid \in Active(sessions') THEN Used(StdioSid) ELSE UNCHANGED <<since, ended>>

ServeReads ==
    /\ serve = "reading"
    /\ inbox # <<>>
    /\ Head(inbox) # "oversized"
    /\ inbox' = Tail(inbox)
    /\ \/ /\ Head(inbox) = "quiet"
          /\ UNCHANGED <<serve, answer, writer, outbox, sessionVars>>
       \/ /\ Head(inbox) = "malformed"
          /\ ServeReplies(Plain)
          /\ UNCHANGED sessionVars
       \/ /\ Head(inbox) = "search"
          /\ ServeReplies([kind |-> "found", version |-> registry])
          /\ StdioTouch
       \/ /\ Head(inbox) = "list"
          /\ ServeReplies(Plain)
          /\ StdioTouch
       \/ /\ Head(inbox) = "call"
          /\ serve' = "handling"
          /\ StdioTouch
          /\ UNCHANGED <<answer, writer, outbox>>
    /\ UNCHANGED subscribed
    /\ ServeOnly

\* The backend has answered.  Until it does nothing is read: the loop serves
\* one line after the other, and a call has no timeout.
ServeHandled ==
    /\ serve = "handling"
    /\ ServeReplies(Plain)
    /\ UNCHANGED <<inbox, subscribed, sessionVars>>
    /\ ServeOnly

ServeLocked ==
    /\ serve = "locking"
    /\ Write("serve", answer)
    /\ serve' = IF Blocked THEN "draining" ELSE "reading"
    /\ answer' = Plain
    /\ UNCHANGED <<inbox, subscribed, sessionVars>>
    /\ ServeOnly

------------------------------------------------------------------------------
(* The client *)

ClientSends(line) ==
    /\ client.sends
    /\ Len(inbox) < MaxLines
    /\ inbox' = Append(inbox, line)
    /\ client' = [client EXCEPT !.behind = IF line = "search" THEN FALSE ELSE @]
    /\ UNCHANGED <<serve, answer, writer, outbox, registry, notifies, pending, subscribed,
                   stopping, sessionVars>>

\* The writer that waits in drain goes on in the iteration of the event loop
\* that empties the buffer, before the client can act on what it got.
Drained(rest) ==
    /\ writer' = IF Len(rest) <= PipeSize THEN "none" ELSE writer
    /\ serve' = IF serve = "draining" /\ writer' = "none" THEN "reading" ELSE serve
    /\ pending' = IF pending = "draining" /\ writer' = "none" THEN "done" ELSE pending

\* A list_changed notification makes the client search again.
ClientReads ==
    /\ client.reads
    /\ outbox # <<>>
    /\ outbox' = Tail(outbox)
    /\ client' =
           CASE Head(outbox).kind = "found" -> [client EXCEPT !.seen = Head(outbox).version]
             [] Head(outbox).kind = "changed" -> [client EXCEPT !.behind = TRUE]
             [] OTHER -> client
    /\ Drained(outbox')
    /\ UNCHANGED <<answer, inbox, registry, notifies, subscribed, stopping, sessionVars>>

ClientSearches == client.behind /\ ClientSends("search")

\* It closes the end it sends by: the hub comes to the end of the file once it
\* has read what was sent.
ClientHangsUp ==
    /\ client.sends
    /\ client' = [client EXCEPT !.sends = FALSE, !.behind = FALSE]
    /\ UNCHANGED <<serve, answer, writer, inbox, outbox, registry, notifies, pending, subscribed,
                   stopping, sessionVars>>

\* It closes the end it reads from: what was written is lost, and the writer
\* that waits in drain gets an exception.
ClientStopsReading ==
    /\ client.reads
    /\ client' = [client EXCEPT !.reads = FALSE, !.behind = FALSE]
    /\ outbox' = <<>>
    /\ Drained(<<>>)
    /\ UNCHANGED <<answer, inbox, registry, notifies, subscribed, stopping, sessionVars>>

------------------------------------------------------------------------------
(* The notifier *)

NotifierOnly == UNCHANGED <<serve, answer, inbox, client, registry, subscribed, stopping, sessionVars>>

\* _sync_registry finds that the keys have changed, and creates a task.
RegistryChanges ==
    /\ registry < MaxChanges
    /\ stopping = "no"
    /\ registry' = registry + 1
    /\ notifies' = notifies + 1
    /\ UNCHANGED <<serve, answer, writer, inbox, outbox, client, pending, subscribed, stopping,
                   sessionVars>>

\* Mutant: a task that is done still counts.
NotifyOnce ==
    /\ notifies > 0
    /\ stopping # "shutdown"
    /\ notifies' = notifies - 1
    /\ pending' = IF pending = "none" THEN "sleeping" ELSE pending
    /\ UNCHANGED <<writer, outbox>>
    /\ NotifierOnly

\* notify_tools_changed: a change is left to the broadcast that is pending, or
\* under way.
Notify ==
    /\ notifies > 0
    /\ stopping # "shutdown"
    /\ notifies' = notifies - 1
    /\ pending' = IF pending \in {"none", "done"} THEN "sleeping" ELSE pending
    /\ UNCHANGED <<writer, outbox>>
    /\ NotifierOnly

Changed == [kind |-> "changed", version |-> 0]

\* The debounce time is over, or the write lock is free: _broadcast.
Broadcast ==
    /\ \/ /\ pending = "sleeping"
          /\ ~subscribed
          /\ pending' = "done"
          /\ UNCHANGED <<writer, outbox>>
       \/ /\ pending = "sleeping"
          /\ subscribed
          /\ writer # "none"
          /\ pending' = "locking"
          /\ UNCHANGED <<writer, outbox>>
       \/ /\ (pending = "sleeping" /\ subscribed) \/ pending = "locking"
          /\ Write("notifier", Changed)
          /\ pending' = IF Blocked THEN "draining" ELSE "done"
    /\ UNCHANGED notifies
    /\ NotifierOnly

\* runtime.stop, once serve has returned: ChangeNotifier.shutdown cancels the
\* broadcast and waits for it with the notifier's lock...
ShutdownBegins ==
    /\ serve = "ended"
    /\ stopping = "no"
    /\ stopping' = "shutdown"
    /\ pending' = IF pending \in {"sleeping", "locking", "draining"} THEN "cancelled" ELSE pending
    /\ writer' = IF pending = "draining" THEN "none" ELSE writer
    /\ UNCHANGED <<serve, answer, inbox, outbox, client, registry, notifies, subscribed, sessionVars>>

\* ...and then forgets it and every subscriber.
ShutdownEnds ==
    /\ stopping = "shutdown"
    /\ stopping' = "stopped"
    /\ pending' = "none"
    /\ subscribed' = FALSE
    /\ UNCHANGED <<serve, answer, writer, inbox, outbox, client, registry, notifies, sessionVars>>

\* What the event loop and the backends do.
StdioProgress ==
    \/ ServeEnds
    \/ ServeReads
    \/ ServeHandled
    \/ ServeLocked
    \/ Notify
    \/ Broadcast
    \/ ShutdownBegins
    \/ ShutdownEnds

StdioNext ==
    \/ StdioProgress
    \/ \E line \in Line : ClientSends(line)
    \/ ClientReads
    \/ ClientHangsUp
    \/ ClientStopsReading
    \/ RegistryChanges
    \/ Tick /\ UNCHANGED stdioVars

==============================================================================
