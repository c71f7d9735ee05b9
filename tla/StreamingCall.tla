---------------------------- MODULE StreamingCall ----------------------------
(***************************************************************************)
(* Streamed tool calls: run_with_safe_resume (streaming/resume.py) with    *)
(* its ResumableCallContext (streaming/resumable.py), and the progress     *)
(* notifications and answers it sends to the client through the event      *)
(* store (streaming/progress.py).                                          *)
(*                                                                         *)
(* Every call has a fresh context, as the router makes it, and a stream of *)
(* its own.  A resumption token is only ever absent or present.            *)
(***************************************************************************)
EXTENDS EventStore

CONSTANTS
    Calls,
    StreamOf  \* the stream of each call's request

ASSUME CallAssumption ==
    /\ StreamOf \in [Calls -> StreamIds]
    /\ \A c, d \in Calls : StreamOf[c] = StreamOf[d] => c = d

VARIABLES
    attempt,  \* where each call is: its first or its second call_tool_streaming
    tokens,   \* contexts with a _current_token
    started   \* how often the backend was asked to run the tool anew

callVars == <<attempt, tokens, started>>

streamingVars == <<storeVars, callVars>>

CallTypeOK ==
    /\ StoreTypeOK
    /\ attempt \in [Calls -> {"none", "first", "second", "over"}]
    /\ tokens \in SUBSET Calls
    /\ started \in [Calls -> 0..2]

Open(c) == attempt[c] \in {"first", "second"}

\* call_tool_streaming(): without a token the backend starts the tool, with
\* one it continues.
CallToolStreaming(c, which) ==
    /\ attempt' = [attempt EXCEPT ![c] = which]
    /\ started' = [started EXCEPT ![c] = IF c \in tokens THEN @ ELSE @ + 1]

\* The client's request: its stream is primed, the tool called.
Begin(c) ==
    /\ attempt[c] = "none"
    /\ Store(StreamOf[c], "priming")
    /\ CallToolStreaming(c, "first")
    /\ UNCHANGED tokens

\* on_token_update
TokenUpdate(c) ==
    /\ Open(c)
    /\ tokens' = tokens \cup {c}
    /\ UNCHANGED <<storeVars, attempt, started>>

\* ProgressBridge: a notification that cannot be sent is forgotten.
Progress(c) ==
    /\ Open(c)
    /\ Store(StreamOf[c], "progress")
    /\ UNCHANGED callVars

\* clear() in the finally clause
Over(c) ==
    /\ attempt' = [attempt EXCEPT ![c] = "over"]
    /\ tokens' = tokens \ {c}
    /\ UNCHANGED started

\* A result, or an error that is not retried: the client is answered.
Answered(c) ==
    /\ Open(c)
    /\ Store(StreamOf[c], "answer")
    /\ Over(c)

\* CancelledError is not answered.
Cancelled(c) ==
    /\ Open(c)
    /\ Over(c)
    /\ UNCHANGED storeVars

\* Mutant: the call is made again without a token.
MayResumeAlways(c) == attempt[c] = "first"

\* Once, and only with a token.
MayResume(c) == attempt[c] = "first" /\ c \in tokens

\* CONNECTION_CLOSED or ResumptionError: the call is resumed (or Answered with
\* the error).
Resume(c) ==
    /\ MayResume(c)
    /\ CallToolStreaming(c, "second")
    /\ UNCHANGED <<storeVars, tokens>>

CallInit ==
    /\ StoreInit
    /\ attempt = [c \in Calls |-> "none"]
    /\ tokens = {}
    /\ started = [c \in Calls |-> 0]

\* The store on its own: time, and clients that come back.
StoreStep ==
    /\ \/ \E s \in StreamIds : Expires(s)
       \/ \E r \in Readers, target \in -1..Len(log), s \in StreamIds : Collect(r, target, s)
       \/ \E r \in Readers : Send(r) \/ EndReplay(r)
    /\ UNCHANGED callVars

CallNext ==
    \/ \E c \in Calls :
          \/ Begin(c) \/ TokenUpdate(c) \/ Progress(c)
          \/ Answered(c) \/ Cancelled(c) \/ Resume(c)
    \/ StoreStep

CallSpec == CallInit /\ [][CallNext]_streamingVars

------------------------------------------------------------------------------
\* Properties

\* resume.py, "Safety invariant": a tool, which need not be idempotent, is
\* started at most once for a call, whatever is lost and resumed.
AtMostOnce == \A c \in Calls : started[c] <= 1

==============================================================================
