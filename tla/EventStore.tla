------------------------------ MODULE EventStore ------------------------------
(***************************************************************************)
(* InMemoryEventStore (streaming/event_store.py): the bounded buffers from *)
(* which a client that lost its connection is sent what it missed.         *)
(*                                                                         *)
(* A stream is in the store when it has events.  Event ids come from one   *)
(* counter, so event i is the (i+1)-th of the history `log', which the     *)
(* code does not keep.  An operation holds _lock and does not suspend but  *)
(* for the callbacks of a replay, which run after it has been released.    *)
(***************************************************************************)
EXTENDS Integers, Sequences, FiniteSets

CONSTANTS
    StreamIds,
    Readers,     \* concurrent replays
    MaxEvents,   \* max_events_per_stream
    MaxStreams,  \* max_streams
    MaxLog,      \* bound on the number of events of a behaviour
    NoStream

ASSUME StoreAssumption ==
    /\ NoStream \notin StreamIds
    /\ IsFiniteSet(StreamIds)
    /\ MaxEvents \in Nat \ {0}
    /\ MaxStreams \in Nat \ {0}
    /\ MaxLog \in Nat

VARIABLES
    events,   \* _streams: the ids in each stream's deque
    created,  \* created_at, as the id of the first event
    stale,    \* streams idle for longer than stream_ttl_s
    log,      \* all events ever stored; _next_event_id is its length
    replay    \* each reader's replay_events_after

storeVars == <<events, created, stale, log, replay>>

Kinds == {"priming", "progress", "answer"}

\* What one call has collected under the lock: the stream it found, how long
\* the log was then, whether the target was still buffered and its stream still
\* in the store, and the ids still to be sent and sent already.
Replay == [target : Int, stream : StreamIds \cup {NoStream}, upto : Nat,
           buffered : BOOLEAN, owned : BOOLEAN, queue : SUBSET Nat, sent : SUBSET Nat]

NoReplay == [target |-> -1, stream |-> NoStream, upto |-> 0,
             buffered |-> FALSE, owned |-> TRUE, queue |-> {}, sent |-> {}]

StoreTypeOK ==
    /\ events \in [StreamIds -> Seq(Nat)]
    /\ created \in [StreamIds -> Nat]
    /\ stale \in SUBSET StreamIds
    /\ log \in Seq([stream : StreamIds, kind : Kinds])
    /\ replay \in [Readers -> Replay]

Streams == {s \in StreamIds : events[s] # <<>>}

Ids(s) == {events[s][i] : i \in DOMAIN events[s]}

\* A message that is not None.
Real(e) == log[e + 1].kind # "priming"

StoreInit ==
    /\ events = [s \in StreamIds |-> <<>>]
    /\ created = [s \in StreamIds |-> 0]
    /\ stale = {}
    /\ log = <<>>
    /\ replay = [r \in Readers |-> NoReplay]

------------------------------------------------------------------------------
\* store_event()

\* append() to a deque of bounded length
Push(q, e) == Append(IF Len(q) = MaxEvents THEN Tail(q) ELSE q, e)

\* Mutant: streams are counted before the expired ones are pruned.
VictimsEarly(s, kept) ==
    IF s \in kept \/ Cardinality(Streams) < MaxStreams THEN {}
    ELSE {x \in kept : \A y \in kept : created[x] <= created[y]}

\* _get_or_create_stream of a new stream at the cap: the oldest one goes.
Victims(s, kept) ==
    IF s \in kept \/ Cardinality(kept) < MaxStreams THEN {}
    ELSE {x \in kept : \A y \in kept : created[x] <= created[y]}

\* Expired streams are pruned first, the one stored to included.
Store(s, kind) ==
    LET kept   == Streams \ stale
        others == (kept \ Victims(s, kept)) \ {s}
    IN
    /\ Len(log) < MaxLog
    /\ events' = [x \in StreamIds |->
                    IF x = s THEN Push(IF s \in kept THEN events[s] ELSE <<>>, Len(log))
                    ELSE IF x \in others THEN events[x]
                    ELSE <<>>]
    /\ created' = IF s \in kept THEN created ELSE [created EXCEPT ![s] = Len(log)]
    /\ stale' = {}
    /\ log' = Append(log, [stream |-> s, kind |-> kind])
    /\ UNCHANGED replay

\* stream_ttl_s passes without an event or a replay.
Expires(s) ==
    /\ s \in Streams \ stale
    /\ stale' = stale \cup {s}
    /\ UNCHANGED <<events, created, log, replay>>

------------------------------------------------------------------------------
\* replay_events_after()

\* Pass 1: the stream that holds the target.
Holders(target) == {s \in Streams : target \in Ids(s)}

\* Pass 2: the streams all of whose events are younger.
Candidates(target) == {s \in Streams : events[s][1] > target}

\* Mutant: the first candidate is taken, not the only one.
FoundFirst(target, s) ==
    \/ s \in Holders(target)
    \/ Holders(target) = {} /\ s \in Candidates(target)

Found(target, s) ==
    \/ s \in Holders(target)
    \/ Holders(target) = {} /\ Candidates(target) = {s}

\* Mutant: the target is sent again.
MissedSinceTarget(target, s) == {e \in Ids(s) : e >= target /\ Real(e)}

\* Priming events are not sent.
Missed(target, s) == {e \in Ids(s) : e > target /\ Real(e)}

\* The part under the lock.  Without a stream found (or a target that is not
\* a number) the call returns None and changes nothing.
Collect(r, target, s) ==
    /\ replay[r] = NoReplay
    /\ Found(target, s)
    /\ replay' = [replay EXCEPT ![r] =
                    [target |-> target, stream |-> s, upto |-> Len(log),
                     buffered |-> s \in Holders(target),
                     owned  |-> target + 1 \in DOMAIN log => log[target + 1].stream \in Streams,
                     queue  |-> Missed(target, s), sent |-> {}]]
    /\ stale' = stale \ {s}
    /\ UNCHANGED <<events, created, log>>

\* send_callback of the next event, in the order of the buffer.
Send(r) ==
    \E e \in replay[r].queue :
        /\ \A x \in replay[r].queue : e <= x
        /\ replay' = [replay EXCEPT ![r].queue = @ \ {e}, ![r].sent = @ \cup {e}]
        /\ UNCHANGED <<events, created, stale, log>>

\* The call returns, or a callback raises.
EndReplay(r) ==
    /\ replay[r].stream # NoStream
    /\ replay' = [replay EXCEPT ![r] = NoReplay]
    /\ UNCHANGED <<events, created, stale, log>>

StoreNext ==
    \/ \E s \in StreamIds, kind \in Kinds : Store(s, kind)
    \/ \E s \in StreamIds : Expires(s)
    \/ \E r \in Readers, target \in -1..Len(log), s \in StreamIds : Collect(r, target, s)
    \/ \E r \in Readers : Send(r) \/ EndReplay(r)

StoreSpec == StoreInit /\ [][StoreNext]_storeVars

------------------------------------------------------------------------------
\* Properties

\* A deque holds ids of its own stream in increasing order, so that "the order
\* of the buffer" is the order in which the events happened.
Ordered ==
    \A s \in StreamIds : \A i \in DOMAIN events[s] :
        /\ events[s][i] < Len(log)
        /\ log[events[s][i] + 1].stream = s
        /\ \A j \in DOMAIN events[s] : i < j => events[s][i] < events[s][j]

\* Whatever the ring buffer, the cap and the expiry have dropped, a buffer has
\* no holes: from its first event on it holds every event of its stream.
NoGaps ==
    \A s \in StreamIds : \A e \in 0..(Len(log) - 1) :
        /\ log[e + 1].stream = s
        /\ \E i \in DOMAIN events[s] : events[s][i] <= e
        => e \in Ids(s)

\* The events of stream s after the target, when the log had length upto.
History(target, s, upto) ==
    {e \in 0..(upto - 1) : e > target /\ log[e + 1].stream = s /\ Real(e)}

\* "no gap, no dup": a replay from an event that was still buffered sends every
\* later message of that stream, none of another one, each once and in order,
\* even when the store drops them while they are being sent.
ReplayExact ==
    \A r \in Readers :
        LET p == replay[r] IN
        p.buffered =>
            /\ p.sent \cup p.queue = History(p.target, p.stream, p.upto)
            /\ \A e \in p.sent, x \in p.queue : e < x

\* As long as the stream of the target is in the store, a replay is a replay
\* of that stream, also by the fallback for targets that are not buffered.
OwnerOrNothing ==
    \A r \in Readers :
        LET p == replay[r] IN
        p.stream # NoStream /\ p.target \in 0..(p.upto - 1) /\ p.owned
            => log[p.target + 1].stream = p.stream

\* A stream in use gives way to a new one only when max_streams others are in
\* use too: expired streams go first.
FreshKept ==
    [][\A s \in Streams \ stale : s \notin Streams' => Cardinality(Streams \ stale) >= MaxStreams]_storeVars

\* event_store.py:160: "Returns None when: ... The owning stream has been
\* evicted (max_streams cap or TTL)."  The code does not keep this: the fallback
\* takes the only younger stream.
EvictedNotReplayed == \A r \in Readers : replay[r].owned

==============================================================================
