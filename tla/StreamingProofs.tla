--------------------------- MODULE StreamingProofs ---------------------------
(***************************************************************************)
(* Proofs about EventStore and StreamingCall, for any number of streams,   *)
(* readers and calls and any bounds.                                       *)
(***************************************************************************)
EXTENDS StreamingCall, FiniteSetTheorems, TLAPS

\* What a replay carries with it refers to a prefix of the log.
ReplayShape ==
    \A r \in Readers :
        LET p == replay[r] IN
        /\ p.upto <= Len(log)
        /\ p.buffered => p.stream \in StreamIds

\* The inductive invariant of the event store.
StoreInv == StoreTypeOK /\ Ordered /\ NoGaps /\ ReplayShape /\ ReplayExact /\ OwnerOrNothing

\* Push adds its event at the end and drops at most the first one.
LEMMA PushShape ==
    ASSUME NEW q \in Seq(Nat), NEW e \in Nat
    PROVE  /\ Push(q, e) \in Seq(Nat)
           /\ Push(q, e) # <<>>
           /\ Push(q, e)[Len(Push(q, e))] = e
           /\ \E d \in {0, 1} :
                /\ d <= Len(q)
                /\ Len(Push(q, e)) = Len(q) + 1 - d
                /\ \A i \in 1..(Len(Push(q, e)) - 1) : Push(q, e)[i] = q[i + d]
<1>1. CASE Len(q) = MaxEvents
  <2>1. Len(q) >= 1 /\ q # <<>>
    BY <1>1, StoreAssumption
  <2>2. /\ Tail(q) \in Seq(Nat)
        /\ Len(Tail(q)) = Len(q) - 1
        /\ \A i \in 1..(Len(q) - 1) : Tail(q)[i] = q[i + 1]
    BY <2>1
  <2> QED
    BY <1>1, <2>1, <2>2 DEF Push
<1>2. CASE Len(q) # MaxEvents
  BY <1>2 DEF Push
<1> QED
  BY <1>1, <1>2

\* The log only grows.
LEMMA LogGrows ==
    ASSUME StoreTypeOK, NEW s \in StreamIds, NEW kind \in Kinds, Store(s, kind)
    PROVE  /\ log' \in Seq([stream : StreamIds, kind : Kinds])
           /\ Len(log') = Len(log) + 1
           /\ \A i \in 1..Len(log) : log'[i] = log[i]
           /\ log'[Len(log) + 1] = [stream |-> s, kind |-> kind]
BY DEF StoreTypeOK, Store

\* The three kinds of buffer after a store.
LEMMA BuffersAfter ==
    ASSUME StoreTypeOK, NEW s \in StreamIds, NEW kind \in Kinds, Store(s, kind)
    PROVE  /\ events' \in [StreamIds -> Seq(Nat)]
           /\ \E q \in {events[s], <<>>} : events'[s] = Push(q, Len(log))
           /\ \A x \in StreamIds \ {s} : events'[x] \in {events[x], <<>>}
<1>1. Len(log) \in Nat /\ events[s] \in Seq(Nat) /\ <<>> \in Seq(Nat)
  BY DEF StoreTypeOK
<1>2. Push(events[s], Len(log)) \in Seq(Nat) /\ Push(<<>>, Len(log)) \in Seq(Nat)
  BY <1>1, PushShape
<1> QED
  BY <1>1, <1>2 DEF StoreTypeOK, Store

LEMMA StoreTypeStep == StoreTypeOK /\ [StoreNext]_storeVars => StoreTypeOK'
<1> SUFFICES ASSUME StoreTypeOK, [StoreNext]_storeVars PROVE StoreTypeOK'
  OBVIOUS
<1>1. ASSUME NEW s \in StreamIds, NEW kind \in Kinds, Store(s, kind) PROVE StoreTypeOK'
  <2>1. created' \in [StreamIds -> Nat]
    BY <1>1 DEF StoreTypeOK, Store
  <2> QED
    BY <1>1, <2>1, LogGrows, BuffersAfter DEF StoreTypeOK, Store
<1>2. ASSUME NEW s \in StreamIds, Expires(s) PROVE StoreTypeOK'
  BY <1>2 DEF StoreTypeOK, Expires
<1>3. ASSUME NEW r \in Readers, NEW target \in -1..Len(log), NEW s \in StreamIds,
             Collect(r, target, s)
      PROVE  StoreTypeOK'
  <2>1. Missed(target, s) \in SUBSET Nat
    BY DEF Missed, Ids, StoreTypeOK
  <2>2. target \in Int /\ Len(log) \in Nat
    BY DEF StoreTypeOK
  <2> QED
    BY <1>3, <2>1, <2>2 DEF StoreTypeOK, Collect, Replay
<1>4. ASSUME NEW r \in Readers, Send(r) PROVE StoreTypeOK'
  <2>1. PICK e \in replay[r].queue :
           replay' = [replay EXCEPT ![r].queue = @ \ {e}, ![r].sent = @ \cup {e}]
    BY <1>4 DEF Send
  <2>2. replay[r] \in Replay
    BY DEF StoreTypeOK
  <2>3. replay' \in [Readers -> Replay]
    BY <2>1, <2>2 DEF StoreTypeOK, Replay
  <2> QED
    BY <1>4, <2>3 DEF StoreTypeOK, Send
<1>5. ASSUME NEW r \in Readers, EndReplay(r) PROVE StoreTypeOK'
  BY <1>5 DEF StoreTypeOK, EndReplay, NoReplay, Replay
<1>6. CASE UNCHANGED storeVars
  BY <1>6 DEF StoreTypeOK, storeVars
<1> QED
  BY <1>1, <1>2, <1>3, <1>4, <1>5, <1>6 DEF StoreNext

\* Buffers stay ordered and without holes: Push appends an id greater than all
\* others, and what it drops is the smallest.
LEMMA BuffersStep ==
    StoreTypeOK /\ Ordered /\ NoGaps /\ [StoreNext]_storeVars => (Ordered /\ NoGaps)'
<1> SUFFICES ASSUME StoreTypeOK, Ordered, NoGaps, [StoreNext]_storeVars
             PROVE  (Ordered /\ NoGaps)'
  OBVIOUS
<1>1. ASSUME NEW s \in StreamIds, NEW kind \in Kinds, Store(s, kind)
      PROVE  (Ordered /\ NoGaps)'
  <2> DEFINE n == Len(log)
  <2>1. /\ n \in Nat
        /\ Len(log') = n + 1
        /\ \A i \in 1..n : log'[i] = log[i]
        /\ log'[n + 1].stream = s
    <3>1. log'[n + 1] = [stream |-> s, kind |-> kind]
      BY <1>1, LogGrows
    <3> QED
      BY <1>1, <3>1, LogGrows DEF StoreTypeOK
  <2> HIDE DEF n
  <2>2. ASSUME NEW x \in StreamIds, x # s
        PROVE  /\ \A i \in DOMAIN events'[x] :
                    /\ events'[x][i] < Len(log')
                    /\ log'[events'[x][i] + 1].stream = x
                    /\ \A j \in DOMAIN events'[x] : i < j => events'[x][i] < events'[x][j]
               /\ \A e \in 0..(Len(log') - 1) :
                    /\ log'[e + 1].stream = x
                    /\ \E i \in DOMAIN events'[x] : events'[x][i] <= e
                    => e \in Ids(x)'
    <3>1. CASE events'[x] = <<>>
      BY <3>1
    <3>2. CASE events'[x] = events[x]
      <4>1. events[x] \in Seq(Nat)
        BY DEF StoreTypeOK
      <4>2. \A i \in DOMAIN events[x] : events[x][i] + 1 \in 1..n
        BY <4>1, <2>1 DEF Ordered, n
      <4>3. \A i \in DOMAIN events[x] : log'[events[x][i] + 1] = log[events[x][i] + 1]
        BY <4>2, <2>1
      <4>4. ASSUME NEW e \in 0..(Len(log') - 1), log'[e + 1].stream = x
            PROVE  e \in 0..(Len(log) - 1) /\ log[e + 1].stream = x
        <5>1. e \in 0..(n - 1) /\ e + 1 \in 1..n
          <6>1. e # n
            BY <4>4, <2>1, <2>2
          <6> QED
            BY <6>1, <2>1
        <5> QED
          BY <5>1, <4>4, <2>1 DEF n
      <4>5. \A i \in DOMAIN events[x] :
              /\ events[x][i] < Len(log')
              /\ log'[events[x][i] + 1].stream = x
              /\ \A j \in DOMAIN events[x] : i < j => events[x][i] < events[x][j]
        BY <4>1, <4>2, <4>3, <2>1 DEF Ordered
      <4>6. \A e \in 0..(Len(log') - 1) :
              log'[e + 1].stream = x /\ (\E i \in DOMAIN events[x] : events[x][i] <= e)
                => e \in Ids(x)
        BY <4>4 DEF NoGaps
      <4>7. Ids(x)' = Ids(x)
        BY <3>2 DEF Ids
      <4> QED
        BY <3>2, <4>5, <4>6, <4>7
    <3> QED
      BY <3>1, <3>2, <1>1, <2>2, BuffersAfter
  <2>3. PICK q \in {events[s], <<>>} : events'[s] = Push(q, n)
    BY <1>1, BuffersAfter DEF n
  <2>4. q \in Seq(Nat)
    <3>1. events[s] \in Seq(Nat) /\ <<>> \in Seq(Nat)
      BY DEF StoreTypeOK
    <3> QED
      BY <3>1
  <2>5. \A i \in DOMAIN q : /\ q[i] < n
                            /\ log[q[i] + 1].stream = s
                            /\ \A j \in DOMAIN q : i < j => q[i] < q[j]
    BY <2>3 DEF Ordered, n
  <2>6. \A e \in 0..(n - 1) :
          log[e + 1].stream = s /\ (\E i \in DOMAIN q : q[i] <= e)
            => \E i \in DOMAIN q : q[i] = e
    BY <2>3 DEF NoGaps, Ids, n
  <2> DEFINE p == events'[s]
  <2>7. /\ p \in Seq(Nat) /\ p # <<>>
        /\ p[Len(p)] = n
        /\ \E d \in {0, 1} : /\ d <= Len(q)
                             /\ Len(p) = Len(q) + 1 - d
                             /\ \A i \in 1..(Len(p) - 1) : p[i] = q[i + d]
    BY <2>1, <2>3, <2>4, PushShape
  <2>8. PICK d \in {0, 1} : /\ d <= Len(q)
                           /\ Len(p) = Len(q) + 1 - d
                           /\ \A i \in 1..(Len(p) - 1) : p[i] = q[i + d]
    BY <2>7
  <2> HIDE DEF p
  <2>9. /\ Len(p) \in Nat /\ Len(p) >= 1 /\ DOMAIN p = 1..Len(p)
        /\ \A i \in DOMAIN p : p[i] \in Nat
        /\ Len(q) \in Nat /\ DOMAIN q = 1..Len(q)
        /\ \A i \in DOMAIN q : q[i] \in Nat
    BY <2>4, <2>7
  <2>10. \A i \in 1..(Len(p) - 1) : i + d \in DOMAIN q
    BY <2>4, <2>7, <2>8
  <2>11. \A i \in 1..(Len(p) - 1) : p[i] < n /\ log'[p[i] + 1].stream = s
    <3> SUFFICES ASSUME NEW i \in 1..(Len(p) - 1)
                 PROVE  p[i] < n /\ log'[p[i] + 1].stream = s
      OBVIOUS
    <3>1. p[i] = q[i + d] /\ q[i + d] < n /\ log[q[i + d] + 1].stream = s /\ q[i + d] \in Nat
      BY <2>4, <2>5, <2>8, <2>10
    <3>2. p[i] + 1 \in 1..n
      BY <3>1, <2>1
    <3> QED
      BY <3>1, <3>2, <2>1
  <2>12. \A i \in DOMAIN p :
           /\ p[i] < Len(log')
           /\ log'[p[i] + 1].stream = s
           /\ \A j \in DOMAIN p : i < j => p[i] < p[j]
    <3>1. \A i \in DOMAIN p : i \in 1..(Len(p) - 1) \/ (i = Len(p) /\ p[i] = n)
      BY <2>7, <2>9
    <3>2. \A i \in 1..(Len(p) - 1) : i < Len(p) /\ p[i] \in Nat
      BY <2>9
    <3>3. \A i, j \in 1..(Len(p) - 1) : i < j => p[i] < p[j]
      <4> SUFFICES ASSUME NEW i \in 1..(Len(p) - 1), NEW j \in 1..(Len(p) - 1), i < j
                   PROVE  p[i] < p[j]
        OBVIOUS
      <4>1. p[i] = q[i + d] /\ p[j] = q[j + d] /\ i + d < j + d
        BY <2>8
      <4>2. i + d \in DOMAIN q /\ j + d \in DOMAIN q
        BY <2>10
      <4> QED
        BY <4>1, <4>2, <2>5
    <3> QED
      <4> SUFFICES ASSUME NEW i \in DOMAIN p
                   PROVE  /\ p[i] < Len(log')
                          /\ log'[p[i] + 1].stream = s
                          /\ \A j \in DOMAIN p : i < j => p[i] < p[j]
        OBVIOUS
      <4>1. CASE i \in 1..(Len(p) - 1)
        <5>1. p[i] < n /\ p[i] \in Nat /\ log'[p[i] + 1].stream = s
          BY <4>1, <3>2, <2>11
        <5>2. \A j \in DOMAIN p : i < j => p[i] < p[j]
          BY <4>1, <5>1, <3>1, <3>3
        <5> QED
          BY <5>1, <5>2, <2>1
      <4>2. CASE i = Len(p) /\ p[i] = n
        BY <4>2, <2>1, <2>9
      <4> QED
        BY <4>1, <4>2, <3>1
  <2>13. ASSUME NEW e \in 0..(Len(log') - 1), log'[e + 1].stream = s,
                NEW i \in DOMAIN p, p[i] <= e
         PROVE  \E j \in DOMAIN p : p[j] = e
    <3>1. CASE e = n
      <4>1. Len(p) \in DOMAIN p
        BY <2>7
      <4> QED
        BY <3>1, <4>1, <2>7
    <3>2. CASE e # n
      <4>1. e \in 0..(n - 1) /\ e + 1 \in 1..n
        BY <3>2, <2>1
      <4>2. log[e + 1].stream = s
        BY <4>1, <2>13, <2>1
      <4>3. i \in 1..(Len(p) - 1)
        <5>1. p[i] # n
          BY <4>1, <2>1, <2>9, <2>13
        <5>2. i # Len(p)
          BY <5>1, <2>7
        <5> QED
          BY <5>2, <2>9
      <4>4. i + d \in DOMAIN q /\ q[i + d] = p[i]
        BY <4>3, <2>8, <2>10
      <4>5. PICK k \in DOMAIN q : q[k] = e
        BY <4>1, <4>2, <4>4, <2>6, <2>13
      <4>6. ~(k < i + d)
        BY <4>4, <4>5, <2>5, <2>4, <2>13
      <4>7. k - d \in 1..(Len(p) - 1) /\ k - d \in DOMAIN p
        BY <4>3, <4>5, <4>6, <2>8, <2>9
      <4>8. p[k - d] = q[(k - d) + d]
        BY <4>7, <2>8
      <4>9. (k - d) + d = k
        BY <4>5, <2>4, <2>8
      <4> QED
        BY <4>5, <4>7, <4>8, <4>9
    <3> QED
      BY <3>1, <3>2
  <2>14. Ordered'
    BY <2>2, <2>12 DEF Ordered, p
  <2>15. NoGaps'
    BY <2>2, <2>13 DEF NoGaps, Ids, p
  <2> QED
    BY <2>14, <2>15
<1>2. CASE UNCHANGED <<events, log>>
  BY <1>2 DEF Ordered, NoGaps, Ids
<1> QED
  BY <1>1, <1>2 DEF StoreNext, storeVars, Expires, Collect, Send, EndReplay

\* A replay keeps its promise: what it has collected is fixed, and the part of
\* the log it refers to never changes.
LEMMA ReplayStep ==
    StoreInv /\ [StoreNext]_storeVars => (ReplayShape /\ ReplayExact /\ OwnerOrNothing)'
<1> SUFFICES ASSUME StoreInv, [StoreNext]_storeVars
             PROVE  (ReplayShape /\ ReplayExact /\ OwnerOrNothing)'
  OBVIOUS
<1> USE DEF StoreInv
<1>1. ASSUME NEW s \in StreamIds, NEW kind \in Kinds, Store(s, kind)
      PROVE  (ReplayShape /\ ReplayExact /\ OwnerOrNothing)'
  <2> SUFFICES ASSUME NEW r \in Readers
               PROVE  LET p == replay[r] IN
                      /\ p.upto <= Len(log')
                      /\ p.buffered => p.stream \in StreamIds
                      /\ p.buffered =>
                           /\ p.sent \cup p.queue = History(p.target, p.stream, p.upto)'
                           /\ \A e \in p.sent, x \in p.queue : e < x
                      /\ p.stream # NoStream /\ p.target \in 0..(p.upto - 1) /\ p.owned
                           => log'[p.target + 1].stream = p.stream
    BY <1>1 DEF Store, ReplayShape, ReplayExact, OwnerOrNothing, History, Real
  <2> DEFINE p == replay[r]
  <2>1. p.upto \in Nat /\ p.target \in Int /\ p.upto <= Len(log) /\ Len(log) \in Nat
    BY DEF StoreTypeOK, Replay, ReplayShape
  <2>2. Len(log') = Len(log) + 1 /\ \A i \in 1..Len(log) : log'[i] = log[i]
    BY <1>1, LogGrows
  <2>3. \A e \in 0..(p.upto - 1) : log'[e + 1] = log[e + 1]
    <3>1. \A e \in 0..(p.upto - 1) : e + 1 \in 1..Len(log)
      BY <2>1
    <3> QED
      BY <2>2, <3>1
  <2>4. History(p.target, p.stream, p.upto)' = History(p.target, p.stream, p.upto)
    BY <1>1, <2>3 DEF Store, History, Real
  <2>5. p.buffered => /\ p.stream \in StreamIds
                      /\ p.sent \cup p.queue = History(p.target, p.stream, p.upto)
                      /\ \A e \in p.sent, x \in p.queue : e < x
    BY DEF ReplayShape, ReplayExact
  <2>6. p.stream # NoStream /\ p.target \in 0..(p.upto - 1) /\ p.owned
          => log'[p.target + 1].stream = p.stream
    BY <2>3 DEF OwnerOrNothing
  <2>7. replay' = replay
    BY <1>1 DEF Store
  <2> QED
    BY <2>1, <2>2, <2>4, <2>5, <2>6, <2>7 DEF History, Real
<1>2. ASSUME NEW r \in Readers, NEW target \in -1..Len(log), NEW s \in StreamIds,
             Collect(r, target, s)
      PROVE  (ReplayShape /\ ReplayExact /\ OwnerOrNothing)'
  <2> DEFINE p == [target |-> target, stream |-> s, upto |-> Len(log),
                   buffered |-> s \in Holders(target),
                   owned |-> target + 1 \in DOMAIN log => log[target + 1].stream \in Streams,
                   queue |-> Missed(target, s), sent |-> {}]
  <2>1. replay' = [replay EXCEPT ![r] = p] /\ log' = log /\ replay \in [Readers -> Replay]
    BY <1>2 DEF Collect, StoreTypeOK
  <2>2. Len(log) \in Nat /\ events \in [StreamIds -> Seq(Nat)] /\ DOMAIN log = 1..Len(log)
    BY DEF StoreTypeOK
  <2>3. ASSUME s \in Holders(target) PROVE Missed(target, s) = History(target, s, Len(log))
    <3>1. PICK k \in DOMAIN events[s] : events[s][k] = target
      BY <2>3 DEF Holders, Ids
    <3>2. target \in Nat
      BY <3>1, <2>2
    <3>3. \A e \in Ids(s) : e \in 0..(Len(log) - 1) /\ log[e + 1].stream = s
      BY <2>2 DEF Ids, Ordered
    <3>4. ASSUME NEW e \in 0..(Len(log) - 1), e > target, log[e + 1].stream = s
          PROVE  e \in Ids(s)
      BY <3>1, <3>2, <3>4 DEF NoGaps
    <3> QED
      BY <3>3, <3>4 DEF Missed, History
  <2>4. ASSUME target \in 0..(Len(log) - 1),
               target + 1 \in DOMAIN log => log[target + 1].stream \in Streams
        PROVE  log[target + 1].stream = s
    <3> DEFINE o == log[target + 1].stream
    <3>1. o \in StreamIds /\ events[o] # <<>> /\ events[o] \in Seq(Nat)
      BY <2>2, <2>4 DEF Streams
    <3>2. CASE s \in Holders(target)
      BY <3>2 DEF Holders, Ids, Ordered
    <3>3. CASE Holders(target) = {} /\ Candidates(target) = {s}
      <4>1. target \notin Ids(o)
        BY <3>1, <3>3 DEF Holders, Streams
      <4>2. 1 \in DOMAIN events[o] /\ events[o][1] \in Nat
        BY <3>1
      <4>3. ~(events[o][1] <= target)
        BY <4>1, <4>2, <3>1, <2>4 DEF NoGaps
      <4>4. events[o][1] > target
        BY <4>2, <4>3
      <4> QED
        BY <4>4, <3>1, <3>3 DEF Candidates, Streams
    <3> QED
      BY <1>2, <3>2, <3>3 DEF Collect, Found
  <2>5. ASSUME NEW x \in Readers
        PROVE  /\ replay'[x].upto <= Len(log)
               /\ replay'[x].buffered => replay'[x].stream \in StreamIds
               /\ replay'[x].buffered =>
                    /\ replay'[x].sent \cup replay'[x].queue
                         = History(replay'[x].target, replay'[x].stream, replay'[x].upto)
                    /\ \A e \in replay'[x].sent, y \in replay'[x].queue : e < y
               /\ /\ replay'[x].stream # NoStream
                  /\ replay'[x].target \in 0..(replay'[x].upto - 1)
                  /\ replay'[x].owned
                  => log[replay'[x].target + 1].stream = replay'[x].stream
    <3>1. CASE x = r
      <4>1. replay'[x] = p
        BY <3>1, <2>1
      <4>2. /\ p.target = target /\ p.stream = s /\ p.upto = Len(log)
            /\ p.queue = Missed(target, s) /\ p.sent = {}
        OBVIOUS
      <4>3. p.buffered => s \in Holders(target)
        OBVIOUS
      <4>4. p.owned => (target + 1 \in DOMAIN log => log[target + 1].stream \in Streams)
        OBVIOUS
      <4> HIDE DEF p
      <4>5. p.upto <= Len(log) /\ (p.buffered => p.stream \in StreamIds)
        BY <4>2, <2>2
      <4>6. p.buffered => /\ p.sent \cup p.queue = History(p.target, p.stream, p.upto)
                          /\ \A e \in p.sent, y \in p.queue : e < y
        BY <4>2, <4>3, <2>3
      <4>7. p.stream # NoStream /\ p.target \in 0..(p.upto - 1) /\ p.owned
              => log[p.target + 1].stream = p.stream
        BY <4>2, <4>4, <2>4
      <4> QED
        BY <4>1, <4>5, <4>6, <4>7
    <3>2. CASE x # r
      <4>1. replay'[x] = replay[x]
        BY <3>2, <2>1
      <4> QED
        BY <4>1 DEF ReplayShape, ReplayExact, OwnerOrNothing
    <3> QED
      BY <3>1, <3>2
  <2> QED
    BY <2>1, <2>5 DEF ReplayShape, ReplayExact, OwnerOrNothing, History, Real
<1>3. ASSUME NEW r \in Readers, Send(r)
      PROVE  (ReplayShape /\ ReplayExact /\ OwnerOrNothing)'
  <2>1. PICK e \in replay[r].queue :
          /\ \A x \in replay[r].queue : e <= x
          /\ replay' = [replay EXCEPT ![r].queue = @ \ {e}, ![r].sent = @ \cup {e}]
          /\ log' = log
    BY <1>3 DEF Send
  <2>2. replay[r] \in Replay /\ replay \in [Readers -> Replay]
    BY DEF StoreTypeOK
  <2>3. /\ replay'[r].target = replay[r].target /\ replay'[r].stream = replay[r].stream
        /\ replay'[r].upto = replay[r].upto /\ replay'[r].owned = replay[r].owned
        /\ replay'[r].buffered = replay[r].buffered
        /\ replay'[r].queue = replay[r].queue \ {e}
        /\ replay'[r].sent = replay[r].sent \cup {e}
    BY <2>1, <2>2 DEF Replay
  <2>4. \A x \in Readers \ {r} : replay'[x] = replay[x]
    BY <2>1, <2>2
  <2>5. replay[r].queue \subseteq Nat /\ replay[r].sent \subseteq Nat
    BY <2>2 DEF Replay
  <2>6. ReplayShape' /\ OwnerOrNothing'
    <3>1. ASSUME NEW x \in Readers
          PROVE  /\ replay'[x].target = replay[x].target /\ replay'[x].stream = replay[x].stream
                 /\ replay'[x].upto = replay[x].upto /\ replay'[x].owned = replay[x].owned
                 /\ replay'[x].buffered = replay[x].buffered
      BY <2>3, <2>4
    <3> QED
      BY <3>1, <2>1 DEF ReplayShape, OwnerOrNothing
  <2>7. ReplayExact'
    <3> SUFFICES ASSUME NEW x \in Readers, replay'[x].buffered
                 PROVE  /\ replay'[x].sent \cup replay'[x].queue
                             = History(replay'[x].target, replay'[x].stream, replay'[x].upto)
                        /\ \A a \in replay'[x].sent, b \in replay'[x].queue : a < b
      BY <2>1 DEF ReplayExact, History, Real
    <3>1. CASE x # r
      BY <3>1, <2>4 DEF ReplayExact
    <3>2. CASE x = r
      <4>1. /\ replay[r].sent \cup replay[r].queue
                 = History(replay[r].target, replay[r].stream, replay[r].upto)
            /\ \A a \in replay[r].sent, b \in replay[r].queue : a < b
        BY <3>2, <2>3 DEF ReplayExact
      <4>2. replay[r].sent \cup replay[r].queue
              = (replay[r].sent \cup {e}) \cup (replay[r].queue \ {e})
        OBVIOUS
      <4>3. \A b \in replay[r].queue \ {e} : e < b
        BY <2>1, <2>5
      <4> QED
        BY <4>1, <4>2, <4>3, <3>2, <2>3
    <3> QED
      BY <3>1, <3>2
  <2> QED
    BY <2>6, <2>7
<1>4. ASSUME NEW r \in Readers, EndReplay(r)
      PROVE  (ReplayShape /\ ReplayExact /\ OwnerOrNothing)'
  <2>1. /\ log' = log
        /\ \A x \in Readers : replay'[x] = replay[x] \/ replay'[x] = NoReplay
    BY <1>4 DEF EndReplay, StoreTypeOK
  <2>2. 0 <= Len(log)
    BY DEF StoreTypeOK
  <2> QED
    BY <2>1, <2>2 DEF ReplayShape, ReplayExact, OwnerOrNothing, History, Real, NoReplay
<1>5. CASE UNCHANGED <<log, replay>>
  BY <1>5 DEF ReplayShape, ReplayExact, OwnerOrNothing, History, Real
<1> QED
  BY <1>1, <1>2, <1>3, <1>4, <1>5 DEF StoreNext, storeVars, Expires

LEMMA StoreInvInit == StoreInit => StoreInv
<1> SUFFICES ASSUME StoreInit PROVE StoreInv
  OBVIOUS
<1>1. StoreTypeOK
  BY DEF StoreInit, StoreTypeOK, NoReplay, Replay
<1>2. Ordered /\ NoGaps
  BY DEF StoreInit, Ordered, NoGaps
<1>3. ReplayShape /\ ReplayExact /\ OwnerOrNothing
  BY DEF StoreInit, ReplayShape, ReplayExact, OwnerOrNothing, NoReplay
<1> QED
  BY <1>1, <1>2, <1>3 DEF StoreInv

LEMMA StoreInvariant == StoreSpec => []StoreInv
<1>1. StoreInit => StoreInv
  BY StoreInvInit
<1>2. StoreInv /\ [StoreNext]_storeVars => StoreInv'
  BY StoreTypeStep, BuffersStep, ReplayStep DEF StoreInv
<1> QED
  BY <1>1, <1>2, PTL DEF StoreSpec

\* The buffers of the event store are ordered and have no holes, for any ring
\* size, any cap on the streams and any pattern of expiry.
THEOREM BuffersComplete == StoreSpec => [](Ordered /\ NoGaps)
<1>1. StoreInv => Ordered /\ NoGaps
  BY DEF StoreInv
<1> QED
  BY <1>1, StoreInvariant, PTL

\* "no gap, no dup guarantee": a replay from a buffered event is exact.
THEOREM ReplaysAreExact == StoreSpec => []ReplayExact
<1>1. StoreInv => ReplayExact
  BY DEF StoreInv
<1> QED
  BY <1>1, StoreInvariant, PTL

\* The fallback for targets that are not buffered never picks another stream
\* than the target's own while that one is in the store.
THEOREM ReplaysOfOwner == StoreSpec => []OwnerOrNothing
<1>1. StoreInv => OwnerOrNothing
  BY DEF StoreInv
<1> QED
  BY <1>1, StoreInvariant, PTL

\* Streams in use are dropped only at the cap.
THEOREM StreamsInUseAreKept == StoreSpec => FreshKept
<1> DEFINE Kept == \A s \in Streams \ stale :
                     s \notin Streams' => Cardinality(Streams \ stale) >= MaxStreams
<1>1. StoreTypeOK /\ [StoreNext]_storeVars => [Kept]_storeVars
  <2> SUFFICES ASSUME StoreTypeOK, StoreNext PROVE Kept
    OBVIOUS
  <2>1. ASSUME NEW x \in StreamIds, NEW kind \in Kinds, Store(x, kind) PROVE Kept
    <3> SUFFICES ASSUME NEW s \in Streams \ stale, s \notin Streams'
                 PROVE  Cardinality(Streams \ stale) >= MaxStreams
      OBVIOUS
    <3> DEFINE kept == Streams \ stale
    <3>1. s \in StreamIds /\ events[s] # <<>> /\ events'[s] = <<>>
      BY DEF Streams
    <3>2. s # x
      <4>1. PICK q \in {events[x], <<>>} : events'[x] = Push(q, Len(log))
        BY <2>1, BuffersAfter
      <4>2. events[x] \in Seq(Nat) /\ <<>> \in Seq(Nat) /\ Len(log) \in Nat
        BY DEF StoreTypeOK
      <4>3. events'[x] # <<>>
        <5>1. q \in Seq(Nat)
          BY <4>2
        <5> QED
          BY <4>1, <4>2, <5>1, PushShape
      <4> QED
        BY <3>1, <4>3
    <3>3. s \in Victims(x, kept)
      BY <2>1, <3>1, <3>2 DEF Store
    <3>4. ~(Cardinality(kept) < MaxStreams)
      BY <3>3 DEF Victims
    <3>5. Cardinality(kept) \in Nat
      <4>1. kept \subseteq StreamIds
        BY DEF Streams
      <4> QED
        BY <4>1, StoreAssumption, FS_Subset, FS_CardinalityType
    <3> QED
      BY <3>4, <3>5, StoreAssumption
  <2>2. CASE UNCHANGED events
    BY <2>2 DEF Streams
  <2> QED
    BY <2>1, <2>2 DEF StoreNext, Expires, Collect, Send, EndReplay
<1>2. StoreInv => StoreTypeOK
  BY DEF StoreInv
<1> QED
  BY <1>1, <1>2, StoreInvariant, PTL DEF StoreSpec, FreshKept

\* Streamed calls use the event store as it may be used, so that everything
\* proved about it holds while calls are made, dropped and resumed.
THEOREM CallsImplementStore == CallSpec => StoreSpec
<1>1. CallInit => StoreInit
  BY DEF CallInit
<1>2. [CallNext]_streamingVars => [StoreNext]_storeVars
  <2> SUFFICES ASSUME [CallNext]_streamingVars PROVE [StoreNext]_storeVars
    OBVIOUS
  <2>1. ASSUME NEW c \in Calls, Begin(c) \/ Progress(c) \/ Answered(c) PROVE StoreNext
    BY <2>1, CallAssumption DEF Begin, Progress, Answered, StoreNext, Kinds
  <2>2. ASSUME NEW c \in Calls, TokenUpdate(c) \/ Cancelled(c) \/ Resume(c)
        PROVE  UNCHANGED storeVars
    BY <2>2 DEF TokenUpdate, Cancelled, Resume
  <2>3. ASSUME StoreStep PROVE StoreNext
    BY <2>3 DEF StoreStep, StoreNext
  <2>4. CASE UNCHANGED streamingVars
    BY <2>4 DEF streamingVars
  <2> QED
    BY <2>1, <2>2, <2>3, <2>4 DEF CallNext
<1> QED
  BY <1>1, <1>2, PTL DEF CallSpec, StoreSpec

\* A call has asked for its tool once as soon as it has begun: the second
\* attempt is made with a token, and continues.
Starts ==
    /\ attempt \in [Calls -> {"none", "first", "second", "over"}]
    /\ started = [c \in Calls |-> IF attempt[c] = "none" THEN 0 ELSE 1]
    /\ \A c \in tokens : attempt[c] # "none"

\* A tool is started at most once for a call.
THEOREM ToolsRunAtMostOnce == CallSpec => []AtMostOnce
<1>1. CallInit => Starts
  BY DEF CallInit, Starts
<1>2. Starts /\ [CallNext]_streamingVars => Starts'
  <2> SUFFICES ASSUME Starts, [CallNext]_streamingVars PROVE Starts'
    OBVIOUS
  <2> USE DEF Starts
  <2>1. ASSUME NEW c \in Calls, Begin(c) PROVE Starts'
    BY <2>1 DEF Begin, CallToolStreaming
  <2>2. ASSUME NEW c \in Calls, TokenUpdate(c) PROVE Starts'
    BY <2>2 DEF TokenUpdate, Open
  <2>3. ASSUME NEW c \in Calls, Answered(c) \/ Cancelled(c) PROVE Starts'
    <3>1. Open(c) /\ Over(c)
      BY <2>3 DEF Answered, Cancelled
    <3>2. attempt[c] # "none" /\ attempt' = [attempt EXCEPT ![c] = "over"]
      BY <3>1 DEF Open, Over
    <3>3. started' = [d \in Calls |-> IF attempt'[d] = "none" THEN 0 ELSE 1]
      BY <3>1, <3>2 DEF Over
    <3> QED
      BY <3>1, <3>2, <3>3 DEF Over
  <2>4. ASSUME NEW c \in Calls, Resume(c) PROVE Starts'
    BY <2>4 DEF Resume, MayResume, CallToolStreaming
  <2>5. CASE UNCHANGED callVars
    BY <2>5 DEF callVars
  <2> QED
    BY <2>1, <2>2, <2>3, <2>4, <2>5 DEF CallNext, Progress, StoreStep, streamingVars
<1>3. Starts => AtMostOnce
  BY DEF Starts, AtMostOnce
<1> QED
  BY <1>1, <1>2, <1>3, PTL DEF CallSpec

==============================================================================
